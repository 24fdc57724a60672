---------------------------- MODULE LoanOrigination ----------------------------
(***************************************************************************)
(* How an application becomes a loan: the borrower's and the admin's pages *)
(* over the application rows in Postgres, the admin route that looks for a *)
(* free loan id and originates the loan, the Stellar client that submits a *)
(* transaction and polls for it, and the admin account's sequence numbers. *)
(* Pages act on rows they polled, approvals overlap, and an answer may be  *)
(* lost at any step while the transaction it was about still applies.      *)
(***************************************************************************)
EXTENDS Naturals, Sequences

CONSTANTS
    Apps,       \* the loan applications, each of a borrower of its own
    Requests,   \* the approvals that pages ask for, retries included
    LastId,     \* the last loan id the route probes (29 in the code)
    Shown,      \* how many ids the pages probe (MAX_LOANS_TO_PROBE, 10)
    MaxTx,      \* a bound: the transactions of the admin account
    None,       \* no loan, no application
    Demo        \* the borrower of the loan that admin/initialize originates

ASSUME OriginationAssumption ==
    /\ LastId \in Nat /\ Shown \in Nat /\ MaxTx \in Nat
    /\ None \notin Apps \cup Requests \cup Nat
    /\ Demo \notin Apps \cup {None}

Ids == 0 .. LastId

VARIABLES
    row,      \* the application's row: its status and loan_id
    seen,     \* the status of each application that the pages polled last
    rejects,  \* the applications whose rejection is on its way to the store
    req,      \* the approvals: what the route is doing, and its transaction
    pool,     \* the approvals whose transaction may still be applied
    chain,    \* what became of each sequence number of the admin account
    loan      \* who borrows under a loan id of prism-core, None if nobody

vars == <<row, seen, rejects, req, pool, chain, loan>>

Statuses == {"pending", "approved", "rejected"}   \* of a row in the table

NoRequest == [app |-> None, at |-> "idle", id |-> 0, n |-> 0]

Init ==
    /\ row = [a \in Apps |-> [status |-> "new", id |-> None]]
    /\ seen = [a \in Apps |-> "new"]
    /\ rejects = {}
    /\ req = [r \in Requests |-> NoRequest]
    /\ pool = {}
    /\ chain = << >>
    /\ loan = [i \in Ids |-> None]

-----------------------------------------------------------------------------
(* The pages and the rows *)

Submit(a) ==
    /\ row[a].status = "new"
    /\ row' = [row EXCEPT ![a].status = "pending"]
    /\ UNCHANGED <<seen, rejects, req, pool, chain, loan>>

Refresh ==
    /\ seen' = [a \in Apps |-> row[a].status]
    /\ UNCHANGED <<row, rejects, req, pool, chain, loan>>

\* The update names the row by its id only: a deleted row stays deleted, and
\* every other one is overwritten whatever it said.
Patched(a, status, id) ==
    [row EXCEPT ![a] = IF @.status \in Statuses THEN [status |-> status, id |-> id] ELSE @]

\* A page does not wait for the answer to a rejection.
ClickReject(a) ==
    /\ seen[a] = "pending"
    /\ rejects' = rejects \cup {a}
    /\ UNCHANGED <<row, seen, req, pool, chain, loan>>

RejectArrives(a) ==
    /\ a \in rejects
    /\ row' = Patched(a, "rejected", None)
    /\ rejects' = rejects \ {a}
    /\ UNCHANGED <<seen, req, pool, chain, loan>>

\* The admin clears the table; a borrower who is done with a loan clears the
\* approved applications of everyone.
Clear ==
    /\ \E statuses \in {Statuses, {"approved"}} :
          row' = [a \in Apps |-> IF row[a].status \in statuses
                                 THEN [status |-> "gone", id |-> None] ELSE row[a]]
    /\ UNCHANGED <<seen, rejects, req, pool, chain, loan>>

-----------------------------------------------------------------------------
(* The route: probe the loan ids, then invoke init_loan *)

At(r, at)   == req[r].at = at
Goto(r, at) == req' = [req EXCEPT ![r].at = at]

\* The list page remembers one busy application and pages do not know of each
\* other, so that an application under way can be approved again.
ClickApprove(r, a) ==
    /\ seen[a] = "pending" /\ At(r, "idle")
    /\ req' = [req EXCEPT ![r] = [app |-> a, at |-> "probe", id |-> 0, n |-> 0]]
    /\ UNCHANGED <<row, seen, rejects, pool, chain, loan>>

\* Mutant: a failed read counts as a loan.
FreeIfRead(id, read) == read /\ loan[id] = None

Free(id, read) == read => loan[id] = None

\* Mutant: nothing ends the search.
NeverTooMany(id) == FALSE

TooMany(id) == id = LastId

Probe(r) ==
    /\ At(r, "probe")
    /\ \E read \in BOOLEAN :
          IF Free(req[r].id, read) THEN Goto(r, "account")
          ELSE IF TooMany(req[r].id) THEN Goto(r, "done")
          ELSE req' = [req EXCEPT ![r].id = @ + 1]
    /\ UNCHANGED <<row, seen, rejects, pool, chain, loan>>

LoadAccount(r) ==
    /\ At(r, "account")
    /\ req' = [req EXCEPT ![r].at = "prepare", ![r].n = Len(chain) + 1]
    /\ UNCHANGED <<row, seen, rejects, pool, chain, loan>>

\* init_loan goes through: AlreadyInitialized otherwise.
InitLoan(id) == loan[id] = None

Prepare(r) ==
    /\ At(r, "prepare")
    /\ Goto(r, IF InitLoan(req[r].id) THEN "send" ELSE "done")
    /\ UNCHANGED <<row, seen, rejects, pool, chain, loan>>

\* A sequence number that is used up is an ERROR; every other answer, "try
\* again later" included, is taken for a transaction that is on its way.
Send(r) ==
    /\ At(r, "send")
    /\ IF req[r].n <= Len(chain) THEN Goto(r, "done") /\ UNCHANGED pool
       ELSE Goto(r, "poll") /\ pool' \in {pool, pool \cup {r}}
    /\ UNCHANGED <<row, seen, rejects, chain, loan>>

\* getTransaction knows the transaction of r, and not another with its number.
Found(r) == req[r].n \in DOMAIN chain /\ chain[req[r].n].by = r

\* Mutant: a transaction that nobody has seen fail counts as done.
SucceededSoFar(r) == Found(r) => chain[req[r].n].ok

Succeeded(r) == Found(r) /\ chain[req[r].n].ok

\* After 30 s a transaction that is still not found counts as failed, though
\* it stays valid for 60 s.
PollTransaction(r) ==
    /\ At(r, "poll")
    /\ Goto(r, IF Succeeded(r) THEN "patch" ELSE "done")
    /\ UNCHANGED <<row, seen, rejects, pool, chain, loan>>

\* The page patches the row with the loan id that the route answered.
Patch(r) ==
    /\ At(r, "patch")
    /\ row' = Patched(req[r].app, "approved", req[r].id)
    /\ Goto(r, "done")
    /\ UNCHANGED <<seen, rejects, pool, chain, loan>>

\* A call throws, the function is cut off, or the page is closed.
Fail(r) ==
    /\ req[r].at \notin {"idle", "done"}
    /\ Goto(r, "done")
    /\ UNCHANGED <<row, seen, rejects, pool, chain, loan>>

-----------------------------------------------------------------------------
(* The Stellar network *)

\* A transaction is applied when its number is the account's next one; if
\* init_loan fails it only uses up the number.
Apply(r) ==
    /\ r \in pool /\ req[r].n = Len(chain) + 1 /\ Len(chain) < MaxTx
    /\ chain' = Append(chain, [by |-> r, ok |-> InitLoan(req[r].id)])
    /\ loan' = IF InitLoan(req[r].id) THEN [loan EXCEPT ![req[r].id] = req[r].app] ELSE loan
    /\ pool' = pool \ {r}
    /\ UNCHANGED <<row, seen, rejects, req>>

Expire(r) ==
    /\ r \in pool
    /\ pool' = pool \ {r}
    /\ UNCHANGED <<row, seen, rejects, req, chain, loan>>

\* The admin account signs other transactions; that of admin/initialize
\* originates loan 0 if there is none.
OtherTx ==
    /\ Len(chain) < MaxTx
    /\ chain' = Append(chain, [by |-> None, ok |-> TRUE])
    /\ loan' \in {loan, IF loan[0] = None THEN [loan EXCEPT ![0] = Demo] ELSE loan}
    /\ UNCHANGED <<row, seen, rejects, req, pool>>

Next ==
    \/ \E a \in Apps : Submit(a) \/ ClickReject(a) \/ RejectArrives(a)
    \/ \E r \in Requests, a \in Apps : ClickApprove(r, a)
    \/ \E r \in Requests :
          \/ Probe(r) \/ LoadAccount(r) \/ Prepare(r) \/ Send(r)
          \/ PollTransaction(r) \/ Patch(r) \/ Fail(r)
          \/ Apply(r) \/ Expire(r)
    \/ Refresh \/ Clear \/ OtherTx

Spec == Init /\ [][Next]_vars

-----------------------------------------------------------------------------
(* Properties *)

\* The loans that one poll of the pages finds: it reads the ids in order and
\* stops at the first without a loan, or whose read fails.
UseLoans(failed) ==
    {i \in Ids : i < Shown /\ \A j \in 0 .. i : loan[j] # None /\ j \notin failed}

Steps == {"idle", "probe", "account", "prepare", "send", "poll", "patch", "done"}

\* Rows, requests and loans have their types; above all no request names an
\* id that the route never probes.
TypeOK ==
    /\ row \in [Apps -> [status : Statuses \cup {"new", "gone"}, id : Ids \cup {None}]]
    /\ seen \in [Apps -> Statuses \cup {"new", "gone"}]
    /\ rejects \subseteq Apps /\ pool \subseteq Requests
    /\ req \in [Requests -> [app : Apps \cup {None}, at : Steps, id : Ids, n : Nat]]
    /\ chain \in Seq([by : Requests \cup {None}, ok : BOOLEAN])
    /\ loan \in [Ids -> Apps \cup {None, Demo}]

\* The loan id in an approved row is a loan of that application on chain,
\* whatever other approvals probed the same id, used the same sequence number,
\* or ended in between.
RowNamesTheLoan ==
    \A a \in Apps : row[a].status = "approved" =>
        /\ row[a].id \in Ids
        /\ loan[row[a].id] = a

\* Loan ids are given without a gap, failed probes and lost transactions
\* notwithstanding: a poll of the pages, which stops at the first id without a
\* loan, misses a loan among the ids it may read only if a read of that poll,
\* of the loan or of one before it, failed.
EveryLoanIsListed ==
    \A failed \in SUBSET Ids, i \in Ids :
        loan[i] # None /\ i < Shown /\ i \notin UseLoans(failed) =>
            \E j \in 0 .. i : j \in failed
===============================================================================
