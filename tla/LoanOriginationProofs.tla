------------------------- MODULE LoanOriginationProofs -------------------------
(***************************************************************************)
(* Proofs about LoanOrigination, for any number of applications, approvals *)
(* and transactions and any number of loan ids.  A loan once on chain stays *)
(* as it is, so what a probe saw, and what a transaction did, stays true    *)
(* however late it is used.                                                 *)
(***************************************************************************)
EXTENDS LoanOrigination, TLAPS

\* The ids below the one a request stands at all have loans: it saw them.
ProbedBelow ==
    \A r \in Requests : \A j \in Ids : j < req[r].id => loan[j] # None

\* No id without a loan below one with a loan.
NoGaps == \A i, j \in Ids : loan[i] # None /\ j < i => loan[j] # None

\* Only a request that has sent its transaction has one, on its way or applied.
Sent(r) == req[r].at \in {"poll", "patch", "done"}

SentFirst ==
    /\ \A r \in pool : Sent(r)
    /\ \A n \in 1 .. Len(chain) : chain[n].by # None => Sent(chain[n].by)

\* A transaction that succeeded left the loan that its request asked for.
ChainTrue ==
    \A n \in 1 .. Len(chain) : chain[n].ok /\ chain[n].by # None =>
        loan[req[chain[n].by].id] = req[chain[n].by].app

HasApp ==
    \A r \in Requests : req[r].at # "idle" => req[r].app \in Apps

PatchTrue ==
    \A r \in Requests : req[r].at = "patch" => loan[req[r].id] = req[r].app

Inv ==
    /\ TypeOK /\ RowNamesTheLoan /\ NoGaps /\ ProbedBelow
    /\ SentFirst /\ ChainTrue /\ HasApp /\ PatchTrue

-----------------------------------------------------------------------------

\* An entry of the chain stays where it is when another is appended.
LEMMA AppendKeeps ==
    ASSUME NEW S, NEW s \in Seq(S), NEW e \in S
    PROVE  /\ Append(s, e) \in Seq(S)
           /\ Len(Append(s, e)) = Len(s) + 1
           /\ \A n \in 1 .. Len(s) : Append(s, e)[n] = s[n]
           /\ Append(s, e)[Len(s) + 1] = e
  OBVIOUS

LEMMA ElementType ==
    ASSUME NEW S, NEW s \in Seq(S), NEW n \in 1 .. Len(s)
    PROVE  s[n] \in S
  OBVIOUS

LEMMA InitInv == Init => Inv
<1> SUFFICES ASSUME Init PROVE Inv
  OBVIOUS
<1>1. TypeOK
  BY OriginationAssumption DEF Init, TypeOK, NoRequest, Ids, Steps, Statuses
<1>2. RowNamesTheLoan
  BY DEF Init, RowNamesTheLoan
<1>3. NoGaps /\ ProbedBelow
  BY OriginationAssumption DEF Init, NoGaps, ProbedBelow, NoRequest, Ids
<1>4. SentFirst /\ ChainTrue
  BY DEF Init, SentFirst, ChainTrue
<1>5. HasApp /\ PatchTrue
  BY DEF Init, HasApp, PatchTrue, NoRequest
<1>6. QED
  BY <1>1, <1>2, <1>3, <1>4, <1>5 DEF Inv

-----------------------------------------------------------------------------
(* Steps that leave requests and loans alone *)

LEMMA Quiet ==
    ASSUME Inv, TypeOK', RowNamesTheLoan', UNCHANGED <<req, pool, chain, loan>>
    PROVE  Inv'
  BY DEF Inv, NoGaps, ProbedBelow, SentFirst, Sent, ChainTrue, HasApp, PatchTrue

\* What a patch leaves in a row is of a row's type.
LEMMA PatchedType ==
    ASSUME TypeOK, NEW a \in Apps, NEW status \in Statuses, NEW id \in Ids \cup {None}
    PROVE  Patched(a, status, id)
              \in [Apps -> [status : Statuses \cup {"new", "gone"}, id : Ids \cup {None}]]
  BY DEF TypeOK, Patched

\* An entry of the chain is of a request, or of no request of these.
LEMMA EntryType ==
    ASSUME TypeOK
    PROVE  \A n \in 1 .. Len(chain) : chain[n] \in [by : Requests \cup {None}, ok : BOOLEAN]
<1> SUFFICES ASSUME NEW n \in 1 .. Len(chain)
             PROVE  chain[n] \in [by : Requests \cup {None}, ok : BOOLEAN]
  OBVIOUS
<1>1. chain \in Seq([by : Requests \cup {None}, ok : BOOLEAN])
  BY DEF TypeOK
<1> QED
  BY <1>1, ElementType

LEMMA PagesInv ==
    ASSUME Inv, \/ \E a \in Apps : Submit(a) \/ ClickReject(a) \/ RejectArrives(a)
                \/ Refresh \/ Clear
    PROVE  Inv'
<1>0. TypeOK /\ RowNamesTheLoan
  BY DEF Inv
<1>1. ASSUME NEW a \in Apps, Submit(a) PROVE Inv'
  <2>1. TypeOK'
    BY <1>0, <1>1 DEF TypeOK, Submit, Statuses
  <2>2. RowNamesTheLoan'
    BY <1>0, <1>1 DEF TypeOK, RowNamesTheLoan, Submit
  <2> QED
    BY <1>1, <2>1, <2>2, Quiet DEF Submit
<1>2. ASSUME NEW a \in Apps, ClickReject(a) PROVE Inv'
  <2>1. TypeOK' /\ RowNamesTheLoan'
    BY <1>0, <1>2 DEF TypeOK, RowNamesTheLoan, ClickReject
  <2> QED
    BY <1>2, <2>1, Quiet DEF ClickReject
<1>3. ASSUME NEW a \in Apps, RejectArrives(a) PROVE Inv'
  <2>1. TypeOK'
    <3>1. "rejected" \in Statuses
      BY DEF Statuses
    <3>2. row' \in [Apps -> [status : Statuses \cup {"new", "gone"}, id : Ids \cup {None}]]
      BY <1>0, <1>3, <3>1, PatchedType DEF RejectArrives
    <3> QED
      BY <1>0, <1>3, <3>2 DEF TypeOK, RejectArrives
  <2>2. RowNamesTheLoan'
    BY <1>0, <1>3 DEF TypeOK, RowNamesTheLoan, RejectArrives, Patched
  <2> QED
    BY <1>3, <2>1, <2>2, Quiet DEF RejectArrives
<1>4. CASE Refresh
  <2>1. TypeOK' /\ RowNamesTheLoan'
    BY <1>0, <1>4 DEF TypeOK, RowNamesTheLoan, Refresh
  <2> QED
    BY <1>4, <2>1, Quiet DEF Refresh
<1>5. CASE Clear
  <2>1. TypeOK'
    BY <1>0, <1>5 DEF TypeOK, Clear
  <2>2. RowNamesTheLoan'
    BY <1>0, <1>5 DEF TypeOK, RowNamesTheLoan, Clear
  <2> QED
    BY <1>5, <2>1, <2>2, Quiet DEF Clear
<1> QED
  BY <1>1, <1>2, <1>3, <1>4, <1>5

-----------------------------------------------------------------------------
(* Steps of a request *)

\* A request goes on, and may put its transaction on the way.
LEMMA GoesOn ==
    ASSUME Inv, NEW r \in Requests, NEW at \in Steps \ {"idle"}, Goto(r, at),
           ~ At(r, "idle"), Sent(r) => at \in {"poll", "patch", "done"},
           pool' \subseteq pool \cup {r}, r \in pool' => at \in {"poll", "patch", "done"},
           at = "patch" => loan[req[r].id] = req[r].app,
           UNCHANGED <<row, seen, rejects, chain, loan>>
    PROVE  Inv'
<1>0. TypeOK /\ RowNamesTheLoan
  BY DEF Inv
<1>1. /\ req' \in [Requests -> [app : Apps \cup {None}, at : Steps, id : Ids, n : Nat]]
      /\ req'[r].at = at
      /\ \A q \in Requests : /\ req'[q].app = req[q].app /\ req'[q].id = req[q].id
                             /\ q # r => req'[q] = req[q]
  BY <1>0 DEF Goto, TypeOK
<1>2. TypeOK' /\ RowNamesTheLoan'
  BY <1>0, <1>1 DEF TypeOK, RowNamesTheLoan
<1>3. NoGaps' /\ ProbedBelow'
  BY <1>1 DEF Inv, NoGaps, ProbedBelow
<1>4. SentFirst'
  <2>1. \A q \in Requests : Sent(q) => Sent(q)'
    BY <1>1 DEF Sent
  <2>2. \A q \in pool' : Sent(q)'
    BY <1>0, <1>1, <2>1 DEF Inv, SentFirst, Sent, TypeOK
  <2> QED
    BY <1>0, <2>1, <2>2, EntryType DEF Inv, SentFirst
<1>5. ChainTrue'
  BY <1>0, <1>1, EntryType DEF Inv, ChainTrue
<1>6. HasApp' /\ PatchTrue'
  BY <1>1 DEF Inv, HasApp, PatchTrue, At
<1> QED
  BY <1>2, <1>3, <1>4, <1>5, <1>6 DEF Inv

LEMMA ClickApproveInv ==
    ASSUME Inv, NEW r \in Requests, NEW a \in Apps, ClickApprove(r, a)
    PROVE  Inv'
<1>0. TypeOK /\ RowNamesTheLoan
  BY DEF Inv
<1>1. [app |-> a, at |-> "probe", id |-> 0, n |-> 0]
        \in [app : Apps \cup {None}, at : Steps, id : Ids, n : Nat]
  BY OriginationAssumption DEF Steps, Ids
<1>2. /\ req' = [req EXCEPT ![r] = [app |-> a, at |-> "probe", id |-> 0, n |-> 0]]
      /\ UNCHANGED <<row, seen, rejects, pool, chain, loan>>
      /\ ~ Sent(r)
  BY DEF ClickApprove, At, Sent
<1>3. /\ req'[r] = [app |-> a, at |-> "probe", id |-> 0, n |-> 0]
      /\ \A q \in Requests : q # r => req'[q] = req[q]
  BY <1>0, <1>2 DEF TypeOK
<1>4. TypeOK' /\ RowNamesTheLoan'
  BY <1>0, <1>1, <1>2 DEF TypeOK, RowNamesTheLoan
<1>5. NoGaps' /\ ProbedBelow'
  BY <1>2, <1>3 DEF Inv, NoGaps, ProbedBelow, Ids
<1>6. SentFirst'
  <2>1. \A q \in Requests : Sent(q) => Sent(q)'
    BY <1>2, <1>3 DEF Sent
  <2> QED
    BY <1>0, <1>2, <2>1, EntryType DEF Inv, SentFirst, TypeOK
<1>7. ChainTrue'
  BY <1>0, <1>2, <1>3, EntryType DEF Inv, SentFirst, ChainTrue
<1>8. HasApp' /\ PatchTrue'
  BY <1>2, <1>3 DEF Inv, HasApp, PatchTrue
<1> QED
  BY <1>4, <1>5, <1>6, <1>7, <1>8 DEF Inv

LEMMA ProbeInv ==
    ASSUME Inv, NEW r \in Requests, Probe(r)
    PROVE  Inv'
<1>0. TypeOK /\ RowNamesTheLoan /\ At(r, "probe") /\ UNCHANGED <<row, seen, rejects, pool, chain, loan>>
  BY DEF Inv, Probe
<1>1. ~ At(r, "idle") /\ ~ Sent(r)
  BY <1>0 DEF At, Sent
<1>2. ASSUME NEW at \in {"account", "done"}, Goto(r, at) PROVE Inv'
  BY <1>0, <1>1, <1>2, GoesOn DEF Steps, Inv, SentFirst
<1>3. ASSUME ~ Free(req[r].id, TRUE), ~ TooMany(req[r].id),
             req' = [req EXCEPT ![r].id = @ + 1]
      PROVE  Inv'
  <2>1. req[r].id \in Ids /\ req[r].id + 1 \in Ids
    BY <1>0, <1>3, OriginationAssumption DEF TypeOK, TooMany, Ids
  <2>2. /\ req' \in [Requests -> [app : Apps \cup {None}, at : Steps, id : Ids, n : Nat]]
        /\ req'[r].id = req[r].id + 1 /\ req'[r].app = req[r].app /\ req'[r].at = req[r].at
        /\ \A q \in Requests : q # r => req'[q] = req[q]
    BY <1>0, <1>3, <2>1 DEF TypeOK
  <2>3. TypeOK' /\ RowNamesTheLoan'
    BY <1>0, <2>2 DEF TypeOK, RowNamesTheLoan
  <2>4. loan[req[r].id] # None
    BY <1>3 DEF Free
  <2>5. \A j \in Ids : j < req[r].id + 1 => j < req[r].id \/ j = req[r].id
    BY <2>1 DEF Ids
  <2>6. NoGaps' /\ ProbedBelow'
    BY <1>0, <2>1, <2>2, <2>4, <2>5 DEF Inv, NoGaps, ProbedBelow
  <2>7. SentFirst'
    <3>1. \A q \in Requests : Sent(q) => Sent(q)'
      BY <2>2 DEF Sent
    <3> QED
      BY <1>0, <3>1, EntryType DEF Inv, SentFirst, TypeOK
  <2>8. ChainTrue'
    BY <1>0, <1>1, <2>2, EntryType DEF Inv, SentFirst, ChainTrue
  <2>9. HasApp' /\ PatchTrue'
    BY <1>0, <2>2 DEF Inv, HasApp, PatchTrue, At
  <2> QED
    BY <2>3, <2>6, <2>7, <2>8, <2>9 DEF Inv
<1>4. PICK read \in BOOLEAN :
          IF Free(req[r].id, read) THEN Goto(r, "account")
          ELSE IF TooMany(req[r].id) THEN Goto(r, "done")
          ELSE req' = [req EXCEPT ![r].id = @ + 1]
  BY DEF Probe
<1>5. Free(req[r].id, read) \/ ~ Free(req[r].id, TRUE)
  BY DEF Free
<1> QED
  BY <1>2, <1>3, <1>4, <1>5

LEMMA LoadAccountInv ==
    ASSUME Inv, NEW r \in Requests, LoadAccount(r)
    PROVE  Inv'
<1>0. TypeOK /\ RowNamesTheLoan /\ At(r, "account") /\ UNCHANGED <<row, seen, rejects, pool, chain, loan>>
  BY DEF Inv, LoadAccount
<1>1. PICK o \in [app : Apps \cup {None}, at : Steps, id : Ids, n : Nat] : o = req[r]
  BY <1>0 DEF TypeOK
<1>2. Len(chain) + 1 \in Nat
  BY <1>0 DEF TypeOK
<1> DEFINE new == [app |-> o.app, at |-> "prepare", id |-> o.id, n |-> Len(chain) + 1]
<1>3. new \in [app : Apps \cup {None}, at : Steps, id : Ids, n : Nat]
  BY <1>1, <1>2 DEF Steps
<1>4. req' = [req EXCEPT ![r] = new]
  <2>1. req' = [req EXCEPT ![r] = [[req[r] EXCEPT !.at = "prepare"] EXCEPT !.n = Len(chain) + 1]]
    BY <1>0 DEF LoadAccount, TypeOK
  <2>2. [o EXCEPT !.at = "prepare"] = [app |-> o.app, at |-> "prepare", id |-> o.id, n |-> o.n]
    OBVIOUS
  <2>3. [[app |-> o.app, at |-> "prepare", id |-> o.id, n |-> o.n] EXCEPT !.n = Len(chain) + 1] = new
    OBVIOUS
  <2> QED
    BY <1>1, <2>1, <2>2, <2>3
<1>5. /\ req'[r] = new
      /\ \A q \in Requests : q # r => req'[q] = req[q]
  BY <1>0, <1>4 DEF TypeOK
<1>6. /\ req'[r].id = req[r].id /\ req'[r].app = req[r].app /\ req'[r].at = "prepare"
      /\ \A q \in Requests : q # r => req'[q] = req[q]
  BY <1>1, <1>5
<1>7. TypeOK' /\ RowNamesTheLoan'
  <2>1. req' \in [Requests -> [app : Apps \cup {None}, at : Steps, id : Ids, n : Nat]]
    BY <1>0, <1>3, <1>4 DEF TypeOK
  <2> QED
    BY <1>0, <2>1 DEF TypeOK, RowNamesTheLoan
<1> HIDE DEF new
<1>8. ~ Sent(r)
  BY <1>0 DEF At, Sent
<1>9. NoGaps' /\ ProbedBelow'
  BY <1>0, <1>6 DEF Inv, NoGaps, ProbedBelow
<1>10. SentFirst'
  <2>1. \A q \in Requests : Sent(q) => Sent(q)'
    BY <1>6, <1>8 DEF Sent
  <2> QED
    BY <1>0, <2>1, EntryType DEF Inv, SentFirst, TypeOK
<1>11. ChainTrue'
  BY <1>0, <1>6, EntryType DEF Inv, ChainTrue
<1>12. HasApp' /\ PatchTrue'
  BY <1>0, <1>6 DEF Inv, HasApp, PatchTrue, At
<1> QED
  BY <1>7, <1>9, <1>10, <1>11, <1>12 DEF Inv

LEMMA RouteInv ==
    ASSUME Inv, NEW r \in Requests, Prepare(r) \/ Send(r) \/ PollTransaction(r) \/ Fail(r)
    PROVE  Inv'
<1>0. TypeOK
  BY DEF Inv
<1>1. CASE Prepare(r)
  BY <1>1, GoesOn DEF Prepare, At, Sent, Steps, Inv, SentFirst
<1>2. CASE Send(r)
  BY <1>2, GoesOn DEF Send, At, Sent, Steps, Inv, SentFirst
<1>3. CASE PollTransaction(r)
  <2>1. r # None
    BY OriginationAssumption
  <2>2. DOMAIN chain = 1 .. Len(chain)
    BY <1>0 DEF TypeOK
  <2>3. Succeeded(r) => loan[req[r].id] = req[r].app
    BY <2>1, <2>2 DEF Inv, ChainTrue, Succeeded, Found
  <2> QED
    BY <1>3, <2>3, GoesOn DEF PollTransaction, At, Sent, Steps, Inv, SentFirst
<1>4. CASE Fail(r)
  BY <1>4, GoesOn DEF Fail, At, Sent, Steps, Inv, SentFirst
<1> QED
  BY <1>1, <1>2, <1>3, <1>4

\* The row gets the id of a loan of its own application.
LEMMA PatchInv ==
    ASSUME Inv, NEW r \in Requests, Patch(r)
    PROVE  Inv'
<1>0. /\ TypeOK /\ RowNamesTheLoan /\ At(r, "patch")
      /\ UNCHANGED <<seen, rejects, pool, chain, loan>>
      /\ row' = Patched(req[r].app, "approved", req[r].id)
      /\ req' = [req EXCEPT ![r].at = "done"]
  BY DEF Inv, Patch, Goto
<1>1. req[r].app \in Apps /\ req[r].id \in Ids /\ loan[req[r].id] = req[r].app
  BY <1>0 DEF Inv, HasApp, PatchTrue, At, TypeOK
<1>2. /\ req' \in [Requests -> [app : Apps \cup {None}, at : Steps, id : Ids, n : Nat]]
      /\ req'[r].at = "done"
      /\ \A q \in Requests : /\ req'[q].app = req[q].app /\ req'[q].id = req[q].id
                             /\ q # r => req'[q] = req[q]
  BY <1>0 DEF TypeOK, Steps
<1>3. TypeOK'
  <2>1. "approved" \in Statuses /\ req[r].id \in Ids \cup {None}
    BY <1>1 DEF Statuses
  <2>2. row' \in [Apps -> [status : Statuses \cup {"new", "gone"}, id : Ids \cup {None}]]
    BY <1>0, <1>1, <2>1, PatchedType
  <2> QED
    BY <1>0, <1>2, <2>2 DEF TypeOK
<1>4. RowNamesTheLoan'
  <2>1. /\ row'[req[r].app] = row[req[r].app]
           \/ row'[req[r].app] = [status |-> "approved", id |-> req[r].id]
        /\ \A a \in Apps : a # req[r].app => row'[a] = row[a]
    BY <1>0, <1>1 DEF TypeOK, Patched
  <2> QED
    BY <1>0, <1>1, <2>1 DEF RowNamesTheLoan
<1>5. NoGaps' /\ ProbedBelow'
  BY <1>0, <1>2 DEF Inv, NoGaps, ProbedBelow
<1>6. SentFirst'
  <2>1. \A q \in Requests : Sent(q) => Sent(q)'
    BY <1>2 DEF Sent
  <2> QED
    BY <1>0, <2>1, EntryType DEF Inv, SentFirst, TypeOK
<1>7. ChainTrue'
  BY <1>0, <1>2, EntryType DEF Inv, ChainTrue
<1>8. HasApp' /\ PatchTrue'
  BY <1>0, <1>2 DEF Inv, HasApp, PatchTrue, At
<1> QED
  BY <1>3, <1>4, <1>5, <1>6, <1>7, <1>8 DEF Inv

-----------------------------------------------------------------------------
(* Steps of the network *)

\* A transaction is applied, and originates a loan where there was none and
\* all ids below have one.
LEMMA Applied ==
    ASSUME Inv, NEW e \in [by : Requests \cup {None}, ok : BOOLEAN],
           chain' = Append(chain, e), pool' \subseteq pool,
           UNCHANGED <<row, seen, rejects, req>>,
           loan' \in [Ids -> Apps \cup {None, Demo}],
           \A i \in Ids : loan[i] # None => loan'[i] = loan[i],
           \A i, j \in Ids : loan[i] = None /\ loan'[i] # None /\ j < i => loan[j] # None,
           e.by # None => Sent(e.by) /\ (e.ok => loan'[req[e.by].id] = req[e.by].app)
    PROVE  Inv'
<1>0. TypeOK /\ RowNamesTheLoan /\ chain \in Seq([by : Requests \cup {None}, ok : BOOLEAN])
  BY DEF Inv, TypeOK
<1>1. /\ chain' \in Seq([by : Requests \cup {None}, ok : BOOLEAN])
      /\ Len(chain') = Len(chain) + 1
      /\ \A n \in 1 .. Len(chain) : chain'[n] = chain[n]
      /\ chain'[Len(chain) + 1] = e
  BY <1>0, AppendKeeps
<1>2. \A n \in 1 .. Len(chain') : n \in 1 .. Len(chain) \/ chain'[n] = e
  BY <1>0, <1>1
<1>3. TypeOK'
  BY <1>0, <1>1 DEF TypeOK
<1>4. RowNamesTheLoan'
  BY <1>0, OriginationAssumption DEF RowNamesTheLoan
<1>5. NoGaps' /\ ProbedBelow'
  BY DEF Inv, NoGaps, ProbedBelow
<1>6. SentFirst'
  BY <1>1, <1>2, <1>0 DEF Inv, SentFirst, Sent, TypeOK
<1>7. ChainTrue'
  <2>1. SUFFICES ASSUME NEW n \in 1 .. Len(chain'), chain'[n].ok, chain'[n].by # None
                 PROVE  loan'[req[chain'[n].by].id] = req[chain'[n].by].app
    BY DEF ChainTrue
  <2>2. CASE chain'[n] = e
    BY <2>1, <2>2
  <2>3. CASE n \in 1 .. Len(chain)
    <3>1. chain'[n] = chain[n]
      BY <1>1, <2>3
    <3>2. PICK q \in Requests : q = chain[n].by
      BY <1>0, <2>1, <2>3, <3>1, EntryType
    <3>3. loan[req[q].id] = req[q].app /\ req[q].id \in Ids
      BY <1>0, <2>1, <2>3, <3>1, <3>2 DEF Inv, ChainTrue, TypeOK
    <3>4. req[q].app # None
      <4>1. Sent(q)
        BY <2>1, <2>3, <3>1, <3>2 DEF Inv, SentFirst
      <4> QED
        BY <4>1, OriginationAssumption DEF Inv, HasApp, Sent
    <3> QED
      BY <3>1, <3>2, <3>3, <3>4
  <2> QED
    BY <1>2, <2>2, <2>3
<1>8. HasApp' /\ PatchTrue'
  BY <1>0, OriginationAssumption DEF Inv, HasApp, PatchTrue, TypeOK
<1> QED
  BY <1>3, <1>4, <1>5, <1>6, <1>7, <1>8 DEF Inv

LEMMA NetworkInv ==
    ASSUME Inv, (\E r \in Requests : Apply(r) \/ Expire(r)) \/ OtherTx
    PROVE  Inv'
<1>0. TypeOK
  BY DEF Inv
<1>1. ASSUME NEW r \in Requests, Apply(r) PROVE Inv'
  <2>1. Sent(r)
    BY <1>1 DEF Apply, Inv, SentFirst
  <2>2. req[r].app \in Apps /\ req[r].id \in Ids /\ r # None
    BY <1>0, <2>1, OriginationAssumption DEF Inv, HasApp, Sent, TypeOK
  <2> DEFINE e == [by |-> r, ok |-> InitLoan(req[r].id)]
  <2>3. e \in [by : Requests \cup {None}, ok : BOOLEAN]
    BY DEF InitLoan
  <2>4. chain' = Append(chain, e) /\ pool' \subseteq pool /\ UNCHANGED <<row, seen, rejects, req>>
    BY <1>1 DEF Apply
  <2>5. /\ loan' \in [Ids -> Apps \cup {None, Demo}]
        /\ \A i \in Ids : loan[i] # None => loan'[i] = loan[i]
        /\ \A i \in Ids : i # req[r].id => loan'[i] = loan[i]
        /\ InitLoan(req[r].id) => loan'[req[r].id] = req[r].app
    BY <1>0, <1>1, <2>2 DEF Apply, InitLoan, TypeOK
  <2>6. \A i, j \in Ids : loan[i] = None /\ loan'[i] # None /\ j < i => loan[j] # None
    BY <2>5 DEF Inv, ProbedBelow
  <2>7. e.by # None => Sent(e.by) /\ (e.ok => loan'[req[e.by].id] = req[e.by].app)
    BY <2>1, <2>5
  <2> HIDE DEF e
  <2> QED
    BY <2>3, <2>4, <2>5, <2>6, <2>7, Applied
<1>2. ASSUME NEW r \in Requests, Expire(r) PROVE Inv'
  BY <1>0, <1>2 DEF Expire, Inv, TypeOK, RowNamesTheLoan, NoGaps, ProbedBelow, SentFirst,
     Sent, ChainTrue, HasApp, PatchTrue
<1>3. CASE OtherTx
  <2> DEFINE e == [by |-> None, ok |-> TRUE]
  <2>1. e \in [by : Requests \cup {None}, ok : BOOLEAN] /\ e.by = None
    OBVIOUS
  <2>2. chain' = Append(chain, e) /\ UNCHANGED <<row, seen, rejects, req, pool>>
    BY <1>3 DEF OtherTx
  <2>3. 0 \in Ids
    BY OriginationAssumption DEF Ids
  <2>4. /\ loan' \in [Ids -> Apps \cup {None, Demo}]
        /\ \A i \in Ids : loan[i] # None => loan'[i] = loan[i]
        /\ \A i \in Ids : i # 0 => loan'[i] = loan[i]
    BY <1>0, <1>3, <2>3 DEF OtherTx, TypeOK
  <2>5. \A i, j \in Ids : loan[i] = None /\ loan'[i] # None /\ j < i => loan[j] # None
    BY <2>4 DEF Ids
  <2> HIDE DEF e
  <2> QED
    BY <2>1, <2>2, <2>4, <2>5, Applied
<1> QED
  BY <1>1, <1>2, <1>3

-----------------------------------------------------------------------------
\* The invariant behind both: what was probed, sent and applied stays true,
\* so that a request can use it late.
THEOREM OriginationInvariant == Spec => []Inv
<1>1. Init => Inv
  BY InitInv
<1>2. Inv /\ [Next]_vars => Inv'
  <2> SUFFICES ASSUME Inv, [Next]_vars PROVE Inv'
    OBVIOUS
  <2>1. CASE UNCHANGED vars
    BY <2>1 DEF vars, Inv, TypeOK, RowNamesTheLoan, NoGaps, ProbedBelow, SentFirst,
       Sent, ChainTrue, HasApp, PatchTrue
  <2>2. CASE Next
    BY <2>2, PagesInv, ClickApproveInv, ProbeInv, LoadAccountInv, RouteInv, PatchInv, NetworkInv
       DEF Next
  <2> QED
    BY <2>1, <2>2
<1> QED
  BY <1>1, <1>2, PTL DEF Spec

\* Rows, requests and the chain keep their types; above all the route never
\* goes past the last id it may probe.
THEOREM OriginationTypes == Spec => []TypeOK
<1>1. Inv => TypeOK
  BY DEF Inv
<1> QED
  BY <1>1, OriginationInvariant, PTL

\* However approvals, retries, late transactions, rejections and clearings
\* interleave, an approved row names a loan of its own application.
THEOREM RowsCorrect == Spec => []RowNamesTheLoan
<1>1. Inv => RowNamesTheLoan
  BY DEF Inv
<1> QED
  BY <1>1, OriginationInvariant, PTL

\* The ids with loans never have a gap, so that a search which stops at the
\* first id without a loan, and whose reads succeed that far, finds every loan
\* among those it may look at.
THEOREM LoansAreListed == Spec => []EveryLoanIsListed
<1>1. Inv => EveryLoanIsListed
  <2> SUFFICES ASSUME Inv, NEW failed \in SUBSET Ids, NEW i \in Ids,
                      loan[i] # None, i < Shown, \A j \in 0 .. i : j \notin failed
               PROVE  i \in UseLoans(failed)
    BY DEF EveryLoanIsListed
  <2>1. \A j \in 0 .. i : j \in Ids /\ (j < i \/ j = i)
    BY OriginationAssumption DEF Ids
  <2>2. \A j \in 0 .. i : loan[j] # None
    BY <2>1 DEF Inv, NoGaps
  <2> QED
    BY <2>2 DEF UseLoans
<1> QED
  BY <1>1, OriginationInvariant, PTL
===============================================================================
