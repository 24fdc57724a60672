----------------------------- MODULE CronWatcher -----------------------------
(***************************************************************************)
(* The two serverless watchers.  A cron request of collateral/watcher-poll *)
(* keeps its cursor in Postgres and scans to the tip in chunks; a request  *)
(* of watcher/poll keeps it in a variable of the serverless instance and   *)
(* scans one chunk.  A timer starts them, so requests overlap, and the     *)
(* platform may cut any of them off; every await ends a step.  The two     *)
(* share nothing but the records, so a behaviour is that of one of them,   *)
(* to which the other is a relayer like any.                               *)
(***************************************************************************)
EXTENDS Naturals, FiniteSets

CONSTANTS
    Locks,          \* the lock transactions
    Requests,       \* the requests that may overlap
    Confirmations,  \* WATCHER_CONFIRMATIONS
    MaxRange,       \* MAX_RANGE
    Lookback,       \* LOOKBACK
    ReorgDepth,     \* how many of the latest blocks may still be replaced
    MayFail,        \* whether calls may fail and requests be cut off
    MaxBlock        \* bound on the height of the chain

ASSUME CronAssumption ==
    /\ Confirmations \in Nat /\ Lookback \in Nat /\ MaxBlock \in Nat
    /\ MaxRange \in Nat \ {0}
    /\ ReorgDepth \in 0 .. Confirmations
    /\ MayFail \in BOOLEAN

VARIABLES
    tip,      \* the height of the chain
    block,    \* the block that holds each lock's log, 0 if none does
    record,   \* each loan's collateral record on Stellar
    signed,   \* locks the oracle has attested for a request
    stored,   \* watcher_state.last_block, 0 without a row
    cached,   \* cachedFromBlock, 0 for null
    run,      \* the requests
    fetched   \* history: the blocks whose logs were fetched or left out by
              \* LOOKBACK, since the cursor exists

chain == <<tip, block>>
vars  == <<chain, record, signed, stored, cached, run, fetched>>

NoRun(kind, ok, errors) ==
    [kind |-> kind, at |-> "ended", ok |-> ok, errors |-> errors, tip |-> 0,
     from |-> 0, to |-> 0, logs |-> {}, lock |-> {}]

Minus(a, b) == IF a > b THEN a - b ELSE 0

Init ==
    /\ tip = 1
    /\ block = [l \in Locks |-> 0]
    /\ record = [l \in Locks |-> "None"]
    /\ signed = {}
    /\ stored = 0 /\ cached = 0
    /\ \E kind \in {"cron", "poll"} :
          run = [r \in Requests |-> NoRun(kind, TRUE, {})]
    /\ fetched = {}

-----------------------------------------------------------------------------
(* The chain, the borrower and other relayers *)

Mine ==
    /\ tip < MaxBlock
    /\ tip' = tip + 1
    /\ \E included \in SUBSET {l \in Locks : block[l] = 0} :
          block' = [l \in Locks |-> IF l \in included THEN tip + 1 ELSE block[l]]
    /\ UNCHANGED <<record, signed, stored, cached, run, fetched>>

\* A recent log is dropped, or moves to another recent block.
Reorg(l) ==
    /\ block[l] # 0 /\ block[l] + ReorgDepth > tip
    /\ \E b \in {0} \cup (Minus(tip + 1, ReorgDepth) .. tip) :
          block' = [block EXCEPT ![l] = b]
    /\ UNCHANGED <<tip, record, signed, stored, cached, run, fetched>>

\* The borrower registers a record, or another relayer verifies it.
OtherMoves(l) ==
    /\ \/ record[l] = "None" /\ record' = [record EXCEPT ![l] = "Pending"]
       \/ record[l] = "Pending" /\ record' = [record EXCEPT ![l] = "Attached"]
    /\ UNCHANGED <<chain, signed, stored, cached, run, fetched>>

-----------------------------------------------------------------------------
(* A request: block number, cursor, range *)

Goto(r, at) == run' = [run EXCEPT ![r].at = at]

\* What the request answers stays: ok, with an error in the details for every
\* log that failed, or no details if the request itself failed.
Answer(r, ok) == NoRun(run[r].kind, ok, IF ok THEN run[r].errors ELSE {})

End(r, ok) == run' = [run EXCEPT ![r] = Answer(r, ok)]

Start(r) ==
    /\ run[r].at = "ended"
    /\ run' = [run EXCEPT ![r].at = "tip", ![r].ok = TRUE, ![r].errors = {}]
    /\ UNCHANGED <<chain, record, signed, stored, cached, fetched>>

Is(r, kind, at) == run[r].kind = kind /\ run[r].at = at

CronTip(r) ==
    /\ Is(r, "cron", "tip")
    /\ run' = [run EXCEPT ![r].at = "last", ![r].tip = tip]
    /\ UNCHANGED <<chain, record, signed, stored, cached, fetched>>

\* The last block of a chunk that starts at from.
ChunkEnd(from, end) == IF from + MaxRange - 1 < end THEN from + MaxRange - 1 ELSE end

\* Without a row, or with block 0 in it, the scan starts LOOKBACK blocks back.
LastBlock(end) == IF stored = 0 THEN Minus(end, Lookback) ELSE stored

CronLast(r) ==
    LET last == LastBlock(run[r].tip)
    IN  /\ run[r].at = "last"
        /\ IF last >= run[r].tip
           THEN End(r, TRUE)
           ELSE run' = [run EXCEPT ![r].at = "fetch", ![r].from = last + 1,
                                   ![r].to = ChunkEnd(last + 1, run[r].tip)]
        /\ fetched' = IF stored = 0 THEN fetched \cup (0 .. last) ELSE fetched
        /\ UNCHANGED <<chain, record, signed, stored, cached>>

\* Mutant: the blocks that this request will scan are taken off at once.
AdvanceNow(from, to) == to + 1

\* The cursor while the blocks from .. to are being scanned.
KeepCursor(from, to) == from

\* The instance's cursor, set LOOKBACK blocks back while it is null or 0.
PollFrom == IF cached = 0 THEN Minus(tip, Lookback) ELSE cached

PollEnd == IF tip - PollFrom > MaxRange THEN PollFrom + MaxRange - 1 ELSE tip

PollTip(r) ==
    /\ Is(r, "poll", "tip")
    /\ fetched' = IF cached = 0 THEN fetched \cup {b \in 0 .. tip : b < PollFrom}
                  ELSE fetched
    /\ IF tip <= PollFrom
       THEN End(r, TRUE) /\ cached' = PollFrom
       ELSE /\ run' = [run EXCEPT ![r].at = "fetch", ![r].tip = tip,
                                  ![r].from = PollFrom, ![r].to = PollEnd]
            /\ cached' = KeepCursor(PollFrom, PollEnd)
    /\ UNCHANGED <<chain, record, signed, stored>>

-----------------------------------------------------------------------------
(* The logs of a chunk, one after the other *)

\* Mutant: one confirmation too few.
ConfirmedEarly(r, b) == run[r].tip - b + 1 >= Confirmations

Confirmed(r, b) == run[r].tip - b >= Confirmations

\* The locks whose logs the node returns for the chunk.
LogsOf(r) == {l \in Locks : block[l] # 0 /\ block[l] \in run[r].from .. run[r].to}

\* A log that is too young is reported as waiting, and left behind.
Fetch(r) ==
    /\ run[r].at = "fetch"
    /\ run' = [run EXCEPT ![r].at = "handle",
                          ![r].logs = {l \in LogsOf(r) : Confirmed(r, block[l])}]
    /\ fetched' = fetched \cup (run[r].from .. run[r].to)
    /\ UNCHANGED <<chain, record, signed, stored, cached>>

\* The oracle signs the attestation of the next log.
Attest(r) ==
    /\ run[r].at = "handle"
    /\ \E l \in run[r].logs :
          /\ signed' = signed \cup {l}
          /\ run' = [run EXCEPT ![r].at = "verify", ![r].lock = {l}, ![r].logs = @ \ {l}]
    /\ UNCHANGED <<chain, record, stored, cached, fetched>>

\* verify_collateral: verified, already verified, or no record to verify yet.
\* All three are reported, and the request goes on.
Verify(r) ==
    /\ run[r].at = "verify"
    /\ record' = [l \in Locks |->
                     IF l \in run[r].lock /\ record[l] = "Pending"
                     THEN "Attached" ELSE record[l]]
    /\ run' = [run EXCEPT ![r].at = "handle", ![r].lock = {}]
    /\ UNCHANGED <<chain, signed, stored, cached, fetched>>

\* An attestation or a verification fails: the error goes into the details of
\* the answer, and the request goes on, and so does its cursor.
LogFails(r) ==
    /\ MayFail
    /\ \/ /\ run[r].at = "verify"
          /\ run' = [run EXCEPT ![r].at = "handle", ![r].lock = {},
                                ![r].errors = @ \cup run[r].lock]
       \/ /\ run[r].at = "handle"
          /\ \E l \in run[r].logs :
                run' = [run EXCEPT ![r].logs = @ \ {l}, ![r].errors = @ \cup {l}]
    /\ UNCHANGED <<chain, record, signed, stored, cached, fetched>>

-----------------------------------------------------------------------------
(* The end of a chunk and of a request *)

Handled(r, kind) == Is(r, kind, "handle") /\ run[r].logs = {}

\* Mutant: one block too far.
NextFromTooFar(s) == s.to + 2

\* Mutant: on to the tip, whatever was asked for.
NextFromTip(s) == s.tip + 1

NextFrom(s) == s.to + 1

CronChunk(r) ==
    LET from == NextFrom(run[r])
    IN  /\ Handled(r, "cron")
        /\ IF from <= run[r].tip
           THEN run' = [run EXCEPT ![r].at = "fetch", ![r].from = from,
                                   ![r].to = ChunkEnd(from, run[r].tip)]
           ELSE Goto(r, "save")
        /\ UNCHANGED <<chain, record, signed, stored, cached, fetched>>

\* setLastBlock overwrites what another request has stored since.
CronSave(r) ==
    /\ run[r].at = "save"
    /\ stored' = run[r].to
    /\ End(r, TRUE)
    /\ UNCHANGED <<chain, record, signed, cached, fetched>>

PollDone(r) ==
    /\ Handled(r, "poll")
    /\ cached' = NextFrom(run[r])
    /\ End(r, TRUE)
    /\ UNCHANGED <<chain, record, signed, stored, fetched>>

\* The node or the database fails, or the platform cuts the request off: the
\* cursor stays.  (A call cut off in flight may still sign or verify: then
\* Attest or Verify comes first.)
Fail(r) ==
    /\ MayFail
    /\ run[r].at # "ended"
    /\ End(r, FALSE)
    /\ UNCHANGED <<chain, record, signed, stored, cached, fetched>>

\* setLastBlock writes, and its answer is lost.
SaveUnanswered(r) ==
    /\ MayFail
    /\ run[r].at = "save"
    /\ stored' = run[r].to
    /\ End(r, FALSE)
    /\ UNCHANGED <<chain, record, signed, cached, fetched>>

\* An idle instance is given up; the next request finds a new one.
ColdStart ==
    /\ \A r \in Requests : run[r].at = "ended"
    /\ cached # 0
    /\ cached' = 0 /\ fetched' = {}
    /\ UNCHANGED <<chain, record, signed, stored, run>>

-----------------------------------------------------------------------------
RequestStep(r) ==
    \/ CronTip(r) \/ CronLast(r) \/ CronChunk(r) \/ CronSave(r) \/ SaveUnanswered(r)
    \/ PollTip(r) \/ PollDone(r)
    \/ Fetch(r) \/ Attest(r) \/ Verify(r) \/ LogFails(r) \/ Fail(r)

Next ==
    \/ Mine \/ ColdStart
    \/ \E l \in Locks : Reorg(l) \/ OtherMoves(l)
    \/ \E r \in Requests : Start(r) \/ RequestStep(r)

Spec == Init /\ [][Next]_vars

\* An awaited call returns, and the handler goes on, or it is cut off.
Fairness == \A r \in Requests : WF_vars(RequestStep(r))

FairSpec == Spec /\ Fairness

-----------------------------------------------------------------------------
TypeOK ==
    /\ tip \in 1 .. (MaxBlock + 1)
    /\ block \in [Locks -> 0 .. tip]
    /\ record \in [Locks -> {"None", "Pending", "Attached"}]
    /\ signed \subseteq Locks
    /\ stored \in 0 .. tip
    /\ cached \in 0 .. (tip + 1)
    /\ run \in [Requests ->
          [kind : {"cron", "poll"}, at : {"ended", "tip", "last", "fetch", "handle", "verify", "save"},
           ok : BOOLEAN, errors : SUBSET Locks, tip : 0 .. tip, from : 0 .. tip,
           to : 0 .. tip, logs : SUBSET Locks, lock : SUBSET Locks]]
    /\ fetched \subseteq 0 .. tip

\* Neither cursor ever passes a block whose logs no request has fetched: not
\* when a slow request overwrites the cursor of a faster one, nor when one
\* fails half-way or its instance is replaced.
CursorsBehindScans ==
    /\ \A b \in 1 .. stored : b \in fetched
    /\ \A b \in 0 .. tip : b < cached => b \in fetched

\* The oracle attests no lock for a watcher that the chain can still take
\* back: a log is judged by the tip its request began with, however long the
\* request has run since.
SignedIsFinal ==
    \A l \in signed : block[l] # 0 /\ tip - block[l] >= Confirmations

\* A request has taken up a range (a cron: all up to the tip) with a lock in it
\* that is final and whose record is pending.
TakenUp(r, l) ==
    /\ run[r].at = "fetch"
    /\ record[l] = "Pending"
    /\ block[l] # 0 /\ block[l] >= run[r].from
    /\ run[r].kind = "cron" \/ block[l] <= run[r].to
    /\ block[l] + Confirmations <= run[r].tip

\* The answer says that the lock was not dealt with: by an error for its log in
\* the details of an answer that is ok, or by an answer that is not.
Told(r, l) == l \in run[r].errors \/ ~run[r].ok

\* A request verifies the final locks in the range it takes up whose records
\* are pending; one that it leaves behind, with the cursor past it, it names in
\* the details of its answer.
RangeIsCaught ==
    \A r \in Requests, l \in Locks :
        TakenUp(r, l) ~> (record[l] = "Attached" \/ Told(r, l))
=============================================================================
