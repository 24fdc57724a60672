-------------------------- MODULE CronWatcherProofs --------------------------
(***************************************************************************)
(* Theorems of CronWatcher for any locks and any number of overlapping     *)
(* requests, any number of confirmations, any block range and lookback and *)
(* a chain of any height.                                                  *)
(*                                                                         *)
(* A request stores its cursor long after it has read the one it started   *)
(* from, and over whatever others have stored since.  Inv says why no      *)
(* block is lost by it: whatever range a request holds, the blocks below   *)
(* it have been fetched, by this request or by an earlier one.             *)
(***************************************************************************)
EXTENDS CronWatcher, TLAPS

-----------------------------------------------------------------------------
(* The inductive invariant *)

Runs(t) ==
    [kind : {"cron", "poll"}, at : {"ended", "tip", "last", "fetch", "handle", "verify", "save"},
     ok : BOOLEAN, errors : SUBSET Locks, tip : 0 .. t, from : 0 .. t, to : 0 .. t,
     logs : SUBSET Locks, lock : SUBSET Locks]

\* The log of l is so deep that no reorganisation reaches it.
Deep(l) == block[l] # 0 /\ block[l] + Confirmations <= tip

\* The blocks from first on, up to and without end, are in S.
Covered(S, first, end) == \A b \in Nat : first <= b /\ b < end => b \in S

\* Block 0 holds no log; the cron watcher never asks for it.
First(kind) == IF kind = "cron" THEN 1 ELSE 0

\* All requests are of one kind, and the cursor of the other is not in use.
Kinds ==
    /\ \/ cached = 0 /\ \A r \in Requests : run[r].kind = "cron"
       \/ stored = 0 /\ \A r \in Requests : run[r].kind = "poll"
    /\ \A r \in Requests : run[r].at \in {"last", "save"} => run[r].kind = "cron"

\* Nothing is left out below a cursor, below the chunk a request asks for, or
\* below the end of one it has got.
Progress ==
    /\ Covered(fetched, 1, stored + 1)
    /\ Covered(fetched, 0, cached)
    /\ \A r \in Requests :
          /\ run[r].at = "fetch" => Covered(fetched, First(run[r].kind), run[r].from)
          /\ run[r].at \in {"handle", "verify", "save"} =>
                Covered(fetched, First(run[r].kind), run[r].to + 1)

\* Whatever was attested, or is going to be, stays on the chain.
Depth ==
    /\ \A l \in signed : Deep(l)
    /\ \A r \in Requests : \A l \in run[r].logs \cup run[r].lock : Deep(l)

Inv == TypeOK /\ Kinds /\ Progress /\ Depth

-----------------------------------------------------------------------------
(* The numbers, and the fields of a request *)

LEMMA Numbers ==
    ASSUME TypeOK
    PROVE  /\ tip \in Nat /\ tip > 0 /\ stored \in Nat /\ stored <= tip
           /\ cached \in Nat /\ cached <= tip + 1
           /\ Confirmations \in Nat /\ ReorgDepth \in Nat
           /\ ReorgDepth <= Confirmations
           /\ MaxRange \in Nat /\ MaxRange > 0 /\ Lookback \in Nat /\ MaxBlock \in Nat
           /\ \A l \in Locks : block[l] \in Nat /\ block[l] <= tip
  BY CronAssumption DEF TypeOK

LEMMA RunFields ==
    ASSUME TypeOK, NEW r \in Requests
    PROVE  /\ run \in [Requests -> Runs(tip)]
           /\ run[r] \in Runs(tip)
           /\ run[r].kind \in {"cron", "poll"}
           /\ run[r].at \in {"ended", "tip", "last", "fetch", "handle", "verify", "save"}
           /\ run[r].ok \in BOOLEAN /\ run[r].errors \subseteq Locks
           /\ run[r].tip \in 0 .. tip /\ run[r].from \in 0 .. tip /\ run[r].to \in 0 .. tip
           /\ run[r].logs \subseteq Locks /\ run[r].lock \subseteq Locks
<1>1. run \in [Requests -> Runs(tip)]
  BY DEF TypeOK, Runs
<1>2. run[r] \in Runs(tip)
  BY <1>1
<1> QED BY <1>1, <1>2 DEF Runs

-----------------------------------------------------------------------------
(* What a step of one request has to keep *)

\* The cursors a step writes are behind what has been fetched by then.
CursorsKept(kind) ==
    /\ \/ stored' = stored
       \/ kind = "cron" /\ stored' \in 0 .. tip /\ Covered(fetched', 1, stored' + 1)
    /\ \/ cached' = cached
       \/ kind = "poll" /\ cached' \in 0 .. (tip + 1) /\ Covered(fetched', 0, cached')

\* What a request holds after a step is typed, deep, and nothing is left out
\* below it.
RequestKept(r, x) ==
    /\ x \in Runs(tip)
    /\ x.kind = run[r].kind
    /\ x.at \in {"last", "save"} => x.kind = "cron"
    /\ x.at = "fetch" => Covered(fetched', First(x.kind), x.from)
    /\ x.at \in {"handle", "verify", "save"} => Covered(fetched', First(x.kind), x.to + 1)
    /\ \A l \in x.logs \cup x.lock : Deep(l)

LEMMA StepKeeps ==
    ASSUME Inv, NEW r \in Requests, NEW x, run' = [run EXCEPT ![r] = x],
           RequestKept(r, x), CursorsKept(x.kind), UNCHANGED chain,
           record' \in [Locks -> {"None", "Pending", "Attached"}],
           signed' \subseteq Locks, \A l \in signed' : Deep(l),
           fetched \subseteq fetched', fetched' \subseteq 0 .. tip
    PROVE  Inv'
<1>1. run \in [Requests -> Runs(tip)]
  BY RunFields DEF Inv
<1>2. /\ run' \in [Requests -> Runs(tip)] /\ run'[r] = x
      /\ \A q \in Requests : q # r => run'[q] = run[q]
  BY <1>1 DEF RequestKept
<1>3. TypeOK'
  <2>1. stored' \in 0 .. tip /\ cached' \in 0 .. (tip + 1)
    BY DEF Inv, TypeOK, CursorsKept
  <2> QED BY <1>2, <2>1 DEF Inv, TypeOK, Runs, chain
<1>4. \A q \in Requests : run'[q].kind = run[q].kind
  BY <1>2 DEF RequestKept
<1>5. Kinds'
  <2>1. \A q \in Requests : run'[q].at \in {"last", "save"} => run'[q].kind = "cron"
    BY <1>2 DEF Inv, Kinds, RequestKept
  <2>2. CASE cached = 0 /\ \A q \in Requests : run[q].kind = "cron"
    <3>1. cached' = 0
      BY <2>2 DEF CursorsKept, RequestKept
    <3> QED BY <1>4, <2>1, <2>2, <3>1 DEF Kinds
  <2>3. CASE stored = 0 /\ \A q \in Requests : run[q].kind = "poll"
    <3>1. stored' = 0
      BY <2>3 DEF CursorsKept, RequestKept
    <3> QED BY <1>4, <2>1, <2>3, <3>1 DEF Kinds
  <2> QED BY <2>2, <2>3 DEF Inv, Kinds
<1>6. Progress'
  <2>1. Covered(fetched, 1, stored + 1) /\ Covered(fetched, 0, cached)
    BY DEF Inv, Progress
  <2>2. Covered(fetched', 1, stored' + 1) /\ Covered(fetched', 0, cached')
    BY <2>1 DEF CursorsKept, Covered
  <2>3. ASSUME NEW q \in Requests
        PROVE  /\ run'[q].at = "fetch" =>
                    Covered(fetched', First(run'[q].kind), run'[q].from)
               /\ run'[q].at \in {"handle", "verify", "save"} =>
                    Covered(fetched', First(run'[q].kind), run'[q].to + 1)
    <3>1. CASE q = r
      BY <1>2, <3>1 DEF RequestKept
    <3>2. CASE q # r
      BY <1>2, <3>2 DEF Inv, Progress, Covered
    <3> QED BY <3>1, <3>2
  <2> QED BY <2>2, <2>3 DEF Progress
<1>7. Depth'
  <2>1. \A l : Deep(l) => Deep(l)'
    BY DEF Deep, chain
  <2>2. ASSUME NEW q \in Requests, NEW l \in run'[q].logs \cup run'[q].lock
        PROVE  Deep(l)
    BY <1>2, <2>2 DEF Inv, Depth, RequestKept
  <2> QED BY <2>1, <2>2 DEF Depth
<1> QED BY <1>3, <1>5, <1>6, <1>7 DEF Inv

\* A request that ends holds nothing.
LEMMA EndKept ==
    ASSUME Inv, NEW r \in Requests, NEW ok \in BOOLEAN
    PROVE  RequestKept(r, Answer(r, ok)) /\ Answer(r, ok).kind = run[r].kind
<1> DEFINE x == Answer(r, ok)
<1>1. run[r].kind \in {"cron", "poll"} /\ run[r].errors \subseteq Locks /\ tip \in Nat
  BY RunFields, Numbers DEF Inv
<1>2. x = [kind |-> run[r].kind, at |-> "ended", ok |-> ok,
           errors |-> IF ok THEN run[r].errors ELSE {}, tip |-> 0,
           from |-> 0, to |-> 0, logs |-> {}, lock |-> {}]
  BY DEF Answer, NoRun
<1> HIDE DEF x
<1>3. /\ x.kind = run[r].kind /\ x.at = "ended" /\ x.logs = {} /\ x.lock = {}
      /\ x \in Runs(tip)
  BY <1>1, <1>2 DEF Runs
<1>4. RequestKept(r, x) /\ x.kind = run[r].kind
  BY <1>3 DEF RequestKept
<1> QED BY <1>4 DEF x

-----------------------------------------------------------------------------
(* The chain, the borrower and other relayers *)

LEMMA MineKeeps ==
    ASSUME Inv, Mine
    PROVE  Inv'
<1>1. PICK included \in SUBSET {l \in Locks : block[l] = 0} :
          block' = [l \in Locks |-> IF l \in included THEN tip + 1 ELSE block[l]]
  BY DEF Mine
<1>2. /\ tip' = tip + 1 /\ tip \in Nat /\ tip <= MaxBlock /\ MaxBlock \in Nat
      /\ UNCHANGED <<record, signed, stored, cached, run, fetched>>
  BY Numbers DEF Mine, Inv
<1>3. /\ block' \in [Locks -> 0 .. tip']
      /\ \A l \in Locks : block[l] # 0 => block'[l] = block[l]
  BY <1>1, <1>2, Numbers DEF Inv
<1>4. \A l \in Locks : Deep(l) => Deep(l)'
  BY <1>2, <1>3, Numbers DEF Deep, Inv
<1>5. run' \in [Requests -> Runs(tip')]
  <2>1. 0 .. tip \subseteq 0 .. (tip + 1)
    BY <1>2
  <2>2. Runs(tip) \subseteq Runs(tip + 1)
    BY <2>1 DEF Runs
  <2> QED BY <1>2, <2>2 DEF Inv, TypeOK, Runs
<1>6. TypeOK'
  <2>1. tip' \in 1 .. (MaxBlock + 1)
    BY <1>2 DEF Mine, Inv, TypeOK
  <2>2. stored' \in 0 .. tip' /\ cached' \in 0 .. (tip' + 1) /\ fetched' \subseteq 0 .. tip'
    BY <1>2 DEF Inv, TypeOK
  <2> QED BY <1>2, <1>3, <1>5, <2>1, <2>2 DEF Inv, TypeOK, Runs
<1>7. Kinds' /\ Progress'
  BY <1>2 DEF Inv, Kinds, Progress
<1>8. Depth'
  <2>1. \A r \in Requests : run[r].logs \cup run[r].lock \subseteq Locks
    BY RunFields DEF Inv
  <2> QED BY <1>2, <1>4, <2>1 DEF Inv, Depth, TypeOK
<1> QED BY <1>6, <1>7, <1>8 DEF Inv

\* A reorganisation reaches no deep log.
LEMMA ReorgKeeps ==
    ASSUME Inv, NEW l \in Locks, Reorg(l)
    PROVE  Inv'
<1>1. PICK b \in {0} \cup (Minus(tip + 1, ReorgDepth) .. tip) :
          block' = [block EXCEPT ![l] = b]
  BY DEF Reorg
<1>2. UNCHANGED <<tip, record, signed, stored, cached, run, fetched>>
  BY DEF Reorg
<1>3. b \in 0 .. tip
  BY <1>1, Numbers DEF Minus, Inv
<1>4. block' \in [Locks -> 0 .. tip]
  BY <1>1, <1>3 DEF Inv, TypeOK
<1>5. ~Deep(l)
  BY Numbers DEF Reorg, Deep, Inv
<1>6. \A k \in Locks : k # l => block'[k] = block[k]
  BY <1>1 DEF Inv, TypeOK
<1>7. \A k \in Locks : Deep(k) => Deep(k)'
  BY <1>2, <1>5, <1>6 DEF Deep
<1>8. TypeOK'
  BY <1>2, <1>4 DEF Inv, TypeOK
<1>9. Kinds' /\ Progress'
  BY <1>2 DEF Inv, Kinds, Progress
<1>10. Depth'
  <2>1. \A r \in Requests : run[r].logs \cup run[r].lock \subseteq Locks
    BY RunFields DEF Inv
  <2> QED BY <1>2, <1>7, <2>1 DEF Inv, Depth, TypeOK
<1> QED BY <1>8, <1>9, <1>10 DEF Inv

LEMMA OtherMovesKeeps ==
    ASSUME Inv, NEW l \in Locks, OtherMoves(l)
    PROVE  Inv'
<1>1. /\ UNCHANGED <<tip, block, signed, stored, cached, run, fetched>>
      /\ record' \in [Locks -> {"None", "Pending", "Attached"}]
  BY DEF OtherMoves, chain, Inv, TypeOK
<1> QED BY <1>1 DEF Inv, TypeOK, Kinds, Progress, Depth, Deep

\* An instance is replaced while no request runs: only the cron's cursor would
\* have to remember what was fetched, and it is not in use.
LEMMA ColdStartKeeps ==
    ASSUME Inv, ColdStart
    PROVE  Inv'
<1>1. /\ UNCHANGED <<tip, block, record, signed, stored, run>>
      /\ \A r \in Requests : run[r].at = "ended"
      /\ cached # 0 /\ cached' = 0 /\ fetched' = {}
  BY DEF ColdStart, chain
<1>2. stored = 0
  BY <1>1 DEF Inv, Kinds
<1>3. TypeOK'
  BY <1>1, Numbers DEF Inv, TypeOK
<1>4. Kinds' /\ Depth'
  BY <1>1, <1>2 DEF Inv, Kinds, Depth, Deep
<1>5. Progress'
  BY <1>1, <1>2 DEF Progress, Covered
<1> QED BY <1>3, <1>4, <1>5 DEF Inv

-----------------------------------------------------------------------------
(* What the steps of a request leave alone *)

\* The steps that move the request and nothing else.
LEMMA QuietStep ==
    ASSUME Inv, NEW r \in Requests, NEW x, run' = [run EXCEPT ![r] = x],
           RequestKept(r, x),
           UNCHANGED <<chain, signed, stored, cached, fetched>>,
           record' \in [Locks -> {"None", "Pending", "Attached"}]
    PROVE  Inv'
<1>1. /\ signed' \subseteq Locks /\ \A l \in signed' : Deep(l)
      /\ fetched' \subseteq 0 .. tip /\ fetched \subseteq fetched'
  BY DEF Inv, TypeOK, Depth
<1>2. CursorsKept(x.kind)
  BY DEF CursorsKept
<1> QED BY <1>1, <1>2, StepKeeps

\* What was fetched stays fetched.
LEMMA CoveredMore ==
    ASSUME NEW S, NEW T, S \subseteq T, NEW first, NEW end, Covered(S, first, end)
    PROVE  Covered(T, first, end)
  BY DEF Covered

LEMMA StartKeeps ==
    ASSUME Inv, NEW r \in Requests, Start(r)
    PROVE  Inv'
<1> DEFINE x == [run[r] EXCEPT !.at = "tip", !.ok = TRUE, !.errors = {}]
<1>1. run' = [run EXCEPT ![r] = x]
  BY DEF Start
<1>2. /\ x.at = "tip" /\ x.kind = run[r].kind
      /\ x.logs = run[r].logs /\ x.lock = run[r].lock /\ x \in Runs(tip)
  BY RunFields DEF Inv, Runs
<1> HIDE DEF x
<1>3. RequestKept(r, x)
  BY <1>2 DEF RequestKept, Inv, Depth
<1> QED BY <1>1, <1>3, QuietStep DEF Start, Inv, TypeOK

LEMMA CronTipKeeps ==
    ASSUME Inv, NEW r \in Requests, CronTip(r)
    PROVE  Inv'
<1> DEFINE x == [run[r] EXCEPT !.at = "last", !.tip = tip]
<1>1. run' = [run EXCEPT ![r] = x] /\ run[r].kind = "cron"
  BY DEF CronTip, Is
<1>2. /\ x.at = "last" /\ x.kind = run[r].kind
      /\ x.logs = run[r].logs /\ x.lock = run[r].lock /\ x \in Runs(tip)
  <2>1. run[r] \in Runs(tip) /\ tip \in 0 .. tip
    BY RunFields, Numbers DEF Inv
  <2> QED BY <2>1 DEF Runs
<1> HIDE DEF x
<1>3. RequestKept(r, x)
  BY <1>1, <1>2 DEF RequestKept, Inv, Depth
<1> QED BY <1>1, <1>3, QuietStep DEF CronTip, Inv, TypeOK

LEMMA FailKeeps ==
    ASSUME Inv, NEW r \in Requests, Fail(r)
    PROVE  Inv'
<1> DEFINE x == Answer(r, FALSE)
<1>1. run' = [run EXCEPT ![r] = x]
  BY DEF Fail, End
<1>2. RequestKept(r, x)
  BY EndKept
<1> HIDE DEF x
<1> QED BY <1>1, <1>2, QuietStep DEF Fail, Inv, TypeOK

\* The chunk of a range that starts within it is within it.
LEMMA ChunkWithin ==
    ASSUME TypeOK, NEW end \in 0 .. tip, NEW from \in 0 .. end
    PROVE  ChunkEnd(from, end) \in 0 .. tip
  BY Numbers DEF ChunkEnd

\* Whatever the cron reads as the last block, all up to it is taken care of.
LEMMA CronLastKeeps ==
    ASSUME Inv, NEW r \in Requests, CronLast(r)
    PROVE  Inv'
<1> DEFINE last == LastBlock(run[r].tip)
<1>1. /\ run[r].at = "last"
      /\ \/ /\ last >= run[r].tip
            /\ End(r, TRUE)
         \/ /\ ~(last >= run[r].tip)
            /\ run' = [run EXCEPT ![r].at = "fetch", ![r].from = last + 1,
                                  ![r].to = ChunkEnd(last + 1, run[r].tip)]
      /\ fetched' = IF stored = 0 THEN fetched \cup (0 .. last) ELSE fetched
      /\ UNCHANGED <<chain, record, signed, stored, cached>>
  BY DEF CronLast
<1>2. run[r].kind = "cron"
  BY <1>1 DEF Inv, Kinds
<1>3. run[r].tip \in 0 .. tip /\ last \in 0 .. tip
  BY RunFields, Numbers DEF Inv, LastBlock, Minus
<1>4. fetched \subseteq fetched' /\ fetched' \subseteq 0 .. tip
  BY <1>1, <1>3, Numbers DEF Inv, TypeOK
<1>5. Covered(fetched', 1, last + 1)
  <2>1. CASE stored = 0
    BY <1>1, <1>3, <2>1 DEF Covered
  <2>2. CASE stored # 0
    <3>1. last = stored
      BY <2>2 DEF LastBlock
    <3> QED BY <1>4, <3>1, CoveredMore DEF Inv, Progress
  <2> QED BY <2>1, <2>2
<1> HIDE DEF last
<1>6. PICK x : run' = [run EXCEPT ![r] = x] /\ RequestKept(r, x)
  <2>1. CASE End(r, TRUE)
    <3> DEFINE x == Answer(r, TRUE)
    <3>1. run' = [run EXCEPT ![r] = x]
      BY <2>1 DEF End
    <3>2. RequestKept(r, x)
      BY EndKept
    <3> QED BY <3>1, <3>2
  <2>2. CASE /\ ~(last >= run[r].tip)
             /\ run' = [run EXCEPT ![r].at = "fetch", ![r].from = last + 1,
                                   ![r].to = ChunkEnd(last + 1, run[r].tip)]
    <3> DEFINE to == ChunkEnd(last + 1, run[r].tip)
               x == [run[r] EXCEPT !.at = "fetch", !.from = last + 1, !.to = to]
    <3>1. run' = [run EXCEPT ![r] = x]
      BY <2>2
    <3>2. last + 1 \in 0 .. run[r].tip
      BY <1>3, <2>2
    <3>3. to \in 0 .. tip /\ last + 1 \in 0 .. tip
      BY <1>3, <3>2, ChunkWithin, Numbers DEF Inv
    <3> HIDE DEF to
    <3>4. /\ x.at = "fetch" /\ x.kind = run[r].kind /\ x.from = last + 1
          /\ x.logs = run[r].logs /\ x.lock = run[r].lock /\ x \in Runs(tip)
      BY <3>3, RunFields DEF Inv, Runs
    <3> HIDE DEF x
    <3>5. RequestKept(r, x)
      BY <1>2, <1>5, <3>4 DEF RequestKept, Inv, Depth, First
    <3> QED BY <3>1, <3>5
  <2> QED BY <1>1, <2>1, <2>2
<1>7. CursorsKept(x.kind)
  BY <1>1 DEF CursorsKept
<1> QED BY <1>1, <1>4, <1>6, <1>7, StepKeeps DEF Inv, TypeOK, Depth

-----------------------------------------------------------------------------
(* A request of watcher/poll takes up its range *)

\* The cursor of the instance, whatever it is, is behind what was fetched or is
\* left out by LOOKBACK, and the chunk starts at it.
LEMMA PollTipKeeps ==
    ASSUME Inv, NEW r \in Requests, PollTip(r)
    PROVE  Inv'
<1> DEFINE from == PollFrom
           to   == PollEnd
<1>1. /\ run[r].kind = "poll"
      /\ fetched' = IF cached = 0 THEN fetched \cup {b \in 0 .. tip : b < from} ELSE fetched
      /\ \/ tip <= from /\ End(r, TRUE) /\ cached' = from
         \/ /\ ~(tip <= from)
            /\ run' = [run EXCEPT ![r].at = "fetch", ![r].tip = tip,
                                  ![r].from = from, ![r].to = to]
            /\ cached' = from
      /\ UNCHANGED <<chain, record, signed, stored>>
  BY DEF PollTip, Is, KeepCursor
<1>2. /\ tip \in Nat /\ cached \in Nat /\ cached <= tip + 1 /\ from \in Nat
      /\ from <= tip + 1 /\ (from < tip => to \in 0 .. tip)
  BY Numbers DEF Inv, PollFrom, PollEnd, Minus
<1>3. fetched \subseteq fetched' /\ fetched' \subseteq 0 .. tip
  BY <1>1 DEF Inv, TypeOK
<1>4. Covered(fetched', 0, from)
  <2>1. CASE cached = 0
    <3>1. from <= tip
      BY <2>1, Numbers DEF Inv, PollFrom, Minus
    <3> QED BY <1>1, <1>2, <2>1, <3>1 DEF Covered
  <2>2. CASE cached # 0
    <3>1. from = cached
      BY <2>2 DEF PollFrom
    <3> QED BY <1>3, <3>1, CoveredMore DEF Inv, Progress
  <2> QED BY <2>1, <2>2
<1> HIDE DEF from, to
<1>5. cached' = from
  BY <1>1
<1>6. PICK x : run' = [run EXCEPT ![r] = x] /\ RequestKept(r, x)
  <2>1. CASE End(r, TRUE)
    <3> DEFINE x == Answer(r, TRUE)
    <3>1. run' = [run EXCEPT ![r] = x]
      BY <2>1 DEF End
    <3>2. RequestKept(r, x)
      BY EndKept
    <3> QED BY <3>1, <3>2
  <2>2. CASE /\ ~(tip <= from)
             /\ run' = [run EXCEPT ![r].at = "fetch", ![r].tip = tip,
                                   ![r].from = from, ![r].to = to]
    <3> DEFINE x == [run[r] EXCEPT !.at = "fetch", !.tip = tip, !.from = from, !.to = to]
    <3>1. run' = [run EXCEPT ![r] = x]
      BY <2>2
    <3>2. tip \in 0 .. tip /\ from \in 0 .. tip /\ to \in 0 .. tip
      BY <1>2, <2>2
    <3>3. /\ x.at = "fetch" /\ x.kind = run[r].kind /\ x.from = from
          /\ x.logs = run[r].logs /\ x.lock = run[r].lock /\ x \in Runs(tip)
      BY <3>2, RunFields DEF Inv, Runs
    <3> HIDE DEF x
    <3>4. RequestKept(r, x)
      BY <1>1, <1>4, <3>3 DEF RequestKept, Inv, Depth, First
    <3> QED BY <3>1, <3>4
  <2> QED BY <1>1, <2>1, <2>2
<1>7. CursorsKept(x.kind)
  BY <1>1, <1>2, <1>4, <1>5, <1>6 DEF CursorsKept, RequestKept
<1> QED BY <1>1, <1>3, <1>6, <1>7, StepKeeps DEF Inv, TypeOK, Depth

-----------------------------------------------------------------------------
(* The logs of a chunk *)

\* A chunk that starts where all below is fetched leaves nothing out up to its
\* end; and a log that is confirmed by the tip of the request, which the chain
\* has reached, is deep.
LEMMA FetchKeeps ==
    ASSUME Inv, NEW r \in Requests, Fetch(r)
    PROVE  Inv'
<1> DEFINE logs == {l \in LogsOf(r) : Confirmed(r, block[l])}
           x    == [run[r] EXCEPT !.at = "handle", !.logs = logs]
           chunk == run[r].from .. run[r].to
<1>1. /\ run[r].at = "fetch" /\ run' = [run EXCEPT ![r] = x]
      /\ fetched' = fetched \cup chunk
      /\ UNCHANGED <<chain, record, signed, stored, cached>>
  BY DEF Fetch
<1>2. run[r].from \in 0 .. tip /\ run[r].to \in 0 .. tip /\ run[r].tip \in 0 .. tip
  BY RunFields DEF Inv
<1>3. fetched \subseteq fetched' /\ fetched' \subseteq 0 .. tip
  BY <1>1, <1>2, Numbers DEF Inv, TypeOK
<1>4. Covered(fetched', First(run[r].kind), run[r].to + 1)
  <2>1. Covered(fetched, First(run[r].kind), run[r].from)
    BY <1>1 DEF Inv, Progress
  <2>2. ASSUME NEW b \in Nat, First(run[r].kind) <= b, b < run[r].to + 1
        PROVE  b \in fetched'
    <3>1. CASE b < run[r].from
      BY <1>1, <2>1, <2>2, <3>1 DEF Covered
    <3>2. CASE ~(b < run[r].from)
      BY <1>1, <1>2, <2>2, <3>2
    <3> QED BY <3>1, <3>2
  <2> QED BY <2>2 DEF Covered
<1>5. logs \subseteq Locks /\ \A l \in logs : Deep(l)
  BY <1>2, Numbers DEF LogsOf, Confirmed, Deep, Inv
<1> HIDE DEF logs
<1>6. /\ x.at = "handle" /\ x.kind = run[r].kind /\ x.to = run[r].to
      /\ x.logs = logs /\ x.lock = run[r].lock /\ x \in Runs(tip)
  BY <1>5, RunFields DEF Inv, Runs
<1> HIDE DEF x
<1>7. RequestKept(r, x)
  BY <1>4, <1>5, <1>6 DEF RequestKept, Inv, Depth
<1>8. CursorsKept(x.kind)
  BY <1>1 DEF CursorsKept
<1> QED BY <1>1, <1>3, <1>7, <1>8, StepKeeps DEF Inv, TypeOK, Depth

LEMMA AttestKeeps ==
    ASSUME Inv, NEW r \in Requests, Attest(r)
    PROVE  Inv'
<1>1. PICK l \in run[r].logs :
          /\ signed' = signed \cup {l}
          /\ run' = [run EXCEPT ![r].at = "verify", ![r].lock = {l}, ![r].logs = @ \ {l}]
  BY DEF Attest
<1>2. run[r].at = "handle" /\ UNCHANGED <<chain, record, stored, cached, fetched>>
  BY DEF Attest
<1>3. l \in Locks /\ Deep(l) /\ run[r].logs \ {l} \subseteq Locks
  BY RunFields DEF Inv, Depth
<1> DEFINE rest == run[r].logs \ {l}
           x    == [run[r] EXCEPT !.at = "verify", !.lock = {l}, !.logs = rest]
<1>4. run' = [run EXCEPT ![r] = x]
  BY <1>1
<1>5. /\ x.at = "verify" /\ x.kind = run[r].kind /\ x.to = run[r].to
      /\ x.logs = rest /\ x.lock = {l} /\ x \in Runs(tip)
  BY <1>3, RunFields DEF Inv, Runs
<1>6. \A k \in rest : Deep(k)
  BY DEF Inv, Depth
<1> HIDE DEF x, rest
<1>7. RequestKept(r, x)
  BY <1>2, <1>3, <1>5, <1>6 DEF RequestKept, Inv, Progress
<1>8. CursorsKept(x.kind)
  BY <1>2 DEF CursorsKept
<1>9. signed' \subseteq Locks /\ \A k \in signed' : Deep(k)
  BY <1>1, <1>3 DEF Inv, TypeOK, Depth
<1> QED BY <1>2, <1>4, <1>7, <1>8, <1>9, StepKeeps DEF Inv, TypeOK

LEMMA VerifyKeeps ==
    ASSUME Inv, NEW r \in Requests, Verify(r)
    PROVE  Inv'
<1> DEFINE x == [run[r] EXCEPT !.at = "handle", !.lock = {}]
<1>1. /\ run[r].at = "verify" /\ run' = [run EXCEPT ![r] = x]
      /\ UNCHANGED <<chain, signed, stored, cached, fetched>>
  BY DEF Verify
<1>2. record' \in [Locks -> {"None", "Pending", "Attached"}]
  BY DEF Verify, Inv, TypeOK
<1>3. /\ x.at = "handle" /\ x.kind = run[r].kind /\ x.to = run[r].to
      /\ x.logs = run[r].logs /\ x.lock = {} /\ x \in Runs(tip)
  BY RunFields DEF Inv, Runs
<1> HIDE DEF x
<1>4. RequestKept(r, x)
  BY <1>1, <1>3 DEF RequestKept, Inv, Progress, Depth
<1> QED BY <1>1, <1>2, <1>4, QuietStep

LEMMA LogFailsKeeps ==
    ASSUME Inv, NEW r \in Requests, LogFails(r)
    PROVE  Inv'
<1>1. UNCHANGED <<chain, record, signed, stored, cached, fetched>>
  BY DEF LogFails
<1>2. PICK x : run' = [run EXCEPT ![r] = x] /\ RequestKept(r, x)
  <2>1. CASE /\ run[r].at = "verify"
             /\ run' = [run EXCEPT ![r].at = "handle", ![r].lock = {},
                                   ![r].errors = @ \cup run[r].lock]
    <3> DEFINE x == [run[r] EXCEPT !.at = "handle", !.lock = {},
                                   !.errors = run[r].errors \cup run[r].lock]
    <3>1. run' = [run EXCEPT ![r] = x]
      BY <2>1
    <3>2. /\ x.at = "handle" /\ x.kind = run[r].kind /\ x.to = run[r].to
          /\ x.logs = run[r].logs /\ x.lock = {} /\ x \in Runs(tip)
      BY RunFields DEF Inv, Runs
    <3> HIDE DEF x
    <3>3. RequestKept(r, x)
      BY <1>1, <2>1, <3>2 DEF RequestKept, Inv, Progress, Depth
    <3> QED BY <3>1, <3>3
  <2>2. CASE /\ run[r].at = "handle"
             /\ \E l \in run[r].logs :
                   run' = [run EXCEPT ![r].logs = @ \ {l}, ![r].errors = @ \cup {l}]
    <3>1. PICK l \in run[r].logs :
            run' = [run EXCEPT ![r].logs = @ \ {l}, ![r].errors = @ \cup {l}]
      BY <2>2
    <3> DEFINE rest == run[r].logs \ {l}
               told == run[r].errors \cup {l}
               x    == [run[r] EXCEPT !.logs = rest, !.errors = told]
    <3>2. run' = [run EXCEPT ![r] = x]
      BY <3>1
    <3>3. rest \subseteq Locks /\ told \subseteq Locks /\ \A k \in rest : Deep(k)
      BY RunFields DEF Inv, Depth
    <3> HIDE DEF rest, told
    <3>4. /\ x.at = "handle" /\ x.kind = run[r].kind /\ x.to = run[r].to
          /\ x.logs = rest /\ x.lock = run[r].lock /\ x \in Runs(tip)
      BY <2>2, <3>3, RunFields DEF Inv, Runs
    <3> HIDE DEF x
    <3>5. RequestKept(r, x)
      BY <1>1, <2>2, <3>3, <3>4 DEF RequestKept, Inv, Progress, Depth
    <3> QED BY <3>2, <3>5
  <2> QED BY <2>1, <2>2 DEF LogFails
<1> QED BY <1>1, <1>2, QuietStep DEF Inv, TypeOK

-----------------------------------------------------------------------------
(* The end of a chunk and of a request *)

LEMMA CronChunkKeeps ==
    ASSUME Inv, NEW r \in Requests, CronChunk(r)
    PROVE  Inv'
<1> DEFINE from == run[r].to + 1
<1>1. /\ run[r].kind = "cron" /\ run[r].at = "handle"
      /\ UNCHANGED <<chain, record, signed, stored, cached, fetched>>
      /\ \/ /\ from <= run[r].tip
            /\ run' = [run EXCEPT ![r].at = "fetch", ![r].from = from,
                                  ![r].to = ChunkEnd(from, run[r].tip)]
         \/ run' = [run EXCEPT ![r].at = "save"]
  BY DEF CronChunk, Handled, Is, Goto, NextFrom
<1>2. Covered(fetched, First(run[r].kind), from)
  BY <1>1 DEF Inv, Progress
<1>3. run[r].to \in 0 .. tip /\ run[r].tip \in 0 .. tip /\ tip \in Nat
  BY RunFields, Numbers DEF Inv
<1>4. PICK x : run' = [run EXCEPT ![r] = x] /\ RequestKept(r, x)
  <2>1. CASE /\ from <= run[r].tip
             /\ run' = [run EXCEPT ![r].at = "fetch", ![r].from = from,
                                   ![r].to = ChunkEnd(from, run[r].tip)]
    <3> DEFINE to == ChunkEnd(from, run[r].tip)
               x  == [run[r] EXCEPT !.at = "fetch", !.from = from, !.to = to]
    <3>1. run' = [run EXCEPT ![r] = x]
      BY <2>1
    <3>2. from \in 0 .. run[r].tip /\ from \in 0 .. tip
      BY <1>3, <2>1
    <3>3. to \in 0 .. tip
      BY <1>3, <3>2, ChunkWithin DEF Inv
    <3> HIDE DEF to, from
    <3>4. /\ x.at = "fetch" /\ x.kind = run[r].kind /\ x.from = from
          /\ x.logs = run[r].logs /\ x.lock = run[r].lock /\ x \in Runs(tip)
      BY <3>2, <3>3, RunFields DEF Inv, Runs
    <3> HIDE DEF x
    <3>5. RequestKept(r, x)
      BY <1>1, <1>2, <3>4 DEF RequestKept, Inv, Depth
    <3> QED BY <3>1, <3>5
  <2>2. CASE run' = [run EXCEPT ![r].at = "save"]
    <3> DEFINE x == [run[r] EXCEPT !.at = "save"]
    <3>1. run' = [run EXCEPT ![r] = x]
      BY <2>2
    <3>2. /\ x.at = "save" /\ x.kind = run[r].kind /\ x.to = run[r].to
          /\ x.logs = run[r].logs /\ x.lock = run[r].lock /\ x \in Runs(tip)
      BY RunFields DEF Inv, Runs
    <3> HIDE DEF x
    <3>3. RequestKept(r, x)
      BY <1>1, <1>2, <3>2 DEF RequestKept, Inv, Depth
    <3> QED BY <3>1, <3>3
  <2> QED BY <1>1, <2>1, <2>2
<1> QED BY <1>1, <1>4, QuietStep DEF Inv, TypeOK

\* The row that setLastBlock overwrites may be ahead of this request: what it
\* writes is behind what this request has fetched all the same.
LEMMA SaveKeeps ==
    ASSUME Inv, NEW r \in Requests, NEW ok \in BOOLEAN, run[r].at = "save",
           stored' = run[r].to, End(r, ok),
           UNCHANGED <<chain, record, signed, cached, fetched>>
    PROVE  Inv'
<1> DEFINE x == Answer(r, ok)
<1>1. run' = [run EXCEPT ![r] = x]
  BY DEF End
<1>2. RequestKept(r, x) /\ x.kind = run[r].kind
  BY EndKept
<1> HIDE DEF x
<1>3. run[r].kind = "cron" /\ run[r].to \in 0 .. tip
  BY RunFields DEF Inv, Kinds
<1>4. Covered(fetched, 1, run[r].to + 1)
  BY <1>3 DEF Inv, Progress, First
<1>5. CursorsKept(x.kind)
  BY <1>2, <1>3, <1>4 DEF CursorsKept
<1> QED BY <1>1, <1>2, <1>5, StepKeeps DEF Inv, TypeOK, Depth

LEMMA PollDoneKeeps ==
    ASSUME Inv, NEW r \in Requests, PollDone(r)
    PROVE  Inv'
<1> DEFINE x == Answer(r, TRUE)
<1>1. /\ run[r].kind = "poll" /\ run[r].at = "handle" /\ cached' = run[r].to + 1
      /\ UNCHANGED <<chain, record, signed, stored, fetched>>
  BY DEF PollDone, Handled, Is, NextFrom
<1>2. run' = [run EXCEPT ![r] = x]
  BY DEF PollDone, End
<1>3. RequestKept(r, x) /\ x.kind = run[r].kind
  BY EndKept
<1> HIDE DEF x
<1>4. run[r].to \in 0 .. tip /\ tip \in Nat
  BY RunFields, Numbers DEF Inv
<1>5. Covered(fetched, 0, run[r].to + 1)
  BY <1>1 DEF Inv, Progress, First
<1>6. CursorsKept(x.kind)
  BY <1>1, <1>3, <1>4, <1>5 DEF CursorsKept
<1> QED BY <1>1, <1>2, <1>3, <1>6, StepKeeps DEF Inv, TypeOK, Depth

-----------------------------------------------------------------------------
(* The theorems *)

LEMMA InitInv ==
    ASSUME Init
    PROVE  Inv
<1>1. PICK kind \in {"cron", "poll"} :
          run = [r \in Requests |-> NoRun(kind, TRUE, {})]
  BY DEF Init
<1>2. /\ tip = 1 /\ block = [l \in Locks |-> 0] /\ record = [l \in Locks |-> "None"]
      /\ signed = {} /\ stored = 0 /\ cached = 0 /\ fetched = {}
  BY DEF Init
<1> DEFINE x == NoRun(kind, TRUE, {})
<1>3. /\ x.kind = kind /\ x.at = "ended" /\ x.logs = {} /\ x.lock = {}
      /\ x \in Runs(tip)
  BY <1>2 DEF NoRun, Runs
<1>4. \A r \in Requests : run[r] = x
  BY <1>1
<1>5. run \in [Requests -> Runs(tip)]
  BY <1>1, <1>3
<1> HIDE DEF x
<1>6. TypeOK
  BY <1>2, <1>5, CronAssumption DEF TypeOK, Runs
<1>7. Kinds
  BY <1>2, <1>3, <1>4 DEF Kinds
<1>8. Progress
  BY <1>2, <1>3, <1>4 DEF Progress, Covered
<1>9. Depth
  BY <1>2, <1>3, <1>4 DEF Depth
<1> QED BY <1>6, <1>7, <1>8, <1>9 DEF Inv

LEMMA StepInv ==
    ASSUME Inv, [Next]_vars
    PROVE  Inv'
<1>1. CASE Mine
  BY <1>1, MineKeeps
<1>2. CASE ColdStart
  BY <1>2, ColdStartKeeps
<1>3. ASSUME NEW l \in Locks, Reorg(l) \/ OtherMoves(l)
      PROVE  Inv'
  BY <1>3, ReorgKeeps, OtherMovesKeeps
<1>4. ASSUME NEW r \in Requests, Start(r) \/ RequestStep(r)
      PROVE  Inv'
  <2>1. CASE Start(r)
    BY <2>1, StartKeeps
  <2>2. CASE CronTip(r) \/ CronLast(r) \/ CronChunk(r)
    BY <2>2, CronTipKeeps, CronLastKeeps, CronChunkKeeps
  <2>3. CASE CronSave(r)
    BY <2>3, SaveKeeps DEF CronSave
  <2>4. CASE SaveUnanswered(r)
    BY <2>4, SaveKeeps DEF SaveUnanswered
  <2>5. CASE PollTip(r) \/ PollDone(r)
    BY <2>5, PollTipKeeps, PollDoneKeeps
  <2>6. CASE Fetch(r) \/ Attest(r) \/ Verify(r) \/ LogFails(r)
    BY <2>6, FetchKeeps, AttestKeeps, VerifyKeeps, LogFailsKeeps
  <2>7. CASE Fail(r)
    BY <2>7, FailKeeps
  <2> QED BY <1>4, <2>1, <2>2, <2>3, <2>4, <2>5, <2>6, <2>7 DEF RequestStep
<1>5. CASE UNCHANGED vars
  BY <1>5 DEF vars, chain, Inv, TypeOK, Kinds, Progress, Depth, Deep
<1> QED BY <1>1, <1>2, <1>3, <1>4, <1>5 DEF Next

\* The strengthened invariant of the two serverless watchers: whatever range a
\* request holds, all below it has been fetched, and whatever it has picked to
\* attest is too deep for a reorganisation.
THEOREM CronInvariant == Spec => []Inv
<1>1. Init => Inv
  BY InitInv
<1>2. Inv /\ [Next]_vars => Inv'
  BY StepInv
<1> QED BY <1>1, <1>2, PTL DEF Spec

\* The requests and their cursors have the types that the handlers of
\* collateral/watcher-poll and watcher/poll keep.
THEOREM CronTypes == Spec => []TypeOK
<1>1. Inv => TypeOK
  BY DEF Inv
<1> QED BY <1>1, CronInvariant, PTL

\* However the requests overlap, fail or are cut off, and whichever overwrites
\* the cursor of which, no cursor passes a block nobody has fetched.
THEOREM CronCursors == Spec => []CursorsBehindScans
<1>1. Inv => CursorsBehindScans
  <2> SUFFICES ASSUME Inv
               PROVE  CursorsBehindScans
    OBVIOUS
  <2>1. stored \in Nat /\ cached \in Nat /\ tip \in Nat
    BY Numbers DEF Inv
  <2>2. Covered(fetched, 1, stored + 1) /\ Covered(fetched, 0, cached)
    BY DEF Inv, Progress
  <2> QED BY <2>1, <2>2 DEF CursorsBehindScans, Covered
<1> QED BY <1>1, CronInvariant, PTL

\* Whatever the oracle has attested for a request stays on the chain, as deep as
\* WATCHER_CONFIRMATIONS asks, for good.
THEOREM CronFinality == Spec => []SignedIsFinal
<1>1. Inv => SignedIsFinal
  <2> SUFFICES ASSUME Inv, NEW l \in signed
               PROVE  block[l] # 0 /\ tip - block[l] >= Confirmations
    BY DEF SignedIsFinal
  <2>1. l \in Locks /\ Deep(l)
    BY DEF Inv, Depth, TypeOK
  <2> QED BY <2>1, Numbers DEF Deep, Inv
<1> QED BY <1>1, CronInvariant, PTL
-----------------------------------------------------------------------------
(* What a request has taken up *)

\* The lock l, final and with its record pending, is ahead of the request r:
\* among the logs it has got, in flight, or in a block it has yet to ask for.
Held(r, l) ==
    /\ record[l] = "Pending"
    /\ block[l] # 0 /\ block[l] + Confirmations <= run[r].tip
    /\ \/ /\ run[r].at = "fetch" /\ block[l] >= run[r].from
          /\ run[r].kind = "cron" \/ block[l] <= run[r].to
       \/ /\ run[r].at \in {"handle", "verify"}
          /\ \/ l \in run[r].logs
             \/ run[r].kind = "cron" /\ block[l] > run[r].to
       \/ run[r].at = "verify" /\ l \in run[r].lock

\* What a step may make of it.
Kept(r, l) == Held(r, l)' \/ record'[l] = "Attached" \/ Told(r, l)'

NothingDropped == \A r \in Requests, l \in Locks : Held(r, l) => Kept(r, l)

\* A request that takes up a lock of RangeIsCaught holds it.
LEMMA TakenIsHeld ==
    ASSUME NEW r \in Requests, NEW l \in Locks, TakenUp(r, l)
    PROVE  Held(r, l)
  BY DEF TakenUp, Held

\* A step that writes no request, no record and not the log of l.
LEMMA StillHeld ==
    ASSUME NEW r \in Requests, NEW l \in Locks, Held(r, l),
           run'[r] = run[r], block'[l] = block[l],
           record'[l] \in {record[l], "Attached"}
    PROVE  Kept(r, l)
  BY DEF Held, Kept

\* The log of a lock that is held is too deep for a reorganisation.
LEMMA ChainDropsNothing ==
    ASSUME Inv, NEW r \in Requests, NEW l \in Locks, Held(r, l),
           Mine \/ (\E k \in Locks : Reorg(k) \/ OtherMoves(k))
    PROVE  Kept(r, l)
<1>1. run[r].tip \in 0 .. tip /\ tip \in Nat /\ Confirmations \in Nat
      /\ block[l] \in Nat /\ block[l] # 0 /\ block[l] + Confirmations <= tip
  <2>1. run[r].tip \in 0 .. tip
    BY RunFields DEF Inv
  <2>2. tip \in Nat /\ Confirmations \in Nat /\ block[l] \in Nat
    BY Numbers DEF Inv
  <2> QED BY <2>1, <2>2 DEF Held
<1>2. CASE Mine
  <2>1. block'[l] = block[l] /\ UNCHANGED <<record, run>>
    BY <1>1, <1>2 DEF Mine
  <2> QED BY <2>1, StillHeld
<1>3. ASSUME NEW k \in Locks, Reorg(k)
      PROVE  Kept(r, l)
  <2>1. k # l
    BY <1>1, <1>3, Numbers DEF Reorg, Inv
  <2>2. block'[l] = block[l] /\ UNCHANGED <<record, run>>
    BY <1>3, <2>1 DEF Reorg, Inv, TypeOK
  <2> QED BY <2>2, StillHeld
<1>4. ASSUME NEW k \in Locks, OtherMoves(k)
      PROVE  Kept(r, l)
  <2>1. /\ UNCHANGED <<block, run>> /\ record \in [Locks -> {"None", "Pending", "Attached"}]
        /\ record[l] = "Pending"
    BY <1>4 DEF OtherMoves, chain, Inv, TypeOK, Held
  <2>2. record'[l] \in {record[l], "Attached"}
    BY <1>4, <2>1 DEF OtherMoves
  <2> QED BY <2>1, <2>2, StillHeld
<1> QED BY <1>2, <1>3, <1>4

LEMMA FetchKeepsHold ==
    ASSUME Inv, NEW r \in Requests, NEW l \in Locks, Held(r, l), Fetch(r)
    PROVE  Kept(r, l)
<1> DEFINE logs == {k \in LogsOf(r) : Confirmed(r, block[k])}
           x    == [run[r] EXCEPT !.at = "handle", !.logs = logs]
<1>1. /\ run[r].at = "fetch" /\ run' = [run EXCEPT ![r] = x]
      /\ UNCHANGED <<block, record>>
  BY DEF Fetch, chain
<1>2. /\ run[r].from \in Nat /\ run[r].to \in Nat /\ run[r].tip \in Nat
      /\ block[l] \in Nat /\ Confirmations \in Nat
  BY RunFields, Numbers DEF Inv
<1>3. l \in logs \/ (run[r].kind = "cron" /\ block[l] > run[r].to)
  BY <1>1, <1>2 DEF Held, LogsOf, Confirmed
<1> HIDE DEF logs
<1>4. /\ x.at = "handle" /\ x.logs = logs /\ x.kind = run[r].kind /\ x.to = run[r].to
      /\ x.tip = run[r].tip
  BY RunFields DEF Inv, Runs
<1> HIDE DEF x
<1>5. run'[r] = x
  BY <1>1, RunFields DEF Inv
<1> QED BY <1>1, <1>3, <1>4, <1>5 DEF Held, Kept

LEMMA AttestKeepsHold ==
    ASSUME Inv, NEW r \in Requests, NEW l \in Locks, Held(r, l), Attest(r)
    PROVE  Kept(r, l)
<1>1. PICK k \in run[r].logs :
          run' = [run EXCEPT ![r].at = "verify", ![r].lock = {k}, ![r].logs = @ \ {k}]
  BY DEF Attest
<1>2. run[r].at = "handle" /\ UNCHANGED <<block, record>>
  BY DEF Attest, chain
<1> DEFINE x == [run[r] EXCEPT !.at = "verify", !.lock = {k}, !.logs = run[r].logs \ {k}]
<1>3. run' = [run EXCEPT ![r] = x]
  BY <1>1
<1>4. /\ x.at = "verify" /\ x.logs = run[r].logs \ {k} /\ x.lock = {k}
      /\ x.kind = run[r].kind /\ x.to = run[r].to /\ x.tip = run[r].tip
  BY RunFields DEF Inv, Runs
<1> HIDE DEF x
<1>5. run'[r] = x
  BY <1>3, RunFields DEF Inv
<1> QED BY <1>2, <1>4, <1>5 DEF Held, Kept

LEMMA VerifyKeepsHold ==
    ASSUME Inv, NEW r \in Requests, NEW l \in Locks, Held(r, l), Verify(r)
    PROVE  Kept(r, l)
<1> DEFINE x == [run[r] EXCEPT !.at = "handle", !.lock = {}]
<1>1. /\ run[r].at = "verify" /\ run' = [run EXCEPT ![r] = x] /\ UNCHANGED block
      /\ record[l] = "Pending"
      /\ record'[l] = IF l \in run[r].lock THEN "Attached" ELSE record[l]
  BY DEF Verify, chain, Held
<1>2. /\ x.at = "handle" /\ x.logs = run[r].logs
      /\ x.kind = run[r].kind /\ x.to = run[r].to /\ x.tip = run[r].tip
  BY RunFields DEF Inv, Runs
<1> HIDE DEF x
<1>3. run'[r] = x
  BY <1>1, RunFields DEF Inv
<1> QED BY <1>1, <1>2, <1>3 DEF Held, Kept

\* The next chunk begins where the last one ended, and the chunks end at the
\* tip the request began with: what it holds is below that.
LEMMA ChunkKeepsHold ==
    ASSUME Inv, NEW r \in Requests, NEW l \in Locks, Held(r, l), CronChunk(r)
    PROVE  Kept(r, l)
<1> DEFINE from == run[r].to + 1
           to   == ChunkEnd(from, run[r].tip)
           x    == [run[r] EXCEPT !.at = "fetch", !.from = from, !.to = to]
<1>1. /\ run[r].kind = "cron" /\ run[r].at = "handle" /\ run[r].logs = {}
      /\ UNCHANGED <<block, record>>
  BY DEF CronChunk, Handled, Is, chain
<1>2. /\ run[r].to \in Nat /\ run[r].tip \in Nat
      /\ block[l] \in Nat /\ Confirmations \in Nat
  BY RunFields, Numbers DEF Inv
<1>3. block[l] >= from /\ from <= run[r].tip
  BY <1>1, <1>2 DEF Held
<1>4. run' = [run EXCEPT ![r] = x]
  BY <1>3 DEF CronChunk, NextFrom
<1> HIDE DEF from, to
<1>5. x.at = "fetch" /\ x.from = from /\ x.kind = run[r].kind /\ x.tip = run[r].tip
  BY RunFields DEF Inv, Runs
<1> HIDE DEF x
<1>6. run'[r] = x
  BY <1>4, RunFields DEF Inv
<1> QED BY <1>1, <1>3, <1>5, <1>6 DEF Held, Kept

\* What the answer of a request tells so far.
LEMMA AnswerTells ==
    ASSUME NEW r \in Requests
    PROVE  /\ ~Answer(r, FALSE).ok
           /\ Answer(r, TRUE).errors = run[r].errors
  BY DEF Answer, NoRun

LEMMA FailTells ==
    ASSUME Inv, NEW r \in Requests, NEW l \in Locks, End(r, FALSE)
    PROVE  Told(r, l)'
<1>1. run'[r] = Answer(r, FALSE)
  BY RunFields DEF End, Inv
<1> QED BY <1>1, AnswerTells DEF Told

\* A log that fails is told of, the others are still to be handled.
LEMMA LogFailsKeepsHold ==
    ASSUME Inv, NEW r \in Requests, NEW l \in Locks, Held(r, l), LogFails(r)
    PROVE  Kept(r, l)
<1>1. UNCHANGED <<block, record>>
  BY DEF LogFails, chain
<1>2. CASE /\ run[r].at = "verify"
           /\ run' = [run EXCEPT ![r].at = "handle", ![r].lock = {},
                                 ![r].errors = @ \cup run[r].lock]
  <2> DEFINE x == [run[r] EXCEPT !.at = "handle", !.lock = {},
                                 !.errors = run[r].errors \cup run[r].lock]
  <2>1. run' = [run EXCEPT ![r] = x]
    BY <1>2
  <2>2. /\ x.at = "handle" /\ x.logs = run[r].logs /\ x.kind = run[r].kind
        /\ x.to = run[r].to /\ x.tip = run[r].tip /\ run[r].lock \subseteq x.errors
    BY RunFields DEF Inv, Runs
  <2> HIDE DEF x
  <2>3. run'[r] = x
    BY <2>1, RunFields DEF Inv
  <2> QED BY <1>1, <1>2, <2>2, <2>3 DEF Held, Kept, Told
<1>3. ASSUME NEW k, run[r].at = "handle",
             run' = [run EXCEPT ![r].logs = @ \ {k}, ![r].errors = @ \cup {k}]
      PROVE  Kept(r, l)
  <2> DEFINE x == [run[r] EXCEPT !.logs = run[r].logs \ {k}, !.errors = run[r].errors \cup {k}]
  <2>1. run' = [run EXCEPT ![r] = x]
    BY <1>3
  <2>2. /\ x.at = "handle" /\ x.logs = run[r].logs \ {k} /\ x.kind = run[r].kind
        /\ x.to = run[r].to /\ x.tip = run[r].tip /\ k \in x.errors
    BY <1>3, RunFields DEF Inv, Runs
  <2> HIDE DEF x
  <2>3. run'[r] = x
    BY <2>1, RunFields DEF Inv
  <2> QED BY <1>1, <1>3, <2>2, <2>3 DEF Held, Kept, Told
<1> QED BY <1>2, <1>3 DEF LogFails

\* What a step does to the requests, the chain and the records that are not its own.
LEMMA ElsewhereUntouched ==
    ASSUME Inv, NEW q \in Requests, Start(q) \/ RequestStep(q)
    PROVE  /\ \A r \in Requests : r # q => run'[r] = run[r]
           /\ UNCHANGED block
           /\ \A l \in Locks : record[l] = "Pending" => record'[l] \in {record[l], "Attached"}
<1>1. run \in [Requests -> Runs(tip)]
  BY RunFields DEF Inv
<1>2. \A l \in Locks : record[l] = "Pending" => record'[l] \in {record[l], "Attached"}
  BY DEF Start, RequestStep, CronTip, CronLast, CronChunk, CronSave, SaveUnanswered,
         PollTip, PollDone, Fetch, Attest, Verify, LogFails, Fail
<1>3. UNCHANGED block
  BY DEF Start, RequestStep, CronTip, CronLast, CronChunk, CronSave, SaveUnanswered,
         PollTip, PollDone, Fetch, Attest, Verify, LogFails, Fail, chain
<1>4. \E x : run' = [run EXCEPT ![q] = x]
  BY DEF Start, RequestStep, CronTip, CronLast, CronChunk, CronSave, SaveUnanswered,
         PollTip, PollDone, Fetch, Attest, Verify, LogFails, Fail, Goto, End
<1>5. \A r \in Requests : r # q => run'[r] = run[r]
  BY <1>1, <1>4
<1> QED BY <1>2, <1>3, <1>5

LEMMA StepDropsNothing ==
    ASSUME Inv, [Next]_vars
    PROVE  NothingDropped
<1> SUFFICES ASSUME NEW r \in Requests, NEW l \in Locks, Held(r, l)
             PROVE  Kept(r, l)
  BY DEF NothingDropped
<1>1. run[r].at \in {"fetch", "handle", "verify"} /\ record[l] = "Pending"
  BY DEF Held
<1>2. CASE Mine \/ (\E k \in Locks : Reorg(k) \/ OtherMoves(k))
  BY <1>2, ChainDropsNothing
<1>3. CASE ColdStart
  BY <1>1, <1>3 DEF ColdStart
<1>4. ASSUME NEW q \in Requests, q # r, Start(q) \/ RequestStep(q)
      PROVE  Kept(r, l)
  BY <1>1, <1>4, ElsewhereUntouched, StillHeld
<1>5. CASE Start(r) \/ RequestStep(r)
  <2>1. CASE Fetch(r) \/ Attest(r) \/ Verify(r) \/ CronChunk(r) \/ LogFails(r)
    BY <2>1, FetchKeepsHold, AttestKeepsHold, VerifyKeepsHold, ChunkKeepsHold,
       LogFailsKeepsHold
  <2>2. CASE Fail(r)
    BY <2>2, FailTells DEF Fail, Kept
  <2>3. CASE PollDone(r)
    BY <2>3 DEF PollDone, Handled, Is, Held
  <2>4. CASE Start(r) \/ CronTip(r) \/ CronLast(r) \/ CronSave(r) \/ SaveUnanswered(r) \/ PollTip(r)
    BY <1>1, <2>4 DEF Start, CronTip, CronLast, CronSave, SaveUnanswered, PollTip, Is
  <2> QED BY <1>5, <2>1, <2>2, <2>3, <2>4 DEF RequestStep
<1>6. CASE UNCHANGED vars
  BY <1>6, StillHeld DEF vars, chain
<1> QED BY <1>2, <1>3, <1>4, <1>5, <1>6 DEF Next

\* The error of a log stays in the answer of its request until the next one
\* starts, whatever else fails meanwhile.
ErrorStays ==
    \A r \in Requests, l \in Locks : l \in run[r].errors => Told(r, l)' \/ Start(r)

LEMMA EndTells ==
    ASSUME Inv, NEW r \in Requests, NEW l \in run[r].errors, NEW ok \in BOOLEAN, End(r, ok)
    PROVE  Told(r, l)'
<1>1. run'[r] = Answer(r, ok)
  BY RunFields DEF End, Inv
<1>2. CASE ok = TRUE
  BY <1>1, <1>2, AnswerTells DEF Told
<1>3. CASE ok = FALSE
  BY <1>1, <1>3, AnswerTells DEF Told
<1> QED BY <1>2, <1>3

\* The steps that neither start nor end a request take no error back.
LEMMA StepKeepsErrors ==
    ASSUME Inv, NEW r \in Requests,
           \/ CronTip(r) \/ Fetch(r) \/ Attest(r) \/ Verify(r) \/ LogFails(r) \/ CronChunk(r)
           \/ CronLast(r) /\ ~End(r, TRUE)
           \/ PollTip(r) /\ ~End(r, TRUE)
    PROVE  run[r].errors \subseteq run'[r].errors
<1>1. run \in [Requests -> Runs(tip)] /\ run[r] \in Runs(tip)
  BY RunFields DEF Inv
<1>2. SUFFICES \E x : /\ run' = [run EXCEPT ![r] = x]
                      /\ run[r].errors \subseteq x.errors
  BY <1>1
<1>3. CASE CronTip(r)
  <2> WITNESS [run[r] EXCEPT !.at = "last", !.tip = tip]
  <2> QED BY <1>1, <1>3 DEF CronTip, Runs
<1>4. CASE Fetch(r)
  <2> DEFINE logs == {k \in LogsOf(r) : Confirmed(r, block[k])}
  <2>1. run' = [run EXCEPT ![r].at = "handle", ![r].logs = logs]
    BY <1>4 DEF Fetch
  <2> HIDE DEF logs
  <2> WITNESS [run[r] EXCEPT !.at = "handle", !.logs = logs]
  <2> QED BY <1>1, <2>1 DEF Runs
<1>5. CASE Attest(r)
  <2>1. PICK k : run' = [run EXCEPT ![r].at = "verify", ![r].lock = {k}, ![r].logs = @ \ {k}]
    BY <1>5 DEF Attest
  <2> WITNESS [run[r] EXCEPT !.at = "verify", !.lock = {k}, !.logs = run[r].logs \ {k}]
  <2> QED BY <1>1, <2>1 DEF Runs
<1>6. CASE Verify(r)
  <2> WITNESS [run[r] EXCEPT !.at = "handle", !.lock = {}]
  <2> QED BY <1>1, <1>6 DEF Verify, Runs
<1>7. CASE LogFails(r)
  <2>1. CASE run' = [run EXCEPT ![r].at = "handle", ![r].lock = {},
                                ![r].errors = @ \cup run[r].lock]
    <3> WITNESS [run[r] EXCEPT !.at = "handle", !.lock = {},
                               !.errors = run[r].errors \cup run[r].lock]
    <3> QED BY <1>1, <2>1 DEF Runs
  <2>2. ASSUME NEW k, run' = [run EXCEPT ![r].logs = @ \ {k}, ![r].errors = @ \cup {k}]
        PROVE  \E x : run' = [run EXCEPT ![r] = x] /\ run[r].errors \subseteq x.errors
    <3> WITNESS [run[r] EXCEPT !.logs = run[r].logs \ {k}, !.errors = run[r].errors \cup {k}]
    <3> QED BY <1>1, <2>2 DEF Runs
  <2> QED BY <1>7, <2>1, <2>2 DEF LogFails
<1>8. ASSUME NEW from, NEW to,
             run' = [run EXCEPT ![r].at = "fetch", ![r].from = from, ![r].to = to]
      PROVE  \E x : run' = [run EXCEPT ![r] = x] /\ run[r].errors \subseteq x.errors
  <2> WITNESS [run[r] EXCEPT !.at = "fetch", !.from = from, !.to = to]
  <2> QED BY <1>1, <1>8 DEF Runs
<1>9. CASE CronChunk(r)
  <2>1. CASE Goto(r, "save")
    <3> WITNESS [run[r] EXCEPT !.at = "save"]
    <3> QED BY <1>1, <2>1 DEF Goto, Runs
  <2> QED BY <1>8, <1>9, <2>1 DEF CronChunk
<1>10. CASE CronLast(r) /\ ~End(r, TRUE)
  BY <1>8, <1>10 DEF CronLast
<1>11. CASE PollTip(r) /\ ~End(r, TRUE)
  <2>1. run' = [run EXCEPT ![r].at = "fetch", ![r].tip = tip,
                           ![r].from = PollFrom, ![r].to = PollEnd]
    BY <1>11 DEF PollTip
  <2> WITNESS [run[r] EXCEPT !.at = "fetch", !.tip = tip, !.from = PollFrom, !.to = PollEnd]
  <2> QED BY <1>1, <2>1 DEF Runs
<1> QED BY <1>3, <1>4, <1>5, <1>6, <1>7, <1>9, <1>10, <1>11

LEMMA StepKeepsTelling ==
    ASSUME Inv, [Next]_vars
    PROVE  ErrorStays
<1> SUFFICES ASSUME NEW r \in Requests, NEW l \in Locks, l \in run[r].errors, ~Start(r)
             PROVE  Told(r, l)'
  BY DEF ErrorStays
<1>1. CASE run'[r] = run[r]
  BY <1>1 DEF Told
<1>2. CASE run' = run
  BY <1>2, <1>1
<1>3. CASE Mine \/ ColdStart \/ (\E k \in Locks : Reorg(k) \/ OtherMoves(k)) \/ UNCHANGED vars
  BY <1>2, <1>3 DEF Mine, ColdStart, Reorg, OtherMoves, vars
<1>4. ASSUME NEW q \in Requests, q # r, Start(q) \/ RequestStep(q)
      PROVE  Told(r, l)'
  BY <1>1, <1>4, ElsewhereUntouched
<1>5. CASE RequestStep(r)
  <2>1. CASE End(r, TRUE)
    BY <2>1, EndTells
  <2>2. CASE CronSave(r) \/ PollDone(r)
    BY <2>1, <2>2 DEF CronSave, PollDone
  <2>3. CASE Fail(r) \/ SaveUnanswered(r)
    <3>1. End(r, FALSE)
      BY <2>3 DEF Fail, SaveUnanswered
    <3> QED BY <3>1, EndTells
  <2>4. CASE /\ ~End(r, TRUE)
             /\ \/ CronTip(r) \/ CronLast(r) \/ CronChunk(r) \/ PollTip(r)
                \/ Fetch(r) \/ Attest(r) \/ Verify(r) \/ LogFails(r)
    <3>1. run[r].errors \subseteq run'[r].errors
      BY <2>4, StepKeepsErrors
    <3> QED BY <3>1 DEF Told
  <2> QED BY <1>5, <2>1, <2>2, <2>3, <2>4 DEF RequestStep
<1> QED BY <1>3, <1>4, <1>5 DEF Next

\* RangeIsCaught without its fairness: from the moment a request takes up a
\* lock until its record is verified, no step loses the lock, unless the answer
\* of the request names an error for that very lock in its details or is not
\* ok; and an error named once is still in the answer the request ends with.
\* In particular no request ends, no cursor is stored and no instance is given
\* up with a lock that was neither verified nor told of.
THEOREM CronDropsNothing ==
    Spec => /\ [](\A r \in Requests, l \in Locks : TakenUp(r, l) => Held(r, l))
            /\ [][NothingDropped]_vars
            /\ [][ErrorStays]_vars
<1>1. \A r \in Requests, l \in Locks : TakenUp(r, l) => Held(r, l)
  BY TakenIsHeld
<1>2. Inv /\ [Next]_vars => [NothingDropped]_vars
  BY StepDropsNothing
<1>3. Inv /\ [Next]_vars => [ErrorStays]_vars
  BY StepKeepsTelling
<1> QED BY <1>1, <1>2, <1>3, CronInvariant, PTL DEF Spec
=============================================================================
