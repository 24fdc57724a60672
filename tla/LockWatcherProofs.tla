-------------------------- MODULE LockWatcherProofs --------------------------
(***************************************************************************)
(* Theorems of LockWatcher for any locks and polls, any number of          *)
(* confirmations, any block range and lookback, a chain of any height and  *)
(* any number of restarts.                                                 *)
(*                                                                         *)
(* What a scan holds is old: the tip it read, the logs it fetched, the     *)
(* cursor it started from.  Inv says why it may still act on them: a log   *)
(* that was deep enough then cannot move any more, a block once fetched    *)
(* stays fetched, and a lock it attests is marked in the process' memory.  *)
(***************************************************************************)
EXTENDS LockWatcher, FiniteSetTheorems, TLAPS

-----------------------------------------------------------------------------
(* The inductive invariant *)

Scans(t) ==
    [at : {"idle", "tip", "fetch", "handle", "attest"},
     tip : 0 .. t, from : 0 .. (t + 1), to : 0 .. t,
     logs : SUBSET [lock : Locks, block : 1 .. t], lock : SUBSET Locks]

\* The log of l is so deep that no reorganisation reaches it.
Deep(l) == block[l] # 0 /\ block[l] + Confirmations <= tip

SignedDeep == \A l \in signed : Deep(l)

\* A confirmed log that a scan still has to handle is where it was fetched.
LogsTrue ==
    \A s \in Scanners : scan[s].at \in {"handle", "attest"} =>
        \A log \in scan[s].logs :
            log.block + Confirmations <= scan[s].tip => block[log.lock] = log.block

\* A scan attests one lock at a time, deep and marked.
AttestsOne ==
    \A s \in Scanners : scan[s].at = "attest" =>
        \E l \in Locks : scan[s].lock = {l} /\ Deep(l) /\ l \in processed

\* No two scans attest the same lock.
Exclusive ==
    \A s, q \in Scanners, l \in Locks : InFlight(s, l) /\ InFlight(q, l) => s = q

\* Which scans there are in which phase.
Phases ==
    /\ phase \in {"down", "boot"} => \A s \in Scanners : scan[s].at = "idle"
    /\ phase = "backfill" => \A p \in Polls : scan[p].at = "idle"
    /\ phase \in {"first", "live"} => scan["backfill"].at = "idle"

\* Nothing is left out below the cursor, where a scan started, or where it ends.
Below(b) == \A c \in Nat : c < b => c \in scanned

NothingLeft ==
    /\ phase \in {"first", "live"} => Below(fromBlock)
    /\ \A s \in Scanners :
          /\ scan[s].at \in {"fetch", "handle", "attest"} => Below(scan[s].from)
          /\ scan[s].at \in {"handle", "attest"} => Below(scan[s].to + 1)

Flights == AttestsOne /\ Exclusive /\ ProcessedIsDone
Depth == SignedDeep /\ LogsTrue
Blocks == Phases /\ NothingLeft

Inv == TypeOK /\ Flights /\ Depth /\ Blocks

-----------------------------------------------------------------------------
(* The fields of a scan, and what the steps write *)

LEMMA ScanFields ==
    ASSUME TypeOK, NEW s \in Scanners
    PROVE  /\ scan \in [Scanners -> Scans(tip)]
           /\ scan[s] \in Scans(tip)
           /\ scan[s].at \in {"idle", "tip", "fetch", "handle", "attest"}
           /\ scan[s].tip \in 0 .. tip /\ scan[s].from \in 0 .. (tip + 1)
           /\ scan[s].to \in 0 .. tip
           /\ scan[s].logs \subseteq [lock : Locks, block : 1 .. tip]
           /\ scan[s].lock \subseteq Locks
<1>1. scan \in [Scanners -> Scans(tip)]
  BY DEF TypeOK, Scans
<1>2. scan[s] \in Scans(tip)
  BY <1>1
<1> QED BY <1>1, <1>2 DEF Scans

LEMMA Numbers ==
    ASSUME TypeOK
    PROVE  /\ tip \in Nat /\ tip > 0 /\ fromBlock \in Nat /\ fromBlock <= tip + 1
           /\ Confirmations \in Nat /\ ReorgDepth \in Nat
           /\ ReorgDepth <= Confirmations
           /\ MaxRange \in Nat /\ MaxRange > 0 /\ Lookback \in Nat
           /\ \A l \in Locks : block[l] \in Nat /\ block[l] <= tip
  BY WatcherAssumption DEF TypeOK

\* Everything is as it was, but for the record of one scan.
Others(s) == \A q \in Scanners : q # s => scan'[q] = scan[q]

LEMMA SetScan ==
    ASSUME TypeOK, NEW s \in Scanners, NEW r,
           scan' = [scan EXCEPT ![s] = r]
    PROVE  /\ scan'[s] = r /\ Others(s)
           /\ r \in Scans(tip) => scan' \in [Scanners -> Scans(tip)]
<1>1. scan \in [Scanners -> Scans(tip)]
  BY ScanFields
<1> QED BY <1>1 DEF Others

LEMMA NoScanType == \A t \in Nat : NoScan \in Scans(t)
  BY DEF NoScan, Scans

LEMMA StartPollWrites ==
    ASSUME TypeOK, NEW p \in Polls, StartPoll(p)
    PROVE  /\ scan[p].at = "idle" /\ phase \in {"first", "live"}
           /\ scan'[p].at = "tip" /\ scan' \in [Scanners -> Scans(tip)] /\ Others(p)
           /\ UNCHANGED <<chain, record, signed, starts, phase, fromBlock,
                          processed, scanned>>
<1> DEFINE r == [scan[p] EXCEPT !.at = "tip"]
<1>1. p \in Scanners
  BY DEF Scanners
<1>2. scan' = [scan EXCEPT ![p] = r]
  BY DEF StartPoll
<1>3. r.at = "tip" /\ r \in Scans(tip)
  BY <1>1, ScanFields DEF Scans
<1> HIDE DEF r
<1> QED BY <1>1, <1>2, <1>3, SetScan DEF StartPoll

LEMMA FetchWrites ==
    ASSUME TypeOK, NEW s \in Scanners, FetchLogs(s)
    PROVE  /\ scan[s].at = "fetch" /\ scan'[s].at = "handle"
           /\ scan'[s].tip = scan[s].tip /\ scan'[s].from = scan[s].from
           /\ scan'[s].to = scan[s].to
           /\ scan'[s].logs = LogsIn(scan[s].from, scan[s].to)
           /\ scan' \in [Scanners -> Scans(tip)] /\ Others(s)
           /\ scanned' = scanned \cup (scan[s].from .. scan[s].to)
           /\ UNCHANGED <<chain, record, signed, starts, phase, fromBlock, processed>>
<1> DEFINE logs == LogsIn(scan[s].from, scan[s].to)
           r == [scan[s] EXCEPT !.at = "handle", !.logs = logs]
<1>1. scan' = [scan EXCEPT ![s] = r]
  BY DEF FetchLogs
<1>2. logs \subseteq [lock : Locks, block : 1 .. tip]
  <2>1. \A l \in Locks : block[l] # 0 => block[l] \in 1 .. tip
    BY Numbers
  <2> QED BY <2>1 DEF LogsIn
<1> HIDE DEF logs
<1>3. /\ r.at = "handle" /\ r.tip = scan[s].tip /\ r.from = scan[s].from
      /\ r.to = scan[s].to /\ r.logs = logs /\ r \in Scans(tip)
  BY <1>2, ScanFields DEF Scans
<1> HIDE DEF r
<1> QED BY <1>1, <1>3, SetScan DEF FetchLogs, logs

LEMMA SkipWrites ==
    ASSUME TypeOK, NEW s \in Scanners, Skip(s)
    PROVE  /\ scan[s].at = "handle" /\ scan'[s].at = "handle"
           /\ scan'[s].tip = scan[s].tip /\ scan'[s].from = scan[s].from
           /\ scan'[s].to = scan[s].to
           /\ scan'[s].logs \subseteq scan[s].logs
           /\ scan' \in [Scanners -> Scans(tip)] /\ Others(s)
           /\ UNCHANGED <<chain, record, signed, starts, phase, fromBlock,
                          processed, scanned>>
<1>1. PICK log \in scan[s].logs : scan' = [scan EXCEPT ![s].logs = @ \ {log}]
  BY DEF Skip
<1> DEFINE logs == scan[s].logs \ {log}
           r == [scan[s] EXCEPT !.logs = logs]
<1>2. scan' = [scan EXCEPT ![s] = r]
  BY <1>1
<1>3. logs \subseteq scan[s].logs
  OBVIOUS
<1> HIDE DEF logs
<1>4. /\ r.at = scan[s].at /\ r.tip = scan[s].tip /\ r.from = scan[s].from
      /\ r.to = scan[s].to /\ r.logs = logs /\ r \in Scans(tip)
  BY <1>3, ScanFields DEF Scans
<1> HIDE DEF r
<1> QED BY <1>2, <1>3, <1>4, SetScan DEF Skip

LEMMA TakeWrites ==
    ASSUME TypeOK, NEW s \in Scanners, Take(s)
    PROVE  \E log \in scan[s].logs :
              /\ log \in [lock : Locks, block : 1 .. tip]
              /\ scan[s].at = "handle" /\ scan'[s].at = "attest"
              /\ scan'[s].tip = scan[s].tip /\ scan'[s].from = scan[s].from
              /\ scan'[s].to = scan[s].to
              /\ scan'[s].logs \subseteq scan[s].logs
              /\ scan'[s].lock = {log.lock}
              /\ scan' \in [Scanners -> Scans(tip)] /\ Others(s)
              /\ log.lock \notin processed /\ processed' = processed \cup {log.lock}
              /\ log.block + Confirmations <= scan[s].tip
              /\ UNCHANGED <<chain, record, signed, starts, phase, fromBlock, scanned>>
<1>1. PICK log \in scan[s].logs :
          /\ log.lock \notin processed
          /\ Confirmed(s, log)
          /\ processed' = Marked(log.lock)
          /\ scan' = [scan EXCEPT ![s].at = "attest", ![s].lock = {log.lock},
                                  ![s].logs = @ \ {log}]
  BY DEF Take
<1>2. log \in [lock : Locks, block : 1 .. tip]
  BY ScanFields
<1>3. log.block + Confirmations <= scan[s].tip
  BY <1>1, <1>2, ScanFields, Numbers DEF Confirmed
<1> DEFINE logs == scan[s].logs \ {log}
           lock == {log.lock}
           r == [scan[s] EXCEPT !.at = "attest", !.lock = lock, !.logs = logs]
<1>4. scan' = [scan EXCEPT ![s] = r]
  BY <1>1
<1>5. logs \subseteq scan[s].logs /\ lock \subseteq Locks
  BY <1>2
<1> HIDE DEF logs, lock
<1>6. /\ r.at = "attest" /\ r.tip = scan[s].tip /\ r.from = scan[s].from
      /\ r.to = scan[s].to /\ r.logs = logs /\ r.lock = lock /\ r \in Scans(tip)
  BY <1>5, ScanFields DEF Scans
<1> HIDE DEF r
<1>7. scan'[s] = r /\ Others(s) /\ scan' \in [Scanners -> Scans(tip)]
  BY <1>4, <1>6, SetScan
<1> QED BY <1>1, <1>2, <1>3, <1>5, <1>6, <1>7 DEF Take, Marked, lock

LEMMA ResumeWrites ==
    ASSUME TypeOK, NEW s \in Scanners, Resume(s)
    PROVE  /\ scan'[s].at = "handle" /\ scan'[s].lock = {}
           /\ scan'[s].tip = scan[s].tip /\ scan'[s].from = scan[s].from
           /\ scan'[s].to = scan[s].to /\ scan'[s].logs = scan[s].logs
           /\ scan' \in [Scanners -> Scans(tip)] /\ Others(s)
<1> DEFINE r == [scan[s] EXCEPT !.at = "handle", !.lock = {}]
<1>1. scan' = [scan EXCEPT ![s] = r]
  BY DEF Resume
<1>2. /\ r.at = "handle" /\ r.tip = scan[s].tip /\ r.from = scan[s].from
      /\ r.to = scan[s].to /\ r.logs = scan[s].logs /\ r.lock = {} /\ r \in Scans(tip)
  BY ScanFields DEF Scans
<1> HIDE DEF r
<1> QED BY <1>1, <1>2, SetScan

LEMMA NoScanWrites ==
    ASSUME TypeOK, NEW s \in Scanners, scan' = [scan EXCEPT ![s] = NoScan]
    PROVE  scan'[s].at = "idle" /\ scan' \in [Scanners -> Scans(tip)] /\ Others(s)
<1>1. NoScan \in Scans(tip) /\ NoScan.at = "idle"
  BY NoScanType, Numbers DEF NoScan
<1> QED BY <1>1, SetScan

\* A new scan of the blocks from .. to, with tip t in hand.
LEMMA NewScanWrites ==
    ASSUME TypeOK, NEW s \in Scanners, NEW t \in 0 .. tip,
           NEW from \in 0 .. (tip + 1), NEW to \in 0 .. tip,
           scan' = [scan EXCEPT ![s] = [NoScan EXCEPT !.at = "fetch", !.tip = t,
                                                      !.from = from, !.to = to]]
    PROVE  /\ scan'[s].at = "fetch" /\ scan'[s].from = from
           /\ scan' \in [Scanners -> Scans(tip)] /\ Others(s)
<1> DEFINE r == [NoScan EXCEPT !.at = "fetch", !.tip = t, !.from = from, !.to = to]
<1>1. r.at = "fetch" /\ r.from = from /\ r \in Scans(tip)
  BY DEF NoScan, Scans
<1> HIDE DEF r
<1> QED BY <1>1, SetScan DEF r

LEMMA BackfillWrites ==
    ASSUME TypeOK, NEW end \in 0 .. tip, NEW from \in 0 .. end,
           scan' = [scan EXCEPT !["backfill"] = BackfillScan(from, end)]
    PROVE  /\ scan'["backfill"].at = "fetch" /\ scan'["backfill"].from = from
           /\ scan' \in [Scanners -> Scans(tip)] /\ Others("backfill")
<1>1. ChunkEnd(from, end) \in 0 .. tip
  BY Numbers DEF ChunkEnd
<1>2. "backfill" \in Scanners /\ from \in 0 .. (tip + 1)
  BY Numbers DEF Scanners
<1> QED BY <1>1, <1>2, NewScanWrites DEF BackfillScan

-----------------------------------------------------------------------------
(* What keeps each part of the invariant *)

LEMMA TypesKept ==
    ASSUME TypeOK, scan' \in [Scanners -> Scans(tip)],
           UNCHANGED <<chain, starts>>,
           record' \in [Locks -> {"None", "Pending", "Attached"}],
           signed' \subseteq Locks, processed' \subseteq Locks,
           phase' \in {"down", "boot", "backfill", "first", "live"},
           fromBlock' \in 0 .. (tip + 1), scanned' \subseteq 0 .. tip
    PROVE  TypeOK'
  BY DEF TypeOK, Scans, chain

\* A step of a scan that attests nothing, before or after.
LEMMA FlightsKept ==
    ASSUME Inv, NEW s \in Scanners, Others(s),
           scan[s].at # "attest", scan'[s].at # "attest",
           UNCHANGED <<chain, record, processed>>
    PROVE  Flights'
<1>1. \A q \in Scanners, l \in Locks : InFlight(q, l)' <=> InFlight(q, l)
  BY DEF InFlight, Others
<1>2. AttestsOne'
  BY DEF AttestsOne, Others, Deep, chain, Inv, Flights
<1>3. Exclusive'
  BY <1>1 DEF Exclusive, Inv, Flights
<1>4. ProcessedIsDone'
  BY <1>1 DEF ProcessedIsDone, Inv, Flights, TypeOK
<1> QED BY <1>2, <1>3, <1>4 DEF Flights

\* A scan is done with its lock: verified, or no longer marked.
LEMMA FlightEnds ==
    ASSUME Inv, NEW s \in Scanners, NEW l \in scan[s].lock,
           scan[s].at = "attest", scan'[s].at = "handle", Others(s),
           UNCHANGED chain,
           \A k \in Locks : record[k] = "Attached" => record'[k] = "Attached",
           \/ processed' = processed /\ record'[l] = "Attached"
           \/ processed' = processed \ {l}
    PROVE  Flights'
<1>1. l \in Locks /\ scan[s].lock = {l} /\ InFlight(s, l)
  BY DEF Inv, Flights, AttestsOne, InFlight
<1>2. \A q \in Scanners, k \in Locks :
          InFlight(q, k)' <=> q # s /\ InFlight(q, k)
  BY DEF InFlight, Others
<1>3. AttestsOne'
  <2> SUFFICES ASSUME NEW q \in Scanners, (scan[q].at = "attest")'
               PROVE  \E k \in Locks : (scan[q].lock = {k} /\ Deep(k) /\ k \in processed)'
    BY DEF AttestsOne
  <2>1. q # s /\ scan'[q] = scan[q]
    BY DEF Others
  <2>2. PICK k \in Locks : scan[q].lock = {k} /\ Deep(k) /\ k \in processed
    BY <2>1 DEF Inv, Flights, AttestsOne
  <2>3. k # l
    BY <1>1, <2>1, <2>2 DEF Inv, Flights, Exclusive, InFlight
  <2> QED BY <2>1, <2>2, <2>3 DEF Deep, chain
<1>4. Exclusive'
  BY <1>2 DEF Exclusive, Inv, Flights
<1>5. ProcessedIsDone'
  <2> SUFFICES ASSUME NEW k \in processed'
               PROVE  (record[k] = "Attached" \/ \E q \in Scanners : InFlight(q, k))'
    BY DEF ProcessedIsDone
  <2>1. k \in processed /\ k \in Locks
    BY DEF Inv, TypeOK
  <2>2. CASE k = l
    BY <2>2
  <2>3. CASE k # l
    <3>1. record[k] = "Attached" \/ \E q \in Scanners : InFlight(q, k)
      BY <2>1 DEF Inv, Flights, ProcessedIsDone
    <3>2. ~InFlight(s, k)
      BY <1>1, <2>3 DEF InFlight
    <3> QED BY <3>1, <3>2, <1>2, <2>1
  <2> QED BY <2>2, <2>3
<1> QED BY <1>3, <1>4, <1>5 DEF Flights

\* A scan keeps its tip, and gets no logs.
LEMMA DepthKept ==
    ASSUME Inv, NEW s \in Scanners, Others(s), UNCHANGED chain,
           \A l \in signed' : Deep(l),
           scan'[s].at \in {"handle", "attest"} =>
              /\ scan[s].at \in {"handle", "attest"}
              /\ scan'[s].tip = scan[s].tip /\ scan'[s].logs \subseteq scan[s].logs
    PROVE  Depth'
<1>1. SignedDeep'
  BY DEF SignedDeep, Deep, chain
<1>2. LogsTrue'
  <2> SUFFICES ASSUME NEW q \in Scanners, (scan[q].at \in {"handle", "attest"})',
                      NEW log \in scan'[q].logs,
                      (log.block + Confirmations <= scan[q].tip)'
               PROVE  (block[log.lock] = log.block)'
    BY DEF LogsTrue
  <2>1. /\ scan[q].at \in {"handle", "attest"} /\ log \in scan[q].logs
        /\ scan'[q].tip = scan[q].tip
    BY DEF Others
  <2> QED BY <2>1 DEF Inv, Depth, LogsTrue, chain
<1> QED BY <1>1, <1>2 DEF Depth

LEMMA NothingLeftKept ==
    ASSUME Inv, NEW s \in Scanners, Others(s), scanned \subseteq scanned',
           phase' \in {"first", "live"} => Below(fromBlock)',
           scan'[s].at \in {"fetch", "handle", "attest"} => Below(scan[s].from)',
           scan'[s].at \in {"handle", "attest"} => Below(scan[s].to + 1)'
    PROVE  NothingLeft'
<1> SUFFICES ASSUME NEW q \in Scanners
             PROVE  /\ scan'[q].at \in {"fetch", "handle", "attest"} => Below(scan[q].from)'
                    /\ scan'[q].at \in {"handle", "attest"} => Below(scan[q].to + 1)'
  BY DEF NothingLeft
<1>1. CASE q = s
  BY <1>1
<1>2. CASE q # s
  <2>1. scan'[q] = scan[q]
    BY <1>2 DEF Others
  <2> QED BY <2>1 DEF Inv, Blocks, NothingLeft, Below
<1> QED BY <1>1, <1>2

\* A scan goes on, and neither starts nor moves.
LEMMA BlocksKept ==
    ASSUME Inv, NEW s \in Scanners, Others(s), UNCHANGED <<phase, fromBlock, scanned>>,
           scan[s].at \in {"handle", "attest"}, scan'[s].at \in {"handle", "attest"},
           scan'[s].from = scan[s].from, scan'[s].to = scan[s].to
    PROVE  Blocks'
<1>1. Phases'
  <2>1. \A q \in Scanners : scan[q].at = "idle" => scan'[q].at = "idle"
    BY DEF Others
  <2> QED BY <2>1 DEF Inv, Blocks, Phases, Scanners
<1>2. Below(scan[s].from)' /\ Below(scan[s].to + 1)'
  <2>1. Below(scan[s].from) /\ Below(scan[s].to + 1)
    BY DEF Inv, Blocks, NothingLeft
  <2> QED BY <2>1 DEF Below
<1>3. phase' \in {"first", "live"} => Below(fromBlock)'
  BY DEF Inv, Blocks, NothingLeft, Below
<1> QED BY <1>1, <1>2, <1>3, NothingLeftKept DEF Blocks

\* A poll starts, reads the tip or ends while the process is polling.
LEMMA PollPhases ==
    ASSUME Inv, NEW p \in Polls, Others(p),
           phase' \in {"first", "live"}, phase \in {"first", "live"}
    PROVE  Phases'
<1>1. p # "backfill" /\ "backfill" \in Scanners
  BY WatcherAssumption DEF Scanners
<1> QED BY <1>1 DEF Inv, Blocks, Phases, Others

LEMMA PollIsLive ==
    ASSUME Inv, NEW p \in Polls, scan[p].at # "idle"
    PROVE  phase \in {"first", "live"}
  BY DEF Inv, TypeOK, Blocks, Phases, Scanners

-----------------------------------------------------------------------------
(* The chain, the borrower, start and crash *)

LEMMA MineKeeps ==
    ASSUME Inv, Mine
    PROVE  Inv'
<1> USE DEF chain, memory
<1>1. PICK included \in SUBSET {l \in Locks : block[l] = 0} :
          block' = [l \in Locks |-> IF l \in included THEN tip + 1 ELSE block[l]]
  BY DEF Mine
<1>2. /\ tip' = tip + 1 /\ tip \in Nat /\ tip <= MaxBlock /\ MaxBlock \in Nat
      /\ UNCHANGED <<record, signed, starts, phase, fromBlock, processed, scan, scanned>>
  BY Numbers, WatcherAssumption DEF Mine, Inv
<1>3. /\ block' \in [Locks -> 0 .. tip']
      /\ \A l \in Locks : block[l] # 0 => block'[l] = block[l]
  BY <1>1, <1>2, Numbers DEF Inv
<1>4. \A l \in Locks : Deep(l) => Deep(l)'
  BY <1>2, <1>3, Numbers DEF Deep, Inv
<1>5. scan' \in [Scanners -> Scans(tip')]
  <2>1. Scans(tip) \subseteq Scans(tip + 1)
    <3>1. /\ 0 .. tip \subseteq 0 .. (tip + 1) /\ 1 .. tip \subseteq 1 .. (tip + 1)
          /\ 0 .. (tip + 1) \subseteq 0 .. (tip + 1 + 1)
      BY <1>2
    <3>2. [lock : Locks, block : 1 .. tip] \subseteq [lock : Locks, block : 1 .. (tip + 1)]
      BY <3>1
    <3> QED BY <3>1, <3>2 DEF Scans
  <2> QED BY <1>2, <2>1, ScanFields DEF Inv, TypeOK, Scans
<1>6. TypeOK'
  <2>1. tip' \in 1 .. (MaxBlock + 1)
    BY <1>2 DEF Mine, Inv, TypeOK
  <2>2. fromBlock' \in 0 .. (tip' + 1) /\ scanned' \subseteq 0 .. tip'
    BY <1>2 DEF Inv, TypeOK
  <2> QED BY <1>2, <1>3, <1>5, <2>1, <2>2 DEF Inv, TypeOK, Scans
<1>7. Flights'
  <2>1. \A q \in Scanners, k \in Locks : InFlight(q, k)' <=> InFlight(q, k)
    BY <1>2 DEF InFlight
  <2>2. AttestsOne'
    BY <1>2, <1>4 DEF Inv, Flights, AttestsOne
  <2>3. Exclusive' /\ ProcessedIsDone'
    BY <1>2, <2>1 DEF Inv, Flights, Exclusive, ProcessedIsDone, TypeOK
  <2> QED BY <2>2, <2>3 DEF Flights
<1>8. Depth'
  <2>1. SignedDeep'
    BY <1>2, <1>4 DEF Inv, Depth, SignedDeep, TypeOK
  <2>2. LogsTrue'
    <3> SUFFICES ASSUME NEW q \in Scanners, scan[q].at \in {"handle", "attest"},
                        NEW log \in scan[q].logs,
                        log.block + Confirmations <= scan[q].tip
                 PROVE  block'[log.lock] = log.block
      BY <1>2 DEF LogsTrue
    <3>1. log \in [lock : Locks, block : 1 .. tip]
      BY ScanFields DEF Inv
    <3>2. block[log.lock] = log.block
      BY DEF Inv, Depth, LogsTrue
    <3> QED BY <1>3, <3>1, <3>2
  <2> QED BY <2>1, <2>2 DEF Depth
<1>9. Blocks'
  BY <1>2 DEF Inv, Blocks, Phases, NothingLeft, Below
<1> QED BY <1>6, <1>7, <1>8, <1>9 DEF Inv

\* A reorganisation reaches no deep log.
LEMMA ReorgKeeps ==
    ASSUME Inv, NEW l \in Locks, Reorg(l)
    PROVE  Inv'
<1> USE DEF chain, memory
<1>1. PICK b \in {0} \cup (Minus(tip + 1, ReorgDepth) .. tip) :
          block' = [block EXCEPT ![l] = b]
  BY DEF Reorg
<1>2. UNCHANGED <<tip, record, signed, starts, phase, fromBlock, processed, scan, scanned>>
  BY DEF Reorg
<1>3. b \in 0 .. tip
  BY <1>1, Numbers DEF Minus, Inv
<1>4. block' \in [Locks -> 0 .. tip]
  BY <1>1, <1>3 DEF Inv, TypeOK
<1>5. ~Deep(l)
  BY Numbers DEF Reorg, Deep, Inv
<1>6. \A k \in Locks : k # l => block'[k] = block[k]
  BY <1>1 DEF Inv, TypeOK
<1>7. \A k \in Locks : Deep(k) => Deep(k)'
  BY <1>2, <1>5, <1>6 DEF Deep
<1>8. TypeOK'
  BY <1>2, <1>4 DEF Inv, TypeOK
<1>9. Flights'
  <2>1. \A q \in Scanners, k \in Locks : InFlight(q, k)' <=> InFlight(q, k)
    BY <1>2 DEF InFlight
  <2>2. AttestsOne'
    BY <1>2, <1>7 DEF Inv, Flights, AttestsOne
  <2>3. Exclusive' /\ ProcessedIsDone'
    BY <1>2, <2>1 DEF Inv, Flights, Exclusive, ProcessedIsDone, TypeOK
  <2> QED BY <2>2, <2>3 DEF Flights
<1>10. Depth'
  <2>1. SignedDeep'
    BY <1>2, <1>7 DEF Inv, Depth, SignedDeep, TypeOK
  <2>2. LogsTrue'
    <3> SUFFICES ASSUME NEW q \in Scanners, scan[q].at \in {"handle", "attest"},
                        NEW log \in scan[q].logs,
                        log.block + Confirmations <= scan[q].tip
                 PROVE  block'[log.lock] = log.block
      BY <1>2 DEF LogsTrue
    <3>1. log \in [lock : Locks, block : 1 .. tip] /\ scan[q].tip \in 0 .. tip
      BY ScanFields DEF Inv
    <3>2. block[log.lock] = log.block
      BY DEF Inv, Depth, LogsTrue
    <3>3. Deep(log.lock)
      BY <3>1, <3>2, Numbers DEF Deep, Inv
    <3> QED BY <1>5, <1>6, <3>1, <3>2, <3>3
  <2> QED BY <2>1, <2>2 DEF Depth
<1>11. Blocks'
  BY <1>2 DEF Inv, Blocks, Phases, NothingLeft, Below
<1> QED BY <1>8, <1>9, <1>10, <1>11 DEF Inv

LEMMA OthersRecordKeeps ==
    ASSUME Inv, NEW l \in Locks, BorrowerAttaches(l) \/ OtherVerifies(l)
    PROVE  Inv'
<1> USE DEF chain, memory
<1>1. /\ UNCHANGED <<tip, block, signed, starts, phase, fromBlock, processed, scan, scanned>>
      /\ record' \in [Locks -> {"None", "Pending", "Attached"}]
      /\ \A k \in Locks : record[k] = "Attached" => record'[k] = "Attached"
  BY DEF BorrowerAttaches, OtherVerifies, Inv, TypeOK
<1>2. TypeOK'
  BY <1>1 DEF Inv, TypeOK
<1>3. Flights'
  <2>1. \A q \in Scanners, k \in Locks : InFlight(q, k)' <=> InFlight(q, k)
    BY <1>1 DEF InFlight
  <2>2. AttestsOne' /\ Exclusive'
    BY <1>1, <2>1 DEF Inv, Flights, AttestsOne, Deep, Exclusive
  <2>3. ProcessedIsDone'
    BY <1>1, <2>1 DEF Inv, Flights, ProcessedIsDone, TypeOK
  <2> QED BY <2>2, <2>3 DEF Flights
<1>4. Depth' /\ Blocks'
  BY <1>1 DEF Inv, Depth, SignedDeep, Deep, LogsTrue, Blocks, Phases, NothingLeft, Below
<1> QED BY <1>2, <1>3, <1>4 DEF Inv

LEMMA StartKeeps ==
    ASSUME Inv, Start
    PROVE  Inv'
<1> USE DEF chain
<1>1. /\ UNCHANGED <<tip, block, record, signed, fromBlock, processed, scan, scanned>>
      /\ phase = "down" /\ phase' = "boot" /\ starts' \in 0 .. MaxStarts
  BY WatcherAssumption DEF Start, Inv, TypeOK
<1>2. TypeOK'
  BY <1>1 DEF Inv, TypeOK
<1>3. Flights'
  BY <1>1 DEF Inv, Flights, AttestsOne, Deep, Exclusive, InFlight, ProcessedIsDone
<1>4. Depth' /\ Blocks'
  BY <1>1 DEF Inv, Depth, SignedDeep, Deep, LogsTrue, Blocks, Phases, NothingLeft, Below
<1> QED BY <1>2, <1>3, <1>4 DEF Inv

LEMMA BootTipFailsKeeps ==
    ASSUME Inv, BootTipFails
    PROVE  Inv'
<1> USE DEF chain
<1>1. /\ UNCHANGED <<tip, block, record, signed, starts, processed, scan, scanned>>
      /\ phase = "boot" /\ phase' = "first" /\ fromBlock' = 0
  BY DEF BootTipFails
<1>2. TypeOK'
  BY <1>1, Numbers DEF Inv, TypeOK
<1>3. Flights'
  BY <1>1 DEF Inv, Flights, AttestsOne, Deep, Exclusive, InFlight, ProcessedIsDone
<1>4. Depth' /\ Phases'
  BY <1>1 DEF Inv, Depth, SignedDeep, Deep, LogsTrue, Blocks, Phases, Scanners
<1>5. NothingLeft'
  BY <1>1 DEF Inv, Blocks, NothingLeft, Below
<1> QED BY <1>2, <1>3, <1>4, <1>5 DEF Inv, Blocks

LEMMA CrashKeeps ==
    ASSUME Inv, Crash
    PROVE  Inv'
<1> USE DEF chain
<1>1. /\ UNCHANGED <<tip, block, record, signed, starts>>
      /\ phase' = "down" /\ fromBlock' = 0 /\ processed' = {} /\ scanned' = {}
      /\ scan' = [s \in Scanners |-> NoScan]
  BY DEF Crash
<1>2. /\ scan' \in [Scanners -> Scans(tip)]
      /\ \A s \in Scanners : scan'[s].at = "idle"
  BY <1>1, NoScanType, Numbers DEF NoScan, Inv
<1>3. TypeOK'
  BY <1>1, <1>2, Numbers, TypesKept DEF Inv, TypeOK
<1>4. Flights'
  BY <1>1, <1>2 DEF Flights, AttestsOne, Exclusive, InFlight, ProcessedIsDone
<1>5. Depth'
  BY <1>1, <1>2 DEF Inv, Depth, SignedDeep, Deep, LogsTrue
<1>6. Blocks'
  BY <1>1, <1>2 DEF Blocks, Phases, NothingLeft
<1> QED BY <1>3, <1>4, <1>5, <1>6 DEF Inv

LEMMA BootTipKeeps ==
    ASSUME Inv, BootTip
    PROVE  Inv'
<1> USE DEF chain
<1> DEFINE from == Minus(tip, Lookback)
<1>1. /\ UNCHANGED <<chain, record, signed, starts, processed>>
      /\ phase = "boot" /\ phase' = "backfill" /\ fromBlock' = from
      /\ scan' = [scan EXCEPT !["backfill"] = BackfillScan(from, tip)]
      /\ scanned' = {b \in 0 .. tip : b < from}
  BY DEF BootTip
<1>2. from \in 0 .. tip /\ tip \in 0 .. tip
  BY Numbers DEF Minus, Inv
<1> HIDE DEF from
<1>3. /\ scan'["backfill"].at = "fetch" /\ scan'["backfill"].from = from
      /\ scan' \in [Scanners -> Scans(tip)] /\ Others("backfill")
  BY <1>1, <1>2, BackfillWrites DEF Inv
<1>4. \A s \in Scanners : scan[s].at = "idle"
  BY <1>1 DEF Inv, Blocks, Phases
<1>5. "backfill" \in Scanners
  BY DEF Scanners
<1>6. TypeOK'
  <2>1. fromBlock' \in 0 .. (tip + 1) /\ scanned' \subseteq 0 .. tip
    BY <1>1, <1>2, Numbers DEF Inv
  <2> QED BY <1>1, <1>3, <2>1, TypesKept DEF Inv, TypeOK
<1>7. Flights'
  BY <1>1, <1>3, <1>4, <1>5, FlightsKept
<1>8. Depth'
  BY <1>1, <1>3, <1>5, DepthKept DEF Inv, Depth, SignedDeep
<1>9. Phases'
  BY <1>1, <1>3, <1>4, WatcherAssumption DEF Phases, Others, Scanners
<1>10. NothingLeft'
  <2>1. Below(scan["backfill"].from)'
    BY <1>1, <1>2, <1>3, Numbers DEF Below, Inv
  <2>2. \A s \in Scanners : s # "backfill" => scan'[s].at = "idle"
    BY <1>3, <1>4 DEF Others
  <2> QED BY <1>1, <1>3, <2>1, <2>2 DEF NothingLeft
<1> QED BY <1>6, <1>7, <1>8, <1>9, <1>10 DEF Inv, Blocks

LEMMA FinishChunkKeeps ==
    ASSUME Inv, FinishChunk
    PROVE  Inv'
<1> USE DEF chain
<1> DEFINE s == scan["backfill"]
<1>1. /\ UNCHANGED <<chain, record, signed, starts, processed, scanned>>
      /\ s.at = "handle"
      /\ \/ /\ s.to + 1 <= s.tip
            /\ scan' = [scan EXCEPT !["backfill"] = BackfillScan(s.to + 1, s.tip)]
            /\ UNCHANGED <<phase, fromBlock>>
         \/ /\ ~(s.to + 1 <= s.tip)
            /\ scan' = [scan EXCEPT !["backfill"] = NoScan]
            /\ phase' = "first" /\ fromBlock' = s.tip + 1
  BY DEF FinishChunk, NextFrom
<1>2. "backfill" \in Scanners /\ "backfill" \notin Polls
  BY WatcherAssumption DEF Scanners
<1>3. s.tip \in 0 .. tip /\ s.to \in 0 .. tip
  BY <1>2, ScanFields DEF Inv
<1>4. phase = "backfill" /\ \A p \in Polls : scan[p].at = "idle"
  BY <1>1, <1>2 DEF Inv, Blocks, Phases, TypeOK
<1>5. /\ scan' \in [Scanners -> Scans(tip)] /\ Others("backfill")
      /\ scan'["backfill"].at \in {"fetch", "idle"}
      /\ scan'["backfill"].at = "fetch" => scan'["backfill"].from = s.to + 1
      /\ \/ phase' = "backfill" /\ fromBlock' = fromBlock
         \/ /\ phase' = "first" /\ scan'["backfill"].at = "idle"
            /\ fromBlock' = s.tip + 1 /\ s.tip <= s.to
  <2>1. CASE s.to + 1 <= s.tip
    <3>1. s.to + 1 \in 0 .. s.tip
      BY <1>3, <2>1
    <3>2. /\ scan'["backfill"].at = "fetch" /\ scan'["backfill"].from = s.to + 1
          /\ scan' \in [Scanners -> Scans(tip)] /\ Others("backfill")
      BY <1>1, <1>3, <2>1, <3>1, BackfillWrites DEF Inv
    <3> QED BY <1>1, <1>4, <2>1, <3>2
  <2>2. CASE ~(s.to + 1 <= s.tip)
    <3>1. /\ scan'["backfill"].at = "idle"
          /\ scan' \in [Scanners -> Scans(tip)] /\ Others("backfill")
      BY <1>1, <1>2, <2>2, NoScanWrites DEF Inv
    <3>2. s.tip <= s.to
      BY <1>3, <2>2
    <3> QED BY <1>1, <2>2, <3>1, <3>2
  <2> QED BY <2>1, <2>2
<1>6. TypeOK'
  <2>1. fromBlock' \in 0 .. (tip + 1)
    BY <1>3, <1>5, Numbers DEF Inv, TypeOK
  <2> QED BY <1>1, <1>5, <2>1, TypesKept DEF Inv, TypeOK
<1>7. Flights'
  BY <1>1, <1>2, <1>5, FlightsKept
<1>8. Depth'
  BY <1>1, <1>2, <1>5, DepthKept DEF Inv, Depth, SignedDeep
<1>9. Phases'
  BY <1>2, <1>4, <1>5 DEF Phases, Others, Scanners
<1>10. NothingLeft'
  <2>1. Below(s.to + 1)
    BY <1>1, <1>2 DEF Inv, Blocks, NothingLeft
  <2>2. scan'["backfill"].at \in {"fetch", "handle", "attest"} => Below(scan["backfill"].from)'
    BY <1>1, <1>5, <2>1 DEF Below
  <2>3. phase' \in {"first", "live"} => Below(fromBlock)'
    BY <1>1, <1>3, <1>5, <2>1 DEF Below
  <2> QED BY <1>1, <1>2, <1>5, <2>2, <2>3, NothingLeftKept
<1> QED BY <1>6, <1>7, <1>8, <1>9, <1>10 DEF Inv, Blocks

-----------------------------------------------------------------------------
(* The live polls *)

LEMMA StartPollKeeps ==
    ASSUME Inv, NEW p \in Polls, StartPoll(p)
    PROVE  Inv'
<1>1. /\ scan[p].at = "idle" /\ phase \in {"first", "live"}
      /\ scan'[p].at = "tip" /\ scan' \in [Scanners -> Scans(tip)] /\ Others(p)
      /\ UNCHANGED <<chain, record, signed, starts, phase, fromBlock,
                     processed, scanned>>
  BY StartPollWrites DEF Inv
<1>2. p \in Scanners
  BY DEF Scanners
<1>3. TypeOK'
  BY <1>1, TypesKept DEF Inv, TypeOK
<1>4. Flights'
  BY <1>1, <1>2, FlightsKept
<1>5. Depth'
  BY <1>1, <1>2, DepthKept DEF Inv, Depth, SignedDeep
<1>6. Phases'
  BY <1>1, PollPhases
<1>7. NothingLeft'
  <2>1. Below(fromBlock)'
    BY <1>1 DEF Inv, Blocks, NothingLeft, Below
  <2> QED BY <1>1, <1>2, <2>1, NothingLeftKept
<1> QED BY <1>3, <1>4, <1>5, <1>6, <1>7 DEF Inv, Blocks

\* A poll that ends leaves the cursor alone, or behind what it has scanned.
LEMMA EndPollKeeps ==
    ASSUME Inv, NEW p \in Polls, EndPoll(p),
           scan[p].at \in {"tip", "fetch", "handle"},
           UNCHANGED <<chain, record, signed, starts, processed, scanned>>,
           \/ fromBlock' = fromBlock
           \/ scan[p].at = "handle" /\ fromBlock' = scan[p].to + 1
    PROVE  Inv'
<1>1. p \in Scanners
  BY DEF Scanners
<1>2. /\ scan'[p].at = "idle" /\ scan' \in [Scanners -> Scans(tip)] /\ Others(p)
      /\ phase' = "live"
  BY <1>1, NoScanWrites DEF EndPoll, Inv
<1>3. phase \in {"first", "live"}
  BY PollIsLive
<1>4. TypeOK'
  <2>1. scan[p].to \in 0 .. tip
    BY <1>1, ScanFields DEF Inv
  <2>2. fromBlock' \in 0 .. (tip + 1)
    BY <2>1, Numbers DEF Inv, TypeOK
  <2> QED BY <1>2, <2>2, TypesKept DEF Inv, TypeOK
<1>5. Flights'
  BY <1>1, <1>2, FlightsKept
<1>6. Depth'
  BY <1>1, <1>2, DepthKept DEF Inv, Depth, SignedDeep
<1>7. Phases'
  BY <1>2, <1>3, PollPhases
<1>8. NothingLeft'
  <2>1. Below(fromBlock) /\ (scan[p].at = "handle" => Below(scan[p].to + 1))
    BY <1>1, <1>3 DEF Inv, Blocks, NothingLeft
  <2>2. Below(fromBlock)'
    BY <2>1 DEF Below
  <2> QED BY <1>1, <1>2, <2>2, NothingLeftKept
<1> QED BY <1>4, <1>5, <1>6, <1>7, <1>8 DEF Inv, Blocks

LEMMA PollTipKeeps ==
    ASSUME Inv, NEW p \in Polls, PollTip(p)
    PROVE  Inv'
<1>1. /\ UNCHANGED <<chain, record, signed, starts, fromBlock, processed, scanned>>
      /\ scan[p].at = "tip"
  BY DEF PollTip
<1>2. CASE EndPoll(p)
  BY <1>1, <1>2, EndPollKeeps
<1>3. CASE /\ tip >= fromBlock
           /\ scan' = [scan EXCEPT ![p] = [NoScan EXCEPT !.at = "fetch", !.tip = tip,
                                               !.from = fromBlock, !.to = PollEnd]]
           /\ UNCHANGED phase
  <2>1. p \in Scanners
    BY DEF Scanners
  <2>2. PollEnd \in 0 .. tip /\ tip \in 0 .. tip /\ fromBlock \in 0 .. (tip + 1)
    BY <1>3, Numbers DEF PollEnd, Inv
  <2>3. /\ scan'[p].at = "fetch" /\ scan'[p].from = fromBlock
        /\ scan' \in [Scanners -> Scans(tip)] /\ Others(p)
    BY <1>3, <2>1, <2>2, NewScanWrites DEF Inv
  <2>4. phase \in {"first", "live"}
    BY <1>1, PollIsLive
  <2>5. TypeOK'
    BY <1>1, <1>3, <2>3, TypesKept DEF Inv, TypeOK
  <2>6. Flights'
    BY <1>1, <2>1, <2>3, FlightsKept
  <2>7. Depth'
    BY <1>1, <2>1, <2>3, DepthKept DEF Inv, Depth, SignedDeep
  <2>8. Phases'
    BY <1>3, <2>3, <2>4, PollPhases
  <2>9. NothingLeft'
    <3>1. Below(fromBlock)
      BY <2>4 DEF Inv, Blocks, NothingLeft
    <3>2. Below(fromBlock)' /\ Below(scan[p].from)'
      BY <1>1, <2>3, <3>1 DEF Below
    <3> QED BY <1>1, <2>1, <2>3, <3>2, NothingLeftKept
  <2> QED BY <2>5, <2>6, <2>7, <2>8, <2>9 DEF Inv, Blocks
<1> QED BY <1>2, <1>3 DEF PollTip

LEMMA PollEndsKeep ==
    ASSUME Inv, NEW p \in Polls, PollFails(p) \/ FinishPoll(p)
    PROVE  Inv'
<1>1. CASE PollFails(p)
  BY <1>1, EndPollKeeps DEF PollFails
<1>2. CASE FinishPoll(p)
  BY <1>2, EndPollKeeps DEF FinishPoll, NextFrom
<1> QED BY <1>1, <1>2

-----------------------------------------------------------------------------
(* The logs of a scan *)

LEMMA FetchKeeps ==
    ASSUME Inv, NEW s \in Scanners, FetchLogs(s)
    PROVE  Inv'
<1>1. /\ scan[s].at = "fetch" /\ scan'[s].at = "handle"
      /\ scan'[s].tip = scan[s].tip /\ scan'[s].from = scan[s].from
      /\ scan'[s].to = scan[s].to
      /\ scan'[s].logs = LogsIn(scan[s].from, scan[s].to)
      /\ scan' \in [Scanners -> Scans(tip)] /\ Others(s)
      /\ scanned' = scanned \cup (scan[s].from .. scan[s].to)
      /\ UNCHANGED <<chain, record, signed, starts, phase, fromBlock, processed>>
  BY FetchWrites DEF Inv
<1>2. scan[s].from \in 0 .. (tip + 1) /\ scan[s].to \in 0 .. tip
  BY ScanFields DEF Inv
<1>3. TypeOK'
  <2>1. scanned' \subseteq 0 .. tip
    <3>1. scan[s].from .. scan[s].to \subseteq 0 .. tip
      BY <1>2, Numbers DEF Inv
    <3>2. scanned \subseteq 0 .. tip
      BY DEF Inv, TypeOK
    <3> QED BY <1>1, <3>1, <3>2
  <2> QED BY <1>1, <2>1, TypesKept DEF Inv, TypeOK
<1>4. Flights'
  BY <1>1, FlightsKept
<1>5. Depth'
  <2>1. SignedDeep'
    BY <1>1 DEF Inv, Depth, SignedDeep, Deep, chain
  <2>2. LogsTrue'
    <3> SUFFICES ASSUME NEW q \in Scanners, (scan[q].at \in {"handle", "attest"})',
                        NEW log \in scan'[q].logs,
                        (log.block + Confirmations <= scan[q].tip)'
                 PROVE  (block[log.lock] = log.block)'
      BY DEF LogsTrue
    <3>1. CASE q = s
      BY <1>1, <3>1 DEF LogsIn, chain
    <3>2. CASE q # s
      <4>1. scan'[q] = scan[q]
        BY <1>1, <3>2 DEF Others
      <4> QED BY <1>1, <4>1 DEF Inv, Depth, LogsTrue, chain
    <3> QED BY <3>1, <3>2
  <2> QED BY <2>1, <2>2 DEF Depth
<1>6. Phases'
  <2>1. \A q \in Scanners : scan[q].at = "idle" => scan'[q].at = "idle"
    BY <1>1 DEF Others
  <2> QED BY <1>1, <2>1 DEF Inv, Blocks, Phases, Scanners
<1>7. NothingLeft'
  <2>1. Below(scan[s].from) /\ (phase \in {"first", "live"} => Below(fromBlock))
    BY <1>1 DEF Inv, Blocks, NothingLeft
  <2>2. Below(scan[s].from)' /\ (phase' \in {"first", "live"} => Below(fromBlock)')
    BY <1>1, <2>1 DEF Below
  <2>3. Below(scan[s].to + 1)'
    BY <1>1, <1>2, <2>1, Numbers DEF Below, Inv
  <2> QED BY <1>1, <2>2, <2>3, NothingLeftKept
<1> QED BY <1>3, <1>4, <1>5, <1>6, <1>7 DEF Inv, Blocks

LEMMA SkipKeeps ==
    ASSUME Inv, NEW s \in Scanners, Skip(s)
    PROVE  Inv'
<1>1. /\ scan[s].at = "handle" /\ scan'[s].at = "handle"
      /\ scan'[s].tip = scan[s].tip /\ scan'[s].from = scan[s].from
      /\ scan'[s].to = scan[s].to
      /\ scan'[s].logs \subseteq scan[s].logs
      /\ scan' \in [Scanners -> Scans(tip)] /\ Others(s)
      /\ UNCHANGED <<chain, record, signed, starts, phase, fromBlock,
                     processed, scanned>>
  BY SkipWrites DEF Inv
<1>2. TypeOK'
  BY <1>1, TypesKept DEF Inv, TypeOK
<1>3. Flights'
  BY <1>1, FlightsKept
<1>4. Depth'
  BY <1>1, DepthKept DEF Inv, Depth, SignedDeep
<1>5. Blocks'
  BY <1>1, BlocksKept
<1> QED BY <1>2, <1>3, <1>4, <1>5 DEF Inv

\* The lock a scan takes is deep, and no other scan has it.
LEMMA TakeKeeps ==
    ASSUME Inv, NEW s \in Scanners, Take(s)
    PROVE  Inv'
<1>1. PICK log \in scan[s].logs :
          /\ log \in [lock : Locks, block : 1 .. tip]
          /\ scan[s].at = "handle" /\ scan'[s].at = "attest"
          /\ scan'[s].tip = scan[s].tip /\ scan'[s].from = scan[s].from
          /\ scan'[s].to = scan[s].to
          /\ scan'[s].logs \subseteq scan[s].logs
          /\ scan'[s].lock = {log.lock}
          /\ scan' \in [Scanners -> Scans(tip)] /\ Others(s)
          /\ log.lock \notin processed /\ processed' = processed \cup {log.lock}
          /\ log.block + Confirmations <= scan[s].tip
          /\ UNCHANGED <<chain, record, signed, starts, phase, fromBlock, scanned>>
  BY TakeWrites DEF Inv
<1> DEFINE l == log.lock
<1>2. l \in Locks /\ scan[s].tip \in 0 .. tip /\ log.block \in 1 .. tip
  BY <1>1, ScanFields DEF Inv
<1>3. Deep(l)
  <2>1. block[l] = log.block
    BY <1>1 DEF Inv, Depth, LogsTrue
  <2> QED BY <1>1, <1>2, <2>1, Numbers DEF Deep, Inv
<1>4. \A q \in Scanners : ~InFlight(q, l)
  <2> SUFFICES ASSUME NEW q \in Scanners, InFlight(q, l) PROVE FALSE
    OBVIOUS
  <2>1. PICK k \in Locks : scan[q].lock = {k} /\ k \in processed
    BY DEF InFlight, Inv, Flights, AttestsOne
  <2> QED BY <1>1, <2>1 DEF InFlight
<1>5. TypeOK'
  <2>1. processed' \subseteq Locks
    BY <1>1, <1>2 DEF Inv, TypeOK
  <2> QED BY <1>1, <2>1, TypesKept DEF Inv, TypeOK
<1>6. \A q \in Scanners, k \in Locks :
          InFlight(q, k)' <=> (q = s /\ k = l) \/ InFlight(q, k)
  <2> TAKE q \in Scanners, k \in Locks
  <2>1. CASE q = s
    BY <1>1, <2>1 DEF InFlight
  <2>2. CASE q # s
    BY <1>1, <2>2 DEF InFlight, Others
  <2> QED BY <2>1, <2>2
<1>7. AttestsOne'
  <2> SUFFICES ASSUME NEW q \in Scanners, (scan[q].at = "attest")'
               PROVE  \E k \in Locks : (scan[q].lock = {k} /\ Deep(k) /\ k \in processed)'
    BY DEF AttestsOne
  <2>1. CASE q = s
    BY <1>1, <1>2, <1>3, <2>1 DEF Deep, chain
  <2>2. CASE q # s
    <3>1. scan'[q] = scan[q]
      BY <1>1, <2>2 DEF Others
    <3>2. PICK k \in Locks : scan[q].lock = {k} /\ Deep(k) /\ k \in processed
      BY <3>1 DEF Inv, Flights, AttestsOne
    <3> QED BY <1>1, <3>1, <3>2 DEF Deep, chain
  <2> QED BY <2>1, <2>2
<1> HIDE DEF l
<1>8. Exclusive'
  <2> SUFFICES ASSUME NEW q \in Scanners, NEW r \in Scanners, NEW k \in Locks,
                      InFlight(q, k)', InFlight(r, k)'
               PROVE  q = r
    BY DEF Exclusive
  <2>1. CASE k = l
    BY <1>4, <1>6, <2>1
  <2>2. CASE k # l
    BY <1>6, <2>2 DEF Inv, Flights, Exclusive
  <2> QED BY <2>1, <2>2
<1>9. ProcessedIsDone'
  <2> SUFFICES ASSUME NEW k \in processed'
               PROVE  (record[k] = "Attached" \/ \E q \in Scanners : InFlight(q, k))'
    BY DEF ProcessedIsDone
  <2>1. CASE k = l
    BY <1>2, <1>6, <2>1
  <2>2. CASE k # l
    <3>1. k \in processed /\ k \in Locks
      BY <1>1, <2>2 DEF Inv, TypeOK, l
    <3>2. record[k] = "Attached" \/ \E q \in Scanners : InFlight(q, k)
      BY <3>1 DEF Inv, Flights, ProcessedIsDone
    <3> QED BY <1>1, <1>6, <3>1, <3>2
  <2> QED BY <2>1, <2>2
<1>10. Depth'
  BY <1>1, DepthKept DEF Inv, Depth, SignedDeep
<1>11. Blocks'
  BY <1>1, BlocksKept
<1> QED BY <1>5, <1>7, <1>8, <1>9, <1>10, <1>11 DEF Inv, Flights

\* What the three ends of an attestation have in common.
LEMMA AttestKeeps ==
    ASSUME Inv, NEW s \in Scanners, NEW l \in scan[s].lock,
           scan[s].at = "attest", Resume(s),
           UNCHANGED <<chain, starts, phase, fromBlock, scanned>>,
           signed' = signed \/ signed' = signed \cup {l},
           record' = record \/ record' = [record EXCEPT ![l] = "Attached"],
           \/ processed' = processed /\ record' = [record EXCEPT ![l] = "Attached"]
           \/ processed' = processed \ {l}
    PROVE  Inv'
<1>1. /\ scan'[s].at = "handle" /\ scan'[s].lock = {}
      /\ scan'[s].tip = scan[s].tip /\ scan'[s].from = scan[s].from
      /\ scan'[s].to = scan[s].to /\ scan'[s].logs = scan[s].logs
      /\ scan' \in [Scanners -> Scans(tip)] /\ Others(s)
  BY ResumeWrites DEF Inv
<1>2. l \in Locks /\ Deep(l)
  BY DEF Inv, Flights, AttestsOne
<1>3. /\ record' \in [Locks -> {"None", "Pending", "Attached"}]
      /\ \A k \in Locks : record[k] = "Attached" => record'[k] = "Attached"
      /\ processed' = processed => record'[l] = "Attached" \/ processed' = processed \ {l}
  BY <1>2 DEF Inv, TypeOK
<1>4. TypeOK'
  <2>1. signed' \subseteq Locks /\ processed' \subseteq Locks
    BY <1>2 DEF Inv, TypeOK
  <2> QED BY <1>1, <1>3, <2>1, TypesKept DEF Inv, TypeOK
<1>5. Flights'
  BY <1>1, <1>3, FlightEnds
<1>6. Depth'
  <2>1. \A k \in signed' : Deep(k)
    BY <1>2 DEF Inv, Depth, SignedDeep
  <2> QED BY <1>1, <2>1, DepthKept
<1>7. Blocks'
  BY <1>1, BlocksKept
<1> QED BY <1>4, <1>5, <1>6, <1>7 DEF Inv

LEMMA VerifiedKeeps ==
    ASSUME Inv, NEW s \in Scanners, Verified(s)
    PROVE  Inv'
  BY AttestKeeps DEF Verified

LEMMA NeedsAttachKeeps ==
    ASSUME Inv, NEW s \in Scanners, NeedsAttach(s)
    PROVE  Inv'
  BY AttestKeeps DEF NeedsAttach, Unmarked

LEMMA ApiFailsKeeps ==
    ASSUME Inv, NEW s \in Scanners, ApiFails(s)
    PROVE  Inv'
  BY AttestKeeps DEF ApiFails, Unmarked

-----------------------------------------------------------------------------
(* The theorems *)

LEMMA InitInv == Init => Inv
<1> SUFFICES ASSUME Init PROVE Inv
  OBVIOUS
<1>1. \A s \in Scanners : scan[s] = NoScan /\ scan[s].at = "idle"
  BY DEF Init, NoScan
<1>2. TypeOK
  <2>1. scan \in [Scanners -> Scans(tip)]
    BY NoScanType DEF Init
  <2>2. tip \in 1 .. (MaxBlock + 1) /\ fromBlock \in 0 .. (tip + 1) /\ starts \in 0 .. MaxStarts
    BY WatcherAssumption DEF Init
  <2> QED BY <2>1, <2>2 DEF TypeOK, Init, Scans
<1>3. Flights
  BY <1>1 DEF Flights, AttestsOne, Exclusive, InFlight, ProcessedIsDone, Init
<1>4. Depth
  BY <1>1 DEF Depth, SignedDeep, LogsTrue, Init
<1>5. Blocks
  BY <1>1 DEF Blocks, Phases, NothingLeft, Init, Scanners
<1> QED BY <1>2, <1>3, <1>4, <1>5 DEF Inv

LEMMA StepInv == Inv /\ [Next]_vars => Inv'
<1> SUFFICES ASSUME Inv, [Next]_vars PROVE Inv'
  OBVIOUS
<1>1. CASE EnvironmentStep
  BY <1>1, MineKeeps, ReorgKeeps, OthersRecordKeeps DEF EnvironmentStep
<1>2. CASE Start \/ BootTip \/ BootTipFails \/ FinishChunk \/ Crash
  BY <1>2, StartKeeps, BootTipKeeps, BootTipFailsKeeps, FinishChunkKeeps, CrashKeeps
<1>3. ASSUME NEW p \in Polls, PollStep(p)
      PROVE  Inv'
  BY <1>3, StartPollKeeps, PollTipKeeps, PollEndsKeep DEF PollStep
<1>4. ASSUME NEW s \in Scanners, ScanStep(s)
      PROVE  Inv'
  BY <1>4, FetchKeeps, SkipKeeps, TakeKeeps, VerifiedKeeps, NeedsAttachKeeps,
     ApiFailsKeeps DEF ScanStep
<1>5. CASE UNCHANGED vars
  BY <1>5 DEF vars, chain, memory, Inv, TypeOK, Flights, AttestsOne, Exclusive,
     ProcessedIsDone, InFlight, Depth, SignedDeep, LogsTrue, Deep, Blocks, Phases,
     NothingLeft, Below, Scanners
<1> QED BY <1>1, <1>2, <1>3, <1>4, <1>5 DEF Next

\* Whatever polls overlap, fail or die with the process (watcher.ts), each scan
\* holds logs that are still where it found them, attests a lock that is deep
\* and marked, and continues where nothing before it was left out.
THEOREM WatcherInvariant == Spec => []Inv
  BY InitInv, StepInv, PTL DEF Spec

\* What the process and its scans hold keeps its type: no cursor runs ahead of
\* the chain by more than one block, and no scan asks for blocks there are not.
THEOREM WatcherTypes == Spec => []TypeOK
<1>1. Inv => TypeOK
  BY DEF Inv
<1> QED BY <1>1, WatcherInvariant, PTL

\* The watcher never has a lock attested that a reorganisation can take back,
\* although it counts the confirmations from a tip it read before.
THEOREM SignedCorrect == Spec => []SignedIsFinal
<1>1. Inv => SignedIsFinal
  <2> SUFFICES ASSUME Inv, NEW l \in signed
               PROVE  block[l] # 0 /\ tip - block[l] >= Confirmations
    BY DEF SignedIsFinal
  <2>1. Deep(l) /\ l \in Locks
    BY DEF Inv, Depth, SignedDeep, TypeOK
  <2> QED BY <2>1, Numbers DEF Deep, Inv
<1> QED BY <1>1, WatcherInvariant, PTL

\* However many polls the timer has started, no two scans have the same lock
\* attested at the same time: the mark is set before the call is awaited.
THEOREM OneAtATime == Spec => []AttestedOneAtATime
<1>1. Inv => AttestedOneAtATime
  <2> SUFFICES ASSUME Inv, NEW l \in Locks
               PROVE  Cardinality({s \in Scanners : InFlight(s, l)}) <= 1
    BY DEF AttestedOneAtATime
  <2>1. CASE \A s \in Scanners : ~InFlight(s, l)
    <3>1. {s \in Scanners : InFlight(s, l)} = {}
      BY <2>1
    <3> QED BY <3>1, FS_EmptySet
  <2>2. CASE \E s \in Scanners : InFlight(s, l)
    <3>1. PICK s \in Scanners : InFlight(s, l)
      BY <2>2
    <3>2. {q \in Scanners : InFlight(q, l)} = {s}
      BY <3>1 DEF Inv, Flights, Exclusive
    <3>3. Cardinality({s}) = 1
      BY FS_Singleton
    <3> QED BY <3>2, <3>3
  <2> QED BY <2>1, <2>2
<1> QED BY <1>1, WatcherInvariant, PTL

\* What the process remembers as done is verified or being attested, whatever
\* calls fail: a lock is never forgotten by a mark that should be gone.
THEOREM DoneCorrect == Spec => []ProcessedIsDone
<1>1. Inv => ProcessedIsDone
  BY DEF Inv, Flights
<1> QED BY <1>1, WatcherInvariant, PTL

\* The cursor of the live polls never passes a block that nobody has fetched,
\* although a slow poll may set it back and any poll may fail.
THEOREM NothingSkipped == Spec => []NoBlockSkipped
<1>1. Inv => NoBlockSkipped
  <2> SUFFICES ASSUME Inv, phase \in {"first", "live"}, NEW b \in 0 .. tip, b < fromBlock
               PROVE  b \in scanned
    BY DEF NoBlockSkipped
  <2>1. b \in Nat
    BY Numbers DEF Inv
  <2> QED BY <2>1 DEF Inv, Blocks, NothingLeft, Below
<1> QED BY <1>1, WatcherInvariant, PTL
-----------------------------------------------------------------------------
(* What a backfill has ahead of it *)

Backfill == scan["backfill"]

\* The log of l where it is now, as a scan fetches it.
LogOf(l) == [lock |-> l, block |-> block[l]]

\* The lock l, final and with its record pending, is still ahead of the
\* backfill: among the logs it has got, in flight, or in a block to come.
Ahead(l) ==
    /\ phase = "backfill" /\ record[l] = "Pending"
    /\ block[l] # 0 /\ block[l] + Confirmations <= Backfill.tip
    /\ \/ Backfill.at = "fetch" /\ block[l] >= Backfill.from
       \/ /\ Backfill.at \in {"handle", "attest"}
          /\ block[l] > Backfill.to \/ LogOf(l) \in Backfill.logs
       \/ InFlight("backfill", l)

\* What a step may make of it: only a failed attestation takes the mark back.
Kept(l) ==
    \/ Ahead(l)' \/ record'[l] = "Attached" \/ phase' = "down"
    \/ ApiMayFail /\ l \in processed \ processed'

NothingDropped == \A l \in Locks : Ahead(l) => Kept(l)

LEMMA BackfillScans == "backfill" \in Scanners
  BY DEF Scanners

\* A step that leaves the backfill, its phase and the log of l alone.
LEMMA StillAhead ==
    ASSUME NEW l \in Locks, Ahead(l), scan'["backfill"] = scan["backfill"],
           phase' = phase, block'[l] = block[l],
           record'[l] \in {record[l], "Attached"}
    PROVE  Kept(l)
  BY DEF Ahead, Kept, Backfill, LogOf, InFlight

\* While there is a backfill, no poll has begun.
LEMMA OnlyBackfill ==
    ASSUME Inv, NEW l \in Locks, Ahead(l), NEW s \in Scanners, scan[s].at # "idle"
    PROVE  s = "backfill"
  BY DEF Ahead, Inv, Blocks, Phases, Scanners

\* The log of a lock that is ahead is too deep for a reorganisation.
LEMMA EnvironmentDropsNothing ==
    ASSUME Inv, NEW l \in Locks, Ahead(l), EnvironmentStep
    PROVE  Kept(l)
<1>1. tip \in Nat /\ Confirmations \in Nat
      /\ block[l] \in Nat /\ block[l] # 0 /\ block[l] + Confirmations <= tip
  <2>1. scan["backfill"].tip \in 0 .. tip
    BY BackfillScans, ScanFields DEF Inv
  <2>2. tip \in Nat /\ Confirmations \in Nat /\ block[l] \in Nat
    BY Numbers DEF Inv
  <2> QED BY <2>1, <2>2 DEF Ahead, Backfill
<1>2. CASE Mine
  <2>1. block'[l] = block[l] /\ UNCHANGED <<record, phase, scan>>
    BY <1>1, <1>2 DEF Mine, memory
  <2> QED BY <2>1, StillAhead
<1>3. ASSUME NEW k \in Locks, Reorg(k)
      PROVE  Kept(l)
  <2>1. k # l
    BY <1>1, <1>3, Numbers DEF Reorg, Inv
  <2>2. block'[l] = block[l] /\ UNCHANGED <<record, phase, scan>>
    BY <1>3, <2>1 DEF Reorg, memory, Inv, TypeOK
  <2> QED BY <2>2, StillAhead
<1>4. ASSUME NEW k \in Locks, BorrowerAttaches(k) \/ OtherVerifies(k)
      PROVE  Kept(l)
  <2>1. /\ UNCHANGED <<block, phase, scan>>
        /\ record \in [Locks -> {"None", "Pending", "Attached"}] /\ record[l] = "Pending"
    BY <1>4 DEF BorrowerAttaches, OtherVerifies, chain, memory, Inv, TypeOK, Ahead
  <2>2. record'[l] \in {record[l], "Attached"}
    BY <1>4, <2>1 DEF BorrowerAttaches, OtherVerifies
  <2> QED BY <2>1, <2>2, StillAhead
<1> QED BY <1>2, <1>3, <1>4 DEF EnvironmentStep

LEMMA FetchKeepsAhead ==
    ASSUME Inv, NEW l \in Locks, Ahead(l), FetchLogs("backfill")
    PROVE  Kept(l)
<1>1. /\ scan["backfill"].at = "fetch" /\ scan'["backfill"].at = "handle"
      /\ scan'["backfill"].tip = scan["backfill"].tip
      /\ scan'["backfill"].to = scan["backfill"].to
      /\ scan'["backfill"].logs = LogsIn(scan["backfill"].from, scan["backfill"].to)
      /\ UNCHANGED <<block, record, phase>>
  BY BackfillScans, FetchWrites DEF Inv, chain
<1>2. scan["backfill"].from \in Nat /\ scan["backfill"].to \in Nat /\ block[l] \in Nat
  BY BackfillScans, ScanFields, Numbers DEF Inv
<1>3. block[l] > scan["backfill"].to \/ LogOf(l) \in scan'["backfill"].logs
  BY <1>1, <1>2 DEF Ahead, Backfill, LogsIn, LogOf, InFlight
<1>4. LogOf(l)' = LogOf(l)
  BY <1>1 DEF LogOf
<1> QED BY <1>1, <1>3, <1>4 DEF Ahead, Kept, Backfill

\* A log that is skipped is too young, or its transaction marked; but then it
\* would be verified or in flight, and nothing is in flight but this scan.
LEMMA SkipKeepsAhead ==
    ASSUME Inv, NEW l \in Locks, Ahead(l), Skip("backfill")
    PROVE  Kept(l)
<1>1. PICK log \in scan["backfill"].logs :
          /\ log.lock \in processed \/ ~Confirmed("backfill", log)
          /\ scan' = [scan EXCEPT !["backfill"].logs = @ \ {log}]
  BY DEF Skip
<1>2. scan["backfill"].at = "handle" /\ UNCHANGED <<block, record, phase>>
  BY DEF Skip, chain
<1> DEFINE logs == scan["backfill"].logs \ {log}
           r == [scan["backfill"] EXCEPT !.logs = logs]
<1>3. scan' = [scan EXCEPT !["backfill"] = r]
  BY <1>1
<1>4. log # LogOf(l)
  <2> SUFFICES ASSUME log = LogOf(l)
               PROVE  FALSE
    OBVIOUS
  <2>1. Confirmed("backfill", log)
    <3>1. block[l] \in Nat /\ Confirmations \in Nat /\ scan["backfill"].tip \in Nat
      BY BackfillScans, ScanFields, Numbers DEF Inv
    <3> QED BY <3>1 DEF Confirmed, LogOf, Ahead, Backfill
  <2>2. l \in processed
    BY <1>1, <2>1 DEF LogOf
  <2>3. PICK s \in Scanners : InFlight(s, l)
    BY <2>2 DEF Inv, Flights, ProcessedIsDone, Ahead
  <2>4. s = "backfill"
    BY <2>3, OnlyBackfill DEF InFlight
  <2> QED BY <1>2, <2>3, <2>4 DEF InFlight
<1> HIDE DEF logs
<1>5. /\ r.at = scan["backfill"].at /\ r.tip = scan["backfill"].tip
      /\ r.to = scan["backfill"].to /\ r.logs = logs
  BY BackfillScans, ScanFields DEF Inv, Scans
<1> HIDE DEF r
<1>6. scan'["backfill"] = r /\ LogOf(l)' = LogOf(l)
  BY <1>2, <1>3, BackfillScans, SetScan DEF Inv, LogOf
<1> QED BY <1>2, <1>4, <1>5, <1>6 DEF Ahead, Kept, Backfill, InFlight, logs

LEMMA TakeKeepsAhead ==
    ASSUME Inv, NEW l \in Locks, Ahead(l), Take("backfill")
    PROVE  Kept(l)
<1>1. PICK log \in scan["backfill"].logs :
          scan' = [scan EXCEPT !["backfill"].at = "attest",
                               !["backfill"].lock = {log.lock},
                               !["backfill"].logs = @ \ {log}]
  BY DEF Take
<1>2. scan["backfill"].at = "handle" /\ UNCHANGED <<block, record, phase>>
  BY DEF Take, chain
<1> DEFINE logs == scan["backfill"].logs \ {log}
           lock == {log.lock}
           r == [scan["backfill"] EXCEPT !.at = "attest", !.lock = lock, !.logs = logs]
<1>3. scan' = [scan EXCEPT !["backfill"] = r]
  BY <1>1
<1>4. log = LogOf(l) => l \in lock
  BY DEF LogOf
<1> HIDE DEF logs, lock
<1>5. /\ r.at = "attest" /\ r.tip = scan["backfill"].tip
      /\ r.to = scan["backfill"].to /\ r.logs = logs /\ r.lock = lock
  BY BackfillScans, ScanFields DEF Inv, Scans
<1> HIDE DEF r
<1>6. scan'["backfill"] = r /\ LogOf(l)' = LogOf(l)
  BY <1>2, <1>3, BackfillScans, SetScan DEF Inv, LogOf
<1> QED BY <1>2, <1>4, <1>5, <1>6 DEF Ahead, Kept, Backfill, InFlight, logs

\* The lock in flight is another one, or it is verified, or its mark goes.
LEMMA AnswerKeepsAhead ==
    ASSUME Inv, NEW l \in Locks, Ahead(l),
           Verified("backfill") \/ NeedsAttach("backfill") \/ ApiFails("backfill")
    PROVE  Kept(l)
<1>1. /\ scan["backfill"].at = "attest" /\ UNCHANGED <<block, phase>>
      /\ Resume("backfill")
  BY DEF Verified, NeedsAttach, ApiFails, chain
<1>2. PICK k \in Locks : scan["backfill"].lock = {k} /\ k \in processed
  BY <1>1, BackfillScans DEF Inv, Flights, AttestsOne
<1>3. /\ scan'["backfill"].at = "handle" /\ scan'["backfill"].tip = scan["backfill"].tip
      /\ scan'["backfill"].to = scan["backfill"].to
      /\ scan'["backfill"].logs = scan["backfill"].logs
  BY <1>1, BackfillScans, ResumeWrites DEF Inv
<1>4. record[l] = "Pending" /\ record \in [Locks -> {"None", "Pending", "Attached"}]
  BY DEF Ahead, Inv, TypeOK
<1>5. CASE k = l
  <2>1. CASE Verified("backfill")
    BY <1>2, <1>4, <1>5, <2>1 DEF Verified, Kept
  <2>2. CASE NeedsAttach("backfill")
    BY <1>2, <1>4, <1>5, <2>2 DEF NeedsAttach
  <2>3. CASE ApiFails("backfill")
    BY <1>2, <1>5, <2>3 DEF ApiFails, Unmarked, Kept
  <2> QED BY <2>1, <2>2, <2>3
<1>6. CASE k # l
  <2>1. record'[l] = record[l]
    BY <1>2, <1>4, <1>6 DEF Verified, NeedsAttach, ApiFails
  <2>2. block[l] > scan["backfill"].to \/ LogOf(l) \in scan["backfill"].logs
    BY <1>1, <1>2, <1>6 DEF Ahead, Backfill, InFlight
  <2>3. LogOf(l)' = LogOf(l)
    BY <1>1 DEF LogOf
  <2> QED BY <1>1, <1>3, <2>1, <2>2, <2>3 DEF Ahead, Kept, Backfill
<1> QED BY <1>5, <1>6

\* The next chunk begins where the last one ended, and chunks go on to the tip
\* the backfill began with: what is ahead of it is below that.
LEMMA ChunkKeepsAhead ==
    ASSUME Inv, NEW l \in Locks, Ahead(l), FinishChunk
    PROVE  Kept(l)
<1> DEFINE from == scan["backfill"].to + 1
           end  == scan["backfill"].tip
           to   == ChunkEnd(from, end)
           r    == [NoScan EXCEPT !.at = "fetch", !.tip = end, !.from = from, !.to = to]
<1>1. /\ scan["backfill"].at = "handle" /\ scan["backfill"].logs = {}
      /\ UNCHANGED <<block, record>>
  BY DEF FinishChunk, chain
<1>2. /\ scan["backfill"].to \in Nat /\ end \in Nat
      /\ block[l] \in Nat /\ Confirmations \in Nat
  BY BackfillScans, ScanFields, Numbers DEF Inv
<1>3. block[l] >= from /\ from <= end
  BY <1>1, <1>2 DEF Ahead, Backfill, InFlight
<1>4. scan' = [scan EXCEPT !["backfill"] = r] /\ phase' = phase
  BY <1>3 DEF FinishChunk, NextFrom, BackfillScan
<1> HIDE DEF from, end, to
<1>5. r.at = "fetch" /\ r.from = from /\ r.tip = end
  BY DEF NoScan
<1> HIDE DEF r
<1>6. scan'["backfill"] = r
  BY <1>4, BackfillScans, SetScan DEF Inv
<1> QED BY <1>1, <1>3, <1>4, <1>5, <1>6 DEF Ahead, Kept, Backfill, end

LEMMA StepDropsNothing ==
    ASSUME Inv, [Next]_vars
    PROVE  NothingDropped
<1> SUFFICES ASSUME NEW l \in Locks, Ahead(l)
             PROVE  Kept(l)
  BY DEF NothingDropped
<1>1. phase = "backfill"
  BY DEF Ahead
<1>2. CASE EnvironmentStep
  BY <1>2, EnvironmentDropsNothing
<1>3. CASE Start \/ BootTip \/ BootTipFails
  BY <1>1, <1>3 DEF Start, BootTip, BootTipFails
<1>4. CASE FinishChunk
  BY <1>4, ChunkKeepsAhead
<1>5. CASE Crash
  BY <1>5 DEF Crash, Kept
<1>6. ASSUME NEW p \in Polls, PollStep(p)
      PROVE  FALSE
  <2>1. scan[p].at = "idle"
    BY <1>1 DEF Inv, Blocks, Phases
  <2> QED BY <1>1, <1>6, <2>1 DEF PollStep, StartPoll, PollTip, PollFails, FinishPoll
<1>7. ASSUME NEW s \in Scanners, ScanStep(s)
      PROVE  Kept(l)
  <2>1. scan[s].at # "idle"
    BY <1>7 DEF ScanStep, FetchLogs, Skip, Take, Verified, NeedsAttach, ApiFails
  <2>2. s = "backfill"
    BY <2>1, OnlyBackfill
  <2> QED BY <1>7, <2>2, FetchKeepsAhead, SkipKeepsAhead, TakeKeepsAhead,
             AnswerKeepsAhead DEF ScanStep
<1>8. CASE UNCHANGED vars
  BY <1>8, StillAhead DEF vars, chain, memory
<1> QED BY <1>2, <1>3, <1>4, <1>5, <1>6, <1>7, <1>8 DEF Next

\* BackfillCatchesUp without its fairness, and for routes that may fail: from
\* the moment a lock lies ahead of a backfill until its record is verified, no
\* step loses it, unless the process stops or an attestation of it fails.  In
\* particular the process does not go on to its polls before that.
THEOREM BackfillDropsNothing ==
    Spec => /\ [](\A l \in Locks : LiesAhead(l) => Ahead(l))
            /\ [][NothingDropped]_vars
<1>1. \A l \in Locks : LiesAhead(l) => Ahead(l)
  BY DEF LiesAhead, Ahead, Backfill
<1>2. Inv /\ [Next]_vars => [NothingDropped]_vars
  BY StepDropsNothing
<1> QED BY <1>1, <1>2, WatcherInvariant, PTL DEF Spec
=============================================================================
