----------------------------- MODULE LockWatcher -----------------------------
(***************************************************************************)
(* The watcher process of one EVM chain: it scans the escrow contract's    *)
(* CollateralLocked logs, first backfilling old blocks and then polling,   *)
(* and has each confirmed lock attested and verified on Stellar.           *)
(*                                                                         *)
(* Every await of watcher.ts ends a step: setInterval starts a poll        *)
(* whether or not the last one has returned, so polls overlap, and the     *)
(* chain, the borrower and other relayers move in between.  A lock stands  *)
(* for its transaction and for its loan, which the escrow locks for once.  *)
(***************************************************************************)
EXTENDS Naturals, FiniteSets

CONSTANTS
    Locks,          \* the lock transactions
    Polls,          \* the polls that may be in flight together
    Confirmations,  \* config.confirmations
    MaxRange,       \* MAX_BLOCK_RANGE
    Lookback,       \* LOOKBACK_BLOCKS
    ReorgDepth,     \* how many of the latest blocks may still be replaced
    ApiMayFail,     \* whether the attestation routes may fail or not answer
    MaxBlock,       \* bound on the height of the chain
    MaxStarts       \* bound on the starts of the process

ASSUME WatcherAssumption ==
    /\ Confirmations \in Nat /\ Lookback \in Nat
    /\ MaxRange \in Nat \ {0}
    /\ ReorgDepth \in 0 .. Confirmations
    /\ ApiMayFail \in BOOLEAN
    /\ MaxBlock \in Nat /\ MaxStarts \in Nat
    /\ "backfill" \notin Polls

VARIABLES
    tip,        \* the height of the chain
    block,      \* the block that holds each lock's log, 0 if none does
    record,     \* each loan's collateral record on Stellar
    signed,     \* locks the oracle has attested for the watcher
    starts,     \* how often the process has started
    phase,      \* where startWatcher is
    fromBlock,  \* the first block the live polls have yet to scan
    processed,  \* the transactions taken care of, in the process' memory
    scan,       \* the scan of the backfill and of each poll
    scanned     \* history: the blocks fetched, or left out by LOOKBACK_BLOCKS

chain  == <<tip, block>>
memory == <<phase, fromBlock, processed, scan, scanned>>
vars   == <<chain, record, signed, starts, memory>>

Scanners == Polls \cup {"backfill"}

NoScan == [at |-> "idle", tip |-> 0, from |-> 0, to |-> 0, logs |-> {}, lock |-> {}]

Minus(a, b) == IF a > b THEN a - b ELSE 0

\* A log as eth_getLogs returns it: the lock, and its block at that time.
LogsIn(from, to) ==
    {[lock |-> l, block |-> block[l]] :
        l \in {x \in Locks : block[x] # 0 /\ block[x] \in from .. to}}

Init ==
    /\ tip = 1
    /\ block = [l \in Locks |-> 0]
    /\ record = [l \in Locks |-> "None"]
    /\ signed = {}
    /\ starts = 0
    /\ phase = "down"
    /\ fromBlock = 0
    /\ processed = {}
    /\ scan = [s \in Scanners |-> NoScan]
    /\ scanned = {}

-----------------------------------------------------------------------------
(* The chain, the borrower and other relayers *)

Mine ==
    /\ tip < MaxBlock
    /\ tip' = tip + 1
    /\ \E included \in SUBSET {l \in Locks : block[l] = 0} :
          block' = [l \in Locks |-> IF l \in included THEN tip + 1 ELSE block[l]]
    /\ UNCHANGED <<record, signed, starts, memory>>

\* A recent log is dropped, or moves to another recent block.
Reorg(l) ==
    /\ block[l] # 0
    /\ block[l] + ReorgDepth > tip
    /\ \E b \in {0} \cup (Minus(tip + 1, ReorgDepth) .. tip) :
          block' = [block EXCEPT ![l] = b]
    /\ UNCHANGED <<tip, record, signed, starts, memory>>

\* attach_collateral, signed by the borrower whenever it pleases.
BorrowerAttaches(l) ==
    /\ record[l] = "None"
    /\ record' = [record EXCEPT ![l] = "Pending"]
    /\ UNCHANGED <<chain, signed, starts, memory>>

\* verify_collateral by the borrower's page, a cron route or an operator.
\* "Attached" stands for every status from Attached on.
OtherVerifies(l) ==
    /\ record[l] = "Pending"
    /\ record' = [record EXCEPT ![l] = "Attached"]
    /\ UNCHANGED <<chain, signed, starts, memory>>

-----------------------------------------------------------------------------
(* Start, backfill, crash *)

Start ==
    /\ phase = "down"
    /\ starts < MaxStarts
    /\ starts' = starts + 1
    /\ phase' = "boot"
    /\ UNCHANGED <<chain, record, signed, fromBlock, processed, scan, scanned>>

\* Mutant: the last chunk is not cut off at the tip.
FullChunkEnd(from, end) == from + MaxRange - 1

\* The last block of a backfill chunk that starts at from.
ChunkEnd(from, end) == IF from + MaxRange - 1 < end THEN from + MaxRange - 1 ELSE end

BackfillScan(from, end) ==
    [NoScan EXCEPT !.at = "fetch", !.tip = end, !.from = from,
                   !.to = ChunkEnd(from, end)]

BootTip ==
    /\ phase = "boot"
    /\ phase' = "backfill"
    /\ fromBlock' = Minus(tip, Lookback)
    /\ scan' = [scan EXCEPT !["backfill"] = BackfillScan(Minus(tip, Lookback), tip)]
    /\ scanned' = {b \in 0 .. tip : b < Minus(tip, Lookback)}
    /\ UNCHANGED <<chain, record, signed, starts, processed>>

\* Without a block number there is no backfill: the polls begin at block 0.
BootTipFails ==
    /\ phase = "boot"
    /\ phase' = "first"
    /\ fromBlock' = 0
    /\ UNCHANGED <<chain, record, signed, starts, processed, scan, scanned>>

\* Mutant: on to the tip, whatever was asked for.
NextFromTip(s) == s.tip + 1

\* Where the scan that follows s begins.
NextFrom(s) == s.to + 1

\* A chunk is done: the next one, or the live polls.  (A chunk that could not
\* be fetched is fetched again, which is no step of its own.)
FinishChunk ==
    LET s == scan["backfill"]
    IN  /\ s.at = "handle"
        /\ s.logs = {}
        /\ IF NextFrom(s) <= s.tip
           THEN /\ scan' = [scan EXCEPT !["backfill"] = BackfillScan(NextFrom(s), s.tip)]
                /\ UNCHANGED <<phase, fromBlock>>
           ELSE /\ scan' = [scan EXCEPT !["backfill"] = NoScan]
                /\ phase' = "first"
                /\ fromBlock' = s.tip + 1
        /\ UNCHANGED <<chain, record, signed, starts, processed, scanned>>

Crash ==
    /\ phase # "down"
    /\ phase' = "down"
    /\ fromBlock' = 0
    /\ processed' = {}
    /\ scan' = [s \in Scanners |-> NoScan]
    /\ scanned' = {}
    /\ UNCHANGED <<chain, record, signed, starts>>

-----------------------------------------------------------------------------
(* The live polls *)

\* The first poll is awaited; the timer starts the others, ready or not.
StartPoll(p) ==
    /\ \/ phase = "first" /\ \A q \in Polls : scan[q].at = "idle"
       \/ phase = "live"
    /\ scan[p].at = "idle"
    /\ scan' = [scan EXCEPT ![p].at = "tip"]
    /\ UNCHANGED <<chain, record, signed, starts, phase, fromBlock, processed, scanned>>

EndPoll(p) ==
    /\ scan' = [scan EXCEPT ![p] = NoScan]
    /\ phase' = "live"

\* The last block a poll asks for.
PollEnd == IF tip - fromBlock > MaxRange THEN fromBlock + MaxRange - 1 ELSE tip

PollTip(p) ==
    /\ scan[p].at = "tip"
    /\ \/ tip < fromBlock /\ EndPoll(p)
       \/ /\ tip >= fromBlock
          /\ scan' = [scan EXCEPT ![p] = [NoScan EXCEPT !.at = "fetch", !.tip = tip,
                                              !.from = fromBlock, !.to = PollEnd]]
          /\ UNCHANGED phase
    /\ UNCHANGED <<chain, record, signed, starts, fromBlock, processed, scanned>>

\* No block number, or no logs: the poll returns and leaves fromBlock alone.
PollFails(p) ==
    /\ scan[p].at \in {"tip", "fetch"}
    /\ EndPoll(p)
    /\ UNCHANGED <<chain, record, signed, starts, fromBlock, processed, scanned>>

FinishPoll(p) ==
    /\ scan[p].at = "handle"
    /\ scan[p].logs = {}
    /\ fromBlock' = NextFrom(scan[p])
    /\ EndPoll(p)
    /\ UNCHANGED <<chain, record, signed, starts, processed, scanned>>

-----------------------------------------------------------------------------
(* The logs of a scan, one after the other *)

FetchLogs(s) ==
    /\ scan[s].at = "fetch"
    /\ scan' = [scan EXCEPT ![s].at = "handle",
                            ![s].logs = LogsIn(scan[s].from, scan[s].to)]
    /\ scanned' = scanned \cup (scan[s].from .. scan[s].to)
    /\ UNCHANGED <<chain, record, signed, starts, phase, fromBlock, processed>>

\* Mutant: one confirmation too few.
ConfirmedEarly(s, log) == scan[s].tip - log.block + 1 >= Confirmations

Confirmed(s, log) == scan[s].tip - log.block >= Confirmations

Skip(s) ==
    /\ scan[s].at = "handle"
    /\ \E log \in scan[s].logs :
          /\ log.lock \in processed \/ ~Confirmed(s, log)
          /\ scan' = [scan EXCEPT ![s].logs = @ \ {log}]
    /\ UNCHANGED <<chain, record, signed, starts, phase, fromBlock, processed, scanned>>

\* Mutant: the transaction is marked only once it is attested.
NotMarked(l) == processed

\* The transaction is marked before the attestation is awaited.
Marked(l) == processed \cup {l}

Take(s) ==
    /\ scan[s].at = "handle"
    /\ \E log \in scan[s].logs :
          /\ log.lock \notin processed
          /\ Confirmed(s, log)
          /\ processed' = Marked(log.lock)
          /\ scan' = [scan EXCEPT ![s].at = "attest", ![s].lock = {log.lock},
                                  ![s].logs = @ \ {log}]
    /\ UNCHANGED <<chain, record, signed, starts, phase, fromBlock, scanned>>

\* Mutant: a failure leaves the mark.
StillMarked(l) == processed

\* The mark taken back when the attestation failed.
Unmarked(l) == processed \ {l}

Resume(s) == scan' = [scan EXCEPT ![s].at = "handle", ![s].lock = {}]

\* The oracle signs and verify_collateral succeeds, or finds the record
\* verified already.
Verified(s) ==
    /\ scan[s].at = "attest"
    /\ \E l \in scan[s].lock :
          /\ record[l] # "None"
          /\ signed' = signed \cup {l}
          /\ record' = [record EXCEPT ![l] = "Attached"]
    /\ Resume(s)
    /\ UNCHANGED <<chain, starts, phase, fromBlock, processed, scanned>>

\* The oracle signs, but the borrower has not attached a record yet.
NeedsAttach(s) ==
    /\ scan[s].at = "attest"
    /\ \E l \in scan[s].lock :
          /\ record[l] = "None"
          /\ signed' = signed \cup {l}
          /\ processed' = Unmarked(l)
    /\ Resume(s)
    /\ UNCHANGED <<chain, record, starts, phase, fromBlock, scanned>>

\* A route fails: before the oracle signed, after it did, or after the record
\* was verified but before the answer came.
ApiFails(s) ==
    /\ ApiMayFail
    /\ scan[s].at = "attest"
    /\ \E l \in scan[s].lock :
          /\ processed' = Unmarked(l)
          /\ \/ UNCHANGED <<signed, record>>
             \/ signed' = signed \cup {l} /\ UNCHANGED record
             \/ /\ record[l] = "Pending"
                /\ signed' = signed \cup {l}
                /\ record' = [record EXCEPT ![l] = "Attached"]
    /\ Resume(s)
    /\ UNCHANGED <<chain, starts, phase, fromBlock, scanned>>

-----------------------------------------------------------------------------
EnvironmentStep ==
    \/ Mine
    \/ \E l \in Locks : Reorg(l) \/ BorrowerAttaches(l) \/ OtherVerifies(l)

PollStep(p) ==
    StartPoll(p) \/ PollTip(p) \/ PollFails(p) \/ FinishPoll(p)

ScanStep(s) ==
    FetchLogs(s) \/ Skip(s) \/ Take(s) \/ Verified(s) \/ NeedsAttach(s) \/ ApiFails(s)

Next ==
    \/ EnvironmentStep
    \/ Start \/ BootTip \/ BootTipFails \/ FinishChunk \/ Crash
    \/ \E p \in Polls : PollStep(p)
    \/ \E s \in Scanners : ScanStep(s)

Spec == Init /\ [][Next]_vars

\* The event loop runs what is ready: an awaited call returns, a timer fires.
Fairness ==
    /\ WF_vars(BootTip \/ BootTipFails)
    /\ WF_vars(FinishChunk)
    /\ \A p \in Polls : WF_vars(PollStep(p))
    /\ \A s \in Scanners : WF_vars(ScanStep(s))

FairSpec == Spec /\ Fairness

-----------------------------------------------------------------------------
TypeOK ==
    /\ tip \in 1 .. (MaxBlock + 1)
    /\ block \in [Locks -> 0 .. tip]
    /\ record \in [Locks -> {"None", "Pending", "Attached"}]
    /\ signed \subseteq Locks
    /\ starts \in 0 .. MaxStarts
    /\ phase \in {"down", "boot", "backfill", "first", "live"}
    /\ fromBlock \in 0 .. (tip + 1)
    /\ processed \subseteq Locks
    /\ scan \in [Scanners ->
          [at : {"idle", "tip", "fetch", "handle", "attest"},
           tip : 0 .. tip, from : 0 .. (tip + 1), to : 0 .. tip,
           logs : SUBSET [lock : Locks, block : 1 .. tip], lock : SUBSET Locks]]
    /\ scanned \subseteq 0 .. tip

\* The live polls never move on past a block whose logs nobody has fetched,
\* whatever polls fail and however they overlap.
NoBlockSkipped ==
    phase \in {"first", "live"} => \A b \in 0 .. tip : b < fromBlock => b \in scanned

InFlight(s, l) == scan[s].at = "attest" /\ l \in scan[s].lock

\* The oracle never attests a lock that the chain can still take back: the log
\* was deep enough when the scan read the tip, and time only buries it deeper,
\* however long the scan has waited for the logs before it.
SignedIsFinal ==
    \A l \in signed : block[l] # 0 /\ tip - block[l] >= Confirmations

\* Overlapping scans never have the same lock attested at the same time.
AttestedOneAtATime ==
    \A l \in Locks : Cardinality({s \in Scanners : InFlight(s, l)}) <= 1

\* What the process remembers as done is done, or is being done.
ProcessedIsDone ==
    \A l \in processed :
        record[l] = "Attached" \/ \E s \in Scanners : InFlight(s, l)

\* A lock lies ahead of a backfill, deep enough and with its record attached.
LiesAhead(l) ==
    /\ phase = "backfill" /\ scan["backfill"].at = "fetch"
    /\ record[l] = "Pending"
    /\ block[l] # 0 /\ block[l] >= scan["backfill"].from
    /\ block[l] + Confirmations <= scan["backfill"].tip

\* It is verified on Stellar, unless the process stops first: a restart makes up
\* for the locks its predecessor lost.
BackfillCatchesUp ==
    \A l \in Locks : LiesAhead(l) ~> (record[l] = "Attached" \/ phase = "down")
=============================================================================
