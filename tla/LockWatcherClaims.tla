-------------------------- MODULE LockWatcherClaims --------------------------
(* What a document says of the lock watcher, and its code does not do. *)
EXTENDS LockWatcher

Idle == phase \in {"first", "live"} /\ \A s \in Scanners : scan[s].at = "idle"

\* docs/collateral-flow.md:44-46 and :141-143 say that the watcher waits for
\* the confirmations of a lock and then attests it.  A log that is found too
\* early is left behind: the scans go on after it, and never come back.
WaitingIsAhead ==
    Idle => \A l \in Locks :
                block[l] # 0 /\ l \notin signed => block[l] >= fromBlock
=============================================================================
