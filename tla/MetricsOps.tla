----------------------------- MODULE MetricsOps -----------------------------
(***************************************************************************)
(* The metrics of the IPC loop: struct Metrics of src/metrics.rs, which    *)
(* the loop writes and /health and /metrics read.                          *)
(*                                                                         *)
(* One record, every method an operator on it.  A counter is an AtomicU64  *)
(* and wraps at CounterSpan, 2^64 in the code; an instance that is not     *)
(* about counters sets CounterSpan to 1, which makes each of them 0.  The  *)
(* state of the connection and the time stamps are stored twice, as a      *)
(* gauge and as an atomic of their own, one right after the other: one     *)
(* copy of the state stands for both, and the time stamps, which are only  *)
(* displayed, are left out.  The counters of Commit, Drop and Evict events *)
(* are one, as the three are handled alike.  The counter of HTTP requests, *)
(* which the handlers write, is left out.                                  *)
(***************************************************************************)
EXTENDS Integers

CONSTANT CounterSpan    \* number of values of a counter

ASSUME CounterAssumption == CounterSpan \in Nat \ {0}

Count == 0..(CounterSpan - 1)
Plus(n, k) == (n + k) % CounterSpan

IpcState == {"disabled", "connecting", "connected"}
EventKind == {"insert", "leave"}      \* labels of txpool_events_total

\* The counters /health shows, and those only /metrics shows.
HealthCounter == {"inserts", "prioritized", "skippedNonGateway", "skippedInvalidGateway",
                  "sendFailures", "reconnects", "sentCacheEvictions",
                  "pairsMatched", "bidsExpired", "bidsEvicted"}
Counter == HealthCounter \cup {"bidsPended"} \cup EventKind

Metrics == [ counter : [Counter -> Count],
             ipcState : IpcState,
             sentCache : Nat, backrunPending : Nat, backrunCache : Nat ]

NewMetrics == [ counter |-> [c \in Counter |-> 0],
                ipcState |-> "disabled",
                sentCache |-> 0, backrunPending |-> 0, backrunCache |-> 0 ]

Bumped(m, c, n) == [m EXCEPT !.counter[c] = Plus(@, n)]

SetIpcState(m, state) == [m EXCEPT !.ipcState = state]

RecordEvent(m, kind) == Bumped(m, kind, 1)
RecordInsert(m) == Bumped(m, "inserts", 1)
RecordPrioritized(m) == Bumped(m, "prioritized", 1)
RecordSkippedNonGateway(m) == Bumped(m, "skippedNonGateway", 1)
RecordSkippedInvalidGateway(m) == Bumped(m, "skippedInvalidGateway", 1)
RecordSendFailure(m) == Bumped(m, "sendFailures", 1)
RecordReconnect(m) == Bumped(m, "reconnects", 1)

AddBackrunPairs(m, n) == Bumped(m, "pairsMatched", n)
AddBackrunPended(m, n) == Bumped(m, "bidsPended", n)
AddBackrunExpired(m, n) == Bumped(m, "bidsExpired", n)
AddBackrunEvicted(m, n) == Bumped(m, "bidsEvicted", n)
AddSentCacheEvictions(m, n) == Bumped(m, "sentCacheEvictions", n)

SetBackrunPending(m, n) == [m EXCEPT !.backrunPending = n]
SetBackrunCache(m, n) == [m EXCEPT !.backrunCache = n]
SetSentCache(m, n) == [m EXCEPT !.sentCache = n]

\* What GET /health answers.
Snapshot(m) == [ ipcState |-> m.ipcState,
                 sentCacheEntries |-> m.sentCache,
                 bidsPending |-> m.backrunPending,
                 counted |-> [c \in HealthCounter |-> m.counter[c]] ]
=============================================================================
