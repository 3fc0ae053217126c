-------------------------- MODULE MetricsOpsProofs --------------------------
(***************************************************************************)
(* What the operators of MetricsOps do to types, gauges and counters, and  *)
(* the arithmetic of counters that wrap, for every counter span.           *)
(***************************************************************************)
EXTENDS MetricsOps, TLAPS

-----------------------------------------------------------------------------
(* Counters and metrics.                                                   *)

\* A counter stays in its range, whatever is added to it.
LEMMA PlusType == ASSUME NEW n \in Int, NEW k \in Int PROVE Plus(n, k) \in Count
<1>1. CounterSpan \in Nat /\ CounterSpan > 0
  BY CounterAssumption
<1>2. n + k \in Int
  OBVIOUS
<1>3. (n + k) % CounterSpan \in 0..(CounterSpan - 1)
  BY <1>1, <1>2
<1> QED
  BY <1>3 DEF Plus, Count

LEMMA PlusInt == ASSUME NEW n \in Int, NEW k \in Int PROVE Plus(n, k) \in Int
<1>1. Plus(n, k) \in Count
  BY PlusType
<1>2. Count \subseteq Int
  BY CounterAssumption DEF Count
<1> QED
  BY <1>1, <1>2

\* Two metrics differ in their counters at most.
SameGauges(m, n) ==
    /\ m.ipcState = n.ipcState
    /\ m.sentCache = n.sentCache
    /\ m.backrunPending = n.backrunPending
    /\ m.backrunCache = n.backrunCache

\* Adding to a counter leaves the gauges alone.
LEMMA BumpedType ==
    ASSUME NEW m \in Metrics, NEW c \in Counter, NEW n \in Int
    PROVE  Bumped(m, c, n) \in Metrics /\ SameGauges(Bumped(m, c, n), m)
<1> DEFINE k == Plus(m.counter[c], n)
<1>1. k \in Count
  <2>1. m.counter[c] \in Int
    BY CounterAssumption DEF Metrics, Count
  <2> QED
    BY <2>1, PlusType
<1>2. Bumped(m, c, n) = [m EXCEPT !.counter = [m.counter EXCEPT ![c] = k]]
  BY DEF Bumped, Metrics
<1>3. [m.counter EXCEPT ![c] = k] \in [Counter -> Count]
  BY <1>1 DEF Metrics
<1> HIDE DEF k
<1> QED
  BY <1>2, <1>3 DEF Metrics, SameGauges

\* Every counting method of Metrics leaves the gauges alone.
LEMMA CountingType ==
    ASSUME NEW m \in Metrics, NEW n \in Int
    PROVE  /\ \A kind \in EventKind :
                RecordEvent(m, kind) \in Metrics /\ SameGauges(RecordEvent(m, kind), m)
           /\ RecordInsert(m) \in Metrics /\ SameGauges(RecordInsert(m), m)
           /\ RecordPrioritized(m) \in Metrics /\ SameGauges(RecordPrioritized(m), m)
           /\ RecordSkippedNonGateway(m) \in Metrics /\ SameGauges(RecordSkippedNonGateway(m), m)
           /\ RecordSkippedInvalidGateway(m) \in Metrics
           /\ SameGauges(RecordSkippedInvalidGateway(m), m)
           /\ RecordSendFailure(m) \in Metrics /\ SameGauges(RecordSendFailure(m), m)
           /\ RecordReconnect(m) \in Metrics /\ SameGauges(RecordReconnect(m), m)
           /\ AddBackrunPairs(m, n) \in Metrics /\ SameGauges(AddBackrunPairs(m, n), m)
           /\ AddBackrunPended(m, n) \in Metrics /\ SameGauges(AddBackrunPended(m, n), m)
           /\ AddBackrunExpired(m, n) \in Metrics /\ SameGauges(AddBackrunExpired(m, n), m)
           /\ AddBackrunEvicted(m, n) \in Metrics /\ SameGauges(AddBackrunEvicted(m, n), m)
           /\ AddSentCacheEvictions(m, n) \in Metrics
           /\ SameGauges(AddSentCacheEvictions(m, n), m)
<1>1. /\ {"inserts", "prioritized", "skippedNonGateway", "skippedInvalidGateway",
          "sendFailures", "reconnects", "sentCacheEvictions",
          "pairsMatched", "bidsExpired", "bidsEvicted", "bidsPended"} \subseteq Counter
      /\ EventKind \subseteq Counter
  BY DEF Counter, HealthCounter
<1>2. \A c \in Counter, k \in Int : Bumped(m, c, k) \in Metrics /\ SameGauges(Bumped(m, c, k), m)
  BY BumpedType
<1>3. 1 \in Int
  OBVIOUS
<1> QED
  BY <1>1, <1>2, <1>3
  DEF RecordEvent, RecordInsert, RecordPrioritized, RecordSkippedNonGateway,
      RecordSkippedInvalidGateway, RecordSendFailure, RecordReconnect, AddBackrunPairs,
      AddBackrunPended, AddBackrunExpired, AddBackrunEvicted, AddSentCacheEvictions

\* Every setting method sets one gauge.
LEMMA SettingType ==
    ASSUME NEW m \in Metrics, NEW n \in Nat, NEW s \in IpcState
    PROVE  /\ SetIpcState(m, s) \in Metrics
           /\ SetIpcState(m, s).ipcState = s
           /\ SetIpcState(m, s).sentCache = m.sentCache
           /\ SetIpcState(m, s).backrunPending = m.backrunPending
           /\ SetIpcState(m, s).backrunCache = m.backrunCache
           /\ SetSentCache(m, n) \in Metrics
           /\ SetSentCache(m, n).ipcState = m.ipcState
           /\ SetSentCache(m, n).sentCache = n
           /\ SetSentCache(m, n).backrunPending = m.backrunPending
           /\ SetSentCache(m, n).backrunCache = m.backrunCache
           /\ SetBackrunPending(m, n) \in Metrics
           /\ SetBackrunPending(m, n).ipcState = m.ipcState
           /\ SetBackrunPending(m, n).sentCache = m.sentCache
           /\ SetBackrunPending(m, n).backrunPending = n
           /\ SetBackrunPending(m, n).backrunCache = m.backrunCache
           /\ SetBackrunCache(m, n) \in Metrics
           /\ SetBackrunCache(m, n).ipcState = m.ipcState
           /\ SetBackrunCache(m, n).sentCache = m.sentCache
           /\ SetBackrunCache(m, n).backrunPending = m.backrunPending
           /\ SetBackrunCache(m, n).backrunCache = n
BY DEF Metrics, SetIpcState, SetSentCache, SetBackrunPending, SetBackrunCache

\* The metrics of a process that has just started.
LEMMA NewMetricsType == NewMetrics \in Metrics
BY CounterAssumption DEF NewMetrics, Metrics, Count, IpcState

\* Adding to one counter leaves the others alone.
LEMMA BumpedCounter ==
    ASSUME NEW m \in Metrics, NEW c \in Counter, NEW n, NEW d \in Counter
    PROVE  Bumped(m, c, n).counter[d] =
             IF d = c THEN Plus(m.counter[d], n) ELSE m.counter[d]
<1>1. Bumped(m, c, n) = [m EXCEPT !.counter = [m.counter EXCEPT ![c] = Plus(m.counter[c], n)]]
  BY DEF Bumped, Metrics
<1>2. Bumped(m, c, n).counter = [m.counter EXCEPT ![c] = Plus(m.counter[c], n)]
  BY <1>1 DEF Metrics
<1>3. m.counter \in [Counter -> Count]
  BY DEF Metrics
<1> QED
  BY <1>2, <1>3

\* The setting methods leave the counters alone.
LEMMA SettingCounter ==
    ASSUME NEW m \in Metrics, NEW n, NEW s
    PROVE  /\ SetIpcState(m, s).counter = m.counter
           /\ SetSentCache(m, n).counter = m.counter
           /\ SetBackrunPending(m, n).counter = m.counter
           /\ SetBackrunCache(m, n).counter = m.counter
BY DEF Metrics, SetIpcState, SetSentCache, SetBackrunPending, SetBackrunCache

-----------------------------------------------------------------------------
(* Counters that wrap: two counts agree if they differ by laps of the span. *)

Cong(i, j) == i % CounterSpan = j % CounterSpan
Rem(n) == n % CounterSpan
Quot(n) == n \div CounterSpan

\* A multiple of s between -s and s is zero.
LEMMA SmallMultiple ==
    ASSUME NEW s \in Nat, NEW z \in Int, s > 0, -s < s * z, s * z < s
    PROVE  z = 0
<1>1. CASE z >= 1
  <2>1. s * z >= s * 1
    BY <1>1
  <2> QED
    BY <2>1
<1>2. CASE z <= -1
  <2>1. s * z <= s * (-1)
    BY <1>2
  <2> QED
    BY <2>1
<1> QED
  BY <1>1, <1>2

\* Division with remainder.
LEMMA DivisionBy ==
    ASSUME NEW n \in Int, NEW d \in Nat, d > 0
    PROVE  /\ n % d \in Int /\ n \div d \in Int
           /\ 0 <= n % d /\ n % d < d
           /\ n = d * (n \div d) + (n % d)
<1>1. n % d \in Int
  OBVIOUS
<1>2. n \div d \in Int
  OBVIOUS
<1>3. 0 <= n % d
  OBVIOUS
<1>4. n % d < d
  OBVIOUS
<1>5. n = d * (n \div d) + (n % d)
  BY SMT
<1> QED
  BY <1>1, <1>2, <1>3, <1>4, <1>5

\* Laps and rest of a count.
LEMMA Division ==
    ASSUME NEW n \in Int
    PROVE  /\ Rem(n) \in Int /\ Quot(n) \in Int
           /\ 0 <= Rem(n) /\ Rem(n) < CounterSpan
           /\ n = CounterSpan * Quot(n) + Rem(n)
<1>1. CounterSpan \in Nat /\ CounterSpan > 0
  BY CounterAssumption
<1> QED
  BY <1>1, DivisionBy DEF Rem, Quot

\* Counts that differ by laps agree ...
LEMMA CongByMultiple ==
    ASSUME NEW i \in Int, NEW j \in Int, NEW z \in Int, i = j + CounterSpan * z
    PROVE  Cong(i, j)
<1> DEFINE s == CounterSpan
           p == Quot(i)
           q == Quot(j)
           r == Rem(i)
           t == Rem(j)
<1>1. s \in Nat /\ s > 0
  BY CounterAssumption
<1>2. /\ r \in Int /\ p \in Int /\ 0 <= r /\ r < s /\ i = s * p + r
      /\ t \in Int /\ q \in Int /\ 0 <= t /\ t < s /\ j = s * q + t
  BY Division
<1>3. i = j + s * z
  OBVIOUS
<1> HIDE DEF s, p, q, r, t
<1>4. s * (p - q - z) = t - r
  BY <1>1, <1>2, <1>3
<1> DEFINE w == p - q - z
<1>5. w \in Int /\ s * w = t - r
  BY <1>2, <1>4
<1> HIDE DEF w
<1>6. w = 0
  BY <1>1, <1>2, <1>5, SmallMultiple
<1>7. s * w = 0
  BY <1>1, <1>6
<1>8. r = t
  BY <1>2, <1>5, <1>7
<1> QED
  BY <1>8 DEF Cong, Rem, r, t

\* ... and counts that agree differ by laps.
LEMMA CongMultiple ==
    ASSUME NEW i \in Int, NEW j \in Int, Cong(i, j)
    PROVE  \E z \in Int : i = j + CounterSpan * z
<1> DEFINE s == CounterSpan
           p == Quot(i)
           q == Quot(j)
           r == Rem(i)
<1>1. s \in Nat /\ s > 0
  BY CounterAssumption
<1>2. /\ r \in Int /\ p \in Int /\ i = s * p + r
      /\ q \in Int /\ j = s * q + r
  <2>1. Rem(i) = Rem(j)
    BY DEF Cong, Rem
  <2> QED
    BY <2>1, Division
<1> HIDE DEF s, p, q, r
<1>3. p - q \in Int /\ i = j + s * (p - q)
  BY <1>1, <1>2
<1> QED
  BY <1>3 DEF s

\* Two counts that agree go on to agree when both grow alike.
LEMMA CongKept ==
    ASSUME NEW i \in Int, NEW j \in Int, NEW k \in Int, NEW l \in Int, NEW y \in Int,
           Cong(i, j), k - l = (i - j) + CounterSpan * y
    PROVE  Cong(k, l)
<1>1. PICK z \in Int : i = j + CounterSpan * z
  BY CongMultiple
<1>2. CounterSpan \in Int
  BY CounterAssumption
<1>3. k = l + CounterSpan * (z + y) /\ z + y \in Int
  BY <1>1, <1>2
<1> QED
  BY <1>3, CongByMultiple

\* Adding to a counter adds, up to laps.
LEMMA PlusLaps ==
    ASSUME NEW n \in Int, NEW k \in Int
    PROVE  \E z \in Int : Plus(n, k) = n + k + CounterSpan * z
<1> DEFINE m == n + k
           q == Quot(m)
           r == Rem(m)
<1>1. m \in Int
  OBVIOUS
<1> HIDE DEF m
<1>2. q \in Int /\ r \in Int /\ m = CounterSpan * q + r
  BY <1>1, Division
<1>3. CounterSpan \in Int
  BY CounterAssumption
<1> HIDE DEF q, r
<1>4. r = m + CounterSpan * (-q) /\ -q \in Int
  BY <1>1, <1>2, <1>3
<1>5. Plus(n, k) = r
  BY DEF Plus, Rem, r, m
<1> QED
  BY <1>4, <1>5 DEF m

=============================================================================
