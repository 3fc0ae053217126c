------------------------------ MODULE IpcLoop ------------------------------
(***************************************************************************)
(* run_txpool_priority_loop of src/txpool_ipc.rs: the one task that owns   *)
(* the pairing pool and the dedup memory, with the node at the other end   *)
(* of the txpool socket, the clock, Ctrl-C and the death of the process.   *)
(*                                                                         *)
(* The task can be interrupted only where it awaits: at connect, in the    *)
(* reconnect sleep, in select!, and in client.send.  So the state between  *)
(* two steps of the model is the state at an await or between two events   *)
(* of a batch:                                                             *)
(*                                                                         *)
(*   pc = "top"      about to test the shutdown flag at the head of loop   *)
(*   pc = "connect"  awaiting EthTxPoolIpcClient::new                      *)
(*   pc = "sleep"    awaiting sleep_or_shutdown                            *)
(*   pc = "live"     in 'connection: loop.  With todo # <<>> it is sending *)
(*                   the reinjections of one Insert, else with batch # <<>>*)
(*                   it is going through a batch, else it is in select!    *)
(*   pc = "stopped"  returned                                              *)
(*                                                                         *)
(* The node is external.  It keeps a pool of transactions, reports every   *)
(* arrival and departure on the connection that is open at that moment,    *)
(* accepts reinjections in the order they were sent, and echoes them as    *)
(* Inserts.  It may close the connection, or restart and lose its pool.    *)
(***************************************************************************)
EXTENDS PendingPoolOps, SentCacheOps, MetricsOps

CONSTANTS
    InboxBound,     \* bound of the model: events in flight to the sidecar
    WireBound,      \* reinjections the socket holds before send has to wait
    MaxArrivals,    \* bound of the model: transactions entering the node's pool
    MaxDepartures,  \* bound of the model: transactions leaving it
    MaxBreaks       \* bound of the model: lost connections, restarts of either side

ASSUME LoopAssumption ==
    /\ {InboxBound, WireBound} \subseteq Nat \ {0}
    /\ {MaxArrivals, MaxDepartures, MaxBreaks} \subseteq Nat

VARIABLES
    pc, batch, todo,            \* the task
    pool, sent,                 \* what it owns, across reconnects
    shutdown, noticed,          \* the watch channel: its value is true, and
                                \* the receiver has seen it change
    metrics,                    \* what the task tells of itself
    conn, inbox, wire,          \* the connection: events to the sidecar,
                                \* reinjections to the node
    nodeUp, nodePool, spent,    \* the node, and how much of the bounds it used
    reinjected,                 \* history: hashes sent to the node, which has
                                \* not reported their departure since
    abandoned,                  \* history: of the others, those a failed send
                                \* left unsent
    tally,                      \* history: what the metrics do not count
    survived                    \* history: bids still parked after they left

task == <<pc, batch, todo>>
owned == <<pool, sent>>
watch == <<shutdown, noticed>>
socket == <<conn, inbox, wire>>
node == <<nodeUp, nodePool, spent>>
history == <<reinjected, abandoned, tally, survived>>
vars == <<task, owned, watch, metrics, socket, node, history>>

\* An event carries the hash; fresh marks, for the properties, the Insert of a
\* transaction that has just entered the node's pool, echo or not.
Inserted(h, fresh) == [kind |-> "insert", hash |-> h, fresh |-> fresh]
Left(h) == [kind |-> "leave", hash |-> h, fresh |-> FALSE]

NothingSpent == [arrivals |-> 0, departures |-> 0, breaks |-> 0]

\* Inserts answered with reinjections, bids observed, bids forgotten, hashes
\* removed from the dedup memory, connections ended other than by a failed send.
Tally == [{"answered", "bids", "forgotten", "removed", "ended"} -> Count]
NothingTallied == [what \in {"answered", "bids", "forgotten", "removed", "ended"} |-> 0]
Tallied(what, n) == [tally EXCEPT ![what] = Plus(@, n)]

Init ==
    /\ pc = "top" /\ batch = <<>> /\ todo = <<>>
    /\ pool = EmptyPool /\ sent = EmptySent
    /\ shutdown = FALSE /\ noticed = FALSE
    /\ metrics = NewMetrics
    /\ conn = "none" /\ inbox = <<>> /\ wire = <<>>
    /\ nodeUp \in BOOLEAN /\ nodePool = {} /\ spent = NothingSpent
    /\ reinjected = {} /\ abandoned = {} /\ tally = NothingTallied /\ survived = {}

-----------------------------------------------------------------------------
(* The task: connecting.                                                   *)

\* Faulty variant: the flag is not tested at the head of the loop.
TopUnchecked ==
    /\ pc = "top"
    /\ pc' = "connect" /\ metrics' = SetIpcState(metrics, "connecting")
    /\ UNCHANGED <<batch, todo, owned, watch, socket, node, history>>

\* The head of the loop: return if shutdown was requested.
Top ==
    /\ pc = "top"
    /\ IF shutdown
       THEN pc' = "stopped" /\ metrics' = SetIpcState(metrics, "disabled")
       ELSE pc' = "connect" /\ metrics' = SetIpcState(metrics, "connecting")
    /\ UNCHANGED <<batch, todo, owned, watch, socket, node, history>>

\* The snapshot of the node's pool that comes with the connection is ignored.
\* The shutdown channel is not looked at while connect is awaited.
ConnectOk ==
    /\ pc = "connect" /\ nodeUp
    /\ pc' = "live"
    /\ metrics' = RecordReconnect(SetIpcState(metrics, "connected"))
    /\ conn' = "open" /\ inbox' = <<>> /\ wire' = <<>>
    /\ UNCHANGED <<batch, todo, owned, watch, node, history>>

\* Faulty variant: a failed connect ends the task.
ConnectFailsForGood ==
    /\ pc = "connect"
    /\ pc' = "stopped" /\ metrics' = SetIpcState(metrics, "disabled")
    /\ UNCHANGED <<batch, todo, owned, watch, socket, node, history>>

\* A connect may fail with the node up as well.
ConnectFails ==
    /\ pc = "connect"
    /\ pc' = "sleep"
    /\ UNCHANGED <<batch, todo, owned, watch, metrics, socket, node, history>>

\* sleep_or_shutdown ends with the timer, or with a change of the watch
\* channel, which the receiver has then seen.
WakeUp ==
    /\ pc = "sleep"
    /\ pc' = "top"
    /\ \/ UNCHANGED noticed
       \/ shutdown /\ ~noticed /\ noticed' = TRUE
    /\ UNCHANGED <<batch, todo, owned, shutdown, metrics, socket, node, history>>

-----------------------------------------------------------------------------
(* The task: select! between the watch channel and the next batch.         *)

InSelect == pc = "live" /\ batch = <<>> /\ todo = <<>>

\* When the sidecar closes the connection, the node may still read what is in it.
StillDelivered ==
    {nodePool \cup {wire[i].hash : i \in 1..n} : n \in 0..Len(wire)}

SeeShutdown ==
    /\ InSelect
    /\ shutdown /\ ~noticed
    /\ noticed' = TRUE
    /\ pc' = "stopped" /\ metrics' = SetIpcState(metrics, "disabled")
    /\ conn' = "none" /\ inbox' = <<>> /\ wire' = <<>>
    /\ tally' = Tallied("ended", 1)
    /\ nodePool' \in StillDelivered
    /\ UNCHANGED <<batch, todo, owned, shutdown, nodeUp, spent>>
    /\ UNCHANGED <<reinjected, abandoned, survived>>

\* A batch is some of the events in flight, in order.
NextBatch ==
    /\ InSelect
    /\ \E n \in 1..Len(inbox) :
         /\ batch' = SubSeq(inbox, 1, n)
         /\ inbox' = Dropped(inbox, n)
    /\ UNCHANGED <<pc, todo, owned, watch, metrics, conn, wire, node, history>>

StreamEnds ==
    /\ InSelect
    /\ conn = "closed" /\ inbox = <<>>
    /\ pc' = "top" /\ conn' = "none"
    /\ tally' = Tallied("ended", 1)
    /\ UNCHANGED <<batch, todo, owned, watch, metrics, inbox, wire, node>>
    /\ UNCHANGED <<reinjected, abandoned, survived>>

-----------------------------------------------------------------------------
(* The task: the events of a batch.                                        *)

InBatch == pc = "live" /\ batch # <<>> /\ todo = <<>>

\* An Insert of a hash reinjected before is an echo.
IgnoreEcho ==
    /\ InBatch
    /\ Head(batch).kind = "insert" /\ Head(batch).hash \in sent.keys
    /\ batch' = Tail(batch)
    /\ metrics' = RecordEvent(metrics, "insert")
    /\ UNCHANGED <<pc, todo, owned, watch, socket, node, history>>

\* What the loop makes of the result r of observing h in the pool seen.
CountSkips(m, h, seen) ==
    IF SkippedNonGateway(seen, h) THEN RecordSkippedNonGateway(m)
    ELSE IF SkippedInvalidGateway(h) THEN RecordSkippedInvalidGateway(m)
    ELSE m

CountPairsNotExpired(m, expired, r) ==                  \* faulty variant
    AddBackrunEvicted(AddBackrunPended(AddBackrunPairs(m, r.matched), r.pended), r.evicted)
CountPairs(m, expired, r) ==
    AddBackrunEvicted(AddBackrunPended(AddBackrunPairs(AddBackrunExpired(m, expired),
                                                       r.matched), r.pended), r.evicted)

SetGaugesPendingOnly(m, p) == SetBackrunPending(m, p.pendingCount)  \* faulty variant
SetGauges(m, p) == SetBackrunCache(SetBackrunPending(m, p.pendingCount), Cardinality(Cached(p)))

\* prune and observe, which read the clock one after the other.
HandleInsert ==
    /\ InBatch
    /\ Head(batch).kind = "insert" /\ Head(batch).hash \notin sent.keys
    /\ \E seen \in {Pruned(pool), Aged(Pruned(pool))} :
         LET h == Head(batch).hash
             r == Observed(seen, h)
         IN  /\ pool' = r.pool
             /\ todo' = r.reinjections
             /\ LET counted == CountSkips(RecordInsert(RecordEvent(metrics, "insert")), h, seen)
                IN  metrics' = SetGauges(CountPairs(counted, Expired(pool), r), r.pool)
             /\ tally' = [tally EXCEPT
                            !["answered"] = Plus(@, IF r.reinjections = <<>> THEN 0 ELSE 1),
                            !["bids"] = Plus(@, IF h \in Backrun THEN 1 ELSE 0)]
    /\ batch' = Tail(batch)
    /\ UNCHANGED <<pc, sent, watch, socket, node, reinjected, abandoned, survived>>

\* Faulty variant: the gauge is set before the hash is removed.
HandleLeaveEarlyGauge ==
    /\ InBatch
    /\ Head(batch).kind = "leave"
    /\ LET h == Head(batch).hash
       IN  /\ sent' = SentRemoved(sent, h)
           /\ metrics' = SetSentCache(RecordEvent(metrics, "leave"), Cardinality(sent.keys))
           /\ pool' = Forgotten(pool, h)
           /\ reinjected' = reinjected \ {h} /\ abandoned' = abandoned \ {h}
           /\ survived' = (survived \ {h}) \cup (Waiting(pool') \cap {h})
           /\ UNCHANGED tally
    /\ batch' = Tail(batch)
    /\ UNCHANGED <<pc, todo, watch, socket, node>>

\* The parked bids forget takes out: all that wait for h, and one copy of h
\* itself from the vector of another target.
ForgottenBids(p, h) ==
    Len(p.pending[h]) + (IF \E t \in Hash \ {h} : h \in Parked(p, t) THEN 1 ELSE 0)

\* Commit, Drop and Evict are handled alike.
HandleLeave ==
    /\ InBatch
    /\ Head(batch).kind = "leave"
    /\ LET h == Head(batch).hash
       IN  /\ sent' = SentRemoved(sent, h)
           /\ metrics' = SetSentCache(RecordEvent(metrics, "leave"), Cardinality(sent'.keys))
           /\ pool' = Forgotten(pool, h)
           /\ tally' = [tally EXCEPT
                          !["removed"] = Plus(@, IF h \in sent.keys THEN 1 ELSE 0),
                          !["forgotten"] = Plus(@, ForgottenBids(pool, h))]
           /\ reinjected' = reinjected \ {h} /\ abandoned' = abandoned \ {h}
           /\ survived' = (survived \ {h}) \cup (Waiting(pool') \cap {h})
    /\ batch' = Tail(batch)
    /\ UNCHANGED <<pc, todo, watch, socket, node>>

-----------------------------------------------------------------------------
(* The task: sending the reinjections of one Insert.                       *)

Sending == pc = "live" /\ todo # <<>>

\* The target or bid has been reinjected before, perhaps in another role.
SkipSent ==
    /\ Sending
    /\ Head(todo).hash \in sent.keys
    /\ todo' = Tail(todo)
    /\ UNCHANGED <<pc, batch, owned, watch, metrics, socket, node, history>>

\* client.send waits while the socket is full; a hash is recorded in the
\* dedup memory only after its send has succeeded.
SendOk ==
    /\ Sending
    /\ Head(todo).hash \notin sent.keys
    /\ conn = "open" /\ Len(wire) < WireBound
    /\ wire' = Append(wire, Head(todo))
    /\ LET h == Head(todo).hash
       IN  /\ sent' = SentInserted(sent, h)
           /\ metrics' = SetSentCache(
                  AddSentCacheEvictions(RecordPrioritized(metrics), SentEvictions(sent, h)),
                  Cardinality(sent'.keys))
           /\ reinjected' = reinjected \cup {h} /\ abandoned' = abandoned \ {h}
    /\ todo' = Tail(todo)
    /\ UNCHANGED <<pc, batch, pool, watch, conn, inbox, node, tally, survived>>

\* A failed send gives up the remaining reinjections, the rest of the batch
\* and the connection; the pool is left as observe made it.
SendFails ==
    /\ Sending
    /\ Head(todo).hash \notin sent.keys
    /\ conn = "closed"
    /\ pc' = "top" /\ batch' = <<>> /\ todo' = <<>>
    /\ conn' = "none" /\ inbox' = <<>> /\ wire' = <<>>
    /\ metrics' = RecordSendFailure(metrics)
    /\ abandoned' = abandoned \cup ({todo[i].hash : i \in DOMAIN todo} \ reinjected)
    /\ UNCHANGED <<owned, watch, node, reinjected, tally, survived>>

Task ==
    \/ Top \/ ConnectOk \/ ConnectFails \/ WakeUp
    \/ SeeShutdown \/ NextBatch \/ StreamEnds
    \/ IgnoreEcho \/ HandleInsert \/ HandleLeave
    \/ SkipSent \/ SendOk \/ SendFails

-----------------------------------------------------------------------------
(* The node, the operator and the clock.                                   *)

sidecar == <<task, owned, noticed, metrics, history>>

\* Report an event on the open connection, if there is one.
Report(event) ==
    IF conn = "open"
    THEN Len(inbox) < InboxBound /\ inbox' = Append(inbox, event)
    ELSE inbox' = inbox

NodeStarts ==
    /\ ~nodeUp
    /\ nodeUp' = TRUE
    /\ UNCHANGED <<sidecar, shutdown, socket, nodePool, spent>>

NodeReceives(h) ==
    /\ nodeUp /\ h \notin nodePool
    /\ spent.arrivals < MaxArrivals
    /\ spent' = [spent EXCEPT !.arrivals = @ + 1]
    /\ nodePool' = nodePool \cup {h}
    /\ Report(Inserted(h, TRUE))
    /\ UNCHANGED <<sidecar, shutdown, conn, wire, nodeUp>>

NodeRemoves(h) ==
    /\ h \in nodePool
    /\ spent.departures < MaxDepartures
    /\ spent' = [spent EXCEPT !.departures = @ + 1]
    /\ nodePool' = nodePool \ {h}
    /\ Report(Left(h))
    /\ UNCHANGED <<sidecar, shutdown, conn, wire, nodeUp>>

\* The node takes the next reinjection.  A transaction that has left its pool
\* meanwhile may be refused; one it accepts is reported as inserted, or not.
NodeAccepts ==
    /\ conn = "open" /\ wire # <<>>
    /\ wire' = Tail(wire)
    /\ LET h == Head(wire).hash
       IN  \/ nodePool' = nodePool \cup {h} /\ Report(Inserted(h, FALSE))
           \/ UNCHANGED <<nodePool, inbox>>
    /\ UNCHANGED <<sidecar, shutdown, conn, nodeUp, spent>>

\* The connection goes down.  Reinjections in flight are lost, and of the
\* events in flight all but some that are already in the socket.
Breaks ==
    /\ spent.breaks < MaxBreaks
    /\ spent' = [spent EXCEPT !.breaks = @ + 1]
    /\ IF conn = "open"
       THEN /\ conn' = "closed" /\ wire' = <<>>
            /\ \E n \in 0..Len(inbox) : inbox' = SubSeq(inbox, 1, n)
       ELSE UNCHANGED socket

\* The node drops the client and goes on.
NodeDisconnects ==
    /\ conn = "open"
    /\ Breaks
    /\ UNCHANGED <<sidecar, shutdown, nodeUp, nodePool>>

\* The node stops; when it starts again its pool is empty.
NodeStops ==
    /\ nodeUp
    /\ Breaks
    /\ nodeUp' = FALSE /\ nodePool' = {}
    /\ UNCHANGED <<sidecar, shutdown>>

Node ==
    \/ NodeStarts \/ NodeAccepts \/ NodeDisconnects \/ NodeStops
    \/ \E h \in Hash : NodeReceives(h) \/ NodeRemoves(h)

\* main sends true on the watch channel when Ctrl-C arrives.
CtrlC ==
    /\ ~shutdown
    /\ shutdown' = TRUE
    /\ UNCHANGED <<sidecar, socket, node>>

Tick ==
    /\ pool' = Aged(pool)
    /\ UNCHANGED <<task, sent, watch, metrics, socket, node, history>>

\* The process dies, by SIGTERM, which no handler catches, or by a crash, and
\* systemd starts the next one (Restart=always): nothing the sidecar kept is
\* left, while the node and its pool go on.
Killed ==
    /\ ~shutdown
    /\ spent.breaks < MaxBreaks
    /\ spent' = [spent EXCEPT !.breaks = @ + 1]
    /\ pc' = "top" /\ batch' = <<>> /\ todo' = <<>>
    /\ pool' = EmptyPool /\ sent' = EmptySent
    /\ metrics' = NewMetrics
    /\ conn' = "none" /\ inbox' = <<>> /\ wire' = <<>>
    /\ reinjected' = {} /\ abandoned' = {} /\ tally' = NothingTallied /\ survived' = {}
    /\ nodePool' \in StillDelivered
    /\ UNCHANGED <<watch, nodeUp>>

Next == Task \/ Node \/ CtrlC \/ Tick \/ Killed

Spec == Init /\ [][Next]_vars

\* The runtime keeps polling the task, and a ready branch of select! is not
\* passed over for ever (tokio picks among ready branches at random).  A node
\* that is up does not refuse every connect, and reads what it is sent.
Fairness ==
    /\ WF_vars(Task)
    /\ SF_vars(ConnectOk)
    /\ SF_vars(SeeShutdown)
    /\ WF_vars(NodeAccepts)

FairSpec == Spec /\ Fairness

-----------------------------------------------------------------------------
(* Properties. *)

Event == [kind : {"insert", "leave"}, hash : Hash, fresh : BOOLEAN]
Spent == [arrivals : 0..MaxArrivals, departures : 0..MaxDepartures, breaks : 0..MaxBreaks]

\* Every variable has its type.
TypeOK ==
    /\ pc \in {"top", "connect", "sleep", "live", "stopped"}
    /\ batch \in Seq(Event) /\ inbox \in Seq(Event)
    /\ todo \in Seq(Reinjection) /\ wire \in Seq(Reinjection)
    /\ pool \in Pool
    /\ sent \in [keys : SUBSET Hash, order : Seq(Hash)]
    /\ shutdown \in BOOLEAN /\ noticed \in BOOLEAN /\ nodeUp \in BOOLEAN
    /\ metrics \in Metrics /\ tally \in Tally
    /\ conn \in {"none", "open", "closed"}
    /\ {nodePool, reinjected, abandoned, survived} \subseteq SUBSET Hash
    /\ spent \in Spent

\* What /health tells of the connection and of the dedup memory is so at every
\* await: the state is set on every path into and out of the connection, the
\* gauge after every change of the map.
MetricsTell ==
    LET told == Snapshot(metrics)
    IN  /\ pc = "live" => told.ipcState = "connected"
        /\ pc \in {"connect", "sleep"} => told.ipcState = "connecting"
        /\ pc = "stopped" => told.ipcState = "disabled"
        /\ told.sentCacheEntries = Cardinality(sent.keys)

\* The counters of the loop, each bumped where the code counts, account for what
\* the loop did: every Insert that is no echo is skipped, parked or answered;
\* every backrun bid observed is in a vector of the pool, or has been paired with
\* its target, has expired, was evicted or forgotten; every hash sent is in the
\* dedup memory, or was evicted or removed; every connection but the present one
\* ended.
MetricsAddUp ==
    LET n == metrics.counter
        Equal(i, j) == i % CounterSpan = j % CounterSpan
    IN  /\ Equal(n["inserts"], n["skippedNonGateway"] + n["skippedInvalidGateway"]
                                 + n["bidsPended"] + tally["answered"])
        /\ Equal(tally["bids"], Cardinality(Slots(pool)) + n["bidsExpired"] + n["bidsEvicted"]
                                  + n["pairsMatched"] + tally["forgotten"])
        /\ Equal(n["prioritized"], Cardinality(sent.keys) + n["sentCacheEvictions"]
                                     + tally["removed"])
        /\ Equal(n["reconnects"], n["sendFailures"] + tally["ended"]
                                    + (IF pc = "live" THEN 1 ELSE 0))

\* The pairing gauges are set after an Insert only, so a departure leaves them
\* too high until the next one; they are never too low.
GaugesNeverUnderstate ==
    /\ metrics.backrunPending >= pool.pendingCount
    /\ metrics.backrunCache >= Cardinality(Cached(pool))

\* Once every event and every reinjection has arrived, and unless a connection
\* was lost, the sidecar remembers nothing that has left the node's pool: not as
\* reinjected, not as a candidate target, and not as a parked bid.  The exception
\* is a bid that was parked twice and stayed parked when it left (backrun.rs:284,
\* see ForgottenEverywhere).
Quiet == InSelect /\ inbox = <<>> /\ wire = <<>>

NothingOutlivesItsTx ==
    Quiet /\ spent.breaks = 0 =>
        (sent.keys \cup Cached(pool) \cup Waiting(pool)) \ survived \subseteq nodePool

\* A backrun bid goes out only when its target has been sent and is not known to
\* have left since, unless an earlier send failure is what kept the target back.
\* The dedup memory may have evicted the target meanwhile.
SendsBid(r) == r.class = "bid" /\ wire' = Append(wire, r)

BidBehindTarget ==
    [][\A i \in DOMAIN todo :
         SendsBid(todo[i]) => todo[i].group \in reinjected \cup abandoned]_vars

\* An Insert is passed over as an echo only if it is one: on an unbroken
\* connection no transaction new to the node's pool is left unranked because
\* the dedup memory still holds an earlier life of its hash.  The exception is
\* the same: a bid that stayed parked when it left is reinjected when its target
\* appears, and if the node refuses it then, its return is taken for the echo.
SkippedAreEchoes ==
    [][IgnoreEcho /\ spent.breaks = 0 /\ Head(batch).hash \notin survived
         => ~Head(batch).fresh]_vars

\* To main the loop is a task that goes on until it is told to stop, and then
\* stops, in whatever state the request finds it, as long as the node answers a
\* connect and reads what it is sent.
Stoppable == INSTANCE StoppableTask WITH told <- shutdown, running <- pc # "stopped"

ImplementsStoppable == Stoppable!Spec

\* With the node up for good the task ends up connected for good.
Reconnects ==
    <>[](nodeUp /\ ~shutdown) => <>[](pc = "live" /\ conn = "open")

\* No reinjection storm: when transactions stop coming and going, echoes and
\* reinjections die out.
ReinjectionsSettle == <>[](todo = <<>> /\ wire = <<>>)

\* A lead-block bid the node has reported is reinjected, unless the connection
\* breaks, the bid leaves, or the sidecar is stopped.
Reported(h) == \E i \in DOMAIN inbox : inbox[i] = Inserted(h, TRUE)

TobIsReinjected ==
    \A h \in Tob :
        Reported(h) ~> (h \in sent.keys \/ h \notin nodePool \/ spent.breaks > 0 \/ shutdown)

(* A claim of the comments that the code does not keep. *)

\* txpool_ipc.rs:163: what is ignored is the echo of a tx already reinjected.
OnlyEchoesSkipped == [][IgnoreEcho => ~Head(batch).fresh]_vars
=============================================================================
