---------------------------- MODULE MainProcess ----------------------------
(***************************************************************************)
(* The process of the sidecar: main of src/main.rs, with the configuration *)
(* it reads (src/config.rs), the refusal of a network without a gateway    *)
(* (src/policy.rs), and the HTTP server of src/routes.rs with its clients. *)
(* Module Service starts and stops it.                                     *)
(*                                                                         *)
(*   phase = "down"      there is no process                               *)
(*           "boot"      in main, up to TcpListener::bind                  *)
(*           "bound"     listening, the IPC task not spawned yet           *)
(*           "spawned"   up to the first poll of axum::serve, which        *)
(*                       installs the handler of Ctrl-C                    *)
(*           "serving"   in axum::serve                                    *)
(*           "draining"  still in it, after Ctrl-C                         *)
(*           "joining"   awaiting the IPC task                             *)
(*                                                                         *)
(* The IPC task is what module StoppableTask says it is.  A client of the  *)
(* HTTP server is external: away, connected with no request under way      *)
(* (idle), or with one that is not answered in full (asking).              *)
(***************************************************************************)
EXTENDS FiniteSets

CONSTANTS
    Client,     \* HTTP clients
    Version,    \* releases of the sidecar
    Network,    \* what MAGMA_NETWORK may say, names that do not parse included
    Baked       \* the networks whose gateway address a release knows

ASSUME BakedAssumption == Baked \in [Version -> SUBSET Network]

VARIABLES
    phase,
    version,    \* the release this process is of, as long as there is one
    config,     \* the configuration it has read
    told,       \* the shutdown channel carries true
    task,       \* the IPC task: absent, running, stopped
    clients

process == <<phase, version, config, told, task, clients>>

\* Whether a txpool socket is configured, and the network.
Config == [socket : BOOLEAN, network : Network]

NobodyConnected == [c \in Client |-> "away"]

\* There is no process, and no connection to it.
Gone ==
    /\ phase' = "down"
    /\ told' = FALSE /\ task' = "absent"
    /\ clients' = NobodyConnected
    /\ UNCHANGED <<version, config>>

-----------------------------------------------------------------------------
(* Starting.                                                               *)

\* The process starts, from the binary of release v, and reads configuration c.
Started(v, c) ==
    /\ phase = "down"
    /\ phase' = "boot" /\ version' = v /\ config' = c
    /\ UNCHANGED <<told, task, clients>>

\* No gateway is baked into this release for the network of the configuration.
GatewayIsUnset == config.network \notin Baked[version]

\* The network does not parse, or main refuses it.
Refuse ==
    /\ phase = "boot" /\ GatewayIsUnset
    /\ Gone

BindFails ==
    /\ phase = "boot" /\ ~GatewayIsUnset
    /\ Gone

Bind ==
    /\ phase = "boot" /\ ~GatewayIsUnset
    /\ phase' = "bound"
    /\ UNCHANGED <<version, config, told, task, clients>>

Spawn ==
    /\ phase = "bound"
    /\ phase' = "spawned"
    /\ task' = IF config.socket THEN "running" ELSE "absent"
    /\ UNCHANGED <<version, config, told, clients>>

Serve ==
    /\ phase = "spawned"
    /\ phase' = "serving"
    /\ UNCHANGED <<version, config, told, task, clients>>

-----------------------------------------------------------------------------
(* Serving.                                                                *)

\* Whoever connects before serve accepts waits in the backlog of the listener.
Connect(c) ==
    /\ phase \in {"bound", "spawned", "serving"} /\ clients[c] = "away"
    /\ clients' = [clients EXCEPT ![c] = "idle"]
    /\ UNCHANGED <<phase, version, config, told, task>>

Ask(c) ==
    /\ phase \in {"bound", "spawned", "serving"} /\ clients[c] = "idle"
    /\ clients' = [clients EXCEPT ![c] = "asking"]
    /\ UNCHANGED <<phase, version, config, told, task>>

Leave(c) ==
    /\ clients[c] # "away"
    /\ clients' = [clients EXCEPT ![c] = "away"]
    /\ UNCHANGED <<phase, version, config, told, task>>

\* /health and /metrics answer from the metrics, whatever the task is doing.
\* The connection is kept for the next request, except when draining.
Answer(c) ==
    /\ phase \in {"serving", "draining"} /\ clients[c] = "asking"
    /\ clients' = [clients EXCEPT ![c] = IF phase = "serving" THEN "idle" ELSE "away"]
    /\ UNCHANGED <<phase, version, config, told, task>>

-----------------------------------------------------------------------------
(* Ending.                                                                 *)

\* Ctrl-C before its handler is installed ends the process there and then.
InterruptEarly ==
    /\ phase \in {"boot", "bound", "spawned"}
    /\ Gone

\* Ctrl-C afterwards: the IPC task is told, the server accepts nothing more and
\* closes the connections that have no request under way.  A second one is
\* taken by the handler and does nothing.
Interrupt ==
    /\ phase = "serving"
    /\ phase' = "draining" /\ told' = TRUE
    /\ clients' = [c \in Client |-> IF clients[c] = "asking" THEN "asking" ELSE "away"]
    /\ UNCHANGED <<version, config, task>>

\* The server returns when the last connection is closed.
Drained ==
    /\ phase = "draining" /\ clients = NobodyConnected
    /\ phase' = "joining"
    /\ UNCHANGED <<version, config, told, task, clients>>

IpcTask == INSTANCE StoppableTask WITH running <- task = "running"

TaskStops ==
    /\ task = "running" /\ task' = "stopped"
    /\ IpcTask!Stop
    /\ UNCHANGED <<phase, version, config, clients>>

JoinStopped ==                                      \* faulty variant: no task is awaited, too
    /\ phase = "joining" /\ task = "stopped"
    /\ Gone

\* main awaits the task, if it spawned one, and returns.
Join ==
    /\ phase = "joining" /\ task \in {"absent", "stopped"}
    /\ Gone

\* SIGTERM, for which there is no handler, SIGKILL, or a crash.
Die == phase # "down" /\ Gone

-----------------------------------------------------------------------------

\* What the process and its clients do while it lasts, and how it ends by itself.
Goes ==
    \/ Bind \/ Spawn \/ Serve \/ Interrupt \/ Drained \/ TaskStops
    \/ \E c \in Client : Connect(c) \/ Ask(c) \/ Leave(c) \/ Answer(c)

Ends == Refuse \/ BindFails \/ InterruptEarly \/ Join \/ Die
=============================================================================
