------------------------------ MODULE Service ------------------------------
(***************************************************************************)
(* The sidecar as a service of a host: the process of module MainProcess,  *)
(* the systemd unit debian/sidecar/magma-sidecar.service that restarts it, *)
(* the maintainer scripts prerm, postinst and postrm that dpkg runs around *)
(* the replacement of its files, and the operator, who enables, disables,  *)
(* restarts and configures it at any moment, also between two steps of     *)
(* dpkg.  systemd, dpkg and the operator are external; how they behave is  *)
(* what the unit and the scripts rely on.                                  *)
(*                                                                         *)
(* Assumed: systemd runs and deb-systemd-invoke does what it is asked; the *)
(* operator uses enable --now and disable --now, as the documentation      *)
(* does, and does not start the service while removing it.                 *)
(***************************************************************************)
EXTENDS MainProcess

CONSTANTS
    Example,    \* the configuration in sidecar.env.example
    Edited,     \* the configurations an operator may write
    Nothing     \* no file, no package

ASSUME ConfigAssumption ==
    /\ Example \in Config /\ Edited \subseteq Config
    /\ Nothing \notin Config \cup Version

VARIABLES
    unit,       \* inactive; starting (a start is due, or RestartSec runs); active
    enabled,    \* the unit is enabled
    env,        \* /etc/magma-sidecar/sidecar.env
    disk,       \* the release whose files are installed
    configured, \* dpkg remembers a version that was configured
    job         \* the step of dpkg that comes next

host == <<enabled, env, disk, configured, job>>
vars == <<process, unit, host>>

Init ==
    /\ phase = "down" /\ version \in Version /\ config = Example
    /\ told = FALSE /\ task = "absent" /\ clients = NobodyConnected
    /\ unit = "inactive" /\ enabled = FALSE
    /\ env = Nothing /\ disk = Nothing
    /\ configured = FALSE /\ job = "none"

-----------------------------------------------------------------------------
(* systemd.                                                                *)

\* systemctl stop and the first half of a restart: SIGTERM ends the process.
Stopped == IF phase = "down" THEN UNCHANGED process ELSE Die

ExecUnconfigured ==             \* faulty variant: the EnvironmentFile is optional
    /\ unit = "starting" /\ disk # Nothing
    /\ Started(disk, env)
    /\ unit' = "active"
    /\ UNCHANGED host

\* Without the EnvironmentFile the start fails and is tried again.
Exec ==
    /\ unit = "starting" /\ disk # Nothing /\ env # Nothing
    /\ Started(disk, env)
    /\ unit' = "active"
    /\ UNCHANGED host

ProcessGoes == Goes /\ UNCHANGED <<unit, host>>

\* Restart=always: whatever the exit, the process is started again.
ProcessEnds ==
    /\ Ends
    /\ unit' = "starting"
    /\ UNCHANGED host

\* The host goes down and comes up.  What dpkg was doing is taken up again: a
\* configuration from its start, an upgrade or a removal from prerm.
Reboot ==
    /\ Stopped
    /\ unit' = IF enabled /\ disk # Nothing THEN "starting" ELSE "inactive"
    /\ job' = IF job \in {"configure", "restart"} THEN "configure" ELSE "none"
    /\ UNCHANGED <<enabled, env, disk, configured>>

-----------------------------------------------------------------------------
(* The operator.                                                           *)

EnableNow ==
    /\ disk # Nothing /\ job # "delete"
    /\ enabled' = TRUE
    /\ unit' = IF unit = "inactive" THEN "starting" ELSE unit
    /\ UNCHANGED <<process, env, disk, configured, job>>

DisableNow ==
    /\ enabled
    /\ enabled' = FALSE
    /\ Stopped /\ unit' = "inactive"
    /\ UNCHANGED <<env, disk, configured, job>>

\* To take over a new configuration, or after a rollback.
Restart ==
    /\ enabled /\ disk # Nothing /\ job # "delete"
    /\ Stopped /\ unit' = "starting"
    /\ UNCHANGED host

EditEnv ==
    /\ env # Nothing
    /\ env' \in Edited
    /\ UNCHANGED <<process, unit, enabled, disk, configured, job>>

-----------------------------------------------------------------------------
(* dpkg and the maintainer scripts.                                        *)

\* prerm upgrade, prerm remove: stop the unit.
Prerm ==
    /\ job = "none" /\ disk # Nothing
    /\ Stopped /\ unit' = "inactive"
    /\ job' \in {"unpack", "delete"}
    /\ UNCHANGED <<enabled, env, disk, configured>>

\* The files of any release replace those of the old one, or are the first.
Unpack ==
    /\ job = "unpack" \/ (job = "none" /\ disk = Nothing)
    /\ disk' \in Version
    /\ job' = "configure"
    /\ UNCHANGED <<process, unit, enabled, env, configured>>

\* postinst abort-upgrade: nothing to do.
UnpackFails ==
    /\ job = "unpack"
    /\ job' = "none"
    /\ UNCHANGED <<process, unit, enabled, env, disk, configured>>

SeedOnUpgrade ==                \* faulty variant: the test of $2 inverted
    /\ job = "configure"
    /\ env' = IF env = Nothing /\ configured THEN Example ELSE env
    /\ job' = "restart"
    /\ UNCHANGED <<process, unit, enabled, disk, configured>>

\* postinst configure, first part: seed the configuration, once.
Seed ==
    /\ job = "configure"
    /\ env' = IF env = Nothing THEN Example ELSE env
    /\ job' = "restart"
    /\ UNCHANGED <<process, unit, enabled, disk, configured>>

NoRestart ==                    \* faulty variant: the unit is only reloaded
    /\ job = "restart"
    /\ job' = "none" /\ configured' = TRUE
    /\ UNCHANGED <<process, unit, enabled, env, disk>>

RestartAnyway ==                \* faulty variant: restart for try-restart
    /\ job = "restart"
    /\ IF configured
       THEN Stopped /\ unit' = "starting"
       ELSE UNCHANGED <<process, unit>>
    /\ job' = "none" /\ configured' = TRUE
    /\ UNCHANGED <<enabled, env, disk>>

\* postinst configure, last part: if there was a version before ($2 is not
\* empty), try-restart, which does nothing to a unit that is not active.
TryRestart ==
    /\ job = "restart"
    /\ IF configured /\ unit = "active"
       THEN Stopped /\ unit' = "starting"
       ELSE UNCHANGED <<process, unit>>
    /\ job' = "none" /\ configured' = TRUE
    /\ UNCHANGED <<enabled, env, disk>>

\* The files go; postrm remove only reloads systemd.
Delete ==
    /\ job = "delete"
    /\ disk' = Nothing /\ job' = "none"
    /\ UNCHANGED <<process, unit, enabled, env, configured>>

\* postrm purge: the configuration and the enablement go, too.
Purge ==
    /\ job = "none" /\ disk = Nothing /\ configured
    /\ env' = Nothing /\ enabled' = FALSE /\ configured' = FALSE
    /\ UNCHANGED <<process, unit, disk, job>>

-----------------------------------------------------------------------------

Systemd == Exec \/ ProcessGoes \/ ProcessEnds \/ Reboot
Operator == EnableNow \/ DisableNow \/ Restart \/ EditEnv
Dpkg == Prerm \/ Unpack \/ UnpackFails \/ Seed \/ TryRestart \/ Delete \/ Purge

Next == Systemd \/ Operator \/ Dpkg

Spec == Init /\ [][Next]_vars

\* systemd keeps restarting, and a start is not killed at the same point, nor
\* the port taken, every time.  The process goes on; its clients complete their
\* requests and take the answers; the IPC task stops when told (IpcLoop).
Fairness ==
    /\ WF_vars(Exec)
    /\ WF_vars(Refuse /\ ProcessEnds)
    /\ SF_vars(Bind /\ ProcessGoes)
    /\ SF_vars(Spawn /\ ProcessGoes)
    /\ SF_vars(Serve /\ ProcessGoes)
    /\ \A c \in Client : WF_vars(Answer(c) /\ ProcessGoes)
    /\ WF_vars(Drained /\ ProcessGoes)
    /\ WF_vars(TaskStops /\ ProcessGoes)
    /\ WF_vars(Join /\ ProcessEnds)

FairSpec == Spec /\ Fairness

-----------------------------------------------------------------------------
(* Properties. *)

\* Every variable has its type.
TypeOK ==
    /\ phase \in {"down", "boot", "bound", "spawned", "serving", "draining", "joining"}
    /\ version \in Version /\ config \in Config
    /\ told \in BOOLEAN /\ task \in {"absent", "running", "stopped"}
    /\ clients \in [Client -> {"away", "idle", "asking"}]
    /\ unit \in {"inactive", "starting", "active"}
    /\ enabled \in BOOLEAN /\ configured \in BOOLEAN
    /\ env \in Config \cup {Nothing} /\ disk \in Version \cup {Nothing}
    /\ job \in {"none", "unpack", "configure", "restart", "delete"}

\* prerm: no stale process is left around.  When dpkg is done, what runs is what
\* is installed, although the operator or systemd may have started the old
\* binary after prerm stopped it.
NoStaleBinary == job = "none" /\ phase # "down" => version = disk

\* postinst: the operator's disablement is honoured.  Neither an upgrade nor a
\* restart nor a reboot brings up a service that is not enabled.
RunsOnlyIfEnabled == unit # "inactive" => enabled

\* The EnvironmentFile is not in the package, and the unit cannot start without
\* it.  Once dpkg is done with an installed release it is there, although purge
\* takes it away and a reboot may have come between any two steps of dpkg.
InstalledIsConfigured == job = "none" /\ disk # Nothing => env # Nothing

\* A service that is not stopped, is installed and has a configuration it can
\* run with is serving again after whatever ended it, an interrupt included.
Startable ==
    /\ unit # "inactive"
    /\ disk # Nothing /\ env # Nothing
    /\ env.network \in Baked[disk]

ComesBack == Startable ~> (phase = "serving" \/ ~Startable)

(* A claim of the documentation that the scripts do not keep. *)

\* docs/RELEASING.md:181-182: on an upgrade prerm stops the unit and postinst
\* restarts it.
UpgradeKeepsRunning ==
    [][TryRestart /\ configured /\ enabled => unit' # "inactive"]_vars
=============================================================================
