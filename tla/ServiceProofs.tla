--------------------------- MODULE ServiceProofs ---------------------------
(***************************************************************************)
(* What Service promises, for any clients, releases, networks and          *)
(* configurations: TypeOK, NoStaleBinary, RunsOnlyIfEnabled and            *)
(* InstalledIsConfigured.                                                  *)
(***************************************************************************)
EXTENDS Service, TLAPS

-----------------------------------------------------------------------------
(* The inductive invariant.                                                *)

\* A process exists only while systemd holds the unit active.
ProcessIsActive == phase # "down" => unit = "active"

\* Nothing runs, nor is about to, when the files are away or about to go.
NothingWithoutFiles == disk = Nothing \/ job = "delete" => unit = "inactive"

\* dpkg replaces files only where it has put some, and between its runs what is
\* installed has been configured.
JobFits ==
    /\ job = "unpack" => disk # Nothing
    /\ disk # Nothing /\ job \in {"none", "unpack", "delete"} => configured

\* The process is of the installed release, except between the replacement of
\* the files and the restart at the end of an upgrade.
VersionFits ==
    phase # "down" /\ (job \in {"none", "unpack"} \/ ~configured) => version = disk

\* Only before postinst has seeded it can a release be without configuration.
SeededFits == disk # Nothing /\ job # "configure" => env # Nothing

IInv ==
    /\ TypeOK
    /\ ProcessIsActive /\ NothingWithoutFiles /\ RunsOnlyIfEnabled
    /\ JobFits /\ VersionFits /\ SeededFits

LEMMA InitIInv == Init => IInv
  BY ConfigAssumption
  DEF Init, IInv, TypeOK, ProcessIsActive, NothingWithoutFiles, RunsOnlyIfEnabled,
      JobFits, VersionFits, SeededFits, NobodyConnected

-----------------------------------------------------------------------------
(* The process, whatever its surroundings do.                              *)

ProcessTypeOK ==
    /\ phase \in {"down", "boot", "bound", "spawned", "serving", "draining", "joining"}
    /\ version \in Version /\ config \in Config
    /\ told \in BOOLEAN /\ task \in {"absent", "running", "stopped"}
    /\ clients \in [Client -> {"away", "idle", "asking"}]

\* A process that ends leaves no phase, no client and no task behind.
LEMMA GoneClean ==
  ASSUME ProcessTypeOK, Gone
  PROVE  ProcessTypeOK' /\ phase' = "down" /\ version' = version
  BY DEF ProcessTypeOK, Gone, NobodyConnected

LEMMA StoppedClean ==
  ASSUME ProcessTypeOK, Stopped
  PROVE  ProcessTypeOK' /\ phase' = "down" /\ version' = version
  <1>1. CASE phase = "down"
    BY <1>1 DEF ProcessTypeOK, Stopped, process
  <1>2. CASE phase # "down"
    BY <1>2, GoneClean DEF Stopped, Die
  <1> QED BY <1>1, <1>2

LEMMA EndsClean ==
  ASSUME ProcessTypeOK, Ends
  PROVE  ProcessTypeOK' /\ phase # "down" /\ phase' = "down" /\ version' = version
  BY GoneClean DEF Ends, Refuse, BindFails, InterruptEarly, Join, Die

\* While a process goes on it stays one, of the same release.
LEMMA GoesOn ==
  ASSUME ProcessTypeOK, Goes
  PROVE  /\ ProcessTypeOK'
         /\ version' = version
         /\ phase = "down" => phase' = "down"
  <1>1. CASE Bind \/ Spawn \/ Serve
    BY <1>1 DEF ProcessTypeOK, Bind, Spawn, Serve
  <1>2. CASE Interrupt
    BY <1>2 DEF ProcessTypeOK, Interrupt
  <1>3. CASE Drained
    BY <1>3 DEF ProcessTypeOK, Drained, NobodyConnected
  <1>4. CASE TaskStops
    BY <1>4 DEF ProcessTypeOK, TaskStops, IpcTask!Stop, NobodyConnected
  <1>5. ASSUME NEW c \in Client, Connect(c) \/ Ask(c)
        PROVE  ProcessTypeOK' /\ version' = version /\ phase' = phase
    BY <1>5 DEF ProcessTypeOK, Connect, Ask
  <1>6. ASSUME NEW c \in Client, Leave(c)
        PROVE  ProcessTypeOK' /\ version' = version /\ phase' = phase
    BY <1>6 DEF ProcessTypeOK, Leave, NobodyConnected
  <1>7. ASSUME NEW c \in Client, Answer(c)
        PROVE  ProcessTypeOK' /\ version' = version /\ phase' = phase
    BY <1>7 DEF ProcessTypeOK, Answer
  <1> QED BY <1>1, <1>2, <1>3, <1>4, <1>5, <1>6, <1>7
          DEF Goes, Bind, Spawn, Serve, Interrupt, Drained, TaskStops

-----------------------------------------------------------------------------
(* The invariant is inductive.                                             *)

HostTypeOK ==
    /\ unit \in {"inactive", "starting", "active"}
    /\ enabled \in BOOLEAN /\ configured \in BOOLEAN
    /\ env \in Config \cup {Nothing} /\ disk \in Version \cup {Nothing}
    /\ job \in {"none", "unpack", "configure", "restart", "delete"}

LEMMA TypeSplits == TypeOK <=> ProcessTypeOK /\ HostTypeOK
  BY DEF TypeOK, ProcessTypeOK, HostTypeOK

LEMMA NextIInv == IInv /\ [Next]_vars => IInv'
  <1> SUFFICES ASSUME IInv, [Next]_vars
               PROVE  IInv'
    OBVIOUS
  <1> USE DEF HostTypeOK, ProcessIsActive, NothingWithoutFiles, RunsOnlyIfEnabled,
              JobFits, VersionFits, SeededFits
  <1>t. ProcessTypeOK /\ HostTypeOK
    BY TypeSplits DEF IInv
  <1>i. /\ ProcessIsActive /\ NothingWithoutFiles /\ RunsOnlyIfEnabled
        /\ JobFits /\ VersionFits /\ SeededFits
    BY DEF IInv
  <1>q. ASSUME ProcessTypeOK', HostTypeOK', ProcessIsActive', NothingWithoutFiles',
               RunsOnlyIfEnabled', JobFits', VersionFits', SeededFits'
        PROVE  IInv'
    BY ONLY <1>q DEF IInv, TypeOK, ProcessTypeOK, HostTypeOK
  <1>1. CASE Exec
    <2>1. /\ phase = "down" /\ phase' = "boot" /\ version' = disk
          /\ unit = "starting" /\ unit' = "active"
          /\ disk # Nothing /\ UNCHANGED host
      BY <1>1 DEF Exec, Started
    <2>2. ProcessTypeOK'
      BY <1>1, <1>t DEF Exec, Started, ProcessTypeOK
    <2> QED BY <2>1, <2>2, <1>t, <1>i, <1>q DEF host
  <1>2. CASE ProcessGoes
    <2>1. UNCHANGED <<unit, host>>
      BY <1>2 DEF ProcessGoes
    <2>2. /\ ProcessTypeOK'
          /\ version' = version /\ (phase = "down" => phase' = "down")
      BY <1>2, <1>t, GoesOn DEF ProcessGoes
    <2> QED BY <2>1, <2>2, <1>t, <1>i, <1>q DEF host
  <1>3. CASE ProcessEnds
    <2>1. unit' = "starting" /\ UNCHANGED host
      BY <1>3 DEF ProcessEnds
    <2>2. ProcessTypeOK' /\ phase # "down" /\ phase' = "down" /\ version' = version
      BY <1>3, <1>t, EndsClean DEF ProcessEnds
    <2> QED BY <2>1, <2>2, <1>t, <1>i, <1>q DEF host
  <1>4. CASE Stopped /\ (Reboot \/ DisableNow \/ Restart \/ Prerm)
    <2>1. ProcessTypeOK' /\ phase' = "down" /\ version' = version
      BY <1>4, <1>t, StoppedClean
    <2>2. SeededFits'
      BY <1>4, <1>i DEF Reboot, DisableNow, Restart, Prerm, host
    <2>3. HostTypeOK' /\ RunsOnlyIfEnabled'
      BY <1>4, <1>t, <1>i DEF Reboot, DisableNow, Restart, Prerm, host
    <2>4. NothingWithoutFiles' /\ JobFits'
      BY <1>4, <1>t, <1>i DEF Reboot, DisableNow, Restart, Prerm, host
    <2>5. ProcessIsActive' /\ VersionFits'
      BY <2>1
    <2> QED BY <2>1, <2>2, <2>3, <2>4, <2>5, <1>q
  <1>5. CASE EnableNow \/ EditEnv \/ Unpack \/ UnpackFails \/ Seed \/ Delete \/ Purge
    <2>1. UNCHANGED process
      BY <1>5 DEF EnableNow, EditEnv, Unpack, UnpackFails, Seed, Delete, Purge
    <2>2. ProcessTypeOK'
      BY <2>1, <1>t DEF process, ProcessTypeOK
    <2>3. HostTypeOK' /\ RunsOnlyIfEnabled'
      BY <1>5, <1>t, <1>i, ConfigAssumption
      DEF EnableNow, EditEnv, Unpack, UnpackFails, Seed, Delete, Purge
    <2>4. NothingWithoutFiles' /\ JobFits' /\ SeededFits'
      BY <1>5, <1>t, <1>i, ConfigAssumption
      DEF EnableNow, EditEnv, Unpack, UnpackFails, Seed, Delete, Purge
    <2>5. ProcessIsActive' /\ VersionFits'
      BY <1>5, <2>1, <1>t, <1>i
      DEF process, EnableNow, EditEnv, Unpack, UnpackFails, Seed, Delete, Purge
    <2> QED BY <2>2, <2>3, <2>4, <2>5, <1>q
  <1>6. CASE TryRestart
    <2>1. job = "restart" /\ job' = "none" /\ configured' = TRUE
          /\ UNCHANGED <<enabled, env, disk>>
      BY <1>6 DEF TryRestart
    <2>2. CASE configured /\ unit = "active"
      <3>1. Stopped /\ unit' = "starting"
        BY <1>6, <2>2 DEF TryRestart
      <3>2. ProcessTypeOK' /\ phase' = "down"
        BY <3>1, <1>t, StoppedClean
      <3> QED BY <2>1, <2>2, <3>1, <3>2, <1>t, <1>i, <1>q
    <2>3. CASE ~(configured /\ unit = "active")
      <3>1. UNCHANGED process /\ UNCHANGED unit
        BY <1>6, <2>3 DEF TryRestart
      <3>2. ProcessTypeOK'
        BY <3>1, <1>t DEF process, ProcessTypeOK
      <3> QED BY <2>1, <2>3, <3>1, <3>2, <1>t, <1>i, <1>q DEF process
    <2> QED BY <2>2, <2>3
  <1>7. CASE UNCHANGED vars
    BY <1>7, <1>t, <1>i, <1>q DEF vars, host, process, ProcessTypeOK
  <1> QED
    BY <1>1, <1>2, <1>3, <1>4, <1>5, <1>6, <1>7
    DEF Next, Systemd, Operator, Dpkg, Reboot, DisableNow, Restart, Prerm

\* The invariant holds in every reachable state of a host.
THEOREM Invariance == Spec => []IInv
  BY InitIInv, NextIInv, PTL DEF Spec

-----------------------------------------------------------------------------
(* What follows from it.                                                   *)

\* Every variable keeps its type, the configuration of a running process
\* included: nothing is started without its EnvironmentFile.
THEOREM TypeCorrect == Spec => []TypeOK
  <1>1. IInv => TypeOK
    BY DEF IInv
  <1> QED BY <1>1, Invariance, PTL

\* When dpkg is done, the process that runs is of the installed release.
THEOREM BinaryFresh == Spec => []NoStaleBinary
  <1>1. IInv => NoStaleBinary
    BY DEF IInv, VersionFits, NoStaleBinary
  <1> QED BY <1>1, Invariance, PTL

\* Nothing brings up a service that is not enabled.
THEOREM OnlyIfEnabled == Spec => []RunsOnlyIfEnabled
  <1>1. IInv => RunsOnlyIfEnabled
    BY DEF IInv
  <1> QED BY <1>1, Invariance, PTL

\* An installed release that dpkg is done with has its EnvironmentFile.
THEOREM ConfigurationThere == Spec => []InstalledIsConfigured
  <1>1. IInv => InstalledIsConfigured
    BY DEF IInv, SeededFits, InstalledIsConfigured
  <1> QED BY <1>1, Invariance, PTL
=============================================================================
