------------------------------ MODULE HostSetup ------------------------------
(***************************************************************************)
(* How the agent sets its host up: the choice between a first run and any  *)
(* other (AgentRunner.cs, Config.cs), the settings on the CD-ROM that the  *)
(* director writes (Infrastructures/VSphere/Settings.cs), Bootstrap.cs,    *)
(* and the requests on persistent disks (Message/MountDisk.cs,             *)
(* MigrateDisk.cs, UnmountDisk.cs, DiskUtil.cs).                           *)
(*                                                                         *)
(* What runs is a list of steps; a step may fail, which ends the process,  *)
(* or the process ends between two, and the service is started again.      *)
(* list_disk only reads.                                                   *)
(***************************************************************************)
EXTENDS Naturals, Sequences, FiniteSets, SequencesExt

CONSTANTS
  Disks,           \* persistent disks, of which the host has some attached
  Items,           \* what services write to the store
  HostFaults       \* bound on steps that fail and processes that end

\* A file that names disks is told from one that is absent or torn.
ASSUME DisksAssumption == {"absent", "torn"} \cap Disks = {}

VARIABLES
  attached,        \* the disks attached to the host and named on the CD-ROM
  settingsFile,    \* settings.json: absent, torn, or the disks it names
  settings,        \* Config.Settings, likewise
  configured,      \* identity, network and the like are set up
  dataMounted,     \* the ephemeral disk is mounted at data
  partitioned, readOnly, mount, holds, \* of each persistent disk
  serving,         \* the agent: "down", "boot" or "up"
  running,         \* what runs: the start of the agent or a request
  hostFaults,
  \* history:
  bootCut,         \* a bootstrap did not go through after it had settings.json
  dataFailed,      \* or logged that the ephemeral disk is not there
  migrateCut       \* the disks a migration that was cut short made read-only

diskVars == <<partitioned, readOnly, mount, holds>>
fileVars == <<settingsFile, settings>>
hostVars == <<configured, dataMounted, bootCut, dataFailed>>
setupVars == <<attached, fileVars, hostVars, diskVars, serving, running, hostFaults, migrateCut>>

\* What settings.json and Config.Settings hold, besides a set of disks.
Absent == {"absent"}
Torn == {"torn"}
StoreDir == "store"
TargetDir == "store_migraton_target"
NoMount == "none"

Idle == running.todo = <<>>
Runs(name, todo, args) == [name |-> name, todo |-> todo, args |-> args]
NotRunning == Runs("none", <<>>, <<>>)

-----------------------------------------------------------------------------
LoadSettings == <<"cdrom", "delete", "copy", "unmountCdrom", "read">>

Configure == LoadSettings \o <<"configure", "setupDiskData", "mountPersistentDisk", "finish">>

\* StartServices is module Monit.
Serve == <<"listen">>

MountDiskSteps == LoadSettings \o <<"partition", "mount">>

MigrateSteps == <<"unmountStore", "mountReadOnly", "copyData", "unmountStore", "unmountTarget", "mountStore">>

UnmountSteps == <<"unmountDisk">>

-----------------------------------------------------------------------------
SetupInit ==
  /\ attached \in {{d} : d \in Disks} \cup {{}}
  /\ settingsFile = Absent /\ settings = Absent
  /\ configured = FALSE /\ dataMounted = FALSE
  /\ partitioned = {} /\ readOnly = {}
  /\ mount = [d \in Disks |-> NoMount]
  /\ holds = [d \in Disks |-> {}]
  /\ serving = "down" /\ running = NotRunning
  /\ hostFaults = 0
  /\ bootCut = FALSE /\ dataFailed = FALSE /\ migrateCut = {}

\* The disks mounted at a place: one or none.
MountedAt(place) == {d \in Disks : mount[d] = place}
IsMountPoint(place) == MountedAt(place) # {}

-----------------------------------------------------------------------------
\* AgentRunner: settings.json tells a first run.
ServiceStarts ==
  /\ serving = "down"
  /\ settingsFile # Torn
  /\ serving' = "boot"
  /\ settings' = settingsFile
  /\ running' = Runs("start", (IF settingsFile = Absent THEN Configure ELSE <<>>) \o Serve, <<>>)
  /\ UNCHANGED <<attached, settingsFile, hostVars, diskVars, hostFaults, migrateCut>>

\* The constructor throws, and so it will at every start.
ServiceDoesNotStart ==
  /\ serving = "down"
  /\ settingsFile = Torn
  /\ UNCHANGED setupVars

\* The long running requests, one at a time.
Request(name, todo, args) ==
  /\ serving = "up" /\ Idle
  /\ running' = Runs(name, todo, args)
  /\ UNCHANGED <<attached, fileVars, hostVars, diskVars, serving, hostFaults, migrateCut>>

MountDisk(d) == Request("mount_disk", MountDiskSteps, <<d>>)
MigrateDisk(old, new) == old # new /\ Request("migrate_disk", MigrateSteps, <<old, new>>)
UnmountDisk(d) == Request("unmount_disk", UnmountSteps, <<d>>)

-----------------------------------------------------------------------------
\* Steps: each a guard, without which it throws, and what it does.

\* LookupDiskByCid: the disk is named in the settings, and it is there.
Known(d) == settings \notin {Absent, Torn} /\ d \in settings /\ d \in attached

\* The scripts for diskpart: REMOVE ALL, then ASSIGN MOUNT, which fails when
\* another disk is there or nothing is formatted.
Assignable(d, place) == d \in partitioned /\ MountedAt(place) \subseteq {d}
AssignMount(d, place) == mount' = [mount EXCEPT ![d] = place]

MountPartition(d, place) == readOnly' = readOnly \ {d} /\ AssignMount(d, place)
\* Variant: without ATTRIBUTE DISK SET READONLY.
MountStillWritable(d, place) == readOnly' = readOnly /\ AssignMount(d, place)
MountReadOnly(d, place) == readOnly' = readOnly \cup {d} /\ AssignMount(d, place)

\* CheckMountPoints: without both mount points nothing is copied.
BothMounted == IsMountPoint(StoreDir) /\ IsMountPoint(TargetDir)

CopyData ==
  holds' = IF BothMounted
          THEN [d \in Disks |-> IF mount[d] = TargetDir THEN UNION {holds[s] : s \in MountedAt(StoreDir)} ELSE holds[d]]
          ELSE holds

\* The one disk there is, if any, when the host is set up.
First == CHOOSE d \in settings : TRUE

MountPlace == IF IsMountPoint(StoreDir) THEN TargetDir ELSE StoreDir

CanDo(step) ==
  LET a == running.args
  IN  CASE step = "read" -> settingsFile \notin {Absent, Torn}
        [] step = "partition" -> Known(a[1])
        [] step = "mount" -> Assignable(a[1], MountPlace)
        [] step = "mountPersistentDisk" ->
             \/ settings = {}
             \/ Cardinality(settings) = 1 /\ Known(First) /\ MountedAt(StoreDir) \subseteq {First}
        [] step = "unmountStore" -> IsMountPoint(StoreDir)
        [] step = "unmountTarget" -> IsMountPoint(TargetDir)
        [] step = "mountReadOnly" -> Known(a[1]) /\ Assignable(a[1], StoreDir)
        [] step = "mountStore" -> Known(a[2]) /\ Assignable(a[2], StoreDir)
        [] step = "unmountDisk" -> Known(a[1])
        [] OTHER -> TRUE

Unmounts(place) ==
  mount' = [d \in Disks |-> IF mount[d] = place THEN NoMount ELSE mount[d]] /\ UNCHANGED <<partitioned, readOnly, holds>>

\* What a step does to settings.json and Config.Settings.
FileStep(step) ==
  /\ settingsFile' = CASE step = "delete" -> Absent [] step = "copy" -> attached [] OTHER -> settingsFile
  /\ settings' = IF step = "read" THEN settingsFile ELSE settings

DiskStep(step) ==
  LET a == running.args
  IN  \/ step = "partition" /\ partitioned' = partitioned \cup {a[1]} /\ UNCHANGED <<readOnly, mount, holds>>
      \/ step = "mount" /\ MountPartition(a[1], MountPlace) /\ UNCHANGED <<partitioned, holds>>
      \/ /\ step = "mountPersistentDisk"
         /\ IF settings = {} THEN UNCHANGED diskVars
            ELSE MountPartition(First, StoreDir) /\ partitioned' = partitioned \cup {First} /\ UNCHANGED holds
      \/ step = "unmountStore" /\ Unmounts(StoreDir)
      \/ step = "unmountTarget" /\ Unmounts(TargetDir)
      \/ step = "mountReadOnly" /\ MountReadOnly(a[1], StoreDir) /\ UNCHANGED <<partitioned, holds>>
      \/ step = "copyData" /\ CopyData /\ UNCHANGED <<partitioned, readOnly, mount>>
      \/ step = "mountStore" /\ MountPartition(a[2], StoreDir) /\ UNCHANGED <<partitioned, holds>>
      \/ /\ step = "unmountDisk"
         /\ IF mount[a[1]] = NoMount THEN UNCHANGED diskVars ELSE Unmounts(mount[a[1]])
      \/ /\ step \in ToSet(LoadSettings) \cup {"configure", "setupDiskData", "finish", "listen"}
         /\ UNCHANGED diskVars

HostStep(step) ==
  /\ configured' = (configured \/ step = "configure")
  /\ IF step = "setupDiskData"
     THEN \/ dataMounted' = TRUE /\ UNCHANGED dataFailed
          \/ hostFaults < HostFaults /\ dataFailed' = TRUE /\ UNCHANGED dataMounted
     ELSE UNCHANGED <<dataMounted, dataFailed>>

Succeed ==
  /\ ~Idle
  /\ LET step == Head(running.todo)
     IN  /\ CanDo(step)
         /\ FileStep(step) /\ DiskStep(step) /\ HostStep(step)
         /\ serving' = IF step = "listen" THEN "up" ELSE serving
  /\ running' = IF Len(running.todo) = 1 THEN NotRunning ELSE [running EXCEPT !.todo = Tail(@)]
  /\ migrateCut' = migrateCut \cap readOnly'
  /\ hostFaults' = IF dataFailed' # dataFailed THEN hostFaults + 1 ELSE hostFaults
  /\ UNCHANGED <<attached, bootCut>>

-----------------------------------------------------------------------------
\* The process ends before a step is done: the exception of a request makes
\* the handler restart the agent, that of the execution thread ends it.

\* A bootstrap that has its settings.json: the next start is no first run.
LeavesSettings == "finish" \in ToSet(running.todo) /\ settingsFile' \notin {Absent, Torn}

Ends ==
  /\ serving' = "down" /\ running' = NotRunning
  /\ bootCut' = (bootCut \/ LeavesSettings)
  /\ migrateCut' = IF running.name = "migrate_disk" THEN migrateCut \cup readOnly' ELSE migrateCut \cap readOnly'

\* What a step that was cut short may leave.
Leaves(step) ==
  \/ UNCHANGED <<settingsFile, diskVars>>
  \/ step = "copy" /\ settingsFile' = Torn /\ UNCHANGED diskVars
  \/ /\ step = "copyData" /\ BothMounted
     /\ \E d \in MountedAt(TargetDir), s \in MountedAt(StoreDir), kept \in SUBSET Items :
          kept \subseteq holds[s] \cup holds[d] /\ holds' = [holds EXCEPT ![d] = kept]
     /\ UNCHANGED <<settingsFile, partitioned, readOnly, mount>>
  \/ /\ step \in {"unmountStore", "unmountTarget", "unmountDisk"}
     /\ DiskStep(step) /\ UNCHANGED settingsFile
  \/ /\ step \in {"mountReadOnly", "mountStore"}
     /\ DiskStep(step) /\ UNCHANGED settingsFile

Fail ==
  /\ ~Idle
  /\ hostFaults < HostFaults /\ hostFaults' = hostFaults + 1
  /\ CanDo(Head(running.todo))
  /\ Leaves(Head(running.todo))
  /\ Ends
  /\ UNCHANGED <<attached, settings, configured, dataMounted, dataFailed>>

FailInevitably ==
  /\ ~Idle
  /\ ~CanDo(Head(running.todo))
  /\ UNCHANGED <<settingsFile, diskVars>>
  /\ Ends
  /\ UNCHANGED <<attached, settings, configured, dataMounted, dataFailed, hostFaults>>

ServiceStops ==
  /\ serving = "up" /\ Idle
  /\ serving' = "down"
  /\ UNCHANGED <<attached, fileVars, hostVars, diskVars, running, hostFaults, migrateCut>>

-----------------------------------------------------------------------------
\* The director attaches a disk, or takes one away that is not in use.
Attach(d) ==
  /\ d \notin attached
  /\ attached' = attached \cup {d}
  /\ UNCHANGED <<fileVars, hostVars, diskVars, serving, running, hostFaults, migrateCut>>

Detach(d) ==
  /\ d \in attached /\ mount[d] = NoMount /\ Idle
  /\ attached' = attached \ {d}
  /\ UNCHANGED <<fileVars, hostVars, diskVars, serving, running, hostFaults, migrateCut>>

\* Services write to the store whenever it can be written to.
ServiceWrites(i) ==
  /\ \E d \in MountedAt(StoreDir) \ readOnly : i \notin holds[d] /\ holds' = [holds EXCEPT ![d] = @ \cup {i}]
  /\ UNCHANGED <<attached, fileVars, hostVars, partitioned, readOnly, mount, serving, running, hostFaults, migrateCut>>

SetupNext ==
  \/ ServiceStarts \/ ServiceDoesNotStart \/ ServiceStops
  \/ \E d \in Disks : MountDisk(d) \/ UnmountDisk(d) \/ Attach(d) \/ Detach(d)
  \/ \E old, new \in Disks : MigrateDisk(old, new)
  \/ Succeed \/ Fail \/ FailInevitably
  \/ \E i \in Items : ServiceWrites(i)

SetupSpec == SetupInit /\ [][SetupNext]_setupVars

-----------------------------------------------------------------------------
\* An agent that serves requests does so on a host that is set up, though
\* settings.json alone tells whether it was, unless a bootstrap did not go
\* through after it had that file, or went on without the data disk, which
\* it only logs (AgentRunner, Bootstrap.Configure, SetupDiskData).
ConfiguredWhenUp == serving = "up" => (configured \/ bootCut) /\ (dataMounted \/ bootCut \/ dataFailed)

\* The store is writable again after every migration that was not cut short
\* (MountStoreReadOnly, MountStore).
WritableAgain == Idle => \A d \in MountedAt(StoreDir) \cap readOnly : d \in migrateCut

\* A migration that is answered has taken everything along: what the old
\* disk has is on the new one, which is the store (MigrateDisk.Migrate). It
\* copies to whatever disk is mounted beside the store, so that no third disk
\* may be attached.
MigratedAll ==
  [][LET old == running.args[1]
         new == running.args[2]
     IN  running.name = "migrate_disk" /\ attached \subseteq {old, new} /\ Idle' /\ serving' = "up"
           => holds'[old] \subseteq holds'[new] /\ mount'[new] = StoreDir]_setupVars

\* All three, of a host whose agent and director do what they may.
HostKept == []ConfiguredWhenUp /\ []WritableAgain /\ MigratedAll

-----------------------------------------------------------------------------
\* What these follow from.

\* The requests in full, and how many steps are left of the one that runs.
StepsOf ==
  [none |-> <<>>, start |-> Configure \o Serve, mount_disk |-> MountDiskSteps,
   migrate_disk |-> MigrateSteps, unmount_disk |-> UnmountSteps]
StepNames ==
  {"cdrom", "delete", "copy", "unmountCdrom", "read", "configure", "setupDiskData", "mountPersistentDisk", "finish",
   "listen", "partition", "mount", "unmountStore", "mountReadOnly", "copyData", "unmountTarget", "mountStore",
   "unmountDisk"}
Left == Len(running.todo)
Requests == {"mount_disk", "migrate_disk", "unmount_disk"}

HostTypeOK ==
  /\ attached \subseteq Disks
  /\ settingsFile \in (SUBSET Disks) \cup {Absent, Torn}
  /\ settings \in (SUBSET Disks) \cup {Absent, Torn}
  /\ configured \in BOOLEAN /\ dataMounted \in BOOLEAN
  /\ partitioned \subseteq Disks /\ readOnly \subseteq Disks
  /\ mount \in [Disks -> {NoMount, StoreDir, TargetDir}]
  /\ holds \in [Disks -> SUBSET Items]
  /\ serving \in {"down", "boot", "up"}
  /\ running.name \in DOMAIN StepsOf
  /\ bootCut \in BOOLEAN /\ dataFailed \in BOOLEAN /\ migrateCut \subseteq Disks

\* What is left is the end of its request, which is about disks.
RunningInv ==
  LET steps == StepsOf[running.name]
      a == running.args
  IN  /\ running = [name |-> running.name, todo |-> running.todo, args |-> a]
      /\ running.todo \in Seq(StepNames) /\ Left <= Len(steps)
      /\ \A i \in 1..Left : running.todo[i] = steps[Len(steps) - Left + i]
      /\ Left = 0 <=> running.name = "none"
      /\ running.name = "start" <=> serving = "boot"
      /\ running.name \in Requests => serving = "up"
      /\ running.name \in {"mount_disk", "unmount_disk"} => a[1] \in Disks
      /\ running.name = "migrate_disk" => a[1] \in Disks /\ a[2] \in Disks /\ a[1] # a[2]

\* The host is set up, or it is known why not.
SetUp == (configured \/ bootCut) /\ (dataMounted \/ bootCut \/ dataFailed)

SetupOrder ==
  /\ serving = "up" => SetUp
  /\ serving = "down" /\ settingsFile \notin {Absent, Torn} => SetUp
  /\ running.name = "start" /\ Left <= 4 => configured \/ bootCut
  /\ running.name = "start" /\ Left <= 3 => SetUp

\* Only a disk that is there is mounted.
MountedIsAttached ==
  /\ \A d \in Disks : mount[d] # NoMount => d \in attached
  /\ running.name = "mount_disk" /\ Left = 1 => running.args[1] \in attached

\* The store is read-only between "mountReadOnly" and the second
\* "unmountStore" of a migration only.
ReadOnlyInv ==
  \A d \in readOnly : mount[d] = StoreDir /\ d \notin migrateCut
    => running.name = "migrate_disk" /\ Left \in {3, 4}

\* How far a migration has got with the old disk and its contents.
MigrationInv ==
  running.name = "migrate_disk" =>
    LET old == running.args[1]
        Copied(d) == d # old /\ d \in attached /\ holds[old] \subseteq holds[d]
    IN  /\ Left \in {3, 4} => MountedAt(StoreDir) = {old} /\ old \in readOnly
        /\ Left \in {2, 3} => \A d \in MountedAt(TargetDir) : Copied(d)
        /\ Left \in {1, 2} => MountedAt(StoreDir) = {}
        /\ Left = 1 => \E d \in Disks : Copied(d)

HostInv == HostTypeOK /\ RunningInv /\ SetupOrder /\ MountedIsAttached /\ ReadOnlyInv /\ MigrationInv
=============================================================================
