------------------------------ MODULE GpuSetup ------------------------------
(***************************************************************************)
(* `lium mine gpu-splitting setup` (src/lium/cli/mine/gpu_splitting.py):   *)
(* the host is taken through ten steps that move Docker's data to an XFS   *)
(* partition with project quota, any of which may fail, and is rolled back *)
(* from the first failure.  The process may be killed between two steps    *)
(* (Ctrl-C counts: KeyboardInterrupt is no Exception, so nothing is rolled *)
(* back), the host may be rebooted, and the operator may run setup again.  *)
(*                                                                         *)
(* Docker's root is /var/lib/docker.  Its data is whatever the topmost     *)
(* mount there shows, or the directory itself ("bare") when nothing is     *)
(* mounted.  A command that fails changes nothing, except that rsync may   *)
(* have copied a part, mkpart may have made the partition before it is     *)
(* looked for, and a write of fstab may have emptied the file.             *)
(***************************************************************************)
EXTENDS Naturals, Sequences, SequencesExt

CONSTANT MaxRuns        \* bound: how often the operator runs setup

ASSUME MaxRunsAssumption == MaxRuns \in Nat \ {0}

Places == {"bare", "orig", "target"}
Contents == {"none", "part", "whole", "mixed"}
Steps == {"stop", "backup", "partition", "format", "probe", "daemon", "fstab",
          "umount", "mount", "quota", "restore", "start", "verify"}
Undoing == {"undo docker", "undo mount", "undo remount", "undo fstab",
            "undo daemon", "undo start"}
Entries == {"before", "target", "none"}     \* what fstab mounts on Docker's root

VARIABLES
  docker,       \* is the Docker daemon up
  root,         \* the mounts stacked on Docker's root, the topmost last
  data,         \* what each place holds of Docker's data
  backup,       \* what this run's backup directory holds
  daemon,       \* /etc/docker/daemon.json
  fstab,        \* /etc/fstab: the entry for Docker's root, and is the rest there
  disk,         \* the extra disk: "blank", partitioned ("nofs"), or "xfs"
  probe,        \* is the target mounted at /mnt/lium-docker-validate
  pc,           \* the step setup is at, or "idle"
  before,       \* _SetupExecutionState's snapshots, and the data Docker had
  flags,        \* _SetupExecutionState's booleans that are True
  errors,       \* rollback_errors is not empty
  failedAt,     \* the step that raised, or "none"
  outcome,      \* how the last run ended
  runs          \* runs of setup so far

host == <<docker, root, data, backup, daemon, fstab, disk, probe>>
vars == <<host, pc, before, flags, errors, failedAt, outcome, runs>>

Top(stack) == IF stack = <<>> THEN "bare" ELSE Last(stack)
Seen == data[Top(root)]

\* What fstab mounts on Docker's root at boot: `home` is the mount the host had
\* before the first setup, if it had one.
home == IF data["orig"] = "none" THEN <<>> ELSE <<"orig">>
Booted(table) == CASE table.entry = "before" -> home
                   [] table.entry = "target" -> <<"target">>
                   [] OTHER -> <<>>

\* The snapshots of a run that starts now.
Snapshot == [root |-> root, daemon |-> daemon, fstab |-> fstab, data |-> Seen]

Init ==
  /\ root \in {<<>>, <<"orig">>}
  /\ data = [p \in Places |-> IF p = Top(root) THEN "whole" ELSE "none"]
  /\ docker = "up"  /\ daemon = "old"  /\ backup = "none"
  /\ fstab = [entry |-> "before", intact |-> TRUE]
  /\ disk \in {"blank", "nofs", "xfs"}
  /\ probe = FALSE /\ pc = "idle" /\ before = Snapshot /\ flags = {}
  /\ errors = FALSE /\ failedAt = "none" /\ outcome = "none" /\ runs = 0

----------------------------------------------------------------------------
(* The plan, made before the first change.                                 *)

\* Mutant: a partition with files on it is not refused.
AllowedNonEmpty == "target" \notin ToSet(root) /\ ~probe

\* classify_target: the disk that backs Docker's root is protected, one that is
\* mounted is refused, and so is an XFS partition that is not empty.
Allowed ==
  /\ "target" \notin ToSet(root) /\ ~probe
  /\ disk = "xfs" => data["target"] = "none"

\* _preflight wants a Docker that answers, load_daemon_json a file that parses.
Plan ==
  /\ pc = "idle" /\ runs < MaxRuns
  /\ docker = "up" /\ daemon # "torn" /\ Allowed
  /\ runs' = runs + 1
  /\ before' = Snapshot
  /\ pc' = "stop" /\ backup' = "none"
  /\ flags' = {} /\ errors' = FALSE /\ failedAt' = "none" /\ outcome' = "none"
  /\ UNCHANGED <<docker, root, data, daemon, fstab, disk, probe>>

----------------------------------------------------------------------------
(* _execute_setup.  A step goes on to the next one, or raises.             *)

Goto(step) ==
  pc' = step /\ UNCHANGED <<before, errors, failedAt, outcome, runs>>

Continue(step) == Goto(step) /\ UNCHANGED flags

\* `except Exception`: the rollback starts.
Raise ==
  /\ pc' = "undo docker" /\ failedAt' = pc
  /\ UNCHANGED <<before, flags, errors, outcome, runs>>

\* What rsync leaves where `held` was, given all of `from`: nothing is deleted.
Synced(held, from) ==
  CASE held \in {"none", from} -> from
    [] from = "none" -> held
    [] OTHER -> "mixed"

\* What a failing rsync leaves: nothing yet, or a part.
CutShort(held, from) == {held, IF held = "none" /\ from # "none" THEN "part"
                                                                 ELSE held}

Stop ==
  /\ pc = "stop"
  /\ \/ docker' = "down" /\ flags' = flags \union {"docker_stopped"} /\ Goto("backup")
     \/ Raise /\ UNCHANGED docker
  /\ UNCHANGED <<root, data, backup, daemon, fstab, disk, probe>>

\* Mutant: the backup's rsync is run with check=False.
BackupUnchecked ==
  /\ pc = "backup"
  /\ backup' \in {Synced(backup, Seen)} \union CutShort(backup, Seen)
  /\ Continue("partition")
  /\ UNCHANGED <<docker, root, data, daemon, fstab, disk, probe>>

Backup ==
  /\ pc = "backup"
  /\ \/ backup' = Synced(backup, Seen) /\ Continue("partition")
     \/ backup' \in CutShort(backup, Seen) /\ Raise
  /\ UNCHANGED <<docker, root, data, daemon, fstab, disk, probe>>

\* mkpart and _detect_new_partition; a disk with a partition is left alone.
Partition ==
  /\ pc = "partition"
  /\ \/ disk' = (IF disk = "blank" THEN "nofs" ELSE disk) /\ Continue("format")
     \/ disk = "blank" /\ disk' \in {"blank", "nofs"} /\ Raise
  /\ UNCHANGED <<docker, root, data, backup, daemon, fstab, probe>>

\* mkfs.xfs unless the partition was an empty XFS one, then xfs_info.
Format ==
  /\ pc = "format"
  /\ \/ /\ disk' = "xfs" /\ Continue("probe")
        /\ data' = (IF disk = "xfs" THEN data ELSE [data EXCEPT !["target"] = "none"])
     \/ disk' \in {disk, "xfs"} /\ Raise /\ UNCHANGED data
  /\ UNCHANGED <<docker, root, backup, daemon, fstab, probe>>

\* _mount_validation: `finally` unmounts, unless the umount itself fails.
Probe ==
  /\ pc = "probe"
  /\ \/ Continue("daemon") /\ UNCHANGED probe
     \/ probe' \in BOOLEAN /\ Raise
  /\ UNCHANGED <<docker, root, data, backup, daemon, fstab, disk>>

\* _write_json_atomic: the file is replaced whole or not at all.
Daemon ==
  /\ pc = "daemon"
  /\ \/ daemon' = "new" /\ flags' = flags \union {"daemon_json_written"} /\ Goto("fstab")
     \/ Raise /\ UNCHANGED daemon
  /\ UNCHANGED <<docker, root, data, backup, fstab, disk, probe>>

\* _get_uuid and _update_fstab, which writes the file in place.
Fstab ==
  /\ pc = "fstab"
  /\ \/ /\ fstab' = [fstab EXCEPT !.entry = "target"]
        /\ flags' = flags \union {"fstab_written"}
        /\ Goto("umount")
     \/ fstab' \in {fstab, [entry |-> "none", intact |-> FALSE]} /\ Raise
  /\ UNCHANGED <<docker, root, data, backup, daemon, disk, probe>>

\* The cutover: what is mounted there goes first, and its failure is ignored.
Umount ==
  /\ pc = "umount"
  /\ \/ root' \in {root} \union {IF root = <<>> THEN root ELSE Front(root)} /\ Continue("mount")
     \/ Raise /\ UNCHANGED root
  /\ UNCHANGED <<docker, data, backup, daemon, fstab, disk, probe>>

\* Mutant: the mount is noted only once it has passed the quota check.
MountUnnoted ==
  /\ pc = "mount"
  /\ \/ root' = Append(root, "target") /\ Continue("quota")
     \/ Raise /\ UNCHANGED root
  /\ UNCHANGED <<docker, data, backup, daemon, fstab, disk, probe>>

Mount ==
  /\ pc = "mount"
  /\ \/ /\ root' = Append(root, "target")
        /\ flags' = flags \union {"docker_root_mounted_on_target"}
        /\ Goto("quota")
     \/ Raise /\ UNCHANGED root
  /\ UNCHANGED <<docker, data, backup, daemon, fstab, disk, probe>>

\* The mount must carry project quota.
Quota ==
  /\ pc = "quota"
  /\ Continue("restore") \/ Raise
  /\ UNCHANGED host

\* Mutant: the restore's rsync is run with check=False.
RestoreUnchecked ==
  /\ pc = "restore" /\ Continue("start")
  /\ \E left \in CutShort(Seen, backup) \union {Synced(Seen, backup)} :
       data' = [data EXCEPT ![Top(root)] = left]
  /\ UNCHANGED <<docker, root, backup, daemon, fstab, disk, probe>>

Restore ==
  /\ pc = "restore"
  /\ \/ data' = [data EXCEPT ![Top(root)] = Synced(@, backup)] /\ Continue("start")
     \/ Raise /\ \E left \in CutShort(Seen, backup) : data' = [data EXCEPT ![Top(root)] = left]
  /\ UNCHANGED <<docker, root, backup, daemon, fstab, disk, probe>>

Start ==
  /\ pc = "start"
  /\ \/ docker' = "up" /\ flags' = flags \union {"docker_started"} /\ Goto("verify")
     \/ Raise /\ UNCHANGED docker
  /\ UNCHANGED <<root, data, backup, daemon, fstab, disk, probe>>

\* The end of a run.
Finish(how) ==
  pc' = "idle" /\ outcome' = how /\ UNCHANGED <<before, flags, failedAt, runs>>

\* build_verification_result: driver, XFS, d_type, mountpoint, quota.
Verify ==
  /\ pc = "verify"
  /\ Raise \/ (Finish("done") /\ UNCHANGED errors)
  /\ UNCHANGED host

----------------------------------------------------------------------------
(* _rollback_setup.  Every step is tried, whatever became of the others.   *)

Undone(step) == pc' = step /\ UNCHANGED <<before, flags, failedAt, outcome, runs>>

\* A step of the rollback that is needed works, or is noted in rollback_errors.
Works == UNCHANGED errors
Fails == errors' = TRUE

UndoDocker ==
  /\ pc = "undo docker" /\ Undone("undo mount")
  /\ IF "docker_started" \in flags
     THEN (docker' = "down" /\ Works) \/ (Fails /\ UNCHANGED docker)
     ELSE Works /\ UNCHANGED docker
  /\ UNCHANGED <<root, data, backup, daemon, fstab, disk, probe>>

\* Docker still up keeps its root busy.
UndoMount ==
  /\ pc = "undo mount" /\ Undone("undo remount")
  /\ IF "docker_root_mounted_on_target" \in flags
     THEN (docker = "down" /\ root' = Front(root) /\ Works) \/ (Fails /\ UNCHANGED root)
     ELSE Works /\ UNCHANGED root
  /\ UNCHANGED <<docker, data, backup, daemon, fstab, disk, probe>>

\* original_docker_mount was on Docker's root itself; mounting it where it is
\* already on top fails.
UndoRemount ==
  /\ pc = "undo remount" /\ Undone("undo fstab")
  /\ IF "docker_root_mounted_on_target" \in flags /\ Top(before.root) = "orig"
     THEN \/ Top(root) # "orig" /\ root' = Append(root, "orig") /\ Works
          \/ Fails /\ UNCHANGED root
     ELSE Works /\ UNCHANGED root
  /\ UNCHANGED <<docker, data, backup, daemon, fstab, disk, probe>>

\* _restore_text_file writes in place.
UndoFstab ==
  /\ pc = "undo fstab" /\ Undone("undo daemon")
  /\ IF "fstab_written" \in flags
     THEN \/ fstab' = before.fstab /\ Works
          \/ fstab' \in {fstab, [entry |-> "none", intact |-> FALSE]} /\ Fails
     ELSE Works /\ UNCHANGED fstab
  /\ UNCHANGED <<docker, root, data, backup, daemon, disk, probe>>

UndoDaemon ==
  /\ pc = "undo daemon" /\ Undone("undo start")
  /\ IF "daemon_json_written" \in flags
     THEN \/ daemon' = before.daemon /\ Works
          \/ daemon' \in {daemon, "torn"} /\ Fails
     ELSE Works /\ UNCHANGED daemon
  /\ UNCHANGED <<docker, root, data, backup, fstab, disk, probe>>

\* Docker does not start on a daemon.json it cannot parse.  Starting what is up
\* already succeeds.
UndoStart ==
  /\ pc = "undo start"
  /\ \/ "docker_stopped" \notin flags /\ Works /\ UNCHANGED docker
     \/ /\ "docker_stopped" \in flags
        /\ docker = "up" \/ daemon # "torn"
        /\ docker' = "up" /\ Works
     \/ "docker_stopped" \in flags /\ docker = "down" /\ Fails /\ UNCHANGED docker
  /\ Finish(IF errors' THEN "dirty" ELSE "clean")
  /\ UNCHANGED <<root, data, backup, daemon, fstab, disk, probe>>

----------------------------------------------------------------------------
(* The world: the process is killed, the operator starts Docker by hand or *)
(* reboots the host, which mounts what fstab says and starts Docker.       *)

Kill ==
  /\ pc # "idle"
  /\ Finish("killed")
  /\ UNCHANGED <<host, errors>>

Revive ==
  /\ pc = "idle" /\ docker = "down" /\ daemon # "torn"
  /\ docker' = "up" /\ outcome' = "none"
  /\ UNCHANGED <<root, data, backup, daemon, fstab, disk, probe>>
  /\ UNCHANGED <<pc, before, flags, errors, failedAt, runs>>

Reboot ==
  /\ pc = "idle" /\ outcome # "none"
  /\ root' = Booted(fstab) /\ probe' = FALSE
  /\ docker' = (IF daemon = "torn" THEN "down" ELSE "up")
  /\ outcome' = "none"
  /\ UNCHANGED <<data, backup, daemon, fstab, disk>>
  /\ UNCHANGED <<pc, before, flags, errors, failedAt, runs>>

Setup == Stop \/ Backup \/ Partition \/ Format \/ Probe \/ Daemon \/ Fstab
         \/ Umount \/ Mount \/ Quota \/ Restore \/ Start \/ Verify
Rollback == UndoDocker \/ UndoMount \/ UndoRemount \/ UndoFstab \/ UndoDaemon
            \/ UndoStart

Next == Plan \/ Setup \/ Rollback \/ Kill \/ Revive \/ Reboot

Spec == Init /\ [][Next]_vars

----------------------------------------------------------------------------
HostType ==
  /\ docker \in {"up", "down"}
  /\ root \in Seq({"orig", "target"})
  /\ data \in [Places -> Contents] /\ backup \in Contents
  /\ daemon \in {"old", "new", "torn"}
  /\ fstab \in [entry : Entries, intact : BOOLEAN]
  /\ disk \in {"blank", "nofs", "xfs"} /\ probe \in BOOLEAN

RunType ==
  /\ pc \in Steps \union Undoing \union {"idle"}
  /\ before.root \in Seq({"orig", "target"}) /\ before.daemon \in {"old", "new", "torn"}
  /\ before.fstab \in [entry : Entries, intact : BOOLEAN] /\ before.data \in Contents
  /\ flags \subseteq {"docker_stopped", "docker_started", "daemon_json_written",
                     "fstab_written", "docker_root_mounted_on_target"}
  /\ errors \in BOOLEAN /\ failedAt \in Steps \union {"none"}
  /\ outcome \in {"none", "done", "clean", "dirty", "killed"}
  /\ runs \in 0..MaxRuns

TypeOK == HostType /\ RunType

\* A failed setup that reports no rollback error leaves Docker running and
\* daemon.json, fstab and the mounts of Docker's root as it found them,
\* whichever step failed.  Two failures are not covered by the code: a write of
\* fstab that fails midway, and a mount that fails after the umount before it.
RollbackRestores ==
  outcome = "clean" =>
    /\ docker = "up" /\ daemon = before.daemon
    /\ failedAt # "fstab" => fstab = before.fstab
    /\ failedAt # "mount" => root = before.root

\* A setup that succeeds has Docker running on the target with exactly the data
\* it had, and a host that comes back the same after a reboot: nothing left on
\* the target by an earlier, failed setup is mixed into it.
SuccessServes ==
  outcome = "done" =>
    /\ docker = "up" /\ Top(root) = "target" /\ Seen = before.data
    /\ daemon = "new" /\ Top(Booted(fstab)) = "target"

\* Docker is never started, by setup or by its rollback, on less data than it
\* was stopped with, unless the rollback reports errors (or the cutover's mount
\* failed, see RollbackRestores).
StartsOnItsData ==
  [][pc # "idle" /\ docker = "down" /\ docker' = "up"
       => Seen' = before.data \/ errors' \/ failedAt = "mount"]_vars

\* However setup ended -- killed at any point, failed, rolled back with errors,
\* the host rebooted since -- a Docker that runs on other data than setup found
\* has all it found in the backup directory.  That is, if the fstab it found was
\* the one the host was running on: setup does not look.
DataOrBackup ==
  /\ pc = "idle" /\ docker = "up"
  /\ before.root = Booted(before.fstab)
  => before.data \in {Seen, backup}

\* "Reversible host changes rolled back and Docker was restarted."
\* (gpu_splitting.py): with no rollback error, Docker's root is mounted as it was.
CleanRollbackRemounts == outcome = "clean" => root = before.root
=============================================================================
