--------------------------- MODULE GpuSetupProofs ---------------------------
(***************************************************************************)
(* Proofs about module GpuSetup, for any number of runs.                   *)
(***************************************************************************)
EXTENDS GpuSetup, TLAPS

-----------------------------------------------------------------------------
(* Stacks of mounts, and what rsync leaves.                                *)

Mounts == {"orig", "target"}

\* Mounting and unmounting keep a stack a stack, and what is on top is a place.
LEMMA Stacks ==
  ASSUME NEW s \in Seq(Mounts)
  PROVE  /\ \A m \in Mounts : Append(s, m) \in Seq(Mounts)
         /\ Front(s) \in Seq(Mounts)
         /\ Top(s) \in Places
<1>1. \A m \in Mounts : Append(s, m) \in Seq(Mounts)
  OBVIOUS
<1>2. Front(s) \in Seq(Mounts)
  <2>1. CASE s = <<>>
    BY <2>1 DEF Front
  <2>2. CASE s # <<>>
    BY <2>2 DEF Front
  <2>3. QED
    BY <2>1, <2>2
<1>3. Top(s) \in Places
  <2>1. s # <<>> => s[Len(s)] \in Mounts
    OBVIOUS
  <2>2. QED
    BY <2>1 DEF Top, Last, Places, Mounts
<1>4. QED
  BY <1>1, <1>2, <1>3

\* What is mounted last is on top, and an umount takes it away.
LEMMA OnTop ==
  ASSUME NEW s \in Seq(Mounts), NEW m \in Mounts
  PROVE  Top(Append(s, m)) = m /\ Front(Append(s, m)) = s
<1>1. Append(s, m) # <<>> /\ Len(Append(s, m)) = Len(s) + 1
  <2>1. Len(Append(s, m)) = Len(s) + 1 /\ Len(s) \in Nat
    OBVIOUS
  <2>2. Len(<<>>) = 0
    OBVIOUS
  <2>3. QED
    BY <2>1, <2>2
<1>2. Last(Append(s, m)) = m
  BY <1>1 DEF Last
<1>3. Front(Append(s, m)) = s
  <2>1. Front(Append(s, m)) = [i \in 1..Len(s) |-> Append(s, m)[i]]
    BY <1>1 DEF Front
  <2>2. QED
    BY <2>1
<1>4. QED
  BY <1>1, <1>2, <1>3 DEF Top

\* What the umount before the cutover may have left of the mounts.
Cut(stack) == {stack, IF stack = <<>> THEN stack ELSE Front(stack)}

\* A stack without the target is empty or has the host's own mount on top, and when that is
\* mounted again after an umount the stack is what it was.
LEMMA OwnMounts ==
  ASSUME NEW s \in Seq({"orig"})
  PROVE  /\ s \in Seq(Mounts) /\ Cut(s) \subseteq Seq(Mounts)
         /\ Top(s) \in {"bare", "orig"}
         /\ \A r \in Cut(s) : IF Top(s) = "orig" THEN r = s \/ Append(r, "orig") = s ELSE r = s
<1>1. s \in Seq(Mounts)
  BY DEF Mounts
<1>2. CASE s = <<>>
  BY <1>1, <1>2 DEF Cut, Top
<1>3. CASE s # <<>>
  <2>1. Len(s) \in Nat \ {0} /\ s[Len(s)] = "orig"
    BY <1>3
  <2>2. Top(s) = "orig"
    BY <1>3, <2>1 DEF Top, Last
  <2>3. Front(s) = [i \in 1..(Len(s) - 1) |-> s[i]]
    BY DEF Front
  <2>4. Front(s) \in Seq(Mounts) /\ Append(Front(s), "orig") = s
    BY <2>1, <2>3, <1>1 DEF Mounts
  <2>5. QED
    BY <1>1, <1>3, <2>2, <2>4 DEF Cut
<1>4. QED
  BY <1>2, <1>3

\* rsync leaves contents.
LEMMA Copies ==
  ASSUME NEW held \in Contents, NEW from \in Contents
  PROVE  Synced(held, from) \in Contents /\ CutShort(held, from) \subseteq Contents
BY DEF Contents, Synced, CutShort

Tables == [entry : Entries, intact : BOOLEAN]

\* An fstab whose write was cut short is one.
LEMMA TornTable == [entry |-> "none", intact |-> FALSE] \in Tables
BY DEF Tables, Entries

-----------------------------------------------------------------------------
(* Types (TypeOK).                                                         *)

\* The host keeps its types.
LEMMA HostTypeStep == TypeOK /\ [Next]_vars => HostType'
<1> SUFFICES ASSUME TypeOK, [Next]_vars PROVE HostType'
  OBVIOUS
<1>0. HostType /\ RunType
  BY DEF TypeOK
<1> USE DEF HostType, host
<1>1. root \in Seq(Mounts) /\ before.root \in Seq(Mounts) /\ Top(root) \in Places /\ Seen \in Contents
  BY <1>0, Stacks DEF Mounts, RunType, Seen
<1>2. CASE UNCHANGED vars
  BY <1>0, <1>2 DEF vars
<1>3. CASE Plan
  BY <1>0, <1>3 DEF Plan, Contents
<1>4. CASE Stop \/ Partition \/ Probe \/ Daemon \/ Quota \/ Start \/ Verify
  BY <1>0, <1>4 DEF Stop, Partition, Probe, Daemon, Quota, Start, Verify
<1>5. CASE Backup
  <2>1. backup' \in Contents
    BY <1>0, <1>1, <1>5, Copies DEF Backup
  <2>2. QED
    BY <1>0, <1>5, <2>1 DEF Backup
<1>6. CASE Format
  BY <1>0, <1>6 DEF Format, Contents
<1>7. CASE Fstab
  <2>1. [fstab EXCEPT !.entry = "target"] \in Tables /\ [entry |-> "none", intact |-> FALSE] \in Tables
    BY <1>0, TornTable DEF Tables, Entries
  <2>2. fstab' \in Tables
    BY <1>0, <1>7, <2>1 DEF Fstab, Tables
  <2>3. QED
    BY <1>0, <1>7, <2>2 DEF Fstab, Tables
<1>8. CASE Umount \/ Mount
  <2>1. root' \in Seq(Mounts)
    BY <1>1, <1>8, Stacks DEF Umount, Mount, Mounts
  <2>2. QED
    BY <1>0, <1>8, <2>1 DEF Umount, Mount, Mounts
<1>9. CASE Restore
  <2>1. data' \in [Places -> Contents]
    BY <1>0, <1>1, <1>9, Copies DEF Restore, Seen
  <2>2. QED
    BY <1>0, <1>9, <2>1 DEF Restore
<1>10. CASE UndoDocker \/ UndoDaemon \/ UndoStart
  BY <1>0, <1>10 DEF UndoDocker, UndoDaemon, UndoStart, RunType
<1>11. CASE UndoMount \/ UndoRemount
  <2>1. root' \in Seq(Mounts)
    BY <1>1, <1>11, Stacks DEF UndoMount, UndoRemount, Mounts
  <2>2. QED
    BY <1>0, <1>11, <2>1 DEF UndoMount, UndoRemount, Mounts
<1>12. CASE UndoFstab
  <2>1. fstab' \in Tables
    BY <1>0, <1>12, TornTable DEF UndoFstab, RunType, Tables
  <2>2. QED
    BY <1>0, <1>12, <2>1 DEF UndoFstab, Tables
<1>13. CASE Kill \/ Revive
  BY <1>0, <1>13 DEF Kill, Revive
<1>14. CASE Reboot
  <2>1. root' \in Seq(Mounts)
    <3>1. <<>> \in Seq(Mounts) /\ <<"orig">> \in Seq(Mounts) /\ <<"target">> \in Seq(Mounts)
      BY DEF Mounts
    <3>2. Booted(fstab) \in Seq(Mounts)
      BY <3>1 DEF Booted, home
    <3>3. QED
      BY <1>14, <3>2 DEF Reboot
  <2>2. QED
    BY <1>0, <1>14, <2>1 DEF Reboot, Mounts
<1>15. QED
  BY <1>2, <1>3, <1>4, <1>5, <1>6, <1>7, <1>8, <1>9, <1>10, <1>11, <1>12, <1>13, <1>14
     DEF Next, Setup, Rollback

\* So does what a run remembers.
LEMMA RunTypeStep == TypeOK /\ [Next]_vars => RunType'
<1> SUFFICES ASSUME TypeOK, [Next]_vars PROVE RunType'
  OBVIOUS
<1>0. HostType /\ RunType
  BY DEF TypeOK
<1> USE DEF RunType, Goto, Continue, Raise, Steps, Undoing
<1>1. CASE UNCHANGED vars
  <2>1. UNCHANGED <<pc, before, flags, errors, failedAt, outcome, runs>>
    BY <1>1 DEF vars
  <2>2. RunType = RunType'
    BY <2>1, Zenon
  <2>3. QED
    BY <1>0, <2>2, Zenon
<1>2. CASE Plan
  <2>1. Seen \in Contents
    BY <1>0, Stacks DEF HostType, Mounts, Seen
  <2>2. runs' \in 0..MaxRuns
    BY <1>0, <1>2, MaxRunsAssumption DEF Plan
  <2>3. QED
    BY <1>0, <1>2, <2>1, <2>2 DEF Plan, Snapshot, HostType
<1>3. CASE Stop \/ Backup \/ Partition \/ Format
  BY <1>0, <1>3 DEF Stop, Backup, Partition, Format
<1>4. CASE Probe \/ Daemon \/ Fstab \/ Umount
  BY <1>0, <1>4 DEF Probe, Daemon, Fstab, Umount
<1>5. CASE Mount \/ Quota \/ Restore \/ Start
  BY <1>0, <1>5 DEF Mount, Quota, Restore, Start
<1>6. CASE Verify
  BY <1>0, <1>6 DEF Verify, Finish
<1>7. CASE UndoDocker \/ UndoMount \/ UndoRemount \/ UndoFstab \/ UndoDaemon
  BY <1>0, <1>7 DEF UndoDocker, UndoMount, UndoRemount, UndoFstab, UndoDaemon, Undone, Works, Fails
<1>8. CASE UndoStart
  BY <1>0, <1>8 DEF UndoStart, Finish, Works, Fails
<1>9. CASE Kill \/ Revive \/ Reboot
  BY <1>0, <1>9 DEF Kill, Finish, Revive, Reboot
<1>10. QED
  BY <1>1, <1>2, <1>3, <1>4, <1>5, <1>6, <1>7, <1>8, <1>9 DEF Next, Setup, Rollback

\* Before the first setup too.
LEMMA TypeInit == Init => TypeOK
<1> SUFFICES ASSUME Init PROVE HostType /\ RunType
  BY DEF TypeOK
<1>1. root \in Seq({"orig", "target"})
  <2>1. <<>> \in Seq({"orig", "target"}) /\ <<"orig">> \in Seq({"orig", "target"})
    OBVIOUS
  <2>2. QED
    BY <2>1 DEF Init
<1>2. data \in [Places -> Contents]
  BY DEF Init, Contents
<1>3. fstab \in [entry : Entries, intact : BOOLEAN]
  BY DEF Init, Entries
<1>4. Seen \in Contents
  BY <1>1, <1>2, Stacks DEF Seen, Mounts
<1>5. HostType
  BY <1>1, <1>2, <1>3 DEF Init, HostType, Contents
<1>6. RunType
  <2>1. before = [root |-> root, daemon |-> "old", fstab |-> fstab, data |-> Seen]
    BY DEF Init, Snapshot
  <2>2. 0 \in 0..MaxRuns
    BY MaxRunsAssumption
  <2>3. flags = {} /\ pc = "idle" /\ failedAt = "none" /\ outcome = "none" /\ runs = 0 /\ daemon = "old"
    BY DEF Init
  <2>4. errors \in BOOLEAN
    BY DEF Init
  <2>5. QED
    BY <1>1, <1>3, <1>4, <2>1, <2>2, <2>3, <2>4 DEF RunType
<1>7. QED
  BY <1>5, <1>6

\* The variables of GpuSetup keep their types (TypeOK).
THEOREM TypeCorrect == Spec => []TypeOK
<1>1. Init => TypeOK
  BY TypeInit
<1>2. TypeOK /\ [Next]_vars => TypeOK'
  BY HostTypeStep, RunTypeStep DEF TypeOK
<1>3. QED
  BY <1>1, <1>2, PTL DEF Spec

-----------------------------------------------------------------------------
(* The invariant of a setup and of its rollback.                           *)

\* The step that is done, or that raised and is undone.
Reached == IF pc \in Undoing THEN failedAt ELSE pc

\* The steps after daemon.json, after fstab, and after the mount of the target.
Written == {"fstab", "umount", "mount", "quota", "restore", "start", "verify"}
Tabled  == Written \ {"fstab"}
Mounted == {"quota", "restore", "start", "verify"}

\* The flags tell how far the setup got.
Flagged ==
  pc # "idle" =>
    /\ Reached \in Steps
    /\ "docker_stopped" \in flags <=> Reached # "stop"
    /\ "daemon_json_written" \in flags <=> Reached \in Written
    /\ "fstab_written" \in flags <=> Reached \in Tabled
    /\ "docker_root_mounted_on_target" \in flags <=> Reached \in Mounted
    /\ "docker_started" \in flags <=> Reached = "verify"

\* The target over what the umount left.
OnTarget == \E s \in Cut(before.root) : root = Append(s, "target")

\* On the way forward the host is as the steps so far have made it.
Forward ==
  pc \in Steps =>
    /\ ~errors
    /\ docker = IF pc \in {"stop", "verify"} THEN "up" ELSE "down"
    /\ daemon = IF pc \in Written THEN "new" ELSE before.daemon
    /\ fstab = IF pc \in Tabled THEN [before.fstab EXCEPT !.entry = "target"] ELSE before.fstab
    /\ CASE pc \in Mounted -> OnTarget
         [] pc = "mount"    -> root \in Cut(before.root)
         [] OTHER           -> root = before.root

\* On the way back, what has not been changed or has been undone is as it was, as long as
\* nothing has gone wrong.
Backward ==
  pc \in Undoing /\ ~errors =>
    /\ failedAt = "stop" => docker = "up"
    /\ pc = "undo start" \/ failedAt \notin Written => daemon = before.daemon
    /\ failedAt # "fstab" /\ (pc \in {"undo daemon", "undo start"} \/ failedAt \notin Tabled) => fstab = before.fstab
    /\ failedAt \in Mounted =>
         CASE pc \in {"undo docker", "undo mount"} -> OnTarget
           [] pc = "undo remount"                 -> root \in Cut(before.root)
           [] OTHER                               -> root = before.root
    /\ failedAt \notin Mounted \cup {"mount"} => root = before.root

\* The target was not under Docker's root when a setup began, and what was is still there.
Kept ==
  /\ before.root \in Seq({"orig"})
  /\ data[Top(before.root)] = before.data

\* The target is empty when it is filled, and then has what the backup has.
Filled ==
  /\ pc \in {"stop", "backup"} => backup = "none"
  /\ pc \in {"stop", "backup", "partition", "format"} => (disk = "xfs" => data["target"] = "none")
  /\ pc \in {"probe", "daemon", "fstab", "umount", "mount", "quota", "restore"} => data["target"] = "none"
  /\ pc \in {"start", "verify"} => data["target"] = before.data

\* From the backup on there is one; until then nothing is touched that says where the data is.
Unmoved == root = before.root /\ fstab = before.fstab

BackedUp ==
  /\ pc \in Steps \cup Undoing =>
       IF Reached \in {"stop", "backup"} THEN Unmoved ELSE backup = before.data
  /\ before.root = Booted(before.fstab) => Unmoved \/ backup = before.data

\* A setup under way has no outcome yet.
Unfinished == pc # "idle" => outcome = "none"

IInv ==
  /\ TypeOK /\ Unfinished /\ Flagged /\ Forward /\ Backward /\ Kept /\ Filled /\ BackedUp
  /\ RollbackRestores /\ SuccessServes

\* A step of a setup notes what it did, and one that raises leaves the flags to the rollback.
LEMMA FlaggedStep == TypeOK /\ Flagged /\ [Next]_vars => Flagged'
<1> SUFFICES ASSUME TypeOK, Flagged, [Next]_vars PROVE Flagged'
  OBVIOUS
<1> USE DEF Flagged, Reached, Steps, Undoing, Written, Tabled, Mounted, Goto, Continue, Raise
<1>1. CASE UNCHANGED vars
  BY <1>1 DEF vars
<1>2. CASE Plan
  BY <1>2 DEF Plan
<1>a. ASSUME pc \in Steps, Raise PROVE Flagged'
  BY <1>a
<1>3. CASE Stop
  <2>1. CASE Raise
    BY <1>3, <1>a, <2>1 DEF Stop
  <2>2. CASE pc = "stop" /\ pc' = "backup" /\ flags' = flags \cup {"docker_stopped"}
    BY <2>2
  <2>3. QED
    BY <1>3, <2>1, <2>2 DEF Stop
<1>4. CASE Backup \/ Partition \/ Format \/ Probe
  <2>1. CASE Raise
    BY <1>4, <1>a, <2>1 DEF Backup, Partition, Format, Probe
  <2>2. CASE pc \in {"backup", "partition", "format", "probe"} /\ pc' \in {"partition", "format", "probe", "daemon"}
             /\ flags' = flags
    BY <2>2
  <2>3. QED
    BY <1>4, <2>1, <2>2 DEF Backup, Partition, Format, Probe
<1>5. CASE Daemon
  <2>1. CASE Raise
    BY <1>5, <1>a, <2>1 DEF Daemon
  <2>2. CASE pc = "daemon" /\ pc' = "fstab" /\ flags' = flags \cup {"daemon_json_written"}
    BY <2>2
  <2>3. QED
    BY <1>5, <2>1, <2>2 DEF Daemon
<1>6. CASE Fstab
  <2>1. CASE Raise
    BY <1>6, <1>a, <2>1 DEF Fstab
  <2>2. CASE pc = "fstab" /\ pc' = "umount" /\ flags' = flags \cup {"fstab_written"}
    BY <2>2
  <2>3. QED
    BY <1>6, <2>1, <2>2 DEF Fstab
<1>7. CASE Umount
  <2>1. CASE Raise
    BY <1>7, <1>a, <2>1 DEF Umount
  <2>2. CASE pc = "umount" /\ pc' = "mount" /\ flags' = flags
    BY <2>2
  <2>3. QED
    BY <1>7, <2>1, <2>2 DEF Umount
<1>8. CASE Mount
  <2>1. CASE Raise
    BY <1>8, <1>a, <2>1 DEF Mount
  <2>2. CASE pc = "mount" /\ pc' = "quota" /\ flags' = flags \cup {"docker_root_mounted_on_target"}
    BY <2>2
  <2>3. QED
    BY <1>8, <2>1, <2>2 DEF Mount
<1>9. CASE Quota \/ Restore \/ Start
  BY <1>9 DEF Quota, Restore, Start
<1>10. CASE Verify \/ Kill \/ UndoStart
  BY <1>10 DEF Verify, Kill, UndoStart, Finish
<1>11. CASE UndoDocker \/ UndoMount \/ UndoRemount \/ UndoFstab \/ UndoDaemon
  BY <1>11 DEF UndoDocker, UndoMount, UndoRemount, UndoFstab, UndoDaemon, Undone
<1>12. CASE Revive \/ Reboot
  BY <1>12 DEF Revive, Reboot
<1>13. QED
  BY <1>1, <1>2, <1>3, <1>4, <1>5, <1>6, <1>7, <1>8, <1>9, <1>10, <1>11, <1>12 DEF Next, Setup, Rollback

\* What a setup found stays what it found until the next one.
LEMMA FoundStays == [Next]_vars => Plan \/ UNCHANGED before
BY DEF Next, Setup, Rollback, vars, host, Stop, Backup, Partition, Format, Probe, Daemon, Fstab, Umount, Mount,
   Quota, Restore, Start, Verify, UndoDocker, UndoMount, UndoRemount, UndoFstab, UndoDaemon, UndoStart,
   Kill, Revive, Reboot, Goto, Continue, Raise, Finish, Undone

\* Under a Docker's root with the target on it, only the target is filled.
LEMMA TargetOnTop == ASSUME Kept, OnTarget PROVE Top(root) = "target"
<1>1. PICK s \in Cut(before.root) : root = Append(s, "target")
  BY DEF OnTarget
<1>2. s \in Seq(Mounts)
  BY <1>1, OwnMounts DEF Kept
<1>3. QED
  BY <1>1, <1>2, OnTop DEF Mounts

\* The data of the host is not written to: only the target is.
LEMMA OnlyTargetWritten ==
  ASSUME TypeOK, Forward, Kept, [Next]_vars
  PROVE  \A p \in Places \ {"target"} : data'[p] = data[p]
<1>1. CASE Format
  BY <1>1 DEF Format, TypeOK, HostType
<1>2. CASE Restore
  <2>1. Top(root) = "target"
    BY <1>2, TargetOnTop DEF Restore, Forward, Steps, Mounted
  <2>2. QED
    BY <1>2, <2>1 DEF Restore, TypeOK, HostType
<1>3. CASE ~Format /\ ~Restore
  BY <1>3 DEF Next, Setup, Rollback, vars, host, Plan, Stop, Backup, Partition, Probe, Daemon, Fstab, Umount, Mount,
     Quota, Start, Verify, UndoDocker, UndoMount, UndoRemount, UndoFstab, UndoDaemon, UndoStart, Kill, Revive, Reboot
<1>4. QED
  BY <1>1, <1>2, <1>3

LEMMA KeptStep == TypeOK /\ Forward /\ Kept /\ [Next]_vars => Kept'
<1> SUFFICES ASSUME TypeOK, Forward, Kept, [Next]_vars PROVE Kept'
  OBVIOUS
<1>1. CASE Plan
  <2>1. before'.root = root /\ before'.data = data[Top(root)] /\ data' = data
    BY <1>1 DEF Plan, Snapshot, Seen
  <2>2. root \in Seq(Mounts) /\ "target" \notin ToSet(root)
    BY <1>1 DEF Plan, Allowed, TypeOK, HostType, Mounts
  <2>3. \A i \in 1..Len(root) : root[i] = "orig"
    BY <2>2 DEF ToSet, Mounts
  <2>4. root \in Seq({"orig"})
    BY <2>2, <2>3
  <2>5. QED
    BY <2>1, <2>4 DEF Kept
<1>2. CASE UNCHANGED before
  <2>1. Top(before.root) \in {"bare", "orig"}
    BY OwnMounts DEF Kept
  <2>2. data'[Top(before.root)] = data[Top(before.root)]
    BY <2>1, OnlyTargetWritten DEF Places
  <2>3. QED
    BY <1>2, <2>2 DEF Kept, Top
<1>3. QED
  BY <1>1, <1>2, FoundStays

\* Each step of a setup leaves the host the way the next one expects it.
LEMMA ForwardStep == TypeOK /\ Forward /\ [Next]_vars => Forward'
<1> SUFFICES ASSUME TypeOK, Forward, [Next]_vars, pc' \in Steps PROVE Forward'
  BY DEF Forward
<1> USE DEF Forward, Steps, Undoing, Written, Tabled, Mounted, Goto, Continue, Raise
<1>1. CASE UNCHANGED vars
  BY <1>1 DEF vars, host, OnTarget
<1>2. CASE Plan
  BY <1>2 DEF Plan, Snapshot
<1>3. CASE Stop
  BY <1>3 DEF Stop
<1>4. CASE Backup \/ Partition \/ Format \/ Probe
  BY <1>4 DEF Backup, Partition, Format, Probe
<1>5. CASE Daemon
  BY <1>5 DEF Daemon
<1>6. CASE Fstab
  BY <1>6 DEF Fstab
<1>7. CASE Umount
  BY <1>7 DEF Umount, Cut
<1>8. CASE Mount
  <2>1. pc = "mount" /\ pc' = "quota" /\ root' = Append(root, "target") /\ UNCHANGED <<before, errors>>
        /\ UNCHANGED <<docker, daemon, fstab>>
    BY <1>8 DEF Mount
  <2>2. OnTarget'
    BY <2>1 DEF OnTarget
  <2>3. QED
    BY <2>1, <2>2
<1>9. CASE Quota \/ Restore
  BY <1>9 DEF Quota, Restore, host, OnTarget
<1>10. CASE Start
  BY <1>10 DEF Start, OnTarget
<1>11. CASE Verify \/ Kill \/ Revive \/ Reboot
  BY <1>11 DEF Verify, Kill, Revive, Reboot, Finish
<1>12. CASE Rollback
  BY <1>12 DEF Rollback, UndoDocker, UndoMount, UndoRemount, UndoFstab, UndoDaemon, UndoStart, Undone, Finish
<1>13. QED
  BY <1>1, <1>2, <1>3, <1>4, <1>5, <1>6, <1>7, <1>8, <1>9, <1>10, <1>11, <1>12 DEF Next, Setup

\* A step that raises leaves the rollback what it needs.
LEMMA RaiseStep == TypeOK /\ Forward /\ Setup /\ Raise => Backward'
<1> SUFFICES ASSUME TypeOK, Forward, Setup, Raise PROVE Backward'
  OBVIOUS
<1> USE DEF Forward, Backward, Steps, Undoing, Written, Tabled, Mounted, Raise, Goto, Continue, Finish
<1>1. CASE Stop
  BY <1>1 DEF Stop
<1>2. CASE Backup \/ Partition \/ Format \/ Probe
  BY <1>2 DEF Backup, Partition, Format, Probe
<1>3. CASE Daemon
  BY <1>3 DEF Daemon
<1>4. CASE Fstab
  BY <1>4 DEF Fstab
<1>5. CASE Umount
  BY <1>5 DEF Umount
<1>6. CASE Mount
  BY <1>6 DEF Mount
<1>7. CASE Quota \/ Restore \/ Start \/ Verify
  BY <1>7 DEF Quota, Restore, Start, Verify, host, OnTarget
<1>8. QED
  BY <1>1, <1>2, <1>3, <1>4, <1>5, <1>6, <1>7 DEF Setup

\* Each step of the rollback undoes what the setup had got to, or reports that it did not.
LEMMA UndoStep == TypeOK /\ Flagged /\ Backward /\ Kept /\ Rollback => Backward'
<1> SUFFICES ASSUME TypeOK, Flagged, Backward, Kept, Rollback, pc' \in Undoing, ~errors' PROVE Backward'
  BY DEF Backward
<1> USE DEF Flagged, Reached, Backward, Steps, Undoing, Written, Tabled, Mounted, Undone, Works, Fails
<1>1. CASE UndoDocker
  BY <1>1 DEF UndoDocker, OnTarget
<1>2. CASE UndoMount
  <2>1. CASE failedAt \in Mounted
    <3>1. PICK s \in Cut(before.root) : root = Append(s, "target")
      BY <1>2, <2>1 DEF UndoMount, OnTarget
    <3>2. s \in Seq(Mounts)
      BY <3>1, OwnMounts DEF Kept
    <3>3. Front(root) = s
      BY <3>1, <3>2, OnTop DEF Mounts
    <3>4. root' \in Cut(before.root)
      BY <1>2, <2>1, <3>1, <3>3 DEF UndoMount
    <3>5. QED
      BY <1>2, <2>1, <3>4 DEF UndoMount
  <2>2. CASE failedAt \notin Mounted
    BY <1>2, <2>2 DEF UndoMount
  <2>3. QED
    BY <2>1, <2>2
<1>3. CASE UndoRemount
  <2>1. CASE failedAt \in Mounted
    <3>1. root \in Cut(before.root)
      BY <1>3, <2>1 DEF UndoRemount
    <3>2. IF Top(before.root) = "orig" THEN root = before.root \/ Append(root, "orig") = before.root
                                     ELSE root = before.root
      BY <3>1, OwnMounts DEF Kept
    <3>3. root' = before.root
      BY <1>3, <2>1, <3>2 DEF UndoRemount
    <3>4. QED
      BY <1>3, <2>1, <3>3 DEF UndoRemount
  <2>2. CASE failedAt \notin Mounted
    BY <1>3, <2>2 DEF UndoRemount
  <2>3. QED
    BY <2>1, <2>2
<1>4. CASE UndoFstab
  BY <1>4 DEF UndoFstab
<1>5. CASE UndoDaemon
  BY <1>5 DEF UndoDaemon
<1>6. CASE UndoStart
  BY <1>6 DEF UndoStart, Finish
<1>7. QED
  BY <1>1, <1>2, <1>3, <1>4, <1>5, <1>6 DEF Rollback

\* Where a step of Next leads: into the rollback only from a step that raises.
LEMMA BackwardStep == TypeOK /\ Flagged /\ Forward /\ Backward /\ Kept /\ [Next]_vars => Backward'
<1> SUFFICES ASSUME TypeOK, Flagged, Forward, Backward, Kept, [Next]_vars, pc' \in Undoing PROVE Backward'
  BY DEF Backward
<1>1. CASE UNCHANGED vars
  BY <1>1 DEF vars, host, Backward, OnTarget
<1>2. CASE Setup
  <2>1. Raise
    BY <1>2 DEF Setup, Undoing, Goto, Continue, Finish, Stop, Backup, Partition, Format, Probe, Daemon, Fstab, Umount,
       Mount, Quota, Restore, Start, Verify
  <2>2. QED
    BY <1>2, <2>1, RaiseStep
<1>3. CASE Rollback
  BY <1>3, UndoStep
<1>4. CASE Plan \/ Kill \/ Revive \/ Reboot
  BY <1>4 DEF Plan, Kill, Finish, Revive, Reboot, Undoing
<1>5. QED
  BY <1>1, <1>2, <1>3, <1>4 DEF Next

\* Only the end of a run gives an outcome, and a new one takes it back.
LEMMA UnfinishedStep == TypeOK /\ Unfinished /\ [Next]_vars => Unfinished'
<1> SUFFICES ASSUME Unfinished, [Next]_vars PROVE Unfinished'
  OBVIOUS
<1> USE DEF Unfinished, Goto, Continue, Raise, Finish, Undone
<1>1. CASE UNCHANGED vars
  BY <1>1 DEF vars
<1>2. CASE Plan \/ Kill \/ Revive \/ Reboot
  BY <1>2 DEF Plan, Kill, Revive, Reboot
<1>3. CASE Setup
  BY <1>3 DEF Setup, Stop, Backup, Partition, Format, Probe, Daemon, Fstab, Umount, Mount, Quota, Restore, Start, Verify
<1>4. CASE Rollback
  BY <1>4 DEF Rollback, UndoDocker, UndoMount, UndoRemount, UndoFstab, UndoDaemon, UndoStart
<1>5. QED
  BY <1>1, <1>2, <1>3, <1>4 DEF Next

\* Where Docker's root is the one the setup found, so is its data.
LEMMA SeenKept == ASSUME Kept, root = before.root PROVE Seen = before.data
BY DEF Kept, Seen

\* The target stays empty up to the restore, which gives it what the backup has.
LEMMA FilledStep == TypeOK /\ Forward /\ Kept /\ Filled /\ BackedUp /\ [Next]_vars => Filled'
<1> SUFFICES ASSUME TypeOK, Forward, Kept, Filled, BackedUp, [Next]_vars, pc' \in Steps PROVE Filled'
  BY DEF Filled, Steps
<1> USE DEF Filled, Steps, Undoing, Goto, Continue, Raise
<1>1. CASE UNCHANGED vars
  BY <1>1 DEF vars, host
<1>2. CASE Plan
  BY <1>2 DEF Plan, Allowed
<1>3. CASE Stop \/ Backup \/ Partition \/ Probe
  BY <1>3 DEF Stop, Backup, Partition, Probe
<1>4. CASE Format
  BY <1>4 DEF Format, TypeOK, HostType, Places
<1>5. CASE Daemon \/ Fstab \/ Umount \/ Mount \/ Quota
  BY <1>5 DEF Daemon, Fstab, Umount, Mount, Quota, host
<1>6. CASE Restore
  <2>1. Top(root) = "target"
    BY <1>6, TargetOnTop DEF Restore, Forward, Mounted
  <2>2. pc = "restore" /\ pc' = "start" /\ UNCHANGED before
    BY <1>6 DEF Restore
  <2>3. data["target"] = "none" /\ backup = before.data
    BY <2>2 DEF BackedUp, Reached
  <2>4. Synced("none", backup) = backup
    BY DEF Synced
  <2>5. data' = [data EXCEPT !["target"] = Synced(@, backup)]
    BY <1>6, <2>1, <2>2 DEF Restore
  <2>6. data'["target"] = backup
    BY <2>3, <2>4, <2>5 DEF TypeOK, HostType, Places
  <2>7. QED
    BY <2>2, <2>3, <2>6
<1>7. CASE Start
  BY <1>7 DEF Start
<1>8. CASE Verify \/ Kill \/ Revive \/ Reboot
  BY <1>8 DEF Verify, Kill, Revive, Reboot, Finish
<1>9. CASE Rollback
  BY <1>9 DEF Rollback, UndoDocker, UndoMount, UndoRemount, UndoFstab, UndoDaemon, UndoStart, Undone, Finish
<1>10. QED
  BY <1>1, <1>2, <1>3, <1>4, <1>5, <1>6, <1>7, <1>8, <1>9 DEF Next, Setup

\* During a run: what it finds is backed up before anything that says where it is changes.
LEMMA BackupComes ==
  ASSUME TypeOK, Flagged, Forward, Kept, Filled, BackedUp, [Next]_vars, pc' \in Steps \cup Undoing
  PROVE  (IF Reached \in {"stop", "backup"} THEN Unmoved ELSE backup = before.data)'
<1> USE DEF BackedUp, Reached, Unmoved, Steps, Undoing, Goto, Continue, Raise
<1>1. CASE UNCHANGED vars
  BY <1>1 DEF vars, host
<1>2. CASE Plan
  BY <1>2 DEF Plan, Snapshot
<1>3. CASE Stop
  BY <1>3 DEF Stop
<1>4. CASE Backup
  <2>1. CASE Raise
    BY <1>4, <2>1 DEF Backup
  <2>2. CASE ~Raise
    <3>1. pc = "backup" /\ pc' = "partition" /\ backup' = Synced(backup, Seen) /\ UNCHANGED before
      BY <1>4, <2>2 DEF Backup
    <3>2. Seen = before.data
      BY <3>1, SeenKept
    <3>3. backup = "none"
      BY <3>1 DEF Filled
    <3>4. backup' = before.data
      BY <3>1, <3>2, <3>3 DEF Synced
    <3>5. QED
      BY <3>1, <3>4
  <2>3. QED
    BY <2>1, <2>2
<1>5. CASE Partition \/ Format \/ Probe \/ Daemon
  BY <1>5 DEF Partition, Format, Probe, Daemon
<1>6. CASE Fstab \/ Umount \/ Mount
  BY <1>6 DEF Fstab, Umount, Mount
<1>7. CASE Quota \/ Restore \/ Start \/ Verify
  BY <1>7 DEF Quota, Restore, Start, Verify, Finish, host
<1>8. CASE Rollback
  <2> USE DEF Flagged, Written, Tabled, Mounted, Undone, Finish
  <2>1. CASE UndoDocker \/ UndoDaemon \/ UndoStart
    BY <1>8, <2>1 DEF UndoDocker, UndoDaemon, UndoStart
  <2>2. CASE UndoMount \/ UndoRemount
    BY <1>8, <2>2 DEF UndoMount, UndoRemount
  <2>3. CASE UndoFstab
    BY <1>8, <2>3 DEF UndoFstab
  <2>4. QED
    BY <1>8, <2>1, <2>2, <2>3 DEF Rollback
<1>9. CASE Kill \/ Revive \/ Reboot
  BY <1>9 DEF Kill, Finish, Revive, Reboot
<1>10. QED
  BY <1>1, <1>2, <1>3, <1>4, <1>5, <1>6, <1>7, <1>8, <1>9 DEF Next, Setup

\* However a run ends, and whatever the operator does then, that stays so.
LEMMA BackedUpStep ==
  TypeOK /\ Flagged /\ Forward /\ Kept /\ Filled /\ BackedUp /\ [Next]_vars => BackedUp'
<1> SUFFICES ASSUME TypeOK, Flagged, Forward, Kept, Filled, BackedUp, [Next]_vars,
                    pc' \notin Steps \cup Undoing, (before.root = Booted(before.fstab))'
             PROVE  (Unmoved \/ backup = before.data)'
  BY BackupComes DEF BackedUp
<1>1. CASE Plan
  BY <1>1 DEF Plan, Steps
<1>2. CASE UNCHANGED before
  <2>1. data'["orig"] = data["orig"]
    BY OnlyTargetWritten DEF Places
  <2>2. before.root = Booted(before.fstab)
    BY <1>2, <2>1 DEF Booted, home
  <2>3. Unmoved \/ backup = before.data
    BY <2>2 DEF BackedUp
  <2>4. CASE Reboot
    <3>1. root' = Booted(fstab) /\ UNCHANGED <<fstab, backup>>
      BY <2>4 DEF Reboot
    <3>2. QED
      BY <1>2, <2>2, <2>3, <3>1 DEF Unmoved
  <2>5. CASE ~Reboot
    <3>1. UNCHANGED <<root, fstab, backup>>
      BY <1>1, <2>5 DEF Next, Setup, Rollback, vars, host, Plan, Stop, Backup, Partition, Format, Probe, Daemon, Fstab,
         Umount, Mount, Quota, Restore, Start, Verify, UndoDocker, UndoMount, UndoRemount, UndoFstab, UndoDaemon,
         UndoStart, Kill, Revive, Finish, Steps, Undoing, Goto, Continue, Raise, Undone
    <3>2. QED
      BY <1>2, <2>3, <3>1 DEF Unmoved
  <2>6. QED
    BY <2>4, <2>5
<1>3. QED
  BY <1>1, <1>2, FoundStays

-----------------------------------------------------------------------------
(* What the ends of a setup promise.                                       *)

\* A rollback without an error has restored what the setup changed.
LEMMA CleanStep ==
  TypeOK /\ Unfinished /\ Flagged /\ Backward /\ RollbackRestores /\ [Next]_vars => RollbackRestores'
<1> SUFFICES ASSUME TypeOK, Unfinished, Flagged, Backward, RollbackRestores, [Next]_vars, outcome' = "clean"
             PROVE  RollbackRestores'
  BY DEF RollbackRestores
<1>1. CASE UNCHANGED vars
  BY <1>1 DEF vars, host, RollbackRestores
<1>2. CASE Plan \/ Kill \/ Revive \/ Reboot
  BY <1>2 DEF Plan, Kill, Revive, Reboot, Finish
<1>3. CASE Setup
  BY <1>3 DEF Setup, Unfinished, Goto, Continue, Raise, Finish, Stop, Backup, Partition, Format, Probe, Daemon, Fstab,
     Umount, Mount, Quota, Restore, Start, Verify
<1>4. CASE UndoDocker \/ UndoMount \/ UndoRemount \/ UndoFstab \/ UndoDaemon
  BY <1>4 DEF Unfinished, Undone, UndoDocker, UndoMount, UndoRemount, UndoFstab, UndoDaemon
<1>5. CASE UndoStart
  <2>1. pc = "undo start" /\ ~errors /\ ~errors' /\ UNCHANGED <<root, daemon, fstab, before, failedAt>>
    BY <1>5 DEF UndoStart, Finish, Works, Fails, TypeOK, RunType
  <2>2. failedAt = "stop" => docker = "up"
    BY <2>1 DEF Backward, Undoing
  <2>3. "docker_stopped" \in flags <=> failedAt # "stop"
    BY <2>1 DEF Flagged, Reached, Undoing
  <2>4. docker' = "up"
    BY <1>5, <2>1, <2>2, <2>3 DEF UndoStart, Fails, Works
  <2>5. daemon = before.daemon /\ (failedAt # "fstab" => fstab = before.fstab)
    BY <2>1 DEF Backward, Undoing
  <2>6. failedAt # "mount" => root = before.root
    BY <2>1 DEF Backward, Undoing
  <2>7. QED
    BY <2>1, <2>4, <2>5, <2>6 DEF RollbackRestores
<1>6. QED
  BY <1>1, <1>2, <1>3, <1>4, <1>5 DEF Next, Rollback

\* A setup that is done serves the data it found.
LEMMA DoneStep ==
  TypeOK /\ Unfinished /\ Forward /\ Kept /\ Filled /\ SuccessServes /\ [Next]_vars => SuccessServes'
<1> SUFFICES ASSUME TypeOK, Unfinished, Forward, Kept, Filled, SuccessServes, [Next]_vars, outcome' = "done"
             PROVE  SuccessServes'
  BY DEF SuccessServes
<1>1. CASE UNCHANGED vars
  BY <1>1 DEF vars, host, SuccessServes, Seen, Booted, home, Top
<1>2. CASE Plan \/ Kill \/ Revive \/ Reboot
  BY <1>2 DEF Plan, Kill, Revive, Reboot, Finish
<1>3. CASE Setup /\ ~Verify
  BY <1>3 DEF Setup, Unfinished, Goto, Continue, Raise, Stop, Backup, Partition, Format, Probe, Daemon, Fstab,
     Umount, Mount, Quota, Restore, Start, Steps
<1>4. CASE Verify
  <2>1. pc = "verify" /\ UNCHANGED <<host, before>>
    BY <1>4 DEF Verify, Raise, Finish, Unfinished
  <2>2. docker = "up" /\ daemon = "new" /\ fstab = [before.fstab EXCEPT !.entry = "target"] /\ OnTarget
    BY <2>1 DEF Forward, Steps, Written, Tabled, Mounted
  <2>3. Top(root) = "target"
    BY <2>2, TargetOnTop
  <2>4. Seen = before.data
    BY <2>1, <2>3 DEF Filled, Seen
  <2>5. fstab.entry = "target"
    BY <2>2 DEF TypeOK, RunType
  <2>6. Top(Booted(fstab)) = "target"
    <3>1. Booted(fstab) = <<"target">>
      BY <2>5 DEF Booted
    <3>2. <<"target">> = Append(<<>>, "target") /\ <<>> \in Seq(Mounts)
      OBVIOUS
    <3>3. QED
      BY <3>1, <3>2, OnTop DEF Mounts
  <2>7. docker = "up" /\ Top(root) = "target" /\ Seen = before.data /\ daemon = "new" /\ Top(Booted(fstab)) = "target"
    BY <2>2, <2>3, <2>4, <2>6
  <2>8. QED
    BY <2>1, <2>7 DEF SuccessServes, host, Seen, Booted, home, Top
<1>5. CASE Rollback
  BY <1>5 DEF Rollback, Unfinished, Undone, Finish, UndoDocker, UndoMount, UndoRemount, UndoFstab, UndoDaemon, UndoStart
<1>6. QED
  BY <1>1, <1>2, <1>3, <1>4, <1>5 DEF Next

\* Before the first setup the invariant holds.
LEMMA InvariantInit == Init => IInv
<1> SUFFICES ASSUME Init, TypeOK PROVE IInv
  BY TypeInit
<1>1. pc = "idle" /\ outcome = "none" /\ before = Snapshot
  BY DEF Init
<1>2. Kept
  <2>1. <<>> \in Seq({"orig"}) /\ <<"orig">> \in Seq({"orig"})
    OBVIOUS
  <2>2. root \in Seq({"orig"})
    BY <2>1 DEF Init
  <2>3. before.root = root /\ before.data = data[Top(root)]
    BY <1>1 DEF Snapshot, Seen
  <2>4. QED
    BY <2>2, <2>3 DEF Kept
<1>3. Unmoved
  BY <1>1 DEF Unmoved, Snapshot
<1>4. QED
  BY <1>1, <1>2, <1>3 DEF IInv, Unfinished, Flagged, Forward, Backward, Filled, BackedUp, RollbackRestores,
     SuccessServes, Steps, Undoing, Unmoved

\* Every step keeps it.
LEMMA InvariantStep == IInv /\ [Next]_vars => IInv'
BY HostTypeStep, RunTypeStep, UnfinishedStep, FlaggedStep, ForwardStep, BackwardStep, KeptStep, FilledStep,
   BackedUpStep, CleanStep, DoneStep DEF IInv, TypeOK

\* The invariant of a setup and its rollback holds, in any number of runs, whatever fails or is killed in them.
THEOREM SetupInvariant == Spec => []IInv
BY InvariantInit, InvariantStep, PTL DEF Spec

\* A failed setup whose rollback reports no error leaves Docker running and the host as it
\* found it (RollbackRestores), whichever step failed and whatever earlier setups left.
THEOREM RollbackIsClean == Spec => []RollbackRestores
<1>1. IInv => RollbackRestores
  BY DEF IInv
<1>2. QED
  BY <1>1, SetupInvariant, PTL

\* A setup that succeeds serves from the target exactly the data it found, now and after a
\* reboot (SuccessServes).
THEOREM SuccessIsServed == Spec => []SuccessServes
<1>1. IInv => SuccessServes
  BY DEF IInv
<1>2. QED
  BY <1>1, SetupInvariant, PTL

\* However setups end, a running Docker has the data the last one found, or the backup
\* has (DataOrBackup).
THEOREM DataIsSomewhere == Spec => []DataOrBackup
<1>1. IInv => DataOrBackup
  <2> SUFFICES ASSUME IInv, before.root = Booted(before.fstab) PROVE before.data \in {Seen, backup}
    BY DEF DataOrBackup
  <2>1. root = before.root \/ backup = before.data
    BY DEF IInv, BackedUp, Unmoved
  <2>2. QED
    BY <2>1, SeenKept DEF IInv
<1>2. QED
  BY <1>1, SetupInvariant, PTL

\* Neither setup nor its rollback starts Docker on less data than it was stopped with, without
\* an error reported (StartsOnItsData).
THEOREM DockerStartsOnItsData == Spec => StartsOnItsData
<1> DEFINE Safe == pc # "idle" /\ docker = "down" /\ docker' = "up" => Seen' = before.data \/ errors' \/ failedAt = "mount"
<1>1. IInv /\ [Next]_vars => [Safe]_vars
  <2> SUFFICES ASSUME IInv, Next, pc # "idle", docker = "down", docker' = "up", ~errors', failedAt # "mount"
               PROVE  Seen' = before.data
    OBVIOUS
  <2>1. CASE Start
    <3>1. Top(root) = "target"
      BY <2>1, TargetOnTop DEF Start, IInv, Forward, Steps, Mounted
    <3>2. Goto("verify") /\ UNCHANGED <<root, data>>
      BY <2>1 DEF Start
    <3>3. pc' = "verify" /\ UNCHANGED before /\ IInv'
      BY <3>2, InvariantStep DEF Goto
    <3>4. QED
      BY <3>1, <3>2, <3>3 DEF IInv, Filled, Seen, Top
  <2>2. CASE UndoStart
    <3>1. pc = "undo start" /\ ~errors /\ UNCHANGED <<root, data>>
      BY <2>2 DEF UndoStart, Works, Fails, Finish, IInv, TypeOK, RunType
    <3>2. root = before.root
      BY <3>1 DEF IInv, Backward, Undoing
    <3>3. Seen = before.data
      BY <3>2, SeenKept DEF IInv
    <3>4. QED
      BY <3>1, <3>3 DEF Seen, Top
  <2>3. CASE ~Start /\ ~UndoStart
    BY <2>3 DEF Next, Setup, Rollback, host, Plan, Stop, Backup, Partition, Format, Probe, Daemon, Fstab, Umount, Mount,
       Quota, Restore, Verify, UndoDocker, UndoMount, UndoRemount, UndoFstab, UndoDaemon, Kill, Revive, Reboot
  <2>4. QED
    BY <2>1, <2>2, <2>3
<1>2. QED
  BY <1>1, SetupInvariant, PTL DEF Spec, StartsOnItsData

=============================================================================
