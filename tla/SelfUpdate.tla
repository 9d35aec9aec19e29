----------------------------- MODULE SelfUpdate -----------------------------
(***************************************************************************)
(* The update a managed binary makes when it starts (lium/cli/             *)
(* self_update.py): ~/.lium/bin/lium is a link to one of the versions      *)
(* under ~/.lium/versions; a start downloads the latest release beside the *)
(* others, switches the link and removes what is older.                    *)
(*                                                                         *)
(* Nothing but the file system is shared by the processes, and a process   *)
(* may be killed between any two of its steps.  Time goes by in ticks.     *)
(***************************************************************************)
EXTENDS Naturals

CONSTANTS
  Procs,        \* the processes that start side by side
  Versions,     \* the releases, in their order
  Free,         \* nobody's lock
  StaleAfter,   \* STALE_LOCK_SECONDS
  Interval      \* the check interval

ASSUME UpdateAssumption ==
  /\ Versions \subseteq Nat /\ Versions # {}
  /\ Free \notin Procs
  /\ StaleAfter \in Nat /\ Interval \in Nat

VARIABLES
  \* the file system
  link,     \* the version bin/lium points to
  bundle,   \* bundle[v]: versions/v/lium, which may be there in part
  stage,    \* stage[v]: versions/v/.lium.tmp
  lock,     \* who made the lock file
  age,      \* how long ago (to StaleAfter + 1)
  wait,     \* ticks until the last check recorded is an interval old
  \* the releases
  newest,   \* what /releases/latest names
  \* the processes
  phase,
  cur,      \* layout.current_version
  target    \* the version being installed

files == <<link, bundle, stage>>
locking == <<lock, age>>
vars == <<files, locking, wait, newest, phase, cur, target>>

\* In the body of `with UpdateLock`, after a successful acquire.
Updating == {"resolve", "download", "stage", "extract", "clear", "replace", "link", "clean", "fault", "record"}
Idle == {"off", "dead"}

Init ==
  /\ link \in Versions
  /\ bundle = [v \in Versions |-> IF v = link THEN "whole" ELSE "none"]
  /\ stage = [v \in Versions |-> "none"]
  /\ lock = Free /\ age = 0 /\ wait = 0
  /\ newest = link
  /\ phase = [p \in Procs |-> "off"]
  /\ cur = [p \in Procs |-> link]
  /\ target = [p \in Procs |-> link]

-----------------------------------------------------------------------------
(* Time and releases.                                                      *)

\* A check that is an interval old stays due.
Less(n) == IF n = 0 THEN 0 ELSE n - 1

Tick ==
  /\ age' = IF lock # Free /\ age <= StaleAfter THEN age + 1 ELSE age
  /\ wait' = Less(wait)
  /\ UNCHANGED <<files, lock, newest, phase, cur, target>>

\* A release is published, or withdrawn so that an older one is the latest.
Publish(v) ==
  /\ v # newest /\ newest' = v
  /\ UNCHANGED <<files, locking, wait, phase, cur, target>>

-----------------------------------------------------------------------------
(* The steps of a process.                                                 *)

Goto(p, next) == phase' = [phase EXCEPT ![p] = next]

\* A terminal starts `lium`; discover_managed_install reads where the link goes.
\* A link to nothing starts nothing.
Launch(p) ==
  /\ phase[p] \in Idle /\ bundle[link] = "whole"
  /\ cur' = [cur EXCEPT ![p] = link]
  /\ Goto(p, "check")
  /\ UNCHANGED <<files, locking, wait, newest, target>>

\* _should_check_for_updates.
Check(p) ==
  /\ phase[p] = "check"
  /\ Goto(p, IF wait = 0 THEN "lock" ELSE "off")
  /\ UNCHANGED <<files, locking, wait, newest, cur, target>>

\* UpdateLock.acquire: a lock older than an hour is somebody's who died.
Look(p) ==
  /\ phase[p] = "lock"
  /\ Goto(p, IF lock # Free /\ age > StaleAfter THEN "break" ELSE "take")
  /\ UNCHANGED <<files, locking, wait, newest, cur, target>>

\* It is unlinked; when somebody was faster that fails, and so does acquire.
Break(p) ==
  /\ phase[p] = "break"
  /\ lock' = Free /\ age' = 0
  /\ Goto(p, IF lock = Free THEN "unlock" ELSE "take")
  /\ UNCHANGED <<files, wait, newest, cur, target>>

\* O_CREAT | O_EXCL.
Take(p) ==
  /\ phase[p] = "take"
  /\ IF lock = Free
       THEN lock' = p /\ age' = 0 /\ Goto(p, "resolve")
       ELSE UNCHANGED locking /\ Goto(p, "unlock")
  /\ UNCHANGED <<files, wait, newest, cur, target>>

\* Fault: any other version than the installed one is installed.
ResolveOther(p) ==
  /\ phase[p] = "resolve"
  /\ target' = [target EXCEPT ![p] = newest]
  /\ Goto(p, IF newest = cur[p] THEN "record" ELSE "download")
  /\ UNCHANGED <<files, locking, wait, newest, cur>>

\* The latest release; nothing is installed unless it is a later one.
Resolve(p) ==
  /\ phase[p] = "resolve"
  /\ target' = [target EXCEPT ![p] = newest]
  /\ Goto(p, IF newest <= cur[p] THEN "record" ELSE "download")
  /\ UNCHANGED <<files, locking, wait, newest, cur>>

\* Fault: the link is switched before the bundle is in place.
DownloadAndRelink(p) ==
  /\ phase[p] = "download" /\ Goto(p, "stage")
  /\ link' = target[p]
  /\ UNCHANGED <<bundle, stage, locking, wait, newest, cur, target>>

\* The asset, with the checksum it must have.
Download(p) ==
  /\ phase[p] = "download" /\ Goto(p, "stage")
  /\ UNCHANGED <<files, locking, wait, newest, cur, target>>

\* Fault: what a killed update left in the staging directory is in the way.
StageInTheWay(p) ==
  /\ phase[p] = "stage"
  /\ IF stage[target[p]] = "none"
       THEN stage' = [stage EXCEPT ![target[p]] = "part"] /\ Goto(p, "extract")
       ELSE UNCHANGED stage /\ Goto(p, "record")
  /\ UNCHANGED <<link, bundle, locking, wait, newest, cur, target>>

\* install_versioned_binary: an empty staging directory, whatever was there.
Stage(p) ==
  /\ phase[p] = "stage"
  /\ stage' = [stage EXCEPT ![target[p]] = "part"]
  /\ Goto(p, "extract")
  /\ UNCHANGED <<link, bundle, locking, wait, newest, cur, target>>

\* The tarball is unpacked, unless the directory has been taken away.
Extract(p) ==
  /\ phase[p] = "extract"
  /\ IF stage[target[p]] = "none"
       THEN UNCHANGED stage /\ Goto(p, "record")
       ELSE stage' = [stage EXCEPT ![target[p]] = "whole"] /\ Goto(p, "clear")
  /\ UNCHANGED <<link, bundle, locking, wait, newest, cur, target>>

\* rmtree takes a directory away file by file.
Removed(there) == IF there = "whole" THEN "part" ELSE "none"

\* An earlier bundle of this version goes first.
Clear(p) ==
  /\ phase[p] = "clear"
  /\ IF bundle[target[p]] = "none"
       THEN UNCHANGED bundle /\ Goto(p, "replace")
       ELSE bundle' = [bundle EXCEPT ![target[p]] = Removed(@)] /\ UNCHANGED phase
  /\ UNCHANGED <<link, stage, locking, wait, newest, cur, target>>

\* os.replace, and the staging directory goes.
Replace(p) ==
  /\ phase[p] = "replace"
  /\ stage' = [stage EXCEPT ![target[p]] = "none"]
  /\ IF stage[target[p]] = "none" \/ bundle[target[p]] # "none"
       THEN UNCHANGED bundle /\ Goto(p, "record")
       ELSE bundle' = [bundle EXCEPT ![target[p]] = stage[target[p]]] /\ Goto(p, "link")
  /\ UNCHANGED <<link, locking, wait, newest, cur, target>>

\* switch_cli_symlink: one rename.
Relink(p) ==
  /\ phase[p] = "link" /\ link' = target[p]
  /\ Goto(p, "clean")
  /\ UNCHANGED <<bundle, stage, locking, wait, newest, cur, target>>

\* Fault: only the new version is kept.
KeptNew(p) == {target[p]}

\* The new version, and the one this process runs.
Kept(p) == {target[p], cur[p]}

\* cleanup_old_versions: a directory that cannot be removed is passed over.
Clean(p) ==
  /\ phase[p] = "clean"
  /\ \/ \E v \in Versions \ Kept(p) :
          /\ bundle[v] # "none" \/ stage[v] # "none"
          /\ bundle' = [bundle EXCEPT ![v] = Removed(@)]
          /\ stage' = [stage EXCEPT ![v] = Removed(@)]
          /\ UNCHANGED phase
     \/ UNCHANGED <<bundle, stage>> /\ Goto(p, "record")
  /\ UNCHANGED <<link, locking, wait, newest, cur, target>>

\* The state file, after a success and after an error alike.
Record(p) ==
  /\ phase[p] \in {"record", "fault"} /\ wait' = Interval
  /\ Goto(p, "unlock")
  /\ UNCHANGED <<files, locking, newest, cur, target>>

\* UpdateLock.release, which __exit__ calls whether or not acquire succeeded.
Unlock(p) ==
  /\ phase[p] = "unlock"
  /\ lock' = Free /\ age' = 0
  /\ Goto(p, "off")
  /\ UNCHANGED <<files, wait, newest, cur, target>>

Step(p) ==
  \/ Launch(p) \/ Check(p) \/ Look(p) \/ Break(p) \/ Take(p)
  \/ Resolve(p) \/ Download(p)
  \/ Stage(p) \/ Extract(p) \/ Clear(p) \/ Replace(p) \/ Relink(p) \/ Clean(p)
  \/ Record(p) \/ Unlock(p)

\* The network, the disk or the asset fails: the error is to be recorded.  Once the
\* staging directory is made, it goes on every way out.
Fault(p) ==
  /\ phase[p] \in {"resolve", "download", "stage", "extract", "clear", "replace", "link"}
  /\ IF phase[p] \in {"extract", "clear", "replace"}
       THEN stage' = [stage EXCEPT ![target[p]] = "none"]
       ELSE UNCHANGED stage
  /\ Goto(p, "fault")
  /\ UNCHANGED <<link, bundle, locking, wait, newest, cur, target>>

Crash(p) ==
  /\ phase[p] \notin Idle /\ Goto(p, "dead")
  /\ UNCHANGED <<files, locking, wait, newest, cur, target>>

Next ==
  \/ Tick
  \/ \E v \in Versions : Publish(v)
  \/ \E p \in Procs : Step(p) \/ Fault(p) \/ Crash(p)

\* Requests time out, and the user goes on using the program.
Spec == Init /\ [][Next]_vars /\ WF_vars(Tick) /\ \A p \in Procs : WF_vars(Step(p))

-----------------------------------------------------------------------------
Parts == {"none", "part", "whole"}

TypeOK ==
  /\ link \in Versions
  /\ bundle \in [Versions -> Parts]
  /\ stage \in [Versions -> Parts]
  /\ lock \in Procs \cup {Free}
  /\ age \in 0 .. StaleAfter + 1
  /\ wait \in 0 .. Interval
  /\ newest \in Versions
  /\ phase \in [Procs -> Updating \cup Idle \cup {"check", "lock", "break", "take", "unlock"}]
  /\ cur \in [Procs -> Versions]
  /\ target \in [Procs -> Versions]

\* Wherever an update is killed or fails, the link leads to a bundle that is
\* there in full: the next `lium` starts.
LinkResolves == bundle[link] = "whole"

\* A process that updates keeps the bundle it runs from: it still loads modules
\* from there.
RunningVersionKept ==
  \A p \in Procs : phase[p] \notin Idle => bundle[cur[p]] = "whole"

\* The installed version never goes back, though a release may be withdrawn or an
\* update be repeated after a crash.
NeverDowngrade == [][link' >= link]_vars

\* What a killed update leaves (its lock, a staging directory, half a bundle, no
\* link) is no obstacle for ever: when a release stays the latest, and in the end
\* no process is killed and neither network nor disk fails, it gets installed.
CatchesUp ==
  \A v \in Versions :
    /\ <>[](newest = v)
    /\ <>[](\A p \in Procs : phase[p] \notin {"dead", "fault"})
    => <>(link >= v)

\* What the lock is for: no two updates at a time.
UpdatesExclusive ==
  \A p, q \in Procs : phase[p] \in Updating /\ phase[q] \in Updating => p = q
=============================================================================
