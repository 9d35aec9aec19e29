-------------------------- MODULE SelfUpdateProofs --------------------------
(***************************************************************************)
(* Proofs about module SelfUpdate, for any set of releases, any check      *)
(* interval, any age of a stale lock and any number of processes.  The     *)
(* lock alone does not keep updates apart (the run self_update_lock), so   *)
(* the safety of the installed link is proved of the behaviours in which   *)
(* updates do not overlap and who gets the lock still knows the installed  *)
(* version: Orderly, an assumption about the behaviour, not a result.      *)
(***************************************************************************)
EXTENDS SelfUpdate, TLAPS

Installing == {"download", "stage", "extract", "clear", "replace", "link"}

-----------------------------------------------------------------------------
LEMMA InitType == Init => TypeOK
<1> SUFFICES ASSUME Init PROVE TypeOK
  OBVIOUS
<1> QED
  BY UpdateAssumption DEF Init, TypeOK, Parts, Idle

LEMMA NextType == TypeOK /\ [Next]_vars => TypeOK'
<1> SUFFICES ASSUME TypeOK, [Next]_vars PROVE TypeOK'
  OBVIOUS
<1> USE UpdateAssumption
<1>1. CASE Tick
  BY <1>1 DEF Tick, Less, TypeOK, files
<1>2. ASSUME NEW v \in Versions, Publish(v) PROVE TypeOK'
  BY <1>2 DEF Publish, TypeOK, files, locking
<1>3. ASSUME NEW p \in Procs, Step(p) PROVE TypeOK'
  <2> USE DEF TypeOK, Goto, Idle, Updating
  <2>1. CASE Launch(p) BY <2>1 DEF Launch, files, locking
  <2>2. CASE Check(p) BY <2>2 DEF Check, files, locking
  <2>3. CASE Look(p) BY <2>3 DEF Look, files, locking
  <2>4. CASE Break(p) BY <2>4 DEF Break, files
  <2>5. CASE Take(p) BY <2>5 DEF Take, files, locking
  <2>6. CASE Resolve(p) BY <2>6 DEF Resolve, files, locking
  <2>7. CASE Download(p) BY <2>7 DEF Download, files, locking
  <2>8. CASE Stage(p) BY <2>8 DEF Stage, locking, Parts
  <2>9. CASE Extract(p) BY <2>9 DEF Extract, locking, Parts
  <2>10. CASE Clear(p) BY <2>10 DEF Clear, locking, Parts, Removed
  <2>11. CASE Replace(p) BY <2>11 DEF Replace, locking, Parts
  <2>12. CASE Relink(p) BY <2>12 DEF Relink, locking
  <2>13. CASE Clean(p) BY <2>13 DEF Clean, locking, Parts, Removed, Kept
  <2>14. CASE Record(p) BY <2>14 DEF Record, files, locking
  <2>15. CASE Unlock(p) BY <2>15 DEF Unlock, files
  <2> QED
    BY <1>3, <2>1, <2>2, <2>3, <2>4, <2>5, <2>6, <2>7, <2>8, <2>9, <2>10, <2>11,
       <2>12, <2>13, <2>14, <2>15 DEF Step
<1>4. ASSUME NEW p \in Procs, Fault(p) PROVE TypeOK'
  BY <1>4 DEF Fault, TypeOK, Goto, Idle, Updating, Parts, locking
<1>5. ASSUME NEW p \in Procs, Crash(p) PROVE TypeOK'
  BY <1>5 DEF Crash, TypeOK, Goto, Idle, Updating, files, locking
<1>6. CASE UNCHANGED vars
  BY <1>6 DEF vars, files, locking, TypeOK
<1> QED
  BY <1>1, <1>2, <1>3, <1>4, <1>5, <1>6 DEF Next

\* Nothing but the switch itself moves the link.
LEMMA OnlyRelinkMoves ==
  ASSUME Next, ~ \E p \in Procs : Relink(p)
  PROVE  link' = link
BY DEF Next, Step, Tick, Publish, Launch, Check, Look, Break, Take, Resolve, Download,
   Stage, Extract, Clear, Replace, Clean, Record, Unlock, Fault, Crash, files

-----------------------------------------------------------------------------
\* Every state of every start has its type, however many processes there are.
THEOREM TypeCorrect == Spec => []TypeOK
<1>1. Init => TypeOK BY InitType
<1>2. TypeOK /\ [Next]_vars => TypeOK' BY NextType
<1> QED BY <1>1, <1>2, PTL DEF Spec

-----------------------------------------------------------------------------
(* The lock alone is not enough: a start may break the winner's lock, and  *)
(* a process reads the installed version before it asks for the lock.      *)

\* No two update at a time, and who gets the lock still knows the installed version.
Orderly ==
  /\ UpdatesExclusive
  /\ \A p \in Procs : phase[p] = "resolve" => link = cur[p]

\* An update keeps the bundle it runs from.
UpdaterKeeps == \A p \in Procs : phase[p] \in Updating => bundle[cur[p]] = "whole"

UpdateProgress ==
  \A p \in Procs :
    /\ phase[p] \in {"resolve", "fault"} \cup Installing => link = cur[p]
    /\ phase[p] \in Installing => target[p] > cur[p]
    /\ phase[p] \in {"clear", "replace"} => stage[target[p]] = "whole"
    /\ phase[p] = "link" => bundle[target[p]] = "whole"
    /\ phase[p] = "clean" => link = target[p]

OrderlyInv == TypeOK /\ LinkResolves /\ UpdaterKeeps /\ UpdateProgress

\* A process that does not update leaves the files alone.
LEMMA OthersTouchNothing ==
  ASSUME NEW p \in Procs, phase[p] \notin Updating, Step(p) \/ Fault(p) \/ Crash(p)
  PROVE  UNCHANGED files
BY DEF Updating, files, Step, Launch, Check, Look, Break, Take, Resolve, Download, Stage, Extract,
   Clear, Replace, Relink, Clean, Record, Unlock, Fault, Crash

\* A step changes what one process knows.
LEMMA OwnKnowledge ==
  ASSUME TypeOK, NEW p \in Procs, Step(p) \/ Fault(p) \/ Crash(p), NEW q \in Procs, q # p
  PROVE  phase'[q] = phase[q] /\ cur'[q] = cur[q] /\ target'[q] = target[q]
BY DEF TypeOK, Goto, files, locking, Step, Launch, Check, Look, Break, Take, Resolve, Download,
   Stage, Extract, Clear, Replace, Relink, Clean, Record, Unlock, Fault, Crash

\* Time, releases and stuttering touch neither files nor processes.
LEMMA OutsideSteps ==
  ASSUME Tick \/ (\E v \in Versions : Publish(v)) \/ UNCHANGED vars
  PROVE  UNCHANGED <<files, phase, cur, target>>
BY DEF Tick, Publish, vars, files

LEMMA NextOrderly ==
  OrderlyInv /\ TypeOK' /\ Orderly /\ Orderly' /\ [Next]_vars => OrderlyInv'
<1> SUFFICES ASSUME OrderlyInv, TypeOK', Orderly, Orderly', [Next]_vars
             PROVE  LinkResolves' /\ UpdaterKeeps' /\ UpdateProgress'
  BY DEF OrderlyInv
<1>1. CASE Tick \/ (\E v \in Versions : Publish(v)) \/ UNCHANGED vars
  BY <1>1, OutsideSteps DEF files, OrderlyInv, LinkResolves, UpdaterKeeps, UpdateProgress
<1>2. ASSUME NEW p \in Procs, Step(p) \/ Fault(p) \/ Crash(p)
      PROVE  LinkResolves' /\ UpdaterKeeps' /\ UpdateProgress'
  <2> DEFINE Far(q) ==
        /\ phase[q] \in Updating => bundle[cur[q]] = "whole"
        /\ phase[q] \in {"resolve", "fault"} \cup Installing => link = cur[q]
        /\ phase[q] \in Installing => target[q] > cur[q]
        /\ phase[q] \in {"clear", "replace"} => stage[target[q]] = "whole"
        /\ phase[q] = "link" => bundle[target[q]] = "whole"
        /\ phase[q] = "clean" => link = target[q]
  <2>f. LinkResolves /\ \A q \in Procs : Far(q)
    BY DEF OrderlyInv, UpdaterKeeps, UpdateProgress
  <2>t. /\ link \in Versions /\ cur[p] \in Versions /\ target[p] \in Versions
        /\ newest \in Versions /\ Versions \subseteq Nat
        /\ phase \in [Procs -> Updating \cup Idle \cup {"check", "lock", "break", "take", "unlock"}]
        /\ bundle \in [Versions -> Parts] /\ stage \in [Versions -> Parts]
        /\ cur \in [Procs -> Versions] /\ target \in [Procs -> Versions]
    BY UpdateAssumption DEF OrderlyInv, TypeOK
  \* One that updates is alone; one that gets the lock still knows the version.
  <2>1. LinkResolves' /\ Far(p)'
    <3> HIDE <2>f
    <3>0. LinkResolves /\ Far(p)
      BY <2>f
    <3>r. phase'[p] = "resolve" => link' = cur'[p]
      BY DEF Orderly
    <3> USE <2>t, <3>0 DEF Goto, Idle, Updating, Installing, LinkResolves
    <3>1. CASE Launch(p) BY <3>1 DEF Launch, files, locking
    <3>2. CASE Check(p) BY <3>2 DEF Check, files, locking
    <3>3. CASE Look(p) BY <3>3 DEF Look, files, locking
    <3>4. CASE Break(p) BY <3>4 DEF Break, files
    <3>5. CASE Take(p) BY <3>5, <3>r DEF Take, files, locking
    <3>6. CASE Resolve(p) BY <3>6 DEF Resolve, files, locking
    <3>7. CASE Download(p) BY <3>7 DEF Download, files, locking
    <3>8. CASE Stage(p) BY <3>8 DEF Stage, locking
    <3>9. CASE Extract(p) BY <3>9 DEF Extract, locking
    <3>10. CASE Clear(p) BY <3>10 DEF Clear, locking
    <3>11. CASE Replace(p) BY <3>11 DEF Replace, locking
    <3>12. CASE Relink(p) BY <3>12 DEF Relink, locking
    <3>13. CASE Clean(p) BY <3>13 DEF Clean, locking, Kept
    <3>14. CASE Record(p) BY <3>14 DEF Record, files, locking
    <3>15. CASE Unlock(p) BY <3>15 DEF Unlock, files
    <3>16. CASE Fault(p) BY <3>16 DEF Fault, locking
    <3>17. CASE Crash(p) BY <3>17 DEF Crash, files, locking
    <3> QED
      BY <1>2, <3>1, <3>2, <3>3, <3>4, <3>5, <3>6, <3>7, <3>8, <3>9, <3>10, <3>11,
         <3>12, <3>13, <3>14, <3>15, <3>16, <3>17 DEF Step
  \* Whoever else updates is alone too, so this step left the files alone.
  <2>2. ASSUME NEW q \in Procs, q # p PROVE Far(q)'
    <3>1. phase'[q] = phase[q] /\ cur'[q] = cur[q] /\ target'[q] = target[q]
      BY <1>2, <2>2, OwnKnowledge DEF OrderlyInv
    <3>2. CASE phase[p] \in Updating
      <4>1. phase[q] \notin Updating
        BY <2>2, <3>2 DEF Orderly, UpdatesExclusive
      <4> QED BY <3>1, <4>1 DEF Updating, Installing
    <3>3. CASE phase[p] \notin Updating
      <4>1. UNCHANGED files
        BY <1>2, <3>3, OthersTouchNothing
      <4> QED BY <2>f, <3>1, <4>1 DEF files
    <3> QED BY <3>2, <3>3
  <2>3. \A q \in Procs : Far(q)'
    BY <2>1, <2>2
  <2> QED BY <2>1, <2>3 DEF UpdaterKeeps, UpdateProgress
<1> QED BY <1>1, <1>2 DEF Next

\* However many start side by side: as long as the lock keeps their updates apart and
\* none gets it with an outdated version in hand, the link leads to a whole bundle,
\* an update keeps the bundle it runs from, and the installed version never goes back.
THEOREM OrderlyUpdatesAreSafe ==
  Spec /\ []Orderly => [](LinkResolves /\ UpdaterKeeps) /\ NeverDowngrade
<1>1. Init => OrderlyInv
  <2> SUFFICES ASSUME Init PROVE OrderlyInv
    OBVIOUS
  <2> QED
    BY InitType DEF Init, OrderlyInv, LinkResolves, UpdaterKeeps, UpdateProgress, Updating, Installing
<1>2. OrderlyInv /\ Orderly /\ Orderly' /\ [Next]_vars => OrderlyInv'
  BY NextOrderly, NextType DEF OrderlyInv
<1>3. OrderlyInv => LinkResolves /\ UpdaterKeeps
  BY DEF OrderlyInv
<1>4. OrderlyInv /\ [Next]_vars => [link' >= link]_vars
  <2> SUFFICES ASSUME OrderlyInv, Next PROVE link' >= link
    OBVIOUS
  <2>t. link \in Nat /\ \A p \in Procs : target[p] \in Nat
    BY UpdateAssumption DEF OrderlyInv, TypeOK
  <2>1. ASSUME NEW p \in Procs, Relink(p) PROVE link' >= link
    <3>1. link = cur[p] /\ target[p] > cur[p]
      BY <2>1 DEF OrderlyInv, UpdateProgress, Relink, Installing
    <3> QED BY <2>1, <2>t, <3>1 DEF Relink
  <2>2. ASSUME ~ \E p \in Procs : Relink(p) PROVE link' = link
    BY <2>2, OnlyRelinkMoves
  <2> QED BY <2>t, <2>1, <2>2
<1> QED BY <1>1, <1>2, <1>3, <1>4, PTL DEF Spec, NeverDowngrade

-----------------------------------------------------------------------------
(* Behaviours that are orderly: those of an installation whose starts do   *)
(* not overlap.                                                            *)

\* No two processes start side by side.
OneAtATime == \A p, q \in Procs : p = q

\* A process that has not got the lock yet knows the installed version.
KnowsInstalled ==
  \A p \in Procs : phase[p] \in {"check", "lock", "break", "take", "resolve"} => link = cur[p]

LEMMA NextKnows ==
  ASSUME OneAtATime
  PROVE  TypeOK /\ KnowsInstalled /\ [Next]_vars => KnowsInstalled'
<1> SUFFICES ASSUME TypeOK, KnowsInstalled, [Next]_vars PROVE KnowsInstalled'
  OBVIOUS
<1>1. CASE Tick \/ (\E v \in Versions : Publish(v)) \/ UNCHANGED vars
  BY <1>1, OutsideSteps DEF files, KnowsInstalled
<1>2. ASSUME NEW p \in Procs, Step(p) \/ Fault(p) \/ Crash(p) PROVE KnowsInstalled'
  <2>0. \A q \in Procs : q = p
    BY DEF OneAtATime
  <2>1. /\ phase \in [Procs -> Updating \cup Idle \cup {"check", "lock", "break", "take", "unlock"}]
        /\ cur \in [Procs -> Versions]
    BY DEF TypeOK
  <2> SUFFICES phase'[p] \in {"check", "lock", "break", "take", "resolve"} => link' = cur'[p]
    BY <2>0 DEF KnowsInstalled
  <2> QED
    BY <1>2, <2>1 DEF KnowsInstalled, Goto, Idle, files, locking, Step, Launch, Check, Look, Break,
       Take, Resolve, Download, Stage, Extract, Clear, Replace, Relink, Clean, Record, Unlock,
       Fault, Crash
<1> QED BY <1>1, <1>2 DEF Next

\* Starts that do not overlap are orderly: the assumption of OrderlyUpdatesAreSafe is
\* met by the behaviours of one process at a time, any number of times.
LEMMA AloneIsOrderly ==
  ASSUME OneAtATime
  PROVE  Spec => []Orderly
<1>1. Init => TypeOK /\ KnowsInstalled
  BY InitType DEF Init, KnowsInstalled, Idle
<1>2. TypeOK /\ KnowsInstalled /\ [Next]_vars => TypeOK' /\ KnowsInstalled'
  BY NextType, NextKnows
<1>3. KnowsInstalled => Orderly
  BY DEF OneAtATime, KnowsInstalled, Orderly, UpdatesExclusive
<1> QED BY <1>1, <1>2, <1>3, PTL DEF Spec
=============================================================================
