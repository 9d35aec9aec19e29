-------------------------- MODULE MachineWarmProofs --------------------------
(***************************************************************************)
(* Proofs about module MachineWarm, for any processes, functions, pods,    *)
(* timeout and margins.                                                    *)
(***************************************************************************)
EXTENDS MachineWarm, TLAPS

-----------------------------------------------------------------------------
(* Types.                                                                  *)

Using == {"arm", "boot", "setup", "rearm", "run", "release", "drop"}

\* A call that uses a pod has one, and so has a pod in memory.
HasPod ==
  \A q \in Procs :
    /\ phase[q] \in Using => cur[q].pod \in Pods
    /\ warm[q] # NoWarm => warm[q].pod \in Pods

TInv == TypeOK /\ HasPod

\* Every step is the server's, time's, or one of a process.
LEMMA Steps ==
  ASSUME [Next]_vars
  PROVE UNCHANGED vars \/ Tick \/ (\E p \in Pods : Started(p)) \/ (\E q \in Procs : Process(q))
BY DEF Next

\* Countdowns and windows are natural numbers, and a window is not over when it is set.
LEMMA Windows ==
  /\ \A n \in Nat : Less(n) \in Nat
  /\ \A n \in 0 .. Timeout : Less(n) \in 0 .. Timeout
  /\ \A f \in Funcs \cup {NoCall.f} : f.keep \in Nat /\ f.cleanup \in BOOLEAN
  /\ \A c \in Calls :
       /\ Ttl(c) \in Nat /\ Ttl(c) > Timeout
       /\ Stay(c) \in Nat /\ Stay(c) + WarmMargin \in Nat /\ Stay(c) + WarmMargin > 0
       /\ Owned(c) \in BOOLEAN
<1>1. \A n \in Nat : Less(n) \in Nat
  BY DEF Less
<1>2. \A n \in 0 .. Timeout : Less(n) \in 0 .. Timeout
  BY MachineAssumption DEF Less
<1>3. \A f \in Funcs \cup {NoCall.f} : f.keep \in Nat /\ f.cleanup \in BOOLEAN
  <2>1. NoCall.f.keep \in Nat /\ NoCall.f.cleanup \in BOOLEAN
    BY DEF NoCall
  <2>2. \A f \in Funcs : f.keep \in Nat /\ f.cleanup \in BOOLEAN
    BY MachineAssumption
  <2>3. QED
    BY <2>1, <2>2
<1>4. ASSUME NEW c \in Calls
      PROVE  /\ Ttl(c) \in Nat /\ Ttl(c) > Timeout
             /\ Stay(c) \in Nat /\ Stay(c) + WarmMargin \in Nat /\ Stay(c) + WarmMargin > 0
             /\ Owned(c) \in BOOLEAN
  <2>1. c.f.keep \in Nat /\ c.was.keep \in Nat /\ c.was.owned \in BOOLEAN
    BY <1>3, <1>4 DEF Calls, Warms
  <2>2. Timeout \in Nat \ {0} /\ Margin \in Nat \ {0} /\ WarmMargin \in Nat \ {0}
    BY MachineAssumption
  <2>3. Ttl(c) \in Nat /\ Ttl(c) > Timeout
    BY <2>1, <2>2 DEF Ttl
  <2>4. Stay(c) \in Nat
    BY <2>1 DEF Stay, Longer
  <2>5. Owned(c) \in BOOLEAN
    BY DEF Owned
  <2>6. QED
    BY <2>2, <2>3, <2>4, <2>5
<1>5. QED
  BY <1>1, <1>2, <1>3, <1>4

\* What steps make of a call is a call.
LEMMA Updates ==
  ASSUME NEW c \in Calls
  PROVE /\ \A p \in Pods \cup {None} : [c EXCEPT !.pod = p] \in Calls
        /\ \A p \in Pods \cup {None}, w \in Warms : [c EXCEPT !.pod = p, !.was = w] \in Calls
        /\ [c EXCEPT !.was = [c.was EXCEPT !.prev = Less(c.was.prev)]] \in Calls
<1>1. c.was \in Warms /\ Less(c.was.prev) \in Nat
  BY Windows DEF Calls, Warms
<1>2. [c.was EXCEPT !.prev = Less(c.was.prev)] \in Warms
  BY <1>1 DEF Warms
<1>3. QED
  BY <1>2 DEF Calls

\* The server keeps its types.
LEMMA ServerTypeStep == TInv /\ [Next]_vars => ServerType'
<1> SUFFICES ASSUME TInv, [Next]_vars PROVE ServerType'
  OBVIOUS
<1> USE DEF ServerType, server
<1>0. ServerType /\ ProcessType /\ HasPod
  BY DEF TInv, TypeOK
<1>1. CASE UNCHANGED vars
  BY <1>0, <1>1 DEF vars
<1>2. CASE Tick
  BY <1>0, <1>2, Windows DEF Tick
<1>3. ASSUME NEW p \in Pods, Started(p) PROVE ServerType'
  BY <1>0, <1>3 DEF Started
<1>4. ASSUME NEW q \in Procs PROVE Arm(q) \/ Run(q) \/ KeepPod(q) => ServerType'
  <2>1. cur[q] \in Calls
    BY <1>0 DEF ProcessType
  <2>2. cur[q].was.prev \in Nat
    BY <2>1 DEF Calls, Warms
  <2>3. Ttl(cur[q]) \in Nat /\ Stay(cur[q]) + WarmMargin \in Nat
    BY <2>1, Windows
  <2>4. ASSUME NEW p, NEW n \in Nat, Schedule(q, p, n) PROVE due' \in [Pods -> Nat]
    BY <1>0, <2>4 DEF Schedule
  <2>5. CASE Arm(q)
    BY <1>0, <2>3, <2>4, <2>5 DEF Arm
  <2>6. CASE Run(q)
    BY <1>0, <2>3, <2>4, <2>6 DEF Run
  <2>7. CASE KeepPod(q)
    <3>1. due' \in [Pods -> Nat]
      BY <1>0, <2>2, <2>3, <2>4, <2>7 DEF KeepPod
    <3>2. QED
      BY <1>0, <2>7, <3>1 DEF KeepPod
  <2>8. QED
    BY <2>5, <2>6, <2>7
<1>5. ASSUME NEW p, Down(p) PROVE ServerType'
  BY <1>0, <1>5 DEF Down, None
<1>6. ASSUME NEW q \in Procs PROVE DropPod(q) \/ MapEnd(q) \/ Close(q) \/ Exit(q) => ServerType'
  BY <1>0, <1>5 DEF DropPod, MapEnd, Close, Exit, CloseWarm, NoDown
<1>7. ASSUME NEW q \in Procs PROVE Rent(q) \/ RentUnknown(q) => ServerType'
  BY <1>0 DEF Rent, RentUnknown, Made
<1>8. ASSUME NEW q \in Procs, Process(q) PROVE ServerType'
  <2>1. ASSUME NEW f \in Funcs, Call(q, f) PROVE ServerType'
    BY <1>0, <2>1 DEF Call
  <2>2. CASE Arm(q) \/ Run(q) \/ KeepPod(q)
    BY <1>4, <2>2
  <2>3. CASE DropPod(q) \/ MapEnd(q) \/ Close(q) \/ Exit(q)
    BY <1>6, <2>3
  <2>4. CASE Rent(q) \/ RentUnknown(q)
    BY <1>7, <2>4
  <2>5. CASE \/ Start(q) \/ FindWarm(q) \/ FindNone(q) \/ NoPod(q)
              \/ Boot(q) \/ Setup(q) \/ Ran(q) \/ CallEnd(q) \/ Crash(q)
    BY <1>0, <2>5 DEF Start, FindWarm, FindNone, NoPod, Boot, Setup, Ran, CallEnd, Crash
  <2>6. QED
    BY <1>8, <2>1, <2>2, <2>3, <2>4, <2>5 DEF Process
<1>9. QED
  BY <1>1, <1>2, <1>3, <1>8, Steps

\* The history keeps its types.
LEMMA HistoryTypeStep == TInv /\ [Next]_vars => HistoryType'
<1> SUFFICES ASSUME TInv, [Next]_vars PROVE HistoryType'
  OBVIOUS
<1> USE DEF HistoryType, history
<1>0. ProcessType /\ HistoryType /\ HasPod
  BY DEF TInv, TypeOK
<1>1. CASE UNCHANGED vars
  BY <1>0, <1>1 DEF vars
<1>2. CASE Tick
  BY <1>0, <1>2 DEF Tick
<1>3. ASSUME NEW p \in Pods, Started(p) PROVE HistoryType'
  BY <1>0, <1>3 DEF Started
<1>4. ASSUME NEW q \in Procs PROVE Arm(q) \/ Run(q) \/ KeepPod(q) => HistoryType'
  <2>1. ASSUME phase[q] \in Using PROVE cur[q].pod \in Pods
    BY <1>0, <2>1 DEF HasPod
  <2>2. ASSUME NEW p \in Pods, NEW n, Schedule(q, p, n) PROVE warned' \in SUBSET Pods /\ died' \in SUBSET Pods
    BY <1>0, <2>2 DEF Schedule
  <2>3. CASE Arm(q)
    BY <1>0, <2>1, <2>2, <2>3 DEF Arm, Using
  <2>4. CASE Run(q)
    BY <1>0, <2>1, <2>2, <2>4 DEF Run, Using
  <2>5. CASE KeepPod(q)
    BY <1>0, <2>1, <2>2, <2>5 DEF KeepPod, Using
  <2>6. QED
    BY <2>3, <2>4, <2>5
<1>5. ASSUME NEW p \in Pods, Down(p)
      PROVE warned' \in SUBSET Pods /\ died' \in SUBSET Pods /\ excused' \in SUBSET Pods
  BY <1>0, <1>5 DEF Down
<1>6. ASSUME NEW q \in Procs PROVE DropPod(q) \/ MapEnd(q) \/ Close(q) \/ Exit(q) => HistoryType'
  <2>1. ASSUME phase[q] \in Using PROVE cur[q].pod \in Pods
    BY <1>0, <2>1 DEF HasPod
  <2>2. ASSUME warm[q] # NoWarm PROVE warm[q].pod \in Pods
    BY <1>0, <2>2 DEF HasPod
  <2>3. CASE DropPod(q)
    BY <1>0, <1>5, <2>1, <2>3 DEF DropPod, Using
  <2>4. ASSUME CloseWarm(q) PROVE warned' \in SUBSET Pods /\ died' \in SUBSET Pods /\ excused' \in SUBSET Pods
    BY <1>0, <1>5, <2>2, <2>4 DEF CloseWarm, NoDown
  <2>5. CASE MapEnd(q)
    BY <1>0, <2>4, <2>5 DEF MapEnd, NoDown
  <2>6. CASE Close(q)
    BY <1>0, <2>4, <2>6 DEF Close
  <2>7. CASE Exit(q)
    BY <1>0, <1>5, <2>2, <2>7 DEF Exit, NoDown
  <2>8. QED
    BY <2>3, <2>5, <2>6, <2>7
<1>7. ASSUME NEW q \in Procs PROVE Rent(q) \/ RentUnknown(q) => HistoryType'
  BY <1>0 DEF Rent, RentUnknown, Made
<1>8. ASSUME NEW q \in Procs PROVE Crash(q) => HistoryType'
  BY <1>0 DEF Crash, HasPod, Using
<1>9. ASSUME NEW q \in Procs, Process(q) PROVE HistoryType'
  <2>1. ASSUME NEW f \in Funcs, Call(q, f) PROVE HistoryType'
    BY <1>0, <2>1 DEF Call
  <2>2. CASE Arm(q) \/ Run(q) \/ KeepPod(q)
    BY <1>4, <2>2
  <2>3. CASE DropPod(q) \/ MapEnd(q) \/ Close(q) \/ Exit(q)
    BY <1>6, <2>3
  <2>4. CASE Rent(q) \/ RentUnknown(q) \/ Crash(q)
    BY <1>7, <1>8, <2>4
  <2>5. CASE \/ Start(q) \/ FindWarm(q) \/ FindNone(q) \/ NoPod(q)
              \/ Boot(q) \/ Setup(q) \/ Ran(q) \/ CallEnd(q)
    BY <1>0, <2>5 DEF Start, FindWarm, FindNone, NoPod, Boot, Setup, Ran, CallEnd
  <2>6. QED
    BY <1>9, <2>1, <2>2, <2>3, <2>4, <2>5 DEF Process
<1>10. QED
  BY <1>1, <1>2, <1>3, <1>9, Steps

\* The processes keep their types.
LEMMA ProcessTypeStep == TInv /\ [Next]_vars => ProcessType'
<1> SUFFICES ASSUME TInv, [Next]_vars PROVE ProcessType'
  OBVIOUS
<1>0. ServerType /\ ProcessType /\ HasPod
  BY DEF TInv, TypeOK
<1>1. CASE UNCHANGED vars
  BY <1>0, <1>1 DEF vars, ProcessType
<1>2. CASE Tick
  <2>1. clock' \in [Procs -> 0 .. Timeout]
    BY <1>0, <1>2, Windows DEF Tick, ProcessType
  <2>2. warm' \in [Procs -> Warms]
    BY <1>0, <1>2, Windows DEF Tick, ProcessType, Warms
  <2>3. cur' \in [Procs -> Calls]
    BY <1>0, <1>2, Updates DEF Tick, ProcessType
  <2>4. QED
    BY <1>0, <1>2, <2>1, <2>2, <2>3 DEF Tick, ProcessType
<1>3. ASSUME NEW p \in Pods, Started(p) PROVE ProcessType'
  BY <1>0, <1>3 DEF Started, ProcessType
<1>4. NoWarm \in Warms
  BY DEF NoWarm, Warms
<1>5. ASSUME NEW q \in Procs, Process(q) PROVE ProcessType'
  <2>1. ASSUME NEW f \in Funcs, Call(q, f) PROVE ProcessType'
    <3>1. \A m \in BOOLEAN : [f |-> f, map |-> m, pod |-> None, was |-> NoWarm] \in Calls
      BY <1>4, <2>1 DEF Calls
    <3>2. QED
      BY <1>0, <2>1, <3>1 DEF Call, Goto, ProcessType
  <2>2. ASSUME NEW p, NEW n, Schedule(q, p, n) PROVE armed' \in [Procs -> BOOLEAN]
    BY <1>0, <2>2 DEF Schedule, ProcessType
  <2>3. CASE Arm(q)
    BY <1>0, <2>2, <2>3 DEF Arm, Goto, ProcessType
  <2>4. CASE Run(q)
    <3>1. Timeout \in 0 .. Timeout
      BY MachineAssumption
    <3>2. QED
      BY <1>0, <2>2, <2>4, <3>1 DEF Run, Goto, ProcessType
  <2>5. CASE KeepPod(q)
    <3>1. cur[q] \in Calls
      BY <1>0 DEF ProcessType
    <3>2. [pod |-> cur[q].pod, owned |-> Owned(cur[q]), keep |-> Stay(cur[q]), prev |-> cur[q].was.prev] \in Warms
      BY <3>1, Windows DEF Calls, Warms
    <3>3. warm' \in [Procs -> Warms]
      BY <1>0, <2>5, <3>2 DEF KeepPod, ProcessType
    <3>4. armed' \in [Procs -> BOOLEAN]
      BY <1>0, <2>2, <2>5 DEF KeepPod, ProcessType
    <3>5. QED
      BY <1>0, <2>5, <3>3, <3>4 DEF KeepPod, Goto, ProcessType
  <2>6. CASE FindWarm(q)
    <3>1. Held(q) => warm[q] \in Warms
      BY <1>0 DEF ProcessType
    <3>2. \A p \in Named : p \in Pods /\ due[p] \in Nat
      BY <1>0 DEF Named, ServerType
    <3>3. \A p \in Named : [pod |-> p, owned |-> FALSE, keep |-> 0, prev |-> due[p]] \in Warms
      BY <3>2 DEF Warms
    <3>4. warm[q].pod \in Pods \cup {None}
      BY <1>0 DEF ProcessType, Warms
    <3>5. cur[q] \in Calls
      BY <1>0 DEF ProcessType
    <3>6. cur' \in [Procs -> Calls]
      <4>1. CASE cur' = [cur EXCEPT ![q] = [@ EXCEPT !.pod = warm[q].pod, !.was = warm[q]]] /\ Held(q)
        BY <1>0, <4>1, <3>1, <3>4, <3>5, Updates DEF ProcessType
      <4>2. ASSUME NEW p \in Named,
                   cur' = [cur EXCEPT ![q] = [@ EXCEPT !.pod = p,
                             !.was = [pod |-> p, owned |-> FALSE, keep |-> 0, prev |-> due[p]]]]
            PROVE  cur' \in [Procs -> Calls]
        BY <1>0, <4>2, <3>2, <3>3, <3>5, Updates DEF ProcessType
      <4>3. QED
        BY <2>6, <4>1, <4>2 DEF FindWarm
    <3>7. warm' \in [Procs -> Warms]
      BY <1>0, <1>4, <2>6 DEF FindWarm, ProcessType
    <3>8. QED
      BY <1>0, <2>6, <3>6, <3>7 DEF FindWarm, Goto, ProcessType
  <2>7. CASE Rent(q)
    <3>1. \A p \in Pods : [cur[q] EXCEPT !.pod = p] \in Calls
      BY <1>0, Updates DEF ProcessType
    <3>2. QED
      BY <1>0, <2>7, <3>1 DEF Rent, Goto, ProcessType
  <2>8. CASE RentUnknown(q) \/ NoPod(q) \/ Start(q) \/ Boot(q) \/ Setup(q) \/ DropPod(q)
    BY <1>0, <2>8 DEF RentUnknown, NoPod, Start, Boot, Setup, DropPod, Goto, ProcessType
  <2>9. CASE FindNone(q) \/ Ran(q) \/ Close(q)
    BY <1>0, <1>4, <2>9, MachineAssumption DEF FindNone, Ran, Close, CloseWarm, Goto, ProcessType
  <2>10. NoCall \in Calls
    BY <1>4 DEF Calls, NoCall
  <2>11. CASE CallEnd(q)
    <3>1. [cur[q] EXCEPT !.pod = None, !.was = NoWarm] \in Calls
      BY <1>0, <1>4, Updates DEF ProcessType
    <3>2. cur' \in [Procs -> Calls]
      BY <1>0, <2>10, <2>11, <3>1 DEF CallEnd, ProcessType
    <3>3. QED
      BY <1>0, <2>11, <3>2 DEF CallEnd, Goto, ProcessType
  <2>12. CASE MapEnd(q)
    BY <1>0, <1>4, <2>10, <2>12 DEF MapEnd, CloseWarm, Goto, ProcessType
  <2>13. CASE Exit(q)
    BY <1>0, <1>4, <2>13 DEF Exit, Goto, ProcessType
  <2>14. CASE Crash(q)
    BY <1>0, <1>4, <2>10, <2>14, MachineAssumption DEF Crash, Goto, ProcessType
  <2>15. QED
    BY <1>5, <2>1, <2>3, <2>4, <2>5, <2>6, <2>7, <2>9, <2>11, <2>12, <2>13, <2>8, <2>14 DEF Process
<1>6. QED
  BY <1>1, <1>2, <1>3, <1>5, Steps

\* Calls go on having their pods.
LEMMA HasPodStep == TInv /\ [Next]_vars => HasPod'
<1> SUFFICES ASSUME TInv, [Next]_vars PROVE HasPod'
  OBVIOUS
<1>0. ServerType /\ ProcessType /\ HasPod
  BY DEF TInv, TypeOK
<1>1. CASE UNCHANGED vars
  BY <1>0, <1>1 DEF vars, HasPod
<1>2. CASE Tick
  <2>1. \A q \in Procs : cur'[q].pod = cur[q].pod /\ warm'[q].pod = warm[q].pod
    BY <1>0, <1>2 DEF Tick, ProcessType, Warms, Calls
  <2>2. \A q \in Procs : warm[q] = NoWarm => warm'[q] = NoWarm
    <3>1. ASSUME NEW q \in Procs, warm[q] = NoWarm PROVE warm'[q] = NoWarm
      <4>1. warm'[q] = [NoWarm EXCEPT !.prev = Less(NoWarm.prev)]
        BY <1>2, <3>1 DEF Tick
      <4>2. Less(NoWarm.prev) = 0
        BY DEF NoWarm, Less
      <4>3. QED
        BY <4>1, <4>2 DEF NoWarm
    <3>2. QED
      BY <3>1
  <2>3. QED
    BY <1>0, <1>2, <2>1, <2>2 DEF Tick, HasPod
<1>3. ASSUME NEW p \in Pods, Started(p) PROVE HasPod'
  BY <1>0, <1>3 DEF Started, HasPod
<1>4. ASSUME NEW q \in Procs, Process(q) PROVE HasPod'
  <2> USE DEF HasPod, Using, Goto, ProcessType, Calls
  <2>1. ASSUME NEW f \in Funcs, Call(q, f) PROVE HasPod'
    BY <1>0, <2>1 DEF Call
  <2>2. CASE Arm(q) \/ Run(q)
    BY <1>0, <2>2 DEF Arm, Run
  <2>3. CASE KeepPod(q)
    BY <1>0, <2>3 DEF KeepPod
  <2>4. CASE FindWarm(q)
    <3>1. Held(q) => warm[q].pod \in Pods
      BY <1>0 DEF Held, NoWarm
    <3>2. \A p \in Named : p \in Pods
      BY <1>0 DEF Named, ServerType
    <3>3. cur[q] \in Calls
      BY <1>0
    <3>4. cur'[q].pod \in Pods
      <4>1. \A p, w : [cur[q] EXCEPT !.pod = p, !.was = w].pod = p
        BY <3>3
      <4>2. CASE cur' = [cur EXCEPT ![q] = [@ EXCEPT !.pod = warm[q].pod, !.was = warm[q]]] /\ Held(q)
        BY <1>0, <3>1, <4>1, <4>2
      <4>3. ASSUME NEW p \in Named,
                   cur' = [cur EXCEPT ![q] = [@ EXCEPT !.pod = p,
                             !.was = [pod |-> p, owned |-> FALSE, keep |-> 0, prev |-> due[p]]]]
            PROVE  cur'[q].pod \in Pods
        BY <1>0, <3>2, <4>1, <4>3
      <4>4. QED
        BY <2>4, <4>2, <4>3 DEF FindWarm
    <3>5. warm'[q] \in {warm[q], NoWarm}
      BY <1>0, <2>4 DEF FindWarm
    <3>6. \A r \in Procs : r # q => cur'[r] = cur[r] /\ warm'[r] = warm[r] /\ phase'[r] = phase[r]
      BY <1>0, <2>4 DEF FindWarm
    <3>7. QED
      BY <1>0, <3>4, <3>5, <3>6
  <2>5. CASE Rent(q) \/ RentUnknown(q) \/ NoPod(q) \/ Start(q) \/ Boot(q) \/ Setup(q) \/ DropPod(q)
    BY <1>0, <2>5 DEF Rent, RentUnknown, NoPod, Start, Boot, Setup, DropPod
  <2>6. CASE FindNone(q) \/ Ran(q) \/ Close(q)
    BY <1>0, <2>6 DEF FindNone, Ran, Close, CloseWarm
  <2>7. CASE CallEnd(q)
    BY <1>0, <2>7 DEF CallEnd
  <2>8. CASE MapEnd(q) \/ Exit(q) \/ Crash(q)
    BY <1>0, <2>8 DEF MapEnd, Exit, Crash, CloseWarm
  <2>9. QED
    BY <1>4, <2>1, <2>2, <2>3, <2>4, <2>5, <2>6, <2>7, <2>8 DEF Process
<1>5. QED
  BY <1>1, <1>2, <1>3, <1>4, Steps

\* The inductive invariant holds.
LEMMA TypeInvariant == Spec => []TInv
<1>1. Init => TInv
  <2>1. NoWarm \in Warms
    BY DEF NoWarm, Warms
  <2>2. NoCall \in Calls
    BY <2>1 DEF Calls, NoCall
  <2>3. Init => ServerType /\ HistoryType
    BY DEF Init, ServerType, HistoryType, None
  <2>4. Init => ProcessType
    BY <2>1, <2>2, MachineAssumption DEF Init, ProcessType
  <2>5. Init => HasPod
    BY DEF Init, HasPod, Using
  <2>6. QED
    BY <2>3, <2>4, <2>5 DEF TInv, TypeOK
<1>2. TInv /\ [Next]_vars => TInv'
  BY ServerTypeStep, ProcessTypeStep, HistoryTypeStep, HasPodStep DEF TInv, TypeOK
<1>3. QED
  BY <1>1, <1>2, PTL DEF Spec

\* The variables of MachineWarm keep their types (TypeOK).
THEOREM TypeCorrect == Spec => []TypeOK
<1>1. TInv => TypeOK
  BY DEF TInv
<1>2. QED
  BY <1>1, TypeInvariant, PTL

-----------------------------------------------------------------------------
(* Pods without a removal time (UnscheduledIsKnown).                       *)

Known(p) == p \in warned \cup died \/ \E q \in Procs : phase[q] = "arm" /\ cur[q].pod = p

\* What _schedule_removal leaves: the time, or a pod the user was warned of.
LEMMA ScheduleKnows ==
  ASSUME TInv, NEW q \in Procs, NEW p \in Pods, NEW n \in Nat, n > 0, Schedule(q, p, n), UNCHANGED life
  PROVE  /\ Live(p)' /\ due'[p] = None => p \in warned' \cup died'
         /\ \A o \in Pods : o # p => due'[o] = due[o] /\ (o \in warned \cup died => o \in warned' \cup died')
<1>1. due \in [Pods -> Nat]
  BY DEF TInv, TypeOK, ServerType
<1>2. QED
  BY <1>1 DEF Schedule, Live, None

\* What the removal of a pod leaves: no such pod, or what was there.
LEMMA DownKnows ==
  ASSUME TInv, NEW p \in Pods, Down(p)
  PROVE  \A o \in Pods : Live(o)' => Live(o) /\ due'[o] = due[o]
                                   /\ (o \in warned \cup died => o \in warned' \cup died')
<1>1. ServerType
  BY DEF TInv, TypeOK
<1>2. QED
  BY <1>1 DEF Down, Live, ServerType, server

LEMMA UnscheduledStep == TInv /\ UnscheduledIsKnown /\ [Next]_vars => UnscheduledIsKnown'
<1> SUFFICES ASSUME TInv, UnscheduledIsKnown, [Next]_vars, NEW p \in Pods, Live(p)', due'[p] = None
             PROVE  Known(p)'
  BY DEF UnscheduledIsKnown, Known
<1>0. ServerType /\ ProcessType /\ HasPod
  BY DEF TInv, TypeOK
<1>a. ASSUME Live(p), due[p] = None PROVE Known(p)
  BY <1>a DEF UnscheduledIsKnown, Known
<1>1. CASE UNCHANGED vars
  BY <1>a, <1>1 DEF vars, server, history, Known, Live
<1>2. CASE Tick
  <2>1. Live(p) /\ due[p] = None
    BY <1>0, <1>2 DEF Tick, Live, Less, None, ServerType
  <2>2. \A q \in Procs : cur'[q].pod = cur[q].pod
    BY <1>0, <1>2 DEF Tick, ProcessType, Calls
  <2>3. QED
    BY <1>a, <1>2, <2>1, <2>2 DEF Tick, Known
<1>3. ASSUME NEW o \in Pods, Started(o) PROVE Known(p)'
  BY <1>0, <1>a, <1>3 DEF Started, Live, Known, history, ServerType
<1>4. ASSUME NEW q \in Procs, Process(q) PROVE Known(p)'
  <2>a. cur[q] \in Calls /\ cur[q].was.prev \in Nat
    BY <1>0 DEF ProcessType, Calls, Warms
  \* No other process has changed.
  <2>b. ASSUME NEW r \in Procs, r # q PROVE phase'[r] = phase[r] /\ cur'[r].pod = cur[r].pod
    <3>1. phase'[r] = phase[r]
      BY <1>0, <1>4, <2>b DEF Process, Start, Call, FindWarm, FindNone, Rent, RentUnknown, NoPod, Arm, Boot,
         Setup, Run, Ran, KeepPod, DropPod, CallEnd, MapEnd, Close, Exit, Crash, Goto, ProcessType
    <3>2. cur'[r] = cur[r]
      BY <1>0, <1>4, <2>b DEF Process, Start, Call, FindWarm, FindNone, Rent, RentUnknown, NoPod, Arm, Boot,
         Setup, Run, Ran, KeepPod, DropPod, CallEnd, MapEnd, Close, Exit, Crash, ProcessType
    <3>3. QED
      BY <3>1, <3>2
  \* A pod that was known stays so, if this process was not about to set its time.
  <2>c. ASSUME Live(p), due[p] = None, phase[q] # "arm" \/ cur[q].pod # p,
               p \in warned \cup died => p \in warned' \cup died'
        PROVE  Known(p)'
    BY <1>a, <2>b, <2>c DEF Known
  <2>1. ASSUME NEW f \in Funcs, Call(q, f) PROVE Known(p)'
    BY <2>1, <2>c DEF Call, server, history, Live
  <2>2. CASE Start(q) \/ FindWarm(q) \/ FindNone(q) \/ NoPod(q)
    BY <2>2, <2>c DEF Start, FindWarm, FindNone, NoPod, server, history, Live
  <2>3. CASE Boot(q) \/ Setup(q) \/ Ran(q) \/ CallEnd(q)
    BY <2>3, <2>c DEF Boot, Setup, Ran, CallEnd, server, history, Live
  <2>4. CASE Rent(q)
    <3>1. PICK o \in Pods : Made(q, o) /\ cur' = [cur EXCEPT ![q].pod = o]
      BY <2>4 DEF Rent
    <3>2. CASE o = p
      <4>1. phase'[q] = "arm" /\ cur'[q].pod = p
        BY <1>0, <2>4, <3>1, <3>2 DEF Rent, Goto, ProcessType, Calls
      <4>2. QED
        BY <4>1 DEF Known
    <3>3. CASE o # p
      <4>1. Live(p)
        BY <1>0, <3>1, <3>3 DEF Made, Live, ServerType
      <4>2. QED
        BY <2>4, <2>c, <4>1 DEF Rent
    <3>4. QED
      BY <3>2, <3>3
  <2>5. CASE RentUnknown(q)
    <3>1. PICK o \in Pods : Made(q, o) /\ warned' = warned \cup {o}
      BY <2>5 DEF RentUnknown
    <3>2. CASE o = p
      BY <3>1, <3>2 DEF Known
    <3>3. CASE o # p
      <4>1. Live(p)
        BY <1>0, <3>1, <3>3 DEF Made, Live, ServerType
      <4>2. QED
        BY <2>5, <2>c, <3>1, <4>1 DEF RentUnknown
    <3>4. QED
      BY <3>2, <3>3
  \* Where the removal time is set, it is set or the user is warned.
  <2>d. ASSUME NEW n \in Nat, n > 0, cur[q].pod \in Pods, Schedule(q, cur[q].pod, n), UNCHANGED life
        PROVE  Known(p)'
    <3>1. CASE p = cur[q].pod
      BY <2>d, <3>1, ScheduleKnows DEF Known
    <3>2. CASE p # cur[q].pod
      <4>1. due'[p] = due[p] /\ (p \in warned \cup died => p \in warned' \cup died')
        BY <2>d, <3>2, ScheduleKnows
      <4>2. QED
        BY <2>c, <2>d, <3>2, <4>1 DEF Live
    <3>3. QED
      BY <3>1, <3>2
  <2>6. Ttl(cur[q]) \in Nat /\ Ttl(cur[q]) > 0 /\ Stay(cur[q]) + WarmMargin \in Nat /\ Stay(cur[q]) + WarmMargin > 0
    BY <2>a, Windows, MachineAssumption
  <2>7. CASE Arm(q)
    BY <1>0, <2>6, <2>7, <2>d DEF Arm, HasPod, Using
  <2>8. CASE Run(q)
    BY <1>0, <2>6, <2>8, <2>d DEF Run, HasPod, Using
  <2>9. CASE KeepPod(q)
    <3>1. cur[q].pod \in Pods
      BY <1>0, <2>9 DEF KeepPod, HasPod, Using
    <3>2. CASE Schedule(q, cur[q].pod, Stay(cur[q]) + WarmMargin)
      BY <2>6, <2>9, <2>d, <3>1, <3>2 DEF KeepPod
    <3>3. CASE UNCHANGED <<due, warned, died>>
      BY <2>9, <2>c, <3>3 DEF KeepPod, Live
    <3>4. CASE cur[q].was.prev > 0 /\ due' = [due EXCEPT ![cur[q].pod] = cur[q].was.prev] /\ UNCHANGED <<warned, died>>
      BY <1>0, <2>9, <2>a, <2>c, <3>1, <3>4 DEF KeepPod, Live, ServerType, None
    <3>5. QED
      BY <2>9, <3>2, <3>3, <3>4 DEF KeepPod
  \* Where a pod is removed, or none is.
  <2>e. ASSUME phase[q] # "arm", NoDown \/ (\E o \in Pods : Down(o)) PROVE Known(p)'
    <3>1. CASE NoDown
      BY <2>c, <2>e, <3>1 DEF NoDown, server, Live
    <3>2. ASSUME NEW o \in Pods, Down(o) PROVE Known(p)'
      BY <2>c, <2>e, <3>2, DownKnows
    <3>3. QED
      BY <2>e, <3>1, <3>2
  <2>10. CASE DropPod(q)
    <3>1. cur[q].pod \in Pods /\ phase[q] # "arm"
      BY <1>0, <2>10 DEF DropPod, HasPod, Using
    <3>2. CASE Down(cur[q].pod)
      BY <2>e, <3>1, <3>2
    <3>3. CASE UNCHANGED <<server, warned, died>>
      BY <2>c, <3>1, <3>3 DEF server, Live
    <3>4. QED
      BY <2>10, <3>2, <3>3 DEF DropPod
  <2>11. warm[q] # NoWarm => warm[q].pod \in Pods
    BY <1>0 DEF HasPod
  <2>12. CASE MapEnd(q)
    BY <2>11, <2>12, <2>e DEF MapEnd, CloseWarm
  <2>13. CASE Close(q) \/ Exit(q)
    BY <2>11, <2>13, <2>e DEF Close, Exit, CloseWarm
  <2>14. CASE Crash(q)
    <3>1. Live(p) /\ due[p] = None
      BY <2>14 DEF Crash, server, Live
    <3>2. CASE phase[q] = "arm" /\ cur[q].pod = p
      BY <2>14, <3>2 DEF Crash, Known
    <3>3. CASE phase[q] # "arm" \/ cur[q].pod # p
      BY <2>14, <2>c, <3>1, <3>3 DEF Crash
    <3>4. QED
      BY <3>2, <3>3
  <2>15. QED
    BY <1>4, <2>1, <2>2, <2>3, <2>4, <2>5, <2>7, <2>8, <2>9, <2>10, <2>12, <2>13, <2>14 DEF Process
<1>5. QED
  BY <1>1, <1>2, <1>3, <1>4, Steps

\* A pod that bills without a removal time is one the user was warned of, one that is about to
\* get it, or one whose caller has just died: with any processes side by side.
THEOREM UnscheduledAreKnown == Spec => []UnscheduledIsKnown
<1>1. Init => UnscheduledIsKnown
  BY DEF Init, UnscheduledIsKnown, Live
<1>2. TInv /\ UnscheduledIsKnown /\ [Next]_vars => UnscheduledIsKnown'
  BY UnscheduledStep
<1>3. QED
  BY <1>1, <1>2, TypeInvariant, PTL DEF Spec

-----------------------------------------------------------------------------
(* The window of a run (RunHasItsWindow).                                  *)

Running(q)  == phase[q] = "run" /\ armed[q] /\ clock[q] > 0
InWindow(q) == Live(cur[q].pod) /\ due[cur[q].pod] > clock[q]

\* Another process ends its own use of the pod: it leaves it warm, or removes it.
Cut(q) ==
  \E r \in Procs \ {q} :
    \/ (KeepPod(r) \/ DropPod(r)) /\ cur[r].pod = cur[q].pod
    \/ (MapEnd(r) \/ Close(r) \/ Exit(r)) /\ warm[r].pod = cur[q].pod

\* A process changes nothing of another's, nor the pod that the other runs on, unless it cuts it.
LEMMA OtherKeepsWindow ==
  ASSUME TInv, NEW q \in Procs, NEW r \in Procs \ {q}, Process(r), Running(q), InWindow(q)
  PROVE  InWindow(q)' \/ Cut(q)
<1> DEFINE p == cur[q].pod
<1>1. p \in Pods /\ clock[q] \in 0 .. Timeout /\ life \in [Pods -> {"none", "booting", "running", "gone"}]
      /\ due \in [Pods -> Nat] /\ Live(p) /\ due[p] > clock[q]
  BY DEF TInv, TypeOK, ServerType, ProcessType, HasPod, Using, Running, InWindow
<1>2. cur'[q] = cur[q] /\ clock'[q] = clock[q]
  BY DEF TInv, TypeOK, ProcessType, Process, Start, Call, FindWarm, FindNone, Rent, RentUnknown, NoPod, Arm, Boot,
     Setup, Run, Ran, KeepPod, DropPod, CallEnd, MapEnd, Close, Exit, Crash
<1>3. SUFFICES ASSUME ~Cut(q) PROVE life'[p] \in {"booting", "running"} /\ due'[p] > clock[q]
  BY <1>2 DEF InWindow, Live
<1>4. CASE life' = life /\ due' = due
  BY <1>1, <1>4 DEF Live
<1>5. ASSUME NEW o \in Pods, Made(r, o), due' = due PROVE life'[p] \in {"booting", "running"} /\ due'[p] > clock[q]
  BY <1>1, <1>5 DEF Made, Live
<1>6. ASSUME NEW o, Schedule(r, o, Ttl(cur[r])), life' = life
      PROVE  life'[p] \in {"booting", "running"} /\ due'[p] > clock[q]
  <2>1. cur[r] \in Calls
    BY DEF TInv, TypeOK, ProcessType
  <2>2. Ttl(cur[r]) \in Nat /\ Ttl(cur[r]) > Timeout /\ Timeout \in Nat
    BY <2>1, Windows, MachineAssumption
  <2>3. due' = due \/ due' = [due EXCEPT ![o] = Ttl(cur[r])]
    BY <1>6 DEF Schedule
  <2> QED
    BY <1>1, <1>6, <2>2, <2>3 DEF Live
<1>7. CASE KeepPod(r)
  <2>1. cur[r].pod # p
    BY <1>3, <1>7 DEF Cut
  <2>2. life' = life /\ (due' = due \/ \E n : due' = [due EXCEPT ![cur[r].pod] = n])
    BY <1>7 DEF KeepPod, Schedule
  <2> QED
    BY <1>1, <2>1, <2>2 DEF Live
<1>8. ASSUME NEW o, Down(o), o # p PROVE life'[p] \in {"booting", "running"} /\ due'[p] > clock[q]
  BY <1>1, <1>8 DEF Down, server, Live
<1>9. CASE DropPod(r)
  <2>1. cur[r].pod # p
    BY <1>3, <1>9 DEF Cut
  <2> QED
    BY <1>4, <1>8, <1>9, <2>1 DEF DropPod, server
<1>10. CASE MapEnd(r) \/ Close(r) \/ Exit(r)
  <2>1. warm[r].pod # p
    BY <1>3, <1>10 DEF Cut
  <2>2. (life' = life /\ due' = due) \/ Down(warm[r].pod)
    BY <1>10 DEF MapEnd, Close, Exit, CloseWarm, NoDown, server
  <2> QED
    BY <1>4, <1>8, <2>1, <2>2
<1>11. CASE Rent(r) \/ RentUnknown(r)
  BY <1>5, <1>11 DEF Rent, RentUnknown
<1>12. CASE Arm(r) \/ Run(r)
  BY <1>6, <1>12 DEF Arm, Run
<1>13. CASE Start(r) \/ (\E f \in Funcs : Call(r, f)) \/ FindWarm(r) \/ FindNone(r) \/ NoPod(r) \/ Boot(r)
            \/ Setup(r) \/ Ran(r) \/ CallEnd(r) \/ Crash(r)
  BY <1>4, <1>13 DEF Start, Call, FindWarm, FindNone, NoPod, Boot, Setup, Ran, CallEnd, Crash, server
<1> QED
  BY <1>7, <1>9, <1>10, <1>11, <1>12, <1>13 DEF Process

LEMMA WindowStep ==
  ASSUME TInv, [Next]_vars, NEW q \in Procs, Running(q) => InWindow(q), Running(q)'
  PROVE  InWindow(q)' \/ Cut(q)
<1>0. ServerType /\ ProcessType /\ HasPod
  BY DEF TInv, TypeOK
<1>a. ASSUME phase[q] = "run", armed[q], clock[q] > 0
      PROVE  Live(cur[q].pod) /\ due[cur[q].pod] > clock[q] /\ cur[q].pod \in Pods
  BY <1>0, <1>a DEF Running, InWindow, HasPod, Using
<1>b. phase'[q] = "run" /\ armed'[q] /\ clock'[q] > 0
  BY DEF Running
<1> DEFINE Goal == Live(cur[q].pod)' /\ due'[cur'[q].pod] > clock'[q]
<1>c. SUFFICES Goal \/ Cut(q)
  BY DEF InWindow
<1>1. CASE UNCHANGED vars
  BY <1>a, <1>b, <1>1 DEF vars, server, Live
<1>2. CASE Tick
  <2>1. phase[q] = "run" /\ armed[q] /\ clock'[q] = Less(clock[q]) /\ cur'[q].pod = cur[q].pod
    BY <1>0, <1>b, <1>2 DEF Tick, ProcessType, Calls
  <2>2. clock[q] \in Nat /\ clock[q] > 1 /\ clock'[q] = clock[q] - 1
    BY <1>0, <1>b, <2>1, MachineAssumption DEF Less, ProcessType
  <2>3. Live(cur[q].pod) /\ due[cur[q].pod] > clock[q] /\ cur[q].pod \in Pods
    BY <1>a, <2>1, <2>2
  <2>4. due[cur[q].pod] \in Nat
    BY <1>0, <2>3 DEF ServerType
  <2>5. due'[cur[q].pod] = due[cur[q].pod] - 1 /\ life'[cur[q].pod] = life[cur[q].pod]
    BY <1>2, <2>2, <2>3, <2>4 DEF Tick, Less
  <2>6. QED
    BY <2>1, <2>2, <2>3, <2>4, <2>5 DEF Live
<1>3. ASSUME NEW p \in Pods, Started(p) PROVE Goal
  BY <1>0, <1>3, <1>a, <1>b DEF Started, Live, ServerType
<1>4. ASSUME NEW r \in Procs, Process(r), r = q PROVE Goal
  <2>1. r = q
    BY <1>4
  <2>2. Run(q)
    BY <1>0, <1>b, <1>4, <2>1 DEF Process, Start, Call, FindWarm, FindNone, Rent, RentUnknown, NoPod, Arm, Boot,
       Setup, Ran, KeepPod, DropPod, CallEnd, MapEnd, Close, Exit, Crash, Goto, ProcessType
  <2>3. cur[q].pod \in Pods /\ Ttl(cur[q]) > Timeout
    BY <1>0, <2>2, Windows DEF Run, HasPod, Using, ProcessType
  <2>4. Live(cur[q].pod) /\ due' = [due EXCEPT ![cur[q].pod] = Ttl(cur[q])]
    BY <1>0, <1>b, <2>2 DEF Run, Schedule, ProcessType
  <2>5. clock'[q] = Timeout /\ cur' = cur /\ life' = life
    BY <1>0, <2>2 DEF Run, ProcessType
  <2>6. QED
    BY <1>0, <2>3, <2>4, <2>5 DEF Live, ServerType
<1>5. ASSUME NEW r \in Procs \ {q}, Process(r) PROVE InWindow(q)' \/ Cut(q)
  <2>1. Running(q)
    BY <1>0, <1>b, <1>5 DEF Running, ProcessType, Process, Start, Call, FindWarm, FindNone, Rent, RentUnknown, NoPod,
       Arm, Boot, Setup, Run, Ran, KeepPod, DropPod, CallEnd, MapEnd, Close, Exit, Crash, Goto, Schedule
  <2>2. InWindow(q)
    BY <2>1
  <2> QED
    BY <1>5, <2>1, <2>2, OtherKeepsWindow
<1>6. QED
  BY <1>1, <1>2, <1>3, <1>4, <1>5, Steps DEF InWindow

\* Whatever other processes do with the pod of a run, nothing cuts the run short but the end of
\* another's call on that pod, of its map or of the process, or its close(): to find the pod, to
\* set its removal time for another run, to rent and to die all leave the run its window.
THEOREM OnlyEndsCutRuns ==
  Spec => [][\A q \in Procs : (Running(q) => InWindow(q)) /\ Running(q)' => InWindow(q)' \/ Cut(q)]_vars
<1>1. TInv /\ [Next]_vars =>
        [\A q \in Procs : (Running(q) => InWindow(q)) /\ Running(q)' => InWindow(q)' \/ Cut(q)]_vars
  BY WindowStep
<1> QED
  BY <1>1, TypeInvariant, PTL DEF Spec

OneProcess == \A q, r \in Procs : q = r

\* A run whose removal time could be set gets its full window, whatever functions, pods, timeout
\* and margins, when no other process uses the pod.
THEOREM RunsHaveTheirWindow == ASSUME OneProcess PROVE Spec => []RunHasItsWindow
<1>1. Init => RunHasItsWindow
  BY DEF Init, RunHasItsWindow
<1>2. TInv /\ RunHasItsWindow /\ [Next]_vars => RunHasItsWindow'
  <2> SUFFICES ASSUME TInv, RunHasItsWindow, [Next]_vars, NEW q \in Procs, Running(q)'
               PROVE  InWindow(q)'
    BY DEF RunHasItsWindow, Running, InWindow
  <2>1. Running(q) => InWindow(q)
    BY DEF RunHasItsWindow, Running, InWindow
  <2>2. ~Cut(q)
    BY OneProcess DEF OneProcess, Cut
  <2> QED
    BY <2>1, <2>2, WindowStep
<1>3. QED
  BY <1>1, <1>2, TypeInvariant, PTL DEF Spec

-----------------------------------------------------------------------------
(* Whose pod a call, a map or a process removes (OnlyOwnRemoved), and what *)
(* a process leaves when it exits (ExitLeavesNothing).                     *)

\* Where a process is with its pod: what it holds or found runs or is gone, and a call that is to
\* clean up holds at most the pod it uses.
Standing(q) ==
  /\ warm[q] # NoWarm => life[warm[q].pod] \in {"running", "gone"}
  /\ phase[q] \in Using => life[cur[q].pod] # "none"
  /\ phase[q] \in {"setup", "rearm", "run", "release"} \/ (phase[q] = "arm" /\ cur[q].was # NoWarm)
       => life[cur[q].pod] \in {"running", "gone"}
  /\ phase[q] \in {"find", "rent", "boot", "drop"} => cur[q].was = NoWarm
  /\ cur[q].was # NoWarm => cur[q].was.pod \in Pods
  /\ phase[q] = "find" \/ (phase[q] \in Using /\ cur[q].was # NoWarm) => cur[q].f.cleanup
  /\ phase[q] \in Using \cup {"rent"} /\ cur[q].f.cleanup /\ warm[q] # NoWarm =>
       phase[q] # "rent" /\ warm[q].pod = cur[q].pod /\ (warm[q].owned => Owned(cur[q]))

\* What a process takes for its own, it has rented; and what it keeps of that is excused.
Rightful(q) ==
  /\ warm[q].owned /\ Live(warm[q].pod) => warm[q].pod \in mine[q] /\ (warm[q].keep > 0 => warm[q].pod \in excused)
  /\ phase[q] \in Using /\ Owned(cur[q]) /\ Live(cur[q].pod) => cur[q].pod \in mine[q]

\* What a process has rented is gone, excused, in use or in memory.
Accounted(q) ==
  \A p \in mine[q] :
    \/ life[p] = "gone" \/ p \in excused
    \/ phase[q] \in Using /\ Owned(cur[q]) /\ p = cur[q].pod
    \/ warm[q].owned /\ p = warm[q].pod

OInv == TInv /\ \A q \in Procs : Standing(q) /\ Rightful(q) /\ Accounted(q)

\* What is gone stays gone, what runs never boots again, and only what is gone is no longer excused.
LEMMA LifeGoesOn ==
  ASSUME TInv, [Next]_vars, NEW p \in Pods
  PROVE  /\ life[p] = "gone" => life'[p] = "gone"
         /\ life[p] \in {"running", "gone"} => life'[p] \in {"running", "gone"}
         /\ life[p] # "none" => life'[p] # "none"
         /\ p \in excused => p \in excused' \/ life'[p] = "gone"
<1>0. ServerType /\ HasPod
  BY DEF TInv, TypeOK
<1> USE <1>0 DEF ServerType
<1>1. CASE UNCHANGED vars
  BY <1>1 DEF vars, server, history
<1>2. CASE Tick
  BY <1>2 DEF Tick
<1>3. ASSUME NEW o \in Pods, Started(o) PROVE life'[p] = IF o = p THEN "running" ELSE life[p]
  BY <1>3 DEF Started
<1>4. ASSUME NEW o \in Pods, Started(o) PROVE excused' = excused /\ life[o] = "booting"
  BY <1>4 DEF Started, history
<1>5. ASSUME NEW q \in Procs, Process(q)
      PROVE  \/ (life' = life \/ \E o \in Pods : life[o] = "none" /\ life' = [life EXCEPT ![o] = "booting"])
                /\ excused \subseteq excused'
             \/ \E o \in Pods : life' = [life EXCEPT ![o] = "gone"] /\ excused' = excused \ {o}
  <2>1. \A o : Down(o) => \/ life' = life /\ excused \subseteq excused'
                          \/ life' = [life EXCEPT ![o] = "gone"] /\ excused' = excused \ {o}
    BY DEF Down, server
  <2>2. CASE DropPod(q) \/ MapEnd(q) \/ Close(q) \/ Exit(q)
    <3>1. phase[q] \in {"drop", "release"} => cur[q].pod \in Pods
      BY DEF HasPod, Using
    <3>2. warm[q] # NoWarm => warm[q].pod \in Pods
      BY DEF HasPod
    <3>3. CASE DropPod(q)
      <4>1. Down(cur[q].pod) \/ (UNCHANGED life /\ excused \subseteq excused')
        BY <3>3 DEF DropPod, server
      <4>2. QED
        BY <2>1, <3>1, <3>3, <4>1 DEF DropPod
    <3>4. CASE MapEnd(q) \/ Close(q) \/ Exit(q)
      <4>1. NoDown \/ (warm[q] # NoWarm /\ Down(warm[q].pod))
        BY <3>4 DEF MapEnd, Close, CloseWarm, Exit
      <4>2. QED
        BY <2>1, <3>2, <4>1 DEF NoDown, server
    <3>5. QED
      BY <2>2, <3>3, <3>4
  <2>3. CASE Rent(q) \/ RentUnknown(q)
    BY <2>3 DEF Rent, RentUnknown, Made
  <2>4. CASE ~(DropPod(q) \/ MapEnd(q) \/ Close(q) \/ Exit(q) \/ Rent(q) \/ RentUnknown(q))
    BY <1>5, <2>4 DEF Process, Start, Call, FindWarm, FindNone, NoPod, Arm, Boot, Setup, Run, Ran, KeepPod, CallEnd,
       Crash, server, history
  <2>5. QED
    BY <2>2, <2>3, <2>4
<1>6. ASSUME NEW q \in Procs, Process(q)
      PROVE  /\ life[p] = "gone" => life'[p] = "gone"
             /\ life[p] \in {"running", "gone"} => life'[p] \in {"running", "gone"}
             /\ life[p] # "none" => life'[p] # "none"
             /\ p \in excused => p \in excused' \/ life'[p] = "gone"
  BY <1>5, <1>6
<1>7. QED
  BY <1>1, <1>2, <1>3, <1>4, <1>6, Steps

\* A process to which nothing happens but the passing of time.
Alike(q) ==
  /\ phase'[q] = phase[q]
  /\ warm'[q].pod = warm[q].pod /\ warm'[q].owned = warm[q].owned /\ warm'[q].keep = warm[q].keep
  /\ warm'[q] = NoWarm <=> warm[q] = NoWarm
  /\ cur'[q].pod = cur[q].pod /\ cur'[q].f = cur[q].f
  /\ cur'[q].was.pod = cur[q].was.pod /\ cur'[q].was.owned = cur[q].was.owned
  /\ cur'[q].was = NoWarm <=> cur[q].was = NoWarm
  /\ mine'[q] \subseteq mine[q] /\ \A p \in mine[q] : p \in mine'[q] \/ life'[p] = "gone"

\* To such a process its pods stay what they were, whatever the others do to them.
LEMMA AlikeStep ==
  ASSUME OInv, [Next]_vars, NEW q \in Procs, Alike(q)
  PROVE  Standing(q)' /\ Rightful(q)' /\ Accounted(q)'
<1>0. TypeOK /\ HasPod /\ Standing(q) /\ Rightful(q) /\ Accounted(q)
  BY DEF OInv, TInv
<1>1. Owned(cur[q])' <=> Owned(cur[q])
  BY DEF Alike, Owned
<1>2. /\ warm[q] # NoWarm => warm[q].pod \in Pods
      /\ phase[q] \in Using => cur[q].pod \in Pods
      /\ mine[q] \subseteq Pods
  BY <1>0 DEF HasPod, TypeOK, HistoryType
<1>3. ~NoWarm.owned
  BY DEF NoWarm
<1>4. Standing(q)'
  <2>1. warm'[q] # NoWarm => life'[warm'[q].pod] \in {"running", "gone"}
    BY <1>0, <1>2, LifeGoesOn DEF Standing, Alike, OInv
  <2>2. phase'[q] \in Using => life'[cur'[q].pod] # "none"
    BY <1>0, <1>2, LifeGoesOn DEF Standing, Alike, OInv
  <2>3. phase'[q] \in {"setup", "rearm", "run", "release"} \/ (phase'[q] = "arm" /\ cur'[q].was # NoWarm)
          => life'[cur'[q].pod] \in {"running", "gone"}
    BY <1>0, <1>2, LifeGoesOn DEF Standing, Alike, OInv, Using
  <2>4. QED
    BY <1>0, <1>1, <2>1, <2>2, <2>3 DEF Standing, Alike
<1>5. Rightful(q)'
  <2>1. ASSUME warm'[q].owned, Live(warm[q].pod)' PROVE Live(warm[q].pod) /\ warm'[q].pod \in Pods
    BY <1>0, <1>2, <1>3, <2>1, LifeGoesOn DEF Standing, Alike, OInv, Live, TypeOK, ServerType
  <2>2. ASSUME phase'[q] \in Using, Live(cur[q].pod)' PROVE Live(cur[q].pod) /\ cur'[q].pod \in Pods
    BY <1>0, <1>2, <2>2, LifeGoesOn DEF Standing, Alike, OInv, Live, TypeOK, ServerType
  <2>3. QED
    BY <1>0, <1>1, <2>1, <2>2, LifeGoesOn DEF Rightful, Alike, OInv, Live
<1>6. Accounted(q)'
  BY <1>0, <1>1, <1>2, LifeGoesOn DEF Accounted, Alike, OInv
<1>7. QED
  BY <1>4, <1>5, <1>6

\* Time, the server and the other processes leave a process alone.
LEMMA TimeIsAlike == ASSUME OInv, Tick, NEW q \in Procs PROVE Alike(q)
<1>0. TypeOK /\ Standing(q) /\ HasPod
  BY DEF OInv, TInv
<1>1. cur[q] \in Calls /\ warm[q] \in Warms
  BY <1>0 DEF TypeOK, ProcessType
<1>2. /\ cur'[q] = [cur[q] EXCEPT !.was = [cur[q].was EXCEPT !.prev = Less(@)]]
      /\ warm'[q] = [warm[q] EXCEPT !.prev = Less(@)]
      /\ phase' = phase /\ mine'[q] = {p \in mine[q] : life'[p] # "gone"}
  BY DEF Tick
<1>3. cur[q].was \in Warms
  BY <1>1 DEF Calls
<1>4. \A w \in Warms : w # NoWarm /\ w.pod # None
                       => /\ [w EXCEPT !.prev = Less(@)].pod = w.pod
                          /\ [w EXCEPT !.prev = Less(@)] # NoWarm
  BY DEF Warms, NoWarm
<1>5. [NoWarm EXCEPT !.prev = Less(@)] = NoWarm
  BY DEF NoWarm, Less
<1>6. /\ warm[q] # NoWarm => warm[q].pod # None
      /\ cur[q].was # NoWarm => cur[q].was.pod # None
  BY <1>0 DEF HasPod, Standing, Pods, None
<1>7. cur'[q].was = [cur[q].was EXCEPT !.prev = Less(@)] /\ cur'[q].pod = cur[q].pod /\ cur'[q].f = cur[q].f
  BY <1>1, <1>2 DEF Calls
<1>8. cur'[q].was = NoWarm <=> cur[q].was = NoWarm
  BY <1>3, <1>4, <1>5, <1>6, <1>7
<1>9. warm'[q] = NoWarm <=> warm[q] = NoWarm
  BY <1>1, <1>2, <1>4, <1>5, <1>6
<1>10. cur'[q].was.pod = cur[q].was.pod /\ cur'[q].was.owned = cur[q].was.owned
  BY <1>3, <1>7 DEF Warms
<1>11. warm'[q].pod = warm[q].pod /\ warm'[q].owned = warm[q].owned /\ warm'[q].keep = warm[q].keep
  BY <1>1, <1>2 DEF Warms
<1>12. QED
  BY <1>2, <1>7, <1>8, <1>9, <1>10, <1>11 DEF Alike

LEMMA OthersAreAlike ==
  ASSUME OInv, NEW q \in Procs, NEW r \in Procs, r # q, Process(r)
  PROVE  Alike(q)
<1>0. TypeOK
  BY DEF OInv, TInv
<1>1. phase'[q] = phase[q]
  BY <1>0 DEF Process, Start, Call, FindWarm, FindNone, Rent, RentUnknown, NoPod, Arm, Boot,
     Setup, Run, Ran, KeepPod, DropPod, CallEnd, MapEnd, Close, Exit, Crash, Goto, TypeOK, ProcessType
<1>2. cur'[q] = cur[q]
  BY <1>0 DEF Process, Start, Call, FindWarm, FindNone, Rent, RentUnknown, NoPod, Arm, Boot,
     Setup, Run, Ran, KeepPod, DropPod, CallEnd, MapEnd, Close, Exit, Crash, TypeOK, ProcessType
<1>3. warm'[q] = warm[q]
  BY <1>0 DEF Process, Start, Call, FindWarm, FindNone, Rent, RentUnknown, NoPod, Arm, Boot, CloseWarm,
     Setup, Run, Ran, KeepPod, DropPod, CallEnd, MapEnd, Close, Exit, Crash, TypeOK, ProcessType
<1>4. mine'[q] = mine[q]
  BY <1>0 DEF Process, Start, Call, FindWarm, FindNone, Rent, RentUnknown, NoPod, Arm, Boot, Made, history,
     Setup, Run, Ran, KeepPod, DropPod, CallEnd, MapEnd, Close, Exit, Crash, TypeOK, HistoryType
<1>5. QED
  BY <1>1, <1>2, <1>3, <1>4 DEF Alike

\* Steps of a process that change neither pods nor what it holds.
LEMMA CallStep ==
  ASSUME OInv, [Next]_vars, NEW q \in Procs,
         \/ Start(q) \/ (\E f \in Funcs : Call(q, f)) \/ NoPod(q) \/ Arm(q) \/ Boot(q) \/ Setup(q)
         \/ Run(q) \/ Ran(q) \/ CallEnd(q)
  PROVE  Standing(q)' /\ Rightful(q)' /\ Accounted(q)'
<1>0. TypeOK /\ HasPod /\ Standing(q) /\ Rightful(q) /\ Accounted(q)
  BY DEF OInv, TInv
<1>1. cur[q] \in Calls
  BY <1>0 DEF TypeOK, ProcessType
<1>2. UNCHANGED <<life, warm, mine, excused>>
  BY DEF Start, Call, NoPod, Arm, Boot, Setup, Run, Ran, CallEnd, server, history
<1>4. CASE \E f \in Funcs : Call(q, f)
  <2>1. PICK f \in Funcs : Call(q, f)
    BY <1>4
  <2>2. cur'[q].was = NoWarm /\ cur'[q].f = f
    BY <1>0, <2>1 DEF Call, TypeOK, ProcessType
  <2>3. phase[q] = "idle" /\ phase'[q] = IF f.cleanup THEN "find" ELSE "rent"
    BY <1>0, <2>1 DEF Call, Goto, TypeOK, ProcessType
  <2>4. QED
    BY <1>0, <1>2, <2>2, <2>3 DEF Standing, Rightful, Accounted, Using, Live
<1>5. CASE Start(q) \/ NoPod(q)
  BY <1>0, <1>2, <1>5 DEF Start, NoPod, Goto, TypeOK, ProcessType, Standing, Rightful, Accounted, Using, Live
<1>6. CASE Arm(q) \/ Boot(q) \/ Setup(q) \/ Run(q) \/ Ran(q)
  <2>1. cur'[q] = cur[q]
    BY <1>6 DEF Arm, Boot, Setup, Run, Ran
  <2>2. \/ phase[q] = "arm" /\ phase'[q] = IF cur[q].was = NoWarm THEN "boot" ELSE "setup"
        \/ phase[q] = "boot" /\ phase'[q] = "drop"
        \/ phase[q] = "boot" /\ phase'[q] = "setup" /\ life[cur[q].pod] = "running"
        \/ phase[q] = "setup" /\ phase'[q] \in {"rearm", "release"}
        \/ phase[q] = "rearm" /\ phase'[q] = "run"
        \/ phase[q] = "run" /\ phase'[q] = "release"
    BY <1>0, <1>6 DEF Arm, Boot, Setup, Run, Ran, Goto, TypeOK, ProcessType
  <2>3. Standing(q)'
    BY <1>0, <1>2, <2>1, <2>2 DEF Standing, Using, Owned
  <2>4. Rightful(q)' /\ Accounted(q)'
    BY <1>0, <1>2, <2>1, <2>2 DEF Rightful, Accounted, Using, Live, Owned
  <2>5. QED
    BY <2>3, <2>4
<1>7. CASE CallEnd(q)
  <2> DEFINE Ended == /\ cur'[q].was = NoWarm
                      /\ phase'[q] = "find" => cur'[q].f.cleanup
                      /\ phase'[q] = "rent" => ~cur'[q].f.cleanup
  <2>1. phase[q] = "end" /\ phase'[q] \in {"idle", "mapend", "find", "rent"}
    BY <1>0, <1>7 DEF CallEnd, Goto, TypeOK, ProcessType
  <2>2. ASSUME cur[q].map PROVE Ended
    <3>1. cur'[q] = [cur[q] EXCEPT !.pod = None, !.was = NoWarm]
      BY <1>0, <1>7, <2>2 DEF CallEnd, TypeOK, ProcessType
    <3>2. cur'[q].was = NoWarm /\ cur'[q].f = cur[q].f
      BY <1>1, <3>1 DEF Calls
    <3>3. phase'[q] \in {"mapend", IF cur[q].f.cleanup THEN "find" ELSE "rent"}
      BY <1>0, <1>7, <2>2 DEF CallEnd, Goto, TypeOK, ProcessType
    <3>4. QED
      BY <3>2, <3>3
  <2>3. ASSUME ~cur[q].map PROVE Ended
    <3>1. cur'[q] = NoCall /\ phase'[q] = "idle"
      BY <1>0, <1>7, <2>3 DEF CallEnd, Goto, TypeOK, ProcessType
    <3>2. QED
      BY <3>1 DEF NoCall
  <2>4. Ended
    BY <2>2, <2>3
  <2>5. QED
    BY <1>0, <1>2, <2>1, <2>4 DEF Standing, Rightful, Accounted, Using, Live
<1>8. QED
  BY <1>4, <1>5, <1>6, <1>7

\* A pod found is whose it was; what is forgotten instead is gone.
LEMMA FindStep ==
  ASSUME OInv, [Next]_vars, NEW q \in Procs, FindWarm(q) \/ FindNone(q)
  PROVE  Standing(q)' /\ Rightful(q)' /\ Accounted(q)'
<1>0. TypeOK /\ HasPod /\ Standing(q) /\ Rightful(q) /\ Accounted(q)
  BY DEF OInv, TInv
<1>1. cur[q] \in Calls /\ warm[q] \in Warms /\ mine[q] \subseteq Pods
  BY <1>0 DEF TypeOK, ProcessType, HistoryType
<1>2. phase[q] = "find" /\ UNCHANGED <<life, mine, excused>> /\ cur[q].was = NoWarm /\ cur[q].f.cleanup
  BY <1>0 DEF FindWarm, FindNone, server, history, Standing
<1>3. ~NoWarm.owned /\ NoWarm.pod = None
  BY DEF NoWarm
\* A pod in memory that is not held is gone.
<1>4. ~Held(q) /\ warm[q].owned => life[warm[q].pod] = "gone"
  <2>1. warm[q].owned => warm[q].pod \in Pods
    BY <1>0, <1>3 DEF HasPod
  <2>2. QED
    BY <1>0, <1>3, <2>1 DEF Held, Standing, Pods, None
<1>5. CASE FindNone(q)
  <2>1. warm'[q] = NoWarm /\ cur' = cur /\ phase'[q] = "rent" /\ ~Held(q)
    BY <1>0, <1>5 DEF FindNone, Goto, TypeOK, ProcessType
  <2>2. Standing(q)' /\ Rightful(q)'
    BY <1>2, <1>3, <2>1 DEF Standing, Rightful, Using
  <2>3. Accounted(q)'
    BY <1>0, <1>2, <1>4, <2>1 DEF Accounted, Using
  <2>4. QED
    BY <2>2, <2>3
<1>6. CASE FindWarm(q) /\ Held(q)
  <2>1. cur' = [cur EXCEPT ![q] = [@ EXCEPT !.pod = warm[q].pod, !.was = warm[q]]] /\ warm' = warm
    BY <1>6 DEF FindWarm
  <2>2. cur'[q] = [cur[q] EXCEPT !.pod = warm[q].pod, !.was = warm[q]] /\ phase'[q] = "arm"
    BY <1>0, <1>6, <2>1 DEF FindWarm, Goto, TypeOK, ProcessType
  <2>3. cur'[q].pod = warm[q].pod /\ cur'[q].was = warm[q] /\ cur'[q].f = cur[q].f
    BY <1>1, <2>2 DEF Calls
  <2>4. warm[q] # NoWarm /\ warm[q].pod \in Pods /\ life[warm[q].pod] = "running"
    BY <1>0, <1>3, <1>6 DEF Held, HasPod
  <2>5. Owned(cur[q])' <=> warm[q].owned
    BY <2>3, <2>4 DEF Owned
  <2>6. Standing(q)'
    BY <1>2, <2>1, <2>2, <2>3, <2>4, <2>5 DEF Standing, Using
  <2>7. Rightful(q)' /\ Accounted(q)'
    BY <1>0, <1>2, <2>1, <2>2, <2>3, <2>5 DEF Rightful, Accounted, Live, Using
  <2>8. QED
    BY <2>6, <2>7
<1>7. CASE FindWarm(q) /\ ~Held(q)
  <2>1. PICK p \in Named :
          /\ cur' = [cur EXCEPT ![q] = [@ EXCEPT !.pod = p,
               !.was = [pod |-> p, owned |-> FALSE, keep |-> 0, prev |-> due[p]]]]
          /\ warm' = [warm EXCEPT ![q] = NoWarm]
    BY <1>7 DEF FindWarm
  <2>2. p \in Pods /\ life[p] = "running"
    BY <1>0, <2>1 DEF Named, TypeOK, ServerType
  <2>3. phase'[q] = "arm" /\ warm'[q] = NoWarm
    BY <1>0, <1>7, <2>1 DEF FindWarm, Goto, TypeOK, ProcessType
  <2>4. cur'[q] = [cur[q] EXCEPT !.pod = p, !.was = [pod |-> p, owned |-> FALSE, keep |-> 0, prev |-> due[p]]]
    BY <1>0, <2>1 DEF TypeOK, ProcessType
  <2>5. cur'[q].pod = p /\ cur'[q].f = cur[q].f
        /\ cur'[q].was = [pod |-> p, owned |-> FALSE, keep |-> 0, prev |-> due[p]]
    BY <1>1, <2>4 DEF Calls
  <2>6. cur'[q].was.pod = p /\ ~cur'[q].was.owned /\ cur'[q].was # NoWarm
    BY <1>3, <2>2, <2>5 DEF Pods, None
  <2>7. ~Owned(cur[q])'
    BY <2>6 DEF Owned
  <2>8. Standing(q)'
    BY <1>2, <2>2, <2>3, <2>5, <2>6 DEF Standing, Using
  <2>9. Rightful(q)'
    BY <1>3, <2>3, <2>7 DEF Rightful
  <2>10. Accounted(q)'
    BY <1>0, <1>2, <1>4, <1>7, <2>3 DEF Accounted, Using
  <2>11. QED
    BY <2>8, <2>9, <2>10
<1>8. QED
  BY <1>5, <1>6, <1>7

\* A pod rented is the process's own.
LEMMA RentStep ==
  ASSUME OInv, [Next]_vars, NEW q \in Procs, Rent(q) \/ RentUnknown(q)
  PROVE  Standing(q)' /\ Rightful(q)' /\ Accounted(q)'
<1>0. TypeOK /\ HasPod /\ Standing(q) /\ Rightful(q) /\ Accounted(q)
  BY DEF OInv, TInv
<1>1. cur[q] \in Calls /\ mine[q] \subseteq Pods
  BY <1>0 DEF TypeOK, ProcessType, HistoryType
<1>2. phase[q] = "rent" /\ warm' = warm /\ cur[q].was = NoWarm
  BY <1>0 DEF Rent, RentUnknown, Standing
<1>3. PICK p \in Pods : /\ Made(q, p)
                        /\ \/ cur' = [cur EXCEPT ![q].pod = p] /\ phase'[q] = "arm" /\ excused' = excused
                           \/ cur' = cur /\ phase'[q] = "end" /\ excused' = excused \cup {p}
  BY <1>0 DEF Rent, RentUnknown, Goto, TypeOK, ProcessType
<1>4. life[p] = "none" /\ life' = [life EXCEPT ![p] = "booting"] /\ mine'[q] = mine[q] \cup {p}
  BY <1>0, <1>3 DEF Made, TypeOK, HistoryType
<1>5. life'[p] = "booting" /\ \A o \in Pods \ {p} : life'[o] = life[o]
  BY <1>0, <1>4 DEF TypeOK, ServerType
<1>6. cur'[q].was = cur[q].was /\ cur'[q].f = cur[q].f /\ (phase'[q] = "arm" => cur'[q].pod = p)
  BY <1>0, <1>1, <1>3 DEF TypeOK, ProcessType, Calls
<1>7. warm[q] # NoWarm => warm[q].pod \in Pods \ {p}
  BY <1>0, <1>4 DEF HasPod, Standing
<1>8. ~NoWarm.owned
  BY DEF NoWarm
<1>9. Standing(q)'
  BY <1>0, <1>2, <1>3, <1>5, <1>6, <1>7 DEF Standing, Using
<1>10. Rightful(q)'
  BY <1>0, <1>2, <1>3, <1>4, <1>5, <1>6, <1>7, <1>8 DEF Rightful, Using, Live
<1>11. Accounted(q)'
  <2>1. Owned(cur[q])'
    BY <1>2, <1>6 DEF Owned
  <2>2. ASSUME NEW o \in mine[q], o # p PROVE life'[o] = "gone" \/ o \in excused' \/ (warm'[q].owned /\ o = warm'[q].pod)
    BY <1>0, <1>1, <1>2, <1>3, <1>5, <2>2 DEF Accounted, Using
  <2>3. QED
    BY <1>3, <1>4, <1>6, <2>1, <2>2 DEF Accounted, Using
<1>12. QED
  BY <1>9, <1>10, <1>11

\* A pod that is kept stays the process's own if it was; one that is to stay warm is excused.
LEMMA KeepStep ==
  ASSUME OInv, [Next]_vars, NEW q \in Procs, KeepPod(q)
  PROVE  Standing(q)' /\ Rightful(q)' /\ Accounted(q)'
<1>0. TypeOK /\ HasPod /\ Standing(q) /\ Rightful(q) /\ Accounted(q)
  BY DEF OInv, TInv
<1>1. cur[q] \in Calls /\ mine[q] \subseteq Pods /\ warm[q] \in Warms /\ cur[q].pod \in Pods
  BY <1>0 DEF TypeOK, ProcessType, HistoryType, KeepPod, HasPod, Using
<1>2. phase[q] = "release" /\ UNCHANGED <<life, cur, mine>> /\ phase'[q] = "end"
  BY <1>0 DEF KeepPod, Goto, TypeOK, ProcessType
<1>3. warm'[q] = [pod |-> cur[q].pod, owned |-> Owned(cur[q]), keep |-> Stay(cur[q]), prev |-> cur[q].was.prev]
  BY <1>0 DEF KeepPod, TypeOK, ProcessType
<1>4. life[cur[q].pod] \in {"running", "gone"}
  BY <1>0, <1>2 DEF Standing
<1>5. warm'[q].pod = cur[q].pod /\ (warm'[q].owned <=> Owned(cur[q])) /\ warm'[q].keep = Stay(cur[q])
  BY <1>3
<1>6. excused \subseteq excused'
      /\ (Owned(cur[q]) /\ Stay(cur[q]) > 0 /\ Live(cur[q].pod) => cur[q].pod \in excused')
  BY DEF KeepPod
<1>7. cur[q].f.cleanup
  BY <1>0, <1>1, <1>2 DEF KeepPod, Keeps, Standing, Using
<1>8. Standing(q)'
  BY <1>0, <1>2, <1>4, <1>5 DEF Standing, Using
<1>9. Rightful(q)'
  BY <1>0, <1>2, <1>5, <1>6 DEF Rightful, Using, Live
<1>10. Accounted(q)'
  <2>1. warm[q].owned => warm[q].pod = cur[q].pod /\ Owned(cur[q])
    BY <1>0, <1>2, <1>7 DEF Standing, Using, NoWarm
  <2>2. QED
    BY <1>0, <1>2, <1>5, <1>6, <2>1 DEF Accounted
<1>11. QED
  BY <1>8, <1>9, <1>10

\* A pod that is dropped, or closed, is gone or its removal failed and it is excused.
LEMMA DownExcuses ==
  ASSUME TypeOK, NEW p \in Pods, Down(p)
  PROVE  /\ life'[p] = "gone" \/ p \in excused'
         /\ \A o \in Pods \ {p} : life'[o] = life[o]
BY DEF Down, TypeOK, ServerType, HistoryType, server

LEMMA DropStep ==
  ASSUME OInv, [Next]_vars, NEW q \in Procs, DropPod(q)
  PROVE  Standing(q)' /\ Rightful(q)' /\ Accounted(q)'
<1>0. TypeOK /\ HasPod /\ Standing(q) /\ Rightful(q) /\ Accounted(q)
  BY DEF OInv, TInv
<1>1. cur[q].pod \in Pods /\ mine[q] \subseteq Pods /\ (warm[q] # NoWarm => warm[q].pod \in Pods) /\ ~NoWarm.owned
  BY <1>0 DEF TypeOK, HistoryType, DropPod, HasPod, Using, NoWarm
<1>2. phase'[q] = "end" /\ UNCHANGED <<warm, cur, mine>>
  BY <1>0 DEF DropPod, Goto, TypeOK, ProcessType
<1>3. life'[cur[q].pod] = "gone" \/ cur[q].pod \in excused'
  BY <1>0, <1>1, DownExcuses DEF DropPod
<1>4. \A p \in Pods : /\ life[p] = "gone" => life'[p] = "gone"
                      /\ life[p] \in {"running", "gone"} => life'[p] \in {"running", "gone"}
                      /\ p \in excused => p \in excused' \/ life'[p] = "gone"
  BY LifeGoesOn DEF OInv
<1>5. Standing(q)'
  BY <1>0, <1>1, <1>2, <1>4 DEF Standing, Using
<1>6. Rightful(q)'
  <2>1. warm[q].owned /\ Live(warm[q].pod)' => Live(warm[q].pod)
    BY <1>0, <1>1, <1>2, <1>4 DEF Standing, Live
  <2>2. QED
    BY <1>0, <1>1, <1>2, <1>4, <2>1 DEF Rightful, Using, Live
<1>7. Accounted(q)'
  BY <1>0, <1>1, <1>2, <1>3, <1>4 DEF Accounted
<1>8. QED
  BY <1>5, <1>6, <1>7

\* What a process closes, forgets or leaves behind.
LEMMA CloseStep ==
  ASSUME OInv, [Next]_vars, NEW q \in Procs, MapEnd(q) \/ Close(q) \/ Exit(q) \/ Crash(q)
  PROVE  Standing(q)' /\ Rightful(q)' /\ Accounted(q)'
<1>0. TypeOK /\ HasPod /\ Standing(q) /\ Rightful(q) /\ Accounted(q)
  BY DEF OInv, TInv
<1>1. mine[q] \subseteq Pods /\ (warm[q] # NoWarm => warm[q].pod \in Pods) /\ ~NoWarm.owned
  BY <1>0 DEF TypeOK, HistoryType, HasPod, NoWarm
<1>2. \A p \in Pods : /\ life[p] = "gone" => life'[p] = "gone"
                      /\ p \in excused => p \in excused' \/ life'[p] = "gone"
  BY LifeGoesOn DEF OInv
<1>3. phase'[q] \in {"idle", "off"} /\ cur'[q] \in {cur[q], NoCall} /\ phase'[q] \notin Using \cup {"find", "rent"}
  BY <1>0 DEF MapEnd, Close, Exit, Crash, Goto, TypeOK, ProcessType, Using
<1>4. NoCall.was = NoWarm
  BY DEF NoCall
<1>5. CASE Exit(q) \/ Crash(q)
  <2>1. warm'[q] = NoWarm /\ mine'[q] = {}
    BY <1>0, <1>5 DEF Exit, Crash, TypeOK, ProcessType, HistoryType
  <2>2. QED
    BY <1>0, <1>1, <1>3, <1>4, <2>1 DEF Standing, Rightful, Accounted, Using
<1>6. CASE MapEnd(q) \/ Close(q)
  <2>1. mine' = mine /\ phase[q] \notin Using
    BY <1>6 DEF MapEnd, Close, Using
  <2>2. \/ warm' = warm /\ NoDown
        \/ warm'[q] = NoWarm /\ NoDown /\ (warm[q] = NoWarm \/ ~warm[q].owned)
        \/ warm'[q] = NoWarm /\ warm[q] # NoWarm /\ Down(warm[q].pod)
    BY <1>0, <1>6 DEF MapEnd, Close, CloseWarm, TypeOK, ProcessType
  <2>3. CASE warm' = warm /\ NoDown
    BY <1>0, <1>3, <1>4, <2>1, <2>3 DEF Standing, Rightful, Accounted, Using, NoDown, server, Live
  <2>4. CASE warm'[q] = NoWarm
    <3>1. Standing(q)' /\ Rightful(q)'
      BY <1>0, <1>1, <1>3, <1>4, <2>4 DEF Standing, Rightful
    <3>2. Accounted(q)'
      <4>1. warm[q].owned => life'[warm[q].pod] = "gone" \/ warm[q].pod \in excused' \/ warm' = warm
        BY <1>0, <1>1, <2>2, DownExcuses
      <4>2. QED
        BY <1>0, <1>1, <1>2, <2>1, <2>4, <4>1 DEF Accounted
    <3>3. QED
      BY <3>1, <3>2
  <2>5. QED
    BY <2>2, <2>3, <2>4
<1>7. QED
  BY <1>5, <1>6

\* The invariant of what processes own is kept.
LEMMA OwnStep == OInv /\ [Next]_vars => OInv'
<1> SUFFICES ASSUME OInv, [Next]_vars PROVE OInv'
  OBVIOUS
<1>1. TInv'
  BY ServerTypeStep, ProcessTypeStep, HistoryTypeStep, HasPodStep DEF OInv, TInv, TypeOK
<1>2. ASSUME NEW q \in Procs PROVE Standing(q)' /\ Rightful(q)' /\ Accounted(q)'
  <2>1. CASE UNCHANGED vars
    BY <2>1, AlikeStep DEF vars, history, Alike
  <2>2. CASE Tick
    BY <2>2, TimeIsAlike, AlikeStep
  <2>3. ASSUME NEW p \in Pods, Started(p) PROVE Standing(q)' /\ Rightful(q)' /\ Accounted(q)'
    BY <2>3, AlikeStep DEF Started, history, Alike
  <2>4. ASSUME NEW r \in Procs, r # q, Process(r) PROVE Standing(q)' /\ Rightful(q)' /\ Accounted(q)'
    BY <2>4, OthersAreAlike, AlikeStep
  <2>5. CASE Process(q)
    BY <2>5, CallStep, FindStep, RentStep, KeepStep, DropStep, CloseStep DEF Process
  <2>6. QED
    BY <2>1, <2>2, <2>3, <2>4, <2>5, Steps
<1>3. QED
  BY <1>1, <1>2 DEF OInv

LEMMA OwnInvariant == Spec => []OInv
<1>1. Init /\ TInv => OInv
  <2> SUFFICES ASSUME Init, TInv, NEW q \in Procs PROVE Standing(q) /\ Rightful(q) /\ Accounted(q)
    BY DEF OInv
  <2>1. warm[q] = NoWarm /\ ~NoWarm.owned /\ phase[q] = "off" /\ mine[q] = {} /\ cur[q].was = NoWarm
    BY DEF Init, NoWarm, NoCall
  <2>2. QED
    BY <2>1 DEF Standing, Rightful, Accounted, Using
<1>2. Spec => []TInv
  BY TypeInvariant
<1>3. QED
  BY <1>1, <1>2, OwnStep, PTL DEF Spec

\* The end of a call, of a map and of a process remove only pods the process rented itself
\* (OnlyOwnRemoved): a pod another one left under the fixed name is never removed by them.
THEOREM OnlyOwnAreRemoved == Spec => OnlyOwnRemoved
<1> DEFINE Safe == \A q \in Procs, p \in Pods :
                     (DropPod(q) \/ MapEnd(q) \/ Exit(q)) /\ Live(p) /\ life'[p] = "gone" => p \in mine[q]
<1>1. OInv => [Safe]_vars
  <2> SUFFICES ASSUME OInv, NEW q \in Procs, NEW p \in Pods, DropPod(q) \/ MapEnd(q) \/ Exit(q),
                      Live(p), life'[p] = "gone"
               PROVE  p \in mine[q]
    OBVIOUS
  <2>0. TypeOK /\ HasPod /\ Standing(q) /\ Rightful(q)
    BY DEF OInv, TInv
  <2>1. CASE DropPod(q)
    <3>1. cur[q].pod \in Pods /\ phase[q] \in Using /\ cur[q].was = NoWarm
      BY <2>0, <2>1 DEF DropPod, HasPod, Using, Standing
    <3>2. p = cur[q].pod
      BY <2>0, <2>1, <3>1, DownExcuses DEF DropPod, Live, server
    <3>3. Owned(cur[q])
      BY <3>1 DEF Owned
    <3>4. QED
      BY <2>0, <3>1, <3>2, <3>3 DEF Rightful
  <2>2. CASE MapEnd(q) \/ Exit(q)
    <3>1. \/ NoDown
          \/ warm[q] # NoWarm /\ warm[q].owned /\ Down(warm[q].pod)
      BY <2>2 DEF MapEnd, Exit, CloseWarm
    <3>2. p = warm[q].pod /\ warm[q].owned
      BY <2>0, <3>1, DownExcuses DEF NoDown, server, Live, HasPod
    <3>3. QED
      BY <2>0, <3>2 DEF Rightful
  <2>3. QED
    BY <2>1, <2>2
<1>2. QED
  BY <1>1, OwnInvariant, PTL DEF OnlyOwnRemoved

\* After a normal exit every pod the process rented is gone, was to stay, or could not be removed
\* (ExitLeavesNothing).
THEOREM ExitsLeaveNothing == Spec => ExitLeavesNothing
<1> DEFINE Safe == \A q \in Procs : Exit(q) => \A p \in mine[q] : life'[p] = "gone" \/ p \in excused'
<1>1. OInv /\ [Next]_vars => [Safe]_vars
  <2> SUFFICES ASSUME OInv, [Next]_vars, NEW q \in Procs, Exit(q), NEW p \in mine[q]
               PROVE  life'[p] = "gone" \/ p \in excused'
    OBVIOUS
  <2>0. TypeOK /\ HasPod /\ Standing(q) /\ Rightful(q) /\ Accounted(q)
    BY DEF OInv, TInv
  <2>1. p \in Pods /\ phase[q] \notin Using
    BY <2>0 DEF TypeOK, HistoryType, Exit, Using
  <2>2. /\ life[p] = "gone" => life'[p] = "gone"
        /\ p \in excused => p \in excused' \/ life'[p] = "gone"
    BY <2>1, LifeGoesOn DEF OInv
  <2>3. CASE warm[q].owned /\ p = warm[q].pod
    <3>1. warm[q] # NoWarm
      BY <2>3 DEF NoWarm
    <3>2. CASE warm[q].keep = 0
      BY <2>0, <2>1, <2>3, <3>1, <3>2, DownExcuses DEF Exit
    <3>3. CASE warm[q].keep # 0
      <4>1. warm[q].keep > 0
        BY <2>0, <3>3 DEF TypeOK, ProcessType, Warms
      <4>2. life[p] = "gone" \/ p \in excused
        BY <2>0, <2>3, <3>1, <4>1 DEF Standing, Rightful, Live
      <4>3. QED
        BY <2>2, <4>2
    <3>4. QED
      BY <3>2, <3>3
  <2>4. QED
    BY <2>0, <2>1, <2>2, <2>3 DEF Accounted
<1>2. QED
  BY <1>1, OwnInvariant, PTL DEF Spec, ExitLeavesNothing

=============================================================================
