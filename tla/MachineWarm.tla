---------------------------- MODULE MachineWarm ----------------------------
(***************************************************************************)
(* Calls of functions decorated with @lium.machine (lium/sdk/decorators.py)*)
(* of one machine spec, in processes that exit, die and are run again.     *)
(*                                                                         *)
(* A call takes the pod its process holds (_WARM), else one an earlier run *)
(* left under the fixed name, else it rents; it sets the pod's removal     *)
(* time on the server before and during the run, and ends by removing the  *)
(* pod or leaving it warm.  Removal times are countdowns: a Tick passes    *)
(* for all of them at once.                                                *)
(***************************************************************************)
EXTENDS Naturals

CONSTANTS
  Procs,       \* the processes that run scripts side by side
  Funcs,       \* their decorated functions: [keep: ticks, cleanup: BOOLEAN]
  MaxPods,     \* bound: pods rented in a behaviour
  Timeout,     \* a run is killed after this long
  Margin,      \* _TTL_MARGIN
  WarmMargin   \* _WARM_MARGIN

ASSUME MachineAssumption ==
  /\ Funcs \subseteq [keep : Nat, cleanup : BOOLEAN]
  /\ MaxPods \in Nat
  /\ Timeout \in Nat \ {0} /\ Margin \in Nat \ {0} /\ WarmMargin \in Nat \ {0}

Pods == 1 .. MaxPods
None == 0                 \* no pod; no removal time
NoWarm == [pod |-> None, owned |-> FALSE, keep |-> 0, prev |-> 0]
NoCall == [f |-> [keep |-> 0, cleanup |-> FALSE], map |-> FALSE, pod |-> None, was |-> NoWarm]

VARIABLES
  \* the server
  life,      \* life[p]: none, booting, running, gone
  due,       \* due[p]: ticks until its removal time, None without one
  fixed,     \* the pods that bear the name lium-fn-<key>
  \* the processes
  phase,
  warm,      \* _WARM[key]: the pod held, or NoWarm
  cur,       \* the call: its function, in a map?, its pod, the _Warm it found
  clock,     \* ticks left of the run
  armed,     \* did the last _schedule_removal of the call succeed?
  \* history, of the pods that are not gone
  mine,      \* the pods this run of the process rented
  warned,    \* pods without a removal time, as a warning or an error told
  died,      \* pods whose caller died before it had set one
  excused    \* pods meant to outlive the process, or that it failed to remove

server == <<life, due, fixed>>
history == <<mine, warned, died, excused>>
vars == <<server, phase, warm, cur, clock, armed, history>>

Live(p) == life[p] \in {"booting", "running"}
Keeps(c) == c.f.cleanup /\ (c.f.keep > 0 \/ c.map)
Ttl(c) == Timeout + Margin + (IF Keeps(c) THEN c.f.keep ELSE 0)

\* One tick less; a time that has passed is none (_future_time).
Less(n) == IF n = 0 THEN 0 ELSE n - 1
Longer(a, b) == IF a > b THEN a ELSE b

Init ==
  /\ life = [p \in Pods |-> "none"]
  /\ due = [p \in Pods |-> None]
  /\ fixed = {}
  /\ phase = [q \in Procs |-> "off"]
  /\ warm = [q \in Procs |-> NoWarm]
  /\ cur = [q \in Procs |-> NoCall]
  /\ clock = [q \in Procs |-> 0]
  /\ armed = [q \in Procs |-> FALSE]
  /\ mine = [q \in Procs |-> {}]
  /\ warned = {} /\ died = {} /\ excused = {}

-----------------------------------------------------------------------------
(* The server, and time.                                                   *)

Started(p) ==
  /\ life[p] = "booting"
  /\ life' = [life EXCEPT ![p] = "running"]
  /\ UNCHANGED <<due, fixed, phase, warm, cur, clock, armed, history>>

\* Every countdown goes on by one; a pod whose removal time has come is removed.
Tick ==
  /\ life' = [p \in Pods |-> IF Live(p) /\ due[p] = 1 THEN "gone" ELSE life[p]]
  /\ due' = [p \in Pods |-> Less(due[p])]
  /\ clock' = [q \in Procs |-> Less(clock[q])]
  /\ warm' = [q \in Procs |-> [warm[q] EXCEPT !.prev = Less(@)]]
  /\ cur' = [q \in Procs |-> [cur[q] EXCEPT !.was.prev = Less(@)]]
  /\ fixed' = {p \in fixed : life'[p] # "gone"}
  /\ mine' = [q \in Procs |-> {p \in mine[q] : life'[p] # "gone"}]
  /\ excused' = {p \in excused : life'[p] # "gone"}
  /\ UNCHANGED <<phase, armed, warned, died>>

-----------------------------------------------------------------------------
(* A process.                                                              *)

Goto(q, next) == phase' = [phase EXCEPT ![q] = next]

\* _schedule_removal: the time is set, or its failure is only a warning.
Schedule(q, p, n) ==
  \/ /\ Live(p)
     /\ due' = [due EXCEPT ![p] = n]
     /\ armed' = [armed EXCEPT ![q] = TRUE]
     /\ warned' = warned \ {p} /\ died' = died \ {p}
  \/ /\ armed' = [armed EXCEPT ![q] = FALSE]
     /\ warned' = IF Live(p) /\ due[p] = None THEN warned \cup {p} ELSE warned
     /\ UNCHANGED <<due, died>>

\* sdk.down: the pod is removed, or an error is met before or after that.
Down(p) ==
  \/ /\ life' = [life EXCEPT ![p] = "gone"]
     /\ due' = [due EXCEPT ![p] = None]
     /\ fixed' = fixed \ {p}
     /\ warned' = warned \ {p} /\ died' = died \ {p} /\ excused' = excused \ {p}
  \/ /\ Live(p)
     /\ excused' = excused \cup {p}
     /\ UNCHANGED <<server, warned, died>>

NoDown == UNCHANGED <<server, warned, died, excused>>

Start(q) ==
  /\ phase[q] = "off" /\ Goto(q, "idle")
  /\ UNCHANGED <<server, warm, cur, clock, armed, history>>

\* f(...), or f.map(...): `holding` keeps the pod between the items.
Call(q, f) ==
  /\ phase[q] = "idle"
  /\ \E m \in BOOLEAN :
       cur' = [cur EXCEPT ![q] = [f |-> f, map |-> m, pod |-> None, was |-> NoWarm]]
  /\ Goto(q, IF f.cleanup THEN "find" ELSE "rent")
  /\ UNCHANGED <<server, warm, clock, armed, history>>

Held(q) == warm[q].pod # None /\ life[warm[q].pod] = "running"
Named == {p \in fixed : life[p] = "running"}

\* _find_warm: the pod in memory when it still runs, else one with the name,
\* whose removal time is noted; else what was in memory is forgotten.
FindWarm(q) ==
  /\ phase[q] = "find"
  /\ \/ /\ Held(q)
        /\ cur' = [cur EXCEPT ![q] = [@ EXCEPT !.pod = warm[q].pod, !.was = warm[q]]]
        /\ UNCHANGED warm
     \/ \E p \in Named :
          /\ ~Held(q)
          /\ cur' = [cur EXCEPT ![q] = [@ EXCEPT !.pod = p,
               !.was = [pod |-> p, owned |-> FALSE, keep |-> 0, prev |-> due[p]]]]
          /\ warm' = [warm EXCEPT ![q] = NoWarm]
  /\ Goto(q, "arm")
  /\ UNCHANGED <<server, clock, armed, history>>

FindNone(q) ==
  /\ phase[q] = "find" /\ ~Held(q) /\ Named = {}
  /\ warm' = [warm EXCEPT ![q] = NoWarm]
  /\ Goto(q, "rent")
  /\ UNCHANGED <<server, cur, clock, armed, history>>

\* The next pod comes to be; the fixed name is for a pod that is to be kept.
Made(q, p) ==
  /\ life[p] = "none" /\ (\A o \in Pods : o < p => life[o] # "none")
  /\ life' = [life EXCEPT ![p] = "booting"]
  /\ fixed' = IF Keeps(cur[q]) THEN fixed \cup {p} ELSE fixed
  /\ mine' = [mine EXCEPT ![q] = @ \cup {p}]

\* Fault: the removal time is left for when the pod is ready.
RentAndBoot(q) ==
  /\ phase[q] = "rent" /\ Goto(q, "boot")
  /\ \E p \in Pods : Made(q, p) /\ cur' = [cur EXCEPT ![q].pod = p]
  /\ UNCHANGED <<due, warm, clock, armed, warned, died, excused>>

\* _rent_node.
Rent(q) ==
  /\ phase[q] = "rent" /\ Goto(q, "arm")
  /\ \E p \in Pods : Made(q, p) /\ cur' = [cur EXCEPT ![q].pod = p]
  /\ UNCHANGED <<due, warm, clock, armed, warned, died, excused>>

\* A pod was rented but the call does not get to know which: the answer was lost
\* and the rent raised, or it named no pod (RentResult.pod is None) and neither
\* the removal time nor the wait for it can work.
RentUnknown(q) ==
  /\ phase[q] = "rent" /\ Goto(q, "end")
  /\ \E p \in Pods :
       Made(q, p) /\ warned' = warned \cup {p} /\ excused' = excused \cup {p}
  /\ UNCHANGED <<due, warm, cur, clock, armed, died>>

\* The listing or the rent raises: the call ends with no pod.
NoPod(q) ==
  /\ phase[q] \in {"find", "rent"} /\ Goto(q, "end")
  /\ UNCHANGED <<server, warm, cur, clock, armed, history>>

\* The removal time is set before anything else is done with the pod.
Arm(q) ==
  /\ phase[q] = "arm"
  /\ Schedule(q, cur[q].pod, Ttl(cur[q]))
  /\ Goto(q, IF cur[q].was = NoWarm THEN "boot" ELSE "setup")
  /\ UNCHANGED <<life, fixed, warm, cur, clock, mine, excused>>

\* wait_ready: the pod runs, or it failed, vanished or took too long, and then
\* the call has only its id.
Boot(q) ==
  /\ phase[q] = "boot"
  /\ \/ life[cur[q].pod] = "running" /\ Goto(q, "setup")
     \/ Goto(q, "drop")
  /\ UNCHANGED <<server, warm, cur, clock, armed, history>>

\* Upload and environment, or any of them fails.
Setup(q) ==
  /\ phase[q] = "setup"
  /\ \/ life[cur[q].pod] = "running" /\ Goto(q, "rearm")
     \/ Goto(q, "release")
  /\ UNCHANGED <<server, warm, cur, clock, armed, history>>

\* Fault: the removal time set at the start of the call is relied on.
RunUnarmed(q) ==
  /\ phase[q] = "rearm" /\ Goto(q, "run")
  /\ clock' = [clock EXCEPT ![q] = Timeout]
  /\ UNCHANGED <<server, warm, cur, armed, history>>

\* Setup is done: the removal time is set again and the run begins.
Run(q) ==
  /\ phase[q] = "rearm"
  /\ Schedule(q, cur[q].pod, Ttl(cur[q]))
  /\ clock' = [clock EXCEPT ![q] = Timeout]
  /\ Goto(q, "run")
  /\ UNCHANGED <<life, fixed, warm, cur, mine, excused>>

Ran(q) ==
  /\ phase[q] = "run" /\ Goto(q, "release")
  /\ clock' = [clock EXCEPT ![q] = 0]
  /\ UNCHANGED <<server, warm, cur, armed, history>>

Stay(c) == Longer(c.f.keep, c.was.keep)

\* Fault: only a pod held before the call is ours.
OwnedBefore(c) == c.was # NoWarm /\ c.was.owned

\* A pod this call rented is ours, a pod found is whose it was.
Owned(c) == c.was # NoWarm => c.was.owned

\* Fault: the removal time of the pod found is put back even if it had none.
KeepPodAsFound(q) ==
  LET c == cur[q] IN
  /\ phase[q] = "release" /\ (Keeps(c) \/ c.was # NoWarm)
  /\ warm' = [warm EXCEPT ![q] = [pod |-> c.pod, owned |-> Owned(c),
                                  keep |-> Stay(c), prev |-> c.was.prev]]
  /\ IF Stay(c) > 0 /\ (Owned(c) \/ c.f.keep > 0)
       THEN /\ Schedule(q, c.pod, Stay(c) + WarmMargin)
            /\ excused' = IF Live(c.pod) THEN excused \cup {c.pod} ELSE excused
       ELSE /\ UNCHANGED <<armed, warned, died, excused>>
            /\ due' = IF Owned(c) THEN due ELSE [due EXCEPT ![c.pod] = c.was.prev]
  /\ Goto(q, "end")
  /\ UNCHANGED <<life, fixed, cur, clock, mine>>

\* The pod goes back to memory, with a removal time that is the warm window
\* when it is ours or the call asked for warmth, else the one it was found with.
KeepPod(q) ==
  LET c == cur[q] IN
  /\ phase[q] = "release" /\ (Keeps(c) \/ c.was # NoWarm)
  /\ warm' = [warm EXCEPT ![q] = [pod |-> c.pod, owned |-> Owned(c),
                                  keep |-> Stay(c), prev |-> c.was.prev]]
  /\ IF Stay(c) > 0 /\ (Owned(c) \/ c.f.keep > 0)
       THEN /\ Schedule(q, c.pod, Stay(c) + WarmMargin)
            /\ excused' = IF Live(c.pod) THEN excused \cup {c.pod} ELSE excused
       ELSE /\ UNCHANGED <<armed, warned, died, excused>>
            /\ \/ UNCHANGED due
               \/ /\ ~Owned(c) /\ c.was.prev > 0 /\ Live(c.pod)
                  /\ due' = [due EXCEPT ![c.pod] = c.was.prev]
  /\ Goto(q, "end")
  /\ UNCHANGED <<life, fixed, cur, clock, mine>>

\* The pod is removed: it never got ready, or nobody wants it.
DropPod(q) ==
  /\ \/ phase[q] = "drop"
     \/ phase[q] = "release" /\ ~Keeps(cur[q]) /\ cur[q].was = NoWarm
  /\ IF cur[q].f.cleanup THEN Down(cur[q].pod)
                         ELSE /\ excused' = excused \cup {cur[q].pod}
                              /\ UNCHANGED <<server, warned, died>>
  /\ Goto(q, "end")
  /\ UNCHANGED <<warm, cur, clock, armed, mine>>

\* The call has returned or raised; a map may go on with its next item.
CallEnd(q) ==
  /\ phase[q] = "end"
  /\ armed' = [armed EXCEPT ![q] = FALSE]
  /\ IF cur[q].map
       THEN /\ cur' = [cur EXCEPT ![q] = [@ EXCEPT !.pod = None, !.was = NoWarm]]
            /\ \/ Goto(q, "mapend")
               \/ Goto(q, IF cur[q].f.cleanup THEN "find" ELSE "rent")
       ELSE cur' = [cur EXCEPT ![q] = NoCall] /\ Goto(q, "idle")
  /\ UNCHANGED <<server, warm, clock, history>>

\* close(): the pod in memory is removed, whoever rented it.
CloseWarm(q) ==
  /\ warm' = [warm EXCEPT ![q] = NoWarm]
  /\ IF warm[q] = NoWarm THEN NoDown ELSE Down(warm[q].pod)

\* Fault: a map removes the pod it used, whoever rented it.
MapEndCloses(q) ==
  /\ phase[q] = "mapend" /\ Goto(q, "idle")
  /\ IF cur[q].f.keep > 0 \/ ~cur[q].f.cleanup
       THEN NoDown /\ UNCHANGED warm
       ELSE CloseWarm(q)
  /\ cur' = [cur EXCEPT ![q] = NoCall]
  /\ UNCHANGED <<clock, armed, mine>>

\* A map that was not to keep its pod lets go of it: one found by name is
\* forgotten, any other is closed.
MapEnd(q) ==
  /\ phase[q] = "mapend" /\ Goto(q, "idle")
  /\ IF cur[q].f.keep > 0 \/ ~cur[q].f.cleanup
       THEN NoDown /\ UNCHANGED warm
       ELSE IF warm[q] # NoWarm /\ ~warm[q].owned
         THEN /\ warm' = [warm EXCEPT ![q] = NoWarm]
              /\ NoDown
         ELSE CloseWarm(q)
  /\ cur' = [cur EXCEPT ![q] = NoCall]
  /\ UNCHANGED <<clock, armed, mine>>

Close(q) ==
  /\ phase[q] = "idle" /\ warm[q] # NoWarm
  /\ CloseWarm(q)
  /\ UNCHANGED <<phase, cur, clock, armed, mine>>

\* The interpreter exits; _close_all removes what it holds, unless it is to stay
\* warm or was found by name.
Exit(q) ==
  /\ phase[q] = "idle" /\ Goto(q, "off")
  /\ IF warm[q] # NoWarm /\ warm[q].keep = 0 /\ warm[q].owned
       THEN Down(warm[q].pod) ELSE NoDown
  /\ warm' = [warm EXCEPT ![q] = NoWarm]
  /\ mine' = [mine EXCEPT ![q] = {}]
  /\ UNCHANGED <<cur, clock, armed>>

\* The process is killed: nothing of it runs any more.
Crash(q) ==
  /\ phase[q] \notin {"off", "idle"} /\ Goto(q, "off")
  /\ died' = IF phase[q] = "arm" THEN died \cup {cur[q].pod} ELSE died
  /\ warm' = [warm EXCEPT ![q] = NoWarm]
  /\ mine' = [mine EXCEPT ![q] = {}]
  /\ cur' = [cur EXCEPT ![q] = NoCall]
  /\ clock' = [clock EXCEPT ![q] = 0]
  /\ armed' = [armed EXCEPT ![q] = FALSE]
  /\ UNCHANGED <<server, warned, excused>>

Process(q) ==
  \/ Start(q) \/ (\E f \in Funcs : Call(q, f))
  \/ FindWarm(q) \/ FindNone(q) \/ Rent(q) \/ RentUnknown(q) \/ NoPod(q) \/ Arm(q)
  \/ Boot(q) \/ Setup(q) \/ Run(q) \/ Ran(q)
  \/ KeepPod(q) \/ DropPod(q) \/ CallEnd(q) \/ MapEnd(q)
  \/ Close(q) \/ Exit(q) \/ Crash(q)

Next == Tick \/ (\E p \in Pods : Started(p)) \/ (\E q \in Procs : Process(q))

\* Time passes; nobody has to run anything.
Spec == Init /\ [][Next]_vars /\ WF_vars(Tick)

-----------------------------------------------------------------------------
Warms == [pod : Pods \cup {None}, owned : BOOLEAN, keep : Nat, prev : Nat]
Calls == [f : Funcs \cup {NoCall.f}, map : BOOLEAN, pod : Pods \cup {None}, was : Warms]

ServerType ==
  /\ life \in [Pods -> {"none", "booting", "running", "gone"}]
  /\ due \in [Pods -> Nat]
  /\ fixed \in SUBSET Pods

ProcessType ==
  /\ phase \in [Procs -> {"off", "idle", "find", "rent", "arm", "boot", "setup", "rearm",
                          "run", "release", "drop", "end", "mapend"}]
  /\ warm \in [Procs -> Warms]
  /\ cur \in [Procs -> Calls]
  /\ clock \in [Procs -> 0 .. Timeout]
  /\ armed \in [Procs -> BOOLEAN]

HistoryType ==
  /\ mine \in [Procs -> SUBSET Pods]
  /\ warned \in SUBSET Pods /\ died \in SUBSET Pods /\ excused \in SUBSET Pods

TypeOK == ServerType /\ ProcessType /\ HistoryType

\* A run gets its full window: a pod whose removal time was set when the run
\* began is there until the run is over or its timeout has come.
RunHasItsWindow ==
  \A q \in Procs :
    phase[q] = "run" /\ armed[q] /\ clock[q] > 0 => 
      Live(cur[q].pod) /\ due[cur[q].pod] > clock[q]

\* A pod that is billed and has no removal time is one the user was warned of,
\* one whose call is about to set it, or one whose caller died just then.
UnscheduledIsKnown ==
  \A p \in Pods : Live(p) /\ due[p] = None =>
    \/ p \in warned \cup died
    \/ \E q \in Procs : phase[q] = "arm" /\ cur[q].pod = p

\* A process removes only pods it rented itself, unless close() is called: the
\* end of a call, of a map and of the process leave a pod found by name alone.
OnlyOwnRemoved ==
  [][\A q \in Procs, p \in Pods :
       (DropPod(q) \/ MapEnd(q) \/ Exit(q)) /\ Live(p) /\ life'[p] = "gone"
         => p \in mine[q]]_vars

\* A normal exit leaves no pod behind: every pod the process rented is gone,
\* unless it was to stay (keep_warm, cleanup=False) or could not be removed.
ExitLeavesNothing ==
  [][\A q \in Procs : Exit(q) =>
       \A p \in mine[q] : life'[p] = "gone" \/ p \in excused']_vars

\* A pod that no call uses any more is removed in the end, whether its caller came
\* back or not, unless no removal time could be set for it.
UnattendedGoes ==
  \A p \in Pods :
    <>[](\A q \in Procs : cur[q].pod # p) => <>[](Live(p) => p \in warned \cup died)

\* The comment on reuse: whatever the keep_warm of the call that uses a pod, the
\* pod is left as warm as it was found.  So a call or a map on a pod held for
\* another function's keep_warm neither removes it nor brings its removal nearer
\* than that.
LeftAsWarm ==
  [][\A q \in Procs :
       /\ MapEnd(q) /\ warm[q].keep > cur[q].f.keep => life' = life
       /\ KeepPod(q) /\ cur[q].was.keep > cur[q].f.keep =>
            due' = due \/ due'[cur[q].pod] >= cur[q].was.keep]_vars

=============================================================================
