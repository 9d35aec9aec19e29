------------------------------ MODULE UpProofs ------------------------------
(***************************************************************************)
(* Proofs about module Up, for every set of command lines, and every       *)
(* timeout, grace and number of polls.                                     *)
(***************************************************************************)
EXTENDS Up, TLAPS

-----------------------------------------------------------------------------
(* Which steps touch which variables, and the types (TypeOK).              *)

\* Only the steps of the rent, and Ctrl-C in it, touch what RentPromise speaks of.
LEMMA RentalFrame ==
  [Next]_vars =>
    Deadline \/ Ask \/ Holds \/ RentFails \/ Interrupt \/ Server(Rented) \/ UNCHANGED rental
BY DEF Next, Step, User, External, Server, Prepare, CreateVolume, ScheduleAtRent, StartWait, Loop,
   Missing, Listed, Unreadable, ScheduleAgain, Verify, Remove, Jupyter, PollJupyter, Ready,
   Confirm, Logs, Ssh, Surfaces, Boots, Dies, Vanishes, Tick, vars

\* The pod the command holds changes when it is rented, scheduled and removed, and
\* on its own.
LEMMA ServerFrame ==
  [Next]_vars =>
    Holds \/ ScheduleAtRent \/ ScheduleAgain \/ Remove \/ Server(Surfaces) \/ Server(Boots)
      \/ Server(Dies) \/ Server(Vanishes) \/ UNCHANGED server
BY DEF Next, Step, User, External, Server, Prepare, CreateVolume, Deadline, Ask, RentFails, StartWait, Loop,
   Missing, Listed, Unreadable, Verify, Jupyter, PollJupyter, Ready,
   Confirm, Logs, Ssh, Interrupt, Rented, Tick, vars

\* The rent keeps its types.
LEMMA RentalTypeStep == RentalType /\ [Next]_vars => RentalType'
<1> SUFFICES ASSUME RentalType, [Next]_vars PROVE RentalType'
  OBVIOUS
<1> USE DEF RentalType, Calls
<1>1. CASE Deadline
  BY <1>1 DEF Deadline, R!Begin, rental
<1>2. CASE Ask
  BY <1>2 DEF Ask, R!Ask
<1>3. CASE Holds
  BY <1>3 DEF Holds, R!End
<1>4. CASE RentFails
  BY <1>4 DEF RentFails, R!End
<1>5. CASE Interrupt
  BY <1>5 DEF Interrupt, rental
<1>6. CASE Server(Rented)
  BY <1>6 DEF Server, Rented, R!Create
<1>7. CASE UNCHANGED rental
  BY <1>7 DEF rental
<1>8. QED
  BY <1>1, <1>2, <1>3, <1>4, <1>5, <1>6, <1>7, RentalFrame

\* The pod keeps its types.
LEMMA ServerTypeStep == ServerType /\ [Next]_vars => ServerType'
<1> SUFFICES ASSUME ServerType, [Next]_vars PROVE ServerType'
  OBVIOUS
<1> USE DEF ServerType, server
<1>1. CASE Holds
  BY <1>1 DEF Holds
<1>2. CASE ScheduleAtRent \/ ScheduleAgain
  BY <1>2 DEF ScheduleAtRent, ScheduleAgain, Scheduled, NotScheduled
<1>3. CASE Remove
  BY <1>3 DEF Remove
<1>4. CASE Server(Surfaces) \/ Server(Boots) \/ Server(Dies) \/ Server(Vanishes)
  BY <1>4 DEF Server, Surfaces, Boots, Dies, Vanishes, Alive
<1>5. CASE UNCHANGED server
  BY <1>5
<1>6. QED
  BY <1>1, <1>2, <1>3, <1>4, <1>5, ServerFrame

\* Clocks are wound at the wait and at Jupyter, and run down.
LEMMA ClockFrame ==
  [Next]_vars =>
    StartWait \/ Listed \/ Jupyter \/ PollJupyter \/ Tick \/ UNCHANGED <<clocks, polls>>
BY DEF Next, Step, User, External, Server, Prepare, CreateVolume, Deadline, Ask, Holds, RentFails,
   ScheduleAtRent, Loop, Missing, Unreadable, ScheduleAgain, Verify, Remove, Ready, Confirm, Logs,
   Ssh, Interrupt, Rest, vars

\* No clock runs below zero or above what it was wound to.
LEMMA ClockTypeStep == ClockType /\ [Next]_vars => ClockType'
<1> SUFFICES ASSUME ClockType, [Next]_vars PROVE ClockType'
  OBVIOUS
<1> USE DEF ClockType, clocks
<1>1. CASE StartWait
  BY <1>1, UpAssumption DEF StartWait, Budget
<1>2. CASE Listed
  BY <1>2, UpAssumption DEF Listed
<1>3. CASE Jupyter \/ PollJupyter
  <2>1. JupyterPolls \in Nat
    BY UpAssumption
  <2>2. polls' \in 0 .. JupyterPolls
    BY <1>3, <2>1 DEF Jupyter, PollJupyter
  <2>3. QED
    BY <1>3, <2>2 DEF Jupyter, PollJupyter, Rest
<1>4. CASE Tick
  <2>1. \A m \in Nat : \A n \in 0 .. m : Less(n) \in 0 .. m
    BY DEF Less
  <2>2. Timeout \in Nat /\ Grace \in Nat
    BY UpAssumption
  <2>3. budget' \in 0 .. Timeout
    BY <1>4, <2>1, <2>2 DEF Tick
  <2>4. waiting' \in 0 .. Timeout /\ grace' \in 0 .. Grace
    BY <1>4, <2>1, <2>2 DEF Tick
  <2>5. QED
    BY <1>4, <2>3, <2>4 DEF Tick
<1>5. CASE UNCHANGED <<clocks, polls>>
  BY <1>5
<1>6. QED
  BY <1>1, <1>2, <1>3, <1>4, <1>5, ClockFrame

\* The command is at one of its steps, with what it remembers of the type it has.
LEMMA CommandTypeStep == CommandType /\ [Next]_vars => CommandType'
<1> SUFFICES ASSUME CommandType, [Next]_vars PROVE CommandType'
  OBVIOUS
<1> USE DEF CommandType, Goto, End, Rest, loop, history
<1>0. opts.then \in {"return", "logs", "ssh"}
  BY UpAssumption
<1>1. CASE Prepare
  BY <1>1 DEF Prepare
<1>2. CASE Confirm
  BY <1>2 DEF Confirm
<1>3. CASE CreateVolume
  BY <1>3 DEF CreateVolume
<1>4. CASE Deadline
  BY <1>4 DEF Deadline
<1>5. CASE Ask
  BY <1>5 DEF Ask
<1>6. CASE Holds
  BY <1>6 DEF Holds
<1>7. CASE RentFails
  BY <1>7 DEF RentFails
<1>8. CASE ScheduleAtRent
  BY <1>8 DEF ScheduleAtRent
<1>9. CASE StartWait
  BY <1>9 DEF StartWait
<1>10. CASE Loop
  BY <1>10 DEF Loop, StartFailed
<1>11. CASE Missing
  BY <1>11 DEF Missing, StartFailed
<1>12. CASE Listed
  BY <1>12 DEF Listed, StartFailed
<1>13. CASE Unreadable
  BY <1>13 DEF Unreadable
<1>14. CASE ScheduleAgain
  BY <1>14 DEF ScheduleAgain
<1>15. CASE Verify
  BY <1>15 DEF Verify, Removes
<1>16. CASE Remove
  BY <1>16 DEF Remove
<1>17. CASE Jupyter
  BY <1>17 DEF Jupyter
<1>18. CASE PollJupyter
  BY <1>18 DEF PollJupyter
<1>19. CASE Ready
  BY <1>19, <1>0 DEF Ready
<1>20. CASE Logs
  BY <1>20 DEF Logs
<1>21. CASE Ssh
  BY <1>21 DEF Ssh
<1>22. CASE Interrupt
  BY <1>22 DEF Interrupt
<1>23. CASE Tick
  BY <1>23 DEF Tick
<1>24. CASE External \/ UNCHANGED vars
  BY <1>24 DEF External, Server, vars
<1>25. QED
  BY <1>1, <1>2, <1>3, <1>4, <1>5, <1>6, <1>7, <1>8, <1>9, <1>10, <1>11, <1>12, <1>13, <1>14, <1>15, <1>16, <1>17, <1>18, <1>19, <1>20, <1>21, <1>22, <1>23, <1>24 DEF Next, Step, User

\* The command ends in one of the ways the code has, and tells what the code tells.
LEMMA OutcomeTypeStep == OutcomeType /\ [Next]_vars => OutcomeType'
<1> SUFFICES ASSUME OutcomeType, [Next]_vars PROVE OutcomeType'
  OBVIOUS
<1> USE DEF OutcomeType, Goto, End, Rest, Tell
<1>1. CASE Prepare
  BY <1>1 DEF Prepare
<1>2. CASE Confirm
  BY <1>2 DEF Confirm
<1>3. CASE CreateVolume
  BY <1>3 DEF CreateVolume
<1>4. CASE Deadline
  BY <1>4 DEF Deadline
<1>5. CASE Ask
  BY <1>5 DEF Ask
<1>6. CASE Holds
  BY <1>6 DEF Holds
<1>7. CASE RentFails
  BY <1>7 DEF RentFails
<1>8. CASE ScheduleAtRent
  BY <1>8 DEF ScheduleAtRent
<1>9. CASE StartWait
  BY <1>9 DEF StartWait
<1>10. CASE Loop
  BY <1>10 DEF Loop, StartFailed, Note
<1>11. CASE Missing
  BY <1>11 DEF Missing, StartFailed, Note
<1>12. CASE Listed
  BY <1>12 DEF Listed, StartFailed, Note
<1>13. CASE Unreadable
  BY <1>13 DEF Unreadable
<1>14. CASE ScheduleAgain
  BY <1>14 DEF ScheduleAgain
<1>15. CASE Verify
  BY <1>15 DEF Verify, Removes
<1>16. CASE Remove
  BY <1>16 DEF Remove
<1>17. CASE Jupyter
  BY <1>17 DEF Jupyter
<1>18. CASE PollJupyter
  BY <1>18 DEF PollJupyter
<1>19. CASE Ready
  BY <1>19 DEF Ready
<1>20. CASE Logs
  BY <1>20 DEF Logs
<1>21. CASE Ssh
  BY <1>21 DEF Ssh
<1>22. CASE Interrupt
  BY <1>22 DEF Interrupt
<1>23. CASE Tick
  BY <1>23 DEF Tick
<1>24. CASE External \/ UNCHANGED vars
  BY <1>24 DEF External, Server, vars
<1>25. QED
  BY <1>1, <1>2, <1>3, <1>4, <1>5, <1>6, <1>7, <1>8, <1>9, <1>10, <1>11, <1>12, <1>13, <1>14, <1>15, <1>16, <1>17, <1>18, <1>19, <1>20, <1>21, <1>22, <1>23, <1>24 DEF Next, Step, User

-----------------------------------------------------------------------------
\* How far the rent is, from where the command is.
Phases ==
  /\ pc \in {"start", "confirm", "volume", "deadline"} => asked[Me] = 0 /\ status[Me] = "idle"
  /\ pc \in {"start", "confirm", "volume", "deadline", "rent"} => life = "none"
  /\ pc \notin {"start", "confirm", "volume", "deadline", "rent", "end"} => life # "none"
  /\ asked[Me] = 0 => rented = {} /\ life = "none"
  /\ life = "none" => ~due /\ ~listed /\ ~seen /\ ~scheduled
  /\ pc # "end" => exit = "none"
  /\ pc = "rent" => status[Me] = "open"
  /\ pc \in {"start", "confirm", "volume", "deadline", "rent"} => answer[Me] = NoPod

\* A pod with no removal time although one was asked for, and not said to have none,
\* is one whose schedule is being set.
HeldOrTold ==
  life # "none" /\ opts.until /\ pc # "schedule" /\ exit # "interrupted scheduling"
    => due \/ "unscheduled" \in told

\* What the command takes for scheduled is.
Kept == scheduled \/ "scheduled" \in told => due

\* From the GPU check on, a removal time that was asked for is held.
ReadyHeld ==
  opts.until /\ ("ready" \in told \/ pc \in {"verify", "remove", "jupyter", "poll", "ready", "logs", "ssh"})
    => due

Schedules == HeldOrTold /\ Kept /\ ReadyHeld

\* What the wait has seen of the pod.
Waits ==
  /\ seen /\ ~listed => life = "gone"
  /\ listed => life \notin {"none", "gone"}
  /\ overdue => grace = 0
  /\ (pc \in {"start", "confirm", "volume", "deadline", "rent", "schedule", "budget"}
        => ~overdue /\ ~seen)
  /\ StartFailureIsReal

Removals ==
  /\ (pc = "remove" => opts.strict /\ (gpus.billed = "wrong" \/ gpus.visible = "wrong"))
  /\ removed => pc = "end"
  /\ RemovedOnlyIfWrong

\* What has been told of a pod that the command knows, and of one it does not.
Names ==
  /\ pc \in {"logs", "ssh"} => "pod" \in told
  /\ (pc = "end" /\ life # "none"
        => \/ "pod" \in told
           \/ exit \in {"raised", "not_removed", "interrupted", "interrupted scheduling"})
  /\ (pc = "end" /\ life = "none" /\ asked[Me] # 0
        => \/ "look" \in told
           \/ exit \in {"raised", "interrupted", "interrupted scheduling"})

\* Every step keeps Phases: where the command is tells how far the rent is.
LEMMA PhasesStep == Phases /\ RentalType /\ opts \in Options /\ [Next]_vars => Phases'
<1> SUFFICES ASSUME Phases, RentalType, opts \in Options, [Next]_vars PROVE Phases'
  OBVIOUS
<1> USE DEF Phases, Goto, End, Rest, rental, server, loop, Calls, RentalType
<1>0. opts \in Options => opts.then \in {"return", "logs", "ssh"}
  BY UpAssumption
<1>1. CASE Prepare
  BY <1>1 DEF Prepare
<1>2. CASE Confirm
  BY <1>2 DEF Confirm
<1>3. CASE CreateVolume
  BY <1>3 DEF CreateVolume
<1>4. CASE Deadline
  BY <1>4 DEF Deadline, R!Begin
<1>5. CASE Ask
  BY <1>5 DEF Ask, R!Ask
<1>6. CASE Holds
  BY <1>6 DEF Holds, R!End
<1>7. CASE RentFails
  BY <1>7 DEF RentFails, R!End
<1>8. CASE ScheduleAtRent
  BY <1>8 DEF ScheduleAtRent, Scheduled, NotScheduled
<1>9. CASE StartWait
  BY <1>9 DEF StartWait
<1>10. CASE Loop
  BY <1>10 DEF Loop, StartFailed
<1>11. CASE Missing
  BY <1>11 DEF Missing, StartFailed
<1>12. CASE Listed
  BY <1>12 DEF Listed, StartFailed
<1>13. CASE Unreadable
  BY <1>13 DEF Unreadable
<1>14. CASE ScheduleAgain
  BY <1>14 DEF ScheduleAgain, Scheduled, NotScheduled
<1>15. CASE Verify
  BY <1>15 DEF Verify, Removes, Verdicts
<1>16. CASE Remove
  BY <1>16 DEF Remove
<1>17. CASE Jupyter
  BY <1>17 DEF Jupyter
<1>18. CASE PollJupyter
  BY <1>18 DEF PollJupyter
<1>19. CASE Ready
  BY <1>19, <1>0 DEF Ready
<1>20. CASE Logs
  BY <1>20 DEF Logs
<1>21. CASE Ssh
  BY <1>21 DEF Ssh
<1>22. CASE Interrupt
  BY <1>22 DEF Interrupt
<1>23. CASE Tick
  BY <1>23 DEF Tick, Less
<1>24. CASE Server(Rented)
  BY <1>24 DEF Server, Rented, R!Create
<1>25. CASE Server(Surfaces)
  BY <1>25 DEF Server, Surfaces
<1>26. CASE Server(Boots)
  BY <1>26 DEF Server, Boots
<1>27. CASE Server(Dies)
  BY <1>27 DEF Server, Dies, Alive
<1>28. CASE Server(Vanishes)
  BY <1>28 DEF Server, Vanishes, Alive
<1>29. CASE UNCHANGED vars
  BY <1>29 DEF vars
<1>30. QED
  BY <1>1, <1>2, <1>3, <1>4, <1>5, <1>6, <1>7, <1>8, <1>9, <1>10, <1>11, <1>12, <1>13, <1>14, <1>15, <1>16, <1>17, <1>18, <1>19, <1>20, <1>21, <1>22, <1>23, <1>24, <1>25, <1>26, <1>27, <1>28, <1>29 DEF Next, Step, User, External, Server

\* Every step keeps Schedules: what the command and the user know of the removal time.
LEMMA SchedulesStep == Schedules /\ Phases /\ ServerType /\ opts \in Options /\ [Next]_vars => Schedules'
<1> SUFFICES ASSUME Schedules, Phases, ServerType, opts \in Options, [Next]_vars PROVE Schedules'
  OBVIOUS
<1> USE DEF Schedules, HeldOrTold, Kept, ReadyHeld, Phases, ServerType, Goto, End, Tell, Rest, server
<1>0. opts \in Options => opts.then \in {"return", "logs", "ssh"}
  BY UpAssumption
<1>1. CASE Prepare
  BY <1>1 DEF Prepare
<1>2. CASE Confirm
  BY <1>2 DEF Confirm
<1>3. CASE CreateVolume
  BY <1>3 DEF CreateVolume
<1>4. CASE Deadline
  BY <1>4 DEF Deadline
<1>5. CASE Ask
  BY <1>5 DEF Ask
<1>6. CASE Holds
  BY <1>6 DEF Holds
<1>7. CASE RentFails
  BY <1>7 DEF RentFails
<1>8. CASE ScheduleAtRent
  <2>1. HeldOrTold'
    BY <1>8 DEF ScheduleAtRent, Scheduled, NotScheduled
  <2>2. Kept'
    BY <1>8 DEF ScheduleAtRent, Scheduled, NotScheduled
  <2>3. ReadyHeld'
    BY <1>8 DEF ScheduleAtRent, Scheduled, NotScheduled
  <2>4. QED
    BY <2>1, <2>2, <2>3 DEF Schedules
<1>9. CASE StartWait
  BY <1>9 DEF StartWait
<1>10. CASE Loop
  <2>1. HeldOrTold'
    BY <1>10 DEF Loop, StartFailed, Note
  <2>2. Kept'
    BY <1>10 DEF Loop, StartFailed, Note
  <2>3. ReadyHeld'
    BY <1>10 DEF Loop, StartFailed, Note
  <2>4. QED
    BY <2>1, <2>2, <2>3 DEF Schedules
<1>11. CASE Missing
  <2>1. HeldOrTold'
    BY <1>11 DEF Missing, StartFailed, Note
  <2>2. Kept'
    BY <1>11 DEF Missing, StartFailed, Note
  <2>3. ReadyHeld'
    BY <1>11 DEF Missing, StartFailed, Note
  <2>4. QED
    BY <2>1, <2>2, <2>3 DEF Schedules
<1>12. CASE Listed
  <2>1. HeldOrTold'
    BY <1>12 DEF Listed, StartFailed, Note
  <2>2. Kept'
    BY <1>12 DEF Listed, StartFailed, Note
  <2>3. ReadyHeld'
    BY <1>12 DEF Listed, StartFailed, Note
  <2>4. QED
    BY <2>1, <2>2, <2>3 DEF Schedules
<1>13. CASE Unreadable
  BY <1>13 DEF Unreadable
<1>14. CASE ScheduleAgain
  BY <1>14 DEF ScheduleAgain, Scheduled, NotScheduled
<1>15. CASE Verify
  <2>1. HeldOrTold'
    BY <1>15 DEF Verify, Removes, Verdicts
  <2>2. Kept'
    BY <1>15 DEF Verify, Removes, Verdicts
  <2>3. ReadyHeld'
    BY <1>15 DEF Verify, Removes, Verdicts
  <2>4. QED
    BY <2>1, <2>2, <2>3 DEF Schedules
<1>16. CASE Remove
  BY <1>16 DEF Remove
<1>17. CASE Jupyter
  BY <1>17 DEF Jupyter
<1>18. CASE PollJupyter
  <2>1. HeldOrTold'
    BY <1>18 DEF PollJupyter
  <2>2. Kept'
    BY <1>18 DEF PollJupyter
  <2>3. ReadyHeld'
    BY <1>18 DEF PollJupyter
  <2>4. QED
    BY <2>1, <2>2, <2>3 DEF Schedules
<1>19. CASE Ready
  BY <1>19, <1>0 DEF Ready
<1>20. CASE Logs
  BY <1>20 DEF Logs
<1>21. CASE Ssh
  BY <1>21 DEF Ssh
<1>22. CASE Interrupt
  BY <1>22 DEF Interrupt
<1>23. CASE Tick
  BY <1>23 DEF Tick, Less
<1>24. CASE Server(Rented)
  <2>1. UNCHANGED <<life, due, opts, pc, scheduled, exit, told>>
    BY <1>24 DEF Server, Rented
  <2>2. QED
    BY <2>1
<1>25. CASE Server(Surfaces)
  BY <1>25 DEF Server, Surfaces
<1>26. CASE Server(Boots)
  BY <1>26 DEF Server, Boots
<1>27. CASE Server(Dies)
  BY <1>27 DEF Server, Dies, Alive
<1>28. CASE Server(Vanishes)
  BY <1>28 DEF Server, Vanishes, Alive
<1>29. CASE UNCHANGED vars
  BY <1>29 DEF vars
<1>30. QED
  BY <1>1, <1>2, <1>3, <1>4, <1>5, <1>6, <1>7, <1>8, <1>9, <1>10, <1>11, <1>12, <1>13, <1>14, <1>15, <1>16, <1>17, <1>18, <1>19, <1>20, <1>21, <1>22, <1>23, <1>24, <1>25, <1>26, <1>27, <1>28, <1>29 DEF Next, Step, User, External, Server

\* Every step keeps Waits: what wait_ready remembers is so of the pod.
LEMMA WaitsStep == Waits /\ Phases /\ opts \in Options /\ [Next]_vars => Waits'
<1> SUFFICES ASSUME Waits, Phases, opts \in Options, [Next]_vars PROVE Waits'
  OBVIOUS
<1> USE DEF Waits, Phases, Goto, End, Rest, server, clocks, loop, StartFailureIsReal
<1>0. opts \in Options => opts.then \in {"return", "logs", "ssh"}
  BY UpAssumption
<1>1. CASE Prepare
  BY <1>1 DEF Prepare
<1>2. CASE Confirm
  BY <1>2 DEF Confirm
<1>3. CASE CreateVolume
  BY <1>3 DEF CreateVolume
<1>4. CASE Deadline
  BY <1>4 DEF Deadline
<1>5. CASE Ask
  BY <1>5 DEF Ask
<1>6. CASE Holds
  BY <1>6 DEF Holds
<1>7. CASE RentFails
  BY <1>7 DEF RentFails
<1>8. CASE ScheduleAtRent
  BY <1>8 DEF ScheduleAtRent, Scheduled, NotScheduled
<1>9. CASE StartWait
  BY <1>9 DEF StartWait
<1>10. CASE Loop
  BY <1>10 DEF Loop, StartFailed
<1>11. CASE Missing
  BY <1>11 DEF Missing, StartFailed
<1>12. CASE Listed
  BY <1>12 DEF Listed, StartFailed
<1>13. CASE Unreadable
  BY <1>13 DEF Unreadable
<1>14. CASE ScheduleAgain
  BY <1>14 DEF ScheduleAgain, Scheduled, NotScheduled
<1>15. CASE Verify
  BY <1>15 DEF Verify, Removes, Verdicts
<1>16. CASE Remove
  BY <1>16 DEF Remove
<1>17. CASE Jupyter
  BY <1>17 DEF Jupyter
<1>18. CASE PollJupyter
  BY <1>18 DEF PollJupyter
<1>19. CASE Ready
  BY <1>19, <1>0 DEF Ready
<1>20. CASE Logs
  BY <1>20 DEF Logs
<1>21. CASE Ssh
  BY <1>21 DEF Ssh
<1>22. CASE Interrupt
  BY <1>22 DEF Interrupt
<1>23. CASE Tick
  BY <1>23 DEF Tick, Less
<1>24. CASE Server(Rented)
  BY <1>24 DEF Server, Rented
<1>25. CASE Server(Surfaces)
  BY <1>25 DEF Server, Surfaces
<1>26. CASE Server(Boots)
  BY <1>26 DEF Server, Boots
<1>27. CASE Server(Dies)
  BY <1>27 DEF Server, Dies, Alive
<1>28. CASE Server(Vanishes)
  BY <1>28 DEF Server, Vanishes, Alive
<1>29. CASE UNCHANGED vars
  BY <1>29 DEF vars
<1>30. QED
  BY <1>1, <1>2, <1>3, <1>4, <1>5, <1>6, <1>7, <1>8, <1>9, <1>10, <1>11, <1>12, <1>13, <1>14, <1>15, <1>16, <1>17, <1>18, <1>19, <1>20, <1>21, <1>22, <1>23, <1>24, <1>25, <1>26, <1>27, <1>28, <1>29 DEF Next, Step, User, External, Server

\* Every step keeps Removals: a removal follows a count that was found wrong.
LEMMA RemovalsStep == Removals /\ opts \in Options /\ [Next]_vars => Removals'
<1> SUFFICES ASSUME Removals, opts \in Options, [Next]_vars PROVE Removals'
  OBVIOUS
<1> USE DEF Removals, Goto, End, Rest, history, RemovedOnlyIfWrong
<1>0. opts \in Options => opts.then \in {"return", "logs", "ssh"}
  BY UpAssumption
<1>1. CASE Prepare
  BY <1>1 DEF Prepare
<1>2. CASE Confirm
  BY <1>2 DEF Confirm
<1>3. CASE CreateVolume
  BY <1>3 DEF CreateVolume
<1>4. CASE Deadline
  BY <1>4 DEF Deadline
<1>5. CASE Ask
  BY <1>5 DEF Ask
<1>6. CASE Holds
  BY <1>6 DEF Holds
<1>7. CASE RentFails
  BY <1>7 DEF RentFails
<1>8. CASE ScheduleAtRent
  BY <1>8 DEF ScheduleAtRent, Scheduled, NotScheduled
<1>9. CASE StartWait
  BY <1>9 DEF StartWait
<1>10. CASE Loop
  BY <1>10 DEF Loop, StartFailed
<1>11. CASE Missing
  BY <1>11 DEF Missing, StartFailed
<1>12. CASE Listed
  BY <1>12 DEF Listed, StartFailed
<1>13. CASE Unreadable
  BY <1>13 DEF Unreadable
<1>14. CASE ScheduleAgain
  BY <1>14 DEF ScheduleAgain, Scheduled, NotScheduled
<1>15. CASE Verify
  <2>1. removed' = FALSE /\ pc # "end" /\ pc' \in {"jupyter", "ready", "remove", "end"}
    BY <1>15 DEF Verify
  <2>2. ASSUME pc' = "remove"
        PROVE  opts'.strict /\ (gpus'.billed = "wrong" \/ gpus'.visible = "wrong")
    <3>1. PICK verdict \in Verdicts(gpus') : Removes(verdict)
      BY <1>15, <2>2 DEF Verify
    <3>2. gpus'.visible \in {"right", "wrong"}
      BY <1>15 DEF Verify, Counts
    <3>3. QED
      BY <1>15, <3>1, <3>2 DEF Verify, Verdicts, Removes
  <2>3. QED
    BY <2>1, <2>2
<1>16. CASE Remove
  BY <1>16 DEF Remove
<1>17. CASE Jupyter
  BY <1>17 DEF Jupyter
<1>18. CASE PollJupyter
  BY <1>18 DEF PollJupyter
<1>19. CASE Ready
  BY <1>19, <1>0 DEF Ready
<1>20. CASE Logs
  BY <1>20 DEF Logs
<1>21. CASE Ssh
  BY <1>21 DEF Ssh
<1>22. CASE Interrupt
  BY <1>22 DEF Interrupt
<1>23. CASE Tick
  BY <1>23 DEF Tick, Less
<1>24. CASE Server(Rented)
  BY <1>24 DEF Server, Rented
<1>25. CASE Server(Surfaces)
  BY <1>25 DEF Server, Surfaces
<1>26. CASE Server(Boots)
  BY <1>26 DEF Server, Boots
<1>27. CASE Server(Dies)
  BY <1>27 DEF Server, Dies, Alive
<1>28. CASE Server(Vanishes)
  BY <1>28 DEF Server, Vanishes, Alive
<1>29. CASE UNCHANGED vars
  BY <1>29 DEF vars
<1>30. QED
  BY <1>1, <1>2, <1>3, <1>4, <1>5, <1>6, <1>7, <1>8, <1>9, <1>10, <1>11, <1>12, <1>13, <1>14, <1>15, <1>16, <1>17, <1>18, <1>19, <1>20, <1>21, <1>22, <1>23, <1>24, <1>25, <1>26, <1>27, <1>28, <1>29 DEF Next, Step, User, External, Server

\* Every step keeps Names: what billed is named before the command leaves it.
LEMMA NamesStep == Names /\ Phases /\ opts \in Options /\ [Next]_vars => Names'
<1> SUFFICES ASSUME Names, Phases, opts \in Options, [Next]_vars PROVE Names'
  OBVIOUS
<1> USE DEF Names, Phases, Goto, End, Tell, Rest, rental, server
<1>0. opts \in Options => opts.then \in {"return", "logs", "ssh"}
  BY UpAssumption
<1>1. CASE Prepare
  BY <1>1 DEF Prepare
<1>2. CASE Confirm
  BY <1>2 DEF Confirm
<1>3. CASE CreateVolume
  BY <1>3 DEF CreateVolume
<1>4. CASE Deadline
  BY <1>4 DEF Deadline
<1>5. CASE Ask
  BY <1>5 DEF Ask, R!Ask
<1>6. CASE Holds
  BY <1>6 DEF Holds, R!End
<1>7. CASE RentFails
  BY <1>7 DEF RentFails, R!End
<1>8. CASE ScheduleAtRent
  BY <1>8 DEF ScheduleAtRent, Scheduled, NotScheduled
<1>9. CASE StartWait
  BY <1>9 DEF StartWait
<1>10. CASE Loop
  BY <1>10 DEF Loop, StartFailed, Note
<1>11. CASE Missing
  BY <1>11 DEF Missing, StartFailed, Note
<1>12. CASE Listed
  BY <1>12 DEF Listed, StartFailed, Note
<1>13. CASE Unreadable
  BY <1>13 DEF Unreadable
<1>14. CASE ScheduleAgain
  BY <1>14 DEF ScheduleAgain, Scheduled, NotScheduled
<1>15. CASE Verify
  BY <1>15 DEF Verify, Removes, Verdicts
<1>16. CASE Remove
  BY <1>16 DEF Remove
<1>17. CASE Jupyter
  BY <1>17 DEF Jupyter
<1>18. CASE PollJupyter
  BY <1>18 DEF PollJupyter
<1>19. CASE Ready
  BY <1>19, <1>0 DEF Ready
<1>20. CASE Logs
  BY <1>20 DEF Logs
<1>21. CASE Ssh
  BY <1>21 DEF Ssh
<1>22. CASE Interrupt
  BY <1>22 DEF Interrupt
<1>23. CASE Tick
  BY <1>23 DEF Tick, Less
<1>24. CASE Server(Rented)
  BY <1>24 DEF Server, Rented, R!Create
<1>25. CASE Server(Surfaces)
  BY <1>25 DEF Server, Surfaces
<1>26. CASE Server(Boots)
  BY <1>26 DEF Server, Boots
<1>27. CASE Server(Dies)
  BY <1>27 DEF Server, Dies, Alive
<1>28. CASE Server(Vanishes)
  BY <1>28 DEF Server, Vanishes, Alive
<1>29. CASE UNCHANGED vars
  BY <1>29 DEF vars
<1>30. QED
  BY <1>1, <1>2, <1>3, <1>4, <1>5, <1>6, <1>7, <1>8, <1>9, <1>10, <1>11, <1>12, <1>13, <1>14, <1>15, <1>16, <1>17, <1>18, <1>19, <1>20, <1>21, <1>22, <1>23, <1>24, <1>25, <1>26, <1>27, <1>28, <1>29 DEF Next, Step, User, External, Server

-----------------------------------------------------------------------------
IInv == TypeOK /\ Phases /\ Schedules /\ Waits /\ Removals /\ Names

\* The command starts with nothing rented, nothing told and nothing seen.
LEMMA InitIInv == Init => IInv
<1> SUFFICES ASSUME Init PROVE IInv
  OBVIOUS
<1>1. RentalType /\ rented = {} /\ asked[Me] = 0 /\ status[Me] = "idle" /\ answer[Me] = NoPod
  BY DEF Init, R!Init, RentalType, Calls, OldPods
<1>2. ServerType /\ CommandType /\ OutcomeType
  BY DEF Init, ServerType, CommandType, OutcomeType, Counts
<1>3. ClockType
  BY UpAssumption DEF Init, ClockType
<1>4. Phases /\ Waits
  BY <1>1 DEF Init, Phases, Waits, StartFailureIsReal
<1>5. Schedules /\ Removals /\ Names
  BY DEF Init, Schedules, HeldOrTold, Kept, ReadyHeld, Removals, RemovedOnlyIfWrong, Names
<1>6. QED
  BY <1>1, <1>2, <1>3, <1>4, <1>5 DEF IInv, TypeOK

\* Every step keeps the invariant, part by part.
LEMMA NextIInv == IInv /\ [Next]_vars => IInv'
<1> SUFFICES ASSUME IInv, [Next]_vars PROVE IInv'
  OBVIOUS
<1>1. opts \in Options
  BY DEF IInv, TypeOK, CommandType
<1>2. TypeOK'
  BY RentalTypeStep, ServerTypeStep, ClockTypeStep, CommandTypeStep, OutcomeTypeStep DEF IInv, TypeOK
<1>3. Phases'
  BY <1>1, PhasesStep DEF IInv, TypeOK
<1>4. Schedules'
  BY <1>1, SchedulesStep DEF IInv, TypeOK
<1>5. Waits' /\ Removals' /\ Names'
  BY <1>1, WaitsStep, RemovalsStep, NamesStep DEF IInv
<1>6. QED
  BY <1>2, <1>3, <1>4, <1>5 DEF IInv

\* The invariant holds of every behaviour.
LEMMA Invariant == Spec => []IInv
<1>1. QED
  BY InitIInv, NextIInv, PTL DEF Spec

\* The command and the pod keep their types (TypeOK), whatever the timeouts.
THEOREM TypeCorrect == Spec => []TypeOK
<1>1. IInv => TypeOK
  BY DEF IInv
<1>2. QED
  BY <1>1, Invariant, PTL

\* Whatever the timeouts: a pod that bills after `lium up --ttl` has ended has its
\* end on the server, or the user was told that it has none (EndHeldOrTold).
THEOREM NoSilentUnendedPod == Spec => []EndHeldOrTold
<1>1. IInv => EndHeldOrTold
  BY DEF IInv, Schedules, HeldOrTold, EndHeldOrTold, Alive
<1>2. QED
  BY <1>1, Invariant, PTL

\* A pod reported as ready, or as scheduled, has the end that was asked for
\* (EndPromisedIsHeld).
THEOREM ReadyPodHasItsEnd == Spec => []EndPromisedIsHeld
<1>1. IInv => EndPromisedIsHeld
  BY DEF IInv, Schedules, Kept, ReadyHeld, EndPromisedIsHeld
<1>2. QED
  BY <1>1, Invariant, PTL

\* --strict-gpus removes a pod only on a count that was found wrong
\* (RemovedOnlyIfWrong).
THEOREM NoPodRemovedOnDoubt == Spec => []RemovedOnlyIfWrong
<1>1. IInv => RemovedOnlyIfWrong
  BY DEF IInv, Removals
<1>2. QED
  BY <1>1, Invariant, PTL

\* wait_ready reports a failed start only of a pod that is dead or gone, or that
\* never showed for the whole grace it has (StartFailureIsReal).
THEOREM SlowPodsAreNoFailures == Spec => []StartFailureIsReal
<1>1. IInv => StartFailureIsReal
  BY DEF IInv, Waits
<1>2. QED
  BY <1>1, Invariant, PTL

\* A command that fails while its pod bills names the pod, or tells the user to look
\* for one, but for the exits listed (FailureNamesPod).
THEOREM BillingPodsAreNamed == Spec => []FailureNamesPod
<1>1. IInv => FailureNamesPod
  <2> SUFFICES ASSUME IInv PROVE FailureNamesPod
    OBVIOUS
  <2>1. CASE life = "none"
    BY <2>1 DEF IInv, Phases, Names, FailureNamesPod, Alive
  <2>2. CASE life # "none"
    BY <2>2 DEF IInv, Names, FailureNamesPod, Alive
  <2>3. QED
    BY <2>1, <2>2
<1>2. QED
  BY <1>1, Invariant, PTL

\* The rent of the command goes by the promise that the calls of Rent keep (RentPromise): it asks
\* only while it is open, an answer names a pod that exists, and a Ctrl-C ends it once, although a
\* pod may still come of it.
THEOREM UpKeepsPromise == Spec => R!Promise
<1>1. Init => R!Init
  BY DEF Init
<1>2. IInv /\ [Next]_vars => [R!Next]_(R!vars)
  <2> SUFFICES ASSUME IInv, [Next]_vars PROVE [R!Next]_(R!vars)
    OBVIOUS
  <2>1. CASE Deadline
    BY <2>1 DEF Deadline, R!Next, R!vars, rental, Calls
  <2>2. CASE Ask
    BY <2>2 DEF Ask, R!Next, Calls
  <2>3. CASE Holds \/ RentFails
    BY <2>3 DEF Holds, RentFails, R!Next, Calls
  <2>4. CASE Interrupt
    <3>1. CASE pc = "rent"
      <4>1. status[Me] = "open" /\ answer[Me] = NoPod
        BY <3>1 DEF IInv, Phases
      <4>2. answer' = [answer EXCEPT ![Me] = NoPod]
        BY <2>4, <3>1, <4>1 DEF Interrupt, IInv, TypeOK, RentalType, Calls
      <4>3. R!End(Me)
        BY <2>4, <3>1, <4>1, <4>2 DEF Interrupt, R!End
      <4> QED
        BY <4>3 DEF R!Next, Calls
    <3>2. CASE pc # "rent"
      BY <2>4, <3>2 DEF Interrupt, R!vars, rental
    <3> QED
      BY <3>1, <3>2
  <2>5. CASE Server(Rented)
    BY <2>5 DEF Server, Rented, R!Next, Calls
  <2>6. CASE UNCHANGED rental
    BY <2>6 DEF rental, R!vars
  <2> QED
    BY <2>1, <2>2, <2>3, <2>4, <2>5, <2>6, RentalFrame
<1> QED
  BY <1>1, <1>2, Invariant, PTL DEF Spec, R!Promise
=============================================================================
