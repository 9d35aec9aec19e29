--------------------------------- MODULE Up ---------------------------------
(***************************************************************************)
(* `lium up` (src/lium/cli/up): find a node, rent a pod, schedule its      *)
(* removal, wait until it is ready, check its GPUs, install Jupyter, and   *)
(* hand it to the user.  The pod bills from the rent on, whatever becomes  *)
(* of the command; it boots, dies, or is removed on its own schedule while *)
(* the command polls the listing (Lium.wait_ready).                        *)
(*                                                                         *)
(* The rent itself is not repeated here: it is the promise of module       *)
(* RentPromise, which module Rent is shown to keep.  Its call is named Me, *)
(* and answer[Me] is the pod the command holds.                            *)
(*                                                                         *)
(* One tick is a poll's sleep or more.  Clocks count down: `budget` is     *)
(* what --timeout has left, `waiting` what the wait has left, and `grace`  *)
(* what is left of the time a pod may stay out of the listing.             *)
(***************************************************************************)
EXTENDS Naturals

CONSTANTS
  Options,       \* the command lines
  NoPod,
  Timeout,       \* --timeout
  Grace,         \* MISSING_GRACE_SECONDS
  JupyterPolls   \* polls of the Jupyter installation (40 in the code)

Me == "up"
Calls == {Me}
OldPods == {}

ASSUME UpAssumption ==
  /\ Options \subseteq
       [until : BOOLEAN,       \* --ttl or --until
        ask : BOOLEAN,         \* no --yes
        newVolume : BOOLEAN,   \* --volume new:...
        cap : Nat,             \* --ready-timeout, 0 when not given
        verify : BOOLEAN,      \* --verify-gpus
        strict : BOOLEAN,      \* --strict-gpus
        jupyter : BOOLEAN,
        then : {"return", "logs", "ssh"}]
  /\ Timeout \in Nat \ {0}
  /\ Grace \in Nat
  /\ JupyterPolls \in Nat \ {0}

VARIABLES
  \* the promise of the rent
  honours, limit, status, asked, rented, answer,
  \* the pod the command holds, on the server
  life,       \* "none" before the rent answered, pending, running, dead, gone
  listed,     \* is it in the listing?
  due,        \* does the server hold a removal time for it?
  \* the command
  opts, pc,
  budget, waiting, grace,
  overdue,    \* elapsed >= MISSING_GRACE_SECONDS, as read at the top of the loop
  seen,       \* wait_ready: last_seen is not None
  missed,     \* wait_ready: missing_polls > 0
  scheduled,  \* termination_scheduled
  polls,      \* polls of Jupyter left
  exit,       \* how the command ended
  \* history, for the properties
  told,       \* what the user has read
  gpus,       \* the GPUs the check found billed and visible
  removed     \* the command asked the server to remove the pod

rental == <<honours, limit, status, asked, rented, answer>>
server == <<life, listed, due>>
clocks == <<budget, waiting, grace>>
loop == <<overdue, seen, missed>>
history == <<gpus, removed>>
vars == <<rental, server, opts, pc, clocks, loop, scheduled, polls, exit, told, history>>

R == INSTANCE RentPromise

Alive == life \in {"pending", "running"}

Init ==
  /\ R!Init
  /\ life = "none" /\ listed = FALSE /\ due = FALSE
  /\ opts \in Options
  /\ pc = "start" /\ exit = "none"
  /\ budget = Timeout /\ waiting = 0 /\ grace = 0
  /\ overdue = FALSE /\ seen = FALSE /\ missed = FALSE
  /\ scheduled = FALSE /\ polls = 0
  /\ told = {} /\ gpus = [billed |-> "right", visible |-> "right"]
  /\ removed = FALSE

-----------------------------------------------------------------------------
(* The server: external, as the client's code meets it.                    *)

Server(action) == action /\ UNCHANGED <<opts, pc, clocks, loop, scheduled, polls, exit, told, history>>

\* A request of the rent is served, perhaps after the command gave it up.
Rented == \E k \in {1, 2} : R!Create(Me, k) /\ UNCHANGED server

\* A dead pod keeps its row for a while.
Surfaces == life \notin {"none", "gone"} /\ listed' = TRUE /\ UNCHANGED <<rental, life, due>>
Boots == life = "pending" /\ life' = "running" /\ UNCHANGED <<rental, listed, due>>
Dies == Alive /\ life' = "dead" /\ UNCHANGED <<rental, listed, due>>
Vanishes ==
  /\ life = "dead" \/ (Alive /\ due)
  /\ life' = "gone" /\ listed' = FALSE
  /\ UNCHANGED <<rental, due>>

Less(n) == IF n > 0 THEN n - 1 ELSE 0

\* The time at the prompt is added to the deadline again.
Tick ==
  /\ pc # "end"
  /\ budget' = IF pc = "confirm" THEN budget ELSE Less(budget)
  /\ waiting' = Less(waiting) /\ grace' = Less(grace)
  /\ pc' = IF pc = "sleep" THEN "loop" ELSE pc
  /\ UNCHANGED <<rental, server, opts, loop, scheduled, polls, exit, told, history>>

-----------------------------------------------------------------------------
(* The steps of the command.                                               *)

Goto(step) == pc' = step /\ UNCHANGED exit
End(how) == pc' = "end" /\ exit' = how
Tell(what) == told' = told \cup what

Rest == UNCHANGED <<opts, clocks, loop, scheduled, polls, history>>

\* Validation, the node, the template: nothing bills yet.
Prepare ==
  /\ pc = "start"
  /\ \/ Goto(IF opts.ask THEN "confirm" ELSE "volume")
     \/ End("error")
  /\ UNCHANGED <<rental, server, told>> /\ Rest

\* A person answers, or there is none to ask.
Confirm ==
  /\ pc = "confirm"
  /\ \/ Goto("volume")
     \/ \E how \in {"declined", "error"} : End(how)
  /\ UNCHANGED <<rental, server, told>> /\ Rest

CreateVolume ==
  /\ pc = "volume"
  /\ \/ Goto("deadline")
     \/ opts.newVolume /\ End("error")
  /\ UNCHANGED <<rental, server, told>> /\ Rest

Deadline ==
  /\ pc = "deadline"
  /\ IF budget = 0
       THEN End("timeout_before_rent") /\ UNCHANGED rental
       ELSE Goto("rent") /\ R!Begin(Me)
  /\ UNCHANGED <<server, told>> /\ Rest

Ask ==
  /\ pc = "rent" /\ R!Ask(Me)
  /\ UNCHANGED <<server, pc, exit, told>> /\ Rest

\* The rent hands back a pod: it is named at once.
Holds ==
  /\ pc = "rent" /\ R!End(Me) /\ answer'[Me] # NoPod
  /\ life' = "pending" /\ UNCHANGED <<listed, due>>
  /\ Goto(IF opts.until THEN "schedule" ELSE "budget")
  /\ Tell({"created"}) /\ Rest

\* The rent raises: a lost answer or a refusal tells the user to look for a pod;
\* an error of the server, a bad body, or an answer without a pod is raised as
\* it stands.
RentFails ==
  /\ pc = "rent" /\ R!End(Me) /\ answer'[Me] = NoPod
  /\ \/ \E how \in {"api_timeout", "rent_rejected"} : End(how) /\ Tell({"look"})
     \/ End("raised") /\ UNCHANGED told
  /\ UNCHANGED server /\ Rest

-----------------------------------------------------------------------------
(* The removal time.                                                       *)

\* Lium.schedule_termination: the server has the time although its answer was
\* lost, or has it not.
Scheduled == life # "gone" /\ due' = TRUE /\ UNCHANGED <<life, listed>>
NotScheduled == due' \in {due, due \/ life # "gone"} /\ UNCHANGED <<life, listed>>

\* Mutant: the failure is swallowed.
ScheduleAtRentQuietly ==
  /\ pc = "schedule"
  /\ \/ Scheduled /\ scheduled' = TRUE /\ Tell({"scheduled"})
     \/ NotScheduled /\ UNCHANGED <<scheduled, told>>
  /\ Goto("budget")
  /\ UNCHANGED <<rental, opts, clocks, loop, polls, history>>

\* _schedule_termination_at_rent: a failure is told, and the command goes on.
ScheduleAtRent ==
  /\ pc = "schedule"
  /\ \/ Scheduled /\ scheduled' = TRUE /\ Tell({"scheduled"})
     \/ NotScheduled /\ Tell({"unscheduled"}) /\ UNCHANGED scheduled
  /\ Goto("budget")
  /\ UNCHANGED <<rental, opts, clocks, loop, polls, history>>

\* The sentence a failed wait adds.
Note == CASE ~opts.until -> {}
          [] scheduled -> {"scheduled"}
          [] OTHER -> {"unscheduled"}

-----------------------------------------------------------------------------
(* Lium.wait_ready.                                                        *)

\* _wait_budget
Budget ==
  LET left == IF budget = 0 THEN 1 ELSE budget
  IN  IF opts.cap \in 1 .. left THEN opts.cap ELSE left

StartWait ==
  /\ pc = "budget"
  /\ waiting' = Budget /\ grace' = Grace
  /\ budget' = 0                           \* the deadline is not read again
  /\ Goto("loop")
  /\ UNCHANGED <<rental, server, opts, loop, scheduled, polls, told, history>>

StartFailed == End("pod_start_failed") /\ Tell({"pod"} \cup Note)

\* Mutant: the loop has no end of its own.
LoopForever ==
  /\ pc = "loop"
  /\ overdue' = (grace = 0) /\ UNCHANGED <<seen, missed>>
  /\ Goto("list") /\ UNCHANGED told
  /\ UNCHANGED <<rental, server, opts, clocks, scheduled, polls, history>>

\* The top of the loop: out of time, or one more look.
Loop ==
  /\ pc = "loop"
  /\ overdue' = (grace = 0) /\ UNCHANGED <<seen, missed>>
  /\ CASE waiting > 0 -> Goto("list") /\ UNCHANGED told
       [] waiting = 0 /\ ~seen /\ missed /\ grace = 0 -> StartFailed
       [] OTHER -> End("pod_not_ready") /\ Tell({"pod"} \cup Note)
  /\ UNCHANGED <<rental, server, opts, clocks, scheduled, polls, history>>

\* Mutant: a pod that is not listed yet counts as gone.
MissingAtOnce ==
  /\ pc = "list" /\ ~listed
  /\ missed' = TRUE /\ UNCHANGED <<overdue, seen>>
  /\ StartFailed
  /\ UNCHANGED <<rental, server, opts, clocks, scheduled, polls, history>>

\* Not in the listing: it disappeared, or the grace it has to appear is over.
Missing ==
  /\ pc = "list" /\ ~listed
  /\ missed' = TRUE /\ UNCHANGED <<overdue, seen>>
  /\ IF seen \/ overdue THEN StartFailed
                        ELSE Goto("sleep") /\ UNCHANGED told
  /\ UNCHANGED <<rental, server, opts, clocks, scheduled, polls, history>>

\* In the listing: ready, dead, or starting.
Listed ==
  /\ pc = "list" /\ listed
  /\ seen' = TRUE /\ missed' = FALSE
  /\ IF life = "running"
       THEN /\ Goto("again") /\ UNCHANGED <<budget, told>>
            /\ waiting' = 0 /\ grace' = 0 /\ overdue' = FALSE   \* wait_ready's own
       ELSE /\ IF life = "dead" THEN StartFailed ELSE Goto("sleep") /\ UNCHANGED told
            /\ UNCHANGED <<clocks, overdue>>
  /\ UNCHANGED <<rental, server, opts, scheduled, polls, history>>

\* Mutant: the error is raised as it stands.
UnreadableRaised ==
  /\ pc = "list"
  /\ End("error") /\ UNCHANGED told
  /\ UNCHANGED <<rental, server, opts, clocks, loop, scheduled, polls, history>>

\* The listing cannot be read: the pod is named and the error raised.
Unreadable ==
  /\ pc = "list"
  /\ End("error") /\ Tell({"pod"})
  /\ UNCHANGED <<rental, server, opts, clocks, loop, scheduled, polls, history>>

-----------------------------------------------------------------------------
(* The pod is ready.                                                       *)

\* A schedule that failed at the rent is tried once more.
ScheduleAgain ==
  /\ pc = "again"
  /\ IF opts.until /\ ~scheduled
       THEN \/ Scheduled /\ Goto("verify") /\ Tell({"scheduled"})
            \/ NotScheduled /\ End("error") /\ Tell({"pod", "unscheduled"})
       ELSE Goto("verify") /\ UNCHANGED <<server, told>>
  /\ UNCHANGED <<rental, opts, clocks, loop, scheduled, polls, history>>

\* The GPUs of the pod, against those requested; the server may not say.
Counts == [billed : {"right", "wrong", "unsaid"}, visible : {"right", "wrong"}]

\* What VerifyGpuCountAction answers: the count billed, then the count nvidia-smi
\* shows over SSH, which may not come about.
Verdicts(found) ==
  IF found.billed = "wrong" THEN {"mismatch"}
  ELSE IF ~opts.verify THEN {"ok"}
  ELSE {"unchecked", IF found.visible = "right" THEN "ok" ELSE "mismatch"}

Removes(verdict) == opts.strict /\ verdict = "mismatch"

Verify ==
  /\ pc = "verify"
  /\ gpus' \in Counts /\ UNCHANGED removed
  /\ \E verdict \in Verdicts(gpus') :
       CASE verdict = "ok" ->
              Goto(IF opts.jupyter THEN "jupyter" ELSE "ready") /\ UNCHANGED told
         [] Removes(verdict) -> Goto("remove") /\ UNCHANGED told
         [] OTHER -> End("gpu_count") /\ Tell({"pod"})
  /\ UNCHANGED <<rental, server, opts, clocks, loop, scheduled, polls>>

\* Lium.rm; its error is raised as it stands.
Remove ==
  /\ pc = "remove"
  /\ removed' = TRUE /\ UNCHANGED gpus
  /\ \/ life' = "gone" /\ listed' = FALSE /\ End("gpu_count") /\ Tell({"pod"})
     \/ /\ \/ life' = "gone" /\ listed' = FALSE
           \/ UNCHANGED <<life, listed>>
        /\ End("not_removed") /\ UNCHANGED told
  /\ UNCHANGED <<rental, due, opts, clocks, loop, scheduled, polls>>

\* The installation is asked for, and polled a number of times.
Jupyter ==
  /\ pc = "jupyter"
  /\ \/ Goto("poll") /\ polls' = JupyterPolls /\ UNCHANGED told
     \/ End("error") /\ Tell({"pod"}) /\ UNCHANGED polls
  /\ UNCHANGED <<rental, server, opts, clocks, loop, scheduled, history>>

\* A poll: done, failed, the last one, or one more.
PollJupyter ==
  /\ pc = "poll" /\ polls > 0
  /\ polls' = polls - 1
  /\ \/ Goto("ready") /\ UNCHANGED told
     \/ End("error") /\ Tell({"pod"})
     \/ IF polls = 1 THEN End("error") /\ Tell({"pod"})
                     ELSE Goto("poll") /\ UNCHANGED told
  /\ UNCHANGED <<rental, server, opts, clocks, loop, scheduled, history>>

Ready ==
  /\ pc = "ready"
  /\ Tell({"pod", "ready"})
  /\ IF opts.then = "return" THEN End("ok") ELSE Goto(opts.then)
  /\ UNCHANGED <<rental, server, opts, clocks, loop, scheduled, polls, history>>

\* The logs are followed until the user or the pod ends them.
Logs ==
  /\ pc = "logs"
  /\ \E how \in {"ok", "error"} : End(how)
  /\ UNCHANGED <<rental, server, opts, clocks, loop, scheduled, polls, told, history>>

\* PrepareSSHAction looks the pod up again, by its name.
Ssh ==
  /\ pc = "ssh"
  /\ \E how \in {"ok", "error"} : End(how)
  /\ UNCHANGED <<rental, server, opts, clocks, loop, scheduled, polls, told, history>>

\* Ctrl-C, which no handler of the command catches before the logs.
Interrupt ==
  /\ pc \notin {"end", "logs", "ssh"}
  /\ End(IF pc = "schedule" THEN "interrupted scheduling" ELSE "interrupted")
  /\ IF pc = "rent"
       THEN status' = [status EXCEPT ![Me] = "ended"] /\ UNCHANGED <<honours, limit, asked, rented, answer>>
       ELSE UNCHANGED rental
  /\ UNCHANGED <<server, opts, clocks, loop, scheduled, polls, told, history>>

-----------------------------------------------------------------------------
Step ==
  \/ Prepare \/ CreateVolume \/ Deadline
  \/ Ask \/ Holds \/ RentFails
  \/ ScheduleAtRent \/ StartWait \/ Loop \/ Missing \/ Listed \/ Unreadable
  \/ ScheduleAgain \/ Verify \/ Remove \/ Jupyter \/ PollJupyter \/ Ready

User == Confirm \/ Logs \/ Ssh \/ Interrupt

External == Server(Rented \/ Surfaces \/ Boots \/ Dies \/ Vanishes)

Next == Step \/ User \/ External \/ Tick

\* Time passes, and every request of the command is answered or times out.  The
\* server and the user owe nothing.
Fairness == WF_vars(Step) /\ WF_vars(Tick)

Spec == Init /\ [][Next]_vars /\ Fairness

-----------------------------------------------------------------------------
ServerType ==
  /\ life \in {"none", "pending", "running", "dead", "gone"}
  /\ listed \in BOOLEAN /\ due \in BOOLEAN

ClockType ==
  /\ budget \in 0 .. Timeout /\ waiting \in 0 .. Timeout /\ grace \in 0 .. Grace
  /\ polls \in 0 .. JupyterPolls

CommandType ==
  /\ opts \in Options
  /\ pc \in {"start", "confirm", "volume", "deadline", "rent", "schedule", "budget", "loop",
             "list", "sleep", "again", "verify", "remove", "jupyter", "poll", "ready",
             "logs", "ssh", "end"}
  /\ overdue \in BOOLEAN /\ seen \in BOOLEAN /\ missed \in BOOLEAN
  /\ scheduled \in BOOLEAN /\ removed \in BOOLEAN
  /\ gpus \in Counts

OutcomeType ==
  /\ exit \in {"none", "declined", "error", "timeout_before_rent", "api_timeout",
               "rent_rejected", "raised", "pod_start_failed", "pod_not_ready",
               "gpu_count", "not_removed", "ok", "interrupted", "interrupted scheduling"}
  /\ told \subseteq {"created", "look", "pod", "scheduled", "unscheduled", "ready"}

RentalType ==
  /\ honours \in BOOLEAN
  /\ limit \in [Calls -> {1, 2}]
  /\ status \in [Calls -> {"idle", "open", "ended"}]
  /\ asked \in [Calls -> 0 .. 2]
  /\ rented \subseteq Calls \X {1, 2}
  /\ answer \in [Calls -> rented \cup {NoPod}]

TypeOK == ServerType /\ ClockType /\ CommandType /\ OutcomeType /\ RentalType

\* With --ttl or --until, a pod that bills after the command has ended has its
\* end on the server, or the user was told that it has none.  The gap is a
\* Ctrl-C while the schedule is being set.
EndHeldOrTold ==
  pc = "end" /\ Alive /\ opts.until /\ exit # "interrupted scheduling"
    => due \/ "unscheduled" \in told

\* A pod reported as ready, or as scheduled, has the end that was asked for:
\* "the caller must not read a ready pod as having one" when it has not.
EndPromisedIsHeld ==
  "scheduled" \in told \/ (opts.until /\ "ready" \in told) => due

\* --strict-gpus removes a pod only when its GPUs are really not those requested,
\* never because they could not be checked.
RemovedOnlyIfWrong ==
  removed => opts.strict /\ (gpus.billed = "wrong" \/ gpus.visible = "wrong")

\* A start is reported as failed when the pod is dead or gone, or when it did
\* not show in the listing at all for the time it has to appear: a slow pod and
\* a listing that lags are no failures.
StartFailureIsReal ==
  exit = "pod_start_failed" => life \in {"dead", "gone"} \/ (~seen /\ grace = 0)

\* Whenever a command fails while a pod it rented bills, its last words name the
\* pod or tell the user to look for one; left are the errors of a rent that are
\* raised as they stand, a failed removal, and Ctrl-C.
FailureNamesPod ==
  pc = "end" /\ (Alive \/ (life = "none" /\ rented # {}))
    => \/ "pod" \in told \/ "look" \in told
       \/ exit \in {"raised", "not_removed", "interrupted", "interrupted scheduling"}

\* The command ends or comes to the user, whatever the pod does.
CommandEnds == <>(pc \in {"end", "confirm", "logs", "ssh"})
=============================================================================
