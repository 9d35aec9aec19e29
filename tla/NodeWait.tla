------------------------------ MODULE NodeWait ------------------------------
(***************************************************************************)
(* wait_until_listed: the last step of `lium mine --register` reads the    *)
(* portal's status of the node until it is listed, names something to fix, *)
(* or time is up.  The portal's flag for a node that cannot be reached is  *)
(* up to a minute old, so that OFFLINE may be about the time before.       *)
(***************************************************************************)
EXTENDS Naturals

CONSTANTS
  Interval,   \* interval_s, 15 s
  Confirm,    \* OFFLINE_CONFIRM_S, 60 s
  Timeout     \* timeout_s

VARIABLES
  reach,      \* whether the node can be reached
  flag,       \* portal: whether it could be when it was last pinged
  age,        \* portal: how long ago that was
  check,      \* portal: what the validator has found
  wait,       \* the wait
  wasDown     \* history: the node was down at some moment of the wait

vars == <<reach, flag, age, check, wait, wasDown>>

-----------------------------------------------------------------------------
Checks   == {"VALIDATION_PENDING", "VALIDATION_FAILED", "AVAILABLE"}
Readings == Checks \cup {"OFFLINE", "UNKNOWN"}
Never    == Timeout + Confirm + 2 * Interval + 2   \* later than any moment of a wait

\* What the portal answers; a body without a status is UNKNOWN.
Computed == {IF flag THEN check ELSE "OFFLINE", "UNKNOWN"}

Listed(s)   == s = "AVAILABLE"
NeedsFix(s) == s \in {"VALIDATION_FAILED", "OFFLINE"}
At(pc)      == wait.pc = pc
Over        == At("over")
Waiting     == wait.pc \in {"read", "judge", "sleep"}
Earlier(a, b) == IF a < b THEN a ELSE b
node        == <<reach, flag, age, check>>

\* result_summary: 0 listed, 1 something to fix, 2 neither.
CodeOf(s)    == IF Listed(s) THEN 0 ELSE IF NeedsFix(s) THEN 1 ELSE 2
Result(w, s) == [w EXCEPT !.pc = "over", !.final = s, !.code = CodeOf(s)]

\* Mutant: OFFLINE counts at once.
ReadSure(s) ==
  LET since == IF s = "OFFLINE" THEN Earlier(wait.since, wait.now) ELSE Never IN
  [wait EXCEPT !.late = FALSE, !.last = s, !.since = since, !.sure = (s = "OFFLINE"),
               !.settled = IF s = "OFFLINE" THEN @ ELSE s]

\* A reading.  OFFLINE is sure once it has been read for Confirm without another in between.
Read(s) ==
  LET since == IF s = "OFFLINE" THEN Earlier(wait.since, wait.now) ELSE Never IN
  [wait EXCEPT !.late = FALSE, !.last = s, !.since = since,
               !.sure = s = "OFFLINE" /\ wait.now - since >= Confirm,
               !.settled = IF s = "OFFLINE" THEN @ ELSE s]

ReadStatus ==
  /\ At("read")
  /\ \E s \in Computed :
       LET w == Read(s) IN
       wait' = IF Listed(s) \/ (NeedsFix(s) /\ (s # "OFFLINE" \/ w.sure))
               THEN Result(w, s) ELSE [w EXCEPT !.pc = "judge"]
  /\ UNCHANGED <<node, wasDown>>

ReadFails ==
  /\ At("read")
  /\ wait' = [wait EXCEPT !.pc = "judge", !.late = FALSE]
  /\ UNCHANGED <<node, wasDown>>

Pending == wait.since # Never /\ ~wait.sure

\* Mutant: an OFFLINE that is not sure holds the wait up for as long as it is not.
InTimeWhilePending == wait.now < Timeout \/ Pending

\* An OFFLINE that is not sure yet gets its minute beyond the deadline, and no more.
InTime == wait.now < Timeout \/ (Pending /\ wait.now < Timeout + Confirm)

Judge ==
  /\ At("judge")
  /\ wait' = IF InTime
             THEN [wait EXCEPT !.pc = "sleep", !.wake = wait.now + Interval]
             ELSE Result(wait, IF Pending THEN wait.settled ELSE wait.last)
  /\ UNCHANGED <<node, wasDown>>

WakeUp ==
  /\ At("sleep")
  /\ wait.now >= wait.wake
  /\ wait' = [wait EXCEPT !.pc = "read", !.wake = 0]
  /\ UNCHANGED <<node, wasDown>>

\* The node has been found in the list of the account.  The wait begins with whatever the
\* portal knew of its address.
Start ==
  /\ At("idle")
  /\ reach' \in BOOLEAN /\ flag' \in BOOLEAN
  /\ age' \in 0..(Confirm - 1)
  /\ wasDown' = ~reach'
  /\ wait' = [wait EXCEPT !.pc = "read"]
  /\ UNCHANGED check

-----------------------------------------------------------------------------
(* The node, the validator and time.                                       *)

NodeFlips ==
  /\ Waiting
  /\ reach' = ~reach
  /\ wasDown' = (wasDown \/ reach)
  /\ UNCHANGED <<flag, age, check, wait>>

Validator ==
  /\ Waiting
  /\ check' \in Checks \ {check}
  /\ UNCHANGED <<reach, flag, age, wait, wasDown>>

\* The portal pings the node less than a minute after the last time.  A read may take long.
Tick ==
  /\ \/ At("sleep") /\ wait.now < wait.wake
     \/ At("read") /\ ~wait.late
  /\ \/ flag' = reach /\ age' = 0
     \/ age < Confirm - 1 /\ age' = age + 1 /\ UNCHANGED flag
  /\ wait' = [wait EXCEPT !.now = Earlier(@ + 1, Never), !.late = At("read")]
  /\ UNCHANGED <<reach, check, wasDown>>

NoWait == [pc |-> "idle", now |-> 0, wake |-> 0, since |-> Never, sure |-> FALSE, late |-> FALSE,
           last |-> "UNKNOWN", settled |-> "UNKNOWN", final |-> "UNKNOWN", code |-> 2]

Init ==
  /\ reach = FALSE /\ flag = FALSE /\ age = 0
  /\ check = "VALIDATION_PENDING"
  /\ wasDown = FALSE
  /\ wait = NoWait

Step == ReadStatus \/ ReadFails \/ Judge \/ WakeUp
Next == Start \/ Step \/ NodeFlips \/ Validator \/ Tick

\* A request is answered or fails, and time passes.
Fairness == WF_vars(Step) /\ WF_vars(Tick)
Spec == Init /\ [][Next]_vars /\ Fairness

-----------------------------------------------------------------------------
TypeOK ==
  /\ {reach, flag, wasDown} \subseteq BOOLEAN
  /\ age \in 0..(Confirm - 1)
  /\ check \in Checks
  /\ wait \in [pc : {"idle", "read", "judge", "sleep", "over"}, now : 0..(Never - 1), wake : 0..(Never - 1),
               since : 0..Never, sure : BOOLEAN, late : BOOLEAN, last : Readings, settled : Readings,
               final : Readings, code : {0, 1, 2}]

\* A wait that ends in OFFLINE, "fix this", is about a node that was down during the wait,
\* never about a flag from before it.
OfflineWasSeen == wait.final = "OFFLINE" => wasDown

\* The wait ends, at most Confirm after its deadline and one more sleep and read.
WaitEnds == Waiting ~> Over
=============================================================================
