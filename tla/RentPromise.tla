----------------------------- MODULE RentPromise -----------------------------
(***************************************************************************)
(* What renting promises, without its protocol: a call asks the server at  *)
(* most Limit(c) times while it is open, every request makes at most one   *)
(* pod (one key at most one, when the server honours it), a pod may turn   *)
(* up after the call has ended, and the call ends once, with a pod that    *)
(* exists or with none.                                                    *)
(***************************************************************************)
EXTENDS Naturals

CONSTANTS Calls, OldPods, NoPod
VARIABLES
  honours,   \* does the server collapse two requests of one call?
  limit,     \* limit[c]: how often call c may ask
  status,    \* status[c]: idle, open, ended
  asked,     \* asked[c]: how often it has asked
  rented,    \* the pods that exist
  answer     \* answer[c]: the pod call c ended with

vars == <<honours, limit, status, asked, rented, answer>>

Init ==
  /\ honours \in BOOLEAN
  /\ limit \in [Calls -> {1, 2}]
  /\ status = [c \in Calls |-> "idle"]
  /\ asked = [c \in Calls |-> 0]
  /\ rented = OldPods
  /\ answer = [c \in Calls |-> NoPod]

Begin(c) ==
  /\ status[c] = "idle"
  /\ status' = [status EXCEPT ![c] = "open"]
  /\ UNCHANGED <<honours, limit, asked, rented, answer>>

Ask(c) ==
  /\ status[c] = "open" /\ asked[c] < limit[c]
  /\ asked' = [asked EXCEPT ![c] = @ + 1]
  /\ UNCHANGED <<honours, limit, status, rented, answer>>

Create(c, k) ==
  /\ k <= asked[c] /\ <<c, k>> \notin rented
  /\ honours => <<c, 3 - k>> \notin rented
  /\ rented' = rented \cup {<<c, k>>}
  /\ UNCHANGED <<honours, limit, status, asked, answer>>

End(c) ==
  /\ status[c] # "ended"
  /\ status' = [status EXCEPT ![c] = "ended"]
  /\ \E v \in {NoPod} \cup rented :
       /\ v # NoPod => status[c] = "open" /\ asked[c] > 0
       /\ answer' = [answer EXCEPT ![c] = v]
  /\ UNCHANGED <<honours, limit, asked, rented>>

Next == \E c \in Calls :
  Begin(c) \/ Ask(c) \/ End(c) \/ \E k \in {1, 2} : Create(c, k)

Promise == Init /\ [][Next]_vars

\* A call that is open ends.
Spec == Promise /\ \A c \in Calls : WF_vars(status[c] = "open" /\ End(c))
=============================================================================
