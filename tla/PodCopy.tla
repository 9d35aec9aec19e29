------------------------------ MODULE PodCopy ------------------------------
(***************************************************************************)
(* `lium cp` (Lium.cp): copies into one pod at the same time.  Each source *)
(* pod gets a transfer key of its own, the destination's authorized_keys   *)
(* gets its public half for the time of the copy, and both go again in a   *)
(* finally.  Commands run on the pods and answer over connections that     *)
(* break; the destination's container is replaced by reboots, with another *)
(* host key and the user's keys only.                                      *)
(***************************************************************************)
EXTENDS Naturals

CONSTANTS
  Copies,       \* the commands; each stands for its marker, too
  User,         \* the user's own line in authorized_keys
  MaxReboots,   \* bound: containers that replace the first
  Nothing

VARIABLES
  container,    \* which container the destination is, and so which host key it has
  keys,         \* its authorized_keys
  lock,         \* the copy whose command holds the transfer-key lock, or Nothing
  script,       \* [Copies -> the grant or revoke command of the copy on the destination]
  pin,          \* the host key that this machine has pinned for the pod, or Nothing
  cp,           \* [Copies -> the command here]
  private       \* the copies whose private half is on their source pod

pod  == <<container, keys, lock>>
vars == <<container, keys, lock, script, pin, cp, private>>

-----------------------------------------------------------------------------
NoScript == [op |-> "none", step |-> "none", scratch |-> {}, ok |-> FALSE]
NoCopy   == [pc |-> "idle", insecure |-> FALSE, authorized |-> FALSE, on |-> Nothing,
             lost |-> FALSE, revoked |-> FALSE, told |-> {}, killed |-> FALSE]
Places   == {"idle", "keygen", "grant", "granting", "pin", "place", "rsync", "revoke", "revoking", "cleanup", "over"}

At(c, pc)     == cp[c].pc = pc
Go(c, pc)     == cp' = [cp EXCEPT ![c].pc = pc]
Does(c, step) == script[c].step = step
Over(c, dead) == cp' = [cp EXCEPT ![c] = [NoCopy EXCEPT !.pc = "over", !.killed = dead, !.told = cp[c].told,
                                                        !.lost = cp[c].lost, !.revoked = cp[c].revoked]]
Quiet         == UNCHANGED <<pod, script, pin, private>>

\* What `finally` does first depends on whether the grant was seen to succeed.
Finally(c) == IF cp[c].authorized THEN "revoke" ELSE "cleanup"
Raises(c)  == Go(c, Finally(c))

\* Trust on first use, and never another key.
Trusted(c)  == cp[c].insecure \/ pin \in {Nothing, container}
PinAfter(c) == IF cp[c].insecure THEN pin ELSE container

-----------------------------------------------------------------------------
(* The command.                                                            *)

Begin(c) ==
  /\ At(c, "idle")
  /\ \E i \in BOOLEAN : cp' = [cp EXCEPT ![c] = [@ EXCEPT !.pc = "keygen", !.insecure = i]]
  /\ Quiet

\* Source and destination are one pod, which copies by itself; or there is no address.
NoTransfer(c) ==
  /\ At(c, "idle")
  /\ Over(c, FALSE)
  /\ Quiet

Keygen(c) ==
  /\ At(c, "keygen")
  /\ private' = private \cup {c}
  /\ Go(c, "grant")
  /\ UNCHANGED <<pod, script, pin>>

\* It is outside the try; the key may have been made.
KeygenFails(c) ==
  /\ At(c, "keygen")
  /\ \/ UNCHANGED private /\ Over(c, FALSE)
     \/ /\ private' = private \cup {c}
        /\ cp' = [cp EXCEPT ![c] = [NoCopy EXCEPT !.pc = "over", !.lost = TRUE]]
  /\ UNCHANGED <<pod, script, pin>>

\* The connection pins the host key, and the command starts on the pod.
Start(c, op, next) ==
  /\ Trusted(c)
  /\ pin' = PinAfter(c)
  /\ script' = [script EXCEPT ![c] = [NoScript EXCEPT !.op = op, !.step = "wait"]]
  /\ cp' = [cp EXCEPT ![c] = [@ EXCEPT !.pc = next, !.on = container]]
  /\ UNCHANGED <<pod, private>>

StartGrant(c) == At(c, "grant") /\ Start(c, "grant", "granting")

\* No connection, or another host key.
GrantNotStarted(c) ==
  /\ At(c, "grant")
  /\ Raises(c)
  /\ Quiet

\* A failure is taken to have left no key.
Granted(c) ==
  /\ At(c, "granting") /\ Does(c, "done")
  /\ script' = [script EXCEPT ![c] = NoScript]
  /\ cp' = IF script[c].ok THEN [cp EXCEPT ![c] = [@ EXCEPT !.pc = "pin", !.authorized = TRUE]]
                           ELSE [cp EXCEPT ![c] = [@ EXCEPT !.pc = "cleanup", !.lost = (c \in keys)]]
  /\ UNCHANGED <<pod, pin, private>>

\* The connection breaks: an exception, or the exit status -1.  The command goes on there.
GrantUnanswered(c) ==
  /\ At(c, "granting")
  /\ cp' = [cp EXCEPT ![c] = [@ EXCEPT !.pc = "cleanup", !.lost = TRUE]]
  /\ Quiet

\* The pin is read from the file, where there is none if somebody has dropped it by now.
ReadPin(c) ==
  /\ At(c, "pin")
  /\ cp' = [cp EXCEPT ![c].pc = IF cp[c].insecure THEN "rsync" ELSE IF pin = Nothing THEN Finally(c) ELSE "place"]
  /\ Quiet

PlacePin(c) ==
  /\ At(c, "place")
  /\ Go(c, "rsync") \/ Raises(c)
  /\ Quiet

\* The source takes only the host key it was given, and the destination only an authorised
\* key; what follows is the same whether the files were copied or not.
Rsync(c) ==
  /\ At(c, "rsync")
  /\ Raises(c)
  /\ Quiet

StartRevoke(c) == At(c, "revoke") /\ Start(c, "revoke", "revoking")

\* Mutant: a revoke that fails is passed over.
RevokeFailsQuietly(c) == cp' = [cp EXCEPT ![c].pc = "cleanup"]

\* A warning names the key that is still authorised, and how to revoke it.
RevokeFails(c) == cp' = [cp EXCEPT ![c] = [@ EXCEPT !.pc = "cleanup", !.told = {"public"}]]

RevokeNotStarted(c) ==
  /\ At(c, "revoke")
  /\ RevokeFails(c)
  /\ Quiet

Revoked(c) ==
  /\ At(c, "revoking") /\ Does(c, "done")
  /\ script' = [script EXCEPT ![c] = NoScript]
  /\ IF script[c].ok THEN cp' = [cp EXCEPT ![c] = [@ EXCEPT !.pc = "cleanup", !.revoked = TRUE]] ELSE RevokeFails(c)
  /\ UNCHANGED <<pod, pin, private>>

RevokeUnanswered(c) ==
  /\ At(c, "revoking")
  /\ RevokeFails(c)
  /\ Quiet

\* The private half goes, or a warning says that it has not.
Cleanup(c) ==
  /\ At(c, "cleanup")
  /\ \/ private' = private \ {c} /\ Over(c, FALSE)
     \/ /\ UNCHANGED private
        /\ cp' = [cp EXCEPT ![c] = [NoCopy EXCEPT !.pc = "over", !.lost = cp[c].lost, !.revoked = cp[c].revoked,
                                                  !.told = cp[c].told \cup {"private"}]]
  /\ UNCHANGED <<pod, script, pin>>

Kill(c) ==
  /\ cp[c].pc \notin {"idle", "over"}
  /\ Over(c, TRUE)
  /\ Quiet

-----------------------------------------------------------------------------
(* Its grant and its revoke on the destination, each under the lock.       *)

Step(c, step) == script' = [script EXCEPT ![c].step = step]
End(c, ok)    == script' = [script EXCEPT ![c] = [@ EXCEPT !.step = "done", !.ok = ok]]

\* Mutant: nobody waits for the lock.
LockIgnored(c) ==
  /\ Does(c, "wait")
  /\ lock' = c
  /\ Step(c, "locked")
  /\ UNCHANGED <<container, keys, pin, cp, private>>

Lock(c) ==
  /\ Does(c, "wait")
  /\ lock = Nothing
  /\ lock' = c
  /\ Step(c, "locked")
  /\ UNCHANGED <<container, keys, pin, cp, private>>

\* flock -w 30
LockTimesOut(c) ==
  /\ Does(c, "wait")
  /\ lock # Nothing
  /\ End(c, FALSE)
  /\ UNCHANGED <<pod, pin, cp, private>>

\* echo and chmod: the first may have appended the key when the second fails.
Grant(c) ==
  /\ Does(c, "locked") /\ script[c].op = "grant"
  /\ \/ keys' = keys \cup {c} /\ \E ok \in BOOLEAN : End(c, ok)
     \/ UNCHANGED keys /\ End(c, FALSE)
  /\ lock' = Nothing
  /\ UNCHANGED <<container, pin, cp, private>>

\* grep, into the scratch file of this copy; on an error nothing else is touched.
Filter(c) ==
  /\ Does(c, "locked") /\ script[c].op = "revoke"
  /\ \/ /\ script' = [script EXCEPT ![c] = [@ EXCEPT !.step = "filtered", !.scratch = keys \ {c}]]
        /\ UNCHANGED lock
     \/ End(c, FALSE) /\ lock' = Nothing
  /\ UNCHANGED <<container, keys, pin, cp, private>>

\* cat, back into authorized_keys.
WriteBack(c) ==
  /\ Does(c, "filtered")
  /\ keys' = script[c].scratch
  /\ lock' = Nothing
  /\ script' = [script EXCEPT ![c] = [@ EXCEPT !.step = "done", !.ok = TRUE, !.scratch = {}]]
  /\ UNCHANGED <<container, pin, cp, private>>

-----------------------------------------------------------------------------
(* The pod and this machine.                                               *)

\* A reboot, an edit or a template change from here or elsewhere, or the platform.
Replaced ==
  /\ container < MaxReboots
  /\ container' = container + 1
  /\ keys' = {User}
  /\ lock' = Nothing
  /\ script' = [c \in Copies |-> IF script[c].op = "none" \/ Does(c, "done") THEN script[c]
                                 ELSE [script[c] EXCEPT !.step = "done", !.scratch = {}]]
  /\ UNCHANGED <<pin, cp, private>>

\* The command that asked for it has its answer.
ForgetHostKey ==
  /\ pin # Nothing
  /\ pin' = Nothing
  /\ UNCHANGED <<pod, script, cp, private>>

Init ==
  /\ container = 0
  /\ keys = {User}
  /\ lock = Nothing
  /\ script = [c \in Copies |-> NoScript]
  /\ pin = Nothing
  /\ cp = [c \in Copies |-> NoCopy]
  /\ private = {}

Next ==
  \/ \E c \in Copies :
       \/ Begin(c) \/ NoTransfer(c) \/ Keygen(c) \/ KeygenFails(c)
       \/ StartGrant(c) \/ GrantNotStarted(c) \/ Granted(c) \/ GrantUnanswered(c)
       \/ ReadPin(c) \/ PlacePin(c) \/ Rsync(c)
       \/ StartRevoke(c) \/ RevokeNotStarted(c) \/ Revoked(c) \/ RevokeUnanswered(c)
       \/ Cleanup(c) \/ Kill(c)
       \/ Lock(c) \/ LockTimesOut(c) \/ Grant(c) \/ Filter(c) \/ WriteBack(c)
  \/ Replaced
  \/ ForgetHostKey

Spec == Init /\ [][Next]_vars

-----------------------------------------------------------------------------
TypeOK ==
  /\ container \in 0..MaxReboots
  /\ pin \in 0..MaxReboots \cup {Nothing}
  /\ keys \subseteq Copies \cup {User}
  /\ private \subseteq Copies
  /\ lock \in Copies \cup {Nothing}
  /\ cp \in [Copies -> [pc : Places, insecure : BOOLEAN, authorized : BOOLEAN, on : 0..MaxReboots \cup {Nothing},
                        lost : BOOLEAN, revoked : BOOLEAN, told : SUBSET {"public", "private"}, killed : BOOLEAN]]
  /\ script \in [Copies -> [op : {"none", "grant", "revoke"}, step : {"none", "wait", "locked", "filtered", "done"},
                            scratch : SUBSET (Copies \cup {User}), ok : BOOLEAN]]

\* authorized_keys is what the answers say: a key whose grant succeeded is there until its own
\* revoke, one whose revoke succeeded never comes back, and the user's own line stays, whatever
\* grants and revokes run at the same time.
KeysAsAnswered ==
  /\ User \in keys
  /\ \A c \in Copies :
       /\ cp[c].pc \in {"pin", "place", "rsync", "revoke"} /\ cp[c].on = container => c \in keys
       /\ cp[c].revoked => c \notin keys

\* The halves of its key that a copy has left on the pods when it is over.
Left(c) == (IF c \in keys THEN {"public"} ELSE {}) \cup (IF c \in private THEN {"private"} ELSE {})

\* A copy that was not killed leaves a half of its key behind only if the user was told of that
\* half, or ssh-keygen or the grant had done its work and did not answer, or answered that it
\* had failed: a key that was appended before chmod failed is told to nobody.
LeftKeyIsTold ==
  \A c \in Copies :
    At(c, "over") => Left(c) \subseteq cp[c].told \/ cp[c].killed \/ cp[c].lost
=============================================================================
