----------------------------- MODULE RemoteCall -----------------------------
(***************************************************************************)
(* One call of a decorated function on a pod that is ready: its source and *)
(* its arguments go there as a script, the script runs it, and what it     *)
(* returned or raised comes back as a JSON envelope, with an .npz file     *)
(* beside it for the arrays.  What an envelope holds is for the codec to   *)
(* say.                                                                    *)
(***************************************************************************)
EXTENDS Integers

CONSTANTS
  Functions,        \* what a function may return or raise
  Encodable(_),     \* whether a value travels, or is refused with the name of its type
  Arrays(_),        \* its arrays, in the order in which they are met
  Encode(_, _),     \* a value as JSON, after so many arrays
  Decode(_, _),     \* JSON and a loaded sidecar as a value
  Failed,           \* what Decode gives where decode raises
  Message,          \* the arguments of an exception that has its message for the only one
  Nothing

VARIABLES
  pc,           \* the caller
  fn,           \* what the function does
  job,          \* the script on the pod: "none", "call", "arrays", "open", "write" or "dead"
  code,         \* its exit status
  payload,      \* what it is about to write
  npz, result,  \* its files: the arrays, and the envelope or what there is of it
  got           \* what the call of the function came to

vars == <<pc, fn, job, code, payload, npz, result, got>>

-----------------------------------------------------------------------------
(* What functions return and raise.                                        *)

\* Classes by what a caller can make of them: "fixed" has a constructor of its own that takes
\* no message, "exit" is SystemExit or KeyboardInterrupt, and "mine" is the user's class.
Classes  == {"builtin", "fixed", "exit", "mine", "encoding"}
Builtin  == {"builtin", "fixed"}

NoFn == [does |-> "none", value |-> Nothing, cls |-> "", args |-> Nothing, mute |-> FALSE]

\* mute: str() of the exception raises.
Returns(v)      == [NoFn EXCEPT !.does = "returns", !.value = v]
Raises(c, a, m) == [NoFn EXCEPT !.does = "raises", !.cls = c, !.args = a, !.mute = m]

\* What a call needs of its codec: the decoder undoes the encoder for every value that travels,
\* and for the arguments of exceptions without a sidecar.
CodecWorks ==
  \A f \in Functions :
    \/ /\ f = Returns(f.value)
       /\ Encodable(f.value) => f.value # Failed /\ Decode(Encode(f.value, 0), Arrays(f.value)) = f.value
    \/ /\ f = Raises(f.cls, f.args, f.mute) /\ f.cls \in Classes /\ f.mute \in BOOLEAN
       /\ Encodable(f.args) /\ Arrays(f.args) = <<>> => Decode(Encode(f.args, 0), <<>>) = f.args

-----------------------------------------------------------------------------
NoEnvelope == [ok |-> FALSE, cls |-> "", args |-> Nothing, message |-> Message, npz |-> FALSE, result |-> Nothing]
Torn  == [NoEnvelope EXCEPT !.cls = "torn"]     \* opened for writing, and no more
NoGot == [kind |-> "none", value |-> Nothing, cls |-> "", args |-> Nothing]
Ways  == {"none", "refused", "failed", "value", "raised", "encoding", "remote", "timeout", "no result", "unloadable"}

At(p) == pc = p
Ends(kind) == pc' = "over" /\ got' = [NoGot EXCEPT !.kind = kind]
Script == <<job, code, payload, npz, result>>

\* A function whose source needs more than itself, or arguments that cannot be pickled.
Refuse ==
  /\ At("idle")
  /\ Ends("refused")
  /\ UNCHANGED <<fn, Script>>

Call ==
  /\ At("idle")
  /\ fn' \in Functions
  /\ pc' = "upload"
  /\ UNCHANGED <<Script, got>>

Upload ==
  /\ At("upload")
  /\ pc' = "setup"
  /\ UNCHANGED <<fn, Script, got>>

\* The environment, made or found there.
Setup ==
  /\ At("setup")
  /\ pc' = "run"
  /\ job' = "call"
  /\ UNCHANGED <<fn, code, payload, npz, result, got>>

\* The connection breaks, or the environment cannot be made: what was raised is raised here,
\* and nobody reads what the script does after that.
Breaks ==
  /\ pc \in {"upload", "setup", "run", "fetch"}
  /\ Ends("failed")
  /\ UNCHANGED <<fn, Script>>

-----------------------------------------------------------------------------
(* The script on the pod.                                                  *)

\* Mutant: arrays in the arguments of an exception are no matter.
EncodableArgs(args) == IF Encodable(args) THEN Encode(args, 0) ELSE Nothing

\* args, if they are plain data all of them: no arrays and nothing that is refused.
ExceptionArgs(args) ==
  IF Encodable(args) /\ Arrays(args) = <<>> THEN Encode(args, 0) ELSE Nothing

Raised(cls, args) == [NoEnvelope EXCEPT !.cls = cls, !.args = ExceptionArgs(args)]

\* "runner did not finish": a RuntimeError.
Unfinished == [NoEnvelope EXCEPT !.cls = "builtin"]

\* What the script is to write of the function's end.
Outcome ==
  CASE fn.does = "returns" /\ Encodable(fn.value) ->
         [NoEnvelope EXCEPT !.ok = TRUE, !.result = Encode(fn.value, 0), !.npz = Arrays(fn.value) # <<>>]
    [] fn.does = "returns" /\ ~Encodable(fn.value) -> Raised("encoding", Message)
    [] fn.does = "raises" /\ fn.mute  -> Unfinished
    [] fn.does = "raises" /\ ~fn.mute -> Raised(fn.cls, fn.args)

Evaluate ==
  /\ At("run") /\ job = "call"
  /\ payload' = Outcome
  /\ job' = IF payload'.npz THEN "arrays" ELSE "open"
  /\ UNCHANGED <<pc, fn, code, npz, result, got>>

SaveArrays ==
  /\ At("run") /\ job = "arrays"
  /\ npz' = Arrays(fn.value)
  /\ job' = "open"
  /\ UNCHANGED <<pc, fn, code, payload, result, got>>

OpenEnvelope ==
  /\ At("run") /\ job = "open"
  /\ result' = Torn
  /\ job' = "write"
  /\ UNCHANGED <<pc, fn, code, payload, npz, got>>

WriteEnvelope ==
  /\ At("run") /\ job = "write"
  /\ result' = payload
  /\ job' = "dead" /\ code' = IF payload.ok THEN 0 ELSE 1
  /\ UNCHANGED <<pc, fn, payload, npz, got>>

\* The disk is full, or a number has more digits than Python writes.
WriteFails ==
  /\ At("run") /\ job \in {"arrays", "write"}
  /\ job' = "dead" /\ code' = 1
  /\ UNCHANGED <<pc, fn, payload, npz, result, got>>

\* By `timeout` (124, or 137 five seconds later), for its memory (-1 or 137), or by its own
\* hand.
Killed ==
  /\ At("run") /\ job \in {"call", "arrays", "open", "write"}
  /\ job' = "dead" /\ code' \in {124, 137, -1, 0}
  /\ UNCHANGED <<pc, fn, payload, npz, result, got>>

-----------------------------------------------------------------------------
(* The caller again.                                                       *)

\* The stream has ended, with the exit status.
Ran ==
  /\ At("run") /\ job = "dead"
  /\ pc' = "fetch"
  /\ UNCHANGED <<fn, Script, got>>

\* There is no result file, or fetching it is an OSError: the two look alike.
NoResult ==
  /\ At("fetch")
  /\ Ends(IF code = 124 THEN "timeout" ELSE "no result")
  /\ UNCHANGED <<fn, Script>>

\* A file that was opened and not written is no envelope.
Fetch ==
  /\ At("fetch") /\ result # Nothing
  /\ IF result = Torn THEN Ends("unloadable")
     ELSE pc' = (IF result.npz THEN "sidecar" ELSE "decode") /\ UNCHANGED got
  /\ UNCHANGED <<fn, Script>>

Sidecar ==
  /\ At("sidecar") /\ npz # Nothing
  /\ pc' = "decode"
  /\ UNCHANGED <<fn, Script, got>>

\* It is not there, cannot be fetched, or there is no numpy here.
SidecarFails ==
  /\ At("sidecar")
  /\ Ends("unloadable")
  /\ UNCHANGED <<fn, Script>>

\* What a builtin class may be made with: the arguments, and the message if there are none or
\* the class does not take them.
Rebuilt(envelope) ==
  IF envelope.cls \notin Builtin THEN {}
  ELSE (IF envelope.args # Nothing THEN {Decode(envelope.args, <<>>)} ELSE {})
       \cup (IF envelope.cls = "fixed" THEN {} ELSE {envelope.message})

DecodeResult ==
  /\ At("decode")
  /\ LET value == Decode(result.result, IF result.npz THEN npz ELSE <<>>) IN
     CASE result.ok /\ value = Failed -> Ends("unloadable")
       [] result.ok /\ value # Failed -> pc' = "over" /\ got' = [NoGot EXCEPT !.kind = "value", !.value = value]
       [] ~result.ok /\ result.cls = "encoding" -> Ends("encoding")
       [] ~result.ok /\ result.cls # "encoding" ->
            \/ result.cls # "builtin" /\ Ends("remote")
            \/ \E args \in Rebuilt(result) :
                 pc' = "over" /\ got' = [NoGot EXCEPT !.kind = "raised", !.cls = result.cls, !.args = args]
  /\ UNCHANGED <<fn, Script>>

\* The next call has files of its own.
Again ==
  /\ At("over")
  /\ pc' = "idle" /\ fn' = NoFn /\ got' = NoGot
  /\ job' = "none" /\ code' = 0 /\ payload' = NoEnvelope /\ npz' = Nothing /\ result' = Nothing

Init ==
  /\ pc = "idle" /\ fn = NoFn /\ got = NoGot
  /\ job = "none" /\ code = 0 /\ payload = NoEnvelope /\ npz = Nothing /\ result = Nothing

Next ==
  \/ Refuse \/ Call \/ Upload \/ Setup \/ Breaks
  \/ Evaluate \/ SaveArrays \/ OpenEnvelope \/ WriteEnvelope \/ WriteFails \/ Killed
  \/ Ran \/ NoResult \/ Fetch \/ Sidecar \/ SidecarFails \/ DecodeResult \/ Again

Spec == Init /\ [][Next]_vars

-----------------------------------------------------------------------------
TypeOK ==
  /\ pc \in {"idle", "upload", "setup", "run", "fetch", "sidecar", "decode", "over"}
  /\ fn.does \in {"none", "returns", "raises"} /\ fn.cls \in Classes \cup {""}
  /\ job \in {"none", "call", "arrays", "open", "write", "dead"} /\ code \in {-1, 0, 1, 124, 137}
  /\ got.kind \in Ways

\* The call gives what the function gave, of the same types: its value, its exception if a
\* caller can have one of that class (by its arguments or by its message), or the refusal of a
\* value that does not travel.  What was written whole is read.
AnswerIsTheFunctions ==
  /\ got.kind = "value" => fn.does = "returns" /\ got.value = fn.value
  /\ got.kind = "raised" =>
       /\ fn.does = "raises"
       /\ \/ got.cls = fn.cls /\ fn.cls \in Builtin /\ got.args \in {fn.args, Message}
          \/ fn.mute /\ got.cls = "builtin"
  /\ got.kind = "encoding" => fn.cls = "encoding" \/ (fn.does = "returns" /\ ~Encodable(fn.value))
  /\ got.kind = "unloadable" => result = Torn \/ result.npz
=============================================================================
