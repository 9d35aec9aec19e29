-------------------------------- MODULE Exec --------------------------------
(***************************************************************************)
(* `lium exec`: one command on several pods, by a pool of workers with an  *)
(* SSH connection each.  A worker waits for the exit status before it      *)
(* reads the output to its end, which a child of the command may put off,  *)
(* and a pod sends no more output than the window of the channel holds.    *)
(***************************************************************************)
EXTENDS Integers, FiniteSetsExt

CONSTANTS
  MaxTargets,
  Workers,      \* max_workers
  Window,       \* what a channel holds unread
  MaxOutput

VARIABLES
  command,      \* the command: [pc, code]
  task,         \* of each target: [pc, exit]
  remote        \* what runs there

vars == <<command, task, remote>>

-----------------------------------------------------------------------------
NoTask   == [pc |-> "queued", exit |-> 0]
\* input: it reads its standard input, which has not ended; left: what it has still to print;
\* output: whether its output has ended, or a child it left in the background holds it open.
NoRemote == [input |-> FALSE, eof |-> FALSE, left |-> 0, unread |-> 0, status |-> "none",
             output |-> "open", silent |-> FALSE]
Targets  == DOMAIN task
Statuses == {0, 2}               \* what a command exits with
NoStatus == -1                   \* what a channel says when none has come: a signal, or a broken connection

At(i, pc)   == task[i].pc = pc
Go(i, pc)   == task' = [task EXCEPT ![i].pc = pc]
Done(i, x)  == task' = [task EXCEPT ![i] = [pc |-> "done", exit |-> x]]
Working     == {i \in Targets : task[i].pc \notin {"queued", "done"}}
Connected(i) == task[i].pc \in {"stdin", "status", "read"}
Runs(i)     == task[i].pc \in {"stdin", "status"} /\ remote[i].status = "none"

\* Pods are found, and the command and its environment are good.
Begin ==
  /\ command.pc = "idle"
  /\ command' = [pc |-> "run", code |-> 0]
  /\ \E n \in 1..MaxTargets :
       task' = [i \in 1..n |-> NoTask] /\ remote' = [i \in 1..n |-> NoRemote]

\* Mutant: a worker for every pod.
TakeAtOnce(i) ==
  /\ At(i, "queued")
  /\ Go(i, "connect")
  /\ UNCHANGED <<command, remote>>

Take(i) ==
  /\ At(i, "queued") /\ \A j \in Targets : At(j, "queued") => i <= j
  /\ Cardinality(Working) < Workers
  /\ Go(i, "connect")
  /\ UNCHANGED <<command, remote>>

\* The command may read its input and print any amount.
Connect(i) ==
  /\ At(i, "connect")
  /\ \E input \in BOOLEAN, left \in 0..MaxOutput :
       remote' = [remote EXCEPT ![i] = [@ EXCEPT !.input = input, !.left = left]]
  /\ Go(i, "stdin")
  /\ UNCHANGED command

\* Whatever is raised makes an entry without an exit code, which counts as 1; for one pod it is
\* the failure of the command.
Raises(i) ==
  /\ i \in Working /\ ~At(i, "read")
  /\ Done(i, 1)
  /\ UNCHANGED <<command, remote>>

\* Mutant: the input is left open.
LeaveStdin(i) ==
  /\ At(i, "stdin")
  /\ Go(i, "status")
  /\ UNCHANGED <<command, remote>>

\* The exports are written, and the input ends.
CloseStdin(i) ==
  /\ At(i, "stdin")
  /\ remote' = [remote EXCEPT ![i].eof = TRUE]
  /\ Go(i, "status")
  /\ UNCHANGED command

\* recv_exit_status has no time limit.
Status(i) ==
  /\ At(i, "status")
  /\ remote[i].status # "none" /\ ~remote[i].silent
  /\ task' = [task EXCEPT ![i] = [pc |-> "read", exit |-> IF remote[i].status = "lost" THEN NoStatus
                                                        ELSE IF remote[i].status = "ok" THEN 0 ELSE 2]]
  /\ UNCHANGED <<command, remote>>

\* stdout.read() and stderr.read() return at the end of the output, and have no time limit.
Read(i) ==
  /\ At(i, "read")
  /\ remote[i].output = "ended"
  /\ remote' = [remote EXCEPT ![i] = NoRemote]
  /\ Go(i, "done")
  /\ UNCHANGED command

\* The command exits with the greatest code.
Worst == Max({task[i].exit : i \in Targets})

Report ==
  /\ command.pc = "run" /\ \A i \in Targets : At(i, "done")
  /\ command' = [pc |-> "over", code |-> Worst]
  /\ UNCHANGED <<task, remote>>

Finish ==
  /\ command.pc = "over"
  /\ command' = [pc |-> "idle", code |-> 0] /\ task' = <<>> /\ remote' = <<>>

\* Ctrl-C, or a kill.
Interrupt ==
  /\ command.pc = "run"
  /\ command' = [pc |-> "idle", code |-> 0] /\ task' = <<>> /\ remote' = <<>>

-----------------------------------------------------------------------------
(* The pod.                                                                *)

ReadInput(i) ==
  /\ Runs(i) /\ remote[i].input /\ remote[i].eof
  /\ remote' = [remote EXCEPT ![i].input = FALSE]
  /\ UNCHANGED <<command, task>>

Output(i) ==
  /\ Runs(i) /\ ~remote[i].input
  /\ remote[i].left > 0 /\ remote[i].unread < Window
  /\ remote' = [remote EXCEPT ![i] = [remote[i] EXCEPT !.left = @ - 1, !.unread = @ + 1]]
  /\ UNCHANGED <<command, task>>

Exit(i) ==
  /\ Runs(i) /\ ~remote[i].input /\ remote[i].left = 0
  /\ \E s \in {"ok", "failed"}, o \in {"open", "held"} :
       remote' = [remote EXCEPT ![i] = [@ EXCEPT !.status = s, !.output = o]]
  /\ UNCHANGED <<command, task>>

\* A signal ends it, or the connection breaks: no status comes.
StatusLost(i) ==
  /\ Runs(i)
  /\ \E o \in {"open", "held"} :
       remote' = [remote EXCEPT ![i] = [@ EXCEPT !.status = "lost", !.output = o]]
  /\ UNCHANGED <<command, task>>

\* The last process that has the output is gone, and its end arrives.
OutputEnds(i) ==
  /\ Connected(i) /\ ~remote[i].silent
  /\ remote[i].status # "none" /\ remote[i].output # "ended"
  /\ remote' = [remote EXCEPT ![i].output = "ended"]
  /\ UNCHANGED <<command, task>>

\* The network is gone without a word.
Silence(i) ==
  /\ Connected(i) /\ remote[i].output # "ended" /\ ~remote[i].silent
  /\ remote' = [remote EXCEPT ![i].silent = TRUE]
  /\ UNCHANGED <<command, task>>

Init == command = [pc |-> "idle", code |-> 0] /\ task = <<>> /\ remote = <<>>

Next ==
  \/ Begin \/ Report \/ Finish \/ Interrupt
  \/ \E i \in Targets :
       \/ Take(i) \/ Connect(i) \/ Raises(i) \/ CloseStdin(i) \/ Status(i) \/ Read(i)
       \/ ReadInput(i) \/ Output(i) \/ Exit(i) \/ StatusLost(i) \/ OutputEnds(i) \/ Silence(i)

Spec == Init /\ [][Next]_vars

-----------------------------------------------------------------------------
TypeOK ==
  /\ command.pc \in {"idle", "run", "over"} /\ command.code \in Statuses \cup {1, NoStatus}
  /\ Targets \subseteq 1..MaxTargets
  /\ task \in [Targets -> [pc : {"queued", "connect", "stdin", "status", "read", "done"},
                          exit : Statuses \cup {1, NoStatus}]]
  /\ remote \in [Targets -> [input : BOOLEAN, eof : BOOLEAN, left : 0..MaxOutput, unread : 0..Window,
                            status : {"none", "ok", "failed", "lost"},
                            output : {"open", "held", "ended"}, silent : BOOLEAN]]
  /\ Cardinality(Working) <= Workers

\* A worker that waits, and that nothing but the network, a child on the pod or the user will move.
Waits(i) ==
  \/ At(i, "status") /\ \/ remote[i].silent
                        \/ remote[i].status = "none" /\ (remote[i].input /\ ~remote[i].eof)
                        \/ remote[i].status = "none" /\ remote[i].left > 0 /\ remote[i].unread = Window
  \/ At(i, "read") /\ remote[i].output # "ended" /\ (remote[i].silent \/ remote[i].output = "held")
Hangs == Working # {} /\ \A i \in Working : Waits(i)

\* When all workers wait for ever, the pods they are at have gone silent, have more to print than
\* the window holds, or run a child of the command that keeps its output open: what a command
\* reads, exits with or dies of is no reason.
HangIsThePods ==
  Hangs => \A i \in Working :
             \/ remote[i].silent
             \/ remote[i].left + remote[i].unread > Window
             \/ remote[i].output = "held"

\* "Any pod failing fails the whole invocation, like a shell pipeline would."
AnyFailureFails ==
  command.pc = "over" /\ command.code = 0 => \A i \in Targets : task[i].exit = 0
=============================================================================
