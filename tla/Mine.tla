-------------------------------- MODULE Mine --------------------------------
(***************************************************************************)
(* `lium mine`: a host is set up as a node step by step, killed or failing *)
(* anywhere and run again, and with --register the node is added to an     *)
(* account of the portal.  The wait until it is listed is NodeWait.        *)
(*                                                                         *)
(* An account stands for the two claims of its token: the account itself   *)
(* and the hotkey that the executor reports under.  A public address is    *)
(* known by its port, for there is one host.                               *)
(***************************************************************************)
EXTENDS Naturals

CONSTANTS
  Accounts,
  Ports, DefaultPort,
  FindAttempts,   \* FIND_NODE_ATTEMPTS
  MaxStarts,      \* bound: runs of the command
  Nothing

VARIABLES
  env,      \* the executor's .env: [hotkey, port], or Nothing
  box,      \* the executor's container: [hotkey, port, state], or Nothing
  taken,    \* the ports that other processes of the host listen on
  nodes,    \* portal: the account that has the node at a port, or Nothing
  starts,
  run       \* the command

host == <<env, box, taken>>
vars == <<env, box, taken, nodes, starts, run>>

-----------------------------------------------------------------------------
Configs == [hotkey : Accounts, port : Ports]
Boxes   == [hotkey : Accounts, port : Ports, state : {"created", "running", "healthy"}]
Setup   == {"repo", "tools", "prereqs", "render", "override", "ports", "up", "health", "preflight"}
Survey  == {"inventory", "port", "address", "price"}
Places  == {"idle", "over", "summary", "post", "find", "watch"} \cup Setup \cup Survey

\* saw is the container whose health ended the wait for it, fresh that no executor of this
\* host ran when the ports were checked.  said is what the user has been told of the node.
NoRun ==
  [pc |-> "idle", account |-> Nothing, hotkey |-> Nothing, port |-> DefaultPort, register |-> FALSE,
   watch |-> FALSE, fresh |-> FALSE, saw |-> Nothing, already |-> FALSE, left |-> 0, said |-> "nothing",
   code |-> 0]

At(pc)       == run.pc = pc
Go(pc)       == run' = [run EXCEPT !.pc = pc]
Exit(c)      == run' = [run EXCEPT !.pc = "over", !.code = c]
Tell(c, s)   == run' = [run EXCEPT !.pc = "over", !.code = c, !.said = s]
Ours         == box # Nothing /\ box.state # "created"
StartedBox   == [hotkey |-> env.hotkey, port |-> env.port,
                 state |-> IF env.port \in taken THEN "created" ELSE "running"]

-----------------------------------------------------------------------------
(* The command line.                                                       *)

\* --auto, which a token implies, takes the default port; else the user types one.
Answers(token) == IF token THEN {DefaultPort} ELSE Ports

\* With a token the account is the token's.
Begin ==
  /\ At("idle")
  /\ starts < MaxStarts
  /\ starts' = starts + 1
  /\ \E a \in Accounts, token \in BOOLEAN, w \in BOOLEAN :
       /\ w => token
       /\ \E p \in Answers(token) :
            run' = [NoRun EXCEPT !.pc = "repo", !.hotkey = a, !.port = p, !.register = token,
                                 !.account = IF token THEN a ELSE Nothing, !.watch = w]
  /\ UNCHANGED <<host, nodes>>

\* A token that cannot be read or has expired, a -k that differs from it, an option that
\* needs it.
Refuse ==
  /\ At("idle")
  /\ starts < MaxStarts
  /\ starts' = starts + 1
  /\ run' = [NoRun EXCEPT !.pc = "over", !.code = 1]
  /\ UNCHANGED <<host, nodes>>

-----------------------------------------------------------------------------
(* Steps 1 to 6.  Each may raise instead (StepFails).                      *)

Repository    == At("repo")    /\ Go("tools")   /\ UNCHANGED <<host, nodes, starts>>
Tools         == At("tools")   /\ Go("prereqs") /\ UNCHANGED <<host, nodes, starts>>
Prerequisites == At("prereqs") /\ Go("render")  /\ UNCHANGED <<host, nodes, starts>>

StepFails ==
  /\ run.pc \in Setup
  /\ Exit(1)
  /\ UNCHANGED <<host, nodes, starts>>

\* Mutant: a .env that is there is kept.
RenderEnvOnce ==
  /\ At("render")
  /\ env' = IF env = Nothing THEN [hotkey |-> run.hotkey, port |-> DefaultPort] ELSE env
  /\ Go("override")
  /\ UNCHANGED <<box, taken, nodes, starts>>

\* .env is made from the template, which has the default ports.
RenderEnv ==
  /\ At("render")
  /\ env' = [hotkey |-> run.hotkey, port |-> DefaultPort]
  /\ Go("override")
  /\ UNCHANGED <<box, taken, nodes, starts>>

Override ==
  /\ At("override")
  /\ env' = [env EXCEPT !.port = run.port]
  /\ Go("ports")
  /\ UNCHANGED <<box, taken, nodes, starts>>

\* The ports are not looked at when an executor of this host runs, whatever its ports are.
CheckPorts ==
  /\ At("ports")
  /\ Ours \/ run.port \notin taken
  /\ run' = [run EXCEPT !.pc = "up", !.fresh = ~Ours]
  /\ UNCHANGED <<host, nodes, starts>>

PortTaken ==
  /\ At("ports")
  /\ ~Ours
  /\ run.port \in taken
  /\ Exit(1)
  /\ UNCHANGED <<host, nodes, starts>>

\* An executor that runs is left as it is; one whose bind failed is made anew.
ComposeUp ==
  /\ At("up")
  /\ box' = IF Ours THEN box ELSE StartedBox
  /\ Go("health")
  /\ UNCHANGED <<env, taken, nodes, starts>>

\* The health of whichever container is found.
Healthy ==
  /\ At("health")
  /\ box # Nothing /\ box.state = "healthy"
  /\ run' = [run EXCEPT !.pc = "preflight", !.saw = [hotkey |-> box.hotkey, port |-> box.port]]
  /\ UNCHANGED <<host, nodes, starts>>

\* Health has not come within its three minutes.
HealthTimesOut ==
  /\ At("health")
  /\ Exit(1)
  /\ UNCHANGED <<host, nodes, starts>>

\* The verdict of the validator's image, once it is pulled.
Preflight ==
  /\ At("preflight")
  /\ IF run.register THEN Go("inventory") ELSE Go("summary")
  /\ UNCHANGED <<host, nodes, starts>>

\* Without a token: the node is described and the command ends.  nvidia-smi is asked again
\* and may fail now.
Summary ==
  /\ At("summary")
  /\ \E c \in {0, 1} : Exit(c)
  /\ UNCHANGED <<host, nodes, starts>>

-----------------------------------------------------------------------------
(* Step 7: the node is added to the account.                               *)

\* Nothing is added and the command ends.
NotAdded == Tell(1, "failed")

\* nvidia-smi names no GPU, or two models.
Inventory ==
  /\ At("inventory")
  /\ Go("port") \/ NotAdded
  /\ UNCHANGED <<host, nodes, starts>>

\* The port that is registered is read from .env again.
Port ==
  /\ At("port")
  /\ run' = [run EXCEPT !.pc = "address", !.port = env.port]
  /\ UNCHANGED <<host, nodes, starts>>

\* No service tells a public IPv4 address.
Address ==
  /\ At("address")
  /\ Go("price") \/ NotAdded
  /\ UNCHANGED <<host, nodes, starts>>

\* The model has no default price and --price is not given.
Price ==
  /\ At("price")
  /\ Go("post") \/ NotAdded
  /\ UNCHANGED <<host, nodes, starts>>

\* The token is refused or has run out during the setup, the model is not supported, or any
\* other refusal.
AddRefused ==
  /\ At("post")
  /\ NotAdded
  /\ UNCHANGED <<host, nodes, starts>>

Add ==
  /\ At("post")
  /\ nodes[run.port] = Nothing
  /\ nodes' = [nodes EXCEPT ![run.port] = run.account]
  /\ run' = [run EXCEPT !.pc = "find", !.left = FindAttempts]
  /\ UNCHANGED <<host, starts>>

\* The answer is lost after the portal has added the node; the user reads of a refusal.
AddUnanswered ==
  /\ At("post")
  /\ nodes[run.port] = Nothing
  /\ nodes' = [nodes EXCEPT ![run.port] = run.account]
  /\ NotAdded
  /\ UNCHANGED <<host, starts>>

\* The portal compares the address with the nodes of every account.
AddTwice ==
  /\ At("post")
  /\ nodes[run.port] # Nothing
  /\ run' = [run EXCEPT !.pc = "find", !.left = FindAttempts, !.already = TRUE]
  /\ UNCHANGED <<host, nodes, starts>>

\* The pages of the account's list are searched for the address.
InList == nodes[run.port] = run.account

Found ==
  /\ At("find")
  /\ InList
  /\ LET said == IF run.already THEN "already" ELSE "added" IN
     IF run.watch THEN run' = [run EXCEPT !.pc = "watch", !.said = said] ELSE Tell(0, said)
  /\ UNCHANGED <<host, nodes, starts>>

\* The list lags, or cannot be read.
NotFound ==
  /\ At("find")
  /\ run.left > 1
  /\ run' = [run EXCEPT !.left = @ - 1]
  /\ UNCHANGED <<host, nodes, starts>>

\* Mutant: a duplicate is taken for the account's own node.
NeverFoundOurs ==
  /\ At("find")
  /\ run.left = 1
  /\ IF run.already THEN Tell(2, "already") ELSE Tell(2, "added")
  /\ UNCHANGED <<host, nodes, starts>>

\* A duplicate that is not in the account's list is another account's.
NeverFound ==
  /\ At("find")
  /\ run.left = 1
  /\ IF run.already THEN Tell(1, "failed") ELSE Tell(2, "added")
  /\ UNCHANGED <<host, nodes, starts>>

\* Step 8, the wait of NodeWait, or Ctrl-C in it.
Watched ==
  /\ At("watch")
  /\ \E c \in {0, 1, 2} : Exit(c)
  /\ UNCHANGED <<host, nodes, starts>>

-----------------------------------------------------------------------------
(* The end of a command.                                                   *)

Finish ==
  /\ At("over")
  /\ run' = NoRun
  /\ UNCHANGED <<host, nodes, starts>>

\* A kill while .env is written leaves it empty.
Kill ==
  /\ run.pc \in Setup \cup Survey \cup {"summary", "post", "find"}
  /\ env' \in IF run.pc \in {"render", "override"} THEN {env, Nothing} ELSE {env}
  /\ run' = NoRun
  /\ UNCHANGED <<box, taken, nodes, starts>>

-----------------------------------------------------------------------------
(* The host and the portal.                                                *)

SettingUp == run.pc \in Setup \cup {"idle"}
Bound(p)  == Ours /\ box.port = p

\* Another process takes or frees a port.
PortUsed ==
  /\ SettingUp
  /\ \E p \in Ports : ~Bound(p) /\ taken' \in {taken \cup {p}, taken \ {p}}
  /\ UNCHANGED <<env, box, nodes, starts, run>>

BoxHealthy ==
  /\ SettingUp
  /\ box # Nothing /\ box.state = "running"
  /\ box' = [box EXCEPT !.state = "healthy"]
  /\ UNCHANGED <<env, taken, nodes, starts, run>>

\* The runner may make a container anew whose .env has changed.
Recreate ==
  /\ run.pc \in {"health", "preflight"}
  /\ [hotkey |-> box.hotkey, port |-> box.port] # env
  /\ box' = StartedBox
  /\ UNCHANGED <<env, taken, nodes, starts, run>>

\* Somebody adds a node at this address by other means.
OthersAdd ==
  /\ SettingUp
  /\ \E p \in Ports, a \in Accounts :
       nodes[p] = Nothing /\ nodes' = [nodes EXCEPT ![p] = a]
  /\ UNCHANGED <<host, starts, run>>

Init ==
  /\ env = Nothing /\ box = Nothing /\ taken = {}
  /\ nodes = [p \in Ports |-> Nothing]
  /\ starts = 0
  /\ run = NoRun

\* The command's own steps.
Step ==
  \/ Repository \/ Tools \/ Prerequisites \/ RenderEnv \/ Override \/ CheckPorts \/ PortTaken
  \/ ComposeUp \/ Healthy \/ HealthTimesOut \/ Preflight \/ StepFails \/ Summary
  \/ Inventory \/ Port \/ Address \/ Price
  \/ AddRefused \/ Add \/ AddUnanswered \/ AddTwice \/ Found \/ NotFound \/ NeverFound
  \/ Watched \/ Finish

Environment == PortUsed \/ BoxHealthy \/ Recreate \/ OthersAdd

Next == Begin \/ Refuse \/ Step \/ Kill \/ Environment

Spec == Init /\ [][Next]_vars

-----------------------------------------------------------------------------
TypeOK ==
  /\ env \in Configs \cup {Nothing}
  /\ box \in Boxes \cup {Nothing}
  /\ taken \subseteq Ports
  /\ nodes \in [Ports -> Accounts \cup {Nothing}]
  /\ starts \in 0..MaxStarts
  /\ run \in [pc : Places, account : Accounts \cup {Nothing}, hotkey : Accounts \cup {Nothing}, port : Ports,
              register : BOOLEAN, watch : BOOLEAN, fresh : BOOLEAN, saw : Configs \cup {Nothing},
              already : BOOLEAN, left : 0..FindAttempts, said : {"nothing", "failed", "added", "already"},
              code : {0, 1, 2}]

\* What the user reads of a node is true of the one at this host: the account has it, and
\* when no executor ran here before, it is the container that was healthy, under the hotkey
\* of the token and at the port that was registered.
RegisteredIsThisNode ==
  run.said \in {"added", "already"} =>
    /\ nodes[run.port] = run.account
    /\ run.fresh => run.saw = [hotkey |-> run.account, port |-> run.port]
=============================================================================
