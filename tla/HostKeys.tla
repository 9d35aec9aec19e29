------------------------------ MODULE HostKeys ------------------------------
(***************************************************************************)
(* The host key of one pod, pinned on first use in a file of the pod's own *)
(* (~/.lium/known_hosts/<pod id>).  Connections of the SDK read the whole  *)
(* file and write all of it, ssh and rsync add a line to it, and the       *)
(* requests that replace the pod's container delete it when they are       *)
(* answered.  LIUM_SSH_INSECURE=1 leaves the file alone.                   *)
(***************************************************************************)
EXTENDS Naturals

CONSTANTS
  Addresses,    \* host and port
  Clients,      \* connections and requests of this machine
  MaxReplaced,  \* bound: containers that take the place of the first
  Nothing

VARIABLES
  host,         \* the pod: [key, at]; each container has a key of its own
  due,          \* a request that the backend has taken and not carried out yet
  hosts,        \* the file: [Addresses -> key or Nothing], or Nothing when there is none
  client,
  excused       \* history: the keys whose pin may be stale, since nothing here could drop it

vars == <<host, due, hosts, client, excused>>

-----------------------------------------------------------------------------
\* mem: the lines that a connection has loaded; gone: the file it has open was deleted.
NoClient == [pc |-> "idle", ssh |-> FALSE, mem |-> Nothing, key |-> Nothing, at |-> Nothing, gone |-> FALSE]
Empty    == [a \in Addresses |-> Nothing]
Lines    == IF hosts = Nothing THEN Empty ELSE hosts
AllKeys  == 0..MaxReplaced
Old      == {k \in AllKeys : k < host.key}

At(p, pc)   == client[p].pc = pc
Go(p, pc)   == client' = [client EXCEPT ![p].pc = pc]
Over(p)     == client' = [client EXCEPT ![p] = NoClient]
Asking      == {p \in Clients : client[p].pc \in {"ask", "answered"}}
KeysIn(f)   == IF f = Nothing THEN {} ELSE {f[a] : a \in Addresses} \ {Nothing}

-----------------------------------------------------------------------------
(* A connection: of the SDK, or of ssh and rsync.                          *)

\* The file is made if it is not there, and read.
Open(p) ==
  /\ At(p, "idle")
  /\ hosts' = Lines
  /\ \E ssh \in BOOLEAN :
       client' = [client EXCEPT ![p] = [NoClient EXCEPT !.pc = "open", !.ssh = ssh, !.mem = Lines, !.at = host.at]]
  /\ UNCHANGED <<host, due, excused>>

\* The key that is presented is the pinned one, or another one, or the first one.
Handshake(p) ==
  /\ At(p, "open")
  /\ client[p].at = host.at
  /\ LET pinned == client[p].mem[host.at] IN
     CASE pinned = host.key -> Over(p)
       [] pinned = Nothing  ->
            client' = [client EXCEPT ![p] = [@ EXCEPT !.pc = IF client[p].ssh THEN "append" ELSE "merge", !.key = host.key]]
       [] OTHER             -> client' = [client EXCEPT ![p] = [@ EXCEPT !.pc = "refused", !.key = pinned]]
  /\ UNCHANGED <<host, due, hosts, excused>>

\* No address, no private key, nobody there, or the pod has moved since it was listed.
Unreached(p) ==
  /\ At(p, "open")
  /\ Over(p)
  /\ UNCHANGED <<host, due, hosts, excused>>

\* LiumHostKeyError, or ssh's own words.
Refused(p) ==
  /\ At(p, "refused")
  /\ Over(p)
  /\ UNCHANGED <<host, due, hosts, excused>>

\* ssh adds its line, and makes the file if it is gone; the first line for an address counts.
Append(p) ==
  /\ At(p, "append")
  /\ hosts' = [Lines EXCEPT ![client[p].at] = IF @ = Nothing THEN client[p].key ELSE @]
  /\ Over(p)
  /\ UNCHANGED <<host, due, excused>>

\* The SDK reads the file again, behind what it knows itself; it fails if the file is gone.
Merge(p) ==
  /\ At(p, "merge")
  /\ LET mine == [client[p].mem EXCEPT ![client[p].at] = client[p].key] IN
     IF hosts = Nothing THEN Over(p)
     ELSE client' = [client EXCEPT ![p] = [@ EXCEPT !.pc = "truncate",
                       !.mem = [a \in Addresses |-> IF mine[a] # Nothing THEN mine[a] ELSE hosts[a]]]]
  /\ UNCHANGED <<host, due, hosts, excused>>

Truncate(p) ==
  /\ At(p, "truncate")
  /\ hosts' = Empty
  /\ Go(p, "write")
  /\ UNCHANGED <<host, due, excused>>

Write(p) ==
  /\ At(p, "write")
  /\ hosts' = IF client[p].gone THEN hosts ELSE client[p].mem
  /\ Over(p)
  /\ UNCHANGED <<host, due, excused>>

-----------------------------------------------------------------------------
(* reboot, edit and switch_template.                                       *)

Ask(p) ==
  /\ At(p, "idle")
  /\ host.key < MaxReplaced
  /\ Go(p, "ask")
  /\ due' \in {due, TRUE}
  /\ UNCHANGED <<host, hosts, excused>>

Answered(p) ==
  /\ At(p, "ask")
  /\ Go(p, "answered")
  /\ UNCHANGED <<host, due, hosts, excused>>

\* An error, or no answer: the pin stays, whatever the request did.
Unanswered(p) ==
  /\ At(p, "ask")
  /\ Over(p)
  /\ excused' = excused \cup Old
  /\ UNCHANGED <<host, due, hosts>>

\* Mutant: the request is all there is to it.
KeepHostKey(p) ==
  /\ At(p, "answered")
  /\ Over(p)
  /\ UNCHANGED <<host, due, hosts, excused>>

\* What connections that are open have loaded or seen by now, they may still write.
InFlight == UNION {KeysIn(client[q].mem) \cup ({client[q].key} \ {Nothing}) : q \in Clients}

\* The file is deleted, or stays without a word.
ForgetHostKey(p) ==
  /\ At(p, "answered")
  /\ \/ /\ hosts' = Nothing
        /\ client' = [q \in Clients |-> IF q = p THEN NoClient ELSE [client[q] EXCEPT !.gone = At(q, "write")]]
        /\ excused' = excused \cup (InFlight \cap Old)
     \/ UNCHANGED hosts /\ Over(p) /\ excused' = excused \cup Old
  /\ UNCHANGED <<host, due>>

\* Between any two steps.
Kill(p) ==
  /\ ~At(p, "idle")
  /\ Over(p)
  /\ excused' = IF p \in Asking THEN excused \cup Old ELSE excused
  /\ UNCHANGED <<host, due, hosts>>

-----------------------------------------------------------------------------
(* The pod.                                                                *)

\* With another key, and perhaps elsewhere.
Replaced(asked) ==
  /\ host.key < MaxReplaced
  /\ \E a \in Addresses : host' = [key |-> host.key + 1, at |-> a]
  /\ excused' = IF asked /\ Asking # {} THEN excused ELSE excused \cup Old \cup {host.key}
  /\ UNCHANGED <<hosts, client>>

\* For a request, at once or after its answer.
Carried == due /\ due' = FALSE /\ Replaced(TRUE)

\* The platform, or the user on the web.
FromOutside == UNCHANGED due /\ Replaced(FALSE)

Init ==
  /\ host = [key |-> 0, at |-> CHOOSE a \in Addresses : TRUE]
  /\ due = FALSE
  /\ hosts = Nothing
  /\ client = [p \in Clients |-> NoClient]
  /\ excused = {}

Next ==
  \/ \E p \in Clients :
       \/ Open(p) \/ Handshake(p) \/ Unreached(p) \/ Refused(p) \/ Append(p) \/ Merge(p) \/ Truncate(p) \/ Write(p)
       \/ Ask(p) \/ Answered(p) \/ Unanswered(p) \/ ForgetHostKey(p) \/ Kill(p)
  \/ Carried \/ FromOutside

Spec == Init /\ [][Next]_vars

-----------------------------------------------------------------------------
TypeOK ==
  /\ host \in [key : AllKeys, at : Addresses]
  /\ due \in BOOLEAN
  /\ hosts \in [Addresses -> AllKeys \cup {Nothing}] \cup {Nothing}
  /\ client \in [Clients -> [pc : {"idle", "open", "refused", "append", "merge", "truncate", "write", "ask", "answered"},
                             ssh : BOOLEAN, mem : [Addresses -> AllKeys \cup {Nothing}] \cup {Nothing},
                             key : AllKeys \cup {Nothing}, at : Addresses \cup {Nothing}, gone : BOOLEAN]]
  /\ excused \subseteq AllKeys

Stale == (KeysIn(hosts) \cup {client[p].key : p \in {p \in Clients : At(p, "refused")}}) \ {host.key}

\* A pin that is not the pod's key any more, in the file or where it makes a connection fail, is
\* from before something that this machine could not see through: a container that was replaced
\* from outside or after the answer, an answer that was lost, a file that cannot be deleted, or a
\* connection that was open meanwhile.  Else the next connection pins the new key.
StalePinIsExcused == Asking = {} => Stale \subseteq excused
=============================================================================
