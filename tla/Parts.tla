-------------------------------- MODULE Parts --------------------------------
(***************************************************************************)
(* The commands of one user that share nothing with each other: each       *)
(* behaviour is about one of them, and the variables of the others stay as *)
(* they are.                                                               *)
(***************************************************************************)
EXTENDS Naturals, FiniteSets

CONSTANTS
  \* Mine
  Accounts, Ports, DefaultPort, FindAttempts, MaxStarts,
  \* NodeWait
  Interval, Confirm, Timeout,
  \* Fund
  Netuids, Companies, Own, Tao, LegacyAddress, Quotes, Grain, MaxFree, MaxRuns,
  \* PodCopy
  Copies, User, MaxReboots,
  \* PodIndex
  Pods, Numeric, TTL,
  \* Workspaces
  Ids, Names, Home, Procs, MaxCommands, MaxEdits, Deleted,
  \* SshKeys
  Keys, MaxRents,
  \* Exec
  MaxTargets, Workers, Window, MaxOutput,
  \* HostKeys
  Addresses, Clients, MaxReplaced,
  \* RemoteCall
  Functions, Encodable(_), Arrays(_), Encode(_, _), Decode(_, _), Failed, Message,
  Nothing

VARIABLES
  part,         \* the command that this behaviour is about
  env, box, taken, nodes, starts, run,
  reach, flag, age, check, wait, wasDown,
  free, pending, moved, pay, registered, fund, user, lost, shown,
  container, keys, lock, script, pin, cp, private,
  listed, gone, snapshot, screen, unsaved, cmd,
  name, file, whole, proc, meant, overlap, commands, edits,
  server, ever, cache, rent, rents,
  command, task, remote,
  host, due, hosts, client, excused,
  pc, fn, job, code, payload, npz, result, got

mine  == <<env, box, taken, nodes, starts, run>>
watch == <<reach, flag, age, check, wait, wasDown>>
money == <<free, pending, moved, pay, registered, fund, user, lost, shown>>
copy  == <<container, keys, lock, script, pin, cp, private>>
index == <<listed, gone, snapshot, screen, unsaved, cmd>>
teams == <<name, file, whole, proc, meant, overlap, commands, edits>>
ssh   == <<server, ever, cache, rent, rents>>
fleet == <<command, task, remote>>
pins  == <<host, due, hosts, client, excused>>
call  == <<pc, fn, job, code, payload, npz, result, got>>

M == INSTANCE Mine
W == INSTANCE NodeWait
F == INSTANCE Fund
C == INSTANCE PodCopy
I == INSTANCE PodIndex
S == INSTANCE Workspaces
K == INSTANCE SshKeys
X == INSTANCE Exec
H == INSTANCE HostKeys
R == INSTANCE RemoteCall

\* A value that stands for what is not there is none of those that are; a user's own key is not
\* that of a copy, nor the user's own wallet one of Lium's; and a wait has a minute to confirm.
ASSUME CopyAssumption  == Nothing \notin Copies /\ User \notin Copies /\ MaxReboots \in Nat
ASSUME FundAssumption  == /\ Netuids # {} /\ Companies # {} /\ Quotes \subseteq Nat /\ Grain \in Nat \ {0}
                          /\ Own \notin Companies \cup {LegacyAddress} /\ Tao \notin Netuids
                          /\ MaxFree \in Nat /\ MaxRuns \in Nat
ASSUME IndexAssumption == Nothing \notin I!Listings /\ Numeric \in Pods /\ TTL \in Nat
ASSUME ExecAssumption  == MaxTargets \in Nat /\ Workers \in Nat /\ Window \in Nat /\ MaxOutput \in Nat
ASSUME WaitAssumption  == Interval \in Nat \ {0} /\ Confirm \in Nat \ {0} /\ Timeout \in Nat
ASSUME MineAssumption  == /\ Nothing \notin M!Configs \cup M!Boxes \cup Accounts
                          /\ DefaultPort \in Ports /\ FindAttempts \in Nat \ {0} /\ MaxStarts \in Nat
ASSUME PinAssumption   == /\ MaxReplaced \in Nat /\ Addresses # {}
                          /\ Nothing \notin Nat \cup Addresses \cup [Addresses -> H!AllKeys \cup {Nothing}]
ASSUME CodecAssumption == R!CodecWorks
ASSUME NameAssumption  == Home \in Ids /\ IsFiniteSet(Names) /\ Names # {} /\ Nothing \notin Names \cup Ids

-----------------------------------------------------------------------------
Init ==
  /\ M!Init /\ W!Init /\ F!Init /\ C!Init /\ I!Init /\ S!Init /\ K!Init /\ X!Init /\ H!Init
  /\ R!Init

Next ==
  \/ part = "mine" /\ M!Next /\ UNCHANGED <<part, watch, money, copy, index, teams, ssh, fleet, pins, call>>
  \/ part = "wait" /\ W!Next /\ UNCHANGED <<part, mine, money, copy, index, teams, ssh, fleet, pins, call>>
  \/ part = "fund" /\ F!Next /\ UNCHANGED <<part, mine, watch, copy, index, teams, ssh, fleet, pins, call>>
  \/ part = "copy" /\ C!Next /\ UNCHANGED <<part, mine, watch, money, index, teams, ssh, fleet, pins, call>>
  \/ part = "index" /\ I!Next /\ UNCHANGED <<part, mine, watch, money, copy, teams, ssh, fleet, pins, call>>
  \/ part = "workspaces" /\ S!Next /\ UNCHANGED <<part, mine, watch, money, copy, index, ssh, fleet, pins, call>>
  \/ part = "keys" /\ K!Next /\ UNCHANGED <<part, mine, watch, money, copy, index, teams, fleet, pins, call>>
  \/ part = "exec" /\ X!Next /\ UNCHANGED <<part, mine, watch, money, copy, index, teams, ssh, pins, call>>
  \/ part = "pins" /\ H!Next /\ UNCHANGED <<part, mine, watch, money, copy, index, teams, ssh, fleet, call>>
  \/ part = "call" /\ R!Next /\ UNCHANGED <<part, mine, watch, money, copy, index, teams, ssh, fleet, pins>>

vars == <<part, mine, watch, money, copy, index, teams, ssh, fleet, pins, call>>

Spec == Init /\ [][Next]_vars /\ W!Fairness

-----------------------------------------------------------------------------
\* The types of all of them.
TypeOK ==
  /\ M!TypeOK /\ W!TypeOK /\ F!TypeOK /\ C!TypeOK /\ I!TypeOK /\ S!TypeOK
  /\ K!TypeOK /\ X!TypeOK /\ H!TypeOK /\ R!TypeOK

\* Mine: what the user reads of a node is true of the one at this host.
RegisteredIsThisNode == M!RegisteredIsThisNode

\* NodeWait: a wait that ends in OFFLINE is about a node that was down during it.
OfflineWasSeen == W!OfflineWasSeen

\* NodeWait: the wait for a listing ends.
WaitEnds == W!WaitEnds

\* Fund: what is signed is what the user confirmed.
SentAsConfirmed == F!SentAsConfirmed

\* Fund: a user who does what the hints say sends twice only when a call for alpha that had been
\* submitted raised, or the command was cut off then.
ResendNeedsLostAnswer == F!ResendNeedsLostAnswer

\* PodCopy: authorized_keys is what the answers of grants and revokes say.
KeysAsAnswered == C!KeysAsAnswered

\* PodCopy: a half of its key that a copy leaves is told, unless what made it did not say so.
LeftKeyIsTold == C!LeftKeyIsTold

\* PodIndex: a row number stands for the pod that was shown on that row.
RowIsPodShown == I!RowIsPodShown

\* Workspaces: with -w, up and rm act in the workspace whose key was saved for the name.
ActsWhereMeant == S!ActsWhereMeant

\* Workspaces: a saved key goes from the file only by a command about its workspace.
SavedKeyKept == S!SavedKeyKept

\* SshKeys: a key that is taken for registered was registered with this account.
CachedWasRegistered == K!CachedWasRegistered

\* Exec: workers that wait for ever are at pods that are silent, flood, or hold the output open.
HangIsThePods == X!HangIsThePods

\* HostKeys: a stale pin is from before something that this machine could not see.
StalePinIsExcused == H!StalePinIsExcused

\* RemoteCall: a call gives what the function gave.
AnswerIsTheFunctions == R!AnswerIsTheFunctions
=============================================================================
