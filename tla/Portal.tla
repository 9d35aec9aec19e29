------------------------------- MODULE Portal -------------------------------
(***************************************************************************)
(* `lium provider`: several processes of one machine share a file with the *)
(* portal's tokens (one per hotkey), a lock file beside it, and the file   *)
(* of confirmations.  A command passes the gate that asks before spending, *)
(* gets a token from the file or with a signature, and sends its request.  *)
(*                                                                         *)
(* A token is the number of its issue; 0 is no token.  The portal issues   *)
(* tokens in order and they run out in order.                              *)
(***************************************************************************)
EXTENDS Naturals

CONSTANTS
  Procs,        \* the processes that can run at a time
  Hotkeys,
  Retries,      \* with_refresh_retry: max_retries
  MaxTokens,    \* bound: tokens issued for a hotkey
  MaxCommands,  \* bound: commands started
  MaxLosses,    \* bound: how often tokens and confirmations run out
  NoProc, Nothing

ASSUME PortalAssumption ==
  /\ Hotkeys # {}
  /\ Retries \in Nat \ {0}
  /\ MaxTokens \in Nat \ {0}
  /\ MaxCommands \in Nat
  /\ MaxLosses \in Nat
  /\ NoProc \notin Procs
  /\ Nothing \notin [key : Hotkeys, token : Nat, blind : BOOLEAN]

VARIABLES
  cache,      \* the token file: cache[h], 0 when it has no entry for h
  lock,       \* who holds the flock on the lock file
  issued,     \* portal: tokens issued for h
  expired,    \* tokens of h up to this one have run out, which the client can see
  revoked,    \* portal: tokens of h up to this one are refused, which it cannot see
  signed,     \* portal: who logged in as h with the timestamp of this second
  acks,       \* the confirmation file: the hotkeys confirmed in this shell
  consent,    \* history: the hotkeys the user has confirmed
  waiting,    \* processes that wait for the clock's next second
  started,    \* commands started
  losses,     \* how often a token or a confirmation has run out
  proc        \* what each process is at

portal == <<issued, expired, revoked, signed>>
gate   == <<acks, consent>>
clock  == <<waiting, started, losses>>
vars   == <<cache, lock, portal, gate, clock, proc>>

-----------------------------------------------------------------------------
\* "force" is login --force; "read" any query; "watch" node status --watch and the wait of
\* config connect-discord; "nodes" the second request of status; "mutate" every command
\* behind the gate; "password" config set-password.
Spending == {"mutate"}

\* lium provider config: show | opt-in, opt-out, set-email | set-password | connect-discord.
ConfigGroup == {"read", "password", "watch"} \cup Spending

\* lium provider node: list, get | status --watch | add and what changes a node.
NodeGroup == {"read", "watch"} \cup Spending

Commands == {"login", "force", "logout", "status"} \cup ConfigGroup \cup NodeGroup
Running  == Commands \cup {"nodes"}
Places   == {"idle", "gate", "ack", "token", "second", "sign", "lock", "held", "write", "request"}
Goals    == {"load", "token", "save", "clear"}

Tokens == 0..MaxTokens
Data   == [Hotkeys -> Tokens]

\* What _read_all makes of a file that is not there, that it cannot open or that is no JSON.
Unread == [k \in Hotkeys |-> 0]

\* load() and _current_token() return a token only when it has not run out.
Fresh(h, n) == n > expired[h]
Accepted(h, n) == n > expired[h] /\ n > revoked[h]

New(c, h, yes, pc) ==
  [cmd |-> c, hotkey |-> h, yes |-> yes, pc |-> pc, goal |-> IF c = "logout" THEN "clear" ELSE "load",
   tries |-> Retries, held |-> 0, token |-> 0, data |-> Unread, blind |-> FALSE, seen |-> {}]

\* No command: nothing of the one before is left in memory.
Rest == New("read", CHOOSE h \in Hotkeys : TRUE, FALSE, "idle")

At(p, pc) == proc[p].pc = pc
Key(p)    == proc[p].hotkey
Go(p, pc) == proc' = [proc EXCEPT ![p].pc = pc]
End(p)    == proc' = [proc EXCEPT ![p] = Rest]

\* An operation on the file: load, save or clear inside with_refresh_retry.
Use(p, goal, token) ==
  proc' = [proc EXCEPT ![p].pc = "lock", ![p].goal = goal, ![p].tries = Retries, ![p].token = token]

\* The loop of with_refresh_retry is left, with its counter.
Leave(p, pc) == proc' = [proc EXCEPT ![p].pc = pc, ![p].tries = Retries]

-----------------------------------------------------------------------------
(* A command line, and the gate before a command that spends.              *)

FirstPlace(c) ==
  CASE c \in {"login", "logout"}          -> "lock"
    [] c = "force"                        -> "sign"
    [] c = "password"                     -> "second"
    [] c \in Spending                     -> "gate"
    [] c \in {"read", "watch", "status"}  -> "token"

Begin(p) ==
  /\ At(p, "idle")
  /\ started < MaxCommands
  /\ started' = started + 1
  /\ \E c \in Commands, h \in Hotkeys, yes \in BOOLEAN :
       /\ yes => c \in Spending
       /\ proc' = [proc EXCEPT ![p] = New(c, h, yes, FirstPlace(c))]
       /\ waiting' = IF c = "password" THEN waiting \cup {p} ELSE waiting
  /\ UNCHANGED <<cache, lock, portal, gate, losses>>

\* --yes, or a confirmation in the file (at most 24 hours old).
Pass(p) ==
  /\ At(p, "gate")
  /\ proc[p].yes \/ Key(p) \in acks
  /\ Go(p, "token")
  /\ UNCHANGED <<cache, lock, portal, gate, clock>>

\* The user types y; mark_acked reads the file.
Confirm(p) ==
  /\ At(p, "gate")
  /\ ~proc[p].yes /\ Key(p) \notin acks
  /\ consent' = consent \cup {Key(p)}
  /\ proc' = [proc EXCEPT ![p].pc = "ack", ![p].seen = acks]
  /\ UNCHANGED <<cache, lock, portal, acks, clock>>

Decline(p) ==
  /\ At(p, "gate")
  /\ ~proc[p].yes /\ Key(p) \notin acks
  /\ End(p)
  /\ UNCHANGED <<cache, lock, portal, gate, clock>>

\* Mutant: the confirmation is kept without its hotkey.
WriteAcksOfShell(p) ==
  /\ At(p, "ack")
  /\ acks' = Hotkeys
  /\ proc' = [proc EXCEPT ![p].pc = "token", ![p].seen = {}]
  /\ UNCHANGED <<cache, lock, portal, consent, clock>>

\* mark_acked writes what it read and the new entry; an error is passed over.  There is no
\* lock and one name for the new file: of two writers one may truncate what the other moves.
WriteAcks(p) ==
  /\ At(p, "ack")
  /\ acks' \in {proc[p].seen \cup {Key(p)}, acks}
       \cup {{} : q \in {q \in Procs \ {p} : At(q, "ack")}}
  /\ proc' = [proc EXCEPT ![p].pc = "token", ![p].seen = {}]
  /\ UNCHANGED <<cache, lock, portal, consent, clock>>

\* A payload, a path segment or a default price that is not there: no request.
Invalid(p) ==
  /\ At(p, "token")
  /\ proc[p].cmd = "mutate"
  /\ End(p)
  /\ UNCHANGED <<cache, lock, portal, gate, clock>>

-----------------------------------------------------------------------------
(* The token file.                                                         *)

\* Mutant: no lock, as where fcntl is missing.
AcquireNothing(p) ==
  /\ At(p, "lock")
  /\ lock' = p
  /\ Leave(p, "held")
  /\ UNCHANGED <<cache, portal, gate, clock>>

Acquire(p) ==
  /\ At(p, "lock")
  /\ lock = NoProc
  /\ lock' = p
  /\ Leave(p, "held")
  /\ UNCHANGED <<cache, portal, gate, clock>>

\* The flock is refused: back off and try again.
Contend(p) ==
  /\ At(p, "lock")
  /\ lock # NoProc
  /\ proc[p].tries > 1
  /\ proc' = [proc EXCEPT ![p].tries = @ - 1]
  /\ UNCHANGED <<cache, lock, portal, gate, clock>>

\* It was refused Retries times.  _current_token passes over every error: no token.
GiveUp(p) ==
  /\ At(p, "lock")
  /\ lock # NoProc
  /\ proc[p].tries = 1
  /\ IF proc[p].goal = "token" THEN Leave(p, "request") ELSE End(p)
  /\ UNCHANGED <<cache, lock, portal, gate, clock>>

\* Mutant: a token that has run out is asked for again, until there is a fresh one.
LoadFresh(p) ==
  /\ At(p, "held")
  /\ proc[p].goal \in {"load", "token"}
  /\ LET found == Fresh(Key(p), cache[Key(p)])
     IN proc' = [proc EXCEPT
          ![p].held = IF found THEN cache[Key(p)] ELSE @,
          ![p].pc = IF proc[p].goal = "token" \/ found THEN "token" ELSE "sign"]
  /\ lock' = NoProc
  /\ UNCHANGED <<cache, portal, gate, clock>>

\* load: login ends with what it finds, or signs; another command sends its request.  In a
\* file that cannot be read there is nothing to find.
Load(p) ==
  /\ At(p, "held")
  /\ proc[p].goal \in {"load", "token"}
  /\ \E found \in {Fresh(Key(p), cache[Key(p)]), FALSE} :
        proc' = [proc EXCEPT
          ![p].held = IF found THEN cache[Key(p)] ELSE @,
          ![p].pc = IF proc[p].goal = "token" THEN "request" ELSE IF found THEN "token" ELSE "sign"]
  /\ lock' = NoProc
  /\ UNCHANGED <<cache, portal, gate, clock>>

\* save and clear read the whole file first.  _read_all passes over every error: a save
\* goes on with an empty file (blind), a clear finds its hotkey missing.
ReadAll(p) ==
  /\ At(p, "held")
  /\ \E blind \in BOOLEAN :
       /\ \/ proc[p].goal = "save"
          \/ proc[p].goal = "clear" /\ cache[Key(p)] # 0 /\ ~blind
       /\ proc' = [proc EXCEPT ![p].pc = "write", ![p].blind = blind,
                               ![p].data = IF blind THEN Unread ELSE cache]
  /\ UNCHANGED <<cache, lock, portal, gate, clock>>

\* After a save the command has the new token; after a clear it is done.
Done(p) == IF proc[p].goal = "save"
             THEN proc' = [proc EXCEPT ![p].pc = "token", ![p].held = proc[p].token,
                                       ![p].token = 0, ![p].data = Unread, ![p].blind = FALSE]
             ELSE End(p)

\* clear: no entry, or a file that cannot be read: nothing is written.
Absent(p) ==
  /\ At(p, "held")
  /\ proc[p].goal = "clear"
  /\ End(p)
  /\ lock' = NoProc
  /\ UNCHANGED <<cache, portal, gate, clock>>

\* _write_all: a new file, moved over the old one; the lock is let go.
Replace(p) ==
  /\ At(p, "write")
  /\ cache' = [proc[p].data EXCEPT ![Key(p)] = proc[p].token]
  /\ Done(p)
  /\ lock' = NoProc
  /\ UNCHANGED <<portal, gate, clock>>

WriteFails(p) ==
  /\ At(p, "write")
  /\ End(p)
  /\ lock' = NoProc
  /\ UNCHANGED <<cache, portal, gate, clock>>

-----------------------------------------------------------------------------
(* Requests that a signature of the hotkey carries.                        *)

\* set_password waits for a second that no login of this process has signed.
NextSecond(p) ==
  /\ At(p, "second")
  /\ p \notin waiting
  /\ Go(p, "sign")
  /\ UNCHANGED <<cache, lock, portal, gate, clock>>

Sign(p) ==
  /\ At(p, "sign")
  /\ signed[Key(p)] = NoProc
  /\ IF proc[p].cmd = "password"
       THEN End(p) /\ UNCHANGED issued
       ELSE /\ issued[Key(p)] < MaxTokens
            /\ issued' = [issued EXCEPT ![Key(p)] = @ + 1]
            /\ Use(p, "save", issued[Key(p)] + 1)
  /\ signed' = [signed EXCEPT ![Key(p)] = p]
  /\ UNCHANGED <<cache, lock, expired, revoked, gate, clock>>

\* The portal has seen this hotkey's signature of this second.
Replayed(p) ==
  /\ At(p, "sign")
  /\ signed[Key(p)] # NoProc
  /\ End(p)
  /\ UNCHANGED <<cache, lock, portal, gate, clock>>

\* No answer, or an error: the portal may have issued the token all the same.
SignFails(p) ==
  /\ At(p, "sign")
  /\ End(p)
  /\ \/ UNCHANGED <<issued, signed>>
     \/ /\ signed[Key(p)] = NoProc
        /\ signed' = [signed EXCEPT ![Key(p)] = p]
        /\ \/ proc[p].cmd = "password" /\ UNCHANGED issued
           \/ /\ proc[p].cmd # "password" /\ issued[Key(p)] < MaxTokens
              /\ issued' = [issued EXCEPT ![Key(p)] = @ + 1]
  /\ UNCHANGED <<cache, lock, expired, revoked, gate, clock>>

-----------------------------------------------------------------------------
(* Requests that carry a token.                                            *)

\* _current_token: the one in memory, or else the one in the file.
Token(p) ==
  /\ At(p, "token")
  /\ IF Fresh(Key(p), proc[p].held) THEN Go(p, "request") ELSE Use(p, "token", 0)
  /\ UNCHANGED <<cache, lock, portal, gate, clock>>

\* A command with another request to send: status, and one that watches.
Again(p, cmd) == proc' = [proc EXCEPT ![p].cmd = cmd, ![p].pc = "token"]

Answer(p) ==
  /\ At(p, "request")
  /\ Accepted(Key(p), proc[p].held)
  /\ \/ proc[p].cmd = "status" /\ Again(p, "nodes")
     \/ proc[p].cmd = "watch" /\ Again(p, "watch")
     \/ proc[p].cmd # "status" /\ End(p)
  /\ UNCHANGED <<cache, lock, portal, gate, clock>>

\* 401: the token is refused, or there was none.  login passes over it, and so does status.
Refuse(p) ==
  /\ At(p, "request")
  /\ ~Accepted(Key(p), proc[p].held)
  /\ End(p)
  /\ UNCHANGED <<cache, lock, portal, gate, clock>>

\* The network fails, or the portal answers with another error.  The network error is
\* not among those with_retry repeats.
RequestFails(p) ==
  /\ At(p, "request")
  /\ End(p)
  /\ UNCHANGED <<cache, lock, portal, gate, clock>>

-----------------------------------------------------------------------------
(* What happens outside.                                                   *)

\* The process dies anywhere, and the kernel lets its lock go.
Kill(p) ==
  /\ ~At(p, "idle")
  /\ End(p)
  /\ lock' = IF lock = p THEN NoProc ELSE lock
  /\ waiting' = waiting \ {p}
  /\ UNCHANGED <<cache, portal, gate, started, losses>>

Loss == losses < MaxLosses /\ losses' = losses + 1

Expire(h) ==
  /\ Loss
  /\ expired[h] < issued[h]
  /\ expired' = [expired EXCEPT ![h] = @ + 1]
  /\ UNCHANGED <<cache, lock, issued, revoked, signed, gate, waiting, started, proc>>

Revoke(h) ==
  /\ Loss
  /\ revoked[h] < issued[h]
  /\ revoked' = [revoked EXCEPT ![h] = issued[h]]
  /\ UNCHANGED <<cache, lock, issued, expired, signed, gate, waiting, started, proc>>

\* The clock shows the next second.
Tick ==
  /\ waiting' = {}
  /\ signed' = [h \in Hotkeys |-> NoProc]
  /\ UNCHANGED <<cache, lock, issued, expired, revoked, gate, started, losses, proc>>

\* A confirmation is 24 hours old.
AckExpires(h) ==
  /\ Loss
  /\ h \in acks
  /\ acks' = acks \ {h}
  /\ UNCHANGED <<cache, lock, portal, consent, waiting, started, proc>>

-----------------------------------------------------------------------------
\* No file, or one with a token of every hotkey, which an earlier command left.
Init ==
  /\ cache \in {[h \in Hotkeys |-> n] : n \in {0, 1}}
  /\ lock = NoProc
  /\ issued = [h \in Hotkeys |-> 1]
  /\ expired = [h \in Hotkeys |-> 0]
  /\ revoked = [h \in Hotkeys |-> 0]
  /\ signed = [h \in Hotkeys |-> NoProc]
  /\ acks = {}
  /\ consent = {}
  /\ waiting = {}
  /\ started = 0
  /\ losses = 0
  /\ proc = [p \in Procs |-> Rest]

Locking(p)  == Acquire(p) \/ Contend(p) \/ GiveUp(p)
OnFile(p)   == Locking(p) \/ Load(p) \/ ReadAll(p) \/ Absent(p) \/ Replace(p) \/ WriteFails(p)
Signing(p)  == NextSecond(p) \/ Sign(p) \/ Replayed(p) \/ SignFails(p)
Request(p)  == Token(p) \/ Answer(p) \/ Refuse(p) \/ RequestFails(p)
Gate(p)     == Pass(p) \/ Confirm(p) \/ Decline(p)
Step(p)     == OnFile(p) \/ Signing(p) \/ Request(p) \/ WriteAcks(p) \/ Invalid(p)

Outside == Tick \/ \E h \in Hotkeys : Expire(h) \/ Revoke(h) \/ AckExpires(h)

Next == Outside \/ \E p \in Procs : Begin(p) \/ Gate(p) \/ Step(p) \/ Kill(p)

\* A process that need not wait for the user is scheduled, and the clock advances.
Fairness == WF_vars(Tick) /\ \A p \in Procs : WF_vars(Step(p))

Spec == Init /\ [][Next]_vars /\ Fairness
-----------------------------------------------------------------------------
(* Properties.                                                             *)

Process ==
  [cmd : Running, hotkey : Hotkeys, yes : BOOLEAN, pc : Places, goal : Goals, tries : 1..Retries,
   held : Tokens, token : Tokens, data : Data, blind : BOOLEAN, seen : SUBSET Hotkeys]

\* The values of the variables.
FileType    == cache \in Data /\ lock \in Procs \cup {NoProc}
PortalType  == /\ issued \in Data
               /\ expired \in Data
               /\ revoked \in Data
               /\ signed \in [Hotkeys -> Procs \cup {NoProc}]
GateType    == acks \in SUBSET Hotkeys /\ consent \in SUBSET Hotkeys
ClockType   == waiting \in SUBSET Procs /\ started \in 0..MaxCommands /\ losses \in 0..MaxLosses
ProcessType == proc \in [Procs -> Process]

TypeOK == FileType /\ PortalType /\ GateType /\ ClockType /\ ProcessType

\* The cache of tokens under every interleaving of load, save and clear, failed reads and
\* writes and deaths is one register per hotkey (TokenStore.save, clear, _locked, _read_all,
\* _write_all): nothing but the token that was to be written comes into the file, and no
\* process takes away what another wrote for its own hotkey, but for a save that could not
\* read the file, which leaves its own entry alone.
Writing(p) == proc[p].goal \in {"save", "clear"} /\ proc[p].pc \in {"lock", "held", "write"}
Doing == [p \in Procs |->
            IF Writing(p) THEN [key |-> Key(p), token |-> proc[p].token, blind |-> proc[p].blind] ELSE Nothing]

Register == INSTANCE TokenRegister WITH doing <- Doing
KeepsRegister == Register!Spec

\* A command that spends has not asked for a token, let alone sent its request, unless it
\* has --yes or the user confirmed this very hotkey (require_persona_ack), whatever
\* confirmations of other hotkeys other commands write to the same file at the same time.
NoUnconfirmedSpend ==
  \A p \in Procs :
    proc[p].cmd \in Spending /\ proc[p].pc \in {"token", "lock", "held", "request"}
      => proc[p].yes \/ Key(p) \in consent

\* config set-password never signs the second that a command before it in its own shell has
\* signed, which the portal would refuse as a replay (_wait_until_next_timestamp_second);
\* another process can take its second.
PasswordNotReplayed ==
  \A p \in Procs : At(p, "sign") /\ proc[p].cmd = "password" => signed[Key(p)] # p

\* A command that is past its question ends, but for one that watches until Ctrl-C:
\* processes that find the lock taken do not wait for each other (with_refresh_retry).
CommandsEnd ==
  \A p \in Procs :
    proc[p].pc \notin {"idle", "gate"} /\ proc[p].cmd # "watch"
      ~> At(p, "idle") \/ proc[p].cmd = "watch"
=============================================================================
