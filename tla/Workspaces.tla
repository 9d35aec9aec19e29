----------------------------- MODULE Workspaces -----------------------------
(***************************************************************************)
(* A key acts in one workspace, so `lium -w NAME` means the key that is    *)
(* saved for that name in config.ini.  Names are the server's: they change *)
(* and two workspaces may have one.  Every process reads the file when it  *)
(* starts, changes its copy and writes all of it back, in place.           *)
(*                                                                         *)
(* A key is known by the workspace it is bound to.                         *)
(***************************************************************************)
EXTENDS Naturals, FiniteSets, SequencesExt

CONSTANTS
  Ids, Names,
  Home,         \* the workspace of the key that `lium init` has saved
  Procs,
  MaxCommands,  \* bound: commands
  MaxEdits,     \* bound: renames, and edits of the file by hand
  Nothing, Deleted

VARIABLES
  name,         \* server: the name of a workspace; Nothing before it exists
  file,         \* config.ini
  whole,        \* history: the last that was written of it completely
  proc,
  meant,        \* history: [Names -> the workspace whose section that of the name was last made]
  overlap,      \* history: a process wrote over what it had not read: another had written, or died writing
  commands, edits

vars == <<name, file, whole, proc, meant, overlap, commands, edits>>

-----------------------------------------------------------------------------
NoSection == [id |-> Nothing, key |-> Nothing]
Empty     == [section |-> [n \in Names |-> NoSection], active |-> Nothing, api |-> Nothing]
Kinds     == {"act", "keys", "use", "create", "delete", "set"}
NoProc    == [pc |-> "idle", kind |-> "act", asked |-> Nothing, env |-> Nothing, settings |-> Empty,
              stale |-> FALSE, key |-> Nothing, named |-> Nothing, id |-> Nothing, target |-> Nothing,
              as |-> Nothing, todo |-> <<>>, open |-> FALSE, meant |-> Nothing, byName |-> FALSE]

Alive(i)   == name[i] \in Names
At(p, pc)  == proc[p].pc = pc
Go(p, pc)  == proc' = [proc EXCEPT ![p].pc = pc]
Over(p)    == proc' = [proc EXCEPT ![p] = NoProc]
Server     == <<name, edits>>
Disk       == <<file, whole, meant, overlap>>
Running    == \E p \in Procs : ~At(p, "idle")
Or(a, b)   == IF a # Nothing THEN a ELSE b

Begin(p) ==
  /\ At(p, "idle") /\ commands < MaxCommands
  /\ commands' = commands + 1
  /\ \E k \in Kinds, asked \in Names \cup {Nothing}, env \in Ids \cup {Nothing} :
       /\ k \in {"use", "create"} => asked # Nothing
       /\ env # Nothing => k = "use" \/ (k = "act" /\ asked = Nothing)   \* elsewhere it changes nothing
       /\ k = "set" => asked = Nothing
       /\ proc' = [proc EXCEPT ![p] = [NoProc EXCEPT !.pc = "load", !.kind = k, !.asked = asked, !.env = env,
                                                     !.settings = file, !.stale = file # whole]]
  /\ UNCHANGED <<Server, Disk>>

-----------------------------------------------------------------------------
(* Config.load                                                             *)

Saved(n) == IF n = Nothing THEN Nothing ELSE file.section[n].key

\* up and rm ("act"): the key saved for the workspace that was asked for, and nothing else.  The
\* commands that manage teams do with another key.
KeyFor(p) ==
  LET P == proc[p] IN
  IF P.kind = "act" /\ P.asked # Nothing THEN Saved(P.asked)
  ELSE Or(P.env, Or(Saved(P.asked), Or(Saved(file.active), file.api)))

Load(p) ==
  /\ At(p, "load")
  /\ LET P     == proc[p]
         key   == KeyFor(p)
         named == IF P.asked # Nothing THEN P.asked ELSE file.active
         id    == IF named # Nothing /\ Saved(named) = key THEN file.section[named].id ELSE Nothing
     IN IF key = Nothing THEN Over(p)
        ELSE proc' = [proc EXCEPT ![p] =
                        IF P.kind = "act"
                        THEN [NoProc EXCEPT !.pc = "check", !.asked = P.asked, !.key = key, !.named = named, !.id = id,
                                            !.meant = IF P.asked = Nothing THEN Nothing ELSE meant[P.asked]]
                        ELSE [P EXCEPT !.pc = IF P.kind \in {"create", "set"} THEN "section" ELSE "target",
                                       !.key = key, !.named = named, !.env = Nothing]]
  /\ UNCHANGED <<Server, Disk, commands>>

\* An error of the server, no session, a question that is answered with no.
Fails(p) ==
  /\ proc[p].pc \in {"check", "target", "section", "mint"}
  /\ Over(p)
  /\ UNCHANGED <<Server, Disk, commands>>

-----------------------------------------------------------------------------
(* up and rm: show_workspace, and then they act.                           *)

\* By the id that was saved with the key, and by name when there is none.
ActsElsewhere(p) ==
  LET P == proc[p] IN
  P.named # Nothing /\ (IF P.id # Nothing THEN P.key # P.id ELSE name[P.key] # P.named)

\* Mutant: the command acts all the same.
NotRefused(p) == FALSE

Refused(p) == proc[p].asked # Nothing /\ ActsElsewhere(p)

\* Without -w, a key that acts elsewhere is only warned of.  The server has workspaces: one that
\* has none names none (None), and lets every command act in the one place there is.
ShowWorkspace(p) ==
  /\ At(p, "check")
  /\ Alive(proc[p].key)
  /\ IF Refused(p) THEN Over(p)
     ELSE proc' = [proc EXCEPT ![p].pc = "act", ![p].byName = name[proc[p].key] = proc[p].asked]
  /\ UNCHANGED <<Server, Disk, commands>>

\* GET /users/me fails: with -w that ends the command (Fails), else it goes on.
NotShown(p) ==
  /\ At(p, "check")
  /\ proc[p].asked = Nothing
  /\ Go(p, "act")
  /\ UNCHANGED <<Server, Disk, commands>>

Act(p) ==
  /\ At(p, "act")
  /\ Over(p)
  /\ UNCHANGED <<Server, Disk, commands>>

-----------------------------------------------------------------------------
(* `lium keys create --save`, and `lium workspaces use | create | delete`. *)

\* What the session sees, or the key alone.
Visible(p) == {{i \in Ids : Alive(i)}, {proc[p].key} \cap {i \in Ids : Alive(i)}}

\* By the id that was saved under this name, then by name, which must be one workspace's.
\* `use` goes by the name.
FoundAs(p, V) ==
  LET P == proc[p]
      saved == IF P.named = Nothing \/ P.kind = "use" THEN Nothing ELSE P.settings.section[P.named].id
  IN IF saved \in V THEN {saved}
     ELSE IF P.named = Nothing THEN {P.key} \cap V
     ELSE {i \in V : name[i] = P.named}

Target(p) ==
  /\ At(p, "target")
  /\ \E V \in Visible(p) :
       IF Cardinality(FoundAs(p, V)) # 1 THEN Over(p)
       ELSE \E i \in FoundAs(p, V) :
              proc' = [proc EXCEPT ![p].pc = "section", ![p].target = i, ![p].as = name[i]]
  /\ UNCHANGED <<Server, Disk, commands>>

Edit(what, n, value) == [what |-> what, name |-> n, value |-> value]

SaveKey(p)  == <<Edit("id", proc[p].as, proc[p].target), Edit("key", proc[p].as, proc[p].target)>>
MakeActive(n) == <<Edit("active", Nothing, n)>>

\* Mutant: a section is whoever's was there last.
FreeOfAnyone(p, n, i) == TRUE

\* The section of a name is free for a workspace unless it has another's id, by the copy of the
\* file that this process has.
FreeSection(p, n, i) == proc[p].settings.section[n].id \in {Nothing, i}

\* The sections that hold this workspace's key, and the one of its name unless it is a twin's.
Gone(p) ==
  LET s == proc[p].settings.section
      i == proc[p].target
  IN {n \in Names : s[n].id = i \/ (n = proc[p].as /\ s[n].id = Nothing)}

Forget(p) ==
  LET there == SetToSeq({n \in Gone(p) : proc[p].settings.section[n] # NoSection})
  IN [x \in DOMAIN there |-> Edit("section", there[x], Nothing)]
     \o (IF proc[p].settings.active \in Gone(p) THEN MakeActive(Nothing) ELSE <<>>)

Write(p, todo) ==
  proc' = [proc EXCEPT ![p] = IF todo = <<>> THEN NoProc
                              ELSE [NoProc EXCEPT !.pc = "write", !.todo = todo, !.settings = proc[p].settings,
                                                  !.stale = proc[p].stale, !.target = proc[p].target]]

\* The section is asked for before anything is made or written.
Section(p) ==
  /\ At(p, "section")
  /\ LET P == proc[p] IN
     CASE P.kind \in {"delete"}    -> Go(p, "mint")
       [] P.kind = "keys"          -> IF FreeSection(p, P.as, P.target) THEN Go(p, "mint") ELSE Over(p)
       [] P.kind = "create"        -> IF FreeSection(p, P.asked, Nothing) THEN Go(p, "mint") ELSE Over(p)
       [] P.kind = "use"           ->
            IF ~FreeSection(p, P.as, P.target) THEN Over(p)
            ELSE Write(p, MakeActive(P.as) \o (IF P.key = P.target THEN SaveKey(p) ELSE <<>>))
       [] P.kind = "set"           -> Write(p, <<Edit("api", Nothing, Home)>>)
  /\ UNCHANGED <<Server, Disk, commands>>

\* The server makes the key.
Mint(p) ==
  /\ At(p, "mint")
  /\ proc[p].kind = "keys"
  /\ Alive(proc[p].target)
  /\ Write(p, SaveKey(p))
  /\ UNCHANGED <<Server, Disk, commands>>

Delete(p) ==
  /\ At(p, "mint")
  /\ proc[p].kind = "delete"
  /\ Alive(proc[p].target)
  /\ name' = [name EXCEPT ![proc[p].target] = Deleted]
  /\ Write(p, Forget(p))
  /\ UNCHANGED <<Disk, commands, edits>>

Create(p) ==
  /\ At(p, "mint")
  /\ proc[p].kind = "create"
  /\ \E i \in Ids :
       /\ name[i] = Nothing
       /\ name' = [name EXCEPT ![i] = proc[p].asked]
  /\ Write(p, MakeActive(proc[p].asked))
  /\ UNCHANGED <<Disk, commands, edits>>

-----------------------------------------------------------------------------
(* ConfigManager.set: the copy is changed and written over the file.       *)

Changed(s, e) ==
  CASE e.what = "section" -> [s EXCEPT !.section[e.name] = NoSection]
    [] e.what = "id"      -> [s EXCEPT !.section[e.name].id = e.value]
    [] e.what = "key"     -> [s EXCEPT !.section[e.name].key = e.value]
    [] e.what = "active"  -> [s EXCEPT !.active = e.value]
    [] e.what = "api"     -> [s EXCEPT !.api = e.value]

\* Everybody else's copy is old from here on.
Others(p) == [q \in Procs |-> IF q = p \/ At(q, "idle") THEN proc[q] ELSE [proc[q] EXCEPT !.stale = TRUE]]

\* The file is opened for writing, which empties it.
Open(p) ==
  /\ At(p, "write") /\ ~proc[p].open
  /\ file' = Empty
  /\ proc' = [Others(p) EXCEPT ![p].open = TRUE, ![p].settings = Changed(@, Head(proc[p].todo))]
  /\ UNCHANGED <<Server, whole, meant, overlap, commands>>

\* A key is saved after the id of its workspace.
Save(p) ==
  /\ At(p, "write") /\ proc[p].open
  /\ LET P    == proc[p]
         e    == Head(P.todo)
         rest == Tail(P.todo)
     IN /\ file' = P.settings
        /\ whole' = P.settings
        /\ overlap' = (overlap \/ P.stale)
        /\ meant' = CASE e.what = "id"      -> [meant EXCEPT ![e.name] = e.value]
                      [] e.what = "section" -> [meant EXCEPT ![e.name] = Nothing]
                      [] OTHER              -> meant
        /\ proc' = [Others(p) EXCEPT ![p] = IF rest = <<>> THEN NoProc ELSE [@ EXCEPT !.todo = rest, !.open = FALSE]]
  /\ UNCHANGED <<Server, commands>>

Kill(p) ==
  /\ At(p, "write")
  /\ Over(p)
  /\ UNCHANGED <<Server, Disk, commands>>

-----------------------------------------------------------------------------
(* The server and the user.                                                *)

Rename ==
  /\ edits < MaxEdits /\ edits' = edits + 1
  /\ \E i \in Ids, n \in Names :
       /\ name[i] \notin {n, Deleted}      \* renamed, or made elsewhere
       /\ name' = [name EXCEPT ![i] = n]
  /\ UNCHANGED <<Disk, proc, commands>>

\* A section is dropped by hand, as the refusal says to, or a key is put there without an id.
ByHand ==
  /\ edits < MaxEdits /\ edits' = edits + 1
  /\ ~Running /\ file = whole
  /\ \E n \in Names, k \in Ids \cup {Nothing} :
       /\ file' = [file EXCEPT !.section[n] = [id |-> Nothing, key |-> k]]
       /\ meant' = [meant EXCEPT ![n] = Nothing]
  /\ whole' = file'
  /\ UNCHANGED <<name, proc, overlap, commands>>

Init ==
  /\ name = [i \in Ids |-> IF i = Home THEN CHOOSE n \in Names : TRUE ELSE Nothing]
  /\ file = [Empty EXCEPT !.api = Home] /\ whole = file
  /\ proc = [p \in Procs |-> NoProc]
  /\ meant = [n \in Names |-> Nothing]
  /\ overlap = FALSE
  /\ commands = 0 /\ edits = 0

Next ==
  \/ \E p \in Procs :
       \/ Begin(p) \/ Load(p) \/ Fails(p) \/ ShowWorkspace(p) \/ NotShown(p) \/ Act(p)
       \/ Target(p) \/ Section(p) \/ Mint(p) \/ Delete(p) \/ Create(p) \/ Open(p) \/ Save(p) \/ Kill(p)
  \/ Rename
  \/ ByHand

Spec == Init /\ [][Next]_vars

-----------------------------------------------------------------------------
TypeOK ==
  /\ name \in [Ids -> Names \cup {Nothing, Deleted}]
  /\ \A f \in {file, whole} :
       /\ f.section \in [Names -> [id : Ids \cup {Nothing}, key : Ids \cup {Nothing}]]
       /\ f.active \in Names \cup {Nothing} /\ f.api \in Ids \cup {Nothing}
  /\ meant \in [Names -> Ids \cup {Nothing}]
  /\ \A p \in Procs :
       /\ proc[p].pc \in {"idle", "load", "check", "act", "target", "section", "mint", "write"}
       /\ {proc[p].key, proc[p].target, proc[p].id} \subseteq Ids \cup {Nothing}

\* With -w, up and rm act in the workspace whose section a command last made that of the name,
\* and by a section that somebody wrote by hand only in a workspace of that name: unless
\* processes have written over each other.
ActsWhereMeant ==
  \A p \in Procs :
    At(p, "act") /\ proc[p].asked # Nothing /\ ~overlap =>
      IF proc[p].meant # Nothing THEN proc[p].key = proc[p].meant ELSE proc[p].byName

\* A saved key goes from the file only by a command about its own workspace, by hand, or when
\* processes write over each other or one dies while it writes.
SavedKeyKept ==
  [][\A p \in Procs : Save(p) =>
       \A n \in Names :
         LET s == whole.section[n] IN
           \/ Nothing \in {s.id, s.key} \/ whole'.section[n] = s
           \/ proc[p].target = s.id
           \/ proc[p].stale]_vars
=============================================================================
