------------------------------ MODULE PodIndex ------------------------------
(***************************************************************************)
(* A row number of `lium ps` in place of a pod: `lium rm 2`.  The list is  *)
(* the account's, in no fixed order, and changes as pods come and go, so   *)
(* the number is translated by the snapshot that the last ps of this shell *)
(* left, for ten minutes.  Seen from one shell; the others write snapshots *)
(* of their own and drop those that are too old.                           *)
(***************************************************************************)
EXTENDS Naturals, FiniteSets, SequencesExt

CONSTANTS
  Pods,
  Numeric,      \* the pod that somebody has named "1"
  TTL,          \* POD_INDEX_TTL_SECONDS
  Nothing

VARIABLES
  listed,       \* the pods of the account
  gone,         \* those that were; an id is not used again
  snapshot,     \* last_ps.<ppid>.json: [rows, age], or Nothing when there is none to be read
  screen,       \* history: what the last ps showed in this shell, or Nothing
  unsaved,      \* history: it could not be saved, or the shell has the id of one that has ended
  cmd           \* a command with targets

vars == <<listed, gone, snapshot, screen, unsaved, cmd>>

-----------------------------------------------------------------------------
Rows     == 1..2
Targets  == Rows \cup Pods            \* row numbers, and pods by id, huid or name
Listings == UNION {SetToSeqs(S) : S \in SUBSET Pods}
NoCmd    == [pc |-> "idle", rm |-> FALSE, index |-> TRUE, everything |-> FALSE, targets |-> {},
             all |-> {}, plan |-> {}]

At(pc) == cmd.pc = pc
Go(pc) == cmd' = [cmd EXCEPT !.pc = pc]
Over   == cmd' = NoCmd
Account == <<listed, gone>>

Matches == [pod : Pods, row : Rows \cup {0}, shown : Pods \cup {Nothing}]

\* One resolved target: the pod, the row number that named it or 0, and what the user saw there.
Match(pod, row) ==
  [pod |-> pod, row |-> row,
   shown |-> IF row = 0 \/ screen = Nothing THEN Nothing
             ELSE IF row \in DOMAIN screen THEN screen[row] ELSE Nothing]

-----------------------------------------------------------------------------
(* ps                                                                      *)

\* The full listing is shown and remembered.  Listings of one pod are not.
Ps ==
  /\ \E rows \in SetToSeqs(listed) :
       screen' = rows /\ snapshot' = [rows |-> rows, age |-> 0]
  /\ unsaved' = FALSE
  /\ UNCHANGED <<Account, cmd>>

\* The file cannot be written: the one before stays, or nothing that can be read.
PsNotSaved ==
  /\ screen' \in SetToSeqs(listed)
  /\ snapshot' \in {snapshot, Nothing}
  /\ unsaved' = TRUE
  /\ UNCHANGED <<Account, cmd>>

-----------------------------------------------------------------------------
(* A command with targets: ssh, exec, reboot, ... and rm, at once or later.*)

Begin ==
  /\ At("idle")
  /\ \E rm, index \in BOOLEAN, T \in SUBSET Targets :
       /\ Cardinality(T) <= 2
       /\ cmd' = [NoCmd EXCEPT !.pc = "load", !.rm = rm, !.index = index, !.targets = T, !.everything = T = {}]
  /\ UNCHANGED <<Account, snapshot, screen, unsaved>>

Load ==
  /\ At("load")
  /\ IF listed = {} THEN Over
     ELSE cmd' = [cmd EXCEPT !.pc = "resolve", !.all = listed]
  /\ UNCHANGED <<Account, snapshot, screen, unsaved>>

Named(t)  == IF t \in Pods THEN {t} ELSE IF t = 1 THEN {Numeric} ELSE {}
Exact(t)  == {Match(p, 0) : p \in Named(t) \cap cmd.all}
Usable    == snapshot # Nothing /\ snapshot.age <= TTL
IsRow(t)  == cmd.index /\ t \in Rows

\* Mutant: a row number is the position in the list of today.
ByPosition(t) ==
  IF IsRow(t) /\ snapshot # Nothing /\ t \in DOMAIN snapshot.rows
  THEN {Match(p, t) : p \in cmd.all} ELSE Exact(t)

\* What a target stands for.  A number that the listing had no row for is a name.
Resolve(t) ==
  IF IsRow(t) /\ Usable /\ t \in DOMAIN snapshot.rows /\ snapshot.rows[t] \in cmd.all
  THEN {Match(snapshot.rows[t], t)} ELSE Exact(t)

\* A number that looks like a row but cannot be trusted, and that is not a name either.
Refused(t) ==
  /\ IsRow(t) /\ Exact(t) = {}
  /\ Usable => t \in DOMAIN snapshot.rows /\ snapshot.rows[t] \notin cmd.all

AllOfThem == {Match(p, 0) : p \in cmd.all}

ResolveTargets ==
  /\ At("resolve")
  /\ LET plan == IF cmd.everything THEN AllOfThem ELSE UNION {Resolve(t) : t \in cmd.targets} IN
     IF plan = {} \/ \E t \in cmd.targets : Refused(t) THEN Over
     ELSE cmd' = [cmd EXCEPT !.plan = plan, !.targets = {}, !.all = {},
                             !.pc = IF cmd.rm THEN "approve" ELSE "act"]
  /\ UNCHANGED <<Account, snapshot, screen, unsaved>>

ByIndex == \E m \in cmd.plan : m.row # 0

\* rm spells out what the numbers stand for and asks, unless it is told --yes.
Approve ==
  /\ At("approve")
  /\ Go("act")
  /\ UNCHANGED <<Account, snapshot, screen, unsaved>>

\* The user says no, or nobody can be asked: about row numbers and about --all.  Names are not
\* asked about, nor is the target "all", which names every pod just as well.
Decline ==
  /\ At("approve")
  /\ cmd.everything \/ ByIndex
  /\ Over
  /\ UNCHANGED <<Account, snapshot, screen, unsaved>>

Done(m) == cmd' = IF cmd.plan = {m} THEN NoCmd ELSE [cmd EXCEPT !.plan = @ \ {m}]

\* One call after the other; one that fails does not stop the next.  A pod that is gone by now
\* answers with an error, and with --in or --at the removal is only scheduled.
RemovePod ==
  /\ At("act") /\ cmd.rm
  /\ \E m \in cmd.plan :
       /\ \/ m.pod \in listed /\ listed' = listed \ {m.pod} /\ gone' = gone \cup {m.pod}
          \/ UNCHANGED Account
       /\ Done(m)
  /\ UNCHANGED <<snapshot, screen, unsaved>>

\* A reboot, a session, a command on it, a copy.
Use ==
  /\ At("act") /\ ~cmd.rm
  /\ \E m \in cmd.plan : Done(m)
  /\ UNCHANGED <<Account, snapshot, screen, unsaved>>

-----------------------------------------------------------------------------
(* The account, other shells and time.                                     *)

Comes ==
  /\ \E p \in Pods \ (listed \cup gone) : listed' = listed \cup {p}
  /\ UNCHANGED <<gone, snapshot, screen, unsaved, cmd>>

Goes ==
  /\ \E p \in listed : listed' = listed \ {p} /\ gone' = gone \cup {p}
  /\ UNCHANGED <<snapshot, screen, unsaved, cmd>>

Ages ==
  /\ snapshot # Nothing /\ snapshot.age <= TTL
  /\ snapshot' = [snapshot EXCEPT !.age = @ + 1]
  /\ UNCHANGED <<Account, screen, unsaved, cmd>>

\* A ps of another shell, which drops what is too old.
Pruned ==
  /\ snapshot # Nothing /\ snapshot.age > TTL
  /\ snapshot' = Nothing
  /\ UNCHANGED <<Account, screen, unsaved, cmd>>

\* The shell ends, and a later one has its process id.
IdUsedAgain ==
  /\ At("idle")
  /\ screen' = Nothing /\ unsaved' = (snapshot # Nothing)
  /\ UNCHANGED <<Account, snapshot, cmd>>

Init ==
  /\ listed = {} /\ gone = {}
  /\ snapshot = Nothing /\ screen = Nothing /\ unsaved = FALSE
  /\ cmd = NoCmd

Next ==
  \/ Ps \/ PsNotSaved
  \/ Begin \/ Load \/ ResolveTargets \/ Approve \/ Decline \/ RemovePod \/ Use
  \/ Comes \/ Goes \/ Ages \/ Pruned \/ IdUsedAgain

Spec == Init /\ [][Next]_vars

-----------------------------------------------------------------------------
TypeOK ==
  /\ listed \subseteq Pods /\ gone \subseteq Pods /\ listed \cap gone = {}
  /\ snapshot = Nothing \/ (snapshot.rows \in Listings /\ snapshot.age \in 0..(TTL + 1))
  /\ screen = Nothing \/ screen \in Listings
  /\ cmd \in [pc : {"idle", "load", "resolve", "approve", "act"}, rm : BOOLEAN, index : BOOLEAN,
              everything : BOOLEAN, targets : SUBSET Targets, all : SUBSET Pods, plan : SUBSET Matches]

\* A row number stands for the pod that the last ps of this shell showed on that row when the
\* number was read, whatever has come, gone or moved since; unless that listing was not saved.
RowIsPodShown ==
  [][\A m \in cmd'.plan \ cmd.plan : m.row # 0 => m.pod = m.shown \/ unsaved]_vars
=============================================================================
