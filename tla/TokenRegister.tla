---------------------------- MODULE TokenRegister ----------------------------
(***************************************************************************)
(* What the token cache of `lium provider` promises the processes that     *)
(* share it: one register per hotkey.  An operation writes one entry or    *)
(* takes one out, at one moment between its start and its end, or it has   *)
(* no effect at all; no other entry is touched.  The exception is a        *)
(* process that cannot read the cache (it turns blind) while it writes a   *)
(* token: the cache starts anew with that token.                           *)
(***************************************************************************)
EXTENDS Naturals

CONSTANTS Procs, Hotkeys, Nothing

\* Tokens are numbers, in the order the portal issued them; 0 is no token.
VARIABLES
  cache,    \* cache[h]: the token of hotkey h
  doing     \* doing[p]: the operation process p is at

vars == <<cache, doing>>

Operations == [key : Hotkeys, token : Nat, blind : BOOLEAN]

Init ==
  /\ cache \in [Hotkeys -> Nat]
  /\ doing = [p \in Procs |-> Nothing]

Start(p) ==
  /\ doing[p] = Nothing
  /\ doing'[p] \in Operations
  /\ ~doing'[p].blind
  /\ doing' = [doing EXCEPT ![p] = doing'[p]]
  /\ UNCHANGED cache

\* One that takes its entry out never turns blind.
TurnBlind(p) ==
  /\ doing[p] # Nothing
  /\ doing[p].token # 0
  /\ doing' = [doing EXCEPT ![p].blind = TRUE]
  /\ UNCHANGED cache

Apply(p) ==
  /\ doing[p] # Nothing
  /\ ~doing[p].blind
  /\ cache' = [cache EXCEPT ![doing[p].key] = doing[p].token]
  /\ doing' = [doing EXCEPT ![p] = Nothing]

StartAnew(p) ==
  /\ doing[p] # Nothing
  /\ doing[p].blind
  /\ cache' = [h \in Hotkeys |-> IF h = doing[p].key THEN doing[p].token ELSE 0]
  /\ doing' = [doing EXCEPT ![p] = Nothing]

Abort(p) ==
  /\ doing[p] # Nothing
  /\ doing' = [doing EXCEPT ![p] = Nothing]
  /\ UNCHANGED cache

Next == \E p \in Procs : Start(p) \/ TurnBlind(p) \/ Apply(p) \/ StartAnew(p) \/ Abort(p)

Spec == Init /\ [][Next]_vars
=============================================================================
