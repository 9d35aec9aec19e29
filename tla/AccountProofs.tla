---------------------------- MODULE AccountProofs ----------------------------
(***************************************************************************)
(* Proofs about the parts of Parts that work on the account and on this    *)
(* machine: SshKeys, PodIndex, Fund, Mine, NodeWait and Workspaces.  Each  *)
(* has an inductive invariant that is kept by the steps of Parts, for they *)
(* leave the variables of the other parts alone.                           *)
(***************************************************************************)
EXTENDS Parts, Sequences, FiniteSetTheorems, TLAPS

-----------------------------------------------------------------------------
(* SshKeys.                                                                *)

LEMMA KeySteps == [Next]_vars => [K!Next]_(K!vars)
  BY DEF Next, vars, K!vars, ssh

Rents == [pc : {"idle", "load", "list", "register"}, account : Accounts \cup {Nothing},
          keys : SUBSET Keys, cached : SUBSET Keys, missing : SUBSET Keys,
          listed : SUBSET Keys, new : SUBSET Keys]

\* What a process takes for registered with its account was there at some time.
Rightly(r, seen) ==
  /\ r.pc # "idle" => r.account \in Accounts
  /\ \A k \in r.cached \cup r.listed \cup r.new : <<r.account, k>> \in seen

KeyInv ==
  /\ K!TypeOK
  /\ server \subseteq ever
  /\ CachedWasRegistered
  /\ \A p \in Procs : Rightly(rent[p], ever)

LEMMA NoRentIsOne == K!NoRent \in Rents /\ \A seen : Rightly(K!NoRent, seen)
  BY DEF K!NoRent, Rents, Rightly

LEMMA KeyInit == K!Init => KeyInv
  BY NoRentIsOne DEF K!Init, KeyInv, K!TypeOK, Rents, CachedWasRegistered, K!CachedWasRegistered

\* A step changes one process's, and what was there stays in the history.
LEMMA OneRent ==
  ASSUME KeyInv, NEW p \in Procs, NEW r \in Rents, rent' = [rent EXCEPT ![p] = r],
         ever \subseteq ever', Rightly(r, ever')
  PROVE  rent' \in [Procs -> Rents] /\ \A q \in Procs : Rightly(rent'[q], ever')
<1>1. rent \in [Procs -> Rents] /\ \A q \in Procs : Rightly(rent[q], ever)
  BY DEF KeyInv, K!TypeOK, Rents
<1>2. \A q \in Procs : rent'[q] = IF q = p THEN r ELSE rent[q]
  BY <1>1
<1>3. QED
  BY <1>1, <1>2 DEF Rightly

LEMMA KeyStep == KeyInv /\ [K!Next]_(K!vars) => KeyInv'
<1> SUFFICES ASSUME KeyInv, [K!Next]_(K!vars) PROVE KeyInv'
  OBVIOUS
<1>0. /\ server \subseteq Accounts \X Keys /\ ever \subseteq Accounts \X Keys
      /\ cache = Nothing \/ (cache.account \in Accounts /\ cache.keys \subseteq Keys)
      /\ rent \in [Procs -> Rents]
      /\ server \subseteq ever
      /\ \A q \in Procs : Rightly(rent[q], ever)
  BY DEF KeyInv, K!TypeOK, Rents
<1>a. cache # Nothing => \A k \in cache.keys : <<cache.account, k>> \in ever
  BY DEF KeyInv, CachedWasRegistered, K!CachedWasRegistered
<1>1. CASE UNCHANGED K!vars
  BY <1>1 DEF K!vars, KeyInv, K!TypeOK, CachedWasRegistered, K!CachedWasRegistered
<1>2. ASSUME NEW p \in Procs, NEW r \in Rents, rent' = [rent EXCEPT ![p] = r], Rightly(r, ever'),
             server' \subseteq Accounts \X Keys, ever' \subseteq Accounts \X Keys,
             server' \subseteq ever', ever \subseteq ever', cache' = cache
      PROVE  KeyInv'
  BY <1>0, <1>a, <1>2, OneRent DEF KeyInv, K!TypeOK, Rents, CachedWasRegistered, K!CachedWasRegistered
<1>3. ASSUME NEW p \in Procs, K!Begin(p) PROVE KeyInv'
  <2>1. PICK a \in Accounts, some \in SUBSET Keys \ {{}} :
          rent' = [rent EXCEPT ![p] = [K!NoRent EXCEPT !.pc = "load", !.account = a, !.keys = some]]
    BY <1>3 DEF K!Begin
  <2>2. [K!NoRent EXCEPT !.pc = "load", !.account = a, !.keys = some] \in Rents
    BY DEF K!NoRent, Rents
  <2>3. Rightly([K!NoRent EXCEPT !.pc = "load", !.account = a, !.keys = some], ever)
    BY DEF K!NoRent, Rightly
  <2>4. UNCHANGED <<server, ever, cache>>
    BY <1>3 DEF K!Begin, K!Server
  <2>5. QED
    BY <1>0, <1>2, <2>1, <2>2, <2>3, <2>4
<1>4. ASSUME NEW p \in Procs, K!Over(p), UNCHANGED <<server, ever, cache>> PROVE KeyInv'
  BY <1>0, <1>2, <1>4, NoRentIsOne DEF K!Over
<1>5. ASSUME NEW p \in Procs, K!Load(p) PROVE KeyInv'
  <2> DEFINE c == K!CachedFor(rent[p].account)
             r == [rent[p] EXCEPT !.pc = "list", !.cached = c, !.new = c, !.missing = rent[p].keys \ c]
  <2>1. UNCHANGED <<server, ever, cache>> /\ (K!Over(p) \/ rent' = [rent EXCEPT ![p] = r])
    BY <1>5 DEF K!Load, K!Server
  <2>0. rent[p].pc = "load"
    BY <1>5 DEF K!Load, K!At
  <2>2. c \subseteq Keys /\ \A k \in c : <<rent[p].account, k>> \in ever
    BY <1>0, <1>a DEF K!CachedFor
  <2> HIDE DEF c
  <2>3. rent[p] \in Rents /\ Rightly(rent[p], ever)
    BY <1>0
  <2>4. r \in Rents /\ Rightly(r, ever)
    BY <2>0, <2>2, <2>3 DEF Rents, Rightly
  <2> HIDE DEF r
  <2>5. QED
    BY <1>0, <1>2, <1>4, <2>1, <2>4
<1>6. ASSUME NEW p \in Procs, K!List(p) PROVE KeyInv'
  <2> DEFINE l == {k \in Keys : <<rent[p].account, k>> \in server}
             r == [rent[p] EXCEPT !.pc = "register", !.listed = l]
  <2>1. UNCHANGED <<server, ever, cache>> /\ (K!Over(p) \/ rent' = [rent EXCEPT ![p] = r])
    BY <1>6 DEF K!List, K!Server
  <2>0. rent[p].pc = "list"
    BY <1>6 DEF K!List, K!At
  <2>2. l \subseteq Keys /\ \A k \in l : <<rent[p].account, k>> \in ever
    BY <1>0
  <2> HIDE DEF l
  <2>3. rent[p] \in Rents /\ Rightly(rent[p], ever)
    BY <1>0
  <2>4. r \in Rents /\ Rightly(r, ever)
    BY <2>0, <2>2, <2>3 DEF Rents, Rightly
  <2> HIDE DEF r
  <2>5. QED
    BY <1>0, <1>2, <1>4, <2>1, <2>4
<1>7. ASSUME NEW p \in Procs, NEW k \in rent[p].missing, <<rent[p].account, k>> \in ever',
             rent' = [rent EXCEPT ![p] = [rent[p] EXCEPT !.missing = @ \ {k}, !.new = @ \cup {k}]],
             server' \subseteq Accounts \X Keys, ever' \subseteq Accounts \X Keys,
             server' \subseteq ever', ever \subseteq ever', cache' = cache
      PROVE  KeyInv'
  <2> DEFINE r == [rent[p] EXCEPT !.missing = @ \ {k}, !.new = @ \cup {k}]
  <2>1. rent' = [rent EXCEPT ![p] = r]
    BY <1>7
  <2>2. rent[p] \in Rents /\ Rightly(rent[p], ever')
    BY <1>0, <1>7 DEF Rightly
  <2>3. r \in Rents /\ Rightly(r, ever')
    BY <1>7, <2>2 DEF Rents, Rightly
  <2> HIDE DEF r
  <2>4. QED
    BY <1>2, <1>7, <2>1, <2>3
<1>8. ASSUME NEW p \in Procs, K!Skip(p) PROVE KeyInv'
  <2>1. PICK k \in rent[p].missing :
          k \in rent[p].listed /\ rent' = [rent EXCEPT ![p] = [rent[p] EXCEPT !.missing = @ \ {k}, !.new = @ \cup {k}]]
    BY <1>8 DEF K!Skip, K!Known
  <2>2. UNCHANGED <<server, ever, cache>>
    BY <1>8 DEF K!Skip, K!Server
  <2>3. <<rent[p].account, k>> \in ever
    BY <1>0, <2>1 DEF Rightly
  <2>4. QED
    BY <1>0, <1>7, <2>1, <2>2, <2>3
<1>9. ASSUME NEW p \in Procs, K!Register(p) PROVE KeyInv'
  <2>1. PICK k \in rent[p].missing :
          /\ server' = server \cup {<<rent[p].account, k>>}
          /\ ever' = ever \cup {<<rent[p].account, k>>}
          /\ rent' = [rent EXCEPT ![p] = [rent[p] EXCEPT !.missing = @ \ {k}, !.new = @ \cup {k}]]
    BY <1>9 DEF K!Register
  <2>2. cache' = cache
    BY <1>9 DEF K!Register
  <2>3. <<rent[p].account, k>> \in Accounts \X Keys
    BY <1>0, <1>9, <2>1 DEF K!Register, K!At, Rents, Rightly
  <2>4. QED
    BY <1>0, <1>7, <2>1, <2>2, <2>3
<1>10. ASSUME NEW p \in Procs, K!RegisterFails(p) PROVE KeyInv'
  <2>1. PICK k \in rent[p].missing : rent' = [rent EXCEPT ![p].missing = @ \ {k}]
                /\ \/ UNCHANGED <<server, ever>>
                   \/ server' = server \cup {<<rent[p].account, k>>} /\ ever' = ever \cup {<<rent[p].account, k>>}
    BY <1>10 DEF K!RegisterFails, K!Server
  <2> DEFINE r == [rent[p] EXCEPT !.missing = @ \ {k}]
  <2>2. rent' = [rent EXCEPT ![p] = r] /\ cache' = cache
    BY <1>10, <2>1 DEF K!RegisterFails
  <2>3. rent[p] \in Rents /\ Rightly(rent[p], ever')
    BY <1>0, <2>1 DEF Rightly
  <2>4. r \in Rents /\ Rightly(r, ever')
    BY <2>3 DEF Rents, Rightly
  <2>5. <<rent[p].account, k>> \in Accounts \X Keys
    BY <1>0, <1>10, <2>1 DEF K!RegisterFails, K!At, Rents, Rightly
  <2> HIDE DEF r
  <2>6. QED
    BY <1>0, <1>2, <2>1, <2>2, <2>4, <2>5
<1>11. ASSUME NEW p \in Procs, K!Save(p) PROVE KeyInv'
  <2>1. K!Over(p) /\ UNCHANGED <<server, ever>>
    BY <1>11 DEF K!Save, K!Server
  <2>2. rent' \in [Procs -> Rents] /\ \A q \in Procs : Rightly(rent'[q], ever')
    BY <2>1, OneRent, NoRentIsOne DEF K!Over
  <2>3. cache' = cache \/ cache' = [account |-> rent[p].account, keys |-> rent[p].new]
    BY <1>11 DEF K!Save
  <2>4. rent[p] \in Rents /\ Rightly(rent[p], ever) /\ rent[p].pc = "register"
    BY <1>0, <1>11 DEF K!Save, K!At
  <2>a. rent[p].account \in Accounts /\ rent[p].new \subseteq Keys
        /\ \A k \in rent[p].new : <<rent[p].account, k>> \in ever
    BY <2>4 DEF Rents, Rightly
  <2>5. QED
    BY <1>0, <1>a, <2>1, <2>2, <2>3, <2>a DEF KeyInv, K!TypeOK, Rents, CachedWasRegistered, K!CachedWasRegistered
<1>12. ASSUME NEW p \in Procs, K!Kill(p) PROVE KeyInv'
  BY <1>4, <1>12 DEF K!Kill, K!Server
<1>13. CASE K!DeletedElsewhere
  BY <1>0, <1>a, <1>13 DEF K!DeletedElsewhere, KeyInv, K!TypeOK, Rents, CachedWasRegistered, K!CachedWasRegistered
<1>14. CASE K!Lost
  BY <1>0, <1>14 DEF K!Lost, K!Server, KeyInv, K!TypeOK, Rents, CachedWasRegistered, K!CachedWasRegistered
<1>15. QED
  BY <1>1, <1>3, <1>5, <1>6, <1>8, <1>9, <1>10, <1>11, <1>12, <1>13, <1>14 DEF K!Next

LEMMA KeySafety == Spec => []KeyInv
<1>1. Init => KeyInv
  BY KeyInit DEF Init
<1>2. KeyInv /\ [Next]_vars => KeyInv'
  BY KeySteps, KeyStep
<1>3. QED
  BY <1>1, <1>2, PTL DEF Spec

\* Key registration: a key that is taken for registered was registered with this account.
THEOREM KeysAreRegistered == Spec => []CachedWasRegistered
<1>1. KeyInv => CachedWasRegistered
  BY DEF KeyInv
<1>2. QED
  BY <1>1, KeySafety, PTL

-----------------------------------------------------------------------------
(* PodIndex.                                                               *)

LEMMA IndexSteps == [Next]_vars => [I!Next]_(I!vars)
  BY DEF Next, vars, I!vars, index

Cmds ==
  [pc : {"idle", "load", "resolve", "approve", "act"}, rm : BOOLEAN, index : BOOLEAN,
   everything : BOOLEAN, targets : SUBSET I!Targets, all : SUBSET Pods, plan : SUBSET I!Matches]

\* A snapshot that can be read is what the last ps of this shell showed, unless that was not
\* saved or the shell is not the one that did.
IndexInv ==
  /\ listed \subseteq Pods
  /\ screen \in I!Listings \cup {Nothing}
  /\ cmd \in Cmds
  /\ snapshot = Nothing \/ snapshot \in [rows : I!Listings, age : Nat]
  /\ unsaved \/ snapshot = Nothing \/ (screen # Nothing /\ screen = snapshot.rows)

\* A listing is one of pods, and not what stands for none.
LEMMA ListingOf ==
  /\ \A some \in SUBSET Pods : I!SetToSeqs(some) \subseteq I!Listings
  /\ \A rows \in I!Listings : rows # Nothing /\ \A i \in DOMAIN rows : rows[i] \in Pods
<1>1. \A some \in SUBSET Pods : I!SetToSeqs(some) \subseteq I!Listings
  BY DEF I!Listings
<1>2. ASSUME NEW some \in SUBSET Pods, NEW rows \in I!SetToSeqs(some), NEW i \in DOMAIN rows PROVE rows[i] \in Pods
  BY DEF I!SetToSeqs
<1>3. \A rows \in I!Listings : rows # Nothing /\ \A i \in DOMAIN rows : rows[i] \in Pods
  BY <1>2, IndexAssumption DEF I!Listings
<1>4. QED
  BY <1>1, <1>3

LEMMA NoCmdIsOne == I!NoCmd \in Cmds /\ I!NoCmd.plan = {}
  BY DEF I!NoCmd, Cmds

\* What was resolved is a match, and shows the row it was named by if there was one to see.
LEMMA MatchIsOne ==
  ASSUME IndexInv, NEW p \in Pods, NEW row \in I!Rows \cup {0}
  PROVE  /\ I!Match(p, row) \in I!Matches /\ I!Match(p, row).pod = p /\ I!Match(p, row).row = row
         /\ row # 0 /\ screen # Nothing /\ row \in DOMAIN screen => I!Match(p, row).shown = screen[row]
<1>1. screen # Nothing /\ row \in DOMAIN screen => screen[row] \in Pods
  BY ListingOf DEF IndexInv
<1>2. QED
  BY <1>1 DEF I!Match, I!Matches

LEMMA ExactIsNamed ==
  ASSUME IndexInv, NEW t PROVE \A m \in I!Exact(t) : m \in I!Matches /\ m.row = 0
<1>1. I!Named(t) \cap cmd.all \subseteq Pods
  BY DEF IndexInv, Cmds
<1>2. QED
  BY <1>1, MatchIsOne DEF I!Exact

\* A target that is a row number is the pod on that row of the screen.
LEMMA ResolvedAsShown ==
  ASSUME IndexInv, NEW t \in I!Targets, NEW m \in I!Resolve(t)
  PROVE  m \in I!Matches /\ (m.row # 0 => m.pod = m.shown \/ unsaved)
<1>1. CASE I!IsRow(t) /\ I!Usable /\ t \in DOMAIN snapshot.rows /\ snapshot.rows[t] \in cmd.all
  <2>1. m = I!Match(snapshot.rows[t], t)
    BY <1>1 DEF I!Resolve
  <2>2. t \in I!Rows /\ snapshot # Nothing
    BY <1>1 DEF I!IsRow, I!Usable
  <2>3. snapshot.rows[t] \in Pods
    BY <1>1 DEF IndexInv, Cmds
  <2>4. t # 0
    BY <2>2 DEF I!Rows
  <2>5. unsaved \/ (screen # Nothing /\ screen = snapshot.rows)
    BY <2>2 DEF IndexInv
  <2>6. QED
    BY <1>1, <2>1, <2>2, <2>3, <2>4, <2>5, MatchIsOne
<1>2. CASE ~(I!IsRow(t) /\ I!Usable /\ t \in DOMAIN snapshot.rows /\ snapshot.rows[t] \in cmd.all)
  BY <1>2, ExactIsNamed DEF I!Resolve
<1>3. QED
  BY <1>1, <1>2

\* A new match of a command is of a row that was shown as such.
LEMMA PlansAsShown ==
  ASSUME IndexInv, [I!Next]_(I!vars)
  PROVE  /\ cmd' \in Cmds
         /\ \A m \in cmd'.plan \ cmd.plan : m.row # 0 => m.pod = m.shown \/ unsaved
<1>0. cmd \in Cmds /\ cmd.plan \subseteq I!Matches /\ cmd.targets \subseteq I!Targets /\ cmd.all \subseteq Pods /\ listed \subseteq Pods
  BY DEF IndexInv, Cmds
<1>1. CASE cmd' = cmd
  BY <1>0, <1>1
<1>2. CASE I!Over
  BY <1>2, NoCmdIsOne DEF I!Over
<1>3. CASE I!Begin
  <2>1. PICK rm \in BOOLEAN, ix \in BOOLEAN, some \in SUBSET I!Targets :
          cmd' = [I!NoCmd EXCEPT !.pc = "load", !.rm = rm, !.index = ix, !.targets = some, !.everything = some = {}]
    BY <1>3 DEF I!Begin
  <2>2. cmd' = [pc |-> "load", rm |-> rm, index |-> ix, everything |-> (some = {}), targets |-> some,
                all |-> {}, plan |-> {}]
    BY <2>1 DEF I!NoCmd
  <2>3. (some = {}) \in BOOLEAN
    OBVIOUS
  <2>4. QED
    BY <2>2, <2>3 DEF Cmds
<1>4. CASE I!Load
  <2>1. [cmd EXCEPT !.pc = "resolve", !.all = listed] \in Cmds
        /\ [cmd EXCEPT !.pc = "resolve", !.all = listed].plan = cmd.plan
    BY <1>0 DEF Cmds
  <2>2. QED
    BY <1>2, <1>4, <2>1 DEF I!Load
<1>5. CASE I!ResolveTargets
  <2> DEFINE plan == IF cmd.everything THEN I!AllOfThem ELSE UNION {I!Resolve(t) : t \in cmd.targets}
             next == IF cmd.rm THEN "approve" ELSE "act"
  <2>1. \A m \in I!AllOfThem : m \in I!Matches /\ m.row = 0
    BY <1>0, MatchIsOne DEF I!AllOfThem
  <2>2. \A m \in plan : m \in I!Matches /\ (m.row # 0 => m.pod = m.shown \/ unsaved)
    BY <1>0, <2>1, ResolvedAsShown
  <2>3. I!Over \/ cmd' = [cmd EXCEPT !.plan = plan, !.targets = {}, !.all = {}, !.pc = next]
    BY <1>5 DEF I!ResolveTargets
  <2>4. next \in {"approve", "act"}
    OBVIOUS
  <2> HIDE DEF plan, next
  <2>5. plan \in SUBSET I!Matches
    BY <2>2
  <2>6. [cmd EXCEPT !.plan = plan, !.targets = {}, !.all = {}, !.pc = next] \in Cmds
        /\ [cmd EXCEPT !.plan = plan, !.targets = {}, !.all = {}, !.pc = next].plan = plan
    BY <1>0, <2>4, <2>5 DEF Cmds
  <2>7. QED
    BY <1>2, <2>2, <2>3, <2>6
<1>6. CASE I!Approve
  <2>1. [cmd EXCEPT !.pc = "act"] \in Cmds /\ [cmd EXCEPT !.pc = "act"].plan = cmd.plan
    BY <1>0 DEF Cmds
  <2>2. QED
    BY <1>6, <2>1 DEF I!Approve, I!Go
<1>7. ASSUME NEW m \in cmd.plan, I!Done(m) PROVE cmd' \in Cmds /\ cmd'.plan \subseteq cmd.plan
  <2>1. [cmd EXCEPT !.plan = cmd.plan \ {m}] \in Cmds
        /\ [cmd EXCEPT !.plan = cmd.plan \ {m}].plan = cmd.plan \ {m}
    BY <1>0 DEF Cmds
  <2>2. cmd' = I!NoCmd \/ cmd' = [cmd EXCEPT !.plan = cmd.plan \ {m}]
    BY <1>7 DEF I!Done
  <2>3. QED
    BY <2>1, <2>2, NoCmdIsOne
<1>8. CASE I!RemovePod \/ I!Use
  BY <1>7, <1>8 DEF I!RemovePod, I!Use
<1>9. CASE I!Decline
  BY <1>2, <1>9 DEF I!Decline
<1>10. CASE \/ I!Ps \/ I!PsNotSaved \/ I!Comes \/ I!Goes \/ I!Ages \/ I!Pruned \/ I!IdUsedAgain \/ UNCHANGED I!vars
  BY <1>1, <1>10 DEF I!Ps, I!PsNotSaved, I!Comes, I!Goes, I!Ages, I!Pruned, I!IdUsedAgain, I!vars
<1>11. QED
  BY <1>3, <1>4, <1>5, <1>6, <1>8, <1>9, <1>10 DEF I!Next

LEMMA IndexStep == IndexInv /\ [I!Next]_(I!vars) => IndexInv'
<1> SUFFICES ASSUME IndexInv, [I!Next]_(I!vars) PROVE IndexInv'
  OBVIOUS
<1>0. /\ listed \subseteq Pods /\ screen \in I!Listings \cup {Nothing}
      /\ snapshot = Nothing \/ snapshot \in [rows : I!Listings, age : Nat]
      /\ unsaved \/ snapshot = Nothing \/ (screen # Nothing /\ screen = snapshot.rows)
  BY DEF IndexInv
<1>1. cmd' \in Cmds
  BY PlansAsShown
<1>2. listed' \subseteq Pods
  BY <1>0 DEF I!Next, I!vars, I!Account, I!Ps, I!PsNotSaved, I!Begin, I!Load, I!ResolveTargets, I!Approve, I!Decline,
              I!RemovePod, I!Use, I!Comes, I!Goes, I!Ages, I!Pruned, I!IdUsedAgain
<1>3. CASE UNCHANGED <<snapshot, screen, unsaved>>
  BY <1>0, <1>1, <1>2, <1>3 DEF IndexInv
<1>4. CASE I!Ps
  <2>1. PICK rows \in I!SetToSeqs(listed) : screen' = rows /\ snapshot' = [rows |-> rows, age |-> 0]
    BY <1>4 DEF I!Ps
  <2>2. rows \in I!Listings /\ rows # Nothing
    BY <1>0, ListingOf
  <2>3. QED
    BY <1>1, <1>2, <2>1, <2>2 DEF IndexInv
<1>5. CASE I!PsNotSaved
  BY <1>0, <1>1, <1>2, <1>5, ListingOf DEF I!PsNotSaved, IndexInv
<1>6. CASE I!Ages
  <2>1. snapshot # Nothing /\ snapshot' = [snapshot EXCEPT !.age = @ + 1] /\ UNCHANGED <<screen, unsaved>>
    BY <1>6 DEF I!Ages
  <2>2. snapshot' \in [rows : I!Listings, age : Nat] /\ snapshot'.rows = snapshot.rows
    BY <1>0, <2>1
  <2>3. QED
    BY <1>0, <1>1, <1>2, <2>1, <2>2 DEF IndexInv
<1>7. CASE I!Pruned
  BY <1>0, <1>1, <1>2, <1>7 DEF I!Pruned, IndexInv
<1>8. CASE I!IdUsedAgain
  BY <1>0, <1>1, <1>2, <1>8 DEF I!IdUsedAgain, IndexInv
<1>9. QED
  BY <1>3, <1>4, <1>5, <1>6, <1>7, <1>8
     DEF I!Next, I!vars, I!Begin, I!Load, I!ResolveTargets, I!Approve, I!Decline, I!RemovePod, I!Use, I!Comes, I!Goes

LEMMA IndexSafety == Spec => []IndexInv
<1>1. Init => IndexInv
  BY NoCmdIsOne DEF Init, I!Init, IndexInv
<1>2. IndexInv /\ [Next]_vars => IndexInv'
  BY IndexSteps, IndexStep
<1>3. QED
  BY <1>1, <1>2, PTL DEF Spec

\* ps and rm: a row number stands for the pod that was shown on that row.
THEOREM RowsArePodsShown == Spec => RowIsPodShown
<1>1. IndexInv /\ [Next]_vars => [\A m \in cmd'.plan \ cmd.plan : m.row # 0 => m.pod = m.shown \/ unsaved]_(I!vars)
  BY IndexSteps, PlansAsShown
<1>2. QED
  BY <1>1, IndexSafety, PTL DEF Spec, RowIsPodShown, I!RowIsPodShown

\* No pod comes back, and a snapshot is looked at until it is one tick too old.
Passing ==
  /\ gone \subseteq Pods /\ listed \cap gone = {}
  /\ snapshot = Nothing \/ snapshot.age \in 0..(TTL + 1)

LEMMA PassingStep == IndexInv /\ Passing /\ [I!Next]_(I!vars) => Passing'
<1> SUFFICES ASSUME IndexInv, Passing, [I!Next]_(I!vars) PROVE Passing'
  OBVIOUS
<1>0. listed \subseteq Pods /\ (snapshot = Nothing \/ snapshot \in [rows : I!Listings, age : Nat])
  BY DEF IndexInv
<1>1. gone' \subseteq Pods /\ listed' \cap gone' = {}
  BY <1>0 DEF Passing, I!Next, I!vars, I!Account, I!Ps, I!PsNotSaved, I!Begin, I!Load, I!ResolveTargets, I!Approve,
              I!Decline, I!RemovePod, I!Use, I!Comes, I!Goes, I!Ages, I!Pruned, I!IdUsedAgain
<1>2. CASE I!Ages
  <2>1. snapshot \in [rows : I!Listings, age : Nat] /\ snapshot.age <= TTL /\ snapshot' = [snapshot EXCEPT !.age = @ + 1]
    BY <1>0, <1>2 DEF I!Ages
  <2>2. snapshot'.age = snapshot.age + 1
    BY <2>1
  <2>3. QED
    BY <1>1, <2>1, <2>2, IndexAssumption DEF Passing
<1>3. CASE I!Ps
  BY <1>1, <1>3, IndexAssumption DEF Passing, I!Ps
<1>4. CASE snapshot' \in {snapshot, Nothing}
  BY <1>1, <1>4 DEF Passing
<1>5. QED
  BY <1>2, <1>3, <1>4 DEF I!Next, I!vars, I!PsNotSaved, I!Begin, I!Load, I!ResolveTargets, I!Approve,
                          I!Decline, I!RemovePod, I!Use, I!Comes, I!Goes, I!Pruned, I!IdUsedAgain

LEMMA PassingSafety == Spec => []Passing
<1>1. Init => Passing
  BY DEF Init, I!Init, Passing
<1>2. IndexInv /\ Passing /\ [Next]_vars => Passing'
  BY IndexSteps, PassingStep
<1>3. QED
  BY <1>1, <1>2, IndexSafety, PTL DEF Spec

-----------------------------------------------------------------------------
(* Fund.                                                                   *)

LEMMA FundSteps == [Next]_vars => [F!Next]_(F!vars)
  BY DEF Next, vars, F!vars, money

Funds ==
  [pc : F!Places, alpha : BOOLEAN, yes : BOOLEAN, json : BOOLEAN, netuid : Netuids \cup {Tao},
   dest : Companies \cup {Own, LegacyAddress}, quote : Quotes \cup {Grain}, amount : F!Amounts]
Users == [hint : {"none", "retry", "check"}, wants : BOOLEAN, runs : 0..MaxRuns]
Shows ==
  [of : 0..MaxRuns, netuid : Netuids \cup {Tao}, dest : Companies \cup {Own, LegacyAddress},
   amount : F!Amounts \cup {0}, quote : Quotes \cup {0, Grain}, live : SUBSET Netuids]

FundTypes ==
  /\ pending \in Seq(F!Transfers) /\ moved \in Seq(F!Transfers)
  /\ pay \in [netuid : Netuids, address : Companies \cup {Own}]
  /\ registered \in BOOLEAN /\ lost \in BOOLEAN
  /\ fund \in Funds /\ user \in Users /\ shown \in Shows

\* What the command knows at each place: the deposit in TAO is fixed, the wallet is linked, the
\* address is not the user's, the amount is not above the quote.
Known ==
  /\ fund.pc \in {"load", "balance"} \/ ~fund.alpha
     => fund.netuid = Tao /\ fund.dest = LegacyAddress /\ fund.quote = Grain /\ fund.amount = 1
  /\ fund.pc \in {"discover", "address", "quote", "check", "requote", "gate"} => fund.alpha
  /\ fund.pc = "balance" => ~fund.alpha
  /\ fund.pc \in {"discover", "address", "quote", "check", "requote", "gate", "submit", "wait"}
     \/ (fund.pc = "confirm" /\ fund.alpha) => registered
  /\ fund.pc \in {"quote", "check", "confirm"} => fund.dest # Own
  /\ fund.pc # "idle" => user.runs # 0
  /\ fund.pc \in {"check", "confirm"} => fund.amount * Grain <= fund.quote

\* From the confirmation on, what is to be signed is what was shown.
Agreed ==
  /\ fund.pc \in {"requote", "gate", "submit"} \/ (fund.pc \in {"unlock", "register"} /\ ~fund.alpha)
     => /\ shown.of = user.runs
        /\ fund.netuid = shown.netuid /\ fund.dest = shown.dest /\ fund.dest # Own
        /\ fund.amount = shown.amount /\ fund.amount * Grain <= shown.quote
  /\ fund.pc = "requote" => pay.netuid \in shown.live /\ shown.of # 0
  /\ fund.pc \in {"gate", "submit"} /\ fund.alpha => fund.netuid \in shown.live

\* Unless a submitted alpha transfer raised or a command was cut off after its submission, there
\* is one transfer at most, and none while a user who wants the deposit runs the command, up to
\* the submission.
Once ==
  \/ lost
  \/ /\ Len(pending) + Len(moved) <= 1
     /\ fund.pc \notin {"idle", "wait"} \/ (fund.pc = "idle" /\ user.wants /\ user.hint # "check")
        => Len(pending) + Len(moved) = 0

FundInv == FundTypes /\ Known /\ Agreed /\ Once

LEMMA NoFundIsOne == F!NoFund \in Funds /\ F!NotShown \in Shows
  BY FundAssumption DEF F!NoFund, F!NotShown, Funds, Shows, F!Places, F!Amounts

LEMMA FundParts ==
  /\ \A f \in Funds, x \in F!Places : [f EXCEPT !.pc = x] \in Funds
  /\ \A u \in Users, h \in {"none", "retry", "check"} : [u EXCEPT !.hint = h] \in Users
  /\ \A u \in Users, b \in BOOLEAN : [u EXCEPT !.wants = b] \in Users
<1>1. \A f \in Funds, x \in F!Places : [f EXCEPT !.pc = x] \in Funds
  BY DEF Funds
<1>2. \A u \in Users, h \in {"none", "retry", "check"} : [u EXCEPT !.hint = h] \in Users
  BY DEF Users
<1>3. ASSUME NEW u \in Users, NEW b \in BOOLEAN PROVE [u EXCEPT !.wants = b] \in Users
  BY DEF Users
<1>4. QED
  BY <1>1, <1>2, <1>3

\* A command that is over.
LEMMA OverTyped == FundTypes /\ F!Over => fund' \in Funds /\ shown' \in Shows
  BY NoFundIsOne DEF F!Over

\* A quote in whole rao is not above the quote.
LEMMA FloorIsBelow == \A q \in Quotes : F!Floor(q) \in Nat /\ F!Floor(q) * Grain <= q
  BY FundAssumption DEF F!Floor

\* A step to the next place.
LEMMA GoTyped ==
  ASSUME FundTypes, NEW x \in F!Places, F!Go(x), F!Still, UNCHANGED <<registered, user, shown>>
  PROVE  FundTypes'
<1>1. fund' \in Funds
  BY FundParts DEF FundTypes, F!Go
<1>2. QED
  BY <1>1 DEF FundTypes, F!Still, F!chain

LEMMA FundInit == F!Init => FundInv
<1> SUFFICES ASSUME F!Init PROVE FundInv
  OBVIOUS
<1>1. FundTypes
  <2>1. pending \in Seq(F!Transfers) /\ moved \in Seq(F!Transfers)
    BY DEF F!Init
  <2>2. pay \in [netuid : Netuids, address : Companies \cup {Own}]
    BY FundAssumption DEF F!Init
  <2>3. user \in Users
    BY FundAssumption DEF F!Init, Users
  <2>4. registered \in BOOLEAN /\ lost \in BOOLEAN /\ fund \in Funds /\ shown \in Shows
    BY NoFundIsOne DEF F!Init
  <2>5. QED
    BY <2>1, <2>2, <2>3, <2>4 DEF FundTypes
<1>2. Known /\ Agreed /\ Once
  BY FundAssumption DEF F!Init, Known, Agreed, Once, F!NoFund
<1>3. QED
  BY <1>1, <1>2 DEF FundInv

LEMMA FundStep == FundInv /\ [F!Next]_(F!vars) => FundInv'
<1> SUFFICES ASSUME FundInv, [F!Next]_(F!vars) PROVE FundInv'
  OBVIOUS
<1>0. FundTypes /\ Known /\ Agreed /\ Once
  BY DEF FundInv
<1>1. CASE F!Begin
  <2>1. FundTypes'
    <3>1. PICK alpha \in BOOLEAN, yes \in BOOLEAN, json \in BOOLEAN :
            fund' = [F!NoFund EXCEPT !.pc = "load", !.alpha = alpha, !.yes = yes, !.json = json]
      BY <1>1 DEF F!Begin
    <3>2. fund' = [pc |-> "load", alpha |-> alpha, yes |-> yes, json |-> json, netuid |-> Tao,
                   dest |-> LegacyAddress, quote |-> Grain, amount |-> 1]
      BY <3>1 DEF F!NoFund
    <3>3. fund' \in Funds
      BY <3>2 DEF Funds, F!Places, F!Amounts
    <3>4. user' = [user EXCEPT !.runs = @ + 1, !.hint = "none"] /\ user.runs < MaxRuns
      BY <1>1 DEF F!Begin
    <3>5. user.runs + 1 \in 0..MaxRuns
      BY <1>0, <3>4, FundAssumption DEF FundTypes, Users
    <3>6. user' \in Users
      BY <1>0, <3>4, <3>5 DEF FundTypes, Users
    <3>7. QED
      BY <1>0, <1>1, <3>3, <3>6 DEF FundTypes, F!Begin, F!Still, F!chain
  <2>2. Known'
    BY <1>0, <1>1, FundAssumption DEF FundTypes, Funds, Users, Shows, Known, F!NoFund, F!NotShown, F!Begin, F!At, F!Still, F!chain
  <2>3. Agreed'
    BY <1>0, <1>1, FundAssumption DEF FundTypes, Funds, Users, Shows, Known, Agreed, F!NoFund, F!NotShown, F!Begin, F!At, F!Still, F!chain
  <2>4. Once'
    BY <1>0, <1>1, FundAssumption DEF FundTypes, Funds, Users, Known, Once, F!NoFund, F!Begin, F!At, F!Still, F!chain
  <2>5. QED
    BY <2>1, <2>2, <2>3, <2>4 DEF FundInv
<1>2. CASE F!Fails
  <2>1. FundTypes'
    <3>1. /\ F!Over /\ user' = [user EXCEPT !.hint = "retry"]
          /\ UNCHANGED <<pending, moved, pay>> /\ registered' \in BOOLEAN /\ lost' \in BOOLEAN
      BY <1>0, <1>2 DEF FundTypes, F!Fails, F!EndWith, F!Still, F!chain
    <3>2. user' \in Users
      BY <1>0, <3>1, FundParts DEF FundTypes
    <3>3. QED
      BY <1>0, <3>1, <3>2, OverTyped DEF FundTypes
  <2>2. Known'
    BY <1>0, <1>2, FundAssumption DEF FundTypes, Funds, Users, Shows, Known, F!NoFund, F!NotShown, F!Fails, F!At, F!Still, F!chain, F!EndWith, F!Over
  <2>3. Agreed'
    BY <1>0, <1>2, FundAssumption DEF FundTypes, Funds, Users, Shows, Known, Agreed, F!NoFund, F!NotShown, F!Fails, F!At, F!Still, F!chain, F!EndWith, F!Over
  <2>4. Once'
    BY <1>0, <1>2, FundAssumption DEF FundTypes, Funds, Users, Known, Once, F!NoFund, F!Fails, F!At, F!Still, F!chain, F!EndWith, F!Over
  <2>5. QED
    BY <2>1, <2>2, <2>3, <2>4 DEF FundInv
<1>3. CASE F!Load
  <2>1. FundTypes'
    <3>1. PICK x \in {"unlock", "balance"} : fund' = [fund EXCEPT !.pc = x]
      BY <1>3 DEF F!Load, F!Then, F!Go
    <3>2. QED
      BY <1>0, <1>3, <3>1, FundParts DEF FundTypes, F!Load, F!Still, F!chain, F!Places
  <2>2. Known'
    BY <1>0, <1>3, FundAssumption DEF FundTypes, Funds, Users, Shows, Known, F!NoFund, F!NotShown, F!Load, F!At, F!Still, F!chain, F!Then, F!Go
  <2>3. Agreed'
    BY <1>0, <1>3, FundAssumption DEF FundTypes, Funds, Users, Shows, Known, Agreed, F!NoFund, F!NotShown, F!Load, F!At, F!Still, F!chain, F!Then, F!Go
  <2>4. Once'
    BY <1>0, <1>3, FundAssumption DEF FundTypes, Funds, Users, Known, Once, F!NoFund, F!Load, F!At, F!Still, F!chain, F!Then, F!Go
  <2>5. QED
    BY <2>1, <2>2, <2>3, <2>4 DEF FundInv
<1>4. CASE F!Balance
  <2>1. FundTypes'
    <3>1. "confirm" \in F!Places
      BY DEF F!Places
    <3>2. QED
      BY <1>0, <1>4, <3>1, GoTyped DEF F!Balance
  <2>2. Known'
    BY <1>0, <1>4, FundAssumption DEF FundTypes, Funds, Users, Shows, Known, F!NoFund, F!NotShown, F!Balance, F!At, F!Still, F!chain, F!Go
  <2>3. Agreed'
    BY <1>0, <1>4, FundAssumption DEF FundTypes, Funds, Users, Shows, Known, Agreed, F!NoFund, F!NotShown, F!Balance, F!At, F!Still, F!chain, F!Go
  <2>4. Once'
    BY <1>0, <1>4, FundAssumption DEF FundTypes, Funds, Users, Known, Once, F!NoFund, F!Balance, F!At, F!Still, F!chain, F!Go
  <2>5. QED
    BY <2>1, <2>2, <2>3, <2>4 DEF FundInv
<1>5. CASE F!Unlock
  <2>1. FundTypes'
    <3>1. "register" \in F!Places
      BY DEF F!Places
    <3>2. QED
      BY <1>0, <1>5, <3>1, GoTyped DEF F!Unlock
  <2>2. Known'
    BY <1>0, <1>5, FundAssumption DEF FundTypes, Funds, Users, Shows, Known, F!NoFund, F!NotShown, F!Unlock, F!At, F!Still, F!chain, F!Go
  <2>3. Agreed'
    BY <1>0, <1>5, FundAssumption DEF FundTypes, Funds, Users, Shows, Known, Agreed, F!NoFund, F!NotShown, F!Unlock, F!At, F!Still, F!chain, F!Go
  <2>4. Once'
    BY <1>0, <1>5, FundAssumption DEF FundTypes, Funds, Users, Known, Once, F!NoFund, F!Unlock, F!At, F!Still, F!chain, F!Go
  <2>5. QED
    BY <2>1, <2>2, <2>3, <2>4 DEF FundInv
<1>6. CASE F!Register
  <2>1. FundTypes'
    <3>1. /\ UNCHANGED <<pending, moved, pay, lost>> /\ registered' = TRUE
          /\ \/ UNCHANGED <<user, shown>> /\ \E x \in {"discover", "address", "submit"} : fund' = [fund EXCEPT !.pc = x]
             \/ F!Over /\ user' = [user EXCEPT !.hint = "retry"]
      BY <1>6 DEF F!Register, F!Still, F!chain, F!Then, F!Go, F!EndWith
    <3>2. fund' \in Funds /\ user' \in Users /\ shown' \in Shows
      BY <1>0, <3>1, FundParts, OverTyped DEF FundTypes, F!Places
    <3>3. QED
      BY <1>0, <3>1, <3>2 DEF FundTypes
  <2>2. Known'
    BY <1>0, <1>6, FundAssumption DEF FundTypes, Funds, Users, Shows, Known, F!NoFund, F!NotShown, F!Register, F!At, F!Still, F!chain, F!Then, F!Go, F!EndWith, F!Over
  <2>3. Agreed'
    BY <1>0, <1>6, FundAssumption DEF FundTypes, Funds, Users, Shows, Known, Agreed, F!NoFund, F!NotShown, F!Register, F!At, F!Still, F!chain, F!Then, F!Go, F!EndWith, F!Over
  <2>4. Once'
    BY <1>0, <1>6, FundAssumption DEF FundTypes, Funds, Users, Known, Once, F!NoFund, F!Register, F!At, F!Still, F!chain, F!Then, F!Go, F!EndWith, F!Over
  <2>5. QED
    BY <2>1, <2>2, <2>3, <2>4 DEF FundInv
<1>7. CASE F!Discover
  <2>1. FundTypes'
    <3>1. "address" \in F!Places
      BY DEF F!Places
    <3>2. QED
      BY <1>0, <1>7, <3>1, GoTyped DEF F!Discover
  <2>2. Known'
    BY <1>0, <1>7, FundAssumption DEF FundTypes, Funds, Users, Shows, Known, F!NoFund, F!NotShown, F!Discover, F!At, F!Still, F!chain, F!Go
  <2>3. Agreed'
    BY <1>0, <1>7, FundAssumption DEF FundTypes, Funds, Users, Shows, Known, Agreed, F!NoFund, F!NotShown, F!Discover, F!At, F!Still, F!chain, F!Go
  <2>4. Once'
    BY <1>0, <1>7, FundAssumption DEF FundTypes, Funds, Users, Known, Once, F!NoFund, F!Discover, F!At, F!Still, F!chain, F!Go
  <2>5. QED
    BY <2>1, <2>2, <2>3, <2>4 DEF FundInv
<1>8. CASE F!Address
  <2>1. FundTypes'
    <3>1. fund' = [fund EXCEPT !.pc = "quote", !.dest = pay.address] /\ UNCHANGED <<pending, moved, pay, registered, user, lost, shown>>
      BY <1>8 DEF F!Address, F!Still, F!chain
    <3>2. pay.address \in Companies \cup {Own, LegacyAddress} /\ "quote" \in F!Places
      BY <1>0 DEF FundTypes, F!Places
    <3>3. fund' \in Funds
      BY <1>0, <3>1, <3>2 DEF FundTypes, Funds
    <3>4. QED
      BY <1>0, <3>1, <3>3 DEF FundTypes
  <2>2. Known'
    BY <1>0, <1>8, FundAssumption DEF FundTypes, Funds, Users, Shows, Known, F!NoFund, F!NotShown, F!Address, F!At, F!Still, F!chain
  <2>3. Agreed'
    BY <1>0, <1>8, FundAssumption DEF FundTypes, Funds, Users, Shows, Known, Agreed, F!NoFund, F!NotShown, F!Address, F!At, F!Still, F!chain
  <2>4. Once'
    BY <1>0, <1>8, FundAssumption DEF FundTypes, Funds, Users, Known, Once, F!NoFund, F!Address, F!At, F!Still, F!chain
  <2>5. QED
    BY <2>1, <2>2, <2>3, <2>4 DEF FundInv
<1>9. CASE F!Quote
  <2>1. FundTypes'
    <3>1. PICK q \in Quotes :
            fund' = [fund EXCEPT !.pc = "check", !.netuid = pay.netuid, !.quote = q, !.amount = F!Floor(q)]
      BY <1>9 DEF F!Quote
    <3>2. pay.netuid \in Netuids /\ F!Floor(q) \in F!Amounts
      BY <1>0 DEF FundTypes, F!Amounts
    <3>3. fund' \in Funds
      BY <1>0, <3>1, <3>2 DEF FundTypes, Funds, F!Places
    <3>4. QED
      BY <1>0, <1>9, <3>3 DEF FundTypes, F!Quote, F!Still, F!chain
  <2>2. Known'
    <3>1. PICK q \in Quotes :
            fund' = [fund EXCEPT !.pc = "check", !.netuid = pay.netuid, !.quote = q, !.amount = F!Floor(q)]
      BY <1>9 DEF F!Quote
    <3>2. /\ fund'.pc = "check" /\ fund'.alpha = fund.alpha /\ fund'.dest = fund.dest
          /\ fund'.amount = F!Floor(q) /\ fund'.quote = q
      BY <1>0, <3>1 DEF FundTypes, Funds
    <3>3. fund'.amount * Grain <= fund'.quote
      BY <3>2, FloorIsBelow
    <3>4. fund.pc = "quote" /\ UNCHANGED <<registered, user>>
      BY <1>9 DEF F!Quote, F!At
    <3>5. QED
      BY <1>0, <3>2, <3>3, <3>4 DEF Known
  <2>3. Agreed'
    BY <1>0, <1>9, FundAssumption DEF FundTypes, Funds, Users, Shows, Known, Agreed, F!NoFund, F!NotShown, F!Quote, F!At, F!Still, F!chain
  <2>4. Once'
    BY <1>0, <1>9, FundAssumption DEF FundTypes, Funds, Users, Known, Once, F!NoFund, F!Quote, F!At, F!Still, F!chain
  <2>5. QED
    BY <2>1, <2>2, <2>3, <2>4 DEF FundInv
<1>10. CASE F!CheckFree
  <2>1. FundTypes'
    <3>1. "confirm" \in F!Places
      BY DEF F!Places
    <3>2. QED
      BY <1>0, <1>10, <3>1, GoTyped DEF F!CheckFree
  <2>2. Known'
    BY <1>0, <1>10, FundAssumption DEF FundTypes, Funds, Users, Shows, Known, F!NoFund, F!NotShown, F!CheckFree, F!At, F!Still, F!chain, F!Go
  <2>3. Agreed'
    BY <1>0, <1>10, FundAssumption DEF FundTypes, Funds, Users, Shows, Known, Agreed, F!NoFund, F!NotShown, F!CheckFree, F!At, F!Still, F!chain, F!Go
  <2>4. Once'
    BY <1>0, <1>10, FundAssumption DEF FundTypes, Funds, Users, Known, Once, F!NoFund, F!CheckFree, F!At, F!Still, F!chain, F!Go
  <2>5. QED
    BY <2>1, <2>2, <2>3, <2>4 DEF FundInv
<1>11. CASE F!Agree
  <2>1. FundTypes'
    <3>1. PICK x \in {"requote", "unlock"} : fund' = [fund EXCEPT !.pc = x, !.yes = FALSE, !.json = FALSE, !.quote = Grain]
      BY <1>11 DEF F!Agree
    <3>2. fund' \in Funds
      BY <1>0, <3>1 DEF FundTypes, Funds, F!Places
    <3>3. shown' = [of |-> user.runs, netuid |-> fund.netuid, dest |-> fund.dest, amount |-> fund.amount,
                    quote |-> fund.quote, live |-> {pay.netuid}]
      BY <1>11 DEF F!Agree
    <3>4. shown' \in Shows
      BY <1>0, <3>3 DEF FundTypes, Funds, Users, Shows
    <3>5. QED
      BY <1>0, <1>11, <3>2, <3>4 DEF FundTypes, F!Agree, F!Still, F!chain
  <2>2. Known'
    BY <1>0, <1>11, FundAssumption DEF FundTypes, Funds, Users, Shows, Known, F!NoFund, F!NotShown, F!Agree, F!At, F!Still, F!chain
  <2>3. Agreed'
    BY <1>0, <1>11, FundAssumption DEF FundTypes, Funds, Users, Shows, Known, Agreed, F!NoFund, F!NotShown, F!Agree, F!At, F!Still, F!chain
  <2>4. Once'
    BY <1>0, <1>11, FundAssumption DEF FundTypes, Funds, Users, Known, Once, F!NoFund, F!Agree, F!At, F!Still, F!chain
  <2>5. QED
    BY <2>1, <2>2, <2>3, <2>4 DEF FundInv
<1>12. CASE F!Decline
  <2>1. FundTypes'
    <3>1. /\ F!Over /\ user' = [user EXCEPT !.wants = FALSE]
          /\ UNCHANGED <<pending, moved, pay>> /\ registered' \in BOOLEAN /\ lost' \in BOOLEAN
      BY <1>0, <1>12 DEF FundTypes, F!Decline, F!EndWith, F!Still, F!chain
    <3>2. user' \in Users
      BY <1>0, <3>1, FundParts DEF FundTypes
    <3>3. QED
      BY <1>0, <3>1, <3>2, OverTyped DEF FundTypes
  <2>2. Known'
    BY <1>0, <1>12, FundAssumption DEF FundTypes, Funds, Users, Shows, Known, F!NoFund, F!NotShown, F!Decline, F!At, F!Still, F!chain, F!Over
  <2>3. Agreed'
    BY <1>0, <1>12, FundAssumption DEF FundTypes, Funds, Users, Shows, Known, Agreed, F!NoFund, F!NotShown, F!Decline, F!At, F!Still, F!chain, F!Over
  <2>4. Once'
    BY <1>0, <1>12, FundAssumption DEF FundTypes, Funds, Users, Known, Once, F!NoFund, F!Decline, F!At, F!Still, F!chain, F!Over
  <2>5. QED
    BY <2>1, <2>2, <2>3, <2>4 DEF FundInv
<1>13. CASE F!Requote
  <2>1. FundTypes'
    <3>1. "gate" \in F!Places
      BY DEF F!Places
    <3>2. QED
      BY <1>0, <1>13, <3>1, GoTyped DEF F!Requote
  <2>2. Known'
    BY <1>0, <1>13, FundAssumption DEF FundTypes, Funds, Users, Shows, Known, F!NoFund, F!NotShown, F!Requote, F!At, F!Still, F!chain, F!Go
  <2>3. Agreed'
    BY <1>0, <1>13, FundAssumption DEF FundTypes, Funds, Users, Shows, Known, Agreed, F!NoFund, F!NotShown, F!Requote, F!At, F!Still, F!chain, F!Go
  <2>4. Once'
    BY <1>0, <1>13, FundAssumption DEF FundTypes, Funds, Users, Known, Once, F!NoFund, F!Requote, F!At, F!Still, F!chain, F!Go
  <2>5. QED
    BY <2>1, <2>2, <2>3, <2>4 DEF FundInv
<1>14. CASE F!Gate
  <2>1. FundTypes'
    <3>1. "submit" \in F!Places
      BY DEF F!Places
    <3>2. QED
      BY <1>0, <1>14, <3>1, GoTyped DEF F!Gate
  <2>2. Known'
    BY <1>0, <1>14, FundAssumption DEF FundTypes, Funds, Users, Shows, Known, F!NoFund, F!NotShown, F!Gate, F!At, F!Still, F!chain, F!Go
  <2>3. Agreed'
    BY <1>0, <1>14, FundAssumption DEF FundTypes, Funds, Users, Shows, Known, Agreed, F!NoFund, F!NotShown, F!Gate, F!At, F!Still, F!chain, F!Go
  <2>4. Once'
    BY <1>0, <1>14, FundAssumption DEF FundTypes, Funds, Users, Known, Once, F!NoFund, F!Gate, F!At, F!Still, F!chain, F!Go
  <2>5. QED
    BY <2>1, <2>2, <2>3, <2>4 DEF FundInv
<1>15. CASE F!Submit
  <2>1. FundTypes'
    <3>1. fund' \in Funds
      BY <1>0, <1>15, FundParts DEF FundTypes, F!Submit, F!Go, F!Places
    <3>2. F!Signed \in F!Transfers
      BY <1>0 DEF FundTypes, Funds, Users, F!Signed, F!Transfers
    <3>3. pending' \in Seq(F!Transfers)
      BY <1>0, <1>15, <3>2 DEF FundTypes, F!Submit
    <3>4. QED
      BY <1>0, <1>15, <3>1, <3>3 DEF FundTypes, F!Submit
  <2>2. Known'
    BY <1>0, <1>15, FundAssumption DEF FundTypes, Funds, Users, Shows, Known, F!NoFund, F!NotShown, F!Submit, F!At, F!Still, F!chain, F!Go, F!Signed
  <2>3. Agreed'
    BY <1>0, <1>15, FundAssumption DEF FundTypes, Funds, Users, Shows, Known, Agreed, F!NoFund, F!NotShown, F!Submit, F!At, F!Still, F!chain, F!Go, F!Signed
  <2>4. Once'
    BY <1>0, <1>15, FundAssumption DEF FundTypes, Funds, Users, Known, Once, F!NoFund, F!Submit, F!At, F!Still, F!chain, F!Go, F!Signed
  <2>5. QED
    BY <2>1, <2>2, <2>3, <2>4 DEF FundInv
<1>16. CASE F!Unreachable
  <2>1. FundTypes'
    <3>1. /\ F!Over /\ user' \in {[user EXCEPT !.hint = "retry"], [user EXCEPT !.hint = "check"]}
          /\ UNCHANGED <<pending, moved, pay>> /\ registered' \in BOOLEAN /\ lost' \in BOOLEAN
      BY <1>0, <1>16 DEF FundTypes, F!Unreachable, F!EndWith, F!Still, F!chain, F!HintOfRaise
    <3>2. user' \in Users
      BY <1>0, <3>1, FundParts DEF FundTypes
    <3>3. QED
      BY <1>0, <3>1, <3>2, OverTyped DEF FundTypes
  <2>2. Known'
    BY <1>0, <1>16, FundAssumption DEF FundTypes, Funds, Users, Shows, Known, F!NoFund, F!NotShown, F!Unreachable, F!At, F!Still, F!chain, F!EndWith, F!Over, F!HintOfRaise
  <2>3. Agreed'
    BY <1>0, <1>16, FundAssumption DEF FundTypes, Funds, Users, Shows, Known, Agreed, F!NoFund, F!NotShown, F!Unreachable, F!At, F!Still, F!chain, F!EndWith, F!Over, F!HintOfRaise
  <2>4. Once'
    BY <1>0, <1>16, FundAssumption DEF FundTypes, Funds, Users, Known, Once, F!NoFund, F!Unreachable, F!At, F!Still, F!chain, F!EndWith, F!Over, F!HintOfRaise
  <2>5. QED
    BY <2>1, <2>2, <2>3, <2>4 DEF FundInv
<1>17. CASE F!Raises
  <2>1. FundTypes'
    <3>1. /\ F!Over /\ user' \in {[user EXCEPT !.hint = "retry"], [user EXCEPT !.hint = "check"]}
          /\ UNCHANGED <<pending, moved, pay, registered>> /\ lost' \in BOOLEAN
      BY <1>0, <1>17 DEF FundTypes, Funds, F!Raises, F!EndWith, F!chain, F!HintOfRaise
    <3>2. user' \in Users
      BY <1>0, <3>1, FundParts DEF FundTypes
    <3>3. QED
      BY <1>0, <3>1, <3>2, OverTyped DEF FundTypes
  <2>2. Known'
    BY <1>0, <1>17, FundAssumption DEF FundTypes, Funds, Users, Shows, Known, F!NoFund, F!NotShown, F!Raises, F!At, F!Still, F!chain, F!EndWith, F!Over, F!HintOfRaise
  <2>3. Agreed'
    BY <1>0, <1>17, FundAssumption DEF FundTypes, Funds, Users, Shows, Known, Agreed, F!NoFund, F!NotShown, F!Raises, F!At, F!Still, F!chain, F!EndWith, F!Over, F!HintOfRaise
  <2>4. Once'
    BY <1>0, <1>17, FundAssumption DEF FundTypes, Funds, Users, Known, Once, F!NoFund, F!Raises, F!At, F!Still, F!chain, F!EndWith, F!Over, F!HintOfRaise
  <2>5. QED
    BY <2>1, <2>2, <2>3, <2>4 DEF FundInv
<1>18. CASE F!Succeeds
  <2>1. FundTypes'
    <3>1. /\ F!Over /\ user' = [user EXCEPT !.wants = FALSE]
          /\ UNCHANGED <<pending, moved, pay>> /\ registered' \in BOOLEAN /\ lost' \in BOOLEAN
      BY <1>0, <1>18 DEF FundTypes, F!Succeeds, F!EndWith, F!Still, F!chain
    <3>2. user' \in Users
      BY <1>0, <3>1, FundParts DEF FundTypes
    <3>3. QED
      BY <1>0, <3>1, <3>2, OverTyped DEF FundTypes
  <2>2. Known'
    BY <1>0, <1>18, FundAssumption DEF FundTypes, Funds, Users, Shows, Known, F!NoFund, F!NotShown, F!Succeeds, F!At, F!Still, F!chain, F!Over
  <2>3. Agreed'
    BY <1>0, <1>18, FundAssumption DEF FundTypes, Funds, Users, Shows, Known, Agreed, F!NoFund, F!NotShown, F!Succeeds, F!At, F!Still, F!chain, F!Over
  <2>4. Once'
    BY <1>0, <1>18, FundAssumption DEF FundTypes, Funds, Users, Known, Once, F!NoFund, F!Succeeds, F!At, F!Still, F!chain, F!Over
  <2>5. QED
    BY <2>1, <2>2, <2>3, <2>4 DEF FundInv
<1>19. CASE F!Rejected
  <2>1. FundTypes'
    <3>1. /\ F!Over /\ user' = [user EXCEPT !.hint = "check"]
          /\ UNCHANGED <<pending, moved, pay>> /\ registered' \in BOOLEAN /\ lost' \in BOOLEAN
      BY <1>0, <1>19 DEF FundTypes, F!Rejected, F!EndWith, F!Still, F!chain, F!HintOfFailure
    <3>2. user' \in Users
      BY <1>0, <3>1, FundParts DEF FundTypes
    <3>3. QED
      BY <1>0, <3>1, <3>2, OverTyped DEF FundTypes
  <2>2. Known'
    BY <1>0, <1>19, FundAssumption DEF FundTypes, Funds, Users, Shows, Known, F!NoFund, F!NotShown, F!Rejected, F!At, F!Still, F!chain, F!EndWith, F!Over, F!HintOfFailure
  <2>3. Agreed'
    BY <1>0, <1>19, FundAssumption DEF FundTypes, Funds, Users, Shows, Known, Agreed, F!NoFund, F!NotShown, F!Rejected, F!At, F!Still, F!chain, F!EndWith, F!Over, F!HintOfFailure
  <2>4. Once'
    BY <1>0, <1>19, FundAssumption DEF FundTypes, Funds, Users, Known, Once, F!NoFund, F!Rejected, F!At, F!Still, F!chain, F!EndWith, F!Over, F!HintOfFailure
  <2>5. QED
    BY <2>1, <2>2, <2>3, <2>4 DEF FundInv
<1>20. CASE F!LookAtWallet
  <2>1. FundTypes'
    <3>1. (moved = <<>>) \in BOOLEAN
      OBVIOUS
    <3>2. user' = [user EXCEPT !.hint = "none", !.wants = (moved = <<>>)]
      BY <1>20 DEF F!LookAtWallet
    <3>3. user' \in Users
      BY <1>0, <3>1, <3>2 DEF FundTypes, Users
    <3>4. QED
      BY <1>0, <1>20, <3>3 DEF FundTypes, F!LookAtWallet, F!Still, F!chain
  <2>2. Known'
    BY <1>0, <1>20, FundAssumption DEF FundTypes, Funds, Users, Shows, Known, F!NoFund, F!NotShown, F!LookAtWallet, F!At, F!Still, F!chain
  <2>3. Agreed'
    BY <1>0, <1>20, FundAssumption DEF FundTypes, Funds, Users, Shows, Known, Agreed, F!NoFund, F!NotShown, F!LookAtWallet, F!At, F!Still, F!chain
  <2>4. Once'
    BY <1>0, <1>20, FundAssumption DEF FundTypes, Funds, Users, Known, Once, F!NoFund, F!LookAtWallet, F!At, F!Still, F!chain
  <2>5. QED
    BY <2>1, <2>2, <2>3, <2>4 DEF FundInv
<1>21. CASE F!Include
  <2>1. FundTypes'
    BY <1>0, <1>21 DEF FundTypes, F!Include
  <2>2. Known'
    BY <1>0, <1>21, FundAssumption DEF FundTypes, Funds, Users, Shows, Known, F!NoFund, F!NotShown, F!Include, F!At, F!Still, F!chain
  <2>3. Agreed'
    BY <1>0, <1>21, FundAssumption DEF FundTypes, Funds, Users, Shows, Known, Agreed, F!NoFund, F!NotShown, F!Include, F!At, F!Still, F!chain
  <2>4. Once'
    BY <1>0, <1>21, FundAssumption DEF FundTypes, Funds, Users, Known, Once, F!NoFund, F!Include, F!At, F!Still, F!chain
  <2>5. QED
    BY <2>1, <2>2, <2>3, <2>4 DEF FundInv
<1>22. CASE F!Drop
  <2>1. FundTypes'
    BY <1>0, <1>22 DEF FundTypes, F!Drop
  <2>2. Known'
    BY <1>0, <1>22, FundAssumption DEF FundTypes, Funds, Users, Shows, Known, F!NoFund, F!NotShown, F!Drop, F!At, F!Still, F!chain
  <2>3. Agreed'
    BY <1>0, <1>22, FundAssumption DEF FundTypes, Funds, Users, Shows, Known, Agreed, F!NoFund, F!NotShown, F!Drop, F!At, F!Still, F!chain
  <2>4. Once'
    BY <1>0, <1>22, FundAssumption DEF FundTypes, Funds, Users, Known, Once, F!NoFund, F!Drop, F!At, F!Still, F!chain
  <2>5. QED
    BY <2>1, <2>2, <2>3, <2>4 DEF FundInv
<1>23. CASE F!Elsewhere
  <2>1. FundTypes'
    BY <1>0, <1>23 DEF FundTypes, F!Elsewhere
  <2>2. Known'
    BY <1>0, <1>23, FundAssumption DEF FundTypes, Funds, Users, Shows, Known, F!NoFund, F!NotShown, F!Elsewhere, F!At, F!Still, F!chain
  <2>3. Agreed'
    BY <1>0, <1>23, FundAssumption DEF FundTypes, Funds, Users, Shows, Known, Agreed, F!NoFund, F!NotShown, F!Elsewhere, F!At, F!Still, F!chain
  <2>4. Once'
    BY <1>0, <1>23, FundAssumption DEF FundTypes, Funds, Users, Known, Once, F!NoFund, F!Elsewhere, F!At, F!Still, F!chain
  <2>5. QED
    BY <2>1, <2>2, <2>3, <2>4 DEF FundInv
<1>24. CASE F!Rotate
  <2>1. FundTypes'
    <3>1. PICK n \in Netuids, a \in Companies \cup {Own} :
            /\ pay' = [netuid |-> n, address |-> a]
            /\ shown' = [shown EXCEPT !.live = IF shown.of = 0 THEN @ ELSE @ \cup {n}]
      BY <1>24 DEF F!Rotate
    <3>2. shown' \in Shows
      BY <1>0, <3>1 DEF FundTypes, Shows
    <3>3. QED
      BY <1>0, <1>24, <3>1, <3>2 DEF FundTypes, F!Rotate, F!chain
  <2>2. Known'
    BY <1>0, <1>24, FundAssumption DEF FundTypes, Funds, Users, Shows, Known, F!NoFund, F!NotShown, F!Rotate, F!At, F!Still, F!chain
  <2>3. Agreed'
    BY <1>0, <1>24, FundAssumption DEF FundTypes, Funds, Users, Shows, Known, Agreed, F!NoFund, F!NotShown, F!Rotate, F!At, F!Still, F!chain
  <2>4. Once'
    BY <1>0, <1>24, FundAssumption DEF FundTypes, Funds, Users, Known, Once, F!NoFund, F!Rotate, F!At, F!Still, F!chain
  <2>5. QED
    BY <2>1, <2>2, <2>3, <2>4 DEF FundInv
<1>25. CASE F!Interrupted
  <2>1. FundTypes'
    <3>1. /\ F!Over /\ user' = [user EXCEPT !.hint = "none"]
          /\ UNCHANGED <<pending, moved, pay, registered>> /\ lost' \in BOOLEAN
      BY <1>0, <1>25 DEF FundTypes, F!Interrupted, F!EndWith, F!chain, F!At
    <3>2. user' \in Users
      BY <1>0, <3>1, FundParts DEF FundTypes
    <3>3. QED
      BY <1>0, <3>1, <3>2, OverTyped DEF FundTypes
  <2>2. Known'
    BY <1>0, <1>25, FundAssumption DEF FundTypes, Funds, Users, Shows, Known, F!NoFund, F!NotShown, F!Interrupted, F!At, F!chain, F!EndWith, F!Over
  <2>3. Agreed'
    BY <1>0, <1>25, FundAssumption DEF FundTypes, Funds, Users, Shows, Known, Agreed, F!NoFund, F!NotShown, F!Interrupted, F!At, F!chain, F!EndWith, F!Over
  <2>4. Once'
    BY <1>0, <1>25, FundAssumption DEF FundTypes, Funds, Users, Known, Once, F!NoFund, F!Interrupted, F!At, F!chain, F!EndWith, F!Over
  <2>5. QED
    BY <2>1, <2>2, <2>3, <2>4 DEF FundInv
<1>26. CASE UNCHANGED F!vars
  BY <1>0, <1>26 DEF F!vars, FundInv, FundTypes, Known, Agreed, Once
<1>27. QED
  BY <1>1, <1>2, <1>3, <1>4, <1>5, <1>6, <1>7, <1>8, <1>9, <1>10, <1>11, <1>12, <1>13, <1>14, <1>15, <1>16, <1>17, <1>18, <1>19, <1>20, <1>21, <1>22, <1>23, <1>24, <1>25, <1>26 DEF F!Next

LEMMA FundSafety == Spec => []FundInv
<1>1. Init => FundInv
  BY FundInit DEF Init
<1>2. FundInv /\ [Next]_vars => FundInv'
  BY FundSteps, FundStep
<1>3. QED
  BY <1>1, <1>2, PTL DEF Spec

\* The chain moves no more alpha than there is.
Covered == free \in [Netuids -> 0..MaxFree]

LEMMA FreeStep == FundInv /\ Covered /\ [F!Next]_(F!vars) => Covered'
<1> SUFFICES ASSUME FundInv, free \in [Netuids -> 0..MaxFree], [F!Next]_(F!vars) PROVE free' \in [Netuids -> 0..MaxFree]
  BY DEF Covered
<1>1. CASE F!Include
  <2> DEFINE t == Head(pending)
  <2>1. /\ t.netuid # Tao => free[t.netuid] >= t.amount
        /\ free' = [n \in Netuids |-> IF n = t.netuid THEN free[n] - t.amount ELSE free[n]]
    BY <1>1 DEF F!Include
  <2>2. t \in F!Transfers
    BY <1>1 DEF F!Include, FundInv, FundTypes
  <2> HIDE DEF t
  <2>3. t.amount \in Nat
    BY <2>2, FloorIsBelow DEF F!Transfers, F!Amounts
  <2>4. \A n \in Netuids : n = t.netuid => free[n] - t.amount \in 0..MaxFree
    BY <2>1, <2>3, FundAssumption
  <2>5. QED
    BY <2>1, <2>4
<1>2. CASE F!Elsewhere
  BY <1>2 DEF F!Elsewhere
<1>3. CASE free' = free
  BY <1>3
<1>4. QED
  BY <1>1, <1>2, <1>3 DEF F!Next, F!vars, F!chain, F!Still, F!Begin, F!Fails, F!Interrupted, F!Load, F!Balance, F!Unlock,
       F!Register, F!Discover, F!Address, F!Quote, F!CheckFree, F!Agree, F!Decline, F!Requote, F!Gate, F!Submit, F!Unreachable,
       F!Raises, F!Succeeds, F!Rejected, F!LookAtWallet, F!Drop, F!Rotate

LEMMA FreeSafety == Spec => []Covered
<1>1. Init => Covered
  BY FundAssumption DEF Init, F!Init, Covered
<1>2. FundInv /\ Covered /\ [Next]_vars => Covered'
  BY FundSteps, FreeStep
<1>3. QED
  BY <1>1, <1>2, FundSafety, PTL DEF Spec

\* lium fund: a user who does what the hints say sends twice only when a call for alpha that had
\* been submitted raised, or the command was cut off then.
THEOREM ResendsNeedLostAnswers == Spec => []ResendNeedsLostAnswer
<1>1. FundInv => ResendNeedsLostAnswer
  BY DEF FundInv, FundTypes, Once, ResendNeedsLostAnswer, F!ResendNeedsLostAnswer
<1>2. QED
  BY <1>1, FundSafety, PTL

\* Only Submit makes a transfer, of what the command holds.
LEMMA SentIsSigned ==
  ASSUME FundInv, [F!Next]_(F!vars), Len(pending') > Len(pending)
  PROVE  F!Submit /\ F!Last(pending') = F!Signed
<1>0. pending \in Seq(F!Transfers)
  BY DEF FundInv, FundTypes
<1>1. pending' # pending
  BY <1>0
<1>2. pending' # Tail(pending) \/ pending = <<>>
  BY <1>0
<1>3. F!Submit
  BY <1>1, <1>2 DEF F!Next, F!vars, F!Still, F!chain, F!Begin, F!Fails, F!Interrupted, F!Load, F!Balance, F!Unlock, F!Register,
       F!Discover, F!Address, F!Quote, F!CheckFree, F!Agree, F!Decline, F!Requote, F!Gate, F!Unreachable, F!Raises,
       F!Succeeds, F!Rejected, F!LookAtWallet, F!Include, F!Drop, F!Elsewhere, F!Rotate
<1>4. QED
  BY <1>0, <1>3 DEF F!Submit, F!Last

\* lium fund: what is signed is what the user of this command confirmed.
THEOREM SendsAsConfirmed == Spec => SentAsConfirmed
<1> DEFINE Right(t) == /\ shown.of = t.run
                       /\ t.netuid = shown.netuid /\ t.dest = shown.dest /\ t.dest # Own
                       /\ t.amount * Grain <= shown.quote
                       /\ t.netuid # Tao => t.netuid \in shown.live
                       /\ registered
<1>1. ASSUME FundInv, F!Submit PROVE Right(F!Signed)
  BY <1>1 DEF FundInv, Known, Agreed, F!Submit, F!At, F!Signed
<1>2. FundInv /\ [F!Next]_(F!vars) => (Len(pending') > Len(pending) => LET t == F!Last(pending') IN Right(t))
  BY <1>1, SentIsSigned
<1>3. FundInv /\ [Next]_vars => (Len(pending') > Len(pending) => LET t == F!Last(pending') IN Right(t))
  BY <1>2, FundSteps
<1>4. QED
  BY <1>3, FundSafety, PTL DEF Spec, SentAsConfirmed, F!SentAsConfirmed

-----------------------------------------------------------------------------
(* Mine.                                                                   *)

LEMMA MineSteps == [Next]_vars => [M!Next]_(M!vars)
  BY DEF Next, vars, M!vars, M!host, mine

Runs ==
  [pc : M!Places, account : Accounts \cup {Nothing}, hotkey : Accounts \cup {Nothing}, port : Ports,
   register : BOOLEAN, watch : BOOLEAN, fresh : BOOLEAN, saw : M!Configs \cup {Nothing},
   already : BOOLEAN, left : 0..FindAttempts, said : {"nothing", "failed", "added", "already"},
   code : {0, 1, 2}]

MineTypes ==
  /\ env \in M!Configs \cup {Nothing}
  /\ box \in M!Boxes \cup {Nothing}
  /\ taken \subseteq Ports
  /\ nodes \in [Ports -> Accounts \cup {Nothing}]
  /\ starts \in 0..MaxStarts
  /\ run \in Runs

\* What the command was given, and what it has said so far.
Given ==
  /\ run.pc = "idle" => run = M!NoRun
  /\ run.pc \in {"inventory", "port", "address", "price", "post", "find", "watch"} => run.register
  /\ run.register => run.account = run.hotkey
  /\ run.pc \notin {"idle", "over"} => run.hotkey \in Accounts
  /\ run.pc \notin {"watch", "over"} => run.said = "nothing"

\* From Override to the end .env says what the command was given.
EnvIsGiven ==
  /\ run.pc \in {"override", "ports", "up"} => env # Nothing
  /\ run.pc = "override" => env.hotkey = run.hotkey
  /\ run.pc \in {"ports", "up", "health", "preflight", "inventory", "port", "address", "price", "post", "find"}
     => env = [hotkey |-> run.hotkey, port |-> run.port]

\* A container that was made by this command is what .env says, and it is the one that was seen
\* to be healthy.
BoxIsGiven ==
  /\ run.pc = "up" /\ run.fresh => ~M!Ours
  /\ run.pc \in {"health", "preflight"} => box # Nothing
  /\ run.pc \in {"health", "preflight"} /\ run.fresh => box.hotkey = run.hotkey /\ box.port = run.port
  /\ run.pc \in {"preflight", "inventory", "port", "address", "price", "post", "find"} /\ run.fresh
     => run.saw = [hotkey |-> run.hotkey, port |-> run.port]

Listed ==
  /\ run.pc = "find" /\ ~run.already => nodes[run.port] = run.account
  /\ RegisteredIsThisNode

MineInv == MineTypes /\ Given /\ EnvIsGiven /\ BoxIsGiven /\ Listed

LEMMA NoRunTyped == M!NoRun \in Runs
  BY MineAssumption DEF M!NoRun, Runs, M!Places

LEMMA MineInit == M!Init => MineInv
<1> SUFFICES ASSUME M!Init PROVE MineInv
  OBVIOUS
<1>1. MineTypes
  BY NoRunTyped, MineAssumption DEF M!Init, MineTypes
<1>2. Given /\ EnvIsGiven /\ BoxIsGiven /\ Listed
  BY DEF M!Init, M!NoRun, Given, EnvIsGiven, BoxIsGiven, Listed, RegisteredIsThisNode, M!RegisteredIsThisNode
<1>3. QED
  BY <1>1, <1>2 DEF MineInv

\* A command that adds nothing may say so at any place.
LEMMA NotAddedKeeps ==
  ASSUME MineInv, M!NotAdded, UNCHANGED <<env, box, taken, nodes, starts>>
  PROVE  MineInv'
<1>0. MineTypes /\ Given /\ EnvIsGiven /\ BoxIsGiven /\ Listed
  BY DEF MineInv
<1>1. run' = [run EXCEPT !.pc = "over", !.code = 1, !.said = "failed"]
  BY DEF M!NotAdded, M!Tell
<1>2. MineTypes'
  BY <1>0, <1>1 DEF MineTypes, Runs, M!Places
<1>3. /\ run'.pc = "over" /\ run'.said = "failed" /\ run'.register = run.register
      /\ run'.account = run.account /\ run'.hotkey = run.hotkey
  BY <1>0, <1>1 DEF MineTypes, Runs
<1>4. Given' /\ EnvIsGiven' /\ BoxIsGiven' /\ Listed'
  BY <1>0, <1>3 DEF Given, EnvIsGiven, BoxIsGiven, Listed, RegisteredIsThisNode, M!RegisteredIsThisNode
<1>5. QED
  BY <1>2, <1>4 DEF MineInv

LEMMA MineStep == MineInv /\ [M!Next]_(M!vars) => MineInv'
<1> SUFFICES ASSUME MineInv, [M!Next]_(M!vars) PROVE MineInv'
  OBVIOUS
<1>0. MineTypes /\ Given /\ EnvIsGiven /\ BoxIsGiven /\ Listed
  BY DEF MineInv
<1>1. CASE M!Begin
  <2>1. MineTypes'
    <3>1. UNCHANGED <<env, box, taken, nodes>> /\ starts' \in 0..MaxStarts
      BY <1>0, <1>1, MineAssumption DEF M!Begin, M!host, MineTypes
    <3>2. \A token \in BOOLEAN : M!Answers(token) \subseteq Ports
      BY MineAssumption DEF M!Answers
    <3>3. PICK a \in Accounts, token \in BOOLEAN, w \in BOOLEAN, p \in Ports :
            run' = [M!NoRun EXCEPT !.pc = "repo", !.hotkey = a, !.port = p, !.register = token,
                                   !.account = IF token THEN a ELSE Nothing, !.watch = w]
      BY <1>1, <3>2 DEF M!Begin
    <3>4. run' \in Runs
      BY <3>3, NoRunTyped DEF Runs, M!Places, M!Setup, M!Survey
    <3>5. QED
      BY <1>0, <3>1, <3>4 DEF MineTypes
  <2>2. Given'
    BY <1>0, <1>1, MineAssumption DEF MineTypes, Runs, Given, M!Begin, M!At, M!Answers, M!host, M!NoRun
  <2>3. EnvIsGiven'
    BY <1>0, <1>1, MineAssumption DEF MineTypes, Runs, Given, EnvIsGiven, M!Configs, M!Begin, M!At, M!Answers, M!host, M!NoRun
  <2>4. BoxIsGiven'
    BY <1>0, <1>1, MineAssumption DEF MineTypes, Runs, Given, EnvIsGiven, BoxIsGiven, M!Configs, M!Boxes, M!Begin, M!At, M!Answers, M!host, M!NoRun, M!Ours, M!StartedBox
  <2>5. Listed'
    BY <1>0, <1>1, MineAssumption DEF MineTypes, Runs, Given, EnvIsGiven, BoxIsGiven, Listed, RegisteredIsThisNode, M!RegisteredIsThisNode, M!Begin, M!At, M!Answers, M!host, M!NoRun
  <2>6. QED
    BY <2>1, <2>2, <2>3, <2>4, <2>5 DEF MineInv
<1>2. CASE M!Refuse
  <2>1. MineTypes'
    <3>1. UNCHANGED <<env, box, taken, nodes>> /\ starts' \in 0..MaxStarts
      BY <1>0, <1>2, MineAssumption DEF M!Refuse, M!host, MineTypes
    <3>2. run' \in Runs
      BY <1>2, NoRunTyped DEF M!Refuse, Runs, M!Places
    <3>3. QED
      BY <1>0, <3>1, <3>2 DEF MineTypes
  <2>2. Given'
    BY <1>0, <1>2, MineAssumption DEF MineTypes, Runs, Given, M!Refuse, M!At, M!host, M!NoRun
  <2>3. EnvIsGiven'
    BY <1>0, <1>2, MineAssumption DEF MineTypes, Runs, Given, EnvIsGiven, M!Configs, M!Refuse, M!At, M!host, M!NoRun
  <2>4. BoxIsGiven'
    BY <1>0, <1>2, MineAssumption DEF MineTypes, Runs, Given, EnvIsGiven, BoxIsGiven, M!Configs, M!Boxes, M!Refuse, M!At, M!host, M!NoRun, M!Ours, M!StartedBox
  <2>5. Listed'
    BY <1>0, <1>2, MineAssumption DEF MineTypes, Runs, Given, EnvIsGiven, BoxIsGiven, Listed, RegisteredIsThisNode, M!RegisteredIsThisNode, M!Refuse, M!At, M!host, M!NoRun
  <2>6. QED
    BY <2>1, <2>2, <2>3, <2>4, <2>5 DEF MineInv
<1>3. CASE M!Repository
  <2>1. MineTypes'
    BY <1>0, <1>3, MineAssumption DEF MineTypes, Runs, M!Places, M!Setup, M!Survey, M!Configs, M!Boxes, M!Repository, M!At, M!Go, M!host
  <2>2. Given'
    BY <1>0, <1>3, MineAssumption DEF MineTypes, Runs, Given, M!Repository, M!At, M!Go, M!host
  <2>3. EnvIsGiven'
    BY <1>0, <1>3, MineAssumption DEF MineTypes, Runs, Given, EnvIsGiven, M!Configs, M!Repository, M!At, M!Go, M!host
  <2>4. BoxIsGiven'
    BY <1>0, <1>3, MineAssumption DEF MineTypes, Runs, Given, EnvIsGiven, BoxIsGiven, M!Configs, M!Boxes, M!Repository, M!At, M!Go, M!host, M!Ours, M!StartedBox
  <2>5. Listed'
    BY <1>0, <1>3, MineAssumption DEF MineTypes, Runs, Given, EnvIsGiven, BoxIsGiven, Listed, RegisteredIsThisNode, M!RegisteredIsThisNode, M!Repository, M!At, M!Go, M!host
  <2>6. QED
    BY <2>1, <2>2, <2>3, <2>4, <2>5 DEF MineInv
<1>4. CASE M!Tools
  <2>1. MineTypes'
    BY <1>0, <1>4, MineAssumption DEF MineTypes, Runs, M!Places, M!Setup, M!Survey, M!Configs, M!Boxes, M!Tools, M!At, M!Go, M!host
  <2>2. Given'
    BY <1>0, <1>4, MineAssumption DEF MineTypes, Runs, Given, M!Tools, M!At, M!Go, M!host
  <2>3. EnvIsGiven'
    BY <1>0, <1>4, MineAssumption DEF MineTypes, Runs, Given, EnvIsGiven, M!Configs, M!Tools, M!At, M!Go, M!host
  <2>4. BoxIsGiven'
    BY <1>0, <1>4, MineAssumption DEF MineTypes, Runs, Given, EnvIsGiven, BoxIsGiven, M!Configs, M!Boxes, M!Tools, M!At, M!Go, M!host, M!Ours, M!StartedBox
  <2>5. Listed'
    BY <1>0, <1>4, MineAssumption DEF MineTypes, Runs, Given, EnvIsGiven, BoxIsGiven, Listed, RegisteredIsThisNode, M!RegisteredIsThisNode, M!Tools, M!At, M!Go, M!host
  <2>6. QED
    BY <2>1, <2>2, <2>3, <2>4, <2>5 DEF MineInv
<1>5. CASE M!Prerequisites
  <2>1. MineTypes'
    BY <1>0, <1>5, MineAssumption DEF MineTypes, Runs, M!Places, M!Setup, M!Survey, M!Configs, M!Boxes, M!Prerequisites, M!At, M!Go, M!host
  <2>2. Given'
    BY <1>0, <1>5, MineAssumption DEF MineTypes, Runs, Given, M!Prerequisites, M!At, M!Go, M!host
  <2>3. EnvIsGiven'
    BY <1>0, <1>5, MineAssumption DEF MineTypes, Runs, Given, EnvIsGiven, M!Configs, M!Prerequisites, M!At, M!Go, M!host
  <2>4. BoxIsGiven'
    BY <1>0, <1>5, MineAssumption DEF MineTypes, Runs, Given, EnvIsGiven, BoxIsGiven, M!Configs, M!Boxes, M!Prerequisites, M!At, M!Go, M!host, M!Ours, M!StartedBox
  <2>5. Listed'
    BY <1>0, <1>5, MineAssumption DEF MineTypes, Runs, Given, EnvIsGiven, BoxIsGiven, Listed, RegisteredIsThisNode, M!RegisteredIsThisNode, M!Prerequisites, M!At, M!Go, M!host
  <2>6. QED
    BY <2>1, <2>2, <2>3, <2>4, <2>5 DEF MineInv
<1>6. CASE M!RenderEnv
  <2>1. MineTypes'
    <3>1. run.hotkey \in Accounts
      BY <1>0, <1>6 DEF M!RenderEnv, M!At, Given
    <3>2. env' \in M!Configs
      BY <1>6, <3>1, MineAssumption DEF M!RenderEnv, M!Configs
    <3>3. run' \in Runs
      BY <1>0, <1>6 DEF M!RenderEnv, M!Go, MineTypes, Runs, M!Places, M!Setup, M!Survey
    <3>4. QED
      BY <1>0, <1>6, <3>2, <3>3 DEF M!RenderEnv, MineTypes
  <2>2. Given'
    BY <1>0, <1>6, MineAssumption DEF MineTypes, Runs, Given, M!RenderEnv, M!At, M!Go
  <2>3. EnvIsGiven'
    BY <1>0, <1>6, MineAssumption DEF MineTypes, Runs, Given, EnvIsGiven, M!Configs, M!RenderEnv, M!At, M!Go
  <2>4. BoxIsGiven'
    BY <1>0, <1>6, MineAssumption DEF MineTypes, Runs, Given, EnvIsGiven, BoxIsGiven, M!Configs, M!Boxes, M!RenderEnv, M!At, M!Go, M!Ours, M!StartedBox
  <2>5. Listed'
    BY <1>0, <1>6, MineAssumption DEF MineTypes, Runs, Given, EnvIsGiven, BoxIsGiven, Listed, RegisteredIsThisNode, M!RegisteredIsThisNode, M!RenderEnv, M!At, M!Go
  <2>6. QED
    BY <2>1, <2>2, <2>3, <2>4, <2>5 DEF MineInv
<1>7. CASE M!Override
  <2>1. MineTypes'
    <3>1. env \in M!Configs
      BY <1>0, <1>7 DEF M!Override, M!At, EnvIsGiven, MineTypes
    <3>2. env' \in M!Configs
      BY <1>0, <1>7, <3>1 DEF M!Override, M!Configs, MineTypes, Runs
    <3>3. run' \in Runs
      BY <1>0, <1>7 DEF M!Override, M!Go, MineTypes, Runs, M!Places, M!Setup, M!Survey
    <3>4. QED
      BY <1>0, <1>7, <3>2, <3>3 DEF M!Override, MineTypes
  <2>2. Given'
    BY <1>0, <1>7, MineAssumption DEF MineTypes, Runs, Given, M!Override, M!At, M!Go
  <2>3. EnvIsGiven'
    BY <1>0, <1>7, MineAssumption DEF MineTypes, Runs, Given, EnvIsGiven, M!Configs, M!Override, M!At, M!Go
  <2>4. BoxIsGiven'
    BY <1>0, <1>7, MineAssumption DEF MineTypes, Runs, Given, EnvIsGiven, BoxIsGiven, M!Configs, M!Boxes, M!Override, M!At, M!Go, M!Ours, M!StartedBox
  <2>5. Listed'
    BY <1>0, <1>7, MineAssumption DEF MineTypes, Runs, Given, EnvIsGiven, BoxIsGiven, Listed, RegisteredIsThisNode, M!RegisteredIsThisNode, M!Override, M!At, M!Go
  <2>6. QED
    BY <2>1, <2>2, <2>3, <2>4, <2>5 DEF MineInv
<1>8. CASE M!CheckPorts
  <2>1. MineTypes'
    BY <1>0, <1>8, MineAssumption DEF MineTypes, Runs, M!Places, M!Setup, M!Survey, M!Configs, M!Boxes, M!CheckPorts, M!At, M!Ours, M!host
  <2>2. Given'
    BY <1>0, <1>8, MineAssumption DEF MineTypes, Runs, Given, M!CheckPorts, M!At, M!Ours, M!host
  <2>3. EnvIsGiven'
    BY <1>0, <1>8, MineAssumption DEF MineTypes, Runs, Given, EnvIsGiven, M!Configs, M!CheckPorts, M!At, M!Ours, M!host
  <2>4. BoxIsGiven'
    BY <1>0, <1>8, MineAssumption DEF MineTypes, Runs, Given, EnvIsGiven, BoxIsGiven, M!Configs, M!Boxes, M!CheckPorts, M!At, M!Ours, M!host, M!StartedBox
  <2>5. Listed'
    BY <1>0, <1>8, MineAssumption DEF MineTypes, Runs, Given, EnvIsGiven, BoxIsGiven, Listed, RegisteredIsThisNode, M!RegisteredIsThisNode, M!CheckPorts, M!At, M!Ours, M!host
  <2>6. QED
    BY <2>1, <2>2, <2>3, <2>4, <2>5 DEF MineInv
<1>9. CASE M!PortTaken
  <2>1. MineTypes'
    BY <1>0, <1>9, MineAssumption DEF MineTypes, Runs, M!Places, M!Setup, M!Survey, M!Configs, M!Boxes, M!PortTaken, M!At, M!Exit, M!Ours, M!host
  <2>2. Given'
    BY <1>0, <1>9, MineAssumption DEF MineTypes, Runs, Given, M!PortTaken, M!At, M!Exit, M!Ours, M!host
  <2>3. EnvIsGiven'
    BY <1>0, <1>9, MineAssumption DEF MineTypes, Runs, Given, EnvIsGiven, M!Configs, M!PortTaken, M!At, M!Exit, M!Ours, M!host
  <2>4. BoxIsGiven'
    BY <1>0, <1>9, MineAssumption DEF MineTypes, Runs, Given, EnvIsGiven, BoxIsGiven, M!Configs, M!Boxes, M!PortTaken, M!At, M!Exit, M!Ours, M!host, M!StartedBox
  <2>5. Listed'
    BY <1>0, <1>9, MineAssumption DEF MineTypes, Runs, Given, EnvIsGiven, BoxIsGiven, Listed, RegisteredIsThisNode, M!RegisteredIsThisNode, M!PortTaken, M!At, M!Exit, M!Ours, M!host
  <2>6. QED
    BY <2>1, <2>2, <2>3, <2>4, <2>5 DEF MineInv
<1>10. CASE M!ComposeUp
  <2>1. MineTypes'
    <3>1. env \in M!Configs
      BY <1>0, <1>10 DEF M!ComposeUp, M!At, EnvIsGiven, MineTypes
    <3>2. M!StartedBox \in M!Boxes
      BY <3>1 DEF M!StartedBox, M!Boxes, M!Configs
    <3>3. box' \in M!Boxes \cup {Nothing}
      BY <1>0, <1>10, <3>2 DEF M!ComposeUp, MineTypes
    <3>4. run' \in Runs
      BY <1>0, <1>10 DEF M!ComposeUp, M!Go, MineTypes, Runs, M!Places, M!Setup, M!Survey
    <3>5. QED
      BY <1>0, <1>10, <3>3, <3>4 DEF M!ComposeUp, MineTypes
  <2>2. Given'
    BY <1>0, <1>10, MineAssumption DEF MineTypes, Runs, Given, M!ComposeUp, M!At, M!Go, M!Ours, M!StartedBox
  <2>3. EnvIsGiven'
    BY <1>0, <1>10, MineAssumption DEF MineTypes, Runs, Given, EnvIsGiven, M!Configs, M!ComposeUp, M!At, M!Go, M!Ours, M!StartedBox
  <2>4. BoxIsGiven'
    BY <1>0, <1>10, MineAssumption DEF MineTypes, Runs, Given, EnvIsGiven, BoxIsGiven, M!Configs, M!Boxes, M!ComposeUp, M!At, M!Go, M!Ours, M!StartedBox
  <2>5. Listed'
    BY <1>0, <1>10, MineAssumption DEF MineTypes, Runs, Given, EnvIsGiven, BoxIsGiven, Listed, RegisteredIsThisNode, M!RegisteredIsThisNode, M!ComposeUp, M!At, M!Go, M!Ours, M!StartedBox
  <2>6. QED
    BY <2>1, <2>2, <2>3, <2>4, <2>5 DEF MineInv
<1>11. CASE M!Healthy
  <2>1. MineTypes'
    BY <1>0, <1>11, MineAssumption DEF MineTypes, Runs, M!Places, M!Setup, M!Survey, M!Configs, M!Boxes, M!Healthy, M!At, M!host
  <2>2. Given'
    BY <1>0, <1>11, MineAssumption DEF MineTypes, Runs, Given, M!Healthy, M!At, M!host
  <2>3. EnvIsGiven'
    BY <1>0, <1>11, MineAssumption DEF MineTypes, Runs, Given, EnvIsGiven, M!Configs, M!Healthy, M!At, M!host
  <2>4. BoxIsGiven'
    BY <1>0, <1>11, MineAssumption DEF MineTypes, Runs, Given, EnvIsGiven, BoxIsGiven, M!Configs, M!Boxes, M!Healthy, M!At, M!host, M!Ours, M!StartedBox
  <2>5. Listed'
    BY <1>0, <1>11, MineAssumption DEF MineTypes, Runs, Given, EnvIsGiven, BoxIsGiven, Listed, RegisteredIsThisNode, M!RegisteredIsThisNode, M!Healthy, M!At, M!host
  <2>6. QED
    BY <2>1, <2>2, <2>3, <2>4, <2>5 DEF MineInv
<1>12. CASE M!HealthTimesOut
  <2>1. MineTypes'
    BY <1>0, <1>12, MineAssumption DEF MineTypes, Runs, M!Places, M!Setup, M!Survey, M!Configs, M!Boxes, M!HealthTimesOut, M!At, M!Exit, M!host
  <2>2. Given'
    BY <1>0, <1>12, MineAssumption DEF MineTypes, Runs, Given, M!HealthTimesOut, M!At, M!Exit, M!host
  <2>3. EnvIsGiven'
    BY <1>0, <1>12, MineAssumption DEF MineTypes, Runs, Given, EnvIsGiven, M!Configs, M!HealthTimesOut, M!At, M!Exit, M!host
  <2>4. BoxIsGiven'
    BY <1>0, <1>12, MineAssumption DEF MineTypes, Runs, Given, EnvIsGiven, BoxIsGiven, M!Configs, M!Boxes, M!HealthTimesOut, M!At, M!Exit, M!host, M!Ours, M!StartedBox
  <2>5. Listed'
    BY <1>0, <1>12, MineAssumption DEF MineTypes, Runs, Given, EnvIsGiven, BoxIsGiven, Listed, RegisteredIsThisNode, M!RegisteredIsThisNode, M!HealthTimesOut, M!At, M!Exit, M!host
  <2>6. QED
    BY <2>1, <2>2, <2>3, <2>4, <2>5 DEF MineInv
<1>13. CASE M!Preflight
  <2>1. MineTypes'
    BY <1>0, <1>13, MineAssumption DEF MineTypes, Runs, M!Places, M!Setup, M!Survey, M!Configs, M!Boxes, M!Preflight, M!At, M!Go, M!host
  <2>2. Given'
    BY <1>0, <1>13, MineAssumption DEF MineTypes, Runs, Given, M!Preflight, M!At, M!Go, M!host
  <2>3. EnvIsGiven'
    BY <1>0, <1>13, MineAssumption DEF MineTypes, Runs, Given, EnvIsGiven, M!Configs, M!Preflight, M!At, M!Go, M!host
  <2>4. BoxIsGiven'
    BY <1>0, <1>13, MineAssumption DEF MineTypes, Runs, Given, EnvIsGiven, BoxIsGiven, M!Configs, M!Boxes, M!Preflight, M!At, M!Go, M!host, M!Ours, M!StartedBox
  <2>5. Listed'
    BY <1>0, <1>13, MineAssumption DEF MineTypes, Runs, Given, EnvIsGiven, BoxIsGiven, Listed, RegisteredIsThisNode, M!RegisteredIsThisNode, M!Preflight, M!At, M!Go, M!host
  <2>6. QED
    BY <2>1, <2>2, <2>3, <2>4, <2>5 DEF MineInv
<1>14. CASE M!StepFails
  <2>1. MineTypes'
    BY <1>0, <1>14, MineAssumption DEF MineTypes, Runs, M!Places, M!Setup, M!Survey, M!Configs, M!Boxes, M!StepFails, M!Exit, M!host
  <2>2. Given'
    BY <1>0, <1>14, MineAssumption DEF MineTypes, Runs, Given, M!StepFails, M!Exit, M!Setup, M!host, M!Survey
  <2>3. EnvIsGiven'
    BY <1>0, <1>14, MineAssumption DEF MineTypes, Runs, Given, EnvIsGiven, M!Configs, M!StepFails, M!Exit, M!Setup, M!host, M!Survey
  <2>4. BoxIsGiven'
    BY <1>0, <1>14, MineAssumption DEF MineTypes, Runs, Given, EnvIsGiven, BoxIsGiven, M!Configs, M!Boxes, M!StepFails, M!Exit, M!Setup, M!host, M!Ours, M!StartedBox, M!Survey
  <2>5. Listed'
    BY <1>0, <1>14, MineAssumption DEF MineTypes, Runs, Given, EnvIsGiven, BoxIsGiven, Listed, RegisteredIsThisNode, M!RegisteredIsThisNode, M!StepFails, M!Exit, M!Setup, M!host, M!Survey
  <2>6. QED
    BY <2>1, <2>2, <2>3, <2>4, <2>5 DEF MineInv
<1>15. CASE M!Summary
  <2>1. MineTypes'
    BY <1>0, <1>15, MineAssumption DEF MineTypes, Runs, M!Places, M!Setup, M!Survey, M!Configs, M!Boxes, M!Summary, M!At, M!Exit, M!host
  <2>2. Given'
    BY <1>0, <1>15, MineAssumption DEF MineTypes, Runs, Given, M!Summary, M!At, M!Exit, M!host
  <2>3. EnvIsGiven'
    BY <1>0, <1>15, MineAssumption DEF MineTypes, Runs, Given, EnvIsGiven, M!Configs, M!Summary, M!At, M!Exit, M!host
  <2>4. BoxIsGiven'
    BY <1>0, <1>15, MineAssumption DEF MineTypes, Runs, Given, EnvIsGiven, BoxIsGiven, M!Configs, M!Boxes, M!Summary, M!At, M!Exit, M!host, M!Ours, M!StartedBox
  <2>5. Listed'
    BY <1>0, <1>15, MineAssumption DEF MineTypes, Runs, Given, EnvIsGiven, BoxIsGiven, Listed, RegisteredIsThisNode, M!RegisteredIsThisNode, M!Summary, M!At, M!Exit, M!host
  <2>6. QED
    BY <2>1, <2>2, <2>3, <2>4, <2>5 DEF MineInv
<1>16. CASE M!Inventory
  <2>1. run.pc = "inventory" /\ UNCHANGED <<env, box, taken, nodes, starts>>
    BY <1>16 DEF M!Inventory, M!At, M!host
  <2>2. CASE M!NotAdded
    BY <2>1, <2>2, NotAddedKeeps
  <2>3. CASE M!Go("port")
    <3>1. run' = [run EXCEPT !.pc = "port"]
      BY <2>3 DEF M!Go
    <3>2. MineTypes'
      BY <1>0, <2>1, <3>1 DEF MineTypes, Runs, M!Places, M!Setup, M!Survey
    <3>3. run'.pc = "port" /\ UNCHANGED <<run.account, run.hotkey, run.port, run.register, run.fresh, run.saw, run.said>>
      BY <1>0, <3>1 DEF MineTypes, Runs
    <3>4. Given' /\ EnvIsGiven' /\ BoxIsGiven' /\ Listed'
      BY <1>0, <2>1, <3>3 DEF Given, EnvIsGiven, BoxIsGiven, Listed, RegisteredIsThisNode, M!RegisteredIsThisNode
    <3>5. QED
      BY <3>2, <3>4 DEF MineInv
  <2>4. QED
    BY <1>16, <2>2, <2>3 DEF M!Inventory
<1>17. CASE M!Port
  <2>1. MineTypes'
    <3>1. env \in M!Configs
      BY <1>0, <1>17 DEF M!Port, M!At, EnvIsGiven, MineTypes, M!Configs, Runs, Given
    <3>2. run' = [run EXCEPT !.pc = "address", !.port = env.port] /\ env.port \in Ports
      BY <1>17, <3>1 DEF M!Port, M!Configs
    <3>3. run' \in Runs
      BY <1>0, <3>2 DEF MineTypes, Runs, M!Places, M!Setup, M!Survey
    <3>4. QED
      BY <1>0, <1>17, <3>3 DEF M!Port, M!host, MineTypes
  <2>2. Given'
    BY <1>0, <1>17, MineAssumption DEF MineTypes, Runs, Given, M!Port, M!At, M!host
  <2>3. EnvIsGiven'
    BY <1>0, <1>17, MineAssumption DEF MineTypes, Runs, Given, EnvIsGiven, M!Configs, M!Port, M!At, M!host
  <2>4. BoxIsGiven'
    BY <1>0, <1>17, MineAssumption DEF MineTypes, Runs, Given, EnvIsGiven, BoxIsGiven, M!Configs, M!Boxes, M!Port, M!At, M!host, M!Ours, M!StartedBox
  <2>5. Listed'
    BY <1>0, <1>17, MineAssumption DEF MineTypes, Runs, Given, EnvIsGiven, BoxIsGiven, Listed, RegisteredIsThisNode, M!RegisteredIsThisNode, M!Port, M!At, M!host
  <2>6. QED
    BY <2>1, <2>2, <2>3, <2>4, <2>5 DEF MineInv
<1>18. CASE M!Address
  <2>1. run.pc = "address" /\ UNCHANGED <<env, box, taken, nodes, starts>>
    BY <1>18 DEF M!Address, M!At, M!host
  <2>2. CASE M!NotAdded
    BY <2>1, <2>2, NotAddedKeeps
  <2>3. CASE M!Go("price")
    <3>1. run' = [run EXCEPT !.pc = "price"]
      BY <2>3 DEF M!Go
    <3>2. MineTypes'
      BY <1>0, <2>1, <3>1 DEF MineTypes, Runs, M!Places, M!Setup, M!Survey
    <3>3. run'.pc = "price" /\ UNCHANGED <<run.account, run.hotkey, run.port, run.register, run.fresh, run.saw, run.said>>
      BY <1>0, <3>1 DEF MineTypes, Runs
    <3>4. Given' /\ EnvIsGiven' /\ BoxIsGiven' /\ Listed'
      BY <1>0, <2>1, <3>3 DEF Given, EnvIsGiven, BoxIsGiven, Listed, RegisteredIsThisNode, M!RegisteredIsThisNode
    <3>5. QED
      BY <3>2, <3>4 DEF MineInv
  <2>4. QED
    BY <1>18, <2>2, <2>3 DEF M!Address
<1>19. CASE M!Price
  <2>1. run.pc = "price" /\ UNCHANGED <<env, box, taken, nodes, starts>>
    BY <1>19 DEF M!Price, M!At, M!host
  <2>2. CASE M!NotAdded
    BY <2>1, <2>2, NotAddedKeeps
  <2>3. CASE M!Go("post")
    <3>1. run' = [run EXCEPT !.pc = "post"]
      BY <2>3 DEF M!Go
    <3>2. MineTypes'
      BY <1>0, <2>1, <3>1 DEF MineTypes, Runs, M!Places, M!Setup, M!Survey
    <3>3. run'.pc = "post" /\ UNCHANGED <<run.account, run.hotkey, run.port, run.register, run.fresh, run.saw, run.said>>
      BY <1>0, <3>1 DEF MineTypes, Runs
    <3>4. Given' /\ EnvIsGiven' /\ BoxIsGiven' /\ Listed'
      BY <1>0, <2>1, <3>3 DEF Given, EnvIsGiven, BoxIsGiven, Listed, RegisteredIsThisNode, M!RegisteredIsThisNode
    <3>5. QED
      BY <3>2, <3>4 DEF MineInv
  <2>4. QED
    BY <1>19, <2>2, <2>3 DEF M!Price
<1>20. CASE M!AddRefused
  <2>1. MineTypes'
    BY <1>0, <1>20, MineAssumption DEF MineTypes, Runs, M!Places, M!Setup, M!Survey, M!Configs, M!Boxes, M!AddRefused, M!At, M!NotAdded, M!Tell, M!host
  <2>2. Given'
    BY <1>0, <1>20, MineAssumption DEF MineTypes, Runs, Given, M!AddRefused, M!At, M!NotAdded, M!Tell, M!host
  <2>3. EnvIsGiven'
    BY <1>0, <1>20, MineAssumption DEF MineTypes, Runs, Given, EnvIsGiven, M!Configs, M!AddRefused, M!At, M!NotAdded, M!Tell, M!host
  <2>4. BoxIsGiven'
    BY <1>0, <1>20, MineAssumption DEF MineTypes, Runs, Given, EnvIsGiven, BoxIsGiven, M!Configs, M!Boxes, M!AddRefused, M!At, M!NotAdded, M!Tell, M!host, M!Ours, M!StartedBox
  <2>5. Listed'
    BY <1>0, <1>20, MineAssumption DEF MineTypes, Runs, Given, EnvIsGiven, BoxIsGiven, Listed, RegisteredIsThisNode, M!RegisteredIsThisNode, M!AddRefused, M!At, M!NotAdded, M!Tell, M!host
  <2>6. QED
    BY <2>1, <2>2, <2>3, <2>4, <2>5 DEF MineInv
<1>21. CASE M!Add
  <2>1. MineTypes'
    <3>1. FindAttempts \in 0..FindAttempts
      BY MineAssumption
    <3>2. run' = [run EXCEPT !.pc = "find", !.left = FindAttempts]
      BY <1>21 DEF M!Add
    <3>3. run' \in Runs
      BY <1>0, <3>1, <3>2 DEF MineTypes, Runs, M!Places, M!Setup, M!Survey
    <3>4. nodes' \in [Ports -> Accounts \cup {Nothing}]
      BY <1>0, <1>21 DEF M!Add, MineTypes, Runs
    <3>5. QED
      BY <1>0, <1>21, <3>3, <3>4 DEF M!Add, M!host, MineTypes
  <2>2. Given'
    BY <1>0, <1>21, MineAssumption DEF MineTypes, Runs, Given, M!Add, M!At, M!host
  <2>3. EnvIsGiven'
    BY <1>0, <1>21, MineAssumption DEF MineTypes, Runs, Given, EnvIsGiven, M!Configs, M!Add, M!At, M!host
  <2>4. BoxIsGiven'
    BY <1>0, <1>21, MineAssumption DEF MineTypes, Runs, Given, EnvIsGiven, BoxIsGiven, M!Configs, M!Boxes, M!Add, M!At, M!host, M!Ours, M!StartedBox
  <2>5. Listed'
    BY <1>0, <1>21, MineAssumption DEF MineTypes, Runs, Given, EnvIsGiven, BoxIsGiven, Listed, RegisteredIsThisNode, M!RegisteredIsThisNode, M!Add, M!At, M!host
  <2>6. QED
    BY <2>1, <2>2, <2>3, <2>4, <2>5 DEF MineInv
<1>22. CASE M!AddUnanswered
  <2>1. MineTypes'
    BY <1>0, <1>22, MineAssumption DEF MineTypes, Runs, M!Places, M!Setup, M!Survey, M!Configs, M!Boxes, M!AddUnanswered, M!At, M!NotAdded, M!Tell, M!host
  <2>2. Given'
    BY <1>0, <1>22, MineAssumption DEF MineTypes, Runs, Given, M!AddUnanswered, M!At, M!NotAdded, M!Tell, M!host
  <2>3. EnvIsGiven'
    BY <1>0, <1>22, MineAssumption DEF MineTypes, Runs, Given, EnvIsGiven, M!Configs, M!AddUnanswered, M!At, M!NotAdded, M!Tell, M!host
  <2>4. BoxIsGiven'
    BY <1>0, <1>22, MineAssumption DEF MineTypes, Runs, Given, EnvIsGiven, BoxIsGiven, M!Configs, M!Boxes, M!AddUnanswered, M!At, M!NotAdded, M!Tell, M!host, M!Ours, M!StartedBox
  <2>5. Listed'
    BY <1>0, <1>22, MineAssumption DEF MineTypes, Runs, Given, EnvIsGiven, BoxIsGiven, Listed, RegisteredIsThisNode, M!RegisteredIsThisNode, M!AddUnanswered, M!At, M!NotAdded, M!Tell, M!host
  <2>6. QED
    BY <2>1, <2>2, <2>3, <2>4, <2>5 DEF MineInv
<1>23. CASE M!AddTwice
  <2>1. MineTypes'
    <3>1. FindAttempts \in 0..FindAttempts
      BY MineAssumption
    <3>2. run' = [run EXCEPT !.pc = "find", !.left = FindAttempts, !.already = TRUE]
      BY <1>23 DEF M!AddTwice
    <3>3. run' \in Runs
      BY <1>0, <3>1, <3>2 DEF MineTypes, Runs, M!Places, M!Setup, M!Survey
    <3>4. QED
      BY <1>0, <1>23, <3>3 DEF M!AddTwice, M!host, MineTypes
  <2>2. Given'
    BY <1>0, <1>23, MineAssumption DEF MineTypes, Runs, Given, M!AddTwice, M!At, M!host
  <2>3. EnvIsGiven'
    BY <1>0, <1>23, MineAssumption DEF MineTypes, Runs, Given, EnvIsGiven, M!Configs, M!AddTwice, M!At, M!host
  <2>4. BoxIsGiven'
    BY <1>0, <1>23, MineAssumption DEF MineTypes, Runs, Given, EnvIsGiven, BoxIsGiven, M!Configs, M!Boxes, M!AddTwice, M!At, M!host, M!Ours, M!StartedBox
  <2>5. Listed'
    BY <1>0, <1>23, MineAssumption DEF MineTypes, Runs, Given, EnvIsGiven, BoxIsGiven, Listed, RegisteredIsThisNode, M!RegisteredIsThisNode, M!AddTwice, M!At, M!host
  <2>6. QED
    BY <2>1, <2>2, <2>3, <2>4, <2>5 DEF MineInv
<1>24. CASE M!Found
  <2>1. /\ run.pc = "find" /\ UNCHANGED <<env, box, taken, nodes, starts>>
        /\ nodes[run.port] = run.account
    BY <1>24 DEF M!Found, M!At, M!InList, M!host
  <2>2. PICK s \in {"added", "already"} : run' \in {[run EXCEPT !.pc = "watch", !.said = s], [run EXCEPT !.pc = "over", !.code = 0, !.said = s]}
    BY <1>24 DEF M!Found, M!Tell
  <2>3. MineTypes'
    BY <1>0, <2>1, <2>2 DEF MineTypes, Runs, M!Places, M!Setup, M!Survey
  <2>4. /\ run'.pc \in {"watch", "over"} /\ run'.said = s
        /\ UNCHANGED <<run.account, run.hotkey, run.port, run.register, run.fresh, run.saw>>
    BY <1>0, <2>2 DEF MineTypes, Runs
  <2>5. run.register /\ run.account = run.hotkey /\ run.hotkey \in Accounts
    BY <1>0, <2>1 DEF Given
  <2>6. run.fresh => run.saw = [hotkey |-> run.account, port |-> run.port]
    BY <1>0, <2>1, <2>5 DEF BoxIsGiven
  <2>7. Given'
    BY <2>4, <2>5 DEF Given
  <2>8. EnvIsGiven' /\ BoxIsGiven'
    BY <2>4 DEF EnvIsGiven, BoxIsGiven
  <2>9. Listed'
    <3>1. /\ run'.pc # "find"
          /\ nodes'[run'.port] = run'.account
          /\ run'.fresh => run'.saw = [hotkey |-> run'.account, port |-> run'.port]
      BY <2>1, <2>4, <2>6
    <3>2. QED
      BY <3>1 DEF Listed, RegisteredIsThisNode, M!RegisteredIsThisNode
  <2>10. QED
    BY <2>3, <2>7, <2>8, <2>9 DEF MineInv
<1>25. CASE M!NotFound
  <2>1. MineTypes'
    BY <1>0, <1>25, MineAssumption DEF MineTypes, Runs, M!Places, M!Setup, M!Survey, M!Configs, M!Boxes, M!NotFound, M!At, M!host
  <2>2. Given'
    BY <1>0, <1>25, MineAssumption DEF MineTypes, Runs, Given, M!NotFound, M!At, M!host
  <2>3. EnvIsGiven'
    BY <1>0, <1>25, MineAssumption DEF MineTypes, Runs, Given, EnvIsGiven, M!Configs, M!NotFound, M!At, M!host
  <2>4. BoxIsGiven'
    BY <1>0, <1>25, MineAssumption DEF MineTypes, Runs, Given, EnvIsGiven, BoxIsGiven, M!Configs, M!Boxes, M!NotFound, M!At, M!host, M!Ours, M!StartedBox
  <2>5. Listed'
    BY <1>0, <1>25, MineAssumption DEF MineTypes, Runs, Given, EnvIsGiven, BoxIsGiven, Listed, RegisteredIsThisNode, M!RegisteredIsThisNode, M!NotFound, M!At, M!host
  <2>6. QED
    BY <2>1, <2>2, <2>3, <2>4, <2>5 DEF MineInv
<1>26. CASE M!NeverFound
  <2>1. run.pc = "find" /\ UNCHANGED <<env, box, taken, nodes, starts>>
    BY <1>26 DEF M!NeverFound, M!At, M!host
  <2>2. CASE run.already
    <3>1. M!NotAdded
      BY <1>26, <2>2 DEF M!NeverFound, M!NotAdded
    <3>2. QED
      BY <2>1, <3>1, NotAddedKeeps
  <2>3. CASE ~run.already
    <3>1. run' = [run EXCEPT !.pc = "over", !.code = 2, !.said = "added"]
      BY <1>26, <2>3 DEF M!NeverFound, M!Tell
    <3>2. MineTypes'
      BY <1>0, <2>1, <3>1 DEF MineTypes, Runs, M!Places
    <3>3. /\ run'.pc = "over" /\ run'.said = "added"
          /\ UNCHANGED <<run.account, run.hotkey, run.port, run.register, run.fresh, run.saw>>
      BY <1>0, <3>1 DEF MineTypes, Runs
    <3>4. run.register /\ run.account = run.hotkey
      BY <1>0, <2>1 DEF Given
    <3>5. /\ nodes[run.port] = run.account
          /\ run.fresh => run.saw = [hotkey |-> run.account, port |-> run.port]
      BY <1>0, <2>1, <2>3, <3>4 DEF BoxIsGiven, Listed
    <3>6. Given' /\ EnvIsGiven' /\ BoxIsGiven' /\ Listed'
      BY <2>1, <3>3, <3>4, <3>5 DEF Given, EnvIsGiven, BoxIsGiven, Listed, RegisteredIsThisNode, M!RegisteredIsThisNode
    <3>7. QED
      BY <3>2, <3>6 DEF MineInv
  <2>4. QED
    BY <2>2, <2>3
<1>27. CASE M!Watched
  <2>1. MineTypes'
    BY <1>0, <1>27, MineAssumption DEF MineTypes, Runs, M!Places, M!Setup, M!Survey, M!Configs, M!Boxes, M!Watched, M!At, M!Exit, M!host
  <2>2. Given'
    BY <1>0, <1>27, MineAssumption DEF MineTypes, Runs, Given, M!Watched, M!At, M!Exit, M!host
  <2>3. EnvIsGiven'
    BY <1>0, <1>27, MineAssumption DEF MineTypes, Runs, Given, EnvIsGiven, M!Configs, M!Watched, M!At, M!Exit, M!host
  <2>4. BoxIsGiven'
    BY <1>0, <1>27, MineAssumption DEF MineTypes, Runs, Given, EnvIsGiven, BoxIsGiven, M!Configs, M!Boxes, M!Watched, M!At, M!Exit, M!host, M!Ours, M!StartedBox
  <2>5. Listed'
    BY <1>0, <1>27, MineAssumption DEF MineTypes, Runs, Given, EnvIsGiven, BoxIsGiven, Listed, RegisteredIsThisNode, M!RegisteredIsThisNode, M!Watched, M!At, M!Exit, M!host
  <2>6. QED
    BY <2>1, <2>2, <2>3, <2>4, <2>5 DEF MineInv
<1>28. CASE M!Finish
  <2>1. MineTypes'
    BY <1>0, <1>28, MineAssumption DEF MineTypes, Runs, M!Places, M!Setup, M!Survey, M!Configs, M!Boxes, M!Finish, M!At, M!host, M!NoRun
  <2>2. Given'
    BY <1>0, <1>28, MineAssumption DEF MineTypes, Runs, Given, M!Finish, M!At, M!host, M!NoRun
  <2>3. EnvIsGiven'
    BY <1>0, <1>28, MineAssumption DEF MineTypes, Runs, Given, EnvIsGiven, M!Configs, M!Finish, M!At, M!host, M!NoRun
  <2>4. BoxIsGiven'
    BY <1>0, <1>28, MineAssumption DEF MineTypes, Runs, Given, EnvIsGiven, BoxIsGiven, M!Configs, M!Boxes, M!Finish, M!At, M!host, M!NoRun, M!Ours, M!StartedBox
  <2>5. Listed'
    BY <1>0, <1>28, MineAssumption DEF MineTypes, Runs, Given, EnvIsGiven, BoxIsGiven, Listed, RegisteredIsThisNode, M!RegisteredIsThisNode, M!Finish, M!At, M!host, M!NoRun
  <2>6. QED
    BY <2>1, <2>2, <2>3, <2>4, <2>5 DEF MineInv
<1>29. CASE M!Kill
  <2>1. MineTypes'
    BY <1>0, <1>29, MineAssumption DEF MineTypes, Runs, M!Places, M!Setup, M!Survey, M!Configs, M!Boxes, M!Kill, M!NoRun
  <2>2. Given'
    BY <1>0, <1>29, MineAssumption DEF MineTypes, Runs, Given, M!Kill, M!Setup, M!Survey, M!NoRun
  <2>3. EnvIsGiven'
    BY <1>0, <1>29, MineAssumption DEF MineTypes, Runs, Given, EnvIsGiven, M!Configs, M!Kill, M!Setup, M!Survey, M!NoRun
  <2>4. BoxIsGiven'
    BY <1>0, <1>29, MineAssumption DEF MineTypes, Runs, Given, EnvIsGiven, BoxIsGiven, M!Configs, M!Boxes, M!Kill, M!Setup, M!Survey, M!NoRun, M!Ours, M!StartedBox
  <2>5. Listed'
    BY <1>0, <1>29, MineAssumption DEF MineTypes, Runs, Given, EnvIsGiven, BoxIsGiven, Listed, RegisteredIsThisNode, M!RegisteredIsThisNode, M!Kill, M!Setup, M!Survey, M!NoRun
  <2>6. QED
    BY <2>1, <2>2, <2>3, <2>4, <2>5 DEF MineInv
<1>30. CASE M!PortUsed
  <2>1. MineTypes'
    BY <1>0, <1>30, MineAssumption DEF MineTypes, Runs, M!Places, M!Setup, M!Survey, M!Configs, M!Boxes, M!PortUsed, M!Bound, M!Ours, M!SettingUp
  <2>2. Given'
    BY <1>0, <1>30, MineAssumption DEF MineTypes, Runs, Given, M!PortUsed, M!Bound, M!Ours, M!SettingUp, M!Setup, M!Survey
  <2>3. EnvIsGiven'
    BY <1>0, <1>30, MineAssumption DEF MineTypes, Runs, Given, EnvIsGiven, M!Configs, M!PortUsed, M!Bound, M!Ours, M!SettingUp, M!Setup, M!Survey
  <2>4. BoxIsGiven'
    BY <1>0, <1>30, MineAssumption DEF MineTypes, Runs, Given, EnvIsGiven, BoxIsGiven, M!Configs, M!Boxes, M!PortUsed, M!Bound, M!Ours, M!SettingUp, M!Setup, M!StartedBox, M!Survey
  <2>5. Listed'
    BY <1>0, <1>30, MineAssumption DEF MineTypes, Runs, Given, EnvIsGiven, BoxIsGiven, Listed, RegisteredIsThisNode, M!RegisteredIsThisNode, M!PortUsed, M!Bound, M!Ours, M!SettingUp, M!Setup, M!Survey
  <2>6. QED
    BY <2>1, <2>2, <2>3, <2>4, <2>5 DEF MineInv
<1>31. CASE M!BoxHealthy
  <2>1. MineTypes'
    BY <1>0, <1>31, MineAssumption DEF MineTypes, Runs, M!Places, M!Setup, M!Survey, M!Configs, M!Boxes, M!BoxHealthy, M!SettingUp
  <2>2. Given'
    BY <1>0, <1>31, MineAssumption DEF MineTypes, Runs, Given, M!BoxHealthy, M!SettingUp, M!Setup, M!Survey
  <2>3. EnvIsGiven'
    BY <1>0, <1>31, MineAssumption DEF MineTypes, Runs, Given, EnvIsGiven, M!Configs, M!BoxHealthy, M!SettingUp, M!Setup, M!Survey
  <2>4. BoxIsGiven'
    BY <1>0, <1>31, MineAssumption DEF MineTypes, Runs, Given, EnvIsGiven, BoxIsGiven, M!Configs, M!Boxes, M!BoxHealthy, M!SettingUp, M!Setup, M!Ours, M!StartedBox, M!Survey
  <2>5. Listed'
    BY <1>0, <1>31, MineAssumption DEF MineTypes, Runs, Given, EnvIsGiven, BoxIsGiven, Listed, RegisteredIsThisNode, M!RegisteredIsThisNode, M!BoxHealthy, M!SettingUp, M!Setup, M!Survey
  <2>6. QED
    BY <2>1, <2>2, <2>3, <2>4, <2>5 DEF MineInv
<1>32. CASE M!Recreate
  <2>1. MineTypes'
    <3>1. env \in M!Configs
      BY <1>0, <1>32 DEF M!Recreate, EnvIsGiven, MineTypes, M!Configs, Runs, Given
    <3>2. M!StartedBox \in M!Boxes
      BY <3>1 DEF M!StartedBox, M!Boxes, M!Configs
    <3>3. QED
      BY <1>0, <1>32, <3>2 DEF M!Recreate, MineTypes
  <2>2. Given'
    BY <1>0, <1>32, MineAssumption DEF MineTypes, Runs, Given, M!Recreate, M!StartedBox
  <2>3. EnvIsGiven'
    BY <1>0, <1>32, MineAssumption DEF MineTypes, Runs, Given, EnvIsGiven, M!Configs, M!Recreate, M!StartedBox
  <2>4. BoxIsGiven'
    BY <1>0, <1>32, MineAssumption DEF MineTypes, Runs, Given, EnvIsGiven, BoxIsGiven, M!Configs, M!Boxes, M!Recreate, M!StartedBox, M!Ours
  <2>5. Listed'
    BY <1>0, <1>32, MineAssumption DEF MineTypes, Runs, Given, EnvIsGiven, BoxIsGiven, Listed, RegisteredIsThisNode, M!RegisteredIsThisNode, M!Recreate, M!StartedBox
  <2>6. QED
    BY <2>1, <2>2, <2>3, <2>4, <2>5 DEF MineInv
<1>33. CASE M!OthersAdd
  <2>1. MineTypes'
    BY <1>0, <1>33, MineAssumption DEF MineTypes, Runs, M!Places, M!Setup, M!Survey, M!Configs, M!Boxes, M!OthersAdd, M!SettingUp, M!host
  <2>2. Given'
    BY <1>0, <1>33, MineAssumption DEF MineTypes, Runs, Given, M!OthersAdd, M!SettingUp, M!Setup, M!host, M!Survey
  <2>3. EnvIsGiven'
    BY <1>0, <1>33, MineAssumption DEF MineTypes, Runs, Given, EnvIsGiven, M!Configs, M!OthersAdd, M!SettingUp, M!Setup, M!host, M!Survey
  <2>4. BoxIsGiven'
    BY <1>0, <1>33, MineAssumption DEF MineTypes, Runs, Given, EnvIsGiven, BoxIsGiven, M!Configs, M!Boxes, M!OthersAdd, M!SettingUp, M!Setup, M!host, M!Ours, M!StartedBox, M!Survey
  <2>5. Listed'
    BY <1>0, <1>33, MineAssumption DEF MineTypes, Runs, Given, EnvIsGiven, BoxIsGiven, Listed, RegisteredIsThisNode, M!RegisteredIsThisNode, M!OthersAdd, M!SettingUp, M!Setup, M!host, M!Survey
  <2>6. QED
    BY <2>1, <2>2, <2>3, <2>4, <2>5 DEF MineInv
<1>34. CASE UNCHANGED M!vars
  BY <1>0, <1>34 DEF M!vars, M!host, MineInv, MineTypes, Given, EnvIsGiven, BoxIsGiven, M!Ours, Listed, RegisteredIsThisNode, M!RegisteredIsThisNode
<1>35. QED
  BY <1>1, <1>2, <1>3, <1>4, <1>5, <1>6, <1>7, <1>8, <1>9, <1>10, <1>11, <1>12, <1>13, <1>14, <1>15, <1>16, <1>17, <1>18, <1>19, <1>20, <1>21, <1>22, <1>23, <1>24, <1>25, <1>26, <1>27, <1>28, <1>29, <1>30, <1>31, <1>32, <1>33, <1>34 DEF M!Next, M!Step, M!Environment

LEMMA MineSafety == Spec => []MineInv
<1>1. Init => MineInv
  BY MineInit DEF Init
<1>2. MineInv /\ [Next]_vars => MineInv'
  BY MineSteps, MineStep
<1>3. QED
  BY <1>1, <1>2, PTL DEF Spec

\* mine --register: what the user reads of a node is true of the one at this host.
THEOREM ToldIsThisNode == Spec => []RegisteredIsThisNode
<1>1. MineInv => RegisteredIsThisNode
  BY DEF MineInv, Listed
<1>2. QED
  BY <1>1, MineSafety, PTL

-----------------------------------------------------------------------------
(* NodeWait.                                                               *)

LEMMA WaitSteps == [Next]_vars => [W!Next]_(W!vars)
  BY DEF Next, vars, W!vars, watch

Waits ==
  [pc : {"idle", "read", "judge", "sleep", "over"}, now : 0..(W!Never - 1), wake : 0..(W!Never - 1),
   since : 0..W!Never, sure : BOOLEAN, late : BOOLEAN, last : W!Readings, settled : W!Readings,
   final : W!Readings, code : {0, 1, 2}]

WaitTypes ==
  /\ reach \in BOOLEAN /\ flag \in BOOLEAN /\ wasDown \in BOOLEAN
  /\ age \in 0..(Confirm - 1)
  /\ check \in W!Checks
  /\ wait \in Waits

\* No wait lasts to Never: the last sleep begins before Timeout + Confirm, and a read after it
\* takes a tick at most.
LastWake == Timeout + Confirm + Interval - 1

InBounds ==
  /\ wait.pc = "idle" => wait = W!NoWait
  /\ wait.pc = "sleep" => wait.wake <= LastWake /\ wait.now <= wait.wake /\ ~wait.late
  /\ wait.pc = "read" => wait.now <= IF wait.late THEN LastWake + 1 ELSE LastWake
  /\ wait.pc \in {"judge", "over"} => wait.now <= LastWake + 1
  /\ wait.pc = "judge" => ~wait.late

\* While the node has not been down in this wait, a flag that says so is as old as the wait; so
\* no OFFLINE has been read for Confirm, and none is settled.
FlagIsOld ==
  /\ wait.pc # "idle" /\ ~reach => wasDown
  /\ wait.pc # "idle" /\ ~flag /\ ~wasDown => wait.now <= age

Sure ==
  /\ wait.sure => wasDown
  /\ wait.settled # "OFFLINE"
  /\ wait.last = "OFFLINE" => wait.since # W!Never
  /\ wait.final = "OFFLINE" => wasDown

WaitInv == WaitTypes /\ InBounds /\ FlagIsOld /\ Sure

LEMMA NeverIsLater == W!Never \in Nat /\ LastWake \in Nat /\ W!Never > LastWake + 2 /\ W!Never > Confirm
  BY WaitAssumption DEF W!Never, LastWake

LEMMA ResultTyped == \A w \in Waits, x \in W!Readings : W!Result(w, x) \in Waits
  BY DEF W!Result, W!CodeOf, Waits

LEMMA WaitInit == W!Init => WaitInv
<1> SUFFICES ASSUME W!Init PROVE WaitInv
  OBVIOUS
<1>1. W!NoWait \in Waits
  BY NeverIsLater DEF W!NoWait, Waits, W!Readings, W!Checks
<1>2. WaitTypes
  <2>1. 0 \in 0..(Confirm - 1)
    BY WaitAssumption
  <2>2. QED
    BY <1>1, <2>1 DEF W!Init, WaitTypes, W!Checks
<1>3. InBounds /\ FlagIsOld /\ Sure
  BY NeverIsLater DEF W!Init, InBounds, FlagIsOld, Sure, W!NoWait
<1>4. QED
  BY <1>2, <1>3 DEF WaitInv

LEMMA WaitStep == WaitInv /\ [W!Next]_(W!vars) => WaitInv'
<1> SUFFICES ASSUME WaitInv, [W!Next]_(W!vars) PROVE WaitInv'
  OBVIOUS
<1>0. WaitTypes /\ InBounds /\ FlagIsOld /\ Sure
  BY DEF WaitInv
<1>1. CASE W!ReadStatus
  <2>1. WaitTypes'
    <3>1. PICK s \in W!Computed :
            wait' \in {W!Result(W!Read(s), s), [W!Read(s) EXCEPT !.pc = "judge"]}
      BY <1>1 DEF W!ReadStatus
    <3>2. s \in W!Readings
      BY <1>0 DEF WaitTypes, W!Computed, W!Readings
    <3>3. W!Read(s) \in Waits
      <4>1. wait.since \in 0..W!Never /\ wait.now \in 0..W!Never
        <5>1. wait.since \in 0..W!Never /\ wait.now \in 0..(W!Never - 1)
          BY <1>0 DEF WaitTypes, Waits
        <5>2. QED
          BY <5>1, NeverIsLater
      <4> DEFINE since == IF s = "OFFLINE" THEN W!Earlier(wait.since, wait.now) ELSE W!Never
                 sure == s = "OFFLINE" /\ wait.now - since >= Confirm
                 settled == IF s = "OFFLINE" THEN wait.settled ELSE s
      <4>2. since \in 0..W!Never
        BY <4>1, NeverIsLater DEF W!Earlier
      <4>3. sure \in BOOLEAN /\ settled \in W!Readings
        BY <1>0, <3>2 DEF WaitTypes, Waits
      <4>4. W!Read(s) = [wait EXCEPT !.late = FALSE, !.last = s, !.since = since, !.sure = sure, !.settled = settled]
        BY DEF W!Read
      <4> HIDE DEF since, sure, settled
      <4>5. QED
        BY <1>0, <3>2, <4>2, <4>3, <4>4 DEF WaitTypes, Waits
    <3>4. [W!Read(s) EXCEPT !.pc = "judge"] \in Waits
      BY <3>3 DEF Waits
    <3>5. wait' \in Waits
      BY <3>1, <3>2, <3>3, <3>4, ResultTyped
    <3>6. QED
      BY <1>0, <1>1, <3>5 DEF WaitTypes, W!ReadStatus, W!node
  <2>2. InBounds'
    BY <1>0, <1>1, NeverIsLater, WaitAssumption DEF WaitTypes, Waits, InBounds, LastWake, W!ReadStatus, W!At, W!node, W!Read, W!Result, W!CodeOf, W!Listed, W!NeedsFix, W!Computed, W!Earlier
  <2>3. FlagIsOld'
    BY <1>0, <1>1, NeverIsLater, WaitAssumption DEF WaitTypes, Waits, InBounds, FlagIsOld, W!ReadStatus, W!At, W!node, W!Read, W!Result, W!CodeOf, W!Listed, W!NeedsFix, W!Computed, W!Earlier
  <2>4. Sure'
    BY <1>0, <1>1, NeverIsLater, WaitAssumption DEF WaitTypes, Waits, InBounds, FlagIsOld, Sure, W!Checks, W!ReadStatus, W!At, W!node, W!Read, W!Result, W!CodeOf, W!Listed, W!NeedsFix, W!Computed, W!Earlier
  <2>5. QED
    BY <2>1, <2>2, <2>3, <2>4 DEF WaitInv
<1>2. CASE W!ReadFails
  <2>1. WaitTypes'
    BY <1>0, <1>2, NeverIsLater, WaitAssumption DEF WaitTypes, Waits, InBounds, W!Readings, W!Checks, W!ReadFails, W!At, W!node
  <2>2. InBounds'
    BY <1>0, <1>2, NeverIsLater, WaitAssumption DEF WaitTypes, Waits, InBounds, LastWake, W!ReadFails, W!At, W!node
  <2>3. FlagIsOld'
    BY <1>0, <1>2, NeverIsLater, WaitAssumption DEF WaitTypes, Waits, InBounds, FlagIsOld, W!ReadFails, W!At, W!node
  <2>4. Sure'
    BY <1>0, <1>2, NeverIsLater, WaitAssumption DEF WaitTypes, Waits, InBounds, FlagIsOld, Sure, W!Checks, W!ReadFails, W!At, W!node
  <2>5. QED
    BY <2>1, <2>2, <2>3, <2>4 DEF WaitInv
<1>3. CASE W!Judge
  <2>1. WaitTypes'
    <3>1. UNCHANGED <<reach, flag, age, check, wasDown>>
      BY <1>3 DEF W!Judge, W!node
    <3>2. CASE W!InTime
      <4>1. wait' = [wait EXCEPT !.pc = "sleep", !.wake = wait.now + Interval]
        BY <1>3, <3>2 DEF W!Judge
      <4>2. wait.now + Interval \in 0..(W!Never - 1)
        BY <1>0, <3>2, WaitAssumption DEF WaitTypes, Waits, W!InTime, W!Never
      <4>3. wait' \in Waits
        BY <1>0, <4>1, <4>2 DEF WaitTypes, Waits
      <4>4. QED
        BY <1>0, <3>1, <4>3 DEF WaitTypes
    <3>3. CASE ~W!InTime
      <4>1. PICK x \in W!Readings : wait' = W!Result(wait, x)
        BY <1>0, <1>3, <3>3 DEF W!Judge, WaitTypes, Waits
      <4>2. wait' \in Waits
        BY <1>0, <4>1, ResultTyped DEF WaitTypes
      <4>3. QED
        BY <1>0, <3>1, <4>2 DEF WaitTypes
    <3>4. QED
      BY <3>2, <3>3
  <2>2. InBounds'
    <3>1. wait.pc = "judge" /\ wait.now \in Nat /\ wait.now <= LastWake + 1 /\ ~wait.late
      BY <1>0, <1>3 DEF W!Judge, W!At, WaitTypes, Waits, InBounds
    <3>2. CASE W!InTime
      <4>1. wait' = [wait EXCEPT !.pc = "sleep", !.wake = wait.now + Interval]
        BY <1>3, <3>2 DEF W!Judge
      <4>2. /\ wait'.pc = "sleep" /\ wait'.wake = wait.now + Interval
            /\ wait'.now = wait.now /\ wait'.late = wait.late
        BY <1>0, <4>1 DEF WaitTypes, Waits
      <4>3. wait.now < Timeout + Confirm
        BY <3>1, <3>2, WaitAssumption DEF W!InTime
      <4>4. QED
        BY <3>1, <4>2, <4>3, WaitAssumption DEF InBounds, LastWake
    <3>3. CASE ~W!InTime
      <4>1. PICK x \in W!Readings : wait' = W!Result(wait, x)
        BY <1>0, <1>3, <3>3 DEF W!Judge, WaitTypes, Waits
      <4>2. wait'.pc = "over" /\ wait'.now = wait.now
        BY <1>0, <4>1 DEF WaitTypes, Waits, W!Result
      <4>3. QED
        BY <3>1, <4>2 DEF InBounds
    <3>4. QED
      BY <3>2, <3>3
  <2>3. FlagIsOld'
    BY <1>0, <1>3, NeverIsLater, WaitAssumption DEF WaitTypes, Waits, InBounds, FlagIsOld, W!Judge, W!At, W!node, W!InTime, W!Pending, W!Result, W!CodeOf, W!Listed, W!NeedsFix
  <2>4. Sure'
    BY <1>0, <1>3, NeverIsLater, WaitAssumption DEF WaitTypes, Waits, InBounds, FlagIsOld, Sure, W!Checks, W!Judge, W!At, W!node, W!InTime, W!Pending, W!Result, W!CodeOf, W!Listed, W!NeedsFix
  <2>5. QED
    BY <2>1, <2>2, <2>3, <2>4 DEF WaitInv
<1>4. CASE W!WakeUp
  <2>1. WaitTypes'
    <3>1. wait' = [wait EXCEPT !.pc = "read", !.wake = 0] /\ UNCHANGED <<reach, flag, age, check, wasDown>>
      BY <1>4 DEF W!WakeUp, W!node
    <3>2. 0 \in 0..(W!Never - 1)
      BY NeverIsLater
    <3>3. wait' \in Waits
      BY <1>0, <3>1, <3>2 DEF WaitTypes, Waits
    <3>4. QED
      BY <1>0, <3>1, <3>3 DEF WaitTypes
  <2>2. InBounds'
    BY <1>0, <1>4, NeverIsLater, WaitAssumption DEF WaitTypes, Waits, InBounds, LastWake, W!WakeUp, W!At, W!node
  <2>3. FlagIsOld'
    BY <1>0, <1>4, NeverIsLater, WaitAssumption DEF WaitTypes, Waits, InBounds, FlagIsOld, W!WakeUp, W!At, W!node
  <2>4. Sure'
    BY <1>0, <1>4, NeverIsLater, WaitAssumption DEF WaitTypes, Waits, InBounds, FlagIsOld, Sure, W!Checks, W!WakeUp, W!At, W!node
  <2>5. QED
    BY <2>1, <2>2, <2>3, <2>4 DEF WaitInv
<1>5. CASE W!Start
  <2>1. WaitTypes'
    BY <1>0, <1>5, NeverIsLater, WaitAssumption DEF WaitTypes, Waits, InBounds, W!Readings, W!Checks, W!Start, W!At, W!node
  <2>2. InBounds'
    <3>1. wait.pc = "idle" /\ wait' = [wait EXCEPT !.pc = "read"]
      BY <1>5 DEF W!Start, W!At
    <3>2. wait'.pc = "read" /\ wait'.now = 0 /\ ~wait'.late
      BY <1>0, <3>1 DEF InBounds, W!NoWait
    <3>3. QED
      BY <3>2, NeverIsLater DEF InBounds
  <2>3. FlagIsOld'
    <3>1. wait.pc = "idle" /\ wasDown' = ~reach' /\ age' \in 0..(Confirm - 1) /\ wait' = [wait EXCEPT !.pc = "read"]
      BY <1>5 DEF W!Start, W!At
    <3>2. wait'.now = 0
      BY <1>0, <3>1 DEF InBounds, W!NoWait
    <3>3. age' >= 0
      BY <3>1, WaitAssumption
    <3>4. ~reach' => wasDown'
      BY <3>1
    <3>5. wait'.now <= age'
      BY <3>2, <3>3
    <3>6. QED
      BY <3>4, <3>5 DEF FlagIsOld
  <2>4. Sure'
    <3>1. wait.pc = "idle" /\ wait' = [wait EXCEPT !.pc = "read"]
      BY <1>5 DEF W!Start, W!At
    <3>2. ~wait'.sure /\ wait'.settled = "UNKNOWN" /\ wait'.last = "UNKNOWN" /\ wait'.final = "UNKNOWN"
      BY <1>0, <3>1 DEF InBounds, W!NoWait
    <3>3. QED
      BY <3>2 DEF Sure
  <2>5. QED
    BY <2>1, <2>2, <2>3, <2>4 DEF WaitInv
<1>6. CASE W!NodeFlips
  <2>1. WaitTypes'
    BY <1>0, <1>6, NeverIsLater, WaitAssumption DEF WaitTypes, Waits, InBounds, W!Readings, W!Checks, W!NodeFlips, W!At, W!node, W!Waiting
  <2>2. InBounds'
    BY <1>0, <1>6, NeverIsLater, WaitAssumption DEF WaitTypes, Waits, InBounds, LastWake, W!NodeFlips, W!At, W!node, W!Waiting
  <2>3. FlagIsOld'
    BY <1>0, <1>6, NeverIsLater, WaitAssumption DEF WaitTypes, Waits, InBounds, FlagIsOld, W!NodeFlips, W!At, W!node, W!Waiting
  <2>4. Sure'
    BY <1>0, <1>6, NeverIsLater, WaitAssumption DEF WaitTypes, Waits, InBounds, FlagIsOld, Sure, W!Checks, W!NodeFlips, W!At, W!node, W!Waiting
  <2>5. QED
    BY <2>1, <2>2, <2>3, <2>4 DEF WaitInv
<1>7. CASE W!Validator
  <2>1. WaitTypes'
    BY <1>0, <1>7, NeverIsLater, WaitAssumption DEF WaitTypes, Waits, InBounds, W!Readings, W!Checks, W!Validator, W!At, W!node
  <2>2. InBounds'
    BY <1>0, <1>7, NeverIsLater, WaitAssumption DEF WaitTypes, Waits, InBounds, LastWake, W!Validator, W!At, W!node
  <2>3. FlagIsOld'
    BY <1>0, <1>7, NeverIsLater, WaitAssumption DEF WaitTypes, Waits, InBounds, FlagIsOld, W!Validator, W!At, W!node
  <2>4. Sure'
    BY <1>0, <1>7, NeverIsLater, WaitAssumption DEF WaitTypes, Waits, InBounds, FlagIsOld, Sure, W!Checks, W!Validator, W!At, W!node
  <2>5. QED
    BY <2>1, <2>2, <2>3, <2>4 DEF WaitInv
<1>8. CASE W!Tick
  <2>1. WaitTypes'
    <3>1. /\ age' \in 0..(Confirm - 1) /\ flag' \in BOOLEAN /\ UNCHANGED <<reach, check, wasDown>>
      BY <1>0, <1>8, WaitAssumption DEF WaitTypes, W!Tick
    <3>2. wait' = [wait EXCEPT !.now = W!Earlier(wait.now + 1, W!Never), !.late = W!At("read")]
      BY <1>8 DEF W!Tick
    <3>3. wait.now \in Nat /\ wait.now + 1 \in 0..(W!Never - 1) /\ W!Earlier(wait.now + 1, W!Never) = wait.now + 1
      BY <1>0, <1>8, NeverIsLater, WaitAssumption DEF WaitTypes, Waits, InBounds, W!Tick, W!At, W!Earlier
    <3>4. W!At("read") \in BOOLEAN
      BY DEF W!At
    <3>5. wait' \in Waits
      BY <1>0, <3>2, <3>3, <3>4 DEF WaitTypes, Waits
    <3>6. QED
      BY <1>0, <3>1, <3>5 DEF WaitTypes
  <2>2. InBounds'
    <3>1. wait' = [wait EXCEPT !.now = W!Earlier(wait.now + 1, W!Never), !.late = W!At("read")]
      BY <1>8 DEF W!Tick
    <3>2. wait.now \in Nat /\ wait.wake \in Nat /\ W!Earlier(wait.now + 1, W!Never) = wait.now + 1
      BY <1>0, <1>8, NeverIsLater, WaitAssumption DEF WaitTypes, Waits, InBounds, W!Tick, W!At, W!Earlier
    <3>3. /\ wait'.pc = wait.pc /\ wait'.now = wait.now + 1 /\ wait'.wake = wait.wake
          /\ wait'.late = (wait.pc = "read")
      BY <1>0, <3>1, <3>2 DEF WaitTypes, Waits, W!At
    <3>4. (wait.pc = "sleep" /\ wait.now < wait.wake) \/ (wait.pc = "read" /\ ~wait.late)
      BY <1>8 DEF W!Tick, W!At
    <3>5. CASE wait.pc = "sleep" /\ wait.now < wait.wake
      <4>1. wait'.pc = "sleep" /\ ~wait'.late
        BY <3>3, <3>5
      <4>2. wait'.wake <= LastWake /\ wait'.now <= wait'.wake
        BY <1>0, <3>2, <3>3, <3>5 DEF InBounds
      <4>3. QED
        BY <4>1, <4>2 DEF InBounds
    <3>6. CASE wait.pc = "read" /\ ~wait.late
      <4>1. wait'.pc = "read" /\ wait'.late
        BY <3>3, <3>6
      <4>2. wait.now <= LastWake
        BY <1>0, <3>6 DEF InBounds
      <4>3. wait'.now <= LastWake + 1
        BY <3>2, <3>3, <4>2, NeverIsLater
      <4>4. QED
        BY <4>1, <4>3 DEF InBounds
    <3>7. QED
      BY <3>4, <3>5, <3>6
  <2>3. FlagIsOld'
    BY <1>0, <1>8, NeverIsLater, WaitAssumption DEF WaitTypes, Waits, InBounds, FlagIsOld, W!Tick, W!At, W!node, W!Earlier
  <2>4. Sure'
    BY <1>0, <1>8, NeverIsLater, WaitAssumption DEF WaitTypes, Waits, InBounds, FlagIsOld, Sure, W!Checks, W!Tick, W!At, W!node, W!Earlier
  <2>5. QED
    BY <2>1, <2>2, <2>3, <2>4 DEF WaitInv
<1>9. CASE UNCHANGED W!vars
  BY <1>0, <1>9 DEF W!vars, WaitInv, WaitTypes, InBounds, FlagIsOld, Sure
<1>10. QED
  BY <1>1, <1>2, <1>3, <1>4, <1>5, <1>6, <1>7, <1>8, <1>9 DEF W!Next, W!Step

LEMMA WaitSafety == Spec => []WaitInv
<1>1. Init => WaitInv
  BY WaitInit DEF Init
<1>2. WaitInv /\ [Next]_vars => WaitInv'
  BY WaitSteps, WaitStep
<1>3. QED
  BY <1>1, <1>2, PTL DEF Spec

\* mine --register: a wait that ends in OFFLINE is about a node that was down during it.
THEOREM OfflineIsSeen == Spec => []OfflineWasSeen
<1>1. WaitInv => OfflineWasSeen
  BY DEF WaitInv, Sure, OfflineWasSeen, W!OfflineWasSeen
<1>2. QED
  BY <1>1, WaitSafety, PTL

-----------------------------------------------------------------------------
(* Workspaces.                                                             *)

LEMMA TeamSteps == [Next]_vars => [S!Next]_(S!vars)
  BY DEF Next, vars, S!vars, teams

Sections == [id : Ids \cup {Nothing}, key : Ids \cup {Nothing}]
Inis     == [section : [Names -> Sections], active : Names \cup {Nothing}, api : Ids \cup {Nothing}]
Edits ==
  [what : {"section"}, name : Names, value : {Nothing}] \cup [what : {"id", "key"}, name : Names, value : Ids]
  \cup [what : {"active"}, name : {Nothing}, value : Names \cup {Nothing}]
  \cup [what : {"api"}, name : {Nothing}, value : {Home}]
Processes ==
  [pc : {"idle", "load", "check", "act", "target", "section", "mint", "write"}, kind : S!Kinds,
   asked : Names \cup {Nothing}, env : Ids \cup {Nothing}, settings : Inis, stale : BOOLEAN,
   key : Ids \cup {Nothing}, named : Names \cup {Nothing}, id : Ids \cup {Nothing},
   target : Ids \cup {Nothing}, as : Names \cup {Nothing}, todo : Seq(Edits), open : BOOLEAN,
   meant : Ids \cup {Nothing}, byName : BOOLEAN]

TeamTypes ==
  /\ name \in [Ids -> Names \cup {Nothing, Deleted}]
  /\ file \in Inis /\ whole \in Inis
  /\ meant \in [Names -> Ids \cup {Nothing}]
  /\ overlap \in BOOLEAN
  /\ proc \in [Procs -> Processes]

\* A process whose copy is not stale has what was last written, and what it is about to write.
CopyIsWhole(r, w) ==
  /\ r.open => r.pc = "write"
  /\ r.pc \in {"load", "target", "section", "mint", "write"} /\ ~r.stale
     => r.settings = IF r.open THEN S!Changed(w, Head(r.todo)) ELSE w

\* A section is changed only while it has no id or the workspace's own.
Allowed(todo, target, s) ==
  \A i \in 1..Len(todo) :
    /\ todo[i].what \in {"section", "id", "key"} => s.section[todo[i].name].id \in {Nothing, target}
    /\ todo[i].what = "id" => todo[i].value = target

Rewrites(r, w) ==
  /\ r.pc \in {"target", "section", "mint"} => r.kind # "act"
  /\ r.pc \in {"section", "mint"} /\ r.kind \in {"keys", "use", "delete"} => r.target \in Ids /\ r.as \in Names
  /\ r.pc = "mint" /\ r.kind = "keys" => r.settings.section[r.as].id \in {Nothing, r.target}
  /\ r.pc = "write"
     => /\ r.todo # <<>>
        /\ Allowed(r.todo, r.target, r.settings)
        /\ ~r.stale => Allowed(r.todo, r.target, w)

\* A command with -w goes by the id that was saved with the key, which is the workspace that the
\* name was last made of.
Intends(r, ov) ==
  /\ r.pc \in {"check", "act"} /\ r.asked # Nothing => r.named = r.asked /\ (ov \/ r.id = r.meant)
  /\ r.pc = "act" /\ r.asked # Nothing => IF r.id # Nothing THEN r.key = r.id ELSE r.byName

ProcessOk(r, w, ov) == CopyIsWhole(r, w) /\ Rewrites(r, w) /\ Intends(r, ov)

TeamInv ==
  /\ TeamTypes
  /\ file \in {whole, S!Empty}
  /\ overlap \/ \A n \in Names : whole.section[n].id = meant[n]
  /\ \A p \in Procs : ProcessOk(proc[p], whole, overlap)

-----------------------------------------------------------------------------
(* Edits of the file.                                                      *)

LEMMA EmptyTyped == S!Empty \in Inis /\ \A n \in Names : S!Empty.section[n] = S!NoSection
  BY DEF S!Empty, S!NoSection, Inis, Sections

LEMMA ChangedIs ==
  ASSUME NEW s \in Inis, NEW e \in Edits
  PROVE  /\ S!Changed(s, e) \in Inis
         /\ \A n \in Names :
              /\ e.what \in {"active", "api"} \/ n # e.name => S!Changed(s, e).section[n] = s.section[n]
              /\ e.what = "key" => S!Changed(s, e).section[n].id = s.section[n].id
              /\ e.what = "id" /\ n = e.name => S!Changed(s, e).section[n].id = e.value
              /\ e.what = "section" /\ n = e.name => S!Changed(s, e).section[n].id = Nothing
<1>1. CASE e.what = "section"
  <2>1. e.name \in Names /\ S!Changed(s, e) = [s EXCEPT !.section[e.name] = S!NoSection]
    BY <1>1 DEF Edits, S!Changed
  <2>2. S!NoSection \in Sections /\ S!NoSection.id = Nothing
    BY DEF S!NoSection, Sections
  <2>3. QED
    BY <1>1, <2>1, <2>2 DEF Inis
<1>2. CASE e.what = "id"
  <2>1. e.name \in Names /\ e.value \in Ids /\ S!Changed(s, e) = [s EXCEPT !.section[e.name].id = e.value]
    BY <1>2 DEF Edits, S!Changed
  <2>2. QED
    BY <1>2, <2>1 DEF Inis, Sections
<1>3. CASE e.what = "key"
  <2>1. e.name \in Names /\ e.value \in Ids /\ S!Changed(s, e) = [s EXCEPT !.section[e.name].key = e.value]
    BY <1>3 DEF Edits, S!Changed
  <2>2. QED
    BY <1>3, <2>1 DEF Inis, Sections
<1>4. CASE e.what = "active"
  <2>1. e.value \in Names \cup {Nothing} /\ S!Changed(s, e) = [s EXCEPT !.active = e.value]
    BY <1>4 DEF Edits, S!Changed
  <2>2. QED
    BY <1>4, <2>1 DEF Inis
<1>5. CASE e.what = "api"
  <2>1. e.value \in Ids /\ S!Changed(s, e) = [s EXCEPT !.api = e.value]
    BY <1>5, NameAssumption DEF Edits, S!Changed
  <2>2. QED
    BY <1>5, <2>1 DEF Inis
<1>6. QED
  BY <1>1, <1>2, <1>3, <1>4, <1>5 DEF Edits

\* An edit that is allowed leaves the others allowed.
LEMMA ChangedAllows ==
  ASSUME NEW s \in Inis, NEW todo \in Seq(Edits), NEW target, Allowed(todo, target, s),
         NEW j \in 1..Len(todo)
  PROVE  Allowed(todo, target, S!Changed(s, todo[j]))
<1>1. \A i \in 1..Len(todo) : todo[i] \in Edits
  OBVIOUS
<1>2. ASSUME NEW i \in 1..Len(todo), todo[i].what \in {"section", "id", "key"}
      PROVE  S!Changed(s, todo[j]).section[todo[i].name].id \in {Nothing, target}
  <2>1. todo[i].name \in Names /\ s.section[todo[i].name].id \in {Nothing, target}
    BY <1>1, <1>2 DEF Allowed, Edits
  <2>2. todo[j].what = "id" => todo[j].value = target
    BY DEF Allowed
  <2>3. todo[j].what \in {"section", "id", "key", "active", "api"}
    BY <1>1 DEF Edits
  <2>4. QED
    BY <1>1, <2>1, <2>2, <2>3, ChangedIs
<1>3. QED
  BY <1>2 DEF Allowed

LEMMA ConcatAllowed ==
  ASSUME NEW s, NEW target, NEW one \in Seq(Edits), NEW two \in Seq(Edits),
         Allowed(one, target, s), Allowed(two, target, s)
  PROVE  one \o two \in Seq(Edits) /\ Allowed(one \o two, target, s)
<1>1. \A i \in 1..Len(one \o two) :
        \/ i \in 1..Len(one) /\ (one \o two)[i] = one[i]
        \/ i - Len(one) \in 1..Len(two) /\ (one \o two)[i] = two[i - Len(one)]
  OBVIOUS
<1>2. QED
  BY <1>1 DEF Allowed

LEMMA CountIsTheirs == \A T : S!Cardinality(T) = Cardinality(T)
  BY DEF S!Cardinality, Cardinality

LEMMA InOrder ==
  ASSUME NEW T, IsFiniteSet(T)
  PROVE  S!SetToSeq(T) \in [1..Cardinality(T) -> T] /\ Cardinality(T) \in Nat
<1>1. PICK f \in [1..Cardinality(T) -> T] : S!IsInjective(f)
  <2>1. ExistsBijection(1..Cardinality(T), T)
    BY FS_CardinalityType
  <2>2. QED
    BY <2>1 DEF ExistsBijection, Bijection, Injection, IsInjective, S!IsInjective
<1>2. QED
  BY <1>1, CountIsTheirs, FS_CardinalityType DEF S!SetToSeq

LEMMA MakeActiveAllowed ==
  ASSUME NEW n \in Names \cup {Nothing}, NEW target, NEW s
  PROVE  S!MakeActive(n) \in Seq(Edits) /\ S!MakeActive(n) # <<>> /\ Allowed(S!MakeActive(n), target, s)
<1> DEFINE e == [what |-> "active", name |-> Nothing, value |-> n]
<1>1. S!MakeActive(n) = <<e>> /\ e \in Edits /\ e.what = "active"
  BY DEF S!MakeActive, S!Edit, Edits
<1> HIDE DEF e
<1>2. QED
  BY <1>1 DEF Allowed

LEMMA SaveKeyAllowed ==
  ASSUME NEW p \in Procs, proc[p].as \in Names, proc[p].target \in Ids, NEW s,
         s.section[proc[p].as].id \in {Nothing, proc[p].target}
  PROVE  S!SaveKey(p) \in Seq(Edits) /\ S!SaveKey(p) # <<>> /\ Allowed(S!SaveKey(p), proc[p].target, s)
<1> DEFINE e == [what |-> "id", name |-> proc[p].as, value |-> proc[p].target]
           f == [what |-> "key", name |-> proc[p].as, value |-> proc[p].target]
<1>1. /\ S!SaveKey(p) = <<e, f>> /\ e \in Edits /\ f \in Edits
      /\ e.what = "id" /\ e.name = proc[p].as /\ e.value = proc[p].target
      /\ f.what = "key" /\ f.name = proc[p].as
  BY DEF S!SaveKey, S!Edit, Edits
<1> HIDE DEF e, f
<1>2. QED
  BY <1>1 DEF Allowed

LEMMA ForgetAllowed ==
  ASSUME NEW p \in Procs, proc[p] \in Processes, proc[p].target \in Ids
  PROVE  S!Forget(p) \in Seq(Edits) /\ Allowed(S!Forget(p), proc[p].target, proc[p].settings)
<1> DEFINE s == proc[p].settings
           those == {n \in S!Gone(p) : s.section[n] # S!NoSection}
           there == S!SetToSeq(those)
           one == [i \in DOMAIN there |-> S!Edit("section", there[i], Nothing)]
           two == IF s.active \in S!Gone(p) THEN S!MakeActive(Nothing) ELSE <<>>
<1>1. \A n \in S!Gone(p) : n \in Names /\ s.section[n].id \in {Nothing, proc[p].target}
  BY DEF S!Gone
<1>2. IsFiniteSet(those)
  BY <1>1, NameAssumption, FS_Subset
<1>3. \E k \in Nat : there \in [1..k -> those]
  BY <1>2, InOrder
<1> HIDE DEF those, there
<1>4. \A i \in DOMAIN there : there[i] \in Names /\ s.section[there[i]].id \in {Nothing, proc[p].target}
  BY <1>1, <1>3 DEF those
<1>5. \A i \in DOMAIN one : one[i] \in Edits /\ one[i].what = "section" /\ one[i].name = there[i]
  BY <1>4 DEF S!Edit, Edits
<1>6. one \in Seq(Edits)
  BY <1>3, <1>5
<1>7. Allowed(one, proc[p].target, s)
  <2>1. DOMAIN one = 1..Len(one) /\ DOMAIN one = DOMAIN there
    BY <1>6
  <2>2. QED
    BY <1>4, <1>5, <2>1 DEF Allowed
<1>8. two \in Seq(Edits) /\ Allowed(two, proc[p].target, s)
  <2>1. <<>> \in Seq(Edits) /\ Allowed(<<>>, proc[p].target, s)
    BY DEF Allowed
  <2>2. S!MakeActive(Nothing) \in Seq(Edits) /\ Allowed(S!MakeActive(Nothing), proc[p].target, s)
    BY MakeActiveAllowed
  <2>3. QED
    BY <2>1, <2>2
<1>9. S!Forget(p) = one \o two
  BY DEF S!Forget, there, those
<1> HIDE DEF one, two
<1>10. QED
  BY <1>6, <1>7, <1>8, <1>9, ConcatAllowed

-----------------------------------------------------------------------------
(* Processes.                                                              *)

LEMMA NoProcIsOne ==
  S!NoProc \in Processes /\ \A w, ov : \A r \in Processes : r.pc = "idle" /\ ~r.open => ProcessOk(r, w, ov)
<1>1. S!NoProc \in Processes
  BY EmptyTyped DEF S!NoProc, S!Kinds, Processes
<1>2. QED
  BY <1>1 DEF ProcessOk, CopyIsWhole, Rewrites, Intends

LEMMA NoProcIsOk == \A w, ov : ProcessOk(S!NoProc, w, ov)
<1>1. S!NoProc.pc = "idle" /\ ~S!NoProc.open
  BY DEF S!NoProc
<1>2. QED
  BY <1>1, NoProcIsOne

\* A process that others have written behind goes on with what it has.
LEMMA StaledIsOk ==
  ASSUME NEW r \in Processes, NEW w, NEW ov, ProcessOk(r, w, ov), NEW w2, NEW ov2, ov => ov2
  PROVE  [r EXCEPT !.stale = TRUE] \in Processes /\ ProcessOk([r EXCEPT !.stale = TRUE], w2, ov2)
<1> DEFINE t == [r EXCEPT !.stale = TRUE]
<1>1. /\ t \in Processes /\ t.stale
      /\ t.pc = r.pc /\ t.kind = r.kind /\ t.asked = r.asked /\ t.settings = r.settings /\ t.key = r.key
      /\ t.named = r.named /\ t.id = r.id /\ t.target = r.target /\ t.as = r.as /\ t.todo = r.todo
      /\ t.open = r.open /\ t.meant = r.meant /\ t.byName = r.byName
  BY DEF Processes
<1> HIDE DEF t
<1>2. ProcessOk(t, w2, ov2)
  BY <1>1 DEF ProcessOk, CopyIsWhole, Rewrites, Intends
<1>3. QED
  BY <1>1, <1>2 DEF t

\* A step that changes one process and leaves the file.
LEMMA OneProcess ==
  ASSUME TeamInv, NEW p \in Procs, NEW r \in Processes, proc' = [proc EXCEPT ![p] = r],
         UNCHANGED <<file, whole, meant, overlap>>, name' \in [Ids -> Names \cup {Nothing, Deleted}],
         ProcessOk(r, whole, overlap)
  PROVE  TeamInv'
<1>1. \A q \in Procs : proc'[q] = IF q = p THEN r ELSE proc[q]
  BY DEF TeamInv, TeamTypes
<1>2. TeamTypes'
  BY DEF TeamInv, TeamTypes
<1>3. \A q \in Procs : ProcessOk(proc'[q], whole, overlap)
  BY <1>1 DEF TeamInv
<1>4. QED
  BY <1>2, <1>3 DEF TeamInv

LEMMA ProcessEnds ==
  ASSUME TeamInv, NEW p \in Procs, S!Over(p), UNCHANGED <<file, whole, meant, overlap, name>>
  PROVE  TeamInv'
<1>1. proc' = [proc EXCEPT ![p] = S!NoProc]
  BY DEF S!Over
<1>2. name' \in [Ids -> Names \cup {Nothing, Deleted}]
  BY DEF TeamInv, TeamTypes
<1>3. QED
  BY <1>1, <1>2, NoProcIsOne, NoProcIsOk, OneProcess

\* What is decided to be written.
LEMMA WriteKeeps ==
  ASSUME TeamInv, NEW p \in Procs, NEW todo \in Seq(Edits), S!Write(p, todo),
         proc[p].pc \in {"section", "mint"}, Allowed(todo, proc[p].target, proc[p].settings),
         UNCHANGED <<file, whole, meant, overlap>>, name' \in [Ids -> Names \cup {Nothing, Deleted}]
  PROVE  TeamInv'
<1>1. proc[p] \in Processes /\ ProcessOk(proc[p], whole, overlap)
  BY DEF TeamInv, TeamTypes
<1>2. CASE todo = <<>>
  <2>1. proc' = [proc EXCEPT ![p] = S!NoProc]
    BY <1>2 DEF S!Write
  <2>2. QED
    BY <2>1, NoProcIsOne, NoProcIsOk, OneProcess
<1>3. CASE todo # <<>>
  <2> DEFINE r == [S!NoProc EXCEPT !.pc = "write", !.todo = todo, !.settings = proc[p].settings,
                                   !.stale = proc[p].stale, !.target = proc[p].target]
  <2>1. proc' = [proc EXCEPT ![p] = r]
    BY <1>3 DEF S!Write
  <2>2. r \in Processes
    <3>1. proc[p].settings \in Inis /\ proc[p].stale \in BOOLEAN /\ proc[p].target \in Ids \cup {Nothing}
      BY <1>1 DEF Processes
    <3>2. QED
      BY <3>1, NoProcIsOne DEF Processes
  <2>3. /\ r.pc = "write" /\ r.todo = todo /\ r.settings = proc[p].settings /\ r.stale = proc[p].stale
        /\ r.target = proc[p].target /\ r.open = FALSE
    BY DEF S!NoProc
  <2> HIDE DEF r
  <2>4. ~proc[p].stale => proc[p].settings = whole
    BY <1>1 DEF ProcessOk, CopyIsWhole
  <2>5. ProcessOk(r, whole, overlap)
    BY <1>3, <2>3, <2>4 DEF ProcessOk, CopyIsWhole, Rewrites, Intends
  <2>6. QED
    BY <2>1, <2>2, <2>5, OneProcess
<1>4. QED
  BY <1>2, <1>3

LEMMA TeamInit == S!Init => TeamInv
<1> SUFFICES ASSUME S!Init PROVE TeamInv
  OBVIOUS
<1>1. name \in [Ids -> Names \cup {Nothing, Deleted}]
  <2> DEFINE first == CHOOSE n \in Names : TRUE
  <2>1. first \in Names
    BY NameAssumption
  <2>2. name = [i \in Ids |-> IF i = Home THEN first ELSE Nothing]
    BY DEF S!Init
  <2> HIDE DEF first
  <2>3. QED
    BY <2>1, <2>2
<1>2. file \in Inis /\ whole = file /\ \A n \in Names : whole.section[n].id = Nothing
  BY EmptyTyped, NameAssumption DEF S!Init, Inis, S!NoSection
<1>3. TeamTypes
  BY <1>1, <1>2, NoProcIsOne DEF S!Init, TeamTypes
<1>4. \A p \in Procs : proc[p] = S!NoProc
  BY DEF S!Init
<1>5. QED
  BY <1>2, <1>3, <1>4, NoProcIsOk DEF TeamInv, S!Init

-----------------------------------------------------------------------------
(* Steps.                                                                  *)

LEMMA TeamStep == TeamInv /\ [S!Next]_(S!vars) => TeamInv'
<1> SUFFICES ASSUME TeamInv, [S!Next]_(S!vars) PROVE TeamInv'
  OBVIOUS
<1>0. /\ TeamTypes /\ file \in {whole, S!Empty}
      /\ overlap \/ \A n \in Names : whole.section[n].id = meant[n]
      /\ \A q \in Procs : proc[q] \in Processes /\ ProcessOk(proc[q], whole, overlap)
  BY DEF TeamInv, TeamTypes
<1>a. name \in [Ids -> Names \cup {Nothing, Deleted}]
  BY <1>0 DEF TeamTypes
<1>1. CASE UNCHANGED S!vars
  BY <1>0, <1>1 DEF S!vars, TeamInv, TeamTypes
<1>2. ASSUME NEW p \in Procs, S!Begin(p) PROVE TeamInv'
  <2>1. PICK k \in S!Kinds, asked \in Names \cup {Nothing}, from \in Ids \cup {Nothing} :
          proc' = [proc EXCEPT ![p] = [S!NoProc EXCEPT !.pc = "load", !.kind = k, !.asked = asked, !.env = from,
                                                       !.settings = file, !.stale = file # whole]]
    BY <1>2, ZenonT(30) DEF S!Begin
  <2> DEFINE old == file # whole
             new == [S!NoProc EXCEPT !.pc = "load", !.kind = k, !.asked = asked, !.env = from,
                                     !.settings = file, !.stale = old]
  <2>2. old \in BOOLEAN /\ file \in Inis /\ (old = FALSE => file = whole)
    BY <1>0 DEF TeamTypes
  <2>3. proc' = [proc EXCEPT ![p] = new]
    BY <2>1
  <2> HIDE DEF old
  <2>4. new \in Processes
    BY <2>2, NoProcIsOne DEF Processes
  <2>5. new.pc = "load" /\ new.settings = file /\ new.stale = old /\ new.open = FALSE
    BY DEF S!NoProc
  <2> HIDE DEF new
  <2>6. ProcessOk(new, whole, overlap)
    BY <2>2, <2>5 DEF ProcessOk, CopyIsWhole, Rewrites, Intends
  <2>7. UNCHANGED <<file, whole, meant, overlap, name>>
    BY <1>2 DEF S!Begin, S!Server, S!Disk
  <2>8. QED
    BY <1>a, <2>3, <2>4, <2>6, <2>7, OneProcess
<1>3. ASSUME NEW p \in Procs, S!Load(p) PROVE TeamInv'
  <2>1. UNCHANGED <<file, whole, meant, overlap, name>> /\ proc[p].pc = "load"
    BY <1>3 DEF S!Load, S!At, S!Server, S!Disk
  <2> DEFINE old == proc[p]
             key == S!KeyFor(p)
             named == IF old.asked # Nothing THEN old.asked ELSE file.active
             id == IF named # Nothing /\ S!Saved(named) = key THEN file.section[named].id ELSE Nothing
             now == IF old.asked = Nothing THEN Nothing ELSE meant[old.asked]
  <2>2. /\ old \in Processes /\ old.asked \in Names \cup {Nothing} /\ old.env \in Ids \cup {Nothing}
        /\ file \in Inis /\ file.active \in Names \cup {Nothing} /\ file.api \in Ids \cup {Nothing}
    BY <1>0 DEF TeamTypes, Processes, Inis
  <2>3. \A n \in Names \cup {Nothing} : S!Saved(n) \in Ids \cup {Nothing}
    BY <2>2 DEF S!Saved, Inis, Sections
  <2>4. key \in Ids \cup {Nothing}
    BY <2>2, <2>3 DEF S!KeyFor, S!Or
  <2>5. named \in Names \cup {Nothing}
    BY <2>2
  <2>6. id \in Ids \cup {Nothing}
    BY <2>2, <2>5 DEF Inis, Sections
  <2>7. now \in Ids \cup {Nothing}
    BY <1>0, <2>2 DEF TeamTypes
  <2>8. CASE key = Nothing
    BY <1>3, <2>1, <2>8, ProcessEnds DEF S!Load
  <2>9. CASE key # Nothing /\ old.kind = "act"
    <3> DEFINE r == [S!NoProc EXCEPT !.pc = "check", !.asked = old.asked, !.key = key, !.named = named, !.id = id,
                                     !.meant = now]
    <3>1. proc' = [proc EXCEPT ![p] = r]
      BY <1>3, <2>9 DEF S!Load
    <3>2. old.asked # Nothing => named = old.asked /\ key = S!Saved(old.asked) /\ now = meant[old.asked]
      BY <2>9 DEF S!KeyFor
    <3>3. old.asked # Nothing => id = file.section[old.asked].id /\ file.section[old.asked].key # Nothing
      BY <2>9, <3>2 DEF S!Saved
    <3>4. old.asked # Nothing => file = whole
      BY <1>0, <2>2, <3>3, EmptyTyped DEF S!NoSection
    <3>5. old.asked # Nothing => overlap \/ id = now
      BY <1>0, <2>2, <3>2, <3>3, <3>4
    <3> HIDE DEF key, named, id, now
    <3>6. r \in Processes
      <4>1. old.asked \in Names \cup {Nothing}
        BY <2>2
      <4> HIDE DEF old
      <4>2. QED
        BY <2>4, <2>5, <2>6, <2>7, <4>1, NoProcIsOne DEF Processes
    <3>7. /\ r.pc = "check" /\ r.asked = old.asked /\ r.named = named /\ r.id = id /\ r.meant = now
          /\ r.open = FALSE
      BY DEF S!NoProc
    <3> HIDE DEF r
    <3>8. ProcessOk(r, whole, overlap)
      BY <3>2, <3>5, <3>7 DEF ProcessOk, CopyIsWhole, Rewrites, Intends
    <3>9. QED
      BY <1>a, <2>1, <3>1, <3>6, <3>8, OneProcess
  <2>10. CASE key # Nothing /\ old.kind # "act"
    <3> DEFINE next == IF old.kind \in {"create", "set"} THEN "section" ELSE "target"
               r == [old EXCEPT !.pc = next, !.key = key, !.named = named, !.env = Nothing]
    <3>1. proc' = [proc EXCEPT ![p] = r]
      BY <1>3, <2>10 DEF S!Load
    <3> HIDE DEF key, named
    <3>a. /\ next \in {"section", "target"}
          /\ next = "section" => old.kind \in {"create", "set"}
          /\ next = "target" => old.kind \notin {"create", "set"}
      OBVIOUS
    <3> HIDE DEF next
    <3>2. r \in Processes
      <4>1. old \in Processes
        BY <2>2
      <4> HIDE DEF old
      <4>2. QED
        BY <2>4, <2>5, <3>a, <4>1 DEF Processes
    <3>3. /\ r.pc = next /\ r.kind = old.kind /\ r.settings = old.settings /\ r.stale = old.stale
          /\ r.open = old.open /\ r.todo = old.todo
      BY <2>2 DEF Processes
    <3> HIDE DEF r
    <3>4. ProcessOk(old, whole, overlap)
      BY <1>0
    <3>5. ProcessOk(r, whole, overlap)
      BY <2>1, <2>10, <3>a, <3>3, <3>4 DEF ProcessOk, CopyIsWhole, Rewrites, Intends
    <3>6. QED
      BY <1>a, <2>1, <3>1, <3>2, <3>5, OneProcess
  <2>11. QED
    BY <2>8, <2>9, <2>10
<1>4. ASSUME NEW p \in Procs, S!Fails(p) \/ S!Act(p) \/ S!Kill(p) PROVE TeamInv'
  BY <1>4, ProcessEnds DEF S!Fails, S!Act, S!Kill, S!Server, S!Disk
<1>5. ASSUME NEW p \in Procs, S!ShowWorkspace(p) PROVE TeamInv'
  <2>1. UNCHANGED <<file, whole, meant, overlap, name>> /\ proc[p].pc = "check"
    BY <1>5 DEF S!ShowWorkspace, S!At, S!Server, S!Disk
  <2>2. CASE S!Refused(p)
    BY <1>5, <2>1, <2>2, ProcessEnds DEF S!ShowWorkspace
  <2>3. CASE ~S!Refused(p)
    <3> DEFINE same == name[proc[p].key] = proc[p].asked
               r == [proc[p] EXCEPT !.pc = "act", !.byName = same]
    <3>1. proc' = [proc EXCEPT ![p] = r]
      BY <1>0, <1>5, <2>3 DEF S!ShowWorkspace, TeamTypes
    <3>2. same \in BOOLEAN
      OBVIOUS
    <3>3. ProcessOk(proc[p], whole, overlap) /\ proc[p] \in Processes
      BY <1>0
    <3>4. proc[p].asked # Nothing
          => /\ proc[p].named = proc[p].asked
             /\ IF proc[p].id # Nothing THEN proc[p].key = proc[p].id ELSE same
      BY <2>1, <2>3, <3>3 DEF S!Refused, S!ActsElsewhere, ProcessOk, Intends
    <3> HIDE DEF same
    <3>5. r \in Processes
      BY <3>2, <3>3 DEF Processes
    <3>6. /\ r.pc = "act" /\ r.byName = same /\ r.asked = proc[p].asked /\ r.named = proc[p].named
          /\ r.id = proc[p].id /\ r.key = proc[p].key /\ r.meant = proc[p].meant /\ r.open = proc[p].open
      BY <3>3 DEF Processes
    <3> HIDE DEF r
    <3>7. ProcessOk(r, whole, overlap)
      BY <2>1, <3>3, <3>4, <3>6 DEF ProcessOk, CopyIsWhole, Rewrites, Intends
    <3>8. QED
      BY <1>a, <2>1, <3>1, <3>5, <3>7, OneProcess
  <2>4. QED
    BY <2>2, <2>3
<1>6. ASSUME NEW p \in Procs, S!NotShown(p) PROVE TeamInv'
  <2>1. UNCHANGED <<file, whole, meant, overlap, name>> /\ proc[p].pc = "check" /\ proc[p].asked = Nothing
    BY <1>6 DEF S!NotShown, S!At, S!Server, S!Disk
  <2> DEFINE r == [proc[p] EXCEPT !.pc = "act"]
  <2>2. proc' = [proc EXCEPT ![p] = r]
    BY <1>6 DEF S!NotShown, S!Go
  <2>3. proc[p] \in Processes /\ ProcessOk(proc[p], whole, overlap)
    BY <1>0
  <2>4. r \in Processes /\ r.pc = "act" /\ r.asked = Nothing /\ r.open = proc[p].open
    BY <2>1, <2>3 DEF Processes
  <2> HIDE DEF r
  <2>5. ProcessOk(r, whole, overlap)
    BY <2>1, <2>3, <2>4 DEF ProcessOk, CopyIsWhole, Rewrites, Intends
  <2>6. QED
    BY <1>a, <2>1, <2>2, <2>4, <2>5, OneProcess
<1>7. ASSUME NEW p \in Procs, S!Target(p) PROVE TeamInv'
  <2>1. UNCHANGED <<file, whole, meant, overlap, name>> /\ proc[p].pc = "target"
    BY <1>7 DEF S!Target, S!At, S!Server, S!Disk
  <2>2. PICK seen \in S!Visible(p) :
          \/ S!Over(p)
          \/ \E i \in S!FoundAs(p, seen) :
               proc' = [proc EXCEPT ![p].pc = "section", ![p].target = i, ![p].as = name[i]]
    BY <1>7 DEF S!Target
  <2>3. CASE S!Over(p)
    BY <2>1, <2>3, ProcessEnds
  <2>4. ASSUME NEW i \in S!FoundAs(p, seen), proc' = [proc EXCEPT ![p].pc = "section", ![p].target = i, ![p].as = name[i]]
        PROVE  TeamInv'
    <3>1. i \in Ids /\ name[i] \in Names
      <4>1. \A j \in seen : j \in Ids /\ name[j] \in Names
        BY <2>2 DEF S!Visible, S!Alive
      <4>2. i \in seen
        BY <2>4 DEF S!FoundAs
      <4>3. QED
        BY <4>1, <4>2
    <3> DEFINE r == [proc[p] EXCEPT !.pc = "section", !.target = i, !.as = name[i]]
    <3>2. proc' = [proc EXCEPT ![p] = r]
      BY <1>0, <2>4 DEF TeamTypes
    <3>3. proc[p] \in Processes /\ ProcessOk(proc[p], whole, overlap)
      BY <1>0
    <3>4. r \in Processes
      BY <3>1, <3>3 DEF Processes
    <3>5. /\ r.pc = "section" /\ r.kind = proc[p].kind /\ r.target = i /\ r.as = name[i] /\ r.settings = proc[p].settings
          /\ r.stale = proc[p].stale /\ r.open = proc[p].open /\ r.todo = proc[p].todo
      BY <3>3 DEF Processes
    <3> HIDE DEF r
    <3>6. ProcessOk(r, whole, overlap)
      BY <2>1, <3>1, <3>3, <3>5 DEF ProcessOk, CopyIsWhole, Rewrites, Intends
    <3>7. QED
      BY <1>a, <2>1, <3>2, <3>4, <3>6, OneProcess
  <2>5. QED
    BY <2>2, <2>3, <2>4
<1>8. ASSUME NEW p \in Procs, proc[p].pc = "section", S!Go(p, "mint"), UNCHANGED <<file, whole, meant, overlap, name>>,
             proc[p].kind = "keys" => proc[p].settings.section[proc[p].as].id \in {Nothing, proc[p].target}
      PROVE  TeamInv'
  <2> DEFINE r == [proc[p] EXCEPT !.pc = "mint"]
  <2>1. proc' = [proc EXCEPT ![p] = r]
    BY <1>8 DEF S!Go
  <2>2. proc[p] \in Processes /\ ProcessOk(proc[p], whole, overlap)
    BY <1>0
  <2>3. /\ r \in Processes /\ r.pc = "mint" /\ r.kind = proc[p].kind /\ r.target = proc[p].target
        /\ r.as = proc[p].as /\ r.settings = proc[p].settings /\ r.stale = proc[p].stale
        /\ r.open = proc[p].open /\ r.todo = proc[p].todo
    BY <2>2 DEF Processes
  <2> HIDE DEF r
  <2>4. ProcessOk(r, whole, overlap)
    BY <1>8, <2>2, <2>3 DEF ProcessOk, CopyIsWhole, Rewrites, Intends
  <2>5. QED
    BY <1>a, <1>8, <2>1, <2>3, <2>4, OneProcess
<1>9. ASSUME NEW p \in Procs, S!Section(p) PROVE TeamInv'
  <2>1. UNCHANGED <<file, whole, meant, overlap, name>> /\ proc[p].pc = "section"
    BY <1>9 DEF S!Section, S!At, S!Server, S!Disk
  <2>2. /\ proc[p].kind \in {"act", "keys", "use", "create", "delete", "set"}
        /\ proc[p].kind \in {"keys", "use", "delete"} => proc[p].target \in Ids /\ proc[p].as \in Names
    BY <1>0, <2>1 DEF Processes, S!Kinds, ProcessOk, Rewrites
  <2>3. CASE proc[p].kind \in {"delete", "keys", "create"}
    <3>1. S!Over(p) \/ (S!Go(p, "mint") /\ (proc[p].kind = "keys" => S!FreeSection(p, proc[p].as, proc[p].target)))
      BY <1>9, <2>3 DEF S!Section
    <3>2. QED
      BY <1>8, <2>1, <3>1, ProcessEnds DEF S!FreeSection
  <2>4. CASE proc[p].kind = "use"
    <3>1. CASE ~S!FreeSection(p, proc[p].as, proc[p].target)
      BY <1>9, <2>1, <2>4, <3>1, ProcessEnds DEF S!Section
    <3>2. CASE S!FreeSection(p, proc[p].as, proc[p].target)
      <4> DEFINE one == S!MakeActive(proc[p].as)
                 two == IF proc[p].key = proc[p].target THEN S!SaveKey(p) ELSE <<>>
      <4>1. S!Write(p, one \o two)
        BY <1>9, <2>4, <3>2 DEF S!Section
      <4>2. one \in Seq(Edits) /\ Allowed(one, proc[p].target, proc[p].settings)
        BY <2>2, <2>4, MakeActiveAllowed
      <4>3. S!SaveKey(p) \in Seq(Edits) /\ Allowed(S!SaveKey(p), proc[p].target, proc[p].settings)
        BY <2>2, <2>4, <3>2, SaveKeyAllowed DEF S!FreeSection
      <4>4. <<>> \in Seq(Edits) /\ Allowed(<<>>, proc[p].target, proc[p].settings)
        BY DEF Allowed
      <4>5. two \in Seq(Edits) /\ Allowed(two, proc[p].target, proc[p].settings)
        BY <4>3, <4>4
      <4> HIDE DEF one, two
      <4>6. one \o two \in Seq(Edits) /\ Allowed(one \o two, proc[p].target, proc[p].settings)
        BY <4>2, <4>5, ConcatAllowed
      <4>7. QED
        BY <1>a, <2>1, <4>1, <4>6, WriteKeeps
    <3>3. QED
      BY <3>1, <3>2
  <2>5. CASE proc[p].kind = "set"
    <3> DEFINE e == [what |-> "api", name |-> Nothing, value |-> Home]
    <3>1. S!Write(p, <<e>>)
      BY <1>9, <2>5 DEF S!Section, S!Edit
    <3>2. e \in Edits /\ e.what = "api"
      BY DEF Edits
    <3> HIDE DEF e
    <3>3. <<e>> \in Seq(Edits) /\ Allowed(<<e>>, proc[p].target, proc[p].settings)
      BY <3>2 DEF Allowed
    <3>4. QED
      BY <1>a, <2>1, <3>1, <3>3, WriteKeeps
  <2>6. CASE proc[p].kind = "act"
    BY <1>0, <2>1, <2>6 DEF ProcessOk, Rewrites
  <2>7. QED
    BY <2>2, <2>3, <2>4, <2>5, <2>6
<1>10. ASSUME NEW p \in Procs, S!Mint(p) \/ S!Delete(p) \/ S!Create(p) PROVE TeamInv'
  <2>1. UNCHANGED <<file, whole, meant, overlap>> /\ proc[p].pc = "mint"
    BY <1>10 DEF S!Mint, S!Delete, S!Create, S!At, S!Server, S!Disk
  <2>2. /\ proc[p] \in Processes /\ proc[p].asked \in Names \cup {Nothing}
        /\ proc[p].kind \in {"keys", "use", "delete"} => proc[p].target \in Ids /\ proc[p].as \in Names
        /\ proc[p].kind = "keys" => proc[p].settings.section[proc[p].as].id \in {Nothing, proc[p].target}
    BY <1>0, <2>1 DEF Processes, ProcessOk, Rewrites
  <2>3. CASE S!Mint(p)
    <3>1. proc[p].kind = "keys" /\ S!Write(p, S!SaveKey(p)) /\ name' = name
      BY <2>3 DEF S!Mint, S!Server
    <3>2. S!SaveKey(p) \in Seq(Edits) /\ Allowed(S!SaveKey(p), proc[p].target, proc[p].settings)
      BY <2>2, <3>1, SaveKeyAllowed
    <3>3. QED
      BY <1>a, <2>1, <3>1, <3>2, WriteKeeps
  <2>4. CASE S!Delete(p)
    <3>1. /\ proc[p].kind = "delete" /\ S!Write(p, S!Forget(p))
          /\ name' = [name EXCEPT ![proc[p].target] = Deleted]
      BY <2>4 DEF S!Delete
    <3>2. S!Forget(p) \in Seq(Edits) /\ Allowed(S!Forget(p), proc[p].target, proc[p].settings)
      BY <2>2, <3>1, ForgetAllowed
    <3>3. name' \in [Ids -> Names \cup {Nothing, Deleted}]
      BY <1>a, <3>1
    <3>4. QED
      BY <2>1, <3>1, <3>2, <3>3, WriteKeeps
  <2>5. CASE S!Create(p)
    <3>1. PICK i \in Ids : name' = [name EXCEPT ![i] = proc[p].asked]
      BY <2>5 DEF S!Create
    <3>2. S!Write(p, S!MakeActive(proc[p].asked))
      BY <2>5 DEF S!Create
    <3>3. S!MakeActive(proc[p].asked) \in Seq(Edits) /\ Allowed(S!MakeActive(proc[p].asked), proc[p].target, proc[p].settings)
      BY <2>2, MakeActiveAllowed
    <3>4. name' \in [Ids -> Names \cup {Nothing, Deleted}]
      BY <1>a, <2>2, <3>1
    <3>5. QED
      BY <2>1, <3>2, <3>3, <3>4, WriteKeeps
  <2>6. QED
    BY <1>10, <2>3, <2>4, <2>5
<1>b. ASSUME NEW p \in Procs, NEW r \in Processes, proc' = [S!Others(p) EXCEPT ![p] = r],
             NEW w, NEW ov, overlap => ov, ProcessOk(r, w, ov)
      PROVE  proc' \in [Procs -> Processes] /\ \A q \in Procs : ProcessOk(proc'[q], w, ov)
  <2>1. \A q \in Procs : q # p => proc'[q] = IF proc[q].pc = "idle" THEN proc[q] ELSE [proc[q] EXCEPT !.stale = TRUE]
    BY <1>b DEF S!Others, S!At
  <2>2. proc'[p] = r
    BY <1>b DEF S!Others
  <2>3. ASSUME NEW q \in Procs, q # p PROVE proc'[q] \in Processes /\ ProcessOk(proc'[q], w, ov)
    <3>1. proc[q] \in Processes /\ ProcessOk(proc[q], whole, overlap)
      BY <1>0
    <3>2. CASE proc[q].pc = "idle"
      <4>1. proc'[q] = proc[q]
        BY <2>1, <2>3, <3>2
      <4>2. ~proc[q].open
        BY <3>1, <3>2 DEF ProcessOk, CopyIsWhole
      <4>3. QED
        BY <3>1, <3>2, <4>1, <4>2, NoProcIsOne
    <3>3. CASE proc[q].pc # "idle"
      <4>1. proc'[q] = [proc[q] EXCEPT !.stale = TRUE]
        BY <2>1, <2>3, <3>3
      <4>2. QED
        BY <1>b, <3>1, <4>1, StaledIsOk
    <3>4. QED
      BY <3>2, <3>3
  <2>4. DOMAIN proc' = Procs /\ proc' = [q \in Procs |-> proc'[q]]
    BY <1>b DEF S!Others
  <2>5. \A q \in Procs : proc'[q] \in Processes /\ ProcessOk(proc'[q], w, ov)
    BY <1>b, <2>2, <2>3
  <2>6. proc' \in [Procs -> Processes]
    BY <2>4, <2>5
  <2>7. QED
    BY <2>5, <2>6
<1>c. ASSUME NEW p \in Procs, proc[p].pc = "write"
      PROVE  /\ proc[p] \in Processes /\ proc[p].settings \in Inis /\ proc[p].todo \in Seq(Edits) /\ proc[p].todo # <<>>
             /\ Head(proc[p].todo) \in Edits /\ Head(proc[p].todo) = proc[p].todo[1] /\ 1 \in 1..Len(proc[p].todo)
             /\ Allowed(proc[p].todo, proc[p].target, proc[p].settings)
             /\ ~proc[p].stale
                => /\ Allowed(proc[p].todo, proc[p].target, whole)
                   /\ proc[p].settings = IF proc[p].open THEN S!Changed(whole, Head(proc[p].todo)) ELSE whole
  <2>1. proc[p] \in Processes /\ ProcessOk(proc[p], whole, overlap)
    BY <1>0
  <2>2. proc[p].todo \in Seq(Edits) /\ proc[p].todo # <<>> /\ proc[p].settings \in Inis
    BY <1>c, <2>1 DEF Processes, ProcessOk, Rewrites
  <2>3. Head(proc[p].todo) \in Edits /\ Head(proc[p].todo) = proc[p].todo[1] /\ 1 \in 1..Len(proc[p].todo)
    BY <2>2
  <2>4. QED
    BY <1>c, <2>1, <2>2, <2>3 DEF ProcessOk, CopyIsWhole, Rewrites
<1>11. ASSUME NEW p \in Procs, S!Open(p) PROVE TeamInv'
  <2>1. /\ UNCHANGED <<name, whole, meant, overlap>> /\ file' = S!Empty
        /\ proc[p].pc = "write" /\ ~proc[p].open
    BY <1>11 DEF S!Open, S!At, S!Server
  <2> DEFINE e == Head(proc[p].todo)
             s2 == S!Changed(proc[p].settings, e)
             r == [proc[p] EXCEPT !.open = TRUE, !.settings = s2]
  <2>2. proc' = [S!Others(p) EXCEPT ![p] = r]
    <3>1. S!Others(p)[p] = proc[p]
      BY DEF S!Others
    <3>2. p \in DOMAIN S!Others(p)
      BY DEF S!Others
    <3>3. QED
      BY <1>11, <3>1, <3>2 DEF S!Open
  <2>3. s2 \in Inis /\ Allowed(proc[p].todo, proc[p].target, s2)
    BY <1>c, <2>1, ChangedIs, ChangedAllows
  <2>4. r \in Processes
    <3>1. proc[p] \in Processes
      BY <1>0
    <3> HIDE DEF s2
    <3>2. QED
      BY <2>3, <3>1 DEF Processes
  <2>5. /\ r.pc = "write" /\ r.open = TRUE /\ r.settings = s2 /\ r.todo = proc[p].todo
        /\ r.target = proc[p].target /\ r.stale = proc[p].stale
    BY <1>c, <2>1 DEF Processes
  <2>6. ~proc[p].stale => s2 = S!Changed(whole, Head(proc[p].todo))
    BY <1>c, <2>1
  <2> HIDE DEF s2, r, e
  <2>7. ProcessOk(r, whole, overlap)
    BY <1>c, <2>1, <2>3, <2>5, <2>6 DEF ProcessOk, CopyIsWhole, Rewrites, Intends
  <2>8. proc' \in [Procs -> Processes] /\ \A q \in Procs : ProcessOk(proc'[q], whole, overlap)
    BY <1>b, <2>2, <2>4, <2>7
  <2>9. TeamTypes'
    BY <1>0, <2>1, <2>8, EmptyTyped DEF TeamTypes
  <2>10. QED
    BY <1>0, <2>1, <2>8, <2>9 DEF TeamInv
<1>12. ASSUME NEW p \in Procs, S!Save(p) PROVE TeamInv'
  <2> DEFINE e == Head(proc[p].todo)
             rest == Tail(proc[p].todo)
             r == IF rest = <<>> THEN S!NoProc ELSE [proc[p] EXCEPT !.todo = rest, !.open = FALSE]
  <2>1. /\ name' = name /\ file' = proc[p].settings /\ whole' = proc[p].settings
        /\ overlap' = (overlap \/ proc[p].stale)
        /\ meant' = CASE e.what = "id"      -> [meant EXCEPT ![e.name] = e.value]
                      [] e.what = "section" -> [meant EXCEPT ![e.name] = Nothing]
                      [] OTHER              -> meant
        /\ proc[p].pc = "write" /\ proc[p].open
    BY <1>12 DEF S!Save, S!At, S!Server
  <2>2. proc' = [S!Others(p) EXCEPT ![p] = r]
    <3>1. S!Others(p)[p] = proc[p]
      BY DEF S!Others
    <3>2. p \in DOMAIN S!Others(p)
      BY DEF S!Others
    <3>3. QED
      BY <1>12, <3>1, <3>2 DEF S!Save
  <2>3. proc[p].stale \in BOOLEAN /\ overlap \in BOOLEAN
    BY <1>0, <1>c, <2>1 DEF Processes, TeamTypes
  <2>4. e \in Edits /\ rest \in Seq(Edits) /\ \A i \in 1..Len(rest) : i + 1 \in 1..Len(proc[p].todo) /\ rest[i] = proc[p].todo[i + 1]
    BY <1>c, <2>1
  <2>5. r \in Processes /\ ProcessOk(r, whole', overlap')
    <3>1. CASE rest = <<>>
      BY <3>1, NoProcIsOne, NoProcIsOk
    <3>2. CASE rest # <<>>
      <4>0. proc[p] \in Processes
        BY <1>0
      <4>1. r = [proc[p] EXCEPT !.todo = rest, !.open = FALSE]
        BY <3>2
      <4> HIDE DEF r, rest, e
      <4>2. r \in Processes
        BY <2>4, <4>0, <4>1 DEF Processes
      <4>3. /\ r.pc = "write" /\ r.open = FALSE /\ r.todo = rest /\ r.settings = proc[p].settings
            /\ r.target = proc[p].target /\ r.stale = proc[p].stale
        BY <2>1, <4>0, <4>1 DEF Processes
      <4>4. Allowed(rest, proc[p].target, proc[p].settings)
        <5>1. Allowed(proc[p].todo, proc[p].target, proc[p].settings)
          BY <1>c, <2>1
        <5>2. ASSUME NEW i \in 1..Len(rest)
              PROVE  /\ rest[i].what \in {"section", "id", "key"}
                        => proc[p].settings.section[rest[i].name].id \in {Nothing, proc[p].target}
                     /\ rest[i].what = "id" => rest[i].value = proc[p].target
          <6>1. i + 1 \in 1..Len(proc[p].todo) /\ rest[i] = proc[p].todo[i + 1]
            BY <2>4
          <6>2. QED
            BY <5>1, <6>1 DEF Allowed
        <5>3. QED
          BY <5>2 DEF Allowed
      <4>5. ProcessOk(r, whole', overlap')
        BY <2>1, <3>2, <4>3, <4>4 DEF ProcessOk, CopyIsWhole, Rewrites, Intends
      <4>6. QED
        BY <4>2, <4>5
    <3>3. QED
      BY <3>1, <3>2
  <2>6. proc' \in [Procs -> Processes] /\ \A q \in Procs : ProcessOk(proc'[q], whole', overlap')
    <3> HIDE DEF r
    <3>1. overlap => overlap'
      BY <2>1
    <3>2. QED
      BY <1>b, <2>2, <2>5, <3>1
  <2>7. /\ meant' \in [Names -> Ids \cup {Nothing}]
        /\ \A n \in Names : meant'[n] = IF e.what = "id" /\ n = e.name THEN e.value
                                        ELSE IF e.what = "section" /\ n = e.name THEN Nothing ELSE meant[n]
    <3>1. meant \in [Names -> Ids \cup {Nothing}]
      BY <1>0 DEF TeamTypes
    <3>2. e.what \in {"id", "section"} => e.name \in Names
      BY <2>4 DEF Edits
    <3>3. e.what = "id" => e.value \in Ids
      BY <2>4 DEF Edits
    <3> HIDE DEF e
    <3>4. QED
      BY <2>1, <3>1, <3>2, <3>3
  <2>8. overlap' \/ \A n \in Names : whole'.section[n].id = meant'[n]
    <3> SUFFICES ASSUME ~overlap, ~proc[p].stale, NEW n \in Names PROVE whole'.section[n].id = meant'[n]
      BY <2>1
    <3>1. whole' = S!Changed(whole, e) /\ whole \in Inis
      BY <1>0, <1>c, <2>1 DEF TeamTypes
    <3>2. whole.section[n].id = meant[n]
      BY <1>0
    <3>3. e.what \in {"section", "id", "key", "active", "api"}
      BY <2>4 DEF Edits
    <3>4. S!Changed(whole, e).section[n].id
            = IF e.what = "id" /\ n = e.name THEN e.value
              ELSE IF e.what = "section" /\ n = e.name THEN Nothing ELSE whole.section[n].id
      <4> HIDE DEF e
      <4>1. QED
        BY <2>4, <3>1, <3>3, ChangedIs
    <3>5. QED
      BY <2>7, <3>1, <3>2, <3>4
  <2>9. TeamTypes'
    <3>1. proc[p].settings \in Inis
      BY <1>c, <2>1
    <3>2. overlap' \in BOOLEAN
      BY <2>1, <2>3
    <3>3. QED
      BY <1>a, <2>1, <2>6, <2>7, <3>1, <3>2 DEF TeamTypes
  <2>10. QED
    BY <2>1, <2>6, <2>8, <2>9 DEF TeamInv
<1>13. CASE S!Rename
  <2>1. UNCHANGED <<file, whole, meant, overlap, proc>>
    BY <1>13 DEF S!Rename, S!Disk
  <2>2. name' \in [Ids -> Names \cup {Nothing, Deleted}]
    BY <1>a, <1>13 DEF S!Rename
  <2>3. QED
    BY <1>0, <2>1, <2>2 DEF TeamInv, TeamTypes
<1>14. CASE S!ByHand
  <2>1. UNCHANGED <<name, proc, overlap>> /\ whole' = file' /\ file = whole
    BY <1>14 DEF S!ByHand
  <2>2. PICK n \in Names, k \in Ids \cup {Nothing} :
          /\ file' = [file EXCEPT !.section[n] = [id |-> Nothing, key |-> k]]
          /\ meant' = [meant EXCEPT ![n] = Nothing]
    BY <1>14 DEF S!ByHand
  <2>3. file \in Inis /\ meant \in [Names -> Ids \cup {Nothing}]
    BY <1>0 DEF TeamTypes
  <2>4. [id |-> Nothing, key |-> k] \in Sections
    BY DEF Sections
  <2>5. /\ file' \in Inis
        /\ \A m \in Names : file'.section[m] = IF m = n THEN [id |-> Nothing, key |-> k] ELSE file.section[m]
    BY <2>2, <2>3, <2>4 DEF Inis
  <2>6. overlap \/ \A m \in Names : file'.section[m].id = meant'[m]
    BY <1>0, <2>1, <2>2, <2>3, <2>5
  <2>7. \A q \in Procs : proc[q].pc = "idle" /\ ~proc[q].open
    BY <1>0, <1>14 DEF S!ByHand, S!Running, S!At, ProcessOk, CopyIsWhole
  <2>8. \A q \in Procs : ProcessOk(proc[q], whole', overlap)
    BY <1>0, <2>7, NoProcIsOne
  <2>9. TeamTypes'
    BY <1>0, <2>1, <2>2, <2>3, <2>5 DEF TeamTypes
  <2>10. QED
    BY <2>1, <2>6, <2>8, <2>9 DEF TeamInv
<1>15. QED
  BY <1>1, <1>2, <1>3, <1>4, <1>5, <1>6, <1>7, <1>9, <1>10, <1>11, <1>12, <1>13, <1>14 DEF S!Next

LEMMA TeamInvariant == Spec => []TeamInv
<1>1. Init => TeamInv
  BY TeamInit DEF Init
<1>2. TeamInv /\ [Next]_vars => TeamInv'
  BY TeamSteps, TeamStep
<1>3. QED
  BY <1>1, <1>2, PTL DEF Spec

\* -w NAME: a command acts in the workspace whose section a command last made that of the name,
\* unless processes have written over each other.
THEOREM ActsAsMeant == Spec => []ActsWhereMeant
<1>1. TeamInv => ActsWhereMeant
  BY DEF TeamInv, ProcessOk, Intends, ActsWhereMeant, S!ActsWhereMeant, S!At
<1>2. QED
  BY <1>1, TeamInvariant, PTL

\* config.ini: a saved key goes only by a command about its own workspace, by hand, or by a process
\* whose copy was old.
THEOREM SavedKeysStay == Spec => SavedKeyKept
<1> DEFINE Stays ==
      \A p \in Procs : S!Save(p) =>
        \A n \in Names :
          LET s == whole.section[n] IN
            \/ Nothing \in {s.id, s.key} \/ whole'.section[n] = s
            \/ proc[p].target = s.id
            \/ proc[p].stale
<1>1. TeamInv => Stays
  <2> SUFFICES ASSUME TeamInv, NEW p \in Procs, S!Save(p), NEW n \in Names, ~proc[p].stale
               PROVE  \/ whole.section[n].id = Nothing \/ whole'.section[n] = whole.section[n]
                      \/ proc[p].target = whole.section[n].id
    OBVIOUS
  <2> DEFINE e == Head(proc[p].todo)
  <2>1. proc[p].pc = "write" /\ proc[p].open /\ whole' = proc[p].settings
    BY DEF S!Save, S!At
  <2>2. proc[p] \in Processes /\ ProcessOk(proc[p], whole, overlap) /\ whole \in Inis
    BY DEF TeamInv, TeamTypes
  <2>3. /\ whole' = S!Changed(whole, e) /\ Allowed(proc[p].todo, proc[p].target, whole)
        /\ proc[p].todo \in Seq(Edits) /\ proc[p].todo # <<>>
    BY <2>1, <2>2 DEF ProcessOk, CopyIsWhole, Rewrites, Processes
  <2>4. e \in Edits /\ e = proc[p].todo[1] /\ 1 \in 1..Len(proc[p].todo)
    BY <2>3
  <2>5. e.what \in {"section", "id", "key"} => whole.section[e.name].id \in {Nothing, proc[p].target}
    BY <2>3, <2>4 DEF Allowed
  <2>6. e.what \in {"section", "id", "key", "active", "api"}
    BY <2>4 DEF Edits
  <2> HIDE DEF e
  <2>7. e.what \in {"active", "api"} \/ n # e.name => whole'.section[n] = whole.section[n]
    BY <2>2, <2>3, <2>4, ChangedIs
  <2>8. QED
    BY <2>5, <2>6, <2>7
<1>2. TeamInv => [Stays]_(S!vars)
  BY <1>1
<1>3. SavedKeyKept <=> [][Stays]_(S!vars)
  BY DEF SavedKeyKept, S!SavedKeyKept
<1>4. QED
  BY <1>2, <1>3, TeamInvariant, PTL

-----------------------------------------------------------------------------
\* Key registration, the pod index, fund, mine with its wait, and workspaces: their variables keep
\* their types; a pod that is gone is not listed again, and no transfer takes more than is free.
THEOREM AccountTypesCorrect ==
  Spec => [](K!TypeOK /\ I!TypeOK /\ F!TypeOK /\ M!TypeOK /\ W!TypeOK /\ S!TypeOK)
<1>1. KeyInv => K!TypeOK
  BY DEF KeyInv
<1>2. IndexInv /\ Passing => I!TypeOK
  BY DEF IndexInv, Passing, I!TypeOK, Cmds
<1>3. FundInv /\ Covered => F!TypeOK
  BY DEF FundInv, Covered, FundTypes, Funds, Users, Shows, F!TypeOK
<1>4. MineInv => M!TypeOK
  BY DEF MineInv, MineTypes, Runs, M!TypeOK
<1>5. WaitInv => W!TypeOK
  BY DEF WaitInv, WaitTypes, Waits, W!TypeOK
<1>6. TeamInv => S!TypeOK
  <2> SUFFICES ASSUME TeamInv PROVE S!TypeOK
    OBVIOUS
  <2>1. \A f \in {file, whole} : f \in Inis
    BY DEF TeamInv, TeamTypes
  <2>2. \A p \in Procs : proc[p] \in Processes
    BY DEF TeamInv, TeamTypes
  <2>3. \A f \in {file, whole} :
          /\ f.section \in [Names -> Sections]
          /\ f.active \in Names \cup {Nothing} /\ f.api \in Ids \cup {Nothing}
    BY <2>1 DEF Inis
  <2>4. \A p \in Procs :
          /\ proc[p].pc \in {"idle", "load", "check", "act", "target", "section", "mint", "write"}
          /\ {proc[p].key, proc[p].target, proc[p].id} \subseteq Ids \cup {Nothing}
    BY <2>2 DEF Processes
  <2>5. QED
    BY <2>3, <2>4 DEF TeamInv, TeamTypes, S!TypeOK, Sections
<1>7. QED
  BY <1>1, <1>2, <1>3, <1>4, <1>5, <1>6, KeySafety, IndexSafety, PassingSafety, FundSafety, FreeSafety,
     MineSafety, WaitSafety, TeamInvariant, PTL
=============================================================================
