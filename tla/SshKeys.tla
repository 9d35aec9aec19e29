------------------------------ MODULE SshKeys ------------------------------
(***************************************************************************)
(* Before it rents, the client makes sure that the public keys of this     *)
(* machine are registered with the account.  A cache file remembers which  *)
(* are; it is one account's at a time, and every process reads it, and     *)
(* replaces it whole, without a lock.                                      *)
(***************************************************************************)
EXTENDS Naturals, FiniteSets

CONSTANTS
  Keys,         \* the public keys of this machine
  Accounts,     \* what an API key stands for
  Procs,
  MaxRents,
  Nothing

VARIABLES
  server,       \* the keys it has: <<account, key>>
  ever,         \* history: and what was ever there
  cache,        \* ssh_keys_cache.json: [account, keys], or Nothing when it cannot be read
  rent,         \* of each process
  rents         \* how many have begun

vars == <<server, ever, cache, rent, rents>>

-----------------------------------------------------------------------------
NoRent == [pc |-> "idle", account |-> Nothing, keys |-> {}, cached |-> {}, missing |-> {}, listed |-> {}, new |-> {}]

At(p, pc) == rent[p].pc = pc
Over(p)   == rent' = [rent EXCEPT ![p] = NoRent]
Server    == <<server, ever>>

\* With one of the keys, or several.
Begin(p) ==
  /\ At(p, "idle") /\ rents < MaxRents
  /\ rents' = rents + 1
  /\ \E a \in Accounts, K \in SUBSET Keys \ {{}} :
       rent' = [rent EXCEPT ![p] = [NoRent EXCEPT !.pc = "load", !.account = a, !.keys = K]]
  /\ UNCHANGED <<Server, cache>>

\* Mutant: a cache is a cache.
CachedForAnyone(a) == IF cache = Nothing THEN {} ELSE cache.keys

\* Another account's cache is as good as none.
CachedFor(a) == IF cache = Nothing \/ cache.account # a THEN {} ELSE cache.keys

Load(p) ==
  /\ At(p, "load")
  /\ LET r == rent[p]
         missing == r.keys \ CachedFor(r.account)
     IN IF missing = {} THEN Over(p)
        ELSE rent' = [rent EXCEPT ![p] = [@ EXCEPT !.pc = "list", !.cached = CachedFor(r.account),
                                                   !.new = CachedFor(r.account), !.missing = missing]]
  /\ UNCHANGED <<Server, cache, rents>>

\* If the keys cannot be listed, the rent goes on without them.
List(p) ==
  /\ At(p, "list")
  /\ \/ Over(p)
     \/ rent' = [rent EXCEPT ![p] = [@ EXCEPT !.pc = "register", !.listed = {k \in Keys : <<rent[p].account, k>> \in server}]]
  /\ UNCHANGED <<Server, cache, rents>>

Known(p, k) == k \in rent[p].listed

\* One that is there already, by the list.
Skip(p) ==
  /\ At(p, "register")
  /\ \E k \in rent[p].missing :
       /\ Known(p, k)
       /\ rent' = [rent EXCEPT ![p] = [rent[p] EXCEPT !.missing = @ \ {k}, !.new = @ \cup {k}]]
  /\ UNCHANGED <<Server, cache, rents>>

Register(p) ==
  /\ At(p, "register")
  /\ \E k \in rent[p].missing :
       /\ ~Known(p, k)
       /\ server' = server \cup {<<rent[p].account, k>>}
       /\ ever' = ever \cup {<<rent[p].account, k>>}
       /\ rent' = [rent EXCEPT ![p] = [rent[p] EXCEPT !.missing = @ \ {k}, !.new = @ \cup {k}]]
  /\ UNCHANGED <<cache, rents>>

\* A warning; the key may be there all the same.
RegisterFails(p) ==
  /\ At(p, "register")
  /\ \E k \in rent[p].missing :
       /\ ~Known(p, k)
       /\ \/ UNCHANGED Server
          \/ server' = server \cup {<<rent[p].account, k>>} /\ ever' = ever \cup {<<rent[p].account, k>>}
       /\ rent' = [rent EXCEPT ![p].missing = @ \ {k}]
  /\ UNCHANGED <<cache, rents>>

\* The file is replaced in one step, by what this process knows of, or stays as it is.
Save(p) ==
  /\ At(p, "register") /\ rent[p].missing = {}
  /\ \/ rent[p].new # rent[p].cached /\ cache' = [account |-> rent[p].account, keys |-> rent[p].new]
     \/ UNCHANGED cache
  /\ Over(p)
  /\ UNCHANGED <<Server, rents>>

Kill(p) ==
  /\ ~At(p, "idle")
  /\ Over(p)
  /\ UNCHANGED <<Server, cache, rents>>

\* A key is deleted, here or on the web; no cache learns of it.
DeletedElsewhere ==
  /\ \E r \in server : server' = server \ {r}
  /\ UNCHANGED <<ever, cache, rent, rents>>

\* The file is removed, or spoilt.
Lost ==
  /\ cache # Nothing /\ cache' = Nothing
  /\ UNCHANGED <<Server, rent, rents>>

Init ==
  /\ server = {} /\ ever = {} /\ cache = Nothing
  /\ rent = [p \in Procs |-> NoRent]
  /\ rents = 0

Next ==
  \/ \E p \in Procs :
       Begin(p) \/ Load(p) \/ List(p) \/ Skip(p) \/ Register(p) \/ RegisterFails(p) \/ Save(p) \/ Kill(p)
  \/ DeletedElsewhere \/ Lost

Spec == Init /\ [][Next]_vars

-----------------------------------------------------------------------------
TypeOK ==
  /\ server \subseteq Accounts \X Keys /\ ever \subseteq Accounts \X Keys
  /\ cache = Nothing \/ (cache.account \in Accounts /\ cache.keys \subseteq Keys)
  /\ rent \in [Procs -> [pc : {"idle", "load", "list", "register"}, account : Accounts \cup {Nothing},
                         keys : SUBSET Keys, cached : SUBSET Keys, missing : SUBSET Keys,
                         listed : SUBSET Keys, new : SUBSET Keys]]

\* A key that the cache takes for registered has been registered with the account the cache is
\* of, whatever other accounts and processes did meanwhile.
CachedWasRegistered ==
  cache # Nothing => \A k \in cache.keys : <<cache.account, k>> \in ever
=============================================================================
