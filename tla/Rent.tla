-------------------------------- MODULE Rent --------------------------------
(***************************************************************************)
(* Renting one pod: Lium.up and Lium._rent_on_server (lium/sdk/client.py)  *)
(* against a backend whose answers may be lost.                            *)
(*                                                                         *)
(* A rent is a POST that must not be repeated blindly.  `up` lists the     *)
(* pods first, posts, and after an unanswered POST looks the pod up by     *)
(* name, never accepting a pod of that first listing, before it posts a    *)
(* second and last time.  A rent-by-spec (the server chooses the node) is  *)
(* posted once and only looked up.                                         *)
(*                                                                         *)
(* A pod is named after the request that made it: <<c, k>> is the pod of   *)
(* the k-th POST of call c.  The client only ever compares these ids.      *)
(***************************************************************************)
EXTENDS Naturals

CONSTANTS
  Calls,             \* the calls of up and rent that run side by side
  Nodes,             \* the nodes (executors) a pod can run on
  Names,             \* the pod names in use
  OldPods,           \* pods of the account that no modelled call rents
  Wants,             \* the arguments calls are made with
  NoPod, NoNode,     \* "no pod", and the node of a pod that does not exist
  LookupAttempts,    \* listings read after an unanswered POST (3 in the code)
  FallbackAttempts,  \* listings read after an answer naming no pod (2)
  ReadBackAttempts   \* listings read for a pod whose id is known (3)

Tries == {1, 2}
Posts == Calls \X Tries
Pods == OldPods \cup Posts

ASSUME RentAssumption ==
  /\ Wants \subseteq [kind : {"up", "spec"}, name : Names, node : Nodes]
  /\ OldPods \cap Posts = {}
  /\ NoPod \notin Pods
  /\ NoNode \notin Nodes
  /\ LookupAttempts \in Nat \ {0}
  /\ FallbackAttempts \in Nat \ {0}
  /\ ReadBackAttempts \in Nat \ {0}

VARIABLES
  \* the backend
  honours,   \* does it collapse two POSTs with one Idempotency-Key?
  post,      \* post[<<c, k>>]: what became of the k-th POST of call c
  host,      \* host[p]: the node pod p runs on, NoNode before it exists
  title,     \* title[p]: its name
  listed,    \* the pods in the listing (ps)
  detailed,  \* do the listing's rows show the node?
  \* the calls
  want, pc,
  sent,      \* POSTs sent so far
  left,      \* listings this lookup may still read
  known,     \* known_pod_ids
  named,     \* the pod_id of the answer
  result,    \* the pod handed back
  \* history, for the properties
  before,    \* what the listing held when the call took its snapshot
  seen,      \* calls that read a listing with the pod of their lost first POST
  lost,      \* its POSTs that ended without an answer
  silent     \* calls with an answer that named no pod (or no node)

backend == <<honours, post, host, title, listed, detailed>>
history == <<before, seen, lost, silent>>
vars == <<backend, want, pc, sent, left, known, named, result, history>>

Exists(p) == host[p] # NoNode
Ended(c) == pc[c] \in {"done", "failed"}

\* The pod the server answers POST k of call c with: the one that POST made,
\* or, when the server honours the key, the one the other POST made.
PodOf(c, k) == IF Exists(<<c, k>>) THEN <<c, k>> ELSE <<c, 3 - k>>

Init ==
  /\ honours \in BOOLEAN
  /\ post = [r \in Posts |-> "unsent"]
  /\ \E at \in [OldPods -> Nodes] :
       host = [p \in Pods |-> IF p \in OldPods THEN at[p] ELSE NoNode]
  /\ \E as \in [OldPods -> Names] :
       title = [p \in Pods |-> IF p \in OldPods THEN as[p] ELSE CHOOSE n \in Names : TRUE]
  /\ listed \in SUBSET OldPods
  /\ detailed \in BOOLEAN
  /\ want \in [Calls -> Wants]
  /\ pc = [c \in Calls |-> "start"]
  /\ sent = [c \in Calls |-> 0]
  /\ left = [c \in Calls |-> 0]
  /\ known = [c \in Calls |-> {}]
  /\ named = [c \in Calls |-> NoPod]
  /\ result = [c \in Calls |-> NoPod]
  /\ before = [c \in Calls |-> {}]
  /\ seen = {}
  /\ lost = [c \in Calls |-> {}]
  /\ silent = {}

-----------------------------------------------------------------------------
(* The backend: external, as the client's code meets it.                   *)

\* It rents a pod for a request it received, however long ago.
Serve(c, k) ==
  /\ post[<<c, k>>] = "flying"
  /\ post' = [post EXCEPT ![<<c, k>>] = "rented"]
  /\ IF honours /\ \E j \in Tries : post[<<c, j>>] = "rented"
       THEN UNCHANGED <<host, title>>
       ELSE \E n \in Nodes :
              /\ want[c].kind = "up" => n = want[c].node
              /\ host' = [host EXCEPT ![<<c, k>>] = n]
              /\ title' = [title EXCEPT ![<<c, k>>] = want[c].name]
  /\ UNCHANGED <<honours, listed, detailed, want, pc, sent, left, known, named, result, history>>

\* A pod enters the listing, some time after it exists.
Surface(p) ==
  /\ Exists(p) /\ p \notin listed
  /\ listed' = listed \cup {p}
  /\ UNCHANGED <<honours, post, host, title, detailed, want, pc, sent, left, known, named, result, history>>

-----------------------------------------------------------------------------
(* The steps of a call.                                                    *)

\* An unknown node, no template, no key: nothing is posted.
Invalid(c) ==
  /\ pc[c] = "start"
  /\ pc' = [pc EXCEPT ![c] = "failed"]
  /\ UNCHANGED <<backend, want, sent, left, known, named, result, history>>

\* _pod_ids_before_rent: a listing that cannot be read counts as empty.
Snapshot(c) ==
  /\ pc[c] = "start"
  /\ pc' = [pc EXCEPT ![c] = "post"]
  /\ before' = [before EXCEPT ![c] = listed]
  /\ \E ids \in {listed, {}} : known' = [known EXCEPT ![c] = ids]
  /\ UNCHANGED <<backend, want, sent, left, named, result, seen, lost, silent>>

Send(c) ==
  /\ pc[c] = "post"
  /\ pc' = [pc EXCEPT ![c] = "wait"]
  /\ sent' = [sent EXCEPT ![c] = @ + 1]
  /\ post' = [post EXCEPT ![<<c, sent[c] + 1>>] = "flying"]
  /\ UNCHANGED <<honours, host, title, listed, detailed, want, left, known, named, result, history>>

\* The POST ends in a way that does not say whether it rented: a timeout, a
\* dropped connection, a 5xx, a 429, a body that is not JSON.  The first of an
\* up or a rent-by-spec is looked up, the second of an up propagates.
Unanswered(c) ==
  /\ pc[c] = "wait"
  /\ lost' = [lost EXCEPT ![c] = @ \cup {sent[c]}]
  /\ IF sent[c] = 1
       THEN /\ pc' = [pc EXCEPT ![c] = "find"]
            /\ left' = [left EXCEPT ![c] = LookupAttempts]
       ELSE /\ pc' = [pc EXCEPT ![c] = "failed"]
            /\ UNCHANGED left
  /\ UNCHANGED <<backend, want, sent, known, named, result, before, seen, silent>>

\* Fault: an error status raised as a refusal although the pod was rented.
RejectedAfterRenting(c) ==
  /\ pc[c] = "wait"
  /\ pc' = [pc EXCEPT ![c] = "failed"]
  /\ UNCHANGED <<backend, want, sent, left, known, named, result, history>>

\* The server turns the request down with any other error status, which is
\* raised as it stands.
Rejected(c) ==
  /\ pc[c] = "wait"
  /\ post[<<c, sent[c]>>] = "flying"
  /\ post' = [post EXCEPT ![<<c, sent[c]>>] = "refused"]
  /\ pc' = [pc EXCEPT ![c] = "failed"]
  /\ UNCHANGED <<honours, host, title, listed, detailed, want, sent, left, known, named, result, history>>

\* An up answered with the pod's record: it is the result.  A rent-by-spec
\* answered with its node and a pod_id: likewise, without reading it back.
AnsweredRecord(c) ==
  /\ pc[c] = "wait"
  /\ post[<<c, sent[c]>>] = "rented"
  /\ pc' = [pc EXCEPT ![c] = "done"]
  /\ result' = [result EXCEPT ![c] = PodOf(c, sent[c])]
  /\ UNCHANGED <<backend, want, sent, left, known, named, history>>

\* An up answered with a pod_id: the id is the truth, the record is read back.
AnsweredId(c) ==
  /\ pc[c] = "wait" /\ want[c].kind = "up"
  /\ post[<<c, sent[c]>>] = "rented"
  /\ pc' = [pc EXCEPT ![c] = "readback"]
  /\ named' = [named EXCEPT ![c] = PodOf(c, sent[c])]
  /\ left' = [left EXCEPT ![c] = ReadBackAttempts]
  /\ UNCHANGED <<backend, want, sent, known, result, history>>

\* An answer that names no pod.  An up looks its pod up by name; a rent-by-spec
\* returns without a pod, or raises when the answer holds no node either.
AnsweredNothing(c) ==
  /\ pc[c] = "wait"
  /\ post[<<c, sent[c]>>] = "rented"
  /\ silent' = silent \cup {c}
  /\ \/ /\ want[c].kind = "up"
        /\ pc' = [pc EXCEPT ![c] = "fallback"]
        /\ left' = [left EXCEPT ![c] = FallbackAttempts]
     \/ /\ want[c].kind = "spec"
        /\ \E end \in {"done", "failed"} : pc' = [pc EXCEPT ![c] = end]
        /\ UNCHANGED left
  /\ UNCHANGED <<backend, want, sent, known, named, result, before, seen, lost>>

-----------------------------------------------------------------------------
(* The lookups: _find_pod_info_by_name, _find_pod_by_id.                   *)

\* Faults: the snapshot is not consulted; a listing without nodes is not trusted.
MatchingOldToo(c) ==
  {p \in listed :
     /\ title[p] = want[c].name
     /\ want[c].kind = "spec" \/ ~detailed \/ host[p] = want[c].node}

MatchingNodeOnly(c) ==
  {p \in listed \ known[c] :
     /\ title[p] = want[c].name
     /\ want[c].kind = "spec" \/ (detailed /\ host[p] = want[c].node)}

\* The rows that pass for the pod of call c.  A listing that does not
\* show the nodes, and any row for a rent-by-spec, is taken on its name.
Matching(c) ==
  {p \in listed \ known[c] :
     /\ title[p] = want[c].name
     /\ \/ want[c].kind = "spec"
        \/ ~detailed
        \/ host[p] = want[c].node}

\* Fault: the fruitless lookup of a rent-by-spec posts again.
GiveUpSpecToo(c) == IF pc[c] = "find" /\ sent[c] = 1 THEN "post" ELSE "failed"

\* What a call does when its last listing showed no such pod.
GiveUp(c) ==
  IF pc[c] = "find" /\ want[c].kind = "up" THEN "post" ELSE "failed"

Looking(c) == pc[c] \in {"find", "fallback"}

\* Does the lookup before a second POST read a listing with the first one's pod?
Reads(c) == IF pc[c] = "find" /\ <<c, 1>> \in listed THEN {c} ELSE {}

\* A row matches: the first in the listing's order, which can be any.  A
\* rent-by-spec needs the row to show its node and raises when it does not.
FindPod(c) ==
  /\ Looking(c)
  /\ seen' = seen \cup Reads(c)
  /\ \E p \in Matching(c) :
       IF want[c].kind = "spec" /\ ~detailed
         THEN /\ pc' = [pc EXCEPT ![c] = "failed"]
              /\ UNCHANGED result
         ELSE /\ pc' = [pc EXCEPT ![c] = "done"]
              /\ result' = [result EXCEPT ![c] = p]
  /\ left' = [left EXCEPT ![c] = 0]
  /\ UNCHANGED <<backend, want, sent, known, named, before, lost, silent>>

\* No row matches, or the listing cannot be read (_list_pods_or_none).
FindNothing(c) ==
  /\ Looking(c)
  /\ \/ Matching(c) = {} /\ seen' = seen \cup Reads(c)
     \/ UNCHANGED seen
  /\ left' = [left EXCEPT ![c] = @ - 1]
  /\ pc' = [pc EXCEPT ![c] = IF left[c] = 1 THEN GiveUp(c) ELSE @]
  /\ UNCHANGED <<backend, want, sent, known, named, result, before, lost, silent>>

\* Fault: the last fruitless listing raises, as it does in the other lookups.
ReadBackRaises(c) ==
  /\ pc[c] = "readback"
  /\ \/ /\ named[c] \in listed
        /\ pc' = [pc EXCEPT ![c] = "done"]
        /\ result' = [result EXCEPT ![c] = named[c]]
        /\ left' = [left EXCEPT ![c] = 0]
     \/ /\ left' = [left EXCEPT ![c] = @ - 1]
        /\ pc' = [pc EXCEPT ![c] = IF left[c] = 1 THEN "failed" ELSE @]
        /\ UNCHANGED result
  /\ UNCHANGED <<backend, want, sent, known, named, history>>

\* The row is there: its record is the result.  After the last listing without
\* it, a PENDING record with the same id is.
ReadBack(c) ==
  /\ pc[c] = "readback"
  /\ \/ /\ named[c] \in listed \/ left[c] = 1
        /\ pc' = [pc EXCEPT ![c] = "done"]
        /\ result' = [result EXCEPT ![c] = named[c]]
        /\ left' = [left EXCEPT ![c] = 0]
     \/ /\ left[c] > 1
        /\ left' = [left EXCEPT ![c] = @ - 1]
        /\ UNCHANGED <<pc, result>>
  /\ UNCHANGED <<backend, want, sent, known, named, history>>

-----------------------------------------------------------------------------
Client(c) ==
  \/ Invalid(c) \/ Snapshot(c) \/ Send(c)
  \/ Unanswered(c) \/ Rejected(c)
  \/ AnsweredRecord(c) \/ AnsweredId(c) \/ AnsweredNothing(c)
  \/ FindPod(c) \/ FindNothing(c) \/ ReadBack(c)

Backend ==
  \/ \E c \in Calls, k \in Tries : Serve(c, k)
  \/ \E p \in Pods : Surface(p)

Next == Backend \/ \E c \in Calls : Client(c)

\* Every request of the client times out (30 s) and every lookup is counted,
\* so a call that was made keeps taking steps.  The backend owes nothing.
Fairness == \A c \in Calls : WF_vars(Client(c))

Spec == Init /\ [][Next]_vars /\ Fairness

-----------------------------------------------------------------------------
BackendType ==
  /\ honours \in BOOLEAN
  /\ post \in [Posts -> {"unsent", "flying", "refused", "rented"}]
  /\ host \in [Pods -> Nodes \cup {NoNode}]
  /\ title \in [Pods -> Names]
  /\ listed \in SUBSET Pods
  /\ detailed \in BOOLEAN

CallType ==
  /\ want \in [Calls -> Wants]
  /\ pc \in [Calls -> {"start", "post", "wait", "find", "fallback",
                       "readback", "done", "failed"}]
  /\ sent \in [Calls -> 0 .. 2]
  /\ left \in [Calls -> Nat]
  /\ known \in [Calls -> SUBSET Pods]
  /\ named \in [Calls -> Pods \cup {NoPod}]
  /\ result \in [Calls -> Pods \cup {NoPod}]

HistoryType ==
  /\ before \in [Calls -> SUBSET Pods]
  /\ seen \in SUBSET Calls
  /\ lost \in [Calls -> SUBSET Tries]
  /\ silent \in SUBSET Calls

TypeOK == BackendType /\ CallType /\ HistoryType

\* A call never rents a second pod once a listing it could read after its lost
\* POST showed the first one, and never rents two from a server that honours
\* the Idempotency-Key, whatever the order in which its requests are served.
SecondPodOnlyUnseen ==
  \A c \in Calls :
    Exists(<<c, 1>>) /\ Exists(<<c, 2>>) => ~honours /\ c \notin seen

\* The pod handed back exists, has the name that was asked for, and is either
\* the call's own or one the snapshot did not list: a pod from before the rent
\* comes back only when the snapshot could not be read.
HandedBackIsNew ==
  \A c \in Calls : result[c] # NoPod =>
    /\ Exists(result[c])
    /\ title[result[c]] = want[c].name
    /\ result[c] \in before[c] => known[c] # before[c]
    /\ \/ result[c] \in {c} \X Tries
       \/ want[c].kind = "spec" \/ ~detailed
       \/ host[result[c]] = want[c].node

\* A pod that nobody was handed needs a lost answer: when a call has ended and
\* a pod of its is not the result, the POST that made it ended unanswered, or
\* an answer failed to say what was rented.
OrphanNeedsLostAnswer ==
  \A c \in Calls, k \in Tries :
    Ended(c) /\ Exists(<<c, k>>) /\ result[c] # <<c, k>> =>
      k \in lost[c] \/ c \in silent

\* Once an answer names a pod the call ends by handing back that pod: a listing
\* that fails afterwards does not turn the rented pod into an error.
NamedPodHandedBack ==
  \A c \in Calls : named[c] # NoPod =>
    \/ pc[c] = "readback"
    \/ pc[c] = "done" /\ result[c] = named[c]

-----------------------------------------------------------------------------
\* The protocol keeps the promise of module RentPromise.
P == INSTANCE RentPromise WITH
  limit  <- [c \in Calls |-> IF want[c].kind = "up" THEN 2 ELSE 1],
  status <- [c \in Calls |-> IF pc[c] = "start" THEN "idle"
                             ELSE IF Ended(c) THEN "ended" ELSE "open"],
  asked  <- sent,
  rented <- {p \in Pods : Exists(p)},
  answer <- result

\* Every behaviour of the calls is one the promise allows: a pod is made only
\* for a request that was sent, at most one for a key the server honours, and
\* a call ends once, with a pod that exists or with none.
KeepsPromise == P!Spec
=============================================================================
