----------------------------- MODULE RentProofs -----------------------------
(***************************************************************************)
(* Proofs about module Rent, for every set of calls, nodes, names and      *)
(* older pods and any number of listings read by the lookups.              *)
(***************************************************************************)
EXTENDS Rent, TLAPS

\* What was rented for a call is what it asked for, and only for a POST sent.
RentedAsAsked ==
  \A c \in Calls, k \in Tries :
    /\ post[<<c, k>>] # "unsent" => k <= sent[c]
    /\ Exists(<<c, k>>) =>
         /\ post[<<c, k>>] = "rented"
         /\ title[<<c, k>>] = want[c].name
         /\ want[c].kind = "up" => host[<<c, k>>] = want[c].node
    /\ post[<<c, k>>] = "rented" => Exists(<<c, k>>) \/ Exists(<<c, 3 - k>>)
    /\ Exists(<<c, k>>) /\ honours => ~Exists(<<c, 3 - k>>)

\* The listing shows only pods that exist; a snapshot holds only pods that were
\* listed, none of them the call's own.
ListingsLag ==
  /\ \A p \in listed : Exists(p)
  /\ \A c \in Calls :
       /\ known[c] = before[c] \/ known[c] = {}
       /\ before[c] \subseteq listed
       /\ before[c] \cap ({c} \X Tries) = {}

\* How far a call is, from how often it posted and what became of it.
Progress ==
  \A c \in Calls :
    /\ pc[c] = "start" => sent[c] = 0 /\ before[c] = {}
    /\ pc[c] = "post" => sent[c] < 2
    /\ pc[c] \in {"wait", "find", "fallback", "readback"} => sent[c] > 0
    /\ pc[c] = "find" => sent[c] = 1
    /\ pc[c] \in {"find", "fallback", "readback"} => left[c] > 0
    /\ sent[c] = 2 \/ (pc[c] = "post" /\ sent[c] = 1) => want[c].kind = "up"
    /\ sent[c] = 1 /\ pc[c] \in {"post", "find"} => 1 \in lost[c]
    /\ sent[c] = 2 => 1 \in lost[c]
    /\ c \in seen => Ended(c) /\ sent[c] = 1

\* Every POST sent is accounted for.
Accounted ==
  \A c \in Calls, k \in Tries : k <= sent[c] =>
    \/ k \in lost[c]
    \/ c \in silent
    \/ pc[c] = "wait" /\ k = sent[c]
    \/ post[<<c, k>>] = "refused"
    \/ post[<<c, k>>] = "rented" /\ pc[c] = "readback" /\ named[c] = PodOf(c, k)
    \/ post[<<c, k>>] = "rented" /\ pc[c] = "done" /\ result[c] = PodOf(c, k)

\* The pod an answer named, and the pod handed back.
Answers ==
  \A c \in Calls :
    /\ named[c] # NoPod =>
         /\ named[c] \in {c} \X Tries /\ Exists(named[c])
         /\ pc[c] = "readback" \/ (pc[c] = "done" /\ result[c] = named[c])
    /\ pc[c] = "readback" => named[c] # NoPod
    /\ result[c] # NoPod =>
         /\ pc[c] = "done" /\ sent[c] > 0
         /\ Exists(result[c])
         /\ title[result[c]] = want[c].name
         /\ result[c] \in {c} \X Tries \/ result[c] \notin known[c]
         /\ \/ result[c] \in {c} \X Tries
            \/ want[c].kind = "spec" \/ ~detailed
            \/ host[result[c]] = want[c].node

IInv ==
  /\ TypeOK
  /\ RentedAsAsked
  /\ ListingsLag
  /\ Progress
  /\ Accounted
  /\ Answers

-----------------------------------------------------------------------------
\* A POST's pod is a pod, and not one of the older pods.
LEMMA PostsArePods ==
  ASSUME NEW c \in Calls, NEW k \in Tries
  PROVE  /\ <<c, k>> \in Posts /\ <<c, k>> \in Pods /\ <<c, k>> \notin OldPods
         /\ 3 - k \in Tries
         /\ PodOf(c, k) \in Pods /\ PodOf(c, k) # NoPod
BY RentAssumption DEF Posts, Pods, Tries, PodOf

\* The variables keep their types (TypeOK): every record the calls and the
\* backend keep stays within the values the code can give it.
LEMMA InitType == Init => TypeOK
<1> SUFFICES ASSUME Init PROVE TypeOK
  OBVIOUS
<1>1. \A c \in Calls : Names # {}
  BY RentAssumption DEF Init
<1>2. title \in [Pods -> Names]
  <2>1. PICK as \in [OldPods -> Names] :
          title = [p \in Pods |-> IF p \in OldPods THEN as[p] ELSE CHOOSE n \in Names : TRUE]
    BY DEF Init
  <2>2. ASSUME NEW p \in Pods, p \notin OldPods PROVE (CHOOSE n \in Names : TRUE) \in Names
    BY <1>1, <2>2 DEF Pods, Posts
  <2>3. QED
    BY <2>1, <2>2
<1>3. host \in [Pods -> Nodes \cup {NoNode}]
  BY DEF Init
<1>4. BackendType
  BY <1>2, <1>3 DEF Init, BackendType, Pods
<1>5. CallType
  BY DEF Init, CallType
<1>6. HistoryType
  BY DEF Init, HistoryType
<1>7. QED
  BY <1>4, <1>5, <1>6 DEF TypeOK

LEMMA NextType == TypeOK /\ Progress /\ [Next]_vars => TypeOK'
<1> SUFFICES ASSUME TypeOK, Progress, [Next]_vars PROVE TypeOK'
  OBVIOUS
<1> USE DEF TypeOK
<1>1. ASSUME NEW c \in Calls, NEW k \in Tries, Serve(c, k) PROVE TypeOK'
  <2>1. want[c].name \in Names
    BY RentAssumption DEF CallType
  <2>2. BackendType'
    BY <1>1, <2>1, PostsArePods DEF Serve, BackendType
  <2>3. QED
    BY <1>1, <2>2 DEF Serve, CallType, HistoryType, history
<1>2. ASSUME NEW p \in Pods, Surface(p) PROVE TypeOK'
  BY <1>2 DEF Surface, BackendType, CallType, HistoryType, history
<1>3. ASSUME NEW c \in Calls, Client(c) PROVE TypeOK'
  <2>1. CASE Invalid(c)
    <3>1. BackendType'
      BY <2>1 DEF Invalid, BackendType, backend
    <3>2. CallType'
      BY <2>1 DEF Invalid, CallType, BackendType
    <3>3. HistoryType'
      BY <2>1 DEF Invalid, HistoryType, BackendType, history
    <3>4. QED
      BY <3>1, <3>2, <3>3
  <2>2. CASE Snapshot(c)
    <3>1. BackendType'
      BY <2>2 DEF Snapshot, BackendType, backend
    <3>2. CallType'
      BY <2>2 DEF Snapshot, CallType, BackendType
    <3>3. HistoryType'
      BY <2>2 DEF Snapshot, HistoryType, BackendType, history
    <3>4. QED
      BY <3>1, <3>2, <3>3
  <2>3. CASE Send(c)
    <3>1. sent[c] + 1 \in Tries
      BY <2>3 DEF Send, Progress, CallType, Tries
    <3>2. <<c, sent[c] + 1>> \in Posts /\ sent[c] + 1 \in 0 .. 2
      BY <3>1 DEF Posts, Tries
    <3>3. BackendType'
      BY <2>3, <3>2 DEF Send, BackendType
    <3>4. CallType' /\ HistoryType'
      BY <2>3, <3>2 DEF Send, CallType, HistoryType, history
    <3>5. QED
      BY <3>3, <3>4
  <2>4. CASE Unanswered(c)
    <3>1. BackendType'
      BY <2>4 DEF Unanswered, BackendType, backend
    <3>2. CallType'
      BY <2>4, RentAssumption DEF Unanswered, CallType, BackendType
    <3>3. HistoryType'
      <4>1. sent[c] \in Tries
        BY <2>4 DEF Unanswered, Progress, CallType, Tries
      <4>2. QED
        BY <2>4, <4>1 DEF Unanswered, HistoryType
    <3>4. QED
      BY <3>1, <3>2, <3>3
  <2>5. CASE Rejected(c)
    <3>1. sent[c] \in Tries
      BY <2>5 DEF Rejected, Progress, CallType, Tries
    <3>2. <<c, sent[c]>> \in Posts
      BY <3>1 DEF Posts
    <3>3. BackendType'
      BY <2>5, <3>2 DEF Rejected, BackendType
    <3>4. CallType' /\ HistoryType'
      BY <2>5 DEF Rejected, CallType, HistoryType, history
    <3>5. QED
      BY <3>3, <3>4
  <2>6. CASE AnsweredRecord(c)
    <3>1. sent[c] \in Tries
      BY <2>6 DEF AnsweredRecord, Progress, CallType, Tries
    <3>2. PodOf(c, sent[c]) \in Pods
      BY <3>1, PostsArePods
    <3>3. BackendType' /\ HistoryType'
      BY <2>6 DEF AnsweredRecord, BackendType, HistoryType, backend, history
    <3>4. CallType'
      BY <2>6, <3>2 DEF AnsweredRecord, CallType
    <3>5. QED
      BY <3>3, <3>4
  <2>7. CASE AnsweredId(c)
    <3>1. sent[c] \in Tries
      BY <2>7 DEF AnsweredId, Progress, CallType, Tries
    <3>2. PodOf(c, sent[c]) \in Pods
      BY <3>1, PostsArePods
    <3>3. BackendType' /\ HistoryType'
      BY <2>7 DEF AnsweredId, BackendType, HistoryType, backend, history
    <3>4. CallType'
      BY <2>7, <3>2, RentAssumption DEF AnsweredId, CallType
    <3>5. QED
      BY <3>3, <3>4
  <2>8. CASE AnsweredNothing(c)
    <3>1. BackendType'
      BY <2>8 DEF AnsweredNothing, BackendType, backend
    <3>2. CallType'
      <4>1. CASE want[c].kind = "up"
        BY <2>8, <4>1, RentAssumption DEF AnsweredNothing, CallType
      <4>2. CASE want[c].kind = "spec"
        BY <2>8, <4>2 DEF AnsweredNothing, CallType
      <4>3. QED
        BY <2>8, <4>1, <4>2 DEF AnsweredNothing
    <3>3. HistoryType'
      BY <2>8 DEF AnsweredNothing, HistoryType, BackendType, history
    <3>4. QED
      BY <3>1, <3>2, <3>3
  <2>9. CASE FindPod(c)
    <3>1. BackendType'
      BY <2>9 DEF FindPod, BackendType, backend
    <3>2. CallType'
      BY <2>9 DEF FindPod, CallType, BackendType, Matching, Reads, Looking
    <3>3. HistoryType'
      BY <2>9 DEF FindPod, HistoryType, BackendType, history, Reads
    <3>4. QED
      BY <3>1, <3>2, <3>3
  <2>10. CASE FindNothing(c)
    <3>1. BackendType'
      BY <2>10 DEF FindNothing, BackendType, backend
    <3>2. CallType'
      <4>1. left[c] - 1 \in Nat
        BY <2>10 DEF FindNothing, Looking, Progress, CallType
      <4>2. QED
        BY <2>10, <4>1 DEF FindNothing, CallType, GiveUp
    <3>3. HistoryType'
      BY <2>10 DEF FindNothing, HistoryType, BackendType, history, Reads
    <3>4. QED
      BY <3>1, <3>2, <3>3
  <2>11. CASE ReadBack(c)
    <3>1. BackendType'
      BY <2>11 DEF ReadBack, BackendType, backend
    <3>2. CallType'
      BY <2>11 DEF ReadBack, CallType, BackendType
    <3>3. HistoryType'
      BY <2>11 DEF ReadBack, HistoryType, BackendType, history
    <3>4. QED
      BY <3>1, <3>2, <3>3
  <2>12. QED
    BY <1>3, <2>1, <2>2, <2>3, <2>4, <2>5, <2>6, <2>7, <2>8, <2>9, <2>10, <2>11
    DEF Client
<1>4. CASE UNCHANGED vars
  BY <1>4 DEF vars, backend, history, BackendType, CallType, HistoryType
<1>5. QED
  BY <1>1, <1>2, <1>3, <1>4 DEF Next, Backend

-----------------------------------------------------------------------------
(* Each of the other parts of IInv is preserved by every step.             *)

LEMMA RentedAsAskedStep == IInv /\ [Next]_vars => RentedAsAsked'
<1> SUFFICES ASSUME IInv, [Next]_vars PROVE RentedAsAsked'
  OBVIOUS
<1> USE DEF IInv, TypeOK
<1>1. ASSUME UNCHANGED <<honours, post, host, title, want, sent>>
      PROVE  RentedAsAsked'
  BY <1>1 DEF RentedAsAsked, Exists
<1>2. ASSUME NEW c \in Calls, NEW k \in Tries, Serve(c, k) PROVE RentedAsAsked'
  <2> SUFFICES ASSUME NEW d \in Calls, NEW j \in Tries
               PROVE  /\ post'[<<d, j>>] # "unsent" => j <= sent'[d]
                      /\ Exists(<<d, j>>)' =>
                           /\ post'[<<d, j>>] = "rented"
                           /\ title'[<<d, j>>] = want'[d].name
                           /\ want'[d].kind = "up" => host'[<<d, j>>] = want'[d].node
                      /\ post'[<<d, j>>] = "rented" =>
                           Exists(<<d, j>>)' \/ Exists(<<d, 3 - j>>)'
                      /\ Exists(<<d, j>>)' /\ honours' => ~Exists(<<d, 3 - j>>)'
    BY DEF RentedAsAsked, Exists
  <2>1. /\ post[<<c, k>>] = "flying" /\ ~Exists(<<c, k>>) /\ k <= sent[c]
        /\ post' = [post EXCEPT ![<<c, k>>] = "rented"]
        /\ UNCHANGED <<want, sent, honours>>
    BY <1>2 DEF Serve, RentedAsAsked
  <2>2. /\ <<c, k>> \in Posts /\ <<d, j>> \in Posts
        /\ <<c, k>> \in Pods /\ <<d, j>> \in Pods
        /\ 3 - j \in Tries /\ 3 - k \in Tries
        /\ <<d, 3 - j>> \in Pods /\ <<d, 3 - j>> \in Posts
    BY PostsArePods
  <2>3. CASE honours /\ \E i \in Tries : post[<<c, i>>] = "rented"
    <3>1. UNCHANGED <<host, title>>
      BY <1>2, <2>3 DEF Serve
    <3>2. Exists(<<c, k>>) \/ Exists(<<c, 3 - k>>)
      BY <2>1, <2>3 DEF RentedAsAsked, Tries
    <3>3. CASE <<d, j>> = <<c, k>>
      BY <2>1, <2>2, <3>1, <3>2, <3>3 DEF BackendType, RentedAsAsked, Exists
    <3>4. CASE <<d, j>> # <<c, k>>
      <4>1. post'[<<d, j>>] = post[<<d, j>>]
        BY <2>1, <2>2, <3>4 DEF BackendType
      <4>2. QED
        BY <2>1, <3>1, <4>1 DEF RentedAsAsked, Exists
    <3>5. QED
      BY <3>3, <3>4
  <2>4. CASE ~(honours /\ \E i \in Tries : post[<<c, i>>] = "rented")
    <3>1. PICK n \in Nodes :
            /\ want[c].kind = "up" => n = want[c].node
            /\ host' = [host EXCEPT ![<<c, k>>] = n]
            /\ title' = [title EXCEPT ![<<c, k>>] = want[c].name]
      BY <1>2, <2>4 DEF Serve
    <3>2. n # NoNode
      BY RentAssumption
    <3>3. honours => ~Exists(<<c, 3 - k>>)
      BY <2>2, <2>4 DEF RentedAsAsked
    <3>4. CASE <<d, j>> = <<c, k>>
      <4>1. /\ host'[<<d, j>>] = n /\ title'[<<d, j>>] = want[c].name
            /\ post'[<<d, j>>] = "rented"
        BY <2>1, <2>2, <3>1, <3>4 DEF BackendType
      <4>2. <<d, 3 - j>> # <<c, k>> /\ d = c /\ j = k
        BY <3>4 DEF Tries
      <4>3. Exists(<<d, 3 - j>>)' = Exists(<<d, 3 - j>>)
        BY <2>2, <3>1, <4>2 DEF Exists, BackendType
      <4>4. QED
        BY <2>1, <3>1, <3>2, <3>3, <4>1, <4>2, <4>3 DEF Exists
    <3>5. CASE <<d, j>> # <<c, k>>
      <4>1. /\ post'[<<d, j>>] = post[<<d, j>>]
            /\ host'[<<d, j>>] = host[<<d, j>>]
            /\ title'[<<d, j>>] = title[<<d, j>>]
            /\ Exists(<<d, j>>)' = Exists(<<d, j>>)
        BY <2>1, <2>2, <3>1, <3>5 DEF BackendType, Exists
      <4>2. CASE <<d, 3 - j>> = <<c, k>>
        <5>1. d = c /\ j = 3 - k
          BY <4>2 DEF Tries
        <5>2. Exists(<<d, 3 - j>>)'
          BY <2>2, <3>1, <3>2, <4>2 DEF Exists, BackendType
        <5>3. honours => ~Exists(<<d, j>>)
          BY <3>3, <5>1
        <5>4. QED
          BY <2>1, <4>1, <5>1, <5>2, <5>3 DEF RentedAsAsked
      <4>3. CASE <<d, 3 - j>> # <<c, k>>
        <5>1. Exists(<<d, 3 - j>>)' = Exists(<<d, 3 - j>>)
          BY <2>2, <3>1, <4>3 DEF Exists, BackendType
        <5>2. QED
          BY <2>1, <4>1, <5>1 DEF RentedAsAsked
      <4>4. QED
        BY <4>2, <4>3
    <3>6. QED
      BY <3>4, <3>5
  <2>5. QED
    BY <2>3, <2>4
<1>3. ASSUME NEW c \in Calls, Send(c) PROVE RentedAsAsked'
  <2>1. sent[c] + 1 \in Tries
    BY <1>3 DEF Send, Progress, CallType, Tries
  <2>2. <<c, sent[c] + 1>> \in Posts /\ ~Exists(<<c, sent[c] + 1>>)
    <3>1. post[<<c, sent[c] + 1>>] = "unsent"
      <4>1. post[<<c, sent[c] + 1>>] # "unsent" => sent[c] + 1 <= sent[c]
        BY <2>1 DEF RentedAsAsked
      <4>2. sent[c] \in 0 .. 2
        BY DEF CallType
      <4>3. QED
        BY <4>1, <4>2
    <3>2. QED
      BY <2>1, <3>1 DEF RentedAsAsked, Posts
  <2>3. ASSUME NEW d \in Calls, NEW j \in Tries
        PROVE  /\ post'[<<d, j>>] # "unsent" => j <= sent'[d]
               /\ post'[<<d, j>>] = post[<<d, j>>] \/ ~Exists(<<d, j>>)
               /\ post'[<<d, j>>] = "rented" => post[<<d, j>>] = "rented"
    <3>1. <<d, j>> \in Posts
      BY PostsArePods
    <3>2. CASE <<d, j>> = <<c, sent[c] + 1>>
      <4>1. post'[<<d, j>>] = "flying" /\ j = sent'[d]
        BY <1>3, <3>1, <3>2 DEF Send, BackendType, CallType
      <4>2. j <= sent'[d]
        BY <4>1 DEF Tries
      <4>3. QED
        BY <2>2, <3>2, <4>1, <4>2
    <3>3. CASE <<d, j>> # <<c, sent[c] + 1>>
      <4>1. post'[<<d, j>>] = post[<<d, j>>]
        BY <1>3, <3>1, <3>3 DEF Send, BackendType
      <4>2. sent[d] \in 0 .. 2 /\ (sent'[d] = sent[d] \/ sent'[d] = sent[d] + 1)
        BY <1>3 DEF Send, CallType
      <4>3. post[<<d, j>>] # "unsent" => j <= sent[d]
        BY DEF RentedAsAsked
      <4>4. QED
        BY <4>1, <4>2, <4>3 DEF Tries
    <3>4. QED
      BY <3>2, <3>3
  <2>4. QED
    BY <1>3, <2>3 DEF Send, RentedAsAsked, Exists
<1>4. ASSUME NEW c \in Calls, Rejected(c) PROVE RentedAsAsked'
  <2>1. sent[c] \in Tries
    BY <1>4 DEF Rejected, Progress, CallType, Tries
  <2>2. <<c, sent[c]>> \in Posts /\ ~Exists(<<c, sent[c]>>)
    BY <1>4, <2>1 DEF Rejected, RentedAsAsked, Posts
  <2>3. ASSUME NEW d \in Calls, NEW j \in Tries
        PROVE  /\ post'[<<d, j>>] # "unsent" => j <= sent'[d]
               /\ post'[<<d, j>>] = post[<<d, j>>] \/ ~Exists(<<d, j>>)
               /\ post'[<<d, j>>] = "rented" => post[<<d, j>>] = "rented"
    <3>1. <<d, j>> \in Posts
      BY PostsArePods
    <3>2. post[<<d, j>>] # "unsent" => j <= sent'[d]
      BY <1>4 DEF Rejected, RentedAsAsked
    <3>3. CASE <<d, j>> = <<c, sent[c]>>
      <4>1. post[<<d, j>>] = "flying" /\ post'[<<d, j>>] = "refused"
        BY <1>4, <3>1, <3>3 DEF Rejected, BackendType
      <4>2. QED
        BY <2>2, <3>2, <3>3, <4>1
    <3>4. CASE <<d, j>> # <<c, sent[c]>>
      BY <1>4, <3>1, <3>2, <3>4 DEF Rejected, BackendType
    <3>5. QED
      BY <3>3, <3>4
  <2>4. QED
    <3>1. UNCHANGED <<honours, host, title, want, sent>>
      BY <1>4 DEF Rejected
    <3>2. ASSUME NEW d \in Calls, NEW j \in Tries
          PROVE  /\ Exists(<<d, j>>) =>
                      /\ post[<<d, j>>] = "rented"
                      /\ title[<<d, j>>] = want[d].name
                      /\ want[d].kind = "up" => host[<<d, j>>] = want[d].node
                 /\ post[<<d, j>>] = "rented" => Exists(<<d, j>>) \/ Exists(<<d, 3 - j>>)
                 /\ Exists(<<d, j>>) /\ honours => ~Exists(<<d, 3 - j>>)
      BY DEF RentedAsAsked
    <3>3. \A p : Exists(p)' <=> Exists(p)
      BY <3>1 DEF Exists
    <3>4. QED
      BY ONLY <2>3, <3>1, <3>2, <3>3 DEF RentedAsAsked
<1>5. ASSUME NEW c \in Calls, Client(c) PROVE RentedAsAsked'
  BY <1>1, <1>3, <1>4, <1>5
  DEF Client, Invalid, Snapshot, Unanswered, AnsweredRecord, AnsweredId,
      AnsweredNothing, FindPod, FindNothing, ReadBack, backend
<1>6. ASSUME NEW p \in Pods, Surface(p) PROVE RentedAsAsked'
  BY <1>1, <1>6 DEF Surface
<1>7. CASE UNCHANGED vars
  BY <1>1, <1>7 DEF vars, backend
<1>8. QED
  BY <1>2, <1>5, <1>6, <1>7 DEF Next, Backend

\* A pod that exists keeps its node and its name, a request that was served
\* stays served by the same pod, and what a call wants never changes.
LEMMA RentedStays ==
  ASSUME IInv, [Next]_vars
  PROVE  /\ \A p \in Pods : Exists(p) =>
              Exists(p)' /\ host'[p] = host[p] /\ title'[p] = title[p]
         /\ \A c \in Calls, k \in Tries : post[<<c, k>>] = "rented" =>
              post'[<<c, k>>] = "rented" /\ PodOf(c, k)' = PodOf(c, k)
         /\ \A c \in Calls, k \in Tries : post[<<c, k>>] = "refused" =>
              post'[<<c, k>>] = "refused"
         /\ want' = want /\ detailed' = detailed
<1> DEFINE Stays ==
      /\ \A p \in Pods : Exists(p) =>
           Exists(p)' /\ host'[p] = host[p] /\ title'[p] = title[p]
      /\ \A c \in Calls, k \in Tries : post[<<c, k>>] = "rented" =>
           post'[<<c, k>>] = "rented" /\ PodOf(c, k)' = PodOf(c, k)
      /\ \A c \in Calls, k \in Tries : post[<<c, k>>] = "refused" =>
           post'[<<c, k>>] = "refused"
      /\ want' = want /\ detailed' = detailed
<1> USE DEF IInv, TypeOK
<1>1. ASSUME NEW c \in Calls, NEW k \in Tries, Serve(c, k) PROVE Stays
  <2>1. <<c, k>> \in Posts /\ <<c, k>> \in Pods
    BY PostsArePods
  <2>2. ~Exists(<<c, k>>) /\ post[<<c, k>>] = "flying"
    BY <1>1 DEF Serve, RentedAsAsked
  <2>3. ASSUME NEW p \in Pods, Exists(p)
        PROVE  Exists(p)' /\ host'[p] = host[p] /\ title'[p] = title[p]
    <3>1. p # <<c, k>>
      BY <2>2, <2>3
    <3>2. QED
      BY <1>1, <2>1, <2>3, <3>1 DEF Serve, Exists, BackendType
  <2>4. ASSUME NEW d \in Calls, NEW j \in Tries, post[<<d, j>>] \in {"rented", "refused"}
        PROVE  post'[<<d, j>>] = post[<<d, j>>] /\ PodOf(d, j)' = PodOf(d, j)
    <3>1. <<d, j>> # <<c, k>> /\ <<d, j>> \in Posts /\ <<d, j>> \in Pods
      BY <2>2, <2>4, PostsArePods
    <3>2. post'[<<d, j>>] = post[<<d, j>>] /\ host'[<<d, j>>] = host[<<d, j>>]
      BY <1>1, <2>1, <3>1 DEF Serve, BackendType
    <3>3. QED
      BY <3>2 DEF PodOf, Exists
  <2>5. QED
    BY <1>1, <2>3, <2>4 DEF Serve
<1>2. ASSUME NEW c \in Calls, NEW k \in Tries, post[<<c, k>>] = "flying" \/ post[<<c, k>>] = "unsent",
             NEW v, post' = [post EXCEPT ![<<c, k>>] = v],
             UNCHANGED <<host, title, want, detailed>>
      PROVE  Stays
  <2>1. ASSUME NEW d \in Calls, NEW j \in Tries, post[<<d, j>>] \in {"rented", "refused"}
        PROVE  post'[<<d, j>>] = post[<<d, j>>] /\ PodOf(d, j)' = PodOf(d, j)
    <3>1. <<d, j>> # <<c, k>> /\ <<d, j>> \in Posts
      BY <1>2, <2>1, PostsArePods
    <3>2. QED
      BY <1>2, <3>1 DEF PodOf, Exists, BackendType
  <2>2. QED
    BY <1>2, <2>1 DEF Exists
<1>3. ASSUME UNCHANGED <<post, host, title, want, detailed>> PROVE Stays
  BY <1>3 DEF Exists, PodOf
<1>4. ASSUME NEW c \in Calls, Client(c) PROVE Stays
  <2>1. CASE Send(c)
    <3>1. sent[c] + 1 \in Tries
      BY <2>1 DEF Send, Progress, CallType, Tries
    <3>2. post[<<c, sent[c] + 1>>] = "unsent"
      <4>1. post[<<c, sent[c] + 1>>] # "unsent" => sent[c] + 1 <= sent[c]
        BY <3>1 DEF RentedAsAsked
      <4>2. sent[c] \in 0 .. 2
        BY DEF CallType
      <4>3. QED
        BY <4>1, <4>2
    <3>3. /\ post' = [post EXCEPT ![<<c, sent[c] + 1>>] = "flying"]
          /\ UNCHANGED <<host, title, want, detailed>>
      BY <2>1 DEF Send
    <3>4. QED
      BY <1>2, <3>1, <3>2, <3>3
  <2>2. CASE Rejected(c)
    <3>1. sent[c] \in Tries
      BY <2>2 DEF Rejected, Progress, CallType, Tries
    <3>2. /\ post' = [post EXCEPT ![<<c, sent[c]>>] = "refused"]
          /\ post[<<c, sent[c]>>] = "flying"
          /\ UNCHANGED <<host, title, want, detailed>>
      BY <2>2 DEF Rejected
    <3>3. QED
      BY <1>2, <3>1, <3>2
  <2>3. CASE ~Send(c) /\ ~Rejected(c)
    BY <1>3, <1>4, <2>3
    DEF Client, Invalid, Snapshot, Unanswered, AnsweredRecord, AnsweredId,
        AnsweredNothing, FindPod, FindNothing, ReadBack, backend
  <2>4. QED
    BY <2>1, <2>2, <2>3
<1>5. ASSUME NEW p \in Pods, Surface(p) PROVE Stays
  BY <1>3, <1>5 DEF Surface
<1>6. CASE UNCHANGED vars
  BY <1>3, <1>6 DEF vars, backend
<1>7. Stays
  BY <1>1, <1>4, <1>5, <1>6 DEF Next, Backend
<1>8. QED
  BY <1>7

LEMMA ListingsLagStep == IInv /\ [Next]_vars => ListingsLag'
<1> SUFFICES ASSUME IInv, [Next]_vars PROVE ListingsLag'
  OBVIOUS
<1> USE DEF IInv, TypeOK
<1>1. ASSUME UNCHANGED <<known, before, listed>> PROVE ListingsLag'
  BY <1>1, RentedStays DEF ListingsLag, BackendType
<1>2. ASSUME NEW p \in Pods, Surface(p) PROVE ListingsLag'
  BY <1>2, RentedStays DEF ListingsLag, BackendType, Surface, history, Exists
<1>3. ASSUME NEW c \in Calls, Snapshot(c) PROVE ListingsLag'
  <2>1. listed \cap ({c} \X Tries) = {}
    <3>1. ASSUME NEW k \in Tries PROVE ~Exists(<<c, k>>)
      <4>1. sent[c] = 0
        BY <1>3 DEF Snapshot, Progress
      <4>2. /\ post[<<c, k>>] # "unsent" => k <= sent[c]
            /\ Exists(<<c, k>>) => post[<<c, k>>] = "rented"
        BY DEF RentedAsAsked
      <4>3. QED
        BY <4>1, <4>2 DEF Tries
    <3>2. QED
      BY <3>1 DEF ListingsLag
  <2>2. listed' = listed /\ \A p \in listed' : Exists(p)'
    BY <1>3, RentedStays DEF Snapshot, backend, ListingsLag, BackendType
  <2>3. ASSUME NEW d \in Calls
        PROVE  /\ known'[d] = before'[d] \/ known'[d] = {}
               /\ before'[d] \subseteq listed'
               /\ before'[d] \cap ({d} \X Tries) = {}
    <3>1. CASE d = c
      BY <1>3, <2>1, <2>2, <3>1 DEF Snapshot, CallType, HistoryType
    <3>2. CASE d # c
      BY <1>3, <2>2, <3>2 DEF Snapshot, CallType, HistoryType, ListingsLag
    <3>3. QED
      BY <3>1, <3>2
  <2>4. QED
    BY <2>2, <2>3 DEF ListingsLag
<1>4. ASSUME NEW c \in Calls, Client(c), ~Snapshot(c) PROVE ListingsLag'
  BY <1>1, <1>4
  DEF Client, Invalid, Send, Unanswered, Rejected, AnsweredRecord, AnsweredId,
      AnsweredNothing, FindPod, FindNothing, ReadBack, backend, history
<1>5. ASSUME NEW c \in Calls, NEW k \in Tries, Serve(c, k) PROVE ListingsLag'
  BY <1>1, <1>5 DEF Serve, history
<1>6. CASE UNCHANGED vars
  BY <1>1, <1>6 DEF vars, backend, history
<1>7. QED
  BY <1>2, <1>3, <1>4, <1>5, <1>6 DEF Next, Backend

LEMMA ProgressStep == IInv /\ [Next]_vars => Progress'
<1> SUFFICES ASSUME IInv, [Next]_vars PROVE Progress'
  OBVIOUS
<1> USE DEF IInv, TypeOK
<1>1. ASSUME UNCHANGED <<want, pc, sent, left, before, seen, lost>> PROVE Progress'
  BY <1>1 DEF Progress, Ended
<1>2. ASSUME NEW c \in Calls, Client(c) PROVE Progress'
  <2> DEFINE OneCall(d) ==
        /\ pc[d] = "start" => sent[d] = 0 /\ before[d] = {}
        /\ pc[d] = "post" => sent[d] < 2
        /\ pc[d] \in {"wait", "find", "fallback", "readback"} => sent[d] > 0
        /\ pc[d] = "find" => sent[d] = 1
        /\ pc[d] \in {"find", "fallback", "readback"} => left[d] > 0
        /\ sent[d] = 2 \/ (pc[d] = "post" /\ sent[d] = 1) => want[d].kind = "up"
        /\ sent[d] = 1 /\ pc[d] \in {"post", "find"} => 1 \in lost[d]
        /\ sent[d] = 2 => 1 \in lost[d]
        /\ d \in seen => Ended(d) /\ sent[d] = 1
  <2>1. OneCall(c) /\ sent[c] \in 0 .. 2 /\ left[c] \in Nat /\ want' = want
    BY RentedStays DEF Progress, CallType
  <2>2. ASSUME NEW d \in Calls, d # c PROVE OneCall(d)'
    <3>1. OneCall(d)
      BY DEF Progress
    <3>2. /\ pc'[d] = pc[d] /\ sent'[d] = sent[d] /\ left'[d] = left[d]
          /\ before'[d] = before[d] /\ lost'[d] = lost[d]
          /\ d \in seen' <=> d \in seen
      BY <1>2, <2>2 DEF CallType, HistoryType, Client, Invalid, Snapshot, Send,
        Unanswered, Rejected, AnsweredRecord, AnsweredId, AnsweredNothing,
        FindPod, FindNothing, ReadBack, Reads, history
    <3>3. QED
      BY <2>1, <3>1, <3>2 DEF Ended
  <2>3. OneCall(c)'
    <3>1. CASE Invalid(c)
      BY <2>1, <3>1 DEF Invalid, CallType, Ended, history
    <3>2. CASE Snapshot(c)
      BY <2>1, <3>2 DEF Snapshot, CallType, Ended
    <3>3. CASE Send(c)
      BY <2>1, <3>3 DEF Send, CallType, Ended, history
    <3>4. CASE Unanswered(c)
      BY <2>1, <3>4, RentAssumption DEF Unanswered, CallType, HistoryType, Ended
    <3>5. CASE Rejected(c)
      BY <2>1, <3>5 DEF Rejected, CallType, Ended, history
    <3>6. CASE AnsweredRecord(c)
      BY <2>1, <3>6 DEF AnsweredRecord, CallType, Ended, history
    <3>7. CASE AnsweredId(c)
      BY <2>1, <3>7, RentAssumption DEF AnsweredId, CallType, Ended, history
    <3>8. CASE AnsweredNothing(c)
      BY <2>1, <3>8, RentAssumption DEF AnsweredNothing, CallType, Ended
    <3>9. CASE FindPod(c)
      BY <2>1, <3>9 DEF FindPod, Looking, Reads, CallType, Ended
    <3>10. CASE FindNothing(c)
      <4>1. c \in seen' <=> c \in seen
        <5>1. CASE Reads(c) = {}
          BY <3>10, <5>1 DEF FindNothing
        <5>2. CASE Reads(c) # {}
          <6>1. <<c, 1>> \in listed /\ pc[c] = "find"
            BY <5>2 DEF Reads
          <6>2. 1 \in Tries /\ Exists(<<c, 1>>)
            BY <6>1 DEF Tries, ListingsLag
          <6>3. /\ title[<<c, 1>>] = want[c].name
                /\ want[c].kind = "up" => host[<<c, 1>>] = want[c].node
            BY <6>2 DEF RentedAsAsked
          <6>4. <<c, 1>> \notin known[c]
            BY <6>2 DEF ListingsLag
          <6>5. want[c].kind = "up" \/ want[c].kind = "spec"
            BY RentAssumption DEF CallType
          <6>6. <<c, 1>> \in Matching(c)
            BY <6>1, <6>3, <6>4, <6>5 DEF Matching
          <6>7. QED
            BY <3>10, <6>6 DEF FindNothing
        <5>3. QED
          BY <5>1, <5>2
      <4>2. /\ pc[c] \in {"find", "fallback"}
            /\ pc'[c] = IF left[c] = 1 THEN GiveUp(c) ELSE pc[c]
            /\ left'[c] = left[c] - 1
            /\ UNCHANGED <<sent, before, lost, want>>
        BY <3>10 DEF FindNothing, Looking, CallType
      <4>3. QED
        BY <2>1, <4>1, <4>2 DEF GiveUp, Ended
    <3>11. CASE ReadBack(c)
      BY <2>1, <3>11 DEF ReadBack, CallType, Ended, history
    <3>12. QED
      BY <1>2, <3>1, <3>2, <3>3, <3>4, <3>5, <3>6, <3>7, <3>8, <3>9, <3>10, <3>11
      DEF Client
  <2>4. QED
    BY <2>2, <2>3 DEF Progress
<1>3. ASSUME NEW c \in Calls, NEW k \in Tries, Serve(c, k) PROVE Progress'
  BY <1>1, <1>3 DEF Serve, history
<1>4. ASSUME NEW p \in Pods, Surface(p) PROVE Progress'
  BY <1>1, <1>4 DEF Surface, history
<1>5. CASE UNCHANGED vars
  BY <1>1, <1>5 DEF vars, history
<1>6. QED
  BY <1>2, <1>3, <1>4, <1>5 DEF Next, Backend

LEMMA AccountedStep == IInv /\ [Next]_vars => Accounted'
<1> SUFFICES ASSUME IInv, [Next]_vars PROVE Accounted'
  OBVIOUS
<1> DEFINE Kept(c, k) ==
      \/ k \in lost[c]
      \/ c \in silent
      \/ post[<<c, k>>] = "refused"
    OnePost(c, k) == k <= sent[c] =>
      \/ Kept(c, k)
      \/ pc[c] = "wait" /\ k = sent[c]
      \/ post[<<c, k>>] = "rented" /\ pc[c] = "readback" /\ named[c] = PodOf(c, k)
      \/ post[<<c, k>>] = "rented" /\ pc[c] = "done" /\ result[c] = PodOf(c, k)
<1>1. \A c \in Calls, k \in Tries : OnePost(c, k)
  BY DEF IInv, Accounted
<1>2. TypeOK /\ Progress
  BY DEF IInv
<1>3. ASSUME NEW c \in Calls, NEW k \in Tries,
             pc'[c] = pc[c], sent'[c] = sent[c], named'[c] = named[c],
             result'[c] = result[c], lost'[c] = lost[c], c \in silent' <=> c \in silent
      PROVE  OnePost(c, k)'
  <2>1. /\ post[<<c, k>>] = "rented" => post'[<<c, k>>] = "rented" /\ PodOf(c, k)' = PodOf(c, k)
        /\ post[<<c, k>>] = "refused" => post'[<<c, k>>] = "refused"
    BY RentedStays
  <2>2. OnePost(c, k)
    BY <1>1
  <2>3. QED
    BY <1>3, <2>1, <2>2
<1>4. ASSUME UNCHANGED <<pc, sent, named, result, lost, silent>> PROVE Accounted'
  BY <1>3, <1>4 DEF Accounted
<1>5. ASSUME NEW c \in Calls, Client(c) PROVE Accounted'
  <2>1. ASSUME NEW d \in Calls, d # c, NEW k \in Tries PROVE OnePost(d, k)'
    <3>1. /\ pc'[d] = pc[d] /\ sent'[d] = sent[d] /\ named'[d] = named[d]
          /\ result'[d] = result[d] /\ lost'[d] = lost[d]
          /\ d \in silent' <=> d \in silent
      BY <1>2, <1>5, <2>1 DEF TypeOK, CallType, HistoryType, Client, Invalid, Snapshot,
        Send, Unanswered, Rejected, AnsweredRecord, AnsweredId, AnsweredNothing,
        FindPod, FindNothing, ReadBack, history
    <3>2. QED
      BY <1>3, <3>1
  <2>2. ASSUME NEW k \in Tries PROVE OnePost(c, k)'
    <3>1. /\ OnePost(c, k) /\ k \in {1, 2} /\ sent[c] \in 0 .. 2
          /\ pc[c] = "start" => sent[c] = 0
          /\ pc[c] = "post" => sent[c] < 2
          /\ pc[c] \in {"wait", "find", "fallback", "readback"} => sent[c] > 0
          /\ sent[c] = 1 /\ pc[c] \in {"post", "find"} => 1 \in lost[c]
          /\ sent[c] = 2 => 1 \in lost[c]
      BY <1>1, <1>2 DEF TypeOK, CallType, Progress, Tries
    <3>2. /\ post[<<c, k>>] = "rented" => post'[<<c, k>>] = "rented" /\ PodOf(c, k)' = PodOf(c, k)
          /\ post[<<c, k>>] = "refused" => post'[<<c, k>>] = "refused"
      BY RentedStays
    <3>3. Kept(c, k) => Kept(c, k)'
      BY <1>2, <1>5, <3>2 DEF TypeOK, HistoryType, Client, Invalid, Snapshot,
        Send, Unanswered, Rejected, AnsweredRecord, AnsweredId, AnsweredNothing,
        FindPod, FindNothing, ReadBack, history
    <3>4. CASE Invalid(c)
      BY <3>1, <3>4 DEF Invalid
    <3>5. CASE Snapshot(c)
      BY <3>1, <3>5 DEF Snapshot
    <3>6. CASE Send(c)
      <4>1. pc'[c] = "wait" /\ sent'[c] = sent[c] + 1 /\ pc[c] = "post" /\ lost'[c] = lost[c]
        BY <1>2, <3>6 DEF Send, TypeOK, CallType, history
      <4>2. QED
        BY <3>1, <4>1
    <3>7. CASE Unanswered(c)
      <4>1. /\ lost'[c] = lost[c] \cup {sent[c]} /\ sent'[c] = sent[c]
            /\ pc[c] = "wait"
        BY <1>2, <3>7 DEF Unanswered, TypeOK, HistoryType
      <4>2. QED
        BY <3>1, <4>1
    <3>8. CASE Rejected(c)
      <4>1. <<c, k>> \in Posts
        BY PostsArePods
      <4>2. /\ post' = [post EXCEPT ![<<c, sent[c]>>] = "refused"]
            /\ pc[c] = "wait" /\ sent'[c] = sent[c] /\ lost'[c] = lost[c]
        BY <3>8 DEF Rejected, history
      <4>3. k = sent[c] => post'[<<c, k>>] = "refused"
        BY <1>2, <4>1, <4>2 DEF TypeOK, BackendType
      <4>4. QED
        BY <3>1, <4>2, <4>3
    <3>9. CASE AnsweredRecord(c)
      <4>1. /\ pc[c] = "wait" /\ pc'[c] = "done" /\ sent'[c] = sent[c] /\ lost'[c] = lost[c]
            /\ result'[c] = PodOf(c, sent[c]) /\ post[<<c, sent[c]>>] = "rented"
        BY <1>2, <3>9 DEF AnsweredRecord, TypeOK, CallType, history
      <4>2. QED
        BY <3>1, <3>2, <4>1
    <3>10. CASE AnsweredId(c)
      <4>1. /\ pc[c] = "wait" /\ pc'[c] = "readback" /\ sent'[c] = sent[c] /\ lost'[c] = lost[c]
            /\ named'[c] = PodOf(c, sent[c]) /\ post[<<c, sent[c]>>] = "rented"
        BY <1>2, <3>10 DEF AnsweredId, TypeOK, CallType, history
      <4>2. QED
        BY <3>1, <3>2, <4>1
    <3>11. CASE AnsweredNothing(c)
      BY <3>11 DEF AnsweredNothing
    <3>12. CASE FindPod(c)
      BY <3>1, <3>3, <3>12 DEF FindPod, Looking
    <3>13. CASE FindNothing(c)
      BY <3>1, <3>3, <3>13 DEF FindNothing, Looking
    <3>14. CASE ReadBack(c)
      <4>1. /\ pc[c] = "readback" /\ sent'[c] = sent[c] /\ named'[c] = named[c]
            /\ pc'[c] = "readback" \/ (pc'[c] = "done" /\ result'[c] = named[c])
        BY <1>2, <3>14 DEF ReadBack, TypeOK, CallType
      <4>2. QED
        BY <3>1, <3>2, <3>3, <4>1
    <3>15. QED
      BY <1>5, <3>4, <3>5, <3>6, <3>7, <3>8, <3>9, <3>10, <3>11, <3>12, <3>13, <3>14
      DEF Client
  <2>3. QED
    BY <2>1, <2>2 DEF Accounted
<1>6. ASSUME NEW c \in Calls, NEW k \in Tries, Serve(c, k) PROVE Accounted'
  BY <1>4, <1>6 DEF Serve, history
<1>7. ASSUME NEW p \in Pods, Surface(p) PROVE Accounted'
  BY <1>4, <1>7 DEF Surface, history
<1>8. CASE UNCHANGED vars
  BY <1>4, <1>8 DEF vars, history
<1>9. QED
  BY <1>5, <1>6, <1>7, <1>8 DEF Next, Backend

LEMMA AnswersStep == IInv /\ [Next]_vars => Answers'
<1> SUFFICES ASSUME IInv, [Next]_vars PROVE Answers'
  OBVIOUS
<1> DEFINE Own(c) == {c} \X Tries
    Right(c, p) ==
      /\ Exists(p) /\ title[p] = want[c].name
      /\ p \in Own(c) \/ p \notin known[c]
      /\ \/ p \in Own(c)
         \/ want[c].kind = "spec" \/ ~detailed
         \/ host[p] = want[c].node
    OneCall(c) ==
      /\ named[c] # NoPod =>
           /\ named[c] \in Own(c) /\ Exists(named[c])
           /\ pc[c] = "readback" \/ (pc[c] = "done" /\ result[c] = named[c])
      /\ pc[c] = "readback" => named[c] # NoPod
      /\ result[c] # NoPod => pc[c] = "done" /\ sent[c] > 0 /\ Right(c, result[c])
<1>1. /\ TypeOK /\ Progress /\ RentedAsAsked
      /\ \A c \in Calls : OneCall(c)
  BY DEF IInv, Answers
<1>2. (\A c \in Calls : OneCall(c)') => Answers'
  BY DEF Answers
<1>3. ASSUME NEW c \in Calls, NEW p \in Pods, Right(c, p), known'[c] = known[c]
      PROVE  Right(c, p)'
  BY <1>3, RentedStays
<1>4. ASSUME NEW c \in Calls, NEW p \in Own(c), Exists(p) PROVE Right(c, p)
  <2>1. PICK k \in Tries : p = <<c, k>>
    OBVIOUS
  <2>2. title[<<c, k>>] = want[c].name
    BY <1>1, <1>4, <2>1 DEF RentedAsAsked
  <2>3. QED
    BY <1>4, <2>1, <2>2
<1>5. ASSUME NEW c \in Calls, pc'[c] = pc[c], sent'[c] = sent[c], known'[c] = known[c],
             named'[c] = named[c], result'[c] = result[c]
      PROVE  OneCall(c)'
  <2>1. result[c] # NoPod => Right(c, result[c])'
    BY <1>1, <1>3, <1>5 DEF TypeOK, CallType
  <2>2. named[c] # NoPod => named[c] \in Pods
    BY <1>1 DEF TypeOK, CallType
  <2>3. named[c] # NoPod => Exists(named[c])'
    <3>1. SUFFICES ASSUME named[c] # NoPod PROVE host'[named[c]] # NoNode
      BY <1>5 DEF Exists
    <3>2. PICK p \in Pods : p = named[c] /\ Exists(p)
      BY <1>1, <2>2, <3>1
    <3>3. QED
      BY <3>2, RentedStays DEF Exists
  <2>4. QED
    BY <1>1, <1>5, <2>1, <2>3 DEF Exists
<1>6. ASSUME UNCHANGED <<pc, sent, known, named, result>> PROVE Answers'
  BY <1>2, <1>5, <1>6
<1>7. ASSUME NEW c \in Calls, Client(c) PROVE Answers'
  <2>1. ASSUME NEW d \in Calls, d # c PROVE OneCall(d)'
    <3>1. /\ pc'[d] = pc[d] /\ sent'[d] = sent[d] /\ named'[d] = named[d]
          /\ result'[d] = result[d] /\ known'[d] = known[d]
      BY <1>1, <1>7, <2>1 DEF TypeOK, CallType, Client, Invalid, Snapshot,
        Send, Unanswered, Rejected, AnsweredRecord, AnsweredId, AnsweredNothing,
        FindPod, FindNothing, ReadBack
    <3>2. QED
      BY <1>5, <3>1
  <2>2. ASSUME pc[c] \notin {"readback", "done"}, UNCHANGED <<named, result>>,
               pc'[c] # "readback"
        PROVE  OneCall(c)'
    <3>1. named[c] = NoPod /\ result[c] = NoPod
      BY <1>1, <2>2
    <3>2. QED
      BY <2>2, <3>1
  <2>3. ASSUME pc[c] = "wait", post[<<c, sent[c]>>] = "rented"
        PROVE  /\ PodOf(c, sent[c]) \in Own(c) /\ PodOf(c, sent[c]) \in Pods
               /\ PodOf(c, sent[c]) # NoPod /\ sent[c] > 0
               /\ Exists(PodOf(c, sent[c]))
               /\ Right(c, PodOf(c, sent[c]))
    <3>1. sent[c] \in Tries
      BY <1>1, <2>3 DEF TypeOK, CallType, Progress, Tries
    <3>2. Exists(PodOf(c, sent[c]))
      BY <1>1, <2>3, <3>1 DEF RentedAsAsked, PodOf
    <3>3. PodOf(c, sent[c]) \in Own(c)
      BY <3>1 DEF PodOf, Tries
    <3>4. Right(c, PodOf(c, sent[c]))
      BY <1>4, <3>2, <3>3
    <3>5. PodOf(c, sent[c]) \in Pods /\ PodOf(c, sent[c]) # NoPod
      BY <3>1, PostsArePods
    <3>6. sent[c] > 0
      BY <3>1 DEF Tries
    <3>7. QED
      BY <3>2, <3>3, <3>4, <3>5, <3>6
  <2>4. OneCall(c)'
    <3>1. CASE AnsweredRecord(c)
      <4>1. /\ pc[c] = "wait" /\ post[<<c, sent[c]>>] = "rented" /\ named'[c] = named[c]
            /\ pc'[c] = "done" /\ result'[c] = PodOf(c, sent[c])
            /\ sent'[c] = sent[c] /\ known'[c] = known[c]
        BY <1>1, <3>1 DEF AnsweredRecord, TypeOK, CallType
      <4>2. PICK p \in Pods : p = PodOf(c, sent[c]) /\ Right(c, p)
        BY <2>3, <4>1
      <4>3. named[c] = NoPod /\ sent[c] > 0
        BY <1>1, <2>3, <4>1
      <4>4. Right(c, p)'
        BY <1>3, <4>1, <4>2
      <4>5. QED
        BY <4>1, <4>2, <4>3, <4>4
    <3>2. CASE AnsweredId(c)
      <4>1. /\ pc[c] = "wait" /\ post[<<c, sent[c]>>] = "rented"
            /\ named'[c] = PodOf(c, sent[c])
            /\ pc'[c] = "readback" /\ result'[c] = result[c]
        BY <1>1, <3>2 DEF AnsweredId, TypeOK, CallType
      <4>2. PICK p \in Pods : p = PodOf(c, sent[c]) /\ p \in Own(c) /\ Exists(p) /\ p # NoPod
        BY <2>3, <4>1
      <4>3. result[c] = NoPod
        BY <1>1, <4>1
      <4>4. Exists(p)'
        BY <4>2, RentedStays
      <4>5. QED
        BY <4>1, <4>2, <4>3, <4>4
    <3>3. CASE ReadBack(c)
      <4>1. /\ pc[c] = "readback" /\ named'[c] = named[c] /\ sent'[c] = sent[c]
            /\ known'[c] = known[c]
            /\ \/ pc'[c] = "done" /\ result'[c] = named[c]
               \/ pc'[c] = "readback" /\ result'[c] = result[c]
        BY <1>1, <3>3 DEF ReadBack, TypeOK, CallType
      <4>2. /\ named[c] # NoPod /\ result[c] = NoPod /\ sent[c] > 0
            /\ named[c] \in Pods /\ named[c] \in Own(c) /\ Exists(named[c])
        BY <1>1, <4>1 DEF TypeOK, CallType, Progress
      <4>3. PICK p \in Pods : p = named[c] /\ p \in Own(c) /\ Exists(p)
        BY <4>2
      <4>4. Right(c, p)' /\ Exists(p)'
        BY <1>3, <1>4, <4>1, <4>3
      <4>5. QED
        BY <4>1, <4>2, <4>3, <4>4
    <3>4. CASE FindPod(c)
      <4>1. pc[c] \in {"find", "fallback"} /\ UNCHANGED <<named, known, sent>>
        BY <3>4 DEF FindPod, Looking
      <4>2. named[c] = NoPod /\ result[c] = NoPod /\ sent[c] > 0
        BY <1>1, <4>1 DEF Progress
      <4>3. PICK p \in Matching(c) :
              \/ pc'[c] = "failed" /\ result' = result
              \/ pc'[c] = "done" /\ result'[c] = p
        BY <1>1, <3>4 DEF FindPod, TypeOK, CallType
      <4>4. p \in Pods /\ Right(c, p)
        BY <1>1 DEF IInv, TypeOK, BackendType, Matching, ListingsLag
      <4>5. Right(c, p)'
        BY <4>1, <4>4, RentedStays
      <4>6. QED
        BY <4>1, <4>2, <4>3, <4>5
    <3>5. CASE ~(AnsweredRecord(c) \/ AnsweredId(c) \/ ReadBack(c) \/ FindPod(c))
      BY <1>1, <1>7, <2>2, <3>5
      DEF TypeOK, CallType, Client, Invalid, Snapshot, Send, Unanswered, Rejected,
          AnsweredNothing, FindNothing, Looking, GiveUp
    <3>6. QED
      BY <3>1, <3>2, <3>3, <3>4, <3>5
  <2>5. QED
    BY <1>2, <2>1, <2>4
<1>8. ASSUME NEW c \in Calls, NEW k \in Tries, Serve(c, k) PROVE Answers'
  BY <1>6, <1>8 DEF Serve
<1>9. ASSUME NEW p \in Pods, Surface(p) PROVE Answers'
  BY <1>6, <1>9 DEF Surface
<1>10. CASE UNCHANGED vars
  BY <1>6, <1>10 DEF vars
<1>11. QED
  BY <1>7, <1>8, <1>9, <1>10 DEF Next, Backend

-----------------------------------------------------------------------------
LEMMA InitIInv == Init => IInv
<1> SUFFICES ASSUME Init PROVE IInv
  OBVIOUS
<1>1. TypeOK
  BY InitType
<1>2. ASSUME NEW c \in Calls, NEW k \in Tries
      PROVE  ~Exists(<<c, k>>) /\ post[<<c, k>>] = "unsent"
  BY <1>2, PostsArePods DEF Init, Exists
<1>3. RentedAsAsked
  BY <1>2 DEF RentedAsAsked
<1>4. ListingsLag
  <2>1. ASSUME NEW p \in OldPods PROVE Exists(p)
    <3>1. PICK at \in [OldPods -> Nodes] :
            host = [q \in Pods |-> IF q \in OldPods THEN at[q] ELSE NoNode]
      BY DEF Init
    <3>2. host[p] \in Nodes
      BY <3>1 DEF Pods
    <3>3. QED
      BY <3>2, RentAssumption DEF Exists
  <2>2. QED
    BY <2>1 DEF Init, ListingsLag
<1>5. Progress
  <2>1. ASSUME NEW c \in Calls
        PROVE  pc[c] = "start" /\ sent[c] = 0 /\ before[c] = {} /\ c \notin seen
    BY DEF Init
  <2>2. ASSUME NEW c \in Calls
        PROVE  /\ pc[c] \notin {"post", "wait", "find", "fallback", "readback"}
               /\ sent[c] < 2 /\ sent[c] # 2
    BY <2>1
  <2>3. QED
    BY ONLY <2>1, <2>2 DEF Progress
<1>6. Accounted
  BY DEF Init, Accounted, Tries
<1>7. Answers
  BY DEF Init, Answers
<1>8. QED
  BY <1>1, <1>3, <1>4, <1>5, <1>6, <1>7 DEF IInv

LEMMA NextIInv == IInv /\ [Next]_vars => IInv'
BY NextType, RentedAsAskedStep, ListingsLagStep, ProgressStep, AccountedStep, AnswersStep
DEF IInv

\* IInv, the inductive invariant the other theorems rest on: what became of
\* every POST of every call, and what the call knows of it, at every step of
\* Lium.up and Lium._rent_on_server.
THEOREM RentInvariant == Spec => []IInv
<1>1. Init => IInv
  BY InitIInv
<1>2. IInv /\ [Next]_vars => IInv'
  BY NextIInv
<1>3. QED
  BY <1>1, <1>2, PTL DEF Spec

\* Type correctness of the calls, the backend and the history variables.
THEOREM TypeCorrect == Spec => []TypeOK
<1>1. IInv => TypeOK
  BY DEF IInv
<1>2. QED
  BY <1>1, RentInvariant, PTL

\* For any number of concurrent calls and listings: a call that could see the
\* pod of its unanswered POST does not rent a second one, and a server that
\* honours the Idempotency-Key never makes two pods for one call.
THEOREM SecondPodSafe == Spec => []SecondPodOnlyUnseen
<1>1. IInv => SecondPodOnlyUnseen
  <2> SUFFICES ASSUME IInv, NEW c \in Calls, Exists(<<c, 1>>), Exists(<<c, 2>>)
               PROVE  ~honours /\ c \notin seen
    BY DEF SecondPodOnlyUnseen
  <2>1. ~honours
    <3>1. 1 \in Tries /\ 3 - 1 = 2
      BY DEF Tries
    <3>2. Exists(<<c, 1>>) /\ honours => ~Exists(<<c, 3 - 1>>)
      BY <3>1 DEF IInv, RentedAsAsked
    <3>3. QED
      BY <3>1, <3>2
  <2>2. sent[c] # 1
    <3>1. 2 \in Tries
      BY DEF Tries
    <3>2. 2 <= sent[c]
      BY <3>1 DEF IInv, RentedAsAsked
    <3>3. QED
      BY <3>2
  <2>3. QED
    BY <2>1, <2>2 DEF IInv, Progress
<1>2. QED
  BY <1>1, RentInvariant, PTL

\* For any number of concurrent calls and older pods: the pod a call hands back
\* exists, bears the name asked for, and is the call's own or one its snapshot
\* did not hold.
THEOREM HandedBackNew == Spec => []HandedBackIsNew
<1>1. IInv => HandedBackIsNew
  <2> SUFFICES ASSUME IInv, NEW c \in Calls, result[c] # NoPod
               PROVE  /\ Exists(result[c])
                      /\ title[result[c]] = want[c].name
                      /\ result[c] \in before[c] => known[c] # before[c]
                      /\ \/ result[c] \in {c} \X Tries
                         \/ want[c].kind = "spec" \/ ~detailed
                         \/ host[result[c]] = want[c].node
    BY DEF HandedBackIsNew
  <2>1. before[c] \cap ({c} \X Tries) = {}
    BY DEF IInv, ListingsLag
  <2>2. QED
    BY <2>1 DEF IInv, Answers
<1>2. QED
  BY <1>1, RentInvariant, PTL

\* A pod rented for a call and not handed back means an answer was lost or did
\* not say what it rented: no other path of the code drops a rented pod.
THEOREM OrphansExplained == Spec => []OrphanNeedsLostAnswer
<1>1. IInv => OrphanNeedsLostAnswer
  <2> SUFFICES ASSUME IInv, NEW c \in Calls, NEW k \in Tries, Ended(c),
                      Exists(<<c, k>>), result[c] # <<c, k>>
               PROVE  k \in lost[c] \/ c \in silent
    BY DEF OrphanNeedsLostAnswer
  <2>1. post[<<c, k>>] = "rented" /\ k <= sent[c]
    BY DEF IInv, RentedAsAsked
  <2>2. PodOf(c, k) = <<c, k>>
    BY DEF PodOf
  <2>3. QED
    BY <2>1, <2>2 DEF IInv, Accounted, Ended
<1>2. QED
  BY <1>1, RentInvariant, PTL

\* Once an answer names a pod, the call ends with that pod whatever the listings
\* it reads afterwards show.
THEOREM NamedPodKept == Spec => []NamedPodHandedBack
<1>1. IInv => NamedPodHandedBack
  BY DEF IInv, Answers, NamedPodHandedBack
<1>2. QED
  BY <1>1, RentInvariant, PTL

-----------------------------------------------------------------------------
(* The protocol implements RentPromise: initial states and steps.          *)

LEMMA PromiseInit == Init => P!Init
<1> SUFFICES ASSUME Init PROVE P!Init
  OBVIOUS
<1>1. {p \in Pods : Exists(p)} = OldPods
  BY RentAssumption DEF Init, Exists, Pods
<1>2. QED
  BY <1>1 DEF Init, P!Init, Ended

LEMMA PromiseStep == IInv /\ IInv' /\ [Next]_vars => [P!Next]_P!vars
<1> SUFFICES ASSUME IInv, IInv', [Next]_vars PROVE [P!Next]_P!vars
  OBVIOUS
<1> DEFINE limit == [c \in Calls |-> IF want[c].kind = "up" THEN 2 ELSE 1]
           status == [c \in Calls |-> IF pc[c] = "start" THEN "idle"
                                      ELSE IF Ended(c) THEN "ended" ELSE "open"]
           rented == {p \in Pods : Exists(p)}
<1>1. TypeOK /\ Progress /\ RentedAsAsked /\ TypeOK' /\ Answers' /\ Answers
  BY DEF IInv
<1>2. UNCHANGED <<limit>> /\ (UNCHANGED host => UNCHANGED rented)
  BY RentedStays DEF Exists
<1>3. ASSUME UNCHANGED <<honours, host, pc, sent, result>> PROVE UNCHANGED P!vars
  BY <1>2, <1>3 DEF P!vars, Ended
<1>4. ASSUME NEW c \in Calls, NEW k \in Tries, Serve(c, k) PROVE [P!Next]_P!vars
  <2>1. CASE UNCHANGED <<host, title>>
    BY <1>3, <1>4, <2>1 DEF Serve
  <2>2. CASE ~UNCHANGED <<host, title>>
    <3>1. PICK n \in Nodes : host' = [host EXCEPT ![<<c, k>>] = n]
      BY <1>4, <2>2 DEF Serve
    <3>2. /\ post[<<c, k>>] = "flying" /\ UNCHANGED <<honours, pc, sent, result>>
          /\ honours => \A j \in Tries : post[<<c, j>>] # "rented"
      BY <1>4, <2>2 DEF Serve
    <3>3. <<c, k>> \in Pods /\ n # NoNode /\ 3 - k \in Tries
      BY PostsArePods, RentAssumption
    <3>4. k <= sent[c] /\ ~Exists(<<c, k>>) /\ (honours => ~Exists(<<c, 3 - k>>))
      BY <1>1, <3>2, <3>3 DEF RentedAsAsked
    <3>5. rented' = rented \cup {<<c, k>>}
      BY <1>1, <3>1, <3>3, <3>4 DEF Exists, TypeOK, BackendType
    <3>6. UNCHANGED status
      BY <3>2 DEF Ended
    <3>7. P!Create(c, k)
      BY <1>2, <3>2, <3>4, <3>5, <3>6 DEF P!Create
    <3>8. QED
      BY <3>7 DEF P!Next, Tries
  <2>3. QED
    BY <2>1, <2>2
<1>5. ASSUME NEW p \in Pods, Surface(p) PROVE [P!Next]_P!vars
  BY <1>3, <1>5 DEF Surface
<1>6. ASSUME NEW c \in Calls, Client(c) PROVE [P!Next]_P!vars
  <2>1. UNCHANGED <<honours, host, want>>
    BY <1>6 DEF Client, Invalid, Snapshot, Send, Unanswered, Rejected, AnsweredRecord,
      AnsweredId, AnsweredNothing, FindPod, FindNothing, ReadBack, backend
  <2>2. CASE Snapshot(c)
    <3>1. status[c] = "idle" /\ status' = [status EXCEPT ![c] = "open"]
      BY <1>1, <2>2 DEF Snapshot, TypeOK, CallType, Ended
    <3>2. UNCHANGED <<sent, result>>
      BY <2>2 DEF Snapshot
    <3>3. P!Begin(c)
      BY <1>2, <2>1, <3>1, <3>2 DEF P!Begin
    <3>4. QED
      BY <3>3 DEF P!Next
  <2>3. CASE Send(c)
    <3>1. status[c] = "open" /\ UNCHANGED status
      BY <1>1, <2>3 DEF Send, TypeOK, CallType, Ended
    <3>2. sent[c] < limit[c]
      BY <1>1, <2>3 DEF Send, TypeOK, CallType, Progress
    <3>3. P!Ask(c)
      BY <1>2, <2>1, <2>3, <3>1, <3>2 DEF P!Ask, Send
    <3>4. QED
      BY <3>3 DEF P!Next
  <2>4. CASE ~Snapshot(c) /\ ~Send(c)
    <3>1. /\ sent' = sent /\ pc' = [pc EXCEPT ![c] = pc'[c]]
          /\ ~Ended(c) /\ (pc[c] = "start" => pc'[c] = "failed" /\ result' = result)
          /\ result' = result \/ (pc'[c] = "done" /\ result' = [result EXCEPT ![c] = result'[c]])
      BY <1>1, <1>6, <2>4 DEF Client, Invalid, Unanswered, Rejected, AnsweredRecord,
        AnsweredId, AnsweredNothing, FindPod, FindNothing, ReadBack, TypeOK, CallType,
        Ended, Looking
    <3>2. CASE pc'[c] \in {"done", "failed"}
      <4>1. status' = [status EXCEPT ![c] = "ended"] /\ status[c] # "ended"
        BY <1>1, <3>1, <3>2 DEF Ended, TypeOK, CallType
      <4>2. PICK v \in Pods \cup {NoPod} : result' = [result EXCEPT ![c] = v] /\ v = result'[c]
        BY <1>1, <3>1 DEF TypeOK, CallType
      <4>3. ASSUME v # NoPod PROVE v \in rented /\ status[c] = "open" /\ sent[c] > 0
        <5>1. result'[c] # NoPod /\ v \in Pods
          BY <4>2, <4>3
        <5>2. host'[v] # NoNode /\ sent'[c] > 0 /\ pc[c] # "start"
          <6>1. result[c] = NoPod
            BY <1>1, <3>1 DEF Answers, Ended
          <6>2. pc[c] # "start"
            BY <3>1, <5>1, <6>1
          <6>3. QED
            BY <1>1, <4>2, <5>1, <6>2 DEF Answers, Exists
        <5>3. QED
          BY <2>1, <3>1, <5>1, <5>2 DEF Exists
      <4>4. v \in {NoPod} \cup rented /\ (v # NoPod => status[c] = "open" /\ sent[c] > 0)
        BY <4>3
      <4>5. P!End(c)
        BY <1>2, <2>1, <3>1, <4>1, <4>2, <4>4 DEF P!End
      <4>6. QED
        BY <4>5 DEF P!Next
    <3>3. CASE pc'[c] \notin {"done", "failed"}
      <4>1. result' = result /\ pc[c] # "start" /\ pc'[c] # "start"
        BY <1>1, <1>6, <2>4, <3>1, <3>3 DEF Client, Invalid, Unanswered, Rejected,
          AnsweredRecord, AnsweredId, AnsweredNothing, FindPod, FindNothing, ReadBack,
          Looking, GiveUp, TypeOK, CallType
      <4>2. UNCHANGED status
        BY <1>1, <3>1, <3>3, <4>1 DEF Ended, TypeOK, CallType
      <4>3. UNCHANGED P!vars
        BY <1>2, <2>1, <3>1, <4>1, <4>2 DEF P!vars
      <4>4. QED
        BY <4>3
    <3>4. QED
      BY <3>2, <3>3
  <2>5. QED
    BY <2>2, <2>3, <2>4
<1>7. CASE UNCHANGED vars
  BY <1>3, <1>7 DEF vars, backend
<1>8. QED
  BY <1>4, <1>5, <1>6, <1>7 DEF Next, Backend

\* Lium.up and Lium._rent_on_server implement the promise of renting: a call
\* asks at most twice (once by spec), pods appear only for requests sent, one
\* per honoured key, and the call ends once, with a pod that exists or none.
THEOREM RentKeepsPromise == Spec => P!Promise
<1>1. Init => P!Init
  BY PromiseInit
<1>2. IInv /\ IInv' /\ [Next]_vars => [P!Next]_P!vars
  BY PromiseStep
<1>3. QED
  BY <1>1, <1>2, RentInvariant, PTL DEF Spec, P!Promise
=============================================================================
