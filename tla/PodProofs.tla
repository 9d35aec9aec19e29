----------------------------- MODULE PodProofs -----------------------------
(***************************************************************************)
(* Proofs about the parts of Parts that work on pods: PodCopy, Exec,       *)
(* HostKeys and RemoteCall.  Each has an inductive invariant that is kept  *)
(* by the steps of Parts, for they leave the variables of the other parts  *)
(* alone.  With those of AccountProofs they give the types of all parts.   *)
(***************************************************************************)
EXTENDS AccountProofs

-----------------------------------------------------------------------------
(* PodCopy.                                                                *)

LEMMA CopySteps == [Next]_vars => [C!Next]_(C!vars)
  BY DEF Next, vars, C!vars, copy

CopyRecs ==
  [pc : C!Places, insecure : BOOLEAN, authorized : BOOLEAN, on : 0..MaxReboots \cup {Nothing},
   lost : BOOLEAN, revoked : BOOLEAN, told : SUBSET {"public", "private"}, killed : BOOLEAN]
Scripts ==
  [op : {"none", "grant", "revoke"}, step : {"none", "wait", "locked", "filtered", "done"},
   scratch : SUBSET (Copies \cup {User}), ok : BOOLEAN]

CopyTypes ==
  /\ container \in 0..MaxReboots
  /\ pin \in 0..MaxReboots \cup {Nothing}
  /\ keys \subseteq Copies \cup {User}
  /\ private \subseteq Copies
  /\ lock \in Copies \cup {Nothing}
  /\ cp \in [Copies -> CopyRecs]
  /\ script \in [Copies -> Scripts]

\* Of the commands on the pod, the one that has the lock is between taking it and giving it
\* back, and no key changes while it writes.
Locking(c) ==
  LET s == script[c] IN
  /\ s.step \in {"locked", "filtered"} <=> lock = c
  /\ s.step = "none" => s = C!NoScript
  /\ s.step # "none" => s.op # "none"
  /\ s.step \in {"wait", "locked", "filtered"} => ~s.ok
  /\ s.step = "filtered" => s.scratch = keys \ {c} /\ s.op = "revoke"

\* Where the command here is tells what runs there.
Placed(c) ==
  LET p == cp[c].pc IN
  /\ p \in {"idle", "keygen", "grant", "pin", "place", "rsync", "revoke"} => script[c] = C!NoScript
  /\ p = "granting" => script[c].op = "grant"
  /\ p = "revoking" => script[c].op = "revoke"
  /\ p \in {"pin", "place", "rsync", "revoke", "revoking"} => cp[c].authorized
  /\ p \in {"idle", "keygen", "grant", "granting"} => ~cp[c].authorized
  /\ p \in {"granting", "pin", "place", "rsync", "revoke", "revoking"} => cp[c].on \in 0..container
  /\ p # "over" => ~cp[c].killed

\* Its key is there from the grant that succeeded to the revoke that did.
Held(c) ==
  LET p == cp[c].pc s == script[c] IN
  /\ p = "granting" /\ s.step = "done" /\ s.ok /\ cp[c].on = container => c \in keys
  /\ p \in {"pin", "place", "rsync", "revoke"} /\ cp[c].on = container => c \in keys
  /\ s.op = "revoke" /\ s.step = "done" /\ s.ok => c \notin keys
  /\ cp[c].revoked => c \notin keys /\ s = C!NoScript /\ p \in {"cleanup", "over"}

\* It is nowhere else without a word.
Accounted(c) ==
  LET p == cp[c].pc s == script[c] IN
  /\ p \in {"idle", "keygen", "grant"} => c \notin keys
  /\ s.op = "grant" /\ s.step \in {"wait", "locked"} => c \notin keys
  /\ p \in {"cleanup", "over"} /\ ~cp[c].killed /\ ~cp[c].lost /\ "public" \notin cp[c].told
     => c \notin keys /\ s = C!NoScript
  /\ p \in {"idle", "keygen"} => c \notin private
  /\ p = "over" /\ ~cp[c].killed /\ ~cp[c].lost /\ "private" \notin cp[c].told => c \notin private

CopyOk(c) == Locking(c) /\ Placed(c) /\ Held(c) /\ Accounted(c)

CopyInv == CopyTypes /\ User \in keys /\ \A c \in Copies : CopyOk(c)

\* What the steps of one copy leave to the others.
Only(c) ==
  /\ container' = container
  /\ \A d \in Copies \ {c} :
       /\ cp'[d] = cp[d] /\ script'[d] = script[d]
       /\ lock' = d <=> lock = d
       /\ lock = d => keys' = keys
       /\ d \in keys' <=> d \in keys
       /\ d \in private' <=> d \in private

LEMMA OthersStay ==
  ASSUME CopyInv, NEW c \in Copies, Only(c), NEW d \in Copies \ {c}
  PROVE  CopyOk(d)'
<1>0. CopyOk(d)
  BY DEF CopyInv
<1>1. Locking(d)'
  BY <1>0 DEF CopyOk, Locking, Only
<1>2. Placed(d)'
  BY <1>0 DEF CopyOk, Placed, Only
<1>3. Held(d)'
  BY <1>0 DEF CopyOk, Held, Only
<1>4. Accounted(d)'
  BY <1>0 DEF CopyOk, Accounted, Only
<1>5. QED
  BY <1>1, <1>2, <1>3, <1>4 DEF CopyOk

LEMMA NoneIsOne == C!NoScript \in Scripts /\ C!NoCopy \in CopyRecs
  BY DEF C!NoScript, C!NoCopy, Scripts, CopyRecs, C!Places

\* The state of one copy is replaced by another.
LEMMA OneCopy ==
  ASSUME CopyTypes, NEW c \in Copies, NEW r \in CopyRecs, cp' = [cp EXCEPT ![c] = r]
  PROVE  cp' \in [Copies -> CopyRecs] /\ cp'[c] = r /\ \A d \in Copies \ {c} : cp'[d] = cp[d]
BY DEF CopyTypes

LEMMA OneScript ==
  ASSUME CopyTypes, NEW c \in Copies, NEW s \in Scripts, script' = [script EXCEPT ![c] = s]
  PROVE  script' \in [Copies -> Scripts] /\ script'[c] = s /\ \A d \in Copies \ {c} : script'[d] = script[d]
BY DEF CopyTypes

\* What stays of a copy that is over.
LEMMA OverIsOver ==
  ASSUME CopyTypes, NEW c \in Copies, NEW dead \in BOOLEAN, C!Over(c, dead)
  PROVE  /\ cp' \in [Copies -> CopyRecs] /\ \A d \in Copies \ {c} : cp'[d] = cp[d]
         /\ cp'[c].pc = "over" /\ cp'[c].killed = dead /\ ~cp'[c].authorized
         /\ cp'[c].told = cp[c].told /\ cp'[c].lost = cp[c].lost /\ cp'[c].revoked = cp[c].revoked
<1> DEFINE r == [C!NoCopy EXCEPT !.pc = "over", !.killed = dead, !.told = cp[c].told,
                                 !.lost = cp[c].lost, !.revoked = cp[c].revoked]
<1>1. cp[c] \in CopyRecs /\ cp' = [cp EXCEPT ![c] = r]
  BY DEF CopyTypes, C!Over
<1>2. r \in CopyRecs /\ r.pc = "over" /\ r.killed = dead /\ ~r.authorized
      /\ r.told = cp[c].told /\ r.lost = cp[c].lost /\ r.revoked = cp[c].revoked
  BY <1>1, NoneIsOne DEF CopyRecs, C!NoCopy, C!Places
<1> HIDE DEF r
<1>3. QED
  BY <1>1, <1>2, OneCopy

LEMMA CopyInit == C!Init => CopyInv
<1> SUFFICES ASSUME C!Init PROVE CopyInv
  OBVIOUS
<1>1. CopyTypes /\ User \in keys
  BY NoneIsOne, CopyAssumption DEF C!Init, CopyTypes
<1>2. ASSUME NEW c \in Copies PROVE CopyOk(c)
  BY CopyAssumption DEF C!Init, CopyOk, Locking, Placed, Held, Accounted, C!NoScript, C!NoCopy
<1>3. QED
  BY <1>1, <1>2 DEF CopyInv

LEMMA CopyStep == CopyInv /\ [C!Next]_(C!vars) => CopyInv'
<1> SUFFICES ASSUME CopyInv, [C!Next]_(C!vars) PROVE CopyInv'
  OBVIOUS
<1>0. CopyTypes /\ User \in keys /\ \A c \in Copies : CopyOk(c)
  BY DEF CopyInv
<1>1. ASSUME NEW c \in Copies, C!Begin(c) PROVE CopyTypes' /\ User \in keys' /\ Only(c) /\ CopyOk(c)'
  <2>0. CopyTypes /\ User \in keys /\ Locking(c) /\ Placed(c) /\ Held(c) /\ Accounted(c)
    BY <1>0 DEF CopyOk
  <2>a. PICK i \in BOOLEAN : cp' = [cp EXCEPT ![c] = [cp[c] EXCEPT !.pc = "keygen", !.insecure = i]]
    BY <1>1 DEF C!Begin
  <2> DEFINE r == [cp[c] EXCEPT !.pc = "keygen", !.insecure = i]
  <2>b. r \in CopyRecs /\ r.pc = "keygen" /\ r.authorized = cp[c].authorized
        /\ r.revoked = cp[c].revoked /\ r.killed = cp[c].killed
    <3>1. cp[c] \in CopyRecs /\ i \in BOOLEAN /\ "keygen" \in C!Places
      BY <2>0 DEF CopyTypes, C!Places
    <3>2. QED
      BY <3>1 DEF CopyRecs
  <2> HIDE DEF r
  <2>1. /\ cp' \in [Copies -> CopyRecs] /\ cp'[c] = r
        /\ \A d \in Copies \ {c} : cp'[d] = cp[d]
    BY <2>0, <2>a, <2>b, OneCopy DEF r
  <2>2. cp[c].pc = "idle" /\ cp'[c].pc = "keygen" /\ cp'[c].authorized = cp[c].authorized
        /\ cp'[c].revoked = cp[c].revoked /\ cp'[c].killed = cp[c].killed
    BY <1>1, <2>0, <2>1, <2>b DEF CopyTypes, C!Begin, C!At
  <2>3. UNCHANGED <<container, keys, lock, script, pin>> /\ private' = private
    BY <1>1 DEF C!Begin, C!Quiet, C!pod
  <2>4. Locking(c)'
    BY <2>0, <2>2, <2>3 DEF Locking, Scripts, C!NoScript
  <2>5. Placed(c)'
    BY <2>0, <2>2, <2>3 DEF Locking, Placed, C!NoScript
  <2>6. Held(c)'
    BY <2>0, <2>2, <2>3 DEF Locking, Placed, Held, C!NoScript
  <2>7. Accounted(c)'
    BY <2>0, <2>2, <2>3 DEF Locking, Placed, Held, Accounted, C!NoScript
  <2>8. CopyTypes'
    BY <2>0, <2>1, <2>2, <2>3, CopyAssumption DEF CopyTypes
  <2>9. User \in keys' /\ Only(c)
    BY <2>0, <2>1, <2>2, <2>3, CopyAssumption DEF CopyTypes, Only, Locking
  <2>10. QED
    BY <2>4, <2>5, <2>6, <2>7, <2>8, <2>9 DEF CopyOk
<1>2. ASSUME NEW c \in Copies, C!NoTransfer(c) PROVE CopyTypes' /\ User \in keys' /\ Only(c) /\ CopyOk(c)'
  <2>0. CopyTypes /\ User \in keys /\ Locking(c) /\ Placed(c) /\ Held(c) /\ Accounted(c)
    BY <1>0 DEF CopyOk
  <2>1. CopyTypes'
    BY <1>2, <2>0, NoneIsOne DEF CopyTypes, CopyRecs, Scripts, C!Places, C!NoTransfer, C!At, C!Quiet, C!pod, C!NoScript, C!NoCopy, C!Over
  <2>2. User \in keys'
    BY <1>2, <2>0, CopyAssumption DEF Locking, C!NoTransfer, C!At, C!Quiet, C!pod, C!NoScript, C!NoCopy, C!Over
  <2>3. Only(c)
    BY <1>2, <2>0, CopyAssumption DEF Only, CopyTypes, Locking, C!NoTransfer, C!At, C!Quiet, C!pod, C!NoScript, C!NoCopy, C!Over
  <2>4. Locking(c)'
    BY <1>2, <2>0, CopyAssumption DEF CopyTypes, CopyRecs, Scripts, Locking, Placed, C!NoTransfer, C!At, C!Quiet, C!pod, C!NoScript, C!NoCopy, C!Over
  <2>5. Placed(c)'
    BY <1>2, <2>0 DEF CopyTypes, CopyRecs, Scripts, Locking, Placed, C!NoTransfer, C!At, C!Quiet, C!pod, C!NoScript, C!NoCopy, C!Over
  <2>6. Held(c)'
    BY <1>2, <2>0 DEF CopyTypes, CopyRecs, Scripts, Locking, Placed, Held, Accounted, C!NoTransfer, C!At, C!Quiet, C!pod, C!NoScript, C!NoCopy, C!Over
  <2>7. Accounted(c)'
    BY <1>2, <2>0 DEF CopyTypes, CopyRecs, Scripts, Locking, Placed, Held, Accounted, C!NoTransfer, C!At, C!Quiet, C!pod, C!NoScript, C!NoCopy, C!Over
  <2>8. QED
    BY <2>1, <2>2, <2>3, <2>4, <2>5, <2>6, <2>7 DEF CopyOk
<1>3. ASSUME NEW c \in Copies, C!Keygen(c) PROVE CopyTypes' /\ User \in keys' /\ Only(c) /\ CopyOk(c)'
  <2>0. CopyTypes /\ User \in keys /\ Locking(c) /\ Placed(c) /\ Held(c) /\ Accounted(c)
    BY <1>0 DEF CopyOk
  <2>1. CopyTypes'
    BY <1>3, <2>0, NoneIsOne DEF CopyTypes, CopyRecs, Scripts, C!Places, C!Keygen, C!At, C!Quiet, C!pod, C!NoScript, C!NoCopy, C!Go
  <2>2. User \in keys'
    BY <1>3, <2>0, CopyAssumption DEF Locking, C!Keygen, C!At, C!Quiet, C!pod, C!NoScript, C!NoCopy, C!Go
  <2>3. Only(c)
    BY <1>3, <2>0, CopyAssumption DEF Only, CopyTypes, Locking, C!Keygen, C!At, C!Quiet, C!pod, C!NoScript, C!NoCopy, C!Go
  <2>4. Locking(c)'
    BY <1>3, <2>0, CopyAssumption DEF CopyTypes, CopyRecs, Scripts, Locking, Placed, C!Keygen, C!At, C!Quiet, C!pod, C!NoScript, C!NoCopy, C!Go
  <2>5. Placed(c)'
    BY <1>3, <2>0 DEF CopyTypes, CopyRecs, Scripts, Locking, Placed, C!Keygen, C!At, C!Quiet, C!pod, C!NoScript, C!NoCopy, C!Go
  <2>6. Held(c)'
    BY <1>3, <2>0 DEF CopyTypes, CopyRecs, Scripts, Locking, Placed, Held, Accounted, C!Keygen, C!At, C!Quiet, C!pod, C!NoScript, C!NoCopy, C!Go
  <2>7. Accounted(c)'
    BY <1>3, <2>0 DEF CopyTypes, CopyRecs, Scripts, Locking, Placed, Held, Accounted, C!Keygen, C!At, C!Quiet, C!pod, C!NoScript, C!NoCopy, C!Go
  <2>8. QED
    BY <2>1, <2>2, <2>3, <2>4, <2>5, <2>6, <2>7 DEF CopyOk
<1>4. ASSUME NEW c \in Copies, C!KeygenFails(c) PROVE CopyTypes' /\ User \in keys' /\ Only(c) /\ CopyOk(c)'
  <2>0. CopyTypes /\ User \in keys /\ Locking(c) /\ Placed(c) /\ Held(c) /\ Accounted(c)
    BY <1>0 DEF CopyOk
  <2>a. \/ C!Over(c, FALSE) /\ private' = private
        \/ /\ cp' = [cp EXCEPT ![c] = [C!NoCopy EXCEPT !.pc = "over", !.lost = TRUE]]
           /\ private' = private \cup {c}
    BY <1>4 DEF C!KeygenFails
  <2> DEFINE r == [C!NoCopy EXCEPT !.pc = "over", !.lost = TRUE]
  <2>b. r \in CopyRecs /\ r.pc = "over" /\ r.lost /\ ~r.revoked
    BY NoneIsOne DEF CopyRecs, C!NoCopy, C!Places
  <2> HIDE DEF r
  <2>1. /\ cp' \in [Copies -> CopyRecs]
        /\ \A d \in Copies \ {c} : cp'[d] = cp[d]
        /\ private' \subseteq Copies
        /\ \A d \in Copies \ {c} : d \in private' <=> d \in private
    BY <2>0, <2>a, <2>b, OneCopy, OverIsOver DEF CopyTypes, r
  <2>2. /\ cp[c].pc = "keygen" /\ cp'[c].pc = "over" /\ (cp'[c].revoked => cp[c].revoked)
        /\ cp'[c].lost \/ private' = private
    BY <1>4, <2>0, <2>a, <2>b, OneCopy, OverIsOver DEF r, C!KeygenFails, C!At
  <2>3. UNCHANGED <<container, keys, lock, script, pin>>
    BY <1>4 DEF C!KeygenFails, C!pod
  <2>4. Locking(c)'
    BY <2>0, <2>2, <2>3 DEF Locking, Scripts, C!NoScript
  <2>5. Placed(c)'
    BY <2>0, <2>2, <2>3 DEF Locking, Placed, C!NoScript
  <2>6. Held(c)'
    BY <2>0, <2>2, <2>3 DEF Locking, Placed, Held, C!NoScript
  <2>7. Accounted(c)'
    BY <2>0, <2>2, <2>3 DEF Locking, Placed, Held, Accounted, C!NoScript
  <2>8. CopyTypes'
    BY <2>0, <2>1, <2>2, <2>3, CopyAssumption DEF CopyTypes
  <2>9. User \in keys' /\ Only(c)
    BY <2>0, <2>1, <2>2, <2>3, CopyAssumption DEF CopyTypes, Only, Locking
  <2>10. QED
    BY <2>4, <2>5, <2>6, <2>7, <2>8, <2>9 DEF CopyOk
<1>5. ASSUME NEW c \in Copies, C!StartGrant(c) PROVE CopyTypes' /\ User \in keys' /\ Only(c) /\ CopyOk(c)'
  <2>0. CopyTypes /\ User \in keys /\ Locking(c) /\ Placed(c) /\ Held(c) /\ Accounted(c)
    BY <1>0 DEF CopyOk
  <2>1. CopyTypes'
    BY <1>5, <2>0, NoneIsOne DEF CopyTypes, CopyRecs, Scripts, C!Places, C!StartGrant, C!At, C!Quiet, C!pod, C!NoScript, C!NoCopy, C!Start, C!Trusted, C!PinAfter
  <2>2. User \in keys'
    BY <1>5, <2>0, CopyAssumption DEF Locking, C!StartGrant, C!At, C!Quiet, C!pod, C!NoScript, C!NoCopy, C!Start, C!Trusted, C!PinAfter
  <2>3. Only(c)
    BY <1>5, <2>0, CopyAssumption DEF Only, CopyTypes, Locking, C!StartGrant, C!At, C!Quiet, C!pod, C!NoScript, C!NoCopy, C!Start, C!Trusted, C!PinAfter
  <2>4. Locking(c)'
    BY <1>5, <2>0, CopyAssumption DEF CopyTypes, CopyRecs, Scripts, Locking, Placed, C!StartGrant, C!At, C!Quiet, C!pod, C!NoScript, C!NoCopy, C!Start, C!Trusted, C!PinAfter
  <2>5. Placed(c)'
    BY <1>5, <2>0 DEF CopyTypes, CopyRecs, Scripts, Locking, Placed, C!StartGrant, C!At, C!Quiet, C!pod, C!NoScript, C!NoCopy, C!Start, C!Trusted, C!PinAfter
  <2>6. Held(c)'
    BY <1>5, <2>0 DEF CopyTypes, CopyRecs, Scripts, Locking, Placed, Held, Accounted, C!StartGrant, C!At, C!Quiet, C!pod, C!NoScript, C!NoCopy, C!Start, C!Trusted, C!PinAfter
  <2>7. Accounted(c)'
    BY <1>5, <2>0 DEF CopyTypes, CopyRecs, Scripts, Locking, Placed, Held, Accounted, C!StartGrant, C!At, C!Quiet, C!pod, C!NoScript, C!NoCopy, C!Start, C!Trusted, C!PinAfter
  <2>8. QED
    BY <2>1, <2>2, <2>3, <2>4, <2>5, <2>6, <2>7 DEF CopyOk
<1>6. ASSUME NEW c \in Copies, C!GrantNotStarted(c) PROVE CopyTypes' /\ User \in keys' /\ Only(c) /\ CopyOk(c)'
  <2>0. CopyTypes /\ User \in keys /\ Locking(c) /\ Placed(c) /\ Held(c) /\ Accounted(c)
    BY <1>0 DEF CopyOk
  <2>1. CopyTypes'
    BY <1>6, <2>0, NoneIsOne DEF CopyTypes, CopyRecs, Scripts, C!Places, C!GrantNotStarted, C!At, C!Quiet, C!pod, C!NoScript, C!NoCopy, C!Raises, C!Finally, C!Go
  <2>2. User \in keys'
    BY <1>6, <2>0, CopyAssumption DEF Locking, C!GrantNotStarted, C!At, C!Quiet, C!pod, C!NoScript, C!NoCopy, C!Raises, C!Finally, C!Go
  <2>3. Only(c)
    BY <1>6, <2>0, CopyAssumption DEF Only, CopyTypes, Locking, C!GrantNotStarted, C!At, C!Quiet, C!pod, C!NoScript, C!NoCopy, C!Raises, C!Finally, C!Go
  <2>4. Locking(c)'
    BY <1>6, <2>0, CopyAssumption DEF CopyTypes, CopyRecs, Scripts, Locking, Placed, C!GrantNotStarted, C!At, C!Quiet, C!pod, C!NoScript, C!NoCopy, C!Raises, C!Finally, C!Go
  <2>5. Placed(c)'
    BY <1>6, <2>0 DEF CopyTypes, CopyRecs, Scripts, Locking, Placed, C!GrantNotStarted, C!At, C!Quiet, C!pod, C!NoScript, C!NoCopy, C!Raises, C!Finally, C!Go
  <2>6. Held(c)'
    BY <1>6, <2>0 DEF CopyTypes, CopyRecs, Scripts, Locking, Placed, Held, Accounted, C!GrantNotStarted, C!At, C!Quiet, C!pod, C!NoScript, C!NoCopy, C!Raises, C!Finally, C!Go
  <2>7. Accounted(c)'
    BY <1>6, <2>0 DEF CopyTypes, CopyRecs, Scripts, Locking, Placed, Held, Accounted, C!GrantNotStarted, C!At, C!Quiet, C!pod, C!NoScript, C!NoCopy, C!Raises, C!Finally, C!Go
  <2>8. QED
    BY <2>1, <2>2, <2>3, <2>4, <2>5, <2>6, <2>7 DEF CopyOk
<1>7. ASSUME NEW c \in Copies, C!Granted(c) PROVE CopyTypes' /\ User \in keys' /\ Only(c) /\ CopyOk(c)'
  <2>0. CopyTypes /\ User \in keys /\ Locking(c) /\ Placed(c) /\ Held(c) /\ Accounted(c)
    BY <1>0 DEF CopyOk
  <2> DEFINE there == c \in keys
             r == IF script[c].ok THEN [cp[c] EXCEPT !.pc = "pin", !.authorized = TRUE]
                                  ELSE [cp[c] EXCEPT !.pc = "cleanup", !.lost = there]
  <2>t. there \in BOOLEAN
    OBVIOUS
  <2>u. cp' = IF script[c].ok THEN [cp EXCEPT ![c] = [@ EXCEPT !.pc = "pin", !.authorized = TRUE]]
                              ELSE [cp EXCEPT ![c] = [@ EXCEPT !.pc = "cleanup", !.lost = there]]
    BY <1>7, Zenon DEF C!Granted
  <2> HIDE DEF there
  <2>a. cp' = [cp EXCEPT ![c] = r] /\ there \in BOOLEAN
    BY <2>t, <2>u
  <2>b. r \in CopyRecs /\ r.on = cp[c].on /\ r.revoked = cp[c].revoked
        /\ r.killed = cp[c].killed
        /\ (IF script[c].ok THEN r.pc = "pin" /\ r.authorized ELSE r.pc = "cleanup" /\ r.lost = there)
    BY <2>0, <2>a DEF CopyTypes, CopyRecs, C!Places
  <2> HIDE DEF r
  <2>1. /\ cp' \in [Copies -> CopyRecs] /\ cp'[c] = r
        /\ \A d \in Copies \ {c} : cp'[d] = cp[d]
        /\ script' \in [Copies -> Scripts] /\ script'[c] = C!NoScript
        /\ \A d \in Copies \ {c} : script'[d] = script[d]
    BY <1>7, <2>0, <2>a, <2>b, OneCopy, OneScript, NoneIsOne DEF C!Granted
  <2>2. /\ cp[c].pc = "granting" /\ script[c].step = "done" /\ cp[c].on \in 0..container
        /\ cp'[c].on = cp[c].on /\ cp'[c].revoked = cp[c].revoked /\ cp'[c].killed = cp[c].killed
        /\ IF script[c].ok THEN cp'[c].pc = "pin" /\ cp'[c].authorized
                           ELSE cp'[c].pc = "cleanup" /\ (~cp'[c].lost => c \notin keys)
    BY <1>7, <2>0, <2>1, <2>b DEF C!Granted, C!At, C!Does, Placed, there
  <2>3. script'[c] = C!NoScript /\ UNCHANGED <<container, keys, lock, pin, private>>
    BY <1>7, <2>1 DEF C!Granted, C!pod
  <2>4. Locking(c)'
    BY <2>0, <2>2, <2>3 DEF Locking, Scripts, C!NoScript
  <2>5. Placed(c)'
    BY <2>0, <2>2, <2>3 DEF Locking, Placed, C!NoScript
  <2>6. Held(c)'
    BY <2>0, <2>2, <2>3 DEF Locking, Placed, Held, C!NoScript
  <2>7. Accounted(c)'
    BY <2>0, <2>2, <2>3 DEF Locking, Placed, Held, Accounted, C!NoScript
  <2>8. CopyTypes'
    BY <2>0, <2>1, <2>2, <2>3, CopyAssumption DEF CopyTypes
  <2>9. User \in keys' /\ Only(c)
    BY <2>0, <2>1, <2>2, <2>3, CopyAssumption DEF CopyTypes, Only, Locking
  <2>10. QED
    BY <2>4, <2>5, <2>6, <2>7, <2>8, <2>9 DEF CopyOk
<1>8. ASSUME NEW c \in Copies, C!GrantUnanswered(c) PROVE CopyTypes' /\ User \in keys' /\ Only(c) /\ CopyOk(c)'
  <2>0. CopyTypes /\ User \in keys /\ Locking(c) /\ Placed(c) /\ Held(c) /\ Accounted(c)
    BY <1>0 DEF CopyOk
  <2>1. CopyTypes'
    BY <1>8, <2>0, NoneIsOne DEF CopyTypes, CopyRecs, Scripts, C!Places, C!GrantUnanswered, C!At, C!Quiet, C!pod, C!NoScript, C!NoCopy
  <2>2. User \in keys'
    BY <1>8, <2>0, CopyAssumption DEF Locking, C!GrantUnanswered, C!At, C!Quiet, C!pod, C!NoScript, C!NoCopy
  <2>3. Only(c)
    BY <1>8, <2>0, CopyAssumption DEF Only, CopyTypes, Locking, C!GrantUnanswered, C!At, C!Quiet, C!pod, C!NoScript, C!NoCopy
  <2>4. Locking(c)'
    BY <1>8, <2>0, CopyAssumption DEF CopyTypes, CopyRecs, Scripts, Locking, Placed, C!GrantUnanswered, C!At, C!Quiet, C!pod, C!NoScript, C!NoCopy
  <2>5. Placed(c)'
    BY <1>8, <2>0 DEF CopyTypes, CopyRecs, Scripts, Locking, Placed, C!GrantUnanswered, C!At, C!Quiet, C!pod, C!NoScript, C!NoCopy
  <2>6. Held(c)'
    BY <1>8, <2>0 DEF CopyTypes, CopyRecs, Scripts, Locking, Placed, Held, Accounted, C!GrantUnanswered, C!At, C!Quiet, C!pod, C!NoScript, C!NoCopy
  <2>7. Accounted(c)'
    BY <1>8, <2>0 DEF CopyTypes, CopyRecs, Scripts, Locking, Placed, Held, Accounted, C!GrantUnanswered, C!At, C!Quiet, C!pod, C!NoScript, C!NoCopy
  <2>8. QED
    BY <2>1, <2>2, <2>3, <2>4, <2>5, <2>6, <2>7 DEF CopyOk
<1>9. ASSUME NEW c \in Copies, C!ReadPin(c) PROVE CopyTypes' /\ User \in keys' /\ Only(c) /\ CopyOk(c)'
  <2>0. CopyTypes /\ User \in keys /\ Locking(c) /\ Placed(c) /\ Held(c) /\ Accounted(c)
    BY <1>0 DEF CopyOk
  <2>1. CopyTypes'
    BY <1>9, <2>0, NoneIsOne DEF CopyTypes, CopyRecs, Scripts, C!Places, C!ReadPin, C!At, C!Quiet, C!pod, C!NoScript, C!NoCopy, C!Finally
  <2>2. User \in keys'
    BY <1>9, <2>0, CopyAssumption DEF Locking, C!ReadPin, C!At, C!Quiet, C!pod, C!NoScript, C!NoCopy, C!Finally
  <2>3. Only(c)
    BY <1>9, <2>0, CopyAssumption DEF Only, CopyTypes, Locking, C!ReadPin, C!At, C!Quiet, C!pod, C!NoScript, C!NoCopy, C!Finally
  <2>4. Locking(c)'
    BY <1>9, <2>0, CopyAssumption DEF CopyTypes, CopyRecs, Scripts, Locking, Placed, C!ReadPin, C!At, C!Quiet, C!pod, C!NoScript, C!NoCopy, C!Finally
  <2>5. Placed(c)'
    BY <1>9, <2>0 DEF CopyTypes, CopyRecs, Scripts, Locking, Placed, C!ReadPin, C!At, C!Quiet, C!pod, C!NoScript, C!NoCopy, C!Finally
  <2>6. Held(c)'
    BY <1>9, <2>0 DEF CopyTypes, CopyRecs, Scripts, Locking, Placed, Held, Accounted, C!ReadPin, C!At, C!Quiet, C!pod, C!NoScript, C!NoCopy, C!Finally
  <2>7. Accounted(c)'
    BY <1>9, <2>0 DEF CopyTypes, CopyRecs, Scripts, Locking, Placed, Held, Accounted, C!ReadPin, C!At, C!Quiet, C!pod, C!NoScript, C!NoCopy, C!Finally
  <2>8. QED
    BY <2>1, <2>2, <2>3, <2>4, <2>5, <2>6, <2>7 DEF CopyOk
<1>10. ASSUME NEW c \in Copies, C!PlacePin(c) PROVE CopyTypes' /\ User \in keys' /\ Only(c) /\ CopyOk(c)'
  <2>0. CopyTypes /\ User \in keys /\ Locking(c) /\ Placed(c) /\ Held(c) /\ Accounted(c)
    BY <1>0 DEF CopyOk
  <2>a. PICK x \in {"rsync", C!Finally(c)} : cp' = [cp EXCEPT ![c] = [cp[c] EXCEPT !.pc = x]]
    BY <1>10 DEF C!PlacePin, C!Go, C!Raises
  <2>c. cp[c].pc = "place"
    BY <1>10 DEF C!PlacePin, C!At
  <2>d. x \in {"rsync", "revoke"}
    BY <2>0, <2>a, <2>c DEF C!Finally, Placed
  <2> DEFINE r == [cp[c] EXCEPT !.pc = x]
  <2>b. r \in CopyRecs /\ r.pc = x /\ r.on = cp[c].on /\ r.revoked = cp[c].revoked
        /\ r.authorized = cp[c].authorized /\ r.killed = cp[c].killed
    BY <2>0, <2>d DEF CopyTypes, CopyRecs, C!Places
  <2> HIDE DEF r
  <2>1. /\ cp' \in [Copies -> CopyRecs] /\ cp'[c] = r
        /\ \A d \in Copies \ {c} : cp'[d] = cp[d]
    BY <2>0, <2>a, <2>b, OneCopy DEF r
  <2>2. /\ cp[c].pc = "place" /\ cp'[c].pc \in {"rsync", "revoke"} /\ cp'[c].on = cp[c].on
        /\ cp'[c].revoked = cp[c].revoked /\ cp'[c].authorized = cp[c].authorized
        /\ cp'[c].killed = cp[c].killed
    BY <2>1, <2>b, <2>c, <2>d
  <2>3. UNCHANGED <<container, keys, lock, script, pin>> /\ private' = private
    BY <1>10 DEF C!PlacePin, C!Quiet, C!pod
  <2>4. Locking(c)'
    BY <2>0, <2>2, <2>3 DEF Locking, Scripts, C!NoScript
  <2>5. Placed(c)'
    BY <2>0, <2>2, <2>3 DEF Locking, Placed, C!NoScript
  <2>6. Held(c)'
    BY <2>0, <2>2, <2>3 DEF Locking, Placed, Held, C!NoScript
  <2>7. Accounted(c)'
    BY <2>0, <2>2, <2>3 DEF Locking, Placed, Held, Accounted, C!NoScript
  <2>8. CopyTypes'
    BY <2>0, <2>1, <2>2, <2>3, CopyAssumption DEF CopyTypes
  <2>9. User \in keys' /\ Only(c)
    BY <2>0, <2>1, <2>2, <2>3, CopyAssumption DEF CopyTypes, Only, Locking
  <2>10. QED
    BY <2>4, <2>5, <2>6, <2>7, <2>8, <2>9 DEF CopyOk
<1>11. ASSUME NEW c \in Copies, C!Rsync(c) PROVE CopyTypes' /\ User \in keys' /\ Only(c) /\ CopyOk(c)'
  <2>0. CopyTypes /\ User \in keys /\ Locking(c) /\ Placed(c) /\ Held(c) /\ Accounted(c)
    BY <1>0 DEF CopyOk
  <2>1. CopyTypes'
    BY <1>11, <2>0, NoneIsOne DEF CopyTypes, CopyRecs, Scripts, C!Places, C!Rsync, C!At, C!Quiet, C!pod, C!NoScript, C!NoCopy, C!Go, C!Raises, C!Finally
  <2>2. User \in keys'
    BY <1>11, <2>0, CopyAssumption DEF Locking, C!Rsync, C!At, C!Quiet, C!pod, C!NoScript, C!NoCopy, C!Go, C!Raises, C!Finally
  <2>3. Only(c)
    BY <1>11, <2>0, CopyAssumption DEF Only, CopyTypes, Locking, C!Rsync, C!At, C!Quiet, C!pod, C!NoScript, C!NoCopy, C!Go, C!Raises, C!Finally
  <2>4. Locking(c)'
    BY <1>11, <2>0, CopyAssumption DEF CopyTypes, CopyRecs, Scripts, Locking, Placed, C!Rsync, C!At, C!Quiet, C!pod, C!NoScript, C!NoCopy, C!Go, C!Raises, C!Finally
  <2>5. Placed(c)'
    BY <1>11, <2>0 DEF CopyTypes, CopyRecs, Scripts, Locking, Placed, C!Rsync, C!At, C!Quiet, C!pod, C!NoScript, C!NoCopy, C!Go, C!Raises, C!Finally
  <2>6. Held(c)'
    BY <1>11, <2>0 DEF CopyTypes, CopyRecs, Scripts, Locking, Placed, Held, Accounted, C!Rsync, C!At, C!Quiet, C!pod, C!NoScript, C!NoCopy, C!Go, C!Raises, C!Finally
  <2>7. Accounted(c)'
    BY <1>11, <2>0 DEF CopyTypes, CopyRecs, Scripts, Locking, Placed, Held, Accounted, C!Rsync, C!At, C!Quiet, C!pod, C!NoScript, C!NoCopy, C!Go, C!Raises, C!Finally
  <2>8. QED
    BY <2>1, <2>2, <2>3, <2>4, <2>5, <2>6, <2>7 DEF CopyOk
<1>12. ASSUME NEW c \in Copies, C!StartRevoke(c) PROVE CopyTypes' /\ User \in keys' /\ Only(c) /\ CopyOk(c)'
  <2>0. CopyTypes /\ User \in keys /\ Locking(c) /\ Placed(c) /\ Held(c) /\ Accounted(c)
    BY <1>0 DEF CopyOk
  <2>1. CopyTypes'
    BY <1>12, <2>0, NoneIsOne DEF CopyTypes, CopyRecs, Scripts, C!Places, C!StartRevoke, C!At, C!Quiet, C!pod, C!NoScript, C!NoCopy, C!Start, C!Trusted, C!PinAfter
  <2>2. User \in keys'
    BY <1>12, <2>0, CopyAssumption DEF Locking, C!StartRevoke, C!At, C!Quiet, C!pod, C!NoScript, C!NoCopy, C!Start, C!Trusted, C!PinAfter
  <2>3. Only(c)
    BY <1>12, <2>0, CopyAssumption DEF Only, CopyTypes, Locking, C!StartRevoke, C!At, C!Quiet, C!pod, C!NoScript, C!NoCopy, C!Start, C!Trusted, C!PinAfter
  <2>4. Locking(c)'
    BY <1>12, <2>0, CopyAssumption DEF CopyTypes, CopyRecs, Scripts, Locking, Placed, C!StartRevoke, C!At, C!Quiet, C!pod, C!NoScript, C!NoCopy, C!Start, C!Trusted, C!PinAfter
  <2>5. Placed(c)'
    BY <1>12, <2>0 DEF CopyTypes, CopyRecs, Scripts, Locking, Placed, C!StartRevoke, C!At, C!Quiet, C!pod, C!NoScript, C!NoCopy, C!Start, C!Trusted, C!PinAfter
  <2>6. Held(c)'
    BY <1>12, <2>0 DEF CopyTypes, CopyRecs, Scripts, Locking, Placed, Held, Accounted, C!StartRevoke, C!At, C!Quiet, C!pod, C!NoScript, C!NoCopy, C!Start, C!Trusted, C!PinAfter
  <2>7. Accounted(c)'
    BY <1>12, <2>0 DEF CopyTypes, CopyRecs, Scripts, Locking, Placed, Held, Accounted, C!StartRevoke, C!At, C!Quiet, C!pod, C!NoScript, C!NoCopy, C!Start, C!Trusted, C!PinAfter
  <2>8. QED
    BY <2>1, <2>2, <2>3, <2>4, <2>5, <2>6, <2>7 DEF CopyOk
<1>13. ASSUME NEW c \in Copies, C!RevokeNotStarted(c) PROVE CopyTypes' /\ User \in keys' /\ Only(c) /\ CopyOk(c)'
  <2>0. CopyTypes /\ User \in keys /\ Locking(c) /\ Placed(c) /\ Held(c) /\ Accounted(c)
    BY <1>0 DEF CopyOk
  <2>1. CopyTypes'
    BY <1>13, <2>0, NoneIsOne DEF CopyTypes, CopyRecs, Scripts, C!Places, C!RevokeNotStarted, C!At, C!Quiet, C!pod, C!NoScript, C!NoCopy, C!RevokeFails
  <2>2. User \in keys'
    BY <1>13, <2>0, CopyAssumption DEF Locking, C!RevokeNotStarted, C!At, C!Quiet, C!pod, C!NoScript, C!NoCopy, C!RevokeFails
  <2>3. Only(c)
    BY <1>13, <2>0, CopyAssumption DEF Only, CopyTypes, Locking, C!RevokeNotStarted, C!At, C!Quiet, C!pod, C!NoScript, C!NoCopy, C!RevokeFails
  <2>4. Locking(c)'
    BY <1>13, <2>0, CopyAssumption DEF CopyTypes, CopyRecs, Scripts, Locking, Placed, C!RevokeNotStarted, C!At, C!Quiet, C!pod, C!NoScript, C!NoCopy, C!RevokeFails
  <2>5. Placed(c)'
    BY <1>13, <2>0 DEF CopyTypes, CopyRecs, Scripts, Locking, Placed, C!RevokeNotStarted, C!At, C!Quiet, C!pod, C!NoScript, C!NoCopy, C!RevokeFails
  <2>6. Held(c)'
    BY <1>13, <2>0 DEF CopyTypes, CopyRecs, Scripts, Locking, Placed, Held, Accounted, C!RevokeNotStarted, C!At, C!Quiet, C!pod, C!NoScript, C!NoCopy, C!RevokeFails
  <2>7. Accounted(c)'
    BY <1>13, <2>0 DEF CopyTypes, CopyRecs, Scripts, Locking, Placed, Held, Accounted, C!RevokeNotStarted, C!At, C!Quiet, C!pod, C!NoScript, C!NoCopy, C!RevokeFails
  <2>8. QED
    BY <2>1, <2>2, <2>3, <2>4, <2>5, <2>6, <2>7 DEF CopyOk
<1>14. ASSUME NEW c \in Copies, C!Revoked(c) PROVE CopyTypes' /\ User \in keys' /\ Only(c) /\ CopyOk(c)'
  <2>0. CopyTypes /\ User \in keys /\ Locking(c) /\ Placed(c) /\ Held(c) /\ Accounted(c)
    BY <1>0 DEF CopyOk
  <2>a. cp' = [cp EXCEPT ![c] = IF script[c].ok THEN [cp[c] EXCEPT !.pc = "cleanup", !.revoked = TRUE]
                               ELSE [cp[c] EXCEPT !.pc = "cleanup", !.told = {"public"}]]
    BY <1>14 DEF C!Revoked, C!RevokeFails
  <2> DEFINE r == IF script[c].ok THEN [cp[c] EXCEPT !.pc = "cleanup", !.revoked = TRUE]
                                  ELSE [cp[c] EXCEPT !.pc = "cleanup", !.told = {"public"}]
  <2>b. /\ r \in CopyRecs /\ r.pc = "cleanup"
        /\ r.killed = cp[c].killed
        /\ ~script[c].ok => "public" \in r.told /\ r.revoked = cp[c].revoked
    <3>1. cp[c] \in CopyRecs
      BY <2>0 DEF CopyTypes
    <3>2. [cp[c] EXCEPT !.pc = "cleanup", !.revoked = TRUE] \in CopyRecs
      BY <3>1 DEF CopyRecs, C!Places
    <3>3. [cp[c] EXCEPT !.pc = "cleanup", !.told = {"public"}] \in CopyRecs
      BY <3>1 DEF CopyRecs, C!Places
    <3>4. CASE script[c].ok
      BY <3>1, <3>2, <3>4 DEF CopyRecs
    <3>5. CASE ~script[c].ok
      BY <3>1, <3>3, <3>5 DEF CopyRecs
    <3>6. QED
      BY <3>4, <3>5
  <2> HIDE DEF r
  <2>1. /\ cp' \in [Copies -> CopyRecs] /\ cp'[c] = r
        /\ \A d \in Copies \ {c} : cp'[d] = cp[d]
        /\ script' \in [Copies -> Scripts] /\ script'[c] = C!NoScript
        /\ \A d \in Copies \ {c} : script'[d] = script[d]
    BY <1>14, <2>0, <2>a, <2>b, OneCopy, OneScript, NoneIsOne DEF r, C!Revoked
  <2>2. /\ cp[c].pc = "revoking" /\ script[c].step = "done" /\ cp'[c].pc = "cleanup"
        /\ cp'[c].killed = cp[c].killed
        /\ ~script[c].ok => "public" \in cp'[c].told /\ cp'[c].revoked = cp[c].revoked
    BY <1>14, <2>1, <2>b DEF C!Revoked, C!At, C!Does
  <2>3. script'[c] = C!NoScript /\ UNCHANGED <<container, keys, lock, pin, private>>
    BY <1>14, <2>1 DEF C!Revoked, C!pod
  <2>4. Locking(c)'
    BY <2>0, <2>2, <2>3 DEF Locking, Scripts, C!NoScript
  <2>5. Placed(c)'
    BY <2>0, <2>2, <2>3 DEF Locking, Placed, C!NoScript
  <2>6. Held(c)'
    BY <2>0, <2>2, <2>3 DEF Locking, Placed, Held, C!NoScript
  <2>7. Accounted(c)'
    BY <2>0, <2>2, <2>3 DEF Locking, Placed, Held, Accounted, C!NoScript
  <2>8. CopyTypes'
    BY <2>0, <2>1, <2>2, <2>3, CopyAssumption DEF CopyTypes
  <2>9. User \in keys' /\ Only(c)
    BY <2>0, <2>1, <2>2, <2>3, CopyAssumption DEF CopyTypes, Only, Locking
  <2>10. QED
    BY <2>4, <2>5, <2>6, <2>7, <2>8, <2>9 DEF CopyOk
<1>15. ASSUME NEW c \in Copies, C!RevokeUnanswered(c) PROVE CopyTypes' /\ User \in keys' /\ Only(c) /\ CopyOk(c)'
  <2>0. CopyTypes /\ User \in keys /\ Locking(c) /\ Placed(c) /\ Held(c) /\ Accounted(c)
    BY <1>0 DEF CopyOk
  <2>1. CopyTypes'
    BY <1>15, <2>0, NoneIsOne DEF CopyTypes, CopyRecs, Scripts, C!Places, C!RevokeUnanswered, C!At, C!Quiet, C!pod, C!NoScript, C!NoCopy, C!RevokeFails
  <2>2. User \in keys'
    BY <1>15, <2>0, CopyAssumption DEF Locking, C!RevokeUnanswered, C!At, C!Quiet, C!pod, C!NoScript, C!NoCopy, C!RevokeFails
  <2>3. Only(c)
    BY <1>15, <2>0, CopyAssumption DEF Only, CopyTypes, Locking, C!RevokeUnanswered, C!At, C!Quiet, C!pod, C!NoScript, C!NoCopy, C!RevokeFails
  <2>4. Locking(c)'
    BY <1>15, <2>0, CopyAssumption DEF CopyTypes, CopyRecs, Scripts, Locking, Placed, C!RevokeUnanswered, C!At, C!Quiet, C!pod, C!NoScript, C!NoCopy, C!RevokeFails
  <2>5. Placed(c)'
    BY <1>15, <2>0 DEF CopyTypes, CopyRecs, Scripts, Locking, Placed, C!RevokeUnanswered, C!At, C!Quiet, C!pod, C!NoScript, C!NoCopy, C!RevokeFails
  <2>6. Held(c)'
    BY <1>15, <2>0 DEF CopyTypes, CopyRecs, Scripts, Locking, Placed, Held, Accounted, C!RevokeUnanswered, C!At, C!Quiet, C!pod, C!NoScript, C!NoCopy, C!RevokeFails
  <2>7. Accounted(c)'
    BY <1>15, <2>0 DEF CopyTypes, CopyRecs, Scripts, Locking, Placed, Held, Accounted, C!RevokeUnanswered, C!At, C!Quiet, C!pod, C!NoScript, C!NoCopy, C!RevokeFails
  <2>8. QED
    BY <2>1, <2>2, <2>3, <2>4, <2>5, <2>6, <2>7 DEF CopyOk
<1>16. ASSUME NEW c \in Copies, C!Cleanup(c) PROVE CopyTypes' /\ User \in keys' /\ Only(c) /\ CopyOk(c)'
  <2>0. CopyTypes /\ User \in keys /\ Locking(c) /\ Placed(c) /\ Held(c) /\ Accounted(c)
    BY <1>0 DEF CopyOk
  <2>a. \/ C!Over(c, FALSE) /\ private' = private \ {c}
        \/ /\ cp' = [cp EXCEPT ![c] = [C!NoCopy EXCEPT !.pc = "over", !.lost = cp[c].lost, !.revoked = cp[c].revoked,
                                                      !.told = cp[c].told \cup {"private"}]]
           /\ private' = private
    BY <1>16 DEF C!Cleanup
  <2> DEFINE r == [C!NoCopy EXCEPT !.pc = "over", !.lost = cp[c].lost, !.revoked = cp[c].revoked,
                                   !.told = cp[c].told \cup {"private"}]
  <2>b. /\ r \in CopyRecs /\ r.pc = "over" /\ r.lost = cp[c].lost /\ r.revoked = cp[c].revoked
        /\ r.told = cp[c].told \cup {"private"}
    BY <2>0, NoneIsOne DEF CopyTypes, CopyRecs, C!NoCopy, C!Places
  <2>c. cp[c].pc = "cleanup"
    BY <1>16 DEF C!Cleanup, C!At
  <2> HIDE DEF r
  <2>1. /\ cp' \in [Copies -> CopyRecs]
        /\ \A d \in Copies \ {c} : cp'[d] = cp[d]
        /\ private' \subseteq Copies
        /\ \A d \in Copies \ {c} : d \in private' <=> d \in private
    BY <2>0, <2>a, <2>b, OneCopy, OverIsOver DEF CopyTypes, r
  <2>2. /\ cp[c].pc = "cleanup" /\ cp'[c].pc = "over"
        /\ cp'[c].revoked = cp[c].revoked /\ cp'[c].lost = cp[c].lost
        /\ cp[c].told \subseteq cp'[c].told /\ ("private" \in cp'[c].told \/ c \notin private')
    BY <2>0, <2>a, <2>b, <2>c, OneCopy, OverIsOver DEF r
  <2>3. UNCHANGED <<container, keys, lock, script, pin>>
    BY <1>16 DEF C!Cleanup, C!pod
  <2>4. Locking(c)'
    BY <2>0, <2>2, <2>3 DEF Locking, Scripts, C!NoScript
  <2>5. Placed(c)'
    BY <2>0, <2>2, <2>3 DEF Locking, Placed, C!NoScript
  <2>6. Held(c)'
    BY <2>0, <2>2, <2>3 DEF Locking, Placed, Held, C!NoScript
  <2>7. Accounted(c)'
    BY <2>0, <2>2, <2>3 DEF Locking, Placed, Held, Accounted, C!NoScript
  <2>8. CopyTypes'
    BY <2>0, <2>1, <2>2, <2>3, CopyAssumption DEF CopyTypes
  <2>9. User \in keys' /\ Only(c)
    BY <2>0, <2>1, <2>2, <2>3, CopyAssumption DEF CopyTypes, Only, Locking
  <2>10. QED
    BY <2>4, <2>5, <2>6, <2>7, <2>8, <2>9 DEF CopyOk
<1>17. ASSUME NEW c \in Copies, C!Kill(c) PROVE CopyTypes' /\ User \in keys' /\ Only(c) /\ CopyOk(c)'
  <2>0. CopyTypes /\ User \in keys /\ Locking(c) /\ Placed(c) /\ Held(c) /\ Accounted(c)
    BY <1>0 DEF CopyOk
  <2>1. CopyTypes'
    BY <1>17, <2>0, NoneIsOne DEF CopyTypes, CopyRecs, Scripts, C!Places, C!Kill, C!At, C!Quiet, C!pod, C!NoScript, C!NoCopy, C!Over
  <2>2. User \in keys'
    BY <1>17, <2>0, CopyAssumption DEF Locking, C!Kill, C!At, C!Quiet, C!pod, C!NoScript, C!NoCopy, C!Over
  <2>3. Only(c)
    BY <1>17, <2>0, CopyAssumption DEF Only, CopyTypes, Locking, C!Kill, C!At, C!Quiet, C!pod, C!NoScript, C!NoCopy, C!Over
  <2>4. Locking(c)'
    BY <1>17, <2>0, CopyAssumption DEF CopyTypes, CopyRecs, Scripts, Locking, Placed, C!Kill, C!At, C!Quiet, C!pod, C!NoScript, C!NoCopy, C!Over
  <2>5. Placed(c)'
    BY <1>17, <2>0 DEF CopyTypes, CopyRecs, Scripts, Locking, Placed, C!Kill, C!At, C!Quiet, C!pod, C!NoScript, C!NoCopy, C!Over
  <2>6. Held(c)'
    BY <1>17, <2>0 DEF CopyTypes, CopyRecs, Scripts, Locking, Placed, Held, Accounted, C!Kill, C!At, C!Quiet, C!pod, C!NoScript, C!NoCopy, C!Over
  <2>7. Accounted(c)'
    BY <1>17, <2>0 DEF CopyTypes, CopyRecs, Scripts, Locking, Placed, Held, Accounted, C!Kill, C!At, C!Quiet, C!pod, C!NoScript, C!NoCopy, C!Over
  <2>8. QED
    BY <2>1, <2>2, <2>3, <2>4, <2>5, <2>6, <2>7 DEF CopyOk
<1>18. ASSUME NEW c \in Copies, C!Lock(c) PROVE CopyTypes' /\ User \in keys' /\ Only(c) /\ CopyOk(c)'
  <2>0. CopyTypes /\ User \in keys /\ Locking(c) /\ Placed(c) /\ Held(c) /\ Accounted(c)
    BY <1>0 DEF CopyOk
  <2>1. CopyTypes'
    BY <1>18, <2>0, NoneIsOne DEF CopyTypes, CopyRecs, Scripts, C!Places, C!Lock, C!At, C!Quiet, C!pod, C!NoScript, C!NoCopy, C!Does, C!Step
  <2>2. User \in keys'
    BY <1>18, <2>0, CopyAssumption DEF Locking, C!Lock, C!At, C!Quiet, C!pod, C!NoScript, C!NoCopy, C!Does, C!Step
  <2>3. Only(c)
    BY <1>18, <2>0, CopyAssumption DEF Only, CopyTypes, Locking, C!Lock, C!At, C!Quiet, C!pod, C!NoScript, C!NoCopy, C!Does, C!Step
  <2>4. Locking(c)'
    BY <1>18, <2>0, CopyAssumption DEF CopyTypes, CopyRecs, Scripts, Locking, Placed, C!Lock, C!At, C!Quiet, C!pod, C!NoScript, C!NoCopy, C!Does, C!Step
  <2>5. Placed(c)'
    BY <1>18, <2>0 DEF CopyTypes, CopyRecs, Scripts, Locking, Placed, C!Lock, C!At, C!Quiet, C!pod, C!NoScript, C!NoCopy, C!Does, C!Step
  <2>6. Held(c)'
    BY <1>18, <2>0 DEF CopyTypes, CopyRecs, Scripts, Locking, Placed, Held, Accounted, C!Lock, C!At, C!Quiet, C!pod, C!NoScript, C!NoCopy, C!Does, C!Step
  <2>7. Accounted(c)'
    BY <1>18, <2>0 DEF CopyTypes, CopyRecs, Scripts, Locking, Placed, Held, Accounted, C!Lock, C!At, C!Quiet, C!pod, C!NoScript, C!NoCopy, C!Does, C!Step
  <2>8. QED
    BY <2>1, <2>2, <2>3, <2>4, <2>5, <2>6, <2>7 DEF CopyOk
<1>19. ASSUME NEW c \in Copies, C!LockTimesOut(c) PROVE CopyTypes' /\ User \in keys' /\ Only(c) /\ CopyOk(c)'
  <2>0. CopyTypes /\ User \in keys /\ Locking(c) /\ Placed(c) /\ Held(c) /\ Accounted(c)
    BY <1>0 DEF CopyOk
  <2>1. CopyTypes'
    BY <1>19, <2>0, NoneIsOne DEF CopyTypes, CopyRecs, Scripts, C!Places, C!LockTimesOut, C!At, C!Quiet, C!pod, C!NoScript, C!NoCopy, C!Does, C!End
  <2>2. User \in keys'
    BY <1>19, <2>0, CopyAssumption DEF Locking, C!LockTimesOut, C!At, C!Quiet, C!pod, C!NoScript, C!NoCopy, C!Does, C!End
  <2>3. Only(c)
    BY <1>19, <2>0, CopyAssumption DEF Only, CopyTypes, Locking, C!LockTimesOut, C!At, C!Quiet, C!pod, C!NoScript, C!NoCopy, C!Does, C!End
  <2>4. Locking(c)'
    BY <1>19, <2>0, CopyAssumption DEF CopyTypes, CopyRecs, Scripts, Locking, Placed, C!LockTimesOut, C!At, C!Quiet, C!pod, C!NoScript, C!NoCopy, C!Does, C!End
  <2>5. Placed(c)'
    BY <1>19, <2>0 DEF CopyTypes, CopyRecs, Scripts, Locking, Placed, C!LockTimesOut, C!At, C!Quiet, C!pod, C!NoScript, C!NoCopy, C!Does, C!End
  <2>6. Held(c)'
    BY <1>19, <2>0 DEF CopyTypes, CopyRecs, Scripts, Locking, Placed, Held, Accounted, C!LockTimesOut, C!At, C!Quiet, C!pod, C!NoScript, C!NoCopy, C!Does, C!End
  <2>7. Accounted(c)'
    BY <1>19, <2>0 DEF CopyTypes, CopyRecs, Scripts, Locking, Placed, Held, Accounted, C!LockTimesOut, C!At, C!Quiet, C!pod, C!NoScript, C!NoCopy, C!Does, C!End
  <2>8. QED
    BY <2>1, <2>2, <2>3, <2>4, <2>5, <2>6, <2>7 DEF CopyOk
<1>20. ASSUME NEW c \in Copies, C!Grant(c) PROVE CopyTypes' /\ User \in keys' /\ Only(c) /\ CopyOk(c)'
  <2>0. CopyTypes /\ User \in keys /\ Locking(c) /\ Placed(c) /\ Held(c) /\ Accounted(c)
    BY <1>0 DEF CopyOk
  <2>a. PICK ok \in BOOLEAN :
          /\ script' = [script EXCEPT ![c] = [@ EXCEPT !.step = "done", !.ok = ok]]
          /\ keys' = keys \cup {c} \/ (keys' = keys /\ ok = FALSE)
    BY <1>20 DEF C!Grant, C!End
  <2>b. /\ script[c].step = "locked" /\ script[c].op = "grant"
        /\ lock' = Nothing
        /\ UNCHANGED <<container, pin, cp, private>>
    BY <1>20 DEF C!Grant, C!Does
  <2>1. CopyTypes'
    BY <2>a, <2>b, <2>0, NoneIsOne DEF CopyTypes, CopyRecs, Scripts, C!Places, C!At, C!Quiet, C!pod, C!NoScript, C!NoCopy
  <2>2. User \in keys'
    BY <2>a, <2>b, <2>0, CopyAssumption DEF Locking, C!At, C!Quiet, C!pod, C!NoScript, C!NoCopy
  <2>3. Only(c)
    BY <2>a, <2>b, <2>0, CopyAssumption DEF Only, CopyTypes, Locking, C!At, C!Quiet, C!pod, C!NoScript, C!NoCopy
  <2>4. Locking(c)'
    BY <2>a, <2>b, <2>0, CopyAssumption DEF CopyTypes, CopyRecs, Scripts, Locking, Placed, C!At, C!Quiet, C!pod, C!NoScript, C!NoCopy
  <2>5. Placed(c)'
    BY <2>a, <2>b, <2>0 DEF CopyTypes, CopyRecs, Scripts, Locking, Placed, C!At, C!Quiet, C!pod, C!NoScript, C!NoCopy
  <2>6. Held(c)'
    BY <2>a, <2>b, <2>0 DEF CopyTypes, CopyRecs, Scripts, Locking, Placed, Held, Accounted, C!At, C!Quiet, C!pod, C!NoScript, C!NoCopy
  <2>7. Accounted(c)'
    BY <2>a, <2>b, <2>0 DEF CopyTypes, CopyRecs, Scripts, Locking, Placed, Held, Accounted, C!At, C!Quiet, C!pod, C!NoScript, C!NoCopy
  <2>8. QED
    BY <2>1, <2>2, <2>3, <2>4, <2>5, <2>6, <2>7 DEF CopyOk
<1>21. ASSUME NEW c \in Copies, C!Filter(c) PROVE CopyTypes' /\ User \in keys' /\ Only(c) /\ CopyOk(c)'
  <2>0. CopyTypes /\ User \in keys /\ Locking(c) /\ Placed(c) /\ Held(c) /\ Accounted(c)
    BY <1>0 DEF CopyOk
  <2>a. \/ script' = [script EXCEPT ![c] = [script[c] EXCEPT !.step = "filtered", !.scratch = keys \ {c}]] /\ lock' = lock
        \/ script' = [script EXCEPT ![c] = [script[c] EXCEPT !.step = "done", !.ok = FALSE]] /\ lock' = Nothing
    BY <1>21 DEF C!Filter, C!End
  <2> DEFINE r == [script[c] EXCEPT !.step = "filtered", !.scratch = keys \ {c}]
             s == [script[c] EXCEPT !.step = "done", !.ok = FALSE]
  <2>b. /\ r \in Scripts /\ r.step = "filtered" /\ r.op = script[c].op /\ r.ok = script[c].ok /\ r.scratch = keys \ {c}
        /\ s \in Scripts /\ s.step = "done" /\ s.op = script[c].op /\ ~s.ok
    BY <2>0 DEF CopyTypes, Scripts
  <2>c. script[c].step = "locked" /\ script[c].op = "revoke"
    BY <1>21 DEF C!Filter, C!Does
  <2> HIDE DEF r, s
  <2>1. script' \in [Copies -> Scripts] /\ \A d \in Copies \ {c} : script'[d] = script[d]
    BY <2>0, <2>a, <2>b, OneScript DEF r, s
  <2>2. /\ script[c].step = "locked" /\ script[c].op = "revoke" /\ script'[c].op = "revoke" /\ ~script'[c].ok /\ c # Nothing
        /\ \/ script'[c].step = "filtered" /\ script'[c].scratch = keys \ {c} /\ lock' = lock
           \/ script'[c].step = "done" /\ lock' = Nothing
    BY <2>0, <2>a, <2>b, <2>c, OneScript, CopyAssumption DEF Locking, r, s
  <2>3. UNCHANGED <<container, keys, pin, cp, private>>
    BY <1>21 DEF C!Filter
  <2>4. Locking(c)'
    BY <2>0, <2>2, <2>3 DEF Locking, Scripts, C!NoScript
  <2>5. Placed(c)'
    BY <2>0, <2>2, <2>3 DEF Locking, Placed, C!NoScript
  <2>6. Held(c)'
    BY <2>0, <2>2, <2>3 DEF Locking, Placed, Held, C!NoScript
  <2>7. Accounted(c)'
    BY <2>0, <2>2, <2>3 DEF Locking, Placed, Held, Accounted, C!NoScript
  <2>8. CopyTypes'
    BY <2>0, <2>1, <2>2, <2>3, CopyAssumption DEF CopyTypes
  <2>9. User \in keys' /\ Only(c)
    BY <2>0, <2>1, <2>2, <2>3, CopyAssumption DEF CopyTypes, Only, Locking
  <2>10. QED
    BY <2>4, <2>5, <2>6, <2>7, <2>8, <2>9 DEF CopyOk
<1>22. ASSUME NEW c \in Copies, C!WriteBack(c) PROVE CopyTypes' /\ User \in keys' /\ Only(c) /\ CopyOk(c)'
  <2>0. CopyTypes /\ User \in keys /\ Locking(c) /\ Placed(c) /\ Held(c) /\ Accounted(c)
    BY <1>0 DEF CopyOk
  <2>1. CopyTypes'
    BY <1>22, <2>0, NoneIsOne DEF CopyTypes, CopyRecs, Scripts, C!Places, C!WriteBack, C!At, C!Quiet, C!pod, C!NoScript, C!NoCopy, C!Does
  <2>2. User \in keys'
    BY <1>22, <2>0, CopyAssumption DEF Locking, C!WriteBack, C!At, C!Quiet, C!pod, C!NoScript, C!NoCopy, C!Does
  <2>3. Only(c)
    BY <1>22, <2>0, CopyAssumption DEF Only, CopyTypes, Locking, C!WriteBack, C!At, C!Quiet, C!pod, C!NoScript, C!NoCopy, C!Does
  <2>4. Locking(c)'
    BY <1>22, <2>0, CopyAssumption DEF CopyTypes, CopyRecs, Scripts, Locking, Placed, C!WriteBack, C!At, C!Quiet, C!pod, C!NoScript, C!NoCopy, C!Does
  <2>5. Placed(c)'
    BY <1>22, <2>0 DEF CopyTypes, CopyRecs, Scripts, Locking, Placed, C!WriteBack, C!At, C!Quiet, C!pod, C!NoScript, C!NoCopy, C!Does
  <2>6. Held(c)'
    BY <1>22, <2>0 DEF CopyTypes, CopyRecs, Scripts, Locking, Placed, Held, Accounted, C!WriteBack, C!At, C!Quiet, C!pod, C!NoScript, C!NoCopy, C!Does
  <2>7. Accounted(c)'
    BY <1>22, <2>0 DEF CopyTypes, CopyRecs, Scripts, Locking, Placed, Held, Accounted, C!WriteBack, C!At, C!Quiet, C!pod, C!NoScript, C!NoCopy, C!Does
  <2>8. QED
    BY <2>1, <2>2, <2>3, <2>4, <2>5, <2>6, <2>7 DEF CopyOk
<1>23. ASSUME NEW c \in Copies, CopyTypes', User \in keys', Only(c), CopyOk(c)' PROVE CopyInv'
  <2>1. \A d \in Copies \ {c} : CopyOk(d)'
    BY <1>23, OthersStay
  <2>2. QED
    BY <1>23, <2>1 DEF CopyInv
<1>24. CASE C!Replaced
  <2>1. CopyTypes' /\ User \in keys'
    <3>1. container' \in 0..MaxReboots /\ keys' = {User} /\ lock' = Nothing
      <4>1. container \in 0..MaxReboots /\ container < MaxReboots /\ container' = container + 1
        BY <1>0, <1>24 DEF CopyTypes, C!Replaced
      <4>2. keys' = {User} /\ lock' = Nothing
        BY <1>24 DEF C!Replaced
      <4>3. QED
        BY <4>1, <4>2, CopyAssumption
    <3>2. \A c \in Copies : script[c] \in Scripts /\ [script[c] EXCEPT !.step = "done", !.scratch = {}] \in Scripts
      BY <1>0 DEF CopyTypes, Scripts
    <3>3. script' \in [Copies -> Scripts]
      BY <1>24, <3>2 DEF C!Replaced
    <3>4. QED
      BY <1>0, <1>24, <3>1, <3>3 DEF CopyTypes, C!Replaced
  <2>2. ASSUME NEW c \in Copies PROVE CopyOk(c)'
    <3>0. CopyTypes /\ Locking(c) /\ Placed(c) /\ Held(c) /\ Accounted(c)
      BY <1>0 DEF CopyOk
    <3>1. /\ container' = container + 1 /\ keys' = {User} /\ lock' = Nothing /\ cp' = cp /\ private' = private
          /\ script'[c] = IF script[c].op = "none" \/ script[c].step = "done" THEN script[c]
                          ELSE [script[c] EXCEPT !.step = "done", !.scratch = {}]
          /\ container \in 0..MaxReboots /\ c # User /\ c # Nothing /\ script[c] \in Scripts
      BY <1>24, <3>0, CopyAssumption DEF CopyTypes, C!Replaced, C!Does
    <3>2. Locking(c)'
      BY <3>0, <3>1 DEF Locking, C!NoScript, Scripts
    <3>3. Placed(c)'
      BY <3>0, <3>1 DEF Locking, Placed, C!NoScript, Scripts
    <3>4. Held(c)'
      BY <3>0, <3>1, CopyAssumption DEF Locking, Placed, Held, C!NoScript, Scripts
    <3>5. Accounted(c)'
      BY <3>0, <3>1 DEF Locking, Placed, Held, Accounted, C!NoScript, Scripts
    <3>6. QED
      BY <3>2, <3>3, <3>4, <3>5 DEF CopyOk
  <2>3. QED
    BY <2>1, <2>2 DEF CopyInv
<1>25. CASE C!ForgetHostKey
  BY <1>0, <1>25 DEF CopyInv, CopyTypes, CopyOk, Locking, Placed, Held, Accounted, C!ForgetHostKey, C!pod
<1>26. CASE UNCHANGED C!vars
  BY <1>0, <1>26 DEF CopyInv, CopyTypes, CopyOk, Locking, Placed, Held, Accounted, C!vars
<1>27. QED
  BY <1>1, <1>2, <1>3, <1>4, <1>5, <1>6, <1>7, <1>8, <1>9, <1>10, <1>11, <1>12, <1>13, <1>14, <1>15, <1>16, <1>17, <1>18, <1>19, <1>20, <1>21, <1>22, <1>23, <1>24, <1>25, <1>26 DEF C!Next
LEMMA CopySafety == Spec => []CopyInv
<1>1. Init => CopyInv
  BY CopyInit DEF Init
<1>2. CopyInv /\ [Next]_vars => CopyInv'
  BY CopySteps, CopyStep
<1>3. QED
  BY <1>1, <1>2, PTL DEF Spec

\* lium cp: authorized_keys is what the answers of grants and revokes say, and the user's own
\* line stays, however the commands of several copies and reboots interleave.
THEOREM KeysAreAsAnswered == Spec => []KeysAsAnswered
<1>1. CopyInv => KeysAsAnswered
  BY DEF CopyInv, CopyOk, Held, KeysAsAnswered, C!KeysAsAnswered
<1>2. QED
  BY <1>1, CopySafety, PTL

\* lium cp: a half of the key that stays on a pod was told, or the copy was killed, or what had
\* made it did not answer, or answered that it had failed.
THEOREM LeftKeysAreTold == Spec => []LeftKeyIsTold
<1>1. ASSUME CopyInv, NEW c \in Copies, cp[c].pc = "over", ~cp[c].killed, ~cp[c].lost
      PROVE  C!Left(c) \subseteq cp[c].told
  BY <1>1 DEF CopyInv, CopyOk, Accounted, C!Left
<1>2. CopyInv => LeftKeyIsTold
  BY <1>1 DEF LeftKeyIsTold, C!LeftKeyIsTold, C!At
<1>3. QED
  BY <1>2, CopySafety, PTL

\* Of the steps of the copies and of the pod, three change authorized_keys.
LEMMA KeysFrame ==
  [C!Next]_(C!vars) =>
    \/ \E c \in Copies : C!Grant(c)
    \/ \E c \in Copies : C!WriteBack(c)
    \/ C!Replaced
    \/ UNCHANGED keys
BY DEF C!Next, C!vars, C!pod, C!Quiet, C!Begin, C!NoTransfer, C!Keygen, C!KeygenFails, C!Start, C!StartGrant,
   C!GrantNotStarted, C!Granted, C!GrantUnanswered, C!ReadPin, C!PlacePin, C!Rsync, C!StartRevoke,
   C!RevokeNotStarted, C!Revoked, C!RevokeUnanswered, C!Cleanup, C!Kill, C!Lock, C!LockTimesOut, C!Filter,
   C!ForgetHostKey

\* The read, the filter and the write-back of a revoke are as one step: as long as the container
\* stays, authorized_keys changes only by one copy's own key, which its grant adds or its revoke
\* takes, whatever other copies have written since they started.
THEOREM CopiesChangeTheirOwn ==
  Spec => [][ \/ container' # container
              \/ \E c \in Copies : \/ script[c].op = "grant" /\ keys' = keys \cup {c}
                                   \/ script[c].op = "revoke" /\ keys' = keys \ {c} ]_keys
<1> DEFINE Its == \E c \in Copies : \/ script[c].op = "grant" /\ keys' = keys \cup {c}
                                    \/ script[c].op = "revoke" /\ keys' = keys \ {c}
<1>1. ASSUME CopyInv, [C!Next]_(C!vars) PROVE container' # container \/ Its \/ UNCHANGED keys
  <2>1. CASE \E c \in Copies : C!Grant(c)
    BY <2>1 DEF C!Grant
  <2>2. CASE \E c \in Copies : C!WriteBack(c)
    <3>1. PICK c \in Copies : script[c].step = "filtered" /\ keys' = script[c].scratch
      BY <2>2 DEF C!WriteBack, C!Does
    <3>2. script[c].scratch = keys \ {c} /\ script[c].op = "revoke"
      BY <1>1, <3>1 DEF CopyInv, CopyOk, Locking
    <3> QED
      BY <3>1, <3>2
  <2>3. CASE C!Replaced
    <3>1. container \in Nat
      BY <1>1, CopyAssumption DEF CopyInv, CopyTypes
    <3>2. container' = container + 1
      BY <2>3 DEF C!Replaced
    <3> QED
      BY <3>1, <3>2
  <2> QED
    BY <1>1, <2>1, <2>2, <2>3, KeysFrame
<1>2. CopyInv /\ [Next]_vars => [container' # container \/ Its]_keys
  BY <1>1, CopySteps
<1> QED
  BY <1>2, CopySafety, PTL DEF Spec

-----------------------------------------------------------------------------
(* Exec.                                                                   *)

LEMMA ExecSteps == [Next]_vars => [X!Next]_(X!vars)
  BY DEF Next, vars, X!vars, fleet

Tasks   == [pc : {"queued", "connect", "stdin", "status", "read", "done"}, exit : X!Statuses \cup {1, X!NoStatus}]
Remotes == [input : BOOLEAN, eof : BOOLEAN, left : 0..MaxOutput, unread : 0..Window,
            status : {"none", "ok", "failed", "lost"}, output : {"open", "held", "ended"}, silent : BOOLEAN]

\* A worker that waits for an exit status has ended the input of the command.
ExecInv ==
  /\ X!Targets \subseteq 1..MaxTargets
  /\ task \in [X!Targets -> Tasks]
  /\ remote \in [X!Targets -> Remotes]
  /\ \A i \in X!Targets : task[i].pc = "status" => remote[i].eof

LEMMA NewRemote == X!NoTask \in Tasks /\ X!NoRemote \in Remotes
  BY ExecAssumption DEF X!NoTask, X!NoRemote, Tasks, Remotes, X!Statuses, X!NoStatus

\* A step changes the task or the command of one target, or both.
LEMMA OneTarget ==
  ASSUME ExecInv, NEW i \in X!Targets, NEW t \in Tasks, NEW r \in Remotes,
         task' = [task EXCEPT ![i] = t], remote' = [remote EXCEPT ![i] = r],
         t.pc = "status" => r.eof
  PROVE  ExecInv'
<1>1. X!Targets' = X!Targets
  BY DEF ExecInv, X!Targets
<1>2. task' \in [X!Targets -> Tasks] /\ remote' \in [X!Targets -> Remotes]
  BY DEF ExecInv
<1>3. ASSUME NEW j \in X!Targets, task'[j].pc = "status" PROVE remote'[j].eof
  BY <1>3 DEF ExecInv
<1>4. QED
  BY <1>1, <1>2, <1>3 DEF ExecInv

LEMMA ExecStep == ExecInv /\ [X!Next]_(X!vars) => ExecInv'
<1> SUFFICES ASSUME ExecInv, [X!Next]_(X!vars) PROVE ExecInv'
  OBVIOUS
<1>0. \A i \in X!Targets : task[i] \in Tasks /\ remote[i] \in Remotes
  BY DEF ExecInv
<1>s. /\ task \in [X!Targets -> Tasks] /\ remote \in [X!Targets -> Remotes]
  BY DEF ExecInv
<1>a. ASSUME NEW i \in X!Targets, NEW t \in Tasks, task' = [task EXCEPT ![i] = t], remote' = remote,
             t.pc = "status" => remote[i].eof
      PROVE  ExecInv'
  <2>1. remote' = [remote EXCEPT ![i] = remote[i]]
    BY <1>a, <1>s
  <2>2. QED
    BY <1>0, <1>a, <2>1, OneTarget
<1>b. ASSUME NEW i \in X!Targets, NEW r \in Remotes, remote' = [remote EXCEPT ![i] = r], task' = task,
             remote[i].eof => r.eof
      PROVE  ExecInv'
  <2>1. task' = [task EXCEPT ![i] = task[i]]
    BY <1>b, <1>s
  <2>2. task[i].pc = "status" => r.eof
    BY <1>b DEF ExecInv
  <2>3. QED
    BY <1>0, <1>b, <2>1, <2>2, OneTarget
<1>1. CASE X!Begin
  <2>1. PICK n \in 1..MaxTargets : task' = [i \in 1..n |-> X!NoTask] /\ remote' = [i \in 1..n |-> X!NoRemote]
    BY <1>1 DEF X!Begin
  <2>2. X!Targets' = 1..n /\ 1..n \subseteq 1..MaxTargets
    BY <2>1, ExecAssumption DEF X!Targets
  <2>3. QED
    BY <2>1, <2>2, NewRemote DEF ExecInv, X!NoTask
<1>2. ASSUME task' = <<>>, remote' = <<>> PROVE ExecInv'
  BY <1>2 DEF ExecInv, X!Targets
<1>3. CASE X!Report
  BY <1>3 DEF X!Report, ExecInv, X!Targets
<1>4. CASE X!Finish \/ X!Interrupt
  BY <1>2, <1>4 DEF X!Finish, X!Interrupt
<1>5. ASSUME NEW i \in X!Targets, X!Take(i) PROVE ExecInv'
  <2>1. [task[i] EXCEPT !.pc = "connect"] \in Tasks
    BY <1>0 DEF Tasks
  <2>2. QED
    BY <1>0, <1>5, <1>a, <2>1 DEF X!Take, X!Go, Tasks
<1>6. ASSUME NEW i \in X!Targets, X!Connect(i) PROVE ExecInv'
  <2>1. PICK input \in BOOLEAN, left \in 0..MaxOutput :
          remote' = [remote EXCEPT ![i] = [remote[i] EXCEPT !.input = input, !.left = left]]
    BY <1>6 DEF X!Connect
  <2>2. [remote[i] EXCEPT !.input = input, !.left = left] \in Remotes
    <3>1. remote[i] \in Remotes /\ input \in BOOLEAN
      BY <1>0
    <3>2. QED
      BY <3>1 DEF Remotes
  <2>3. [task[i] EXCEPT !.pc = "stdin"] \in Tasks /\ [task[i] EXCEPT !.pc = "stdin"].pc = "stdin"
    BY <1>0 DEF Tasks
  <2>4. task' = [task EXCEPT ![i] = [task[i] EXCEPT !.pc = "stdin"]]
    BY <1>6 DEF X!Connect, X!Go
  <2>5. QED
    BY <2>1, <2>2, <2>3, <2>4, OneTarget
<1>7. ASSUME NEW i \in X!Targets, X!Raises(i) PROVE ExecInv'
  <2>1. [pc |-> "done", exit |-> 1] \in Tasks
    BY DEF Tasks
  <2>2. QED
    BY <1>7, <1>a, <2>1 DEF X!Raises, X!Done
<1>8. ASSUME NEW i \in X!Targets, X!CloseStdin(i) PROVE ExecInv'
  <2>1. [remote[i] EXCEPT !.eof = TRUE] \in Remotes /\ [remote[i] EXCEPT !.eof = TRUE].eof
    BY <1>0 DEF Remotes
  <2>2. [task[i] EXCEPT !.pc = "status"] \in Tasks
    BY <1>0 DEF Tasks
  <2>3. /\ task' = [task EXCEPT ![i] = [task[i] EXCEPT !.pc = "status"]]
        /\ remote' = [remote EXCEPT ![i] = [remote[i] EXCEPT !.eof = TRUE]]
    BY <1>8 DEF X!CloseStdin, X!Go
  <2>4. QED
    BY <2>1, <2>2, <2>3, OneTarget
<1>9. ASSUME NEW i \in X!Targets, X!Status(i) PROVE ExecInv'
  <2>1. PICK x \in {X!NoStatus, 0, 2} : task' = [task EXCEPT ![i] = [pc |-> "read", exit |-> x]]
    BY <1>9 DEF X!Status
  <2>2. [pc |-> "read", exit |-> x] \in Tasks
    BY DEF Tasks, X!Statuses
  <2>3. QED
    BY <1>9, <1>a, <2>1, <2>2 DEF X!Status
<1>10. ASSUME NEW i \in X!Targets, X!Read(i) PROVE ExecInv'
  <2>1. [task[i] EXCEPT !.pc = "done"] \in Tasks /\ [task[i] EXCEPT !.pc = "done"].pc = "done"
    BY <1>0 DEF Tasks
  <2>2. /\ task' = [task EXCEPT ![i] = [task[i] EXCEPT !.pc = "done"]]
        /\ remote' = [remote EXCEPT ![i] = X!NoRemote]
    BY <1>10 DEF X!Read, X!Go
  <2>3. QED
    BY <2>1, <2>2, NewRemote, OneTarget
<1>11. ASSUME NEW i \in X!Targets, X!ReadInput(i) PROVE ExecInv'
  <2>1. [remote[i] EXCEPT !.input = FALSE] \in Remotes /\ [remote[i] EXCEPT !.input = FALSE].eof = remote[i].eof
    BY <1>0 DEF Remotes
  <2>2. QED
    BY <1>11, <1>b, <2>1 DEF X!ReadInput
<1>12. ASSUME NEW i \in X!Targets, X!Output(i) PROVE ExecInv'
  <2> DEFINE r == [remote[i] EXCEPT !.left = @ - 1, !.unread = @ + 1]
  <2>1. remote[i].left > 0 /\ remote[i].unread < Window /\ remote' = [remote EXCEPT ![i] = r] /\ task' = task
    BY <1>12 DEF X!Output
  <2>2. r \in Remotes /\ r.eof = remote[i].eof
    <3>1. remote[i] \in Remotes /\ remote[i].left \in 0..MaxOutput /\ remote[i].unread \in 0..Window
      BY <1>0 DEF Remotes
    <3>2. remote[i].left - 1 \in 0..MaxOutput /\ remote[i].unread + 1 \in 0..Window
      BY <2>1, <3>1, ExecAssumption
    <3>3. QED
      BY <3>1, <3>2 DEF Remotes
  <2> HIDE DEF r
  <2>3. QED
    BY <1>b, <2>1, <2>2
<1>13. ASSUME NEW i \in X!Targets, X!Exit(i) PROVE ExecInv'
  <2>1. PICK s \in {"ok", "failed"}, o \in {"open", "held"} :
          remote' = [remote EXCEPT ![i] = [remote[i] EXCEPT !.status = s, !.output = o]]
    BY <1>13 DEF X!Exit
  <2>2. /\ [remote[i] EXCEPT !.status = s, !.output = o] \in Remotes
        /\ [remote[i] EXCEPT !.status = s, !.output = o].eof = remote[i].eof
    BY <1>0 DEF Remotes
  <2>3. QED
    BY <1>13, <1>b, <2>1, <2>2 DEF X!Exit
<1>14. ASSUME NEW i \in X!Targets, X!StatusLost(i) PROVE ExecInv'
  <2>1. PICK o \in {"open", "held"} :
          remote' = [remote EXCEPT ![i] = [remote[i] EXCEPT !.status = "lost", !.output = o]]
    BY <1>14 DEF X!StatusLost
  <2>2. /\ [remote[i] EXCEPT !.status = "lost", !.output = o] \in Remotes
        /\ [remote[i] EXCEPT !.status = "lost", !.output = o].eof = remote[i].eof
    BY <1>0 DEF Remotes
  <2>3. QED
    BY <1>14, <1>b, <2>1, <2>2 DEF X!StatusLost
<1>15. ASSUME NEW i \in X!Targets, X!Silence(i) PROVE ExecInv'
  <2>1. [remote[i] EXCEPT !.silent = TRUE] \in Remotes /\ [remote[i] EXCEPT !.silent = TRUE].eof = remote[i].eof
    BY <1>0 DEF Remotes
  <2>2. QED
    BY <1>15, <1>b, <2>1 DEF X!Silence
<1>16. ASSUME NEW i \in X!Targets, X!OutputEnds(i) PROVE ExecInv'
  <2>1. /\ [remote[i] EXCEPT !.output = "ended"] \in Remotes
        /\ [remote[i] EXCEPT !.output = "ended"].eof = remote[i].eof
    BY <1>0 DEF Remotes
  <2>2. QED
    BY <1>16, <1>b, <2>1 DEF X!OutputEnds
<1>17. CASE UNCHANGED X!vars
  BY <1>17 DEF X!vars, ExecInv, X!Targets
<1>18. QED
  BY <1>1, <1>3, <1>4, <1>5, <1>6, <1>7, <1>8, <1>9, <1>10, <1>11, <1>12, <1>13, <1>14, <1>15, <1>16, <1>17 DEF X!Next

\* lium exec: when every worker waits for ever, its pod is silent, has more to print than the
\* window holds, or runs a child of the command that holds the output open.
THEOREM HangsAreThePods == Spec => []HangIsThePods
<1>1. Init => ExecInv
  BY DEF Init, X!Init, ExecInv, X!Targets
<1>2. ExecInv /\ [Next]_vars => ExecInv'
  BY ExecSteps, ExecStep
<1>3. ASSUME ExecInv, NEW i \in X!Working, X!Waits(i), ~remote[i].silent
      PROVE  remote[i].left + remote[i].unread > Window \/ remote[i].output = "held"
  <2>1. i \in X!Targets /\ remote[i] \in Remotes
    BY <1>3 DEF ExecInv, X!Working
  <2>2. CASE task[i].pc = "status"
    <3>1. remote[i].left > 0 /\ remote[i].unread = Window
      BY <1>3, <2>1, <2>2 DEF ExecInv, X!Waits, X!At
    <3>2. QED
      BY <2>1, <3>1, ExecAssumption DEF Remotes
  <2>3. CASE task[i].pc # "status"
    BY <1>3, <2>3 DEF X!Waits, X!At
  <2>4. QED
    BY <2>2, <2>3
<1>4. ExecInv => HangIsThePods
  BY <1>3 DEF HangIsThePods, X!HangIsThePods, X!Hangs
<1>5. QED
  BY <1>1, <1>2, <1>4, PTL DEF Spec

\* The pool: at most as many workers as it has are at a pod; and while the command runs it has
\* targets, so that it has a worst exit code to report.
PoolInv ==
  /\ ExecInv
  /\ command \in [pc : {"idle", "run", "over"}, code : X!Statuses \cup {1, X!NoStatus}]
  /\ command.pc = "run" => X!Targets # {}
  /\ Cardinality(X!Working) <= Workers

LEMMA WorkersAreCounted == \A T : X!Cardinality(T) = Cardinality(T)
  BY DEF X!Cardinality, Cardinality

LEMMA WorkersAreFinite == ExecInv => IsFiniteSet(X!Working)
<1> SUFFICES ASSUME ExecInv PROVE IsFiniteSet(X!Working)
  OBVIOUS
<1>1. IsFiniteSet(1..MaxTargets)
  BY FS_Interval, ExecAssumption
<1>2. X!Working \in SUBSET (1..MaxTargets)
  BY DEF ExecInv, X!Working
<1>3. QED
  BY <1>1, <1>2, FS_Subset

\* A step after which no more workers are at a pod.
LEMMA FewerWorkers ==
  ASSUME PoolInv, X!Working' \subseteq X!Working
  PROVE  Cardinality(X!Working') <= Workers
<1>1. /\ Cardinality(X!Working') <= Cardinality(X!Working)
      /\ IsFiniteSet(X!Working) /\ IsFiniteSet(X!Working')
  BY WorkersAreFinite, FS_Subset DEF PoolInv
<1>2. Cardinality(X!Working) \in Nat /\ Cardinality(X!Working') \in Nat
  BY <1>1, FS_CardinalityType
<1>3. QED
  BY <1>1, <1>2, ExecAssumption DEF PoolInv

\* The worst exit code is one of them.
LEMMA NoStatusIs == X!NoStatus = 0 - 1
  BY DEF X!NoStatus

LEMMA WorstIsOne == PoolInv /\ X!Report => X!Worst \in X!Statuses \cup {1, X!NoStatus}
<1> SUFFICES ASSUME PoolInv, X!Report PROVE X!Worst \in X!Statuses \cup {1, X!NoStatus}
  OBVIOUS
<1> DEFINE exits == {task[i].exit : i \in X!Targets}
<1>1. exits \subseteq {X!NoStatus, 0, 1, 2} /\ exits # {}
  <2>1. \A i \in X!Targets : task[i].exit \in {X!NoStatus, 0, 1, 2}
    BY DEF PoolInv, ExecInv, Tasks, X!Statuses
  <2>2. X!Targets # {}
    BY DEF PoolInv, X!Report
  <2>3. QED
    BY <2>1, <2>2
<1> HIDE DEF exits
<1>2. \E x \in exits : \A y \in exits : x >= y
  <2>1. CASE 2 \in exits
    BY <1>1, <2>1, NoStatusIs
  <2>2. CASE 2 \notin exits /\ 1 \in exits
    BY <1>1, <2>2, NoStatusIs
  <2>3. CASE 2 \notin exits /\ 1 \notin exits /\ 0 \in exits
    BY <1>1, <2>3, NoStatusIs
  <2>4. CASE 2 \notin exits /\ 1 \notin exits /\ 0 \notin exits
    <3>1. exits = {X!NoStatus}
      BY <1>1, <2>4
    <3>2. QED
      BY <3>1, NoStatusIs
  <2>5. QED
    BY <2>1, <2>2, <2>3, <2>4
<1>3. X!Max(exits) \in exits
  BY <1>2 DEF X!Max
<1>4. X!Worst = X!Max(exits)
  BY DEF X!Worst, exits
<1>5. QED
  BY <1>1, <1>3, <1>4 DEF X!Statuses

LEMMA PoolStep == PoolInv /\ [X!Next]_(X!vars) => PoolInv'
<1> SUFFICES ASSUME PoolInv, [X!Next]_(X!vars) PROVE PoolInv'
  OBVIOUS
<1>0. ExecInv /\ ExecInv'
  BY ExecStep DEF PoolInv
<1>1. CASE X!Begin
  <2>1. PICK n \in 1..MaxTargets : task' = [i \in 1..n |-> X!NoTask]
    BY <1>1 DEF X!Begin
  <2>2. X!Working' = {} /\ 1 \in X!Targets'
    BY <2>1, ExecAssumption DEF X!Working, X!Targets, X!NoTask
  <2>3. QED
    BY <1>0, <1>1, <2>2, FewerWorkers DEF PoolInv, X!Begin, X!Statuses
<1>2. CASE X!Report
  <2>1. X!Worst \in X!Statuses \cup {1, X!NoStatus}
    BY <1>2, WorstIsOne
  <2>2. X!Working' = X!Working
    BY <1>2 DEF X!Report, X!Working, X!Targets
  <2>3. QED
    BY <1>0, <1>2, <2>1, <2>2, FewerWorkers DEF PoolInv, X!Report
<1>3. CASE X!Finish \/ X!Interrupt
  <2>1. X!Working' = {}
    BY <1>3 DEF X!Finish, X!Interrupt, X!Working, X!Targets
  <2>2. QED
    BY <1>0, <1>3, <2>1, FewerWorkers DEF PoolInv, X!Finish, X!Interrupt, X!Statuses
<1>4. ASSUME NEW i \in X!Targets, X!Take(i) PROVE PoolInv'
  <2>1. X!Targets' = X!Targets /\ X!Working' \subseteq X!Working \cup {i}
    BY <1>0, <1>4 DEF ExecInv, Tasks, X!Take, X!Go, X!Working, X!Targets
  <2>2. Cardinality(X!Working) < Workers
    BY <1>4, WorkersAreCounted DEF X!Take
  <2>3. IsFiniteSet(X!Working) /\ Cardinality(X!Working) \in Nat
    BY <1>0, WorkersAreFinite, FS_CardinalityType
  <2>4. IsFiniteSet(X!Working \cup {i}) /\ Cardinality(X!Working \cup {i}) <= Cardinality(X!Working) + 1
    BY <2>3, FS_AddElement
  <2>5. IsFiniteSet(X!Working') /\ Cardinality(X!Working') <= Cardinality(X!Working \cup {i})
    BY <2>1, <2>4, FS_Subset
  <2>6. Cardinality(X!Working') \in Nat /\ Cardinality(X!Working \cup {i}) \in Nat
    BY <2>4, <2>5, FS_CardinalityType
  <2>7. Cardinality(X!Working') <= Workers
    BY <2>2, <2>3, <2>4, <2>5, <2>6, ExecAssumption
  <2>8. QED
    BY <1>0, <1>4, <2>1, <2>7 DEF PoolInv, X!Take
<1>5. ASSUME NEW i \in X!Targets,
             \/ X!Connect(i) \/ X!Raises(i) \/ X!CloseStdin(i) \/ X!Status(i) \/ X!Read(i)
             \/ X!ReadInput(i) \/ X!Output(i) \/ X!Exit(i) \/ X!StatusLost(i) \/ X!OutputEnds(i) \/ X!Silence(i)
      PROVE  PoolInv'
  <2>1. X!Targets' = X!Targets /\ command' = command
    BY <1>0, <1>5 DEF ExecInv, X!Connect, X!Raises, X!CloseStdin, X!Status, X!Read, X!ReadInput, X!Output, X!Exit,
                      X!StatusLost, X!OutputEnds, X!Silence, X!Go, X!Done, X!Targets
  <2>2. X!Working' \subseteq X!Working
    BY <1>0, <1>5 DEF ExecInv, Tasks, X!Connect, X!Raises, X!CloseStdin, X!Status, X!Read, X!ReadInput, X!Output, X!Exit,
                      X!StatusLost, X!OutputEnds, X!Silence, X!Go, X!Done, X!At, X!Targets, X!Working
  <2>3. QED
    BY <1>0, <2>1, <2>2, FewerWorkers DEF PoolInv
<1>6. CASE UNCHANGED X!vars
  <2>1. X!Working' = X!Working /\ X!Targets' = X!Targets /\ command' = command
    BY <1>6 DEF X!vars, X!Working, X!Targets
  <2>2. QED
    BY <1>0, <2>1, FewerWorkers DEF PoolInv
<1>7. QED
  BY <1>1, <1>2, <1>3, <1>4, <1>5, <1>6 DEF X!Next

LEMMA PoolSafety == Spec => []PoolInv
<1>1. Init => PoolInv
  <2> SUFFICES ASSUME Init PROVE PoolInv
    OBVIOUS
  <2>1. ExecInv /\ X!Working = {}
    BY DEF Init, X!Init, ExecInv, X!Targets, X!Working
  <2>2. Cardinality(X!Working) <= Workers
    BY <2>1, FS_EmptySet, ExecAssumption
  <2>3. QED
    BY <2>1, <2>2 DEF Init, X!Init, PoolInv, X!Statuses
<1>2. PoolInv /\ [Next]_vars => PoolInv'
  BY ExecSteps, PoolStep
<1>3. QED
  BY <1>1, <1>2, PTL DEF Spec

-----------------------------------------------------------------------------
(* HostKeys.                                                               *)

LEMMA PinSteps == [Next]_vars => [H!Next]_(H!vars)
  BY DEF Next, vars, H!vars, pins

Files == [Addresses -> H!AllKeys \cup {Nothing}]
Connections ==
  [pc : {"idle", "open", "refused", "append", "merge", "truncate", "write", "ask", "answered"},
   ssh : BOOLEAN, mem : Files \cup {Nothing}, key : H!AllKeys \cup {Nothing},
   at : Addresses \cup {Nothing}, gone : BOOLEAN]

PinTypes ==
  /\ host \in [key : H!AllKeys, at : Addresses]
  /\ due \in BOOLEAN
  /\ hosts \in Files \cup {Nothing}
  /\ client \in [Clients -> Connections]
  /\ excused \subseteq H!AllKeys

\* A connection has what its place needs.
Loaded(c) ==
  /\ c.pc \in {"open", "merge", "truncate", "write"} => c.mem # Nothing
  /\ c.pc \in {"open", "append", "merge"} => c.at # Nothing
  /\ c.pc \in {"refused", "append", "merge"} => c.key # Nothing

\* The keys that a connection may still write, and those that are anywhere.
Carries(c) == H!KeysIn(c.mem) \cup ({c.key} \ {Nothing})
Anywhere   == H!KeysIn(hosts) \cup H!InFlight

\* Not only the pins but every key that this machine has in memory: what a connection has loaded
\* comes back into the file.  An old one of them is excused, unless a request is under way.
PinInv ==
  /\ PinTypes
  /\ \A p \in Clients : Loaded(client[p])
  /\ Anywhere \subseteq H!Old \cup {host.key}
  /\ H!Asking = {} => Anywhere \cap H!Old \subseteq excused

LEMMA KeysInFile ==
  /\ H!KeysIn(Nothing) = {}
  /\ \A f \in Files : \A k : k \in H!KeysIn(f) <=> (k # Nothing /\ \E a \in Addresses : f[a] = k)
  /\ \A f \in Files : H!KeysIn(f) \subseteq H!AllKeys
  BY PinAssumption DEF H!KeysIn, Files

LEMMA InFlightIs == H!InFlight = UNION {Carries(client[q]) : q \in Clients}
  BY DEF H!InFlight, Carries

LEMMA NoClientIsOne == H!NoClient \in Connections /\ Loaded(H!NoClient) /\ Carries(H!NoClient) = {}
  BY KeysInFile DEF H!NoClient, Connections, Loaded, Carries

LEMMA PinInit == H!Init => PinInv
<1> SUFFICES ASSUME H!Init PROVE PinInv
  OBVIOUS
<1>1. (CHOOSE a \in Addresses : TRUE) \in Addresses
  BY PinAssumption
<1>2. 0 \in H!AllKeys
  BY PinAssumption DEF H!AllKeys
<1>3. PinTypes
  BY <1>1, <1>2, NoClientIsOne DEF H!Init, PinTypes
<1>4. \A p \in Clients : client[p] = H!NoClient
  BY DEF H!Init
<1>5. Anywhere = {}
  BY <1>4, InFlightIs, KeysInFile, NoClientIsOne DEF H!Init, Anywhere
<1>6. QED
  BY <1>3, <1>4, <1>5, NoClientIsOne DEF PinInv

\* A step of one connection: what it leaves there was there or is the pod's key, and it does not
\* end a request, unless every old key is excused.
LEMMA OneClient ==
  ASSUME PinInv, NEW p \in Clients, NEW c \in Connections, client' = [client EXCEPT ![p] = c],
         Loaded(c), host' = host, due' \in BOOLEAN, hosts' \in Files \cup {Nothing},
         H!KeysIn(hosts') \subseteq Anywhere \cup {host.key},
         Carries(c) \subseteq Anywhere \cup {host.key},
         \/ excused' = excused /\ (client[p].pc \in {"ask", "answered"} => c.pc \in {"ask", "answered"})
         \/ excused' = excused \cup H!Old
  PROVE  PinInv'
<1>0. /\ PinTypes /\ \A q \in Clients : Loaded(client[q])
      /\ Anywhere \subseteq H!Old \cup {host.key}
      /\ H!Asking = {} => Anywhere \cap H!Old \subseteq excused
  BY DEF PinInv
<1>1. \A q \in Clients : client'[q] = IF q = p THEN c ELSE client[q]
  BY <1>0 DEF PinTypes
<1>2. H!Old' = H!Old /\ H!Old \subseteq H!AllKeys /\ host.key \notin H!Old
  BY <1>0, PinAssumption DEF H!Old, PinTypes, H!AllKeys
<1>3. PinTypes'
  BY <1>0, <1>2 DEF PinTypes, H!AllKeys
<1>4. \A q \in Clients : Loaded(client'[q])
  BY <1>0, <1>1
<1>5. H!InFlight' = UNION {Carries(client'[q]) : q \in Clients}
  BY DEF H!InFlight, Carries, H!KeysIn
<1>6. Anywhere' = H!KeysIn(hosts') \cup H!InFlight'
  BY DEF Anywhere, H!KeysIn
<1>7. Anywhere' \subseteq Anywhere \cup {host.key}
  BY <1>1, <1>5, <1>6, InFlightIs DEF Anywhere
<1>8. H!Asking' = {} /\ excused' = excused => H!Asking = {} \/ H!Old \subseteq excused
  BY <1>1 DEF H!Asking
<1>9. H!Asking' = {} => Anywhere' \cap H!Old \subseteq excused'
  BY <1>0, <1>2, <1>7, <1>8
<1>10. QED
  BY <1>0, <1>2, <1>3, <1>4, <1>7, <1>9 DEF PinInv

LEMMA PinStep == PinInv /\ [H!Next]_(H!vars) => PinInv'
<1> SUFFICES ASSUME PinInv, [H!Next]_(H!vars) PROVE PinInv'
  OBVIOUS
<1>0. /\ PinTypes /\ \A q \in Clients : Loaded(client[q]) /\ client[q] \in Connections
      /\ Anywhere \subseteq H!Old \cup {host.key}
      /\ H!Asking = {} => Anywhere \cap H!Old \subseteq excused
  BY DEF PinInv, PinTypes
<1>a. H!KeysIn(hosts) \subseteq Anywhere /\ \A q \in Clients : Carries(client[q]) \subseteq Anywhere
  BY InFlightIs DEF Anywhere
<1>b. \A q \in Clients : H!KeysIn(client[q].mem) \subseteq Anywhere /\ {client[q].key} \ {Nothing} \subseteq Anywhere
  BY <1>a DEF Carries
<1>c. \A a \in Addresses : H!Empty \in Files /\ H!KeysIn(H!Empty) = {}
  BY KeysInFile DEF H!Empty, Files
<1>d. H!Lines \in Files /\ H!KeysIn(H!Lines) \subseteq H!KeysIn(hosts)
  BY <1>0, <1>c, KeysInFile, PinAssumption DEF H!Lines, PinTypes
<1>e. ASSUME NEW p \in Clients, H!Over(p), host' = host, due' = due, hosts' = hosts,
             \/ excused' = excused /\ client[p].pc \notin {"ask", "answered"}
             \/ excused' = excused \cup H!Old
      PROVE  PinInv'
  BY <1>0, <1>a, <1>e, NoClientIsOne, OneClient DEF H!Over, PinTypes
<1>1. CASE UNCHANGED H!vars
  BY <1>1 DEF H!vars, PinInv, PinTypes, Loaded, Anywhere, H!InFlight, H!KeysIn, H!Old, H!Asking
<1>2. ASSUME NEW p \in Clients, H!Open(p) PROVE PinInv'
  <2>1. PICK plain \in BOOLEAN :
          client' = [client EXCEPT ![p] = [H!NoClient EXCEPT !.pc = "open", !.ssh = plain, !.mem = H!Lines, !.at = host.at]]
    BY <1>2 DEF H!Open
  <2> DEFINE c == [H!NoClient EXCEPT !.pc = "open", !.ssh = plain, !.mem = H!Lines, !.at = host.at]
  <2>2. host.at \in Addresses
    BY <1>0 DEF PinTypes
  <2>3. c \in Connections /\ c.mem = H!Lines /\ c.key = Nothing /\ c.pc = "open" /\ c.at = host.at
    BY <1>d, <2>2, NoClientIsOne DEF Connections, H!NoClient
  <2>4. Loaded(c)
    BY <1>d, <2>2, <2>3, PinAssumption DEF Loaded, Files
  <2>5. Carries(c) \subseteq Anywhere
    BY <1>a, <1>d, <2>3 DEF Carries
  <2> HIDE DEF c
  <2>6. hosts' = H!Lines /\ UNCHANGED <<host, due, excused>> /\ client[p].pc = "idle"
    BY <1>2 DEF H!Open, H!At
  <2>7. client' = [client EXCEPT ![p] = c]
    BY <2>1 DEF c
  <2>8. QED
    BY <1>0, <1>a, <1>d, <2>3, <2>4, <2>5, <2>6, <2>7, OneClient DEF PinTypes
<1>3. ASSUME NEW p \in Clients, H!Handshake(p) PROVE PinInv'
  <2>0. /\ client[p].pc = "open" /\ client[p].at = host.at /\ UNCHANGED <<host, due, hosts, excused>>
        /\ host.at \in Addresses /\ host.key \in H!AllKeys /\ host.key # Nothing
        /\ client[p].mem \in Files
    <3>1. client[p].pc = "open" /\ client[p].at = host.at /\ UNCHANGED <<host, due, hosts, excused>>
      BY <1>3 DEF H!Handshake, H!At
    <3>2. host.at \in Addresses /\ host.key \in H!AllKeys
      BY <1>0 DEF PinTypes
    <3>3. host.key # Nothing
      BY <3>2, PinAssumption DEF H!AllKeys
    <3>4. client[p].mem \in Files
      BY <1>0, <3>1 DEF Connections, Loaded
    <3>5. QED
      BY <3>1, <3>2, <3>3, <3>4
  <2> DEFINE pinned == client[p].mem[host.at]
  <2>1. CASE pinned = host.key
    BY <1>3, <1>e, <2>0, <2>1 DEF H!Handshake
  <2>2. CASE pinned = Nothing
    <3> DEFINE c == [client[p] EXCEPT !.pc = IF client[p].ssh THEN "append" ELSE "merge", !.key = host.key]
    <3>1. client' = [client EXCEPT ![p] = c]
      BY <1>3, <2>0, <2>2 DEF H!Handshake
    <3>2. c \in Connections /\ c.pc \in {"append", "merge"} /\ c.key = host.key /\ c.mem = client[p].mem /\ c.at = host.at
      BY <1>0, <2>0 DEF Connections
    <3>3. Loaded(c) /\ Carries(c) \subseteq Anywhere \cup {host.key}
      BY <1>b, <2>0, <3>2, PinAssumption DEF Loaded, Carries, Files
    <3> HIDE DEF c
    <3>4. QED
      BY <1>0, <1>a, <2>0, <3>1, <3>2, <3>3, OneClient DEF PinTypes
  <2>3. CASE pinned # host.key /\ pinned # Nothing
    <3> DEFINE c == [client[p] EXCEPT !.pc = "refused", !.key = pinned]
    <3>1. client' = [client EXCEPT ![p] = c]
      BY <1>3, <2>0, <2>3 DEF H!Handshake
    <3>2. pinned \in H!KeysIn(client[p].mem) /\ pinned \in H!AllKeys
      BY <2>0, <2>3, KeysInFile DEF Files
    <3>3. c \in Connections /\ c.pc = "refused" /\ c.key = pinned /\ c.mem = client[p].mem
      BY <1>0, <2>0, <3>2 DEF Connections
    <3>4. Loaded(c) /\ Carries(c) \subseteq Anywhere
      BY <1>b, <2>3, <3>2, <3>3 DEF Loaded, Carries
    <3> HIDE DEF c
    <3>5. QED
      BY <1>0, <1>a, <2>0, <3>1, <3>3, <3>4, OneClient DEF PinTypes
  <2>4. QED
    BY <2>1, <2>2, <2>3
<1>4. ASSUME NEW p \in Clients, H!Unreached(p) \/ H!Refused(p) PROVE PinInv'
  BY <1>4, <1>e DEF H!Unreached, H!Refused, H!At
<1>5. ASSUME NEW p \in Clients, H!Append(p) PROVE PinInv'
  <2>1. /\ client[p].at \in Addresses /\ client[p].key \in H!AllKeys /\ client[p].key # Nothing
        /\ client[p].pc = "append" /\ UNCHANGED <<host, due, excused>>
        /\ client' = [client EXCEPT ![p] = H!NoClient]
    BY <1>0, <1>5 DEF H!Append, H!At, H!Over, Loaded, Connections
  <2> DEFINE a0 == client[p].at
             f == [H!Lines EXCEPT ![a0] = IF H!Lines[a0] = Nothing THEN client[p].key ELSE H!Lines[a0]]
  <2>2. hosts' = f
    BY <1>5 DEF H!Append
  <2>3. f \in Files
    BY <1>d, <2>1 DEF Files
  <2>4. \A a \in Addresses : f[a] = H!Lines[a] \/ f[a] = client[p].key
    BY <1>d, <2>1 DEF Files
  <2> HIDE DEF f
  <2>5. H!KeysIn(f) \subseteq H!KeysIn(H!Lines) \cup {client[p].key}
    BY <1>d, <2>3, <2>4, KeysInFile
  <2>6. H!KeysIn(hosts') \subseteq Anywhere
    BY <1>a, <1>b, <1>d, <2>1, <2>2, <2>5
  <2>7. QED
    BY <1>0, <2>1, <2>2, <2>3, <2>6, NoClientIsOne, OneClient DEF PinTypes
<1>6. ASSUME NEW p \in Clients, H!Merge(p) PROVE PinInv'
  <2>1. /\ client[p].at \in Addresses /\ client[p].key \in H!AllKeys /\ client[p].key # Nothing
        /\ client[p].mem \in Files
        /\ client[p].pc = "merge" /\ UNCHANGED <<host, due, hosts, excused>>
    BY <1>0, <1>6 DEF H!Merge, H!At, Loaded, Connections
  <2>2. CASE hosts = Nothing
    BY <1>6, <1>e, <2>1, <2>2 DEF H!Merge
  <2>3. CASE hosts # Nothing
    <3> DEFINE own == [client[p].mem EXCEPT ![client[p].at] = client[p].key]
               both == [a \in Addresses |-> IF own[a] # Nothing THEN own[a] ELSE hosts[a]]
               c == [client[p] EXCEPT !.pc = "truncate", !.mem = both]
    <3>1. client' = [client EXCEPT ![p] = c]
      BY <1>6, <2>3 DEF H!Merge
    <3>2. hosts \in Files
      BY <1>0, <2>3 DEF PinTypes
    <3>3. own \in Files /\ \A a \in Addresses : own[a] = client[p].mem[a] \/ own[a] = client[p].key
      BY <2>1 DEF Files
    <3>4. both \in Files
      BY <3>2, <3>3 DEF Files
    <3>5. \A a \in Addresses : both[a] \in {client[p].mem[a], client[p].key, hosts[a]}
      BY <3>3
    <3> HIDE DEF own, both
    <3>6. H!KeysIn(both) \subseteq H!KeysIn(client[p].mem) \cup {client[p].key} \cup H!KeysIn(hosts)
      BY <2>1, <3>2, <3>4, <3>5, KeysInFile
    <3>7. c \in Connections /\ c.pc = "truncate" /\ c.mem = both /\ c.key = client[p].key
      BY <1>0, <3>4 DEF Connections
    <3>8. Loaded(c)
      BY <3>4, <3>7, PinAssumption DEF Loaded, Files
    <3>9. Carries(c) \subseteq Anywhere
      BY <1>a, <1>b, <2>1, <3>6, <3>7 DEF Carries
    <3> HIDE DEF c
    <3>10. QED
      BY <1>0, <1>a, <2>1, <3>1, <3>7, <3>8, <3>9, OneClient DEF PinTypes
  <2>4. QED
    BY <2>2, <2>3
<1>7. ASSUME NEW p \in Clients, H!Truncate(p) PROVE PinInv'
  <2>1. /\ client[p].mem # Nothing /\ client[p].pc = "truncate" /\ UNCHANGED <<host, due, excused>>
        /\ hosts' = H!Empty /\ H!Empty \in Files /\ H!KeysIn(H!Empty) = {}
    BY <1>0, <1>7, <1>c, PinAssumption DEF H!Truncate, H!At, Loaded
  <2> DEFINE c == [client[p] EXCEPT !.pc = "write"]
  <2>2. client' = [client EXCEPT ![p] = c]
    BY <1>7 DEF H!Truncate, H!Go
  <2>3. c \in Connections /\ c.pc = "write" /\ c.mem = client[p].mem /\ c.key = client[p].key
    BY <1>0 DEF Connections
  <2>4. Loaded(c) /\ Carries(c) \subseteq Anywhere
    BY <1>b, <2>1, <2>3 DEF Loaded, Carries
  <2> HIDE DEF c
  <2>5. QED
    BY <1>0, <2>1, <2>2, <2>3, <2>4, OneClient DEF PinTypes
<1>8. ASSUME NEW p \in Clients, H!Write(p) PROVE PinInv'
  <2>1. /\ client[p].mem \in Files /\ client[p].pc = "write" /\ UNCHANGED <<host, due, excused>>
        /\ hosts' \in {hosts, client[p].mem} /\ client' = [client EXCEPT ![p] = H!NoClient]
    BY <1>0, <1>8 DEF H!Write, H!At, H!Over, Loaded, Connections
  <2>2. hosts' \in Files \cup {Nothing} /\ H!KeysIn(hosts') \subseteq Anywhere
    BY <1>0, <1>a, <1>b, <2>1 DEF PinTypes
  <2>3. QED
    BY <1>0, <2>1, <2>2, NoClientIsOne, OneClient DEF PinTypes
<1>9. ASSUME NEW p \in Clients, NEW place \in {"ask", "answered"}, H!Go(p, place), due' \in BOOLEAN,
             client[p].pc \in {"idle", "ask"}, UNCHANGED <<host, hosts, excused>>
      PROVE  PinInv'
  <2> DEFINE c == [client[p] EXCEPT !.pc = place]
  <2>1. client' = [client EXCEPT ![p] = c]
    BY <1>9 DEF H!Go
  <2>2. c \in Connections /\ c.pc = place /\ c.mem = client[p].mem /\ c.key = client[p].key
    BY <1>0 DEF Connections
  <2>3. Loaded(c) /\ Carries(c) \subseteq Anywhere
    BY <1>b, <2>2 DEF Loaded, Carries
  <2> HIDE DEF c
  <2>4. QED
    BY <1>0, <1>9, <1>a, <2>1, <2>2, <2>3, OneClient DEF PinTypes
<1>10. ASSUME NEW p \in Clients, H!Ask(p) \/ H!Answered(p) PROVE PinInv'
  <2>1. CASE H!Ask(p)
    <3>1. due' \in BOOLEAN
      BY <1>0, <2>1 DEF H!Ask, PinTypes
    <3>2. QED
      BY <1>9, <2>1, <3>1 DEF H!Ask, H!At
  <2>2. CASE H!Answered(p)
    <3>1. due' \in BOOLEAN
      BY <1>0, <2>2 DEF H!Answered, PinTypes
    <3>2. QED
      BY <1>9, <2>2, <3>1 DEF H!Answered, H!At
  <2>3. QED
    BY <1>10, <2>1, <2>2
<1>11. ASSUME NEW p \in Clients, H!Unanswered(p) PROVE PinInv'
  BY <1>11, <1>e DEF H!Unanswered
<1>12. ASSUME NEW p \in Clients, H!ForgetHostKey(p) PROVE PinInv'
  <2>1. CASE UNCHANGED hosts /\ H!Over(p) /\ excused' = excused \cup H!Old
    BY <1>12, <1>e, <2>1 DEF H!ForgetHostKey
  <2>2. CASE /\ hosts' = Nothing
             /\ client' = [q \in Clients |-> IF q = p THEN H!NoClient ELSE [client[q] EXCEPT !.gone = H!At(q, "write")]]
             /\ excused' = excused \cup (H!InFlight \cap H!Old)
    <3>1. host' = host /\ due' = due
      BY <1>12 DEF H!ForgetHostKey
    <3>2. \A q \in Clients : H!At(q, "write") \in BOOLEAN
      BY DEF H!At
    <3>3. ASSUME NEW q \in Clients
          PROVE  client'[q] \in Connections /\ Loaded(client'[q]) /\ Carries(client'[q]) \subseteq Carries(client[q])
      <4>1. CASE q = p
        BY <2>2, <4>1, NoClientIsOne
      <4>2. CASE q # p
        <5>1. client'[q] = [client[q] EXCEPT !.gone = H!At(q, "write")]
          BY <2>2, <4>2
        <5>2. /\ client'[q] \in Connections
              /\ UNCHANGED <<client[q].pc, client[q].mem, client[q].at, client[q].key>>
          BY <1>0, <3>2, <5>1 DEF Connections
        <5>3. QED
          BY <1>0, <5>2 DEF Loaded, Carries
      <4>3. QED
        BY <4>1, <4>2
    <3>4. client' \in [Clients -> Connections]
      BY <2>2, <3>3
    <3>5. H!Old' = H!Old /\ H!Old \subseteq H!AllKeys
      BY <1>0, <3>1, PinAssumption DEF H!Old, PinTypes, H!AllKeys
    <3>6. H!InFlight' = UNION {Carries(client'[q]) : q \in Clients}
      BY DEF H!InFlight, Carries, H!KeysIn
    <3>7. H!InFlight' \subseteq H!InFlight
      BY <3>3, <3>6, InFlightIs
    <3>8. Anywhere' = H!InFlight'
      BY <2>2 DEF Anywhere, H!KeysIn
    <3>9. PinTypes'
      BY <1>0, <2>2, <3>1, <3>4, <3>5 DEF PinTypes, H!AllKeys
    <3>10. Anywhere' \subseteq Anywhere /\ Anywhere' \cap H!Old \subseteq excused'
      BY <2>2, <3>7, <3>8 DEF Anywhere
    <3>11. QED
      BY <1>0, <3>1, <3>3, <3>5, <3>9, <3>10 DEF PinInv
  <2>3. QED
    BY <1>12, <2>1, <2>2 DEF H!ForgetHostKey
<1>13. ASSUME NEW p \in Clients, H!Kill(p) PROVE PinInv'
  BY <1>13, <1>e DEF H!Kill, H!Asking
<1>14. CASE H!Carried \/ H!FromOutside
  <2>1. /\ host' \in [key : H!AllKeys, at : Addresses] /\ host'.key = host.key + 1
        /\ due' \in BOOLEAN /\ UNCHANGED <<hosts, client>>
    <3>1. H!Replaced(TRUE) \/ H!Replaced(FALSE)
      BY <1>14 DEF H!Carried, H!FromOutside
    <3>2. PICK a \in Addresses : host' = [key |-> host.key + 1, at |-> a]
      BY <3>1 DEF H!Replaced
    <3>3. host.key + 1 \in H!AllKeys
      BY <1>0, <3>1, PinAssumption DEF H!Replaced, PinTypes, H!AllKeys
    <3>4. host' \in [key : H!AllKeys, at : Addresses] /\ host'.key = host.key + 1
      BY <3>2, <3>3
    <3>5. due' \in BOOLEAN
      BY <1>0, <1>14 DEF H!Carried, H!FromOutside, PinTypes
    <3>6. UNCHANGED <<hosts, client>>
      BY <3>1 DEF H!Replaced
    <3>7. QED
      BY <3>4, <3>5, <3>6
  <2>2. H!Old' = H!Old \cup {host.key} /\ H!Old' \subseteq H!AllKeys
    BY <1>0, <2>1, PinAssumption DEF H!Old, PinTypes, H!AllKeys
  <2>3. excused' = excused \cup H!Old \cup {host.key} \/ (excused' = excused /\ H!Asking # {})
    BY <1>14 DEF H!Carried, H!FromOutside, H!Replaced
  <2>4. H!Asking' = H!Asking /\ Anywhere' = Anywhere
    BY <2>1 DEF H!Asking, Anywhere, H!InFlight, H!KeysIn
  <2>5. PinTypes'
    BY <1>0, <2>1, <2>2, <2>3 DEF PinTypes, H!AllKeys
  <2>6. \A q \in Clients : Loaded(client'[q])
    BY <1>0, <2>1
  <2>7. Anywhere' \subseteq H!Old'
    BY <1>0, <2>2, <2>4
  <2>8. H!Asking' = {} => Anywhere' \cap H!Old' \subseteq excused'
    BY <2>2, <2>3, <2>4
  <2>9. QED
    BY <2>5, <2>6, <2>7, <2>8 DEF PinInv
<1>15. QED
  BY <1>1, <1>2, <1>3, <1>4, <1>5, <1>6, <1>7, <1>8, <1>10, <1>11, <1>12, <1>13, <1>14 DEF H!Next

LEMMA PinSafety == Spec => []PinInv
<1>1. Init => PinInv
  BY PinInit DEF Init
<1>2. PinInv /\ [Next]_vars => PinInv'
  BY PinSteps, PinStep
<1>3. QED
  BY <1>1, <1>2, PTL DEF Spec

\* Host keys: while no request is under way, a pin that is not the pod's key is from before
\* something that this machine could not see through.
THEOREM StalePinsAreExcused == Spec => []StalePinIsExcused
<1>1. PinInv => StalePinIsExcused
  <2> SUFFICES ASSUME PinInv, H!Asking = {} PROVE H!Stale \subseteq excused
    BY DEF StalePinIsExcused, H!StalePinIsExcused
  <2>1. \A q \in Clients : client[q].pc = "refused" => client[q].key \in Anywhere
    BY InFlightIs DEF PinInv, Loaded, Carries, Anywhere
  <2>2. H!Stale \subseteq Anywhere \ {host.key}
    BY <2>1 DEF H!Stale, H!At, Anywhere
  <2>3. QED
    BY <2>2 DEF PinInv
<1>2. QED
  BY <1>1, PinSafety, PTL

-----------------------------------------------------------------------------
(* RemoteCall.                                                             *)

LEMMA CallSteps == [Next]_vars => [R!Next]_(R!vars)
  BY DEF Next, vars, R!vars, call

\* What the script writes is what the function gives, and its files are as far as it got.  An
\* envelope that is decoded is the script's, and its arrays are there.
CallInv ==
  /\ R!TypeOK
  /\ pc # "over" => got.kind = "none"
  /\ pc \notin {"idle", "over"} => fn \in Functions
  /\ pc \in {"idle", "upload", "setup"} \/ job = "call" => result = Nothing /\ npz = Nothing
  /\ pc \in {"idle", "upload", "setup"} => job = "none"
  /\ job \in {"arrays", "open", "write"} => payload = R!Outcome
  /\ result \in {Nothing, R!Torn, R!Outcome}
  /\ npz \in {Nothing, Arrays(fn.value)}
  /\ pc \in {"sidecar", "decode"} => result = R!Outcome
  /\ pc = "sidecar" => result.npz
  /\ pc = "decode" /\ result.npz => npz # Nothing
  /\ R!AnswerIsTheFunctions

FirstCall ==
  /\ pc = "idle" /\ fn = R!NoFn /\ got = R!NoGot
  /\ job = "none" /\ code = 0 /\ npz = Nothing /\ result = Nothing

LEMMA CallInit == FirstCall => CallInv
<1> SUFFICES ASSUME FirstCall PROVE CallInv
  OBVIOUS
<1>1. got.kind = "none" /\ fn.does = "none" /\ fn.cls = ""
  BY DEF FirstCall, R!NoFn, R!NoGot
<1>2. R!TypeOK
  BY <1>1 DEF FirstCall, R!TypeOK, R!Ways
<1>3. R!AnswerIsTheFunctions
  BY <1>1 DEF R!AnswerIsTheFunctions
<1> QED
  BY <1>1, <1>2, <1>3 DEF FirstCall, CallInv

\* The envelope of a value has the value, and any other is told by its class.
LEMMA OutcomeOf ==
  ASSUME fn \in Functions
  PROVE  LET e == R!Outcome IN
         /\ e.message = Message
         /\ \/ /\ e.ok /\ fn.does = "returns" /\ Encodable(fn.value)
               /\ e.result = Encode(fn.value, 0) /\ (e.npz <=> Arrays(fn.value) # <<>>)
            \/ /\ ~e.ok /\ ~e.npz /\ e.cls = "encoding" /\ fn.does = "returns" /\ ~Encodable(fn.value)
            \/ /\ ~e.ok /\ ~e.npz /\ e.cls = "builtin" /\ e.args = Nothing /\ fn.does = "raises" /\ fn.mute
            \/ /\ ~e.ok /\ ~e.npz /\ e.cls = fn.cls /\ e.args = R!ExceptionArgs(fn.args) /\ fn.does = "raises"
<1>1. \/ fn.does = "returns"
      \/ fn.does = "raises" /\ fn.mute \in BOOLEAN
  BY CodecAssumption DEF R!CodecWorks, R!Returns, R!Raises, R!NoFn
<1> DEFINE m == Arrays(fn.value) # <<>>
           N == R!NoEnvelope
<1>2. CASE fn.does = "returns" /\ Encodable(fn.value)
  <2>1. R!Outcome = [N EXCEPT !.ok = TRUE, !.result = Encode(fn.value, 0), !.npz = m]
    BY <1>2 DEF R!Outcome
  <2> HIDE DEF m
  <2>2. R!Outcome.npz = m /\ R!Outcome.ok /\ R!Outcome.result = Encode(fn.value, 0) /\ R!Outcome.message = Message
    BY <2>1 DEF R!NoEnvelope
  <2> QED
    BY <1>2, <2>2 DEF m
<1>3. CASE fn.does = "returns" /\ ~Encodable(fn.value)
  BY <1>3 DEF R!Outcome, R!Raised, R!NoEnvelope
<1>4. CASE fn.does = "raises" /\ fn.mute
  BY <1>4 DEF R!Outcome, R!Unfinished, R!NoEnvelope
<1>5. CASE fn.does = "raises" /\ ~fn.mute
  BY <1>5 DEF R!Outcome, R!Raised, R!NoEnvelope
<1> QED
  BY <1>1, <1>2, <1>3, <1>4, <1>5

\* What is decoded of the function's own envelope is what the function gave.
LEMMA DecodedIs ==
  ASSUME CallInv, pc = "decode", R!DecodeResult
  PROVE  R!TypeOK' /\ R!AnswerIsTheFunctions'
<1> DEFINE value == Decode(result.result, IF result.npz THEN npz ELSE <<>>)
<1>1. /\ fn \in Functions /\ fn' = fn /\ result = R!Outcome /\ result.message = Message
      /\ \/ result.npz /\ npz = Arrays(fn.value)
         \/ ~result.npz
      /\ UNCHANGED <<job, code, result>>
  BY OutcomeOf DEF CallInv, R!DecodeResult, R!Script
<1>2. CASE result.ok
  <2>1. /\ fn.does = "returns" /\ Encodable(fn.value) /\ result.result = Encode(fn.value, 0)
        /\ result.npz <=> Arrays(fn.value) # <<>>
    BY <1>1, <1>2, OutcomeOf
  <2>2. fn.value # Failed /\ Decode(Encode(fn.value, 0), Arrays(fn.value)) = fn.value
    BY <1>1, <2>1, CodecAssumption DEF R!CodecWorks, R!Returns, R!Raises, R!NoFn
  <2>3. value = fn.value
    BY <1>1, <2>1, <2>2
  <2>4. pc' = "over" /\ got' = [R!NoGot EXCEPT !.kind = "value", !.value = fn.value]
    BY <1>2, <2>2, <2>3 DEF R!DecodeResult
  <2> QED
    BY <1>1, <2>1, <2>4 DEF CallInv, R!TypeOK, R!AnswerIsTheFunctions, R!NoGot, R!Ways
<1>3. CASE ~result.ok /\ result.cls = "encoding"
  <2>1. pc' = "over" /\ got' = [R!NoGot EXCEPT !.kind = "encoding"]
    BY <1>3 DEF R!DecodeResult, R!Ends
  <2>2. fn.cls = "encoding" \/ (fn.does = "returns" /\ ~Encodable(fn.value))
    BY <1>1, <1>3, OutcomeOf
  <2> QED
    BY <1>1, <2>1, <2>2 DEF CallInv, R!TypeOK, R!AnswerIsTheFunctions, R!NoGot, R!Ways
<1>4. CASE ~result.ok /\ result.cls # "encoding" /\ R!Ends("remote")
  <2>1. pc' = "over" /\ got' = [R!NoGot EXCEPT !.kind = "remote"]
    BY <1>4 DEF R!Ends
  <2> QED
    BY <1>1, <2>1 DEF CallInv, R!TypeOK, R!AnswerIsTheFunctions, R!NoGot, R!Ways
<1>5. CASE ~result.ok /\ result.cls # "encoding" /\ ~R!Ends("remote")
  <2>1. PICK args \in R!Rebuilt(result) :
          pc' = "over" /\ got' = [R!NoGot EXCEPT !.kind = "raised", !.cls = result.cls, !.args = args]
    BY <1>5 DEF R!DecodeResult
  <2>2. /\ result.cls \in R!Builtin
        /\ \/ result.args # Nothing /\ args = Decode(result.args, <<>>)
           \/ args = Message
    BY <1>1, <2>1 DEF R!Rebuilt
  <2>3. /\ fn.does = "raises"
        /\ \/ result.cls = "builtin" /\ result.args = Nothing /\ fn.mute
           \/ result.cls = fn.cls /\ result.args = R!ExceptionArgs(fn.args)
    BY <1>1, <1>5, OutcomeOf
  <2>4. CASE result.cls = "builtin" /\ result.args = Nothing /\ fn.mute
    BY <1>1, <2>1, <2>2, <2>3, <2>4 DEF CallInv, R!TypeOK, R!AnswerIsTheFunctions, R!NoGot, R!Ways
  <2>5. CASE result.cls = fn.cls /\ result.args = R!ExceptionArgs(fn.args)
    <3>1. args \in {fn.args, Message}
      <4>1. SUFFICES ASSUME result.args # Nothing, args = Decode(result.args, <<>>)
                     PROVE  args = fn.args
        BY <2>2
      <4>2. Encodable(fn.args) /\ Arrays(fn.args) = <<>> /\ result.args = Encode(fn.args, 0)
        BY <2>5, <4>1 DEF R!ExceptionArgs
      <4> QED
        BY <1>1, <2>3, <4>1, <4>2, CodecAssumption DEF R!CodecWorks, R!Returns, R!Raises, R!NoFn
    <3> QED
      BY <1>1, <2>1, <2>2, <2>3, <2>5, <3>1 DEF CallInv, R!TypeOK, R!AnswerIsTheFunctions, R!NoGot, R!Ways
  <2> QED
    BY <2>3, <2>4, <2>5
<1> QED
  BY <1>2, <1>3, <1>4, <1>5

\* The envelope of the function stays the same as long as the function does.
LEMMA SameOutcome == fn' = fn => R!Outcome' = R!Outcome /\ R!Torn' = R!Torn
  BY DEF R!Outcome, R!Torn, R!NoEnvelope, R!Raised, R!Unfinished, R!ExceptionArgs

\* A call that ends with neither a value nor an exception says nothing about them.
LEMMA EndsTyped ==
  ASSUME CallInv, NEW k \in {"refused", "failed", "timeout", "no result", "unloadable"}, R!Ends(k),
         UNCHANGED <<fn, R!Script>>,
         k = "unloadable" => result = R!Torn \/ result.npz
  PROVE  CallInv'
<1>1. pc' = "over" /\ got' = [R!NoGot EXCEPT !.kind = k] /\ got'.kind = k /\ k \in R!Ways
  BY DEF R!Ends, R!NoGot, R!Ways
<1>2. UNCHANGED <<fn, job, code, payload, npz, result, R!Outcome, R!Torn>>
  BY SameOutcome DEF R!Script
<1>3. R!TypeOK'
  BY <1>1, <1>2 DEF CallInv, R!TypeOK
<1>4. R!AnswerIsTheFunctions'
  BY <1>1, <1>2 DEF R!AnswerIsTheFunctions
<1> QED
  BY <1>1, <1>2, <1>3, <1>4 DEF CallInv

LEMMA SameTypes == R!TypeOK /\ UNCHANGED <<pc, fn, job, code, got>> => R!TypeOK'
  BY DEF R!TypeOK, R!Ways, R!Classes

LEMMA CallStep == CallInv /\ [R!Next]_(R!vars) => CallInv'
<1> SUFFICES ASSUME CallInv, [R!Next]_(R!vars) PROVE CallInv'
  OBVIOUS
<1> USE DEF R!At, R!Script
<1>1. CASE R!Refuse
  BY <1>1, EndsTyped DEF R!Refuse
<1>2. CASE R!Call
  <2>1. R!TypeOK' /\ fn' \in Functions
    <3>1. fn'.does \in {"returns", "raises"} /\ fn'.cls \in R!Classes \cup {""}
      BY <1>2, CodecAssumption DEF R!Call, R!CodecWorks, R!Returns, R!Raises, R!NoFn
    <3> QED
      BY <1>2, <3>1 DEF R!Call, CallInv, R!TypeOK
  <2>2. got.kind = "none" /\ got' = got /\ R!AnswerIsTheFunctions'
    BY <1>2 DEF R!Call, CallInv, R!AnswerIsTheFunctions
  <2> QED
    BY <1>2, <2>1, <2>2 DEF R!Call, CallInv
<1>3. CASE R!Upload \/ R!Setup \/ R!Ran
  <2>1. CASE R!Upload
    BY <2>1, SameOutcome DEF R!Upload, CallInv, R!TypeOK, R!AnswerIsTheFunctions
  <2>2. CASE R!Setup
    BY <2>2, SameOutcome DEF R!Setup, CallInv, R!TypeOK, R!AnswerIsTheFunctions
  <2>3. CASE R!Ran
    BY <2>3, SameOutcome DEF R!Ran, CallInv, R!TypeOK, R!AnswerIsTheFunctions
  <2> QED
    BY <1>3, <2>1, <2>2, <2>3
<1>4. CASE R!Breaks
  BY <1>4, EndsTyped DEF R!Breaks
<1>5. CASE R!Evaluate
  BY <1>5, SameOutcome DEF R!Evaluate, CallInv, R!TypeOK, R!AnswerIsTheFunctions
<1>6. CASE R!SaveArrays
  BY <1>6, SameOutcome DEF R!SaveArrays, CallInv, R!TypeOK, R!AnswerIsTheFunctions
<1>7. CASE R!OpenEnvelope \/ R!WriteEnvelope
  <2>1. /\ UNCHANGED <<pc, fn, payload, npz, got, R!Outcome, R!Torn>>
        /\ pc = "run" /\ job \in {"open", "write"} /\ job' \in {"write", "dead"}
        /\ result' \in {R!Torn, R!Outcome} /\ code' \in {code, 0, 1}
    BY <1>7, SameOutcome DEF R!OpenEnvelope, R!WriteEnvelope, CallInv
  <2>2. R!TypeOK' /\ R!AnswerIsTheFunctions'
    BY <2>1 DEF CallInv, R!TypeOK, R!AnswerIsTheFunctions
  <2> QED
    BY <2>1, <2>2 DEF CallInv
<1>8. CASE R!WriteFails \/ R!Killed
  BY <1>8, SameOutcome DEF R!WriteFails, R!Killed, CallInv, R!TypeOK, R!AnswerIsTheFunctions
<1>9. CASE R!NoResult
  BY <1>9, EndsTyped DEF R!NoResult
<1>10. CASE R!Fetch
  <2>1. CASE result = R!Torn
    BY <1>10, <2>1, EndsTyped DEF R!Fetch
  <2>2. CASE result # R!Torn
    <3>1. /\ UNCHANGED <<fn, job, code, payload, npz, result, got, R!Outcome, R!Torn>>
          /\ pc = "fetch" /\ result = R!Outcome
          /\ pc' = IF result.npz THEN "sidecar" ELSE "decode"
      <4>1. /\ pc = "fetch" /\ result # Nothing /\ UNCHANGED <<fn, R!Script, got>>
            /\ pc' = IF result.npz THEN "sidecar" ELSE "decode"
        BY <1>10, <2>2 DEF R!Fetch
      <4> QED
        BY <4>1, <2>2, SameOutcome DEF CallInv
    <3>2. R!TypeOK' /\ R!AnswerIsTheFunctions'
      BY <3>1 DEF CallInv, R!TypeOK, R!AnswerIsTheFunctions
    <3> QED
      BY <3>1, <3>2 DEF CallInv
  <2> QED
    BY <2>1, <2>2
<1>11. CASE R!Sidecar
  BY <1>11, SameOutcome DEF R!Sidecar, CallInv, R!TypeOK, R!AnswerIsTheFunctions
<1>12. CASE R!SidecarFails
  BY <1>12, EndsTyped DEF R!SidecarFails, CallInv
<1>13. CASE R!DecodeResult
  <2>1. R!TypeOK' /\ R!AnswerIsTheFunctions'
    BY <1>13, DecodedIs DEF R!DecodeResult
  <2>2. pc = "decode" /\ pc' = "over" /\ UNCHANGED <<fn, job, code, payload, npz, result, R!Outcome, R!Torn>>
    BY <1>13, SameOutcome DEF R!DecodeResult, R!Ends
  <2> QED
    BY <2>1, <2>2 DEF CallInv
<1>14. CASE R!Again
  <2>1. FirstCall'
    BY <1>14 DEF R!Again, FirstCall
  <2> QED
    BY <2>1, CallInit, PTL
<1>15. CASE UNCHANGED R!vars
  <2>1. UNCHANGED <<pc, fn, job, code, payload, npz, result, got, R!Outcome, R!Torn>>
    BY <1>15, SameOutcome DEF R!vars
  <2>2. R!TypeOK'
    BY <2>1, SameTypes DEF CallInv
  <2>3. R!AnswerIsTheFunctions'
    BY <2>1 DEF CallInv, R!AnswerIsTheFunctions
  <2> QED
    BY <2>1, <2>2, <2>3 DEF CallInv
<1> QED
  BY <1>1, <1>2, <1>3, <1>4, <1>5, <1>6, <1>7, <1>8, <1>9, <1>10, <1>11, <1>12, <1>13, <1>14, <1>15 DEF R!Next

LEMMA CallSafety == Spec => []CallInv
<1>1. Init => CallInv
  BY CallInit DEF Init, R!Init, FirstCall
<1>2. CallInv /\ [Next]_vars => CallInv'
  BY CallSteps, CallStep
<1> QED
  BY <1>1, <1>2, PTL DEF Spec

\* The caller of a remote function gets the value that the function returned or the exception
\* it raised, or is told that neither came, with every codec whose decoder undoes its encoder.
THEOREM AnswersAreTheFunctions == Spec => []AnswerIsTheFunctions
<1>1. CallInv => AnswerIsTheFunctions
  BY DEF CallInv, AnswerIsTheFunctions
<1> QED
  BY <1>1, CallSafety, PTL

-----------------------------------------------------------------------------
\* The variables of each part keep their types: exec has at most as many workers at a pod as its
\* pool has, a pod that is gone is not listed again, and no transfer takes more than is free.
THEOREM TypeCorrect == Spec => []TypeOK
<1>1. CopyInv => C!TypeOK
  BY DEF CopyInv, CopyTypes, CopyRecs, Scripts, C!TypeOK
<1>2. PoolInv => X!TypeOK
  BY WorkersAreCounted DEF PoolInv, ExecInv, X!TypeOK, Tasks, Remotes
<1>3. PinInv => H!TypeOK
  BY DEF PinInv, PinTypes, Files, Connections, H!TypeOK
<1>4. CallInv => R!TypeOK
  BY DEF CallInv
<1>5. /\ C!TypeOK /\ X!TypeOK /\ H!TypeOK /\ R!TypeOK
      /\ K!TypeOK /\ I!TypeOK /\ F!TypeOK /\ M!TypeOK /\ W!TypeOK /\ S!TypeOK
      => TypeOK
  BY DEF TypeOK
<1> QED
  BY <1>1, <1>2, <1>3, <1>4, <1>5, CopySafety, PoolSafety, PinSafety, CallSafety, AccountTypesCorrect, PTL
=============================================================================
