---------------------------- MODULE PortalProofs ----------------------------
(***************************************************************************)
(* Proofs about module Portal, for any sets of processes and hotkeys, and  *)
(* any bounds.                                                             *)
(***************************************************************************)
EXTENDS Portal, TLAPS

-----------------------------------------------------------------------------
(* The types (TypeOK).                                                     *)

LEMMA RestIsProcess == Rest \in Process
BY PortalAssumption DEF Rest, New, Unread, Process, Running, Commands, ConfigGroup, NodeGroup, Spending, Places, Goals, Data,
                          Tokens

\* A command line puts a well-formed command in its place.
LEMMA NewIsProcess ==
  ASSUME NEW c \in Commands, NEW h \in Hotkeys, NEW yes \in BOOLEAN
  PROVE  New(c, h, yes, FirstPlace(c)) \in Process
<1>1. FirstPlace(c) \in Places
  BY DEF FirstPlace, Places, Commands, ConfigGroup, NodeGroup, Spending
<1>2. QED
  BY <1>1, PortalAssumption DEF New, Unread, Process, Running, Commands, ConfigGroup, NodeGroup, Spending, Goals, Data, Tokens

\* The file and the lock keep their types.
LEMMA FileTypeStep == TypeOK /\ [Next]_vars => FileType'
<1> SUFFICES ASSUME TypeOK, [Next]_vars PROVE FileType'
  OBVIOUS
<1> USE DEF TypeOK, FileType
<1>1. CASE Outside \/ UNCHANGED vars
  BY <1>1 DEF Outside, Tick, Expire, Revoke, AckExpires, vars
<1>2. ASSUME NEW p \in Procs, Begin(p) \/ Gate(p) \/ Step(p) \/ Kill(p)
      PROVE  FileType'
  <2>1. CASE Begin(p) \/ Gate(p) \/ Signing(p) \/ Request(p) \/ WriteAcks(p) \/ Invalid(p)
    BY <2>1 DEF Begin, Gate, Pass, Confirm, Decline, Signing, NextSecond, Sign, Replayed, SignFails,
                Request, Token, Answer, Refuse, RequestFails, WriteAcks, Invalid
  <2>2. CASE Locking(p) \/ Load(p) \/ ReadAll(p) \/ Absent(p) \/ WriteFails(p) \/ Kill(p)
    BY <2>2 DEF Locking, Acquire, Contend, GiveUp, Load, ReadAll, Absent, WriteFails, Kill
  <2>3. CASE Replace(p)
    <3>1. proc[p].data \in Data /\ proc[p].token \in Tokens
      BY DEF ProcessType, Process
    <3>2. QED
      BY <2>3, <3>1 DEF Replace, Data
  <2>4. QED
    BY <1>2, <2>1, <2>2, <2>3 DEF Step, OnFile
<1>3. QED
  BY <1>1, <1>2 DEF Next

\* The portal keeps its types: no token runs out before it is issued.
LEMMA PortalTypeStep == TypeOK /\ [Next]_vars => PortalType'
<1> SUFFICES ASSUME TypeOK, [Next]_vars PROVE PortalType'
  OBVIOUS
<1> USE DEF TypeOK, PortalType
<1>1. CASE UNCHANGED portal
  BY <1>1 DEF portal
<1>2. CASE Tick
  BY <1>2 DEF Tick
<1>3. ASSUME NEW h \in Hotkeys, Expire(h) \/ Revoke(h) PROVE PortalType'
  BY <1>3, PortalAssumption DEF Expire, Revoke, Data, Tokens
<1>4. ASSUME NEW p \in Procs, Sign(p) \/ SignFails(p) PROVE PortalType'
  <2>1. Key(p) \in Hotkeys
    BY DEF ProcessType, Process, Key
  <2>2. issued' \in Data
    BY <1>4, <2>1, PortalAssumption DEF Sign, SignFails, Data, Tokens
  <2>3. signed' \in [Hotkeys -> Procs \cup {NoProc}]
    BY <1>4, <2>1 DEF Sign, SignFails
  <2>4. UNCHANGED <<expired, revoked>>
    BY <1>4 DEF Sign, SignFails
  <2>5. QED
    BY <2>2, <2>3, <2>4
<1>5. ASSUME NEW p \in Procs, Begin(p) \/ Gate(p) \/ Step(p) \/ Kill(p), ~(Sign(p) \/ SignFails(p))
      PROVE  UNCHANGED portal
  BY <1>5 DEF portal, Begin, Gate, Pass, Confirm, Decline, Step, OnFile, Locking, Acquire, Contend,
              GiveUp, Load, ReadAll, Absent, Replace, WriteFails, Signing, NextSecond, Replayed,
              Request, Token, Answer, Refuse, RequestFails, WriteAcks, Invalid, Kill
<1>6. QED
  BY <1>1, <1>2, <1>3, <1>4, <1>5 DEF Next, Outside, AckExpires, vars

\* The confirmations and the clock keep their types.
LEMMA GateTypeStep == TypeOK /\ [Next]_vars => GateType'
<1> SUFFICES ASSUME TypeOK, [Next]_vars PROVE GateType'
  OBVIOUS
<1> USE DEF TypeOK, GateType
<1>1. CASE UNCHANGED gate
  BY <1>1 DEF gate
<1>2. ASSUME NEW h \in Hotkeys, AckExpires(h) PROVE GateType'
  BY <1>2 DEF AckExpires
<1>3. ASSUME NEW p \in Procs, Confirm(p) \/ WriteAcks(p) PROVE GateType'
  <2>1. Key(p) \in Hotkeys /\ proc[p].seen \in SUBSET Hotkeys
    BY DEF ProcessType, Process, Key
  <2>2. QED
    BY <1>3, <2>1 DEF Confirm, WriteAcks
<1>4. ASSUME NEW p \in Procs, Begin(p) \/ Gate(p) \/ Step(p) \/ Kill(p), ~(Confirm(p) \/ WriteAcks(p))
      PROVE  UNCHANGED gate
  BY <1>4 DEF gate, Begin, Gate, Pass, Decline, Step, OnFile, Locking, Acquire, Contend,
              GiveUp, Load, ReadAll, Absent, Replace, WriteFails, Signing, NextSecond, Sign, Replayed,
              SignFails, Request, Token, Answer, Refuse, RequestFails, Invalid, Kill
<1>5. QED
  BY <1>1, <1>2, <1>3, <1>4 DEF Next, Outside, Tick, Expire, Revoke, vars, gate

LEMMA ClockTypeStep == TypeOK /\ [Next]_vars => ClockType'
<1> SUFFICES ASSUME TypeOK, [Next]_vars PROVE ClockType'
  OBVIOUS
<1> USE PortalAssumption DEF TypeOK, ClockType
<1>1. CASE UNCHANGED clock
  BY <1>1 DEF clock
<1>2. CASE Outside
  BY <1>2 DEF Outside, Tick, Expire, Revoke, AckExpires, Loss
<1>3. ASSUME NEW p \in Procs, Begin(p) \/ Kill(p) PROVE ClockType'
  BY <1>3 DEF Begin, Kill
<1>4. ASSUME NEW p \in Procs, Gate(p) \/ Step(p) PROVE UNCHANGED clock
  BY <1>4 DEF clock, Gate, Pass, Confirm, Decline, Step, OnFile, Locking, Acquire, Contend,
              GiveUp, Load, ReadAll, Absent, Replace, WriteFails, Signing, NextSecond, Sign, Replayed,
              SignFails, Request, Token, Answer, Refuse, RequestFails, WriteAcks, Invalid
<1>5. QED
  BY <1>1, <1>2, <1>3, <1>4 DEF Next, vars, clock

\* What the reading of the file changes of a process.
LEMMA Reading ==
  ASSUME FileType, ProcessType, NEW p \in Procs, ReadAll(p)
  PROVE  /\ proc[p].pc = "held" /\ proc[p].goal \in {"save", "clear"}
         /\ proc'[p].blind => proc[p].goal = "save"
         /\ proc'[p].data = IF proc'[p].blind THEN Unread ELSE cache
         /\ proc'[p].pc = "write" /\ proc'[p].seen = proc[p].seen
         /\ proc'[p].cmd = proc[p].cmd /\ proc'[p].hotkey = proc[p].hotkey
         /\ proc'[p].goal = proc[p].goal /\ proc'[p].token = proc[p].token
         /\ proc' \in [Procs -> Process]
<1>1. PICK blind \in BOOLEAN :
        /\ proc[p].goal = "save" \/ (proc[p].goal = "clear" /\ ~blind)
        /\ proc' = [proc EXCEPT ![p].pc = "write", ![p].blind = blind,
                                ![p].data = IF blind THEN Unread ELSE cache]
  BY DEF ReadAll
<1> DEFINE data == IF blind THEN Unread ELSE cache
<1>2. data \in Data
  BY PortalAssumption DEF FileType, Unread, Data, Tokens
<1> HIDE DEF data
<1>3. proc' = [proc EXCEPT ![p] = [proc[p] EXCEPT !.pc = "write", !.blind = blind, !.data = data]]
  BY <1>1 DEF ProcessType, Process, data
<1>4. proc[p] \in Process
  BY DEF ProcessType
<1>5. proc'[p] = [proc[p] EXCEPT !.pc = "write", !.blind = blind, !.data = data]
  BY <1>3 DEF ProcessType
<1>6. proc'[p] \in Process
  BY <1>2, <1>4, <1>5 DEF Process, Places
<1>7. proc' \in [Procs -> Process]
  BY <1>3, <1>5, <1>6 DEF ProcessType
<1>8. /\ proc'[p].blind = blind /\ proc'[p].data = data
      /\ proc'[p].pc = "write" /\ proc'[p].seen = proc[p].seen
      /\ proc'[p].cmd = proc[p].cmd /\ proc'[p].hotkey = proc[p].hotkey
      /\ proc'[p].goal = proc[p].goal /\ proc'[p].token = proc[p].token
  BY <1>4, <1>5 DEF Process
<1>9. QED
  BY <1>1, <1>7, <1>8 DEF ReadAll, At, data

\* What its writing changes: a command that saved goes on with the token.
LEMMA Writes ==
  ASSUME ProcessType, NEW p \in Procs, Replace(p), ~End(p)
  PROVE  /\ proc' \in [Procs -> Process]
         /\ proc'[p].pc = "token" /\ proc'[p].cmd = proc[p].cmd /\ proc'[p].seen = proc[p].seen
         /\ ~proc'[p].blind
<1>1. proc' = [proc EXCEPT ![p].pc = "token", ![p].held = proc[p].token, ![p].token = 0,
                           ![p].data = Unread, ![p].blind = FALSE]
  BY DEF Replace, Done
<1>2. proc[p] \in Process
  BY DEF ProcessType
<1>3. proc' = [proc EXCEPT ![p] = [proc[p] EXCEPT !.pc = "token", !.held = proc[p].token, !.token = 0,
                                                  !.data = Unread, !.blind = FALSE]]
  BY <1>1 DEF ProcessType, Process
<1>4. Unread \in Data /\ 0 \in Tokens
  BY PortalAssumption DEF Unread, Data, Tokens
<1>5. proc'[p] = [proc[p] EXCEPT !.pc = "token", !.held = proc[p].token, !.token = 0,
                                 !.data = Unread, !.blind = FALSE]
  BY <1>3 DEF ProcessType
<1>6. proc'[p] \in Process
  BY <1>2, <1>4, <1>5 DEF Process, Places
<1>7. QED
  BY <1>2, <1>3, <1>5, <1>6 DEF ProcessType, Process

\* Each command keeps its types.
LEMMA ProcessTypeStep == TypeOK /\ [Next]_vars => ProcessType'
<1> SUFFICES ASSUME TypeOK, [Next]_vars PROVE ProcessType'
  OBVIOUS
<1> USE DEF TypeOK, ProcessType
<1>1. CASE Outside \/ UNCHANGED vars
  BY <1>1 DEF Outside, Tick, Expire, Revoke, AckExpires, vars
<1>2. ASSUME NEW p \in Procs, Begin(p) \/ Gate(p) \/ Step(p) \/ Kill(p)
      PROVE  ProcessType'
  <2>1. CASE Begin(p)
    BY <2>1, NewIsProcess DEF Begin
  <2>2. CASE End(p)
    BY <2>2, RestIsProcess DEF End
  <2> DEFINE r == proc[p]
  <2>3. r \in Process
    OBVIOUS
  <2>4. CASE Pass(p) \/ NextSecond(p) \/ Acquire(p) \/ GiveUp(p)
    BY <2>2, <2>3, <2>4, PortalAssumption DEF Pass, NextSecond, Acquire, GiveUp, Go, Leave, Process,
                                         Places
  <2>5. CASE Confirm(p) \/ WriteAcks(p)
    BY <2>3, <2>5 DEF Confirm, WriteAcks, Process, Places, GateType
  <2>6. CASE Contend(p)
    BY <2>3, <2>6, PortalAssumption DEF Contend, Process
  <2>7. CASE Load(p)
    <3>1. cache[Key(p)] \in Tokens
      BY <2>3 DEF FileType, Data, Key, Process
    <3>2. PICK found \in {Fresh(Key(p), cache[Key(p)]), FALSE} :
            proc' = [proc EXCEPT
              ![p].held = IF found THEN cache[Key(p)] ELSE @,
              ![p].pc = IF proc[p].goal = "token" THEN "request" ELSE IF found THEN "token" ELSE "sign"]
      BY <2>7 DEF Load
    <3>3. CASE found
      BY <2>3, <3>1, <3>2, <3>3 DEF Process, Places
    <3>4. CASE ~found
      BY <2>3, <3>2, <3>4 DEF Process, Places
    <3>5. QED
      BY <3>3, <3>4
  <2>8. CASE ReadAll(p)
    <3>1. FileType /\ ProcessType
      OBVIOUS
    <3>2. QED
      BY <2>8, <3>1, Reading
  <2>9. CASE Replace(p)
    <3>1. ProcessType
      OBVIOUS
    <3>2. QED
      BY <2>2, <2>9, <3>1, Writes
  <2>10. CASE Sign(p)
    <3>1. issued[Key(p)] < MaxTokens => issued[Key(p)] + 1 \in Tokens
      BY <2>3, PortalAssumption DEF PortalType, Data, Tokens, Key, Process
    <3>2. QED
      BY <2>2, <2>3, <2>10, <3>1, PortalAssumption DEF Sign, Use, Process, Places, Goals
  <2>11. CASE Token(p)
    <3>1. 0 \in Tokens
      BY PortalAssumption DEF Tokens
    <3>2. QED
      BY <2>3, <2>11, <3>1, PortalAssumption DEF Token, Go, Use, Process, Places, Goals
  <2>12. CASE Answer(p)
    BY <2>2, <2>3, <2>12 DEF Answer, Again, Process, Places, Running, Commands, ConfigGroup, NodeGroup
  <2>13. CASE Decline(p) \/ Invalid(p) \/ Absent(p) \/ WriteFails(p) \/ Replayed(p) \/ SignFails(p)
               \/ Refuse(p) \/ RequestFails(p) \/ Kill(p)
    BY <2>2, <2>13 DEF Decline, Invalid, Absent, WriteFails, Replayed, SignFails, Refuse,
                       RequestFails, Kill
  <2>14. QED
    BY <1>2, <2>1, <2>4, <2>5, <2>6, <2>7, <2>8, <2>9, <2>10, <2>11, <2>12, <2>13
       DEF Gate, Step, OnFile, Locking, Signing, Request
<1>3. QED
  BY <1>1, <1>2 DEF Next

LEMMA TypeInit == Init => TypeOK
<1> SUFFICES ASSUME Init PROVE TypeOK
  OBVIOUS
<1> USE PortalAssumption DEF Init
<1>1. FileType /\ PortalType
  BY DEF FileType, PortalType, Data, Tokens
<1>2. GateType /\ ClockType
  BY DEF GateType, ClockType
<1>3. ProcessType
  BY RestIsProcess DEF ProcessType
<1>4. QED
  BY <1>1, <1>2, <1>3 DEF TypeOK

\* Every variable has its type in every reachable state.
THEOREM TypeCorrect == Spec => []TypeOK
<1>1. TypeOK /\ [Next]_vars => TypeOK'
  BY FileTypeStep, PortalTypeStep, GateTypeStep, ClockTypeStep, ProcessTypeStep DEF TypeOK
<1>2. QED
  BY TypeInit, <1>1, PTL DEF Spec

-----------------------------------------------------------------------------
(* The cache is a register (KeepsRegister).                                *)

\* The lock is held by the process that is between its flock and the end of its operation,
\* and by no other.
LockIsHeld == \A p \in Procs : proc[p].pc \in {"held", "write"} <=> lock = p

\* What a process is about to write differs from the file in its own entry alone, but for a
\* save that could not read it.
ReadsAreCurrent ==
  \A p \in Procs :
    /\ At(p, "write") => /\ proc[p].goal \in {"save", "clear"}
                         /\ proc[p].data = IF proc[p].blind THEN Unread ELSE cache
    /\ proc[p].blind => At(p, "write") /\ proc[p].goal = "save"

\* What is saved is a token.
SavesATokenOnly(p) == Writing(p) /\ proc[p].goal = "save" => proc[p].token # 0

FileInv == TypeOK /\ LockIsHeld /\ ReadsAreCurrent /\ \A p \in Procs : SavesATokenOnly(p)

\* Where a process is after it went on, or ended.
LEMMA Goes ==
  ASSUME NEW p \in Procs, ProcessType
  PROVE  /\ \A pc : Go(p, pc) => proc' = [proc EXCEPT ![p] = proc'[p]] /\ proc'[p].pc = pc
         /\ \A pc : Leave(p, pc) => proc'[p].pc = pc
         /\ \A goal, token : Use(p, goal, token) => proc'[p].pc = "lock"
         /\ \A cmd : Again(p, cmd) => proc'[p].pc = "token"
         /\ End(p) => proc'[p].pc = "idle"
<1> USE DEF ProcessType, Process
<1>1. \A pc : Go(p, pc) => proc' = [proc EXCEPT ![p] = proc'[p]] /\ proc'[p].pc = pc
  BY DEF Go
<1>2. \A goal, token : Use(p, goal, token) => proc'[p].pc = "lock"
  BY DEF Use
<1>3. \A cmd : Again(p, cmd) => proc'[p].pc = "token"
  BY DEF Again
<1>4. End(p) => proc'[p].pc = "idle"
  BY DEF End, Rest, New
<1>5. \A pc : Leave(p, pc) => proc'[p].pc = pc
  BY DEF Leave
<1>6. QED
  BY <1>1, <1>2, <1>3, <1>4, <1>5

\* A step of one process is no step of another.
LEMMA OthersStay ==
  ASSUME NEW p \in Procs, ProcessType, Begin(p) \/ Gate(p) \/ Step(p) \/ Kill(p),
         NEW q \in Procs \ {p}
  PROVE  proc'[q] = proc[q]
BY DEF ProcessType, Begin, Gate, Pass, Confirm, Decline, Step, OnFile, Locking, Acquire, Contend,
       GiveUp, Load, ReadAll, Absent, Replace, Done, WriteFails, Signing, NextSecond, Sign,
       Replayed, SignFails, Request, Token, Answer, Refuse, RequestFails, WriteAcks, Invalid,
       Kill, Go, Leave, End, Use, Again

\* Only these steps take or release the lock.
LEMMA LockStep == FileInv /\ [Next]_vars => LockIsHeld'
<1> SUFFICES ASSUME FileInv, [Next]_vars PROVE LockIsHeld'
  OBVIOUS
<1> USE PortalAssumption DEF FileInv, TypeOK, ProcessType, LockIsHeld
<1>1. CASE Outside \/ UNCHANGED vars
  BY <1>1 DEF Outside, Tick, Expire, Revoke, AckExpires, vars
<1>2. ASSUME NEW p \in Procs, Begin(p) \/ Gate(p) \/ Step(p) \/ Kill(p)
      PROVE  LockIsHeld'
  <2>0. /\ \A pc : Go(p, pc) \/ Leave(p, pc) => proc'[p].pc = pc
        /\ \A goal, token : Use(p, goal, token) => proc'[p].pc = "lock"
        /\ \A cmd : Again(p, cmd) => proc'[p].pc = "token"
        /\ End(p) => proc'[p].pc = "idle"
    BY Goes
  <2>1. \A q \in Procs \ {p} : proc'[q] = proc[q]
    BY <1>2, OthersStay
  <2>2. CASE Acquire(p)
    BY <2>0, <2>1, <2>2 DEF Acquire, At
  <2>3. CASE Load(p)
    BY <2>0, <2>1, <2>3 DEF Load, At
  <2>4. CASE ReadAll(p)
    <3>1. proc'[p].pc = "write" /\ proc[p].pc = "held" /\ lock' = lock
      <4>1. FileType /\ ProcessType
        OBVIOUS
      <4>2. QED
        BY <2>4, <4>1, Reading DEF ReadAll
    <3>2. QED
      BY <2>1, <3>1
  <2>5. CASE Absent(p) \/ WriteFails(p)
    BY <2>0, <2>1, <2>5 DEF Absent, WriteFails, At
  <2>6. CASE Replace(p)
    <3>1. proc'[p].pc \in {"idle", "token"}
      BY <2>0, <2>6 DEF Replace, Done, Process
    <3>2. QED
      BY <2>1, <2>6, <3>1 DEF Replace, At
  <2>7. CASE Kill(p)
    BY <2>0, <2>1, <2>7 DEF Kill, At
  <2>8. CASE Begin(p)
    BY <2>0, <2>1, <2>8 DEF Begin, At, New, FirstPlace, Commands, ConfigGroup, NodeGroup, Spending
  <2>9. ASSUME Gate(p) \/ WriteAcks(p) \/ Invalid(p) \/ Contend(p) \/ GiveUp(p) \/ Signing(p) \/ Request(p)
        PROVE  LockIsHeld'
    <3>1. lock' = lock
      BY <2>9 DEF Gate, Pass, Confirm, Decline, WriteAcks, Invalid, Contend, GiveUp, Signing, NextSecond,
                  Sign, Replayed, SignFails, Request, Token, Answer, Refuse, RequestFails
    <3>2. proc[p].pc \notin {"held", "write"}
      BY <2>9 DEF At, Gate, Pass, Confirm, Decline, WriteAcks, Invalid, Contend, GiveUp, Signing,
                  NextSecond, Sign, Replayed, SignFails, Request, Token, Answer, Refuse, RequestFails
    <3>3. proc'[p].pc \notin {"held", "write"}
      <4>1. CASE Gate(p) \/ WriteAcks(p) \/ Invalid(p)
        BY <2>0, <4>1 DEF Gate, Pass, Confirm, Decline, WriteAcks, Invalid, Process
      <4>2. CASE Contend(p) \/ GiveUp(p)
        BY <2>0, <4>2 DEF Contend, GiveUp, At, Process
      <4>3. CASE Signing(p)
        BY <2>0, <4>3 DEF Signing, NextSecond, Sign, Replayed, SignFails
      <4>4. CASE Request(p)
        BY <2>0, <4>4 DEF Request, Token, Answer, Refuse, RequestFails
      <4>5. QED
        BY <2>9, <4>1, <4>2, <4>3, <4>4
    <3>4. QED
      BY <2>1, <3>1, <3>2, <3>3
  <2>13. QED
    BY <1>2, <2>2, <2>3, <2>4, <2>5, <2>6, <2>7, <2>8, <2>9
       DEF Step, OnFile, Locking
<1>3. QED
  BY <1>1, <1>2 DEF Next

\* To the place where the file is written leads only the reading of it, and only that turns
\* a process blind.
LEMMA OnlyReadsLead ==
  ASSUME FileInv, NEW p \in Procs, Begin(p) \/ Gate(p) \/ Step(p) \/ Kill(p), ~ReadAll(p), ~Replace(p)
  PROVE  cache' = cache /\ proc'[p].pc # "write" /\ ~proc'[p].blind
<1> USE PortalAssumption DEF FileInv, TypeOK, ReadsAreCurrent
<1>1. cache' = cache
  BY DEF Begin, Gate, Pass, Confirm, Decline, Step, OnFile, Locking, Acquire, Contend,
              GiveUp, Load, Absent, WriteFails, Signing, NextSecond, Sign, Replayed, SignFails,
              Request, Token, Answer, Refuse, RequestFails, WriteAcks, Invalid, Kill
<1>2. CASE Begin(p)
  BY <1>2 DEF Begin, At, New, FirstPlace, Commands, ConfigGroup, NodeGroup, Spending, ProcessType
<1>3. CASE End(p)
  <2>1. proc'[p] = Rest
    BY <1>3 DEF End, ProcessType
  <2>2. Rest.pc = "idle" /\ Rest.blind = FALSE
    BY DEF Rest, New
  <2>3. QED
    BY <1>1, <2>1, <2>2
<1>4. ASSUME proc[p].pc # "write" PROVE ~proc[p].blind
  BY <1>4 DEF At
<1>5. CASE Pass(p) \/ Confirm(p) \/ WriteAcks(p) \/ Acquire(p) \/ Contend(p) \/ Load(p)
  BY <1>4, <1>5 DEF Pass, Confirm, WriteAcks, Acquire, Contend, Load, Go, Leave, At, ProcessType,
                    Process
<1>6. CASE GiveUp(p)
  BY <1>3, <1>4, <1>6 DEF GiveUp, Leave, At, ProcessType, Process
<1>7. CASE NextSecond(p) \/ Sign(p)
  BY <1>3, <1>4, <1>7 DEF NextSecond, Sign, Go, Use, At, ProcessType, Process
<1>8. CASE Token(p) \/ Answer(p)
  BY <1>3, <1>4, <1>8 DEF Token, Answer, Go, Use, Again, At, ProcessType, Process
<1>9. CASE Decline(p) \/ Invalid(p) \/ Absent(p) \/ WriteFails(p) \/ Replayed(p) \/ SignFails(p)
             \/ Refuse(p) \/ RequestFails(p) \/ Kill(p)
  BY <1>3, <1>9 DEF Decline, Invalid, Absent, WriteFails, Replayed, SignFails, Refuse,
                    RequestFails, Kill
<1>10. QED
  BY <1>1, <1>2, <1>5, <1>6, <1>7, <1>8, <1>9
     DEF Gate, Step, OnFile, Locking, Signing, Request

\* Who is about to write has the file as it is: it holds the lock, and only a holder writes.
LEMMA ReadsStep == FileInv /\ [Next]_vars => ReadsAreCurrent'
<1> SUFFICES ASSUME FileInv, [Next]_vars PROVE ReadsAreCurrent'
  OBVIOUS
<1> USE PortalAssumption DEF FileInv, TypeOK, ReadsAreCurrent
<1>1. CASE Outside \/ UNCHANGED vars
  BY <1>1 DEF Outside, Tick, Expire, Revoke, AckExpires, vars, At
<1>2. ASSUME NEW p \in Procs, Begin(p) \/ Gate(p) \/ Step(p) \/ Kill(p)
      PROVE  ReadsAreCurrent'
  <2>1. \A q \in Procs \ {p} : proc'[q] = proc[q]
    BY <1>2, OthersStay
  <2>2. CASE ReadAll(p)
    <3>1. FileType /\ ProcessType
      OBVIOUS
    <3>2. cache' = cache
      BY <2>2 DEF ReadAll
    <3>3. /\ proc'[p].pc = "write" /\ proc'[p].goal \in {"save", "clear"}
          /\ proc'[p].data = IF proc'[p].blind THEN Unread ELSE cache
          /\ proc'[p].blind => proc'[p].goal = "save"
      BY <2>2, <3>1, Reading
    <3>4. QED
      BY <2>1, <3>2, <3>3 DEF At
  <2>3. CASE Replace(p)
    <3>1. \A q \in Procs \ {p} : ~At(q, "write")
      BY <2>3 DEF Replace, LockIsHeld, At
    <3>2. proc'[p].pc # "write" /\ ~proc'[p].blind
      BY <2>3, Goes DEF Replace, Done, End, Rest, New, ProcessType, Process
    <3>3. QED
      BY <2>1, <3>1, <3>2 DEF At
  <2>4. ASSUME ~ReadAll(p), ~Replace(p) PROVE cache' = cache /\ proc'[p].pc # "write" /\ ~proc'[p].blind
    BY <1>2, <2>4, OnlyReadsLead
  <2>5. QED
    BY <2>1, <2>2, <2>3, <2>4 DEF At
<1>3. QED
  BY <1>1, <1>2 DEF Next

\* A save begins with the token the portal has just issued.
LEMMA OwnSave ==
  ASSUME FileInv, NEW p \in Procs, Begin(p) \/ Gate(p) \/ Step(p) \/ Kill(p)
  PROVE  SavesATokenOnly(p)'
<1>1. TypeOK /\ FileType /\ ProcessType /\ PortalType
  BY DEF FileInv, TypeOK
<1>2. SavesATokenOnly(p)
  BY DEF FileInv
<1>3. /\ \A pc : Go(p, pc) \/ Leave(p, pc) => proc'[p].pc = pc
      /\ \A cmd : Again(p, cmd) => proc'[p].pc = "token"
      /\ End(p) => proc'[p].pc = "idle"
  BY <1>1, Goes
<1>4. ASSUME ~Writing(p)' PROVE SavesATokenOnly(p)'
  BY <1>4 DEF SavesATokenOnly
<1>5. CASE End(p)
  BY <1>3, <1>4, <1>5 DEF Writing
<1>6. CASE Begin(p)
  <2>1. proc'[p].goal # "save"
    BY <1>1, <1>6 DEF Begin, New, ProcessType
  <2>2. QED
    BY <2>1 DEF SavesATokenOnly
<1>7. CASE Pass(p) \/ NextSecond(p) \/ Confirm(p) \/ WriteAcks(p) \/ Load(p) \/ Answer(p)
  <2>1. End(p) \/ proc'[p].pc \notin {"lock", "held", "write"}
    BY <1>1, <1>3, <1>7 DEF Pass, NextSecond, Confirm, WriteAcks, Load, Answer, ProcessType, Process
  <2>2. QED
    BY <1>4, <1>5, <2>1 DEF Writing
<1>8. CASE GiveUp(p)
  <2>1. End(p) \/ proc'[p].pc = "request"
    BY <1>3, <1>8 DEF GiveUp
  <2>2. QED
    BY <1>4, <1>5, <2>1 DEF Writing
<1>9. CASE ReadAll(p)
  <2>1. /\ proc'[p].goal = proc[p].goal /\ proc'[p].token = proc[p].token
        /\ proc[p].pc = "held"
    BY <1>1, <1>9, Reading
  <2>2. QED
    BY <1>2, <2>1 DEF SavesATokenOnly, Writing
<1>10. CASE Acquire(p) \/ Contend(p)
  <2>1. /\ proc'[p].goal = proc[p].goal /\ proc'[p].token = proc[p].token
        /\ proc[p].pc \in {"lock", "held"}
    BY <1>1, <1>10 DEF Acquire, Contend, Leave, At, ProcessType, Process
  <2>2. QED
    BY <1>2, <2>1 DEF SavesATokenOnly, Writing
<1>11. CASE Replace(p)
  <2>1. End(p) \/ proc'[p].pc = "token"
    BY <1>1, <1>11, Writes
  <2>2. QED
    BY <1>4, <1>5, <2>1 DEF Writing
<1>12. CASE Sign(p)
  <2>1. CASE proc[p].cmd # "password"
    <3>1. issued[Key(p)] \in Nat
      BY <1>1, PortalAssumption DEF PortalType, ProcessType, Process, Data, Tokens, Key
    <3>2. proc'[p].token = issued[Key(p)] + 1
      BY <1>1, <1>12, <2>1 DEF Sign, Use, ProcessType, Process
    <3>3. QED
      BY <3>1, <3>2 DEF SavesATokenOnly
  <2>2. QED
    BY <1>5, <1>12, <2>1 DEF Sign
<1>13. CASE Token(p)
  <2>1. proc'[p].pc = "request" \/ proc'[p].goal = "token"
    BY <1>1, <1>13 DEF Token, Go, Use, ProcessType, Process
  <2>2. QED
    BY <1>4, <2>1 DEF SavesATokenOnly, Writing
<1>14. CASE Decline(p) \/ Invalid(p) \/ Absent(p) \/ WriteFails(p) \/ Replayed(p) \/ SignFails(p)
              \/ Refuse(p) \/ RequestFails(p) \/ Kill(p)
  BY <1>5, <1>14 DEF Decline, Invalid, Absent, WriteFails, Replayed, SignFails, Refuse,
                     RequestFails, Kill
<1>15. QED
  BY <1>5, <1>6, <1>7, <1>8, <1>9, <1>11, <1>12, <1>13, <1>14, <1>10
     DEF Gate, Step, OnFile, Locking, Signing, Request

LEMMA SavesStep ==
  ASSUME FileInv, [Next]_vars, NEW q \in Procs
  PROVE  SavesATokenOnly(q)'
<1>1. ASSUME proc'[q] = proc[q] PROVE SavesATokenOnly(q)'
  <2>1. SavesATokenOnly(q)
    BY DEF FileInv
  <2>2. QED
    BY <1>1, <2>1 DEF SavesATokenOnly, Writing
<1>2. CASE Outside \/ UNCHANGED vars
  BY <1>1, <1>2 DEF Outside, Tick, Expire, Revoke, AckExpires, vars
<1>3. ASSUME NEW p \in Procs, Begin(p) \/ Gate(p) \/ Step(p) \/ Kill(p)
      PROVE  SavesATokenOnly(q)'
  <2>1. CASE q = p
    BY <1>3, <2>1, OwnSave
  <2>2. CASE q # p
    BY <1>1, <1>3, <2>2, OthersStay DEF FileInv, TypeOK
  <2>3. QED
    BY <2>1, <2>2
<1>4. QED
  BY <1>2, <1>3 DEF Next

LEMMA FileInvariant == Spec => []FileInv
<1>1. Init => LockIsHeld /\ ReadsAreCurrent /\ \A p \in Procs : SavesATokenOnly(p)
  BY PortalAssumption DEF Init, LockIsHeld, ReadsAreCurrent, SavesATokenOnly, At, Writing, Rest, New
<1>2. TypeOK /\ [Next]_vars => TypeOK'
  BY FileTypeStep, PortalTypeStep, GateTypeStep, ClockTypeStep, ProcessTypeStep DEF TypeOK
<1>3. FileInv /\ [Next]_vars => FileInv'
  <2> SUFFICES ASSUME FileInv, [Next]_vars PROVE FileInv'
    OBVIOUS
  <2>1. \A q \in Procs : SavesATokenOnly(q)'
    BY SavesStep
  <2>2. QED
    BY <1>2, <2>1, LockStep, ReadsStep DEF FileInv
<1>4. Init => FileInv
  BY <1>1, TypeInit DEF FileInv
<1>5. QED
  BY <1>3, <1>4, PTL DEF Spec

\* What a process is at is an operation of the register, or nothing.
LEMMA DoingType ==
  ASSUME TypeOK, NEW p \in Procs
  PROVE  /\ Writing(p) => Doing[p] = [key |-> Key(p), token |-> proc[p].token, blind |-> proc[p].blind]
         /\ ~Writing(p) => Doing[p] = Nothing
         /\ Writing(p) => Doing[p] \in Register!Operations /\ Doing[p] # Nothing
BY PortalAssumption DEF TypeOK, ProcessType, Process, Doing, Key, Tokens, Register!Operations

\* A step that leaves the file alone and lets a process go on with its operation, begin
\* one, or leave one is a step of the register.
LEMMA NoWrite ==
  ASSUME TypeOK, TypeOK', NEW p \in Procs, cache' = cache,
         \A q \in Procs \ {p} : proc'[q] = proc[q],
         Writing(p) /\ Writing(p)' => /\ proc'[p].hotkey = proc[p].hotkey
                                      /\ proc'[p].token = proc[p].token
                                      /\ proc'[p].blind = proc[p].blind,
         ~Writing(p) => ~proc'[p].blind
  PROVE  [Register!Next]_(Register!vars)
<1>1. Doing' = [Doing EXCEPT ![p] = Doing'[p]]
  BY DEF Doing, Writing, Key
<1>2. CASE Writing(p) /\ Writing(p)'
  <2>1. Doing'[p] = Doing[p]
    BY <1>2, DoingType DEF Doing, Key
  <2>2. Doing' = Doing
    BY <1>1, <2>1 DEF Doing
  <2>3. QED
    BY <2>2 DEF Register!vars
<1>3. CASE ~Writing(p) /\ Writing(p)'
  <2>1. Doing[p] = Nothing
    BY <1>3, DoingType
  <2>2. Doing'[p] \in Register!Operations
    BY <1>3, PortalAssumption DEF TypeOK, ProcessType, Process, Doing, Key, Tokens, Register!Operations
  <2>3. ~Doing'[p].blind
    BY <1>3 DEF Doing
  <2>4. Register!Start(p)
    BY <1>1, <2>1, <2>2, <2>3 DEF Register!Start
  <2>5. QED
    BY <2>4 DEF Register!Next
<1>4. CASE Writing(p) /\ ~Writing(p)'
  <2>1. Doing[p] # Nothing
    BY <1>4, DoingType
  <2>2. Doing'[p] = Nothing
    BY <1>4 DEF Doing
  <2>3. Register!Abort(p)
    BY <1>1, <2>1, <2>2 DEF Register!Abort
  <2>4. QED
    BY <2>3 DEF Register!Next
<1>5. CASE ~Writing(p) /\ ~Writing(p)'
  <2>1. Doing'[p] = Doing[p]
    BY <1>5 DEF Doing
  <2>2. Doing' = Doing
    BY <1>1, <2>1 DEF Doing
  <2>3. QED
    BY <2>2 DEF Register!vars
<1>6. QED
  BY <1>2, <1>3, <1>4, <1>5

\* A save that reads the file sees it, or turns blind.
LEMMA ReadTurns ==
  ASSUME FileInv, FileInv', NEW p \in Procs, ReadAll(p)
  PROVE  [Register!Next]_(Register!vars)
<1> USE DEF FileInv, TypeOK, ProcessType, Process
<1>1. cache' = cache /\ \A q \in Procs \ {p} : proc'[q] = proc[q]
  BY OthersStay DEF ReadAll, Step, OnFile
<1>2. /\ Writing(p) /\ Writing(p)' /\ ~proc[p].blind
      /\ proc'[p].hotkey = proc[p].hotkey /\ proc'[p].token = proc[p].token
  <2>1. /\ proc[p].pc = "held" /\ proc[p].goal \in {"save", "clear"}
        /\ ~proc[p].blind
    BY DEF ReadAll, ReadsAreCurrent, At
  <2>2. FileType /\ ProcessType
    OBVIOUS
  <2>3. /\ proc'[p].pc = "write" /\ proc'[p].goal = proc[p].goal
        /\ proc'[p].hotkey = proc[p].hotkey /\ proc'[p].token = proc[p].token
    BY <2>2, Reading
  <2>4. QED
    BY <2>1, <2>3 DEF Writing
<1>3. CASE ~proc'[p].blind
  <2>1. proc'[p].blind = proc[p].blind
    BY <1>2, <1>3
  <2>2. QED
    BY <1>1, <1>2, <2>1, NoWrite
<1>4. CASE proc'[p].blind
  <2>1. Doing[p] # Nothing /\ Doing[p] = [key |-> Key(p), token |-> proc[p].token, blind |-> proc[p].blind]
    BY <1>2, DoingType
  <2>2. proc'[p].goal = "save"
    BY <1>4 DEF ReadsAreCurrent
  <2>3. proc[p].goal = "save"
    BY <2>2 DEF ReadAll
  <2>4. Doing[p].token # 0
    BY <1>2, <2>1, <2>3 DEF SavesATokenOnly
  <2>5. Doing'[p] = [key |-> Key(p), token |-> proc[p].token, blind |-> TRUE]
    BY <1>2, <1>4 DEF Doing, Key
  <2>6. Doing' = [Doing EXCEPT ![p] = Doing'[p]]
    BY <1>1 DEF Doing, Writing, Key
  <2>7. Doing' = [Doing EXCEPT ![p].blind = TRUE]
    BY <2>1, <2>5, <2>6 DEF Doing
  <2>8. Register!TurnBlind(p)
    BY <1>1, <2>1, <2>4, <2>7 DEF Register!TurnBlind
  <2>9. QED
    BY <2>8 DEF Register!Next
<1>5. QED
  BY <1>3, <1>4

\* The step that replaces the file puts in this process's entry alone, or a
\* blind save's entry instead of all.
LEMMA WriteApplies ==
  ASSUME FileInv, TypeOK', NEW p \in Procs, Replace(p)
  PROVE  Register!Apply(p) \/ Register!StartAnew(p)
<1> USE DEF FileInv
<1>1. Writing(p) /\ proc[p].data = IF proc[p].blind THEN Unread ELSE cache
  BY DEF Replace, ReadsAreCurrent, Writing, At
<1>2. \A q \in Procs \ {p} : proc'[q] = proc[q]
  BY OthersStay DEF TypeOK, Step, OnFile
<1>3. proc'[p].pc \in {"idle", "token"}
  BY Goes DEF Replace, Done, TypeOK, ProcessType, Process
<1>4. Doing'[p] = Nothing
  BY <1>3 DEF Doing, Writing
<1>5. Doing' = [Doing EXCEPT ![p] = Nothing]
  BY <1>2, <1>4 DEF Doing, Writing, Key
<1>6. /\ Doing[p] = [key |-> Key(p), token |-> proc[p].token, blind |-> proc[p].blind]
      /\ Doing[p] # Nothing
  BY <1>1, DoingType
<1>7. cache' = [proc[p].data EXCEPT ![Key(p)] = proc[p].token]
  BY DEF Replace
<1>8. CASE ~proc[p].blind
  <2>1. cache' = [cache EXCEPT ![Doing[p].key] = Doing[p].token]
    BY <1>1, <1>6, <1>7, <1>8
  <2>2. QED
    BY <1>5, <1>6, <1>8, <2>1 DEF Register!Apply
<1>9. CASE proc[p].blind
  <2>1. cache' = [h \in Hotkeys |-> IF h = Doing[p].key THEN Doing[p].token ELSE 0]
    BY <1>1, <1>6, <1>7, <1>9 DEF Unread
  <2>2. QED
    BY <1>5, <1>6, <1>9, <2>1 DEF Register!StartAnew
<1>10. QED
  BY <1>8, <1>9

\* No other step but a read touches the file, and none changes the operation a process is at.
LEMMA KeepsOperation ==
  ASSUME FileInv, NEW p \in Procs, Begin(p) \/ Gate(p) \/ Step(p) \/ Kill(p), ~Replace(p),
         ~ReadAll(p)
  PROVE  /\ cache' = cache
         /\ Writing(p) /\ Writing(p)' => /\ proc'[p].hotkey = proc[p].hotkey
                                         /\ proc'[p].token = proc[p].token
                                         /\ proc'[p].blind = proc[p].blind
<1> USE DEF FileInv, TypeOK, ProcessType, Process
<1>1. cache' = cache
  BY DEF Begin, Gate, Pass, Confirm, Decline, Step, OnFile, Locking, Acquire, Contend, GiveUp, Load,
         ReadAll, Absent, WriteFails, Signing, NextSecond, Sign, Replayed, SignFails, Request, Token,
         Answer, Refuse, RequestFails, WriteAcks, Invalid, Kill
<1>2. CASE Acquire(p) \/ Contend(p)
  BY <1>1, <1>2 DEF Acquire, Contend, Leave
<1>3. CASE GiveUp(p)
  BY <1>1, <1>3, Goes DEF GiveUp, Writing
<1>4. CASE Absent(p) \/ WriteFails(p) \/ Kill(p)
  BY <1>1, <1>4, Goes DEF Absent, WriteFails, Kill, Writing
<1>5. CASE Load(p)
  BY <1>1, <1>5 DEF Load, Writing
<1>6. CASE Begin(p) \/ Gate(p) \/ WriteAcks(p) \/ Invalid(p) \/ Signing(p) \/ Request(p)
  <2>1. proc[p].pc \notin {"lock", "held", "write"}
    BY <1>6 DEF At, Begin, Gate, Pass, Confirm, Decline, WriteAcks, Invalid, Signing, NextSecond, Sign,
                Replayed, SignFails, Request, Token, Answer, Refuse, RequestFails
  <2>2. QED
    BY <1>1, <2>1 DEF Writing
<1>7. QED
  BY <1>2, <1>3, <1>4, <1>5, <1>6 DEF Step, OnFile, Locking

\* The token file is a register per hotkey, for any number of processes that load, save and
\* clear, fail and die.
THEOREM CacheIsARegister == Spec => KeepsRegister
<1>1. Init => Register!Init
  <2>1. Init => cache \in [Hotkeys -> Nat]
    BY DEF Init
  <2>2. Init => Doing = [p \in Procs |-> Nothing]
    BY DEF Init, Doing, Writing, Rest, New
  <2>3. QED
    BY <2>1, <2>2 DEF Register!Init
<1>2. FileInv /\ FileInv' /\ [Next]_vars => [Register!Next]_(Register!vars)
  <2> SUFFICES ASSUME FileInv, FileInv', [Next]_vars PROVE [Register!Next]_(Register!vars)
    OBVIOUS
  <2>1. CASE Outside \/ UNCHANGED vars
    <3>1. cache' = cache /\ proc' = proc
      BY <2>1 DEF Outside, Tick, Expire, Revoke, AckExpires, vars
    <3>2. QED
      BY <3>1 DEF Register!vars, Doing, Writing, Key
  <2>2. ASSUME NEW p \in Procs, Begin(p) \/ Gate(p) \/ Step(p) \/ Kill(p)
        PROVE  [Register!Next]_(Register!vars)
    <3>1. CASE Replace(p)
      BY <3>1, WriteApplies DEF FileInv, Register!Next
    <3>2. CASE ReadAll(p)
      BY <3>2, ReadTurns
    <3>3. CASE ~Replace(p) /\ ~ReadAll(p)
      <4>1. \A q \in Procs \ {p} : proc'[q] = proc[q]
        BY <2>2, OthersStay DEF FileInv, TypeOK
      <4>2. ~proc'[p].blind
        BY <2>2, <3>3, OnlyReadsLead
      <4>3. QED
        BY <2>2, <3>3, <4>1, <4>2, KeepsOperation, NoWrite DEF FileInv
    <3>4. QED
      BY <3>1, <3>2, <3>3
  <2>3. QED
    BY <2>1, <2>2 DEF Next
<1>3. QED
  BY <1>1, <1>2, FileInvariant, PTL DEF Spec, KeepsRegister, Register!Spec

-----------------------------------------------------------------------------
(* The gate before a command that spends (NoUnconfirmedSpend).             *)

\* A spending command passes these places only, and asks the file for a token and for
\* nothing else.
Asks(p) ==
  proc[p].cmd \in Spending
    => /\ proc[p].pc \in {"idle", "gate", "ack", "token", "lock", "held", "request"}
       /\ proc[p].pc \in {"lock", "held"} => proc[p].goal = "token"

\* Past the gate it is confirmed, and what it writes to the file of confirmations is so, too.
Confirmed(p) ==
  /\ At(p, "ack") => Key(p) \in consent
  /\ proc[p].cmd \in Spending /\ proc[p].pc \in {"token", "lock", "held", "request"}
       => proc[p].yes \/ Key(p) \in consent

AcksConfirmed == acks \subseteq consent /\ \A p \in Procs : proc[p].seen \subseteq consent

SpendInv == TypeOK /\ AcksConfirmed /\ \A p \in Procs : Asks(p) /\ Confirmed(p)

\* A process at rest has nothing to confirm.
LEMMA RestIsHarmless ==
  ASSUME TypeOK, NEW p \in Procs, End(p)
  PROVE  /\ Asks(p)' /\ Confirmed(p)'
         /\ proc'[p].seen = {}
<1>1. proc'[p].cmd = "read" /\ proc'[p].pc = "idle" /\ proc'[p].seen = {}
  BY DEF End, Rest, New, TypeOK, ProcessType
<1>2. QED
  BY <1>1 DEF Asks, Confirmed, At, Spending

\* What is confirmed stays so.
LEMMA ConsentGrows == [Next]_vars => consent \subseteq consent'
<1>1. ASSUME NEW p \in Procs, Begin(p) \/ Gate(p) \/ Step(p) \/ Kill(p)
      PROVE  consent \subseteq consent'
  BY <1>1 DEF gate, Begin, Gate, Pass, Confirm, Decline, Step, OnFile, Locking, Acquire, Contend,
              GiveUp, Load, ReadAll, Absent, Replace, WriteFails, Signing, NextSecond, Sign, Replayed,
              SignFails, Request, Token, Answer, Refuse, RequestFails, WriteAcks, Invalid, Kill
<1>2. QED
  BY <1>1 DEF Next, Outside, Tick, Expire, Revoke, AckExpires, vars, gate

\* The steps of a spending command.
LEMMA SpendingStep ==
  ASSUME SpendInv, NEW p \in Procs, Begin(p) \/ Gate(p) \/ Step(p) \/ Kill(p)
  PROVE  Asks(p)' /\ Confirmed(p)' /\ proc'[p].seen \subseteq consent'
<1> USE DEF SpendInv, TypeOK, ProcessType, Process
<1>1. Asks(p) /\ Confirmed(p) /\ proc[p].seen \subseteq consent
  BY DEF AcksConfirmed
<1>2. CASE Begin(p)
  <2>1. PICK c \in Commands, h \in Hotkeys, yes \in BOOLEAN :
          proc' = [proc EXCEPT ![p] = New(c, h, yes, FirstPlace(c))]
    BY <1>2 DEF Begin
  <2>2. proc'[p].cmd = c /\ proc'[p].pc = FirstPlace(c) /\ proc'[p].seen = {}
    BY <2>1 DEF New
  <2>3. c \in Spending => FirstPlace(c) = "gate"
    BY DEF FirstPlace, Spending
  <2>4. FirstPlace(c) # "ack"
    BY DEF FirstPlace, Commands, ConfigGroup, NodeGroup, Spending
  <2>5. QED
    BY <2>2, <2>3, <2>4 DEF Asks, Confirmed, At
<1>3. CASE End(p)
  BY <1>3, RestIsHarmless
<1>4. CASE Pass(p)
  BY <1>1, <1>4 DEF Pass, Go, Asks, Confirmed, At, Key, gate, AcksConfirmed
<1>5. CASE Confirm(p)
  BY <1>1, <1>5 DEF Confirm, Asks, Confirmed, At, Key, AcksConfirmed
<1>6. CASE WriteAcks(p)
  BY <1>1, <1>6 DEF WriteAcks, Asks, Confirmed, At, Key
<1>7. CASE Acquire(p)
  BY <1>1, <1>7 DEF Acquire, Leave, Asks, Confirmed, At, Key, gate
<1>8. CASE Contend(p)
  BY <1>1, <1>8 DEF Contend, Asks, Confirmed, At, Key, gate
<1>9. CASE GiveUp(p)
  BY <1>1, <1>3, <1>9 DEF GiveUp, Leave, Asks, Confirmed, At, Key, gate
<1>10. CASE Load(p)
  BY <1>1, <1>10 DEF Load, Asks, Confirmed, At, Key, gate
<1>11. CASE ReadAll(p)
  <2>1. FileType /\ ProcessType
    OBVIOUS
  <2>2. /\ proc'[p].cmd = proc[p].cmd /\ proc'[p].pc = "write" /\ proc'[p].seen = proc[p].seen
        /\ proc[p].goal # "token" /\ proc[p].pc = "held"
    BY <1>11, <2>1, Reading
  <2>3. consent' = consent
    BY <1>11 DEF ReadAll, gate
  <2>4. QED
    BY <1>1, <2>2, <2>3 DEF Asks, Confirmed, At
<1>12. CASE Replace(p)
  BY <1>1, <1>3, <1>12 DEF Replace, Done, Asks, Confirmed, At, Key, gate
<1>13. CASE NextSecond(p)
  BY <1>1, <1>13 DEF NextSecond, Go, Asks, Confirmed, At, Key, gate
<1>14. CASE Sign(p)
  BY <1>1, <1>3, <1>14 DEF Sign, Use, Asks, Confirmed, At, Key, gate
<1>15. CASE Token(p)
  BY <1>1, <1>15 DEF Token, Go, Use, Asks, Confirmed, At, Key, gate
<1>16. CASE Answer(p)
  BY <1>1, <1>3, <1>16 DEF Answer, Again, Asks, Confirmed, At, Key, gate, Spending
<1>17. CASE Decline(p) \/ Invalid(p) \/ Absent(p) \/ WriteFails(p) \/ Replayed(p) \/ SignFails(p)
              \/ Refuse(p) \/ RequestFails(p) \/ Kill(p)
  BY <1>3, <1>17 DEF Decline, Invalid, Absent, WriteFails, Replayed, SignFails, Refuse,
                     RequestFails, Kill
<1>18. QED
  BY <1>2, <1>4, <1>5, <1>6, <1>7, <1>8, <1>9, <1>10, <1>11, <1>12, <1>13, <1>14, <1>15, <1>16, <1>17
     DEF Gate, Step, OnFile, Locking, Signing, Request

\* The file holds confirmations of the user alone, also when writers overtake each other.
LEMMA AcksStep == SpendInv /\ [Next]_vars => acks' \subseteq consent'
<1> SUFFICES ASSUME SpendInv, [Next]_vars PROVE acks' \subseteq consent'
  OBVIOUS
<1>1. acks \subseteq consent /\ consent \subseteq consent'
  BY ConsentGrows DEF SpendInv, AcksConfirmed
<1>2. ASSUME NEW p \in Procs, WriteAcks(p) PROVE acks' \subseteq consent'
  <2>1. proc[p].seen \subseteq consent /\ Key(p) \in consent
    BY <1>2 DEF SpendInv, AcksConfirmed, Confirmed, WriteAcks
  <2>2. QED
    BY <1>1, <1>2, <2>1 DEF WriteAcks
<1>3. ASSUME NEW p \in Procs, Begin(p) \/ Gate(p) \/ Step(p) \/ Kill(p), ~WriteAcks(p)
      PROVE  acks' = acks
  BY <1>3 DEF gate, Begin, Gate, Pass, Confirm, Decline, Step, OnFile, Locking, Acquire, Contend,
              GiveUp, Load, ReadAll, Absent, Replace, WriteFails, Signing, NextSecond, Sign, Replayed,
              SignFails, Request, Token, Answer, Refuse, RequestFails, Invalid, Kill
<1>4. CASE Outside \/ UNCHANGED vars
  BY <1>1, <1>4 DEF Outside, Tick, Expire, Revoke, AckExpires, vars, gate
<1>5. QED
  BY <1>1, <1>2, <1>3, <1>4 DEF Next

LEMMA SpendStep == SpendInv /\ TypeOK' /\ [Next]_vars => SpendInv'
<1> SUFFICES ASSUME SpendInv, TypeOK', [Next]_vars PROVE SpendInv'
  OBVIOUS
<1>1. ASSUME NEW q \in Procs, proc'[q] = proc[q]
      PROVE  Asks(q)' /\ Confirmed(q)' /\ proc'[q].seen \subseteq consent'
  <2>1. Asks(q) /\ Confirmed(q) /\ proc[q].seen \subseteq consent
    BY DEF SpendInv, AcksConfirmed
  <2>2. QED
    BY <1>1, <2>1, ConsentGrows DEF Asks, Confirmed, At, Key
<1>2. ASSUME NEW q \in Procs
      PROVE  Asks(q)' /\ Confirmed(q)' /\ proc'[q].seen \subseteq consent'
  <2>1. CASE Outside \/ UNCHANGED vars
    BY <1>1, <2>1 DEF Outside, Tick, Expire, Revoke, AckExpires, vars
  <2>2. ASSUME NEW p \in Procs, Begin(p) \/ Gate(p) \/ Step(p) \/ Kill(p)
        PROVE  Asks(q)' /\ Confirmed(q)' /\ proc'[q].seen \subseteq consent'
    <3>1. CASE q = p
      BY <2>2, <3>1, SpendingStep
    <3>2. CASE q # p
      BY <1>1, <2>2, <3>2, OthersStay DEF SpendInv, TypeOK
    <3>3. QED
      BY <3>1, <3>2
  <2>3. QED
    BY <2>1, <2>2 DEF Next
<1>3. QED
  BY <1>2, AcksStep DEF SpendInv, AcksConfirmed

LEMMA SpendInit == Init => SpendInv
<1> SUFFICES ASSUME Init PROVE SpendInv
  OBVIOUS
<1>1. AcksConfirmed
  BY DEF Init, AcksConfirmed, Rest, New
<1>2. ASSUME NEW p \in Procs PROVE Asks(p) /\ Confirmed(p)
  <2>1. proc[p].cmd = "read" /\ proc[p].pc = "idle"
    BY DEF Init, Rest, New
  <2>2. QED
    BY <2>1 DEF Asks, Confirmed, At, Spending
<1>3. QED
  BY <1>1, <1>2, TypeInit DEF SpendInv

LEMMA SpendInvariant == Spec => []SpendInv
<1>1. SpendInv /\ [Next]_vars => SpendInv'
  BY SpendStep, FileTypeStep, PortalTypeStep, GateTypeStep, ClockTypeStep, ProcessTypeStep
     DEF SpendInv, TypeOK
<1>2. QED
  BY <1>1, SpendInit, PTL DEF Spec

\* No request that spends without --yes or the user's word for that very hotkey.
THEOREM UnconfirmedNeverSpends == Spec => []NoUnconfirmedSpend
<1>1. SpendInv => NoUnconfirmedSpend
  BY DEF SpendInv, Confirmed, NoUnconfirmedSpend
<1>2. QED
  BY <1>1, SpendInvariant, PTL

-----------------------------------------------------------------------------
(* The signature of a password (PasswordNotReplayed).                      *)

\* From the next second on, nothing of this process has signed that second.
SignsNewSecond(p) ==
  proc[p].cmd = "password" =>
    /\ At(p, "second") /\ p \notin waiting => \A h \in Hotkeys : signed[h] # p
    /\ At(p, "sign") => p \notin waiting /\ \A h \in Hotkeys : signed[h] # p

\* It signs, and does nothing else.
OnlySigns(p) == proc[p].cmd = "password" => proc[p].pc \in {"idle", "second", "sign"}

PasswordInv == TypeOK /\ \A p \in Procs : SignsNewSecond(p) /\ OnlySigns(p)

\* The process's own step.
LEMMA PasswordStep ==
  ASSUME PasswordInv, NEW p \in Procs, Begin(p) \/ Gate(p) \/ Step(p) \/ Kill(p)
  PROVE  SignsNewSecond(p)' /\ OnlySigns(p)'
<1> USE DEF PasswordInv, TypeOK, ProcessType, Process
<1>1. SignsNewSecond(p) /\ OnlySigns(p)
  OBVIOUS
<1>2. CASE Begin(p)
  <2>1. PICK c \in Commands, h \in Hotkeys, yes \in BOOLEAN :
          /\ proc' = [proc EXCEPT ![p] = New(c, h, yes, FirstPlace(c))]
          /\ waiting' = IF c = "password" THEN waiting \cup {p} ELSE waiting
    BY <1>2 DEF Begin
  <2>2. proc'[p].cmd = c /\ proc'[p].pc = FirstPlace(c)
    BY <2>1 DEF New
  <2>3. FirstPlace("password") = "second"
    BY DEF FirstPlace, Spending
  <2>4. QED
    BY <2>1, <2>2, <2>3 DEF SignsNewSecond, OnlySigns, At
<1>3. CASE End(p)
  <2>1. proc'[p].cmd = "read"
    BY <1>3 DEF End, Rest, New
  <2>2. QED
    BY <2>1 DEF SignsNewSecond, OnlySigns
<1>4. CASE NextSecond(p)
  <2>1. proc'[p].pc = "sign" /\ proc'[p].cmd = proc[p].cmd /\ signed' = signed /\ waiting' = waiting
    BY <1>4 DEF NextSecond, Go, portal, clock
  <2>2. QED
    BY <1>1, <1>4, <2>1 DEF NextSecond, SignsNewSecond, OnlySigns, At
<1>5. CASE Sign(p)
  <2>1. CASE proc[p].cmd = "password"
    BY <1>3, <1>5, <2>1 DEF Sign
  <2>2. CASE proc[p].cmd # "password"
    <3>1. proc'[p].cmd # "password"
      BY <1>5, <2>2 DEF Sign, Use
    <3>2. QED
      BY <3>1 DEF SignsNewSecond, OnlySigns
  <2>3. QED
    BY <2>1, <2>2
<1>6. ASSUME Pass(p) \/ Confirm(p) \/ WriteAcks(p) \/ Acquire(p) \/ Contend(p) \/ GiveUp(p) \/ Load(p)
               \/ ReadAll(p) \/ Replace(p) \/ Token(p) \/ Answer(p), ~End(p)
      PROVE  SignsNewSecond(p)' /\ OnlySigns(p)'
  <2>1. proc[p].cmd # "password"
    BY <1>1, <1>6 DEF OnlySigns, At, Pass, Confirm, WriteAcks, Acquire, Contend, GiveUp, Load, ReadAll,
                      Replace, Token, Answer
  <2>2. proc'[p].cmd # "password"
    <3>1. FileType /\ ProcessType
      OBVIOUS
    <3>2. CASE ReadAll(p)
      BY <2>1, <3>1, <3>2, Reading
    <3>3. CASE Replace(p)
      BY <1>6, <2>1, <3>1, <3>3, Writes
    <3>4. CASE ~ReadAll(p) /\ ~Replace(p)
      BY <1>6, <2>1, <3>4 DEF Pass, Confirm, WriteAcks, Acquire, Contend, GiveUp, Load, Token, Answer, Go,
                              Leave, Use, Again
    <3>5. QED
      BY <3>2, <3>3, <3>4
  <2>3. QED
    BY <2>2 DEF SignsNewSecond, OnlySigns
<1>7. CASE Decline(p) \/ Invalid(p) \/ Absent(p) \/ WriteFails(p) \/ Replayed(p) \/ SignFails(p)
              \/ Refuse(p) \/ RequestFails(p) \/ Kill(p)
  BY <1>3, <1>7 DEF Decline, Invalid, Absent, WriteFails, Replayed, SignFails, Refuse, RequestFails, Kill
<1>8. QED
  BY <1>2, <1>3, <1>4, <1>5, <1>6, <1>7 DEF Gate, Step, OnFile, Locking, Signing, Request

\* A step of another process signs for that one, and makes only that one wait.
LEMMA PasswordOthers ==
  ASSUME PasswordInv, NEW p \in Procs, Begin(p) \/ Gate(p) \/ Step(p) \/ Kill(p),
         NEW q \in Procs \ {p}
  PROVE  SignsNewSecond(q)' /\ OnlySigns(q)'
<1> USE DEF PasswordInv, TypeOK
<1>1. proc'[q] = proc[q]
  BY OthersStay
<1>2. q \in waiting' <=> q \in waiting
  <2>1. CASE Begin(p) \/ Kill(p)
    BY <2>1 DEF Begin, Kill
  <2>2. CASE Gate(p) \/ Step(p)
    BY <2>2 DEF clock, Gate, Pass, Confirm, Decline, Step, OnFile, Locking, Acquire, Contend,
                GiveUp, Load, ReadAll, Absent, Replace, WriteFails, Signing, NextSecond, Sign, Replayed,
                SignFails, Request, Token, Answer, Refuse, RequestFails, WriteAcks, Invalid
  <2>3. QED
    BY <2>1, <2>2
<1>3. ASSUME NEW h \in Hotkeys, signed[h] # q PROVE signed'[h] # q
  <2>1. CASE Sign(p) \/ SignFails(p)
    BY <1>3, <2>1 DEF Sign, SignFails, PortalType
  <2>2. CASE ~Sign(p) /\ ~SignFails(p)
    <3>1. signed' = signed
      BY <2>2 DEF portal, Begin, Gate, Pass, Confirm, Decline, Step, OnFile, Locking, Acquire, Contend,
                  GiveUp, Load, ReadAll, Absent, Replace, WriteFails, Signing, NextSecond, Replayed,
                  Request, Token, Answer, Refuse, RequestFails, WriteAcks, Invalid, Kill
    <3>2. QED
      BY <1>3, <3>1
  <2>3. QED
    BY <2>1, <2>2
<1>4. SignsNewSecond(q) /\ OnlySigns(q)
  OBVIOUS
<1>5. QED
  BY <1>1, <1>2, <1>3, <1>4 DEF SignsNewSecond, OnlySigns, At

\* The clock's next second is one that nobody has signed.
LEMMA PasswordOutside ==
  ASSUME PasswordInv, Outside \/ UNCHANGED vars, NEW q \in Procs
  PROVE  SignsNewSecond(q)' /\ OnlySigns(q)'
<1>1. SignsNewSecond(q) /\ OnlySigns(q)
  BY DEF PasswordInv
<1>2. CASE Tick
  BY <1>1, <1>2, PortalAssumption DEF Tick, SignsNewSecond, OnlySigns, At
<1>3. CASE ~Tick
  <2>1. proc' = proc /\ signed' = signed /\ waiting' = waiting
    BY <1>3 DEF Outside, Expire, Revoke, AckExpires, vars, portal, clock
  <2>2. QED
    BY <1>1, <2>1 DEF SignsNewSecond, OnlySigns, At
<1>4. QED
  BY <1>2, <1>3

\* set-password is never refused for what its own shell has signed before it.
THEOREM PasswordSignsANewSecond == Spec => []PasswordNotReplayed
<1>1. Init => PasswordInv
  <2>1. ASSUME Init, NEW p \in Procs PROVE proc[p].cmd = "read"
    BY <2>1 DEF Init, Rest, New
  <2>2. QED
    BY <2>1, TypeInit DEF PasswordInv, SignsNewSecond, OnlySigns
<1>2. PasswordInv /\ [Next]_vars => PasswordInv'
  <2> SUFFICES ASSUME PasswordInv, [Next]_vars PROVE PasswordInv'
    OBVIOUS
  <2>1. TypeOK'
    BY FileTypeStep, PortalTypeStep, GateTypeStep, ClockTypeStep, ProcessTypeStep DEF PasswordInv, TypeOK
  <2>2. ASSUME NEW q \in Procs PROVE SignsNewSecond(q)' /\ OnlySigns(q)'
    <3>1. CASE Outside \/ UNCHANGED vars
      BY <3>1, PasswordOutside
    <3>2. ASSUME NEW p \in Procs, Begin(p) \/ Gate(p) \/ Step(p) \/ Kill(p)
          PROVE  SignsNewSecond(q)' /\ OnlySigns(q)'
      BY <3>2, PasswordStep, PasswordOthers
    <3>3. QED
      BY <3>1, <3>2 DEF Next
  <2>3. QED
    BY <2>1, <2>2 DEF PasswordInv
<1>3. PasswordInv => PasswordNotReplayed
  <2>1. ASSUME PasswordInv, NEW p \in Procs, At(p, "sign"), proc[p].cmd = "password"
        PROVE  signed[Key(p)] # p
    <3>1. Key(p) \in Hotkeys
      BY <2>1 DEF PasswordInv, TypeOK, ProcessType, Process, Key
    <3>2. QED
      BY <2>1, <3>1 DEF PasswordInv, SignsNewSecond
  <2>2. QED
    BY <2>1 DEF PasswordNotReplayed
<1>4. QED
  BY <1>1, <1>2, <1>3, PTL DEF Spec
=============================================================================
