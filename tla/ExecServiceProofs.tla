------------------------- MODULE ExecServiceProofs --------------------------
(***************************************************************************)
(* Theorems about ExecService, for every value of its constants.           *)
(***************************************************************************)
EXTENDS ExecClaims, FiniteSetTheorems, TLAPS

-----------------------------------------------------------------------------
(* Type correctness.  That a request in progress has the session and the   *)
(* process its next steps use is part of the induction.                    *)

StartPcs == {"spawn", "inc", "add", "stdin", "arm"}
ProcPcs  == {"inc", "add", "stdin", "arm", "wait", "input"}

HandlerOK ==
  \A h \in Handlers :
    /\ pc[h] \in StartPcs => hsess[h] \in issued
    /\ pc[h] \in ProcPcs => hproc[h] \in Procs

TypeInv == TypeOK /\ HandlerOK

\* The initial state is well typed.
LEMMA TypeInit == Init => TypeInv
BY HandlersAssumption, ProcsAssumption, SessionsAssumption
DEF Init, SMInit, EMInit, TypeInv, TypeOK, SMTypeOK, EMTypeOK, ServiceTypeOK,
    HandlerOK, StartPcs, ProcPcs, Event

OsStates == [Procs -> {"none", "running", "dead", "reaped"}]
Causes   == {"timeout", "other"}
Endings  == [Procs -> {"none"} \cup Causes]

\* A signal leaves the state of a child and the cause of its end well typed.
LEMMA KillTypes ==
  ASSUME TypeInv, NEW p \in Procs, NEW why \in Causes, Kill(p, why)
  PROVE  os' \in OsStates /\ endedBy' \in Endings
<1>0. os \in OsStates /\ endedBy \in Endings
  BY DEF TypeInv, TypeOK, EMTypeOK, OsStates, Endings, Causes
<1>1. CASE os[p] = "running"
  <2>1. os' = [os EXCEPT ![p] = "dead"] BY <1>1 DEF Kill
  <2>2. endedBy' = [endedBy EXCEPT ![p] = why] BY <1>1 DEF Kill
  <2>3. os' \in OsStates BY <2>1, <1>0 DEF OsStates
  <2>4. endedBy' \in Endings BY <2>2, <1>0 DEF Endings
  <2> QED BY <2>3, <2>4
<1>2. CASE os[p] # "running"
  BY <1>0, <1>2 DEF Kill, osVars
<1> QED BY <1>1, <1>2

\* So does a step of the child, of its deadline or of the deadline goroutine.
LEMMA ProcessTypes ==
  ASSUME TypeInv, NEW p \in Procs, UNCHANGED <<smVars, hVars, pVars>>,
         Timer(p) \/ DeadlinePasses(p) \/ Child(p)
  PROVE  TypeInv'
<1> USE DEF TypeInv, TypeOK, SMTypeOK, EMTypeOK, ServiceTypeOK, HandlerOK,
        smVars, hVars, pVars, osVars, clockVars, streamVars, Kill
<1>1. CASE TimerMarks(p) BY <1>1 DEF TimerMarks
<1>2. CASE TimerKills(p) BY ZenonT(30), <1>2 DEF TimerKills
<1>3. CASE DeadlinePasses(p) BY <1>3 DEF DeadlinePasses
<1>4. CASE ChildExits(p) BY ZenonT(30), <1>4 DEF ChildExits
<1>5. CASE ContextKill(p) BY ZenonT(30), <1>5 DEF ContextKill
<1>6. CASE \E i \in Streams : ChildWrites(p, i) BY SMTT(30), <1>6 DEF ChildWrites
<1> QED BY <1>1, <1>2, <1>3, <1>4, <1>5, <1>6 DEF Timer, Child

\* A step of a goroutine that reads a stream keeps the types.
LEMMA ReaderTypes ==
  ASSUME TypeInv, NEW p \in Procs, NEW i \in Streams, Reader(p, i),
         UNCHANGED <<smVars, hVars, pVars>>
  PROVE  TypeInv'
<1> USE DEF TypeInv, TypeOK, SMTypeOK, EMTypeOK, ServiceTypeOK, HandlerOK,
        smVars, hVars, pVars, osVars, clockVars, streamVars, Kill, SetReader
<1>1. CASE ReadPipe(p, i) BY <1>1 DEF ReadPipe
<1>2. CASE CountLine(p, i) BY SMTT(30), <1>2 DEF CountLine
<1>3. CASE PublishLine(p, i) BY <1>3 DEF PublishLine, Event
<1>4. CASE OverflowKills(p, i) BY ZenonT(30), <1>4 DEF OverflowKills
<1>5. CASE OverflowFlags(p, i) BY <1>5 DEF OverflowFlags
<1>6. CASE ReaderStops(p, i) BY <1>6 DEF ReaderStops
<1> QED BY <1>1, <1>2, <1>3, <1>4, <1>5, <1>6 DEF Reader

\* A step of the goroutine that waits for a child keeps the types.
LEMMA WaiterTypes ==
  ASSUME TypeInv, NEW p \in Procs, Waiter(p)
  PROVE  TypeInv'
<1> USE DEF TypeInv, TypeOK, SMTypeOK, EMTypeOK, ServiceTypeOK, HandlerOK,
        smVars, emVars, hVars, pVars, osVars, clockVars, streamVars, WaiterGoto
<1>1. CASE WaiterReaps(p) BY <1>1 DEF WaiterReaps
<1>2. CASE WaiterCaptures(p) BY <1>2 DEF WaiterCaptures, CaptureState
<1>3. CASE WaiterPublishes(p) BY <1>3 DEF WaiterPublishes, Event
<1>4. CASE WaiterRemoves(p) BY <1>4 DEF WaiterRemoves, Unregister
<1>5. CASE WaiterDiscounts(p) BY <1>5 DEF WaiterDiscounts, DecProcess
<1> QED BY <1>1, <1>2, <1>3, <1>4, <1>5 DEF Waiter

\* A step of a request handler keeps the types.
LEMMA HandlerTypes ==
  ASSUME TypeInv, NEW h \in Handlers, HandlerStep(h)
  PROVE  TypeInv'
<1> USE DEF TypeInv, TypeOK, SMTypeOK, EMTypeOK, ServiceTypeOK, HandlerOK,
        smVars, emVars, hVars, pVars, osVars, clockVars, streamVars, Goto, Respond,
        StartPcs, ProcPcs
<1>1. CASE \E s \in Sessions : SessionOpen(h, s) BY <1>1 DEF SessionOpen, OpenSession
<1>2. CASE \E s \in Sessions : SessionClose(h, s) BY <1>2 DEF SessionClose, CloseSession
<1>3. CASE \E s \in Sessions : StartChecks(h, s) BY <1>3 DEF StartChecks
<1>4. CASE \E p \in Procs : StartSpawns(h, p)
  <2> PICK p \in Procs : StartSpawns(h, p) BY <1>4
  <2>1. SMTypeOK' /\ EMTypeOK' BY DEF StartSpawns, Spawn
  <2>2. ServiceTypeOK' BY DEF StartSpawns
  <2>3. HandlerOK' BY DEF StartSpawns
  <2> QED BY <2>1, <2>2, <2>3
<1>5. CASE StartFails(h) BY <1>5 DEF StartFails
<1>6. CASE StartCounts(h) BY <1>6 DEF StartCounts, IncProcess
<1>7. CASE StartAbandons(h) BY <1>7 DEF StartAbandons
<1>8. CASE StartRegisters(h)
  BY <1>8 DEF StartRegisters, Register, StartReaders
<1>9. CASE StartWritesStdin(h) BY <1>9 DEF StartWritesStdin
<1>10. CASE StartSupervises(h) BY <1>10 DEF StartSupervises
<1>11. CASE \E p \in Procs : WaitBegins(h, p) BY <1>11 DEF WaitBegins
<1>12. CASE \E p \in Procs : KillRequest(h, p)
  <2> PICK p \in Procs : KillRequest(h, p) BY <1>12
  <2>1. Kill(p, "other") BY DEF KillRequest
  <2>2. os' \in OsStates /\ endedBy' \in Endings BY <2>1, KillTypes DEF Causes
  <2>3. UNCHANGED <<registry, clockVars, timedOut, reported, streamVars, events>>
    BY DEF KillRequest
  <2>4. EMTypeOK' BY <2>2, <2>3 DEF OsStates, Endings, Causes
  <2>5. SMTypeOK' /\ ServiceTypeOK' /\ HandlerOK' BY DEF KillRequest
  <2> QED BY <2>4, <2>5
<1>13. CASE \E p \in Procs : InputBegins(h, p) BY <1>13 DEF InputBegins
<1>14. CASE WaitReceives(h) BY <1>14 DEF WaitReceives
<1>15. CASE WaitGivesUp(h) BY <1>15 DEF WaitGivesUp
<1>16. CASE InputEnds(h) BY <1>16 DEF InputEnds
<1> QED
  BY <1>1, <1>2, <1>3, <1>4, <1>5, <1>6, <1>7, <1>8, <1>9, <1>10, <1>11, <1>12,
     <1>13, <1>14, <1>15, <1>16 DEF HandlerStep, StartStep

\* Every step keeps the types.
LEMMA TypeNext == TypeInv /\ [Next]_vars => TypeInv'
<1> SUFFICES ASSUME TypeInv, [Next]_vars PROVE TypeInv'
  OBVIOUS
<1>1. CASE \E h \in Handlers : HandlerStep(h) BY <1>1, HandlerTypes
<1>2. CASE \E p \in Procs : ProcessStep(p)
  BY <1>2, WaiterTypes, ProcessTypes, ReaderTypes DEF ProcessStep
<1>3. CASE UNCHANGED vars
  BY <1>3 DEF vars, TypeInv, TypeOK, SMTypeOK, EMTypeOK, ServiceTypeOK, HandlerOK,
     smVars, emVars, hVars, pVars, osVars, clockVars, streamVars
<1> QED BY <1>1, <1>2, <1>3 DEF Next

\* Every reachable state is well typed.
THEOREM TypeCorrect == Spec => []TypeOK
<1>1. TypeInv => TypeOK BY DEF TypeInv
<1> QED BY <1>1, TypeInit, TypeNext, PTL DEF Spec

-----------------------------------------------------------------------------
(* Slots.  Who is responsible for a child: the request that starts it, then *)
(* its waiter, or nobody, once its session has been closed.                *)

InStart(h) == pc[h] \in {"inc", "add", "stdin", "arm"}

StartsOwn ==
  \A h \in Handlers : InStart(h) =>
    /\ os[hproc[h]] # "none"
    /\ owner[hproc[h]] = hsess[h]
    /\ waiter[hproc[h]] = "off"

StartsApart ==
  \A g, h \in Handlers : InStart(g) /\ InStart(h) /\ hproc[g] = hproc[h] => g = h

Unstarted ==
  \A p \in Procs : os[p] = "none" => waiter[p] = "off" /\ owner[p] = NoSession

OwnersIssued == \A p \in Procs : owner[p] \in issued \cup {NoSession}

ReapedByWaiter ==
  \A p \in Procs : waiter[p] \notin {"off", "wait"} <=> os[p] = "reaped"

InCharge(p) ==
  \/ waiter[p] = "wait"
  \/ \E h \in Handlers : InStart(h) /\ hproc[h] = p
  \/ owner[p] \notin sessions

SomebodyInCharge ==
  \A p \in Procs : os[p] \in {"running", "dead"} => InCharge(p)

Ownership ==
  /\ StartsOwn /\ StartsApart /\ Unstarted
  /\ OwnersIssued /\ ReapedByWaiter /\ SomebodyInCharge

CountInv ==
  \A s \in Sessions :
    /\ s \in sessions => processCount[s] = Cardinality(Charged(s))
    /\ s \notin issued => processCount[s] = 0

\* At the start there is no child.
LEMMA OwnershipInit == Init => Ownership
BY HandlersAssumption
DEF Init, SMInit, EMInit, Ownership, StartsOwn, StartsApart, Unstarted, OwnersIssued,
    ReapedByWaiter, SomebodyInCharge, InCharge, InStart

\* What a step does to children at most, unless it starts or reaps one.
OnlyEnds ==
  \A p \in Procs : os'[p] # os[p] => os[p] = "running" /\ os'[p] = "dead"

\* A signal ends at most the child it is sent to.
LEMMA KillOnlyEnds ==
  ASSUME TypeInv, NEW p \in Procs, NEW why, Kill(p, why)
  PROVE  OnlyEnds
<1>1. os \in OsStates BY DEF TypeInv, TypeOK, EMTypeOK, OsStates
<1>2. CASE os[p] = "running"
  <2>1. os' = [os EXCEPT ![p] = "dead"] BY <1>2 DEF Kill
  <2> QED BY <1>1, <1>2, <2>1 DEF OnlyEnds, OsStates
<1>3. CASE os[p] # "running"
  <2>1. os' = os BY <1>3 DEF Kill, osVars
  <2> QED BY <2>1 DEF OnlyEnds
<1> QED BY <1>2, <1>3

\* The child, its deadline, the deadline goroutine and the readers do no more.
LEMMA QuietSteps ==
  ASSUME TypeInv, NEW p \in Procs,
         Timer(p) \/ DeadlinePasses(p) \/ Child(p) \/ \E i \in Streams : Reader(p, i)
  PROVE  OnlyEnds
<1>1. SUFFICES UNCHANGED os \/ \E why \in Causes : Kill(p, why)
  BY KillOnlyEnds DEF OnlyEnds
<1> USE DEF osVars, Causes
<1>3. CASE Timer(p) BY <1>3 DEF Timer, TimerMarks, TimerKills
<1>4. CASE DeadlinePasses(p) BY <1>4 DEF DeadlinePasses
<1>5. CASE Child(p) BY <1>5 DEF Child, ChildExits, ContextKill, ChildWrites
<1>6. CASE \E i \in Streams : Reader(p, i)
  BY <1>6 DEF Reader, ReadPipe, CountLine, PublishLine, OverflowKills, OverflowFlags,
              ReaderStops
<1> QED BY <1>3, <1>4, <1>5, <1>6

\* A step that starts no child, abandons none and opens no session.
KeepsStarts ==
  /\ UNCHANGED <<issued, owner, waiter>>
  /\ sessions' \subseteq sessions
  /\ OnlyEnds
  /\ \A h \in Handlers :
       /\ InStart(h)' <=> InStart(h)
       /\ InStart(h) => hproc'[h] = hproc[h] /\ hsess'[h] = hsess[h]

\* Such a step keeps the responsibilities as they are.
LEMMA OwnershipKept ==
  ASSUME TypeInv, Ownership, KeepsStarts
  PROVE  Ownership'
<1> USE DEF Ownership, KeepsStarts
<1>0. \A h \in Handlers : InStart(h) => hproc[h] \in Procs
  BY DEF TypeInv, HandlerOK, InStart, ProcPcs
<1>1. StartsOwn' BY <1>0 DEF StartsOwn, OnlyEnds
<1>2. StartsApart' BY DEF StartsApart
<1>3. Unstarted' BY DEF Unstarted, OnlyEnds
<1>4. OwnersIssued' BY DEF OwnersIssued
<1>5. ReapedByWaiter' BY DEF ReapedByWaiter, OnlyEnds
<1>6. SomebodyInCharge'
  <2> SUFFICES ASSUME NEW p \in Procs, os'[p] \in {"running", "dead"}
               PROVE  InCharge(p)'
    BY DEF SomebodyInCharge
  <2>1. InCharge(p) BY DEF SomebodyInCharge, OnlyEnds
  <2> QED BY <2>1 DEF InCharge
<1> QED BY <1>1, <1>2, <1>3, <1>4, <1>5, <1>6

\* The child, its deadline and its readers change no responsibility.
LEMMA OwnershipProcess ==
  ASSUME TypeInv, Ownership, NEW p \in Procs, UNCHANGED <<smVars, hVars, pVars>>,
         Timer(p) \/ DeadlinePasses(p) \/ Child(p) \/ \E i \in Streams : Reader(p, i)
  PROVE  Ownership'
<1>1. OnlyEnds BY QuietSteps
<1>2. KeepsStarts BY <1>1 DEF KeepsStarts, smVars, hVars, pVars, InStart
<1> QED BY <1>2, OwnershipKept

\* The waiter keeps its child until it has returned the slot.
LEMMA OwnershipWaiter ==
  ASSUME TypeInv, Ownership, NEW p \in Procs, Waiter(p)
  PROVE  Ownership'
<1> USE DEF TypeInv, TypeOK, EMTypeOK, ServiceTypeOK, Ownership, StartsOwn,
        StartsApart, Unstarted, OwnersIssued, ReapedByWaiter, SomebodyInCharge, InCharge,
        InStart, HandlerOK, ProcPcs, smVars, emVars, osVars, hVars, pVars, WaiterGoto
<1>1. CASE WaiterReaps(p) BY <1>1 DEF WaiterReaps
<1>2. CASE WaiterCaptures(p) BY <1>2 DEF WaiterCaptures
<1>3. CASE WaiterPublishes(p) BY <1>3 DEF WaiterPublishes
<1>4. CASE WaiterRemoves(p) BY <1>4 DEF WaiterRemoves
<1>5. CASE WaiterDiscounts(p) BY <1>5 DEF WaiterDiscounts, DecProcess
<1> QED BY <1>1, <1>2, <1>3, <1>4, <1>5 DEF Waiter

\* The steps of a handler that satisfy KeepsStarts.
LEMMA HandlerKeepsStarts ==
  ASSUME TypeInv, NEW h \in Handlers,
         \/ \E s \in Sessions : SessionClose(h, s) \/ StartChecks(h, s)
         \/ StartFails(h) \/ StartCounts(h) \/ StartRegisters(h) \/ StartWritesStdin(h)
         \/ \E p \in Procs : WaitBegins(h, p) \/ KillRequest(h, p) \/ InputBegins(h, p)
         \/ WaitReceives(h) \/ WaitGivesUp(h) \/ InputEnds(h)
  PROVE  KeepsStarts
<1>1. OnlyEnds
  <2>1. CASE \E p \in Procs : KillRequest(h, p)
    BY <2>1, KillOnlyEnds DEF KillRequest
  <2> QED
    BY <2>1 DEF OnlyEnds, SessionClose, StartChecks, StartFails, StartCounts,
       StartRegisters, StartWritesStdin, WaitBegins, InputBegins, WaitReceives,
       WaitGivesUp, InputEnds, emVars, osVars
<1>2. UNCHANGED <<issued, owner, waiter>> /\ sessions' \subseteq sessions
  BY DEF SessionClose, CloseSession, StartChecks, StartFails, StartCounts, IncProcess,
     StartRegisters, StartWritesStdin, WaitBegins, KillRequest, InputBegins,
     WaitReceives, WaitGivesUp, InputEnds, smVars, pVars
<1>3. ASSUME NEW g \in Handlers
      PROVE  /\ InStart(g)' <=> InStart(g)
             /\ InStart(g) => hproc'[g] = hproc[g] /\ hsess'[g] = hsess[g]
  <2> USE DEF TypeInv, TypeOK, ServiceTypeOK, InStart, Goto, Respond, hVars
  <2>1. CASE \E s \in Sessions : SessionClose(h, s) BY <2>1 DEF SessionClose
  <2>2. CASE \E s \in Sessions : StartChecks(h, s) BY <2>2 DEF StartChecks
  <2>3. CASE StartFails(h) BY <2>3 DEF StartFails
  <2>4. CASE StartCounts(h) BY <2>4 DEF StartCounts
  <2>5. CASE StartRegisters(h) BY <2>5 DEF StartRegisters
  <2>6. CASE StartWritesStdin(h) BY <2>6 DEF StartWritesStdin
  <2>7. CASE \E p \in Procs : WaitBegins(h, p) BY <2>7 DEF WaitBegins
  <2>8. CASE \E p \in Procs : KillRequest(h, p) BY <2>8 DEF KillRequest
  <2>9. CASE \E p \in Procs : InputBegins(h, p) BY <2>9 DEF InputBegins
  <2>10. CASE WaitReceives(h) BY <2>10 DEF WaitReceives
  <2>11. CASE WaitGivesUp(h) BY <2>11 DEF WaitGivesUp
  <2>12. CASE InputEnds(h) BY <2>12 DEF InputEnds
  <2> QED BY <2>1, <2>2, <2>3, <2>4, <2>5, <2>6, <2>7, <2>8, <2>9, <2>10, <2>11, <2>12
<1> QED BY <1>1, <1>2, <1>3 DEF KeepsStarts

\* exec.start has the child from its start until its waiter has it.
LEMMA OwnershipHandler ==
  ASSUME TypeInv, Ownership, NEW h \in Handlers, HandlerStep(h)
  PROVE  Ownership'
<1> USE DEF TypeInv, TypeOK, SMTypeOK, EMTypeOK, ServiceTypeOK, Ownership,
        HandlerOK, StartPcs, ProcPcs, smVars, emVars, osVars, hVars, pVars,
        Goto, Respond, InStart
<1>1. CASE \E s \in Sessions : SessionOpen(h, s)
  BY <1>1, HandlersAssumption DEF SessionOpen, OpenSession, StartsOwn,
        StartsApart, Unstarted, OwnersIssued, ReapedByWaiter, SomebodyInCharge, InCharge
<1>2. CASE \E p \in Procs : StartSpawns(h, p)
  <2> PICK p \in Procs : StartSpawns(h, p) BY <1>2
  <2> USE DEF StartSpawns, Spawn
  <2>1. StartsOwn' BY DEF StartsOwn, Unstarted
  <2>2. StartsApart' BY DEF StartsApart, StartsOwn
  <2>3. Unstarted' BY DEF Unstarted
  <2>4. OwnersIssued' BY DEF OwnersIssued
  <2>5. ReapedByWaiter' BY DEF ReapedByWaiter, Unstarted
  <2>6. SomebodyInCharge'
    BY DEF SomebodyInCharge, InCharge
  <2> QED BY <2>1, <2>2, <2>3, <2>4, <2>5, <2>6
<1>3. CASE StartAbandons(h)
  BY <1>3 DEF StartAbandons, StartsOwn,
        StartsApart, Unstarted, OwnersIssued, ReapedByWaiter, SomebodyInCharge, InCharge
<1>4. CASE StartSupervises(h)
  BY <1>4 DEF StartSupervises, StartsOwn,
        StartsApart, Unstarted, OwnersIssued, ReapedByWaiter, SomebodyInCharge, InCharge
<1> QED
  BY <1>1, <1>2, <1>3, <1>4, HandlerKeepsStarts, OwnershipKept DEF HandlerStep, StartStep

\* Every step keeps the responsibilities in order.
LEMMA OwnershipNext == TypeInv /\ Ownership /\ [Next]_vars => Ownership'
<1> SUFFICES ASSUME TypeInv, Ownership, [Next]_vars PROVE Ownership'
  OBVIOUS
<1>1. CASE \E h \in Handlers : HandlerStep(h) BY <1>1, OwnershipHandler
<1>2. CASE \E p \in Procs : ProcessStep(p)
  BY <1>2, OwnershipWaiter, OwnershipProcess DEF ProcessStep
<1>3. CASE UNCHANGED vars
  BY <1>3, OwnershipKept DEF KeepsStarts, OnlyEnds, InStart, vars, smVars, emVars,
     osVars, hVars, pVars
<1> QED BY <1>1, <1>2, <1>3 DEF Next

-----------------------------------------------------------------------------
(* The counter of a session is the number of its slots that are held.      *)

\* The slots of a session and the requests admitted to it are finitely many.
LEMMA FiniteSlots ==
  /\ \A s : IsFiniteSet(Charged(s)) /\ Cardinality(Charged(s)) \in Nat
  /\ \A s : IsFiniteSet(Admitted(s)) /\ Cardinality(Admitted(s)) \in Nat
  /\ \A s : IsFiniteSet(Admitted(s)') /\ Cardinality(Admitted(s)') \in Nat
  /\ \A s : Cardinality(Admitted(s)') <= Cardinality(Handlers)
  /\ Cardinality(Handlers) \in Nat
<1>1. \A s : Charged(s) \subseteq Procs /\ IsFiniteSet(Procs)
  BY ProcsAssumption DEF Charged
<1>2. \A s : Admitted(s) \subseteq Handlers /\ Admitted(s)' \subseteq Handlers
  BY DEF Admitted
<1> QED BY <1>1, <1>2, HandlersAssumption, FS_Subset, FS_CardinalityType

\* A step that takes or returns no slot.
KeepsSlots ==
  /\ UNCHANGED processCount
  /\ sessions' \subseteq sessions
  /\ issued \subseteq issued'
  /\ \A s \in Sessions : Charged(s)' = Charged(s)

\* Such a step keeps the counter exact.
LEMMA CountKept == ASSUME CountInv, KeepsSlots PROVE CountInv'
BY DEF CountInv, KeepsSlots

\* A step that moves no child between holders takes and returns no slot.
LEMMA SameHolders ==
  ASSUME owner' = owner, \A p \in Procs : Holds(p)' <=> Holds(p)
  PROVE  \A s : Charged(s)' = Charged(s)
BY DEF Charged

\* The waiter returns one slot, once (DecProcess).
LEMMA CountWaiter ==
  ASSUME TypeInv, Ownership, CountInv, NEW p \in Procs, Waiter(p)
  PROVE  CountInv'
<1> USE DEF TypeInv, TypeOK, SMTypeOK, ServiceTypeOK
<1>1. CASE ~WaiterDiscounts(p)
  <2>1. UNCHANGED <<smVars, hVars, owner>>
    BY <1>1 DEF Waiter, WaiterReaps, WaiterCaptures, WaiterPublishes, WaiterRemoves
  <2>2. \A q \in Procs : Holds(q)' <=> Holds(q)
    BY <1>1, <2>1 DEF Waiter, WaiterReaps, WaiterCaptures, WaiterPublishes,
       WaiterRemoves, WaiterGoto, Holds, hVars
  <2> QED BY <2>1, <2>2, SameHolders, CountKept DEF KeepsSlots, smVars
<1>2. CASE WaiterDiscounts(p)
  <2> DEFINE o == owner[p]
  <2>1. /\ waiter[p] = "dec" /\ waiter' = [waiter EXCEPT ![p] = "done"]
        /\ UNCHANGED <<hVars, owner, sessions, issued>>
        /\ processCount' = IF o \in sessions /\ processCount[o] > 0
                           THEN [processCount EXCEPT ![o] = @ - 1] ELSE processCount
    BY <1>2 DEF WaiterDiscounts, WaiterGoto, DecProcess
  <2>2. Holds(p) /\ ~Holds(p)'
    BY <2>1 DEF Holds, hVars, Ownership, StartsOwn, InStart
  <2>3. \A q \in Procs : q # p => (Holds(q)' <=> Holds(q))
    BY <2>1 DEF Holds, hVars
  <2>4. \A s : Charged(s)' = Charged(s) \ {p}
    BY <2>1, <2>2, <2>3 DEF Charged
  <2>5. ASSUME NEW s \in Sessions, s \in sessions
        PROVE  processCount'[s] = Cardinality(Charged(s)')
    <3>1. CASE s = o
      <4>1. p \in Charged(s) BY <2>2, <3>1 DEF Charged
      <4>2. Cardinality(Charged(s)') = Cardinality(Charged(s)) - 1
        BY <4>1, <2>4, FiniteSlots, FS_RemoveElement
      <4>3. Cardinality(Charged(s)) > 0
        BY <4>1, FiniteSlots, FS_EmptySet
      <4>4. processCount[s] = Cardinality(Charged(s)) BY <2>5 DEF CountInv
      <4> QED BY <4>2, <4>3, <4>4, <2>1, <2>5, <3>1
    <3>2. CASE s # o
      <4>1. Charged(s)' = Charged(s) BY <2>1, <2>4, <3>2 DEF Charged
      <4> QED BY <4>1, <2>1, <2>5, <3>2 DEF CountInv
    <3> QED BY <3>1, <3>2
  <2>6. ASSUME NEW s \in Sessions, s \notin issued PROVE processCount'[s] = 0
    <3>1. s # o BY <2>6, HandlersAssumption DEF Ownership, OwnersIssued
    <3> QED BY <3>1, <2>1, <2>6 DEF CountInv
  <2> QED BY <2>1, <2>5, <2>6 DEF CountInv
<1> QED BY <1>1, <1>2

\* The steps of a handler that satisfy KeepsSlots.
LEMMA HandlerKeepsSlots ==
  ASSUME TypeInv, Ownership, NEW h \in Handlers,
         \/ \E s \in Sessions : SessionClose(h, s) \/ StartChecks(h, s)
         \/ \E p \in Procs : StartSpawns(h, p)
         \/ StartFails(h) \/ StartAbandons(h) \/ StartRegisters(h) \/ StartWritesStdin(h)
         \/ StartSupervises(h)
         \/ \E p \in Procs : WaitBegins(h, p) \/ KillRequest(h, p) \/ InputBegins(h, p)
         \/ WaitReceives(h) \/ WaitGivesUp(h) \/ InputEnds(h)
  PROVE  KeepsSlots
<1>1. UNCHANGED <<processCount, issued>> /\ sessions' \subseteq sessions
  BY DEF SessionClose, CloseSession, StartChecks, StartSpawns, StartFails, StartAbandons,
     StartRegisters, StartWritesStdin, StartSupervises, WaitBegins, KillRequest,
     InputBegins, WaitReceives, WaitGivesUp, InputEnds, smVars
<1>2. CASE \E p \in Procs : StartSpawns(h, p)
  <2> PICK p \in Procs : StartSpawns(h, p) BY <1>2
  <2>1. /\ pc[h] = "spawn" /\ pc' = [pc EXCEPT ![h] = "inc"]
        /\ hproc' = [hproc EXCEPT ![h] = p]
        /\ owner' = [owner EXCEPT ![p] = hsess[h]]
        /\ os[p] = "none" /\ UNCHANGED waiter
    BY DEF StartSpawns, Goto, Spawn
  <2>2. ~Holds(p) /\ ~Holds(p)'
    BY <2>1 DEF Holds, Ownership, Unstarted, StartsOwn, InStart, TypeInv, TypeOK,
       ServiceTypeOK
  <2>3. \A q \in Procs : q # p => (Holds(q)' <=> Holds(q)) /\ owner'[q] = owner[q]
    BY <2>1 DEF Holds, TypeInv, TypeOK, ServiceTypeOK
  <2>4. \A s : Charged(s)' = Charged(s) BY <2>2, <2>3 DEF Charged
  <2> QED BY <1>1, <2>4 DEF KeepsSlots
<1>3. CASE ~(\E p \in Procs : StartSpawns(h, p))
  <2>1. UNCHANGED owner
    BY <1>3 DEF SessionClose, StartChecks, StartFails, StartAbandons,
     StartRegisters, StartWritesStdin, StartSupervises, WaitBegins, KillRequest,
     InputBegins, WaitReceives, WaitGivesUp, InputEnds, pVars
  <2>2. ASSUME NEW p \in Procs PROVE Holds(p)' <=> Holds(p)
    <3> USE DEF TypeInv, TypeOK, ServiceTypeOK, HandlerOK, ProcPcs, Holds, Goto, Respond,
            hVars, pVars
    <3>1. CASE \E s \in Sessions : SessionClose(h, s) BY <3>1 DEF SessionClose
    <3>2. CASE \E s \in Sessions : StartChecks(h, s) BY <3>2 DEF StartChecks
    <3>3. CASE StartFails(h) BY <3>3 DEF StartFails
    <3>4. CASE StartAbandons(h) BY <3>4 DEF StartAbandons
    <3>5. CASE StartRegisters(h) BY <3>5 DEF StartRegisters
    <3>6. CASE StartWritesStdin(h) BY <3>6 DEF StartWritesStdin
    <3>7. CASE StartSupervises(h)
      BY <3>7 DEF StartSupervises, Ownership, StartsOwn, InStart
    <3>8. CASE \E q \in Procs : WaitBegins(h, q) BY <3>8 DEF WaitBegins
    <3>9. CASE \E q \in Procs : KillRequest(h, q) BY <3>9 DEF KillRequest
    <3>10. CASE \E q \in Procs : InputBegins(h, q) BY <3>10 DEF InputBegins
    <3>11. CASE WaitReceives(h) BY <3>11 DEF WaitReceives
    <3>12. CASE WaitGivesUp(h) BY <3>12 DEF WaitGivesUp
    <3>13. CASE InputEnds(h) BY <3>13 DEF InputEnds
    <3> QED
      BY <1>3, <3>1, <3>2, <3>3, <3>4, <3>5, <3>6, <3>7, <3>8, <3>9, <3>10, <3>11,
         <3>12, <3>13
  <2> QED BY <1>1, <2>1, <2>2, SameHolders DEF KeepsSlots
<1> QED BY <1>2, <1>3

\* exec.start takes one slot, once (IncProcess).
LEMMA CountHandler ==
  ASSUME TypeInv, Ownership, CountInv, NEW h \in Handlers, HandlerStep(h)
  PROVE  CountInv'
<1> USE DEF TypeInv, TypeOK, SMTypeOK, ServiceTypeOK
<1>1. CASE \E s \in Sessions : SessionOpen(h, s)
  <2> PICK o \in Sessions : SessionOpen(h, o) BY <1>1
  <2>1. /\ o \notin issued /\ sessions' = sessions \cup {o} /\ issued' = issued \cup {o}
        /\ UNCHANGED <<processCount, hVars, pVars>>
    BY DEF SessionOpen, OpenSession
  <2>2. \A s : Charged(s)' = Charged(s)
    BY <2>1, SameHolders DEF Holds, hVars, pVars
  <2>3. Charged(o) = {} BY <2>1, HandlersAssumption DEF Charged, Ownership, OwnersIssued
  <2>4. processCount[o] = Cardinality(Charged(o))
    BY <2>1, <2>3, FS_EmptySet DEF CountInv
  <2> QED BY <2>1, <2>2, <2>4 DEF CountInv
<1>2. CASE StartCounts(h)
  <2> DEFINE o == hsess[h]  p == hproc[h]
  <2>1. /\ pc[h] = "inc" /\ pc' = [pc EXCEPT ![h] = "add"]
        /\ o \in sessions /\ processCount' = [processCount EXCEPT ![o] = @ + 1]
        /\ UNCHANGED <<sessions, issued, hsess, hproc, pVars>>
    BY <1>2 DEF StartCounts, Goto, IncProcess
  <2>2. p \in Procs /\ owner[p] = o /\ waiter[p] = "off"
    BY <2>1 DEF HandlerOK, ProcPcs, Ownership, StartsOwn, InStart
  <2>3. ~Holds(p) BY <2>1, <2>2 DEF Holds, Ownership, StartsApart, InStart
  <2>4. Holds(p)' BY <2>1 DEF Holds
  <2>5. \A q \in Procs : q # p => (Holds(q)' <=> Holds(q)) BY <2>1 DEF Holds, pVars
  <2>6. Charged(o)' = Charged(o) \cup {p} /\ p \notin Charged(o)
    BY <2>1, <2>2, <2>3, <2>4, <2>5 DEF Charged, pVars
  <2>7. \A s : s # o => Charged(s)' = Charged(s)
    BY <2>1, <2>2, <2>5 DEF Charged, pVars
  <2>8. Cardinality(Charged(o)') = Cardinality(Charged(o)) + 1
    BY <2>6, FiniteSlots, FS_AddElement
  <2> QED BY <2>1, <2>7, <2>8 DEF CountInv
<1> QED
  BY <1>1, <1>2, HandlerKeepsSlots, CountKept DEF HandlerStep, StartStep

\* Every step keeps the counter exact.
LEMMA CountNext == TypeInv /\ Ownership /\ CountInv /\ [Next]_vars => CountInv'
<1> SUFFICES ASSUME TypeInv, Ownership, CountInv, [Next]_vars PROVE CountInv'
  OBVIOUS
<1>1. CASE \E h \in Handlers : HandlerStep(h) BY <1>1, CountHandler
<1>2. CASE \E p \in Procs : Waiter(p) BY <1>2, CountWaiter
<1>3. CASE UNCHANGED <<smVars, hVars, pVars>>
  <2>1. \A s : Charged(s)' = Charged(s)
    BY <1>3, SameHolders DEF Holds, hVars, pVars
  <2> QED BY <1>3, <2>1, CountKept DEF KeepsSlots, smVars
<1> QED BY <1>1, <1>2, <1>3 DEF Next, ProcessStep, vars

SlotInv == TypeInv /\ Ownership /\ CountInv

\* The conjunction of the three invariants holds at the start.
LEMMA SlotInit == Init => SlotInv
<1> SUFFICES ASSUME Init PROVE SlotInv OBVIOUS
<1>1. CountInv BY DEF Init, SMInit, CountInv
<1> QED BY <1>1, TypeInit, OwnershipInit DEF SlotInv

\* The conjunction of the three invariants is inductive.
LEMMA SlotNext == SlotInv /\ [Next]_vars => SlotInv'
BY TypeNext, OwnershipNext, CountNext DEF SlotInv

\* The counter of a live session is the number of slots that are held: none
\* leaks and none is returned twice.
THEOREM CountIsExact == Spec => []CountMatches
<1>1. SlotInv => CountMatches
  BY DEF SlotInv, TypeInv, TypeOK, SMTypeOK, CountInv, CountMatches
<1> QED BY <1>1, SlotInit, SlotNext, PTL DEF Spec

-----------------------------------------------------------------------------
(* The limit.  A session's counter and the requests admitted but not yet   *)
(* counted stay within the limit and the number of the other handlers.     *)

AdmitBound == MaxProcessesPerSession + Cardinality(Handlers) - 1

AdmitInv ==
  \A s \in Sessions : processCount[s] + Cardinality(Admitted(s)) <= AdmitBound

\* A step that admits nobody and counts nothing.
AdmitsNobody ==
  \A s \in Sessions :
    processCount'[s] <= processCount[s] /\ Admitted(s)' \subseteq Admitted(s)

\* Such a step keeps the bound on admitted requests.
LEMMA AdmitKept ==
  ASSUME TypeInv, TypeInv', AdmitInv, AdmitsNobody
  PROVE  AdmitInv'
<1>1. ASSUME NEW s \in Sessions
      PROVE  Cardinality(Admitted(s)') <= Cardinality(Admitted(s))
  BY FiniteSlots, FS_Subset DEF AdmitsNobody
<1>2. \A s \in Sessions : processCount[s] \in Nat /\ processCount'[s] \in Nat
  BY DEF TypeInv, TypeOK, SMTypeOK
<1>3. AdmitBound \in Int BY FiniteSlots, HandlersAssumption DEF AdmitBound
<1> QED BY <1>1, <1>2, <1>3, FiniteSlots DEF AdmitInv, AdmitsNobody, AdmitBound

\* A request is admitted below the limit, and a handler has one request at a time.
LEMMA AdmitHandler ==
  ASSUME TypeInv, TypeInv', AdmitInv, NEW h \in Handlers, HandlerStep(h)
  PROVE  AdmitInv'
<1> USE DEF TypeInv, TypeOK, SMTypeOK, ServiceTypeOK
<1>1. CASE \E s \in Sessions : StartChecks(h, s)
  <2> PICK o \in Sessions : StartChecks(h, o) BY <1>1
  <2>1. /\ processCount[o] < MaxProcessesPerSession /\ UNCHANGED processCount
        /\ pc[h] = "idle" /\ pc' = [pc EXCEPT ![h] = "spawn"]
        /\ hsess' = [hsess EXCEPT ![h] = o]
    BY DEF StartChecks, Goto, smVars
  <2>2. \A s : s # o => Admitted(s)' \subseteq Admitted(s) BY <2>1 DEF Admitted
  <2>3. ASSUME NEW s \in Sessions
        PROVE  processCount'[s] + Cardinality(Admitted(s)') <= AdmitBound
    <3>1. CASE s = o
      BY <3>1, <2>1, FiniteSlots, HandlersAssumption DEF AdmitBound
    <3>2. CASE s # o
      <4>1. Cardinality(Admitted(s)') <= Cardinality(Admitted(s))
        BY <3>2, <2>2, FiniteSlots, FS_Subset
      <4> QED BY <4>1, <2>1, FiniteSlots, HandlersAssumption DEF AdmitInv, AdmitBound
    <3> QED BY <3>1, <3>2
  <2> QED BY <2>3 DEF AdmitInv, AdmitBound
<1>2. CASE StartCounts(h)
  <2> DEFINE o == hsess[h]
  <2>1. /\ pc[h] = "inc" /\ pc' = [pc EXCEPT ![h] = "add"] /\ UNCHANGED hsess
        /\ o \in sessions /\ processCount' = [processCount EXCEPT ![o] = @ + 1]
    BY <1>2 DEF StartCounts, Goto, IncProcess
  <2>2. \A s : Admitted(s)' = Admitted(s) \ {h} BY <2>1 DEF Admitted
  <2>3. h \in Admitted(o) BY <2>1 DEF Admitted
  <2>4. Cardinality(Admitted(o)') = Cardinality(Admitted(o)) - 1
    BY <2>1, <2>2, <2>3, FiniteSlots, FS_RemoveElement
  <2>5. \A s : s # o => Admitted(s)' = Admitted(s) BY <2>1, <2>2 DEF Admitted
  <2> QED
    BY <2>1, <2>4, <2>5, FiniteSlots, HandlersAssumption DEF AdmitInv, AdmitBound
<1>3. CASE ~StartCounts(h) /\ ~(\E s \in Sessions : StartChecks(h, s))
  <2>1. UNCHANGED processCount
    BY <1>3 DEF HandlerStep, StartStep, SessionOpen, OpenSession, SessionClose,
     CloseSession, StartSpawns, StartFails, StartAbandons, StartRegisters,
     StartWritesStdin, StartSupervises, WaitBegins, KillRequest, InputBegins,
     WaitReceives, WaitGivesUp, InputEnds, smVars
  <2>2. ASSUME NEW g \in Handlers, pc'[g] \in {"spawn", "inc"}
        PROVE  pc[g] \in {"spawn", "inc"} /\ hsess'[g] = hsess[g]
    BY <2>2, <1>3 DEF HandlerStep, StartStep, SessionOpen, SessionClose, StartSpawns,
     StartFails, StartAbandons, StartRegisters, StartWritesStdin, StartSupervises,
     WaitBegins, KillRequest, InputBegins, WaitReceives, WaitGivesUp, InputEnds,
     hVars, Goto, Respond
  <2>3. \A s : Admitted(s)' \subseteq Admitted(s) BY <2>2 DEF Admitted
  <2> QED BY <2>1, <2>3, AdmitKept DEF AdmitsNobody
<1> QED BY <1>1, <1>2, <1>3

\* Every step keeps the bound on admitted requests.
LEMMA AdmitNext == TypeInv /\ TypeInv' /\ AdmitInv /\ [Next]_vars => AdmitInv'
<1> SUFFICES ASSUME TypeInv, TypeInv', AdmitInv, [Next]_vars PROVE AdmitInv'
  OBVIOUS
<1> USE DEF TypeInv, TypeOK, SMTypeOK
<1>1. CASE \E h \in Handlers : HandlerStep(h) BY <1>1, AdmitHandler
<1>2. CASE \E p \in Procs : Waiter(p)
  <2>1. UNCHANGED hVars
    BY <1>2 DEF Waiter, WaiterReaps, WaiterCaptures, WaiterPublishes, WaiterRemoves,
     WaiterDiscounts
  <2>2. \A s \in Sessions : processCount'[s] <= processCount[s]
    BY <1>2 DEF Waiter, WaiterReaps, WaiterCaptures, WaiterPublishes, WaiterRemoves,
     WaiterDiscounts, DecProcess, smVars
  <2>3. \A s : Admitted(s)' = Admitted(s) BY <2>1 DEF Admitted, hVars
  <2> QED BY <2>2, <2>3, AdmitKept DEF AdmitsNobody
<1>3. CASE UNCHANGED <<smVars, hVars, pVars>>
  <2>1. \A s : Admitted(s)' = Admitted(s) BY <1>3 DEF Admitted, hVars
  <2> QED BY <1>3, <2>1, AdmitKept DEF AdmitsNobody, smVars
<1> QED BY <1>1, <1>2, <1>3 DEF Next, ProcessStep, vars

\* At the start nobody has been admitted.
LEMMA AdmitInit == Init => AdmitInv
<1> SUFFICES ASSUME Init PROVE AdmitInv OBVIOUS
<1>1. \A s \in Sessions : Admitted(s) = {} BY DEF Init, Admitted
<1>2. Cardinality(Handlers) >= 1
  BY HandlersAssumption, FS_EmptySet, FiniteSlots
<1> QED
  BY <1>1, <1>2, FS_EmptySet, FiniteSlots, HandlersAssumption
  DEF Init, SMInit, AdmitInv, AdmitBound

\* The handler that starts a child nobody has counted yet tells it apart from
\* the children of every other handler.
LEMMA UncountedChildren ==
  ASSUME SlotInv, NEW s \in sessions
  PROVE  Cardinality(Unreaped(s)) <= Cardinality(Charged(s)) + Cardinality(Admitted(s))
<1> DEFINE A == {h \in Handlers : hsess[h] = s /\ pc[h] = "inc"}
           B == {p \in Procs : \E h \in A : hproc[h] = p}
           f == [h \in A |-> hproc[h]]
<1>1. Unreaped(s) \subseteq Charged(s) \cup B
  <2> SUFFICES ASSUME NEW p \in Unreaped(s), p \notin Charged(s) PROVE p \in B
    OBVIOUS
  <2>1. p \in Procs /\ owner[p] = s /\ os[p] \in {"running", "dead"} BY DEF Unreaped
  <2>2. ~Holds(p) BY <2>1 DEF Charged
  <2>3. PICK h \in Handlers : InStart(h) /\ hproc[h] = p
    BY <2>1, <2>2 DEF SlotInv, Ownership, SomebodyInCharge, InCharge, Holds
  <2>4. pc[h] = "inc" BY <2>2, <2>3 DEF Holds, InStart
  <2>5. hsess[h] = s BY <2>1, <2>3 DEF SlotInv, Ownership, StartsOwn
  <2> QED BY <2>1, <2>3, <2>4, <2>5
<1>2. A \subseteq Admitted(s) BY DEF Admitted
<1>3. IsFiniteSet(A) /\ Cardinality(A) <= Cardinality(Admitted(s))
  BY <1>2, FiniteSlots, FS_Subset
<1>4. f \in Surjection(A, B)
  BY DEF Surjection, SlotInv, TypeInv, HandlerOK, ProcPcs
<1>5. IsFiniteSet(B) /\ Cardinality(B) <= Cardinality(A) BY <1>3, <1>4, FS_Surjection
<1>6. /\ IsFiniteSet(Charged(s) \cup B)
      /\ Cardinality(Charged(s) \cup B) <= Cardinality(Charged(s)) + Cardinality(B)
  <2> HIDE DEF B
  <2>1. IsFiniteSet(Charged(s) \cap B) BY <1>5, FS_Subset
  <2>2. /\ Cardinality(Charged(s) \cap B) \in Nat
        /\ Cardinality(Charged(s)) \in Nat /\ Cardinality(B) \in Nat
    BY <1>5, <2>1, FiniteSlots, FS_CardinalityType
  <2>3. /\ IsFiniteSet(Charged(s) \cup B)
        /\ Cardinality(Charged(s) \cup B) = Cardinality(Charged(s))
              + Cardinality(B) - Cardinality(Charged(s) \cap B)
    BY <1>5, FiniteSlots, FS_Union
  <2> QED BY <2>2, <2>3
<1>7. Cardinality(Unreaped(s)) <= Cardinality(Charged(s) \cup B)
  BY <1>1, <1>6, FS_Subset
<1>8. IsFiniteSet(Unreaped(s)) BY <1>1, <1>6, FS_Subset
<1> QED BY <1>3, <1>5, <1>6, <1>7, <1>8, FiniteSlots, FS_CardinalityType

\* A session never has more children than its limit and one for every handler
\* but the first.
THEOREM OvershootBounded == Spec => []OvershootIsBounded
<1>1. SlotInv /\ AdmitInv => OvershootIsBounded
  <2> SUFFICES ASSUME SlotInv, AdmitInv, NEW s \in sessions
               PROVE  Cardinality(Unreaped(s))
                        <= MaxProcessesPerSession + Cardinality(Handlers) - 1
    BY DEF OvershootIsBounded
  <2>1. s \in Sessions /\ processCount[s] = Cardinality(Charged(s))
    BY DEF SlotInv, TypeInv, TypeOK, SMTypeOK, CountInv
  <2>2. Cardinality(Unreaped(s)) \in Nat
    BY ProcsAssumption, FS_Subset, FS_CardinalityType DEF Unreaped
  <2> QED
    BY <2>1, <2>2, UncountedChildren, FiniteSlots, HandlersAssumption
    DEF AdmitInv, AdmitBound
<1>2. Init => SlotInv /\ AdmitInv BY SlotInit, AdmitInit
<1>3. (SlotInv /\ AdmitInv) /\ [Next]_vars => (SlotInv /\ AdmitInv)'
  BY SlotNext, AdmitNext DEF SlotInv
<1> QED BY <1>1, <1>2, <1>3, PTL DEF Spec

-----------------------------------------------------------------------------
(* Timeouts.                                                               *)

Fresh(p) ==
  /\ deadline[p] = "none" /\ timer[p] = "off"
  /\ timedOut[p] = FALSE /\ reported[p] = FALSE
  /\ \A i \in Streams : reader[p][i] = "off"

Unregistered(p) ==
  os[p] = "none" \/ \E h \in Handlers : hproc[h] = p /\ pc[h] \in {"inc", "add"}

Overflowed(p) == MaxOutput > 0 /\ bytes[p] > MaxOutput
Real(p) == deadline[p] = "expired" \/ Overflowed(p)

FreshAtFirst == \A p \in Procs : Unregistered(p) => Fresh(p)

\* The deadline goroutine marks before it kills.
MarkedThenKilled ==
  \A p \in Procs : timer[p] = "kill" \/ endedBy[p] = "timeout" => timedOut[p]

\* It cannot wake by cancellation before the flags have been copied.
MarksAreReal ==
  \A p \in Procs :
    /\ deadline[p] = "cancelled" => Captured(p)
    /\ timedOut[p] => Captured(p) \/ Real(p)
    /\ \A i \in Streams : reader[p][i] \in {"overflow", "flag"} => Overflowed(p)

TimeInv ==
  /\ FreshAtFirst /\ MarkedThenKilled /\ MarksAreReal
  /\ ReportedTimeoutIsReal /\ TimeoutKillIsReported

\* At the start no flag is set.
LEMMA TimeInit == Init => TimeInv
BY DEF Init, SMInit, EMInit, TimeInv, FreshAtFirst, Fresh, MarkedThenKilled, MarksAreReal,
       ReportedTimeoutIsReal, TimeoutKillIsReported, Captured

\* The waiter copies the flags before it cancels the deadline.
LEMMA TimeWaiter ==
  ASSUME TypeInv, Ownership, TimeInv, NEW p \in Procs, Waiter(p)
  PROVE  TimeInv'
<1> USE DEF TypeInv, TypeOK, EMTypeOK, ServiceTypeOK, Ownership, StartsOwn, InStart,
        Unstarted, ReapedByWaiter, TimeInv, FreshAtFirst, Fresh, Unregistered,
        MarkedThenKilled, MarksAreReal, Overflowed, Real, ReportedTimeoutIsReal,
        TimeoutKillIsReported, Captured, emVars, osVars, clockVars, streamVars, hVars,
        WaiterGoto
<1>1. CASE WaiterReaps(p) BY <1>1 DEF WaiterReaps
<1>2. CASE WaiterCaptures(p)
  <2>1. FreshAtFirst' BY <1>2 DEF WaiterCaptures, CaptureState
  <2>2. MarkedThenKilled' BY <1>2 DEF WaiterCaptures, CaptureState
  <2>3. MarksAreReal' BY <1>2 DEF WaiterCaptures, CaptureState
  <2>4. ReportedTimeoutIsReal'
    <3>1. \A q \in Procs : Real(q) => Real(q)'
      BY <1>2 DEF WaiterCaptures, CaptureState
    <3>2. ~Captured(p) BY <1>2 DEF WaiterCaptures
    <3>3. reported' = [reported EXCEPT ![p] = timedOut[p]]
      BY <1>2 DEF WaiterCaptures, CaptureState
    <3>4. timedOut[p] => Real(p) BY <3>2
    <3>5. \A q \in Procs : reported'[q] => Real(q) BY <3>3, <3>4
    <3> QED BY <3>1, <3>5
  <2>5. TimeoutKillIsReported' BY <1>2 DEF WaiterCaptures, CaptureState
  <2> QED BY <2>1, <2>2, <2>3, <2>4, <2>5
<1>3. CASE WaiterPublishes(p) BY <1>3 DEF WaiterPublishes
<1>4. CASE WaiterRemoves(p) BY <1>4 DEF WaiterRemoves
<1>5. CASE WaiterDiscounts(p) BY <1>5 DEF WaiterDiscounts
<1> QED BY <1>1, <1>2, <1>3, <1>4, <1>5 DEF Waiter

\* The deadline goroutine and the readers set the flag only with reason.
LEMMA TimeProcess ==
  ASSUME TypeInv, Ownership, TimeInv, NEW p \in Procs, UNCHANGED <<smVars, hVars, pVars>>,
         Timer(p) \/ DeadlinePasses(p) \/ Child(p) \/ \E i \in Streams : Reader(p, i)
  PROVE  TimeInv'
<1> USE DEF TypeInv, TypeOK, EMTypeOK, ServiceTypeOK, Ownership,
        ReapedByWaiter, TimeInv, FreshAtFirst, Fresh, Unregistered,
        MarkedThenKilled, MarksAreReal, Overflowed, Real, ReportedTimeoutIsReal,
        TimeoutKillIsReported, Captured, osVars, clockVars, streamVars, hVars, pVars,
        Kill, SetReader
<1>1. CASE TimerMarks(p) BY <1>1 DEF TimerMarks
<1>2. CASE TimerKills(p)
  <2>1. FreshAtFirst' BY SMTT(30), <1>2 DEF TimerKills
  <2>2. MarkedThenKilled' BY <1>2 DEF TimerKills
  <2>3. MarksAreReal' BY <1>2 DEF TimerKills
  <2>4. ReportedTimeoutIsReal' BY <1>2 DEF TimerKills
  <2>5. TimeoutKillIsReported'
    <3>1. \A q \in Procs : Captured(q)' => Captured(q) /\ os[q] = "reaped" BY <1>2
    <3>2. \A q \in Procs : os[q] = "reaped" => endedBy'[q] = endedBy[q]
      BY <1>2 DEF TimerKills
    <3>3. UNCHANGED reported BY <1>2 DEF TimerKills
    <3> QED BY <3>1, <3>2, <3>3
  <2> QED BY <2>1, <2>2, <2>3, <2>4, <2>5
<1>3. CASE DeadlinePasses(p) BY <1>3 DEF DeadlinePasses
<1>4. CASE ChildExits(p) BY <1>4 DEF ChildExits
<1>5. CASE ContextKill(p) BY <1>5 DEF ContextKill
<1>6. CASE \E i \in Streams : ChildWrites(p, i) BY <1>6 DEF ChildWrites
<1>7. CASE \E i \in Streams : ReadPipe(p, i) BY <1>7 DEF ReadPipe
<1>8. CASE \E i \in Streams : CountLine(p, i)
  <2> PICK i \in Streams : CountLine(p, i) BY <1>8
  <2>1. FreshAtFirst' BY ProcsAssumption DEF CountLine
  <2>2. MarkedThenKilled' BY ProcsAssumption DEF CountLine
  <2>3. MarksAreReal'
    <3>1. \A q \in Procs : Overflowed(q) => Overflowed(q)'
      BY ProcsAssumption DEF CountLine
    <3>2. UNCHANGED <<deadline, timedOut, waiter>> BY DEF CountLine
    <3>3. \A q \in Procs, k \in Streams :
            reader'[q][k] \in {"overflow", "flag"} =>
              \/ reader[q][k] \in {"overflow", "flag"}
              \/ Overflowed(q)'
      BY DEF CountLine
    <3> QED BY <3>1, <3>2, <3>3
  <2>4. ReportedTimeoutIsReal' BY ProcsAssumption DEF CountLine
  <2>5. TimeoutKillIsReported' BY ProcsAssumption DEF CountLine
  <2> QED BY <2>1, <2>2, <2>3, <2>4, <2>5
<1>9. CASE \E i \in Streams : PublishLine(p, i)
  <2> PICK i \in Streams : PublishLine(p, i) BY <1>9
  <2>1. FreshAtFirst' BY SMTT(30), <1>9 DEF PublishLine
  <2>2. MarkedThenKilled' BY <1>9 DEF PublishLine
  <2>3. MarksAreReal' BY SMTT(30), <1>9 DEF PublishLine
  <2>4. ReportedTimeoutIsReal' BY SMTT(30), <1>9 DEF PublishLine
  <2>5. TimeoutKillIsReported' BY <1>9 DEF PublishLine
  <2> QED BY <2>1, <2>2, <2>3, <2>4, <2>5
<1>10. CASE \E i \in Streams : OverflowKills(p, i) BY <1>10 DEF OverflowKills
<1>11. CASE \E i \in Streams : OverflowFlags(p, i) BY SMTT(30), <1>11 DEF OverflowFlags
<1>12. CASE \E i \in Streams : ReaderStops(p, i) BY <1>12 DEF ReaderStops
<1> QED
  BY <1>1, <1>2, <1>3, <1>4, <1>5, <1>6, <1>7, <1>8, <1>9, <1>10, <1>11, <1>12
  DEF Timer, Child, Reader

\* exec.start arms a deadline that is fresh.
LEMMA TimeHandler ==
  ASSUME TypeInv, Ownership, TimeInv, NEW h \in Handlers, HandlerStep(h)
  PROVE  TimeInv'
<1> USE DEF TypeInv, TypeOK, EMTypeOK, ServiceTypeOK, HandlerOK, ProcPcs, Ownership,
        StartsOwn, StartsApart, InStart, Unstarted, ReapedByWaiter, TimeInv, FreshAtFirst,
        Fresh, Unregistered, MarkedThenKilled, MarksAreReal, Overflowed, Real,
        ReportedTimeoutIsReal, TimeoutKillIsReported, Captured, emVars, osVars, clockVars,
        streamVars, hVars, pVars, Goto, Respond
<1>1. CASE \E p \in Procs : StartSpawns(h, p) BY <1>1 DEF StartSpawns, Spawn
<1>2. CASE StartRegisters(h) BY <1>2 DEF StartRegisters, StartReaders
<1>3. CASE StartSupervises(h) BY <1>3 DEF StartSupervises
<1>4. CASE \E p \in Procs : KillRequest(h, p) BY <1>4 DEF KillRequest, Kill
<1>5. CASE UNCHANGED <<emVars, waiter>>
  <2>1. ASSUME NEW g \in Handlers, pc'[g] \in {"inc", "add"}
        PROVE  pc[g] \in {"inc", "add"} /\ hproc'[g] = hproc[g]
    <3>1. CASE \E p \in Procs : StartSpawns(h, p)
      BY <1>5, <3>1 DEF StartSpawns, Spawn
    <3>2. CASE StartRegisters(h) BY <2>1, <3>2 DEF StartRegisters
    <3>3. CASE StartSupervises(h) BY <2>1, <3>3 DEF StartSupervises
    <3> QED
      BY <2>1, <3>1, <3>2, <3>3
      DEF HandlerStep, StartStep, SessionOpen, SessionClose, StartChecks, StartFails,
          StartCounts, StartAbandons, StartWritesStdin, WaitBegins, KillRequest,
          InputBegins, WaitReceives, WaitGivesUp, InputEnds
  <2>2. \A p \in Procs : Unregistered(p)' => Unregistered(p) BY <1>5, <2>1
  <2>3. FreshAtFirst' BY <1>5, <2>2
  <2>4. MarkedThenKilled' /\ MarksAreReal' BY <1>5
  <2>5. ReportedTimeoutIsReal' /\ TimeoutKillIsReported' BY <1>5
  <2> QED BY <2>3, <2>4, <2>5
<1> QED
  BY <1>1, <1>2, <1>3, <1>4, <1>5
  DEF HandlerStep, StartStep, SessionOpen, SessionClose, StartChecks, StartFails,
      StartCounts, StartAbandons, StartWritesStdin, WaitBegins, InputBegins, WaitReceives,
      WaitGivesUp, InputEnds

TimelyInv == TypeInv /\ Ownership /\ TimeInv

\* Every step keeps the flags honest.
LEMMA TimeNext == TypeInv /\ Ownership /\ TimeInv /\ [Next]_vars => TimeInv'
<1> SUFFICES ASSUME TypeInv, Ownership, TimeInv, [Next]_vars PROVE TimeInv'
  OBVIOUS
<1>1. CASE \E h \in Handlers : HandlerStep(h) BY <1>1, TimeHandler
<1>2. CASE \E p \in Procs : ProcessStep(p)
  BY <1>2, TimeWaiter, TimeProcess DEF ProcessStep
<1>3. CASE UNCHANGED vars
  BY <1>3 DEF vars, smVars, emVars, osVars, clockVars, streamVars, hVars, pVars, TimeInv,
     FreshAtFirst, Fresh, Unregistered, MarkedThenKilled, MarksAreReal, Real, Overflowed,
     ReportedTimeoutIsReal, TimeoutKillIsReported, Captured
<1> QED BY <1>1, <1>2, <1>3 DEF Next

\* The invariants of the flags hold of every behaviour.
LEMMA TimelyAlways == Spec => []TimelyInv
<1>1. Init => TimelyInv BY TypeInit, OwnershipInit, TimeInit DEF TimelyInv
<1>2. TimelyInv /\ [Next]_vars => TimelyInv'
  BY TypeNext, OwnershipNext, TimeNext DEF TimelyInv
<1> QED BY <1>1, <1>2, PTL DEF Spec

\* timed_out is reported of a process only if its deadline passed or it
\* exceeded its output limit: a wake by cancellation is never reported.
THEOREM TimeoutsAreReal == Spec => []ReportedTimeoutIsReal
<1>1. TimelyInv => ReportedTimeoutIsReal BY DEF TimelyInv, TimeInv
<1> QED BY <1>1, TimelyAlways, PTL

\* A process that the deadline killed is always reported as timed out.
THEOREM TimeoutsAreReported == Spec => []TimeoutKillIsReported
<1>1. TimelyInv => TimeoutKillIsReported BY DEF TimelyInv, TimeInv
<1> QED BY <1>1, TimelyAlways, PTL
=============================================================================
