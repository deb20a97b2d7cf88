-------------------------- MODULE ExecEventProofs ---------------------------
(***************************************************************************)
(* Theorems about the registry and the notifications of ExecService.       *)
(***************************************************************************)
EXTENDS ExecServiceProofs

-----------------------------------------------------------------------------
(* What a step does to the notifications.                                  *)

\* A step that numbers no line and publishes nothing; exec.start may take a
\* reader back to its first state.
Silent ==
  /\ UNCHANGED <<events, seq, bytes>>
  /\ \A p \in Procs, i \in Streams :
       reader'[p][i] = "publish" => reader[p][i] = "publish"

\* A step numbers one line, publishes one line or exit, or does neither.
LEMMA StreamSteps ==
  ASSUME TypeInv, [Next]_vars
  PROVE  \/ Silent
         \/ \E p \in Procs : WaiterPublishes(p)
         \/ \E p \in Procs, i \in Streams : CountLine(p, i) \/ PublishLine(p, i)
<1> USE DEF TypeInv, TypeOK, EMTypeOK, Silent, emVars, streamVars
<1>1. CASE \E h \in Handlers : HandlerStep(h)
  <2> PICK h \in Handlers : HandlerStep(h) BY <1>1
  <2>1. CASE StartRegisters(h) BY <2>1 DEF StartRegisters, StartReaders
  <2> QED
    BY <2>1 DEF HandlerStep, StartStep, SessionOpen, SessionClose, StartChecks,
     StartSpawns, StartFails, StartCounts, StartAbandons, StartWritesStdin,
     StartSupervises, WaitBegins, WaitReceives, WaitGivesUp, KillRequest, InputBegins,
     InputEnds
<1>2. CASE \E p \in Procs : Waiter(p)
  BY <1>2 DEF Waiter, WaiterReaps, WaiterCaptures, WaiterRemoves, WaiterDiscounts
<1>3. CASE \E p \in Procs : Timer(p) \/ DeadlinePasses(p) \/ Child(p)
  BY <1>3 DEF Timer, TimerMarks, TimerKills, DeadlinePasses, Child, ChildExits,
     ContextKill, ChildWrites
<1>4. CASE \E p \in Procs, i \in Streams : Reader(p, i)
  BY SMTT(30), <1>4 DEF Reader, ReadPipe, OverflowKills, OverflowFlags, ReaderStops, SetReader
<1>5. CASE UNCHANGED vars BY <1>5 DEF vars
<1> QED BY <1>1, <1>2, <1>3, <1>4, <1>5 DEF Next, ProcessStep

\* What a notification says does not change, and none is withdrawn.
LEMMA EventsGrow ==
  ASSUME TypeInv, [Next]_vars, NEW p \in Procs
  PROVE  /\ Len(events[p]) <= Len(events'[p])
         /\ \A n \in 1..Len(events[p]) : events'[p][n] = events[p][n]
<1> USE DEF TypeInv, TypeOK, EMTypeOK
<1>1. CASE Silent BY <1>1 DEF Silent
<1>2. CASE \E q \in Procs : WaiterPublishes(q) BY <1>2 DEF WaiterPublishes
<1>3. CASE \E q \in Procs, i \in Streams : CountLine(q, i) BY <1>3 DEF CountLine
<1>4. CASE \E q \in Procs, i \in Streams : PublishLine(q, i) BY <1>4 DEF PublishLine
<1> QED BY <1>1, <1>2, <1>3, <1>4, StreamSteps

-----------------------------------------------------------------------------
(* The registry.  A process is registered from the end of exec.start until *)
(* its waiter has announced its exit.                                      *)

RegisteredWhileWatched ==
  \A p \in Procs :
    waiter[p] \in {"wait", "capture", "publish", "remove"} => p \in registry

RegisteredByStart ==
  \A h \in Handlers : pc[h] \in {"stdin", "arm"} => hproc[h] \in registry

StatusBeforeAnnouncement == \A p \in Procs : Captured(p) => exitCh[p] # "empty"

AnnouncedBeforeRemoval ==
  \A p \in Procs : waiter[p] \in {"remove", "dec", "done"} => ExitPublished(p)

GoneInv ==
  /\ RegisteredWhileWatched /\ RegisteredByStart
  /\ StatusBeforeAnnouncement /\ AnnouncedBeforeRemoval

\* The part of it about the registry and the exit status.
WatchInv == RegisteredWhileWatched /\ RegisteredByStart /\ StatusBeforeAnnouncement

\* A handler registers a child before it hands it to the waiter.
LEMMA WatchHandler ==
  ASSUME TypeInv, Ownership, WatchInv, NEW h \in Handlers, HandlerStep(h)
  PROVE  WatchInv'
<1> USE DEF TypeInv, TypeOK, EMTypeOK, ServiceTypeOK, HandlerOK, ProcPcs, Ownership,
        StartsOwn, InStart, WatchInv, RegisteredWhileWatched, RegisteredByStart,
        StatusBeforeAnnouncement, Captured, emVars, hVars, pVars, Goto, Respond
<1>1. CASE StartRegisters(h) BY <1>1 DEF StartRegisters, Register
<1>2. CASE StartSupervises(h) BY <1>2 DEF StartSupervises
<1>3. CASE WaitReceives(h) BY <1>3 DEF WaitReceives
<1>4. CASE \E p \in Procs : StartSpawns(h, p) BY <1>4 DEF StartSpawns
<1>5. CASE \E p \in Procs : WaitBegins(h, p) \/ InputBegins(h, p)
  <2> PICK p \in Procs : WaitBegins(h, p) \/ InputBegins(h, p) BY <1>5
  <2>1. UNCHANGED <<registry, waiter, exitCh>> BY DEF WaitBegins, InputBegins
  <2>2. \A g \in Handlers :
          pc'[g] \in {"stdin", "arm"} => pc[g] = pc'[g] /\ hproc'[g] = hproc[g]
    BY DEF WaitBegins, InputBegins
  <2> QED BY <2>1, <2>2
<1>8. CASE \E p \in Procs : KillRequest(h, p) BY <1>8 DEF KillRequest
<1>6. CASE StartFails(h) \/ StartCounts(h) \/ StartAbandons(h) \/ StartWritesStdin(h)
           \/ WaitGivesUp(h) \/ InputEnds(h)
  BY <1>6 DEF StartFails, StartCounts, StartAbandons, StartWritesStdin, WaitGivesUp,
     InputEnds
<1>7. CASE \E s \in Sessions : SessionOpen(h, s) \/ SessionClose(h, s) \/ StartChecks(h, s)
  BY <1>7 DEF SessionOpen, SessionClose, StartChecks
<1> QED BY <1>1, <1>2, <1>3, <1>4, <1>5, <1>6, <1>7, <1>8 DEF HandlerStep, StartStep

\* The waiter announces, then removes; no request that starts a child has the
\* one that is removed.
LEMMA WatchWaiter ==
  ASSUME TypeInv, Ownership, WatchInv, NEW p \in Procs, Waiter(p)
  PROVE  WatchInv'
<1> USE DEF TypeInv, TypeOK, EMTypeOK, ServiceTypeOK, HandlerOK, ProcPcs, Ownership,
        StartsOwn, InStart, WatchInv, RegisteredWhileWatched, RegisteredByStart,
        StatusBeforeAnnouncement, Captured, emVars, hVars, pVars, WaiterGoto
<1>1. CASE WaiterReaps(p) BY <1>1 DEF WaiterReaps
<1>2. CASE WaiterCaptures(p) BY <1>2 DEF WaiterCaptures
<1>3. CASE WaiterPublishes(p) BY <1>3 DEF WaiterPublishes
<1>4. CASE WaiterRemoves(p) BY <1>4 DEF WaiterRemoves, Unregister
<1>5. CASE WaiterDiscounts(p) BY <1>5 DEF WaiterDiscounts
<1> QED BY <1>1, <1>2, <1>3, <1>4, <1>5 DEF Waiter

\* An exit that was announced stays announced.
LEMMA AnnouncedForGood ==
  ASSUME TypeInv, [Next]_vars, NEW p \in Procs, ExitPublished(p)
  PROVE  ExitPublished(p)'
<1>1. PICK n \in 1..Len(events[p]) : events[p][n] = ExitEvent BY DEF ExitPublished
<1>2. events'[p][n] = ExitEvent /\ Len(events[p]) <= Len(events'[p])
  BY <1>1, EventsGrow
<1>3. Len(events[p]) \in Nat /\ Len(events'[p]) \in Nat
  BY TypeNext DEF TypeInv, TypeOK, EMTypeOK
<1>4. n \in 1..Len(events'[p]) BY <1>2, <1>3
<1> QED BY <1>2, <1>4 DEF ExitPublished, ExitEvent

\* Every step keeps the registry true to what was announced.
LEMMA GoneNext == TypeInv /\ Ownership /\ GoneInv /\ [Next]_vars => GoneInv'
<1> SUFFICES ASSUME TypeInv, Ownership, GoneInv, [Next]_vars PROVE GoneInv'
  OBVIOUS
<1>0. WatchInv BY DEF WatchInv, GoneInv
<1>1. WatchInv'
  <2>1. CASE \E h \in Handlers : HandlerStep(h) BY <1>0, <2>1, WatchHandler
  <2>2. CASE \E p \in Procs : Waiter(p) BY <1>0, <2>2, WatchWaiter
  <2>3. CASE UNCHANGED <<registry, hVars, pVars>>
    BY <1>0, <2>3 DEF WatchInv, RegisteredWhileWatched, RegisteredByStart,
       StatusBeforeAnnouncement, Captured, hVars, pVars
  <2>4. ASSUME NEW p \in Procs,
               Timer(p) \/ DeadlinePasses(p) \/ Child(p) \/ \E i \in Streams : Reader(p, i)
        PROVE  UNCHANGED registry
    BY <2>4 DEF Timer, TimerMarks, TimerKills, DeadlinePasses, Child, ChildExits,
       ContextKill, ChildWrites, Reader, ReadPipe, CountLine, PublishLine,
       OverflowKills, OverflowFlags, ReaderStops
  <2> QED BY <2>1, <2>2, <2>3, <2>4 DEF Next, ProcessStep, vars, emVars
<1>2. AnnouncedBeforeRemoval'
  <2> SUFFICES ASSUME NEW p \in Procs, waiter'[p] \in {"remove", "dec", "done"}
               PROVE  ExitPublished(p)'
    BY DEF AnnouncedBeforeRemoval
  <2>1. CASE waiter[p] \in {"remove", "dec", "done"}
    BY <2>1, AnnouncedForGood DEF GoneInv, AnnouncedBeforeRemoval
  <2>2. CASE WaiterPublishes(p)
    <3>1. events'[p] = Append(events[p], ExitEvent) /\ events[p] \in Seq(Event)
      BY <2>2 DEF WaiterPublishes, TypeInv, TypeOK, EMTypeOK
    <3>2. /\ Len(events'[p]) \in 1..Len(events'[p])
          /\ events'[p][Len(events'[p])] = ExitEvent
      BY <3>1 DEF Event
    <3> QED BY <3>2 DEF ExitPublished, ExitEvent
  <2>3. waiter[p] \in {"remove", "dec", "done"} \/ WaiterPublishes(p)
    <3> USE DEF TypeInv, TypeOK, ServiceTypeOK, pVars
    <3>1. CASE UNCHANGED pVars BY <3>1
    <3>2. CASE \E q \in Procs : Waiter(q)
      BY <3>2 DEF Waiter, WaiterReaps, WaiterCaptures, WaiterPublishes, WaiterRemoves,
         WaiterDiscounts, WaiterGoto
    <3>3. CASE \E h \in Handlers : HandlerStep(h)
      BY <3>3 DEF HandlerStep, StartStep, SessionOpen, SessionClose, StartChecks,
         StartSpawns, StartFails, StartCounts, StartAbandons, StartRegisters,
         StartWritesStdin, StartSupervises, WaitBegins, WaitReceives, WaitGivesUp,
         KillRequest, InputBegins, InputEnds
    <3> QED BY <3>1, <3>2, <3>3 DEF Next, ProcessStep, vars
  <2> QED BY <2>1, <2>2, <2>3
<1> QED BY <1>1, <1>2 DEF WatchInv, GoneInv

\* At the start nothing is registered or announced.
LEMMA GoneInit == Init => GoneInv
BY DEF Init, GoneInv, RegisteredWhileWatched, RegisteredByStart, StatusBeforeAnnouncement,
       AnnouncedBeforeRemoval, Captured

\* "process not found" for a process that was started means that its exit has
\* been announced and its status handed over.
THEOREM GoneIsAnnounced == Spec => []GoneMeansAnnounced
<1> DEFINE Inv == TypeInv /\ Ownership /\ GoneInv
<1>1. Inv => GoneMeansAnnounced
  BY DEF TypeInv, TypeOK, ServiceTypeOK, GoneInv, RegisteredWhileWatched,
     StatusBeforeAnnouncement, AnnouncedBeforeRemoval, Captured, GoneMeansAnnounced
<1>2. Init => Inv BY GoneInit, TypeInit, OwnershipInit
<1>3. Inv /\ [Next]_vars => Inv' BY TypeNext, OwnershipNext, GoneNext
<1> QED BY <1>1, <1>2, <1>3, PTL DEF Spec

-----------------------------------------------------------------------------
(* Who looks after a child.  What the reason for NoStrayChild rests on: the *)
(* deadline goroutine ends only with its child, the deadline is set before  *)
(* the child is handed to its waiter, and a child that is registered and    *)
(* has no waiter yet has the request that starts it.                        *)

TimerOutlivesChild == \A p \in Procs : timer[p] = "done" => os[p] # "running"

TimedWhileWatched ==
  \A p \in Procs : waiter[p] # "off" => timer[p] # "off" /\ deadline[p] # "none"

ArmedByStart ==
  \A h \in Handlers : pc[h] \in {"stdin", "arm"} => deadline[hproc[h]] # "none"

Handing(p) == \E h \in Handlers : pc[h] \in {"stdin", "arm"} /\ hproc[h] = p

HandedOver == \A p \in registry : waiter[p] = "off" => Handing(p)

CareInv == TimerOutlivesChild /\ TimedWhileWatched /\ ArmedByStart /\ HandedOver

\* Together with the invariants above it says that no child is stray.
LEMMA CareSuffices ==
  ASSUME TypeInv, Ownership, TimeInv, RegisteredWhileWatched, CareInv
  PROVE  NoStrayChild
<1> SUFFICES ASSUME NEW p \in Procs, os[p] = "running", ~Starting(p)
             PROVE  \/ Supervised(p)
                    \/ owner[p] \notin sessions /\ p \notin registry /\ waiter[p] = "off"
  BY DEF NoStrayChild
<1>1. waiter[p] \in {"off", "wait"} BY DEF Ownership, ReapedByWaiter
<1>2. CASE waiter[p] = "wait"
  <2>1. p \in registry BY <1>2 DEF RegisteredWhileWatched
  <2>2. deadline[p] \in {"armed", "expired"}
    BY <1>2 DEF TypeInv, TypeOK, EMTypeOK, CareInv, TimedWhileWatched, TimeInv, MarksAreReal,
       Captured
  <2>3. timer[p] \in {"waiting", "kill"}
    BY <1>2 DEF TypeInv, TypeOK, EMTypeOK, CareInv, TimedWhileWatched, TimerOutlivesChild
  <2> QED BY <1>2, <2>1, <2>2, <2>3 DEF Supervised
<1>3. CASE waiter[p] = "off"
  <2>1. owner[p] \notin sessions
    BY <1>3 DEF Ownership, SomebodyInCharge, InCharge, InStart, Starting
  <2>2. p \notin registry BY <1>3 DEF CareInv, HandedOver, Handing, Starting
  <2> QED BY <1>3, <2>1, <2>2
<1> QED BY <1>1, <1>2, <1>3

\* At the start there is no child.
LEMMA CareInit == Init => CareInv
BY DEF Init, EMInit, CareInv, TimerOutlivesChild, TimedWhileWatched, ArmedByStart, HandedOver

\* A step that starts and hands over no child, and no handler leaves one.
KeepsCare ==
  /\ OnlyEnds
  /\ \A p \in Procs : timer'[p] = "done" => timer[p] = "done" \/ os'[p] # "running"
  /\ \A p \in Procs : timer'[p] = "off" => timer[p] = "off"
  /\ \A p \in Procs : deadline'[p] = "none" => deadline[p] = "none"
  /\ \A p \in Procs : waiter'[p] = "off" <=> waiter[p] = "off"
  /\ registry' \subseteq registry
  /\ \A h \in Handlers :
       /\ pc'[h] \in {"stdin", "arm"} <=> pc[h] \in {"stdin", "arm"}
       /\ pc[h] \in {"stdin", "arm"} => hproc'[h] = hproc[h]

\* Such a step leaves everybody with what he has in his care.
LEMMA CareKept ==
  ASSUME TypeInv, CareInv, KeepsCare
  PROVE  CareInv'
<1> USE DEF CareInv, KeepsCare
<1>1. TimerOutlivesChild' BY DEF TimerOutlivesChild, OnlyEnds
<1>2. TimedWhileWatched' BY DEF TimedWhileWatched
<1>3. ArmedByStart'
  BY DEF ArmedByStart, TypeInv, HandlerOK, ProcPcs
<1>4. HandedOver'
  <2> SUFFICES ASSUME NEW p \in registry', waiter'[p] = "off"
               PROVE  Handing(p)'
    BY DEF HandedOver
  <2>1. p \in registry /\ p \in Procs BY DEF TypeInv, TypeOK, EMTypeOK
  <2>2. Handing(p) BY <2>1 DEF HandedOver
  <2> QED BY <2>2 DEF Handing
<1> QED BY <1>1, <1>2, <1>3, <1>4

\* The waiter takes a child over from nobody.
LEMMA CareWaiter ==
  ASSUME TypeInv, Ownership, CareInv, NEW p \in Procs, Waiter(p)
  PROVE  CareInv'
<1> USE DEF TypeInv, TypeOK, EMTypeOK, ServiceTypeOK, HandlerOK, ProcPcs, Ownership,
        StartsOwn, InStart, CareInv, TimerOutlivesChild, TimedWhileWatched, ArmedByStart,
        HandedOver, Handing, emVars, osVars, clockVars, hVars, WaiterGoto
<1>1. CASE WaiterReaps(p) BY <1>1 DEF WaiterReaps
<1>2. CASE WaiterCaptures(p) BY <1>2 DEF WaiterCaptures, CaptureState
<1>3. CASE WaiterPublishes(p) BY <1>3 DEF WaiterPublishes
<1>4. CASE WaiterRemoves(p) BY <1>4 DEF WaiterRemoves, Unregister
<1>5. CASE WaiterDiscounts(p) BY <1>5 DEF WaiterDiscounts
<1> QED BY <1>1, <1>2, <1>3, <1>4, <1>5 DEF Waiter

\* The deadline goroutine leaves its child when it has killed it; the child,
\* its deadline and its readers leave nobody.
LEMMA CareProcess ==
  ASSUME TypeInv, CareInv, NEW p \in Procs, UNCHANGED <<smVars, hVars, pVars>>,
         Timer(p) \/ DeadlinePasses(p) \/ Child(p) \/ \E i \in Streams : Reader(p, i)
  PROVE  CareInv'
<1> USE DEF TypeInv, TypeOK, EMTypeOK
<1>1. OnlyEnds BY QuietSteps
<1>2. UNCHANGED <<registry, hVars, pVars>>
  BY DEF Timer, TimerMarks, TimerKills, DeadlinePasses, Child, ChildExits, ContextKill,
     ChildWrites, Reader, ReadPipe, CountLine, PublishLine, OverflowKills, OverflowFlags,
     ReaderStops
<1>3. /\ \A q \in Procs : timer'[q] = "done" => timer[q] = "done" \/ os'[q] # "running"
      /\ \A q \in Procs : timer'[q] = "off" => timer[q] = "off"
      /\ \A q \in Procs : deadline'[q] = "none" => deadline[q] = "none"
  <2>1. CASE TimerKills(p)
    <3>1. os'[p] # "running" BY <2>1 DEF TimerKills, Kill, osVars
    <3>2. UNCHANGED deadline /\ timer' = [timer EXCEPT ![p] = "done"]
      BY <2>1 DEF TimerKills
    <3> QED BY <3>1, <3>2
  <2>2. CASE TimerMarks(p) BY <2>2 DEF TimerMarks
  <2>3. CASE DeadlinePasses(p) BY <2>3 DEF DeadlinePasses
  <2>4. CASE Child(p) \/ \E i \in Streams : Reader(p, i)
    <3>1. UNCHANGED clockVars
      BY <2>4 DEF Child, ChildExits, ContextKill, ChildWrites, Reader, ReadPipe, CountLine,
         PublishLine, OverflowKills, OverflowFlags, ReaderStops
    <3> QED BY <3>1 DEF clockVars
  <2> QED BY <2>1, <2>2, <2>3, <2>4 DEF Timer
<1>4. KeepsCare BY <1>1, <1>2, <1>3 DEF KeepsCare, hVars, pVars
<1> QED BY <1>4, CareKept

\* exec.start registers its child with a deadline and hands it over with the
\* deadline goroutine.
LEMMA CareHandler ==
  ASSUME TypeInv, Ownership, TimeInv, CareInv, NEW h \in Handlers, HandlerStep(h)
  PROVE  CareInv'
<1> USE DEF TypeInv, TypeOK, EMTypeOK, ServiceTypeOK, HandlerOK, ProcPcs,
        emVars, osVars, clockVars, hVars, pVars, Goto, Respond
<1>1. CASE \E p \in Procs : StartSpawns(h, p)
  <2> PICK p \in Procs : StartSpawns(h, p) BY <1>1
  <2>1. os[p] = "none" /\ os' = [os EXCEPT ![p] = "running"]
    BY DEF StartSpawns, Spawn
  <2>2. timer[p] = "off" BY <2>1 DEF TimeInv, FreshAtFirst, Fresh, Unregistered
  <2>3. UNCHANGED <<registry, deadline, timer, waiter>> BY DEF StartSpawns
  <2>4. \A g \in Handlers :
          /\ pc'[g] \in {"stdin", "arm"} <=> pc[g] \in {"stdin", "arm"}
          /\ pc[g] \in {"stdin", "arm"} => hproc'[g] = hproc[g]
    BY DEF StartSpawns
  <2>5. TimerOutlivesChild' BY <2>1, <2>2, <2>3 DEF CareInv, TimerOutlivesChild
  <2>6. TimedWhileWatched' BY <2>3 DEF CareInv, TimedWhileWatched
  <2>7. ArmedByStart' BY <2>3, <2>4 DEF CareInv, ArmedByStart
  <2>8. HandedOver'
    <3> SUFFICES ASSUME NEW q \in registry, waiter[q] = "off" PROVE Handing(q)'
      BY <2>3 DEF HandedOver
    <3>1. Handing(q) BY DEF CareInv, HandedOver
    <3> QED BY <2>4, <3>1 DEF Handing
  <2> QED BY <2>5, <2>6, <2>7, <2>8 DEF CareInv
<1>2. CASE StartRegisters(h)
  <2>1. pc[h] = "add" /\ hproc[h] \in Procs BY <1>2 DEF StartRegisters
  <2>2. /\ registry' = registry \cup {hproc[h]}
        /\ deadline' = [deadline EXCEPT ![hproc[h]] = "armed"]
        /\ UNCHANGED <<os, timer, waiter, hproc>>
    BY <1>2 DEF StartRegisters, Register
  <2>3. /\ pc'[h] \in {"stdin", "arm"}
        /\ \A g \in Handlers \ {h} : pc'[g] = pc[g]
    BY <1>2 DEF StartRegisters
  <2>4. TimerOutlivesChild' BY <2>2 DEF CareInv, TimerOutlivesChild
  <2>5. TimedWhileWatched' BY <2>2 DEF CareInv, TimedWhileWatched
  <2>6. ArmedByStart' BY <2>1, <2>2, <2>3 DEF CareInv, ArmedByStart
  <2>7. HandedOver'
    <3> SUFFICES ASSUME NEW q \in registry', waiter[q] = "off" PROVE Handing(q)'
      BY <2>2 DEF HandedOver
    <3>1. CASE q = hproc[h] BY <2>2, <2>3, <3>1 DEF Handing
    <3>2. CASE q # hproc[h]
      <4>1. Handing(q) BY <2>2, <3>2 DEF CareInv, HandedOver
      <4>2. PICK g \in Handlers : pc[g] \in {"stdin", "arm"} /\ hproc[g] = q
        BY <4>1 DEF Handing
      <4> QED BY <2>1, <2>2, <2>3, <4>2 DEF Handing
    <3> QED BY <3>1, <3>2
  <2> QED BY <2>4, <2>5, <2>6, <2>7 DEF CareInv
<1>3. CASE StartSupervises(h)
  <2>1. pc[h] = "arm" /\ hproc[h] \in Procs BY <1>3 DEF StartSupervises
  <2>2. /\ timer' = [timer EXCEPT ![hproc[h]] = "waiting"]
        /\ waiter' = [waiter EXCEPT ![hproc[h]] = "wait"]
        /\ UNCHANGED <<os, registry, deadline>>
    BY <1>3 DEF StartSupervises
  <2>3. /\ pc'[h] = "idle"
        /\ \A g \in Handlers \ {h} : pc'[g] = pc[g] /\ hproc'[g] = hproc[g]
    BY <1>3 DEF StartSupervises
  <2>4. TimerOutlivesChild' BY <2>1, <2>2 DEF CareInv, TimerOutlivesChild
  <2>5. TimedWhileWatched'
    BY <2>1, <2>2 DEF CareInv, TimedWhileWatched, ArmedByStart
  <2>6. ArmedByStart'
    <3> SUFFICES ASSUME NEW g \in Handlers, pc'[g] \in {"stdin", "arm"}
                 PROVE  deadline[hproc'[g]] # "none"
      BY <2>2 DEF ArmedByStart
    <3>1. g # h BY <2>3
    <3>2. pc[g] \in {"stdin", "arm"} /\ hproc'[g] = hproc[g] BY <2>3, <3>1
    <3> QED BY <3>2 DEF CareInv, ArmedByStart
  <2>7. HandedOver'
    <3> SUFFICES ASSUME NEW q \in registry, waiter'[q] = "off" PROVE Handing(q)'
      BY <2>2 DEF HandedOver
    <3>1. q # hproc[h] /\ waiter[q] = "off" BY <2>1, <2>2
    <3>2. Handing(q) BY <3>1 DEF CareInv, HandedOver
    <3>3. PICK g \in Handlers : pc[g] \in {"stdin", "arm"} /\ hproc[g] = q
      BY <3>2 DEF Handing
    <3> QED BY <2>3, <3>1, <3>3 DEF Handing
  <2> QED BY <2>4, <2>5, <2>6, <2>7 DEF CareInv
<1>4. CASE \E s \in Sessions : SessionOpen(h, s)
  BY <1>4 DEF SessionOpen, CareInv, TimerOutlivesChild, TimedWhileWatched, ArmedByStart,
     HandedOver, Handing
<1>5. CASE StartAbandons(h)
  <2>1. pc[h] = "inc" /\ UNCHANGED <<os, registry, deadline, timer, waiter>>
    BY <1>5 DEF StartAbandons
  <2>2. \A g \in Handlers :
          /\ pc'[g] \in {"stdin", "arm"} <=> pc[g] \in {"stdin", "arm"}
          /\ pc[g] \in {"stdin", "arm"} => hproc'[g] = hproc[g]
    BY <1>5, <2>1 DEF StartAbandons
  <2> QED BY <2>1, <2>2, CareKept DEF KeepsCare, OnlyEnds
<1>6. CASE \/ \E s \in Sessions : SessionClose(h, s) \/ StartChecks(h, s)
           \/ StartFails(h) \/ StartCounts(h) \/ StartWritesStdin(h)
           \/ \E p \in Procs : WaitBegins(h, p) \/ KillRequest(h, p) \/ InputBegins(h, p)
           \/ WaitReceives(h) \/ WaitGivesUp(h) \/ InputEnds(h)
  <2>1. OnlyEnds BY <1>6, HandlerKeepsStarts DEF KeepsStarts
  <2>2. UNCHANGED <<registry, deadline, timer, waiter>>
    BY <1>6 DEF SessionClose, StartChecks, StartFails, StartCounts, StartWritesStdin,
       WaitBegins, KillRequest, InputBegins, WaitReceives, WaitGivesUp, InputEnds
  <2>3. \A g \in Handlers :
          /\ pc'[g] \in {"stdin", "arm"} <=> pc[g] \in {"stdin", "arm"}
          /\ pc[g] \in {"stdin", "arm"} => hproc'[g] = hproc[g]
    BY <1>6 DEF SessionClose, StartChecks, StartFails, StartCounts, StartWritesStdin,
       WaitBegins, KillRequest, InputBegins, WaitReceives, WaitGivesUp, InputEnds
  <2> QED BY <2>1, <2>2, <2>3, CareKept DEF KeepsCare
<1> QED BY <1>1, <1>2, <1>3, <1>4, <1>5, <1>6 DEF HandlerStep, StartStep

\* Every step leaves every child in somebody's care.
LEMMA CareNext ==
  TypeInv /\ Ownership /\ TimeInv /\ CareInv /\ [Next]_vars => CareInv'
<1> SUFFICES ASSUME TypeInv, Ownership, TimeInv, CareInv, [Next]_vars PROVE CareInv'
  OBVIOUS
<1>1. CASE \E h \in Handlers : HandlerStep(h) BY <1>1, CareHandler
<1>2. CASE \E p \in Procs : ProcessStep(p)
  BY <1>2, CareWaiter, CareProcess DEF ProcessStep
<1>3. CASE UNCHANGED vars
  BY <1>3 DEF vars, emVars, osVars, clockVars, hVars, pVars, CareInv, TimerOutlivesChild,
     TimedWhileWatched, ArmedByStart, HandedOver, Handing
<1> QED BY <1>1, <1>2, <1>3 DEF Next

\* A child that runs is being started, or is registered with a waiter and a
\* deadline that will end it, or was refused its slot by IncProcess.
THEOREM NoChildIsStray == Spec => []NoStrayChild
<1> DEFINE Inv == TypeInv /\ Ownership /\ TimeInv /\ GoneInv /\ CareInv
<1>1. Inv => NoStrayChild BY CareSuffices DEF GoneInv
<1>2. Init => Inv BY GoneInit, CareInit, TypeInit, OwnershipInit, TimeInit
<1>3. Inv /\ [Next]_vars => Inv' BY TypeNext, OwnershipNext, TimeNext, GoneNext, CareNext
<1> QED BY <1>1, <1>2, <1>3, PTL DEF Spec

-----------------------------------------------------------------------------
(* Sequence numbers.  A number is drawn before its line is published, and  *)
(* the goroutine that drew it publishes it before it draws the next.       *)

SeqIsDrawn ==
  \A p \in Procs, i \in Streams : \A n \in 1..Len(events[p]) :
    events[p][n].stream = i =>
      /\ events[p][n].seq <= seq[p][i]
      /\ reader[p][i] = "publish" => events[p][n].seq < seq[p][i]

SeqInv == SeqIsDrawn /\ SeqIsStrict

\* Every step keeps the numbers in order.
LEMMA SeqNext == TypeInv /\ TypeInv' /\ SeqInv /\ [Next]_vars => SeqInv'
<1> SUFFICES ASSUME TypeInv, TypeInv', SeqInv, [Next]_vars PROVE SeqInv'
  OBVIOUS
<1>a. /\ events \in [Procs -> Seq(Event)] /\ seq \in [Procs -> [Streams -> Nat]]
      /\ reader \in [Procs ->
           [Streams -> {"off", "scan", "publish", "overflow", "flag", "done"}]]
      /\ seq' \in [Procs -> [Streams -> Nat]]
  BY DEF TypeInv, TypeOK, EMTypeOK
<1>b. SeqIsDrawn /\ SeqIsStrict BY DEF SeqInv
<1>1. CASE Silent
  <2>1. SeqIsDrawn' BY <1>1, <1>b DEF Silent, SeqIsDrawn
  <2>2. SeqIsStrict' BY <1>1, <1>b DEF Silent, SeqIsStrict
  <2> QED BY <2>1, <2>2 DEF SeqInv
<1>2. CASE \E p \in Procs : WaiterPublishes(p)
  <2> PICK p \in Procs : WaiterPublishes(p) BY <1>2
  <2>1. UNCHANGED <<seq, reader>> BY DEF WaiterPublishes, streamVars
  <2>2. /\ events' = [events EXCEPT ![p] = Append(@, ExitEvent)]
        /\ ExitEvent.stream \notin Streams
    BY ProcsAssumption DEF WaiterPublishes, ExitEvent
  <2>3. SeqIsDrawn' BY <1>a, <1>b, <2>1, <2>2 DEF SeqIsDrawn
  <2>4. SeqIsStrict' BY <1>a, <1>b, <2>2 DEF SeqIsStrict
  <2> QED BY <2>3, <2>4 DEF SeqInv
<1>3. CASE \E p \in Procs, i \in Streams : CountLine(p, i)
  <2> PICK p \in Procs, i \in Streams : CountLine(p, i) BY <1>3
  <2>1. UNCHANGED events BY DEF CountLine
  <2>2. seq' = [seq EXCEPT ![p][i] = @ + 1] BY DEF CountLine
  <2>3. \A q \in Procs, j \in Streams :
          seq'[q][j] = IF q = p /\ j = i THEN seq[p][i] + 1 ELSE seq[q][j]
    BY <1>a, <2>2
  <2>4. \A q \in Procs, j \in Streams :
          reader'[q][j] = "publish" => reader[q][j] = "publish" \/ (q = p /\ j = i)
    <3>1. \/ reader' = [reader EXCEPT ![p][i] = "overflow"]
          \/ reader' = [reader EXCEPT ![p][i] = "publish"]
      BY DEF CountLine, SetReader
    <3> QED BY <1>a, <3>1
  <2>5. SeqIsDrawn'
    <3> SUFFICES ASSUME NEW q \in Procs, NEW j \in Streams,
                        NEW n \in 1..Len(events[q]), events[q][n].stream = j
                 PROVE  /\ events[q][n].seq <= seq'[q][j]
                        /\ reader'[q][j] = "publish" => events[q][n].seq < seq'[q][j]
      BY <2>1 DEF SeqIsDrawn
    <3>1. events[q][n].seq \in Nat BY <1>a DEF Event, ExitEvent
    <3>2. seq[q][j] \in Nat BY <1>a
    <3>3. /\ events[q][n].seq <= seq[q][j]
          /\ reader[q][j] = "publish" => events[q][n].seq < seq[q][j]
      BY <1>b DEF SeqIsDrawn
    <3> QED BY <2>3, <2>4, <3>1, <3>2, <3>3
  <2>6. SeqIsStrict' BY <1>b, <2>1 DEF SeqIsStrict
  <2> QED BY <2>5, <2>6 DEF SeqInv
<1>4. CASE \E p \in Procs, i \in Streams : PublishLine(p, i)
  <2> PICK p \in Procs, i \in Streams : PublishLine(p, i) BY <1>4
  <2> DEFINE e == [stream |-> i, seq |-> seq[p][i]]
  <2>1. reader[p][i] = "publish" /\ UNCHANGED seq BY DEF PublishLine, SetReader
  <2>2. events' = [events EXCEPT ![p] = Append(@, e)] BY DEF PublishLine
  <2>3. /\ reader'[p][i] # "publish"
        /\ \A q \in Procs, j \in Streams :
             reader'[q][j] = "publish" => reader[q][j] = "publish"
    BY <1>a DEF PublishLine, SetReader
  <2>4. \A q \in Procs : \A n \in 1..Len(events'[q]) :
          \/ n \in 1..Len(events[q]) /\ events'[q][n] = events[q][n]
          \/ q = p /\ n = Len(events[p]) + 1 /\ events'[q][n] = e
    BY <1>a, <2>2
  <2>5. \A n \in 1..Len(events[p]) :
          events[p][n].stream = i => events[p][n].seq < e.seq
    BY <1>b, <2>1 DEF SeqIsDrawn
  <2>6. e.stream = i /\ e.seq = seq[p][i] /\ seq[p][i] \in Nat BY <1>a
  <2> HIDE DEF e
  <2>7. SeqIsDrawn'
    <3> SUFFICES ASSUME NEW q \in Procs, NEW j \in Streams,
                        NEW n \in 1..Len(events'[q]), events'[q][n].stream = j
                 PROVE  /\ events'[q][n].seq <= seq[q][j]
                        /\ reader'[q][j] = "publish" => events'[q][n].seq < seq[q][j]
      BY <2>1 DEF SeqIsDrawn
    <3>1. CASE n \in 1..Len(events[q]) /\ events'[q][n] = events[q][n]
      BY <1>b, <2>3, <3>1 DEF SeqIsDrawn
    <3>2. CASE q = p /\ n = Len(events[p]) + 1 /\ events'[q][n] = e
      BY <2>3, <2>6, <3>2
    <3> QED BY <2>4, <3>1, <3>2
  <2>8. SeqIsStrict'
    <3> SUFFICES ASSUME NEW q \in Procs, NEW j \in Streams,
                        NEW m \in 1..Len(events'[q]), NEW n \in 1..Len(events'[q]),
                        m < n, events'[q][m].stream = j, events'[q][n].stream = j
                 PROVE  events'[q][m].seq < events'[q][n].seq
      BY DEF SeqIsStrict
    <3>1. m \in 1..Len(events[q]) /\ events'[q][m] = events[q][m]
      <4>1. Len(events'[q]) \in Nat /\ Len(events[q]) \in Nat BY <1>a, <2>2
      <4>2. Len(events'[q]) <= Len(events[q]) + 1 BY <1>a, <2>2
      <4> QED BY <4>1, <4>2, <2>4
    <3>2. CASE n \in 1..Len(events[q]) /\ events'[q][n] = events[q][n]
      BY <1>b, <3>1, <3>2 DEF SeqIsStrict
    <3>3. CASE q = p /\ events'[q][n] = e
      BY <2>5, <2>6, <3>1, <3>3
    <3> QED BY <2>4, <3>2, <3>3
  <2> QED BY <2>7, <2>8 DEF SeqInv
<1> QED BY <1>1, <1>2, <1>3, <1>4, StreamSteps

\* The notifications of one stream are published in the order of their numbers
\* and no number is used twice.
THEOREM SeqStrictlyRises == Spec => []SeqIsStrict
<1> DEFINE Inv == TypeInv /\ SeqInv
<1>1. Inv => SeqIsStrict BY DEF SeqInv
<1>2. Init => Inv
  <2>1. Init => SeqInv BY DEF Init, EMInit, SeqInv, SeqIsDrawn, SeqIsStrict
  <2> QED BY <2>1, TypeInit
<1>3. Inv /\ [Next]_vars => Inv' BY TypeNext, SeqNext
<1> QED BY <1>1, <1>2, <1>3, PTL DEF Spec

-----------------------------------------------------------------------------
(* The output limit.  Every line published, or about to be, was counted    *)
(* below the limit.                                                        *)

Publishing(p) == {i \in Streams : reader[p][i] = "publish"}
Granted(p)    == Cardinality(OutputLines(p)) + Cardinality(Publishing(p))

GrantsAreCounted ==
  \A p \in Procs : /\ Granted(p) <= bytes[p]
                   /\ MaxOutput > 0 => Granted(p) <= MaxOutput

\* The streams are finitely many, and so are their lines.
LEMMA FiniteStreams == IsFiniteSet(Streams)
<1>1. IsFiniteSet({"stdout", "stderr"})
  <2>1. {"stdout", "stderr"} = {"stdout"} \cup {"stderr"} OBVIOUS
  <2>2. IsFiniteSet({"stdout"}) BY FS_Singleton
  <2>3. IsFiniteSet({"stdout"} \cup {"stderr"}) BY <2>2, FS_AddElement
  <2> QED BY <2>1, <2>3
<1> QED BY <1>1, ProcsAssumption, FS_Subset

LinesOf(s)   == {n \in 1..Len(s) : s[n].stream \in Streams}
WritersOf(r) == {i \in Streams : r[i] = "publish"}

\* Both can be counted, whatever the sequence and the readers.
LEMMA FiniteGrants ==
  ASSUME NEW s \in Seq(Event), NEW r
  PROVE  /\ IsFiniteSet(LinesOf(s)) /\ Cardinality(LinesOf(s)) \in Nat
         /\ IsFiniteSet(WritersOf(r)) /\ Cardinality(WritersOf(r)) \in Nat
<1>1. IsFiniteSet(1..Len(s)) BY FS_Interval
<1> QED BY <1>1, FiniteStreams, FS_Subset, FS_CardinalityType DEF LinesOf, WritersOf

\* One more notification is at most one more line.
LEMMA OneMoreLine ==
  ASSUME NEW s \in Seq(Event), NEW e \in Event
  PROVE  LinesOf(Append(s, e)) =
           IF e.stream \in Streams THEN LinesOf(s) \cup {Len(s) + 1} ELSE LinesOf(s)
<1>1. Len(Append(s, e)) = Len(s) + 1 /\ Append(s, e)[Len(s) + 1] = e OBVIOUS
<1>2. \A n \in 1..Len(s) : Append(s, e)[n] = s[n] OBVIOUS
<1>3. 1..(Len(s) + 1) = (1..Len(s)) \cup {Len(s) + 1} BY Len(s) \in Nat
<1> QED BY <1>1, <1>2, <1>3 DEF LinesOf

\* A set grows by one at most when an element is added.
LEMMA AddsAtMostOne ==
  ASSUME NEW S, NEW x, IsFiniteSet(S)
  PROVE  Cardinality(S \cup {x}) <= Cardinality(S) + 1
<1>1. Cardinality(S) \in Nat BY FS_CardinalityType
<1>2. Cardinality(S \cup {x}) = IF x \in S THEN Cardinality(S) ELSE Cardinality(S) + 1
  BY FS_AddElement
<1> QED BY <1>1, <1>2

\* Every step keeps the grants within what was counted and within the limit.
LEMMA GrantsNext ==
  TypeInv /\ TypeInv' /\ GrantsAreCounted /\ [Next]_vars => GrantsAreCounted'
<1> SUFFICES ASSUME TypeInv, TypeInv', GrantsAreCounted, [Next]_vars, NEW q \in Procs
             PROVE  /\ Granted(q)' <= bytes'[q]
                    /\ MaxOutput > 0 => Granted(q)' <= MaxOutput
  BY DEF GrantsAreCounted
<1>a. /\ events \in [Procs -> Seq(Event)] /\ events' \in [Procs -> Seq(Event)]
      /\ bytes \in [Procs -> Nat] /\ bytes' \in [Procs -> Nat]
      /\ seq \in [Procs -> [Streams -> Nat]]
      /\ reader \in [Procs ->
           [Streams -> {"off", "scan", "publish", "overflow", "flag", "done"}]]
  BY DEF TypeInv, TypeOK, EMTypeOK
<1>b. /\ Granted(q) = Cardinality(LinesOf(events[q])) + Cardinality(WritersOf(reader[q]))
      /\ Granted(q)' = Cardinality(LinesOf(events'[q])) + Cardinality(WritersOf(reader'[q]))
  BY DEF Granted, OutputLines, Publishing, LinesOf, WritersOf
<1>c. /\ Granted(q) <= bytes[q]
      /\ MaxOutput > 0 => Granted(q) <= MaxOutput
  BY DEF GrantsAreCounted
<1>d. /\ IsFiniteSet(LinesOf(events[q])) /\ Cardinality(LinesOf(events[q])) \in Nat
      /\ IsFiniteSet(WritersOf(reader[q])) /\ Cardinality(WritersOf(reader[q])) \in Nat
      /\ IsFiniteSet(LinesOf(events'[q])) /\ Cardinality(LinesOf(events'[q])) \in Nat
      /\ IsFiniteSet(WritersOf(reader'[q])) /\ Cardinality(WritersOf(reader'[q])) \in Nat
  BY <1>a, FiniteGrants
<1>e. SUFFICES \/ Granted(q)' <= Granted(q) /\ bytes[q] <= bytes'[q]
               \/ /\ Granted(q)' <= Granted(q) + 1 /\ bytes'[q] = bytes[q] + 1
                  /\ MaxOutput > 0 => bytes[q] + 1 <= MaxOutput
  <2>1. bytes[q] \in Nat /\ bytes'[q] \in Nat BY <1>a
  <2>2. Granted(q) \in Nat /\ Granted(q)' \in Nat BY <1>b, <1>d
  <2> QED BY <1>c, <2>1, <2>2, ProcsAssumption
<1>1. CASE Silent
  <2>1. WritersOf(reader'[q]) \subseteq WritersOf(reader[q])
    BY <1>1 DEF Silent, WritersOf
  <2>2. Cardinality(WritersOf(reader'[q])) <= Cardinality(WritersOf(reader[q]))
    BY <2>1, <1>d, FS_Subset
  <2> QED BY <1>1, <1>a, <1>b, <1>d, <2>2 DEF Silent
<1>2. CASE \E p \in Procs : WaiterPublishes(p)
  <2> PICK p \in Procs : WaiterPublishes(p) BY <1>2
  <2>1. UNCHANGED <<bytes, reader>> BY DEF WaiterPublishes, streamVars
  <2>2. /\ events' = [events EXCEPT ![p] = Append(@, ExitEvent)]
        /\ ExitEvent.stream \notin Streams /\ ExitEvent \in Event
    BY ProcsAssumption DEF WaiterPublishes, ExitEvent, Event
  <2>3. LinesOf(events'[q]) = LinesOf(events[q])
    BY <1>a, <2>2, OneMoreLine
  <2> QED BY <1>a, <1>b, <1>d, <2>1, <2>3
<1>3. CASE \E p \in Procs, i \in Streams : CountLine(p, i)
  <2> PICK p \in Procs, i \in Streams : CountLine(p, i) BY <1>3
  <2>1. CASE q # p
    BY <2>1, <1>a, <1>b, <1>d DEF CountLine, SetReader
  <2>2. CASE q = p
    <3>1. UNCHANGED events /\ bytes'[p] = bytes[p] + 1 BY <1>a DEF CountLine
    <3>2. CASE MaxOutput > 0 /\ bytes[p] + 1 > MaxOutput
      <4>1. reader' = [reader EXCEPT ![p][i] = "overflow"]
        BY <3>2 DEF CountLine, SetReader
      <4>2. WritersOf(reader'[p]) \subseteq WritersOf(reader[p])
        BY <4>1, <1>a DEF WritersOf
      <4>3. Cardinality(WritersOf(reader'[p])) <= Cardinality(WritersOf(reader[p]))
        BY <4>2, <2>2, <1>d, FS_Subset
      <4> QED BY <2>2, <3>1, <4>3, <1>a, <1>b, <1>d
    <3>3. CASE ~(MaxOutput > 0 /\ bytes[p] + 1 > MaxOutput)
      <4>1. reader' = [reader EXCEPT ![p][i] = "publish"]
        BY <3>3 DEF CountLine, SetReader
      <4>2. WritersOf(reader'[p]) = WritersOf(reader[p]) \cup {i}
        BY <4>1, <1>a DEF WritersOf
      <4>3. /\ IsFiniteSet(WritersOf(reader[p]))
            /\ Cardinality(WritersOf(reader[p])) \in Nat
        BY <2>2, <1>d
      <4>4. Cardinality(WritersOf(reader[p]) \cup {i}) <= Cardinality(WritersOf(reader[p])) + 1
        BY <4>3, AddsAtMostOne
      <4>5. Granted(q)' <= Granted(q) + 1
        <5>1. Cardinality(WritersOf(reader'[q])) <= Cardinality(WritersOf(reader[q])) + 1
          BY <2>2, <4>2, <4>4
        <5>2. LinesOf(events'[q]) = LinesOf(events[q]) BY <3>1
        <5> QED BY <5>1, <5>2, <1>b, <1>d
      <4>6. bytes'[q] = bytes[q] + 1 BY <2>2, <3>1
      <4>7. MaxOutput > 0 => bytes[q] + 1 <= MaxOutput
        BY <2>2, <3>3, <1>a, ProcsAssumption
      <4> QED BY <4>5, <4>6, <4>7
    <3> QED BY <3>2, <3>3
  <2> QED BY <2>1, <2>2
<1>4. CASE \E p \in Procs, i \in Streams : PublishLine(p, i)
  <2> PICK p \in Procs, i \in Streams : PublishLine(p, i) BY <1>4
  <2> DEFINE e == [stream |-> i, seq |-> seq[p][i]]
  <2>1. /\ reader[p][i] = "publish" /\ UNCHANGED bytes
        /\ reader' = [reader EXCEPT ![p][i] = "scan"]
        /\ events' = [events EXCEPT ![p] = Append(@, e)]
    BY DEF PublishLine, SetReader
  <2>2. e \in Event /\ e.stream \in Streams BY <1>a DEF Event
  <2> HIDE DEF e
  <2>3. CASE q # p BY <2>1, <2>3, <1>a, <1>b, <1>d
  <2>4. CASE q = p
    <3>1. LinesOf(events'[p]) = LinesOf(events[p]) \cup {Len(events[p]) + 1}
      BY <1>a, <2>1, <2>2, OneMoreLine
    <3>2. Cardinality(LinesOf(events'[p])) <= Cardinality(LinesOf(events[p])) + 1
      <4>1. /\ IsFiniteSet(LinesOf(events[p]))
            /\ Cardinality(LinesOf(events[p])) \in Nat
        BY <2>4, <1>d
      <4> QED BY <3>1, <4>1, AddsAtMostOne
    <3>3. WritersOf(reader'[p]) = WritersOf(reader[p]) \ {i} /\ i \in WritersOf(reader[p])
      BY <2>1, <1>a DEF WritersOf
    <3>4. Cardinality(WritersOf(reader'[p])) = Cardinality(WritersOf(reader[p])) - 1
      BY <2>4, <3>3, <1>d, FS_RemoveElement
    <3> QED BY <2>1, <2>4, <3>2, <3>4, <1>a, <1>b, <1>d
  <2> QED BY <2>3, <2>4
<1> QED BY <1>1, <1>2, <1>3, <1>4, StreamSteps

\* No more lines are published than the output limit allows, whatever the
\* readers of the two streams interleave.
THEOREM OutputCapped == Spec => []OutputIsCapped
<1> DEFINE Inv == TypeInv /\ GrantsAreCounted
<1>1. Inv => OutputIsCapped
  <2> SUFFICES ASSUME TypeInv, GrantsAreCounted, NEW p \in Procs, MaxOutput > 0
               PROVE  Cardinality(OutputLines(p)) <= MaxOutput
    BY DEF OutputIsCapped
  <2>1. events[p] \in Seq(Event) BY DEF TypeInv, TypeOK, EMTypeOK
  <2>2. Cardinality(OutputLines(p)) \in Nat /\ Cardinality(Publishing(p)) \in Nat
    BY <2>1, FiniteGrants DEF OutputLines, Publishing, LinesOf, WritersOf
  <2> QED BY <2>2, ProcsAssumption DEF GrantsAreCounted, Granted
<1>2. Init => Inv
  <2>1. ASSUME Init, NEW p \in Procs PROVE Granted(p) = 0 /\ bytes[p] = 0
    <3>1. OutputLines(p) = {} /\ Publishing(p) = {} /\ bytes[p] = 0
      BY <2>1 DEF Init, EMInit, OutputLines, Publishing
    <3> QED BY <3>1, FS_EmptySet DEF Granted
  <2> QED BY <2>1, TypeInit, ProcsAssumption DEF GrantsAreCounted
<1>3. Inv /\ [Next]_vars => Inv' BY TypeNext, GrantsNext
<1> QED BY <1>1, <1>2, <1>3, PTL DEF Spec
=============================================================================
