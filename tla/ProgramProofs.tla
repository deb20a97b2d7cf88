--------------------------- MODULE ProgramProofs ----------------------------
(***************************************************************************)
(* Theorems about Program, for every value of its constants: what is       *)
(* proved of ExecService holds of the program, and what a terminal and a   *)
(* connection promise.                                                     *)
(***************************************************************************)
EXTENDS ProgramClaims, ExecServiceProofs

-----------------------------------------------------------------------------
(* The program implements ExecService: seen from the sessions and the      *)
(* processes, a step of a transport, a terminal or a client is a stutter.  *)

\* Every step is one of ExecService or leaves its variables alone.
LEMMA StepImplementsExec == [ProgramNext]_allVars => [Next]_vars
<1> SUFFICES ASSUME [ProgramNext]_allVars PROVE [Next]_vars
  OBVIOUS
<1>1. CASE \E h \in Handlers : ExecStep(h) BY <1>1 DEF ExecStep, Next
<1>2. CASE \E h \in Handlers : PtyRequest(h)
  BY <1>2 DEF PtyRequest, PtyOpen, PtyInputBegins, PtyCloseBegins, PtyInputEnds,
     PtyCloseEnds, PtyAnswers
<1>3. CASE \E h \in Handlers : ClientGoes(h) \/ Returns(h) BY <1>3 DEF ClientGoes, Returns
<1>4. CASE \E p \in Procs : CutOffProcess(p)
  BY <1>4 DEF CutOffProcess, Next, ProcessStep, Child
<1>5. CASE \E p \in Procs : Supervision(p)
  BY <1>5 DEF Supervision, Next, ProcessStep, Child
<1>6. CASE \E p \in Procs, i \in Streams : Writes(p, i)
  BY <1>6 DEF Writes, Next, ProcessStep, Child
<1>7. CASE \E t \in Terms : CutOffTerm(t) \/ Terminal(t) BY <1>7 DEF CutOffTerm, Terminal
<1>8. CASE Signal \/ Ends BY <1>8 DEF Signal, Ends
<1>9. CASE UNCHANGED allVars BY <1>9 DEF allVars
<1> QED BY <1>1, <1>2, <1>3, <1>4, <1>5, <1>6, <1>7, <1>8, <1>9 DEF ProgramNext

\* The program, with its transports and terminals, implements ExecService.
THEOREM ImplementsExec == ProgramSpec => Spec
<1>1. ProgramInit => Init BY DEF ProgramInit
<1> QED BY <1>1, StepImplementsExec, PTL DEF ProgramSpec, Spec

\* In the program too, the counter of a session is exact.
THEOREM ProgramCountIsExact == ProgramSpec => []CountMatches
BY ImplementsExec, CountIsExact, PTL

-----------------------------------------------------------------------------
(* Terminals.  The goroutine that waits for a terminal goes through its     *)
(* states in one order, and no request takes back what it has done.         *)

WaiterInOrder ==
  \A t \in Terms :
    /\ ptyWaiter[t] = "off" <=> term[t] = "none"
    /\ ptyWaiter[t] \in {"wait", "publish", "close", "remove"} => t \in ptys
    /\ ptyWaiter[t] \in {"publish", "close", "remove", "done"} <=> term[t] = "reaped"
    /\ ptyWaiter[t] \in {"close", "remove", "done"} => t \in ptyExit
    /\ ptyWaiter[t] \in {"remove", "done"} => ptyFile[t] = "closed"

TermInv == PtyTypeOK /\ WaiterInOrder

TermStep(t) ==
  \/ OpenPty(t) \/ KillPty(t) \/ ClosePtyFile(t)
  \/ PtyChildWrites(t) \/ PtyChildEnds(t) \/ PtyRead(t) \/ PtyWait(t)

\* At the start there is no terminal.
LEMMA TermInit == PtyInit => TermInv
BY DEF PtyInit, TermInv, PtyTypeOK, WaiterInOrder

\* Whatever happens to a terminal, its waiter stays in order.
LEMMA TermKeeps ==
  ASSUME TermInv, NEW t \in Terms, TermStep(t)
  PROVE  TermInv'
<1> USE DEF TermInv, PtyTypeOK, WaiterInOrder, ptyOutVars, PtyWaiterGoto
<1>1. CASE OpenPty(t) BY <1>1 DEF OpenPty
<1>2. CASE KillPty(t)
  <2>1. CASE term[t] = "running" BY <1>2, <2>1 DEF KillPty
  <2>2. CASE term[t] # "running" BY <1>2, <2>2 DEF KillPty
  <2> QED BY <2>1, <2>2
<1>3. CASE ClosePtyFile(t) BY <1>3 DEF ClosePtyFile
<1>4. CASE PtyChildWrites(t) BY <1>4 DEF PtyChildWrites
<1>5. CASE PtyChildEnds(t) BY <1>5 DEF PtyChildEnds
<1>6. CASE PtyReads(t)
  <2> PICK n \in 1..ptyOut[t] : /\ ptyOut' = [ptyOut EXCEPT ![t] = @ - n]
                                /\ ptyHeld' = [ptyHeld EXCEPT ![t] = n]
    BY <1>6 DEF PtyReads
  <2>1. ptyOut[t] - n \in Nat /\ n \in Nat OBVIOUS
  <2> QED BY <1>6, <2>1 DEF PtyReads
<1>7. CASE PtyPublishes(t) BY <1>7 DEF PtyPublishes
<1>8. CASE PtyReaderStops(t) BY <1>8 DEF PtyReaderStops
<1>9. CASE PtyReaps(t) BY <1>9 DEF PtyReaps
<1>10. CASE PtyAnnounces(t) BY <1>10 DEF PtyAnnounces
<1>11. CASE PtyReleases(t) BY <1>11 DEF PtyReleases
<1>12. CASE PtyRemoves(t) BY <1>12 DEF PtyRemoves
<1> QED BY <1>1, <1>2, <1>3, <1>4, <1>5, <1>6, <1>7, <1>8, <1>9, <1>10, <1>11, <1>12
        DEF TermStep, PtyRead, PtyWait

-----------------------------------------------------------------------------
(* Handlers: one request at a time, and a request of a terminal knows it.   *)

Busy == \A h \in Handlers : ptyPc[h] # "idle" => ptyOf[h] \in Terms

\* Outside the terminal requests, nothing happens to a terminal but what its
\* goroutines, its child and its context do.
LEMMA StepsOfTerms ==
  ASSUME Busy, [ProgramNext]_allVars
  PROVE  UNCHANGED ptyVars \/ \E t \in Terms : TermStep(t)
<1> USE DEF TermStep
<1>1. CASE \E h \in Handlers : ExecStep(h) BY <1>1 DEF ExecStep
<1>2. CASE \E h \in Handlers : PtyRequest(h)
  BY <1>2 DEF Busy, PtyRequest, PtyOpen, PtyInputBegins, PtyCloseBegins, PtyInputEnds,
     PtyCloseEnds
<1>3. CASE \E h \in Handlers : ClientGoes(h) \/ Returns(h) BY <1>3 DEF ClientGoes, Returns
<1>4. CASE \E p \in Procs : CutOffProcess(p) \/ Supervision(p)
  BY <1>4 DEF CutOffProcess, Supervision
<1>6. CASE \E p \in Procs, i \in Streams : Writes(p, i) BY <1>6 DEF Writes
<1>7. CASE \E t \in Terms : CutOffTerm(t) \/ Terminal(t) BY <1>7 DEF CutOffTerm, Terminal
<1>8. CASE Signal \/ Ends BY <1>8 DEF Signal, Ends
<1>9. CASE UNCHANGED allVars BY <1>9 DEF allVars
<1> QED BY <1>1, <1>2, <1>3, <1>4, <1>6, <1>7, <1>8, <1>9 DEF ProgramNext

\* A handler that is in a terminal request knows its terminal.
LEMMA BusyKeeps ==
  ASSUME Busy, ptyPc \in [Handlers -> {"idle", "input", "close"}],
         ptyOf \in [Handlers -> Terms \cup {NoTerm}],
         [ProgramNext]_allVars
  PROVE  /\ Busy' /\ ptyPc' \in [Handlers -> {"idle", "input", "close"}]
         /\ ptyOf' \in [Handlers -> Terms \cup {NoTerm}]
<1> USE DEF Busy
<1>1. CASE \E h \in Handlers : ExecStep(h) BY <1>1 DEF ExecStep
<1>2. CASE \E h \in Handlers, t \in Terms : PtyOpen(h, t) BY <1>2 DEF PtyOpen
<1>3. CASE \E h \in Handlers, t \in Terms : PtyInputBegins(h, t)
  BY <1>3 DEF PtyInputBegins
<1>4. CASE \E h \in Handlers, t \in Terms : PtyCloseBegins(h, t)
  BY <1>4 DEF PtyCloseBegins
<1>5. CASE \E h \in Handlers : PtyInputEnds(h) \/ PtyCloseEnds(h)
  BY <1>5 DEF PtyInputEnds, PtyCloseEnds, PtyAnswers
<1>6. CASE \E h \in Handlers : ClientGoes(h) \/ Returns(h) BY <1>6 DEF ClientGoes, Returns
<1>7. CASE \E p \in Procs : CutOffProcess(p) \/ Supervision(p)
  BY <1>7 DEF CutOffProcess, Supervision, progVars
<1>8. CASE \E p \in Procs, i \in Streams : Writes(p, i) BY <1>8 DEF Writes, progVars
<1>9. CASE \E t \in Terms : CutOffTerm(t) \/ Terminal(t)
  BY <1>9 DEF CutOffTerm, Terminal, progVars
<1>10. CASE Signal \/ Ends BY <1>10 DEF Signal, Ends
<1>11. CASE UNCHANGED allVars BY <1>11 DEF allVars, progVars
<1> QED
  BY <1>1, <1>2, <1>3, <1>4, <1>5, <1>6, <1>7, <1>8, <1>9, <1>10, <1>11
  DEF ProgramNext, PtyRequest

TermsInOrder ==
  /\ TermInv
  /\ Busy
  /\ ptyPc \in [Handlers -> {"idle", "input", "close"}]
  /\ ptyOf \in [Handlers -> Terms \cup {NoTerm}]

\* At the start nobody is in a terminal request.
LEMMA TermsStart == ProgramInit => TermsInOrder
BY TermInit DEF ProgramInit, TermsInOrder, Busy

\* No step, of whichever part of the program, disturbs the order.
LEMMA TermsKept == TermsInOrder /\ [ProgramNext]_allVars => TermsInOrder'
<1> SUFFICES ASSUME TermsInOrder, [ProgramNext]_allVars PROVE TermsInOrder'
  OBVIOUS
<1>1. TermInv'
  <2>1. CASE UNCHANGED ptyVars
    BY <2>1 DEF TermsInOrder, TermInv, PtyTypeOK, WaiterInOrder, ptyVars, ptyOutVars
  <2>2. CASE \E t \in Terms : TermStep(t) BY <2>2, TermKeeps DEF TermsInOrder
  <2> QED BY <2>1, <2>2, StepsOfTerms DEF TermsInOrder
<1> QED BY <1>1, BusyKeeps DEF TermsInOrder

\* A terminal that is gone from the table has been waited for, announced and
\* closed, whatever pty.close, pty.input and its context do to it meanwhile.
THEOREM TerminalsAreAnnounced == ProgramSpec => []PtyGoneMeansAnnounced
<1>1. TermsInOrder => PtyGoneMeansAnnounced
  BY DEF TermsInOrder, TermInv, PtyTypeOK, WaiterInOrder, PtyGoneMeansAnnounced
<1> QED BY <1>1, TermsStart, TermsKept, PTL DEF ProgramSpec

-----------------------------------------------------------------------------
(* Contexts.  A child keeps its starter once it runs; a connection returns  *)
(* after its client has gone; a client does not come back.                  *)

Started(c) == IF c \in Procs THEN os[c] # "none" ELSE term[c] # "none"

ContextTypes ==
  /\ client \in [Handlers -> {"here", "gone"}]
  /\ starter \in [Children -> Handlers \cup {NoHandler}]
  /\ returned \subseteq Handlers
  /\ cutOff \subseteq Children

ReturnedAreGone == \A h \in returned : client[h] = "gone"

\* Who may have lost the context it was started in.
MayBeCut(c) ==
  transport[starter[c]] # "post" => told \/ client[starter[c]] = "gone"

CutForAReason ==
  \A c \in cutOff : Started(c) /\ starter[c] \in Handlers /\ MayBeCut(c)

ContextInv == ContextTypes /\ ReturnedAreGone /\ CutForAReason

\* A step takes back nothing that concerns the children that have started.
Onwards ==
  /\ transport' = transport
  /\ told => told'
  /\ \A h \in Handlers : client[h] = "gone" => client'[h] = "gone"
  /\ \A c \in Children : Started(c) => Started(c)' /\ starter'[c] = starter[c]

\* No step makes a process that was started a new one.
LEMMA ProcessesStay ==
  ASSUME TypeInv, [Next]_vars
  PROVE  \A p \in Procs : os[p] # "none" => os'[p] # "none"
<1>0. os \in OsStates BY DEF TypeInv, TypeOK, EMTypeOK, OsStates
<1>1. CASE OnlyEnds BY <1>1 DEF OnlyEnds
<1>2. CASE UNCHANGED os BY <1>2
<1>3. CASE \E h \in Handlers : HandlerStep(h)
  <2> PICK h \in Handlers : HandlerStep(h) BY <1>3
  <2>1. CASE \E p \in Procs : StartSpawns(h, p)
    BY <2>1, <1>0 DEF StartSpawns, Spawn, OsStates
  <2>2. CASE ~\E p \in Procs : StartSpawns(h, p)
    <3>1. CASE \/ \E s \in Sessions : SessionOpen(h, s)
               \/ StartAbandons(h) \/ StartSupervises(h)
      BY <3>1, <1>2 DEF SessionOpen, StartAbandons, StartSupervises, emVars, osVars
    <3>2. CASE KeepsStarts BY <3>2, <1>1 DEF KeepsStarts
    <3> QED BY <2>2, <3>1, <3>2, HandlerKeepsStarts DEF HandlerStep, StartStep
  <2> QED BY <2>1, <2>2
<1>4. CASE \E p \in Procs : ProcessStep(p)
  <2> PICK p \in Procs : ProcessStep(p) BY <1>4
  <2>1. CASE Waiter(p)
    BY <2>1, <1>0 DEF Waiter, WaiterReaps, WaiterCaptures, WaiterPublishes, WaiterRemoves,
       WaiterDiscounts, osVars, emVars, OsStates
  <2>2. CASE ~Waiter(p) BY <2>2, <1>1, QuietSteps DEF ProcessStep
  <2> QED BY <2>1, <2>2
<1>5. CASE UNCHANGED vars BY <1>5, <1>2 DEF vars, emVars, osVars
<1> QED BY <1>3, <1>4, <1>5 DEF Next

\* Nor a terminal.
LEMMA TermsStay ==
  ASSUME TermsInOrder, [ProgramNext]_allVars
  PROVE  \A t \in Terms : term[t] # "none" => term'[t] # "none"
<1>0. term \in [Terms -> {"none", "running", "dead", "reaped"}]
  BY DEF TermsInOrder, TermInv, PtyTypeOK
<1>1. CASE UNCHANGED ptyVars BY <1>1 DEF ptyVars
<1>2. CASE \E t \in Terms : TermStep(t)
  BY <1>0, <1>2 DEF TermStep, OpenPty, KillPty, ClosePtyFile, PtyChildWrites, PtyChildEnds,
     PtyRead, PtyReads, PtyPublishes, PtyReaderStops, PtyWait, PtyReaps, PtyAnnounces,
     PtyReleases, PtyRemoves
<1> QED BY <1>1, <1>2, StepsOfTerms DEF TermsInOrder

\* So nothing a context depends on is taken back.
LEMMA StepsGoOnwards ==
  ASSUME TypeInv, TermsInOrder, ContextTypes, [ProgramNext]_allVars
  PROVE  Onwards
<1>1. \A c \in Children : Started(c) => Started(c)'
  BY ProcessesStay, TermsStay, StepImplementsExec DEF Started, Children
<1>2. told => told'
  BY DEF ProgramNext, ExecStep, PtyRequest, PtyOpen, PtyInputBegins, PtyCloseBegins,
     PtyInputEnds, PtyCloseEnds, PtyAnswers, ClientGoes, Returns, CutOffProcess,
     Supervision, Writes, CutOffTerm, Terminal, Signal, Ends, allVars, progVars
<1>3. \A h \in Handlers : client[h] = "gone" => client'[h] = "gone"
  BY DEF ContextTypes, ProgramNext, ExecStep, PtyRequest, PtyOpen, PtyInputBegins,
     PtyCloseBegins, PtyInputEnds, PtyCloseEnds, PtyAnswers, ClientGoes, Returns,
     CutOffProcess, Supervision, Writes, CutOffTerm, Terminal, Signal, Ends, allVars,
     progVars
<1>4. \A c \in Children : Started(c) => starter'[c] = starter[c]
  <2>1. CASE UNCHANGED starter BY <2>1
  <2>2. CASE \E h \in Handlers : ExecStep(h) BY <2>2 DEF ExecStep, Started
  <2>3. CASE \E h \in Handlers, t \in Terms : PtyOpen(h, t)
    BY <2>3, ProgramAssumption DEF PtyOpen, OpenPty, Started, ContextTypes, Children
  <2> QED
    BY <2>1, <2>2, <2>3
    DEF ProgramNext, PtyRequest, PtyInputBegins, PtyCloseBegins, PtyInputEnds,
        PtyCloseEnds, PtyAnswers, ClientGoes, Returns, CutOffProcess, Supervision, Writes,
        CutOffTerm, Terminal, Signal, Ends, allVars, progVars
<1>5. transport' = transport
  BY DEF ProgramNext, ExecStep, PtyRequest, PtyOpen, PtyInputBegins, PtyCloseBegins,
     PtyInputEnds, PtyCloseEnds, PtyAnswers, ClientGoes, Returns, CutOffProcess,
     Supervision, Writes, CutOffTerm, Terminal, Signal, Ends, allVars, progVars
<1> QED BY <1>1, <1>2, <1>3, <1>4, <1>5 DEF Onwards

\* The variables of contexts keep their types.
LEMMA ContextTypesKept ==
  ASSUME ContextTypes, [ProgramNext]_allVars
  PROVE  ContextTypes'
<1> USE DEF ContextTypes
<1>1. CASE \E h \in Handlers : ExecStep(h) BY <1>1 DEF ExecStep
<1>2. CASE \E h \in Handlers : PtyRequest(h)
  BY <1>2 DEF PtyRequest, PtyOpen, PtyInputBegins, PtyCloseBegins, PtyInputEnds,
     PtyCloseEnds, PtyAnswers
<1>3. CASE \E h \in Handlers : ClientGoes(h) \/ Returns(h) BY <1>3 DEF ClientGoes, Returns
<1>4. CASE \E p \in Procs : CutOffProcess(p) \/ Supervision(p)
  BY <1>4 DEF CutOffProcess, Supervision, progVars, Children
<1>5. CASE \E p \in Procs, i \in Streams : Writes(p, i) BY <1>5 DEF Writes, progVars
<1>6. CASE \E t \in Terms : CutOffTerm(t) \/ Terminal(t)
  BY <1>6 DEF CutOffTerm, Terminal, progVars, Children
<1>7. CASE Signal \/ Ends BY <1>7 DEF Signal, Ends
<1>8. CASE UNCHANGED allVars BY <1>8 DEF allVars, progVars
<1> QED BY <1>1, <1>2, <1>3, <1>4, <1>5, <1>6, <1>7, <1>8 DEF ProgramNext

\* The context of a child is done only for one of the reasons.
LEMMA DoneForAReason ==
  ASSUME ReturnedAreGone, NEW c, ChildContextDone(c)
  PROVE  starter[c] \in Handlers /\ MayBeCut(c)
BY DEF ReturnedAreGone, ChildContextDone, ContextDone, MayBeCut

\* A step that cuts a child off has a reason to, and the reasons remain.
LEMMA ContextKept ==
  ASSUME TypeInv, TermsInOrder, ContextInv, [ProgramNext]_allVars
  PROVE  ContextInv'
<1> USE DEF ContextInv
<1>1. Onwards BY StepsGoOnwards
<1>2. ContextTypes' BY ContextTypesKept
<1>3. ReturnedAreGone'
  <2>1. CASE \E h \in Handlers : Returns(h)
    BY <2>1, <1>1 DEF Returns, ReturnedAreGone, ContextTypes
  <2>2. CASE UNCHANGED returned
    BY <2>2, <1>1 DEF ReturnedAreGone, ContextTypes, Onwards
  <2> QED
    BY <2>1, <2>2
    DEF ProgramNext, ExecStep, PtyRequest, PtyOpen, PtyInputBegins, PtyCloseBegins,
        PtyInputEnds, PtyCloseEnds, PtyAnswers, ClientGoes, CutOffProcess, Supervision,
        Writes, CutOffTerm, Terminal, Signal, Ends, allVars, progVars
<1>4. ASSUME NEW c \in cutOff'
      PROVE  c \in Children /\ Started(c) /\ starter[c] \in Handlers /\ MayBeCut(c)
  <2>1. CASE c \in cutOff BY <2>1 DEF CutForAReason, ContextTypes
  <2>2. CASE \E p \in Procs : CutOffProcess(p) /\ c = p
    BY <2>2, DoneForAReason DEF CutOffProcess, ContextKill, Started, Children
  <2>3. CASE \E t \in Terms : CutOffTerm(t) /\ c = t
    BY <2>3, DoneForAReason, ProgramAssumption
    DEF CutOffTerm, PtyChildEnds, Started, Children
  <2> QED
    BY <1>4, <2>1, <2>2, <2>3
    DEF ProgramNext, ExecStep, PtyRequest, PtyOpen, PtyInputBegins, PtyCloseBegins,
        PtyInputEnds, PtyCloseEnds, PtyAnswers, ClientGoes, Returns, CutOffProcess,
        Supervision, Writes, CutOffTerm, Terminal, Signal, Ends, allVars, progVars
<1>5. CutForAReason'
  BY <1>1, <1>4 DEF CutForAReason, Onwards, MayBeCut
<1> QED BY <1>2, <1>3, <1>5

\* What a stdio or WebSocket client has started is ended by no context while
\* its client is there and the program has not been told to stop, however its
\* requests are answered.
THEOREM ChildrenOutliveRequests == ProgramSpec => []ChildOutlivesRequest
<1> DEFINE Inv == TypeInv /\ TermsInOrder /\ ContextInv
<1>1. ProgramInit => Inv
  <2> SUFFICES ASSUME ProgramInit PROVE Inv
    OBVIOUS
  <2>1. TypeInv BY TypeInit DEF ProgramInit
  <2>2. TermsInOrder BY TermsStart
  <2>3. ContextInv
    BY DEF ProgramInit, ContextInv, ContextTypes, ReturnedAreGone, CutForAReason
  <2> QED BY <2>1, <2>2, <2>3
<1>2. Inv /\ [ProgramNext]_allVars => Inv'
  BY StepImplementsExec, TypeNext, TermsKept, ContextKept
<1>3. Inv => ChildOutlivesRequest
  BY DEF ContextInv, CutForAReason, MayBeCut, ChildOutlivesRequest
<1> QED BY <1>1, <1>2, <1>3, PTL DEF ProgramSpec

-----------------------------------------------------------------------------
(* Type correctness, of which two parts are more than types: a handler runs *)
(* one request at a time, of either kind, and every child has a starter.    *)

OneRequest == \A h \in Handlers : pc[h] = "idle" \/ ptyPc[h] = "idle"

StartersKnown == \A c \in Children : Started(c) => starter[c] \in Handlers

ProgramTypes ==
  /\ transport \in [Handlers -> {"stdio", "ws", "post", "none"}]
  /\ answered \subseteq Children
  /\ told \in BOOLEAN /\ ended \in BOOLEAN

\* The handler does not go from one request into another of the other kind.
LEMMA OneRequestKept ==
  ASSUME TypeInv, TermsInOrder, OneRequest, [ProgramNext]_allVars
  PROVE  OneRequest'
<1> USE DEF TypeInv, TypeOK, ServiceTypeOK, TermsInOrder, OneRequest
<1>1. CASE \E h \in Handlers : ExecStep(h)
  <2> PICK h \in Handlers : ExecStep(h) BY <1>1
  <2>1. ptyPc[h] = "idle" /\ UNCHANGED ptyPc BY DEF ExecStep
  <2>2. \A g \in Handlers \ {h} : pc'[g] = pc[g]
    BY DEF ExecStep, HandlerStep, StartStep, SessionOpen, SessionClose, StartChecks,
     StartSpawns, StartFails, StartCounts, StartAbandons, StartRegisters,
     StartWritesStdin, StartSupervises, WaitBegins, WaitReceives, WaitGivesUp,
     KillRequest, InputBegins, InputEnds, hVars, Goto, Respond
  <2> QED BY <2>1, <2>2
<1>2. CASE \E h \in Handlers, t \in Terms : PtyInputBegins(h, t) \/ PtyCloseBegins(h, t)
  BY <1>2 DEF PtyInputBegins, PtyCloseBegins, Idle, vars, hVars
<1>3. CASE \E h \in Handlers : PtyInputEnds(h) \/ PtyCloseEnds(h)
  BY <1>3 DEF PtyInputEnds, PtyCloseEnds, PtyAnswers, vars, hVars
<1>4. CASE \E p \in Procs : Supervision(p)
  BY <1>4 DEF Supervision, Waiter, WaiterReaps, WaiterCaptures, WaiterPublishes,
     WaiterRemoves, WaiterDiscounts, hVars, progVars
<1> QED
  BY <1>1, <1>2, <1>3, <1>4
  DEF ProgramNext, PtyRequest, PtyOpen, ClientGoes, Returns, CutOffProcess, Writes,
      CutOffTerm, Terminal, Signal, Ends, allVars, vars, hVars, progVars

\* Only exec.start makes a process and only pty.open a terminal, and each
\* enters the handler that runs it.
LEMMA StartersStayKnown ==
  ASSUME TypeInv, TermsInOrder, ContextTypes, StartersKnown, [ProgramNext]_allVars
  PROVE  StartersKnown'
<1> SUFFICES ASSUME NEW c \in Children, Started(c)' PROVE starter'[c] \in Handlers
  BY DEF StartersKnown
<1>1. CASE Started(c)
  BY <1>1, StepsGoOnwards DEF Onwards, StartersKnown
<1>2. CASE c \in Procs /\ os[c] = "none" /\ os'[c] # "none"
  <2>1. CASE \E h \in Handlers : ExecStep(h) BY <1>2, <2>1 DEF ExecStep
  <2>2. CASE \E p \in Procs : Waiter(p)
    BY <1>2, <2>2 DEF TypeInv, TypeOK, EMTypeOK, Waiter, WaiterReaps, WaiterCaptures,
       WaiterPublishes, WaiterRemoves, WaiterDiscounts, emVars, osVars
  <2>3. CASE OnlyEnds BY <1>2, <2>3 DEF OnlyEnds
  <2>4. CASE UNCHANGED os BY <1>2, <2>4
  <2>5. CASE \E p \in Procs : Timer(p) \/ DeadlinePasses(p) \/ Child(p)
                              \/ \E i \in Streams : Reader(p, i)
    BY <2>3, <2>5, QuietSteps
  <2>6. CASE \E h \in Handlers : PtyRequest(h) \/ ClientGoes(h) \/ Returns(h)
    BY <2>4, <2>6 DEF PtyRequest, PtyOpen, PtyInputBegins, PtyCloseBegins, PtyInputEnds,
       PtyCloseEnds, PtyAnswers, ClientGoes, Returns, vars, emVars, osVars
  <2> QED
    BY <2>1, <2>2, <2>4, <2>5, <2>6
    DEF ProgramNext, CutOffProcess, Supervision, Writes, Child, CutOffTerm, Terminal,
        Signal, Ends, allVars, vars, emVars, osVars
<1>3. CASE c \in Terms /\ term[c] = "none" /\ term'[c] # "none"
  <2>0. term \in [Terms -> {"none", "running", "dead", "reaped"}]
    BY DEF TermsInOrder, TermInv, PtyTypeOK
  <2>1. CASE \E h \in Handlers, t \in Terms : PtyOpen(h, t)
    BY <1>3, <2>0, <2>1 DEF PtyOpen, OpenPty, ContextTypes, Children
  <2>2. CASE UNCHANGED ptyVars BY <1>3, <2>2 DEF ptyVars
  <2>3. CASE \E h \in Handlers, t \in Terms : PtyCloseBegins(h, t)
    BY <1>3, <2>0, <2>3 DEF PtyCloseBegins, KillPty
  <2>4. CASE \E h \in Handlers : PtyCloseEnds(h)
    BY <1>3, <2>4 DEF PtyCloseEnds, ClosePtyFile
  <2>5. CASE \E t \in Terms : CutOffTerm(t)
    BY <1>3, <2>0, <2>5 DEF CutOffTerm, PtyChildEnds
  <2>6. CASE \E t \in Terms : Terminal(t)
    BY <1>3, <2>0, <2>6 DEF Terminal, PtyChildWrites, PtyChildEnds, PtyRead, PtyReads,
       PtyPublishes, PtyReaderStops, PtyWait, PtyReaps, PtyAnnounces, PtyReleases,
       PtyRemoves
  <2> QED
    BY <2>1, <2>2, <2>3, <2>4, <2>5, <2>6
    DEF ProgramNext, ExecStep, PtyRequest, PtyInputBegins, PtyInputEnds, ClientGoes,
        Returns, CutOffProcess, Supervision, Writes, Signal, Ends, allVars
<1> QED BY <1>1, <1>2, <1>3 DEF Started, Children

\* The rest keeps its types.
LEMMA ProgramTypesKept ==
  ASSUME ProgramTypes, [ProgramNext]_allVars
  PROVE  ProgramTypes'
<1> USE DEF ProgramTypes
<1>1. CASE \E h \in Handlers : ExecStep(h) BY <1>1 DEF ExecStep
<1>2. CASE \E h \in Handlers : PtyRequest(h)
  BY <1>2 DEF PtyRequest, PtyOpen, PtyInputBegins, PtyCloseBegins, PtyInputEnds,
     PtyCloseEnds, PtyAnswers, Children
<1>3. CASE ~\E h \in Handlers : ExecStep(h) \/ PtyRequest(h)
  BY <1>3 DEF ProgramNext, ClientGoes, Returns, CutOffProcess, Supervision, Writes,
     CutOffTerm, Terminal, Signal, Ends, allVars, progVars
<1> QED BY <1>1, <1>2, <1>3

\* Every reachable state of the program is well typed; in particular no handler
\* is in two requests and no child is without the handler that started it.
THEOREM ProgramTypeCorrect == ProgramSpec => []ProgramTypeOK
<1> DEFINE Inv == /\ TypeInv /\ TermsInOrder /\ ContextTypes
                  /\ ProgramTypes /\ OneRequest /\ StartersKnown
<1>1. ProgramInit => Inv
  <2> SUFFICES ASSUME ProgramInit PROVE Inv
    OBVIOUS
  <2>1. TypeInv BY TypeInit DEF ProgramInit
  <2>2. TermsInOrder BY TermsStart
  <2>3. ContextTypes BY DEF ProgramInit, ContextTypes
  <2>4. ProgramTypes
    BY ProgramAssumption DEF ProgramInit, ProgramTypes, Serves
  <2>5. OneRequest BY DEF ProgramInit, OneRequest
  <2>6. StartersKnown
    BY DEF ProgramInit, Init, EMInit, PtyInit, StartersKnown, Started, Children
  <2> QED BY <2>1, <2>2, <2>3, <2>4, <2>5, <2>6
<1>2. Inv /\ [ProgramNext]_allVars => Inv'
  BY StepImplementsExec, TypeNext, TermsKept, ContextTypesKept, ProgramTypesKept,
     OneRequestKept, StartersStayKnown
<1>3. Inv => ProgramTypeOK
  <2> SUFFICES ASSUME Inv PROVE ProgramTypeOK
    OBVIOUS
  <2>1. TypeOK /\ PtyTypeOK BY DEF TypeInv, TermsInOrder, TermInv
  <2>2. /\ \A p \in Procs : os[p] # "none" => starter[p] \in Handlers
        /\ \A t \in Terms : term[t] # "none" => starter[t] \in Handlers
    BY ProgramAssumption DEF StartersKnown, Started, Children
  <2> QED
    BY <2>1, <2>2 DEF ProgramTypeOK, TermsInOrder, ContextTypes, ProgramTypes, OneRequest
<1> QED BY <1>1, <1>2, <1>3, PTL DEF ProgramSpec
=============================================================================
