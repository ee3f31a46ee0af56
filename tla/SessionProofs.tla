--------------------------- MODULE SessionProofs ---------------------------
(***************************************************************************)
(* Proofs about Session, for any set of client threads and with or without *)
(* a timeout: type correctness, EndedMeansGone, NothingOutlivesDestroy,    *)
(* OutcomeFinal, the refinement of Lifecycle, and ReportsFit.              *)
(*                                                                         *)
(* None of the safety properties is inductive: they follow from where the  *)
(* one thread inside start() is, because each of its program points fixes  *)
(* what the engine can be doing and who else can exist.  ReportsFit also   *)
(* needs what result_ can hold before the session has ended (OutcomeInv).  *)
(***************************************************************************)
EXTENDS Session, TLAPS

NoStarter == \A c \in Client : ~InStart(c)

(* start_mu_: at most one client is inside start().                        *)
OneStarter ==
  \A c, d \in Client : InStart(c) /\ InStart(d) => c = d

(* What is true at each point of start(): the engine's progress, the       *)
(* states the session can be in, and that the threads do not exist yet.    *)
AtPoint(c, points, engines, states) ==
  pc[c] \in points => engine \in engines /\ state \in states

StarterInv ==
  \A c \in Client :
    /\ InStart(c) => waiter = "none"
    /\ AtPoint(c, {"start_select", "start_publish"}, {"absent"}, {"starting", "cancelled"})
    /\ AtPoint(c, {"start_check", "start_engine"}, {"idle"}, {"starting", "cancelled"})
    /\ AtPoint(c, {"start_return"}, {"starting", "running", "done"}, {"starting", "cancelled"})
    /\ AtPoint(c, {"start_reap"}, {"idle", "starting", "running", "done"},
                  {"starting", "cancelled"})
    /\ AtPoint(c, {"fail_result", "fail_transition"}, {"absent", "idle", "done"},
                  {"starting", "cancelled"})
    /\ AtPoint(c, {"start_running"}, {"running", "done"}, {"starting", "cancelled"})
    /\ AtPoint(c, {"start_recheck", "start_threads", "inline_wait"}, {"running", "done"},
                  {"running", "cancelled"})
    /\ AtPoint(c, {"inline_transition"}, {"done"}, {"running", "cancelled"})

(* start_state_ against the engine's progress.                             *)
EngineInv ==
  /\ start_state = "ok" => engine \in {"running", "done"}
  /\ engine = "running" => start_state = "ok"

(* With nobody inside start(), a session that still runs has a waiter on   *)
(* to it, and one without a waiter has no engine at work.                  *)
NoStarterInv ==
  NoStarter =>
    /\ state # "starting"
    /\ state = "created" => engine = "absent" /\ waiter = "none"
    /\ state = "running" => waiter \in {"wait", "result", "transition"}
    /\ waiter = "none" => EngineGone

WaiterInv ==
  /\ waiter = "wait" => engine \in {"running", "done"}
  /\ waiter \in {"result", "transition", "stop", "end"} => engine = "done"
  /\ waiter = "none" => watchdog = "none"

(* Who is left when the outcome is final: nobody who would change it.      *)
FinalInv ==
  state \in {"exited", "failed"} => NoStarter /\ waiter \in {"none", "stop", "end"}

CancelInv ==
  \A c \in Client : pc[c] = "cancel_result" => state = "cancelled"

DtorInv ==
  /\ dtor # "none" => state # "created" /\ \A c \in Client : pc[c] = "idle"
  /\ dtor \in {"stop_watchdog", "join_watchdog", "reset", "end"}
       => waiter \in {"none", "end"}
  /\ dtor \in {"reset", "end"} => watchdog \in {"none", "end"}

Control ==
  /\ OneStarter
  /\ StarterInv
  /\ EngineInv
  /\ NoStarterInv
  /\ WaiterInv
  /\ FinalInv
  /\ CancelInv
  /\ DtorInv

Inv == TypeOK /\ Control

-----------------------------------------------------------------------------
(* Sets that the type invariant uses: what the operators of the session    *)
(* return stays inside them.                                               *)
LEMMA TransitionType ==
  ASSUME NEW s \in State, NEW to \in State
  PROVE  transition(s, to) \in State
BY DEF transition

LEMMA TerminalOfType == \A r : TerminalOf(r) \in State
BY DEF TerminalOf, State

LEMMA ReportedType == TypeOK => Reported \in ExitReason
BY DEF TypeOK, Reported, ExitReason, CancelReason

LEMMA FirstReasonType ==
  ASSUME EngineTypeOK, NEW r \in CancelReason
  PROVE  FirstReason(r) \in CancelReason
BY DEF EngineTypeOK, FirstReason

(* Type correctness is inductive on its own.                               *)
LEMMA TypeStep == TypeOK /\ [Next]_vars => TypeOK'
<1> SUFFICES ASSUME TypeOK, [Next]_vars PROVE TypeOK'
  OBVIOUS
<1> USE SessionAssumption DEF TypeOK, EngineTypeOK, Goto, Call, engineVars, PC, StartPC,
    CancelPC, State
<1>1. ASSUME NEW c \in Client, StartBegin(c) \/ CancelBegin(c) \/ WaitBegin(c)
      PROVE  TypeOK'
  <2>1. CASE StartBegin(c)
    BY <2>1 DEF StartBegin
  <2>2. CASE CancelBegin(c)
    BY <2>2 DEF CancelBegin
  <2>3. CASE WaitBegin(c)
    BY <2>3 DEF WaitBegin
  <2> QED BY <1>1, <2>1, <2>2, <2>3
<1>2. ASSUME NEW c \in Client, StartStep(c) PROVE TypeOK'
  <2>1. CASE StartSelect(c)
    BY <2>1 DEF StartSelect
  <2>2. CASE StartPublish(c)
    BY <2>2 DEF StartPublish, EngineCreate
  <2>3. CASE StartCheck(c)
    BY <2>3, FirstReasonType DEF StartCheck, CancelIfRequested, EngineCancel, CancelReason
  <2>4. CASE StartEngine(c)
    BY <2>4 DEF StartEngine, EngineStart
  <2>5. CASE StartReturn(c)
    BY <2>5, FirstReasonType DEF StartReturn, EngineCancel, CancelReason
  <2>6. CASE StartReap(c)
    BY <2>6 DEF StartReap
  <2>7. CASE FailResult(c)
    BY <2>7 DEF FailResult, ExitReason
  <2>8. CASE FailTransition(c)
    BY <2>8, TransitionType DEF FailTransition
  <2>9. CASE StartRunning(c)
    BY <2>9, TransitionType, FirstReasonType DEF StartRunning, EngineCancel, CancelReason
  <2>10. CASE StartRecheck(c)
    BY <2>10, FirstReasonType DEF StartRecheck, CancelIfRequested, EngineCancel,
        CancelReason
  <2>11. CASE StartThreads(c)
    BY <2>11, FirstReasonType DEF StartThreads, EngineCancel, CancelReason
  <2>12. CASE InlineWait(c)
    BY <2>12 DEF InlineWait
  <2>13. CASE InlineTransition(c)
    BY <2>13, TransitionType DEF InlineTransition
  <2> QED BY <1>2, <2>1, <2>2, <2>3, <2>4, <2>5, <2>6, <2>7, <2>8, <2>9, <2>10, <2>11,
      <2>12, <2>13 DEF StartStep
<1>3. ASSUME NEW c \in Client, CancelStep(c) \/ WaitReturn(c) \/ WaitTimeout(c) PROVE TypeOK'
  <2>1. CASE CancelGet(c)
    BY <2>1 DEF CancelGet
  <2>2. CASE CancelTransition(c)
    BY <2>2, TransitionType DEF CancelTransition
  <2>3. CASE CancelResult(c)
    BY <2>3 DEF CancelResult, ExitReason, CancelReason
  <2>4. CASE CancelReach(c)
    BY <2>4, FirstReasonType DEF CancelReach, CancelInst, EngineCancel, CancelReason
  <2>5. CASE WaitReturn(c)
    BY <2>5, ReportedType DEF WaitReturn
  <2>6. CASE WaitTimeout(c)
    BY <2>6 DEF WaitTimeout
  <2> QED BY <1>3, <2>1, <2>2, <2>3, <2>4, <2>5, <2>6 DEF CancelStep
<1>4. CASE WaiterStep
  <2>1. CASE WaiterWait
    BY <2>1 DEF WaiterWait
  <2>2. CASE WaiterResult
    BY <2>2 DEF WaiterResult
  <2>3. CASE WaiterTransition
    BY <2>3, TransitionType, TerminalOfType DEF WaiterTransition
  <2>4. CASE WaiterStop
    BY <2>4 DEF WaiterStop
  <2> QED BY <1>4, <2>1, <2>2, <2>3, <2>4 DEF WaiterStep
<1>5. CASE WatchdogStep
  BY <1>5, FirstReasonType DEF WatchdogStep, WatchdogStopped, WatchdogExpires, WatchdogFire,
     CancelInst, EngineCancel, CancelReason
<1>6. CASE DtorBegin
  <2>1. CASE state = "created" \/ is_terminal(state)
    BY <1>6, <2>1 DEF DtorBegin
  <2>2. CASE ~(state = "created" \/ is_terminal(state))
    <3>1. EngineTypeOK'
      BY <1>6, <2>2, FirstReasonType DEF DtorBegin, CancelInst, EngineCancel, CancelReason
    <3> QED BY <1>6, <2>2, <3>1 DEF DtorBegin
  <2> QED BY <2>1, <2>2
<1>7. CASE DtorStep
  <2>1. CASE DtorStopWatchdog
    BY <2>1 DEF DtorStopWatchdog
  <2>2. CASE DtorJoinWaiter \/ DtorJoinWatchdog \/ DtorReset
    BY <2>2 DEF DtorJoinWaiter, DtorJoinWatchdog, DtorReset
  <2> QED BY <1>7, <2>1, <2>2 DEF DtorStep
<1>8. CASE EngineStep
  BY <1>8 DEF EngineStep, EngineOwnStep, EngineExec, EngineStartFails, EngineEnd,
      EngineFault,
     ExitReason, sessionVars
<1>9. CASE UNCHANGED vars
  BY <1>9 DEF vars, sessionVars
<1> QED BY <1>1, <1>2, <1>3, <1>4, <1>5, <1>6, <1>7, <1>8, <1>9
        DEF Next, ClientStep, Finished

-----------------------------------------------------------------------------
(* Each thread's steps keep the control invariant.                         *)
(* A call that begins.                                                     *)
LEMMA BeginKeepsControl ==
  ASSUME Inv, NEW c \in Client, StartBegin(c) \/ CancelBegin(c) \/ WaitBegin(c)
  PROVE  Control'
<1> USE DEF Inv, Control, OneStarter, StarterInv, AtPoint, EngineInv, NoStarterInv,
            NoStarter, WaiterInv, FinalInv, CancelInv, DtorInv, InStart, StartPC,
            EngineGone, Goto, engineVars, TypeOK, PC
<1>1. CASE StartBegin(c)
  BY <1>1 DEF StartBegin, Call, can_transition
<1>2. CASE CancelBegin(c)
  BY <1>2 DEF CancelBegin, Call
<1>3. CASE WaitBegin(c)
  BY <1>3 DEF WaitBegin, Call
<1> QED BY <1>1, <1>2, <1>3 DEF Inv

(* The rest of start().                                                    *)
LEMMA StartKeepsControl ==
  ASSUME Inv, NEW c \in Client, StartStep(c)
  PROVE  Control'
<1> USE DEF Inv, Control, OneStarter, StarterInv, AtPoint, EngineInv, NoStarterInv,
            NoStarter, WaiterInv, FinalInv, CancelInv, DtorInv, InStart, StartPC,
            EngineGone, Goto, engineVars, TypeOK, PC
<1>1. CASE StartSelect(c)
  BY <1>1 DEF StartSelect
<1>2. CASE StartPublish(c)
  BY <1>2 DEF StartPublish, EngineCreate
<1>3. CASE StartCheck(c)
  BY <1>3 DEF StartCheck, CancelIfRequested, EngineCancel
<1>4. CASE StartEngine(c)
  BY <1>4 DEF StartEngine, EngineStart
<1>5. CASE StartReturn(c)
  BY <1>5 DEF StartReturn, EngineCancel
<1>6. CASE StartReap(c)
  BY <1>6 DEF StartReap, EngineWait
<1>7. CASE FailResult(c)
  BY <1>7 DEF FailResult
<1>8. CASE FailTransition(c)
  BY <1>8 DEF FailTransition, transition, can_transition
<1>9. CASE StartRunning(c)
  BY <1>9 DEF StartRunning, EngineCancel, transition, can_transition
<1>10. CASE StartRecheck(c)
  BY <1>10 DEF StartRecheck, CancelIfRequested, EngineCancel
<1>11. CASE StartThreads(c)
  BY <1>11 DEF StartThreads, EngineCancel
<1>12. CASE InlineWait(c)
  BY <1>12 DEF InlineWait, EngineWait
<1>13. CASE InlineTransition(c)
  BY <1>13 DEF InlineTransition, transition, can_transition
<1> QED BY <1>1, <1>2, <1>3, <1>4, <1>5, <1>6, <1>7, <1>8, <1>9, <1>10, <1>11, <1>12,
    <1>13 DEF StartStep

(* The rest of cancel() and wait().                                        *)
LEMMA ClientKeepsControl ==
  ASSUME Inv, NEW c \in Client, CancelStep(c) \/ WaitReturn(c) \/ WaitTimeout(c)
  PROVE  Control'
<1> USE DEF Inv, Control, OneStarter, StarterInv, AtPoint, EngineInv, NoStarterInv,
            NoStarter, WaiterInv, FinalInv, CancelInv, DtorInv, InStart, StartPC,
            EngineGone, Goto, engineVars, TypeOK, PC
<1>1. CASE CancelGet(c)
  BY <1>1 DEF CancelGet
<1>2. CASE CancelTransition(c)
  BY <1>2 DEF CancelTransition, transition, can_transition
<1>3. CASE CancelResult(c)
  BY <1>3 DEF CancelResult
<1>4. CASE CancelReach(c)
  BY <1>4 DEF CancelReach, CancelInst, EngineCancel
<1>5. CASE WaitReturn(c)
  BY <1>5 DEF WaitReturn
<1>6. CASE WaitTimeout(c)
  BY <1>6 DEF WaitTimeout
<1> QED BY <1>1, <1>2, <1>3, <1>4, <1>5, <1>6 DEF CancelStep

(* waiter_main().                                                          *)
LEMMA WaiterKeepsControl ==
  ASSUME Inv, WaiterStep
  PROVE  Control'
<1> USE DEF Inv, Control, OneStarter, StarterInv, AtPoint, EngineInv, NoStarterInv,
            NoStarter, WaiterInv, FinalInv, CancelInv, DtorInv, InStart, StartPC,
            EngineGone, Goto, engineVars, TypeOK, PC
<1>1. CASE WaiterWait
  BY <1>1 DEF WaiterWait, EngineWait
<1>2. CASE WaiterResult
  BY <1>2 DEF WaiterResult
<1>3. CASE WaiterTransition
  BY <1>3 DEF WaiterTransition, transition, can_transition, TerminalOf
<1>4. CASE WaiterStop
  BY <1>4 DEF WaiterStop
<1> QED BY <1>1, <1>2, <1>3, <1>4 DEF WaiterStep

(* watchdog_main().                                                        *)
LEMMA WatchdogKeepsControl ==
  ASSUME Inv, WatchdogStep
  PROVE  Control'
<1> USE DEF Inv, Control, OneStarter, StarterInv, AtPoint, EngineInv, NoStarterInv,
            NoStarter, WaiterInv, FinalInv, CancelInv, DtorInv, InStart, StartPC,
            EngineGone, Goto, engineVars, TypeOK, PC
<1>1. CASE WatchdogStopped
  BY <1>1 DEF WatchdogStopped
<1>2. CASE WatchdogExpires
  BY <1>2 DEF WatchdogExpires
<1>3. CASE WatchdogFire
  BY <1>3 DEF WatchdogFire, CancelInst, EngineCancel
<1> QED BY <1>1, <1>2, <1>3 DEF WatchdogStep

(* The destructor.                                                         *)
LEMMA DtorKeepsControl ==
  ASSUME Inv, DtorBegin \/ DtorStep
  PROVE  Control'
<1> USE DEF Inv, Control, OneStarter, StarterInv, AtPoint, EngineInv, NoStarterInv,
            NoStarter, WaiterInv, FinalInv, CancelInv, DtorInv, InStart, StartPC,
            EngineGone, Goto, engineVars, TypeOK, PC
<1>1. CASE DtorBegin
  BY <1>1 DEF DtorBegin, CancelInst, EngineCancel, is_terminal, Terminal, State
<1>2. CASE DtorJoinWaiter
  BY <1>2 DEF DtorJoinWaiter
<1>3. CASE DtorStopWatchdog
  BY <1>3 DEF DtorStopWatchdog
<1>4. CASE DtorJoinWatchdog
  BY <1>4 DEF DtorJoinWatchdog
<1>5. CASE DtorReset
  BY <1>5 DEF DtorReset
<1> QED BY <1>1, <1>2, <1>3, <1>4, <1>5 DEF DtorStep

(* The supervisor thread.                                                  *)
LEMMA EngineKeepsControl ==
  ASSUME Inv, EngineStep
  PROVE  Control'
<1> USE DEF Inv, Control, OneStarter, StarterInv, AtPoint, EngineInv, NoStarterInv,
            NoStarter, WaiterInv, FinalInv, CancelInv, DtorInv, InStart, StartPC,
            EngineGone, Goto, engineVars, TypeOK, PC
<1>0. UNCHANGED sessionVars
  BY DEF EngineStep
<1>1. CASE EngineExec
  BY <1>1, <1>0 DEF EngineExec, sessionVars
<1>2. CASE EngineStartFails
  BY <1>2, <1>0 DEF EngineStartFails, sessionVars
<1>3. CASE \E r \in ExitReason : EngineEnd(r)
  BY <1>3, <1>0 DEF EngineEnd, sessionVars
<1>4. CASE EngineFault
  BY <1>4, <1>0 DEF EngineFault, sessionVars
<1> QED BY <1>1, <1>2, <1>3, <1>4 DEF EngineStep, EngineOwnStep

LEMMA InvStep == Inv /\ [Next]_vars => Inv'
<1> SUFFICES ASSUME Inv, [Next]_vars PROVE Control'
  BY TypeStep DEF Inv
<1>1. CASE UNCHANGED vars
  BY <1>1 DEF vars, sessionVars, engineVars, Inv,
       Control, OneStarter, StarterInv, AtPoint, EngineInv, NoStarterInv, NoStarter, WaiterInv,
       FinalInv, CancelInv, DtorInv, InStart, EngineGone
<1>2. CASE Next
  BY <1>1, <1>2, BeginKeepsControl, StartKeepsControl, ClientKeepsControl,
      WaiterKeepsControl,
     WatchdogKeepsControl, DtorKeepsControl, EngineKeepsControl
     DEF Next, ClientStep, Finished
<1> QED BY <1>1, <1>2

LEMMA InvInit == Init => Inv
BY SessionAssumption DEF Init, EngineInit, Inv, TypeOK, EngineTypeOK, PC, State, ExitReason,
   Control, OneStarter, StarterInv, AtPoint, EngineInv, NoStarterInv, NoStarter, WaiterInv,
   FinalInv, CancelInv, DtorInv, InStart, StartPC, EngineGone

(* The inductive invariant holds of every session.                         *)
THEOREM Invariant == Spec => []Inv
BY InvInit, InvStep, PTL DEF Spec

(* Type correctness: no step of any thread leaves the declared sets.       *)
THEOREM TypeCorrect == Spec => []TypeOK
<1>1. Inv => TypeOK
  BY DEF Inv
<1> QED BY Invariant, <1>1, PTL

(* A session announces "exited" or "failed" only when its process tree is  *)
(* gone, whichever of start(), the waiter or the inline wait announces it. *)
THEOREM EndedIsGone == Spec => []EndedMeansGone
<1>1. Inv => EndedMeansGone
  BY DEF Inv, TypeOK, EndedMeansGone, is_terminal, Terminal, EngineGone, Control,
      NoStarterInv,
         NoStarter, WaiterInv, FinalInv
<1> QED BY Invariant, <1>1, PTL

(* When the destructor releases the engine instance no thread of the       *)
(* session is left.                                                        *)
THEOREM DestroyIsLast == Spec => []NothingOutlivesDestroy
<1>1. Inv => NothingOutlivesDestroy
  BY DEF Inv, TypeOK, NothingOutlivesDestroy, EngineGone, Control, NoStarterInv, NoStarter,
         WaiterInv, DtorInv, InStart, StartPC
<1> QED BY Invariant, <1>1, PTL

(* A session that exited or failed has nobody left to change its outcome.  *)
LEMMA FinalStep ==
  ASSUME Inv, [Next]_vars, state \in {"exited", "failed"}
  PROVE  UNCHANGED <<state, result>>
<1> NoStarter /\ waiter \in {"none", "stop", "end"} /\ CancelInv
  BY DEF Inv, Control, FinalInv
<1>1. ASSUME NEW c \in Client, StartBegin(c) PROVE FALSE
  BY <1>1 DEF StartBegin, can_transition
<1>2. ASSUME NEW c \in Client, StartStep(c) PROVE FALSE
  BY <1>2 DEF NoStarter, InStart, StartPC, StartStep, Goto, StartSelect, StartPublish,
     StartCheck, StartEngine, StartReturn, StartReap, FailResult, FailTransition,
     StartRunning, StartRecheck, StartThreads, InlineWait, InlineTransition
<1>3. ASSUME NEW c \in Client, CancelBegin(c) \/ WaitBegin(c) \/ WaitReturn(c) \/ WaitTimeout(c)
      PROVE  UNCHANGED <<state, result>>
  BY <1>3 DEF CancelBegin, WaitBegin, WaitReturn, WaitTimeout
<1>4. ASSUME NEW c \in Client, CancelStep(c) PROVE UNCHANGED <<state, result>>
  BY <1>4 DEF CancelInv, CancelStep, CancelGet, CancelTransition, CancelResult,
     CancelReach, Goto, transition, can_transition
<1>5. CASE WaiterStep
  BY <1>5 DEF WaiterStep, WaiterWait, WaiterResult, WaiterTransition, WaiterStop
<1>6. CASE WatchdogStep
  BY <1>6 DEF WatchdogStep, WatchdogStopped, WatchdogExpires, WatchdogFire
<1>7. CASE DtorBegin \/ DtorStep
  BY <1>7 DEF DtorBegin, DtorStep, DtorJoinWaiter, DtorStopWatchdog,
      DtorJoinWatchdog,
     DtorReset, is_terminal, Terminal
<1>8. CASE EngineStep
  BY <1>8 DEF EngineStep, sessionVars
<1>9. CASE UNCHANGED vars
  BY <1>9 DEF vars, sessionVars
<1> QED BY <1>1, <1>2, <1>3, <1>4, <1>5, <1>6, <1>7, <1>8, <1>9
        DEF Next, ClientStep, Finished

(* State and result of an exited or failed session never change again.     *)
THEOREM FinalOutcome == Spec => OutcomeFinal
<1>1. Inv /\ [Next]_vars => (state \in {"exited", "failed"} => UNCHANGED <<state, result>>)
  BY FinalStep
<1> QED BY Invariant, <1>1, PTL DEF Spec, OutcomeFinal

-----------------------------------------------------------------------------
(* Why a session that is reported cancelled was asked to stop: a client in *)
(* cancel() has set the flag, and the engine reports a cancellation only   *)
(* with the reason of one.                                                 *)
AskedInv ==
  /\ \A c \in Client : pc[c] \in CancelPC => cancel_requested
  /\ engine_result \in CancelReason => cancel_reason # None
  /\ got \in CancelReason => cancel_reason # None

LEMMA AskedInit == Init => AskedInv
BY SessionAssumption DEF Init, EngineInit, AskedInv, CancelPC, CancelReason

LEMMA AskedStep == TypeOK /\ AskedInv /\ [Next]_vars => AskedInv'
<1> SUFFICES ASSUME TypeOK, AskedInv, [Next]_vars PROVE AskedInv'
  OBVIOUS
<1> USE SessionAssumption
<1>1. ASSUME NEW c \in Client, StartBegin(c) \/ WaitBegin(c) \/ WaitReturn(c) \/ WaitTimeout(c)
      PROVE  AskedInv'
  BY <1>1 DEF StartBegin, WaitBegin, WaitReturn, WaitTimeout, Call, Goto, engineVars,
     TypeOK, AskedInv, CancelPC
<1>2. ASSUME NEW c \in Client, StartStep(c) PROVE AskedInv'
  BY <1>2 DEF StartStep, Goto, TypeOK, AskedInv, CancelPC,
       StartSelect, StartPublish, StartCheck, StartEngine, StartReturn, StartReap, FailResult,
       FailTransition, StartRunning, StartRecheck, StartThreads, InlineWait, InlineTransition,
       engineVars, EngineCreate, EngineStart, EngineCancel, CancelIfRequested, CancelInst,
       FirstReason, CancelReason
<1>3. ASSUME NEW c \in Client, CancelBegin(c) \/ CancelStep(c) PROVE AskedInv'
  BY <1>3 DEF CancelBegin, CancelStep, CancelGet, CancelTransition, CancelResult,
      CancelReach,
       Call, Goto, TypeOK, AskedInv, CancelPC,
       engineVars, EngineCreate, EngineStart, EngineCancel, CancelIfRequested, CancelInst,
       FirstReason, CancelReason
<1>4. CASE WaiterStep
  BY <1>4 DEF WaiterStep, WaiterWait, WaiterResult, WaiterTransition, WaiterStop,
      EngineWait,
       engineVars, AskedInv, CancelReason
<1>5. CASE WatchdogStep
  BY <1>5 DEF WatchdogStep, WatchdogStopped, WatchdogExpires, WatchdogFire, AskedInv,
       engineVars, EngineCreate, EngineStart, EngineCancel, CancelIfRequested, CancelInst,
       FirstReason, CancelReason
<1>6. CASE DtorBegin \/ DtorStep
  BY <1>6 DEF DtorBegin, DtorStep, DtorJoinWaiter, DtorStopWatchdog, DtorJoinWatchdog,
       DtorReset, AskedInv, CancelPC,
       engineVars, EngineCreate, EngineStart, EngineCancel, CancelIfRequested, CancelInst,
       FirstReason, CancelReason
<1>7. CASE EngineStep
  BY <1>7 DEF EngineStep, EngineOwnStep, EngineExec, EngineStartFails, EngineEnd,
      EngineFault,
       GuestEnd, CancelReason, sessionVars, AskedInv
<1>8. CASE UNCHANGED vars
  BY <1>8 DEF vars, sessionVars, engineVars, AskedInv
<1> QED BY <1>1, <1>2, <1>3, <1>4, <1>5, <1>6, <1>7, <1>8 DEF Next, ClientStep, Finished

(* Nobody takes a request to stop back.                                    *)
LEMMA AskedForever == TypeOK /\ [Next]_vars /\ StopAsked => StopAsked'
<1> SUFFICES ASSUME TypeOK, [Next]_vars, StopAsked PROVE StopAsked'
  OBVIOUS
<1> USE SessionAssumption DEF StopAsked
<1>1. ASSUME NEW c \in Client, StartBegin(c) \/ CancelBegin(c) \/ WaitBegin(c) \/ WaitReturn(c)
                               \/ WaitTimeout(c)
      PROVE  StopAsked'
  BY <1>1 DEF StartBegin, CancelBegin, WaitBegin, WaitReturn, WaitTimeout, engineVars
<1>2. ASSUME NEW c \in Client, StartStep(c) PROVE StopAsked'
  BY <1>2 DEF StartStep,
       StartSelect, StartPublish, StartCheck, StartEngine, StartReturn, StartReap, FailResult,
       FailTransition, StartRunning, StartRecheck, StartThreads, InlineWait, InlineTransition,
       engineVars, EngineCreate, EngineStart, EngineCancel, CancelIfRequested, CancelInst,
       FirstReason, CancelReason
<1>3. ASSUME NEW c \in Client, CancelStep(c) PROVE StopAsked'
  BY <1>3 DEF CancelStep, CancelGet, CancelTransition, CancelResult, CancelReach,
       engineVars, EngineCreate, EngineStart, EngineCancel, CancelIfRequested, CancelInst,
       FirstReason, CancelReason
<1>4. CASE WaiterStep \/ WatchdogStep
  BY <1>4 DEF WaiterStep, WaiterWait, WaiterResult, WaiterTransition, WaiterStop,
       WatchdogStep, WatchdogStopped, WatchdogExpires, WatchdogFire,
       engineVars, EngineCreate, EngineStart, EngineCancel, CancelIfRequested, CancelInst,
       FirstReason, CancelReason
<1>5. CASE DtorBegin \/ DtorStep
  BY <1>5 DEF DtorBegin, DtorStep, DtorJoinWaiter, DtorStopWatchdog, DtorJoinWatchdog,
       DtorReset, engineVars
<1>6. CASE EngineStep
  BY <1>6 DEF EngineStep, EngineOwnStep, EngineExec, EngineStartFails, EngineEnd,
      EngineFault,
       sessionVars
<1>7. CASE UNCHANGED vars
  BY <1>7 DEF vars, sessionVars, engineVars
<1> QED BY <1>1, <1>2, <1>3, <1>4, <1>5, <1>6, <1>7 DEF Next, ClientStep, Finished

(* A step that changes the state takes an edge of the diagram, and one     *)
(* into "cancelled" only when a stop was asked for.                        *)
LEMMA EdgeStep ==
  ASSUME Inv, AskedInv, [Next]_vars, state' # state
  PROVE  can_transition(state, state') /\ (state' = "cancelled" => StopAsked')
<1> USE SessionAssumption DEF StopAsked, transition
<1>1. ASSUME NEW c \in Client,
             StartBegin(c) PROVE can_transition(state, state') /\ state' # "cancelled"
  BY <1>1 DEF StartBegin
<1>2. ASSUME NEW c \in Client, StartStep(c)
      PROVE  can_transition(state, state') /\ (state' = "cancelled" => StopAsked')
  BY <1>2 DEF StartStep,
       StartSelect, StartPublish, StartCheck, StartEngine, StartReturn, StartReap, FailResult,
       FailTransition, StartRunning, StartRecheck, StartThreads, InlineWait, InlineTransition
<1>3. ASSUME NEW c \in Client, CancelStep(c)
      PROVE  can_transition(state, state') /\ StopAsked'
  BY <1>3 DEF CancelStep, CancelGet, CancelTransition, CancelResult, CancelReach, Goto,
       AskedInv, CancelPC
<1>4. CASE WaiterStep
  BY <1>4 DEF WaiterStep, WaiterWait, WaiterResult, WaiterTransition, WaiterStop,
      TerminalOf,
       AskedInv, engineVars
<1>5. CASE DtorBegin \/ DtorStep
  BY <1>5 DEF DtorBegin, DtorStep, DtorJoinWaiter, DtorStopWatchdog, DtorJoinWatchdog,
       DtorReset, can_transition
<1>6. CASE WatchdogStep \/ EngineStep \/ UNCHANGED vars
  BY <1>6 DEF WatchdogStep, WatchdogStopped, WatchdogExpires, WatchdogFire, EngineStep,
      vars,
       sessionVars
<1>7. ASSUME NEW c \in Client, CancelBegin(c) \/ WaitBegin(c) \/ WaitReturn(c) \/ WaitTimeout(c)
      PROVE  FALSE
  BY <1>7 DEF CancelBegin, WaitBegin, WaitReturn, WaitTimeout
<1> QED BY <1>1, <1>2, <1>3, <1>4, <1>5, <1>6, <1>7 DEF Next, ClientStep, Finished

(* The session implements the lifecycle of core/lifecycle.hpp: every step  *)
(* of every thread is an edge of the diagram, a request to stop, or none.  *)
THEOREM LifecycleRefinement == Spec => ImplementsLifecycle
<1>1. Init => L!LifecycleInit
  BY SessionAssumption DEF Init, EngineInit, L!LifecycleInit, StopAsked
<1>2. ASSUME Inv, AskedInv, [Next]_vars
      PROVE  [L!LifecycleNext]_(L!lifecycleVars)
  <2>1. StopAsked \in BOOLEAN /\ StopAsked' \in BOOLEAN
    BY DEF StopAsked
  <2>2. StopAsked => StopAsked'
    BY <1>2, AskedForever DEF Inv
  <2>3. CASE state' # state
    <3>1. state' \in State
      BY <1>2, TypeStep DEF Inv, TypeOK
    <3>2. L!Edge(state')
      BY <1>2, <2>1, <2>2, <2>3, EdgeStep DEF L!Edge, L!can_transition, can_transition
    <3> QED BY <3>1, <3>2 DEF L!LifecycleNext, L!State, State
  <2>4. CASE state' = state /\ StopAsked' # StopAsked
    BY <2>1, <2>2, <2>4 DEF L!LifecycleNext, L!AskStop
  <2>5. CASE state' = state /\ StopAsked' = StopAsked
    BY <2>5 DEF L!lifecycleVars
  <2> QED BY <2>3, <2>4, <2>5
<1>3. Inv => TypeOK
  BY DEF Inv
<1> QED BY <1>1, <1>2, <1>3, Invariant, AskedInit, AskedStep, PTL
        DEF Spec, ImplementsLifecycle, L!LifecycleSpec
-----------------------------------------------------------------------------
(* What wait() hands out.  A cancellation that cancel() saw in time, while *)
(* the session was still "created", reaches the engine before its first    *)
(* process: start() looks at cancel_requested_ after it published the      *)
(* instance.  So the engine cannot report the guest's own end any more.    *)
CancelledBeforeStart ==
  /\ cancel_requested
  /\ engine_result \notin GuestEnd
  /\ \/ cancel_reason # None
     \/ engine = "absent"
     \/ \E d \in Client : pc[d] = "start_check"

(* Where the reasons come from.                                            *)
ReasonInv ==
  /\ engine = "done" <=> engine_result # None
  /\ engine_result \in CancelReason => engine_result = cancel_reason
  /\ got # None => got = engine_result
  /\ result \in GuestEnd \cup {"timeout"} => result = engine_result
  /\ waiter \in {"result", "transition", "stop", "end"} => got # None
  /\ waiter = "transition" => result # None /\ (result = got \/ state = "cancelled")
  /\ \A c \in Client : pc[c] = "fail_transition" => result \in {"start_failed", "cancelled"}
  /\ \A c \in Client : pc[c] = "inline_transition" => result # None

(* Who may have timed the session out.                                     *)
TimeoutInv ==
  /\ watchdog # "none" => HasTimeout
  /\ cancel_reason = "timeout" => watchdog = "end"

(* Why a session is cancelled, or about to be.                             *)
CancelledInv ==
  /\ \A c \in Client : pc[c] = "cancel_transition" => CancelledBeforeStart
  /\ state = "cancelled" =>
       \/ CancelledBeforeStart
       \/ engine_result \in CancelReason
       \/ NoStarter /\ waiter = "none" /\ result \notin GuestEnd

(* The reason that goes with a final state.                                *)
ResultInv ==
  /\ state = "exited" => result \in GuestEnd
  /\ state = "failed" => result # None

ReportsInv ==
  \A rep \in reports :
    /\ is_terminal(state) /\ rep[1] = state
    /\ rep[2] # None
    /\ state \in {"exited", "failed"} => rep[2] = result
    /\ state = "cancelled" => rep[2] \notin GuestEnd
    /\ rep[2] = "timeout" => cancel_reason = "timeout"

OutcomeInv == ReasonInv /\ TimeoutInv /\ CancelledInv /\ ResultInv /\ ReportsInv

(* A reason is the engine's, or cancel()'s or fail_start()'s own.          *)
LEMMA ReasonStep ==
  ASSUME Inv, AskedInv, OutcomeInv, [Next]_vars
  PROVE  ReasonInv'
<1> USE SessionAssumption DEF Goto, engineVars, Inv, TypeOK, EngineTypeOK, InStart, StartPC, PC,
        Control, StarterInv, AtPoint, WaiterInv, CancelInv, OutcomeInv, ReasonInv, GuestEnd,
        CancelReason, ExitReason
<1>1. ASSUME NEW c \in Client, StartBegin(c) PROVE ReasonInv'
  BY <1>1 DEF StartBegin, Call, can_transition
<1>2. ASSUME NEW c \in Client, CancelBegin(c) PROVE ReasonInv'
  BY <1>2 DEF CancelBegin, Call
<1>3. ASSUME NEW c \in Client, WaitBegin(c) PROVE ReasonInv'
  BY <1>3 DEF WaitBegin, Call
<1>4. ASSUME NEW c \in Client, StartSelect(c) PROVE ReasonInv'
  BY <1>4 DEF StartSelect
<1>5. ASSUME NEW c \in Client, StartPublish(c) PROVE ReasonInv'
  BY <1>5 DEF StartPublish, EngineCreate
<1>6. ASSUME NEW c \in Client, StartCheck(c) PROVE ReasonInv'
  BY <1>6 DEF StartCheck, CancelIfRequested, EngineCancel, FirstReason
<1>7. ASSUME NEW c \in Client, StartEngine(c) PROVE ReasonInv'
  BY <1>7 DEF StartEngine, EngineStart
<1>8. ASSUME NEW c \in Client, StartReturn(c) PROVE ReasonInv'
  BY <1>8 DEF StartReturn, EngineCancel, FirstReason
<1>9. ASSUME NEW c \in Client, StartReap(c) PROVE ReasonInv'
  BY <1>9 DEF StartReap
<1>10. ASSUME NEW c \in Client, FailResult(c) PROVE ReasonInv'
  BY <1>10 DEF FailResult
<1>11. ASSUME NEW c \in Client, FailTransition(c) PROVE ReasonInv'
  BY <1>11 DEF FailTransition, transition, can_transition
<1>12. ASSUME NEW c \in Client, StartRunning(c) PROVE ReasonInv'
  BY <1>12 DEF StartRunning, EngineCancel, FirstReason, transition, can_transition
<1>13. ASSUME NEW c \in Client, StartRecheck(c) PROVE ReasonInv'
  BY <1>13 DEF StartRecheck, CancelIfRequested, EngineCancel, FirstReason
<1>14. ASSUME NEW c \in Client, StartThreads(c) PROVE ReasonInv'
  BY <1>14 DEF StartThreads, EngineCancel, FirstReason
<1>15. ASSUME NEW c \in Client, InlineWait(c) PROVE ReasonInv'
  BY <1>15 DEF InlineWait, EngineWait, OneStarter
<1>16. ASSUME NEW c \in Client, InlineTransition(c) PROVE ReasonInv'
  BY <1>16 DEF InlineTransition, transition, can_transition
<1>17. ASSUME NEW c \in Client, CancelGet(c) PROVE ReasonInv'
  BY <1>17 DEF CancelGet
<1>18. ASSUME NEW c \in Client, CancelTransition(c) PROVE ReasonInv'
  BY <1>18 DEF CancelTransition, transition, can_transition
<1>19. ASSUME NEW c \in Client, CancelResult(c) PROVE ReasonInv'
  BY <1>19 DEF CancelResult
<1>20. ASSUME NEW c \in Client, CancelReach(c) PROVE ReasonInv'
  BY <1>20 DEF CancelReach, CancelInst, EngineCancel, FirstReason
<1>21. ASSUME NEW c \in Client, WaitReturn(c) PROVE ReasonInv'
  BY <1>21 DEF WaitReturn, Reported
<1>22. ASSUME NEW c \in Client, WaitTimeout(c) PROVE ReasonInv'
  BY <1>22 DEF WaitTimeout
<1>23. CASE WaiterWait
  BY <1>23 DEF WaiterWait, EngineWait
<1>24. CASE WaiterResult
  BY <1>24 DEF WaiterResult
<1>25. CASE WaiterTransition
  BY <1>25 DEF WaiterTransition, transition, can_transition, TerminalOf
<1>26. CASE WaiterStop
  BY <1>26 DEF WaiterStop
<1>27. CASE WatchdogStopped
  BY <1>27 DEF WatchdogStopped
<1>28. CASE WatchdogExpires
  BY <1>28 DEF WatchdogExpires
<1>29. CASE WatchdogFire
  BY <1>29 DEF WatchdogFire, CancelInst, EngineCancel, FirstReason
<1>30. CASE DtorBegin
  BY <1>30 DEF DtorBegin, CancelInst, EngineCancel, FirstReason
<1>31. CASE DtorJoinWaiter
  BY <1>31 DEF DtorJoinWaiter
<1>32. CASE DtorStopWatchdog
  BY <1>32 DEF DtorStopWatchdog
<1>33. CASE DtorJoinWatchdog
  BY <1>33 DEF DtorJoinWatchdog
<1>34. CASE DtorReset
  BY <1>34 DEF DtorReset
<1>35. CASE EngineStep
  BY <1>35 DEF EngineStep, EngineOwnStep, EngineExec, EngineStartFails, EngineEnd, EngineFault,
         sessionVars
<1>36. CASE UNCHANGED vars
  BY <1>36 DEF vars, sessionVars
<1> HIDE DEF Goto, engineVars, Inv, TypeOK, EngineTypeOK, InStart, StartPC, PC, Control,
         StarterInv, AtPoint, WaiterInv, CancelInv, OutcomeInv, ReasonInv, GuestEnd, CancelReason,
         ExitReason
<1> QED BY <1>1, <1>2, <1>3, <1>4, <1>5, <1>6, <1>7, <1>8, <1>9, <1>10, <1>11, <1>12, <1>13,
       <1>14, <1>15, <1>16, <1>17, <1>18, <1>19, <1>20, <1>21, <1>22, <1>23, <1>24, <1>25, <1>26,
       <1>27, <1>28, <1>29, <1>30, <1>31, <1>32, <1>33, <1>34, <1>35, <1>36 DEF Next, ClientStep,
       StartStep, CancelStep, WaiterStep, WatchdogStep, DtorStep, Finished

(* Only the watchdog gives a timeout as the reason.                        *)
LEMMA TimeoutStep ==
  ASSUME Inv, AskedInv, OutcomeInv, [Next]_vars
  PROVE  TimeoutInv'
<1> USE SessionAssumption DEF Goto, engineVars, Inv, TypeOK, EngineTypeOK, InStart, StartPC, PC,
        Control, StarterInv, WaiterInv, OutcomeInv, TimeoutInv, CancelReason
<1>1. ASSUME NEW c \in Client, StartBegin(c) PROVE TimeoutInv'
  BY <1>1 DEF StartBegin, Call, can_transition
<1>2. ASSUME NEW c \in Client, CancelBegin(c) PROVE TimeoutInv'
  BY <1>2 DEF CancelBegin, Call
<1>3. ASSUME NEW c \in Client, WaitBegin(c) PROVE TimeoutInv'
  BY <1>3 DEF WaitBegin, Call
<1>4. ASSUME NEW c \in Client, StartSelect(c) PROVE TimeoutInv'
  BY <1>4 DEF StartSelect
<1>5. ASSUME NEW c \in Client, StartPublish(c) PROVE TimeoutInv'
  BY <1>5 DEF StartPublish, EngineCreate
<1>6. ASSUME NEW c \in Client, StartCheck(c) PROVE TimeoutInv'
  BY <1>6 DEF StartCheck, CancelIfRequested, EngineCancel, FirstReason
<1>7. ASSUME NEW c \in Client, StartEngine(c) PROVE TimeoutInv'
  BY <1>7 DEF StartEngine, EngineStart
<1>8. ASSUME NEW c \in Client, StartReturn(c) PROVE TimeoutInv'
  BY <1>8 DEF StartReturn, EngineCancel, FirstReason
<1>9. ASSUME NEW c \in Client, StartReap(c) PROVE TimeoutInv'
  BY <1>9 DEF StartReap
<1>10. ASSUME NEW c \in Client, FailResult(c) PROVE TimeoutInv'
  BY <1>10 DEF FailResult
<1>11. ASSUME NEW c \in Client, FailTransition(c) PROVE TimeoutInv'
  BY <1>11 DEF FailTransition, transition, can_transition
<1>12. ASSUME NEW c \in Client, StartRunning(c) PROVE TimeoutInv'
  BY <1>12 DEF StartRunning, EngineCancel, FirstReason, transition, can_transition
<1>13. ASSUME NEW c \in Client, StartRecheck(c) PROVE TimeoutInv'
  BY <1>13 DEF StartRecheck, CancelIfRequested, EngineCancel, FirstReason
<1>14. ASSUME NEW c \in Client, StartThreads(c) PROVE TimeoutInv'
  BY <1>14 DEF StartThreads, EngineCancel, FirstReason
<1>15. ASSUME NEW c \in Client, InlineWait(c) PROVE TimeoutInv'
  BY <1>15 DEF InlineWait, EngineWait, OneStarter
<1>16. ASSUME NEW c \in Client, InlineTransition(c) PROVE TimeoutInv'
  BY <1>16 DEF InlineTransition, transition, can_transition
<1>17. ASSUME NEW c \in Client, CancelGet(c) PROVE TimeoutInv'
  BY <1>17 DEF CancelGet
<1>18. ASSUME NEW c \in Client, CancelTransition(c) PROVE TimeoutInv'
  BY <1>18 DEF CancelTransition, transition, can_transition
<1>19. ASSUME NEW c \in Client, CancelResult(c) PROVE TimeoutInv'
  BY <1>19 DEF CancelResult
<1>20. ASSUME NEW c \in Client, CancelReach(c) PROVE TimeoutInv'
  BY <1>20 DEF CancelReach, CancelInst, EngineCancel, FirstReason
<1>21. ASSUME NEW c \in Client, WaitReturn(c) PROVE TimeoutInv'
  BY <1>21 DEF WaitReturn, Reported
<1>22. ASSUME NEW c \in Client, WaitTimeout(c) PROVE TimeoutInv'
  BY <1>22 DEF WaitTimeout
<1>23. CASE WaiterWait
  BY <1>23 DEF WaiterWait, EngineWait
<1>24. CASE WaiterResult
  BY <1>24 DEF WaiterResult
<1>25. CASE WaiterTransition
  BY <1>25 DEF WaiterTransition, transition, can_transition, TerminalOf
<1>26. CASE WaiterStop
  BY <1>26 DEF WaiterStop
<1>27. CASE WatchdogStopped
  BY <1>27 DEF WatchdogStopped
<1>28. CASE WatchdogExpires
  BY <1>28 DEF WatchdogExpires
<1>29. CASE WatchdogFire
  BY <1>29 DEF WatchdogFire, CancelInst, EngineCancel, FirstReason
<1>30. CASE DtorBegin
  BY <1>30 DEF DtorBegin, CancelInst, EngineCancel, FirstReason
<1>31. CASE DtorJoinWaiter
  BY <1>31 DEF DtorJoinWaiter
<1>32. CASE DtorStopWatchdog
  BY <1>32 DEF DtorStopWatchdog
<1>33. CASE DtorJoinWatchdog
  BY <1>33 DEF DtorJoinWatchdog
<1>34. CASE DtorReset
  BY <1>34 DEF DtorReset
<1>35. CASE EngineStep
  BY <1>35 DEF EngineStep, EngineOwnStep, EngineExec, EngineStartFails, EngineEnd, EngineFault,
         sessionVars
<1>36. CASE UNCHANGED vars
  BY <1>36 DEF vars, sessionVars
<1> HIDE DEF Goto, engineVars, Inv, TypeOK, EngineTypeOK, InStart, StartPC, PC, Control,
         StarterInv, WaiterInv, OutcomeInv, TimeoutInv, CancelReason
<1> QED BY <1>1, <1>2, <1>3, <1>4, <1>5, <1>6, <1>7, <1>8, <1>9, <1>10, <1>11, <1>12, <1>13,
       <1>14, <1>15, <1>16, <1>17, <1>18, <1>19, <1>20, <1>21, <1>22, <1>23, <1>24, <1>25, <1>26,
       <1>27, <1>28, <1>29, <1>30, <1>31, <1>32, <1>33, <1>34, <1>35, <1>36 DEF Next, ClientStep,
       StartStep, CancelStep, WaiterStep, WatchdogStep, DtorStep, Finished

(* A session is cancelled in time, by the engine, or after a failed start. *)
LEMMA CancelledStep ==
  ASSUME Inv, AskedInv, OutcomeInv, [Next]_vars
  PROVE  CancelledInv'
<1> USE SessionAssumption DEF Goto, engineVars, Inv, TypeOK, EngineTypeOK, InStart, StartPC, PC,
        Control, OneStarter, StarterInv, AtPoint, NoStarterInv, NoStarter, WaiterInv, CancelInv,
        EngineInv, DtorInv, AskedInv, CancelPC, OutcomeInv, ReasonInv, CancelledInv,
        CancelledBeforeStart, GuestEnd, CancelReason, ExitReason
<1>1. ASSUME NEW c \in Client, StartBegin(c) PROVE CancelledInv'
  BY <1>1 DEF StartBegin, Call, can_transition
<1>2. ASSUME NEW c \in Client, CancelBegin(c) PROVE CancelledInv'
  BY <1>2 DEF CancelBegin, Call
<1>3. ASSUME NEW c \in Client, WaitBegin(c) PROVE CancelledInv'
  BY <1>3 DEF WaitBegin, Call
<1>4. ASSUME NEW c \in Client, StartSelect(c) PROVE CancelledInv'
  BY <1>4 DEF StartSelect
<1>5. ASSUME NEW c \in Client, StartPublish(c) PROVE CancelledInv'
  BY <1>5 DEF StartPublish, EngineCreate
<1>6. ASSUME NEW c \in Client, StartCheck(c) PROVE CancelledInv'
  BY <1>6 DEF StartCheck, CancelIfRequested, EngineCancel, FirstReason
<1>7. ASSUME NEW c \in Client, StartEngine(c) PROVE CancelledInv'
  BY <1>7 DEF StartEngine, EngineStart
<1>8. ASSUME NEW c \in Client, StartReturn(c) PROVE CancelledInv'
  BY <1>8 DEF StartReturn, EngineCancel, FirstReason
<1>9. ASSUME NEW c \in Client, StartReap(c) PROVE CancelledInv'
  BY <1>9 DEF StartReap
<1>10. ASSUME NEW c \in Client, FailResult(c) PROVE CancelledInv'
  BY <1>10 DEF FailResult
<1>11. ASSUME NEW c \in Client, FailTransition(c) PROVE CancelledInv'
  BY <1>11 DEF FailTransition, transition, can_transition
<1>12. ASSUME NEW c \in Client, StartRunning(c) PROVE CancelledInv'
  BY <1>12 DEF StartRunning, EngineCancel, FirstReason, transition, can_transition
<1>13. ASSUME NEW c \in Client, StartRecheck(c) PROVE CancelledInv'
  BY <1>13 DEF StartRecheck, CancelIfRequested, EngineCancel, FirstReason
<1>14. ASSUME NEW c \in Client, StartThreads(c) PROVE CancelledInv'
  BY <1>14 DEF StartThreads, EngineCancel, FirstReason
<1>15. ASSUME NEW c \in Client, InlineWait(c) PROVE CancelledInv'
  BY <1>15 DEF InlineWait, EngineWait, OneStarter
<1>16. ASSUME NEW c \in Client, InlineTransition(c) PROVE CancelledInv'
  BY <1>16 DEF InlineTransition, transition, can_transition
<1>17. ASSUME NEW c \in Client, CancelGet(c) PROVE CancelledInv'
  BY <1>17 DEF CancelGet
<1>18. ASSUME NEW c \in Client, CancelTransition(c) PROVE CancelledInv'
  BY <1>18 DEF CancelTransition, transition, can_transition
<1>19. ASSUME NEW c \in Client, CancelResult(c) PROVE CancelledInv'
  BY <1>19 DEF CancelResult
<1>20. ASSUME NEW c \in Client, CancelReach(c) PROVE CancelledInv'
  BY <1>20 DEF CancelReach, CancelInst, EngineCancel, FirstReason
<1>21. ASSUME NEW c \in Client, WaitReturn(c) PROVE CancelledInv'
  BY <1>21 DEF WaitReturn, Reported
<1>22. ASSUME NEW c \in Client, WaitTimeout(c) PROVE CancelledInv'
  BY <1>22 DEF WaitTimeout
<1>23. CASE WaiterWait
  BY <1>23 DEF WaiterWait, EngineWait
<1>24. CASE WaiterResult
  BY <1>24 DEF WaiterResult
<1>25. CASE WaiterTransition
  BY <1>25 DEF WaiterTransition, transition, can_transition, TerminalOf
<1>26. CASE WaiterStop
  BY <1>26 DEF WaiterStop
<1>27. CASE WatchdogStopped
  BY <1>27 DEF WatchdogStopped
<1>28. CASE WatchdogExpires
  BY <1>28 DEF WatchdogExpires
<1>29. CASE WatchdogFire
  BY <1>29 DEF WatchdogFire, CancelInst, EngineCancel, FirstReason
<1>30. CASE DtorBegin
  BY <1>30 DEF DtorBegin, CancelInst, EngineCancel, FirstReason
<1>31. CASE DtorJoinWaiter
  BY <1>31 DEF DtorJoinWaiter
<1>32. CASE DtorStopWatchdog
  BY <1>32 DEF DtorStopWatchdog
<1>33. CASE DtorJoinWatchdog
  BY <1>33 DEF DtorJoinWatchdog
<1>34. CASE DtorReset
  BY <1>34 DEF DtorReset
<1>35. CASE EngineStep
  BY <1>35 DEF EngineStep, EngineOwnStep, EngineExec, EngineStartFails, EngineEnd, EngineFault,
         sessionVars
<1>36. CASE UNCHANGED vars
  BY <1>36 DEF vars, sessionVars
<1> HIDE DEF Goto, engineVars, Inv, TypeOK, EngineTypeOK, InStart, StartPC, PC, Control,
         OneStarter, StarterInv, AtPoint, NoStarterInv, NoStarter, WaiterInv, CancelInv,
         EngineInv, DtorInv, AskedInv, CancelPC, OutcomeInv, ReasonInv, CancelledInv,
         CancelledBeforeStart, GuestEnd, CancelReason, ExitReason
<1> QED BY <1>1, <1>2, <1>3, <1>4, <1>5, <1>6, <1>7, <1>8, <1>9, <1>10, <1>11, <1>12, <1>13,
       <1>14, <1>15, <1>16, <1>17, <1>18, <1>19, <1>20, <1>21, <1>22, <1>23, <1>24, <1>25, <1>26,
       <1>27, <1>28, <1>29, <1>30, <1>31, <1>32, <1>33, <1>34, <1>35, <1>36 DEF Next, ClientStep,
       StartStep, CancelStep, WaiterStep, WatchdogStep, DtorStep, Finished

(* A final state comes with a reason: the guest's own end for "exited".    *)
LEMMA ResultStep ==
  ASSUME Inv, AskedInv, OutcomeInv, [Next]_vars
  PROVE  ResultInv'
<1>1. CASE state' = state
  BY <1>1, FinalStep DEF OutcomeInv, ResultInv
<1>2. CASE state' # state
  <2> USE SessionAssumption DEF OutcomeInv, ReasonInv, ResultInv, transition, can_transition
  <2>1. ASSUME NEW c \in Client, FailTransition(c) \/ InlineTransition(c) PROVE ResultInv'
    BY <1>2, <2>1 DEF FailTransition, InlineTransition, Goto
  <2>2. CASE WaiterTransition
    BY <1>2, <2>2 DEF WaiterTransition, TerminalOf, Inv, TypeOK, ExitReason
  <2>3. ASSUME NEW c \in Client,
               StartBegin(c) \/ StartRunning(c) \/ CancelTransition(c)
        PROVE  ResultInv'
    BY <1>2, <2>3 DEF StartBegin, StartRunning, CancelTransition
  <2>4. CASE DtorBegin
    BY <1>2, <2>4 DEF DtorBegin
  <2>5. ASSUME NEW c \in Client,
               \/ CancelBegin(c) \/ WaitBegin(c) \/ StartSelect(c) \/ StartPublish(c)
               \/ StartCheck(c) \/ StartEngine(c) \/ StartReturn(c) \/ StartReap(c)
               \/ FailResult(c) \/ StartRecheck(c) \/ StartThreads(c) \/ InlineWait(c)
               \/ CancelGet(c) \/ CancelResult(c) \/ CancelReach(c)
               \/ WaitReturn(c) \/ WaitTimeout(c)
        PROVE  FALSE
    BY <1>2, <2>5 DEF CancelBegin, WaitBegin, StartSelect, StartPublish, StartCheck, StartEngine,
       StartReturn, StartReap, FailResult, StartRecheck, StartThreads, InlineWait, CancelGet,
       CancelResult, CancelReach, WaitReturn, WaitTimeout
  <2>6. CASE WaiterWait \/ WaiterResult \/ WaiterStop \/ WatchdogStep \/ DtorStep \/ EngineStep
             \/ UNCHANGED vars
    BY <1>2, <2>6 DEF WaiterWait, WaiterResult, WaiterStop, WatchdogStep, WatchdogStopped,
       WatchdogExpires, WatchdogFire, DtorStep, DtorJoinWaiter, DtorStopWatchdog,
       DtorJoinWatchdog, DtorReset, EngineStep, vars, sessionVars
  <2> HIDE DEF OutcomeInv, ReasonInv, ResultInv, transition, can_transition
  <2> QED BY <2>1, <2>2, <2>3, <2>4, <2>5, <2>6
          DEF Next, ClientStep, StartStep, CancelStep, WaiterStep, Finished
<1> QED BY <1>1, <1>2

(* The first reason to cancel is never replaced.                           *)
LEMMA TimeoutStays ==
  ASSUME Inv, [Next]_vars, cancel_reason = "timeout"
  PROVE  cancel_reason' = "timeout"
<1> USE SessionAssumption DEF engineVars, EngineCancel, FirstReason, CancelIfRequested, CancelInst
<1>1. ASSUME NEW c \in Client, StartBegin(c) \/ CancelBegin(c) \/ WaitBegin(c) \/ WaitReturn(c)
                               \/ WaitTimeout(c)
      PROVE  UNCHANGED cancel_reason
  BY <1>1 DEF StartBegin, CancelBegin, WaitBegin, WaitReturn, WaitTimeout
<1>2. ASSUME NEW c \in Client, StartStep(c) PROVE UNCHANGED cancel_reason
  BY <1>2 DEF StartStep, StartSelect, StartPublish, StartCheck, StartEngine, StartReturn,
     StartReap, FailResult, FailTransition, StartRunning, StartRecheck, StartThreads, InlineWait,
     InlineTransition, EngineCreate, EngineStart
<1>3. ASSUME NEW c \in Client, CancelStep(c) PROVE UNCHANGED cancel_reason
  BY <1>3 DEF CancelStep, CancelGet, CancelTransition, CancelResult, CancelReach
<1>4. CASE WaiterStep \/ WatchdogStep
  BY <1>4 DEF WaiterStep, WaiterWait, WaiterResult, WaiterTransition, WaiterStop, WatchdogStep,
     WatchdogStopped, WatchdogExpires, WatchdogFire
<1>5. CASE DtorBegin \/ DtorStep
  BY <1>5 DEF DtorBegin, DtorStep, DtorJoinWaiter, DtorStopWatchdog, DtorJoinWatchdog, DtorReset
<1>6. CASE EngineStep
  BY <1>6 DEF EngineStep, EngineOwnStep, EngineExec, EngineStartFails, EngineEnd, EngineFault
<1>7. CASE UNCHANGED vars
  BY <1>7 DEF vars
<1> QED BY <1>1, <1>2, <1>3, <1>4, <1>5, <1>6, <1>7 DEF Next, ClientStep, Finished

(* Only wait() reports, and what it has reported stays true.               *)
LEMMA ReportsStep ==
  ASSUME Inv, AskedInv, OutcomeInv, [Next]_vars
  PROVE  ReportsInv'
<1>1. is_terminal(state) => state' = state
  BY EdgeStep DEF is_terminal, Terminal, can_transition
<1>2. state \in {"exited", "failed"} => result' = result
  BY FinalStep
<1>3. cancel_reason = "timeout" => cancel_reason' = "timeout"
  BY TimeoutStays
<1>4. CASE reports' = reports
  BY <1>1, <1>2, <1>3, <1>4 DEF OutcomeInv, ReportsInv
<1>5. ASSUME NEW c \in Client, WaitReturn(c) PROVE ReportsInv'
  <2> DEFINE rep == <<state, Reported>>
  <2>1. /\ reports' = reports \cup {rep} /\ is_terminal(state)
        /\ UNCHANGED <<state, result, engineVars>>
    BY <1>5 DEF WaitReturn
  <2>2. Reported # None
    BY <2>1, SessionAssumption DEF Reported, is_terminal, Terminal, OutcomeInv, ResultInv,
           GuestEnd
  <2>3. state \in {"exited", "failed"} => Reported = result
    BY DEF Reported
  <2>4. state = "cancelled" => result \notin GuestEnd
    BY SessionAssumption
       DEF OutcomeInv, CancelledInv, CancelledBeforeStart, ReasonInv, GuestEnd, CancelReason
  <2>5. state = "cancelled" => Reported \notin GuestEnd
    BY <2>4 DEF Reported, GuestEnd
  <2>6. Reported = "timeout" => cancel_reason = "timeout"
    BY DEF Reported, OutcomeInv, ReasonInv, CancelReason
  <2> QED BY <2>1, <2>2, <2>3, <2>5, <2>6 DEF OutcomeInv, ReportsInv, engineVars
<1>6. reports' = reports \/ \E c \in Client : WaitReturn(c)
  <2>1. ASSUME NEW c \in Client, StartBegin(c) \/ CancelBegin(c) \/ WaitBegin(c) \/ StartStep(c)
                                 \/ CancelStep(c) \/ WaitTimeout(c)
        PROVE  reports' = reports
    BY <2>1 DEF StartBegin, CancelBegin, WaitBegin, WaitTimeout, StartStep, StartSelect,
       StartPublish, StartCheck, StartEngine, StartReturn, StartReap, FailResult, FailTransition,
       StartRunning, StartRecheck, StartThreads, InlineWait, InlineTransition, CancelStep,
       CancelGet, CancelTransition, CancelResult, CancelReach
  <2>2. WaiterStep \/ WatchdogStep \/ DtorBegin \/ DtorStep \/ EngineStep \/ UNCHANGED vars
          => reports' = reports
    BY DEF WaiterStep, WaiterWait, WaiterResult, WaiterTransition, WaiterStop, WatchdogStep,
       WatchdogStopped, WatchdogExpires, WatchdogFire, DtorBegin, DtorStep, DtorJoinWaiter,
       DtorStopWatchdog, DtorJoinWatchdog, DtorReset, EngineStep, vars, sessionVars
  <2> QED BY <2>1, <2>2 DEF Next, ClientStep, Finished
<1> QED BY <1>4, <1>5, <1>6

LEMMA OutcomeInit == Init => OutcomeInv
BY SessionAssumption
   DEF Init, EngineInit, OutcomeInv, ReasonInv, TimeoutInv, CancelledInv, ResultInv, ReportsInv,
       GuestEnd, CancelReason

(* Every wait() hands out an outcome that fits, whichever of cancel(), the *)
(* watchdog, a failed start() and the guest's own end came first.          *)
THEOREM ReportsAreRight == Spec => []ReportsFit
<1>1. Inv /\ OutcomeInv => ReportsFit
  <2> SUFFICES ASSUME Inv, OutcomeInv, NEW rep \in reports
               PROVE  /\ rep[2] # None
                      /\ rep[1] = "exited" => rep[2] \in GuestEnd
                      /\ rep[1] = "cancelled" => rep[2] \notin GuestEnd
                      /\ rep[2] = "timeout" => HasTimeout /\ watchdog = "end"
                      /\ rep[1] \in {"exited", "failed"} => reports = {rep}
    BY DEF ReportsFit
  <2>1. \A r \in reports : r = <<r[1], r[2]>>
    BY DEF Inv, TypeOK
  <2>2. rep[1] \in {"exited", "failed"} => \A r \in reports : r[1] = rep[1] /\ r[2] = rep[2]
    BY DEF OutcomeInv, ReportsInv
  <2>3. rep[1] \in {"exited", "failed"} => reports = {rep}
    BY <2>1, <2>2
  <2> QED BY <2>3 DEF OutcomeInv, ResultInv, ReportsInv, TimeoutInv
<1>2. Inv /\ AskedInv /\ OutcomeInv /\ [Next]_vars => OutcomeInv'
  BY ReasonStep, TimeoutStep, CancelledStep, ResultStep, ReportsStep DEF OutcomeInv
<1>3. Inv => TypeOK
  BY DEF Inv
<1> QED BY <1>1, <1>2, <1>3, Invariant, AskedInit, AskedStep, OutcomeInit, PTL DEF Spec
=============================================================================
