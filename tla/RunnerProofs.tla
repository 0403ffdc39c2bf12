---------------------------- MODULE RunnerProofs ----------------------------
(***************************************************************************)
(* Theorems about Runner, for every set of events, every number of calls   *)
(* in a message and every number of restarts.                              *)
(*                                                                         *)
(* The flags of the runner (running, turnInFlight, toolInFlight,           *)
(* shutdownRequested), its queues and the calls of the turn are kept by    *)
(* separate assignments all over the code.  Control says how they hang     *)
(* together with the await the wake cycle stands at; with TypeOK it is the *)
(* inductive invariant the first theorems follow from.  Two more rest on   *)
(* it: FilesInv, of what the two files keep of the conversation, and       *)
(* LineInv, of where each accepted event is and in which order they wait,  *)
(* from which the refinement of Inbox follows.                             *)
(***************************************************************************)
EXTENDS Runner, TLAPS

FlagsFollowPhase ==
  /\ running <=> phase # "off"
  /\ turnInFlight <=> phase \in TurnPhases
  /\ toolInFlight <=> phase \in ToolPhases
  /\ shutdownRequested => phase \in LoopPhases /\ exit # "no"

EventsInHand ==
  /\ resolver # None <=> phase \in WaitPhases
  /\ wakeEvent # None <=> phase = "loading"

QueuesFollowPhase ==
  /\ ~toolInFlight => deferredEvents = NoDeferred
  /\ resolver = Open => pendingInputs = <<>> /\ ~shutdownRequested
  /\ phase = "off" /\ exit = "no" => pendingInputs = <<>>

(* How many calls of the turn have no tool message yet: those not started,  *)
(* the one that runs, and those whose error was taken for recorded.         *)
CallsFollowPhase ==
  /\ phase = "calls" => calls > 0
  /\ phase \in {"calls", "called", "wait", "timedWait"} \cup RestPhases
       => conversation.unanswered = calls + conversation.mistaken
  /\ phase = "tool" => conversation.unanswered = calls + conversation.mistaken + 1
  /\ phase \in {"preCompact", "completing", "postCompact", "implicitWait"}
               \cup (SavePhases \ {"abortSave"})
       => conversation.unanswered = conversation.mistaken

Control == FlagsFollowPhase /\ EventsInHand /\ QueuesFollowPhase /\ CallsFollowPhase

IInv == TypeOK /\ Control

USE RunnerAssumption
USE DEF RunnerAssumption,
        Phases, LoopPhases, SavePhases, WaitPhases, RestPhases, ToolPhases, TurnPhases,
        loopVars, flagVars, queueVars, waitVars, diskVars, exitVars, histVars, Open, Null

-----------------------------------------------------------------------------
(* The helpers keep the types *)

LEMMA ReverseType ==
  ASSUME NEW S, NEW s \in Seq(S)
  PROVE  Reverse(s) \in Seq(S) /\ Len(Reverse(s)) = Len(s)
BY DEF Reverse

LEMMA PlaceType ==
  ASSUME NEW e \in Event, NEW queue \in Seq(Event)
  PROVE  Place(e, queue) \in Seq(Event)
BY DEF Place

LEMMA FlushedType ==
  ASSUME TypeOK
  PROVE  Flushed \in Seq(Event)
BY ReverseType DEF Flushed, TypeOK

Deferred == [front : Seq(Event), back : Seq(Event)]

LEMMA NoDeferredType == NoDeferred \in Deferred
<1>1. <<>> \in Seq(Event)
  OBVIOUS
<1> QED BY <1>1 DEF NoDeferred, Deferred

LEMMA EmptyType == Empty \in Conversation
BY DEF Empty, Conversation

LEMMA DeferType ==
  ASSUME TypeOK, NEW e \in Event, Defer(e)
  PROVE  deferredEvents' \in Deferred
<1> DEFINE d == deferredEvents
<1>1. d \in Deferred
  BY DEF TypeOK, Deferred
<1>2. CASE e \in Priority
  <2>1. <<e>> \o d.front \in Seq(Event)
    BY <1>1 DEF Deferred
  <2> QED BY <1>1, <1>2, <2>1 DEF Defer, Deferred
<1>3. CASE e \notin Priority
  <2>1. Append(d.back, e) \in Seq(Event)
    BY <1>1 DEF Deferred
  <2> QED BY <1>1, <1>3, <2>1 DEF Defer, Deferred
<1> QED BY <1>2, <1>3

LEMMA FlushDeferredEventsType ==
  ASSUME TypeOK, FlushDeferredEvents
  PROVE  pendingInputs' \in Seq(Event) /\ deferredEvents' \in Deferred
BY FlushedType, NoDeferredType DEF FlushDeferredEvents, TypeOK

LEMMA WaitForEventType ==
  ASSUME TypeOK, WaitForEvent
  PROVE  /\ pendingInputs' \in Seq(Event)
         /\ resolver' \in Event \cup {Open, Null}
<1>1. pendingInputs \in Seq(Event)
  BY DEF TypeOK
<1>2. pendingInputs # <<>> => Head(pendingInputs) \in Event /\ Tail(pendingInputs) \in Seq(Event)
  BY <1>1
<1> QED BY <1>1, <1>2 DEF WaitForEvent

LEMMA FinallyType ==
  ASSUME TypeOK, Finally
  PROVE  /\ deferredEvents' \in Deferred
         /\ conversation' \in Conversation
         /\ calls' \in 0..MaxCalls
         /\ phase' \in {"off", "loading"} /\ saveStep' = "session"
         /\ running' \in BOOLEAN
         /\ resolver' = None
         /\ wakeEvent' \in Event \cup {None}
         /\ pendingInputs' \in Seq(Event)
         /\ exit' \in {exit, "saved"}
<1> DEFINE queue == IF shutdownRequested THEN pendingInputs ELSE Flushed
<1>1. queue \in Seq(Event)
  BY FlushedType DEF TypeOK
<1>2. queue # <<>> => Head(queue) \in Event /\ Tail(queue) \in Seq(Event)
  BY <1>1
<1>3. WakeAgainOrStop(queue)
  BY DEF Finally
<1>4. wakeEvent \in Event \cup {None}
  BY DEF TypeOK
<1>5. /\ phase' \in {"off", "loading"} /\ running' \in BOOLEAN
      /\ wakeEvent' \in Event \cup {None} /\ pendingInputs' \in Seq(Event)
  <2> HIDE DEF queue
  <2> QED BY <1>1, <1>2, <1>3, <1>4 DEF WakeAgainOrStop, StartWake
<1> QED BY <1>5, NoDeferredType, EmptyType DEF Finally

LEMMA MistakenType ==
  ASSUME TypeOK, Control, ErrorTakenForRecorded
  PROVE  conversation' \in Conversation
<1>1. conversation \in Conversation /\ calls \in Nat
  BY DEF TypeOK
<1>2. conversation.unanswered = calls + conversation.mistaken + 1
  BY DEF ErrorTakenForRecorded, Control, CallsFollowPhase
<1>3. conversation.mistaken + 1 \in 0..MaxCalls
  BY <1>1, <1>2 DEF Conversation
<1> QED BY <1>1, <1>3 DEF ErrorTakenForRecorded, Conversation

LEMMA AnswerCallType ==
  ASSUME TypeOK, conversation.unanswered > 0, AnswerCall
  PROVE  conversation' \in Conversation
<1>1. conversation \in Conversation
  BY DEF TypeOK
<1>2. conversation.unanswered - 1 \in 0..MaxCalls
  BY <1>1 DEF Conversation
<1> QED BY <1>1, <1>2 DEF AnswerCall, Conversation

LEMMA TakeWaitResultType ==
  ASSUME TypeOK, TakeWaitResult
  PROVE  /\ conversation' \in Conversation
         /\ injected' \in SUBSET Event
         /\ resolver' = None
<1>1. conversation \in Conversation /\ injected \in SUBSET Event
  BY DEF TypeOK
<1>2. resolver \in Event \cup {Null}
  BY DEF TypeOK, TakeWaitResult
<1>3. ASSUME Inject(resolver), resolver \in Event
      PROVE  conversation' \in Conversation /\ injected' \in SUBSET Event
  <2>1. conversation.events \cup {resolver} \in SUBSET Event
    BY <1>1, <1>3 DEF Conversation
  <2> QED BY <1>1, <1>3, <2>1 DEF Inject, Conversation
<1> QED BY <1>1, <1>2, <1>3 DEF TakeWaitResult

LEMMA RestartType ==
  ASSUME TypeOK, Restart
  PROVE  TypeOK'
<1>1. accepted' \in Seq(Event) /\ pendingInputs' \in Seq(Event) /\ spent' \in SUBSET Event
  BY DEF Restart, TypeOK, ToSet
<1>2. restarts' \in 0..MaxRestarts
  BY DEF Restart, TypeOK
<1>3. conversation' \in Conversation /\ deferredEvents' \in Deferred
  BY EmptyType, NoDeferredType DEF Restart
<1>4. /\ phase' = "off" /\ saveStep' = "session" /\ calls' \in 0..MaxCalls
      /\ running' = FALSE /\ turnInFlight' = FALSE /\ toolInFlight' = FALSE
      /\ shutdownRequested' = FALSE /\ resolver' = None /\ wakeEvent' = None
      /\ exit' = "no" /\ failed' = FALSE
  BY DEF Restart
<1>5. /\ shutdownCopy' \in Sessions /\ session' \in Sessions
      /\ restSnapshot' \in SUBSET Event /\ injected' \in SUBSET Event
  BY DEF Restart, TypeOK, Sessions
<1> QED BY <1>1, <1>2, <1>3, <1>4, <1>5 DEF TypeOK, Deferred

LEMMA UnlessType ==
  ASSUME NEW next \in Phases, Unless(next)
  PROVE  phase' \in Phases
BY DEF Unless

LEMMA EndTurnType ==
  ASSUME EndTurn
  PROVE  calls' = 0 /\ turnInFlight' = FALSE /\ phase' \in Phases
BY UnlessType DEF EndTurn

LEMMA SummarizeType ==
  ASSUME TypeOK, Summarize
  PROVE  conversation' \in Conversation
<1>1. conversation \in Conversation
  BY DEF TypeOK
<1> QED BY <1>1 DEF Summarize, Conversation

-----------------------------------------------------------------------------
(* Types *)

LEMMA SubmitType ==
  ASSUME TypeOK, NEW e \in Event, NEW onlyIfWaiting \in BOOLEAN, Submit(e, onlyIfWaiting)
  PROVE  TypeOK'
<1>1. accepted' \in Seq(Event)
  BY DEF Submit, TypeOK
<1>2. CASE running /\ DeliverEvent(e, onlyIfWaiting)
  <2>1. /\ deferredEvents' \in Deferred
        /\ pendingInputs' \in Seq(Event)
        /\ resolver' \in Event \cup {None, Open, Null}
    BY <1>2, DeferType, PlaceType DEF DeliverEvent, TypeOK, Deferred
  <2> QED BY <1>1, <1>2, <2>1 DEF Submit, DeliverEvent, TypeOK, Deferred
<1>3. CASE ~running /\ StartWake(e)
  BY <1>1, <1>3 DEF Submit, DeliverEvent, StartWake, TypeOK
<1> QED BY <1>2, <1>3 DEF Submit

LEMMA RepairedType ==
  ASSUME NEW c \in Conversation
  PROVE  /\ Repaired(c) \in Conversation
         /\ Repaired(c).unanswered = 0 /\ Repaired(c).mistaken = 0
         /\ Repaired(c).events = c.events /\ Repaired(c).summarized = c.summarized
<1> DEFINE answers == c.answers \/ (IdsRepeat /\ c.unanswered > 0)
<1>1. answers \in BOOLEAN
  BY DEF Conversation
<1>2. Repaired(c) = [c EXCEPT !.unanswered = 0, !.mistaken = 0, !.answers = answers]
  BY DEF Repaired
<1>3. 0 \in 0..MaxCalls
  OBVIOUS
<1> HIDE DEF answers
<1> QED BY <1>1, <1>2, <1>3 DEF Conversation

LEMMA ResumedType ==
  ASSUME TypeOK
  PROVE  Resumed \in Conversation /\ Resumed.unanswered = 0 /\ Resumed.mistaken = 0
<1>1. session # None => session \in Conversation
  BY DEF TypeOK, Sessions
<1>2. restSnapshot \in SUBSET Event
  BY DEF TypeOK
<1>3. CASE session # None
  BY <1>1, <1>3, RepairedType DEF Resumed
<1>4. CASE session = None
  <2>1. Resumed \in Conversation
    BY <1>2, <1>4, EmptyType DEF Resumed, Conversation
  <2> QED BY <1>4, <2>1 DEF Resumed, Empty
<1> QED BY <1>3, <1>4

LEMMA LoadSessionType ==
  ASSUME TypeOK, Control, LoadSession
  PROVE  TypeOK'
<1>1. wakeEvent \in Event
  BY DEF LoadSession, TypeOK, Control, EventsInHand
<1>2. Resumed \in Conversation
  BY ResumedType
<1>3. conversation' \in Conversation
  BY <1>1, <1>2 DEF LoadSession, Conversation
<1> QED BY <1>1, <1>3 DEF LoadSession, TypeOK

LEMMA CompleteType ==
  ASSUME TypeOK, NEW n \in 0..MaxCalls, Complete(n)
  PROVE  TypeOK'
<1>1. conversation' \in Conversation
  <2>1. Repaired(conversation) \in Conversation
    BY RepairedType DEF TypeOK
  <2> QED BY <2>1 DEF Complete, Conversation
<1>2. phase' \in Phases /\ turnInFlight' \in BOOLEAN
  BY UnlessType DEF Complete, TypeOK
<1> QED BY <1>1, <1>2 DEF Complete, TypeOK

LEMMA NextCallType ==
  ASSUME TypeOK, Control, NextCall
  PROVE  TypeOK'
<1>1. conversation.unanswered = calls + conversation.mistaken
  BY DEF NextCall, Control, CallsFollowPhase
<1>2. pendingInputs # <<>> => Head(pendingInputs) \in Event /\ Tail(pendingInputs) \in Seq(Event)
  BY DEF TypeOK
<1>3. pendingInputs' \in Seq(Event)
  BY <1>2 DEF NextCall, TypeOK
<1>4. conversation \in Conversation /\ injected \in SUBSET Event
  BY DEF TypeOK
<1>5. conversation' \in Conversation /\ injected' \in SUBSET Event
  <2>1. ASSUME pendingInputs # <<>>, Preempt(Head(pendingInputs))
        PROVE  conversation' \in Conversation /\ injected' \in SUBSET Event
    <3> DEFINE e == Head(pendingInputs)
    <3>1. e \in Event /\ conversation.events \cup {e} \in SUBSET Event
      BY <1>2, <1>4, <2>1 DEF Conversation
    <3>2. conversation.unanswered - calls \in 0..MaxCalls
      BY <1>1, <1>4 DEF Conversation, TypeOK
    <3> QED BY <1>4, <2>1, <3>1, <3>2 DEF Preempt, Conversation
  <2> QED BY <1>4, <2>1 DEF NextCall
<1>6. phase' \in Phases /\ calls' \in 0..MaxCalls /\ turnInFlight' \in BOOLEAN
  <2>1. calls \in 0..MaxCalls /\ turnInFlight \in BOOLEAN /\ 0 \in 0..MaxCalls
    BY DEF TypeOK
  <2> QED BY <2>1, EndTurnType DEF NextCall
<1> QED BY <1>3, <1>5, <1>6 DEF NextCall, TypeOK

LEMMA TypeStep == IInv /\ [Next]_vars => TypeOK'
<1> SUFFICES ASSUME TypeOK, Control, [Next]_vars PROVE TypeOK'
  BY DEF IInv
<1>1. ASSUME NEW e \in Event, NEW o \in BOOLEAN, Submit(e, o) PROVE TypeOK'
  BY <1>1, SubmitType
<1>2. CASE LoadSession
  BY <1>2, LoadSessionType
<1>3. CASE PreTurnCompact
  <2>1. conversation' \in Conversation
    BY <1>3, SummarizeType DEF PreTurnCompact, TypeOK
  <2>2. phase' \in Phases /\ turnInFlight' \in BOOLEAN
    BY <1>3 DEF PreTurnCompact, BeginTurn, TypeOK
  <2> QED BY <1>3, <2>1, <2>2 DEF PreTurnCompact, TypeOK
<1>4. ASSUME NEW n \in 0..MaxCalls, Complete(n) PROVE TypeOK'
  BY <1>4, CompleteType
<1>5. CASE PromptTooLarge
  BY <1>5, SummarizeType DEF PromptTooLarge, TypeOK
<1>6. CASE RejectCall
  <2>1. conversation.unanswered > 0
    BY <1>6 DEF RejectCall, TypeOK, Control, CallsFollowPhase, Conversation
  <2>2. conversation' \in Conversation
    BY <1>6, <2>1, AnswerCallType DEF RejectCall
  <2>3. phase' \in Phases /\ calls' \in 0..MaxCalls /\ turnInFlight' \in BOOLEAN
    <3>1. calls \in 0..MaxCalls /\ turnInFlight \in BOOLEAN /\ 0 \in 0..MaxCalls
      BY DEF TypeOK
    <3>2. calls > 1 => calls - 1 \in 0..MaxCalls
      BY <3>1
    <3> QED BY <1>6, <3>1, <3>2, EndTurnType DEF RejectCall
  <2> QED BY <1>6, <2>2, <2>3 DEF RejectCall, TypeOK
<1>7. CASE ParseError
  <2>1. conversation.unanswered > 0
    BY <1>7 DEF ParseError, TypeOK, Control, CallsFollowPhase, Conversation
  <2>2. conversation' \in Conversation
    BY <1>7, <2>1, AnswerCallType DEF ParseError
  <2> QED BY <1>7, <2>2 DEF ParseError, TypeOK, Control, CallsFollowPhase
<1>8. CASE StartTool
  BY <1>8 DEF StartTool, TypeOK, Control, CallsFollowPhase
<1>9. CASE ResultRecorded
  <2>1. conversation.unanswered > 0
    BY <1>9 DEF ResultRecorded, TypeOK, Control, CallsFollowPhase, Conversation
  <2>2. conversation' \in Conversation
    BY <1>9, <2>1, AnswerCallType DEF ResultRecorded
  <2>3. pendingInputs' \in Seq(Event) /\ deferredEvents' \in Deferred
    BY <1>9, FlushDeferredEventsType DEF ResultRecorded, SettleTool
  <2> QED BY <1>9, <2>2, <2>3 DEF ResultRecorded, SettleTool, TypeOK, Deferred
<1>33. CASE ErrorTakenForRecorded
  <2>1. conversation' \in Conversation
    BY <1>33, MistakenType
  <2>2. pendingInputs' \in Seq(Event) /\ deferredEvents' \in Deferred
    BY <1>33, FlushDeferredEventsType DEF ErrorTakenForRecorded, SettleTool
  <2> QED BY <1>33, <2>1, <2>2 DEF ErrorTakenForRecorded, SettleTool, TypeOK, Deferred
<1>10. ASSUME NEW kind \in {"wait", "timedWait"}, StartWait(kind) PROVE TypeOK'
  <2>1. conversation.unanswered > 0 /\ calls > 0
    BY <1>10 DEF StartWait, TypeOK, Control, CallsFollowPhase, Conversation
  <2>2. conversation' \in Conversation
    BY <1>10, <2>1, AnswerCallType DEF StartWait
  <2>3. pendingInputs' \in Seq(Event) /\ resolver' \in Event \cup {Open, Null}
    BY <1>10, WaitForEventType DEF StartWait
  <2> QED BY <1>10, <2>1, <2>2, <2>3 DEF StartWait, TypeOK
<1>11. CASE WaitTimeout
  BY <1>11 DEF WaitTimeout, TypeOK
<1>12. CASE WaitReturns
  BY <1>12, TakeWaitResultType DEF WaitReturns, TypeOK
<1>13. CASE NextCall
  BY <1>13, NextCallType
<1>14. CASE PostTurnCompact
  BY <1>14, SummarizeType DEF PostTurnCompact, TypeOK
<1>15. CASE ImplicitWaitReturns
  BY <1>15, TakeWaitResultType DEF ImplicitWaitReturns, Unless, TypeOK
<1>16. CASE StartRest
  <2>1. conversation.unanswered > 0
    BY <1>16 DEF StartRest, TypeOK, Control, CallsFollowPhase, Conversation
  <2>2. conversation' \in Conversation
    BY <1>16, <2>1, AnswerCallType DEF StartRest
  <2> QED BY <1>16, <2>2 DEF StartRest, TypeOK, Control, CallsFollowPhase
<1>17. CASE FoldSession
  BY <1>17 DEF FoldSession, TypeOK
<1>18. CASE KeepSession
  BY <1>18 DEF KeepSession, TypeOK, WriteSession, Sessions
<1>19. CASE WriteRestSnapshot
  BY <1>19 DEF WriteRestSnapshot, TypeOK, RestForests, Conversation
<1>20. CASE Rest
  BY <1>20, FinallyType DEF Rest, Finally, TypeOK, Sessions, Deferred
<1>21. CASE RestFails
  BY <1>21, FlushDeferredEventsType DEF RestFails, SettleTool, TypeOK, Deferred
<1>22. CASE SaveSession
  BY <1>22 DEF SaveSession, TypeOK, WriteSession, Sessions
<1>23. CASE SaveAndContinue
  <2>1. restSnapshot' \in SUBSET Event
    BY <1>23 DEF SaveAndContinue, SaveRestSnapshot, TypeOK, Conversation
  <2>2. pendingInputs' \in Seq(Event) /\ resolver' \in Event \cup {None, Open, Null}
    BY <1>23, WaitForEventType DEF SaveAndContinue, TypeOK
  <2>3. phase' \in Phases /\ turnInFlight' \in BOOLEAN /\ saveStep' = "session"
    BY <1>23, UnlessType DEF SaveAndContinue, BeginTurn, TypeOK
  <2> QED BY <1>23, <2>1, <2>2, <2>3 DEF SaveAndContinue, TypeOK
<1>24. CASE SaveAndStop
  <2>1. restSnapshot' \in SUBSET Event
    BY <1>24 DEF SaveAndStop, SaveRestSnapshot, TypeOK, Conversation
  <2> QED BY <1>24, <2>1, FinallyType DEF SaveAndStop, Finally, TypeOK, Deferred
<1>25. CASE Abort
  BY <1>25 DEF Abort, TypeOK
<1>26. CASE AbortSaveFails
  BY <1>26, FinallyType DEF AbortSaveFails, Finally, TypeOK, Deferred
<1>27. CASE RequestShutdown
  <2>1. /\ exit' \in {"gaveUp", "waiting", "saving"} /\ shutdownRequested' \in BOOLEAN
        /\ resolver' \in Event \cup {None, Open, Null}
    BY <1>27 DEF RequestShutdown, TypeOK
  <2>2. shutdownCopy' \in Sessions
    BY <1>27 DEF RequestShutdown, TypeOK, Sessions
  <2> QED BY <1>27, <2>1, <2>2 DEF RequestShutdown, TypeOK
<1>28. CASE ShutdownSave
  BY <1>28 DEF ShutdownSave, TypeOK, SaveRestSnapshot, Conversation, Sessions
<1>29. CASE ShutdownTimeout
  BY <1>29 DEF ShutdownTimeout, TypeOK, Sessions
<1>30. CASE ProcessExit
  BY <1>30, RestartType DEF ProcessExit
<1>31. CASE Crash
  BY <1>31, RestartType DEF Crash
<1>32. CASE UNCHANGED vars
  BY <1>32 DEF vars, TypeOK
<1> QED
  BY <1>1, <1>2, <1>3, <1>4, <1>5, <1>6, <1>7, <1>8, <1>9, <1>10,
     <1>11, <1>12, <1>13, <1>14, <1>15, <1>16, <1>17, <1>18, <1>19, <1>20,
     <1>21, <1>22, <1>23, <1>24, <1>25, <1>26, <1>27, <1>28, <1>29, <1>30,
     <1>31, <1>32, <1>33
  DEF Next, WakeCycle, Process, ToolReturns

-----------------------------------------------------------------------------
(* Control *)

LEMMA UnansweredAfter ==
  ASSUME TypeOK
  PROVE  /\ AnswerCall => conversation'.unanswered = conversation.unanswered - 1
         /\ Summarize => conversation'.unanswered = conversation.unanswered
         /\ TakeWaitResult => conversation'.unanswered = conversation.unanswered
         /\ \A e \in Event : Preempt(e) => conversation'.unanswered = conversation.unanswered - calls
         /\ AnswerCall \/ Summarize \/ TakeWaitResult \/ (\E e \in Event : Preempt(e))
              => conversation'.mistaken = conversation.mistaken
<1>1. conversation \in Conversation
  BY DEF TypeOK
<1>2. /\ conversation.unanswered \in 0..MaxCalls /\ conversation.events \in SUBSET Event
  BY <1>1 DEF Conversation
<1>3. AnswerCall => /\ conversation'.unanswered = conversation.unanswered - 1
                    /\ conversation'.mistaken = conversation.mistaken
  BY <1>1, <1>2 DEF AnswerCall, Conversation
<1>4. Summarize => /\ conversation'.unanswered = conversation.unanswered
                   /\ conversation'.mistaken = conversation.mistaken
  BY <1>1 DEF Summarize, Conversation
<1>5. TakeWaitResult => /\ conversation'.unanswered = conversation.unanswered
                        /\ conversation'.mistaken = conversation.mistaken
  BY <1>1 DEF TakeWaitResult, Inject, Conversation
<1>6. ASSUME NEW e \in Event, Preempt(e)
      PROVE  /\ conversation'.unanswered = conversation.unanswered - calls
             /\ conversation'.mistaken = conversation.mistaken
  BY <1>1, <1>6 DEF Preempt, Conversation
<1> QED BY <1>3, <1>4, <1>5, <1>6

LEMMA FinallyControl ==
  ASSUME TypeOK, Control, phase \in LoopPhases, Finally
  PROVE  Control'
<1> USE DEF Control, FlagsFollowPhase, EventsInHand, QueuesFollowPhase, CallsFollowPhase
<1> DEFINE queue == IF shutdownRequested THEN pendingInputs ELSE Flushed
<1>1. queue # <<>> => Head(queue) \in Event
  <2>1. queue \in Seq(Event)
    BY FlushedType DEF TypeOK
  <2> QED BY <2>1
<1>2. WakeAgainOrStop(queue) /\ wakeEvent = None
  BY DEF Finally
<1>3. /\ running' <=> phase' # "off"
      /\ phase' \in {"off", "loading"}
      /\ wakeEvent' # None <=> phase' = "loading"
      /\ phase' = "off" /\ ~shutdownRequested => pendingInputs' = <<>>
  <2> HIDE DEF queue
  <2> QED BY <1>1, <1>2 DEF WakeAgainOrStop, StartWake
<1>4. exit' = "no" => ~shutdownRequested
  BY DEF Finally
<1>5. /\ ~turnInFlight' /\ ~toolInFlight' /\ ~shutdownRequested'
      /\ deferredEvents' = NoDeferred /\ resolver' = None
  BY DEF Finally
<1> QED BY <1>3, <1>4, <1>5, ResolverAssumption

LEMMA EndTurnControl ==
  ASSUME EndTurn
  PROVE  ~turnInFlight' /\ phase' \in {"shutdownSave", "postCompact"}
BY DEF EndTurn, Unless

LEMMA ControlStep == IInv /\ [Next]_vars => Control'
<1> SUFFICES ASSUME TypeOK, Control, [Next]_vars PROVE Control'
  BY DEF IInv
<1> USE DEF Control, FlagsFollowPhase, EventsInHand, QueuesFollowPhase, CallsFollowPhase
<1>0. /\ conversation.unanswered \in Nat /\ conversation.mistaken \in Nat /\ calls \in Nat
  BY DEF TypeOK, Conversation
<1>1. ASSUME NEW e \in Event, NEW o \in BOOLEAN, Submit(e, o) PROVE Control'
  <2>1. /\ conversation' = conversation
        /\ running => UNCHANGED <<phase, calls>>
        /\ ~running => phase' = "loading"
    BY <1>1 DEF Submit, DeliverEvent, StartWake
  <2>2. CallsFollowPhase'
    BY <2>1
  <2>3. FlagsFollowPhase' /\ EventsInHand'
    BY <1>1, ResolverAssumption DEF Submit, DeliverEvent, StartWake, TypeOK
  <2>4. QueuesFollowPhase'
    BY <1>1, ResolverAssumption DEF Submit, DeliverEvent, StartWake, TypeOK
  <2> QED BY <2>2, <2>3, <2>4
<1>2. CASE LoadSession
  <2>1. conversation'.unanswered = 0 /\ conversation'.mistaken = 0
    <3>1. Resumed \in Conversation /\ Resumed.unanswered = 0 /\ Resumed.mistaken = 0
      BY ResumedType
    <3> QED BY <1>2, <3>1 DEF LoadSession, Conversation
  <2> QED BY <1>2, <2>1 DEF LoadSession
<1>3. CASE PreTurnCompact
  BY <1>3, <1>0, UnansweredAfter DEF PreTurnCompact, BeginTurn
<1>4. ASSUME NEW n \in 0..MaxCalls, Complete(n) PROVE Control'
  <2>1. conversation'.unanswered = n /\ conversation'.mistaken = 0
    <3>1. Repaired(conversation) \in Conversation /\ Repaired(conversation).mistaken = 0
      BY RepairedType DEF TypeOK
    <3> QED BY <1>4, <3>1 DEF Complete, Conversation
  <2>2. n = 0 => phase' \in {"preCompact", "save", "shutdownSave"}
    BY <1>4 DEF Complete, Unless
  <2>3. CallsFollowPhase'
    <3>1. n \in Nat /\ calls' = n
      BY <1>4 DEF Complete
    <3>2. CASE n > 0
      <4>1. phase' = "calls" \/ n = 0
        BY <1>4, Zenon DEF Complete
      <4> QED BY <2>1, <3>1, <3>2, <4>1
    <3>3. CASE n = 0
      BY <2>1, <2>2, <3>1, <3>3
    <3> QED BY <3>1, <3>2, <3>3
  <2>4. FlagsFollowPhase' /\ EventsInHand' /\ QueuesFollowPhase'
    BY <1>4, <2>2 DEF Complete
  <2> QED BY <2>3, <2>4
<1>5. CASE PromptTooLarge
  BY <1>5, <1>0, UnansweredAfter DEF PromptTooLarge
<1>6. CASE RejectCall
  <2>1. /\ conversation'.unanswered = calls + conversation.mistaken - 1
        /\ conversation'.mistaken = conversation.mistaken
    BY <1>6, <1>0, UnansweredAfter DEF RejectCall
  <2>2. CASE calls > 1 /\ calls' = calls - 1 /\ UNCHANGED <<phase, turnInFlight>>
    BY <1>6, <1>0, <2>1, <2>2 DEF RejectCall
  <2>3. CASE calls = 1 /\ EndTurn
    BY <1>6, <1>0, <2>1, <2>3, EndTurnControl DEF RejectCall
  <2> QED BY <1>6, <2>2, <2>3 DEF RejectCall
<1>7. CASE ParseError
  BY <1>7, <1>0, UnansweredAfter DEF ParseError
<1>8. CASE StartTool
  BY <1>8, <1>0 DEF StartTool
<1>9. CASE ResultRecorded
  BY <1>9, <1>0, UnansweredAfter, ResolverAssumption DEF ResultRecorded, SettleTool, FlushDeferredEvents
<1>33. CASE ErrorTakenForRecorded
  <2>1. /\ conversation'.unanswered = conversation.unanswered
        /\ conversation'.mistaken = conversation.mistaken + 1
    BY <1>33 DEF ErrorTakenForRecorded, TypeOK, Conversation
  <2> QED BY <1>33, <1>0, <2>1, ResolverAssumption
        DEF ErrorTakenForRecorded, SettleTool, FlushDeferredEvents
<1>10. ASSUME NEW kind \in {"wait", "timedWait"}, StartWait(kind) PROVE Control'
  <2>1. CallsFollowPhase'
    BY <1>10, <1>0, UnansweredAfter DEF StartWait
  <2>2. FlagsFollowPhase'
    BY <1>10 DEF StartWait
  <2>3. EventsInHand' /\ QueuesFollowPhase'
    BY <1>10, ResolverAssumption DEF StartWait, WaitForEvent, TypeOK
  <2> QED BY <2>1, <2>2, <2>3
<1>11. CASE WaitTimeout
  BY <1>11, <1>0, ResolverAssumption DEF WaitTimeout
<1>12. CASE WaitReturns
  BY <1>12, <1>0, UnansweredAfter, ResolverAssumption DEF WaitReturns, TakeWaitResult
<1>13. CASE NextCall
  <2>1. CASE pendingInputs # <<>>
    <3>1. Head(pendingInputs) \in Event
      BY <2>1 DEF TypeOK
    <3>2. /\ conversation.unanswered = calls + conversation.mistaken
          /\ Preempt(Head(pendingInputs))
      BY <1>13, <2>1 DEF NextCall
    <3>3. conversation'.unanswered = conversation'.mistaken
      BY <1>0, <3>1, <3>2, UnansweredAfter
    <3> QED BY <1>13, <2>1, <3>3, EndTurnControl DEF NextCall
  <2>2. CASE pendingInputs = <<>>
    <3>1. UNCHANGED <<conversation, pendingInputs, resolver, wakeEvent, deferredEvents, exit>>
      BY <1>13, <2>2 DEF NextCall
    <3>2. CASE calls = 0 /\ EndTurn
      BY <1>13, <1>0, <2>2, <3>1, <3>2, EndTurnControl DEF NextCall
    <3>3. CASE calls > 0 /\ phase' = "calls" /\ UNCHANGED <<calls, turnInFlight>>
      BY <1>13, <1>0, <2>2, <3>1, <3>3 DEF NextCall
    <3> QED BY <1>13, <2>2, <3>2, <3>3 DEF NextCall
  <2> QED BY <2>1, <2>2
<1>14. CASE PostTurnCompact
  BY <1>14, <1>0, UnansweredAfter DEF PostTurnCompact
<1>15. CASE ImplicitWaitReturns
  BY <1>15, <1>0, UnansweredAfter, ResolverAssumption DEF ImplicitWaitReturns, TakeWaitResult, Unless
<1>16. CASE StartRest
  BY <1>16, <1>0, UnansweredAfter DEF StartRest
<1>17. CASE FoldSession
  BY <1>17, <1>0 DEF FoldSession
<1>18. CASE KeepSession
  BY <1>18, <1>0 DEF KeepSession
<1>19. CASE WriteRestSnapshot
  BY <1>19, <1>0 DEF WriteRestSnapshot
<1>20. CASE Rest
  BY <1>20, FinallyControl DEF Rest
<1>21. CASE RestFails
  BY <1>21, <1>0, ResolverAssumption DEF RestFails, SettleTool, FlushDeferredEvents
<1>22. CASE SaveSession
  BY <1>22, <1>0 DEF SaveSession
<1>23. CASE SaveAndContinue
  BY <1>23, <1>0, ResolverAssumption DEF SaveAndContinue, WaitForEvent, BeginTurn, Unless, TypeOK
<1>24. CASE SaveAndStop
  BY <1>24, FinallyControl DEF SaveAndStop
<1>25. CASE Abort
  BY <1>25, <1>0 DEF Abort
<1>26. CASE AbortSaveFails
  BY <1>26, FinallyControl DEF AbortSaveFails
<1>27. CASE RequestShutdown
  BY <1>27, <1>0, ResolverAssumption DEF RequestShutdown
<1>28. CASE ShutdownSave
  BY <1>28, <1>0 DEF ShutdownSave
<1>29. CASE ShutdownTimeout
  BY <1>29, <1>0 DEF ShutdownTimeout
<1>30. CASE ProcessExit
  BY <1>30, <1>0 DEF ProcessExit, Restart, TypeOK
<1>31. CASE Crash
  BY <1>31, <1>0 DEF Crash, Restart, TypeOK
<1>32. CASE UNCHANGED vars
  BY <1>32 DEF vars
<1> QED
  BY <1>1, <1>2, <1>3, <1>4, <1>5, <1>6, <1>7, <1>8, <1>9, <1>10,
     <1>11, <1>12, <1>13, <1>14, <1>15, <1>16, <1>17, <1>18, <1>19, <1>20,
     <1>21, <1>22, <1>23, <1>24, <1>25, <1>26, <1>27, <1>28, <1>29, <1>30,
     <1>31, <1>32, <1>33
  DEF Next, WakeCycle, Process, ToolReturns

LEMMA InitInv == Init => IInv
<1> SUFFICES ASSUME Init PROVE IInv
  OBVIOUS
<1>1. /\ conversation \in Conversation /\ deferredEvents \in Deferred
      /\ pendingInputs \in Seq(Event) /\ accepted \in Seq(Event)
  BY EmptyType, NoDeferredType DEF Init
<1>2. TypeOK
  <2>1. session \in Sessions /\ shutdownCopy \in Sessions
    BY DEF Init, Sessions
  <2>2. calls \in 0..MaxCalls /\ restarts \in 0..MaxRestarts
    BY DEF Init
  <2> QED BY <1>1, <2>1, <2>2 DEF Init, TypeOK, Deferred
<1>3. Control
  BY ResolverAssumption
  DEF Init, Control, FlagsFollowPhase, EventsInHand, QueuesFollowPhase, CallsFollowPhase
<1> QED BY <1>2, <1>3 DEF IInv

THEOREM InductiveInvariant == Spec => []IInv
<1>1. IInv /\ [Next]_vars => IInv'
  BY TypeStep, ControlStep DEF IInv
<1> QED BY InitInv, <1>1, PTL DEF Spec

-----------------------------------------------------------------------------
(* Results *)

(* Whatever triggers, tools, waits and the process do, in any order: queues *)
(* hold events, waits hold one event or none, and no tool message is        *)
(* counted for a call the model did not make (runner/index.ts, loop.ts).    *)
THEOREM TypeCorrect == Spec => []TypeOK
BY InductiveInvariant, PTL DEF IInv

(* deliverEvent never queues an event behind a waiting agent, and a wait    *)
(* never starts over a queued event.                                        *)
THEOREM WaiterMissesNothing == Spec => []NoMissedWakeup
<1>1. IInv => NoMissedWakeup
  <2> SUFFICES ASSUME IInv, resolver = Open PROVE /\ phase \in WaitPhases
                                                 /\ Queued = {}
                                                 /\ ~toolInFlight /\ ~shutdownRequested
    BY DEF NoMissedWakeup
  <2>1. phase \in WaitPhases /\ ~toolInFlight /\ ~shutdownRequested
    BY ResolverAssumption
    DEF IInv, Control, FlagsFollowPhase, EventsInHand, QueuesFollowPhase
  <2>2. pendingInputs = <<>> /\ deferredEvents = NoDeferred
    BY <2>1 DEF IInv, Control, QueuesFollowPhase
  <2> QED BY <2>1, <2>2 DEF Queued, DeferredSet, NoDeferred, ToSet
<1> QED BY InductiveInvariant, <1>1, PTL

(* The finally of wake starts the next cycle whenever an event is left, so  *)
(* an agent that is off has none.                                           *)
THEOREM OffMeansNothingQueued == Spec => []NothingStranded
<1>1. IInv => NothingStranded
  <2> SUFFICES ASSUME IInv, phase = "off", exit = "no" PROVE Queued = {}
    BY DEF NothingStranded
  <2>1. pendingInputs = <<>> /\ deferredEvents = NoDeferred
    BY DEF IInv, Control, FlagsFollowPhase, QueuesFollowPhase
  <2> QED BY <2>1 DEF Queued, DeferredSet, NoDeferred, ToSet
<1> QED BY InductiveInvariant, <1>1, PTL

(* Every request the loop sends follows a conversation in which each tool   *)
(* call has its message, save those whose handler threw under the id of an  *)
(* earlier tool message (executeToolCall and hasToolResponse of tools.ts):  *)
(* no preemption, refusal, failure or abort leaves another one open.        *)
THEOREM RequestsAreAnswered == Spec => []AllCallsAnswered
<1>1. IInv => AllCallsAnswered
  BY DEF IInv, Control, CallsFollowPhase, AllCallsAnswered
<1> QED BY InductiveInvariant, <1>1, PTL

-----------------------------------------------------------------------------
(* What is in a queue *)

LEMMA ToSetEmpty == ToSet(<<>>) = {}
BY DEF ToSet

LEMMA ToSetAppend ==
  ASSUME NEW S, NEW s \in Seq(S), NEW e \in S
  PROVE  ToSet(Append(s, e)) = ToSet(s) \cup {e}
<1>1. /\ DOMAIN Append(s, e) = 1 .. Len(s) + 1
      /\ Append(s, e)[Len(s) + 1] = e
      /\ \A i \in 1 .. Len(s) : Append(s, e)[i] = s[i]
      /\ DOMAIN s = 1 .. Len(s) /\ Len(s) \in Nat
  OBVIOUS
<1>2. 1 .. Len(s) + 1 = (1 .. Len(s)) \cup {Len(s) + 1}
  BY <1>1
<1> QED BY <1>1, <1>2 DEF ToSet

LEMMA ToSetConcat ==
  ASSUME NEW S, NEW s \in Seq(S), NEW t \in Seq(S)
  PROVE  ToSet(s \o t) = ToSet(s) \cup ToSet(t)
<1> DEFINE m == Len(s)  n == Len(t)
<1>1. /\ DOMAIN (s \o t) = 1 .. m + n /\ DOMAIN s = 1 .. m /\ DOMAIN t = 1 .. n
      /\ m \in Nat /\ n \in Nat
      /\ \A i \in 1 .. m : (s \o t)[i] = s[i]
      /\ \A i \in m + 1 .. m + n : (s \o t)[i] = t[i - m]
  OBVIOUS
<1>2. ToSet(s) \subseteq ToSet(s \o t)
  BY <1>1 DEF ToSet
<1>3. ToSet(t) \subseteq ToSet(s \o t)
  <2> SUFFICES ASSUME NEW i \in 1 .. n PROVE t[i] \in ToSet(s \o t)
    BY <1>1 DEF ToSet
  <2>1. i + m \in m + 1 .. m + n /\ (i + m) - m = i /\ i + m \in 1 .. m + n
    BY <1>1
  <2> QED BY <1>1, <2>1 DEF ToSet
<1>4. ToSet(s \o t) \subseteq ToSet(s) \cup ToSet(t)
  <2> SUFFICES ASSUME NEW i \in 1 .. m + n PROVE (s \o t)[i] \in ToSet(s) \cup ToSet(t)
    BY <1>1 DEF ToSet
  <2>1. CASE i \in 1 .. m
    BY <1>1, <2>1 DEF ToSet
  <2>2. CASE i \in m + 1 .. m + n
    <3>1. i - m \in 1 .. n
      BY <1>1, <2>2
    <3> QED BY <1>1, <2>2, <3>1 DEF ToSet
  <2> QED BY <1>1, <2>1, <2>2
<1> QED BY <1>2, <1>3, <1>4

LEMMA ToSetPrepend ==
  ASSUME NEW S, NEW s \in Seq(S), NEW e \in S
  PROVE  ToSet(<<e>> \o s) = {e} \cup ToSet(s)
<1> DEFINE single == <<e>>
<1>1. single \in Seq(S) /\ ToSet(single) = {e}
  BY DEF ToSet
<1>2. ToSet(single \o s) = {e} \cup ToSet(s)
  <2> HIDE DEF single
  <2> QED BY <1>1, ToSetConcat
<1> QED BY <1>2

LEMMA ToSetReverse ==
  ASSUME NEW S, NEW s \in Seq(S)
  PROVE  ToSet(Reverse(s)) = ToSet(s)
<1> DEFINE n == Len(s)
<1>1. /\ n \in Nat /\ DOMAIN s = 1 .. n /\ DOMAIN Reverse(s) = 1 .. n
      /\ \A i \in 1 .. n : Reverse(s)[i] = s[n - i + 1]
  BY DEF Reverse
<1>2. \A i \in 1 .. n : n - i + 1 \in 1 .. n /\ n - (n - i + 1) + 1 = i
  BY <1>1
<1> QED BY <1>1, <1>2 DEF ToSet

LEMMA ToSetHeadTail ==
  ASSUME NEW S, NEW s \in Seq(S), s # <<>>
  PROVE  ToSet(s) = {Head(s)} \cup ToSet(Tail(s))
<1>1. s = <<Head(s)>> \o Tail(s)
  OBVIOUS
<1>2. Head(s) \in S /\ Tail(s) \in Seq(S)
  OBVIOUS
<1>3. ToSet(<<Head(s)>> \o Tail(s)) = {Head(s)} \cup ToSet(Tail(s))
  BY <1>2, ToSetPrepend
<1> QED BY <1>1, <1>3

LEMMA PlaceSet ==
  ASSUME NEW e \in Event, NEW queue \in Seq(Event)
  PROVE  ToSet(Place(e, queue)) = ToSet(queue) \cup {e}
<1>1. ToSet(<<e>> \o queue) = ToSet(queue) \cup {e}
  BY ToSetPrepend
<1>2. ToSet(Append(queue, e)) = ToSet(queue) \cup {e}
  BY ToSetAppend
<1> QED BY <1>1, <1>2 DEF Place

LEMMA FlushedSet ==
  ASSUME TypeOK
  PROVE  ToSet(Flushed) = Queued
<1> DEFINE front == deferredEvents.front  back == deferredEvents.back
<1>1. front \in Seq(Event) /\ back \in Seq(Event) /\ pendingInputs \in Seq(Event)
  BY DEF TypeOK
<1>2. Reverse(front) \in Seq(Event) /\ ToSet(Reverse(front)) = ToSet(front)
  BY <1>1, ReverseType, ToSetReverse
<1>3. ToSet(Reverse(front) \o pendingInputs) = ToSet(front) \cup ToSet(pendingInputs)
  BY <1>1, <1>2, ToSetConcat
<1>4. Reverse(front) \o pendingInputs \in Seq(Event)
  BY <1>1, <1>2
<1>5. ToSet(Flushed) = ToSet(front) \cup ToSet(pendingInputs) \cup ToSet(back)
  <2> DEFINE first == Reverse(front) \o pendingInputs
  <2>1. Flushed = first \o back
    BY DEF Flushed
  <2>2. ToSet(first \o back) = ToSet(first) \cup ToSet(back)
    <3>1. first \in Seq(Event)
      BY <1>4
    <3> HIDE DEF first
    <3> QED BY <1>1, <3>1, ToSetConcat
  <2> QED BY <1>3, <2>1, <2>2
<1> QED BY <1>5 DEF Queued, DeferredSet

LEMMA DeferSet ==
  ASSUME TypeOK, NEW e \in Event, Defer(e)
  PROVE  DeferredSet' = DeferredSet \cup {e}
<1> DEFINE front == deferredEvents.front  back == deferredEvents.back
<1>1. front \in Seq(Event) /\ back \in Seq(Event)
  BY DEF TypeOK
<1>2. CASE e \in Priority
  <2>1. deferredEvents'.front = <<e>> \o front /\ deferredEvents'.back = back
    BY <1>2 DEF Defer, TypeOK
  <2>2. ToSet(<<e>> \o front) = {e} \cup ToSet(front)
    BY <1>1, ToSetPrepend
  <2> QED BY <2>1, <2>2 DEF DeferredSet
<1>3. CASE e \notin Priority
  <2>1. deferredEvents'.front = front /\ deferredEvents'.back = Append(back, e)
    BY <1>3 DEF Defer, TypeOK
  <2>2. ToSet(Append(back, e)) = ToSet(back) \cup {e}
    BY <1>1, ToSetAppend
  <2> QED BY <2>1, <2>2 DEF DeferredSet
<1> QED BY <1>2, <1>3

-----------------------------------------------------------------------------
(* No step drops an event *)

Held == Queued \cup InHand \cup injected

LEMMA NoneQueued ==
  /\ deferredEvents = NoDeferred => DeferredSet = {}
  /\ deferredEvents' = NoDeferred => DeferredSet' = {}
BY ToSetEmpty DEF NoDeferred, DeferredSet

LEMMA FlushKeeps ==
  ASSUME TypeOK, ~shutdownRequested, FlushDeferredEvents
  PROVE  Queued' = Queued
BY FlushedSet, NoneQueued DEF FlushDeferredEvents, Queued

LEMMA WaitForEventKeeps ==
  ASSUME TypeOK, WaitForEvent, UNCHANGED deferredEvents
  PROVE  Queued \subseteq Queued' \cup ({resolver'} \cap Event)
<1>1. DeferredSet' = DeferredSet
  BY DEF DeferredSet
<1>2. CASE UNCHANGED pendingInputs
  BY <1>1, <1>2 DEF Queued
<1>3. CASE /\ pendingInputs # <<>>
           /\ resolver' = Head(pendingInputs) /\ pendingInputs' = Tail(pendingInputs)
  <2>1. pendingInputs \in Seq(Event) /\ Head(pendingInputs) \in Event
    BY <1>3 DEF TypeOK
  <2>2. ToSet(pendingInputs) = {Head(pendingInputs)} \cup ToSet(Tail(pendingInputs))
    BY <1>3, <2>1, ToSetHeadTail
  <2> QED BY <1>1, <1>3, <2>1, <2>2 DEF Queued
<1> QED BY <1>2, <1>3 DEF WaitForEvent

LEMMA FinallyKeeps ==
  ASSUME TypeOK, Control, phase \in LoopPhases \ WaitPhases, ~shutdownRequested,
         Finally, UNCHANGED injected
  PROVE  Held \subseteq Held'
<1>1. Flushed \in Seq(Event) /\ ToSet(Flushed) = Queued
  BY FlushedType, FlushedSet
<1>2. InHand \subseteq {resolver} \cap Event
  BY DEF InHand, Control, EventsInHand
<1>3. resolver = None
  BY DEF Finally, Control, EventsInHand
<1>4. WakeAgainOrStop(Flushed) /\ DeferredSet' = {}
  BY NoneQueued DEF Finally
<1>5. Queued \subseteq Queued' \cup InHand'
  <2>1. CASE Flushed # <<>> /\ wakeEvent' = Head(Flushed) /\ pendingInputs' = Tail(Flushed)
    <3>1. Head(Flushed) \in Event
      BY <1>1, <2>1
    <3>2. ToSet(Flushed) = {Head(Flushed)} \cup ToSet(Tail(Flushed))
      BY <1>1, <2>1, ToSetHeadTail
    <3> QED BY <1>1, <2>1, <3>1, <3>2 DEF Queued, InHand
  <2>2. CASE pendingInputs' = Flushed
    BY <1>1, <2>2 DEF Queued
  <2> QED BY <1>4, <2>1, <2>2 DEF WakeAgainOrStop, StartWake
<1> QED BY <1>2, <1>3, <1>5 DEF Held

LEMMA NextCallKeeps ==
  ASSUME TypeOK, NextCall
  PROVE  Held \subseteq Held'
<1>1. UNCHANGED <<deferredEvents, resolver, wakeEvent>> /\ DeferredSet' = DeferredSet
      /\ InHand' = InHand
  BY DEF NextCall, DeferredSet, InHand
<1>2. CASE UNCHANGED <<pendingInputs, injected>>
  BY <1>1, <1>2 DEF Held, Queued
<1>3. CASE /\ pendingInputs # <<>> /\ Preempt(Head(pendingInputs))
           /\ pendingInputs' = Tail(pendingInputs)
  <2>1. ToSet(pendingInputs) = {Head(pendingInputs)} \cup ToSet(Tail(pendingInputs))
    BY <1>3, ToSetHeadTail DEF TypeOK
  <2> QED BY <1>1, <1>3, <2>1 DEF Held, Queued, Preempt
<1> QED BY <1>2, <1>3 DEF NextCall

LEMMA SubmitKeeps ==
  ASSUME TypeOK, Control, NEW e \in Event, NEW onlyIfWaiting \in BOOLEAN,
         Submit(e, onlyIfWaiting)
  PROVE  Held \cup {e} \subseteq Held'
<1>1. UNCHANGED injected
  BY DEF Submit
<1>2. CASE toolInFlight /\ Defer(e) /\ UNCHANGED <<pendingInputs, resolver, wakeEvent>>
  <2>1. DeferredSet' = DeferredSet \cup {e} /\ InHand' = InHand
    BY <1>2, DeferSet DEF InHand
  <2> QED BY <1>1, <1>2, <2>1 DEF Held, Queued
<1>3. CASE /\ resolver = Open \/ resolver = None
           /\ e \in {resolver', wakeEvent'} /\ wakeEvent' \in {wakeEvent, e}
           /\ wakeEvent' = wakeEvent \/ wakeEvent = None
           /\ UNCHANGED queueVars
  <2>1. Queued' = Queued
    BY <1>3 DEF Queued, DeferredSet
  <2>2. InHand \cup {e} \subseteq InHand'
    BY <1>3, ResolverAssumption DEF InHand
  <2> QED BY <1>1, <2>1, <2>2 DEF Held
<1>4. CASE pendingInputs' = Place(e, pendingInputs) /\ UNCHANGED <<deferredEvents, resolver, wakeEvent>>
  <2>1. ToSet(pendingInputs') = ToSet(pendingInputs) \cup {e}
    BY <1>4, PlaceSet DEF TypeOK
  <2>2. DeferredSet' = DeferredSet /\ InHand' = InHand
    BY <1>4 DEF DeferredSet, InHand
  <2> QED BY <1>1, <2>1, <2>2 DEF Held, Queued
<1>5. running \/ (phase = "off" /\ resolver = None /\ wakeEvent = None)
  BY DEF Control, FlagsFollowPhase, EventsInHand
<1> QED BY <1>2, <1>3, <1>4, <1>5 DEF Submit, DeliverEvent, StartWake

LEMMA WakeCycleKeeps ==
  ASSUME TypeOK, Control, ~shutdownRequested, WakeCycle
  PROVE  Held \subseteq Held'
<1>1. CASE UNCHANGED <<queueVars, waitVars, injected>>
  BY <1>1 DEF Held, Queued, DeferredSet, InHand
<1>2. CASE LoadSession
  BY <1>2 DEF LoadSession, Held, Queued, DeferredSet, InHand
<1>3. CASE ToolReturns \/ RestFails
  BY <1>3, FlushKeeps
  DEF ToolReturns, ResultRecorded, ErrorTakenForRecorded, RestFails, SettleTool, Held, InHand
<1>4. ASSUME NEW kind \in {"wait", "timedWait"}, StartWait(kind) PROVE Held \subseteq Held'
  BY <1>4, WaitForEventKeeps DEF StartWait, Held, InHand, Control, EventsInHand
<1>5. CASE WaitTimeout
  BY <1>5, ResolverAssumption DEF WaitTimeout, Held, Queued, DeferredSet, InHand
<1>6. CASE WaitReturns \/ ImplicitWaitReturns
  BY <1>6, ResolverAssumption DEF WaitReturns, ImplicitWaitReturns, TakeWaitResult, Inject,
     Held, Queued, DeferredSet, InHand
<1>7. CASE NextCall
  BY <1>7, NextCallKeeps
<1>8. CASE Rest \/ SaveAndStop \/ AbortSaveFails
  BY <1>8, FinallyKeeps DEF Rest, SaveAndStop, AbortSaveFails
<1>9. CASE SaveAndContinue
  <2>1. CASE WaitForEvent
    BY <1>9, <2>1, WaitForEventKeeps DEF SaveAndContinue, Held, InHand, Control, EventsInHand
  <2>2. CASE UNCHANGED <<pendingInputs, resolver>>
    BY <1>9, <2>2, <1>1 DEF SaveAndContinue
  <2> QED BY <1>9, <2>1, <2>2 DEF SaveAndContinue
<1>10. CASE PreTurnCompact \/ PromptTooLarge \/ RejectCall \/ ParseError \/ StartTool
            \/ PostTurnCompact \/ StartRest \/ FoldSession \/ KeepSession
  BY <1>1, <1>10 DEF PreTurnCompact, PromptTooLarge, RejectCall, ParseError, StartTool,
     PostTurnCompact, StartRest, FoldSession, KeepSession
<1>11. CASE WriteRestSnapshot \/ SaveSession \/ Abort \/ \E n \in 0..MaxCalls : Complete(n)
  BY <1>1, <1>11 DEF WriteRestSnapshot, SaveSession, Abort, Complete
<1> QED BY <1>2, <1>3, <1>4, <1>5, <1>6, <1>7, <1>8, <1>9, <1>10, <1>11 DEF WakeCycle

(* From the moment the runner accepts an event until the process shuts down *)
(* or dies, the event is in a queue, in the hands of a wait or a wake, or   *)
(* in the conversation: no interleaving of triggers, tools, waits, rests,   *)
(* aborts and failing saves drops it.                                       *)
THEOREM AcceptedEventsAreKept == Spec => []NoEventLost
<1>1. IInv /\ NoEventLost /\ [Next]_vars => NoEventLost'
  <2> SUFFICES ASSUME IInv, NoEventLost, [Next]_vars, exit' = "no"
               PROVE  ToSet(accepted)' \subseteq Held'
    BY DEF NoEventLost, Held
  <2>1. CASE ProcessExit \/ Crash
    BY <2>1, ToSetEmpty DEF ProcessExit, Crash, Restart
  <2>2. ASSUME exit = "no"
        PROVE  ~shutdownRequested /\ ToSet(accepted) \subseteq Held
    BY <2>2 DEF IInv, Control, FlagsFollowPhase, NoEventLost, Held
  <2>3. ASSUME NEW e \in Event, NEW onlyIfWaiting \in BOOLEAN, Submit(e, onlyIfWaiting)
        PROVE  ToSet(accepted)' \subseteq Held'
    <3>1. exit = "no" /\ accepted' = Append(accepted, e)
      BY <2>3 DEF Submit
    <3>2. ToSet(accepted)' = ToSet(accepted) \cup {e}
      BY <3>1, ToSetAppend DEF IInv, TypeOK
    <3> QED BY <2>2, <2>3, <3>1, <3>2, SubmitKeeps DEF IInv
  <2>4. CASE WakeCycle
    <3>1. exit = "no" /\ UNCHANGED accepted
      BY <2>4 DEF WakeCycle, LoadSession, PreTurnCompact, Complete, PromptTooLarge, RejectCall,
         ParseError, StartTool, ToolReturns, ResultRecorded, ErrorTakenForRecorded, StartWait,
         WaitTimeout, WaitReturns, NextCall,
         PostTurnCompact, ImplicitWaitReturns, StartRest, FoldSession, KeepSession,
         WriteRestSnapshot, Rest, RestFails, SaveSession, SaveAndContinue, SaveAndStop, Abort,
         AbortSaveFails, Finally
    <3> QED BY <2>2, <2>4, <3>1, WakeCycleKeeps DEF IInv
  <2>5. CASE RequestShutdown \/ ShutdownSave \/ ShutdownTimeout
    BY <2>5 DEF RequestShutdown, ShutdownSave, ShutdownTimeout
  <2>6. CASE UNCHANGED vars
    BY <2>2, <2>6 DEF vars, Held, Queued, DeferredSet, InHand
  <2> QED BY <2>1, <2>3, <2>4, <2>5, <2>6 DEF Next, Process
<1>2. Init => NoEventLost
  BY ToSetEmpty DEF Init, NoEventLost
<1> QED BY InductiveInvariant, <1>1, <1>2, PTL DEF Spec

-----------------------------------------------------------------------------
(* What is in the files *)

(* shutdown() writes nothing itself: it has not been called, or it left the *)
(* saving to the loop.                                                      *)
LoopSaves == exit \in {"no", "waiting"}

Covers(c) == c.summarized \subseteq c.events

SummariesCover ==
  /\ Covers(conversation)
  /\ session # None => Covers(session)
  /\ shutdownCopy # None => Covers(shutdownCopy)

(* The session file never holds more than the conversation it was resumed   *)
(* into, and it is the conversation itself after each save.                 *)
FilesFollowPhase ==
  LoopSaves =>
    /\ phase \in LoopPhases /\ session # None => session.events \subseteq conversation.events
    /\ phase \in SavePhases /\ saveStep = "snapshot" => session = conversation
    /\ phase \in {"restKept", "implicitWait"} => session = conversation
    /\ phase = "restClear" => restSnapshot = conversation.events

(* Whatever the agent was told of is in the conversation of a wake cycle,   *)
(* and between two cycles in the file the next one begins with.             *)
Remembered ==
  exit = "no" /\ restarts = 0 /\ ~failed =>
    /\ phase \in LoopPhases => injected \cup restSnapshot \subseteq conversation.events
    /\ phase \notin LoopPhases /\ session # None => injected \cup restSnapshot \subseteq session.events
    /\ phase \notin LoopPhases /\ session = None => injected \subseteq restSnapshot

SaveBegins == phase \notin SavePhases => saveStep = "session"

FilesInv == SummariesCover /\ FilesFollowPhase /\ Remembered /\ SaveBegins

LEMMA ConversationAfter ==
  ASSUME TypeOK
  PROVE  /\ AnswerCall => /\ conversation'.events = conversation.events
                          /\ conversation'.summarized = conversation.summarized
         /\ Summarize => /\ conversation'.events = conversation.events
                         /\ conversation'.summarized \subseteq conversation.events
         /\ \A e : Inject(e) \/ Preempt(e)
                     => /\ conversation'.events = conversation.events \cup {e}
                        /\ conversation'.summarized = conversation.summarized
                        /\ injected' = injected \cup {e}
<1>1. conversation \in Conversation
  BY DEF TypeOK
<1> QED BY <1>1 DEF AnswerCall, Summarize, Inject, Preempt, Conversation

LEMMA RestSnapshotAfter ==
  ASSUME SummariesCover, SaveRestSnapshot
  PROVE  restSnapshot' = restSnapshot \/ restSnapshot' \subseteq conversation.events
BY DEF SaveRestSnapshot, SummariesCover, Covers

(* The end of a cycle leaves the files to the next one.                     *)
LEMMA FinallyFiles ==
  ASSUME IInv, SummariesCover, Finally, UNCHANGED shutdownCopy,
         session' # None => Covers(session'),
         exit = "no" /\ restarts = 0 /\ ~failed' =>
           /\ session' # None => injected \cup restSnapshot' \subseteq session'.events
           /\ session' = None => injected \subseteq restSnapshot',
         UNCHANGED <<injected, restarts>>
  PROVE  FilesInv'
<1>1. /\ phase' \in {"off", "loading"} /\ conversation' = Empty /\ saveStep' = "session"
      /\ exit' = "no" => exit = "no"
  BY FinallyType DEF IInv, Finally, TypeOK
<1>2. phase' \notin LoopPhases
  BY <1>1
<1>3. SummariesCover'
  BY <1>1 DEF SummariesCover, Covers, Empty
<1>4. FilesFollowPhase'
  BY <1>2 DEF FilesFollowPhase
<1>5. Remembered'
  BY <1>1, <1>2 DEF Remembered
<1> QED BY <1>1, <1>3, <1>4, <1>5 DEF FilesInv, SaveBegins

(* A step of the cycle that adds to the conversation and writes no file.     *)
LEMMA ConversationGrows ==
  ASSUME FilesInv, phase \in LoopPhases, phase' \in LoopPhases,
         UNCHANGED <<session, restSnapshot, shutdownCopy, exit, failed, restarts>>,
         conversation.events \subseteq conversation'.events,
         conversation'.summarized \subseteq conversation'.events,
         injected' \subseteq injected \cup conversation'.events,
         phase' \notin {"restKept", "implicitWait", "restClear"}, saveStep' = "session"
  PROVE  FilesInv'
BY DEF FilesInv, SummariesCover, Covers, FilesFollowPhase, Remembered, LoopSaves, SaveBegins

LEMMA FilesStep == IInv /\ FilesInv /\ [Next]_vars => FilesInv'
<1> SUFFICES ASSUME IInv, TypeOK, Control, FilesInv, [Next]_vars PROVE FilesInv'
  BY DEF IInv
<1> USE DEF FilesInv, SummariesCover, Covers, FilesFollowPhase, Remembered, LoopSaves, SaveBegins
<1>0. conversation # None
  BY ConversationAssumption DEF TypeOK
<1>1. ASSUME NEW e \in Event, NEW o \in BOOLEAN, Submit(e, o) PROVE FilesInv'
  BY <1>1 DEF Submit, DeliverEvent, StartWake, Control, FlagsFollowPhase
<1>2. CASE LoadSession
  <2>1. /\ session # None => /\ Resumed.events = session.events
                             /\ Resumed.summarized = session.summarized
        /\ session = None => Resumed.events = restSnapshot /\ Resumed.summarized = restSnapshot
    BY DEF Resumed, Repaired, Empty, TypeOK, Sessions, Conversation
  <2>2. Resumed \in Conversation
    BY ResumedType
  <2>3. /\ conversation'.events = Resumed.events \cup {wakeEvent}
        /\ conversation'.summarized = Resumed.summarized
    BY <1>2, <2>2 DEF LoadSession, Conversation
  <2> QED BY <1>2, <2>1, <2>3 DEF LoadSession
<1>3. CASE PreTurnCompact
  BY <1>3, ConversationAfter, ConversationGrows DEF PreTurnCompact, BeginTurn
<1>4. ASSUME NEW n \in 0..MaxCalls, Complete(n) PROVE FilesInv'
  <2>1. /\ conversation'.events = conversation.events
        /\ conversation'.summarized = conversation.summarized
    BY <1>4 DEF Complete, Repaired, TypeOK, Conversation
  <2>2. phase' \in {"calls", "preCompact", "save", "shutdownSave"} /\ phase = "completing"
    BY <1>4 DEF Complete, Unless
  <2>3. saveStep' = saveStep
    BY <1>4 DEF Complete
  <2> QED BY <1>4, <2>1, <2>2, <2>3, ConversationGrows DEF Complete
<1>5. CASE PromptTooLarge
  BY <1>5, ConversationAfter DEF PromptTooLarge
<1>6. CASE RejectCall
  BY <1>6, ConversationAfter, ConversationGrows, EndTurnControl DEF RejectCall
<1>7. CASE ParseError
  BY <1>7, ConversationAfter DEF ParseError
<1>8. CASE StartTool
  BY <1>8 DEF StartTool
<1>9. CASE ResultRecorded
  BY <1>9, ConversationAfter DEF ResultRecorded, SettleTool
<1>33. CASE ErrorTakenForRecorded
  <2>1. /\ conversation'.events = conversation.events
        /\ conversation'.summarized = conversation.summarized
    BY <1>33 DEF ErrorTakenForRecorded, TypeOK, Conversation
  <2> QED BY <1>33, <2>1 DEF ErrorTakenForRecorded, SettleTool
<1>10. ASSUME NEW kind \in {"wait", "timedWait"}, StartWait(kind) PROVE FilesInv'
  BY <1>10, ConversationAfter DEF StartWait
<1>11. CASE WaitTimeout
  BY <1>11 DEF WaitTimeout
<1>12. CASE WaitReturns
  BY <1>12, ConversationAfter DEF WaitReturns, TakeWaitResult
<1>13. CASE NextCall
  BY <1>13, ConversationAfter, ConversationGrows, EndTurnControl DEF NextCall
<1>14. CASE PostTurnCompact
  BY <1>14, ConversationAfter, ConversationGrows DEF PostTurnCompact
<1>15. CASE ImplicitWaitReturns
  BY <1>15, ConversationAfter, ConversationGrows DEF ImplicitWaitReturns, TakeWaitResult, Unless
<1>16. CASE StartRest
  BY <1>16, ConversationAfter DEF StartRest
<1>17. CASE FoldSession
  BY <1>17 DEF FoldSession
<1>18. CASE KeepSession
  BY <1>18 DEF KeepSession, WriteSession
<1>19. CASE WriteRestSnapshot
  BY <1>19 DEF WriteRestSnapshot, RestForests
<1>20. CASE Rest
  <2>1. session' # None => Covers(session')
    BY <1>20 DEF Rest
  <2>2. CASE phase = "restKept"
    BY <1>0, <1>20, <2>1, <2>2, FinallyFiles DEF Rest
  <2>3. CASE phase = "restClear"
    BY <1>20, <2>1, <2>3, FinallyFiles DEF Rest
  <2> QED BY <1>20, <2>2, <2>3 DEF Rest
<1>21. CASE RestFails
  BY <1>21 DEF RestFails, SettleTool
<1>22. CASE SaveSession
  BY <1>22 DEF SaveSession, WriteSession
<1>23. CASE SaveAndContinue
  BY <1>23, RestSnapshotAfter DEF SaveAndContinue, BeginTurn, Unless
<1>24. CASE SaveAndStop
  BY <1>0, <1>24, FinallyFiles, RestSnapshotAfter DEF SaveAndStop
<1>25. CASE Abort
  BY <1>25 DEF Abort
<1>26. CASE AbortSaveFails
  BY <1>0, <1>26, FinallyFiles DEF AbortSaveFails
<1>27. CASE RequestShutdown
  BY <1>27 DEF RequestShutdown
<1>28. CASE ShutdownSave
  BY <1>28 DEF ShutdownSave
<1>29. CASE ShutdownTimeout
  BY <1>29 DEF ShutdownTimeout
<1>30. CASE ProcessExit \/ Crash
  BY <1>30 DEF ProcessExit, Crash, Restart, Empty, TypeOK
<1>31. CASE UNCHANGED vars
  BY <1>31 DEF vars
<1> QED
  BY <1>1, <1>2, <1>3, <1>4, <1>5, <1>6, <1>7, <1>8, <1>9, <1>10,
     <1>11, <1>12, <1>13, <1>14, <1>15, <1>16, <1>17, <1>18, <1>19, <1>20,
     <1>21, <1>22, <1>23, <1>24, <1>25, <1>26, <1>27, <1>28, <1>29, <1>30,
     <1>31, <1>33
  DEF Next, WakeCycle, Process, ToolReturns

LEMMA FilesAlwaysHold == Spec => [](IInv /\ FilesInv)
<1>1. Init => FilesInv
  BY DEF Init, Empty, FilesInv, SummariesCover, Covers, FilesFollowPhase, Remembered, LoopSaves,
     SaveBegins
<1> QED BY InitInv, InductiveInvariant, <1>1, FilesStep, PTL DEF Spec

(* An agent that idles after an answer without tool calls can crash without *)
(* forgetting anything: saveRuntimeSnapshot ran after the answer, and until *)
(* its shutdown nothing touches the session file while it waits (loop.ts,   *)
(* saveSession of runner/util.ts).                                          *)
THEOREM IdleIsSaved == Spec => []SavedWhenIdle
<1>1. IInv /\ FilesInv => SavedWhenIdle
  BY ConversationAssumption DEF IInv, TypeOK, FilesInv, FilesFollowPhase, LoopSaves, SavedWhenIdle
<1> QED BY FilesAlwaysHold, <1>1, PTL

(* Over any number of wakes, rests, compactions and checkpoints of a        *)
(* process in which none of its writes failed, no event the agent was told  *)
(* of leaves both its conversation and its files (wake, rest,               *)
(* saveRuntimeSnapshot).                                                    *)
THEOREM EventsAreRemembered == Spec => []NothingForgotten
<1>1. IInv /\ FilesInv => NothingForgotten
  BY DEF FilesInv, Remembered, NothingForgotten, Durable
<1> QED BY FilesAlwaysHold, <1>1, PTL

(* When shutdown() waits for the loop, all of the conversation is in the    *)
(* files by the time it resolves.                                           *)
THEOREM ShutdownLeavesAllSaved == Spec => ShutdownPersists
<1>1. IInv /\ FilesInv /\ [Next]_vars
        => [exit = "waiting" /\ exit' = "saved" /\ ~(phase = "abortSave" /\ saveStep = "session")
              => conversation.events \subseteq Durable(session', restSnapshot')]_vars
  <2> SUFFICES ASSUME IInv, FilesInv, Next, exit = "waiting", exit' = "saved",
                      ~(phase = "abortSave" /\ saveStep = "session")
               PROVE  conversation.events \subseteq Durable(session', restSnapshot')
    BY DEF vars
  <2>0. conversation # None /\ LoopSaves
    BY ConversationAssumption DEF IInv, TypeOK, LoopSaves
  <2> USE DEF FilesInv, FilesFollowPhase, Durable
  <2>1. CASE Rest
    BY <2>0, <2>1 DEF Rest
  <2>2. CASE SaveAndStop
    BY <2>0, <2>2 DEF SaveAndStop
  <2>3. CASE AbortSaveFails
    BY <2>0, <2>3 DEF AbortSaveFails, IInv, TypeOK
  <2>4. CASE \/ ShutdownSave \/ ShutdownTimeout \/ RequestShutdown \/ ProcessExit \/ Crash
    BY <2>4 DEF ShutdownSave, ShutdownTimeout, RequestShutdown, ProcessExit, Crash, Restart
  <2>5. CASE UNCHANGED exit
    BY <2>5
  <2>6. ASSUME NEW e \in Event, NEW o \in BOOLEAN, Submit(e, o) PROVE UNCHANGED exit
    BY <2>6 DEF Submit
  <2>7. WakeCycle => UNCHANGED exit \/ Rest \/ SaveAndStop \/ AbortSaveFails
    BY DEF WakeCycle, LoadSession, PreTurnCompact, Complete, PromptTooLarge, RejectCall,
       ParseError, StartTool, ToolReturns, ResultRecorded, ErrorTakenForRecorded, StartWait,
         WaitTimeout, WaitReturns, NextCall,
       PostTurnCompact, ImplicitWaitReturns, StartRest, FoldSession, KeepSession,
       WriteRestSnapshot, RestFails, SaveSession, SaveAndContinue, Abort
  <2> QED BY <2>1, <2>2, <2>3, <2>4, <2>5, <2>6, <2>7 DEF Next, Process
<1> QED BY FilesAlwaysHold, <1>1, PTL DEF Spec, ShutdownPersists

(* rest deletes the session file only when the rest snapshot has all that   *)
(* the file and the conversation had, in every process and whatever failed  *)
(* before.                                                                  *)
THEOREM RestKeepsEverything == Spec => RestForgetsNothing
<1>1. IInv /\ FilesInv /\ [Next]_vars
        => [session # None /\ session' = None /\ exit \in {"no", "waiting"}
              => session.events \cup conversation.events \subseteq restSnapshot']_vars
  <2> SUFFICES ASSUME IInv, FilesInv, Next, session # None, session' = None, LoopSaves
               PROVE  session.events \cup conversation.events \subseteq restSnapshot'
    BY DEF vars, LoopSaves
  <2>0. conversation # None
    BY ConversationAssumption DEF IInv, TypeOK
  <2> USE DEF FilesInv, FilesFollowPhase
  <2>1. CASE Rest
    BY <2>1 DEF Rest
  <2>2. CASE SaveSession \/ KeepSession
    BY <2>0, <2>2 DEF SaveSession, KeepSession, WriteSession
  <2>3. CASE \/ ShutdownSave \/ ShutdownTimeout \/ RequestShutdown \/ ProcessExit \/ Crash
    BY <2>3 DEF ShutdownSave, ShutdownTimeout, RequestShutdown, ProcessExit, Crash, Restart, LoopSaves
  <2>4. ASSUME NEW e \in Event, NEW o \in BOOLEAN, Submit(e, o) PROVE UNCHANGED session
    BY <2>4 DEF Submit
  <2>5. WakeCycle => UNCHANGED session \/ Rest \/ SaveSession \/ KeepSession
    BY DEF WakeCycle, LoadSession, PreTurnCompact, Complete, PromptTooLarge, RejectCall,
       ParseError, StartTool, ToolReturns, ResultRecorded, ErrorTakenForRecorded, StartWait,
         WaitTimeout, WaitReturns, NextCall,
       PostTurnCompact, ImplicitWaitReturns, StartRest, FoldSession,
       WriteRestSnapshot, RestFails, SaveAndContinue, SaveAndStop, Abort, AbortSaveFails
  <2> QED BY <2>1, <2>2, <2>3, <2>4, <2>5 DEF Next, Process
<1> QED BY FilesAlwaysHold, <1>1, PTL DEF Spec, RestForgetsNothing

-----------------------------------------------------------------------------
(* The order of the queues *)

(* What stands before what in the order s has a place in R.                 *)
InOrder(s, R) == \A i, j \in DOMAIN s : i < j => <<s[i], s[j]>> \in R

Apart == {p \in Event \X Event : p[1] # p[2]}

(* x may be taken while y waits: a priority event before any other, the     *)
(* others as they came.                                                     *)
Before == {p \in Apart : /\ p[2] \in Priority => p[1] \in Priority
                         /\ p[1] \notin Priority => Contract!Earlier(p[1], p[2])}

(* The events in the order in which they will be taken are those that a     *)
(* flush would put into pendingInputs.                                      *)
LineOrdered ==
  /\ InOrder(Flushed, Before)
  /\ ToSet(deferredEvents.front) \subseteq Priority
  /\ ToSet(deferredEvents.back) \cap Priority = {}

(* Each event is in one place, and has been accepted to be there.           *)
OnePlace ==
  /\ Queued \cap (InHand \cup injected) = {}
  /\ InHand \cap injected = {}
  /\ Queued \cup InHand \subseteq ToSet(accepted)
  /\ injected \subseteq ToSet(accepted) \cup spent

LineInv == IsInjective(accepted) /\ LineOrdered /\ OnePlace

LEMMA InOrderConcat ==
  ASSUME NEW S, NEW s \in Seq(S), NEW t \in Seq(S), NEW R
  PROVE  InOrder(s \o t, R) <=> /\ InOrder(s, R) /\ InOrder(t, R)
                                /\ \A x \in ToSet(s), y \in ToSet(t) : <<x, y>> \in R
<1> DEFINE m == Len(s)  n == Len(t)  st == s \o t
<1>1. /\ DOMAIN st = 1 .. m + n /\ DOMAIN s = 1 .. m /\ DOMAIN t = 1 .. n
      /\ m \in Nat /\ n \in Nat
      /\ \A i \in 1 .. m : st[i] = s[i]
      /\ \A i \in 1 .. n : st[i + m] = t[i]
  OBVIOUS
<1> HIDE DEF m, n, st
<1>2. ASSUME InOrder(st, R) PROVE InOrder(s, R)
  BY <1>1, <1>2 DEF InOrder
<1>3. ASSUME InOrder(st, R) PROVE InOrder(t, R)
  <2> SUFFICES ASSUME NEW i \in 1 .. n, NEW j \in 1 .. n, i < j PROVE <<t[i], t[j]>> \in R
    BY <1>1 DEF InOrder
  <2>1. i + m \in 1 .. m + n /\ j + m \in 1 .. m + n /\ i + m < j + m
    BY <1>1
  <2>2. <<st[i + m], st[j + m]>> \in R
    BY <1>1, <1>3, <2>1 DEF InOrder
  <2> QED BY <1>1, <2>2
<1>4. ASSUME InOrder(st, R), NEW x \in ToSet(s), NEW y \in ToSet(t) PROVE <<x, y>> \in R
  <2>1. PICK i \in 1 .. m : x = s[i]
    BY <1>1 DEF ToSet
  <2>2. PICK j \in 1 .. n : y = t[j]
    BY <1>1 DEF ToSet
  <2>3. i \in 1 .. m + n /\ j + m \in 1 .. m + n /\ i < j + m
    BY <1>1
  <2>4. <<st[i], st[j + m]>> \in R
    BY <1>1, <1>4, <2>3 DEF InOrder
  <2> QED BY <1>1, <2>1, <2>2, <2>4
<1>5. ASSUME InOrder(s, R), InOrder(t, R),
             \A x \in ToSet(s), y \in ToSet(t) : <<x, y>> \in R
      PROVE  InOrder(st, R)
  <2> SUFFICES ASSUME NEW i \in 1 .. m + n, NEW j \in 1 .. m + n, i < j
               PROVE  <<st[i], st[j]>> \in R
    BY <1>1 DEF InOrder
  <2>1. CASE j \in 1 .. m
    <3>1. i \in 1 .. m /\ st[i] = s[i] /\ st[j] = s[j]
      BY <1>1, <2>1
    <3> QED BY <1>1, <1>5, <2>1, <3>1 DEF InOrder
  <2>2. CASE i \notin 1 .. m
    <3>1. i - m \in 1 .. n /\ j - m \in 1 .. n /\ i - m < j - m /\ (i - m) + m = i /\ (j - m) + m = j
      BY <1>1, <2>2
    <3>2. <<t[i - m], t[j - m]>> \in R
      BY <1>1, <1>5, <3>1 DEF InOrder
    <3> QED BY <1>1, <3>1, <3>2
  <2>3. CASE i \in 1 .. m /\ j \notin 1 .. m
    <3>1. j - m \in 1 .. n /\ (j - m) + m = j
      BY <1>1, <2>3
    <3>2. s[i] \in ToSet(s) /\ t[j - m] \in ToSet(t)
      BY <1>1, <2>3, <3>1 DEF ToSet
    <3> QED BY <1>1, <1>5, <2>3, <3>1, <3>2
  <2> QED BY <2>1, <2>2, <2>3
<1> QED BY <1>2, <1>3, <1>4, <1>5 DEF st

LEMMA InOrderShort ==
  ASSUME NEW R PROVE InOrder(<<>>, R) /\ \A e : InOrder(<<e>>, R)
BY DEF InOrder

LEMMA InOrderAppend ==
  ASSUME NEW S, NEW s \in Seq(S), NEW e \in S, NEW R
  PROVE  InOrder(Append(s, e), R) <=> InOrder(s, R) /\ \A x \in ToSet(s) : <<x, e>> \in R
<1> DEFINE single == <<e>>
<1>1. single \in Seq(S) /\ ToSet(single) = {e} /\ InOrder(single, R)
  <2>1. single \in Seq(S) /\ InOrder(single, R)
    BY InOrderShort
  <2>2. ToSet(single) = {e}
    BY DEF ToSet
  <2> QED BY <2>1, <2>2
<1>2. Append(s, e) = s \o single
  OBVIOUS
<1> HIDE DEF single
<1> QED BY <1>1, <1>2, InOrderConcat

LEMMA InOrderPrepend ==
  ASSUME NEW S, NEW s \in Seq(S), NEW e \in S, NEW R
  PROVE  InOrder(<<e>> \o s, R) <=> InOrder(s, R) /\ \A x \in ToSet(s) : <<e, x>> \in R
<1> DEFINE single == <<e>>
<1>1. single \in Seq(S) /\ ToSet(single) = {e} /\ InOrder(single, R)
  <2>1. single \in Seq(S) /\ InOrder(single, R)
    BY InOrderShort
  <2>2. ToSet(single) = {e}
    BY DEF ToSet
  <2> QED BY <2>1, <2>2
<1>2. InOrder(single \o s, R) <=> InOrder(s, R) /\ \A x \in ToSet(s) : <<e, x>> \in R
  <2> HIDE DEF single
  <2> QED BY <1>1, InOrderConcat
<1> QED BY <1>2

LEMMA InOrderTail ==
  ASSUME NEW S, NEW s \in Seq(S), s # <<>>, NEW R, InOrder(s, R)
  PROVE  /\ Head(s) \in ToSet(s) /\ ToSet(s) = {Head(s)} \cup ToSet(Tail(s))
         /\ InOrder(Tail(s), R) /\ \A x \in ToSet(Tail(s)) : <<Head(s), x>> \in R
<1>1. s = <<Head(s)>> \o Tail(s) /\ Head(s) \in S /\ Tail(s) \in Seq(S)
  OBVIOUS
<1>2. InOrder(<<Head(s)>> \o Tail(s), R)
  BY <1>1
<1> QED BY <1>1, <1>2, InOrderPrepend, ToSetHeadTail

LEMMA InOrderReverse ==
  ASSUME NEW S, NEW s \in Seq(S), NEW R, \A x, y : <<x, y>> \in R => <<y, x>> \in R
  PROVE  InOrder(Reverse(s), R) <=> InOrder(s, R)
<1> DEFINE n == Len(s)  r == Reverse(s)
<1>1. /\ n \in Nat /\ DOMAIN s = 1 .. n /\ DOMAIN r = 1 .. n
      /\ \A i \in 1 .. n : r[i] = s[n - i + 1]
  BY DEF Reverse
<1>2. \A i \in 1 .. n : n - i + 1 \in 1 .. n /\ r[n - i + 1] = s[i]
  <2> TAKE i \in 1 .. n
  <2>1. n - i + 1 \in 1 .. n /\ n - (n - i + 1) + 1 = i
    BY <1>1
  <2> QED BY <1>1, <2>1
<1>3. \A i, j \in 1 .. n : i < j => n - j + 1 < n - i + 1
  BY <1>1
<1> HIDE DEF n, r
<1>4. ASSUME InOrder(r, R), NEW i \in 1 .. n, NEW j \in 1 .. n, i < j PROVE <<s[i], s[j]>> \in R
  BY <1>1, <1>2, <1>3, <1>4 DEF InOrder
<1>5. ASSUME InOrder(s, R), NEW i \in 1 .. n, NEW j \in 1 .. n, i < j PROVE <<r[i], r[j]>> \in R
  BY <1>1, <1>2, <1>3, <1>5 DEF InOrder
<1> QED BY <1>1, <1>4, <1>5 DEF InOrder, r

LEMMA ApartIsInjective ==
  ASSUME NEW s \in Seq(Event)
  PROVE  InOrder(s, Apart) <=> IsInjective(s)
<1>1. DOMAIN s = 1 .. Len(s) /\ Len(s) \in Nat /\ \A i \in 1 .. Len(s) : s[i] \in Event
  OBVIOUS
<1>2. ASSUME IsInjective(s) PROVE InOrder(s, Apart)
  BY <1>1, <1>2 DEF IsInjective, InOrder, Apart
<1>3. ASSUME InOrder(s, Apart), NEW i \in 1 .. Len(s), NEW j \in 1 .. Len(s), s[i] = s[j] PROVE i = j
  <2>1. ~(i < j) /\ ~(j < i)
    BY <1>1, <1>3 DEF InOrder, Apart
  <2> QED BY <1>1, <2>1
<1> QED BY <1>1, <1>2, <1>3 DEF IsInjective

LEMMA InOrderWeaker ==
  ASSUME NEW s, NEW R, NEW Q, InOrder(s, R), R \subseteq Q PROVE InOrder(s, Q)
BY DEF InOrder

(* The line is in order if the three queues are, and each before the next.  *)
LEMMA LineParts ==
  ASSUME NEW R, NEW front \in Seq(Event), NEW middle \in Seq(Event), NEW back \in Seq(Event)
  PROVE  InOrder(Reverse(front) \o middle \o back, R) <=>
           /\ InOrder(Reverse(front), R) /\ InOrder(middle, R) /\ InOrder(back, R)
           /\ \A x \in ToSet(front), y \in ToSet(middle) : <<x, y>> \in R
           /\ \A x \in ToSet(front) \cup ToSet(middle), y \in ToSet(back) : <<x, y>> \in R
<1> DEFINE first == Reverse(front)  second == first \o middle
<1>1. first \in Seq(Event) /\ ToSet(first) = ToSet(front)
  BY ReverseType, ToSetReverse
<1> HIDE DEF first
<1>2. second \in Seq(Event) /\ ToSet(second) = ToSet(front) \cup ToSet(middle)
  BY <1>1, ToSetConcat
<1>3. InOrder(second, R) <=> /\ InOrder(first, R) /\ InOrder(middle, R)
                             /\ \A x \in ToSet(front), y \in ToSet(middle) : <<x, y>> \in R
  BY <1>1, InOrderConcat
<1> HIDE DEF second
<1>4. InOrder(second \o back, R) <=>
        /\ InOrder(second, R) /\ InOrder(back, R)
        /\ \A x \in ToSet(front) \cup ToSet(middle), y \in ToSet(back) : <<x, y>> \in R
  BY <1>2, InOrderConcat
<1> QED BY <1>3, <1>4 DEF first, second

LEMMA FlushedParts ==
  ASSUME TypeOK, LineOrdered
  PROVE  /\ InOrder(Reverse(deferredEvents.front), Before)
         /\ InOrder(pendingInputs, Before) /\ InOrder(deferredEvents.back, Before)
         /\ \A x \in ToSet(deferredEvents.front), y \in ToSet(pendingInputs) : <<x, y>> \in Before
         /\ \A x \in ToSet(deferredEvents.front) \cup ToSet(pendingInputs),
               y \in ToSet(deferredEvents.back) : <<x, y>> \in Before
BY LineParts DEF LineOrdered, Flushed, TypeOK

Urgent == {p \in Apart : p[1] \in Priority /\ p[2] \in Priority}

LEMMA UrgentInOrder ==
  ASSUME NEW s \in Seq(Event), ToSet(s) \subseteq Priority, NEW R, InOrder(s, R), R \subseteq Apart
  PROVE  InOrder(s, Urgent)
BY DEF InOrder, ToSet, Urgent

LEMMA UrgentAnyway == Urgent \subseteq Before /\ Urgent \subseteq Before' /\ Before \subseteq Apart
BY DEF Urgent, Before

(* An event just accepted comes after all accepted before, unless it has    *)
(* priority.                                                                *)
LEMMA NewestLast ==
  ASSUME TypeOK, IsInjective(accepted), NEW e \in Event, e \notin ToSet(accepted),
         accepted' = Append(accepted, e)
  PROVE  /\ IsInjective(accepted') /\ ToSet(accepted') = ToSet(accepted) \cup {e}
         /\ Before \subseteq Before'
         /\ \A x \in ToSet(accepted) : IF e \in Priority THEN <<e, x>> \in Before'
                                                         ELSE <<x, e>> \in Before'
         /\ \A x \in ToSet(accepted) \cap Priority : <<x, e>> \in Before'
<1> DEFINE n == Len(accepted)
<1>1. /\ n \in Nat /\ DOMAIN accepted = 1 .. n /\ DOMAIN accepted' = 1 .. n + 1
      /\ accepted'[n + 1] = e /\ \A i \in 1 .. n : accepted'[i] = accepted[i]
      /\ \A i \in 1 .. n : accepted[i] \in Event
      /\ \A i \in 1 .. n : i \in 1 .. n + 1 /\ i < n + 1
  BY DEF TypeOK
<1>2. ToSet(accepted') = ToSet(accepted) \cup {e}
  BY ToSetAppend DEF TypeOK
<1>3. IsInjective(accepted')
  <2> SUFFICES ASSUME NEW i \in 1 .. n + 1, NEW j \in 1 .. n + 1, accepted'[i] = accepted'[j]
               PROVE  i = j
    BY <1>1 DEF IsInjective
  <2>1. \A k \in 1 .. n : accepted'[k] # e
    BY <1>1 DEF ToSet
  <2>2. (i = n + 1 \/ i \in 1 .. n) /\ (j = n + 1 \/ j \in 1 .. n)
    BY <1>1
  <2> QED BY <1>1, <2>1, <2>2 DEF IsInjective
<1> HIDE DEF n
<1>4. \A x, y : Contract!Earlier(x, y) => Contract!Earlier(x, y)'
  BY <1>1 DEF Contract!Earlier
<1>5. ASSUME NEW x \in ToSet(accepted) PROVE Contract!Earlier(x, e)' /\ x \in Event /\ x # e
  <2>1. PICK i \in 1 .. n : accepted[i] = x
    BY <1>1 DEF ToSet
  <2>2. n + 1 \in 1 .. n + 1
    BY <1>1
  <2> QED BY <1>1, <2>1, <2>2 DEF Contract!Earlier
<1>6. Before \subseteq Before'
  BY <1>4 DEF Before
<1>7. ASSUME NEW x \in ToSet(accepted)
      PROVE  /\ IF e \in Priority THEN <<e, x>> \in Before' ELSE <<x, e>> \in Before'
             /\ x \in Priority => <<x, e>> \in Before'
  BY <1>5, <1>7 DEF Before, Apart
<1> QED BY <1>2, <1>3, <1>6, <1>7

(* deliverEvent behind a running tool.                                      *)
LEMMA DeferInLine ==
  ASSUME TypeOK, IsInjective(accepted), LineOrdered, Queued \subseteq ToSet(accepted),
         NEW e \in Event, e \notin ToSet(accepted), accepted' = Append(accepted, e),
         Defer(e), UNCHANGED pendingInputs
  PROVE  LineOrdered'
<1> DEFINE front == deferredEvents.front  back == deferredEvents.back
<1>1. front \in Seq(Event) /\ back \in Seq(Event) /\ pendingInputs \in Seq(Event)
  BY DEF TypeOK
<1>2. /\ InOrder(Reverse(front), Before') /\ InOrder(pendingInputs, Before') /\ InOrder(back, Before')
      /\ \A x \in ToSet(front), y \in ToSet(pendingInputs) : <<x, y>> \in Before'
      /\ \A x \in ToSet(front) \cup ToSet(pendingInputs), y \in ToSet(back) : <<x, y>> \in Before'
  BY FlushedParts, NewestLast, InOrderWeaker
<1>3. \A x \in ToSet(front) \cup ToSet(pendingInputs) \cup ToSet(back) :
        /\ IF e \in Priority THEN <<e, x>> \in Before' ELSE <<x, e>> \in Before'
        /\ x \in Priority => <<x, e>> \in Before'
  BY NewestLast DEF Queued, DeferredSet
<1>4. ToSet(front) \subseteq Priority /\ ToSet(back) \cap Priority = {}
  BY DEF LineOrdered
<1>5. CASE e \in Priority
  <2> DEFINE longer == <<e>> \o front
  <2>1. deferredEvents'.front = longer /\ deferredEvents'.back = back
    BY <1>5 DEF Defer, TypeOK
  <2>2. longer \in Seq(Event) /\ ToSet(longer) = {e} \cup ToSet(front)
    BY <1>1, ToSetPrepend
  <2>3. InOrder(front, Urgent)
    <3>1. Reverse(front) \in Seq(Event) /\ ToSet(Reverse(front)) = ToSet(front)
      BY <1>1, ReverseType, ToSetReverse
    <3>2. InOrder(Reverse(front), Urgent)
      BY <1>4, <3>1, FlushedParts, UrgentInOrder, UrgentAnyway
    <3> QED BY <1>1, <3>2, InOrderReverse DEF Urgent, Apart
  <2>4. InOrder(longer, Urgent)
    <3>1. \A x \in ToSet(front) : <<e, x>> \in Urgent
      BY <1>3, <1>4, <1>5 DEF Urgent, Before
    <3> QED BY <1>1, <2>3, <3>1, InOrderPrepend
  <2> HIDE DEF longer
  <2>5. InOrder(Reverse(longer), Before')
    <3>1. InOrder(Reverse(longer), Urgent)
      BY <2>2, <2>4, InOrderReverse DEF Urgent, Apart
    <3> QED BY <3>1, UrgentAnyway, InOrderWeaker
  <2>6. InOrder(Reverse(longer) \o pendingInputs \o back, Before')
    BY <1>1, <1>2, <1>3, <1>5, <2>2, <2>5, LineParts
  <2>7. ToSet(longer) \subseteq Priority
    BY <1>4, <1>5, <2>2
  <2> QED BY <1>4, <2>1, <2>6, <2>7 DEF LineOrdered, Flushed
<1>6. CASE e \notin Priority
  <2> DEFINE longer == Append(back, e)
  <2>1. deferredEvents'.front = front /\ deferredEvents'.back = longer
    BY <1>6 DEF Defer, TypeOK
  <2>2. longer \in Seq(Event) /\ ToSet(longer) = ToSet(back) \cup {e}
    BY <1>1, ToSetAppend
  <2>3. InOrder(longer, Before')
    BY <1>1, <1>2, <1>3, <1>6, InOrderAppend
  <2> HIDE DEF longer
  <2>4. InOrder(Reverse(front) \o pendingInputs \o longer, Before')
    BY <1>1, <1>2, <1>3, <1>6, <2>2, <2>3, LineParts
  <2>5. ToSet(longer) \cap Priority = {}
    BY <1>4, <1>6, <2>2
  <2> QED BY <1>4, <2>1, <2>4, <2>5 DEF LineOrdered, Flushed
<1> QED BY <1>5, <1>6

(* Without deferred events the line is pendingInputs.                       *)
LEMMA FlushedNow ==
  /\ pendingInputs \in Seq(Event) /\ deferredEvents = NoDeferred
       => Flushed = pendingInputs /\ Queued = ToSet(pendingInputs)
  /\ pendingInputs' \in Seq(Event) /\ deferredEvents' = NoDeferred
       => /\ Queued' = ToSet(pendingInputs')
          /\ LineOrdered' <=> InOrder(pendingInputs', Before')
<1>1. Reverse(<<>>) = <<>>
  BY DEF Reverse
<1>2. ASSUME NEW s \in Seq(Event) PROVE Reverse(<<>>) \o s \o <<>> = s
  BY <1>1
<1>3. deferredEvents = NoDeferred /\ pendingInputs \in Seq(Event) => Flushed = pendingInputs
  BY <1>2 DEF Flushed, NoDeferred
<1>4. deferredEvents' = NoDeferred /\ pendingInputs' \in Seq(Event) => Flushed' = pendingInputs'
  BY <1>2 DEF Flushed, NoDeferred
<1>5. /\ deferredEvents = NoDeferred => Queued = ToSet(pendingInputs)
      /\ deferredEvents' = NoDeferred => Queued' = ToSet(pendingInputs')
  BY NoneQueued DEF Queued
<1>6. deferredEvents' = NoDeferred
        => ToSet(deferredEvents'.front) \subseteq Priority /\ ToSet(deferredEvents'.back) \cap Priority = {}
  BY ToSetEmpty DEF NoDeferred
<1> QED BY <1>3, <1>4, <1>5, <1>6 DEF LineOrdered

(* deliverEvent with nobody waiting.                                        *)
LEMMA PlaceInLine ==
  ASSUME TypeOK, IsInjective(accepted), LineOrdered, Queued \subseteq ToSet(accepted),
         NEW e \in Event, e \notin ToSet(accepted), accepted' = Append(accepted, e),
         deferredEvents = NoDeferred, UNCHANGED deferredEvents,
         pendingInputs' = Place(e, pendingInputs)
  PROVE  LineOrdered'
<1>1. pendingInputs \in Seq(Event) /\ pendingInputs' \in Seq(Event)
  BY PlaceType DEF TypeOK
<1>2. InOrder(pendingInputs, Before')
  BY FlushedParts, NewestLast, InOrderWeaker
<1>3. \A x \in ToSet(pendingInputs) : IF e \in Priority THEN <<e, x>> \in Before'
                                                        ELSE <<x, e>> \in Before'
  BY NewestLast DEF Queued
<1>4. InOrder(Place(e, pendingInputs), Before')
  <2>1. CASE e \in Priority
    BY <1>1, <1>2, <1>3, <2>1, InOrderPrepend DEF Place
  <2>2. CASE e \notin Priority
    BY <1>1, <1>2, <1>3, <2>2, InOrderAppend DEF Place
  <2> QED BY <2>1, <2>2
<1> QED BY <1>1, <1>4, FlushedNow

(* What a step does to the line while nothing arrives: it takes the first   *)
(* event, keeps all, or drops what was deferred.                            *)
TakesFirst ==
  /\ Flushed # <<>> /\ pendingInputs' = Tail(Flushed) /\ deferredEvents' = NoDeferred
  /\ UNCHANGED accepted

KeepsLine ==
  \/ pendingInputs' = Flushed /\ deferredEvents' = NoDeferred /\ UNCHANGED accepted
  \/ UNCHANGED <<pendingInputs, deferredEvents, accepted>>

DropsDeferred == UNCHANGED <<pendingInputs, accepted>> /\ deferredEvents' = NoDeferred

ClosingStays == (exit' = "no") <=> (exit = "no")

LEMMA TakesFirstInLine ==
  ASSUME TypeOK, LineOrdered, IsInjective(accepted), TakesFirst
  PROVE  /\ Head(Flushed) \in Queued /\ Queued' = Queued \ {Head(Flushed)} /\ LineOrdered'
         /\ ClosingStays => Contract!Take(Head(Flushed))
<1> DEFINE h == Head(Flushed)
<1>1. /\ Flushed \in Seq(Event) /\ Flushed # <<>> /\ ToSet(Flushed) = Queued
      /\ Tail(Flushed) \in Seq(Event) /\ InOrder(Flushed, Before)
  BY FlushedType, FlushedSet DEF TakesFirst, LineOrdered, TypeOK
<1>2. /\ h \in Queued /\ Queued = {h} \cup ToSet(Tail(Flushed))
      /\ InOrder(Tail(Flushed), Before) /\ \A x \in ToSet(Tail(Flushed)) : <<h, x>> \in Before
  BY <1>1, InOrderTail
<1>3. h \notin ToSet(Tail(Flushed))
  BY <1>2 DEF Before, Apart
<1>4. Before' = Before /\ pendingInputs' = Tail(Flushed)
  BY DEF TakesFirst, Before, Contract!Earlier
<1>5. Queued' = Queued \ {h} /\ LineOrdered'
  BY <1>1, <1>2, <1>3, <1>4, FlushedNow DEF TakesFirst
<1>6. Contract!IsNext(h)
  <2> SUFFICES ASSUME h \notin Priority, NEW f \in Queued
               PROVE  f \notin Priority /\ ~Contract!Earlier(f, h)
    BY DEF Contract!IsNext
  <2>1. CASE f = h
    BY <2>1, RunnerAssumption DEF Contract!Earlier, IsInjective, TypeOK
  <2>2. CASE f # h
    <3>1. <<h, f>> \in Before
      BY <1>2, <2>2
    <3>2. f \notin Priority /\ Contract!Earlier(h, f)
      BY <3>1 DEF Before
    <3>3. PICK i, j \in DOMAIN accepted : i < j /\ accepted[i] = h /\ accepted[j] = f
      BY <3>2 DEF Contract!Earlier
    <3>4. ASSUME NEW k \in DOMAIN accepted, NEW l \in DOMAIN accepted,
                 k < l, accepted[k] = f, accepted[l] = h
          PROVE  FALSE
      <4>1. k = j /\ l = i
        BY <3>3, <3>4 DEF IsInjective
      <4>2. DOMAIN accepted = 1 .. Len(accepted) /\ Len(accepted) \in Nat
        BY DEF TypeOK
      <4> QED BY <3>3, <3>4, <4>1, <4>2
    <3> QED BY <3>2, <3>4 DEF Contract!Earlier
  <2> QED BY <2>1, <2>2
<1> QED BY <1>2, <1>5, <1>6 DEF Contract!Take, TakesFirst, ClosingStays

LEMMA KeepsLineInLine ==
  ASSUME TypeOK, LineOrdered, KeepsLine
  PROVE  Queued' = Queued /\ LineOrdered' /\ (ClosingStays => UNCHANGED Contract!inboxVars)
<1>1. /\ Flushed \in Seq(Event) /\ ToSet(Flushed) = Queued /\ InOrder(Flushed, Before)
  BY FlushedType, FlushedSet DEF LineOrdered, TypeOK
<1>2. Before' = Before /\ UNCHANGED accepted
  BY DEF KeepsLine, Before, Contract!Earlier
<1>3. Queued' = Queued /\ LineOrdered'
  <2>1. CASE UNCHANGED <<pendingInputs, deferredEvents>>
    BY <1>2, <2>1 DEF LineOrdered, Flushed, Queued, DeferredSet
  <2>2. CASE pendingInputs' = Flushed /\ deferredEvents' = NoDeferred
    BY <1>1, <1>2, <2>2, FlushedNow
  <2> QED BY <2>1, <2>2 DEF KeepsLine
<1> QED BY <1>2, <1>3 DEF Contract!inboxVars, ClosingStays

LEMMA DropsDeferredInLine ==
  ASSUME TypeOK, LineOrdered, DropsDeferred
  PROVE  /\ Queued' \subseteq Queued /\ LineOrdered'
         /\ ClosingStays /\ exit # "no" => Contract!Drop
<1>1. Before' = Before /\ pendingInputs' = pendingInputs /\ pendingInputs \in Seq(Event)
  BY DEF DropsDeferred, Before, Contract!Earlier, TypeOK
<1>2. Queued' = ToSet(pendingInputs) /\ LineOrdered'
  BY <1>1, FlushedNow, FlushedParts DEF DropsDeferred
<1>3. Queued' \subseteq Queued
  BY <1>2 DEF Queued
<1> QED BY <1>2, <1>3 DEF Contract!Drop, ClosingStays, DropsDeferred

(* The finally of wake, and the tool that settles.                          *)
LEMMA FinallyLine ==
  ASSUME TypeOK, Control, phase \in LoopPhases \ WaitPhases, Finally, UNCHANGED accepted
  PROVE  /\ ClosingStays /\ resolver = None /\ resolver' = None /\ wakeEvent = None
         /\ \/ TakesFirst /\ wakeEvent' = Head(Flushed)
            \/ (KeepsLine \/ (DropsDeferred /\ exit # "no")) /\ wakeEvent' = wakeEvent
<1>1. /\ WakeAgainOrStop(IF shutdownRequested THEN pendingInputs ELSE Flushed)
      /\ deferredEvents' = NoDeferred /\ resolver' = None /\ ClosingStays
  BY DEF Finally, ClosingStays
<1>2. resolver = None /\ wakeEvent = None /\ (shutdownRequested => exit # "no")
  BY DEF Finally, Control, FlagsFollowPhase, EventsInHand
<1>3. CASE shutdownRequested
  BY <1>1, <1>2, <1>3 DEF WakeAgainOrStop, DropsDeferred
<1>4. CASE ~shutdownRequested
  <2> DEFINE queue == Flushed
  <2>1. WakeAgainOrStop(queue)
    BY <1>1, <1>4
  <2>2. \/ queue # <<>> /\ wakeEvent' = Head(queue) /\ pendingInputs' = Tail(queue)
        \/ pendingInputs' = queue /\ UNCHANGED wakeEvent
    <3> HIDE DEF queue
    <3> QED BY <1>4, <2>1 DEF WakeAgainOrStop, StartWake
  <2>3. CASE queue # <<>> /\ wakeEvent' = Head(queue) /\ pendingInputs' = Tail(queue)
    BY <1>1, <1>2, <2>3 DEF TakesFirst
  <2>4. CASE pendingInputs' = queue /\ UNCHANGED wakeEvent
    BY <1>1, <1>2, <2>4 DEF KeepsLine
  <2> QED BY <2>2, <2>3, <2>4
<1> QED BY <1>1, <1>2, <1>3, <1>4

(* A step of the runner that leaves its events where they are.              *)
LEMMA NothingMoves ==
  ASSUME IInv, LineInv, ClosingStays,
         UNCHANGED <<queueVars, accepted, spent, injected, InHand>>
  PROVE  LineInv' /\ UNCHANGED Contract!inboxVars
BY KeepsLineInLine DEF KeepsLine, IInv, LineInv, OnePlace

(* A step that keeps the line, or drops of it what was deferred.            *)
LEMMA LineStays ==
  ASSUME IInv, LineInv, ClosingStays, KeepsLine \/ (DropsDeferred /\ exit # "no"),
         UNCHANGED <<spent, injected>>, InHand' \subseteq InHand
  PROVE  LineInv' /\ (Contract!InboxNext \/ UNCHANGED Contract!inboxVars)
<1>1. LineOrdered' /\ Queued' \subseteq Queued /\ UNCHANGED accepted
  BY KeepsLineInLine, DropsDeferredInLine DEF IInv, LineInv, KeepsLine, DropsDeferred
<1>2. OnePlace'
  BY <1>1 DEF LineInv, OnePlace
<1>3. Contract!InboxNext \/ UNCHANGED Contract!inboxVars
  BY KeepsLineInLine, DropsDeferredInLine DEF IInv, LineInv, Contract!InboxNext
<1> QED BY <1>1, <1>2, <1>3 DEF LineInv

(* A step that takes the first event in hand, or into the conversation.     *)
LEMMA LineServed ==
  ASSUME IInv, LineInv, ClosingStays, TakesFirst, UNCHANGED spent,
         \/ InHand' \subseteq InHand \cup {Head(Flushed)} /\ UNCHANGED injected
         \/ InHand' \subseteq InHand /\ injected' = injected \cup {Head(Flushed)}
  PROVE  LineInv' /\ Contract!InboxNext
<1> DEFINE h == Head(Flushed)
<1>1. /\ h \in Queued /\ Queued' = Queued \ {h} /\ LineOrdered'
      /\ Contract!Take(h) /\ UNCHANGED accepted
  BY TakesFirstInLine DEF IInv, LineInv, TakesFirst
<1>2. h \in Event
  BY <1>1, FlushedType DEF IInv, TypeOK, TakesFirst
<1>3. h \in ToSet(accepted) /\ h \notin InHand \cup injected
  BY <1>1 DEF LineInv, OnePlace
<1> HIDE DEF h
<1>4. \/ InHand' \subseteq InHand \cup {h} /\ UNCHANGED injected
      \/ InHand' \subseteq InHand /\ injected' = injected \cup {h}
  BY DEF h
<1>5. OnePlace'
  BY <1>1, <1>3, <1>4 DEF LineInv, OnePlace
<1> QED BY <1>1, <1>2, <1>5 DEF LineInv, Contract!InboxNext

LEMMA SubmitLine ==
  ASSUME IInv, LineInv, NEW e \in Event, NEW onlyIfWaiting \in BOOLEAN, Submit(e, onlyIfWaiting)
  PROVE  LineInv' /\ Contract!InboxNext
<1>1. /\ e \notin ToSet(accepted) /\ e \notin spent /\ accepted' = Append(accepted, e)
      /\ UNCHANGED <<injected, spent, exit>>
  BY DEF Submit, exitVars, histVars
<1>2. TypeOK /\ Control /\ IsInjective(accepted) /\ LineOrdered
  BY DEF IInv, LineInv
<1>3. /\ Queued \subseteq ToSet(accepted) /\ InHand \subseteq ToSet(accepted)
      /\ e \notin Queued \cup InHand \cup injected
  BY <1>1 DEF LineInv, OnePlace
<1>4. IsInjective(accepted') /\ ToSet(accepted') = ToSet(accepted) \cup {e}
  BY <1>1, <1>2, NewestLast
<1>5. Contract!Arrive(e)
  BY <1>1 DEF Contract!Arrive, Contract!ToSet, ToSet
<1>6. ASSUME Queued' = Queued \cup {e}, LineOrdered', UNCHANGED InHand
      PROVE  LineInv' /\ Contract!InboxNext
  <2>1. OnePlace'
    BY <1>1, <1>3, <1>4, <1>6 DEF LineInv, OnePlace
  <2> QED BY <1>4, <1>5, <1>6, <2>1 DEF LineInv, Contract!InboxNext, Contract!Accept
<1>7. ASSUME UNCHANGED queueVars, deferredEvents = NoDeferred,
             pendingInputs = <<>> \/ exit # "no", InHand' \subseteq InHand \cup {e}
      PROVE  LineInv' /\ Contract!InboxNext
  <2>1. pendingInputs' \in Seq(Event) /\ InOrder(pendingInputs', Before')
    BY <1>1, <1>2, <1>7, FlushedParts, NewestLast, InOrderWeaker DEF TypeOK
  <2>2. LineOrdered'
    BY <1>7, <2>1, FlushedNow
  <2>3. Queued' = Queued /\ (Queued = {} \/ exit # "no")
    BY <1>7, NoneQueued, ToSetEmpty DEF Queued
  <2>4. OnePlace'
    BY <1>1, <1>3, <1>4, <1>7, <2>3 DEF LineInv, OnePlace
  <2> QED BY <1>4, <1>5, <2>2, <2>3, <2>4 DEF LineInv, Contract!InboxNext, Contract!AcceptAndTake
<1>8. CASE toolInFlight /\ Defer(e) /\ UNCHANGED <<pendingInputs, resolver, wakeEvent>>
  <2>1. DeferredSet' = DeferredSet \cup {e}
    BY <1>2, <1>8, DeferSet
  <2>2. Queued' = Queued \cup {e}
    BY <1>8, <2>1 DEF Queued
  <2>3. LineOrdered'
    BY <1>1, <1>2, <1>3, <1>8, DeferInLine
  <2> QED BY <1>6, <1>8, <2>2, <2>3 DEF InHand
<1>9. CASE /\ ~toolInFlight /\ pendingInputs' = Place(e, pendingInputs)
           /\ UNCHANGED <<deferredEvents, resolver, wakeEvent>>
  <2>1. deferredEvents = NoDeferred
    BY <1>2, <1>9 DEF Control, QueuesFollowPhase
  <2>2. ToSet(pendingInputs') = ToSet(pendingInputs) \cup {e}
    BY <1>2, <1>9, PlaceSet DEF TypeOK
  <2>3. Queued' = Queued \cup {e}
    BY <1>9, <2>2 DEF Queued, DeferredSet
  <2>4. LineOrdered'
    BY <1>1, <1>2, <1>3, <1>9, <2>1, PlaceInLine
  <2> QED BY <1>6, <1>9, <2>3, <2>4 DEF InHand
<1>10. CASE ~toolInFlight /\ resolver = Open /\ resolver' = e /\ UNCHANGED <<queueVars, wakeEvent>>
  <2>1. deferredEvents = NoDeferred /\ pendingInputs = <<>>
    BY <1>2, <1>10 DEF Control, QueuesFollowPhase
  <2> QED BY <1>7, <1>10, <2>1 DEF InHand
<1>11. CASE ~running /\ wakeEvent' = e /\ UNCHANGED <<queueVars, resolver>>
  <2>1. phase = "off"
    BY <1>2, <1>11 DEF Control, FlagsFollowPhase
  <2>2. deferredEvents = NoDeferred /\ (pendingInputs = <<>> \/ exit # "no")
    BY <1>2, <2>1 DEF Control, QueuesFollowPhase, FlagsFollowPhase
  <2> QED BY <1>7, <1>11, <2>2 DEF InHand
<1> QED BY <1>8, <1>9, <1>10, <1>11 DEF Submit, DeliverEvent, StartWake

LEMMA WaitForEventLine ==
  ASSUME IInv, LineInv, phase \notin ToolPhases \cup WaitPhases \cup {"loading"}, WaitForEvent,
         UNCHANGED <<deferredEvents, wakeEvent, accepted, spent, injected, exit>>
  PROVE  LineInv' /\ (Contract!InboxNext \/ UNCHANGED Contract!inboxVars)
<1>1. deferredEvents = NoDeferred /\ InHand = {}
  BY DEF IInv, Control, FlagsFollowPhase, EventsInHand, QueuesFollowPhase, InHand
<1>2. Flushed = pendingInputs
  BY <1>1, FlushedNow DEF IInv, TypeOK
<1>3. ClosingStays
  BY DEF ClosingStays
<1>4. CASE UNCHANGED pendingInputs /\ resolver' \in {Open, Null}
  <2>1. KeepsLine /\ InHand' = {}
    BY <1>1, <1>4, ResolverAssumption DEF KeepsLine, InHand
  <2> QED BY <1>1, <1>3, <2>1, LineStays
<1>5. CASE /\ pendingInputs # <<>> /\ resolver' = Head(pendingInputs)
           /\ pendingInputs' = Tail(pendingInputs)
  <2>1. TakesFirst
    BY <1>1, <1>2, <1>5 DEF TakesFirst
  <2>2. InHand' \subseteq InHand \cup {Head(Flushed)}
    BY <1>1, <1>2, <1>5 DEF InHand
  <2> QED BY <1>3, <2>1, <2>2, LineServed
<1> QED BY <1>4, <1>5 DEF WaitForEvent

LEMMA FinallyKeepsLine ==
  ASSUME IInv, LineInv, phase \in LoopPhases \ WaitPhases, Finally,
         UNCHANGED <<accepted, spent, injected>>
  PROVE  LineInv' /\ (Contract!InboxNext \/ UNCHANGED Contract!inboxVars)
<1>1. /\ ClosingStays /\ resolver' = None /\ InHand = {}
      /\ \/ TakesFirst /\ wakeEvent' = Head(Flushed)
         \/ (KeepsLine \/ (DropsDeferred /\ exit # "no")) /\ wakeEvent' = None
  BY FinallyLine DEF IInv, InHand
<1>2. CASE TakesFirst /\ wakeEvent' = Head(Flushed)
  <2>1. InHand' \subseteq InHand \cup {Head(Flushed)}
    BY <1>1, <1>2 DEF InHand
  <2> QED BY <1>1, <1>2, <2>1, LineServed
<1>3. CASE (KeepsLine \/ (DropsDeferred /\ exit # "no")) /\ wakeEvent' = None
  <2>1. InHand' = {}
    BY <1>1, <1>3 DEF InHand
  <2> QED BY <1>1, <1>3, <2>1, LineStays
<1> QED BY <1>1, <1>2, <1>3


LEMMA LineStep ==
  ASSUME IInv, LineInv, Next
  PROVE  LineInv' /\ (Contract!InboxNext \/ UNCHANGED Contract!inboxVars)
<1> USE DEF ClosingStays
<1>0. TypeOK /\ Control
  BY DEF IInv
<1>1. ASSUME NEW e \in Event, NEW o \in BOOLEAN, Submit(e, o)
      PROVE  LineInv' /\ Contract!InboxNext
  BY <1>1, SubmitLine
<1>2. ASSUME UNCHANGED <<queueVars, waitVars, accepted, spent, injected>>, ClosingStays
      PROVE  LineInv' /\ UNCHANGED Contract!inboxVars
  BY <1>2, NothingMoves DEF InHand
<1>3. CASE LoadSession
  <2>1. InHand = {wakeEvent} /\ InHand' = {}
    BY <1>0, <1>3, ResolverAssumption DEF LoadSession, Control, EventsInHand, InHand, TypeOK
  <2>2. KeepsLine /\ ClosingStays
    BY <1>3 DEF LoadSession, KeepsLine
  <2>3. LineOrdered' /\ Queued' = Queued /\ UNCHANGED Contract!inboxVars
    BY <1>0, <2>2, KeepsLineInLine DEF LineInv
  <2>4. injected' = injected \cup InHand /\ UNCHANGED <<accepted, spent>>
    BY <1>3, <2>1 DEF LoadSession
  <2> QED BY <2>1, <2>3, <2>4 DEF LineInv, OnePlace
<1>4. CASE ToolReturns \/ RestFails
  <2>1. FlushDeferredEvents /\ UNCHANGED <<waitVars, accepted, spent, injected, exit>>
    BY <1>4 DEF ToolReturns, ResultRecorded, ErrorTakenForRecorded, RestFails, SettleTool
  <2>2. KeepsLine \/ (DropsDeferred /\ exit # "no")
    BY <1>0, <2>1 DEF FlushDeferredEvents, KeepsLine, DropsDeferred, Control, FlagsFollowPhase
  <2>3. InHand' \subseteq InHand
    BY <2>1 DEF InHand
  <2> QED BY <2>1, <2>2, <2>3, LineStays
<1>5. ASSUME NEW kind \in {"wait", "timedWait"}, StartWait(kind)
      PROVE  LineInv' /\ (Contract!InboxNext \/ UNCHANGED Contract!inboxVars)
  BY <1>5, WaitForEventLine DEF StartWait
<1>6. CASE SaveAndContinue
  <2>1. CASE phase = "save" /\ WaitForEvent
    BY <1>6, <2>1, WaitForEventLine DEF SaveAndContinue
  <2>2. CASE UNCHANGED <<pendingInputs, resolver>>
    BY <1>2, <1>6, <2>2 DEF SaveAndContinue
  <2> QED BY <1>6, <2>1, <2>2 DEF SaveAndContinue
<1>7. CASE WaitTimeout
  <2>1. UNCHANGED InHand
    BY <1>7, ResolverAssumption DEF WaitTimeout, InHand
  <2> QED BY <1>7, <2>1, NothingMoves DEF WaitTimeout
<1>8. CASE WaitReturns \/ ImplicitWaitReturns
  <2>1. TakeWaitResult /\ UNCHANGED <<queueVars, wakeEvent, accepted, spent, exit>>
    BY <1>8 DEF WaitReturns, ImplicitWaitReturns
  <2>2. wakeEvent = None
    BY <1>0, <1>8 DEF WaitReturns, ImplicitWaitReturns, Control, EventsInHand
  <2>3. InHand' = {}
    BY <2>1, <2>2 DEF TakeWaitResult, InHand
  <2>4. injected' = injected \cup InHand
    BY <1>0, <2>1, <2>2, ResolverAssumption DEF TakeWaitResult, Inject, InHand, TypeOK
  <2>5. KeepsLine /\ ClosingStays
    BY <2>1 DEF KeepsLine
  <2>6. LineOrdered' /\ Queued' = Queued /\ UNCHANGED Contract!inboxVars
    BY <1>0, <2>5, KeepsLineInLine DEF LineInv
  <2> QED BY <2>1, <2>3, <2>4, <2>6 DEF LineInv, OnePlace
<1>9. CASE NextCall
  <2>1. UNCHANGED <<deferredEvents, waitVars, accepted, spent, exit>> /\ UNCHANGED InHand
    BY <1>9 DEF NextCall, InHand
  <2>2. CASE UNCHANGED <<injected, pendingInputs>>
    BY <1>2, <2>1, <2>2
  <2>3. CASE /\ pendingInputs # <<>> /\ Preempt(Head(pendingInputs))
             /\ pendingInputs' = Tail(pendingInputs)
    <3>1. deferredEvents = NoDeferred
      BY <1>0, <1>9 DEF NextCall, Control, FlagsFollowPhase, QueuesFollowPhase
    <3>2. Flushed = pendingInputs
      BY <1>0, <3>1, FlushedNow DEF TypeOK
    <3>3. TakesFirst /\ injected' = injected \cup {Head(Flushed)}
      BY <2>1, <2>3, <3>1, <3>2 DEF TakesFirst, Preempt
    <3> QED BY <2>1, <3>3, LineServed
  <2> QED BY <1>9, <2>2, <2>3 DEF NextCall
<1>10. CASE Rest \/ SaveAndStop \/ AbortSaveFails
  BY <1>10, FinallyKeepsLine DEF Rest, SaveAndStop, AbortSaveFails
<1>11. CASE PreTurnCompact \/ PromptTooLarge \/ RejectCall \/ ParseError \/ StartTool
            \/ PostTurnCompact \/ StartRest \/ FoldSession \/ KeepSession
  BY <1>2, <1>11 DEF PreTurnCompact, PromptTooLarge, RejectCall, ParseError, StartTool,
     PostTurnCompact, StartRest, FoldSession, KeepSession
<1>12. CASE WriteRestSnapshot \/ SaveSession \/ Abort \/ \E n \in 0..MaxCalls : Complete(n)
  BY <1>2, <1>12 DEF WriteRestSnapshot, SaveSession, Abort, Complete
<1>13. CASE RequestShutdown
  <2>1. /\ UNCHANGED <<queueVars, wakeEvent, accepted, spent, injected>>
        /\ exit = "no" /\ exit' # "no" /\ UNCHANGED InHand
    BY <1>13, ResolverAssumption DEF RequestShutdown, InHand
  <2>2. LineOrdered' /\ Queued' = Queued
    BY <1>0, <2>1, KeepsLineInLine DEF KeepsLine, LineInv
  <2>3. Contract!Close
    BY <2>1, <2>2 DEF Contract!Close
  <2> QED BY <2>1, <2>2, <2>3 DEF LineInv, OnePlace, Contract!InboxNext
<1>14. CASE ShutdownSave \/ ShutdownTimeout
  BY <1>2, <1>14 DEF ShutdownSave, ShutdownTimeout
<1>15. CASE ProcessExit \/ Crash
  <2>1. /\ pendingInputs' = <<>> /\ deferredEvents' = NoDeferred /\ accepted' = <<>>
        /\ resolver' = None /\ wakeEvent' = None /\ exit' = "no"
        /\ spent' = spent \cup ToSet(accepted) /\ UNCHANGED injected
    BY <1>15 DEF ProcessExit, Crash, Restart
  <2>2. Queued' = {} /\ LineOrdered' /\ InHand' = {}
    BY <2>1, FlushedNow, InOrderShort, ToSetEmpty DEF InHand
  <2>3. Contract!NewProcess
    BY <2>1, <2>2 DEF Contract!NewProcess
  <2>4. IsInjective(accepted')
    BY <2>1 DEF IsInjective
  <2> QED BY <2>1, <2>2, <2>3, <2>4 DEF LineInv, OnePlace, Contract!InboxNext
<1> QED
  BY <1>1, <1>3, <1>4, <1>5, <1>6, <1>7, <1>8, <1>9, <1>10, <1>11, <1>12, <1>13, <1>14, <1>15
  DEF Next, WakeCycle, Process

LEMMA LineAlwaysHolds == Spec => [](IInv /\ LineInv)
<1>1. Init => LineInv
  <2> SUFFICES ASSUME Init PROVE LineInv
    OBVIOUS
  <2>1. Flushed = <<>> /\ Queued = {} /\ InHand = {}
    BY FlushedNow, ToSetEmpty DEF Init, InHand
  <2> QED BY <2>1, InOrderShort, ToSetEmpty
          DEF Init, LineInv, LineOrdered, OnePlace, NoDeferred, IsInjective
<1>2. IInv /\ LineInv /\ [Next]_vars => LineInv'
  <2> SUFFICES ASSUME IInv, LineInv, [Next]_vars PROVE LineInv'
    OBVIOUS
  <2>1. CASE Next
    BY <2>1, LineStep
  <2>2. CASE UNCHANGED vars
    BY <2>2, NothingMoves DEF vars, ClosingStays, InHand
  <2> QED BY <2>1, <2>2
<1> QED BY InitInv, InductiveInvariant, <1>1, <1>2, PTL DEF Spec

(* No event enters a conversation twice: each accepted event stands in one  *)
(* queue at one place, or in the hands of one wait or wake, or has been     *)
(* injected (enqueueEvent, flushDeferredEvents, waitForEvent, wake).        *)
THEOREM NoEventServedTwice == Spec => []NoEventTwice
<1>1. IInv /\ LineInv => NoEventTwice
  <2> SUFFICES ASSUME IInv, LineInv PROVE NoEventTwice
    OBVIOUS
  <2> DEFINE front == deferredEvents.front  back == deferredEvents.back
  <2>1. front \in Seq(Event) /\ back \in Seq(Event) /\ pendingInputs \in Seq(Event)
    BY DEF IInv, TypeOK
  <2>2. /\ InOrder(Reverse(front), Apart) /\ InOrder(pendingInputs, Apart) /\ InOrder(back, Apart)
        /\ \A x \in ToSet(front), y \in ToSet(pendingInputs) : <<x, y>> \in Apart
        /\ \A x \in ToSet(front) \cup ToSet(pendingInputs), y \in ToSet(back) : <<x, y>> \in Apart
    BY FlushedParts, UrgentAnyway, InOrderWeaker DEF IInv, LineInv
  <2>3. InOrder(front \o back, Apart)
    BY <2>1, <2>2, InOrderReverse, InOrderConcat DEF Apart
  <2>4. IsInjective(pendingInputs) /\ IsInjective(front \o back)
    <3> DEFINE both == front \o back
    <3>1. both \in Seq(Event) /\ InOrder(both, Apart)
      BY <2>1, <2>3
    <3> HIDE DEF both
    <3>2. IsInjective(both)
      BY <3>1, ApartIsInjective
    <3> QED BY <2>1, <2>2, <3>2, ApartIsInjective DEF both
  <2>5. ToSet(pendingInputs) \cap DeferredSet = {}
    BY <2>2 DEF DeferredSet, Apart
  <2>6. resolver \in Event => wakeEvent \notin Event
    BY RunnerAssumption DEF IInv, Control, EventsInHand
  <2> QED BY <2>4, <2>5, <2>6 DEF LineInv, OnePlace, NoEventTwice
<1> QED BY LineAlwaysHolds, <1>1, PTL

(* Through all its queues and waits the runner is one inbox: an accepted    *)
(* event waits until it is taken, once; priority events are taken before    *)
(* any other and the others in the order they came, unless the process is   *)
(* shutting down (runner/index.ts, flush and preemption of tools.ts).       *)
THEOREM ImplementsInbox == Spec => KeepsInboxContract
<1>1. Init => Contract!InboxInit
  BY FlushedNow, ToSetEmpty DEF Init, Contract!InboxInit
<1>2. IInv /\ LineInv /\ [Next]_vars => [Contract!InboxNext]_(Contract!inboxVars)
  <2> SUFFICES ASSUME IInv, LineInv, [Next]_vars
               PROVE  Contract!InboxNext \/ UNCHANGED Contract!inboxVars
    OBVIOUS
  <2>1. CASE Next
    BY <2>1, LineStep
  <2>2. CASE UNCHANGED vars
    BY <2>2, NothingMoves DEF vars, ClosingStays, InHand
  <2> QED BY <2>1, <2>2
<1> QED BY LineAlwaysHolds, <1>1, <1>2, PTL DEF Spec, KeepsInboxContract, Contract!InboxSpec

=============================================================================
