------------------------------- MODULE Runner -------------------------------
(***************************************************************************)
(* The session manager of an agent runtime and the loop it drives:         *)
(* packages/niri-runtime/src/runner/index.ts, packages/agent-loop/src/     *)
(* {loop,tools}.ts, the lifecycle tools of loop-tool-registry.ts, the      *)
(* snapshot files of runner/util.ts and gracefulShutdown of index.ts.      *)
(*                                                                         *)
(* One step of the model is the code between two awaits of the wake cycle  *)
(* (variable phase), a trigger handing an event to the runner, or a step   *)
(* of the process that hosts it (shutdown, exit, crash).  JavaScript runs  *)
(* each of these without interruption.                                     *)
(*                                                                         *)
(* Data abstraction: a conversation is the set of events it tells the      *)
(* model about, the subset of them its summary messages cover, the number  *)
(* of tool calls in it that no tool message answers, how many of these     *)
(* were taken for answered, and whether it has a tool message whose id a   *)
(* later call may have too.                                                *)
(***************************************************************************)
EXTENDS Naturals, Sequences, SequencesExt

CONSTANTS
  Event,        (* the events triggers may submit, each submitted once       *)
  Priority,     (* the events submitted with the priority option             *)
  MaxCalls,     (* most tool calls in one assistant message (model bound)    *)
  IdsRepeat,    (* whether the model provider may give an id of a call again *)
  MaxRestarts,  (* most process restarts in a behaviour (model bound)        *)
  None          (* no event, no session file, no open promise                *)

ASSUME RunnerAssumption ==
  /\ Priority \subseteq Event
  /\ MaxCalls \in Nat
  /\ IdsRepeat \in BOOLEAN
  /\ MaxRestarts \in Nat
  /\ None \notin Event

(* What the promise of waitForEvent holds besides an event: it is open (its *)
(* resolver sits in eventResolvers), or it resolved with null.              *)
Open == "open"
Null == "null"

ASSUME ResolverAssumption == {Open, Null} \cap Event = {} /\ None \notin {Open, Null}

VARIABLES
  phase,              (* the await the wake cycle stands at, "off" if none   *)
  saveStep,           (* which file saveRuntimeSnapshot is writing           *)
  running,            (* state.running                                       *)
  turnInFlight,       (* state.turnInFlight                                  *)
  toolInFlight,       (* state.toolInFlight                                  *)
  shutdownRequested,  (* state.shutdownRequested                             *)
  pendingInputs,      (* state.pendingInputs                                 *)
  deferredEvents,     (* state.deferredEvents, front (priority) and back     *)
  resolver,           (* the promise of the current wait                     *)
  wakeEvent,          (* the argument of wake while the session loads        *)
  calls,              (* tool calls of this turn not yet started             *)
  conversation,       (* state.conversation                                  *)
  session,            (* session.json, None when absent                      *)
  restSnapshot,       (* the events rest-snapshot.json summarises            *)
  exit,               (* where gracefulShutdown stands                       *)
  shutdownCopy,       (* what shutdown() itself is writing to session.json   *)
  accepted,           (* history: events accepted by this process, in order  *)
  injected,           (* history: events that entered a conversation         *)
  spent,              (* history: events accepted by earlier processes       *)
  failed,             (* history: a save or a rest of this process failed    *)
  restarts            (* number of process restarts so far                   *)

loopVars  == <<phase, saveStep, calls>>
flagVars  == <<running, turnInFlight, toolInFlight, shutdownRequested>>
queueVars == <<pendingInputs, deferredEvents>>
waitVars  == <<resolver, wakeEvent>>
diskVars  == <<session, restSnapshot>>
exitVars  == <<exit, shutdownCopy>>
histVars  == <<accepted, spent, failed, restarts>>
vars == <<loopVars, flagVars, queueVars, waitVars, conversation, injected,
          diskVars, exitVars, histVars>>

-----------------------------------------------------------------------------
(* Vocabulary *)

Conversation == [events : SUBSET Event, summarized : SUBSET Event, unanswered : 0..MaxCalls,
                 mistaken : 0..MaxCalls, answers : BOOLEAN]
Empty == [events |-> {}, summarized |-> {}, unanswered |-> 0, mistaken |-> 0, answers |-> FALSE]

ASSUME ConversationAssumption == None \notin Conversation

SavePhases == {"preSave", "save", "continueSave", "postSave", "shutdownSave", "abortSave"}
WaitPhases == {"wait", "timedWait", "implicitWait"}
RestPhases == {"resting", "restKeep", "restKept", "restSnapshot", "restClear"}
ToolPhases == {"tool"} \cup RestPhases
TurnPhases == {"completing", "calls", "called", "wait", "timedWait"} \cup ToolPhases
LoopPhases == {"preCompact", "postCompact"} \cup SavePhases \cup WaitPhases \cup TurnPhases
Phases == {"off", "loading"} \cup LoopPhases

NoDeferred == [front |-> <<>>, back |-> <<>>]
DeferredSet == ToSet(deferredEvents.front) \cup ToSet(deferredEvents.back)
Queued == ToSet(pendingInputs) \cup DeferredSet
InHand == {resolver, wakeEvent} \cap Event

Init ==
  /\ phase = "off" /\ saveStep = "session" /\ calls = 0
  /\ running = FALSE /\ turnInFlight = FALSE
  /\ toolInFlight = FALSE /\ shutdownRequested = FALSE
  /\ pendingInputs = <<>> /\ deferredEvents = NoDeferred
  /\ resolver = None /\ wakeEvent = None
  /\ conversation = Empty /\ injected = {}
  /\ session = None /\ restSnapshot = {}
  /\ exit = "no" /\ shutdownCopy = None
  /\ accepted = <<>> /\ spent = {} /\ failed = FALSE /\ restarts = 0

-----------------------------------------------------------------------------
(* Events from triggers *)

(* Operators named X_... are faulty variants of X, each a bug that one of   *)
(* the properties below has to notice; the specification never uses them.   *)
Place_AlwaysLast(e, queue) == Append(queue, e)

(* unshift for a priority event, push for any other.                        *)
Place(e, queue) == IF e \in Priority THEN <<e>> \o queue ELSE Append(queue, e)

Defer(e) ==
  deferredEvents' = IF e \in Priority THEN [deferredEvents EXCEPT !.front = <<e>> \o @]
                                      ELSE [deferredEvents EXCEPT !.back = Append(@, e)]

(* deliverEvent: dropped during shutdown, deferred behind a running tool,   *)
(* handed to the wait if there is one, queued otherwise.  A refused event   *)
(* changes nothing, so only the accepting outcomes are steps.               *)
DeliverEvent(e, onlyIfWaiting) ==
  /\ ~shutdownRequested
  /\ onlyIfWaiting => resolver = Open
  /\ \/ /\ toolInFlight
        /\ Defer(e)
        /\ UNCHANGED <<pendingInputs, resolver>>
     \/ /\ ~toolInFlight /\ resolver = Open
        /\ resolver' = e
        /\ UNCHANGED queueVars
     \/ /\ ~toolInFlight /\ resolver # Open
        /\ pendingInputs' = Place(e, pendingInputs)
        /\ UNCHANGED <<deferredEvents, resolver>>
  /\ UNCHANGED <<loopVars, flagVars, wakeEvent>>

(* wake on an idle runner: the cycle starts and awaits the session files.   *)
StartWake(e) ==
  /\ running' = TRUE
  /\ phase' = "loading"
  /\ wakeEvent' = e

(* Every trigger does: isRunning() ? enqueueEvent(event) : wake(event).     *)
Submit(e, onlyIfWaiting) ==
  /\ e \notin ToSet(accepted) \cup spent
  /\ accepted' = Append(accepted, e)
  /\ \/ running /\ DeliverEvent(e, onlyIfWaiting)
     \/ /\ ~running /\ ~onlyIfWaiting
        /\ StartWake(e)
        /\ UNCHANGED <<saveStep, calls, turnInFlight, toolInFlight, shutdownRequested,
                       queueVars, resolver>>
  /\ UNCHANGED <<conversation, injected, diskVars, exitVars, spent, failed, restarts>>

-----------------------------------------------------------------------------
(* The end of a wake cycle *)

(* flushDeferredEvents re-delivers in array order: the priority events one  *)
(* by one to the front of pendingInputs, the others to its back.            *)
Flushed == Reverse(deferredEvents.front) \o pendingInputs \o deferredEvents.back

FlushDeferredEvents_Overwrites ==
  /\ pendingInputs' = IF shutdownRequested THEN pendingInputs
                      ELSE Reverse(deferredEvents.front) \o deferredEvents.back
  /\ deferredEvents' = NoDeferred

FlushDeferredEvents_Keeps ==
  /\ pendingInputs' = IF shutdownRequested THEN pendingInputs ELSE Flushed
  /\ UNCHANGED deferredEvents

(* The queue once a tool has settled: deliverEvent drops what was deferred  *)
(* if shutdown was requested meanwhile.                                     *)
FlushDeferredEvents ==
  /\ pendingInputs' = IF shutdownRequested THEN pendingInputs ELSE Flushed
  /\ deferredEvents' = NoDeferred

WakeAgainOrStop_OnlyStops(queue) ==
  /\ phase' = "off" /\ running' = FALSE
  /\ pendingInputs' = queue
  /\ UNCHANGED wakeEvent

(* A cycle that was not shut down starts over with the next queued event.   *)
WakeAgainOrStop(queue) ==
  \/ /\ ~shutdownRequested /\ queue # <<>>
     /\ StartWake(Head(queue))
     /\ pendingInputs' = Tail(queue)
  \/ /\ shutdownRequested \/ queue = <<>>
     /\ phase' = "off" /\ running' = FALSE
     /\ pendingInputs' = queue
     /\ UNCHANGED wakeEvent

(* The finally of wake: reset, flush, release shutdown().                   *)
Finally ==
  LET queue == IF shutdownRequested THEN pendingInputs ELSE Flushed IN
  /\ deferredEvents' = NoDeferred
  /\ conversation' = Empty
  /\ calls' = 0
  /\ toolInFlight' = FALSE /\ turnInFlight' = FALSE /\ shutdownRequested' = FALSE
  /\ resolver' = None
  /\ saveStep' = "session"
  /\ exit' = IF exit = "waiting" THEN "saved" ELSE exit
  /\ WakeAgainOrStop(queue)

-----------------------------------------------------------------------------
(* Pieces of the loop *)

(* injectIncomingEvent                                                      *)
Inject(e) ==
  /\ conversation' = [conversation EXCEPT !.events = @ \cup {e}]
  /\ injected' = injected \cup {e}

WaitForEvent_IgnoresQueue ==
  /\ resolver' = IF shutdownRequested THEN Null ELSE Open
  /\ UNCHANGED pendingInputs

WaitForEvent_IgnoresShutdown ==
  \/ /\ pendingInputs # <<>>
     /\ resolver' = Head(pendingInputs)
     /\ pendingInputs' = Tail(pendingInputs)
  \/ /\ pendingInputs = <<>>
     /\ resolver' = Open
     /\ UNCHANGED pendingInputs

(* waitForEvent and waitForEventWithTimeout up to their await: null during  *)
(* shutdown, a queued event at once, otherwise an open promise.             *)
WaitForEvent ==
  \/ /\ shutdownRequested
     /\ resolver' = Null
     /\ UNCHANGED pendingInputs
  \/ /\ ~shutdownRequested /\ pendingInputs # <<>>
     /\ resolver' = Head(pendingInputs)
     /\ pendingInputs' = Tail(pendingInputs)
  \/ /\ ~shutdownRequested /\ pendingInputs = <<>>
     /\ resolver' = Open
     /\ UNCHANGED pendingInputs

(* The wait is over: an event enters the conversation, null does not.       *)
TakeWaitResult ==
  /\ resolver \notin {None, Open}
  /\ resolver' = None
  /\ \/ resolver = Null /\ UNCHANGED <<conversation, injected>>
     \/ resolver # Null /\ Inject(resolver)

(* The loop asks shouldShutdown before it goes on to phase next.            *)
Unless(next) == phase' = IF shutdownRequested THEN "shutdownSave" ELSE next

BeginTurn ==
  /\ phase' = "completing"
  /\ turnInFlight' = TRUE

-----------------------------------------------------------------------------
(* wake and the turns of runLoop *)

(* sanitizeMessages gives every unanswered call a tool message.              *)
Repaired(c) == [c EXCEPT !.unanswered = 0, !.mistaken = 0,
                         !.answers = c.answers \/ (IdsRepeat /\ c.unanswered > 0)]

Resumed_WithoutRestSnapshot == IF session # None THEN Repaired(session) ELSE Empty

(* What a wake resumes: a saved session, whose unanswered calls loadSession *)
(* repairs, or a bootstrap from the rest snapshot.                          *)
Resumed ==
  IF session # None
  THEN Repaired(session)
  ELSE [Empty EXCEPT !.events = restSnapshot, !.summarized = restSnapshot]

(* wake after its awaits: the wake event is the last message.               *)
LoadSession ==
  /\ phase = "loading"
  /\ conversation' = [Resumed EXCEPT !.events = @ \cup {wakeEvent}]
  /\ injected' = injected \cup {wakeEvent}
  /\ wakeEvent' = None
  /\ phase' = "preCompact"
  /\ UNCHANGED <<saveStep, calls, flagVars, queueVars, resolver, diskVars, exitVars, histVars>>

(* compact: the summaries now cover more of the conversation, and the tool  *)
(* messages of what they cover are gone.                                    *)
Summarize ==
  \E covered \in SUBSET conversation.events, kept \in BOOLEAN :
    /\ conversation.summarized \subseteq covered
    /\ covered # {}
    /\ kept => conversation.answers
    /\ conversation' = [conversation EXCEPT !.summarized = covered, !.answers = kept]

PreTurnCompact ==
  /\ phase = "preCompact"
  /\ \/ /\ Summarize
        /\ phase' = "preSave"
        /\ UNCHANGED turnInFlight
     \/ BeginTurn /\ UNCHANGED conversation
  /\ UNCHANGED <<saveStep, calls, running, toolInFlight, shutdownRequested, queueVars,
                 waitVars, injected, diskVars, exitVars, histVars>>

(* prepareCompletionMessages repairs the conversation, the model answers    *)
(* with n tool calls.  Without a call the turn is over: a policy may nudge  *)
(* the model into another turn at once.                                     *)
Complete(n) ==
  /\ phase = "completing"
  /\ calls' = n
  /\ conversation' = [Repaired(conversation) EXCEPT !.unanswered = n]
  /\ \/ n > 0 /\ phase' = "calls" /\ UNCHANGED turnInFlight
     \/ /\ n = 0
        /\ turnInFlight' = FALSE
        /\ \E next \in {"preCompact", "save"} : Unless(next)
  /\ UNCHANGED <<saveStep, running, toolInFlight, shutdownRequested, queueVars, waitVars,
                 injected, diskVars, exitVars, histVars>>

(* processToolCalls returned with work done: the turn is over.              *)
EndTurn ==
  /\ calls' = 0
  /\ turnInFlight' = FALSE
  /\ Unless("postCompact")

(* pushToolMessage for the call at hand.                                    *)
AnswerCall == conversation' = [conversation EXCEPT !.unanswered = @ - 1, !.answers = IdsRepeat]

(* A call of a tool the agent does not have is answered with an error, and  *)
(* the loop continues without a look at pendingInputs.                      *)
RejectCall ==
  /\ phase = "calls"
  /\ AnswerCall
  /\ \/ calls > 1 /\ calls' = calls - 1 /\ UNCHANGED <<phase, turnInFlight>>
     \/ calls = 1 /\ EndTurn
  /\ UNCHANGED <<saveStep, running, toolInFlight, shutdownRequested, queueVars, waitVars,
                 injected, diskVars, exitVars, histVars>>

(* executeToolCall on unparsable arguments.                                 *)
ParseError ==
  /\ phase = "calls"
  /\ AnswerCall
  /\ calls' = calls - 1
  /\ phase' = "called"
  /\ UNCHANGED <<saveStep, flagVars, queueVars, waitVars, injected, diskVars, exitVars, histVars>>

StartTool ==
  /\ phase = "calls"
  /\ phase' = "tool"
  /\ calls' = calls - 1
  /\ toolInFlight' = TRUE
  /\ UNCHANGED <<saveStep, running, turnInFlight, shutdownRequested, queueVars, waitVars,
                 conversation, injected, diskVars, exitVars, histVars>>

(* The finally of executeToolCall.                                          *)
SettleTool ==
  /\ toolInFlight' = FALSE
  /\ FlushDeferredEvents
  /\ phase' = "called"

(* The handler records its result, whether or not it throws after that, or  *)
(* it throws before and executeToolCall records the error.                  *)
ResultRecorded ==
  /\ phase = "tool"
  /\ AnswerCall
  /\ SettleTool
  /\ UNCHANGED <<saveStep, calls, running, turnInFlight, shutdownRequested, waitVars,
                 injected, diskVars, exitVars, histVars>>

(* The handler throws before it recorded anything, but some earlier tool    *)
(* message of the conversation has the id of the call: hasToolResponse      *)
(* finds that message, and the error is only logged.  Ids are the model     *)
(* provider's, or call_<index> when it sends none, and may repeat.          *)
ErrorTakenForRecorded ==
  /\ phase = "tool"
  /\ conversation.answers
  /\ conversation' = [conversation EXCEPT !.mistaken = @ + 1]
  /\ SettleTool
  /\ UNCHANGED <<saveStep, calls, running, turnInFlight, shutdownRequested, waitVars,
                 injected, diskVars, exitVars, histVars>>

(* executeToolCall: what it does with an error depends on hasToolResponse.   *)
ToolReturns ==
  \E recorded \in {TRUE, ~conversation.answers} :
    IF recorded THEN ResultRecorded ELSE ErrorTakenForRecorded

(* wait and wait_then_continue record their result before they block.       *)
StartWait(kind) ==
  /\ phase = "calls"
  /\ AnswerCall
  /\ calls' = calls - 1
  /\ phase' = kind
  /\ WaitForEvent
  /\ UNCHANGED <<saveStep, flagVars, deferredEvents, wakeEvent, injected, diskVars, exitVars,
                 histVars>>

WaitTimeout ==
  /\ phase \in {"timedWait", "implicitWait"}
  /\ resolver = Open
  /\ resolver' = Null
  /\ UNCHANGED <<loopVars, flagVars, queueVars, wakeEvent, conversation, injected, diskVars,
                 exitVars, histVars>>

WaitReturns ==
  /\ phase \in {"wait", "timedWait"}
  /\ TakeWaitResult
  /\ phase' = "called"
  /\ UNCHANGED <<saveStep, calls, flagVars, queueVars, wakeEvent, diskVars, exitVars, histVars>>

Preempt_DropsCalls(e) ==
  /\ conversation' = [conversation EXCEPT !.events = @ \cup {e}]
  /\ injected' = injected \cup {e}

(* An event preempts the remaining calls, which are answered as skipped.    *)
Preempt(e) ==
  /\ conversation' = [conversation EXCEPT !.events = @ \cup {e}, !.unanswered = @ - calls,
                                           !.answers = IdsRepeat]
  /\ injected' = injected \cup {e}

(* Back from executeToolCall: has an event come meanwhile?                  *)
NextCall ==
  /\ phase = "called"
  /\ \/ /\ pendingInputs # <<>>
        /\ Preempt(Head(pendingInputs))
        /\ pendingInputs' = Tail(pendingInputs)
        /\ EndTurn
     \/ /\ pendingInputs = <<>> /\ calls = 0
        /\ EndTurn
        /\ UNCHANGED <<conversation, injected, pendingInputs>>
     \/ /\ pendingInputs = <<>> /\ calls > 0
        /\ phase' = "calls"
        /\ UNCHANGED <<calls, turnInFlight, conversation, injected, pendingInputs>>
  /\ UNCHANGED <<saveStep, running, toolInFlight, shutdownRequested, deferredEvents, waitVars,
                 diskVars, exitVars, histVars>>

PostTurnCompact ==
  /\ phase = "postCompact"
  /\ phase' = "postSave"
  /\ Summarize \/ UNCHANGED conversation
  /\ UNCHANGED <<saveStep, calls, flagVars, queueVars, waitVars, injected, diskVars, exitVars,
                 histVars>>

(* waitForImplicitContinuation after its wait.                              *)
ImplicitWaitReturns ==
  /\ phase = "implicitWait"
  /\ TakeWaitResult
  /\ Unless(IF resolver = Null THEN "continueSave" ELSE "preCompact")
  /\ UNCHANGED <<saveStep, calls, flagVars, queueVars, wakeEvent, diskVars, exitVars, histVars>>

(* onPromptTooLarge: the provider refused the prompt, the conversation is   *)
(* compacted in place and the request is retried.                           *)
PromptTooLarge ==
  /\ phase = "completing"
  /\ Summarize
  /\ UNCHANGED <<loopVars, flagVars, queueVars, waitVars, injected, diskVars, exitVars, histVars>>

-----------------------------------------------------------------------------
(* The rest tool *)

StartRest ==
  /\ phase = "calls"
  /\ AnswerCall
  /\ calls' = calls - 1
  /\ toolInFlight' = TRUE
  /\ phase' = "resting"
  /\ UNCHANGED <<saveStep, running, turnInFlight, shutdownRequested, queueVars, waitVars,
                 injected, diskVars, exitVars, histVars>>

WriteSession_Once == session' = IF session = None THEN conversation ELSE session

(* saveSession                                                              *)
WriteSession == session' = conversation

FoldSession_SkipsKeep ==
  /\ phase = "resting"
  /\ phase' \in {"restKept", "restSnapshot"}
  /\ UNCHANGED <<saveStep, calls, flagVars, queueVars, waitVars, conversation, injected, diskVars,
                 exitVars, histVars>>

(* The session is folded into summaries, or semantic compaction is          *)
(* unavailable and the session is kept.                                     *)
FoldSession ==
  /\ phase = "resting"
  /\ phase' \in {"restKeep", "restSnapshot"}
  /\ UNCHANGED <<saveStep, calls, flagVars, queueVars, waitVars, conversation, injected, diskVars,
                 exitVars, histVars>>

KeepSession ==
  /\ phase = "restKeep"
  /\ WriteSession
  /\ phase' = "restKept"
  /\ UNCHANGED <<saveStep, calls, flagVars, queueVars, waitVars, conversation, injected,
                 restSnapshot, exitVars, histVars>>

RestForests_OldSummaries == conversation.summarized

(* recordRestSnapshot: the new summaries cover the whole conversation.      *)
RestForests == conversation.events

WriteRestSnapshot ==
  /\ phase = "restSnapshot"
  /\ restSnapshot' = RestForests
  /\ phase' = "restClear"
  /\ UNCHANGED <<saveStep, calls, flagVars, queueVars, waitVars, conversation, injected, session,
                 exitVars, histVars>>

(* Phase restClear spans the reset of the agent's Python and clearSession,  *)
(* which swallows the error of a file it cannot delete.                     *)
Rest ==
  /\ \/ phase = "restKept" /\ UNCHANGED <<session, failed>>
     \/ /\ phase = "restClear"
        /\ session' \in {session, None}
        /\ failed' = (failed \/ session' # None)
  /\ Finally
  /\ UNCHANGED <<injected, restSnapshot, shutdownCopy, accepted, spent, restarts>>

RestFails_AnswersAgain ==
  /\ phase \in RestPhases
  /\ AnswerCall
  /\ SettleTool
  /\ failed' = TRUE
  /\ UNCHANGED <<saveStep, calls, running, turnInFlight, shutdownRequested, waitVars,
                 injected, diskVars, exitVars, accepted, spent, restarts>>

(* rest throws after "Goodnight." is recorded: executeToolCall sees the     *)
(* recorded response and adds none, and the loop goes on.                   *)
RestFails ==
  /\ phase \in RestPhases
  /\ SettleTool
  /\ failed' = TRUE
  /\ UNCHANGED <<saveStep, calls, running, turnInFlight, shutdownRequested, waitVars,
                 conversation, injected, diskVars, exitVars, accepted, spent, restarts>>

-----------------------------------------------------------------------------
(* saveRuntimeSnapshot: session.json, then rest-snapshot.json if the        *)
(* conversation holds a summary; then what the loop does next.              *)

SaveSession ==
  /\ phase \in SavePhases
  /\ saveStep = "session"
  /\ WriteSession
  /\ saveStep' = "snapshot"
  /\ UNCHANGED <<phase, calls, flagVars, queueVars, waitVars, conversation, injected,
                 restSnapshot, exitVars, histVars>>

SaveRestSnapshot ==
  restSnapshot' = IF conversation.summarized = {} THEN restSnapshot ELSE conversation.summarized

SaveAndContinue ==
  /\ saveStep = "snapshot"
  /\ SaveRestSnapshot
  /\ saveStep' = "session"
  /\ \/ /\ phase = "preSave"
        /\ BeginTurn
        /\ UNCHANGED <<pendingInputs, resolver>>
     \/ /\ phase = "save"
        /\ phase' = "implicitWait"
        /\ WaitForEvent
        /\ UNCHANGED turnInFlight
     \/ /\ phase = "continueSave"
        /\ Unless("preCompact")
        /\ UNCHANGED <<turnInFlight, pendingInputs, resolver>>
     \/ /\ phase = "postSave"
        /\ phase' = "preCompact"
        /\ UNCHANGED <<turnInFlight, pendingInputs, resolver>>
  /\ UNCHANGED <<calls, running, toolInFlight, shutdownRequested, deferredEvents, wakeEvent,
                 conversation, injected, session, exitVars, histVars>>

(* The shutdown snapshot, or the one after an aborted loop, ends the cycle. *)
SaveAndStop ==
  /\ phase \in {"shutdownSave", "abortSave"}
  /\ saveStep = "snapshot"
  /\ SaveRestSnapshot
  /\ Finally
  /\ UNCHANGED <<injected, session, shutdownCopy, histVars>>

(* The loop throws: the provider gave up, a database or a file write        *)
(* failed.  wake catches, and saves what there is.                          *)
Abort ==
  /\ phase \in {"preCompact", "completing", "calls", "called", "postCompact"}
               \cup (SavePhases \ {"abortSave"})
  /\ phase' = "abortSave"
  /\ saveStep' = "session"
  /\ turnInFlight' = FALSE
  /\ UNCHANGED <<calls, running, toolInFlight, shutdownRequested, queueVars, waitVars,
                 conversation, injected, diskVars, exitVars, histVars>>

AbortSaveFails ==
  /\ phase = "abortSave"
  /\ failed' = TRUE
  /\ Finally
  /\ UNCHANGED <<injected, diskVars, shutdownCopy, accepted, spent, restarts>>

-----------------------------------------------------------------------------
(* gracefulShutdown, process exit, crash *)

(* gracefulShutdown calls shutdown(): nothing to do without a conversation; *)
(* otherwise waits are interrupted, and a turn in flight is left to save    *)
(* when it ends, while any other moment is saved here and now.              *)
RequestShutdown ==
  /\ exit = "no"
  /\ \/ /\ phase \in {"off", "loading"}
        /\ exit' = "gaveUp"
        /\ UNCHANGED <<shutdownRequested, resolver, shutdownCopy>>
     \/ /\ phase \in LoopPhases
        /\ shutdownRequested' = TRUE
        /\ resolver' = IF resolver = Open THEN Null ELSE resolver
        /\ IF turnInFlight \/ toolInFlight
             THEN exit' = "waiting" /\ UNCHANGED shutdownCopy
             ELSE exit' = "saving" /\ shutdownCopy' = conversation
  /\ UNCHANGED <<loopVars, running, turnInFlight, toolInFlight, queueVars, wakeEvent,
                 conversation, injected, diskVars, histVars>>

(* shutdown()'s own saveRuntimeSnapshot, concurrent with the loop: the rest *)
(* snapshot is taken from whatever state.conversation is by then.           *)
ShutdownSave ==
  /\ \/ /\ exit = "saving"
        /\ session' = shutdownCopy
        /\ shutdownCopy' = None
        /\ exit' = "savingSnapshot"
        /\ UNCHANGED restSnapshot
     \/ /\ exit = "savingSnapshot"
        /\ SaveRestSnapshot
        /\ exit' = "saved"
        /\ UNCHANGED <<session, shutdownCopy>>
  /\ UNCHANGED <<loopVars, flagVars, queueVars, waitVars, conversation, injected, histVars>>

(* gracefulShutdown waits a minute for shutdown(), no longer.               *)
ShutdownTimeout ==
  /\ exit \in {"waiting", "saving", "savingSnapshot"}
  /\ exit' = "gaveUp"
  /\ shutdownCopy' = None
  /\ UNCHANGED <<loopVars, flagVars, queueVars, waitVars, conversation, injected, diskVars,
                 histVars>>

(* The process ends and a new one starts with empty memory.                 *)
Restart ==
  /\ restarts < MaxRestarts
  /\ restarts' = restarts + 1
  /\ phase' = "off" /\ saveStep' = "session" /\ calls' = 0
  /\ running' = FALSE /\ turnInFlight' = FALSE
  /\ toolInFlight' = FALSE /\ shutdownRequested' = FALSE
  /\ pendingInputs' = <<>> /\ deferredEvents' = NoDeferred
  /\ resolver' = None /\ wakeEvent' = None
  /\ conversation' = Empty
  /\ exit' = "no" /\ shutdownCopy' = None
  /\ spent' = spent \cup ToSet(accepted)
  /\ accepted' = <<>> /\ failed' = FALSE
  /\ UNCHANGED <<injected, diskVars>>

ProcessExit == exit \in {"saved", "gaveUp"} /\ Restart
Crash       == exit \notin {"saved", "gaveUp"} /\ Restart

-----------------------------------------------------------------------------

WakeCycle ==
  \/ LoadSession \/ PreTurnCompact
  \/ \E n \in 0..MaxCalls : Complete(n)
  \/ PromptTooLarge
  \/ RejectCall \/ ParseError \/ StartTool \/ ToolReturns
  \/ \E kind \in {"wait", "timedWait"} : StartWait(kind)
  \/ WaitTimeout \/ WaitReturns \/ NextCall
  \/ PostTurnCompact \/ ImplicitWaitReturns
  \/ StartRest \/ FoldSession \/ KeepSession \/ WriteRestSnapshot \/ Rest \/ RestFails
  \/ SaveSession \/ SaveAndContinue \/ SaveAndStop
  \/ Abort \/ AbortSaveFails

Process == RequestShutdown \/ ShutdownSave \/ ShutdownTimeout \/ ProcessExit \/ Crash

Next ==
  \/ \E e \in Event, onlyIfWaiting \in BOOLEAN : Submit(e, onlyIfWaiting)
  \/ WakeCycle
  \/ Process

Spec == Init /\ [][Next]_vars

(* The loop runs on: every await of a wake cycle ends, except a wait for an *)
(* event that never comes.  Model and tool calls have time limits, writes   *)
(* complete.  Nothing is assumed of triggers, shutdown, exit or crashes.    *)
FairSpec == Spec /\ WF_vars(WakeCycle)

-----------------------------------------------------------------------------
(* Properties *)

Sessions == Conversation \cup {None}

TypeOK ==
  /\ phase \in Phases /\ saveStep \in {"session", "snapshot"} /\ calls \in 0..MaxCalls
  /\ running \in BOOLEAN /\ turnInFlight \in BOOLEAN
  /\ toolInFlight \in BOOLEAN /\ shutdownRequested \in BOOLEAN
  /\ pendingInputs \in Seq(Event)
  /\ deferredEvents \in [front : Seq(Event), back : Seq(Event)]
  /\ resolver \in Event \cup {None, Open, Null}
  /\ wakeEvent \in Event \cup {None}
  /\ conversation \in Conversation /\ injected \in SUBSET Event
  /\ session \in Sessions /\ restSnapshot \in SUBSET Event
  /\ exit \in {"no", "waiting", "saving", "savingSnapshot", "saved", "gaveUp"}
  /\ shutdownCopy \in Sessions
  /\ accepted \in Seq(Event) /\ spent \in SUBSET Event
  /\ failed \in BOOLEAN /\ restarts \in 0..MaxRestarts

(* A runner that waits for an event has none: nothing is queued or deferred *)
(* while a resolver is registered, and no tool runs (deliverEvent against   *)
(* waitForEvent, flushDeferredEvents and takePendingInput).                 *)
NoMissedWakeup ==
  resolver = Open => /\ phase \in WaitPhases
                     /\ Queued = {}
                     /\ ~toolInFlight /\ ~shutdownRequested

(* When a wake cycle is over, no event is left for a next one that nobody   *)
(* starts (the finally of wake).                                            *)
NothingStranded == phase = "off" /\ exit = "no" => Queued = {}

(* Every event the runner accepted is queued, about to enter the            *)
(* conversation, or in it: none is dropped while the process is not         *)
(* shutting down.                                                           *)
NoEventLost == exit = "no" => ToSet(accepted) \subseteq Queued \cup InHand \cup injected

(* ... and in one of these places only: no event is injected twice.         *)
NoEventTwice ==
  /\ IsInjective(pendingInputs)
  /\ IsInjective(deferredEvents.front \o deferredEvents.back)
  /\ ToSet(pendingInputs) \cap DeferredSet = {}
  /\ Queued \cap (InHand \cup injected) = {}
  /\ InHand \cap injected = {}
  /\ resolver \in Event => wakeEvent \notin Event

(* When the next turn begins, the tool calls of the conversation without a  *)
(* tool message are those whose handler threw under the id of an earlier    *)
(* tool message, and no other: whatever preempted, refused, failed or       *)
(* aborted the turn that made it, a call has its message.  Only for these   *)
(* does the repair that prepareCompletionMessages makes on every request    *)
(* invent an answer; the promise above executeToolCall makes no exception.  *)
AllCallsAnswered == phase = "completing" => conversation.unanswered = conversation.mistaken

(* An agent idling after an answer without tool calls can crash without     *)
(* forgetting an event: the session file has its whole conversation.        *)
SavedWhenIdle ==
  phase = "implicitWait" /\ resolver = Open /\ exit = "no" =>
    session # None /\ conversation.events \subseteq session.events

Durable(s, r) == r \cup (IF s = None THEN {} ELSE s.events)

(* "rest ends the session with a durable snapshot; the next trigger starts  *)
(* a fresh one with a rest summary": over rests, wakes, compactions and     *)
(* checkpoints of a process in which no save and no rest failed, no event   *)
(* the agent was ever told of leaves both its conversation and its files.   *)
NothingForgotten ==
  exit = "no" /\ restarts = 0 /\ ~failed =>
    injected \subseteq conversation.events \cup Durable(session, restSnapshot)

(* When shutdown() left the saving to the loop, it resolves only after all  *)
(* of the conversation is in the files, save when the write itself failed.  *)
ShutdownPersists ==
  [][exit = "waiting" /\ exit' = "saved" /\ ~(phase = "abortSave" /\ saveStep = "session")
       => conversation.events \subseteq Durable(session', restSnapshot')]_vars

(* rest deletes the session file only when the rest snapshot has all that   *)
(* the file and the conversation had (until shutdown()'s own write, which   *)
(* a loop that goes on can outrun, puts an older conversation there).       *)
RestForgetsNothing ==
  [][session # None /\ session' = None /\ exit \in {"no", "waiting"}
       => session.events \cup conversation.events \subseteq restSnapshot']_vars

(* The runner keeps the promises of Inbox about its events.                 *)
Contract == INSTANCE Inbox WITH arrived <- accepted, waiting <- Queued, closing <- exit # "no"
KeepsInboxContract == Contract!InboxSpec

(* shutdown() is answered by the loop itself: no turn, tool or wait can     *)
(* keep it until its one-minute limit.                                      *)
ShutdownAnswered == exit = "waiting" ~> exit # "waiting"

(* The model keeps coming back to points where the loop looks at its queue: *)
(* it does not call unavailable tools only, or ignore a nudge, for ever.    *)
ModelTakesTurns == []<>(phase \in {"called", "wait", "implicitWait", "loading", "off"})

(* Then every accepted event enters the conversation, unless the process    *)
(* shuts down or dies first.                                                *)
EveryEventServed ==
  ModelTakesTurns =>
    \A e \in Event : e \in ToSet(accepted) ~> (e \in injected \cup spent \/ exit # "no")

(* The loop "runs until the agent rests or shutdown is requested": no turn  *)
(* begins after the request.                                                *)
NoTurnAfterShutdown == [][~turnInFlight /\ turnInFlight' => ~shutdownRequested]_vars


=============================================================================
