# Niri in TLA+

A verification project for Niri, a server for long-lived agents: TLA+ modules that follow the
source, TLC runs that check them on small instances, and theorems that TLAPS proves for every
value of the constants. Paths are relative to the repository; `runtime/` stands for
`packages/niri-runtime/src/`, `server/` for `apps/server/src/`.

    tlc -config runner_queue.cfg MCRunner        one run; the configuration names the questions
    tlapm RunnerProofs.tla                       one module of proofs

## The system

Three programs make up a Niri installation (docs/architecture.md). The **server** (`server/`)
keeps the durable configuration of every agent, spawns and replaces one worker process per agent,
mirrors their events and routes HTTP requests to them. The **agent runtime** (`runtime/` with
`packages/agent-loop`, `agent-llm`, `agent-context`) is that worker: it waits for events of its
triggers, lets a model take turns with tools, delegates tasks to sub-agents, and keeps its session
in files and SQLite. The **tool host** (`apps/client`, `packages/harness-client-node`) runs shells,
Python cells and file tools where the work is, and is reached over HTTP or an iroh tunnel.

All three are single-threaded Node.js programs. What runs between two awaits is atomic, so the
hard behaviours are those of interleaved awaits, timers, files written in several steps, and
processes that end at any of these points.

### Inventory

| Component (source) | State it keeps | Operations | Interacts with | Hard behaviour | Correct when | Status |
|---|---|---|---|---|---|---|
| Runner: session manager and loop (`runtime/runner/index.ts`, `agent-loop/src/loop.ts`, `tools.ts`, lifecycle tools of `loop-tool-registry.ts`, files of `util.ts`) | flags of the wake cycle, pending and deferred events, resolver of the wait, conversation, `session.json`, `rest-snapshot.json` | wake, enqueueEvent, waits, tool calls, rest, compaction points, checkpoints, abort, shutdown | every trigger, delegation, model, tools | an event against a wait, a tool, a rest, a shutdown; a crash between two files | no event lost, repeated or stranded; every call answered but for a reused id; nothing told is forgotten | modelled |
| Delegation (`runtime/delegation/manager.ts`, `store.ts`, `subagent.ts`) | task table, mailboxes, `activeTasks`, waiters, the worker of each task | spawn, send, feedback, Discord follow-up, cancel, queue, worker turns, questions, end, stop, start | runner, Discord mirror, Python host | answers against questions, cancellation against results, lease and slots, restart | task life cycle, one writer, no answer missed, every task ends | modelled |
| Agent manager and supervisors (`server/agent-manager.ts`, `supervisor.ts`, `local-agents.ts`) | generation and drain, retry timers, table of supervisors, child, timers and health of each, registrations | update, start, stop, restart, reconcile, live apply, replace, spawn, health, exit | configuration store, worker processes, routes | edits during reconciliation, stop during boot, crash after a live apply | requests reach live workers only, the desired revision is taken up | partly |
| Configuration store (`server/control/config-store.ts`, `config-routes.ts`, `hot-settings.ts`, `local-agents.ts`, `packages/agent-config`, `runtime/settings-apply.ts`) | row, revisions, request ids, seeds, policy; secrets; the worker's environment | create, update, rollback, seed, enable, webhooks, life-cycle marks; redact, resolve, apply | manager, operator, agents, workers | compare-and-set against retries, three-way seed merge, agent edits against enforced values, a crash after a live apply | a request is applied once; a seed keeps operator edits; the policy holds; a worker runs on what its revision means | partly |
| Event outbox and control mirror (`runtime/awp/outbox.ts`, `runtime/server.ts`, `server/control/db.ts`, `server.ts`, the page of `apps/web`) | numbered events, cursors, mirrored events | append, replay, live stream, mirror, prune, listing | chat, web and terminal clients | a reader between replay and live stream, a restart of either side | no event of a stream skipped or repeated | partly |
| Iroh links and tunnels (`server/iroh.ts`, `runtime/iroh-link.ts`, `apps/client`, `packages/iroh-transport`) | connection registry, tunnels, dial loop, pumps | accept, replace, dial, back off, close, reconcile; open, pump, end a stream | agent manager, host calls | a new connection replaces an old one whose close is noticed later; either end of a stream fails first | the route is that of the newest connection; bytes arrive in order and whole | partly |
| Host calls (`runtime/host-rpc.ts`, `server/client-reverse-rpc.ts`, harness packages) | grants, requests under way, capabilities | grant, call, answer, time out, revoke; admit, forward, refuse | kernel, jobs, tunnels | late answers, calls whose caller or worker is gone | one execution and one true outcome per call; no grant outlives its tool call | partly |
| Tool host: Python kernel, shells, file tools (`harness-client-node/src`) | interpreter, queue of cells, shells, the files | run, interrupt, reset, time out; read, edit, write, upload | host calls | interrupt against a result, a reset during a cell, overlapping edits of one file | every cell is answered; an edit changes the lines it names | partly |
| Process jobs (`runtime/process-jobs.ts`) | job table, timers, polls in flight | start, poll, terminate, complete, adopt at boot | runner, host calls | poll against termination, lost answers, restarts of either side | a job is watched until its end is known, and the end is true | modelled |
| Scheduler (`runtime/scheduler.ts`) | schedules, timer | create, cancel, fire, recur | runner | the mark after the delivery, shutdown, downtime | a reminder fires once, not early | modelled |
| Providers and resilience (`agent-llm/src/provider-set.ts`, `resilient.ts`, `errors.ts`) | bans, circuits, counters of a completion | complete, retry, recover, fail over | loop, compactor | four ways round one loop, a ban that ends meanwhile | completions end, counters stay bounded | modelled |
| Compaction and archive (`agent-context/src`) | conversation, summary nodes, archive, two files | prune, merge, fold, promote, rest, grep, describe, expand | loop, the agent's tools | model failures and crashes between database and session file; pages of a growing archive | everything said can be found again, once, in order | partly |
| Transcript and wire (`runtime/runner/util.ts`, wire adapters of `agent-llm`) | conversation, request, the reply being put together | write, interrupt, cut, repair, convert, assemble | loop, providers | reused call ids, lost results, cuts, a stream that breaks | a request answers each call with its own result; what is read is what the model meant | partly |
| Discord (`runtime/discord/*`, batches in `runtime/server.ts`) | messages, channels, items, cursor, posture, vectors | ingest from four sources, scan, digest, repair, demote, posture, send, mark, embed, search | runner | a posture read before an await, truncated digests, double arrival, a batch the provider refuses | a message wakes once, is passed unshown only for a known reason, is held in forge, is found | partly |
| Memory (`runtime/memory/*`, `agent-state-tools.ts`) | the agent's files, documents, chunks, embeddings, recall | read, edit, append, search; sync, embed, recall | loop, tools, Python cells | overlapping syncs and edits | a vector belongs to its text; the index equals the files; what was appended stays | partly |
| MCP, metrics, work ledger (`runtime/mcp.ts`, `metrics.ts`, `work-ledger.ts`) | sessions and lent tools; rows; items | boot, retry, stop; add, prune, page; create, update, close, summarise | loop, routes, wake | overlapping rounds of retries, pages of a growing table | what is offered can be called, pages leave nothing out, closed work stays closed | partly |
| Terminal and web page (`packages/niri-cli`, `chat-client`, `apps/web`, `runtime/stream.ts`) | lines shown, the line being written, the buffer of events | show pieces, records, tools; join, reconnect | event stream | a record that arrives among its pieces, a retry, a buffer that overflowed | each reply is shown whole and in order, and again only where its parts were mixed | partly |
| Prompts, protocol types, scripts | none | compose, validate | | data rather than control | | not modelled |

### The order of work

1. `Runner` with its contract `Inbox` and `RunnerProofs`: done.
2. `Delegation` with its contract `TaskBoard` and `DelegationProofs`: done.
3. `AgentManager` with `AgentManagerProofs`: done, for local agents.
4. The parts around them: `ProcessJobs`, `PythonKernel`, `IrohLink`, `ConfigStore`, `EventStream`,
   `DiscordInbox`, `Compaction`, `Providers`, `Transcript`, `Memory`, `Scheduler`: done, checked
   through `MCParts` and `MCLive`; theorems of `ConfigStore`, `IrohLink`, `EventStream`, `DiscordInbox`, `Memory`,
   `ProcessJobs` and `Scheduler`.
5. What lies between and behind them: `FileTools` and `AgentFiles` over `Hashline`, `CompletionStream`,
   `ChatView`, `MessageStore`, `MessageIndex`, `AgentSettings`, `Metrics`, `WorkLedger`, `McpTools`,
   `ArchiveReader`, `Tunnel`, `HostRpcIngress`, `HostCalls`: done, checked through `MCParts` and `MCLive`; theorems of
   `MessageIndex`, `HostCalls`, `HostRpcIngress` and `Tunnel`, and with `ProcessJobs` of their composition `HostWork`.
6. Next: `Scheduler` composed with `Inbox` in place of `Runner`, which implements it;
   `AgentManager` composed with `ConfigStore`, whose operations replace its `Update`.

Theorems next: closed work of `WorkLedger`, what `McpTools` lends, and the links and tables of `MessageStore`.

## How the modules are written

A step is the code between two awaits: one action per operation of the source, whose guard is the
code's conditions and early returns, whose primed variables are its assignments, up to the next
await. The await at which a concurrent activity stands is a variable (`phase`, `pc`,
`manager.step`, `sup[s].spawning`), and what the code holds in locals across it is kept with it.
Definitions whose name has an underscore, `X_WithoutY`, are faulty variants of `X` that no
specification uses; each is a bug that a property below notices. `MC...` modules give TLC
symmetry sets and bounds. Constants with `Max` in their name are bounds on the model, except
`MaxConcurrent` and `MaxTurns`, which are settings of the program.

### Runner

`Runner.tla` is one agent process and its two files, over restarts. `phase` is the await of the
wake cycle: `loading` (wake reads the session), `preCompact`, `completing` (the model), `calls` and
`called` (between the calls of a turn), `tool`, `wait`/`timedWait`/`implicitWait`, the steps of
`rest`, and the `...Save` phases in which `saveRuntimeSnapshot` writes first `session.json`
(`saveStep = "session"`), then `rest-snapshot.json`. `running`, `turnInFlight`, `toolInFlight` and
`shutdownRequested` are the flags of the session state, kept by assignments all over the code
and therefore variables of their own here. `pendingInputs` and `deferredEvents` are its queues; deferred events have a
front (priority) and a back, because a priority event is put before all others. `resolver` is the
promise of a wait: open, resolved with an event, or resolved with null.

A conversation is the set of events it tells the model about, the part of them that summaries
cover, the number of tool calls without an answer, how many of these the loop takes for answered because
an earlier tool message has their id (`mistaken`), and whether there may be such a message (`answers`, under
`IdsRepeat`: ids are the provider's, or `call_<index>`). `exit` is where `gracefulShutdown` stands,
`shutdownCopy` what `shutdown()` writes by itself while the loop goes on. `Crash` and `ProcessExit`
keep the files and lose the rest. Left out: texts, token counts, metrics, transcripts, nudge texts.

`Inbox.tla` is what triggers may rely on: an accepted event waits until it is chosen, once;
priority events first, the others in order; only a process that closes or dies leaves events
behind. `KeepsInboxContract` is the refinement: arrived <- accepted, waiting <- queued and deferred.

### Delegation

`Delegation.tla` has the task table and the mailboxes (which survive a restart), the manager's
memory (`initialized`, `stopping`, `activeTasks`, `inputWaiters`) and one worker per task (`pc`,
`turn`, `lastInboxSeq`, its deadline). `Pump` is the whole synchronous walk of `pumpQueue`: the set
of queued tasks that start is the unique one in which each task starts exactly if it fits next to
the workers and the older tasks that start. A mailbox is the sequence of senders; `PageLimit` is
the 100 of `readInbox`. The Discord mirror is kept as the awaits it puts after every message.
Tasks spawned in the same millisecond are ordered by their insertion here, while the source
leaves such ties to SQLite.

`TaskBoard.tla` is what readers of the task table may rely on: how a status may change, that only a
task with a worker is worked on or completed, the single-writer lease and the concurrency bound.

### AgentManager

`AgentManager.tla` is one local agent: its row (`enabled`, desired revision, application state,
configuration), `drain` and `reconcile` (`manager`, with the revision, configuration, supervisor
and process they read before an await), the retry timers, the waits of `stop()`, the supervisors,
and the worker processes, which compete for one port. A configuration is a cold and a hot part;
equal parts stand for an edit of settings that only the server reads. The generation counter of
`schedule` is `manager.again`: whether somebody has asked since the running reconciliation began,
which is all its comparisons tell apart. Continuations that wait for nothing but the microtask
queue (`Due`) come before every timer, request and process step, as in Node.js; the fetches of
health, readiness and `/config/apply` return in their own steps. A process boots, listens (or dies
because the port is taken), answers, and ends by a signal, a crash or a failed boot;
`FailingReturns` covers the home directory that cannot be made and the failed health check.
A supervisor that is stopped, childless and idle is garbage, and its identity is used again.

Left out: remote agents, iroh client tunnels, port allocation, `close()`, and a restart of the
server, whose timers and supervisors do not survive it. Secrets that are missing are left out by
the code and never make a configuration fail; `validate` has resolved it before it was stored.

### The parts around the core

Each of these modules stands on its own. In `MCParts` a variable `part`, chosen at the start, says
which of them moves: one run looks at all, and its size is the sum of theirs. Two are extended, under their
own names and with their own variables: `ConfigStore` and `DiscordInbox`, whose properties are the run's. The others are instantiated, each `WITH` its bounds; only one of
them is ever in a state at all, so that they take turns in the same variables `x1`, `x2` and so on, in the
order in which each declares its own. The names of the instances: `Kernel`, `Link`
(`IrohLink`), `Stream` (`EventStream`), `Recalled` (`Memory`), `Timers` (`Scheduler`), `Context`
(`Compaction`), `Models` (`Providers`), `Script` (`Transcript`), `HostFiles` and
`BothEdit` (`FileTools`, with many texts and with two callers), `Reading`
(`CompletionStream`), `View` (`ChatView`), `Store` (`MessageStore`), `Index` (`MessageIndex`), `Settings`
(`AgentSettings`), `Memories` (`AgentFiles`), `Measured` (`Metrics`), `Ledger` (`WorkLedger`), `Lent`
(`McpTools`), `Archive` (`ArchiveReader`).

`MCLive` is the same for the parts that owe an answer: the five with a liveness property, under names of their own
and with their fairness, one of them being `Link` (`IrohLink`); and, extended, `HostWork`, which is `ProcessJobs`,
`HostCalls`, `HostRpcIngress` and `Tunnel` side by side, what a worker and its tool host do for each other.

- `ProcessJobs`: one background command. The row in the agent's database, the functions that watch it
  (`timer`, `inflight`, `ending`, `starter`), the calls on the wire, the shell session of the host
  and the process. A call may be refused, answered late or lost, its caller may give up, and agent
  and host may crash.
- `PythonKernel`: the manager's promise chain of cells and resets, the child it started, the
  processes there are, and the three streams (result line, two end markers) an answer is put
  together from; deadline, interrupt, escalation and death in any order; what the worker's probe
  has told it of the host's capabilities.
- `IrohLink`: the dialling loop of a worker or a tool client, the handler of each connection on the
  server, the registry, the route, and the reconciliations that take routes away.
- `ConfigStore`: one agent's row, its revisions and the remembered request ids. A configuration is a
  knob the policy may open or the operator enforce, the policy, and a webhook. A request that is refused changes
  nothing, so the actions are those that are carried out.
- `EventStream`: outbox with pruning, the worker's stream (replay of at most `PageRows` rows, then live),
  the control plane's mirror, and a page that loads a tail and follows the stream. The agent's row (`agentRow`)
  is deleted when the worker is unregistered, and a registration begins at `last_seq` 0, while the mirrored
  rows stay; `mirror.last` is history, the highest number ever recorded. A page that knows its agents from a configured control
  plane has no `lastSeq` and asks for the stream from 0.
- `DiscordInbox`: messages from the gateway (twice at times) and from scans, inbox items, the
  periodic digest with its cursor, posture, cooldown window, sending and marking; a coarse clock, so
  that several things share a timestamp.
- `Compaction`: a conversation of messages, excerpts and summaries; the compaction that works on a
  copy and waits for the model at each `stage`; the nodes and texts of the archive; `session.json` and the
  rest snapshot, each with what it stands for.
- `Providers`: the completions under way at the awaits of `completeWithResilience`, the bans and
  circuits of each provider set, and the summary calls that look at circuits.
- `Transcript`: the messages between a model's calls and the next request: results written, never written
  (`unwritten`), lost with the process, cut off, repaired (`sanitizeMessages` as an operator on sequences), and both wire formats.
- `Memory`: files edited at any time, `syncMemoryIndex` of several callers at its awaits, chunk ids as
  SQLite gives them out, embeddings, and the recall of a session.
- `Scheduler`: rows of reminders, the timer, and the process from boot to the end of a shutdown.
- `FileTools`: one file under reads with anchors, edits, writes and chunked uploads that overlap, with
  the inodes behind its path, the temporary files of writes, and an outsider who edits. `Hashline` is the
  edit of lines by anchor, as an operator that `AgentFiles` uses too.
- `AgentFiles`: `soul.md` and a memory file with its backup, under reads, searches, appends, replacements and
  patches whose read and write are apart.
- `CompletionStream`: the pieces of a reply in both wire formats, tool calls hidden in the reasoning, broken
  attempts, and what the error makes the next request leave out; beside it what the model meant.
- `ChatView`: the loop that publishes pieces and records, the buffer of recent events, the terminal that
  shows them live, after joining late or reconnecting, and the lines of the web page.
- `MessageStore`: rows of channels, messages and items as the raw packet, the gateway's event, the answer to
  a send and a scan leave them, in any order and twice; the repair; pages of `backread`.
- `MessageIndex`: rows, their vectors and models; one sync at a time of each caller, the halving of a
  batch that fails, the cap of what a search may catch up on.
- `AgentSettings`: a configuration as a function from fields to values; the patch, its validation and
  redaction, secrets, the environment of the worker, and the steps of a live application with its faults.
- `Metrics`: rows of two types and messages, pruning, and a reader who follows cursors.
- `WorkLedger`: items with status, revision and due time, the tools on them, and the text of a wake.
- `McpTools`: the boot, the timer and two rounds of retries at their awaits; sessions, lent tools and owners.
- `ArchiveReader`: nodes with several parents, the messages under them, and the grep, describe and expand of
  an agent that pages while the archive grows.
- `Tunnel`: two sockets, two pumps with their queues and flags, the two directions of the stream between,
  and the connection under it.
- `HostRpcIngress`: one request from its first byte to the end of its reply, through the ingress to the worker
  registered at the time.
- `HostCalls`: one Python tool call with its grant, and the calls its cell makes back while answers, time
  limits, the worker and the network may each come first.

## Runs

| Run | Instance | Shows |
|---|---|---|
| `runner_queue` | 3 events, one with priority, and 1 call per message; or 2 events, 2 calls and ids that repeat; 1 process | `AllCallsAnswered`, `NoMissedWakeup`, `NothingStranded`, `NoEventLost`, `NoEventTwice`, and that `Runner` implements `Inbox` |
| `runner_files` | 2 events, 2 calls per message, 1 restart, fairness of the wake cycle | `TypeOK`, `SavedWhenIdle`, `NothingForgotten`, `ShutdownPersists`, `RestForgetsNothing`, and the liveness of `ShutdownAnswered`, `EveryEventServed` |
| `runner_shutdown_turn` | 2 events, 1 restart | a turn begins after `shutdown()` (finding) |
| `delegation_queue` | 2 writers, 2 readers, 2 slots | `TypeOK`, `NoIdleSlot`, `FirstComeFirstServed` |
| `delegation_worker` | 2 writers, 2 slots, 2 turns, one mailbox of 3, one profile retired, 1 restart, fairness | `NothingPhantom`, `NoAnswerMissed`, `NoWorkAfterCancel`, `EveryTaskEnds`, and that `Delegation` implements `TaskBoard` |
| `delegation_question` | 1 reader | a worker goes on with its question open (finding) |
| `manager_reconcile` | 2 supervisors, 3 processes, 2 revisions, 2 by 2 settings, 2 requests, 1 crash, 1 retry timer | `TypeOK`, `RoutedToLiveWorker`, `PendingIsTakenUp`, `FailedBootStaysFailed` |
| `manager_crash` | 2 supervisors, 2 processes, 2 revisions, 1 crash, fairness | a recovered worker is not registered (finding) |
| `manager_retry` | the same with 1 request, no crash | a repeated request leaves an agent without a worker (finding) |
| `parts` | the parts around the core, one at a time, bounds in `MCParts` | `PartsTypeOK`, `RouteIsKept`, `Lawful`, `AppliedOnce`, `StreamKept`, `HistoryRecoverable`, `TurnsCarried`, `IndexTruthful`, `RemindersKept`, `PassedForAReason`, `HeldStaysHeld` |
| `parts_live` | kernel, link, providers, message index and MCP servers in `MCLive`, with fairness; `HostWork` with 1 fault, 2 calls back, 2 workers, 1 chunk each way | `HostWorkSound`, `EveryCellAnswered`, `ConnectedIsReachable`, `CompletionEnds` |
| `memory_recall` | 2 files, 2 edits, 1 syncer | a turn recalls more than once (finding) |

Deadlock is not checked anywhere: a runtime without events, a table of ended tasks and an agent
that is off may rest for ever, and the bounded models end when their inputs are spent.

**Why the bounds are enough.** For `Runner`, order needs two ordinary events and one with priority,
so three events meet in the queues; a call that is preempted and skipped needs a second call in the
same message, and a call that throws under the id of an earlier answer needs two calls as well; a crash, a resume and a rest that follows need one restart. For `Delegation`, handing on
the lease past a blocked writer to a reader needs two writers, and a second reader to be overtaken
by; a question, an answer and one more instruction need three messages and two turns; interrupted
and unconfigured tasks need a restart. For `AgentManager`, an old worker, its replacement and the
one after it need three processes, two of which have supervisors (a third supervisor waits until
one is free, and is never needed before); an edit during the application of the first needs two
revisions; a stop and a start that cross each other need two requests besides. `MaxRetries = 1`
also bounds how often a wait fails while a timer is pending: a second timer would ask for the same
reconciliation again.

For the parts: one fault of a background job is enough to lose any one answer, and the agent's own
restarts are among them; three processes let a cell outlive a reset and a restart of the interpreter;
three connections are an old one, its successor and the one after; three revisions are a creation, a
change and a rollback to before it, or a seed over it; three events are one replayed, one
flushed and one live, with a prune of one row, and one restart, with every registration and removal of the
agent that fits in. Three messages are a direct one, a mention that forge lets through, in a channel with a window, and
a post, none of which the digest of one has room for beside another: an item is demoted, counted as seen,
held or spared, and a digest cut off between two messages of one time. Four
messages under seven nodes, two to a leaf, fold into leaves, their merge, a third leaf that overflows a
level and a frontier of mixed depth, with a rest in between;
two turns of two calls repeat call ids; two syncs overlap once; two edits replace what a sync has
read; a reminder and an alarm due at once meet a look of one row. Two texts of three lines, one without a
final newline, and two chunks tell edits and uploads of a file apart, and three inodes are the file, its
replacement and one more; two callers with one text and one change overlap at every await of an edit. Two attempts of three pieces cut a tag, a call and a thought. Two replies with a
buffer of two events overflow it. Three messages are one in a configured channel, the agent's own reply and a
direct message that cites it. Three rows with a poisoned one make a batch halve twice. Three edits and one
fault, out of sixteen patches that touch each kind of field, cover an edit, its undoing and a crash between
them. Three MCP servers are a sound one, one whose names collide and one that is unreachable at first; two
rounds overlap. Two messages and a legacy row under four nodes make a node with two parents. A tunnel with one
chunk each way and two connections meets every order of end, failure and replacement. A body of three pieces
over a limit of one is cut before its end. Two calls of one cell, a deadline, and one unit of time after it
let one be refused late while the other is served.

**Symmetry** is used in runs with invariants and action properties only: tasks of a kind in
`delegation_queue`, supervisors and processes in `manager_reconcile` (`Exit` chooses the
supervisor of a process, of which there is one).

**Fairness, and why the code justifies it.** `Runner`: weak fairness of the wake cycle as a whole,
since model and tool calls have time limits and file writes end; waits for events are not assumed
to end. `EveryEventServed` also assumes `ModelTakesTurns`, that the model does not call unavailable
tools for ever: the loop does not look at its queue after those. `Delegation`: weak fairness of
each worker (every await ends or its deadline does), of the deadline, and of `initDelegation`; nothing of
people, shutdowns or restarts, so an unanswered question ends by its deadline. `AgentManager`
(violation run only): weak fairness of the server's continuations, strong fairness of boots, health
checks and idle answers, which microtasks disable for a moment again and again; a worker that is
never healthy in time, or never idle, has nothing promised to it. It is there so that the
counterexample cannot be a worker that simply never answers. `parts_live`: `KernelFairness` are the
manager's continuations and timers, the exit of a killed process, and the delivery of what was
written, not the end of a cell's code; `LinkFairness` are the handlers of the server and the end
of a pump, not a dial that succeeds; `LoopFairness` is the completion loop and the end of a call,
which the client limits in time, not what it answers; the backfill's interval comes again, though nothing is
assumed of what the provider answers; the timer of the MCP rounds fires and every await of a round ends, since
connections and pages are limited in time. A part that stands still owes nothing: no fair
action of these is enabled before it has begun, but for the backfill and the boot of the MCP
servers, whose fairness names their part. Of the parts of `HostWork` no fairness is assumed.

## Properties

Runner:

- `NoMissedWakeup`: while a wait is open nothing is queued or deferred, no tool runs and no shutdown
  is requested. `waitForEvent`, its time-out, `deliverEvent` and `flushDeferredEvents` share three places.
- `NothingStranded`: an agent that is off has nothing queued; only the `finally` of `wake` sees to it.
- `NoEventLost`, `NoEventTwice`: an accepted event is in exactly one of queue, hand, conversation.
- `AllCallsAnswered`: a turn begins with every call answered, whatever ended the last turn, but for those that threw
  under the id of an earlier tool message; of these the loop only logs the error. Checked where ids repeat and where they do not.
- `SavedWhenIdle`: an agent idling after an answer can crash without forgetting it.
- `NothingForgotten`: over rests, wakes, compactions and checkpoints, an event the agent was told of
  stays in its conversation or its files.
- `ShutdownPersists`, `RestForgetsNothing`: what is in the files when `shutdown()` resolves, and when `rest`
  deletes the session.
- `ShutdownAnswered`, `EveryEventServed`: liveness of shutdown and of events.

Delegation: `NothingPhantom` (a task looks alive exactly while its worker works), `NoAnswerMissed` (a
paused worker has read everything), `NoIdleSlot` and `FirstComeFirstServed` (the queue),
`NoWorkAfterCancel` (the await a worker stands at is its last), `EveryTaskEnds`.

AgentManager: `RoutedToLiveWorker` (a registered agent has a live worker that has been healthy, unless
somebody waits for that worker to end), `PendingIsTakenUp` (a pending revision of an enabled agent has a drain
or a timer on the way), `FailedBootStaysFailed` (a failed revision turns active without a request only
if it once was healthy).

The parts:

- `PartsTypeOK`: types, and the counters of retries and recoveries within their limits.
- `HostWorkSound`, of what a worker and its tool host do for each other, their types included: an active job is watched
  by somebody who will ask again, and what its row says of its end is true of the command and known to the agent
  (`JobWatched`, `EndsAreTruthful`). A tool's call through the ingress is carried out at most once, and the answer is
  true of it (`IngressHolds`). A grant ends with its tool call, and what a cell is told of a call back is true
  (`HostCallsHold`). What flows through a tunnel arrives in order and whole, its end is told to the other side, and
  both pumps end (`TunnelHolds`).
- `RouteIsKept`: traffic goes to the connection that is registered; the late end of a replaced one does not
  take the route away. `ConnectedIsReachable`: a peer that believes itself connected is, or learns better.
- `Lawful`: no sequence of patches, rollbacks, seeds and webhooks gets round the operator's policy.
  `AppliedOnce`: a request id is carried out once.
- `StreamKept`: replay, flush and live events together skip nothing, repeat nothing and keep order,
  and neither table outgrows its pruning. The position a reader begins at is never ahead of what was recorded,
  however often the agent's row was deleted and made again.
- `PassedForAReason`: a digest's cursor passes a message unshown only if its channel is in its cooldown; if its item is held,
  decided or seen; if the item is pending and so old that this digest counts it as seen (`CountedAsSeen`); or if the digest was
  cut off after a message of the very same time (`CutOffInATie`). The last two are real losses: a direct message or a
  mention that was demoted after `AUTO_SEEN`, and ties at the cursor, are never shown by a digest.
- `HeldStaysHeld`: what forge holds leaves the queue only in a turn of the agent.
- `HistoryRecoverable`: expanding the summaries gives what the conversation stands for, in order, once; the agent's tools
  show it whole and describe it truly (`ReaderHolds`); a stored message has the right flags, item and pages, or the
  repair sees to it (`MessagesHold`). Halving a batch of messages passes none over (`HalvingPassesNone`), and the pages
  of metrics, each from the cursor of the one before, show every row (`PagesShowAll`). An edit of a host file changes
  the lines it names in the version it looked at, beside a second caller's too, and an upload is some version of the file (`FilesKept`). What was
  appended to the agent's files stays, a backup is what an edit replaced, pages leave nothing out (`AgentFilesKept`).
  Closed work stays closed, and a wake is told of every current item or that there are more (`WorkKept`).
- `TurnsCarried`: each request answers every call it shows with the result of that very call, or with an invented
  one if its own was never written or was lost with the process (`RequestsAnswerCalls`). What is put together from a stream is what the model meant (`AssembledAsMeant`), and a request
  refused for its content is not repeated. The terminal shows each reply whole and in order, and its words once,
  or a second time as a whole, by its record, if what was watched was spread over several lines, mixed with other words, or joined in
  its middle (`ScreenTellsAll`). The page shows every reply and result (`PageTells`). What the model is offered of MCP can be
  called, and a server without a session is retried (`ToolsHold`). A worker runs on what its revision means, and a
  redacted view that is sent back changes nothing (`SettingsHold`).
- `IndexTruthful`: a vector belongs to its chunk's text, and a sync that ran alone leaves the index equal to the files.
- `RemindersKept`: no reminder is lost over shutdowns and downtimes, early or doubled, and a repeating one keeps its rhythm.
- `EveryCellAnswered`, `CompletionEnds`: liveness of Python cells and of completions; the latter with the backfill that gets
  past what the provider refuses (`BacklogDrains`) and the MCP server that answers and lends its tools in the end
  (`ReachableIsOffered`).

Every property has a faulty variant of the code that breaks it under the run's own bounds, listed
in PROJECT.json.

## Where the code differs from what is said of it

- `NoTurnAfterShutdown`: the loop is said to run "until the agent rests or shutdown is requested"; a
  shutdown requested during a compaction or a checkpoint saves at once, and the loop takes another turn.
- `PausedWhileAsking`: a worker is told that it "will pause until a collaborator answers"; an instruction sent
  while it was thinking, before the question, ends the pause.
- `CrashRecovers`: a test promises that "a post-health crash recovers". `onReady` compares the revision the
  supervisor was created with to the desired one, and a revision that was applied without a new
  worker has moved on: the restarted worker is healthy and never registered.
- `ApplyingHasWorker`: the documentation asks to repeat a request that timed out. A repetition while
  `replaceLocal` waits for the old worker makes the replacement stale, and the next
  reconciliation takes the revision for attempted: the agent is left enabled, applying and without a worker.
- `RecalledOncePerTurn`: recall is said to run "only on the first step of a turn"; nothing clears
  `recall.pending` after a completion, so that every model call of a turn searches again and shows the next best memories.

Six more claims are stated as properties of the modules, each refuted by TLC when it is checked, though no run
of the list does. `Transcript.TailSelfContained`: a compaction's tail may begin with the result of a
call it cut off (the repair hides it from the provider). `Providers.FailoverShared`:
`loop-completion.ts:484-487` says that the sets share their failover; each has its own memory.
`DiscordInbox.SparedResurfaces`: an item spared because its channel is in its cooldown is taken for
seen by the first digest after the window opens, without having been shown. `Transcript.FailuresAnswered`:
`tools.ts:139`
says that every failure path writes a message; the error of a call whose id an earlier turn used is
not written, because that turn's result is taken for its answer. `ChatView.NeverRepeated`: `chat.tsx:137` keeps replies
that were watched because "its log record would repeat it", and `screens.test.ts:218` says that "the record of a reply we watched
stream is not repeated"; it is after a retry, or when text and thinking alternate, since the comparison is with the line
written last. `FileTools.NoNewlineAdded`: `hashline.ts:37-38` says that editing a file without a final newline
"never adds one"; an edit that replaces the last line by lines of which the last is blank does.

Behaviours the models show, which no text of the repository contradicts:

- Jobs: a termination whose call is lost leaves its job `cancelling`, as does one during a start
  that fails; a session that overflowed its output is never removed from the host and is polled
  for ever; a final answer that is lost makes the job `lost`, a start answer that is lost makes it `failed` while its
  shell lives; the branch of `process-jobs.ts:193-197` is unreachable.
- Links: stopping and starting a local agent makes a new tunnel that its client, still connected, is
  not attached to; every edit of a remote agent unregisters it until it dials again.
- Events: the row of an agent whose worker ended is gone, so that a registration, and with it the next stream of a page, begins at
  `last_seq` 0; a listing that returns late overwrites what the stream has brought; a stream that ended is
  not opened again; a replay stops at 500 rows; the pruning counters begin anew with each process;
  events without a number share one row of the mirror; the mirror has a gap for the time the worker was not reached.
- Memory: a file removed during a sync, or a foreign key that fails, rejects the sync of the session's
  recall; aliases are read, changed and written without a transaction (`aliases.ts:53-138`).
- Scheduler: an idle runner's `shutdown()` never sets `shutdownRequested`, and reminders that fire while
  the process is on its way out are consumed by a runner that will not live to see them.
- Store: `setEnabled` takes request ids, but its callers pass none.
- Settings: the environment of a worker keeps the number of an older revision if the newer one changes
  nothing for it; a webhook that was removed while the reference to its secret stays is brought back by
  `resolveAgentSecrets`; a webhook or posture named like a secret ("token", "env") is redacted as a whole; only
  `createWebhook` of `runtime-config.ts` tells the agent to retry with its request id.
- File tools: deleting all lines of a file that ends in a newline leaves a blank one; two overlapping edits of
  one file lose one of the changes though both answer ok; an exclusive open that times out leaves an empty file; a
  failed `write_file` removes whatever is at the path by then; a `chmod` that fails after the rename reports an
  error though the edit took place.
- The agent's files: validation looks at the piece that is written, not at the file that results; an append adds no newline before
  itself; a failed patch has replaced the backup already; an edit whose read and rename enclose an append loses
  it, though both answer ok; the uniqueness check of a patch misses overlapping occurrences.
- Streams of completions: a `<tool_call` tag cut inside its name is lost; calls in the reasoning are dropped when the
  stream also has calls; text that a failed attempt emitted is shown again by the retry.
- Terminal and page: text and thinking that alternate, a retry after some text, or a status poll while pieces are under way make
  the terminal repeat the reply after its parts; one that joins during a reply of a provider without usage
  never shows its beginning; the page sorts live thinking to the top, and may show an injected event twice.
- Discord's store: an answer or raw packet without a guild marks message and channel as direct until the
  gateway's event or a scan; the repair corrects messages but not their channel; a crash between row and item keeps a direct
  message out of the inbox until a scan; the raw packet of an unknown channel writes a channel row under the
  message's id; before `ClientReady` the raw path does not know the agent's own id.
- Index of messages: edited messages are not embedded again; a slower sync may overwrite a newer vector with older
  text; a message that the provider always refuses fails every semantic search of its channel; a vector missing
  from an answer leaves its row without one, silently.
- Metrics: a bucket that has ended has no cursor, so a request for the next page of all buckets shows it from the top; pages of
  messages skip those of the very time at which a page ended; the prompt of a response may be pruned before it.
- Work ledger: every wake with a saved session appends its text again, and the text is a snapshot.
- MCP: overlapping rounds may register a server or a name twice; two tools of one server whose names normalize to the
  same are offered twice; a failed `listTools` leaves its client open; a connection that drops later is not
  retried; a round under way when the worker stops registers afterwards.
- Archive: a pruned tool output over 4000 characters cannot be read in full by the agent's tools; a message that
  repeats word for word keeps the time it was first seen.
- Tunnels: a socket whose stream is still being opened has no listener for errors, so a reset then ends the
  control plane's process; a client that half-closes its socket loses the response; a failed side looks like a
  clean end of truncated data to the other; a far end that cannot connect ends the whole link.
- Ingress: the refusal of a body declared too long may be lost to a reset while the body is under way; a
  response the worker cuts by closing its connection leaves the caller to its own time limit; a caller that hangs
  up does not cancel the call; a 502 may be of a call that was carried out.
- Host calls: an operation past its deadline, or whose tool call is over, goes on, and is cut by a restart for a new
  configuration although readiness found it safe; a cell that starts after the server gave up on it is
  told that its grant is invalid; the 30 s limit of `urlopen` raises none of the typed errors; an expired grant is deleted
  by the first call that finds it.


## Proofs

Each module of proofs has an inductive invariant (`IInv`, or one per part), one lemma per action, and theorems of
the form `Spec => []P` or `Spec => P` that follow from it. They hold for every value of the constants under the
assumptions named in the modules: `RunnerAssumption` and `ResolverAssumption`, `ConversationAssumption` (a
saved conversation is not the absence of a file), `DelegationAssumption`, `AgentManagerAssumption` and those of
the parts. They say that bounds are numbers, that `none` is nobody's identity, and that the sets of tasks and of
Discord messages are finite.

- `RunnerProofs`: `TypeCorrect`, `WaiterMissesNothing`, `OffMeansNothingQueued`, `RequestsAreAnswered`,
  `AcceptedEventsAreKept`, `InductiveInvariant`. The properties are not inductive because the flags are
  assigned far from each other; `Control` says what they are at every await: which phases a turn
  and a tool are in flight in, when the resolver and the wake event are set, when the deferred
  queue is empty, and how many calls are still unanswered. `RequestsAreAnswered` is
  `AllCallsAnswered`, ids that repeat included: `Control` counts the mistaken calls apart from those that are still to be made.
- What the files keep is a second invariant on top of it, `FilesInv`: a session file never holds more than the
  conversation that was resumed from it and equals it after each save, and what the agent was told of is in the
  conversation during a wake cycle and in the file the next one begins with between two cycles. `IdleIsSaved`,
  `EventsAreRemembered`, `ShutdownLeavesAllSaved` and `RestKeepsEverything` follow.
- The third, `LineInv`, is about places: each accepted event is queued, in hand or served, in one of them only,
  and what a flush of the deferred events would leave in `pendingInputs` is in the order of the contract.
  `NoEventServedTwice` and the refinement `ImplementsInbox` follow: every step of `Runner` is one of `Inbox` or none.
- `DelegationProofs`: `TypeCorrect`, `NoPhantom`, `NoMissedAnswer`, `StopsWhenCancelled`, `NoSlotIdles`,
  `OldestFirst`, and `ImplementsTaskBoard`, the refinement. `NoMissedAnswer` assumes nothing of the mailboxes: what a paused worker
  has not read is behind a full page of newer messages (`MissedOnlyBehindAPage`), and where no page is full it has read
  every answer (`NoAnswerMissed`). `Workers` says how the status column, `activeTasks` and the await
  of a worker agree, task by task; `Queue` that creation times order the spawned tasks, without which the
  walk of `pumpQueue` has no oldest task to hand the lease to; `Lease` is the bound itself. That the set of tasks started
  by `Pump` keeps the bound is one real argument: its youngest member still fitted. That it leaves no slot idle and
  overtakes nobody is the other: a task that fits next to more workers fits next to fewer, so that one that was passed
  over does not fit after the walk (`PumpServes`), and no other step queues a task or frees a slot (`SlotsKept`).
- `AgentManagerProofs`: `TypeCorrect`, `RoutedOnlyToLive`, `NoLostRequest`, `FailedBootsStay`. `Routed` strengthens the property by
  what keeps a served supervisor from moving: it neither spawns nor has a timer (`Kept`: a set timer
  means no child). `Generations` says what a reconciliation that nobody interrupted may rely on: its revision is the
  desired one, and it has taken the row out of `pending`. Every step of a supervisor that is not
  serving is one lemma (`SupervisorMoves`), every end of a reconciliation another (`FinishingStep`). `Boots`, on top of
  them, looks for whoever could still call a failed revision active: no reconciliation under way holds it, a
  supervisor of the desired revision has its settings, and the current supervisor of a failed one was healthy once, or has
  neither a child nor a spawn under way.
- `ConfigStoreProofs`: `StoreTypeCorrect`, `KeysAppliedOnce`, `AlwaysLawful`, from `StoreAssumption`. `AppliedOnce` needs
  `Accounted`: every keyed entry of the history is remembered. One lemma (`Preserved`) says that an allowed change
  recorded under a fresh key keeps the invariant; every request is shown to be such a change.
- `LinkStreamProofs`: `LinkTypeCorrect`, `RouteAlwaysKept` of `IrohLink`, from `LinkAssumption`. `Owned` says that a route is
  that of the connection kept and that there is none while the agent is not accepted; `Undialled` that a new
  connection has had no handler. `StreamTypeCorrect`, `StreamAlwaysKept` of `EventStream`, from `StreamAssumption`, for every size of
  tail, page and pruning interval. `StreamInv` says the same of both tables (`Box`): the highest number seen is in it, and what
  is there beyond a tail was recorded since the last pruning or before a restart; of the stream (`WireInv`), that what is on
  the wire begins where the reader is, because the replay and the first live event are taken in one turn. That recording rows
  one by one keeps a table bounded is an induction over the rows (`MirroredKeeps`), for which `SetInduction` serves:
  a set of numbers that has zero and is closed under successor has them all.
- `InboxMemoryProofs`: `WokenAtMostOnce`, `HeldUntilDecided`, `UnshownForAReason` of `DiscordInbox`, from `DiscordAssumption`. What has
  woken the agent is in the database (`Kept`); the turn that sends is not over before its answer (`Answering`). The cursor stops
  at the last message that was shown, there is one if any is new (`LastExists`), and all before it fitted as well
  (`EarlierFits`), so that of what it passes unshown one of the reasons of `PassedForAReason` is left, ties included. `MemoryTypeCorrect`, `IndexStaysTruthful` of `Memory`, from `MemoryAssumption`, for any number of syncs that overlap.
  `MemoryInv` holds what a sync has in hand between two awaits: the batch it sent away has the text of every chunk
  still there, because an id is never given out again (`SyncRows`, `DocRows`), and a sync nobody disturbed has at every
  stage what the one before left (`Undisturbed`).
- `MessageIndexProofs`: `IndexTypeCorrect`, `NoMessagePassedOver` of `MessageIndex`, from `MessageIndexAssumption`, for every size
  of a batch and however often it is halved. What is left of a batch is in line (`SyncFits`): its pieces follow one another in the
  order of ids and hold every row that has no vector yet and was not left out of an answer. Halving keeps the line
  (`HalvesInLine`), and the row at which a batch fails is the first in it. Nothing takes a vector back but a change of
  model, which ends every batch (`TriedStays`). `HalvingPassesNone`, the property proved, is a conjunct of
  `HistoryRecoverable`, which a run checks.
- `ServiceProofs`: `HostCallsTypeCorrect`, `ToldTheTruth` of `HostCalls`, from `HostCallsAssumption`. A call back is taken up once, and
  the cell was told something of it before it is over (`CallsFit`); a grant lasts as long as its tool call waits, or the
  deadline has passed (`GrantLasts`). `SchedulerTypeCorrect`, `RemindersStayKept` of `Scheduler`, from `SchedulerAssumption`: a repeating
  reminder keeps its rhythm because some time within an interval from now continues it (`Rhythm`, from the arithmetic of `%` for
  any interval). `IngressTypeCorrect`, `CallersAreTold` of `HostRpcIngress`, from `IngressAssumption`: a request is forwarded only
  when its body was read to its end within the limit, only the worker it went to carries it out (`CallFollows`), and the
  refusal of a longer one comes when all of it was read (`BodyFits`, `ReplyFits`). `TunnelTypeCorrect`, `TunnelAlwaysHolds` of `Tunnel`,
  from `TunnelAssumption`, for whatever the two applications write: what was sent and what waits behind it follow, number by
  number, the chunks received, with the end behind the last unless sending failed (`Heard`, `LineFits`); a pump whose socket
  is gone has settled or its connection has ended, and one that reads no more has been stopped or has passed the end on
  (`PumpFits`); the stage of the stream says which pumps there are (`StagesFit`). The
  three claims of `TunnelHolds` follow, `GoneIsTold` by what `Heard` leaves under way when no pump has anything to do: nothing.
  `JobsTypeCorrect`, `JobsStayWatched`, `EndsStayTruthful` of `ProcessJobs`, from `JobsAssumption`. That a job is watched needs
  what its row says of the session: only a job that has one is polled, only one that has none waits for its start
  (`RowFits`). That an end is true rests on the one start there ever is: until it has reached the host nothing ran and
  nobody has been told of an end (`StartOnce`, `StartFirst`), so nothing starts the command again after one (`OrderFits`).
  `HostWorkStaysSound` puts these together, from `HostWorkAssumption`: in `HostWorkSpec`, where the four run side by
  side, `HostWorkSound` holds. They share no variable, so that no lemma beyond theirs is needed.

Model-checked only: the liveness properties (out of the prover's reach, as is `ENABLED`), and the three invariants in
which `MCParts` puts together what it says of the parts it instantiates: `PartsTypeOK`, `HistoryRecoverable`,
`TurnsCarried`. That module reaches `ArchiveReader`, whose recursive operators keep a theorem out of it. Their conjuncts rest
on folds and filters over sequences (`RequestsAnswerCalls`, `HistoryUnfolds`, `AssembledAsMeant`, `FilesKept`, `AgentFilesKept`),
on recursion (`ReaderHolds`), or have no proof yet (`WorkKept`, `ToolsHold`, `SettingsHold`, `MessagesHold`,
`PagesShowAll`, `ScreenTellsAll`, `PageTells`). Every other safety property of a passing run is a theorem.

## Hazards

PROJECT.json lists what is hard to test at the line where it bites, with the properties that
would notice; two have none and say why. Further ones the models contain and allow, or leave to the
environment: a crash between the rest snapshot and the deletion of the session resumes the rested
session; a throw in `wake` before its `try` (`runner/index.ts:299`); a model that calls unavailable tools for ever
(`loop.ts:140`); a task completed whose report to the runner is lost in a crash (`manager.ts:207`); a throw of
`startConversation` before the `try` of `runTask` (`manager.ts:191`); two writers that start in the same tick (`manager.ts:99`); a worker
process that outlives its supervisor's patience (`supervisor.ts:161,165`).

## Not modelled

Database and file errors are modelled where the code handles them (saves, rest, the home
directory, file tools) and not elsewhere. Ranking, the values of embeddings, prompts, token counts, formats and
layout are data rather than control. Of the terminal and the web page only what they show of a turn is
modelled; of the routes of both servers those that change state. One-off scripts are left out
(`scripts/recover-compaction.ts` imports a file that does not exist), as are the duplicates in
`runner/util.ts` and `loop-completion.ts` that nothing calls, output archives and local helpers of the Python
kernel, threads of Discord, aliases of memory, and the file of seeds. Iroh, HTTP, SQLite, Discord, MCP and the
model providers are external: only how the source uses them appears.
