-------------------------------- MODULE MCParts --------------------------------
(***************************************************************************)
(* The parts around the runner, delegation and the agent manager.  At this  *)
(* level they share no state, so that one run looks at all of them: the     *)
(* variable part picks, once and for all, which of them moves.  ConfigStore  *)
(* and DiscordInbox are here under their own names; of the others only the   *)
(* one that moves is in a state at all, so that they take turns in the same  *)
(* variables x1, x2 and so on, in the order in which each declares its own.  *)
(***************************************************************************)
EXTENDS ConfigStore, DiscordInbox, Sequences, TLC

CONSTANTS Components,                                   \* the parts a run looks at
          c1, c2, t1, k1, reminder, alarm               \* model values

VARIABLES part,
    x1, x2, x3, x4, x5, x6, x7, x8, x9, x10, x11, x12, x13

slots == <<x1, x2, x3, x4, x5, x6, x7, x8, x9, x10, x11, x12, x13>>
named == <<storeVars, inboxVars>>
vars == <<part, named, slots>>

---------------------------------------------------------------------------
ClosedPolicy == [open |-> FALSE, hooks |-> FALSE, enforces |-> FALSE]
OpenPolicy == [ClosedPolicy EXCEPT !.open = TRUE, !.hooks = TRUE]
Enforcing == [ClosedPolicy EXCEPT !.open = TRUE, !.enforces = TRUE]
StorePolicies == {ClosedPolicy, OpenPolicy, Enforcing}
SeedFiles == {[knob |-> "none", policy |-> ClosedPolicy, hook |-> 0],
              [knob |-> "v1", policy |-> Enforcing, hook |-> 0]}
Lines == {<<"a", "b", "">>, <<"b", "", "b">>}             \* the last one ends without a newline
Replacements == {<<"">>, <<"c", "b", "">>}
ThreeKinds == <<"dm", "mention", "chat">>                   \* of the messages 1, 2 and 3
Tagged == {<<"<tool">>, <<"_call>", "f">>, <<"<tool", "_call>", "f", "</tool_call>">>,
           <<"g", "</tool_call>">>, <<"</tool_call>", "<tool">>}

NamesListed == [a |-> <<<<"x">>, <<"y", "y">>>>, b |-> <<<<"z">>>>, d |-> <<<<"x">>>>]

DelayOf == reminder :> 1 @@ alarm :> 0
EveryOf == reminder :> 0 @@ alarm :> 2

Edits == {"model.provider" :> "anthropic", "model" :> "null", "model.name" :> "v2", "model.apiKey" :> "v1",
    "discord.postures" :> "v1", "discord.postures" :> "null", "discord.batchIntervalMs" :> "v1",
    "discord.token" :> "null", "settings.DISCORD_POSTURES" :> "v2", "settings" :> "null",
    "secrets.model.apiKey" :> "file", "mcp.command" :> "v1" @@ "mcp.env" :> "v1",
    "mcp.url" :> "v1" @@ "mcp.auth" :> "v1" @@ "mcp.command" :> "null" @@ "mcp.env" :> "null",
    "webhook.header" :> "v1" @@ "secrets.webhook.secret" :> "file", "secrets" :> "null", "webhook" :> "null"}

Kernel == INSTANCE PythonKernel WITH
    Cells <- {c1, c2}, Resets <- {c2}, MaxKids <- 3,
    cell <- x1, chain <- x2, got <- x3, late <- x4, child <- x5, failed <- x6, kid <- x7,
    sent <- x8, offered <- x9, caller <- x10
Link == INSTANCE IrohLink WITH
    MaxConns <- 3, MaxEdits <- 2,
    role <- x1, dialled <- x2, up <- x3, handler <- x4, ingress <- x5, kept <- x6, route <- x7,
    accepts <- x8, edits <- x9, peer <- x10, overtaken <- x11
Stream == INSTANCE EventStream WITH
    MaxSeq <- 3, MaxWire <- 2, MaxRestarts <- 1, TailRows <- 1, PruneEvery <- 2, PageRows <- 2,
    outbox <- x1, mirror <- x2, agentRow <- x3, stream <- x4, page <- x5, load <- x6
Recalled == INSTANCE Memory WITH
    MemoryFiles <- {"f1"}, Syncers <- {"s1", "s2"}, Session <- "s1", MaxWrites <- 2, MaxIds <- 2,
    Cooldown <- 7,
    file <- x1, writes <- x2, doc <- x3, lastId <- x4, vec <- x5, meta <- x6, sync <- x7,
    recall <- x8, turn <- x9
Timers == INSTANCE Scheduler WITH
    Schedules <- {reminder, alarm}, Delay <- DelayOf, Every <- EveryOf, Limit <- 1, LastTime <- 4,
    entry <- x1, process <- x2, timer <- x3, now <- x4, reminded <- x5
Context == INSTANCE Compaction WITH
    MaxMessages <- 4, MaxNodes <- 7, MaxRestarts <- 1, Bulky <- {2}, Results <- {2},
    MinKeep <- 1, Batch <- 2,
    said <- x1, conversation <- x2, working <- x3, stage <- x4, nodes <- x5, verbatim <- x6,
    session <- x7, snapshot <- x8, restarts <- x9, past <- x10
Models == INSTANCE Providers WITH
    Turn <- {t1}, Task <- {k1}, HasFallback <- TRUE, HasSummary <- FALSE,
    Compacting <- {"main"}, MaxRetries <- 1, MaxRecoveries <- 1, MaxRestarts <- 0,
    banned <- x1, circuit <- x2, run <- x3, digest <- x4, boots <- x5
Script == INSTANCE Transcript WITH
    MaxTurns <- 2, MaxCalls <- 2, MaxRestarts <- 1, MinKeep <- 2,
    conv <- x1, stored <- x2, calls <- x3, phase <- x4, turn <- x5, request <- x6, lives <- x7,
    unwritten <- x8
HostFiles == INSTANCE FileTools WITH
    Callers <- {"x"}, Blank <- "", Texts <- Lines, Contents <- Replacements,
    Hash <- [x \in {"a", "b", "c", ""} |-> x], ChunkBytes <- 2, MaxInodes <- 3, MaxTime <- 2,
    path <- x1, inode <- x2, temp <- x3, op <- x4, anchors <- x5
BothEdit == INSTANCE FileTools WITH
    Callers <- {"x", "y"}, Blank <- "", Texts <- {<<"a", "b">>}, Contents <- {<<"c">>},
    Hash <- [x \in {"a", "b", "c", ""} |-> x], ChunkBytes <- 2, MaxInodes <- 3, MaxTime <- 2,
    path <- x1, inode <- x2, temp <- x3, op <- x4, anchors <- x5
Reading == INSTANCE CompletionStream WITH
    Wires <- {"openai", "anthropic"}, Indexes <- {1, 2}, Thoughts <- Tagged, MaxPieces <- 3,
    MaxAttempts <- 2,
    endpoint <- x1, request <- x2, attempt <- x3, meant <- x4, made <- x5, refused <- x6
View == INSTANCE ChatView WITH
    Results <- {1}, Buffer <- 2, MaxReplies <- 2, MaxPieces <- 3, MaxAttempts <- 2,
    MaxCalls <- 1, MaxWire <- 1,
    turn <- x1, recent <- x2, log <- x3, chat <- x4, poll <- x5
Store == INSTANCE MessageStore WITH
    Messages <- {1, 2, 3}, Where <- <<"g", "g", "d">>, Author <- <<"bob", "self", "ann">>,
    Guild <- [g |-> "home", d |-> "none"], Configured <- {"g"}, Mentions <- {1},
    Cited <- <<0, 0, 2>>, Whitelists <- {{}, {"bob"}}, PageSize <- 1, MaxRestarts <- 1,
    news <- x1, posting <- x2, row <- x3, chan <- x4, stray <- x5, inbox <- x6, cites <- x7,
    ready <- x8, reading <- x9, placed <- x10, allowed <- x11, cut <- x12, starts <- x13
Index == INSTANCE MessageIndex WITH
    Rows <- {1, 2, 3}, Channel <- {2, 3}, Poisons <- {{}, {2}}, BatchSize <- 3,
    CatchUp <- 2, Edited <- {2}, MaxFaults <- 1, MaxModels <- 2,
    text <- x1, vector <- x2, model <- x3, batch <- x4, found <- x5, refused <- x6,
    omitted <- x7, trouble <- x8
Settings == INSTANCE AgentSettings WITH
    Patches <- Edits, Files <- {"missing", "s1"}, MaxEdits <- 3, MaxFaults <- 1,
    config <- x1, file <- x2, worker <- x3, known <- x4, post <- x5, state <- x6,
    resolved <- x7, edits <- x8, faults <- x9
Memories == INSTANCE AgentFiles WITH
    Callers <- {1, 2}, Backed <- {1},
    Texts <- <<{<<<<"a">>, <<>>>>}, {<<<<"a">>, <<"#", "a">>>>}>>,
    Content <- <<<<<<"x">>>>, <<<<"y">>, <<>>>>>>,
    Hash <- [l \in Seq({"#", "a", "x", "y"}) |-> l], Blank <- <<>>, Targets <- {"a"},
    PageLines <- 1, MaxMarkers <- 1, MaxShown <- 2, MaxWrites <- 1,
    held <- x1, backup <- x2, call <- x3, reader <- x4, written <- x5, owed <- x6
Measured == INSTANCE Metrics WITH
    Types <- {"prompt", "memory"}, Limit <- 1, Retention <- 0, MaxRows <- 4, MaxTime <- 2,
    rows <- x1, lastRow <- x2, messages <- x3, today <- x4, reading <- x5
Ledger == INSTANCE WorkLedger WITH
    Items <- {1, 2, 3}, WakeItems <- 2, MaxTime <- 2,
    work <- x1, tick <- x2, waking <- x3
Lent == INSTANCE McpTools WITH
    Servers <- <<"a", "b", "d">>, Mistakes <- {{}, {"b"}}, Rounds <- 2, Pages <- NamesListed,
    phase <- x1, pending <- x2, retrying <- x3, round <- x4, sessions <- x5, offered <- x6,
    owner <- x7, invalid <- x8, answering <- x9, overlapped <- x10
Archive == INSTANCE ArchiveReader WITH
    Messages <- {1, 2}, Legacy <- 3, Tokens <- <<1, 2, 1>>,
    Compacted <- <<{<<1>>}, {<<2, 1>>}, {<<>>}, {<<1>>}>>, DefaultPage <- 2, MaxPage <- 2,
    Asked <- {0, 1}, MaxManifest <- 3,
    graph <- x1, seenAt <- x2, expanding <- x3
ASSUME /\ Kernel!KernelAssumption /\ Link!LinkAssumption
       /\ StoreAssumption /\ Stream!StreamAssumption /\ DiscordAssumption
       /\ Context!CompactionAssumption /\ Models!ProvidersAssumption
       /\ Script!TranscriptAssumption /\ Recalled!MemoryAssumption /\ Timers!SchedulerAssumption
       /\ HostFiles!FilesAssumption /\ Reading!StreamingAssumption /\ View!ChatAssumption
       /\ Store!MessageStoreAssumption /\ Index!MessageIndexAssumption
       /\ Settings!AgentSettingsAssumption /\ Memories!AgentFilesAssumption
       /\ Measured!MetricsAssumption /\ Ledger!WorkAssumption /\ Lent!McpAssumption
       /\ Archive!ReaderAssumption

---------------------------------------------------------------------------
(* The slots from the n-th on are free while the part needs fewer.            *)
Free12 == x12 = 0 /\ x13 = 0
Free11 == x11 = 0 /\ Free12
Free10 == x10 = 0 /\ Free11
Free9 == x9 = 0 /\ Free10
Free8 == x8 = 0 /\ Free9
Free7 == x7 = 0 /\ Free8
Free6 == x6 = 0 /\ Free7
Free4 == x4 = 0 /\ x5 = 0 /\ Free6
Free1 == x1 = 0 /\ x2 = 0 /\ x3 = 0 /\ Free4

(* One part begins, in an initial state of its own.                          *)
PartsInit ==
    /\ part \in Components
    /\ Init /\ DiscordInit
    /\ \/ part = "kernel" /\ Kernel!Init /\ Free11
       \/ part = "link" /\ Link!LinkInit /\ Free12
       \/ part = "stream" /\ Stream!StreamInit /\ Free7
       \/ part = "memory" /\ Recalled!MemoryInit /\ Free10
       \/ part = "timers" /\ Timers!SchedulerInit /\ Free6
       \/ part = "context" /\ Context!Init /\ Free11
       \/ part = "models" /\ Models!Init /\ Free6
       \/ part = "script" /\ Script!Init /\ Free9
       \/ part = "files" /\ HostFiles!FilesInit /\ Free6
       \/ part = "edits" /\ BothEdit!FilesInit /\ Free6
       \/ part = "reading" /\ Reading!StreamingInit /\ Free7
       \/ part = "view" /\ View!ChatInit /\ Free6
       \/ part = "messages" /\ Store!MessagesInit
       \/ part = "index" /\ Index!IndexInit /\ Free9
       \/ part = "settings" /\ Settings!SettingsInit /\ Free10
       \/ part = "soul" /\ Memories!AgentFilesInit /\ Free7
       \/ part = "metrics" /\ Measured!MetricsInit /\ Free6
       \/ part = "work" /\ Ledger!WorkInit /\ Free4
       \/ part = "mcp" /\ Lent!McpInit /\ Free11
       \/ part = "archive" /\ Archive!ReaderInit /\ Free4
       \/ part \in {"store", "discord"} /\ Free1

(* What stands still while a part with fewer slots moves.                    *)
Rest4 == <<part, named, x4, x5, x6, x7, x8, x9, x10, x11, x12, x13>>
Rest6 == <<part, named, x6, x7, x8, x9, x10, x11, x12, x13>>
Rest7 == <<part, named, x7, x8, x9, x10, x11, x12, x13>>
Rest9 == <<part, named, x9, x10, x11, x12, x13>>
Rest10 == <<part, named, x10, x11, x12, x13>>
Rest11 == <<part, named, x11, x12, x13>>
Rest12 == <<part, named, x12, x13>>

OnlyStore == part = "store" /\ Next /\ UNCHANGED <<part, slots, inboxVars>>
OnlyDiscord == part = "discord" /\ DiscordNext /\ UNCHANGED <<part, slots, storeVars>>
OnlyLink == part = "link" /\ Link!LinkNext /\ UNCHANGED Rest12
OnlyStream == part = "stream" /\ Stream!StreamNext /\ UNCHANGED Rest7
OnlyMemory == part = "memory" /\ Recalled!MemoryNext /\ UNCHANGED Rest10
OnlyTimers == part = "timers" /\ Timers!SchedulerNext /\ UNCHANGED Rest6
OnlyKernel == part = "kernel" /\ Kernel!Next /\ UNCHANGED Rest11
OnlyContext == part = "context" /\ Context!Next /\ UNCHANGED Rest11
OnlyModels == part = "models" /\ Models!Next /\ UNCHANGED Rest6
OnlyScript == part = "script" /\ Script!Next /\ UNCHANGED Rest9
OnlyFiles == part = "files" /\ HostFiles!FilesNext /\ UNCHANGED Rest6
OnlyEdits == part = "edits" /\ BothEdit!FilesNext /\ UNCHANGED Rest6
OnlyReading == part = "reading" /\ Reading!StreamingNext /\ UNCHANGED Rest7
OnlyView == part = "view" /\ View!ChatNext /\ UNCHANGED Rest6
OnlyMessages == part = "messages" /\ Store!MessagesNext /\ UNCHANGED <<part, named>>
OnlyIndex == part = "index" /\ Index!IndexNext /\ UNCHANGED Rest9
OnlySettings == part = "settings" /\ Settings!SettingsNext /\ UNCHANGED Rest10
OnlySoul == part = "soul" /\ Memories!AgentFilesNext /\ UNCHANGED Rest7
OnlyMetrics == part = "metrics" /\ Measured!MetricsNext /\ UNCHANGED Rest6
OnlyWork == part = "work" /\ Ledger!WorkNext /\ UNCHANGED Rest4
OnlyMcp == part = "mcp" /\ Lent!McpNext /\ UNCHANGED Rest11
OnlyArchive == part = "archive" /\ Archive!ReaderNext /\ UNCHANGED Rest4

PartsNext == \/ OnlyKernel \/ OnlyLink \/ OnlyStore \/ OnlyStream \/ OnlyDiscord
        \/ OnlyContext \/ OnlyModels \/ OnlyScript \/ OnlyMemory \/ OnlyTimers
        \/ OnlyFiles \/ OnlyEdits \/ OnlyReading \/ OnlyView \/ OnlyMessages \/ OnlyIndex
        \/ OnlySettings \/ OnlySoul \/ OnlyMetrics \/ OnlyWork \/ OnlyMcp
        \/ OnlyArchive
PartsSpec == PartsInit /\ [][PartsNext]_vars

---------------------------------------------------------------------------
(* Every part is in a state its variables are meant for: of the completion  *)
(* loop (resilient.ts), the counters of retries and recoveries within their *)
(* limits.                                                                  *)
PartsTypeOK ==
    CASE part = "kernel" -> Kernel!KernelTypeOK
      [] part = "link" -> Link!LinkTypeOK    [] part = "store" -> StoreTypeOK
      [] part = "stream" -> Stream!StreamTypeOK   [] part = "discord" -> InboxTypeOK
      [] part = "context" -> Context!ContextTypeOK [] part = "models" -> Models!ProvidersTypeOK
      [] part = "script" -> Script!TranscriptTypeOK [] part = "memory" -> Recalled!MemoryTypeOK
      [] part = "timers" -> Timers!SchedulerTypeOK
      [] part = "files" -> HostFiles!FilesTypeOK [] part = "edits" -> BothEdit!FilesTypeOK
      [] part = "reading" -> Reading!StreamingTypeOK
      [] part = "view" -> View!ChatTypeOK    [] part = "messages" -> Store!MessagesTypeOK
      [] part = "index" -> Index!IndexTypeOK [] part = "settings" -> Settings!SettingsTypeOK
      [] part = "soul" -> Memories!AgentFilesTypeOK [] part = "metrics" -> Measured!MetricsTypeOK
      [] part = "work" -> Ledger!WorkTypeOK  [] part = "mcp" -> Lent!McpTypeOK
      [] part = "archive" -> Archive!ReaderTypeOK
(* iroh.ts, iroh-link.ts: traffic goes to a registered connection, and the   *)
(* late end of a replaced one takes nothing from its successor.              *)
RouteIsKept == part = "link" => Link!RouteIsKept
(* outbox.ts, control/server.ts, App.tsx: a stream brings what it said it     *)
(* would, begins where something was recorded, and the tables are bounded.    *)
StreamKept == part = "stream" => Stream!StreamKept
(* memory/sync.ts, memory/search.ts: what a search joins belongs together, a  *)
(* sync that nobody disturbed leaves the index as the files are.              *)
IndexTruthful == part = "memory" => Recalled!IndexTruthful
(* scheduler.ts: no reminder is eaten by a shutdown or a downtime; each comes *)
(* once, not early, and one that repeats keeps its rhythm.                    *)
RemindersKept == part = "timers" => Timers!RemindersKept
(* What is kept is found again.  agent-context: what compaction removed from *)
(* the conversation is found by expanding its summaries, in order, with the  *)
(* full text in the archive; and what the agent's tools show of the archive  *)
(* is whole and truly described.  discord/db.ts: whichever source stored a   *)
(* message, its row, its inbox item and the pages that show it are right, or *)
(* the repair makes them so.  discord/search.ts: halving a batch that fails  *)
(* passes no message over.  metrics.ts: the pages of a bucket, each from the *)
(* cursor of the one before, show every row.  tools.ts: an edit changes the  *)
(* lines it names in the file it looked at and undoes no change it saw, and  *)
(* an upload is some version of the file.  agent-state-tools.ts: what was    *)
(* appended stays, a backup is what an edit replaced, pages and searches     *)
(* leave nothing out.  work-ledger.ts: closed work stays closed, and a wake  *)
(* is told of the rest.                                                      *)
HistoryRecoverable ==
    /\ part = "context" => Context!HistoryUnfolds /\ Context!ExcerptsAreArchived /\ Context!FrontierOrdered
    /\ part = "archive" => Archive!ReaderHolds
    /\ part = "messages" => Store!MessagesHold
    /\ part = "index" => Index!HalvingPassesNone
    /\ part = "metrics" => Measured!PagesShowAll
    /\ part = "files" => HostFiles!FilesKept
    /\ part = "edits" => BothEdit!FilesKept
    /\ part = "soul" => Memories!AgentFilesKept
    /\ part = "work" => Ledger!WorkKept

(* What is meant in a turn arrives.  runner/util.ts, anthropic-provider.ts:   *)
(* each request answers every tool call it shows, with the result of that    *)
(* very call, in the provider's format; and what is read of the answer's     *)
(* stream is what the model meant, while a request refused for what it       *)
(* contains is not sent again.  chat.tsx, App.tsx: the terminal shows what   *)
(* was said, in order, each reply once but for what its record prints again  *)
(* below the pieces it was watched in (SaidOnce); the page shows every reply *)
(* and every result.  mcp.ts: what the model is offered can be called, once, and  *)
(* a server without a session is retried.  agent-manager.ts, agent-config: a *)
(* worker runs on what its revision means, live changes and crashes included,*)
(* and a view of it that is sent back does no harm.                          *)
TurnsCarried ==
    /\ part = "script" => Script!RequestsAnswerCalls
    /\ part = "reading" => Reading!AssembledAsMeant /\ Reading!RefusedNotRepeated
    /\ part = "view" => View!ScreenTellsAll /\ View!PageTells
    /\ part = "mcp" => Lent!ToolsHold
    /\ part = "settings" => Settings!SettingsHold
===============================================================================
