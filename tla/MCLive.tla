-------------------------------- MODULE MCLive ---------------------------------
(***************************************************************************)
(* The parts that owe somebody an answer, each on its own, as in MCParts:   *)
(* some under the fairness of their timers and of the event loop, for what  *)
(* must happen in the end; those of HostWork for what is true of an answer. *)
(***************************************************************************)
EXTENDS HostWork, TLC

CONSTANTS Components,       \* the parts a run looks at
          c1, c2, t1, k1    \* model values

VARIABLES part,
    cells, chain, got, late, child, failed, kid, sent, offered, caller,
    role, dialled, up, handler, ingress, kept, route, accepts, reconciled, peer, overtaken,
    banned, circuit, completion, digest, boots,
    text, vector, model, syncing, found, rejected, omitted, trouble,
    boot, pending, retrying, round, sessions, lent, owner, invalid, answering, overlapped

kernelVars == <<cells, chain, got, late, child, failed, kid, sent, offered, caller>>
linkVars == <<role, dialled, up, handler, ingress, kept, route, accepts, reconciled, peer, overtaken>>
providerVars == <<banned, circuit, completion, digest, boots>>
indexVars == <<text, vector, model, syncing, found, rejected, omitted, trouble>>
mcpVars == <<boot, pending, retrying, round, sessions, lent, owner, invalid, answering, overlapped>>
vars == <<part, kernelVars, linkVars, providerVars, indexVars, mcpVars,
          jobVars, hostCallsVars, ingressVars, tunnelVars>>

---------------------------------------------------------------------------
OneEach == [near |-> 1, far |-> 1]                          \* chunks of each side of a tunnel
NamesListed == [a |-> <<<<"x">>, <<"y", "y">>>>, b |-> <<<<"z">>>>]

Kernel == INSTANCE PythonKernel WITH Cells <- {c1, c2}, Resets <- {c2}, MaxKids <- 3,
    cell <- cells
Link == INSTANCE IrohLink WITH MaxConns <- 3, MaxEdits <- 2, edits <- reconciled
Models == INSTANCE Providers WITH Turn <- {t1}, Task <- {k1}, HasFallback <- TRUE, HasSummary <- FALSE,
    Compacting <- {"main"}, MaxRetries <- 1, MaxRecoveries <- 1, MaxRestarts <- 0, run <- completion
Index == INSTANCE MessageIndex WITH Rows <- {1, 2}, Channel <- {2}, Poisons <- {{}, {2}},
    BatchSize <- 3, CatchUp <- 2, Edited <- {2}, MaxFaults <- 1, MaxModels <- 2,
    batch <- syncing, refused <- rejected
Lent == INSTANCE McpTools WITH Servers <- <<"a", "b">>, Mistakes <- {{}, {"b"}}, Rounds <- 2,
    Pages <- NamesListed, phase <- boot, offered <- lent

ASSUME /\ HostWorkAssumption /\ Kernel!KernelAssumption /\ Link!LinkAssumption /\ Models!ProvidersAssumption
       /\ Index!MessageIndexAssumption /\ Lent!McpAssumption

---------------------------------------------------------------------------
LiveInit == /\ part \in Components
            /\ Kernel!Init /\ Link!LinkInit /\ (part # "link" => role = "worker") /\ Models!Init
            /\ Index!IndexInit /\ (part # "index" => rejected = {})
            /\ Lent!McpInit /\ (part # "mcp" => invalid = {})
            /\ JobsInit /\ HostCallsInit /\ TunnelInit
            /\ IngressInit /\ (part # "hostrpc" => registered = 0)

(* The parts other than p stand still. *)
Others(p) ==
    /\ UNCHANGED part
    /\ IF p = "kernel" THEN TRUE ELSE UNCHANGED kernelVars
    /\ IF p = "link" THEN TRUE ELSE UNCHANGED linkVars
    /\ IF p = "models" THEN TRUE ELSE UNCHANGED providerVars
    /\ IF p = "index" THEN TRUE ELSE UNCHANGED indexVars
    /\ IF p = "mcp" THEN TRUE ELSE UNCHANGED mcpVars
    /\ IF p = "jobs" THEN TRUE ELSE UNCHANGED jobVars
    /\ IF p = "hostcalls" THEN TRUE ELSE UNCHANGED hostCallsVars
    /\ IF p = "hostrpc" THEN TRUE ELSE UNCHANGED ingressVars
    /\ IF p = "tunnel" THEN TRUE ELSE UNCHANGED tunnelVars

OnlyKernel == part = "kernel" /\ Kernel!Next /\ Others("kernel")
OnlyLink == part = "link" /\ Link!LinkNext /\ Others("link")
OnlyModels == part = "models" /\ Models!Next /\ Others("models")
OnlyIndex == part = "index" /\ Index!IndexNext /\ Others("index")
OnlyMcp == part = "mcp" /\ Lent!McpNext /\ Others("mcp")

OnlyJobs == part = "jobs" /\ JobsNext /\ Others("jobs")
OnlyHostCalls == part = "hostcalls" /\ HostCallsNext /\ Others("hostcalls")
OnlyHostRpc == part = "hostrpc" /\ IngressNext /\ Others("hostrpc")
OnlyTunnel == part = "tunnel" /\ TunnelNext /\ Others("tunnel")

LiveNext == \/ OnlyKernel \/ OnlyLink \/ OnlyModels \/ OnlyIndex \/ OnlyMcp
            \/ OnlyJobs \/ OnlyHostCalls \/ OnlyHostRpc \/ OnlyTunnel

(* The fairness of a part asks nothing of it while it stands still: none of *)
(* its fair actions is enabled in its initial state, but for the backfill   *)
(* and the boot of the MCP servers.                                         *)
IndexFairness == WF_vars(part = "index" /\ Index!Backfills /\ Others("index"))
McpFairness == /\ WF_vars(part = "mcp" /\ Lent!Tick /\ Others("mcp"))
               /\ \A r \in 1..2 : WF_vars(part = "mcp" /\ Lent!Step(r) /\ Others("mcp"))
LiveSpec == /\ LiveInit /\ [][LiveNext]_vars
            /\ Kernel!KernelFairness /\ Link!LinkFairness
            /\ Models!LoopFairness /\ IndexFairness /\ McpFairness

---------------------------------------------------------------------------
(* python-kernel.ts: a cell accepted is answered, whatever the interpreter does.*)
EveryCellAnswered == Kernel!EveryCellAnswered
(* iroh.ts, iroh-link.ts: a worker that believes itself connected is routed to,*)
(* or learns that it is not.                                                *)
ConnectedIsReachable == Link!ConnectedIsReachable
(* resilient.ts: recovery, retry, fail-over and ban do not feed each other. *)
(* search.ts: a batch that fails does not keep the backfill from the messages*)
(* before the one that the provider refuses.  mcp.ts: a server that answers  *)
(* lends its tools in the end, whatever the others do.                      *)
CompletionEnds == /\ Models!CompletionEnds
                  /\ part = "index" => Index!BacklogDrains
                  /\ part = "mcp" => Lent!ReachableIsOffered
===============================================================================
