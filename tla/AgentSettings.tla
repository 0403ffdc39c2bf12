----------------------------- MODULE AgentSettings -----------------------------
(***************************************************************************)
(* What a configuration means (agent-config/src/index.ts) and how it comes  *)
(* to be what a local worker runs on: the merge patch and its validation,    *)
(* the redacted view that clients see and may send parts of back, secrets   *)
(* that are inline or referred to, the flattening into settings              *)
(* (agentSettings), the worker's environment (local-agents.ts), and the      *)
(* choice between applying a change to the running worker and replacing it   *)
(* (hot-settings.ts, applyLive, settings-apply.ts).                         *)
(*                                                                         *)
(* A configuration is a function from the fields it sets; of each kind of    *)
(* field one or two stand for all.  Revisions, policies and their history   *)
(* are in ConfigStore; supervisors and processes are in AgentManager.        *)
(***************************************************************************)
EXTENDS Naturals, FiniteSets, Functions, TLC

CONSTANTS
    Patches,        \* the patches that clients send
    Files,          \* what the file of a secret may hold, "missing" when it is not there
    MaxEdits,       \* bound: accepted patches
    MaxFaults       \* bound: crashes, lost answers and changes of the file

Null == "null"
Redacted == "[redacted]"
Missing == "missing"

(* The fields of each block, as its parser takes them.                      *)
ModelFields == {"model.provider", "model.name", "model.apiKey"}
DiscordFields == {"discord.token", "discord.postures", "discord.batchIntervalMs"}
Remote == {"mcp.url", "mcp.auth"}
Spawned == {"mcp.command", "mcp.env"}
WebhookFields == {"webhook.header", "webhook.secret"}
Secrets == {"secrets.model.apiKey", "secrets.webhook.secret"}
Blocks ==
    [model |-> ModelFields, discord |-> DiscordFields, mcp |-> Remote \cup Spawned,
     webhook |-> WebhookFields, settings |-> {"settings.MODEL", "settings.DISCORD_POSTURES"},
     secrets |-> Secrets]
Fields == UNION {Blocks[b] : b \in DOMAIN Blocks}
Sensitive == {"model.apiKey", "discord.token", "mcp.auth", "webhook.secret"}

AgentSettingsAssumption ==
    /\ \A p \in Patches : /\ DOMAIN p \subseteq Fields \cup DOMAIN Blocks
                          /\ \A b \in DOMAIN p \cap DOMAIN Blocks : Blocks[b] \cap DOMAIN p = {}
    /\ Missing \in Files /\ MaxEdits \in Nat /\ MaxFaults \in Nat

VARIABLES
    config,     \* the configuration of the desired revision
    file,       \* the file that the references of secrets name
    worker,     \* the local worker: its environment, and what it has made of it
    known,      \* workerEnv of its supervisor
    post,       \* POST /config/apply under way: its delta, and whether it has been applied
    state,      \* application_state of the revision
    resolved,   \* what the file held when the environment was last computed
    edits, faults   \* bounds: patches and faults so far

settingsVars == <<config, file, worker, known, post, state, resolved, edits, faults>>

Empty == [k \in {} |-> Null]
Has(c, b) == DOMAIN c \cap Blocks[b] # {}
Without(c, ks) == Restrict(c, DOMAIN c \ ks)

---------------------------------------------------------------------------
(* JSON merge patch: null removes, and a block that is not an object takes   *)
(* the place of its fields.                                                 *)
Replaced(p) == DOMAIN p \cup UNION {Blocks[b] : b \in DOMAIN p \cap DOMAIN Blocks}
Merge(c, p) == RestrictValues(p, LAMBDA v : v # Null) @@ Without(c, Replaced(p))

(* parseAgentConfig: a block is an object of known fields; a webhook has a    *)
(* secret, a server of tools is reached in one way only, and nothing that a   *)
(* view hides is taken for a value.                                         *)
Signed(c) == Has(c, "webhook") =>
    DOMAIN c \cap {"webhook.secret", "secrets.webhook.secret"} # {}
Reached(c) == Has(c, "mcp") =>
    \/ DOMAIN c \cap Blocks.mcp \subseteq Remote /\ "mcp.url" \in DOMAIN c
    \/ DOMAIN c \cap Blocks.mcp \subseteq Spawned /\ "mcp.command" \in DOMAIN c
Sound(c) == DOMAIN c \subseteq Fields /\ Signed(c) /\ Reached(c) /\ \A k \in DOMAIN c : c[k] # Redacted

(* redactAgentConfig: all of the settings, the secrets, and a block with an  *)
(* env become one word each.                                                *)
Hidden(c) == {b \in {"settings", "secrets"} : Has(c, b)}
             \cup (IF "mcp.env" \in DOMAIN c THEN {"mcp"} ELSE {})
View(c) == [b \in Hidden(c) |-> Redacted]
           @@ [k \in DOMAIN c \cap Sensitive |-> Redacted]
           @@ Without(c, UNION {Blocks[b] : b \in Hidden(c)})

---------------------------------------------------------------------------
(* resolveAgentSecrets: an inline value comes before the one referred to,    *)
(* and a file that is missing leaves the field absent.                      *)
ReferredBy == "secrets.model.apiKey" :> "model.apiKey" @@ "secrets.webhook.secret" :> "webhook.secret"
Referred(c, held) ==
    IF held = Missing THEN Empty
    ELSE [k \in {ReferredBy[l] : l \in DOMAIN c \cap Secrets} |-> held]
ResolveSecrets(c, held) == Without(c, Secrets) @@ Referred(c, held)

(* agentSettings: the fields as settings, over which those of the block       *)
(* settings go.                                                             *)
Rename(c, names) == [n \in {names[k] : k \in DOMAIN c \cap DOMAIN names} |->
                        c[CHOOSE k \in DOMAIN c \cap DOMAIN names : names[k] = n]]
ModelSettings(c) ==
    IF ~Has(c, "model") THEN Empty
    ELSE IF "model.provider" \in DOMAIN c /\ c["model.provider"] = "anthropic"
    THEN "USE_ANTHROPIC" :> "true"
         @@ Rename(c, "model.name" :> "ANTHROPIC_MODEL" @@ "model.apiKey" :> "ANTHROPIC_API_KEY")
    ELSE "USE_ANTHROPIC" :> "false"
         @@ Rename(c, "model.name" :> "MODEL" @@ "model.apiKey" :> "OPENAI_API_KEY")
DiscordSettings(c) == Rename(c, "discord.token" :> "DISCORD_BOT_TOKEN"
    @@ "discord.postures" :> "DISCORD_POSTURES" @@ "discord.batchIntervalMs" :> "DISCORD_BATCH_INTERVAL_MS")
McpSettings(c) == IF Has(c, "mcp") THEN "NIRI_MCP_CONFIG" :> Restrict(c, DOMAIN c \cap Blocks.mcp) ELSE Empty
Overrides(c) == Rename(c, "settings.MODEL" :> "MODEL" @@ "settings.DISCORD_POSTURES" :> "DISCORD_POSTURES")
Settings(c) == Overrides(c) @@ ModelSettings(c) @@ DiscordSettings(c) @@ McpSettings(c)

(* buildWorkerEnvironment: what identifies the worker goes over all.         *)
Identity == "NIRI_MANAGED_WORKER" :> "true" @@ "PORT" :> "3001"
Environment(c, held) == Identity @@ Settings(ResolveSecrets(c, held))

(* settingsDelta, and the settings of which a running worker takes notice.   *)
HotSettings == {"DISCORD_POSTURES", "DISCORD_BATCH_INTERVAL_MS"}
Delta(before, after) ==
    [k \in {k \in DOMAIN before \cup DOMAIN after :
               ~(k \in DOMAIN before \cap DOMAIN after /\ before[k] = after[k])} |->
        IF k \in DOMAIN after THEN after[k] ELSE Null]

Written(env, delta) == RestrictValues(delta, LAMBDA v : v # Null) @@ Without(env, DOMAIN delta)

---------------------------------------------------------------------------
(* A worker: its environment, the cadence of its digest timer, the wording    *)
(* that Discord shows, and the settings it has read once and for all.        *)
Down == [up |-> FALSE]
Setting(env, k) == IF k \in DOMAIN env THEN env[k] ELSE "default"
Started(env) ==
    [up |-> TRUE, env |-> env, shown |-> Setting(env, "DISCORD_POSTURES"),
     cadence |-> IF "DISCORD_BOT_TOKEN" \in DOMAIN env THEN Setting(env, "DISCORD_BATCH_INTERVAL_MS") ELSE "none",
     captured |-> Without(env, HotSettings)]

(* applySettings: the environment first, then the hooks of what has changed. *)
Applied(w, delta) ==
    LET env == Written(w.env, delta)
        changed == DOMAIN Delta(w.env, env)
    IN [w EXCEPT !.env = env,
          !.shown = IF "DISCORD_POSTURES" \in changed THEN Setting(env, "DISCORD_POSTURES") ELSE @,
          !.cadence = IF "DISCORD_BATCH_INTERVAL_MS" \in changed /\ @ # "none"
                      THEN Setting(env, "DISCORD_BATCH_INTERVAL_MS") ELSE @]

NoPost == [up |-> FALSE]

SettingsInit ==
    /\ config = "model.name" :> "v1" @@ "discord.token" :> "v1" /\ file \in Files
    /\ worker = Down /\ known = Empty /\ post = NoPost /\ state = "pending"
    /\ resolved = Missing /\ edits = 0 /\ faults = 0

(* A client sends a patch, with parts of the view it has been shown.         *)
Patch(p) ==
    /\ edits < MaxEdits /\ edits' = edits + 1
    /\ Sound(Merge(config, p)) /\ config' = Merge(config, p) /\ state' = "pending"
    /\ UNCHANGED <<file, worker, known, post, resolved, faults>>

Fault == faults < MaxFaults /\ faults' = faults + 1 /\ UNCHANGED edits

FileChanges(held) ==
    /\ Fault /\ held # file /\ file' = held
    /\ UNCHANGED <<config, worker, known, post, state, resolved>>

---------------------------------------------------------------------------
(* replaceLocal: a new worker on the environment of the configuration that    *)
(* the manager holds.                                                       *)
Replace(c) ==
    /\ worker' = Started(Environment(c, file)) /\ known' = Environment(c, file)
    /\ resolved' = file /\ post' = NoPost /\ state' = "active"

(* applyLive, once the worker says that it is idle.                          *)
Reconcile ==
    /\ state = "pending" /\ ~post.up
    /\ LET delta == Delta(known, Environment(config, file)) IN
          \/ /\ worker.up /\ delta = Empty
             /\ state' = "active" /\ resolved' = file
             /\ UNCHANGED <<worker, known, post>>
          \/ /\ worker.up /\ delta # Empty /\ DOMAIN delta \subseteq HotSettings
             /\ post' = [up |-> TRUE, delta |-> delta, answered |-> FALSE]
             /\ state' = "applying" /\ resolved' = file
             /\ UNCHANGED <<worker, known>>
          \/ ~(worker.up /\ DOMAIN delta \subseteq HotSettings) /\ Replace(config)
    /\ UNCHANGED <<config, file, edits, faults>>

WorkerApplies ==
    /\ post.up /\ ~post.answered /\ worker.up
    /\ worker' = Applied(worker, post.delta) /\ post' = [post EXCEPT !.answered = TRUE]
    /\ UNCHANGED <<config, file, known, state, resolved, edits, faults>>

(* The supervisor remembers what the worker says it has applied.  If another *)
(* revision is desired by now, the worker is stopped, to be replaced.        *)
PostAnswered ==
    /\ post.up /\ post.answered /\ post' = NoPost
    /\ known' = Written(known, post.delta)
    /\ \/ state = "applying" /\ state' = "active" /\ UNCHANGED worker
       \/ state = "pending" /\ worker' = Down /\ UNCHANGED state
    /\ UNCHANGED <<config, file, resolved, edits, faults>>

(* The answer is lost, the worker is busy or has died: it is replaced.       *)
PostFails ==
    /\ post.up /\ Fault
    /\ \/ state = "applying" /\ Replace(config)
       \/ state = "pending" /\ worker' = Down /\ post' = NoPost /\ UNCHANGED <<known, resolved, state>>
    /\ UNCHANGED <<config, file>>

(* The supervisor starts a worker that died on what it remembers.            *)
WorkerDies ==
    /\ Fault /\ worker.up /\ ~post.up
    /\ worker' = Started(known)
    /\ UNCHANGED <<config, file, known, post, state, resolved>>

SettingsNext ==
    \/ \E p \in Patches : Patch(p)
    \/ \E held \in Files : FileChanges(held)
    \/ Reconcile \/ WorkerApplies \/ PostAnswered \/ PostFails \/ WorkerDies

SettingsSpec == SettingsInit /\ [][SettingsNext]_settingsVars

---------------------------------------------------------------------------
SettingsTypeOK ==
    /\ DOMAIN config \subseteq Fields /\ file \in Files /\ resolved \in Files
    /\ worker.up \in BOOLEAN /\ post.up \in BOOLEAN /\ state \in {"pending", "applying", "active"}
    /\ edits \in 0 .. MaxEdits /\ faults \in 0 .. MaxFaults

(* A worker of an active revision runs on what that revision means, field    *)
(* removed, overridden or referred to included, however many of its changes   *)
(* were applied live and whatever died meanwhile: in its environment, in what *)
(* it read once, in the cadence of its digest and in the wording it shows.   *)
InForce ==
    state = "active" /\ worker.up =>
       /\ worker.env = Environment(config, resolved)
       /\ worker = Started(worker.env)

(* The manager compares with what the worker runs on, unless an answer is      *)
(* under way.                                                               *)
KnownIsTrue == worker.up /\ ~post.up => known = worker.env

(* Whatever part of a view is sent back, it is refused or changes nothing: no *)
(* word that stands for a secret becomes one, and no block is lost.          *)
ViewsAreHarmless ==
    \A part \in SUBSET DOMAIN View(config) :
       LET after == Merge(config, Restrict(View(config), part)) IN Sound(after) => after = config

SettingsHold == InForce /\ KnownIsTrue /\ ViewsAreHarmless
===============================================================================
