----------------------------- MODULE ConfigStore -----------------------------
(***************************************************************************)
(* The configuration of one agent in the control plane's database          *)
(* (apps/server/src/control/config-store.ts), as the routes of             *)
(* config-routes.ts reach it: creation, patches, webhooks, rollbacks and   *)
(* seeds, each one transaction, with the policy that bounds what the agent *)
(* may edit, the values the operator enforces, and the table of request    *)
(* ids that makes a repeated request harmless.                             *)
(*                                                                         *)
(* A configuration is a knob the policy may open to the agent and the      *)
(* operator may enforce, its policy, and one webhook, the revision that    *)
(* made it; what may never change (id, home, the embedding's dimensions)   *)
(* is left out.  A request that is refused, or was carried out before,     *)
(* changes nothing, so that the actions are the requests that are carried  *)
(* out and their guards the checks.  What the parser and the fleet's       *)
(* validator refuse is no action either.                                   *)
(***************************************************************************)
EXTENDS Integers, Sequences, FiniteSets

CONSTANTS
    Values,     \* values of the knob
    Keys,       \* request ids
    Policies,   \* policies: [open, hooks, enforces : BOOLEAN]
    Files,      \* what an operator creates or seeds the agent from
    MaxRevs     \* bound: revisions

StoreAssumption ==
    /\ "none" \notin Values \cup Keys /\ MaxRevs \in Nat \ {0}
    /\ Policies \subseteq [open : BOOLEAN, hooks : BOOLEAN, enforces : BOOLEAN]
    /\ Files # {}
    /\ Files \subseteq [knob : Values \cup {"none"}, policy : Policies, hook : {0}]

VARIABLES
    row,        \* the agent's row of agent_configs
    history,    \* agent_config_revisions
    remembered  \* agent_config_idempotency: the request ids of each operation

storeVars == <<row, history, remembered>>

Actors == {"operator", "agent"}
Configs == [knob : Values \cup {"none"}, policy : Policies, hook : 0..MaxRevs]
States == {"draft", "pending", "applying", "active", "failed"}

(* enforcedValues: an enforced path needs a value.                          *)
Sound(config) == config.policy.enforces => config.knob # "none"
Enforced(config) == IF config.policy.enforces THEN config.knob ELSE "none"

Revision == Len(history)
Exists == Revision > 0
Room == Revision < MaxRevs

Init ==
    /\ row = [config |-> CHOOSE f \in Files : TRUE, enabled |-> FALSE, state |-> "draft",
              active |-> 0, seed |-> {}, enforced |-> "none"]
    /\ history = <<>> /\ remembered = {}

-----------------------------------------------------------------------------
(* idempotent: a request id is looked up before anything else is.           *)
Fresh(key, op) == <<key, op>> \notin remembered

Remember_Nothing(key, op) == UNCHANGED remembered

Remember(key, op) ==
    remembered' = IF key = "none" THEN remembered ELSE remembered \cup {<<key, op>>}

(* What every change of the configuration writes.                           *)
Record(config, by, key, op) ==
    /\ history' = Append(history, [config |-> config, by |-> by, key |-> key, op |-> op])
    /\ Remember(key, op)

Revise(config, by, key, op) ==
    /\ row' = [row EXCEPT !.config = config, !.state = "pending"]
    /\ Record(config, by, key, op)

(* As if what the operator enforces bound only the agent.                   *)
Permitted_Agent(by, before, after, enforced) ==
    by = "agent" => /\ after.policy = before.policy /\ after.hook = before.hook
                    /\ after.knob # before.knob => before.policy.open
                    /\ enforced # "none" /\ after.knob # before.knob => after.knob = enforced

(* policyViolation: what the policy in force opens to the agent, neither    *)
(* that policy nor a webhook ever; what the operator enforces, for all.     *)
Permitted(by, before, after, enforced) ==
    /\ by = "agent" => /\ after.policy = before.policy /\ after.hook = before.hook
                       /\ after.knob # before.knob => before.policy.open
    /\ enforced # "none" /\ after.knob # before.knob => after.knob = enforced

-----------------------------------------------------------------------------
(* createNow; with "seed" the file becomes the base of later seeds.         *)
Create(key, file, enabled, asSeed) ==
    /\ Fresh(key, "create") /\ ~Exists /\ Sound(file)
    /\ row' = [config |-> file, enabled |-> enabled, active |-> 0,
               state |-> IF enabled THEN "pending" ELSE "draft",
               seed |-> IF asSeed THEN {file} ELSE {}, enforced |-> Enforced(file)]
    /\ Record(file, "operator", key, "create")

(* What a patch makes of the configuration.                                 *)
Patched ==
    {[row.config EXCEPT !.knob = v] : v \in Values \cup {"none"}}
    \cup {[row.config EXCEPT !.policy = p] : p \in Policies}
    \cup {[row.config EXCEPT !.hook = 0]}

(* updateNow, by the operator or the agent, who sends the revision it saw.  *)
UpdateNow(by, key, op, after, expected) ==
    /\ Exists /\ Room /\ expected = Revision
    /\ Permitted(by, row.config, after, row.enforced)
    /\ Revise(after, by, key, op)

Update(by, key, after, expected) ==
    Fresh(key, "update") /\ UpdateNow(by, key, "update", after, expected)

(* provisionWebhook: a fresh secret under a name that is free.              *)
ProvisionWebhook(by, key, expected) ==
    /\ Fresh(key, "webhook.create") /\ Exists /\ Room /\ expected = Revision
    /\ by = "agent" => row.config.policy.hooks
    /\ row.config.hook = 0
    /\ Revise([row.config EXCEPT !.hook = Revision + 1], by, key, "webhook.create")

(* rollback: a patch that makes the configuration that of an old revision.  *)
Rollback(key, target, expected) ==
    /\ Fresh(key, "rollback") /\ target \in 1..Revision
    /\ UpdateNow("operator", key, "rollback", history[target].config, expected)

(* setEnabled, from start and stop: no new revision.                        *)
SetEnabled(enabled) ==
    /\ Exists
    /\ row' = [row EXCEPT !.enabled = enabled,
                          !.state = IF enabled THEN "pending" ELSE "draft"]
    /\ UNCHANGED <<history, remembered>>

(* lifecycle: how far a worker has got with a revision.                     *)
Marked(state, revision) ==
    /\ Exists /\ revision = Revision
    /\ row' = [row EXCEPT !.state = state,
                          !.active = IF state = "active" THEN revision ELSE @]
    /\ UNCHANGED <<history, remembered>>

(* The first seed of an agent creates it, enabled.                          *)
SeedFirst(key, file) ==
    /\ Fresh(key, "seed") /\ ~Exists /\ Sound(file)
    /\ row' = [config |-> file, enabled |-> TRUE, active |-> 0, state |-> "pending",
               seed |-> {file}, enforced |-> Enforced(file)]
    /\ Record(file, "operator", key, "seed")

(* The three-way merge of a later one: what the file changed since the last *)
(* seed is taken over, and conflicts with what was edited here, except that *)
(* what the new file enforces wins in any case.                             *)
Fields == {"knob", "policy", "hook"}
Base == IF row.seed = {} THEN row.config ELSE CHOOSE b \in row.seed : TRUE
Wins(file, f) == f = "knob" /\ file.policy.enforces

Conflicts(file) ==
    {f \in Fields : /\ file[f] # Base[f] /\ row.config[f] \notin {Base[f], file[f]}
                    /\ ~Wins(file, f)}

Merged(file) ==
    [f \in Fields |-> IF file[f] # Base[f] \/ Wins(file, f) THEN file[f] ELSE row.config[f]]

SeedAgain(key, file, expected) ==
    LET config == Merged(file)
    IN  /\ Fresh(key, "seed") /\ Exists /\ Room /\ expected = Revision
        /\ Conflicts(file) = {} /\ Sound(file) /\ Sound(config)
        /\ row' = [row EXCEPT !.config = config, !.state = "pending",
                              !.seed = {file}, !.enforced = Enforced(config)]
        /\ Record(config, "operator", key, "seed")

-----------------------------------------------------------------------------
Next ==
    \/ \E key \in Keys \cup {"none"}, e \in 1..Revision :
        \/ \E by \in Actors :
             \/ \E after \in Patched : Update(by, key, after, e)
             \/ ProvisionWebhook(by, key, e)
        \/ \E target \in 1..Revision : Rollback(key, target, e)
        \/ \E file \in Files : SeedAgain(key, file, e)
    \/ \E key \in Keys \cup {"none"}, file \in Files :
        \/ \E enabled, asSeed \in BOOLEAN : Create(key, file, enabled, asSeed)
        \/ SeedFirst(key, file)
    \/ \E enabled \in BOOLEAN : SetEnabled(enabled)
    \/ \E state \in {"applying", "active", "failed"}, r \in 1..Revision : Marked(state, r)

Spec == Init /\ [][Next]_storeVars

Ops == {"create", "update", "webhook.create", "rollback", "seed"}

StoreTypeOK ==
    /\ row \in [config : Configs, enabled : BOOLEAN, state : States, active : 0..MaxRevs,
                seed : SUBSET Files, enforced : Values \cup {"none"}]
    /\ history \in Seq([config : Configs, by : Actors, key : Keys \cup {"none"}, op : Ops])
    /\ Len(history) <= MaxRevs
    /\ remembered \subseteq Keys \X Ops

(* Whatever made a revision, a patch, a rollback to a time before, a seed:  *)
(* a value the operator enforces is the value in force, and an agent        *)
(* changed nothing but the knob, where the policy of the revision before    *)
(* left it open to it, or an absent webhook, where that policy allows it;   *)
(* and active means that the worker has the newest revision.                *)
Lawful ==
    /\ row.enforced # "none" => row.config.knob = row.enforced
    /\ row.state = "active" => row.active = Revision
    /\ Exists => row.config = history[Revision].config
    /\ \A i \in 2..Revision : history[i].by = "agent" =>
         LET before == history[i - 1].config
             after == history[i].config
         IN  /\ after.policy = before.policy
             /\ after.knob # before.knob => before.policy.open
             /\ after.hook # before.hook => before.hook = 0 /\ before.policy.hooks

(* A request id is carried out at most once per operation.                  *)
AppliedOnce ==
    \A i, j \in 1..Revision :
         /\ history[i].key # "none"
         /\ history[i].key = history[j].key /\ history[i].op = history[j].op
         => i = j
=============================================================================
