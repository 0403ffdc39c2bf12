-------------------------- MODULE ConfigStoreProofs --------------------------
(***************************************************************************)
(* What is proved of ConfigStore, for every set of values, policies, files *)
(* and request ids and every bound on the revisions.                       *)
(*                                                                         *)
(* AppliedOnce is not inductive: that a key is fresh says something of the *)
(* history only because everything in the history is remembered            *)
(* (Accounted).  Lawful is, over the types: its third part says that the   *)
(* last entry of the history is what a change starts from.                 *)
(***************************************************************************)
EXTENDS ConfigStore, SequenceTheorems, TLAPS

Entry == [config : Configs, by : Actors, key : Keys \cup {"none"}, op : Ops]

Accounted ==
    \A i \in 1..Revision :
        history[i].key # "none" => <<history[i].key, history[i].op>> \in remembered

IInv == StoreTypeOK /\ Accounted /\ AppliedOnce /\ Lawful

-----------------------------------------------------------------------------
(* What Record does to the history and to the request ids.                  *)
LEMMA Recorded ==
    ASSUME StoreTypeOK, Revision < MaxRevs, StoreAssumption,
           NEW config \in Configs, NEW by \in Actors, NEW key \in Keys \cup {"none"},
           NEW op \in Ops, Record(config, by, key, op)
    PROVE  /\ history' \in Seq(Entry)
           /\ Len(history') = Len(history) + 1
           /\ Len(history') <= MaxRevs
           /\ \A i \in 1..Len(history) : history'[i] = history[i]
           /\ history'[Len(history) + 1] = [config |-> config, by |-> by, key |-> key, op |-> op]
           /\ remembered' \subseteq Keys \X Ops
           /\ remembered \subseteq remembered'
           /\ key # "none" => <<key, op>> \in remembered'
<1> DEFINE e == [config |-> config, by |-> by, key |-> key, op |-> op]
<1>1. e \in Entry  BY DEF Entry
<1>2. history \in Seq(Entry)  BY DEF StoreTypeOK, Entry
<1>3. history' = Append(history, e)  BY DEF Record
<1> HIDE DEF e
<1>4. /\ history' \in Seq(Entry)
      /\ Len(history') = Len(history) + 1
      /\ \A i \in 1..Len(history) : history'[i] = history[i]
      /\ history'[Len(history) + 1] = e
  BY <1>1, <1>2, <1>3, AppendProperties
<1>5. Len(history') <= MaxRevs
  BY <1>2, <1>4, LenProperties, SMT DEF Revision, StoreAssumption
<1>6. /\ remembered' \subseteq Keys \X Ops
      /\ remembered \subseteq remembered'
      /\ key # "none" => <<key, op>> \in remembered'
  BY DEF Record, Remember, StoreTypeOK
<1> QED  BY <1>4, <1>5, <1>6 DEF e

(* Accounted and AppliedOnce survive an entry whose key was fresh.          *)
LEMMA RecordedOnce ==
    ASSUME StoreTypeOK, Accounted, AppliedOnce, Revision < MaxRevs, StoreAssumption,
           NEW config \in Configs, NEW by \in Actors, NEW key \in Keys \cup {"none"},
           NEW op \in Ops, Record(config, by, key, op), Fresh(key, op)
    PROVE  Accounted' /\ AppliedOnce'
<1>1. Len(history) \in Nat /\ history \in Seq(Entry)  BY LenProperties DEF StoreTypeOK, Entry
<1> DEFINE n == Len(history)
<1>0. /\ Len(history') = Len(history) + 1
      /\ \A i \in 1..Len(history) : history'[i] = history[i]
      /\ history'[Len(history) + 1] = [config |-> config, by |-> by, key |-> key, op |-> op]
      /\ remembered \subseteq remembered'
      /\ key # "none" => <<key, op>> \in remembered'
  BY Recorded, Zenon
<1>2. /\ Len(history') = n + 1
      /\ \A i \in 1..n : history'[i] = history[i]
      /\ history'[n + 1].key = key /\ history'[n + 1].op = op
      /\ remembered \subseteq remembered'
      /\ key # "none" => <<key, op>> \in remembered'
  BY <1>0
<1>3. \A i \in 1..(n + 1) : i \in 1..n \/ i = n + 1  BY <1>1
<1>4. Accounted'
  <2> SUFFICES ASSUME NEW i \in 1..(n + 1), history'[i].key # "none"
               PROVE  <<history'[i].key, history'[i].op>> \in remembered'
    BY <1>2 DEF Accounted, Revision
  <2>1. CASE i \in 1..n  BY <2>1, <1>2 DEF Accounted, Revision
  <2>2. CASE i = n + 1  BY <2>2, <1>2
  <2> QED  BY <1>3, <2>1, <2>2
<1>5. AppliedOnce'
  <2> SUFFICES ASSUME NEW i \in 1..(n + 1), NEW j \in 1..(n + 1), history'[i].key # "none",
                      history'[i].key = history'[j].key, history'[i].op = history'[j].op
               PROVE  i = j
    BY <1>2 DEF AppliedOnce, Revision
  <2>0. \A k \in 1..n : history[k].key # "none" => <<history[k].key, history[k].op>> # <<key, op>>
    BY DEF Accounted, Revision, Fresh
  <2>1. CASE i \in 1..n /\ j \in 1..n  BY <2>1, <1>2 DEF AppliedOnce, Revision
  <2>2. CASE i \in 1..n /\ j = n + 1  BY <2>0, <2>2, <1>2
  <2>3. CASE i = n + 1 /\ j \in 1..n  BY <2>0, <2>3, <1>2
  <2>4. CASE i = n + 1 /\ j = n + 1  BY <2>4
  <2> QED  BY <1>3, <2>1, <2>2, <2>3, <2>4
<1> QED  BY <1>4, <1>5

(* What a change of an existing configuration must satisfy for the new      *)
(* revision to be lawful.                                                   *)
Allowed(by, after) ==
    by = "agent" =>
        /\ after.policy = row.config.policy
        /\ after.knob # row.config.knob => row.config.policy.open
        /\ after.hook # row.config.hook => row.config.hook = 0 /\ row.config.policy.hooks

Rows == [config : Configs, enabled : BOOLEAN, state : States, active : 0..MaxRevs,
         seed : SUBSET Files, enforced : Values \cup {"none"}]

(* An allowed change that keeps what is enforced, recorded under a fresh    *)
(* key, keeps the invariant; so does the change that creates the agent.     *)
LEMMA Preserved ==
    ASSUME IInv, StoreAssumption, Revision < MaxRevs,
           NEW config \in Configs, NEW by \in Actors, NEW key \in Keys \cup {"none"},
           NEW op \in Ops, Record(config, by, key, op), Fresh(key, op),
           row' \in Rows, row'.config = config, row'.state # "active",
           row'.enforced # "none" => config.knob = row'.enforced,
           Exists => Allowed(by, config)
    PROVE  IInv'
<1> DEFINE n == Len(history)
<1> USE DEF IInv
<1>1. n \in Nat /\ history \in Seq(Entry)  BY LenProperties DEF StoreTypeOK, Entry
<1>2. /\ history' \in Seq(Entry)
      /\ Len(history') = Len(history) + 1
      /\ Len(history') <= MaxRevs
      /\ \A i \in 1..Len(history) : history'[i] = history[i]
      /\ history'[Len(history) + 1] = [config |-> config, by |-> by, key |-> key, op |-> op]
      /\ remembered' \subseteq Keys \X Ops
  BY Recorded, Zenon
<1>3. StoreTypeOK'  BY <1>2 DEF StoreTypeOK, Rows, Entry
<1>4. Accounted' /\ AppliedOnce'  BY RecordedOnce, Zenon
<1>5. Lawful'
  <2>1. Revision' = n + 1 /\ Exists'  BY <1>1, <1>2 DEF Revision, Exists
  <2>2. history'[n + 1].config = config /\ history'[n + 1].by = by  BY <1>2
  <2>3. SUFFICES ASSUME NEW i \in 2..(n + 1), history'[i].by = "agent"
                 PROVE  /\ history'[i].config.policy = history'[i - 1].config.policy
                        /\ history'[i].config.knob # history'[i - 1].config.knob
                             => history'[i - 1].config.policy.open
                        /\ history'[i].config.hook # history'[i - 1].config.hook
                             => /\ history'[i - 1].config.hook = 0
                                /\ history'[i - 1].config.policy.hooks
    BY <2>1, <2>2 DEF Lawful
  <2>4. CASE i \in 2..n
    <3>1. i \in 1..n /\ i - 1 \in 1..n  BY <1>1, <2>4
    <3>2. history'[i] = history[i] /\ history'[i - 1] = history[i - 1]  BY <1>2, <3>1
    <3> QED  BY <2>3, <2>4, <3>2 DEF Lawful, Revision
  <2>5. CASE i = n + 1
    <3>1. n > 0 /\ i - 1 = n /\ n \in 1..n  BY <1>1, <2>5
    <3>2. history'[i - 1].config = row.config
      BY <1>2, <3>1 DEF Lawful, Exists, Revision
    <3>3. Allowed(by, config)  BY <3>1 DEF Exists, Revision
    <3> QED  BY <2>2, <2>3, <2>5, <3>2, <3>3 DEF Allowed
  <2> QED  BY <1>1, <2>4, <2>5
<1> QED  BY <1>3, <1>4, <1>5

(* A step that leaves history and request ids alone.                        *)
LEMMA Untouched ==
    ASSUME IInv, UNCHANGED <<history, remembered>>, row' \in Rows,
           row'.config = row.config, row'.enforced = row.enforced,
           row'.state = "active" => row'.active = Revision
    PROVE  IInv'
<1>1. StoreTypeOK'  BY DEF IInv, StoreTypeOK, Rows
<1>2. Accounted' /\ AppliedOnce'  BY DEF IInv, Accounted, AppliedOnce, Revision
<1>3. Lawful'  BY DEF IInv, Lawful, Revision, Exists
<1> QED  BY <1>1, <1>2, <1>3 DEF IInv

-----------------------------------------------------------------------------
LEMMA Initially ==
    ASSUME StoreAssumption, Init
    PROVE  IInv
<1>1. (CHOOSE f \in Files : TRUE) \in Files  BY DEF StoreAssumption
<1>2. Files \subseteq Configs
  <2> SUFFICES ASSUME NEW f \in Files  PROVE f \in Configs  OBVIOUS
  <2> QED  BY DEF StoreAssumption, Configs
<1>3. Len(history) = 0 /\ Revision = 0 /\ ~Exists
  BY DEF Init, Revision, Exists
<1>4. history \in Seq(Entry)  BY DEF Init
<1>5. row \in Rows  BY <1>1, <1>2 DEF Init, Rows, States, StoreAssumption
<1>6. StoreTypeOK
  BY <1>3, <1>4, <1>5 DEF Init, StoreTypeOK, Rows, Entry, StoreAssumption
<1>7. Accounted /\ AppliedOnce  BY <1>3 DEF Accounted, AppliedOnce
<1>8. Lawful  BY <1>3 DEF Lawful, Init
<1> QED  BY <1>6, <1>7, <1>8 DEF IInv

(* A patch, by whoever may make it, and the rollback that is one.           *)
LEMMA Revised ==
    ASSUME IInv, StoreAssumption, NEW by \in Actors, NEW key \in Keys \cup {"none"},
           NEW op \in Ops, NEW after \in Configs, NEW expected, Fresh(key, op),
           UpdateNow(by, key, op, after, expected)
    PROVE  IInv'
<1>1. row \in Rows  BY DEF IInv, StoreTypeOK, Rows
<1>2. /\ Record(after, by, key, op) /\ Revision < MaxRevs
      /\ Permitted(by, row.config, after, row.enforced)
      /\ row' = [row EXCEPT !.config = after, !.state = "pending"]
  BY DEF UpdateNow, Revise, Room
<1>3. /\ row' \in Rows /\ row'.config = after /\ row'.state # "active"
      /\ row'.enforced = row.enforced
  BY <1>1, <1>2 DEF Rows, States
<1>4. row'.enforced # "none" => after.knob = row'.enforced
  BY <1>2, <1>3 DEF IInv, Lawful, Permitted
<1>5. Allowed(by, after)  BY <1>2 DEF Allowed, Permitted
<1> QED  BY <1>2, <1>3, <1>4, <1>5, Preserved, Zenon

(* What can be patched in, provisioned, rolled back to, seeded and merged   *)
(* is a configuration.                                                      *)
LEMMA Typed ==
    ASSUME StoreTypeOK, StoreAssumption
    PROVE  /\ row.config \in Configs
           /\ Patched \subseteq Configs
           /\ Exists /\ Room => [row.config EXCEPT !.hook = Revision + 1] \in Configs
           /\ \A i \in 1..Revision : history[i].config \in Configs
           /\ Files \subseteq Configs
           /\ \A file \in Files : Merged(file) \in Configs
<1>1. row.config \in Configs  BY DEF StoreTypeOK
<1>2. history \in Seq(Entry) /\ Revision \in Nat
  BY LenProperties DEF StoreTypeOK, Entry, Revision
<1>3. Patched \subseteq Configs
  <2> SUFFICES ASSUME NEW after \in Patched  PROVE after \in Configs  OBVIOUS
  <2> QED  BY <1>1 DEF Patched, Configs, StoreAssumption
<1>4. Exists /\ Room => [row.config EXCEPT !.hook = Revision + 1] \in Configs
  BY <1>1, <1>2 DEF Configs, Exists, Room, StoreAssumption
<1>5. \A i \in 1..Revision : history[i].config \in Configs
  <2> SUFFICES ASSUME NEW i \in 1..Revision  PROVE history[i].config \in Configs  OBVIOUS
  <2>1. history[i] \in Entry  BY <1>2, ElementOfSeq DEF Revision
  <2> QED  BY <2>1 DEF Entry
<1>6. \A file \in Files : file \in Configs
  BY DEF StoreAssumption, Configs
<1>7. \A file \in Files : Merged(file) \in Configs
  <2> SUFFICES ASSUME NEW file \in Files  PROVE Merged(file) \in Configs  OBVIOUS
  <2>1. file \in Configs  BY <1>6
  <2> QED  BY <1>1, <2>1 DEF Merged, Fields, Configs
<1> QED  BY <1>1, <1>3, <1>4, <1>5, <1>6, <1>7

-----------------------------------------------------------------------------
LEMMA Step ==
    ASSUME IInv, StoreAssumption, [Next]_storeVars
    PROVE  IInv'
<1>1. row \in Rows /\ StoreTypeOK  BY DEF IInv, StoreTypeOK, Rows
<1>2. /\ row.config \in Configs /\ Files \subseteq Configs /\ Patched \subseteq Configs
      /\ Exists /\ Room => [row.config EXCEPT !.hook = Revision + 1] \in Configs
      /\ \A i \in 1..Revision : history[i].config \in Configs
      /\ \A file \in Files : Merged(file) \in Configs
  BY <1>1, Typed
<1>3. ~Exists => Revision < MaxRevs
  <2>1. Revision \in Nat  BY LenProperties DEF IInv, StoreTypeOK, Revision
  <2> QED  BY <2>1 DEF Exists, StoreAssumption
<1>4. CASE UNCHANGED storeVars
  <2>1. row'.state = "active" => row'.active = Revision  BY <1>4 DEF storeVars, IInv, Lawful
  <2> QED  BY <1>1, <1>4, <2>1, Untouched DEF storeVars
<1>5. ASSUME NEW by \in Actors, NEW key \in Keys \cup {"none"}, NEW after \in Patched,
             NEW e \in 1..Revision, Update(by, key, after, e)
      PROVE  IInv'
  BY <1>2, <1>5, Revised DEF Update, Ops
<1>6. ASSUME NEW by \in Actors, NEW key \in Keys \cup {"none"}, NEW e \in 1..Revision,
             ProvisionWebhook(by, key, e)
      PROVE  IInv'
  <2> DEFINE after == [row.config EXCEPT !.hook = Revision + 1]
  <2>1. /\ after \in Configs /\ Record(after, by, key, "webhook.create")
        /\ Revision < MaxRevs /\ Fresh(key, "webhook.create")
        /\ row' = [row EXCEPT !.config = after, !.state = "pending"]
    BY <1>2, <1>6 DEF ProvisionWebhook, Revise, Room
  <2>2. /\ after.policy = row.config.policy /\ after.knob = row.config.knob
        /\ row.config.hook = 0 /\ (by = "agent" => row.config.policy.hooks)
    BY <1>2, <1>6 DEF ProvisionWebhook, Configs
  <2> HIDE DEF after
  <2>3. /\ row' \in Rows /\ row'.config = after /\ row'.state # "active"
        /\ row'.enforced = row.enforced
    BY <1>1, <2>1 DEF Rows, States
  <2>4. row'.enforced # "none" => after.knob = row'.enforced
    BY <2>2, <2>3 DEF IInv, Lawful
  <2>5. Allowed(by, after)  BY <2>2 DEF Allowed
  <2>6. "webhook.create" \in Ops  BY DEF Ops
  <2> QED  BY <2>1, <2>3, <2>4, <2>5, <2>6, Preserved, Zenon
<1>7. ASSUME NEW key \in Keys \cup {"none"}, NEW target \in 1..Revision, NEW e \in 1..Revision,
             Rollback(key, target, e)
      PROVE  IInv'
  BY <1>2, <1>7, Revised DEF Rollback, Ops, Actors
<1>8. ASSUME NEW key \in Keys \cup {"none"}, NEW file \in Files, NEW e \in 1..Revision,
             SeedAgain(key, file, e)
      PROVE  IInv'
  <2> DEFINE config == Merged(file)
  <2>1. /\ config \in Configs /\ Record(config, "operator", key, "seed")
        /\ Revision < MaxRevs /\ Fresh(key, "seed")
        /\ row' = [row EXCEPT !.config = config, !.state = "pending",
                              !.seed = {file}, !.enforced = Enforced(config)]
    BY <1>2, <1>8 DEF SeedAgain, Room
  <2> HIDE DEF config
  <2>2. Enforced(config) \in {"none", config.knob} /\ config.knob \in Values \cup {"none"}
    BY <2>1 DEF Enforced, Configs
  <2>3. /\ row' \in Rows /\ row'.config = config /\ row'.state # "active"
        /\ row'.enforced = Enforced(config)
    BY <1>1, <2>1, <2>2 DEF Rows, States
  <2>4. "seed" \in Ops /\ "operator" \in Actors /\ Allowed("operator", config)
    BY DEF Ops, Actors, Allowed
  <2> QED  BY <2>1, <2>2, <2>3, <2>4, Preserved
<1>9. ASSUME NEW key \in Keys \cup {"none"}, NEW file \in Files, NEW op \in Ops, ~Exists,
             Fresh(key, op), Record(file, "operator", key, op), row' \in Rows,
             row'.config = file, row'.state # "active", row'.enforced = Enforced(file)
      PROVE  IInv'
  <2>1. file \in Configs /\ "operator" \in Actors  BY <1>2 DEF Actors
  <2>2. row'.enforced # "none" => file.knob = row'.enforced  BY <1>9 DEF Enforced
  <2> QED  BY <1>3, <1>9, <2>1, <2>2, Preserved, Zenon
<1>10. ASSUME NEW key \in Keys \cup {"none"}, NEW file \in Files,
              NEW enabled \in BOOLEAN, NEW asSeed \in BOOLEAN,
              Create(key, file, enabled, asSeed)
       PROVE  IInv'
  <2>1. Enforced(file) \in Values \cup {"none"} /\ file \in Configs
    BY <1>2 DEF Enforced, Configs
  <2>2. /\ row' \in Rows /\ row'.config = file /\ row'.state # "active"
        /\ row'.enforced = Enforced(file)
    BY <1>10, <2>1 DEF Create, Rows, States, StoreAssumption
  <2>3. "create" \in Ops  BY DEF Ops
  <2> QED  BY <1>9, <1>10, <2>2, <2>3 DEF Create
<1>11. ASSUME NEW key \in Keys \cup {"none"}, NEW file \in Files, SeedFirst(key, file)
       PROVE  IInv'
  <2>1. Enforced(file) \in Values \cup {"none"} /\ file \in Configs
    BY <1>2 DEF Enforced, Configs
  <2>2. /\ row' \in Rows /\ row'.config = file /\ row'.state # "active"
        /\ row'.enforced = Enforced(file)
    BY <1>11, <2>1 DEF SeedFirst, Rows, States, StoreAssumption
  <2>3. "seed" \in Ops  BY DEF Ops
  <2> QED  BY <1>9, <1>11, <2>2, <2>3 DEF SeedFirst
<1>12. ASSUME NEW enabled \in BOOLEAN, SetEnabled(enabled)
       PROVE  IInv'
  <2>1. /\ row' \in Rows /\ row'.config = row.config /\ row'.enforced = row.enforced
        /\ row'.state # "active" /\ UNCHANGED <<history, remembered>>
    BY <1>1, <1>12 DEF SetEnabled, Rows, States
  <2> QED  BY <2>1, Untouched
<1>13. ASSUME NEW state \in {"applying", "active", "failed"}, NEW r \in 1..Revision,
              Marked(state, r)
       PROVE  IInv'
  <2>1. Revision \in 0..MaxRevs
    BY LenProperties DEF IInv, StoreTypeOK, Revision
  <2>2. /\ row' \in Rows /\ row'.config = row.config /\ row'.enforced = row.enforced
        /\ row'.state = "active" => row'.active = Revision
        /\ UNCHANGED <<history, remembered>>
    BY <1>1, <1>13, <2>1 DEF Marked, Rows, States
  <2> QED  BY <2>2, Untouched
<1> QED
  BY <1>4, <1>5, <1>6, <1>7, <1>8, <1>10, <1>11, <1>12, <1>13 DEF Next

LEMMA Inductive ==
    ASSUME StoreAssumption
    PROVE  Spec => []IInv
<1>1. Init => IInv  BY Initially
<1>2. IInv /\ [Next]_storeVars => IInv'  BY Step
<1> QED  BY <1>1, <1>2, PTL DEF Spec

-----------------------------------------------------------------------------
(* The configuration row, its history and the request ids stay within       *)
(* their types, merges of seeds and rollbacks included (config-store.ts).   *)
THEOREM StoreTypeCorrect ==
    ASSUME StoreAssumption
    PROVE  Spec => []StoreTypeOK
<1>1. IInv => StoreTypeOK  BY DEF IInv
<1> QED  BY <1>1, Inductive, PTL

(* No request id is carried out twice by the same operation, though every   *)
(* change but the first needs nothing else than the revision it read.       *)
THEOREM KeysAppliedOnce ==
    ASSUME StoreAssumption
    PROVE  Spec => []AppliedOnce
<1>1. IInv => AppliedOnce  BY DEF IInv
<1> QED  BY <1>1, Inductive, PTL

(* What the operator enforces is in force after every patch, rollback and   *)
(* seed, and no revision by the agent changes what the policy before it     *)
(* kept from the agent (policyViolation, updateNow, provisionWebhook).      *)
THEOREM AlwaysLawful ==
    ASSUME StoreAssumption
    PROVE  Spec => []Lawful
<1>1. IInv => Lawful  BY DEF IInv
<1> QED  BY <1>1, Inductive, PTL
=============================================================================
