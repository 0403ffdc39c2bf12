---------------------------- MODULE DiscordInbox ----------------------------
(***************************************************************************)
(* What an agent learns of Discord (niri-runtime/src/discord): messages    *)
(* arrive from the gateway, twice at times, and from scans of channels;    *)
(* each is stored, may become an inbox item and may wake the agent at      *)
(* once; the others wait for the periodic batch (server.ts), a digest the  *)
(* runner takes only while it waits.  The agent holds messages back while  *)
(* it is in forge, answers them with discord_send, or marks them.          *)
(*                                                                         *)
(* Channels without a window, and one whose cooldown window opens and      *)
(* closes.  The clock is coarse: what happens at one time may have one     *)
(* timestamp.  Texts, names, pronouns, attachments, embeddings and the     *)
(* mirrored threads are left out.                                          *)
(***************************************************************************)
EXTENDS Integers, FiniteSets

CONSTANTS
    Messages,   \* what people send, ordered by their numbers
    Kind,       \* of each: "dm", "mention" of the agent or "chat"
    Quiet,      \* those in the channel with a cooldown window
    Bypass,     \* those DISCORD_POSTURE_BYPASS lets through
    WakeOnEvent,\* DISCORD_WAKE_ON_EVENT
    AutoSeen,   \* DISCORD_PENDING_AUTO_SEEN_MINUTES, in ticks
    Interval,   \* DISCORD_BATCH_INTERVAL_MS, in ticks
    MaxMessages,\* messages a digest holds
    MaxPreview, \* pending items it previews
    MaxTime     \* bound: the clock

DiscordAssumption ==
    /\ Messages \subseteq Nat \ {0} /\ IsFiniteSet(Messages) /\ Quiet \subseteq Messages /\ Bypass \subseteq Messages
    /\ Kind \in [Messages -> {"dm", "mention", "chat"}] /\ WakeOnEvent \in BOOLEAN
    /\ {AutoSeen, Interval, MaxTime} \subseteq Nat /\ {MaxMessages, MaxPreview} \subseteq Nat \ {0}

VARIABLES
    stored,     \* discord_messages: first_seen_at, 0 for a message not stored
    item,       \* discord_items: the status of each
    cursor,     \* discord_batch_last_dispatched_at, 0 before the first digest
    posture,    \* discord_meta: the posture, and whether forge was reminded
    agent,      \* the runner: "resting", "busy" or "waiting"
    batch,      \* runDiscordBatch: "idle" or "scanning"
    sending,    \* discord_send under way: the item it answers
    clock,
    window,     \* whether the cooldown window is open
    woken,      \* how often each message has woken the agent
    told        \* what a wake or a digest has told the agent

inboxVars == <<stored, item, cursor, posture, agent, batch, sending, clock, window, woken, told>>

Statuses == {"none", "pending", "queued", "seen", "acted", "ignored"}

DiscordInit ==
    /\ stored = [m \in Messages |-> 0] /\ item = [m \in Messages |-> "none"]
    /\ cursor = 0 /\ posture = [is |-> "hearth", reminded |-> FALSE]
    /\ agent = "waiting" /\ batch = "idle" /\ sending = {} /\ clock = 1 /\ window = TRUE
    /\ woken = [m \in Messages |-> 0] /\ told = {}

Inactive(m) == m \in Quiet /\ ~window

-----------------------------------------------------------------------------
(* Arrival *)

(* ingestDiscordEvent: stored once; a DM or a mention becomes an item, and  *)
(* the status of an item that exists is left alone.                         *)
Ingested(ms) ==
    /\ stored' = [m \in Messages |-> IF m \in ms /\ stored[m] = 0 THEN clock ELSE stored[m]]
    /\ item' = [m \in Messages |->
                  IF m \in ms /\ Kind[m] # "chat" /\ item[m] = "none" THEN "pending" ELSE item[m]]

(* handleDiscordIngress.                                                    *)
InForge == posture.is = "forge"

Eligible(m) ==
    stored[m] = 0 /\ (Kind[m] # "chat" \/ (InForge /\ m \in Bypass))

Held(m) == InForge /\ m \notin Bypass /\ Eligible(m)

Wakes(m) ==
    /\ Eligible(m) /\ ~Held(m)
    /\ (Kind[m] = "dm" \/ m \in Bypass \/ ~Inactive(m))
    /\ (WakeOnEvent \/ Kind[m] = "dm" \/ (InForge /\ m \in Bypass))

Ingress(m) ==
    /\ IF Held(m)
       THEN /\ stored' = [stored EXCEPT ![m] = clock]
            /\ item' = [item EXCEPT ![m] = "queued"]
       ELSE Ingested({m})
    /\ woken' = IF Wakes(m) THEN [woken EXCEPT ![m] = @ + 1] ELSE woken
    /\ told' = IF Wakes(m) THEN told \cup {m} ELSE told
    /\ agent' = IF Wakes(m) THEN "busy" ELSE agent
    /\ UNCHANGED <<cursor, posture, batch, sending, clock, window>>

-----------------------------------------------------------------------------
(* The batch *)

(* runDiscordBatch begins only for a runner that waits, outside forge; the  *)
(* scan of the configured channels is a call that may take long or fail.    *)
BatchBegins ==
    /\ batch = "idle" /\ agent = "waiting" /\ ~InForge
    /\ batch' = "scanning"
    /\ UNCHANGED <<stored, item, cursor, posture, agent, sending, clock, window, woken, told>>

ScanFinds(m) ==
    /\ batch = "scanning" /\ Kind[m] # "dm" /\ stored[m] = 0
    /\ Ingested({m})
    /\ UNCHANGED <<cursor, posture, agent, batch, sending, clock, window, woken, told>>

BatchFails ==
    /\ batch = "scanning" /\ batch' = "idle"
    /\ UNCHANGED <<stored, item, cursor, posture, agent, sending, clock, window, woken, told>>

(* As if all that is old and open counted as seen.                          *)
Demoted_Queued ==
    [m \in Messages |->
        IF item[m] \in {"pending", "queued"} /\ AutoSeen > 0 /\ stored[m] <= clock - AutoSeen
        THEN "seen" ELSE item[m]]

(* autoDemoteStalePendingItems: an old pending item counts as seen, unless  *)
(* its channel is in its cooldown.                                          *)
Spares(m) == Inactive(m)

Demoted ==
    [m \in Messages |->
        IF item[m] = "pending" /\ AutoSeen > 0 /\ stored[m] <= clock - AutoSeen /\ ~Spares(m)
        THEN "seen" ELSE item[m]]

(* queryBatchMessages and queryBatchPendingPreview, on the items as they    *)
(* are after the demotion.                                                  *)
From == IF cursor = 0 THEN clock - Interval ELSE cursor

Recent(items) ==
    {m \in Messages : /\ stored[m] > 0 /\ stored[m] > From /\ items[m] \in {"none", "pending"}
                      /\ ~Inactive(m)}

SeenBefore(m, n) == stored[m] < stored[n] \/ (stored[m] = stored[n] /\ m < n)
First(ms, k) == {m \in ms : Cardinality({n \in ms : SeenBefore(n, m)}) < k}

Pending(items) == {m \in Messages : items[m] = "pending" /\ ~Inactive(m)}

(* Where the next digest begins; as if a digest always held everything.     *)
NextCursor_Now(truncated, last) == clock
NextCursor(truncated, last) == IF truncated THEN stored[last] ELSE clock

(* prepareDiscordBatch, the offer to the runner and, if it takes the digest,*)
(* acknowledge(): in one turn of the event loop.  What did not fit is left  *)
(* for the next digest, which begins where the last message was seen.       *)
Digest ==
    /\ batch = "scanning"
    /\ batch' = "idle"
    /\ IF InForge
       THEN UNCHANGED <<item, cursor, agent, told>>
       ELSE LET recent == First(Recent(Demoted), MaxMessages)
                last == CHOOSE m \in recent : \A n \in recent : ~SeenBefore(m, n)
                truncated == recent # Recent(Demoted)
            IN  IF recent = {} \/ agent # "waiting"
                THEN item' = Demoted /\ UNCHANGED <<cursor, agent, told>>
                ELSE \E preview \in SUBSET Pending(Demoted) :
                       /\ Cardinality(preview)
                            = IF Cardinality(Pending(Demoted)) < MaxPreview
                              THEN Cardinality(Pending(Demoted)) ELSE MaxPreview
                       /\ item' = [m \in Messages |->
                                     IF m \in recent \cup preview /\ Demoted[m] # "none"
                                     THEN "seen" ELSE Demoted[m]]
                       /\ told' = told \cup recent \cup preview
                       /\ cursor' = NextCursor(truncated, last)
                       /\ agent' = "busy"
    /\ UNCHANGED <<stored, posture, sending, clock, window, woken>>

-----------------------------------------------------------------------------
(* The agent *)

(* A turn ends with the runner waiting or resting; something else, a        *)
(* reminder or a task, begins one.                                          *)
TurnEnds ==
    /\ agent = "busy" /\ sending = {} /\ agent' \in {"waiting", "resting"}
    /\ UNCHANGED <<stored, item, cursor, posture, batch, sending, clock, window, woken, told>>

TurnBegins ==
    /\ agent # "busy" /\ agent' = "busy"
    /\ UNCHANGED <<stored, item, cursor, posture, batch, sending, clock, window, woken, told>>

(* holdPendingDiscordItems                                                  *)
HeldItems == [m \in Messages |-> IF item[m] = "pending" THEN "queued" ELSE item[m]]

(* setPosture: entering forge holds what is pending.                        *)
SetPosture(next) ==
    /\ agent = "busy" /\ next # posture.is
    /\ posture' = [is |-> next, reminded |-> FALSE]
    /\ item' = IF next = "forge" THEN HeldItems ELSE item
    /\ UNCHANGED <<stored, cursor, agent, batch, sending, clock, window, woken, told>>

(* The reminder of a long forge, once; a restart arms its timer again.      *)
Reminder ==
    /\ InForge /\ ~posture.reminded
    /\ posture' = [posture EXCEPT !.reminded = TRUE]
    /\ agent' = "busy"
    /\ UNCHANGED <<stored, item, cursor, batch, sending, clock, window, woken, told>>

(* markDiscordItem.                                                         *)
Mark(m, status) ==
    /\ agent = "busy" /\ item[m] # "none" /\ status \in {"pending", "seen", "acted", "ignored"}
    /\ item' = [item EXCEPT ![m] = status]
    /\ UNCHANGED <<stored, cursor, posture, agent, batch, sending, clock, window, woken, told>>

(* sendDiscordMessage: the item it answers is named (or a DM that waits is  *)
(* taken for it) before Discord is called; it is marked after.              *)
SendBegins(m) ==
    /\ agent = "busy" /\ sending = {} /\ item[m] # "none"
    /\ sending' = {m}
    /\ UNCHANGED <<stored, item, cursor, posture, agent, batch, clock, window, woken, told>>

SendEnds(m, posted) ==
    /\ m \in sending /\ sending' = {}
    /\ item' = IF posted THEN [item EXCEPT ![m] = "acted"] ELSE item
    /\ UNCHANGED <<stored, cursor, posture, agent, batch, clock, window, woken, told>>

-----------------------------------------------------------------------------
(* The process restarts: what is in the database remains.                   *)
Restart ==
    /\ agent' \in {"resting", "busy"} /\ batch' = "idle" /\ sending' = {}
    /\ UNCHANGED <<stored, item, cursor, posture, clock, window, woken, told>>

Tick ==
    /\ clock < MaxTime /\ clock' = clock + 1
    /\ window' \in IF Quiet = {} THEN {TRUE} ELSE BOOLEAN
    /\ UNCHANGED <<stored, item, cursor, posture, agent, batch, sending, woken, told>>

DiscordNext ==
    \/ \E m \in Messages :
         \/ Ingress(m) \/ ScanFinds(m) \/ SendBegins(m)
         \/ \E status \in Statuses : Mark(m, status)
         \/ \E posted \in BOOLEAN : SendEnds(m, posted)
    \/ BatchBegins \/ BatchFails \/ Digest \/ TurnEnds \/ TurnBegins
    \/ \E next \in {"hearth", "forge"} : SetPosture(next)
    \/ Reminder \/ Restart \/ Tick

DiscordSpec == DiscordInit /\ [][DiscordNext]_inboxVars

InboxTypeOK ==
    /\ stored \in [Messages -> 0..MaxTime] /\ item \in [Messages -> Statuses]
    /\ cursor \in 0..MaxTime /\ clock \in 1..MaxTime /\ window \in BOOLEAN
    /\ posture \in [is : {"hearth", "forge"}, reminded : BOOLEAN]
    /\ agent \in {"resting", "busy", "waiting"} /\ batch \in {"idle", "scanning"}
    /\ sending \subseteq Messages /\ woken \in [Messages -> Nat] /\ told \subseteq Messages

(* Whatever brings a message, the gateway twice, a scan of its channel, a   *)
(* restart between them, it wakes the agent at most once.                   *)
WokenOnce == \A m \in Messages : woken[m] <= 1

(* A digest moves the cursor past a message of its period without showing   *)
(* it in four cases only (discord/state.ts prepareDiscordBatch): its channel *)
(* is in its cooldown; its item is held, decided or counted as seen before;  *)
(* its item is pending and so old that this digest counts it as seen         *)
(* unshown; or the digest was cut off after a message first seen at the very *)
(* same time, for the next one asks for what is later than the cursor.       *)
CountedAsSeen(m) == item[m] = "pending" /\ AutoSeen > 0 /\ stored[m] <= clock - AutoSeen
CutOffInATie(m) == \E n \in told' : stored[n] = cursor' /\ stored[m] = cursor' /\ n < m

PassedForAReason ==
    [][\A m \in Messages :
         cursor' # cursor /\ stored[m] > 0 /\ From < stored[m] /\ stored[m] <= cursor'
            => \/ m \in told'
               \/ Inactive(m)
               \/ item[m] \in {"queued", "seen", "acted", "ignored"}
               \/ CountedAsSeen(m)
               \/ CutOffInATie(m)]_inboxVars

(* What forge holds back is never seen by the clock or by a digest: only a  *)
(* decision of the agent, in a turn, takes it from the queue.               *)
HeldStaysHeld ==
    [][\A m \in Messages :
         item[m] = "queued" /\ item'[m] # "queued" => agent = "busy"]_inboxVars

(* discord/state.ts: the pending items of a channel in its cooldown are     *)
(* spared "so they resurface when active": an item is not taken for seen    *)
(* behind the agent's back right after it was spared.                       *)
SparedResurfaces ==
    [][\A m \in Quiet :
         item[m] = "pending" /\ item'[m] = "seen" /\ batch = "scanning" /\ batch' = "idle"
            => m \in told']_inboxVars
=============================================================================
