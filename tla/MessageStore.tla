----------------------------- MODULE MessageStore -----------------------------
(***************************************************************************)
(* What the agent keeps of Discord: the tables of channels, messages and   *)
(* inbox items (discord/db.ts), fed from four sides that know different    *)
(* things of one message: the raw gateway packet, the gateway's message    *)
(* event (gateway.ts), the answer to a message of the agent's own, which    *)
(* may name no guild, and the scan of a channel (state.ts).  The digest      *)
(* repairs the flags before it reads, and backread pages through a channel  *)
(* meanwhile.  The cursor of the digest, forge and the statuses that the     *)
(* agent gives inbox items are in DiscordInbox.                             *)
(*                                                                         *)
(* Messages are numbered in the order in which Discord took them, as their  *)
(* snowflake ids are.                                                       *)
(***************************************************************************)
EXTENDS Naturals, FiniteSets, FiniteSetsExt, Sequences, SequencesExt

CONSTANTS
    Messages,       \* 1 .. n
    Where,          \* the channel of each message
    Author,         \* who wrote it
    Guild,          \* the guild of each channel, "none" for a direct one
    Configured,     \* the channels of DISCORD_SCAN_CHANNEL_IDS
    Mentions,       \* the messages that mention the agent
    Cited,          \* the message each one answers, 0 for none; the agent's choose theirs
    Whitelists,     \* what DISCORD_DM_WHITELIST may hold, {} when it is not set
    PageSize,       \* the limit of one backread
    MaxRestarts     \* bound: crashes of the process

Self == "self"
NoGuild == "none"

MessageStoreAssumption ==
    /\ IsFiniteSet(Messages) /\ Messages = 1 .. Cardinality(Messages)
    /\ Guild \in [DOMAIN Guild -> STRING] /\ Where \in [Messages -> DOMAIN Guild]
    /\ Author \in [Messages -> STRING] /\ Configured \subseteq DOMAIN Guild
    /\ Mentions \subseteq Messages /\ Cited \in [Messages -> Messages \cup {0}]
    /\ PageSize \in Nat \ {0} /\ MaxRestarts \in Nat

Channels == DOMAIN Guild
Direct(c) == Guild[c] = NoGuild
GuildOf(m) == Guild[Where[m]]
Own == {m \in Messages : Author[m] = Self}

VARIABLES
    news,       \* how far the gateway's news of each message have come
    posting,    \* own messages whose POST is not answered yet, with the item they answer
    row,        \* discord_messages: guild_id, is_dm, whether raw_json embeds the cited message
    chan,       \* discord_channels: guild_id, is_dm
    stray,      \* rows of discord_channels under the id of a message
    inbox,      \* discord_items: bucket and status
    cites,      \* the message_reference each own message went out with
    ready,      \* ClientReady came: the gateway knows the agent's own id
    reading,    \* a reading of one channel, page after page
    placed,     \* the messages whose guild the store has known
    allowed,    \* DISCORD_DM_WHITELIST
    cut,        \* the messages whose storing a crash cut short
    starts      \* bound: restarts so far

messagesVars == <<news, posting, row, chan, stray, inbox, cites, ready, reading, placed, allowed, cut, starts>>

NoRow == [there |-> FALSE, guild |-> NoGuild, dm |-> FALSE, embeds |-> FALSE]
NoChannel == [there |-> FALSE, guild |-> NoGuild, dm |-> FALSE]
NoItem == [bucket |-> "none", status |-> "none"]
NoReading == [at |-> "nowhere"]

Stored == {m \in Messages : row[m].there}
Written == {m \in Messages : news[m] # "unwritten"}
InChannel(c) == {m \in Stored : Where[m] = c}
Target(m) == IF m \in Own THEN cites[m] ELSE Cited[m]

MessagesInit ==
    /\ news = [m \in Messages |-> "unwritten"] /\ posting = [m \in {} |-> 0]
    /\ row = [m \in Messages |-> NoRow] /\ chan = [c \in Channels |-> NoChannel]
    /\ stray = {} /\ inbox = [m \in Messages |-> NoItem]
    /\ cites = [m \in Own |-> 0] /\ ready = FALSE /\ reading = NoReading
    /\ allowed \in Whitelists /\ placed = {} /\ cut = {} /\ starts = 0

---------------------------------------------------------------------------
(* A payload: the guild it names, whether it calls the message direct,      *)
(* whether it embeds the cited message, and whether its reader knows the    *)
(* agent's own id.                                                          *)
Payload(guild, dm, embeds, knows) == [guild |-> guild, dm |-> dm, embeds |-> embeds, knows |-> knows]

IsDm(p) == p.dm \/ p.guild = NoGuild
IsFromSelf(m, p) == p.knows /\ m \in Own
Ignored(m, p) == /\ IsDm(p) /\ ~IsFromSelf(m, p)
                 /\ allowed # {} /\ Author[m] \notin allowed

Coalesce(a, b) == IF a # NoGuild THEN a ELSE b

(* The row after the upsert of a channel or a message.                      *)
ChannelRow(c, guild, dm) == [there |-> TRUE, guild |-> Coalesce(guild, chan[c].guild), dm |-> dm]
MessageRow(m, p) ==
    [there |-> TRUE, guild |-> Coalesce(p.guild, row[m].guild), embeds |-> p.embeds,
     dm |-> CASE ~row[m].there -> IsDm(p)
              [] row[m].there /\ p.guild # NoGuild -> FALSE
              [] row[m].there /\ p.guild = NoGuild /\ row[m].guild # NoGuild -> row[m].dm
              [] OTHER -> IsDm(p)]

IsConfigured(c) == c \in Configured

Bucket(m, p) ==
    IF IsFromSelf(m, p) THEN "none"
    ELSE IF IsDm(p) THEN "dm"
    ELSE IF p.knows /\ m \in Mentions /\ IsConfigured(Where[m]) THEN "mention" ELSE "none"

ItemRow(m, p) ==
    IF Bucket(m, p) = "none" THEN inbox[m]
    ELSE [bucket |-> Bucket(m, p),
          status |-> IF inbox[m] = NoItem THEN "pending" ELSE inbox[m].status]

(* ingestDiscordEvent: nothing is stored of a stranger's direct message.     *)
Keep(ms, p) == {m \in ms : ~Ignored(m, p)}
StoreRows(ms, p) ==
    /\ row' = [m \in Messages |-> IF m \in Keep(ms, p) THEN MessageRow(m, p) ELSE row[m]]
    /\ placed' = placed \cup {m \in Keep(ms, p) : p.guild # NoGuild}
StoreItems(ms, p) ==
    inbox' = [m \in Messages |-> IF m \in Keep(ms, p) THEN ItemRow(m, p) ELSE inbox[m]]
StoreChannel(m, p) ==
    /\ chan' = IF Ignored(m, p) THEN chan
               ELSE [chan EXCEPT ![Where[m]] = ChannelRow(Where[m], p.guild, IsDm(p))]
    /\ UNCHANGED stray

---------------------------------------------------------------------------
Says(m) == /\ news[m] = "unwritten" /\ \A k \in 1 .. (m - 1) : k \in Written
           /\ news' = [news EXCEPT ![m] = "sent"]

Speak(m) ==
    /\ m \notin Own /\ Says(m)
    /\ UNCHANGED <<posting, row, chan, stray, inbox, cites, ready, reading, placed, allowed, cut, starts>>

Ready ==
    /\ ~ready /\ ready' = TRUE
    /\ UNCHANGED <<news, posting, row, chan, stray, inbox, cites, reading, placed, allowed, cut, starts>>

(* The raw packet, of which only direct messages are stored.  Having no      *)
(* channel object it is taken for one itself: the channel it leaves has the *)
(* message's id.                                                            *)
RawPayload(m) == Payload(NoGuild, TRUE, Target(m) # 0, ready)
RawEvent(m) ==
    /\ news[m] = "sent" /\ Direct(Where[m]) /\ news' = [news EXCEPT ![m] = "raw"]
    /\ StoreRows({m}, RawPayload(m)) /\ StoreItems({m}, RawPayload(m))
    /\ stray' = stray \cup Keep({m}, RawPayload(m))
    /\ UNCHANGED <<posting, chan, cites, ready, reading, allowed, cut, starts>>

(* The gateway's event, once the client is ready.  Its payload is built      *)
(* anew, and embeds nothing.                                                *)
Due(m) == ready /\ news[m] = IF Direct(Where[m]) THEN "raw" ELSE "sent"
EventPayload(m) == Payload(GuildOf(m), Direct(Where[m]), FALSE, TRUE)
MessageCreate(m) ==
    /\ Due(m) /\ news' = [news EXCEPT ![m] = "heard"]
    /\ StoreChannel(m, EventPayload(m)) /\ StoreRows({m}, EventPayload(m))
    /\ StoreItems({m}, EventPayload(m))
    /\ UNCHANGED <<posting, cites, ready, reading, allowed, cut, starts>>

---------------------------------------------------------------------------
(* Sending.  The item answered is the one named, or the newest that waits in *)
(* that direct channel.                                                     *)
Waiting(c) == {m \in InChannel(c) \ Own : row[m].dm /\ inbox[m].status = "pending"}
Inferred(c) == IF Waiting(c) = {} THEN 0 ELSE Max(Waiting(c))
Intervening(c, m) == {k \in InChannel(c) \ Own : k > m /\ Author[k] # Author[m]}

(* In auto mode a reply refers to a message of the channel, when somebody    *)
(* else spoke since, or it is ten minutes old.                              *)
References(c, source, mode) ==
    CASE source = 0 \/ mode = "plain" -> {0}
      [] source # 0 /\ mode = "explicit" -> {source}
      [] OTHER -> IF Where[source] # c THEN {0}
                  ELSE IF Intervening(c, source) # {} THEN {source} ELSE {0, source}

Send(m) ==
    /\ m \in Own /\ Says(m)
    /\ \E source \in Stored \cup {Inferred(Where[m])}, mode \in {"auto", "plain", "explicit"} :
          \E reference \in References(Where[m], source, mode) :
             /\ cites' = [cites EXCEPT ![m] = reference]
             /\ posting' = [k \in DOMAIN posting \cup {m} |-> IF k = m THEN source ELSE posting[k]]
    /\ UNCHANGED <<row, chan, stray, inbox, ready, reading, placed, allowed, cut, starts>>

(* The answer to the POST names the guild, or leaves it out; then the         *)
(* message and its channel are stored as direct ones.                       *)
AnswerPayload(m, guild) == Payload(guild, guild = NoGuild, Target(m) # 0, TRUE)
Answered(m, guild) ==
    /\ m \in DOMAIN posting
    /\ LET p == AnswerPayload(m, guild)
           source == posting[m] IN
          /\ StoreChannel(m, p) /\ StoreRows({m}, p)
          /\ inbox' = [k \in Messages |->
                CASE k = m -> ItemRow(m, p)
                  [] k = source /\ k # m /\ inbox[k] # NoItem -> [inbox[k] EXCEPT !.status = "acted"]
                  [] OTHER -> inbox[k]]
    /\ posting' = Restrict(posting, DOMAIN posting \ {m})
    /\ UNCHANGED <<news, cites, ready, reading, allowed, cut, starts>>

AnswerLost(m) ==
    /\ m \in DOMAIN posting /\ posting' = Restrict(posting, DOMAIN posting \ {m})
    /\ UNCHANGED <<news, row, chan, stray, inbox, cites, ready, reading, placed, allowed, cut, starts>>

---------------------------------------------------------------------------
(* Listing the channels writes the configured ones first, with no guild.     *)
Materialize ==
    /\ chan' = [c \in Channels |-> IF IsConfigured(c) THEN [chan[c] EXCEPT !.there = TRUE] ELSE chan[c]]
    /\ UNCHANGED <<news, posting, row, stray, inbox, cites, ready, reading, placed, allowed, cut, starts>>

(* A scan asks for the channel, then for its messages.                       *)
ScanChannel(c) ==
    /\ chan' = [chan EXCEPT ![c] = ChannelRow(c, Guild[c], Direct(c))]
    /\ UNCHANGED <<news, posting, row, stray, inbox, cites, ready, reading, placed, allowed, cut, starts>>

ScanPayload(c) == Payload(Guild[c], Direct(c), TRUE, TRUE)
ScanMessages(c) ==
    /\ chan[c].there
    /\ LET found == {m \in Written : Where[m] = c} IN
          /\ found # {}
          /\ StoreRows(found, ScanPayload(c)) /\ StoreItems(found, ScanPayload(c))
          /\ chan' = IF Keep(found, ScanPayload(c)) = {} THEN chan
                     ELSE [chan EXCEPT ![c] = ChannelRow(c, Guild[c], Direct(c))]
    /\ UNCHANGED <<news, posting, stray, cites, ready, reading, allowed, cut, starts>>

---------------------------------------------------------------------------
(* repairDiscordMessageChannelFlags: three updates, each of which sees what  *)
(* the ones before it left.                                                 *)
DirectRows == [m \in Messages |->
    IF row[m].there /\ row[m].guild = NoGuild THEN [row[m] EXCEPT !.dm = TRUE] ELSE row[m]]
DirectChannels == [c \in Channels |->
    IF chan[c].there /\ \E m \in InChannel(c) : DirectRows[m].guild = NoGuild /\ DirectRows[m].dm
    THEN [chan[c] EXCEPT !.dm = TRUE] ELSE chan[c]]
RepairedRows == [m \in Messages |->
    IF DirectRows[m].dm /\ DirectChannels[Where[m]].guild # NoGuild
    THEN [DirectRows[m] EXCEPT !.guild = DirectChannels[Where[m]].guild, !.dm = FALSE]
    ELSE DirectRows[m]]

Repair ==
    /\ row' = RepairedRows /\ chan' = DirectChannels
    /\ placed' = placed \cup {m \in Stored : RepairedRows[m].guild # NoGuild}
    /\ UNCHANGED <<news, posting, stray, inbox, cites, ready, reading, allowed, cut, starts>>

---------------------------------------------------------------------------
(* What a page shows of the message that m answers.                          *)
ReplyContext(m) ==
    CASE Target(m) = 0 -> "none"
      [] Target(m) # 0 /\ Target(m) \in Stored -> "stored"
      [] OTHER -> IF row[m].embeds THEN "embedded" ELSE "blank"

OpenChannel(c) ==
    /\ reading = NoReading /\ InChannel(c) # {}
    /\ reading' = [at |-> c, shown |-> <<>>, since |-> InChannel(c), done |-> FALSE]
    /\ UNCHANGED <<news, posting, row, chan, stray, inbox, cites, ready, placed, allowed, cut, starts>>

Before(shown) == IF shown = <<>> THEN Messages ELSE 1 .. (Last(shown).id - 1)
Page == LET found == SetToSortSeq(InChannel(reading.at) \cap Before(reading.shown), >)
        IN SubSeq(found, 1, Min({PageSize, Len(found)}))

ReadPage ==
    /\ reading # NoReading /\ ~reading.done
    /\ reading' = [reading EXCEPT
          !.shown = @ \o [i \in DOMAIN Page |-> [id |-> Page[i], context |-> ReplyContext(Page[i])]],
          !.done = Len(Page) < PageSize]
    /\ UNCHANGED <<news, posting, row, chan, stray, inbox, cites, ready, placed, allowed, cut, starts>>

---------------------------------------------------------------------------
(* A crash: what the gateway was about to say is not said again.  It may cut *)
(* the storing of a message short, between its row and its item.            *)
Die ==
    /\ starts < MaxRestarts /\ starts' = starts + 1
    /\ news' = [m \in Messages |-> IF news[m] \in {"sent", "raw"} THEN "lost" ELSE news[m]]
    /\ posting' = [m \in {} |-> 0] /\ ready' = FALSE /\ reading' = NoReading
    /\ UNCHANGED <<inbox, cites, allowed>>

Crash == Die /\ UNCHANGED <<row, chan, stray, placed, cut>>

CutShort(m) ==
    /\ Due(m) /\ Die
    /\ StoreChannel(m, EventPayload(m)) /\ StoreRows({m}, EventPayload(m))
    /\ cut' = cut \cup {m}

MessagesNext ==
    \/ \E m \in Messages : \/ Speak(m) \/ RawEvent(m) \/ MessageCreate(m) \/ Send(m)
                           \/ AnswerLost(m) \/ CutShort(m)
                           \/ \E guild \in {NoGuild, GuildOf(m)} : Answered(m, guild)
    \/ \E c \in Configured : ScanChannel(c) \/ ScanMessages(c)
    \/ \E c \in Channels : OpenChannel(c)
    \/ Ready \/ Materialize \/ Repair \/ ReadPage \/ Crash

MessagesSpec == MessagesInit /\ [][MessagesNext]_messagesVars

---------------------------------------------------------------------------
MessagesTypeOK ==
    /\ news \in [Messages -> {"unwritten", "sent", "raw", "heard", "lost"}]
    /\ DOMAIN posting \subseteq Own /\ \A m \in DOMAIN posting : posting[m] \in Stored \cup {0}
    /\ \A m \in Messages : row[m].there \in BOOLEAN /\ row[m].dm \in BOOLEAN
    /\ \A c \in Channels : chan[c].there \in BOOLEAN /\ chan[c].dm \in BOOLEAN
    /\ stray \subseteq Stored /\ ready \in BOOLEAN /\ starts \in 0 .. MaxRestarts

(* A row tells direct messages from those of a guild, names no guild but the *)
(* channel's, and forgets no guild it has known, whichever of the four       *)
(* sources stored it last.                                                  *)
FlagsFit ==
    \A m \in Stored : /\ row[m].guild \in {NoGuild, GuildOf(m)}
                      /\ row[m].dm <=> row[m].guild = NoGuild
                      /\ m \in placed => row[m].guild = GuildOf(m)

(* After a repair no message of a channel whose guild is known passes for a  *)
(* direct one, and no direct message for one of a guild.                    *)
RepairMends ==
    \A m \in Stored : /\ RepairedRows[m].dm => chan[Where[m]].guild = NoGuild
                      /\ ~RepairedRows[m].dm => ~Direct(Where[m]) /\ RepairedRows[m].guild = GuildOf(m)

(* The inbox files nothing under the wrong bucket although an answer calls    *)
(* the agent's own message in a guild a direct one, holds nothing without a  *)
(* row to show, and misses no direct message that was stored unless a crash  *)
(* cut its storing short.                                                   *)
InboxFits ==
    \A m \in Messages :
       /\ inbox[m].bucket = "dm" => Direct(Where[m])
       /\ inbox[m].bucket = "mention" => ~Direct(Where[m]) /\ m \notin Own
       /\ inbox[m] # NoItem => m \in Stored
       /\ m \in Stored \ Own /\ Direct(Where[m]) => inbox[m] # NoItem \/ m \in cut

(* Pages read one after the other show every message that was there at the   *)
(* start, newest first and once, while others are stored.                   *)
BackreadComplete ==
    reading # NoReading =>
       /\ \A i, j \in DOMAIN reading.shown : i < j => reading.shown[i].id > reading.shown[j].id
       /\ \A m \in reading.since :
             reading.done \/ (reading.shown # <<>> /\ m >= Last(reading.shown).id)
                => \E i \in DOMAIN reading.shown : reading.shown[i].id = m

MessagesHold == FlagsFit /\ RepairMends /\ InboxFits /\ BackreadComplete
===============================================================================
