---------------------------- MODULE Conversations ----------------------------
(***************************************************************************)
(* How a message finds its way from a conversation to the agent and its    *)
(* answer back (src/channels, src/weixin/weixin_channel.cpp): what each    *)
(* channel makes of an event, whom allow_from lets in, and what Send makes *)
(* of an outbound message.  An answer of the agent names the instance and  *)
(* the chat id of the message it answers and nothing else: no code in src/ *)
(* sets reply_to, and the only metadata is the typing action.              *)
(*                                                                         *)
(* Events are external: a QQ event has a kind and the ids of that kind, a  *)
(* Lark event may lack the chat id, and the Telegram library handles a     *)
(* batch of updates again when a handler throws or fetching the next batch *)
(* fails.  What it asks for next confirms the batch; what is unconfirmed   *)
(* when the process ends, the server sends to the next one.                *)
(***************************************************************************)
EXTENDS Naturals, Sequences, SequencesExt

CONSTANTS
  Events,       \* events of QQ, Lark and Weixin: see EventsAssumption
  Absent,       \* an id the event does not have
  AllowFrom,    \* allow_from_ of the instances
  Star,         \* "*"
  ChatTargets,  \* kMaxChatTargets
  Updates,      \* messages of Telegram, in order: see ConversationsAssumption
  MaxAsked,     \* bound: messages the agent has not answered yet
  MaxShown,     \* bound: Telegram messages on the bus when something fails
  Chats         \* Telegram chats

\* An event names the conversation it belongs to by the ids it has of it; no two
\* things have the same id, and a direct conversation is no channel of a guild.
QQEvents == {e \in Events : e.kind \in {"channel", "direct", "c2c", "group"}}
Ids(field) == {e[field] : e \in QQEvents} \ {Absent}
Place(api, to) == [api |-> api, to |-> to]

ASSUME EventsAssumption ==
  /\ \A e \in Events :
       CASE e.kind = "channel" -> e.home = Place("channel", e.channel)
         [] e.kind = "direct" -> e.guild # Absent => e.home = Place("direct", e.guild)
         [] e.kind = "c2c" -> e.home = Place("c2c", e.sender)
         [] e.kind = "group" -> e.home = Place("group", e.group)
         [] e.kind = "lark" -> e.home = IF e.chat # Absent THEN Place("chat_id", e.chat)
                                        ELSE Place("open_id", e.sender)
         [] e.kind = "weixin" -> e.home = Place("user", e.sender)
  /\ \A e, f \in QQEvents :
       e.kind = "channel" /\ f.kind = "direct" /\ e.channel = f.channel => e.channel = Absent
  /\ \A a, b \in {"channel", "guild", "sender", "group"} :
       a # b => Ids(a) \cap Ids(b) = {}

\* A message of Telegram has a chat, an id (0 for none), the set of names its sender's
\* id is made of (empty for a post of a channel), and may begin with "/start".  The ids
\* of a chat's messages grow.
ASSUME ConversationsAssumption ==
  /\ ChatTargets \in Nat \ {0} /\ MaxAsked \in Nat /\ MaxShown \in Nat
  /\ Updates \in Seq(ToSet(Updates))
  /\ \A i \in DOMAIN Updates : /\ Updates[i].chat \in Chats \cup {Absent}
                               /\ Updates[i].id \in Nat
                               /\ Updates[i].start \in BOOLEAN
  /\ \A i, j \in DOMAIN Updates :
       i < j /\ Updates[i].chat = Updates[j].chat /\ Updates[j].id > 0 =>
         Updates[i].id < Updates[j].id

VARIABLES
  qqTargets,    \* chat_targets_ of the QQ channel: a set of chat ids with targets
  asked,        \* messages the agent is to answer: a chat id and where it belongs
  answered,     \* the last API call for an answer: where it went, where it belongs
  lastIds,      \* last_message_ids_ of the Telegram channel
  fetched,      \* long poll: the first and the last update of the batch it has
  next,         \* the update of the batch to be handled next
  confirmed,    \* updates the server will not send again
  shown,        \* numbers of the updates on the bus, in order
  since         \* how many of them earlier processes have put there

cvars == <<qqTargets, asked, answered, lastIds, fetched, next, confirmed, shown, since>>
telegramVars == <<lastIds, fetched, next, confirmed, shown, since>>
qqVars == <<qqTargets, asked, answered>>

NoIds == [c \in Chats |-> 0]
Nowhere == [api |-> "none", to |-> Absent]

CInit ==
  /\ qqTargets = {} /\ asked = {}
  /\ answered = [went |-> Nowhere, home |-> Nowhere]
  /\ lastIds = NoIds
  /\ fetched = [first |-> 1, last |-> 0] /\ next = 1 /\ confirmed = 0
  /\ shown = <<>> /\ since = 0

----------------------------------------------------------------------------
(* ChannelBase *)

\* A sender is the set of names its id is made of: the id as a whole and, where it
\* has bars, its parts.
IsAllowed(names) ==
  AllowFrom = {} \/ Star \in AllowFrom \/ names \cap AllowFrom # {}

\* HandleMessage lets a message in for its sender or for its chat.
HandleMessage(sender, chat) == IsAllowed(sender) \/ IsAllowed({chat})

----------------------------------------------------------------------------
(* QQBot *)

FirstOf(a, b) == IF a # Absent THEN a ELSE b

\* Mutant of GroupEvent: the chat is the member, as in a private conversation.
GroupEventByMember(e) == [chat |-> e.sender, api |-> "group", to |-> e.group]

\* The four handlers: chat id, API and destination of an event.
ChannelEvent(e) == [chat |-> e.channel, api |-> "channel", to |-> e.channel]
DirectEvent(e) ==
  [chat |-> FirstOf(e.guild, e.channel), api |-> "direct", to |-> e.guild]
C2CEvent(e) == [chat |-> e.sender, api |-> "c2c", to |-> e.sender]
GroupEvent(e) == [chat |-> e.group, api |-> "group", to |-> e.group]

GatewayEvent(e) ==
  CASE e.kind = "channel" -> ChannelEvent(e)
    [] e.kind = "direct" -> DirectEvent(e)
    [] e.kind = "c2c" -> C2CEvent(e)
    [] e.kind = "group" -> GroupEvent(e)

\* RememberTarget: the entry of the chat is replaced; a full cache drops entries in
\* the order of its hash table, which may be the one just made.
Remembered(target) ==
  LET all == {t \in qqTargets : t.chat # target.chat} \cup {target}
  IN IF target.chat = Absent THEN {qqTargets}
     ELSE IF Cardinality(all) <= ChatTargets THEN {all}
     ELSE {all \ {t} : t \in all}

\* An event; the target is remembered before allow_from is asked.  Of bots only the
\* messages in channels are dropped.
QQReceive(e) ==
  /\ e.kind \in {"channel", "direct", "c2c", "group"}
  /\ e.bot => e.kind # "channel"
  /\ LET target == GatewayEvent(e) IN
       /\ qqTargets' \in Remembered(target)
       /\ asked' = IF HandleMessage({e.sender}, target.chat)
                   THEN asked \cup {[channel |-> "qqbot", chat |-> target.chat,
                                     home |-> e.home]}
                   ELSE asked
  /\ Cardinality(asked') <= MaxAsked
  /\ UNCHANGED <<answered, telegramVars>>

\* ResolveTarget and the choice of the API: a target without its id is refused.
QQTarget(chat) ==
  LET known == {t \in qqTargets : t.chat = chat /\ t.to # Absent}
  IN IF known = {} THEN Nowhere
     ELSE LET t == CHOOSE t \in known : TRUE IN [api |-> t.api, to |-> t.to]

----------------------------------------------------------------------------
(* Lark and Weixin *)

\* An event without a chat id is answered to the sender.
LarkReceive(e) ==
  /\ e.kind = "lark" /\ (e.chat # Absent \/ e.sender # Absent)
  /\ LET chat == FirstOf(e.chat, e.sender)
         sender == FirstOf(e.sender, chat)
     IN /\ HandleMessage({sender}, chat)
        /\ asked' = asked \cup {[channel |-> "lark", chat |-> chat, home |-> e.home]}
  /\ Cardinality(asked') <= MaxAsked
  /\ UNCHANGED <<qqTargets, answered, telegramVars>>

WeixinReceive(e) ==
  /\ e.kind = "weixin" /\ e.sender # Absent /\ IsAllowed({e.sender})
  /\ asked' = asked \cup {[channel |-> "weixin", chat |-> e.sender, home |-> e.home]}
  /\ Cardinality(asked') <= MaxAsked
  /\ UNCHANGED <<qqTargets, answered, telegramVars>>

----------------------------------------------------------------------------
(* Answers *)

\* Send of each channel.  Lark takes the id of any message with one to be that of a
\* chat.
Destination(m) ==
  IF m.chat = Absent THEN Nowhere
  ELSE CASE m.channel = "qqbot" -> QQTarget(m.chat)
         [] m.channel = "lark" -> [api |-> "chat_id", to |-> m.chat]
         [] m.channel = "weixin" -> [api |-> "user", to |-> m.chat]

Answer(m) ==
  /\ asked' = asked \ {m}
  /\ answered' = [went |-> Destination(m), home |-> m.home]
  /\ UNCHANGED <<qqTargets, telegramVars>>

----------------------------------------------------------------------------
(* Telegram *)

\* TgLongPoll asks for the updates after those it has handled, and so confirms them.
\* The answer brings some of the next ones or none.
Fetch ==
  /\ next > fetched.last
  /\ \E last \in fetched.last .. Len(Updates) :
       fetched' = [first |-> fetched.last + 1, last |-> last]
  /\ confirmed' = fetched.last
  /\ UNCHANGED <<lastIds, next, shown, since, qqVars>>

\* The request or its answer is lost: the batch is handled once more.
FetchFails ==
  /\ next > fetched.last /\ Len(shown) < MaxShown
  /\ next' = fetched.first
  /\ confirmed' \in {confirmed, fetched.last}
  /\ UNCHANGED <<lastIds, fetched, shown, since, qqVars>>

\* onCommand answers "/start"; when that fails, the exception leaves the library in
\* the middle of the batch.
GreetingFails ==
  /\ next <= fetched.last /\ Len(shown) < MaxShown
  /\ LET u == Updates[next] IN u.start /\ u.sender # {} /\ u.chat # Absent
  /\ next' = fetched.first
  /\ UNCHANGED <<lastIds, fetched, confirmed, shown, since, qqVars>>

\* Mutant of Seen: one last id for all chats.
SeenInAnyChat(u) == u.id > 0 /\ \E c \in Chats : u.id <= lastIds[c]

\* What onAnyMessage looks at, and what it has seen before: an id that is not above
\* the last one of the chat.
Heard(u) == u.sender # {} /\ u.chat # Absent /\ ~u.start
Seen(u) == u.id > 0 /\ u.id <= lastIds[u.chat]

DropUpdate ==
  /\ next <= fetched.last
  /\ LET u == Updates[next] IN Heard(u) => Seen(u)
  /\ next' = next + 1
  /\ UNCHANGED <<lastIds, fetched, confirmed, shown, since, qqVars>>

HandleUpdate ==
  /\ next <= fetched.last
  /\ LET u == Updates[next] IN
       /\ Heard(u) /\ ~Seen(u)
       /\ lastIds' = IF u.id > 0 THEN [lastIds EXCEPT ![u.chat] = u.id] ELSE lastIds
       /\ shown' = IF HandleMessage(u.sender, u.chat) THEN Append(shown, next) ELSE shown
  /\ next' = next + 1
  /\ UNCHANGED <<fetched, confirmed, since, qqVars>>

LongPoll == Fetch \/ FetchFails \/ GreetingFails \/ DropUpdate \/ HandleUpdate

Talk ==
  \/ \E e \in Events : QQReceive(e) \/ LarkReceive(e) \/ WeixinReceive(e)
  \/ \E m \in asked : Answer(m)

\* The gateway is started again, after a stop or a crash anywhere: the caches, what
\* the agent was to answer and what the long poll had fetched are gone.
Restart ==
  /\ Len(shown) < MaxShown
  /\ qqTargets' = {} /\ asked' = {}
  /\ lastIds' = NoIds
  /\ fetched' = [first |-> confirmed + 1, last |-> confirmed] /\ next' = confirmed + 1
  /\ since' = Len(shown)
  /\ UNCHANGED <<answered, confirmed, shown>>

CNext == LongPoll \/ Talk \/ Restart

CSpec == CInit /\ [][CNext]_cvars

----------------------------------------------------------------------------
(* Properties *)

\* An answer goes to the conversation its message came from, or nowhere: not to
\* another one that a later message, an eviction or a restart has put in its place.
\* Only a Lark message without a chat id is answered under the wrong kind of id.
AnsweredWhereAsked ==
  \/ answered.went \in {answered.home, Nowhere}
  \/ answered.home.api = "open_id" /\ answered.went.to = answered.home.to

\* What the agent is to see: messages with a sender that allow_from lets in, by name
\* or by chat, that do not begin with "/start".
Reaches(u) == Heard(u) /\ HandleMessage(u.sender, u.chat)

InOrder ==
  \A i, j \in since + 1 .. Len(shown) :
    i < j /\ Updates[shown[i]].id > 0 /\ Updates[shown[j]].id > 0 => shown[i] < shown[j]
NoneLost == \A n \in 1 .. next - 1 : Reaches(Updates[n]) => n \in ToSet(shown)

\* Whatever the long poll handles again, a process shows the agent no message with an
\* id twice and none out of order; and of what has been handled none that is to reach
\* the agent is lost, not even when the process was started again on the way.  (What a
\* process has shown unconfirmed, the next one shows again, and a message without an
\* id comes as often as its batch is handled.)
EachUpdateOnce == InOrder /\ NoneLost
=============================================================================
