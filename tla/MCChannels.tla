----------------------------- MODULE MCChannels -----------------------------
(***************************************************************************)
(* The channels' machines side by side.  They share nothing, so only one   *)
(* of them moves in a behaviour: part says which.                          *)
(***************************************************************************)
EXTENDS QQBot, Weixin, Conversations

CONSTANTS u1, u2, c1, g1, d1, o1
VARIABLE part

MCSender == <<u1, u2, NoUser, u1>>

QQ(kind, sender, channel, guild, group, bot, api, to) ==
  [kind |-> kind, sender |-> sender, channel |-> channel, guild |-> guild,
   group |-> group, bot |-> bot, home |-> [api |-> api, to |-> to]]
Other2(kind, sender, chat, api, to) ==
  [kind |-> kind, sender |-> sender, chat |-> chat,
   home |-> [api |-> api, to |-> to]]

MCEvents == {
  QQ("channel", u1, c1, g1, Absent, FALSE, "channel", c1),
  QQ("channel", u1, c1, g1, Absent, TRUE, "channel", c1),
  QQ("direct", u1, d1, g1, Absent, FALSE, "direct", g1),
  QQ("direct", u1, d1, Absent, Absent, FALSE, "direct", g1),
  QQ("c2c", u1, Absent, Absent, Absent, FALSE, "c2c", u1),
  QQ("c2c", u2, Absent, Absent, Absent, TRUE, "c2c", u2),
  QQ("group", u1, Absent, Absent, o1, FALSE, "group", o1),
  QQ("group", u2, Absent, Absent, o1, TRUE, "group", o1),
  Other2("lark", u1, c1, "chat_id", c1), Other2("lark", u1, Absent, "open_id", u1),
  Other2("lark", Absent, c1, "chat_id", c1),
  Other2("weixin", u1, Absent, "user", u1), Other2("weixin", u2, Absent, "user", u2)}

Update(chat, id, sender, start) ==
  [chat |-> chat, id |-> id, sender |-> sender, start |-> start]

\* One chat without a number in between, one post of a channel, and "/start" twice.
MCUpdates == <<
  Update(c1, 1, {u1}, FALSE), Update(d1, 7, {u2, o1}, FALSE), Update(c1, 0, {u1}, FALSE),
  Update(c1, 2, {u2}, TRUE), Update(d1, 8, {}, FALSE), Update(c1, 3, {u2, u1}, FALSE),
  Update(d1, 9, {u1}, TRUE), Update(d1, 10, {u1}, FALSE)>>

MCInit ==
  /\ part \in {"qqbot", "weixin", "telegram", "talk"}
  /\ QInit /\ WInit /\ CInit

MCNext ==
  /\ UNCHANGED part
  /\ \/ part = "qqbot" /\ QNext /\ UNCHANGED <<wvars, cvars>>
     \/ part = "weixin" /\ WNext /\ UNCHANGED <<qvars, cvars>>
     \/ part = "telegram" /\ (LongPoll \/ Restart) /\ UNCHANGED <<qvars, wvars>>
     \/ part = "talk" /\ (Talk \/ Restart) /\ UNCHANGED <<qvars, wvars>>

MCSpec == MCInit /\ [][MCNext]_<<part, qvars, wvars, cvars>>
=============================================================================
