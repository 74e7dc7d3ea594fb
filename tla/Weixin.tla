-------------------------------- MODULE Weixin --------------------------------
(***************************************************************************)
(* The Weixin channel (src/weixin): the poll thread with its connection    *)
(* manager, the two files it shares with the next process and with the     *)
(* outbound dispatcher - the position in the message stream and the context*)
(* tokens - and the process that may crash anywhere and be started again.  *)
(*                                                                         *)
(* A file is rewritten in two steps, as std::ofstream does: opening it     *)
(* truncates it, closing it writes it.  A file caught in between does not  *)
(* parse, and both stores then read as if there were none.  Messages are   *)
(* numbered in the order the server got them, a position is the number of  *)
(* messages before it, and the context token of a message is its number.   *)
(* The server is external: it answers with messages from the position it   *)
(* is asked for, all of them when asked for none, and may leave the next   *)
(* position out.                                                           *)
(***************************************************************************)
EXTENDS Naturals, Sequences, FiniteSets

CONSTANTS
  Users,        \* ids of Weixin users
  Allowed,      \* those allow_from lets in
  Sender,       \* Sender[m]: user message m comes from, or NoUser
  NoUser,
  WithToken,    \* messages that carry a context token
  Torn,         \* what is in a file that is half written
  MaxPublished, \* bound: messages published before or in an answer without a position
  MaxSends,     \* bound: messages the dispatcher sends
  MaxCrashes    \* bound: crashes

ASSUME WeixinAssumption ==
  /\ Allowed \subseteq Users /\ NoUser \notin Users
  /\ Sender \in Seq(Users \cup {NoUser})
  /\ Torn \notin Nat /\ Torn \notin [Users -> Nat]
  /\ WithToken \subseteq DOMAIN Sender
  /\ MaxPublished \in Nat /\ MaxSends \in Nat /\ MaxCrashes \in Nat

VARIABLES
  polling,      \* running_ /\ polling_
  pollAt,       \* poll thread: where it is
  position,     \* sync_buffer_
  positionFile, \* <account>.sync.json
  batch,        \* messages of the last answer still to be processed
  conn,         \* ConnectionManager
  tokenFile,    \* <account>.context-tokens.json
  copy,         \* what each thread holds of it between LoadAll and SaveAll
  sendAt,       \* outbound dispatcher: where it is
  sendTo,       \* user it sends to
  found,        \* the context token it found, 0 for none
  published,    \* messages on the bus, in order
  loose,        \* messages that an answer without a next position has brought
  kept,         \* newest token of each user that Save has written, 0 if expired
  sends, crashes,
  torn,         \* whether a crash has caught a file half written
  overlap       \* whether two threads were in the token store at a time

wvars == <<polling, pollAt, position, positionFile, batch, conn, tokenFile,
           copy, sendAt, sendTo, found, published, loose, kept, sends, crashes,
           torn, overlap>>
streamVars == <<position, positionFile, batch, published, loose>>
storeVars == <<tokenFile, copy, kept, overlap>>
sendVars == <<sendAt, sendTo, found, sends>>
faultVars == <<crashes, torn>>

Messages == DOMAIN Sender
NoTokens == [u \in Users |-> 0]
Healthy == [failures |-> 0, cooldown |-> FALSE, pause |-> FALSE]
kMaxConsecutiveFailures == 3

WInit ==
  /\ polling = TRUE /\ pollAt = "loop"
  /\ position = 0 /\ positionFile = 0 /\ batch = <<>>
  /\ conn = Healthy
  /\ tokenFile = NoTokens /\ copy = [poll |-> NoTokens, send |-> NoTokens]
  /\ sendAt = "idle" /\ sendTo = NoUser /\ found = 0
  /\ published = <<>> /\ loose = {} /\ kept = NoTokens
  /\ sends = 0 /\ crashes = 0 /\ torn = FALSE /\ overlap = FALSE

----------------------------------------------------------------------------
(* ContextTokenStore *)

LoadAll == IF tokenFile = Torn THEN NoTokens ELSE tokenFile

\* Whether the other thread is between the first access and the last of its own.
InStore(x) == IF x = "poll" THEN pollAt \in {"tokenOpen", "tokenWrite"}
                            ELSE sendAt \in {"cleanOpen", "cleanWrite", "load"}
Other(x) == IF x = "poll" THEN "send" ELSE "poll"

StoreRead(x) ==
  /\ copy' = [copy EXCEPT ![x] = LoadAll]
  /\ overlap' = (overlap \/ InStore(Other(x)))
  /\ UNCHANGED <<tokenFile, kept>>

StoreOpen ==
  /\ tokenFile' = Torn
  /\ UNCHANGED <<copy, kept, overlap>>

----------------------------------------------------------------------------
(* Poll thread: PollLoop *)

\* ConnectionManager::ShouldPause.  A cooldown only starts just before the loop
\* sleeps it off, so it has not elapsed when this is asked; without one, a pause
\* counts as elapsed.
ShouldPause == conn.pause /\ conn.cooldown

Stopped ==
  /\ pollAt = "loop" /\ ~polling
  /\ pollAt' = "ended"
  /\ UNCHANGED <<polling, conn, streamVars, storeVars, sendVars, faultVars>>

\* The pause and the cooldown: a sleep of an hour or of half a minute, then Reset.
Rest ==
  /\ pollAt = "loop" /\ polling /\ conn.cooldown
  /\ pollAt' = IF ShouldPause THEN "hour" ELSE "halfMinute"
  /\ UNCHANGED <<polling, conn, streamVars, storeVars, sendVars, faultVars>>

WakeUp ==
  /\ pollAt \in {"hour", "halfMinute", "backoff"}
  /\ pollAt' = "loop"
  /\ conn' = IF conn.cooldown THEN Healthy ELSE conn
  /\ UNCHANGED <<polling, streamVars, storeVars, sendVars, faultVars>>

\* The messages after the position, up to any later one.
Brings(next) == batch' = [i \in 1 .. next - position |-> position + i]

\* Mutant of GetUpdates: the position is saved when the messages are done.
GetUpdatesSavesLater ==
  /\ pollAt = "loop" /\ polling /\ ~conn.cooldown
  /\ \E next \in position .. Len(Sender) : Brings(next) /\ position' = next
  /\ conn' = Healthy
  /\ pollAt' = "process"
  /\ UNCHANGED <<polling, positionFile, published, loose, storeVars, sendVars,
                 faultVars>>

\* GetUpdates succeeds: the position moves past the messages it brings.
GetUpdates ==
  /\ pollAt = "loop" /\ polling /\ ~conn.cooldown
  /\ \E next \in position .. Len(Sender) : Brings(next) /\ position' = next
  /\ conn' = Healthy
  /\ pollAt' = "open"
  /\ UNCHANGED <<polling, positionFile, published, loose, storeVars, sendVars,
                 faultVars>>

\* It succeeds with an empty next_buffer: the messages are processed, the position
\* stays, and the next poll asks for what follows it once more.
GetUpdatesWithout ==
  /\ pollAt = "loop" /\ polling /\ ~conn.cooldown
  /\ \E next \in position .. Len(Sender) :
       /\ Len(published) + next - position <= MaxPublished
       /\ Brings(next)
       /\ loose' = loose \cup (position + 1 .. next)
  /\ conn' = Healthy
  /\ pollAt' = "process"
  /\ UNCHANGED <<polling, position, positionFile, published, storeVars, sendVars,
                 faultVars>>

\* SyncBuffer::Save.
OpenPosition ==
  /\ pollAt = "open"
  /\ positionFile' = Torn
  /\ pollAt' = "write"
  /\ UNCHANGED <<polling, conn, position, batch, published, loose, storeVars,
                 sendVars, faultVars>>

WritePosition ==
  /\ pollAt = "write"
  /\ positionFile' = position
  /\ pollAt' = "process"
  /\ UNCHANGED <<polling, conn, position, batch, published, loose, storeVars,
                 sendVars, faultVars>>

\* GetUpdates fails, a poll the server held for longer than the read timeout among
\* the failures; RecordFailure.
SessionExpires ==
  /\ pollAt = "loop" /\ polling /\ ~conn.cooldown
  /\ conn' = [conn EXCEPT !.pause = TRUE]
  /\ pollAt' = "hour"
  /\ UNCHANGED <<polling, streamVars, storeVars, sendVars, faultVars>>

PollFails ==
  /\ pollAt = "loop" /\ polling /\ ~conn.cooldown
  /\ LET failures == conn.failures + 1
         enough == failures >= kMaxConsecutiveFailures
     IN /\ conn' = [conn EXCEPT !.failures = failures, !.cooldown = enough]
        /\ pollAt' = IF enough THEN "loop" ELSE "backoff"
  /\ UNCHANGED <<polling, streamVars, storeVars, sendVars, faultVars>>

----------------------------------------------------------------------------
(* Poll thread: ProcessMessage *)

Message == Head(batch)

BatchDone ==
  /\ pollAt = "process" /\ batch = <<>>
  /\ pollAt' = "loop"
  /\ UNCHANGED <<polling, conn, streamVars, storeVars, sendVars, faultVars>>

Ignore ==
  /\ pollAt = "process" /\ batch # <<>> /\ Sender[Message] \notin Allowed
  /\ batch' = Tail(batch)
  /\ UNCHANGED <<polling, pollAt, conn, position, positionFile, published, loose,
                 storeVars, sendVars, faultVars>>

NoToken ==
  /\ pollAt = "process" /\ batch # <<>> /\ Sender[Message] \in Allowed
  /\ Message \notin WithToken
  /\ pollAt' = "publish"
  /\ UNCHANGED <<polling, conn, streamVars, storeVars, sendVars, faultVars>>

\* ContextTokenStore::Save.
ReadTokens ==
  /\ pollAt = "process" /\ batch # <<>> /\ Sender[Message] \in Allowed
  /\ Message \in WithToken
  /\ StoreRead("poll")
  /\ pollAt' = "tokenOpen"
  /\ UNCHANGED <<polling, conn, streamVars, sendVars, faultVars>>

OpenTokens ==
  /\ pollAt = "tokenOpen"
  /\ StoreOpen
  /\ pollAt' = "tokenWrite"
  /\ UNCHANGED <<polling, conn, streamVars, sendVars, faultVars>>

WriteTokens ==
  /\ pollAt = "tokenWrite"
  /\ tokenFile' = [copy["poll"] EXCEPT ![Sender[Message]] = Message]
  /\ kept' = [kept EXCEPT ![Sender[Message]] = Message]
  /\ copy' = [copy EXCEPT !["poll"] = NoTokens]
  /\ pollAt' = "publish"
  /\ UNCHANGED <<polling, conn, streamVars, overlap, sendVars, faultVars>>

Publish ==
  /\ pollAt = "publish"
  /\ published' = Append(published, Message)
  /\ batch' = Tail(batch)
  /\ pollAt' = "process"
  /\ UNCHANGED <<polling, conn, position, positionFile, loose, storeVars, sendVars,
                 faultVars>>

PollLoop ==
  \/ Stopped \/ Rest \/ WakeUp
  \/ GetUpdates \/ GetUpdatesWithout \/ OpenPosition \/ WritePosition
  \/ SessionExpires \/ PollFails
  \/ BatchDone \/ Ignore \/ NoToken \/ ReadTokens \/ OpenTokens \/ WriteTokens
  \/ Publish

----------------------------------------------------------------------------
(* Outbound dispatcher: Send looks the token of the user up, after a clean-up *)

Send(u) ==
  /\ sendAt = "idle" /\ polling /\ sends < MaxSends
  /\ sends' = sends + 1
  /\ sendTo' = u /\ found' = 0
  /\ StoreRead("send")
  /\ sendAt' = "cleanOpen"
  /\ UNCHANGED <<polling, pollAt, conn, streamVars, faultVars>>

OpenClean ==
  /\ sendAt = "cleanOpen"
  /\ StoreOpen
  /\ sendAt' = "cleanWrite"
  /\ UNCHANGED <<polling, pollAt, conn, streamVars, sendTo, found, sends,
                 faultVars>>

\* Mutant of WriteClean: what has expired stays, what has not goes.
WriteCleanInverted ==
  /\ sendAt = "cleanWrite"
  /\ \E expired \in SUBSET Users :
       /\ tokenFile' = [u \in Users |-> IF u \in expired THEN copy["send"][u] ELSE 0]
       /\ kept' = [u \in Users |-> IF u \in expired THEN 0 ELSE kept[u]]
  /\ copy' = [copy EXCEPT !["send"] = NoTokens]
  /\ sendAt' = "load"
  /\ UNCHANGED <<polling, pollAt, conn, streamVars, overlap, sendTo, found, sends,
                 faultVars>>

\* Any token may be more than a day old.
WriteClean ==
  /\ sendAt = "cleanWrite"
  /\ \E expired \in SUBSET Users :
       /\ tokenFile' = [u \in Users |-> IF u \in expired THEN 0 ELSE copy["send"][u]]
       /\ kept' = [u \in Users |-> IF u \in expired THEN 0 ELSE kept[u]]
  /\ copy' = [copy EXCEPT !["send"] = NoTokens]
  /\ sendAt' = "load"
  /\ UNCHANGED <<polling, pollAt, conn, streamVars, overlap, sendTo, found, sends,
                 faultVars>>

Load ==
  /\ sendAt = "load"
  /\ found' = LoadAll[sendTo]
  /\ overlap' = (overlap \/ InStore("poll"))
  /\ sendAt' = "send"
  /\ UNCHANGED <<polling, pollAt, conn, streamVars, tokenFile, copy, kept, sendTo,
                 sends, faultVars>>

Sent ==
  /\ sendAt = "send"
  /\ sendAt' = "idle"
  /\ UNCHANGED <<polling, pollAt, conn, streamVars, storeVars, sendTo, found, sends,
                 faultVars>>

Dispatcher == (\E u \in Users : Send(u)) \/ OpenClean \/ WriteClean \/ Load \/ Sent

----------------------------------------------------------------------------
(* The process *)

\* Stop, when the dispatcher has been joined; the poll thread sleeps its sleep out.
WStop ==
  /\ polling /\ sendAt = "idle"
  /\ polling' = FALSE
  /\ UNCHANGED <<pollAt, conn, streamVars, storeVars, sendVars, faultVars>>

Crash ==
  /\ pollAt # "down" /\ crashes < MaxCrashes
  /\ crashes' = crashes + 1
  /\ torn' = (torn \/ positionFile = Torn \/ tokenFile = Torn)
  /\ pollAt' = "down" /\ polling' = FALSE /\ sendAt' = "idle"
  /\ conn' = Healthy /\ batch' = <<>>
  /\ copy' = [poll |-> NoTokens, send |-> NoTokens]
  /\ UNCHANGED <<position, positionFile, published, loose, tokenFile, kept, overlap,
                 sendTo, found, sends>>

\* Start, after a crash or after Stop: the position is loaded from its file.
WStart ==
  /\ pollAt \in {"down", "ended"}
  /\ conn' = Healthy
  /\ position' = IF positionFile = Torn THEN 0 ELSE positionFile
  /\ polling' = TRUE /\ pollAt' = "loop"
  /\ UNCHANGED <<batch, positionFile, published, loose, storeVars, sendVars,
                 faultVars>>

WNext == PollLoop \/ Dispatcher \/ WStop \/ Crash \/ WStart

WSpec == WInit /\ [][WNext]_wvars

----------------------------------------------------------------------------
(* Properties *)

\* No message is handed to the agent twice, and none out of order, through crashes
\* at any step and restarts: the position is on disk before the first message of an
\* answer is looked at.  There are two exceptions.  A crash that catches the position
\* file half written: the next process starts without a position.  And messages that
\* came in an answer without a next position: they are asked for again, and no id of
\* a message is compared; but they repeat and overtake only one another.
NothingTwice ==
  torn \/ \A i, j \in DOMAIN published : i < j =>
            \/ published[i] < published[j]
            \/ {published[i], published[j]} \subseteq loose

\* The dispatcher finds the newest context token of the user it sends to, unless that
\* one has expired: what the store loses it loses because the poll thread saved a
\* token while the dispatcher was at the file, or to a crash in the middle of a write.
NewestTokenFound == [][Load /\ ~overlap' /\ ~torn => found' = kept[sendTo]]_wvars
=============================================================================
