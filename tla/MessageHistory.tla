--------------------------- MODULE MessageHistory ---------------------------
(***************************************************************************)
(* Conversations and messages of message_history.rs.                       *)
(*                                                                         *)
(* Every statement commits on its own, so a call that executes several is  *)
(* a sequence of steps: it can be cut short between two of them, and the   *)
(* calls of two connections to one database file interleave.  Calls that   *)
(* share a connection are serialised by its mutex: that is one caller.     *)
(*                                                                         *)
(* Contents, message types and the pre-key flags are left out.             *)
(***************************************************************************)
EXTENDS Integers, FiniteSets, FiniteSetsExt

CONSTANTS
    Callers,      \* connections to the database, each used for one call at a time
    Peers,        \* fingerprints
    Builds,       \* whether SQLite enforces foreign keys: subset of {"on", "off"}
    Timestamps,   \* the timestamps, in seconds, that the application gives messages
    Reports,      \* the delivery statuses the application reports
    MaxMessages,  \* bound: the messages ever stored
    MaxConversations, \* bound: the conversations ever created
    MaxFaults     \* bound: the calls cut short

ASSUME BoundsAssumption ==
    /\ Builds \subseteq {"on", "off"}
    /\ Timestamps \subseteq Nat
    /\ Reports \subseteq {"sent", "delivered", "failed"}
    /\ {MaxMessages, MaxConversations, MaxFaults} \subseteq Nat

VARIABLES
    foreignKeys,    \* whether this build enforces foreign keys
    contacts,       \* the fingerprints in table contacts
    conversations,  \* table conversations: fingerprint -> row
    messages,       \* table messages: id -> row
    lastConv,       \* sqlite_sequence of conversations
    lastMsg,        \* sqlite_sequence of messages
    step,           \* caller -> the next statement of its call, or "idle"
    arg,            \* caller -> arguments and locals of its call
    page,           \* caller -> what the application keeps of the history it loaded
    outbox,         \* ids returned to the application for outgoing messages
    serial,         \* history: the number of messages ever stored
    reported,       \* history: the messages whose delivery status was reported
    toRead,         \* history: the incoming messages stored since the last mark
                    \*          as read of their conversation, or left out by it
    drift,          \* history: peer -> unread messages deleted, less those
                    \*          stored and not counted, since that mark
    faults          \* history: the calls cut short

tables  == <<contacts, conversations, messages, lastConv, lastMsg>>
calls   == <<step, arg, page, outbox>>
history == <<serial, reported, toRead, drift>>
vars    == <<foreignKeys, tables, calls, history, faults>>

NoMessage == <<0, 0>>

\* The arguments and locals of a call: msg is the id of the message stored, with
\* the number it has among all that were ever stored.
Args(f, dir, ts, conv) ==
    [peer |-> f, dir |-> dir, ts |-> ts, conv |-> conv, msg |-> NoMessage,
     count |-> 0]

NoArg == Args("none", "none", 0, 0)

NoPage == [peer |-> "none", upTo |-> 0, seq |-> 0]

Init ==
    /\ foreignKeys \in Builds
    /\ contacts = {}
    /\ conversations = [f \in {} |-> 0]
    /\ messages = [id \in {} |-> 0]
    /\ lastConv = 0
    /\ lastMsg = 0
    /\ step = [c \in Callers |-> "idle"]
    /\ arg = [c \in Callers |-> NoArg]
    /\ page = [c \in Callers |-> NoPage]
    /\ outbox = {}
    /\ serial = 0
    /\ reported = {}
    /\ toRead = {}
    /\ drift = [f \in Peers |-> 0]
    /\ faults = 0

-----------------------------------------------------------------------------
(* The tables.                                                             *)

ConversationIds == {conversations[f].id : f \in DOMAIN conversations}

\* WHERE fingerprint = f, as the id of the row.
ConversationOf(f) == conversations[f].id

\* WHERE id = i, as the fingerprints of the rows (at most one).
WithId(i) == {f \in DOMAIN conversations : conversations[f].id = i}

MessagesOf(conv) == {id \in DOMAIN messages : messages[id].conv = conv}

\* The incoming messages of a conversation that are newer than t.
NewerIncoming(conv, t) ==
    {id \in MessagesOf(conv) : messages[id].dir = "in" /\ messages[id].ts > t}

\* The messages of f to be read.
Unread(f) == MessagesOf(ConversationOf(f)) \cap toRead

Remove(tab, ids) == [id \in DOMAIN tab \ ids |-> tab[id]]

Busy(c, s) == step[c] = s

Go(c, s, a) ==
    /\ step' = [step EXCEPT ![c] = s]
    /\ arg' = [arg EXCEPT ![c] = a]

Done(c) == Go(c, "idle", NoArg)

-----------------------------------------------------------------------------
(* store_incoming_message and store_outgoing_message.                      *)

\* add_contact, as far as the foreign key of conversations goes.
AddContact(f) ==
    /\ f \notin contacts
    /\ contacts' = contacts \cup {f}
    /\ UNCHANGED <<foreignKeys, conversations, messages, lastConv, lastMsg,
                   calls, history, faults>>

\* get_or_create_conversation: SELECT id.
BeginStore(c, f, dir) ==
    /\ Busy(c, "idle")
    /\ serial < MaxMessages
    /\ \E t \in Timestamps :
          IF f \in DOMAIN conversations
          THEN Go(c, "insertMessage", Args(f, dir, t, ConversationOf(f)))
          ELSE Go(c, "insertConversation", Args(f, dir, t, 0))
    /\ UNCHANGED <<foreignKeys, tables, page, outbox, history, faults>>

\* Not the code: without AUTOINCREMENT the next id is one past the highest.
NextConversationIdByMax ==
    IF ConversationIds = {} THEN 1 ELSE Max(ConversationIds) + 1

\* id INTEGER PRIMARY KEY AUTOINCREMENT
NextConversationId == lastConv + 1

\* get_or_create_conversation: INSERT, which the foreign key of fingerprint or
\* its UNIQUE constraint may refuse.
InsertConversation(c) ==
    /\ Busy(c, "insertConversation")
    /\ LET f == arg[c].peer IN
       \/ /\ f \in DOMAIN conversations \/ (foreignKeys = "on" /\ f \notin contacts)
          /\ Done(c)
          /\ UNCHANGED <<conversations, lastConv, drift>>
       \/ /\ f \notin DOMAIN conversations
          /\ foreignKeys = "off" \/ f \in contacts
          /\ lastConv < MaxConversations
          /\ conversations' = [g \in DOMAIN conversations \cup {f} |->
                IF g = f THEN [id |-> NextConversationId, last |-> 0, unread |-> 0,
                               archived |-> FALSE]
                         ELSE conversations[g]]
          /\ lastConv' = NextConversationId
          /\ drift' = [drift EXCEPT ![f] = 0]
          /\ Go(c, "insertMessage", [arg[c] EXCEPT !.conv = NextConversationId])
    /\ UNCHANGED <<foreignKeys, contacts, messages, lastMsg, page, outbox, serial,
                   reported, toRead, faults>>

\* Not the code: the next id is one past the highest stored.
NextMessageIdByMax ==
    IF DOMAIN messages = {} THEN 1 ELSE Max(DOMAIN messages) + 1

\* id INTEGER PRIMARY KEY AUTOINCREMENT
NextMessageId == lastMsg + 1

\* INSERT INTO messages; the row records for whom and as which it is stored.
InsertMessage(c) ==
    /\ Busy(c, "insertMessage")
    /\ \/ /\ foreignKeys = "on"
          /\ arg[c].conv \notin ConversationIds
          /\ Done(c)
          /\ UNCHANGED <<messages, lastMsg, serial, toRead>>
       \/ /\ foreignKeys = "off" \/ arg[c].conv \in ConversationIds
          /\ serial < MaxMessages
          /\ serial' = serial + 1
          /\ messages' = [id \in DOMAIN messages \cup {NextMessageId} |->
                IF id = NextMessageId
                THEN [conv |-> arg[c].conv, dir |-> arg[c].dir, ts |-> arg[c].ts,
                      status |-> "pending", peer |-> arg[c].peer,
                      serial |-> serial + 1]
                ELSE messages[id]]
          /\ lastMsg' = NextMessageId
          /\ toRead' = IF arg[c].dir = "in" THEN toRead \cup {NextMessageId}
                                            ELSE toRead
          /\ Go(c, "updateConversation",
                [arg[c] EXCEPT !.msg = <<NextMessageId, serial + 1>>])
    /\ UNCHANGED <<foreignKeys, contacts, conversations, lastConv, page, outbox,
                   reported, drift, faults>>

\* The row of a conversation with a message of time t, and n more to read.
Touched(row, t, n) ==
    [id |-> row.id, last |-> t, unread |-> row.unread + n,
     archived |-> row.archived]

\* update_conversation; the call returns the id of the message.
UpdateConversation(c) ==
    /\ Busy(c, "updateConversation")
    /\ LET a == arg[c]
           more == IF a.dir = "in" THEN 1 ELSE 0
       IN  /\ conversations' = [f \in DOMAIN conversations |->
                 IF f \in WithId(a.conv)
                 THEN Touched(conversations[f], a.ts, more)
                 ELSE conversations[f]]
           /\ outbox' = IF a.dir = "out" THEN outbox \cup {a.msg} ELSE outbox
    /\ Done(c)
    /\ UNCHANGED <<foreignKeys, contacts, messages, lastConv, lastMsg, page,
                   history, faults>>

\* update_delivery_status, for an id that store_outgoing_message returned.
UpdateDeliveryStatus(c, s) ==
    /\ Busy(c, "idle")
    /\ \E m \in outbox :
          /\ messages' = [id \in DOMAIN messages |->
                IF id = m[1] THEN [messages[id] EXCEPT !.status = s]
                             ELSE messages[id]]
          /\ reported' = reported \cup {m[2]}
    /\ UNCHANGED <<foreignKeys, contacts, conversations, lastConv, lastMsg, calls,
                   serial, toRead, drift, faults>>

-----------------------------------------------------------------------------
(* Reading and marking as read.                                            *)

\* get_conversation_messages from the start: the application keeps the
\* timestamp of the newest message, and has seen the messages stored so far.
LoadHistory(c, f) ==
    /\ Busy(c, "idle")
    /\ f \in DOMAIN conversations
    /\ MessagesOf(ConversationOf(f)) # {}
    /\ page' = [page EXCEPT ![c] =
          [peer |-> f,
           upTo |-> Max({messages[id].ts : id \in MessagesOf(ConversationOf(f))}),
           seq |-> serial]]
    /\ UNCHANGED <<foreignKeys, tables, step, arg, outbox, history, faults>>

\* mark_conversation_read
MarkRead(c, f) ==
    /\ Busy(c, "idle")
    /\ f \in DOMAIN conversations
    /\ conversations' = [conversations EXCEPT ![f].unread = 0]
    /\ toRead' = toRead \ MessagesOf(ConversationOf(f))
    /\ drift' = [drift EXCEPT ![f] = 0]
    /\ UNCHANGED <<foreignKeys, contacts, messages, lastConv, lastMsg, calls,
                   serial, reported, faults>>

\* mark_conversation_read_up_to the newest message loaded: SELECT id, which
\* fails when the conversation is gone.
BeginMarkUpTo(c) ==
    /\ Busy(c, "idle")
    /\ page[c].peer \in DOMAIN conversations
    /\ Go(c, "countUnread",
          Args(page[c].peer, "none", page[c].upTo, ConversationOf(page[c].peer)))
    /\ UNCHANGED <<foreignKeys, tables, page, outbox, history, faults>>

\* Not the code: messages of the very second are counted too.
CountUnreadFrom(c) ==
    /\ Busy(c, "countUnread")
    /\ Go(c, "setUnread",
          [arg[c] EXCEPT !.count =
             Cardinality(NewerIncoming(arg[c].conv, arg[c].ts - 1))])
    /\ UNCHANGED <<foreignKeys, tables, page, outbox, history, faults>>

\* mark_conversation_read_up_to: SELECT COUNT.
CountUnread(c) ==
    /\ Busy(c, "countUnread")
    /\ Go(c, "setUnread",
          [arg[c] EXCEPT !.count =
             Cardinality(NewerIncoming(arg[c].conv, arg[c].ts))])
    /\ UNCHANGED <<foreignKeys, tables, page, outbox, history, faults>>

\* mark_conversation_read_up_to: UPDATE.
SetUnread(c) ==
    /\ Busy(c, "setUnread")
    /\ LET a == arg[c]
       IN  /\ conversations' = [f \in DOMAIN conversations |->
                 IF f \in WithId(a.conv)
                 THEN [conversations[f] EXCEPT !.unread = a.count]
                 ELSE conversations[f]]
           /\ toRead' = (toRead \ MessagesOf(a.conv))
                           \cup NewerIncoming(a.conv, a.ts)
           /\ drift' = [drift EXCEPT ![a.peer] = 0]
    /\ Done(c)
    /\ UNCHANGED <<foreignKeys, contacts, messages, lastConv, lastMsg, page,
                   outbox, serial, reported, faults>>

\* archive_conversation
Archive(c, f) ==
    /\ Busy(c, "idle")
    /\ f \in DOMAIN conversations
    /\ conversations' = [conversations EXCEPT ![f].archived = ~ @]
    /\ UNCHANGED <<foreignKeys, contacts, messages, lastConv, lastMsg, calls,
                   history, faults>>

-----------------------------------------------------------------------------
(* Deleting.                                                               *)

\* The messages with these ids go; the unread among them, per peer, join the
\* drift.
Forget(ids) ==
    /\ toRead' = toRead \ ids
    /\ drift' = [f \in Peers |-> drift[f] +
          Cardinality({id \in ids \cap toRead : messages[id].peer = f})]

\* Not the code: the count follows, without a look at what it counts.
DeleteMessageAndDecrement(c, m) ==
    /\ Busy(c, "idle")
    /\ m \in DOMAIN messages
    /\ messages' = Remove(messages, {m})
    /\ conversations' = [f \in DOMAIN conversations |->
          IF f \in WithId(messages[m].conv)
          THEN [conversations[f] EXCEPT !.unread = @ - 1]
          ELSE conversations[f]]
    /\ UNCHANGED <<foreignKeys, contacts, lastConv, lastMsg, calls, history,
                   faults>>

\* delete_message: the row goes, the conversation is not looked at.
DeleteMessage(c, m) ==
    /\ Busy(c, "idle")
    /\ m \in DOMAIN messages
    /\ messages' = Remove(messages, {m})
    /\ Forget({m})
    /\ UNCHANGED <<foreignKeys, contacts, conversations, lastConv, lastMsg, calls,
                   serial, reported, faults>>

\* delete_conversation: SELECT id; nothing more if there is none.
BeginDelete(c, f) ==
    /\ Busy(c, "idle")
    /\ f \in DOMAIN conversations
    /\ Go(c, "dropMessages", Args("none", "none", 0, ConversationOf(f)))
    /\ UNCHANGED <<foreignKeys, tables, page, outbox, history, faults>>

\* DELETE FROM messages WHERE conversation_id = ?
DropMessages(c) ==
    /\ Busy(c, "dropMessages")
    /\ messages' = Remove(messages, MessagesOf(arg[c].conv))
    /\ Forget(MessagesOf(arg[c].conv))
    /\ Go(c, "dropConversation", arg[c])
    /\ UNCHANGED <<foreignKeys, contacts, conversations, lastConv, lastMsg, page,
                   outbox, serial, reported, faults>>

\* DELETE FROM conversations WHERE id = ?, which cascades to the messages.
DropConversation(c) ==
    /\ Busy(c, "dropConversation")
    /\ conversations' = Remove(conversations, WithId(arg[c].conv))
    /\ messages' = IF foreignKeys = "on"
                   THEN Remove(messages, MessagesOf(arg[c].conv))
                   ELSE messages
    /\ Done(c)
    /\ UNCHANGED <<foreignKeys, contacts, lastConv, lastMsg, page, outbox, history,
                   faults>>

-----------------------------------------------------------------------------

\* The process dies, or the next statement of the call fails and the error is
\* passed up: what was executed stays, and the rest of the call is not.
CutShort(c) ==
    /\ ~ Busy(c, "idle")
    /\ faults < MaxFaults
    /\ faults' = faults + 1
    /\ drift' = IF Busy(c, "updateConversation") /\ arg[c].dir = "in"
                THEN [drift EXCEPT ![arg[c].peer] = @ - 1]
                ELSE drift
    /\ Done(c)
    /\ UNCHANGED <<foreignKeys, tables, page, outbox, serial, reported, toRead>>

Next ==
    \/ \E f \in Peers : AddContact(f)
    \/ \E c \in Callers :
          \/ \E f \in Peers :
                \/ \E dir \in {"in", "out"} : BeginStore(c, f, dir)
                \/ LoadHistory(c, f) \/ MarkRead(c, f) \/ Archive(c, f)
                \/ BeginDelete(c, f)
          \/ InsertConversation(c) \/ InsertMessage(c) \/ UpdateConversation(c)
          \/ \E s \in Reports : UpdateDeliveryStatus(c, s)
          \/ BeginMarkUpTo(c) \/ CountUnread(c) \/ SetUnread(c)
          \/ \E m \in 1 .. lastMsg : DeleteMessage(c, m)
          \/ DropMessages(c) \/ DropConversation(c)
          \/ CutShort(c)

Spec == Init /\ [][Next]_vars

-----------------------------------------------------------------------------
(* Properties.                                                             *)

TypeOK ==
    /\ foreignKeys \in {"on", "off"}
    /\ contacts \subseteq Peers
    /\ DOMAIN conversations \subseteq Peers
    /\ \A f \in DOMAIN conversations :
          conversations[f] \in [id : 1 .. lastConv, last : Nat, unread : Nat,
                                archived : BOOLEAN]
    /\ DOMAIN messages \subseteq 1 .. lastMsg
    /\ \A id \in DOMAIN messages :
          messages[id] \in [conv : 1 .. lastConv, dir : {"in", "out"}, ts : Nat,
                            status : {"pending"} \cup Reports, peer : Peers,
                            serial : 1 .. serial]
    /\ lastConv \in 0 .. MaxConversations
    /\ lastMsg \in 0 .. MaxMessages
    /\ toRead \subseteq 1 .. lastMsg
    /\ \A f \in Peers : drift[f] \in Int
    /\ \A c \in Callers :
          /\ step[c] \in {"idle", "insertConversation", "insertMessage",
                          "updateConversation", "countUnread", "setUnread",
                          "dropMessages", "dropConversation"}
          /\ arg[c].conv \in 0 .. lastConv
    /\ serial \in 0 .. MaxMessages
    /\ faults \in 0 .. MaxFaults

\* A message is found under the contact it was stored for (get_message joins on
\* the conversation's id): an id read by one call and used after another
\* connection deleted that conversation never names a different one, because
\* AUTOINCREMENT does not give an id out twice (message_history.rs:110).
MessagesFiledUnderPeer ==
    \A id \in DOMAIN messages : \A f \in WithId(messages[id].conv) :
        f = messages[id].peer

\* A delivery status is that of the message it was reported for: an id that the
\* application keeps after the message was deleted never names a later message.
StatusOfItsReport ==
    \A id \in DOMAIN messages :
        messages[id].status # "pending" => messages[id].serial \in reported

\* Between calls on one connection, whatever the timestamps, the unread count is
\* the number of stored incoming messages that the last mark as read left out, but
\* for those that drift accounts for: deleted while unread, or stored by a call
\* cut short before it counted them.  Each mark brings the drift to 0.
UnreadIsExact ==
    (\A c \in Callers : Busy(c, "idle")) =>
        \A f \in DOMAIN conversations :
            conversations[f].unread = Cardinality(Unread(f)) + drift[f]

\* No message that arrived after the history was loaded is marked as read by
\* mark_conversation_read_up_to (message_history.rs:534-536).
UnseenStayUnread ==
    [][\A c \in Callers :
          Busy(c, "setUnread") /\ step'[c] = "idle" =>
             \A f \in WithId(arg[c].conv) :
                conversations'[f].unread >=
                   Cardinality({id \in NewerIncoming(arg[c].conv, -1) :
                                   messages[id].serial > page[c].seq})]_vars
=============================================================================
