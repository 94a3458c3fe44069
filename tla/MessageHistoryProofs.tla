------------------------ MODULE MessageHistoryProofs ------------------------
(***************************************************************************)
(* Theorems about the ids of conversations and messages, and about types,  *)
(* for any number of connections, contacts and messages, and wherever      *)
(* calls are cut short.                                                    *)
(***************************************************************************)
EXTENDS MessageHistory, FiniteSetTheorems, TLAPS

\* The arguments and locals of a call: of the fields only the ids matter.
IsLocals(a) ==
    /\ a = [x \in {"peer", "dir", "ts", "conv", "msg", "count"} |-> a[x]]
    /\ a.conv \in Nat

CallsTyped ==
    /\ step = [c \in Callers |-> step[c]]
    /\ arg = [c \in Callers |-> arg[c]]
    /\ \A c \in Callers : IsLocals(arg[c])

\* Ids given out so far, at most one conversation per id, and every id that is
\* held anywhere among those given out.
ConversationIdsOK ==
    /\ lastConv \in Nat
    /\ \A f \in DOMAIN conversations : conversations[f].id \in 1 .. lastConv
    /\ \A f, g \in DOMAIN conversations :
          conversations[f].id = conversations[g].id => f = g
    /\ \A c \in Callers : arg[c].conv <= lastConv
    /\ \A id \in DOMAIN messages : messages[id].conv \in 0 .. lastConv

\* The conversation into which a call is about to insert, if it is still
\* there, is that of the call's contact.
InsertsForPeer ==
    \A c \in Callers :
        step[c] = "insertMessage" =>
            \A f \in WithId(arg[c].conv) : f = arg[c].peer

FilingInv ==
    /\ CallsTyped
    /\ ConversationIdsOK
    /\ InsertsForPeer
    /\ MessagesFiledUnderPeer

-----------------------------------------------------------------------------

\* The program starts with empty tables and no call.
LEMMA FilingInit == Init => FilingInv
BY DEF Init, FilingInv, CallsTyped, ConversationIdsOK, InsertsForPeer,
   MessagesFiledUnderPeer, WithId, NoArg, Args, NoMessage,
   IsLocals

\* A step that creates no conversation, stores no message and starts no insert
\* preserves the invariant: rows may go, and columns other than the id change.
LEMMA FilingFrame ==
    ASSUME FilingInv, CallsTyped', lastConv' = lastConv,
           DOMAIN conversations' \subseteq DOMAIN conversations,
           \A f \in DOMAIN conversations' :
               conversations'[f].id = conversations[f].id,
           DOMAIN messages' \subseteq DOMAIN messages,
           \A id \in DOMAIN messages' :
               /\ messages'[id].conv = messages[id].conv
               /\ messages'[id].peer = messages[id].peer,
           \A c \in Callers :
               /\ arg'[c].conv <= lastConv
               /\ step'[c] = "insertMessage" =>
                     \/ step[c] = "insertMessage" /\ arg'[c] = arg[c]
                     \/ \A f \in WithId(arg'[c].conv) : f = arg'[c].peer
    PROVE  FilingInv'
<1> USE DEF FilingInv
<1>1. ConversationIdsOK'
  BY DEF ConversationIdsOK
<1>2. \A i : WithId(i)' \subseteq WithId(i)
  BY DEF WithId
<1>3. InsertsForPeer'
  BY <1>2 DEF InsertsForPeer
<1>4. MessagesFiledUnderPeer'
  BY <1>2 DEF MessagesFiledUnderPeer
<1>5. QED
  BY <1>1, <1>3, <1>4

\* A step of call c touches no other call.
LEMMA GoTyped ==
    ASSUME CallsTyped, NEW c \in Callers, NEW s, NEW a, IsLocals(a), Go(c, s, a)
    PROVE  /\ CallsTyped'
           /\ step'[c] = s /\ arg'[c] = a
           /\ \A d \in Callers \ {c} : step'[d] = step[d] /\ arg'[d] = arg[d]
BY DEF CallsTyped, Go

\* The end of call c touches no other call.
LEMMA DoneTyped ==
    ASSUME CallsTyped, NEW c \in Callers, Done(c)
    PROVE  /\ CallsTyped'
           /\ step'[c] = "idle" /\ arg'[c].conv = 0
           /\ \A d \in Callers \ {c} : step'[d] = step[d] /\ arg'[d] = arg[d]
<1>1. IsLocals(NoArg)
  BY DEF NoArg, Args, NoMessage, IsLocals
<1>2. QED
  BY <1>1, GoTyped DEF Done, NoArg, Args

\* The steps that are no step of a call made up of several.
SingleStatement ==
    \/ \E f \in Peers : AddContact(f)
    \/ \E c \in Callers :
          \/ \E f \in Peers : LoadHistory(c, f) \/ MarkRead(c, f) \/ Archive(c, f)
          \/ \E s \in Reports : UpdateDeliveryStatus(c, s)
          \/ \E m \in 1 .. lastMsg : DeleteMessage(c, m)
    \/ UNCHANGED vars

\* A step that is no part of a longer call keeps ids, contacts and numbers.
LEMMA SingleStatementFrame ==
    ASSUME SingleStatement
    PROVE  /\ UNCHANGED <<step, arg, lastConv, lastMsg, serial>>
           /\ DOMAIN conversations' = DOMAIN conversations
           /\ \A f \in DOMAIN conversations :
                 conversations'[f].id = conversations[f].id
           /\ DOMAIN messages' \subseteq DOMAIN messages
           /\ \A id \in DOMAIN messages' :
                 /\ messages'[id].conv = messages[id].conv
                 /\ messages'[id].peer = messages[id].peer
                 /\ messages'[id].serial = messages[id].serial
<1> USE DEF tables, calls, history
<1>1. CASE \E f \in Peers : AddContact(f)
  BY <1>1 DEF AddContact
<1>2. ASSUME NEW c \in Callers, NEW f \in Peers,
             LoadHistory(c, f) \/ MarkRead(c, f) \/ Archive(c, f)
      PROVE  /\ UNCHANGED <<step, arg, lastConv, lastMsg, serial, messages>>
             /\ DOMAIN conversations' = DOMAIN conversations
             /\ \A g \in DOMAIN conversations :
                   conversations'[g].id = conversations[g].id
  <2>1. CASE LoadHistory(c, f)
    BY <2>1 DEF LoadHistory
  <2>2. CASE MarkRead(c, f)
    BY <2>2 DEF MarkRead
  <2>3. CASE Archive(c, f)
    BY <2>3 DEF Archive
  <2>4. QED
    BY <1>2, <2>1, <2>2, <2>3
<1>3. CASE \E c \in Callers : \E s \in Reports : UpdateDeliveryStatus(c, s)
  BY <1>3 DEF UpdateDeliveryStatus
<1>4. CASE \E c \in Callers : \E m \in 1 .. lastMsg : DeleteMessage(c, m)
  BY <1>4 DEF DeleteMessage, Remove
<1>5. CASE UNCHANGED vars
  BY <1>5 DEF vars
<1>6. QED
  BY <1>1, <1>2, <1>3, <1>4, <1>5 DEF SingleStatement

\* Such a step keeps messages filed under their contacts.
LEMMA SingleStatementFiling ==
    ASSUME FilingInv, SingleStatement
    PROVE  FilingInv'
<1>1. CallsTyped'
  BY SingleStatementFrame DEF FilingInv, CallsTyped
<1>2. \A c \in Callers : arg[c].conv <= lastConv
  BY DEF FilingInv, ConversationIdsOK
<1>3. QED
  BY <1>1, <1>2, SingleStatementFrame, FilingFrame

\* A step of call c that changes no id in the tables and goes on to a step
\* other than an insert.
LEMMA CallStepFiling ==
    ASSUME FilingInv, NEW c \in Callers, NEW s, NEW a, IsLocals(a),
           Go(c, s, a), a.conv <= lastConv,
           s = "insertMessage" => \A f \in WithId(a.conv) : f = a.peer,
           lastConv' = lastConv,
           DOMAIN conversations' \subseteq DOMAIN conversations,
           \A f \in DOMAIN conversations' :
               conversations'[f].id = conversations[f].id,
           DOMAIN messages' \subseteq DOMAIN messages,
           \A id \in DOMAIN messages' :
               /\ messages'[id].conv = messages[id].conv
               /\ messages'[id].peer = messages[id].peer
    PROVE  FilingInv'
<1>1. /\ CallsTyped'
      /\ step'[c] = s /\ arg'[c] = a
      /\ \A d \in Callers \ {c} : step'[d] = step[d] /\ arg'[d] = arg[d]
  BY GoTyped DEF FilingInv
<1>2. \A d \in Callers : arg[d].conv <= lastConv
  BY DEF FilingInv, ConversationIdsOK
<1>3. \A d \in Callers :
          /\ arg'[d].conv <= lastConv
          /\ step'[d] = "insertMessage" =>
                \/ step[d] = "insertMessage" /\ arg'[d] = arg[d]
                \/ \A f \in WithId(arg'[d].conv) : f = arg'[d].peer
  BY <1>1, <1>2
<1>4. QED
  BY <1>1, <1>3, FilingFrame

\* The id that a call reads belongs to the conversation of its contact.
LEMMA BeginStoreFiling ==
    ASSUME FilingInv, NEW c \in Callers, NEW f \in Peers, NEW dir \in {"in", "out"},
           BeginStore(c, f, dir)
    PROVE  FilingInv'
<1>1. PICK ts :
        IF f \in DOMAIN conversations
        THEN Go(c, "insertMessage", Args(f, dir, ts, ConversationOf(f)))
        ELSE Go(c, "insertConversation", Args(f, dir, ts, 0))
  BY DEF BeginStore
<1>2. ASSUME NEW i \in Nat
      PROVE  LET a == Args(f, dir, ts, i)
             IN  IsLocals(a) /\ a.conv = i /\ a.peer = f
  BY DEF IsLocals, Args, NoMessage
<1>3. UNCHANGED <<lastConv, conversations, messages>>
  BY DEF BeginStore, tables
<1>4. CASE f \in DOMAIN conversations
  <2> DEFINE a == Args(f, dir, ts, ConversationOf(f))
  <2>1. ConversationOf(f) \in 1 .. lastConv /\ lastConv \in Nat
    BY <1>4 DEF ConversationOf, FilingInv, ConversationIdsOK
  <2>2. IsLocals(a) /\ a.conv = ConversationOf(f) /\ a.peer = f
    BY <1>2, <2>1
  <2>3. \A g \in WithId(a.conv) : g = a.peer
    BY <1>4, <2>2 DEF WithId, ConversationOf, FilingInv, ConversationIdsOK
  <2>4. Go(c, "insertMessage", a)
    BY <1>1, <1>4
  <2>5. a.conv <= lastConv
    BY <2>1, <2>2
  <2>6. QED
    BY <1>3, <2>2, <2>3, <2>4, <2>5, CallStepFiling
<1>5. CASE f \notin DOMAIN conversations
  <2> DEFINE a == Args(f, dir, ts, 0)
  <2>1. Go(c, "insertConversation", a) /\ IsLocals(a) /\ a.conv = 0
    BY <1>1, <1>2, <1>5
  <2>2. a.conv <= lastConv
    BY <2>1 DEF FilingInv, ConversationIdsOK
  <2>3. QED
    BY <1>3, <2>1, <2>2, CallStepFiling
<1>6. QED
  BY <1>4, <1>5

\* The id of a new conversation names no other, and no message has it yet.
LEMMA InsertConversationFiling ==
    ASSUME FilingInv, NEW c \in Callers, InsertConversation(c)
    PROVE  FilingInv'
<1> DEFINE f == arg[c].peer
<1> USE DEF FilingInv
<1>1. UNCHANGED messages
  BY DEF InsertConversation
<1>2. CASE Done(c) /\ UNCHANGED <<conversations, lastConv>>
  <2>1. IsLocals(NoArg) /\ NoArg.conv = 0 /\ 0 <= lastConv
    BY DEF NoArg, Args, NoMessage, IsLocals, ConversationIdsOK
  <2>2. Go(c, "idle", NoArg)
    BY <1>2 DEF Done
  <2>3. QED
    BY <1>1, <1>2, <2>1, <2>2, CallStepFiling
<1>3. ASSUME f \notin DOMAIN conversations,
             conversations' = [g \in DOMAIN conversations \cup {f} |->
                IF g = f THEN [id |-> NextConversationId, last |-> 0, unread |-> 0,
                               archived |-> FALSE]
                         ELSE conversations[g]],
             lastConv' = NextConversationId,
             Go(c, "insertMessage", [arg[c] EXCEPT !.conv = NextConversationId])
      PROVE  FilingInv'
  <2> DEFINE a == [arg[c] EXCEPT !.conv = NextConversationId]
  <2>1. /\ lastConv \in Nat /\ NextConversationId = lastConv + 1
        /\ \A d \in Callers : arg[d].conv \in Nat /\ arg[d].conv <= lastConv
    BY DEF ConversationIdsOK, NextConversationId, CallsTyped, IsLocals
  <2>2. IsLocals(a) /\ a.conv = NextConversationId /\ a.peer = f
    BY <2>1 DEF CallsTyped, IsLocals
  <2>3. /\ CallsTyped'
        /\ arg'[c] = a
        /\ \A d \in Callers \ {c} : step'[d] = step[d] /\ arg'[d] = arg[d]
    BY <1>3, <2>2, GoTyped
  <2>4. arg'[c].conv = lastConv + 1 /\ arg'[c].peer = f
    BY <2>1, <2>2, <2>3
  <2> HIDE DEF a
  <2>5. /\ DOMAIN conversations' = DOMAIN conversations \cup {f}
        /\ conversations'[f].id = lastConv + 1
        /\ \A g \in DOMAIN conversations : conversations'[g] = conversations[g]
    BY <1>3, <2>1
  <2>6. ConversationIdsOK'
    <3>1. \A g \in DOMAIN conversations' : conversations'[g].id \in 1 .. lastConv'
      BY <1>3, <2>1, <2>5 DEF ConversationIdsOK
    <3>2. \A g, h \in DOMAIN conversations' :
             conversations'[g].id = conversations'[h].id => g = h
      BY <2>1, <2>5 DEF ConversationIdsOK
    <3>3. \A d \in Callers : arg'[d].conv <= lastConv'
      BY <1>3, <2>1, <2>3, <2>4
    <3>4. \A id \in DOMAIN messages' : messages'[id].conv \in 0 .. lastConv'
      BY <1>1, <1>3, <2>1 DEF ConversationIdsOK
    <3>5. QED
      BY <1>3, <2>1, <3>1, <3>2, <3>3, <3>4 DEF ConversationIdsOK
  <2>7. ASSUME NEW i \in Nat, i <= lastConv
        PROVE  WithId(i)' = WithId(i)
    BY <1>3, <2>1, <2>5, <2>7 DEF WithId
  <2>8. ASSUME NEW i \in Nat, i = lastConv + 1
        PROVE  \A g \in WithId(i)' : g = f
    <3>1. \A g \in DOMAIN conversations : conversations[g].id # lastConv + 1
      BY <2>1 DEF ConversationIdsOK
    <3>2. QED
      BY <2>5, <2>8, <3>1 DEF WithId
  <2>9. InsertsForPeer'
    <3>1. SUFFICES ASSUME NEW d \in Callers, step'[d] = "insertMessage",
                          NEW g \in WithId(arg[d].conv)'
                   PROVE  g = arg'[d].peer
      BY DEF InsertsForPeer
    <3>2. CASE d = c
      <4>1. arg'[c].conv \in Nat
        BY <2>1, <2>4
      <4>2. g \in WithId(arg[c].conv)'
        BY <3>1, <3>2
      <4>3. QED
        BY <2>4, <2>8, <3>2, <4>1, <4>2
    <3>3. CASE d # c
      <4>1. arg'[d] = arg[d] /\ step[d] = "insertMessage"
        BY <2>3, <3>1, <3>3
      <4>2. WithId(arg[d].conv)' = WithId(arg[d].conv)
        BY <2>1, <2>7, <4>1
      <4>3. QED
        BY <3>1, <4>1, <4>2 DEF InsertsForPeer
    <3>4. QED
      BY <3>2, <3>3
  <2>10. MessagesFiledUnderPeer'
    <3>1. \A id \in DOMAIN messages :
             messages[id].conv \in Nat /\ messages[id].conv <= lastConv
      BY <2>1 DEF ConversationIdsOK
    <3>2. QED
      BY <1>1, <2>7, <3>1 DEF MessagesFiledUnderPeer
  <2>11. QED
    BY <2>3, <2>6, <2>9, <2>10
<1>4. QED
  BY <1>2, <1>3 DEF InsertConversation

\* A message goes to a conversation of its contact, or to none that is left.
LEMMA InsertMessageFiling ==
    ASSUME FilingInv, NEW c \in Callers, InsertMessage(c)
    PROVE  FilingInv'
<1> USE DEF FilingInv
<1>1. UNCHANGED <<conversations, lastConv>>
  BY DEF InsertMessage
<1>2. CASE Done(c) /\ UNCHANGED messages
  <2>1. IsLocals(NoArg) /\ NoArg.conv = 0 /\ 0 <= lastConv
    BY DEF NoArg, Args, NoMessage, IsLocals, ConversationIdsOK
  <2>2. Go(c, "idle", NoArg)
    BY <1>2 DEF Done
  <2>3. QED
    BY <1>1, <1>2, <2>1, <2>2, CallStepFiling
<1>3. ASSUME NEW n, NEW m,
             DOMAIN messages' = DOMAIN messages \cup {n},
             messages'[n].conv = arg[c].conv,
             messages'[n].peer = arg[c].peer,
             \A id \in DOMAIN messages \ {n} : messages'[id] = messages[id],
             Go(c, "updateConversation", [arg[c] EXCEPT !.msg = m])
      PROVE  FilingInv'
  <2> DEFINE a == [arg[c] EXCEPT !.msg = m]
  <2>1. step[c] = "insertMessage"
    BY DEF InsertMessage, Busy
  <2>2. IsLocals(a) /\ a.conv = arg[c].conv
    BY DEF CallsTyped, IsLocals
  <2>3. /\ CallsTyped'
        /\ step'[c] = "updateConversation" /\ arg'[c] = a
        /\ \A d \in Callers \ {c} : step'[d] = step[d] /\ arg'[d] = arg[d]
    BY <1>3, <2>2, GoTyped
  <2>4. \A i : WithId(i)' = WithId(i)
    BY <1>1 DEF WithId
  <2>5. arg[c].conv \in 0 .. lastConv
    BY DEF CallsTyped, IsLocals, ConversationIdsOK
  <2>6. ConversationIdsOK'
    <3>1. \A d \in Callers : arg'[d].conv <= lastConv
      BY <2>2, <2>3 DEF ConversationIdsOK
    <3>2. \A id \in DOMAIN messages' : messages'[id].conv \in 0 .. lastConv
      BY <1>3, <2>5 DEF ConversationIdsOK
    <3>3. QED
      BY <1>1, <3>1, <3>2 DEF ConversationIdsOK
  <2>7. InsertsForPeer'
    BY <2>3, <2>4 DEF InsertsForPeer
  <2>8. MessagesFiledUnderPeer'
    <3>1. SUFFICES ASSUME NEW id \in DOMAIN messages',
                          NEW f \in WithId(messages'[id].conv)
                   PROVE  f = messages'[id].peer
      BY <2>4 DEF MessagesFiledUnderPeer
    <3>2. CASE id = n
      BY <1>3, <2>1, <3>1, <3>2 DEF InsertsForPeer
    <3>3. CASE id # n
      BY <1>3, <3>1, <3>3 DEF MessagesFiledUnderPeer
    <3>4. QED
      BY <3>2, <3>3
  <2>9. QED
    BY <2>3, <2>6, <2>7, <2>8
<1>4. ASSUME Go(c, "updateConversation",
                [arg[c] EXCEPT !.msg = <<NextMessageId, serial + 1>>]),
             messages' = [id \in DOMAIN messages \cup {NextMessageId} |->
                IF id = NextMessageId
                THEN [conv |-> arg[c].conv, dir |-> arg[c].dir, ts |-> arg[c].ts,
                      status |-> "pending", peer |-> arg[c].peer,
                      serial |-> serial + 1]
                ELSE messages[id]]
      PROVE  FilingInv'
  <2>1. /\ DOMAIN messages' = DOMAIN messages \cup {NextMessageId}
        /\ messages'[NextMessageId].conv = arg[c].conv
        /\ messages'[NextMessageId].peer = arg[c].peer
        /\ \A id \in DOMAIN messages \ {NextMessageId} :
              messages'[id] = messages[id]
    BY <1>4
  <2>2. QED
    BY <1>3, <1>4, <2>1
<1>5. QED
  BY <1>2, <1>4 DEF InsertMessage

\* The other steps of calls: they go on with locals that hold the id of some
\* conversation there is or was, or none.
OtherStep(c) ==
    \/ UpdateConversation(c) \/ BeginMarkUpTo(c) \/ CountUnread(c) \/ SetUnread(c)
    \/ \E f \in Peers : BeginDelete(c, f)
    \/ DropMessages(c) \/ DropConversation(c) \/ CutShort(c)

\* A later statement of a call stores no message and changes none.
LEMMA OtherStepFrame ==
    ASSUME NEW c \in Callers, OtherStep(c)
    PROVE  /\ UNCHANGED <<lastConv, lastMsg, serial>>
           /\ DOMAIN conversations' \subseteq DOMAIN conversations
           /\ \A f \in DOMAIN conversations' :
                 conversations'[f].id = conversations[f].id
           /\ DOMAIN messages' \subseteq DOMAIN messages
           /\ \A id \in DOMAIN messages' : messages'[id] = messages[id]
<1> USE DEF tables, calls, history
<1>1. CASE UpdateConversation(c)
  <2> DEFINE a == arg[c]
             more == IF a.dir = "in" THEN 1 ELSE 0
  <2>1. conversations' = [f \in DOMAIN conversations |->
           IF f \in WithId(a.conv)
           THEN Touched(conversations[f], a.ts, more)
           ELSE conversations[f]]
    BY <1>1 DEF UpdateConversation
  <2>2. ASSUME NEW row, NEW t, NEW n
        PROVE  Touched(row, t, n).id = row.id
    BY DEF Touched
  <2>3. \A f \in DOMAIN conversations' : conversations'[f].id = conversations[f].id
    BY <2>1, <2>2
  <2>4. UNCHANGED <<lastConv, lastMsg, serial, messages>>
    BY <1>1 DEF UpdateConversation
  <2>5. QED
    BY <2>1, <2>3, <2>4
<1>2. CASE BeginMarkUpTo(c) \/ CountUnread(c) \/ \E f \in Peers : BeginDelete(c, f)
  BY <1>2 DEF BeginMarkUpTo, CountUnread, BeginDelete
<1>3. CASE SetUnread(c)
  BY <1>3 DEF SetUnread
<1>4. CASE DropMessages(c)
  BY <1>4 DEF DropMessages, Remove
<1>5. CASE DropConversation(c)
  BY <1>5 DEF DropConversation, Remove
<1>6. CASE CutShort(c)
  BY <1>6 DEF CutShort
<1>7. QED
  BY <1>1, <1>2, <1>3, <1>4, <1>5, <1>6 DEF OtherStep

\* After such a statement no insert follows.
LEMMA OtherStepLocals ==
    ASSUME FilingInv, NEW c \in Callers, OtherStep(c)
    PROVE  \E s, a : /\ s # "insertMessage"
                     /\ Go(c, s, a) /\ IsLocals(a) /\ a.conv <= lastConv
<1> USE DEF FilingInv
<1>1. CASE UpdateConversation(c) \/ SetUnread(c) \/ DropConversation(c) \/ CutShort(c)
  <2>1. Go(c, "idle", NoArg)
    BY <1>1 DEF UpdateConversation, SetUnread, DropConversation, CutShort, Done
  <2>2. IsLocals(NoArg) /\ NoArg.conv <= lastConv
    BY DEF NoArg, Args, NoMessage, IsLocals, ConversationIdsOK
  <2>3. QED
    BY <2>1, <2>2
<1>2. CASE CountUnread(c)
  <2>1. PICK n : Go(c, "setUnread", [arg[c] EXCEPT !.count = n])
    BY <1>2 DEF CountUnread
  <2>2. IsLocals([arg[c] EXCEPT !.count = n])
        /\ [arg[c] EXCEPT !.count = n].conv = arg[c].conv
    BY DEF CallsTyped, IsLocals
  <2>3. QED
    BY <2>1, <2>2 DEF ConversationIdsOK
<1>3. CASE DropMessages(c)
  BY <1>3 DEF DropMessages, CallsTyped, ConversationIdsOK
<1>4. ASSUME NEW f \in DOMAIN conversations, NEW ts, NEW g
      PROVE  LET a == Args(g, "none", ts, ConversationOf(f))
             IN  IsLocals(a) /\ a.conv <= lastConv
  BY <1>4 DEF Args, NoMessage, IsLocals, ConversationOf, ConversationIdsOK
<1>5. CASE BeginMarkUpTo(c)
  BY <1>4, <1>5 DEF BeginMarkUpTo
<1>6. CASE \E f \in Peers : BeginDelete(c, f)
  BY <1>4, <1>6 DEF BeginDelete
<1>7. QED
  BY <1>1, <1>2, <1>3, <1>5, <1>6 DEF OtherStep

\* Such a statement keeps messages filed under their contacts.
LEMMA OtherStepFiling ==
    ASSUME FilingInv, NEW c \in Callers, OtherStep(c)
    PROVE  FilingInv'
<1>1. PICK s, a : /\ s # "insertMessage"
                  /\ Go(c, s, a) /\ IsLocals(a) /\ a.conv <= lastConv
  BY OtherStepLocals
<1>2. QED
  BY <1>1, OtherStepFrame, CallStepFiling

\* Every step is of one of these kinds.
LEMMA StepKinds ==
    ASSUME [Next]_vars
    PROVE  \/ SingleStatement
           \/ \E c \in Callers :
                 \/ \E f \in Peers, dir \in {"in", "out"} : BeginStore(c, f, dir)
                 \/ InsertConversation(c) \/ InsertMessage(c) \/ OtherStep(c)
BY DEF Next, SingleStatement, OtherStep

\* Every step keeps messages filed under their contacts.
LEMMA FilingStep ==
    ASSUME FilingInv, [Next]_vars
    PROVE  FilingInv'
<1>1. ASSUME NEW c \in Callers, NEW f \in Peers, NEW dir \in {"in", "out"},
             BeginStore(c, f, dir)
      PROVE  FilingInv'
  BY <1>1, BeginStoreFiling
<1>2. ASSUME NEW c \in Callers,
             InsertConversation(c) \/ InsertMessage(c) \/ OtherStep(c)
      PROVE  FilingInv'
  BY <1>2, InsertConversationFiling, InsertMessageFiling, OtherStepFiling
<1>3. QED
  BY <1>1, <1>2, StepKinds, SingleStatementFiling

\* Whatever connections interleave and wherever calls are cut short, a stored
\* message is found under the contact it was stored for: AUTOINCREMENT
\* (message_history.rs:110) never gives the id that a call still holds to the
\* conversation of another contact.
THEOREM MessagesFiled == Spec => []MessagesFiledUnderPeer
<1>1. Init => FilingInv
  BY FilingInit
<1>2. FilingInv /\ [Next]_vars => FilingInv'
  BY FilingStep
<1>3. FilingInv => MessagesFiledUnderPeer
  BY DEF FilingInv
<1>4. QED
  BY <1>1, <1>2, <1>3, PTL DEF Spec

-----------------------------------------------------------------------------
(* Types and serial numbers.                                               *)

Statements ==
    {"idle", "insertConversation", "insertMessage", "updateConversation",
     "countUnread", "setUnread", "dropMessages", "dropConversation"}

ConversationRow == [id : Nat, last : Nat, unread : Nat, archived : BOOLEAN]

MessageRow ==
    [conv : Nat \ {0}, dir : {"in", "out"}, ts : Nat,
     status : {"pending"} \cup Reports, peer : Peers, serial : Nat]

RowsOK ==
    /\ contacts \subseteq Peers
    /\ DOMAIN conversations \subseteq Peers
    /\ \A f \in DOMAIN conversations : conversations[f] \in ConversationRow
    /\ DOMAIN messages \subseteq 1 .. lastMsg
    /\ \A id \in DOMAIN messages : messages[id] \in MessageRow

\* The bounds hold.
CountersOK ==
    /\ lastConv <= MaxConversations
    /\ serial \in 0 .. MaxMessages
    /\ faults \in 0 .. MaxFaults

MarksOK ==
    /\ toRead \subseteq 1 .. lastMsg
    /\ drift = [f \in Peers |-> drift[f]]
    /\ \A f \in Peers : drift[f] \in Int

\* What a statement finds in the locals of its call.
LocalsOK(s, a) ==
    /\ s \in Statements
    /\ a.count \in Nat
    /\ s \in {"insertConversation", "insertMessage", "updateConversation"}
          => a.peer \in Peers /\ a.dir \in {"in", "out"} /\ a.ts \in Nat
    /\ s = "insertMessage" => a.conv # 0
    /\ s = "updateConversation" => a.msg[1] = a.msg[2]

ArgsOK == \A c \in Callers : LocalsOK(step[c], arg[c])

\* A message has its id as its serial number, and whoever holds the id of a
\* message holds it with that number.
SerialsOK ==
    /\ lastMsg = serial
    /\ \A id \in DOMAIN messages : messages[id].serial = id
    /\ \A m \in outbox : m[1] = m[2]

TypesOK ==
    /\ RowsOK
    /\ CountersOK
    /\ MarksOK
    /\ ArgsOK
    /\ SerialsOK

-----------------------------------------------------------------------------
(* Finite sets of messages.                                                *)

\* Every set of stored messages can be counted.
LEMMA CountOfMessages ==
    ASSUME RowsOK, lastMsg \in Nat, NEW S \in SUBSET DOMAIN messages
    PROVE  Cardinality(S) \in Nat
<1>1. IsFiniteSet(1 .. lastMsg)
  BY FS_Interval
<1>2. S \subseteq 1 .. lastMsg
  BY DEF RowsOK
<1>3. IsFiniteSet(S)
  BY <1>1, <1>2, FS_Subset
<1>4. QED
  BY <1>3, FS_CardinalityType

-----------------------------------------------------------------------------
(* The steps keep the types.                                               *)

\* A step of call c that goes on with locals that the next statement accepts.
LEMMA GoArgs ==
    ASSUME CallsTyped, ArgsOK,
           NEW c \in Callers, NEW s, NEW a, Go(c, s, a), LocalsOK(s, a)
    PROVE  ArgsOK'
<1>1. \A d \in Callers : IF d = c THEN step'[d] = s /\ arg'[d] = a
                         ELSE step'[d] = step[d] /\ arg'[d] = arg[d]
  BY DEF CallsTyped, Go
<1>2. QED
  BY <1>1 DEF ArgsOK

\* The end of a call.
LEMMA DoneArgs ==
    ASSUME CallsTyped, ArgsOK, NEW c \in Callers, Done(c)
    PROVE  ArgsOK'
<1>1. LocalsOK("idle", NoArg)
  BY DEF LocalsOK, Statements, NoArg, Args, NoMessage
<1>2. Go(c, "idle", NoArg)
  BY DEF Done
<1>3. QED
  BY <1>1, <1>2, GoArgs

\* The counts of what a deletion forgets are numbers.
LEMMA ForgetTyped ==
    ASSUME RowsOK, MarksOK, lastMsg \in Nat, lastMsg' = lastMsg,
           NEW ids \in SUBSET DOMAIN messages, Forget(ids)
    PROVE  MarksOK'
<1> DEFINE Lost(f) == {id \in ids \cap toRead : messages[id].peer = f}
<1>1. \A f \in Peers : Cardinality(Lost(f)) \in Nat
  <2>1. \A f \in Peers : Lost(f) \in SUBSET DOMAIN messages
    OBVIOUS
  <2> HIDE DEF Lost
  <2>2. QED
    BY <2>1, CountOfMessages
<1>2. /\ drift' = [f \in Peers |-> drift[f] + Cardinality(Lost(f))]
      /\ toRead' = toRead \ ids
  BY DEF Forget
<1> HIDE DEF Lost
<1>3. QED
  BY <1>1, <1>2 DEF MarksOK

\* The empty database and the callers at rest have their types.
LEMMA TypesInit == Init => TypesOK
BY BoundsAssumption
   DEF Init, TypesOK, RowsOK, CountersOK, MarksOK, ArgsOK, SerialsOK, LocalsOK,
       Statements, NoArg, Args, NoMessage, BoundsAssumption

\* A call that stores a message starts with a contact, a direction and a time.
LEMMA BeginStoreTyped ==
    ASSUME FilingInv, TypesOK, NEW c \in Callers, NEW f \in Peers,
           NEW dir \in {"in", "out"}, BeginStore(c, f, dir)
    PROVE  TypesOK'
<1> USE DEF TypesOK
<1>1. PICK ts \in Nat :
        IF f \in DOMAIN conversations
        THEN Go(c, "insertMessage", Args(f, dir, ts, ConversationOf(f)))
        ELSE Go(c, "insertConversation", Args(f, dir, ts, 0))
  BY BoundsAssumption DEF BeginStore, BoundsAssumption
<1>2. UNCHANGED <<tables, history, faults, page, outbox>>
  BY DEF BeginStore
<1>3. ASSUME NEW i \in Nat
      PROVE  /\ i # 0 => LocalsOK("insertMessage", Args(f, dir, ts, i))
             /\ LocalsOK("insertConversation", Args(f, dir, ts, 0))
  BY DEF LocalsOK, Statements, Args, NoMessage
<1>4. f \in DOMAIN conversations => ConversationOf(f) \in Nat \ {0}
  BY DEF ConversationOf, FilingInv, ConversationIdsOK
<1>5. ArgsOK'
  BY <1>1, <1>3, <1>4, GoArgs DEF FilingInv
<1>6. QED
  BY <1>2, <1>5
     DEF tables, history, RowsOK, CountersOK, MarksOK, SerialsOK

\* A conversation is created with an id of its own and nothing to read.
LEMMA InsertConversationTyped ==
    ASSUME FilingInv, TypesOK, NEW c \in Callers, InsertConversation(c)
    PROVE  TypesOK'
<1> DEFINE f == arg[c].peer
<1> USE DEF TypesOK
<1>1. UNCHANGED <<contacts, messages, lastMsg, page, outbox, serial, toRead,
                  faults>>
  BY DEF InsertConversation
<1>2. SerialsOK'
  BY <1>1 DEF SerialsOK
<1>3. CASE Done(c) /\ UNCHANGED <<conversations, lastConv, drift>>
  <2>1. ArgsOK'
    BY <1>3, DoneArgs DEF FilingInv
  <2>2. QED
    BY <1>1, <1>2, <1>3, <2>1 DEF RowsOK, CountersOK, MarksOK
<1>4. ASSUME lastConv < MaxConversations,
             conversations' = [g \in DOMAIN conversations \cup {f} |->
                IF g = f THEN [id |-> NextConversationId, last |-> 0, unread |-> 0,
                               archived |-> FALSE]
                         ELSE conversations[g]],
             lastConv' = NextConversationId,
             drift' = [drift EXCEPT ![f] = 0],
             Go(c, "insertMessage", [arg[c] EXCEPT !.conv = NextConversationId])
      PROVE  TypesOK'
  <2>1. LocalsOK("insertConversation", arg[c]) /\ IsLocals(arg[c])
    BY DEF ArgsOK, InsertConversation, Busy, FilingInv, CallsTyped
  <2>2. lastConv \in Nat /\ NextConversationId = lastConv + 1
    BY DEF FilingInv, ConversationIdsOK, NextConversationId
  <2>3. LocalsOK("insertMessage", [arg[c] EXCEPT !.conv = NextConversationId])
    BY <2>1, <2>2 DEF LocalsOK, IsLocals, Statements
  <2>4. ArgsOK'
    BY <1>4, <2>3, GoArgs DEF FilingInv
  <2>5. f \in Peers
    BY <2>1 DEF LocalsOK
  <2>6. RowsOK'
    <3> DEFINE row == [id |-> NextConversationId, last |-> 0, unread |-> 0,
                       archived |-> FALSE]
    <3>1. row \in ConversationRow
      BY <2>2 DEF ConversationRow
    <3> HIDE DEF row
    <3>2. conversations' = [g \in DOMAIN conversations \cup {f} |->
                              IF g = f THEN row ELSE conversations[g]]
      BY <1>4 DEF row
    <3>3. QED
      BY <1>1, <2>5, <3>1, <3>2 DEF RowsOK
  <2>7. MarksOK'
    BY <1>1, <1>4 DEF MarksOK
  <2>8. CountersOK'
    BY <1>1, <1>4, <2>2, BoundsAssumption DEF CountersOK, BoundsAssumption
  <2>9. QED
    BY <1>2, <2>4, <2>6, <2>7, <2>8
<1>5. QED
  BY <1>3, <1>4 DEF InsertConversation

\* A message is stored with its id as its serial number.
LEMMA InsertMessageTyped ==
    ASSUME FilingInv, TypesOK, NEW c \in Callers, InsertMessage(c)
    PROVE  TypesOK'
<1> USE DEF TypesOK
<1>1. UNCHANGED <<contacts, conversations, lastConv, page, outbox, drift, faults>>
  BY DEF InsertMessage
<1>2. serial \in Nat /\ lastMsg = serial
  BY BoundsAssumption DEF CountersOK, SerialsOK, BoundsAssumption
<1>3. LocalsOK("insertMessage", arg[c]) /\ IsLocals(arg[c])
  BY DEF ArgsOK, InsertMessage, Busy, FilingInv, CallsTyped
<1>4. CASE Done(c) /\ UNCHANGED <<messages, lastMsg, serial, toRead>>
  <2>1. ArgsOK'
    BY <1>4, DoneArgs DEF FilingInv
  <2>2. QED
    BY <1>1, <1>4, <2>1 DEF RowsOK, CountersOK, MarksOK, SerialsOK
<1>5. ASSUME serial < MaxMessages,
             serial' = serial + 1,
             messages' = [id \in DOMAIN messages \cup {NextMessageId} |->
                IF id = NextMessageId
                THEN [conv |-> arg[c].conv, dir |-> arg[c].dir, ts |-> arg[c].ts,
                      status |-> "pending", peer |-> arg[c].peer,
                      serial |-> serial + 1]
                ELSE messages[id]],
             lastMsg' = NextMessageId,
             toRead' \subseteq toRead \cup {NextMessageId},
             Go(c, "updateConversation",
                [arg[c] EXCEPT !.msg = <<NextMessageId, serial + 1>>])
      PROVE  TypesOK'
  <2> DEFINE row == [conv |-> arg[c].conv, dir |-> arg[c].dir, ts |-> arg[c].ts,
                     status |-> "pending", peer |-> arg[c].peer,
                     serial |-> serial + 1]
             a == [arg[c] EXCEPT !.msg = <<serial + 1, serial + 1>>]
  <2>1. NextMessageId = serial + 1
    BY <1>2 DEF NextMessageId
  <2>2. /\ row \in MessageRow
        /\ row.serial = serial + 1
    BY <1>2, <1>3 DEF MessageRow, LocalsOK, IsLocals
  <2>3. LocalsOK("updateConversation", a)
    <3>1. a.ts = arg[c].ts /\ a.count = arg[c].count /\ a.peer = arg[c].peer
          /\ a.dir = arg[c].dir /\ a.msg = <<serial + 1, serial + 1>>
      BY <1>3 DEF IsLocals
    <3>2. QED
      BY <1>3, <3>1 DEF LocalsOK, Statements
  <2>4. Go(c, "updateConversation", a)
    BY <1>5, <2>1
  <2> HIDE DEF row, a
  <2>5. ArgsOK'
    BY <2>3, <2>4, GoArgs DEF FilingInv
  <2>6. messages' = [id \in DOMAIN messages \cup {serial + 1} |->
                       IF id = serial + 1 THEN row ELSE messages[id]]
    BY <1>5, <2>1 DEF row
  <2>7. RowsOK'
    BY <1>1, <1>2, <1>5, <2>1, <2>2, <2>6 DEF RowsOK
  <2>8. CountersOK'
    BY <1>1, <1>2, <1>5, BoundsAssumption DEF CountersOK, BoundsAssumption
  <2>9. MarksOK'
    BY <1>1, <1>2, <1>5, <2>1 DEF MarksOK
  <2>10. SerialsOK'
    BY <1>1, <1>2, <1>5, <2>1, <2>2, <2>6 DEF SerialsOK
  <2>11. QED
    BY <2>5, <2>7, <2>8, <2>9, <2>10
<1>6. QED
  BY <1>4, <1>5 DEF InsertMessage

\* The count of unread messages stays a number, and the id is handed out.
LEMMA UpdateConversationTyped ==
    ASSUME FilingInv, TypesOK, NEW c \in Callers, UpdateConversation(c)
    PROVE  TypesOK'
<1> DEFINE a == arg[c]
           more == IF a.dir = "in" THEN 1 ELSE 0
<1> USE DEF TypesOK
<1>1. UNCHANGED <<contacts, messages, lastConv, lastMsg, page, serial, toRead,
                  drift, faults>>
  BY DEF UpdateConversation, history
<1>2. LocalsOK("updateConversation", a)
  BY DEF ArgsOK, UpdateConversation, Busy
<1>3. ArgsOK'
  BY DoneArgs DEF UpdateConversation, FilingInv
<1>4. more \in Nat /\ a.ts \in Nat
  BY <1>2 DEF LocalsOK
<1>5. conversations' = [f \in DOMAIN conversations |->
         IF f \in WithId(a.conv) THEN Touched(conversations[f], a.ts, more)
                                 ELSE conversations[f]]
  BY DEF UpdateConversation
<1> HIDE DEF more
<1>6. ASSUME NEW row \in ConversationRow, NEW t \in Nat, NEW n \in Nat
      PROVE  Touched(row, t, n) \in ConversationRow
  BY DEF Touched, ConversationRow
<1>7. RowsOK'
  BY <1>1, <1>4, <1>5, <1>6 DEF RowsOK
<1>8. SerialsOK'
  BY <1>1, <1>2 DEF SerialsOK, UpdateConversation, LocalsOK
<1>9. CountersOK' /\ MarksOK'
  BY <1>1 DEF CountersOK, MarksOK
<1>10. QED
  BY <1>3, <1>7, <1>8, <1>9

\* Only the status of a message changes.
LEMMA UpdateDeliveryStatusTyped ==
    ASSUME FilingInv, TypesOK, NEW c \in Callers, NEW s \in Reports,
           UpdateDeliveryStatus(c, s)
    PROVE  TypesOK'
<1> USE DEF TypesOK
<1>1. UNCHANGED <<contacts, conversations, lastConv, lastMsg, calls, serial,
                  toRead, drift, faults>>
  BY DEF UpdateDeliveryStatus
<1>2. PICK m \in outbox :
         messages' = [id \in DOMAIN messages |->
                        IF id = m[1] THEN [messages[id] EXCEPT !.status = s]
                                     ELSE messages[id]]
  BY DEF UpdateDeliveryStatus
<1>3. ASSUME NEW row \in MessageRow
      PROVE  LET new == [row EXCEPT !.status = s]
             IN  new \in MessageRow /\ new.serial = row.serial
  BY DEF MessageRow
<1>4. \A id \in DOMAIN messages : messages[id] \in MessageRow
  BY DEF RowsOK
<1>5. /\ DOMAIN messages' = DOMAIN messages
      /\ \A id \in DOMAIN messages :
            /\ messages'[id] \in MessageRow
            /\ messages'[id].serial = messages[id].serial
  BY <1>2, <1>3, <1>4
<1>6. RowsOK' /\ CountersOK' /\ SerialsOK'
  BY <1>1, <1>5 DEF RowsOK, CountersOK, SerialsOK, calls
<1>7. MarksOK' /\ ArgsOK'
  BY <1>1 DEF MarksOK, ArgsOK, calls
<1>8. QED
  BY <1>6, <1>7

\* A step that only removes rows, or changes columns of a conversation.
LEMMA ShrinkTyped ==
    ASSUME TypesOK, UNCHANGED <<contacts, lastConv, lastMsg, outbox, serial>>,
           faults' \in 0 .. MaxFaults,
           DOMAIN conversations' \subseteq DOMAIN conversations,
           \A f \in DOMAIN conversations' : conversations'[f] \in ConversationRow,
           DOMAIN messages' \subseteq DOMAIN messages,
           \A id \in DOMAIN messages' : messages'[id] = messages[id]
    PROVE  RowsOK' /\ CountersOK' /\ SerialsOK'
<1> USE DEF TypesOK
<1>1. RowsOK'
  BY DEF RowsOK
<1>2. CountersOK'
  BY DEF CountersOK
<1>3. SerialsOK'
  BY DEF SerialsOK
<1>4. QED
  BY <1>1, <1>2, <1>3

\* The rows of the conversations, when a step leaves them or removes some.
LEMMA RemainingRows ==
    ASSUME RowsOK,
           \/ conversations' = conversations
           \/ \E gone : conversations' = Remove(conversations, gone)
    PROVE  /\ DOMAIN conversations' \subseteq DOMAIN conversations
           /\ \A f \in DOMAIN conversations' : conversations'[f] \in ConversationRow
BY DEF RowsOK, Remove

\* What the application keeps of a history that it loads is its own.
LEMMA LoadHistoryTyped ==
    ASSUME TypesOK, NEW c \in Callers, NEW f \in Peers, LoadHistory(c, f)
    PROVE  TypesOK'
BY DEF LoadHistory, tables, history, TypesOK, RowsOK, CountersOK, MarksOK, ArgsOK,
       SerialsOK

\* A mark as read sets the count to 0, and nothing is left to read.
LEMMA MarkReadTyped ==
    ASSUME TypesOK, NEW c \in Callers, NEW f \in Peers, MarkRead(c, f)
    PROVE  TypesOK'
<1> USE DEF TypesOK
<1>1. UNCHANGED <<contacts, messages, lastConv, lastMsg, calls, serial, faults>>
  BY DEF MarkRead
<1>2. /\ f \in DOMAIN conversations
      /\ conversations' = [conversations EXCEPT ![f].unread = 0]
      /\ toRead' \subseteq toRead
      /\ drift' = [drift EXCEPT ![f] = 0]
  BY DEF MarkRead
<1>3. ASSUME NEW row \in ConversationRow
      PROVE  [row EXCEPT !.unread = 0] \in ConversationRow
  BY DEF ConversationRow
<1>4. /\ DOMAIN conversations' = DOMAIN conversations
      /\ \A g \in DOMAIN conversations : conversations'[g] \in ConversationRow
  BY <1>2, <1>3 DEF RowsOK
<1>5. RowsOK' /\ CountersOK' /\ SerialsOK'
  BY <1>1, <1>4, ShrinkTyped DEF calls, CountersOK
<1>6. MarksOK'
  <2>1. drift' = [g \in Peers |-> IF g = f THEN 0 ELSE drift[g]]
    BY <1>2 DEF MarksOK
  <2>2. QED
    BY <1>1, <1>2, <2>1 DEF MarksOK
<1>7. QED
  BY <1>1, <1>5, <1>6 DEF calls, ArgsOK

\* The archived flag is turned.
LEMMA ArchiveTyped ==
    ASSUME TypesOK, NEW c \in Callers, NEW f \in Peers, Archive(c, f)
    PROVE  TypesOK'
<1> USE DEF TypesOK
<1>1. UNCHANGED <<contacts, messages, lastConv, lastMsg, calls, history, faults>>
  BY DEF Archive
<1>2. /\ f \in DOMAIN conversations
      /\ conversations' = [conversations EXCEPT ![f].archived = ~ @]
  BY DEF Archive
<1>3. ASSUME NEW row \in ConversationRow, NEW b \in BOOLEAN
      PROVE  [row EXCEPT !.archived = b] \in ConversationRow
  BY DEF ConversationRow
<1>4. PICK b \in BOOLEAN :
        conversations' = [conversations EXCEPT ![f].archived = b]
  <2>1. (~ conversations[f].archived) \in BOOLEAN
    OBVIOUS
  <2>2. conversations' = [conversations EXCEPT ![f].archived =
                            ~ conversations[f].archived]
    BY <1>2
  <2>3. QED
    BY <2>1, <2>2, Zenon
<1>5. /\ DOMAIN conversations' = DOMAIN conversations
      /\ \A g \in DOMAIN conversations : conversations'[g] \in ConversationRow
  BY <1>2, <1>3, <1>4 DEF RowsOK
<1>6. RowsOK' /\ CountersOK' /\ SerialsOK'
  BY <1>1, <1>5, ShrinkTyped DEF calls, history, CountersOK
<1>7. QED
  BY <1>1, <1>6 DEF calls, history, MarksOK, ArgsOK

\* delete_message
LEMMA DeleteMessageTyped ==
    ASSUME TypesOK, NEW c \in Callers, NEW m, DeleteMessage(c, m)
    PROVE  TypesOK'
<1> USE DEF TypesOK
<1>1. UNCHANGED <<contacts, conversations, lastConv, lastMsg, calls, serial,
                  faults>>
  BY DEF DeleteMessage
<1>2. messages' = Remove(messages, {m}) /\ Forget({m})
      /\ {m} \in SUBSET DOMAIN messages
  BY DEF DeleteMessage
<1>3. /\ DOMAIN messages' \subseteq DOMAIN messages
      /\ \A id \in DOMAIN messages' : messages'[id] = messages[id]
  BY <1>2 DEF Remove
<1>4. RowsOK' /\ CountersOK' /\ SerialsOK'
  BY <1>1, <1>3, RemainingRows, ShrinkTyped DEF calls, CountersOK
<1>5. lastMsg \in Nat
  BY BoundsAssumption DEF SerialsOK, CountersOK, BoundsAssumption
<1>6. MarksOK'
  BY <1>1, <1>2, <1>5, ForgetTyped
<1>7. QED
  BY <1>1, <1>4, <1>6 DEF calls, ArgsOK

\* The first statement of a call that marks or deletes changes only its locals.
LEMMA BeginTyped ==
    ASSUME FilingInv, TypesOK, NEW c \in Callers,
           BeginMarkUpTo(c) \/ \E f \in Peers : BeginDelete(c, f)
    PROVE  TypesOK'
<1> USE DEF TypesOK
<1>1. UNCHANGED <<tables, page, outbox, history, faults>>
  BY DEF BeginMarkUpTo, BeginDelete
<1>2. ASSUME NEW s \in {"countUnread", "dropMessages"}, NEW f, NEW t, NEW i
      PROVE  LocalsOK(s, Args(f, "none", t, i))
  BY DEF LocalsOK, Statements, Args
<1>3. ArgsOK'
  BY <1>2, GoArgs DEF BeginMarkUpTo, BeginDelete, FilingInv
<1>4. QED
  BY <1>1, <1>3
     DEF tables, history, RowsOK, CountersOK, MarksOK, SerialsOK

\* The messages that mark_conversation_read_up_to counts can be counted.
LEMMA CountUnreadTyped ==
    ASSUME FilingInv, TypesOK, NEW c \in Callers, CountUnread(c)
    PROVE  TypesOK'
<1> DEFINE later == NewerIncoming(arg[c].conv, arg[c].ts)
           a == [arg[c] EXCEPT !.count = Cardinality(later)]
<1> USE DEF TypesOK
<1>1. UNCHANGED <<tables, page, outbox, history, faults>>
      /\ Busy(c, "countUnread") /\ Go(c, "setUnread", a)
  BY DEF CountUnread
<1>2. later \in SUBSET DOMAIN messages
  BY DEF NewerIncoming, MessagesOf
<1>3. lastMsg \in Nat
  BY BoundsAssumption DEF SerialsOK, CountersOK, BoundsAssumption
<1> HIDE DEF later
<1>4. Cardinality(later) \in Nat
  BY <1>2, <1>3, CountOfMessages
<1>5. LocalsOK("countUnread", arg[c]) /\ IsLocals(arg[c])
  BY <1>1 DEF ArgsOK, Busy, FilingInv, CallsTyped
<1>6. LocalsOK("setUnread", a)
  BY <1>4, <1>5 DEF LocalsOK, Statements, IsLocals
<1> HIDE DEF a
<1>7. ArgsOK'
  BY <1>1, <1>6, GoArgs DEF FilingInv
<1>8. QED
  BY <1>1, <1>7
     DEF tables, history, RowsOK, CountersOK, MarksOK, SerialsOK

\* What was counted is written, and the mark with it.
LEMMA SetUnreadTyped ==
    ASSUME FilingInv, TypesOK, NEW c \in Callers, SetUnread(c)
    PROVE  TypesOK'
<1> DEFINE a == arg[c]
<1> USE DEF TypesOK
<1>1. UNCHANGED <<contacts, messages, lastConv, lastMsg, page, outbox, serial,
                  faults>>
      /\ Busy(c, "setUnread") /\ Done(c)
  BY DEF SetUnread
<1>2. /\ conversations' = [f \in DOMAIN conversations |->
             IF f \in WithId(a.conv) THEN [conversations[f] EXCEPT !.unread = a.count]
                                     ELSE conversations[f]]
      /\ toRead' \subseteq toRead \cup DOMAIN messages
      /\ drift' = [drift EXCEPT ![a.peer] = 0]
  BY DEF SetUnread, NewerIncoming, MessagesOf
<1>3. a.count \in Nat
  BY <1>1 DEF ArgsOK, LocalsOK, Busy
<1> HIDE DEF a
<1>4. ASSUME NEW row \in ConversationRow
      PROVE  [row EXCEPT !.unread = a.count] \in ConversationRow
  BY <1>3 DEF ConversationRow
<1>5. /\ DOMAIN conversations' = DOMAIN conversations
      /\ \A f \in DOMAIN conversations : conversations'[f] \in ConversationRow
  BY <1>2, <1>4 DEF RowsOK
<1>6. RowsOK' /\ CountersOK' /\ SerialsOK'
  BY <1>1, <1>5, ShrinkTyped DEF CountersOK
<1>7. MarksOK'
  <2>1. drift' = [g \in Peers |-> IF g = a.peer THEN 0 ELSE drift[g]]
    BY <1>2 DEF MarksOK
  <2>2. QED
    BY <1>1, <1>2, <2>1 DEF MarksOK, RowsOK
<1>8. ArgsOK'
  BY <1>1, DoneArgs DEF FilingInv
<1>9. QED
  BY <1>6, <1>7, <1>8

\* delete_conversation: the messages go, and what was unread of them is noted.
LEMMA DropMessagesTyped ==
    ASSUME FilingInv, TypesOK, NEW c \in Callers, DropMessages(c)
    PROVE  TypesOK'
<1> DEFINE gone == MessagesOf(arg[c].conv)
<1> USE DEF TypesOK
<1>1. UNCHANGED <<contacts, conversations, lastConv, lastMsg, page, outbox,
                  serial, faults>>
      /\ Busy(c, "dropMessages") /\ Go(c, "dropConversation", arg[c])
  BY DEF DropMessages
<1>2. messages' = Remove(messages, gone) /\ Forget(gone)
      /\ gone \in SUBSET DOMAIN messages
  BY DEF DropMessages, MessagesOf
<1> HIDE DEF gone
<1>3. /\ DOMAIN messages' \subseteq DOMAIN messages
      /\ \A id \in DOMAIN messages' : messages'[id] = messages[id]
  BY <1>2 DEF Remove
<1>4. RowsOK' /\ CountersOK' /\ SerialsOK'
  BY <1>1, <1>3, RemainingRows, ShrinkTyped DEF CountersOK
<1>5. lastMsg \in Nat
  BY BoundsAssumption DEF SerialsOK, CountersOK, BoundsAssumption
<1>6. MarksOK'
  BY <1>1, <1>2, <1>5, ForgetTyped
<1>7. LocalsOK("dropConversation", arg[c])
  <2>1. LocalsOK("dropMessages", arg[c])
    BY <1>1 DEF ArgsOK, Busy
  <2>2. QED
    BY <2>1 DEF LocalsOK, Statements
<1>8. ArgsOK'
  BY <1>1, <1>7, GoArgs DEF FilingInv
<1>9. QED
  BY <1>4, <1>6, <1>8

\* delete_conversation: the conversation goes, with or without its messages.
LEMMA DropConversationTyped ==
    ASSUME FilingInv, TypesOK, NEW c \in Callers, DropConversation(c)
    PROVE  TypesOK'
<1> USE DEF TypesOK
<1>1. UNCHANGED <<contacts, lastConv, lastMsg, page, outbox, history, faults>>
      /\ Done(c)
  BY DEF DropConversation
<1>2. /\ \E gone : conversations' = Remove(conversations, gone)
      /\ messages' = messages \/ \E gone : messages' = Remove(messages, gone)
  BY DEF DropConversation
<1>3. /\ DOMAIN messages' \subseteq DOMAIN messages
      /\ \A id \in DOMAIN messages' : messages'[id] = messages[id]
  BY <1>2 DEF Remove
<1>4. RowsOK' /\ CountersOK' /\ SerialsOK'
  BY <1>1, <1>2, <1>3, RemainingRows, ShrinkTyped DEF history, CountersOK
<1>5. ArgsOK'
  BY <1>1, DoneArgs DEF FilingInv
<1>6. QED
  BY <1>1, <1>4, <1>5 DEF history, MarksOK

\* A call that is cut short before it counted its message leaves a drift of -1.
LEMMA CutShortTyped ==
    ASSUME FilingInv, TypesOK, NEW c \in Callers, CutShort(c)
    PROVE  TypesOK'
<1> USE DEF TypesOK
<1>1. UNCHANGED <<tables, page, outbox, serial, toRead>>
      /\ faults < MaxFaults /\ faults' = faults + 1 /\ Done(c)
  BY DEF CutShort
<1>2. \/ drift' = drift
      \/ drift' = [drift EXCEPT ![arg[c].peer] = drift[arg[c].peer] - 1]
  BY DEF CutShort
<1>3. faults' \in 0 .. MaxFaults
  BY <1>1, BoundsAssumption DEF CountersOK, BoundsAssumption
<1>4. RowsOK' /\ CountersOK' /\ SerialsOK'
  BY <1>1, <1>3, RemainingRows, ShrinkTyped DEF tables
<1>5. MarksOK'
  <2> USE DEF tables
  <2> DEFINE f == arg[c].peer
  <2>1. CASE drift' = drift
    BY <1>1, <2>1 DEF MarksOK
  <2>2. CASE drift' = [drift EXCEPT ![f] = drift[f] - 1]
    <3>1. drift' = [g \in Peers |-> IF g = f THEN drift[f] - 1 ELSE drift[g]]
      BY <2>2 DEF MarksOK
    <3>2. \A g \in Peers : drift'[g] \in Int
      BY <3>1 DEF MarksOK
    <3>3. QED
      BY <1>1, <3>1, <3>2 DEF MarksOK
  <2>3. QED
    BY <1>2, <2>1, <2>2
<1>6. ArgsOK'
  BY <1>1, DoneArgs DEF FilingInv
<1>7. QED
  BY <1>4, <1>5, <1>6

\* Every step keeps the types.
LEMMA TypesStep ==
    ASSUME FilingInv, TypesOK, [Next]_vars
    PROVE  TypesOK'
<1>1. CASE UNCHANGED vars
  BY <1>1 DEF vars, tables, calls, history, TypesOK, RowsOK, CountersOK, MarksOK,
              ArgsOK, SerialsOK
<1>2. ASSUME NEW f \in Peers, AddContact(f)
      PROVE  TypesOK'
  BY <1>2 DEF AddContact, calls, history, TypesOK, RowsOK, CountersOK, MarksOK,
              ArgsOK, SerialsOK
<1>3. ASSUME NEW c \in Callers, NEW f \in Peers,
             \/ \E dir \in {"in", "out"} : BeginStore(c, f, dir)
             \/ LoadHistory(c, f) \/ MarkRead(c, f) \/ Archive(c, f)
             \/ BeginDelete(c, f)
      PROVE  TypesOK'
  BY <1>3, BeginStoreTyped, LoadHistoryTyped, MarkReadTyped, ArchiveTyped, BeginTyped
<1>4. ASSUME NEW c \in Callers,
             \/ InsertConversation(c) \/ InsertMessage(c) \/ UpdateConversation(c)
             \/ \E s \in Reports : UpdateDeliveryStatus(c, s)
      PROVE  TypesOK'
  BY <1>4, InsertConversationTyped, InsertMessageTyped, UpdateConversationTyped,
     UpdateDeliveryStatusTyped
<1>5. ASSUME NEW c \in Callers,
             \/ BeginMarkUpTo(c) \/ CountUnread(c) \/ SetUnread(c)
             \/ \E m \in 1 .. lastMsg : DeleteMessage(c, m)
             \/ DropMessages(c) \/ DropConversation(c)
             \/ CutShort(c)
      PROVE  TypesOK'
  BY <1>5, BeginTyped, CountUnreadTyped, SetUnreadTyped, DeleteMessageTyped,
     DropMessagesTyped, DropConversationTyped, CutShortTyped
<1>6. QED
  BY <1>1, <1>2, <1>3, <1>4, <1>5 DEF Next

BuildOK == foreignKeys \in {"on", "off"}

HistoryInv == FilingInv /\ TypesOK /\ BuildOK

\* The invariant holds at the start.
LEMMA HistoryInvInit == Init => HistoryInv
BY FilingInit, TypesInit, BoundsAssumption
   DEF Init, HistoryInv, BuildOK, BoundsAssumption

\* The build does not change under way.
LEMMA HistoryInvStep == HistoryInv /\ [Next]_vars => HistoryInv'
<1>1. ASSUME NEW c \in Callers, OtherStep(c)
      PROVE  foreignKeys' = foreignKeys
  BY <1>1 DEF OtherStep, UpdateConversation, BeginMarkUpTo, CountUnread, SetUnread,
              BeginDelete, DropMessages, DropConversation, CutShort
<1>2. ASSUME NEW c \in Callers,
             \/ \E f \in Peers, dir \in {"in", "out"} : BeginStore(c, f, dir)
             \/ InsertConversation(c) \/ InsertMessage(c)
      PROVE  foreignKeys' = foreignKeys
  BY <1>2 DEF BeginStore, InsertConversation, InsertMessage
<1>3. ASSUME SingleStatement
      PROVE  foreignKeys' = foreignKeys
  BY <1>3 DEF SingleStatement, AddContact, LoadHistory, MarkRead, Archive,
              UpdateDeliveryStatus, DeleteMessage, vars
<1>4. [Next]_vars => foreignKeys' = foreignKeys
  BY <1>1, <1>2, <1>3, StepKinds
<1>5. QED
  BY <1>4, FilingStep, TypesStep DEF HistoryInv, BuildOK

\* The invariant holds the type invariant that the runs check.
LEMMA HistoryInvTypes == HistoryInv => TypeOK
<1> SUFFICES ASSUME HistoryInv PROVE TypeOK
  OBVIOUS
<1> USE DEF HistoryInv, TypesOK
<1>1. /\ lastConv \in 0 .. MaxConversations
      /\ lastMsg \in 0 .. MaxMessages /\ serial \in 0 .. MaxMessages
      /\ faults \in 0 .. MaxFaults
  BY BoundsAssumption
     DEF FilingInv, ConversationIdsOK, CountersOK, SerialsOK, BoundsAssumption
<1>2. ASSUME NEW f \in DOMAIN conversations
      PROVE  conversations[f] \in [id : 1 .. lastConv, last : Nat, unread : Nat,
                                   archived : BOOLEAN]
  <2>1. conversations[f] \in ConversationRow /\ conversations[f].id \in 1 .. lastConv
    BY DEF RowsOK, FilingInv, ConversationIdsOK
  <2>2. \A row \in ConversationRow : \A I :
           row.id \in I => row \in [id : I, last : Nat, unread : Nat,
                                    archived : BOOLEAN]
    BY DEF ConversationRow
  <2>3. QED
    BY <2>1, <2>2
<1>3. ASSUME NEW id \in DOMAIN messages
      PROVE  messages[id] \in [conv : 1 .. lastConv, dir : {"in", "out"}, ts : Nat,
                               status : {"pending"} \cup Reports, peer : Peers,
                               serial : 1 .. serial]
  <2>1. messages[id] \in MessageRow
    BY DEF RowsOK
  <2>2. messages[id].conv \in 1 .. lastConv
    BY <1>1, <2>1 DEF MessageRow, FilingInv, ConversationIdsOK
  <2>3. messages[id].serial \in 1 .. serial
    BY DEF RowsOK, SerialsOK
  <2>4. QED
    BY <2>1, <2>2, <2>3 DEF MessageRow
<1>4. ASSUME NEW c \in Callers
      PROVE  step[c] \in Statements /\ arg[c].conv \in 0 .. lastConv
  BY <1>1 DEF ArgsOK, LocalsOK, FilingInv, CallsTyped, IsLocals, ConversationIdsOK
<1>5. toRead \subseteq 1 .. lastMsg /\ \A f \in Peers : drift[f] \in Int
  BY DEF MarksOK
<1>6. foreignKeys \in {"on", "off"} /\ contacts \subseteq Peers
      /\ DOMAIN conversations \subseteq Peers /\ DOMAIN messages \subseteq 1 .. lastMsg
  BY DEF BuildOK, RowsOK
<1>7. QED
  BY <1>1, <1>2, <1>3, <1>4, <1>5, <1>6 DEF TypeOK, Statements

\* The tables, the counters and the locals of the calls have their types, and the
\* ids given out stay within the bounds.
THEOREM TypeCorrect == Spec => []TypeOK
<1>1. Init => HistoryInv
  BY HistoryInvInit
<1>2. HistoryInv /\ [Next]_vars => HistoryInv'
  BY HistoryInvStep
<1>3. HistoryInv => TypeOK
  BY HistoryInvTypes
<1>4. QED
  BY <1>1, <1>2, <1>3, PTL DEF Spec

\* A step that stores no message and reports nothing keeps every status.
LEMMA StatusFrame ==
    ASSUME StatusOfItsReport, reported' = reported,
           DOMAIN messages' \subseteq DOMAIN messages,
           \A id \in DOMAIN messages' : messages'[id] = messages[id]
    PROVE  StatusOfItsReport'
BY DEF StatusOfItsReport

\* The message whose status is written is the one the id was given out for.
LEMMA StatusStep ==
    HistoryInv /\ StatusOfItsReport /\ [Next]_vars => StatusOfItsReport'
<1> SUFFICES ASSUME HistoryInv, StatusOfItsReport, [Next]_vars
             PROVE  StatusOfItsReport'
  OBVIOUS
<1> USE DEF HistoryInv, TypesOK
<1>1. ASSUME NEW c \in Callers, NEW s \in Reports, UpdateDeliveryStatus(c, s)
      PROVE  StatusOfItsReport'
  <2>1. PICK m \in outbox :
          /\ messages' = [id \in DOMAIN messages |->
                IF id = m[1] THEN [messages[id] EXCEPT !.status = s]
                             ELSE messages[id]]
          /\ reported' = reported \cup {m[2]}
    BY <1>1 DEF UpdateDeliveryStatus
  <2>2. ASSUME NEW row \in MessageRow
        PROVE  [row EXCEPT !.status = s].serial = row.serial
    BY DEF MessageRow
  <2>3. \A id \in DOMAIN messages :
           messages[id] \in MessageRow /\ messages[id].serial = id
    BY DEF RowsOK, SerialsOK
  <2>4. m[1] = m[2]
    BY DEF SerialsOK
  <2>5. ASSUME NEW id \in DOMAIN messages', messages'[id].status # "pending"
        PROVE  messages'[id].serial \in reported'
    <3>1. CASE id = m[1]
      <4>1. messages'[id].serial = id
        BY <2>1, <2>2, <2>3, <3>1
      <4>2. QED
        BY <2>1, <2>4, <3>1, <4>1
    <3>2. CASE id # m[1]
      BY <2>1, <2>5, <3>2 DEF StatusOfItsReport
    <3>3. QED
      BY <3>1, <3>2
  <2>6. QED
    BY <2>5 DEF StatusOfItsReport
<1>2. ASSUME NEW c \in Callers, InsertMessage(c)
      PROVE  StatusOfItsReport'
  <2>1. reported' = reported
    BY <1>2 DEF InsertMessage
  <2>2. ASSUME NEW id \in DOMAIN messages'
        PROVE  \/ messages'[id].status = "pending"
               \/ id \in DOMAIN messages /\ messages'[id] = messages[id]
    BY <1>2 DEF InsertMessage
  <2>3. QED
    BY <2>1, <2>2 DEF StatusOfItsReport
<1>3. ASSUME NEW c \in Callers, OtherStep(c)
      PROVE  StatusOfItsReport'
  <2>1. reported' = reported
    BY <1>3 DEF OtherStep, UpdateConversation, BeginMarkUpTo, CountUnread, SetUnread,
       BeginDelete, DropMessages, DropConversation, CutShort, history
  <2>2. QED
    BY <1>3, <2>1, OtherStepFrame, StatusFrame
<1>4. ASSUME NEW c \in Callers, NEW m, DeleteMessage(c, m)
      PROVE  StatusOfItsReport'
  BY <1>4, StatusFrame DEF DeleteMessage, Remove
<1>5. ASSUME UNCHANGED <<messages, reported>>
      PROVE  StatusOfItsReport'
  BY <1>5 DEF StatusOfItsReport
<1>6. ASSUME \/ \E f \in Peers : AddContact(f)
             \/ \E c \in Callers, f \in Peers :
                   \/ \E dir \in {"in", "out"} : BeginStore(c, f, dir)
                   \/ LoadHistory(c, f) \/ MarkRead(c, f) \/ Archive(c, f)
             \/ \E c \in Callers : InsertConversation(c)
             \/ UNCHANGED vars
      PROVE  UNCHANGED <<messages, reported>>
  BY <1>6 DEF AddContact, BeginStore, LoadHistory, MarkRead, Archive,
              InsertConversation, vars, tables, history
<1>7. QED
  BY <1>1, <1>2, <1>3, <1>4, <1>5, <1>6 DEF Next, OtherStep

\* However long the application keeps the id of a message it sent, and whatever
\* is deleted and stored meanwhile, the delivery status it reports goes to that
\* message or to none: an id is never given out again (message_history.rs:134).
THEOREM StatusOfItsReportHolds == Spec => []StatusOfItsReport
<1>1. Init => HistoryInv /\ StatusOfItsReport
  BY HistoryInvInit DEF Init, StatusOfItsReport
<1>2. HistoryInv /\ StatusOfItsReport /\ [Next]_vars
         => (HistoryInv /\ StatusOfItsReport)'
  BY HistoryInvStep, StatusStep
<1>3. QED
  BY <1>1, <1>2, PTL DEF Spec

-----------------------------------------------------------------------------
(* The unread count on one connection.                                     *)

\* A call has stored an incoming message of f and not counted it yet.
Owing(f) ==
    \E c \in Callers : /\ step[c] = "updateConversation"
                       /\ arg[c].dir = "in" /\ arg[c].peer = f

Owed(f) == IF Owing(f) THEN 1 ELSE 0

\* The count is exact at every step, but for the message that is not counted yet.
Counted ==
    \A f \in DOMAIN conversations :
        conversations[f].unread + Owed(f) = Cardinality(Unread(f)) + drift[f]

\* A message belongs to a conversation that is there.
NoOrphans ==
    \A id \in DOMAIN messages :
        \E f \in DOMAIN conversations : messages[id].conv = conversations[f].id

\* What a statement may rely on when no other connection is at work: the
\* conversation is there under the id that was read, the count is still true, and
\* the messages are gone.
CallExact(s, a) ==
    /\ s \in {"insertMessage", "updateConversation", "countUnread", "setUnread"} =>
          /\ a.peer \in DOMAIN conversations
          /\ a.conv = ConversationOf(a.peer)
    /\ s = "setUnread" => a.count = Cardinality(NewerIncoming(a.conv, a.ts))
    /\ s = "dropConversation" => MessagesOf(a.conv) = {}

CallsExact == \A c \in Callers : CallExact(step[c], arg[c])

ExactInv == CallsExact /\ NoOrphans /\ Counted

\* The sets of messages that are counted are finite.
LEMMA MessagesFinite ==
    ASSUME HistoryInv, NEW S \in SUBSET DOMAIN messages
    PROVE  IsFiniteSet(S) /\ Cardinality(S) \in Nat
<1>1. lastMsg \in Nat /\ DOMAIN messages \subseteq 1 .. lastMsg
  BY BoundsAssumption
     DEF HistoryInv, TypesOK, RowsOK, SerialsOK, CountersOK, BoundsAssumption
<1>2. IsFiniteSet(1 .. lastMsg)
  BY <1>1, FS_Interval
<1>3. IsFiniteSet(S)
  BY <1>1, <1>2, FS_Subset
<1>4. QED
  BY <1>3, FS_CardinalityType

\* The numbers that the unread count is made up of.
LEMMA CountsTyped ==
    ASSUME HistoryInv, NEW f \in DOMAIN conversations
    PROVE  /\ f \in Peers
           /\ conversations[f] \in ConversationRow
           /\ conversations[f].unread \in Nat
           /\ drift[f] \in Int
           /\ IsFiniteSet(Unread(f)) /\ Cardinality(Unread(f)) \in Nat
<1>1. conversations[f] \in ConversationRow /\ f \in Peers
  BY DEF HistoryInv, TypesOK, RowsOK
<1>2. conversations[f].unread \in Nat
  BY <1>1 DEF ConversationRow
<1>3. drift[f] \in Int
  BY <1>1 DEF HistoryInv, TypesOK, MarksOK
<1>4. Unread(f) \in SUBSET DOMAIN messages
  BY DEF Unread, MessagesOf
<1>5. QED
  BY <1>1, <1>2, <1>3, <1>4, MessagesFinite

\* What the one caller owes.
LEMMA OwedByOne ==
    ASSUME NEW app, Callers = {app}, NEW f
    PROVE  /\ Owing(f) <=> /\ step[app] = "updateConversation"
                           /\ arg[app].dir = "in" /\ arg[app].peer = f
           /\ Owing(f)' <=> /\ step'[app] = "updateConversation"
                            /\ arg'[app].dir = "in" /\ arg'[app].peer = f
           /\ step[app] # "updateConversation" => Owed(f) = 0
           /\ step'[app] # "updateConversation" => Owed(f)' = 0
BY DEF Owing, Owed

\* At rest the count is exact.
LEMMA ExactAtRest == HistoryInv /\ ExactInv => UnreadIsExact
<1> SUFFICES ASSUME HistoryInv, ExactInv,
                    \A c \in Callers : step[c] = "idle",
                    NEW f \in DOMAIN conversations
             PROVE  conversations[f].unread = Cardinality(Unread(f)) + drift[f]
  BY DEF UnreadIsExact, Busy
<1>1. Owed(f) = 0
  BY DEF Owed, Owing
<1>2. conversations[f].unread + 0 = Cardinality(Unread(f)) + drift[f]
  BY <1>1 DEF ExactInv, Counted
<1>3. QED
  BY <1>2, CountsTyped

\* A step that leaves the ids, the counts and the messages, but perhaps for
\* their statuses and the archived flags.
LEMMA CountsFrame ==
    ASSUME HistoryInv, ExactInv,
           UNCHANGED <<toRead, drift>>,
           DOMAIN conversations' = DOMAIN conversations,
           \A f \in DOMAIN conversations :
               /\ conversations'[f].id = conversations[f].id
               /\ conversations'[f].unread = conversations[f].unread,
           DOMAIN messages' = DOMAIN messages,
           \A id \in DOMAIN messages :
               /\ messages'[id].conv = messages[id].conv
               /\ messages'[id].dir = messages[id].dir
               /\ messages'[id].ts = messages[id].ts,
           \A f \in DOMAIN conversations : Owed(f)' = Owed(f)
    PROVE  /\ NoOrphans' /\ Counted'
           /\ \A s, a : CallExact(s, a) => CallExact(s, a)'
<1>1. NoOrphans'
  BY DEF ExactInv, NoOrphans
<1>2. \A i, t : NewerIncoming(i, t)' = NewerIncoming(i, t)
  BY DEF NewerIncoming, MessagesOf
<1>3. \A i : MessagesOf(i)' = MessagesOf(i)
  BY DEF MessagesOf
<1>4. \A f \in DOMAIN conversations : ConversationOf(f)' = ConversationOf(f)
  BY DEF ConversationOf
<1>5. ASSUME NEW f \in DOMAIN conversations
      PROVE  Unread(f)' = Unread(f)
  BY DEF Unread, MessagesOf, ConversationOf
<1>6. Counted'
  BY <1>5 DEF ExactInv, Counted
<1>7. ASSUME NEW s, NEW a, CallExact(s, a)
      PROVE  CallExact(s, a)'
  BY <1>2, <1>3, <1>4, <1>7 DEF CallExact
<1>8. QED
  BY <1>1, <1>6, <1>7

\* A step of the one caller that leaves the tables and the marks.
LEMMA GoExact ==
    ASSUME NEW app, Callers = {app}, HistoryInv, ExactInv,
           NEW s, NEW a, Go(app, s, a), CallExact(s, a),
           UNCHANGED <<conversations, messages, toRead, drift>>,
           s # "updateConversation",
           step[app] = "updateConversation" => arg[app].dir # "in"
    PROVE  ExactInv'
<1>1. step'[app] = s /\ arg'[app] = a
  BY DEF Go, HistoryInv, FilingInv, CallsTyped
<1>2. \A f \in DOMAIN conversations : Owed(f)' = Owed(f)
  BY <1>1, OwedByOne DEF Owed
<1>3. NoOrphans' /\ Counted' /\ CallExact(s, a)'
  BY <1>2, CountsFrame
<1>4. CallsExact'
  BY <1>1, <1>3 DEF CallsExact, CallExact
<1>5. QED
  BY <1>3, <1>4 DEF ExactInv

\* Steps that store no message, delete none and change no count.
LEMMA QuietExact ==
    ASSUME NEW app, Callers = {app}, HistoryInv, ExactInv,
           \/ \E f \in Peers : AddContact(f) \/ LoadHistory(app, f) \/ Archive(app, f)
           \/ \E s \in Reports : UpdateDeliveryStatus(app, s)
           \/ UNCHANGED vars
    PROVE  ExactInv'
<1>1. UNCHANGED <<step, arg, toRead, drift>>
  BY DEF AddContact, LoadHistory, Archive, UpdateDeliveryStatus, vars, calls, history
<1>2. /\ DOMAIN conversations' = DOMAIN conversations
      /\ \A f \in DOMAIN conversations :
            /\ conversations'[f].id = conversations[f].id
            /\ conversations'[f].unread = conversations[f].unread
  <2>1. CASE conversations' = conversations
    BY <2>1
  <2>2. ASSUME NEW f \in Peers, Archive(app, f)
        PROVE  <1>2!1 /\ <1>2!2
    <3>1. conversations' = [conversations EXCEPT ![f].archived = ~ @]
      BY <2>2 DEF Archive
    <3>2. \A g \in DOMAIN conversations : conversations[g] \in ConversationRow
      BY DEF HistoryInv, TypesOK, RowsOK
    <3>3. QED
      BY <3>1, <3>2 DEF ConversationRow
  <2>3. QED
    BY <2>1, <2>2 DEF AddContact, LoadHistory, UpdateDeliveryStatus, vars, tables
<1>3. /\ DOMAIN messages' = DOMAIN messages
      /\ \A id \in DOMAIN messages :
            /\ messages'[id].conv = messages[id].conv
            /\ messages'[id].dir = messages[id].dir
            /\ messages'[id].ts = messages[id].ts
  <2>1. CASE messages' = messages
    BY <2>1
  <2>2. ASSUME NEW s \in Reports, UpdateDeliveryStatus(app, s)
        PROVE  <1>3!1 /\ <1>3!2
    <3>1. PICK m \in outbox : messages' = [id \in DOMAIN messages |->
                IF id = m[1] THEN [messages[id] EXCEPT !.status = s]
                             ELSE messages[id]]
      BY <2>2 DEF UpdateDeliveryStatus
    <3>2. \A id \in DOMAIN messages : messages[id] \in MessageRow
      BY DEF HistoryInv, TypesOK, RowsOK
    <3>3. ASSUME NEW row \in MessageRow
          PROVE  LET new == [row EXCEPT !.status = s]
                 IN  new.conv = row.conv /\ new.dir = row.dir /\ new.ts = row.ts
      BY DEF MessageRow
    <3>4. QED
      BY <3>1, <3>2, <3>3
  <2>3. QED
    BY <2>1, <2>2 DEF AddContact, LoadHistory, Archive, vars, tables
<1>4. \A f \in DOMAIN conversations : Owed(f)' = Owed(f)
  BY <1>1 DEF Owed, Owing
<1>5. NoOrphans' /\ Counted' /\ \A s, a : CallExact(s, a) => CallExact(s, a)'
  BY <1>1, <1>2, <1>3, <1>4, CountsFrame
<1>6. CallsExact'
  BY <1>1, <1>5 DEF ExactInv, CallsExact
<1>7. QED
  BY <1>5, <1>6 DEF ExactInv

\* A call that stores a message knows the conversation, or that there is none.
LEMMA BeginStoreExact ==
    ASSUME NEW app, Callers = {app},
           HistoryInv, ExactInv, NEW f \in Peers, NEW dir \in {"in", "out"},
           BeginStore(app, f, dir)
    PROVE  ExactInv'
<1>1. UNCHANGED <<conversations, messages, toRead, drift>>
      /\ step[app] = "idle"
  BY DEF BeginStore, tables, history, Busy
<1>2. PICK t \in Timestamps :
         IF f \in DOMAIN conversations
         THEN Go(app, "insertMessage", Args(f, dir, t, ConversationOf(f)))
         ELSE Go(app, "insertConversation", Args(f, dir, t, 0))
  BY DEF BeginStore
<1>3. /\ f \in DOMAIN conversations =>
            CallExact("insertMessage", Args(f, dir, t, ConversationOf(f)))
      /\ CallExact("insertConversation", Args(f, dir, t, 0))
  BY DEF CallExact, Args
<1>4. QED
  BY <1>1, <1>2, <1>3, GoExact

\* A call ends, refused or cut short, with nothing left to count.
LEMMA EndExact ==
    ASSUME NEW app, Callers = {app}, HistoryInv, ExactInv, Done(app),
           UNCHANGED <<conversations, messages, toRead, drift>>,
           step[app] = "updateConversation" => arg[app].dir # "in"
    PROVE  ExactInv'
<1>1. Go(app, "idle", NoArg)
  BY DEF Done
<1>2. CallExact("idle", NoArg)
  BY DEF CallExact
<1>3. QED
  BY <1>1, <1>2, GoExact

\* The first statements of a mark as read and of a deletion read the id of the
\* conversation, and the count is taken of what is there.
LEMMA ReadExact ==
    ASSUME NEW app, Callers = {app}, HistoryInv, ExactInv,
           \/ BeginMarkUpTo(app) \/ CountUnread(app)
           \/ \E f \in Peers : BeginDelete(app, f)
    PROVE  ExactInv'
<1>1. UNCHANGED <<conversations, messages, toRead, drift>>
  BY DEF BeginMarkUpTo, CountUnread, BeginDelete, tables, history
<1>2. CASE BeginMarkUpTo(app)
  <2> DEFINE f == page[app].peer
             a == Args(f, "none", page[app].upTo, ConversationOf(f))
  <2>1. Go(app, "countUnread", a) /\ step[app] = "idle" /\ f \in DOMAIN conversations
    BY <1>2 DEF BeginMarkUpTo, Busy
  <2>2. CallExact("countUnread", a)
    BY <2>1 DEF CallExact, Args
  <2> HIDE DEF a
  <2>3. QED
    BY <1>1, <2>1, <2>2, GoExact
<1>3. CASE CountUnread(app)
  <2> DEFINE n == Cardinality(NewerIncoming(arg[app].conv, arg[app].ts))
             a == [arg[app] EXCEPT !.count = n]
  <2>1. Go(app, "setUnread", a) /\ step[app] = "countUnread"
    BY <1>3 DEF CountUnread, Busy
  <2>2. /\ a.peer = arg[app].peer /\ a.conv = arg[app].conv /\ a.ts = arg[app].ts
        /\ a.count = n
    BY DEF HistoryInv, FilingInv, CallsTyped, IsLocals
  <2>3. CallExact("countUnread", arg[app])
    BY <2>1 DEF ExactInv, CallsExact
  <2> HIDE DEF a
  <2>4. CallExact("setUnread", a)
    BY <2>2, <2>3 DEF CallExact
  <2>5. QED
    BY <1>1, <2>1, <2>4, GoExact
<1>4. ASSUME NEW f \in Peers, BeginDelete(app, f)
      PROVE  ExactInv'
  <2> DEFINE a == Args("none", "none", 0, ConversationOf(f))
  <2>1. Go(app, "dropMessages", a) /\ step[app] = "idle"
    BY <1>4 DEF BeginDelete, Busy
  <2>2. CallExact("dropMessages", a)
    BY DEF CallExact
  <2> HIDE DEF a
  <2>3. QED
    BY <1>1, <2>1, <2>2, GoExact
<1>5. QED
  BY <1>2, <1>3, <1>4

\* A mark as read leaves nothing to read.
LEMMA MarkReadExact ==
    ASSUME NEW app, Callers = {app}, HistoryInv, ExactInv,
           NEW f \in Peers, MarkRead(app, f)
    PROVE  ExactInv'
<1>1. /\ UNCHANGED <<step, arg, messages>>
      /\ step[app] = "idle" /\ f \in DOMAIN conversations
      /\ conversations' = [conversations EXCEPT ![f].unread = 0]
      /\ toRead' = toRead \ MessagesOf(ConversationOf(f))
      /\ drift' = [drift EXCEPT ![f] = 0]
  BY DEF MarkRead, calls, Busy
<1>2. /\ DOMAIN conversations' = DOMAIN conversations
      /\ conversations'[f].unread = 0
      /\ \A g \in DOMAIN conversations : conversations'[g].id = conversations[g].id
      /\ \A g \in DOMAIN conversations \ {f} : conversations'[g] = conversations[g]
  BY <1>1, CountsTyped DEF ConversationRow
<1>3. drift'[f] = 0
  BY <1>1 DEF HistoryInv, TypesOK, MarksOK
<1>4. \A g \in DOMAIN conversations \ {f} : drift'[g] = drift[g]
  BY <1>1, CountsTyped DEF HistoryInv, TypesOK, MarksOK
<1>5. \A g \in DOMAIN conversations : Owed(g) = 0 /\ Owed(g)' = 0
  BY <1>1, OwedByOne
<1>6. Unread(f)' = {}
  BY <1>1, <1>2 DEF Unread, MessagesOf, ConversationOf
<1>7. Cardinality(Unread(f)') = 0
  BY <1>6, FS_EmptySet
<1>8. ASSUME NEW g \in DOMAIN conversations \ {f}
      PROVE  Unread(g)' = Unread(g)
  <2>1. ConversationOf(g) # ConversationOf(f)
    BY <1>1 DEF ConversationOf, HistoryInv, FilingInv, ConversationIdsOK
  <2>2. QED
    BY <1>1, <1>2, <2>1 DEF Unread, MessagesOf, ConversationOf
<1>9. Counted'
  <2>1. SUFFICES ASSUME NEW g \in DOMAIN conversations
                 PROVE  conversations'[g].unread + Owed(g)'
                           = Cardinality(Unread(g)') + drift'[g]
    BY <1>2 DEF Counted
  <2>2. CASE g = f
    BY <1>2, <1>3, <1>5, <1>7, <2>2
  <2>3. CASE g # f
    BY <1>2, <1>4, <1>5, <1>8, <2>3 DEF ExactInv, Counted
  <2>4. QED
    BY <2>2, <2>3
<1>10. NoOrphans'
  BY <1>1, <1>2 DEF ExactInv, NoOrphans
<1>11. CallsExact'
  BY <1>1 DEF CallsExact, CallExact
<1>12. QED
  BY <1>9, <1>10, <1>11 DEF ExactInv

\* One conversation has the id of that of f.
LEMMA WithIdOfPeer ==
    ASSUME HistoryInv, NEW f \in DOMAIN conversations
    PROVE  WithId(ConversationOf(f)) = {f}
BY DEF WithId, ConversationOf, HistoryInv, FilingInv, ConversationIdsOK

\* A new conversation has an id that no message has: nothing is unread in it.
LEMMA InsertConversationExact ==
    ASSUME NEW app, Callers = {app}, HistoryInv, ExactInv,
           NEW f, arg[app].peer = f, InsertConversation(app)
    PROVE  ExactInv'
<1> DEFINE a == [arg[app] EXCEPT !.conv = NextConversationId]
<1>1. UNCHANGED <<messages, toRead>> /\ step[app] = "insertConversation"
  BY DEF InsertConversation, Busy
<1>2. CASE Done(app) /\ UNCHANGED <<conversations, lastConv, drift>>
  BY <1>1, <1>2, EndExact
<1>3. ASSUME f \notin DOMAIN conversations,
             conversations' = [g \in DOMAIN conversations \cup {f} |->
                IF g = f THEN [id |-> NextConversationId, last |-> 0, unread |-> 0,
                               archived |-> FALSE]
                         ELSE conversations[g]],
             drift' = [drift EXCEPT ![f] = 0],
             Go(app, "insertMessage", a)
      PROVE  ExactInv'
  <2>1. /\ lastConv \in Nat /\ NextConversationId = lastConv + 1
        /\ \A id \in DOMAIN messages : messages[id].conv \in 0 .. lastConv
    BY DEF HistoryInv, FilingInv, ConversationIdsOK, NextConversationId
  <2>2. f \in Peers /\ IsLocals(arg[app])
    BY <1>1 DEF HistoryInv, FilingInv, CallsTyped, TypesOK, ArgsOK, LocalsOK
  <2>3. a.peer = f /\ a.conv = lastConv + 1
    BY <2>1, <2>2 DEF IsLocals
  <2>4. step'[app] = "insertMessage" /\ arg'[app] = a
    BY <1>3 DEF Go, HistoryInv, FilingInv, CallsTyped
  <2> HIDE DEF a
  <2>5. /\ DOMAIN conversations' = DOMAIN conversations \cup {f}
        /\ conversations'[f].id = lastConv + 1 /\ conversations'[f].unread = 0
        /\ \A g \in DOMAIN conversations : conversations'[g] = conversations[g]
    BY <1>3, <2>1
  <2>6. /\ drift'[f] = 0
        /\ \A g \in DOMAIN conversations : drift'[g] = drift[g]
    BY <1>3, <2>2, CountsTyped DEF HistoryInv, TypesOK, MarksOK
  <2>7. \A g : Owed(g) = 0 /\ Owed(g)' = 0
    BY <1>1, <2>4, OwedByOne
  <2>8. Unread(f)' = {}
    BY <1>1, <2>1, <2>5 DEF Unread, MessagesOf, ConversationOf
  <2>9. Cardinality(Unread(f)') = 0
    BY <2>8, FS_EmptySet
  <2>10. \A g \in DOMAIN conversations : Unread(g)' = Unread(g)
    BY <1>1, <2>5 DEF Unread, MessagesOf, ConversationOf
  <2>11. Counted'
    <3>1. SUFFICES ASSUME NEW g \in DOMAIN conversations'
                   PROVE  conversations'[g].unread + Owed(g)'
                             = Cardinality(Unread(g)') + drift'[g]
      BY DEF Counted
    <3>2. CASE g = f
      BY <2>5, <2>6, <2>7, <2>9, <3>2
    <3>3. CASE g # f
      BY <2>5, <2>6, <2>7, <2>10, <3>3 DEF ExactInv, Counted
    <3>4. QED
      BY <3>2, <3>3
  <2>12. NoOrphans'
    BY <1>1, <2>5 DEF ExactInv, NoOrphans
  <2>13. CallExact(step[app], arg[app])'
    BY <1>1, <2>3, <2>4, <2>5 DEF CallExact, ConversationOf
  <2>14. QED
    BY <2>11, <2>12, <2>13 DEF ExactInv, CallsExact
<1>4. QED
  BY <1>2, <1>3 DEF InsertConversation

\* An incoming message joins the unread, and is owed.
LEMMA InsertMessageExact ==
    ASSUME NEW app, Callers = {app}, HistoryInv, ExactInv,
           NEW f, arg[app].peer = f, InsertMessage(app)
    PROVE  ExactInv'
<1> DEFINE a == arg[app]
           n == NextMessageId
<1>1. UNCHANGED <<conversations, drift>> /\ step[app] = "insertMessage"
  BY DEF InsertMessage, Busy
<1>2. CASE Done(app) /\ UNCHANGED <<messages, toRead>>
  BY <1>1, <1>2, EndExact
<1>3. ASSUME messages' = [id \in DOMAIN messages \cup {n} |->
                IF id = n
                THEN [conv |-> a.conv, dir |-> a.dir, ts |-> a.ts,
                      status |-> "pending", peer |-> f, serial |-> serial + 1]
                ELSE messages[id]],
             toRead' = IF a.dir = "in" THEN toRead \cup {n} ELSE toRead,
             Go(app, "updateConversation", [a EXCEPT !.msg = <<n, serial + 1>>])
      PROVE  ExactInv'
  <2>1. n \notin DOMAIN messages /\ n \notin toRead
    BY BoundsAssumption
       DEF NextMessageId, HistoryInv, TypesOK, RowsOK, SerialsOK, CountersOK,
           MarksOK, BoundsAssumption
  <2>2. /\ f \in DOMAIN conversations /\ a.conv = ConversationOf(f)
    BY <1>1 DEF ExactInv, CallsExact, CallExact
  <2>3. IsLocals(a) /\ a.dir \in {"in", "out"}
    BY <1>1 DEF HistoryInv, FilingInv, CallsTyped, TypesOK, ArgsOK, LocalsOK
  <2>4. /\ step'[app] = "updateConversation"
        /\ arg'[app].peer = f /\ arg'[app].conv = a.conv /\ arg'[app].dir = a.dir
    BY <1>3, <2>3 DEF Go, HistoryInv, FilingInv, CallsTyped, IsLocals
  <2> HIDE DEF n
  <2>5. /\ DOMAIN messages' = DOMAIN messages \cup {n}
        /\ messages'[n].conv = a.conv
        /\ \A id \in DOMAIN messages : messages'[id] = messages[id]
    BY <1>3, <2>1
  <2>6. \A g : Owed(g) = 0
    BY <1>1, OwedByOne
  <2>7. \A g : Owed(g)' = IF a.dir = "in" /\ g = f THEN 1 ELSE 0
    BY <2>4, OwedByOne DEF Owed
  <2>8. ASSUME NEW g \in DOMAIN conversations, g # f \/ a.dir # "in"
        PROVE  Unread(g)' = Unread(g)
    <3>1. g # f => ConversationOf(g) # a.conv
      BY <2>2 DEF ConversationOf, HistoryInv, FilingInv, ConversationIdsOK
    <3>2. QED
      BY <1>1, <1>3, <2>1, <2>5, <2>8, <3>1
         DEF Unread, MessagesOf, ConversationOf
  <2>9. ASSUME a.dir = "in"
        PROVE  Cardinality(Unread(f)') = Cardinality(Unread(f)) + 1
    <3>1. Unread(f)' = Unread(f) \cup {n}
      BY <1>1, <1>3, <2>1, <2>2, <2>5, <2>9
         DEF Unread, MessagesOf, ConversationOf
    <3>2. n \notin Unread(f)
      BY <2>1 DEF Unread, MessagesOf
    <3>3. IsFiniteSet(Unread(f))
      BY <2>2, CountsTyped
    <3>4. QED
      BY <3>1, <3>2, <3>3, FS_AddElement
  <2>10. Counted'
    <3>1. SUFFICES ASSUME NEW g \in DOMAIN conversations
                   PROVE  conversations'[g].unread + Owed(g)'
                             = Cardinality(Unread(g)') + drift'[g]
      BY <1>1 DEF Counted
    <3>2. /\ conversations[g].unread + 0 = Cardinality(Unread(g)) + drift[g]
          /\ conversations[g].unread \in Nat /\ drift[g] \in Int
          /\ Cardinality(Unread(g)) \in Nat
      BY <2>6, CountsTyped DEF ExactInv, Counted
    <3>3. CASE g = f /\ a.dir = "in"
      BY <1>1, <2>7, <2>9, <3>2, <3>3
    <3>4. CASE g # f \/ a.dir # "in"
      BY <1>1, <2>7, <2>8, <3>2, <3>4
    <3>5. QED
      BY <3>3, <3>4
  <2>11. NoOrphans'
    BY <1>1, <2>2, <2>5 DEF ExactInv, NoOrphans, ConversationOf
  <2>12. CallExact(step[app], arg[app])'
    BY <1>1, <2>2, <2>4 DEF CallExact, ConversationOf
  <2>13. QED
    BY <2>10, <2>11, <2>12 DEF ExactInv, CallsExact
<1>4. QED
  BY <1>2, <1>3 DEF InsertMessage

\* A change of the count of one conversation, which ends a call.
LEMMA SettleExact ==
    ASSUME NEW app, Callers = {app}, HistoryInv, ExactInv, Done(app),
           messages' = messages,
           NEW f \in DOMAIN conversations,
           DOMAIN conversations' = DOMAIN conversations,
           \A g \in DOMAIN conversations :
               /\ conversations'[g].id = conversations[g].id
               /\ g # f => /\ conversations'[g].unread = conversations[g].unread
                           /\ drift'[g] = drift[g]
                           /\ Unread(g)' = Unread(g)
                           /\ Owed(g) = 0,
           conversations'[f].unread = Cardinality(Unread(f)') + drift'[f],
           conversations'[f].unread \in Nat
    PROVE  ExactInv'
<1>1. step'[app] = "idle"
  BY DEF Done, Go, HistoryInv, FilingInv, CallsTyped
<1>2. \A g : Owed(g)' = 0
  BY <1>1, OwedByOne
<1>3. \A g \in DOMAIN conversations \ {f} : Unread(g)' = Unread(g)
  OBVIOUS
<1>4. Counted'
  <2>1. SUFFICES ASSUME NEW g \in DOMAIN conversations
                 PROVE  conversations'[g].unread + Owed(g)'
                           = Cardinality(Unread(g)') + drift'[g]
    BY DEF Counted
  <2>2. CASE g = f
    BY <1>2, <2>2
  <2>3. CASE g # f
    BY <1>2, <1>3, <2>3 DEF ExactInv, Counted
  <2>4. QED
    BY <2>2, <2>3
<1>5. NoOrphans'
  BY DEF ExactInv, NoOrphans
<1>6. CallsExact'
  BY <1>1 DEF CallsExact, CallExact
<1>7. QED
  BY <1>4, <1>5, <1>6 DEF ExactInv

\* What was owed is counted.
LEMMA UpdateConversationExact ==
    ASSUME NEW app, Callers = {app}, HistoryInv, ExactInv,
           NEW f, arg[app].peer = f, UpdateConversation(app)
    PROVE  ExactInv'
<1> DEFINE a == arg[app]
           more == IF a.dir = "in" THEN 1 ELSE 0
<1>1. UNCHANGED <<messages, toRead, drift>> /\ Done(app)
      /\ step[app] = "updateConversation"
  BY DEF UpdateConversation, history, Busy
<1>2. f \in DOMAIN conversations /\ a.conv = ConversationOf(f)
  BY <1>1 DEF ExactInv, CallsExact, CallExact
<1>3. WithId(a.conv) = {f}
  BY <1>2, WithIdOfPeer
<1>4. conversations' = [g \in DOMAIN conversations |->
         IF g \in WithId(a.conv) THEN Touched(conversations[g], a.ts, more)
                                 ELSE conversations[g]]
  BY DEF UpdateConversation
<1>5. Owed(f) = more /\ more \in Nat /\ \A g : g # f => Owed(g) = 0
  BY <1>1, OwedByOne DEF Owed
<1> HIDE DEF more
<1>6. /\ DOMAIN conversations' = DOMAIN conversations
      /\ conversations'[f].unread = conversations[f].unread + more
      /\ conversations'[f].id = conversations[f].id
      /\ \A g \in DOMAIN conversations \ {f} : conversations'[g] = conversations[g]
  BY <1>2, <1>3, <1>4 DEF Touched
<1>7. \A g \in DOMAIN conversations : Unread(g)' = Unread(g)
  BY <1>1, <1>2, <1>6 DEF Unread, MessagesOf, ConversationOf
<1>8. conversations'[f].unread = Cardinality(Unread(f)') + drift'[f]
  BY <1>1, <1>2, <1>5, <1>6, <1>7 DEF ExactInv, Counted
<1>9. conversations'[f].unread \in Nat
  BY <1>2, <1>5, <1>6, CountsTyped
<1>10. QED
  BY <1>1, <1>2, <1>5, <1>6, <1>7, <1>8, <1>9, SettleExact

\* The count that was taken is still true when it is written.
LEMMA SetUnreadExact ==
    ASSUME NEW app, Callers = {app}, HistoryInv, ExactInv,
           NEW f, arg[app].peer = f, SetUnread(app)
    PROVE  ExactInv'
<1> DEFINE a == arg[app]
<1>1. messages' = messages /\ Done(app) /\ step[app] = "setUnread"
  BY DEF SetUnread, Busy
<1>2. /\ f \in DOMAIN conversations /\ a.conv = ConversationOf(f)
      /\ a.count = Cardinality(NewerIncoming(a.conv, a.ts))
  BY <1>1 DEF ExactInv, CallsExact, CallExact
<1>3. WithId(a.conv) = {f}
  BY <1>2, WithIdOfPeer
<1>4. /\ conversations' = [g \in DOMAIN conversations |->
             IF g \in WithId(a.conv) THEN [conversations[g] EXCEPT !.unread = a.count]
                                     ELSE conversations[g]]
      /\ toRead' = (toRead \ MessagesOf(a.conv)) \cup NewerIncoming(a.conv, a.ts)
      /\ drift' = [drift EXCEPT ![f] = 0]
  BY DEF SetUnread
<1>5. /\ DOMAIN conversations' = DOMAIN conversations
      /\ conversations'[f].unread = a.count
      /\ conversations'[f].id = conversations[f].id
      /\ \A g \in DOMAIN conversations \ {f} : conversations'[g] = conversations[g]
  <2>1. conversations[f] \in ConversationRow
    BY <1>2, CountsTyped
  <2>2. QED
    BY <1>2, <1>3, <1>4, <2>1 DEF ConversationRow
<1>6. drift'[f] = 0 /\ \A g \in DOMAIN conversations \ {f} : drift'[g] = drift[g]
  BY <1>2, <1>4, CountsTyped DEF HistoryInv, TypesOK, MarksOK
<1>7. Unread(f)' = NewerIncoming(a.conv, a.ts)
  BY <1>1, <1>2, <1>4, <1>5 DEF Unread, NewerIncoming, MessagesOf, ConversationOf
<1>8. ASSUME NEW g \in DOMAIN conversations, g # f
       PROVE  Unread(g)' = Unread(g)
  <2>1. ConversationOf(g) # a.conv
    BY <1>2, <1>8 DEF ConversationOf, HistoryInv, FilingInv, ConversationIdsOK
  <2>2. QED
    BY <1>1, <1>4, <1>5, <1>8, <2>1
       DEF Unread, NewerIncoming, MessagesOf, ConversationOf
<1>9. a.count \in Nat
  BY <1>2, MessagesFinite DEF NewerIncoming, MessagesOf
<1>10. conversations'[f].unread = Cardinality(Unread(f)') + drift'[f]
  BY <1>2, <1>5, <1>6, <1>7, <1>9
<1>11. \A g : Owed(g) = 0
  BY <1>1, OwedByOne
<1>12. QED
  BY <1>1, <1>2, <1>5, <1>6, <1>8, <1>9, <1>10, <1>11, SettleExact

\* What a deletion takes from the unread it adds to the drift.
LEMMA ForgetExact ==
    ASSUME NEW app, Callers = {app}, HistoryInv, ExactInv,
           NEW ids \in SUBSET DOMAIN messages,
           messages' = Remove(messages, ids), Forget(ids),
           conversations' = conversations,
           step[app] # "updateConversation", step'[app] # "updateConversation"
    PROVE  NoOrphans' /\ Counted'
<1>1. NoOrphans'
  BY DEF ExactInv, NoOrphans, Remove
<1>2. ASSUME NEW f \in DOMAIN conversations
      PROVE  Cardinality(Unread(f)') + drift'[f] = Cardinality(Unread(f)) + drift[f]
  <2> DEFINE lost == {id \in ids \cap toRead : messages[id].peer = f}
  <2>1. \A id \in DOMAIN messages :
           messages[id].peer = f <=> messages[id].conv = ConversationOf(f)
    <3>1. SUFFICES ASSUME NEW id \in DOMAIN messages
                   PROVE  messages[id].peer = f <=> messages[id].conv = ConversationOf(f)
      OBVIOUS
    <3>2. PICK g \in DOMAIN conversations : messages[id].conv = ConversationOf(g)
      BY DEF ExactInv, NoOrphans, ConversationOf
    <3>3. messages[id].peer = g
      BY <3>2 DEF HistoryInv, FilingInv, MessagesFiledUnderPeer, WithId, ConversationOf
    <3>4. ConversationOf(g) = ConversationOf(f) => g = f
      BY DEF ConversationOf, HistoryInv, FilingInv, ConversationIdsOK
    <3>5. QED
      BY <3>2, <3>3, <3>4
  <2>2. lost = Unread(f) \cap ids
    BY <2>1 DEF Unread, MessagesOf
  <2>3. Unread(f)' = Unread(f) \ ids
    BY DEF Unread, MessagesOf, ConversationOf, Remove, Forget
  <2>4. /\ f \in Peers /\ drift[f] \in Int
        /\ IsFiniteSet(Unread(f)) /\ Cardinality(Unread(f)) \in Nat
    BY CountsTyped
  <2>5. drift'[f] = drift[f] + Cardinality(lost)
    BY <2>4 DEF Forget
  <2> HIDE DEF lost
  <2>6. Cardinality(Unread(f) \ ids)
           = Cardinality(Unread(f)) - Cardinality(Unread(f) \cap ids)
    BY <2>4, FS_Difference
  <2>7. Cardinality(Unread(f) \cap ids) \in Nat
    BY <2>4, FS_Subset, FS_CardinalityType
  <2>8. QED
    BY <2>2, <2>3, <2>4, <2>5, <2>6, <2>7
<1>3. \A f : Owed(f) = 0 /\ Owed(f)' = 0
  BY OwedByOne
<1>4. Counted'
  <2>1. SUFFICES ASSUME NEW f \in DOMAIN conversations
                 PROVE  conversations'[f].unread + Owed(f)'
                           = Cardinality(Unread(f)') + drift'[f]
    BY DEF Counted
  <2>2. conversations[f].unread + Owed(f) = Cardinality(Unread(f)) + drift[f]
    BY DEF ExactInv, Counted
  <2>3. conversations'[f].unread + Owed(f)' = conversations[f].unread + Owed(f)
    BY <1>3
  <2>4. QED
    BY <1>2, <2>2, <2>3
<1>5. QED
  BY <1>1, <1>4

\* delete_message between calls, and the first DELETE of delete_conversation.
LEMMA DeleteExact ==
    ASSUME NEW app, Callers = {app}, HistoryInv, ExactInv,
           (\E m \in 1 .. lastMsg : DeleteMessage(app, m)) \/ DropMessages(app)
    PROVE  ExactInv'
<1>1. ASSUME NEW m, DeleteMessage(app, m)
      PROVE  ExactInv'
  <2>1. /\ step[app] = "idle" /\ UNCHANGED <<step, arg, conversations>>
        /\ {m} \in SUBSET DOMAIN messages
        /\ messages' = Remove(messages, {m}) /\ Forget({m})
    BY <1>1 DEF DeleteMessage, Busy, calls
  <2>2. NoOrphans' /\ Counted'
    BY <2>1, ForgetExact
  <2>3. QED
    BY <2>1, <2>2 DEF ExactInv, CallsExact, CallExact
<1>2. CASE DropMessages(app)
  <2> DEFINE gone == MessagesOf(arg[app].conv)
  <2>1. /\ step[app] = "dropMessages" /\ conversations' = conversations
        /\ gone \in SUBSET DOMAIN messages
        /\ messages' = Remove(messages, gone) /\ Forget(gone)
        /\ Go(app, "dropConversation", arg[app])
    BY <1>2 DEF DropMessages, MessagesOf, Busy
  <2>2. step'[app] = "dropConversation" /\ arg'[app] = arg[app]
    BY <2>1 DEF Go, HistoryInv, FilingInv, CallsTyped
  <2>3. MessagesOf(arg[app].conv)' = {}
    BY <2>1, <2>2 DEF MessagesOf, Remove
  <2> HIDE DEF gone
  <2>4. NoOrphans' /\ Counted'
    BY <2>1, <2>2, ForgetExact
  <2>5. QED
    BY <2>2, <2>3, <2>4 DEF ExactInv, CallsExact, CallExact
<1>3. QED
  BY <1>1, <1>2

\* The conversation that goes has no messages left to be orphaned.
LEMMA DropConversationExact ==
    ASSUME NEW app, Callers = {app}, HistoryInv, ExactInv, DropConversation(app)
    PROVE  ExactInv'
<1> DEFINE i == arg[app].conv
<1>1. /\ UNCHANGED <<toRead, drift>> /\ Done(app)
      /\ step[app] = "dropConversation"
      /\ conversations' = Remove(conversations, WithId(i))
      /\ messages' = messages \/ messages' = Remove(messages, MessagesOf(i))
  BY DEF DropConversation, history, Busy
<1>2. MessagesOf(i) = {}
  BY <1>1 DEF ExactInv, CallsExact, CallExact
<1>3. /\ DOMAIN messages' = DOMAIN messages
      /\ \A id \in DOMAIN messages : messages'[id] = messages[id]
  BY <1>1, <1>2 DEF Remove
<1>4. /\ DOMAIN conversations' = DOMAIN conversations \ WithId(i)
      /\ \A f \in DOMAIN conversations' : conversations'[f] = conversations[f]
  BY <1>1 DEF Remove
<1>5. step'[app] = "idle"
  BY <1>1 DEF Done, Go, HistoryInv, FilingInv, CallsTyped
<1>6. \A f : Owed(f) = 0 /\ Owed(f)' = 0
  BY <1>1, <1>5, OwedByOne
<1>7. \A f \in DOMAIN conversations' : Unread(f)' = Unread(f)
  BY <1>1, <1>3, <1>4 DEF Unread, MessagesOf, ConversationOf
<1>8. Counted'
  BY <1>1, <1>4, <1>6, <1>7 DEF ExactInv, Counted
<1>9. NoOrphans'
  <2>1. SUFFICES ASSUME NEW id \in DOMAIN messages
                 PROVE  \E f \in DOMAIN conversations' :
                           messages[id].conv = conversations'[f].id
    BY <1>3 DEF NoOrphans
  <2>2. PICK f \in DOMAIN conversations : messages[id].conv = conversations[f].id
    BY DEF ExactInv, NoOrphans
  <2>3. f \notin WithId(i)
    BY <1>2, <2>2 DEF WithId, MessagesOf
  <2>4. QED
    BY <1>4, <2>2, <2>3
<1>10. CallsExact'
  BY <1>5 DEF CallsExact, CallExact
<1>11. QED
  BY <1>8, <1>9, <1>10 DEF ExactInv

\* A message that was stored and will not be counted goes to the drift.
LEMMA CutShortExact ==
    ASSUME NEW app, Callers = {app}, HistoryInv, ExactInv,
           NEW f, arg[app].peer = f, CutShort(app)
    PROVE  ExactInv'
<1>1. UNCHANGED <<conversations, messages, toRead>> /\ Done(app)
  BY DEF CutShort, tables
<1>2. CASE step[app] = "updateConversation" /\ arg[app].dir = "in"
  <2>1. drift' = [drift EXCEPT ![f] = @ - 1]
    BY <1>2 DEF CutShort, Busy
  <2>2. f \in DOMAIN conversations
    BY <1>2 DEF ExactInv, CallsExact, CallExact
  <2>3. \A g \in DOMAIN conversations :
           drift'[g] = IF g = f THEN drift[f] - 1 ELSE drift[g]
    BY <2>1, CountsTyped DEF HistoryInv, TypesOK, MarksOK
  <2>4. /\ Owed(f) = 1
        /\ \A g : g # f => Owed(g) = 0
    BY <1>2, OwedByOne DEF Owed
  <2>5. \A g \in DOMAIN conversations : Unread(g)' = Unread(g)
    BY <1>1 DEF Unread, MessagesOf, ConversationOf
  <2>6. /\ conversations[f].unread + 1 = Cardinality(Unread(f)) + drift[f]
        /\ conversations[f].unread \in Nat /\ drift[f] \in Int
        /\ Cardinality(Unread(f)) \in Nat
    BY <2>2, <2>4, CountsTyped DEF ExactInv, Counted
  <2>7. conversations'[f].unread = Cardinality(Unread(f)') + drift'[f]
        /\ conversations'[f].unread \in Nat
    BY <1>1, <2>2, <2>3, <2>5, <2>6
  <2>8. QED
    BY <1>1, <2>2, <2>3, <2>4, <2>5, <2>7, SettleExact
<1>3. CASE ~ (step[app] = "updateConversation" /\ arg[app].dir = "in")
  <2>1. drift' = drift
    BY <1>3 DEF CutShort, Busy
  <2>2. QED
    BY <1>1, <1>3, <2>1, EndExact
<1>4. QED
  BY <1>2, <1>3

\* Every step on the one connection keeps the count exact.
LEMMA ExactStep ==
    ASSUME NEW app, Callers = {app},
           HistoryInv, ExactInv, [Next]_vars
    PROVE  ExactInv'
<1>1. PICK f : f = arg[app].peer
  OBVIOUS
<1>2. CASE \/ \E g \in Peers : \/ AddContact(g) \/ LoadHistory(app, g)
                               \/ Archive(app, g)
           \/ \E s \in Reports : UpdateDeliveryStatus(app, s)
           \/ UNCHANGED vars
  BY <1>2, QuietExact
<1>3. ASSUME NEW g \in Peers,
             MarkRead(app, g) \/ \E dir \in {"in", "out"} : BeginStore(app, g, dir)
      PROVE  ExactInv'
  BY <1>3, MarkReadExact, BeginStoreExact
<1>4. CASE \/ BeginMarkUpTo(app) \/ CountUnread(app)
           \/ \E g \in Peers : BeginDelete(app, g)
  BY <1>4, ReadExact
<1>5. CASE \/ InsertConversation(app) \/ InsertMessage(app)
           \/ UpdateConversation(app) \/ SetUnread(app) \/ CutShort(app)
  BY <1>1, <1>5, InsertConversationExact, InsertMessageExact,
     UpdateConversationExact, SetUnreadExact, CutShortExact
<1>6. CASE \/ \E m \in 1 .. lastMsg : DeleteMessage(app, m)
           \/ DropMessages(app) \/ DropConversation(app)
  BY <1>6, DeleteExact, DropConversationExact
<1>7. QED
  BY <1>2, <1>3, <1>4, <1>5, <1>6 DEF Next

\* Used through one connection, whatever timestamps the messages have, the
\* library's unread count is at rest the number of stored incoming messages that
\* the last mark as read left out, but for those deleted unread and those of a
\* call cut short before update_conversation (message_history.rs:265): creating,
\* archiving, deleting and marking conversations in any order add no other error.
THEOREM UnreadIsExactHolds ==
    ASSUME NEW app, Callers = {app}
    PROVE  Spec => []UnreadIsExact
<1>1. Init => HistoryInv /\ ExactInv
  <2>1. Init => ExactInv
    BY DEF Init, ExactInv, CallsExact, CallExact, NoOrphans, Counted
  <2>2. QED
    BY <2>1, HistoryInvInit
<1>2. HistoryInv /\ ExactInv /\ [Next]_vars => (HistoryInv /\ ExactInv)'
  BY HistoryInvStep, ExactStep
<1>3. HistoryInv /\ ExactInv => UnreadIsExact
  BY ExactAtRest
<1>4. QED
  BY <1>1, <1>2, <1>3, PTL DEF Spec
=============================================================================
