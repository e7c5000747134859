------------------------------ MODULE ChatsProofs ------------------------------
(****************************************************************************)
(* Proofs about the bookkeeping of conversations, for any number of handlers   *)
(* at once, any users, and any number of requests and failures.  A message:     *)
(* one send creates and one deletion deletes, what is deleted stays so, no      *)
(* reaction is lost, and who is mentioned is told.  The tip and the unread      *)
(* number of a direct conversation, and that of a channel, are right when       *)
(* nobody works on them.  Bans keep out, uses of an invite are accounted for,   *)
(* and members have read states.  At last all of them side by side (MCChats).   *)
(****************************************************************************)
EXTENDS MCChats, FiniteSetTheorems, WellFoundedInduction, TLAPS

(****************************************************************************)
(* Messages.                                                                *)
(****************************************************************************)
MessageSet == [is : {"none", "live", "deleted"}, text : Nat, mentions : BOOLEAN,
               pinned : BOOLEAN, entry : BOOLEAN, users : SUBSET Reactor]
Stages == [does : {"rest", "send", "edit", "httpEdit", "delete", "httpDelete", "pin", "react"},
           at : {"start", "insert", "mention", "write", "unset", "add"},
           by : Reactor \cup {Sender, NoOne}, flag : BOOLEAN, prev : BOOLEAN]

\* Nothing but a send is about a message that is not there, and only who reacts reacts.
Typed ==
    /\ message \in MessageSet
    /\ handler \in [Handler -> Stages]
    /\ toggled \subseteq Reactor
    /\ \A h \in Handler :
        /\ handler[h].does \notin {"rest", "send"} => message.is # "none"
        /\ handler[h].does = "react" => handler[h].by \in Reactor

LEMMA InitTyped == MsgInit => Typed
  BY DEF MsgInit, Typed, NoMessage, Rest, MessageSet, Stages

\* A handler that goes on, ends or fails keeps its type.
LEMMA HandlerTyped ==
  ASSUME Typed, NEW h \in Handler,
         \/ \E at \in {"start", "insert", "mention", "write", "unset", "add"} : Goes(h, at)
         \/ Ends(h) \/ Fails(h)
  PROVE  /\ handler' \in [Handler -> Stages]
         /\ \A k \in Handler :
             /\ handler'[k].does \in {handler[k].does, "rest"}
             /\ handler'[k].by = handler[k].by \/ handler'[k].does = "rest"
<1>1. CASE Ends(h) \/ Fails(h)
  <2>1. Rest \in Stages /\ Rest.does = "rest"
    BY DEF Rest, Stages
  <2>2. handler' = [handler EXCEPT ![h] = Rest]
    BY <1>1 DEF Ends, Fails
  <2> HIDE DEF Rest
  <2> QED BY <2>1, <2>2 DEF Typed
<1>2. ASSUME NEW at \in {"start", "insert", "mention", "write", "unset", "add"}, Goes(h, at)
      PROVE  /\ handler' \in [Handler -> Stages]
             /\ \A k \in Handler : handler'[k].does = handler[k].does /\ handler'[k].by = handler[k].by
  BY <1>2 DEF Typed, Stages, Goes
<1> QED BY <1>1, <1>2

\* The ways a message is written keep its type, and whether it is there.
LEMMA InsertedTyped ==
  ASSUME NEW f \in BOOLEAN, message' = [NoMessage EXCEPT !.is = "live", !.mentions = f]
  PROVE  message' \in MessageSet /\ message'.is = "live" /\ message'.users = {}
                                 /\ message'.mentions = f
  BY DEF MessageSet, NoMessage

LEMMA EditedTyped ==
  ASSUME message \in MessageSet, NEW f \in BOOLEAN,
         message' = [message EXCEPT !.text = @ + 1, !.mentions = f]
  PROVE  message' \in MessageSet /\ message'.is = message.is /\ message'.users = message.users
                                 /\ message'.entry = message.entry /\ message'.mentions = f
<1>1. message' = [is |-> message.is, text |-> message.text + 1, mentions |-> f,
                  pinned |-> message.pinned, entry |-> message.entry, users |-> message.users]
  BY DEF MessageSet
<1>2. message.text + 1 \in Nat
  BY DEF MessageSet
<1> QED BY <1>1, <1>2 DEF MessageSet

LEMMA PinnedTyped ==
  ASSUME message \in MessageSet, NEW f \in BOOLEAN, message' = [message EXCEPT !.pinned = f]
  PROVE  /\ message' \in MessageSet
         /\ message'.is = message.is /\ message'.users = message.users
         /\ message'.entry = message.entry
         /\ message'.text = message.text /\ message'.mentions = message.mentions
  BY DEF MessageSet

LEMMA AddedTyped ==
  ASSUME message \in MessageSet, NEW u \in Reactor,
         message' = [message EXCEPT !.entry = TRUE, !.users = @ \cup {u}]
  PROVE  /\ message' \in MessageSet
         /\ message'.is = message.is /\ message'.users = message.users \cup {u}
         /\ message'.entry /\ message'.text = message.text
         /\ message'.mentions = message.mentions
<1>1. message' = [is |-> message.is, text |-> message.text, mentions |-> message.mentions,
                  pinned |-> message.pinned, entry |-> TRUE,
                  users |-> message.users \cup {u}]
  BY DEF MessageSet
<1>2. message.users \cup {u} \in SUBSET Reactor
  BY DEF MessageSet
<1> QED BY <1>1, <1>2 DEF MessageSet

LEMMA BegunTyped ==
  ASSUME Typed, NEW h \in Handler, NEW by \in Reactor \cup {Sender, NoOne},
         NEW does \in {"send", "edit", "httpEdit", "delete", "httpDelete", "pin", "react"},
         NEW flag \in BOOLEAN, does = "react" => by \in Reactor, Begin(h, does, by, flag)
  PROVE  Typed'
<1> DEFINE r == [Rest EXCEPT !.does = does, !.by = by, !.flag = flag]
<1>1. r \in Stages /\ r.does = does /\ r.by = by
  BY DEF Rest, Stages
<1>2. /\ handler' = [handler EXCEPT ![h] = r] /\ UNCHANGED <<message, toggled>>
      /\ does # "send" => message.is # "none"
  BY DEF Begin, history
<1> HIDE DEF r
<1> QED BY <1>1, <1>2 DEF Typed

LEMMA NextTyped ==
  ASSUME Typed, [MsgNext]_vars
  PROVE  Typed'
<1> USE DEF history
<1>1. ASSUME NEW h \in Handler, Request(h)
      PROVE  Typed'
  BY <1>1, BegunTyped DEF Request
<1>2. ASSUME NEW h \in Handler, SendLook(h)
      PROVE  Typed'
  <2>1. UNCHANGED <<message, toggled>>
    BY <1>2 DEF SendLook
  <2>2. CASE handler' = [handler EXCEPT ![h].at = "insert"]
    <3>1. handler' \in [Handler -> Stages]
      BY <2>2 DEF Typed, Stages
    <3>2. \A k \in Handler : handler'[k].does = handler[k].does /\ handler'[k].by = handler[k].by
      BY <2>2 DEF Typed, Stages
    <3> QED BY <2>1, <3>1, <3>2 DEF Typed
  <2>3. CASE Ends(h)
    BY <2>1, <2>3, HandlerTyped DEF Typed
  <2> QED BY <1>2, <2>2, <2>3 DEF SendLook, Goes
<1>3. ASSUME NEW h \in Handler, SendInsert(h)
      PROVE  Typed'
  <2>1. UNCHANGED toggled
    BY <1>3 DEF SendInsert
  <2>2. CASE /\ message' = [NoMessage EXCEPT !.is = "live", !.mentions = handler[h].flag]
             /\ handler' = [handler EXCEPT ![h].at = "mention", ![h].by = NoOne]
    <3>1. handler[h].flag \in BOOLEAN /\ handler[h].does = "send"
      BY <1>3 DEF SendInsert, Busy, Typed, Stages
    <3>2. message' \in MessageSet /\ message'.is = "live"
      BY <2>2, <3>1, InsertedTyped
    <3>3. handler' \in [Handler -> Stages]
      <4> DEFINE r == [handler[h] EXCEPT !.at = "mention", !.by = NoOne]
      <4>1. r \in Stages
        BY DEF Typed, Stages
      <4>2. handler' = [handler EXCEPT ![h] = r]
        BY <2>2 DEF Typed
      <4> HIDE DEF r
      <4> QED BY <4>1, <4>2 DEF Typed
    <3>4. \A k \in Handler :
              handler'[k].does = handler[k].does /\ (handler'[k].by = handler[k].by \/ k = h)
      BY <2>2 DEF Typed, Stages
    <3> QED BY <2>1, <3>1, <3>2, <3>3, <3>4 DEF Typed
  <2>3. CASE (Ends(h) \/ Fails(h)) /\ UNCHANGED message
    BY <2>1, <2>3, HandlerTyped DEF Typed
  <2> QED BY <1>3, <2>2, <2>3 DEF SendInsert
<1>4. ASSUME NEW h \in Handler, SendMention(h)
      PROVE  Typed'
  <2>1. \/ \E at \in {"start", "insert", "mention", "write", "unset", "add"} : Goes(h, at)
        \/ Ends(h) \/ Fails(h)
    BY <1>4 DEF SendMention
  <2>2. message' \in MessageSet /\ toggled' \subseteq Reactor
        /\ (message.is # "none" => message'.is # "none")
    BY <1>4 DEF SendMention, Typed, MessageSet
  <2> QED BY <2>1, <2>2, HandlerTyped DEF Typed
<1>5. ASSUME NEW h \in Handler, EditRead(h)
      PROVE  Typed'
  <2> DEFINE mentions == message.mentions
  <2>1. mentions \in BOOLEAN /\ UNCHANGED <<message, toggled>>
    BY <1>5 DEF EditRead, ReadsMentions, Typed, MessageSet
  <2>2. CASE handler' = [handler EXCEPT ![h].at = "write", ![h].prev = mentions]
    <3> HIDE DEF mentions
    <3>1. handler' \in [Handler -> Stages]
      <4> DEFINE r == [handler[h] EXCEPT !.at = "write", !.prev = mentions]
      <4>1. r \in Stages
        BY <2>1 DEF Typed, Stages
      <4>2. handler' = [handler EXCEPT ![h] = r]
        BY <2>2 DEF Typed
      <4> HIDE DEF r
      <4> QED BY <4>1, <4>2 DEF Typed
    <3>2. \A k \in Handler : handler'[k].does = handler[k].does /\ handler'[k].by = handler[k].by
      BY <2>2 DEF Typed, Stages
    <3> QED BY <2>1, <3>1, <3>2 DEF Typed
  <2>3. CASE Fails(h)
    BY <2>1, <2>3, HandlerTyped DEF Typed
  <2> QED BY <1>5, <2>2, <2>3 DEF EditRead, ReadsMentions
<1>6. ASSUME NEW h \in Handler, EditWrite(h)
      PROVE  Typed'
  <2>1. /\ Goes(h, "mention") \/ Ends(h) \/ Fails(h)
        /\ \/ message' = [message EXCEPT !.text = @ + 1, !.mentions = handler[h].flag]
           \/ UNCHANGED message
        /\ UNCHANGED toggled
    BY <1>6 DEF EditWrite, Rewrites
  <2>2. handler[h].flag \in BOOLEAN
    BY DEF Typed, Stages
  <2>3. message' \in MessageSet /\ message'.is = message.is
    BY <2>1, <2>2, EditedTyped DEF Typed
  <2> QED BY <2>1, <2>3, HandlerTyped DEF Typed
<1>7. ASSUME NEW h \in Handler, EditMention(h)
      PROVE  Typed'
  <2>1. \/ \E at \in {"start", "insert", "mention", "write", "unset", "add"} : Goes(h, at)
        \/ Ends(h) \/ Fails(h)
    BY <1>7 DEF EditMention, TellsNew
  <2>2. message' \in MessageSet /\ toggled' \subseteq Reactor
        /\ (message.is # "none" => message'.is # "none")
    BY <1>7 DEF EditMention, TellsNew, Typed, MessageSet
  <2> QED BY <2>1, <2>2, HandlerTyped DEF Typed
<1>8. ASSUME NEW h \in Handler, HttpEditRead(h)
      PROVE  Typed'
  <2> DEFINE mentions == message.mentions
  <2>1. mentions \in BOOLEAN /\ UNCHANGED <<message, toggled>>
    BY <1>8 DEF HttpEditRead, ReadsMentions, Typed, MessageSet
  <2>2. CASE handler' = [handler EXCEPT ![h].at = "write", ![h].prev = mentions]
    <3> HIDE DEF mentions
    <3>1. handler' \in [Handler -> Stages]
      <4> DEFINE r == [handler[h] EXCEPT !.at = "write", !.prev = mentions]
      <4>1. r \in Stages
        BY <2>1 DEF Typed, Stages
      <4>2. handler' = [handler EXCEPT ![h] = r]
        BY <2>2 DEF Typed
      <4> HIDE DEF r
      <4> QED BY <4>1, <4>2 DEF Typed
    <3>2. \A k \in Handler : handler'[k].does = handler[k].does /\ handler'[k].by = handler[k].by
      BY <2>2 DEF Typed, Stages
    <3> QED BY <2>1, <3>1, <3>2 DEF Typed
  <2>3. CASE Fails(h)
    BY <2>1, <2>3, HandlerTyped DEF Typed
  <2> QED BY <1>8, <2>2, <2>3 DEF HttpEditRead, ReadsMentions
<1>9. ASSUME NEW h \in Handler, HttpEditWrite(h)
      PROVE  Typed'
  <2>1. /\ Goes(h, "mention") \/ Ends(h) \/ Fails(h)
        /\ \/ message' = [message EXCEPT !.text = @ + 1, !.mentions = handler[h].flag]
           \/ UNCHANGED message
        /\ UNCHANGED toggled
    BY <1>9 DEF HttpEditWrite, Rewrites
  <2>2. handler[h].flag \in BOOLEAN
    BY DEF Typed, Stages
  <2>3. message' \in MessageSet /\ message'.is = message.is
    BY <2>1, <2>2, EditedTyped DEF Typed
  <2> QED BY <2>1, <2>3, HandlerTyped DEF Typed
<1>10. ASSUME NEW h \in Handler, HttpEditMention(h)
      PROVE  Typed'
  <2>1. \/ \E at \in {"start", "insert", "mention", "write", "unset", "add"} : Goes(h, at)
        \/ Ends(h) \/ Fails(h)
    BY <1>10 DEF HttpEditMention, TellsNew
  <2>2. message' \in MessageSet /\ toggled' \subseteq Reactor
        /\ (message.is # "none" => message'.is # "none")
    BY <1>10 DEF HttpEditMention, TellsNew, Typed, MessageSet
  <2> QED BY <2>1, <2>2, HandlerTyped DEF Typed
<1>11. ASSUME NEW h \in Handler, DeleteRead(h)
      PROVE  Typed'
  <2>1. \/ \E at \in {"start", "insert", "mention", "write", "unset", "add"} : Goes(h, at)
        \/ Ends(h) \/ Fails(h)
    BY <1>11 DEF DeleteRead, ReadsIt
  <2>2. message' \in MessageSet /\ toggled' \subseteq Reactor
        /\ (message.is # "none" => message'.is # "none")
    BY <1>11 DEF DeleteRead, ReadsIt, Typed, MessageSet
  <2> QED BY <2>1, <2>2, HandlerTyped DEF Typed
<1>12. ASSUME NEW h \in Handler, DeleteWrite(h)
      PROVE  Typed'
  <2>1. \/ \E at \in {"start", "insert", "mention", "write", "unset", "add"} : Goes(h, at)
        \/ Ends(h) \/ Fails(h)
    BY <1>12 DEF DeleteWrite, SoftDelete
  <2>2. message' \in MessageSet /\ toggled' \subseteq Reactor
        /\ (message.is # "none" => message'.is # "none")
    BY <1>12 DEF DeleteWrite, SoftDelete, Typed, MessageSet
  <2> QED BY <2>1, <2>2, HandlerTyped DEF Typed
<1>13. ASSUME NEW h \in Handler, HttpDeleteRead(h)
      PROVE  Typed'
  <2>1. \/ \E at \in {"start", "insert", "mention", "write", "unset", "add"} : Goes(h, at)
        \/ Ends(h) \/ Fails(h)
    BY <1>13 DEF HttpDeleteRead, ReadsIt
  <2>2. message' \in MessageSet /\ toggled' \subseteq Reactor
        /\ (message.is # "none" => message'.is # "none")
    BY <1>13 DEF HttpDeleteRead, ReadsIt, Typed, MessageSet
  <2> QED BY <2>1, <2>2, HandlerTyped DEF Typed
<1>14. ASSUME NEW h \in Handler, HttpDeleteWrite(h)
      PROVE  Typed'
  <2>1. \/ \E at \in {"start", "insert", "mention", "write", "unset", "add"} : Goes(h, at)
        \/ Ends(h) \/ Fails(h)
    BY <1>14 DEF HttpDeleteWrite, SoftDelete
  <2>2. message' \in MessageSet /\ toggled' \subseteq Reactor
        /\ (message.is # "none" => message'.is # "none")
    BY <1>14 DEF HttpDeleteWrite, SoftDelete, Typed, MessageSet
  <2> QED BY <2>1, <2>2, HandlerTyped DEF Typed
<1>15. ASSUME NEW h \in Handler, PinRead(h)
      PROVE  Typed'
  <2>1. \/ \E at \in {"start", "insert", "mention", "write", "unset", "add"} : Goes(h, at)
        \/ Ends(h) \/ Fails(h)
    BY <1>15 DEF PinRead
  <2>2. message' \in MessageSet /\ toggled' \subseteq Reactor
        /\ (message.is # "none" => message'.is # "none")
    BY <1>15 DEF PinRead, Typed, MessageSet
  <2> QED BY <2>1, <2>2, HandlerTyped DEF Typed
<1>16. ASSUME NEW h \in Handler, PinWrite(h)
      PROVE  Typed'
  <2>1. /\ Ends(h) \/ Fails(h)
        /\ message' = [message EXCEPT !.pinned = handler[h].flag] \/ UNCHANGED message
        /\ UNCHANGED toggled
    BY <1>16 DEF PinWrite
  <2>2. handler[h].flag \in BOOLEAN
    BY DEF Typed, Stages
  <2>3. message' \in MessageSet /\ message'.is = message.is
    BY <2>1, <2>2, PinnedTyped DEF Typed
  <2> QED BY <2>1, <2>3, HandlerTyped DEF Typed
<1>17. ASSUME NEW h \in Handler, Pull(h)
      PROVE  Typed'
  <2>1. \/ \E at \in {"start", "insert", "mention", "write", "unset", "add"} : Goes(h, at)
        \/ Ends(h) \/ Fails(h)
    BY <1>17 DEF Pull
  <2>2. message' \in MessageSet /\ toggled' \subseteq Reactor
        /\ (message.is # "none" => message'.is # "none")
    BY <1>17 DEF Pull, Typed, MessageSet
  <2> QED BY <2>1, <2>2, HandlerTyped DEF Typed
<1>18. ASSUME NEW h \in Handler, Unset(h)
      PROVE  Typed'
  <2>1. \/ \E at \in {"start", "insert", "mention", "write", "unset", "add"} : Goes(h, at)
        \/ Ends(h) \/ Fails(h)
    BY <1>18 DEF Unset
  <2>2. message' \in MessageSet /\ toggled' \subseteq Reactor
        /\ (message.is # "none" => message'.is # "none")
    BY <1>18 DEF Unset, Typed, MessageSet
  <2> QED BY <2>1, <2>2, HandlerTyped DEF Typed
<1>19. ASSUME NEW h \in Handler, Add(h)
      PROVE  Typed'
  <2> DEFINE u == handler[h].by
  <2>1. /\ Ends(h) \/ Fails(h)
        /\ \/ /\ message' = [message EXCEPT !.entry = TRUE, !.users = @ \cup {u}]
              /\ toggled' = toggled \cup {u}
           \/ UNCHANGED <<message, toggled>>
    BY <1>19 DEF Add
  <2>2. u \in Reactor
    BY <1>19 DEF Add, Busy, Typed
  <2>3. message' \in MessageSet /\ message'.is = message.is /\ toggled' \subseteq Reactor
    BY <2>1, <2>2, AddedTyped DEF Typed
  <2> QED BY <2>1, <2>3, HandlerTyped DEF Typed
<1>20. CASE UNCHANGED vars
  BY <1>20 DEF vars, Typed
<1> QED
  BY <1>1, <1>2, <1>3, <1>4, <1>5, <1>6, <1>7, <1>8, <1>9, <1>10, <1>11, <1>12,
     <1>13, <1>14, <1>15, <1>16, <1>17, <1>18, <1>19, <1>20
  DEF MsgNext

-----------------------------------------------------------------------------
\* The counters and the flags of the history.
Counted ==
    /\ requests \in 0 .. MaxRequests /\ errors \in 0 .. MaxErrors
    /\ created \in Nat /\ removed \in Nat

LEMMA NextCounted ==
  ASSUME MaxRequests \in Nat, MaxErrors \in Nat, Counted, [MsgNext]_vars
  PROVE  Counted'
<1> USE DEF Counted, history, Fails, Goes, Ends
<1>1. ASSUME NEW h \in Handler, Request(h)
      PROVE  Counted'
  <2>1. requests < MaxRequests /\ requests' = requests + 1 /\ UNCHANGED <<errors, created, removed>>
    BY <1>1 DEF Request, Begin
  <2> QED BY <2>1
<1>2. ASSUME NEW h \in Handler, SendLook(h)
      PROVE  Counted'
  BY <1>2 DEF SendLook
<1>3. ASSUME NEW h \in Handler, SendInsert(h)
      PROVE  Counted'
  BY <1>3 DEF SendInsert
<1>4. ASSUME NEW h \in Handler, SendMention(h)
      PROVE  Counted'
  BY <1>4 DEF SendMention
<1>5. ASSUME NEW h \in Handler, EditRead(h)
      PROVE  Counted'
  BY <1>5 DEF EditRead, ReadsMentions
<1>6. ASSUME NEW h \in Handler, EditWrite(h)
      PROVE  Counted'
  BY <1>6 DEF EditWrite, Rewrites
<1>7. ASSUME NEW h \in Handler, EditMention(h)
      PROVE  Counted'
  BY <1>7 DEF EditMention, TellsNew
<1>8. ASSUME NEW h \in Handler, HttpEditRead(h)
      PROVE  Counted'
  BY <1>8 DEF HttpEditRead, ReadsMentions
<1>9. ASSUME NEW h \in Handler, HttpEditWrite(h)
      PROVE  Counted'
  BY <1>9 DEF HttpEditWrite, Rewrites
<1>10. ASSUME NEW h \in Handler, HttpEditMention(h)
      PROVE  Counted'
  BY <1>10 DEF HttpEditMention, TellsNew
<1>11. ASSUME NEW h \in Handler, DeleteRead(h)
      PROVE  Counted'
  BY <1>11 DEF DeleteRead, ReadsIt
<1>12. ASSUME NEW h \in Handler, DeleteWrite(h)
      PROVE  Counted'
  BY <1>12 DEF DeleteWrite, SoftDelete
<1>13. ASSUME NEW h \in Handler, HttpDeleteRead(h)
      PROVE  Counted'
  BY <1>13 DEF HttpDeleteRead, ReadsIt
<1>14. ASSUME NEW h \in Handler, HttpDeleteWrite(h)
      PROVE  Counted'
  BY <1>14 DEF HttpDeleteWrite, SoftDelete
<1>15. ASSUME NEW h \in Handler, PinRead(h)
      PROVE  Counted'
  BY <1>15 DEF PinRead
<1>16. ASSUME NEW h \in Handler, PinWrite(h)
      PROVE  Counted'
  BY <1>16 DEF PinWrite
<1>17. ASSUME NEW h \in Handler, Pull(h)
      PROVE  Counted'
  BY <1>17 DEF Pull
<1>18. ASSUME NEW h \in Handler, Unset(h)
      PROVE  Counted'
  BY <1>18 DEF Unset
<1>19. ASSUME NEW h \in Handler, Add(h)
      PROVE  Counted'
  BY <1>19 DEF Add
<1>20. CASE UNCHANGED vars
  BY <1>20 DEF vars
<1> QED
  BY <1>1, <1>2, <1>3, <1>4, <1>5, <1>6, <1>7, <1>8, <1>9, <1>10, <1>11, <1>12,
     <1>13, <1>14, <1>15, <1>16, <1>17, <1>18, <1>19, <1>20
  DEF MsgNext

FlagsTyped == told \in BOOLEAN /\ untold \in BOOLEAN

LEMMA NextFlags ==
  ASSUME FlagsTyped, [MsgNext]_vars
  PROVE  FlagsTyped'
<1> USE DEF FlagsTyped, history
<1>1. ASSUME NEW h \in Handler, Request(h)
      PROVE  FlagsTyped'
  BY <1>1 DEF Request, Begin
<1>2. ASSUME NEW h \in Handler, SendLook(h)
      PROVE  FlagsTyped'
  BY <1>2 DEF SendLook
<1>3. ASSUME NEW h \in Handler, SendInsert(h)
      PROVE  FlagsTyped'
  BY <1>3 DEF SendInsert
<1>4. ASSUME NEW h \in Handler, SendMention(h)
      PROVE  FlagsTyped'
  BY <1>4 DEF SendMention
<1>5. ASSUME NEW h \in Handler, EditRead(h)
      PROVE  FlagsTyped'
  BY <1>5 DEF EditRead, ReadsMentions
<1>6. ASSUME NEW h \in Handler, EditWrite(h)
      PROVE  FlagsTyped'
  BY <1>6 DEF EditWrite, Rewrites
<1>7. ASSUME NEW h \in Handler, EditMention(h)
      PROVE  FlagsTyped'
  BY <1>7 DEF EditMention, TellsNew
<1>8. ASSUME NEW h \in Handler, HttpEditRead(h)
      PROVE  FlagsTyped'
  BY <1>8 DEF HttpEditRead, ReadsMentions
<1>9. ASSUME NEW h \in Handler, HttpEditWrite(h)
      PROVE  FlagsTyped'
  BY <1>9 DEF HttpEditWrite, Rewrites
<1>10. ASSUME NEW h \in Handler, HttpEditMention(h)
      PROVE  FlagsTyped'
  BY <1>10 DEF HttpEditMention, TellsNew
<1>11. ASSUME NEW h \in Handler, DeleteRead(h)
      PROVE  FlagsTyped'
  BY <1>11 DEF DeleteRead, ReadsIt
<1>12. ASSUME NEW h \in Handler, DeleteWrite(h)
      PROVE  FlagsTyped'
  BY <1>12 DEF DeleteWrite, SoftDelete
<1>13. ASSUME NEW h \in Handler, HttpDeleteRead(h)
      PROVE  FlagsTyped'
  BY <1>13 DEF HttpDeleteRead, ReadsIt
<1>14. ASSUME NEW h \in Handler, HttpDeleteWrite(h)
      PROVE  FlagsTyped'
  BY <1>14 DEF HttpDeleteWrite, SoftDelete
<1>15. ASSUME NEW h \in Handler, PinRead(h)
      PROVE  FlagsTyped'
  BY <1>15 DEF PinRead
<1>16. ASSUME NEW h \in Handler, PinWrite(h)
      PROVE  FlagsTyped'
  BY <1>16 DEF PinWrite
<1>17. ASSUME NEW h \in Handler, Pull(h)
      PROVE  FlagsTyped'
  BY <1>17 DEF Pull
<1>18. ASSUME NEW h \in Handler, Unset(h)
      PROVE  FlagsTyped'
  BY <1>18 DEF Unset
<1>19. ASSUME NEW h \in Handler, Add(h)
      PROVE  FlagsTyped'
  BY <1>19 DEF Add
<1>20. CASE UNCHANGED vars
  BY <1>20 DEF vars
<1> QED
  BY <1>1, <1>2, <1>3, <1>4, <1>5, <1>6, <1>7, <1>8, <1>9, <1>10, <1>11, <1>12,
     <1>13, <1>14, <1>15, <1>16, <1>17, <1>18, <1>19, <1>20
  DEF MsgNext

\* Everything has its type, whatever is asked for and whatever fails.
THEOREM MsgTypeCorrect ==
  ASSUME MaxRequests \in Nat, MaxErrors \in Nat
  PROVE  MsgSpec => []MsgTypeOK
<1>1. MsgInit => Typed /\ Counted /\ FlagsTyped
  <2>1. MsgInit => Counted
    BY DEF MsgInit, Counted
  <2>2. MsgInit => FlagsTyped
    BY DEF MsgInit, FlagsTyped
  <2> QED BY <2>1, <2>2, InitTyped
<1>2. Typed /\ Counted /\ FlagsTyped /\ [MsgNext]_vars => Typed' /\ Counted' /\ FlagsTyped'
  BY NextTyped, NextCounted, NextFlags
<1>3. Typed /\ Counted /\ FlagsTyped => MsgTypeOK
  BY DEF Typed, Counted, FlagsTyped, MsgTypeOK, MessageSet, Stages
<1> QED BY <1>1, <1>2, <1>3, PTL DEF MsgSpec

-----------------------------------------------------------------------------
LEMMA InitOnce == MsgInit => SentAndDeletedOnce
  BY DEF MsgInit, SentAndDeletedOnce, NoMessage

\* Where the message is neither created nor deleted, nothing is counted.
LEMMA StillOnce ==
  ASSUME SentAndDeletedOnce, message'.is = message.is, UNCHANGED <<created, removed>>
  PROVE  SentAndDeletedOnce'
  BY DEF SentAndDeletedOnce

LEMMA NextOnce ==
  ASSUME Typed, SentAndDeletedOnce, [MsgNext]_vars
  PROVE  SentAndDeletedOnce'
<1> USE DEF history
<1>1. ASSUME NEW h \in Handler, Request(h)
      PROVE  SentAndDeletedOnce'
  BY <1>1, StillOnce DEF Request, Begin
<1>2. ASSUME NEW h \in Handler, SendLook(h)
      PROVE  SentAndDeletedOnce'
  BY <1>2, StillOnce DEF SendLook
<1>3. ASSUME NEW h \in Handler, SendInsert(h)
      PROVE  SentAndDeletedOnce'
  <2>1. CASE message.is = "none" /\ message'.is = "live" /\ created' = created + 1
    BY <1>3, <2>1 DEF SendInsert, SentAndDeletedOnce
  <2>2. CASE UNCHANGED <<message, created>>
    BY <1>3, <2>2, StillOnce DEF SendInsert
  <2> QED BY <1>3, <2>1, <2>2 DEF SendInsert, NoMessage
<1>4. ASSUME NEW h \in Handler, SendMention(h)
      PROVE  SentAndDeletedOnce'
  BY <1>4, StillOnce DEF SendMention
<1>5. ASSUME NEW h \in Handler, EditRead(h)
      PROVE  SentAndDeletedOnce'
  BY <1>5, StillOnce DEF EditRead, ReadsMentions
<1>6. ASSUME NEW h \in Handler, EditWrite(h)
      PROVE  SentAndDeletedOnce'
  BY <1>6, StillOnce DEF EditWrite, Rewrites, Typed, MessageSet
<1>7. ASSUME NEW h \in Handler, EditMention(h)
      PROVE  SentAndDeletedOnce'
  BY <1>7, StillOnce DEF EditMention, TellsNew
<1>8. ASSUME NEW h \in Handler, HttpEditRead(h)
      PROVE  SentAndDeletedOnce'
  BY <1>8, StillOnce DEF HttpEditRead, ReadsMentions
<1>9. ASSUME NEW h \in Handler, HttpEditWrite(h)
      PROVE  SentAndDeletedOnce'
  BY <1>9, StillOnce DEF HttpEditWrite, Rewrites, Typed, MessageSet
<1>10. ASSUME NEW h \in Handler, HttpEditMention(h)
      PROVE  SentAndDeletedOnce'
  BY <1>10, StillOnce DEF HttpEditMention, TellsNew
<1>11. ASSUME NEW h \in Handler, DeleteRead(h)
      PROVE  SentAndDeletedOnce'
  BY <1>11, StillOnce DEF DeleteRead, ReadsIt
<1>12. ASSUME NEW h \in Handler, DeleteWrite(h)
      PROVE  SentAndDeletedOnce'
  <2>1. CASE message.is = "live" /\ message' = [message EXCEPT !.is = "deleted"] /\ removed' = removed + 1
    <3>1. message'.is = "deleted" /\ UNCHANGED created
      BY <1>12, <2>1 DEF DeleteWrite, SoftDelete, Typed, MessageSet
    <3> QED BY <2>1, <3>1 DEF SentAndDeletedOnce
  <2>2. CASE UNCHANGED <<message, removed>>
    BY <1>12, <2>2, StillOnce DEF DeleteWrite, SoftDelete
  <2> QED BY <1>12, <2>1, <2>2 DEF DeleteWrite, SoftDelete
<1>13. ASSUME NEW h \in Handler, HttpDeleteRead(h)
      PROVE  SentAndDeletedOnce'
  BY <1>13, StillOnce DEF HttpDeleteRead, ReadsIt
<1>14. ASSUME NEW h \in Handler, HttpDeleteWrite(h)
      PROVE  SentAndDeletedOnce'
  <2>1. CASE message.is = "live" /\ message' = [message EXCEPT !.is = "deleted"] /\ removed' = removed + 1
    <3>1. message'.is = "deleted" /\ UNCHANGED created
      BY <1>14, <2>1 DEF HttpDeleteWrite, SoftDelete, Typed, MessageSet
    <3> QED BY <2>1, <3>1 DEF SentAndDeletedOnce
  <2>2. CASE UNCHANGED <<message, removed>>
    BY <1>14, <2>2, StillOnce DEF HttpDeleteWrite, SoftDelete
  <2> QED BY <1>14, <2>1, <2>2 DEF HttpDeleteWrite, SoftDelete
<1>15. ASSUME NEW h \in Handler, PinRead(h)
      PROVE  SentAndDeletedOnce'
  BY <1>15, StillOnce DEF PinRead
<1>16. ASSUME NEW h \in Handler, PinWrite(h)
      PROVE  SentAndDeletedOnce'
  BY <1>16, StillOnce DEF PinWrite, Typed, MessageSet
<1>17. ASSUME NEW h \in Handler, Pull(h)
      PROVE  SentAndDeletedOnce'
  BY <1>17, StillOnce DEF Pull, Typed, MessageSet
<1>18. ASSUME NEW h \in Handler, Unset(h)
      PROVE  SentAndDeletedOnce'
  BY <1>18, StillOnce DEF Unset, Typed, MessageSet
<1>19. ASSUME NEW h \in Handler, Add(h)
      PROVE  SentAndDeletedOnce'
  BY <1>19, StillOnce DEF Add, Typed, MessageSet
<1>20. CASE UNCHANGED vars
  BY <1>20, StillOnce DEF vars
<1> QED
  BY <1>1, <1>2, <1>3, <1>4, <1>5, <1>6, <1>7, <1>8, <1>9, <1>10, <1>11, <1>12,
     <1>13, <1>14, <1>15, <1>16, <1>17, <1>18, <1>19, <1>20
  DEF MsgNext

\* Of any number of sends with one nonce one creates the message, and of any number of
\* deletions one deletes it.
THEOREM SentOnce == MsgSpec => []SentAndDeletedOnce
<1>1. MsgInit => Typed /\ SentAndDeletedOnce
  BY InitTyped, InitOnce
<1>2. Typed /\ SentAndDeletedOnce /\ [MsgNext]_vars => Typed' /\ SentAndDeletedOnce'
  BY NextTyped, NextOnce
<1> QED BY <1>1, <1>2, PTL DEF MsgSpec

-----------------------------------------------------------------------------
LEMMA DeletionLasts ==
  ASSUME Typed, [MsgNext]_vars
  PROVE  StaysDeleted
<1> USE DEF history
<1>1. ASSUME NEW h \in Handler, Request(h)
      PROVE  StaysDeleted
  BY <1>1 DEF Request, Begin, StaysDeleted
<1>2. ASSUME NEW h \in Handler, SendLook(h)
      PROVE  StaysDeleted
  BY <1>2 DEF SendLook, StaysDeleted
<1>3. ASSUME NEW h \in Handler, SendInsert(h)
      PROVE  StaysDeleted
  <2>1. message.is = "deleted" => UNCHANGED message
    BY <1>3 DEF SendInsert
  <2> QED BY <2>1 DEF StaysDeleted
<1>4. ASSUME NEW h \in Handler, SendMention(h)
      PROVE  StaysDeleted
  BY <1>4 DEF SendMention, StaysDeleted
<1>5. ASSUME NEW h \in Handler, EditRead(h)
      PROVE  StaysDeleted
  BY <1>5 DEF EditRead, ReadsMentions, StaysDeleted
<1>6. ASSUME NEW h \in Handler, EditWrite(h)
      PROVE  StaysDeleted
  <2>1. message.is = "deleted" => UNCHANGED message
    BY <1>6 DEF EditWrite, Rewrites
  <2> QED BY <2>1 DEF StaysDeleted
<1>7. ASSUME NEW h \in Handler, EditMention(h)
      PROVE  StaysDeleted
  BY <1>7 DEF EditMention, TellsNew, StaysDeleted
<1>8. ASSUME NEW h \in Handler, HttpEditRead(h)
      PROVE  StaysDeleted
  BY <1>8 DEF HttpEditRead, ReadsMentions, StaysDeleted
<1>9. ASSUME NEW h \in Handler, HttpEditWrite(h)
      PROVE  StaysDeleted
  <2>1. message.is = "deleted" => UNCHANGED message
    BY <1>9 DEF HttpEditWrite, Rewrites
  <2> QED BY <2>1 DEF StaysDeleted
<1>10. ASSUME NEW h \in Handler, HttpEditMention(h)
      PROVE  StaysDeleted
  BY <1>10 DEF HttpEditMention, TellsNew, StaysDeleted
<1>11. ASSUME NEW h \in Handler, DeleteRead(h)
      PROVE  StaysDeleted
  BY <1>11 DEF DeleteRead, ReadsIt, StaysDeleted
<1>12. ASSUME NEW h \in Handler, DeleteWrite(h)
      PROVE  StaysDeleted
  <2>1. message.is = "deleted" => UNCHANGED message
    BY <1>12 DEF DeleteWrite, SoftDelete
  <2> QED BY <2>1 DEF StaysDeleted
<1>13. ASSUME NEW h \in Handler, HttpDeleteRead(h)
      PROVE  StaysDeleted
  BY <1>13 DEF HttpDeleteRead, ReadsIt, StaysDeleted
<1>14. ASSUME NEW h \in Handler, HttpDeleteWrite(h)
      PROVE  StaysDeleted
  <2>1. message.is = "deleted" => UNCHANGED message
    BY <1>14 DEF HttpDeleteWrite, SoftDelete
  <2> QED BY <2>1 DEF StaysDeleted
<1>15. ASSUME NEW h \in Handler, PinRead(h)
      PROVE  StaysDeleted
  BY <1>15 DEF PinRead, StaysDeleted
<1>16. ASSUME NEW h \in Handler, PinWrite(h)
      PROVE  StaysDeleted
  BY <1>16 DEF PinWrite, StaysDeleted, Typed, MessageSet
<1>17. ASSUME NEW h \in Handler, Pull(h)
      PROVE  StaysDeleted
  BY <1>17 DEF Pull, StaysDeleted, Typed, MessageSet
<1>18. ASSUME NEW h \in Handler, Unset(h)
      PROVE  StaysDeleted
  BY <1>18 DEF Unset, StaysDeleted, Typed, MessageSet
<1>19. ASSUME NEW h \in Handler, Add(h)
      PROVE  StaysDeleted
  BY <1>19 DEF Add, StaysDeleted, Typed, MessageSet
<1>20. CASE UNCHANGED vars
  BY <1>20 DEF vars, StaysDeleted
<1> QED
  BY <1>1, <1>2, <1>3, <1>4, <1>5, <1>6, <1>7, <1>8, <1>9, <1>10, <1>11, <1>12,
     <1>13, <1>14, <1>15, <1>16, <1>17, <1>18, <1>19, <1>20
  DEF MsgNext

\* A deleted message stays so, with the text it had, whatever edits and sends had read.
THEOREM DeletionIsFinal == MsgSpec => DeletedStays
<1>1. MsgInit => Typed
  BY InitTyped
<1>2. Typed /\ [MsgNext]_vars => Typed' /\ [StaysDeleted]_vars
  BY NextTyped, DeletionLasts
<1> QED BY <1>1, <1>2, PTL DEF MsgSpec, DeletedStays

-----------------------------------------------------------------------------
\* ReactionsKept with what a send relies on: nobody has reacted to what is not there.
Reacted == ReactionsKept /\ (message.is = "none" => message.users = {})

LEMMA InitReacted == MsgInit => Reacted
  BY DEF MsgInit, Reacted, ReactionsKept, NoMessage

LEMMA StillReacted ==
  ASSUME Reacted, message.is = "none" \/ message'.is # "none",
         UNCHANGED toggled, message'.users = message.users, message'.entry = message.entry
  PROVE  Reacted'
  BY DEF Reacted, ReactionsKept

LEMMA NextReacted ==
  ASSUME Typed, Reacted, [MsgNext]_vars
  PROVE  Reacted'
<1> USE DEF history
<1>1. ASSUME NEW h \in Handler, Request(h)
      PROVE  Reacted'
  BY <1>1, StillReacted DEF Request, Begin
<1>2. ASSUME NEW h \in Handler, SendLook(h)
      PROVE  Reacted'
  BY <1>2, StillReacted DEF SendLook
<1>3. ASSUME NEW h \in Handler, SendInsert(h)
      PROVE  Reacted'
  <2>1. CASE message.is = "none" /\ message' = [NoMessage EXCEPT !.is = "live", !.mentions = handler[h].flag]
    <3>1. message'.users = {} /\ message'.is = "live" /\ UNCHANGED toggled
      BY <1>3, <2>1 DEF SendInsert, NoMessage
    <3> QED BY <2>1, <3>1 DEF Reacted, ReactionsKept
  <2>2. CASE UNCHANGED message
    BY <1>3, <2>2, StillReacted DEF SendInsert
  <2> QED BY <1>3, <2>1, <2>2 DEF SendInsert
<1>4. ASSUME NEW h \in Handler, SendMention(h)
      PROVE  Reacted'
  BY <1>4, StillReacted DEF SendMention
<1>5. ASSUME NEW h \in Handler, EditRead(h)
      PROVE  Reacted'
  BY <1>5, StillReacted DEF EditRead, ReadsMentions
<1>6. ASSUME NEW h \in Handler, EditWrite(h)
      PROVE  Reacted'
  BY <1>6, StillReacted DEF EditWrite, Rewrites, Typed, MessageSet
<1>7. ASSUME NEW h \in Handler, EditMention(h)
      PROVE  Reacted'
  BY <1>7, StillReacted DEF EditMention, TellsNew
<1>8. ASSUME NEW h \in Handler, HttpEditRead(h)
      PROVE  Reacted'
  BY <1>8, StillReacted DEF HttpEditRead, ReadsMentions
<1>9. ASSUME NEW h \in Handler, HttpEditWrite(h)
      PROVE  Reacted'
  BY <1>9, StillReacted DEF HttpEditWrite, Rewrites, Typed, MessageSet
<1>10. ASSUME NEW h \in Handler, HttpEditMention(h)
      PROVE  Reacted'
  BY <1>10, StillReacted DEF HttpEditMention, TellsNew
<1>11. ASSUME NEW h \in Handler, DeleteRead(h)
      PROVE  Reacted'
  BY <1>11, StillReacted DEF DeleteRead, ReadsIt
<1>12. ASSUME NEW h \in Handler, DeleteWrite(h)
      PROVE  Reacted'
  BY <1>12, StillReacted DEF DeleteWrite, SoftDelete, Typed, MessageSet
<1>13. ASSUME NEW h \in Handler, HttpDeleteRead(h)
      PROVE  Reacted'
  BY <1>13, StillReacted DEF HttpDeleteRead, ReadsIt
<1>14. ASSUME NEW h \in Handler, HttpDeleteWrite(h)
      PROVE  Reacted'
  BY <1>14, StillReacted DEF HttpDeleteWrite, SoftDelete, Typed, MessageSet
<1>15. ASSUME NEW h \in Handler, PinRead(h)
      PROVE  Reacted'
  BY <1>15, StillReacted DEF PinRead
<1>16. ASSUME NEW h \in Handler, PinWrite(h)
      PROVE  Reacted'
  BY <1>16, StillReacted DEF PinWrite, Typed, MessageSet
<1>17. ASSUME NEW h \in Handler, Pull(h)
      PROVE  Reacted'
  <2>1. CASE /\ message' = [message EXCEPT !.users = @ \ {handler[h].by}]
             /\ toggled' = toggled \ {handler[h].by}
    <3>1. /\ message'.users = message.users \ {handler[h].by}
          /\ message'.is = message.is /\ message'.entry = message.entry
      BY <2>1 DEF Typed, MessageSet
    <3> QED BY <2>1, <3>1 DEF Reacted, ReactionsKept
  <2>2. CASE UNCHANGED <<message, toggled>>
    BY <2>2, StillReacted
  <2> QED BY <1>17, <2>1, <2>2 DEF Pull
<1>18. ASSUME NEW h \in Handler, Unset(h)
      PROVE  Reacted'
  <2>1. UNCHANGED toggled
    BY <1>18 DEF Unset
  <2>2. CASE message.users = {} /\ message' = [message EXCEPT !.entry = FALSE]
    <3>1. message'.users = {} /\ message'.is = message.is
      BY <2>2 DEF Typed, MessageSet
    <3> QED BY <2>1, <2>2, <3>1 DEF Reacted, ReactionsKept
  <2>3. CASE UNCHANGED message
    BY <2>1, <2>3, StillReacted
  <2> QED BY <1>18, <2>2, <2>3 DEF Unset
<1>19. ASSUME NEW h \in Handler, Add(h)
      PROVE  Reacted'
  <2> DEFINE u == handler[h].by
  <2>1. CASE /\ message' = [message EXCEPT !.entry = TRUE, !.users = @ \cup {u}]
             /\ toggled' = toggled \cup {u}
    <3>1. u \in Reactor /\ message.is # "none"
      BY <1>19 DEF Add, Busy, Typed
    <3>2. message'.users = message.users \cup {u} /\ message'.entry /\ message'.is = message.is
      BY <2>1, <3>1, AddedTyped DEF Typed
    <3> QED BY <2>1, <3>1, <3>2 DEF Reacted, ReactionsKept
  <2>2. CASE UNCHANGED <<message, toggled>>
    BY <2>2, StillReacted
  <2> QED BY <1>19, <2>1, <2>2 DEF Add
<1>20. CASE UNCHANGED vars
  BY <1>20, StillReacted DEF vars
<1> QED
  BY <1>1, <1>2, <1>3, <1>4, <1>5, <1>6, <1>7, <1>8, <1>9, <1>10, <1>11, <1>12,
     <1>13, <1>14, <1>15, <1>16, <1>17, <1>18, <1>19, <1>20
  DEF MsgNext

\* Who has reacted is who last asked to, however the updates of any number of users fall.
THEOREM NoReactionLost == MsgSpec => []ReactionsKept
<1>1. MsgInit => Typed /\ Reacted
  BY InitTyped, InitReacted
<1>2. Typed /\ Reacted /\ [MsgNext]_vars => Typed' /\ Reacted'
  BY NextTyped, NextReacted
<1>3. Reacted => ReactionsKept
  BY DEF Reacted
<1> QED BY <1>1, <1>2, <1>3, PTL DEF MsgSpec

-----------------------------------------------------------------------------
\* Some handler has its message-mention to send for sure: it did not find the reader
\* mentioned when it read.
Telling == \E h \in Handler : handler[h].at = "mention" /\ handler[h].flag /\ ~handler[h].prev
Cared == told \/ untold \/ Telling

\* MentionsTold with what an edit relies on that does not tell: whoever it found mentioned
\* was told, or is being told by another.
Mentioned ==
    (message.mentions \/ \E h \in Handler : handler[h].prev) => Cared

LEMMA InitMentioned == MsgInit => Mentioned
  BY DEF MsgInit, Mentioned, NoMessage, Rest

\* A handler that moves, ends or fails before its mention takes nobody's care away.
LEMMA StillCared ==
  ASSUME Typed, NEW h \in Handler, handler[h].at # "mention",
         \A k \in Handler : k # h => handler'[k] = handler[k],
         told => told', untold => untold', Cared
  PROVE  Cared'
<1>1. CASE told \/ untold
  BY <1>1 DEF Cared
<1>2. CASE Telling
  <2>1. PICK k \in Handler : handler[k].at = "mention" /\ handler[k].flag /\ ~handler[k].prev
    BY <1>2 DEF Telling
  <2>2. handler'[k] = handler[k]
    BY <2>1
  <2> QED BY <2>1, <2>2 DEF Cared, Telling
<1> QED BY <1>1, <1>2 DEF Cared

\* So the step of a handler before its mention keeps the invariant if it finds nobody new.
LEMMA StillMentioned ==
  ASSUME Typed, Mentioned, NEW h \in Handler, handler[h].at # "mention",
         \A k \in Handler : k # h => handler'[k] = handler[k],
         told => told', untold => untold',
         message'.mentions => message.mentions,
         handler'[h].prev => handler[h].prev \/ message.mentions
  PROVE  Mentioned'
<1>1. ASSUME Cared PROVE Cared'
  BY <1>1, StillCared
<1> QED BY <1>1 DEF Mentioned

\* And its mention, once sent or known to have failed, is taken care of.
LEMMA ToldMentioned ==
  ASSUME Typed, Mentioned, NEW h \in Handler, UNCHANGED message,
         \A k \in Handler : k # h => handler'[k] = handler[k],
         ~handler'[h].prev, told => told', untold => untold',
         handler[h].flag /\ ~handler[h].prev => told' \/ untold'
  PROVE  Mentioned'
<1>1. ASSUME Cared PROVE Cared'
  <2>1. CASE told \/ untold
    BY <2>1 DEF Cared
  <2>2. CASE Telling
    <3>1. PICK k \in Handler : handler[k].at = "mention" /\ handler[k].flag /\ ~handler[k].prev
      BY <2>2 DEF Telling
    <3>2. CASE k = h
      BY <3>1, <3>2 DEF Cared
    <3>3. CASE k # h
      BY <3>1, <3>3 DEF Cared, Telling
    <3> QED BY <3>2, <3>3
  <2> QED BY <1>1, <2>1, <2>2 DEF Cared
<1> QED BY <1>1 DEF Mentioned

\* A handler that begins has no mention to send, and finds nobody.
LEMMA BegunElsewhere ==
  ASSUME Typed, NEW h \in Handler, NEW by, NEW does, NEW flag, Begin(h, does, by, flag)
  PROVE  /\ handler[h].at # "mention" /\ ~handler'[h].prev
         /\ \A k \in Handler : k # h => handler'[k] = handler[k]
         /\ UNCHANGED <<message, told, untold>>
<1>1. /\ handler[h] = Rest /\ UNCHANGED <<message, told, untold>>
      /\ handler' = [handler EXCEPT ![h] = [Rest EXCEPT !.does = does, !.by = by, !.flag = flag]]
  BY DEF Begin, history
<1>2. handler[h].at # "mention"
  BY <1>1 DEF Rest
<1>3. ~handler'[h].prev
  BY <1>1 DEF Typed, Rest
<1>4. \A k \in Handler : k # h => handler'[k] = handler[k]
  BY <1>1 DEF Typed
<1> QED BY <1>1, <1>2, <1>3, <1>4

LEMMA NextMentioned ==
  ASSUME Typed, Mentioned, [MsgNext]_vars
  PROVE  Mentioned'
<1> USE DEF history
<1>1. ASSUME NEW h \in Handler, Request(h)
      PROVE  Mentioned'
  <2>1. /\ handler[h].at # "mention" /\ ~handler'[h].prev
        /\ \A k \in Handler : k # h => handler'[k] = handler[k]
        /\ UNCHANGED <<message, told, untold>>
    BY <1>1, BegunElsewhere DEF Request
  <2> QED BY <2>1, StillMentioned
<1>2. ASSUME NEW h \in Handler, SendLook(h)
      PROVE  Mentioned'
  <2>1. handler[h].at # "mention" /\ UNCHANGED <<told, untold>>
    BY <1>2 DEF SendLook, Busy, Rest
  <2>2. /\ \A k \in Handler : k # h => handler'[k] = handler[k]
        /\ handler'[h].prev => handler[h].prev \/ message.mentions
    BY <1>2 DEF SendLook, Goes, Ends, Fails, Typed, Stages, Rest
  <2>3. message'.mentions => message.mentions
    BY <1>2 DEF SendLook, Typed, MessageSet
  <2> QED BY <2>1, <2>2, <2>3, StillMentioned
<1>3. ASSUME NEW h \in Handler, SendInsert(h)
      PROVE  Mentioned'
  <2>1. handler[h].at # "mention" /\ UNCHANGED <<told, untold>>
    BY <1>3 DEF SendInsert, Busy
  <2>2. CASE UNCHANGED message /\ (Ends(h) \/ Fails(h))
    <3>1. ~handler'[h].prev /\ \A k \in Handler : k # h => handler'[k] = handler[k]
      BY <2>2 DEF Ends, Fails, Typed, Stages, Rest
    <3> QED BY <2>1, <2>2, <3>1, StillMentioned
  <2>3. CASE message'.mentions = handler[h].flag /\ handler'[h].at = "mention"
             /\ handler'[h].flag = handler[h].flag /\ handler'[h].prev = handler[h].prev
             /\ \A k \in Handler : k # h => handler'[k] = handler[k]
    <3>1. CASE handler[h].flag /\ ~handler[h].prev
      <4>1. Telling'
        BY <2>3, <3>1 DEF Telling
      <4> QED BY <4>1 DEF Mentioned, Cared
    <3>2. CASE ~(handler[h].flag /\ ~handler[h].prev)
      <4>1. Cared => Cared'
        BY <2>1, <2>3, StillCared
      <4>2. (message'.mentions \/ \E k \in Handler : handler'[k].prev)
                => \E k \in Handler : handler[k].prev
        BY <2>3, <3>2
      <4> QED BY <4>1, <4>2 DEF Mentioned
    <3> QED BY <3>1, <3>2
  <2>4. CASE /\ message' = [NoMessage EXCEPT !.is = "live", !.mentions = handler[h].flag]
             /\ handler' = [handler EXCEPT ![h].at = "mention", ![h].by = NoOne]
    <3>1. handler[h].flag \in BOOLEAN
      BY DEF Typed, Stages
    <3>2. message'.mentions = handler[h].flag
      BY <2>4, <3>1, InsertedTyped
    <3>3. /\ handler'[h].at = "mention" /\ handler'[h].flag = handler[h].flag
          /\ handler'[h].prev = handler[h].prev
          /\ \A k \in Handler : k # h => handler'[k] = handler[k]
      BY <2>4 DEF Typed, Stages
    <3> QED BY <2>3, <3>2, <3>3
  <2> QED BY <1>3, <2>2, <2>4 DEF SendInsert
<1>4. ASSUME NEW h \in Handler, SendMention(h)
      PROVE  Mentioned'
  <2>1. UNCHANGED message /\ (Ends(h) \/ Fails(h))
    BY <1>4 DEF SendMention
  <2>2. ~handler'[h].prev /\ \A k \in Handler : k # h => handler'[k] = handler[k]
    BY <2>1 DEF Ends, Fails, Typed, Stages, Rest
  <2>3. /\ (told => told') /\ (untold => untold')
        /\ handler[h].flag /\ ~handler[h].prev => told' \/ untold'
    <3>1. CASE told' = (told \/ handler[h].flag) /\ UNCHANGED untold
      BY <3>1
    <3>2. CASE untold' = TRUE /\ UNCHANGED told
      BY <3>2
    <3> QED BY <1>4, <3>1, <3>2 DEF SendMention
  <2> QED BY <2>1, <2>2, <2>3, ToldMentioned
<1>5. ASSUME NEW h \in Handler, EditRead(h)
      PROVE  Mentioned'
  <2>1. handler[h].at # "mention" /\ UNCHANGED <<told, untold>>
    BY <1>5 DEF EditRead, ReadsMentions, Busy, Rest
  <2>2. /\ \A k \in Handler : k # h => handler'[k] = handler[k]
        /\ handler'[h].prev => handler[h].prev \/ message.mentions
    BY <1>5 DEF EditRead, ReadsMentions, Goes, Ends, Fails, Typed, Stages, Rest
  <2>3. message'.mentions => message.mentions
    BY <1>5 DEF EditRead, ReadsMentions, Typed, MessageSet
  <2> QED BY <2>1, <2>2, <2>3, StillMentioned
<1>6. ASSUME NEW h \in Handler, EditWrite(h)
      PROVE  Mentioned'
  <2>1. handler[h].at # "mention" /\ UNCHANGED <<told, untold>>
    BY <1>6 DEF EditWrite, Rewrites, Busy
  <2>2. CASE UNCHANGED message /\ (Ends(h) \/ Fails(h))
    <3>1. ~handler'[h].prev /\ \A k \in Handler : k # h => handler'[k] = handler[k]
      BY <2>2 DEF Ends, Fails, Typed, Stages, Rest
    <3> QED BY <2>1, <2>2, <3>1, StillMentioned
  <2>3. CASE message'.mentions = handler[h].flag /\ handler'[h].at = "mention"
             /\ handler'[h].flag = handler[h].flag /\ handler'[h].prev = handler[h].prev
             /\ \A k \in Handler : k # h => handler'[k] = handler[k]
    <3>1. CASE handler[h].flag /\ ~handler[h].prev
      <4>1. Telling'
        BY <2>3, <3>1 DEF Telling
      <4> QED BY <4>1 DEF Mentioned, Cared
    <3>2. CASE ~(handler[h].flag /\ ~handler[h].prev)
      <4>1. Cared => Cared'
        BY <2>1, <2>3, StillCared
      <4>2. (message'.mentions \/ \E k \in Handler : handler'[k].prev)
                => \E k \in Handler : handler[k].prev
        BY <2>3, <3>2
      <4> QED BY <4>1, <4>2 DEF Mentioned
    <3> QED BY <3>1, <3>2
  <2>4. CASE message' = [message EXCEPT !.text = @ + 1, !.mentions = handler[h].flag] /\ Goes(h, "mention")
    <3>1. handler[h].flag \in BOOLEAN
      BY DEF Typed, Stages
    <3>2. message'.mentions = handler[h].flag
      BY <2>4, <3>1, EditedTyped DEF Typed
    <3>3. /\ handler'[h].at = "mention" /\ handler'[h].flag = handler[h].flag
          /\ handler'[h].prev = handler[h].prev
          /\ \A k \in Handler : k # h => handler'[k] = handler[k]
      BY <2>4 DEF Goes, Typed, Stages
    <3> QED BY <2>3, <3>2, <3>3
  <2> QED BY <1>6, <2>2, <2>4 DEF EditWrite, Rewrites
<1>7. ASSUME NEW h \in Handler, EditMention(h)
      PROVE  Mentioned'
  <2>1. UNCHANGED message /\ (Ends(h) \/ Fails(h))
    BY <1>7 DEF EditMention, TellsNew
  <2>2. ~handler'[h].prev /\ \A k \in Handler : k # h => handler'[k] = handler[k]
    BY <2>1 DEF Ends, Fails, Typed, Stages, Rest
  <2>3. /\ (told => told') /\ (untold => untold')
        /\ handler[h].flag /\ ~handler[h].prev => told' \/ untold'
    <3>1. CASE told' = (told \/ (handler[h].flag /\ ~handler[h].prev)) /\ UNCHANGED untold
      BY <3>1
    <3>2. CASE untold' = TRUE /\ UNCHANGED told
      BY <3>2
    <3> QED BY <1>7, <3>1, <3>2 DEF EditMention, TellsNew
  <2> QED BY <2>1, <2>2, <2>3, ToldMentioned
<1>8. ASSUME NEW h \in Handler, HttpEditRead(h)
      PROVE  Mentioned'
  <2>1. handler[h].at # "mention" /\ UNCHANGED <<told, untold>>
    BY <1>8 DEF HttpEditRead, ReadsMentions, Busy, Rest
  <2>2. /\ \A k \in Handler : k # h => handler'[k] = handler[k]
        /\ handler'[h].prev => handler[h].prev \/ message.mentions
    BY <1>8 DEF HttpEditRead, ReadsMentions, Goes, Ends, Fails, Typed, Stages, Rest
  <2>3. message'.mentions => message.mentions
    BY <1>8 DEF HttpEditRead, ReadsMentions, Typed, MessageSet
  <2> QED BY <2>1, <2>2, <2>3, StillMentioned
<1>9. ASSUME NEW h \in Handler, HttpEditWrite(h)
      PROVE  Mentioned'
  <2>1. handler[h].at # "mention" /\ UNCHANGED <<told, untold>>
    BY <1>9 DEF HttpEditWrite, Rewrites, Busy
  <2>2. CASE UNCHANGED message /\ (Ends(h) \/ Fails(h))
    <3>1. ~handler'[h].prev /\ \A k \in Handler : k # h => handler'[k] = handler[k]
      BY <2>2 DEF Ends, Fails, Typed, Stages, Rest
    <3> QED BY <2>1, <2>2, <3>1, StillMentioned
  <2>3. CASE message'.mentions = handler[h].flag /\ handler'[h].at = "mention"
             /\ handler'[h].flag = handler[h].flag /\ handler'[h].prev = handler[h].prev
             /\ \A k \in Handler : k # h => handler'[k] = handler[k]
    <3>1. CASE handler[h].flag /\ ~handler[h].prev
      <4>1. Telling'
        BY <2>3, <3>1 DEF Telling
      <4> QED BY <4>1 DEF Mentioned, Cared
    <3>2. CASE ~(handler[h].flag /\ ~handler[h].prev)
      <4>1. Cared => Cared'
        BY <2>1, <2>3, StillCared
      <4>2. (message'.mentions \/ \E k \in Handler : handler'[k].prev)
                => \E k \in Handler : handler[k].prev
        BY <2>3, <3>2
      <4> QED BY <4>1, <4>2 DEF Mentioned
    <3> QED BY <3>1, <3>2
  <2>4. CASE message' = [message EXCEPT !.text = @ + 1, !.mentions = handler[h].flag] /\ Goes(h, "mention")
    <3>1. handler[h].flag \in BOOLEAN
      BY DEF Typed, Stages
    <3>2. message'.mentions = handler[h].flag
      BY <2>4, <3>1, EditedTyped DEF Typed
    <3>3. /\ handler'[h].at = "mention" /\ handler'[h].flag = handler[h].flag
          /\ handler'[h].prev = handler[h].prev
          /\ \A k \in Handler : k # h => handler'[k] = handler[k]
      BY <2>4 DEF Goes, Typed, Stages
    <3> QED BY <2>3, <3>2, <3>3
  <2> QED BY <1>9, <2>2, <2>4 DEF HttpEditWrite, Rewrites
<1>10. ASSUME NEW h \in Handler, HttpEditMention(h)
      PROVE  Mentioned'
  <2>1. UNCHANGED message /\ (Ends(h) \/ Fails(h))
    BY <1>10 DEF HttpEditMention, TellsNew
  <2>2. ~handler'[h].prev /\ \A k \in Handler : k # h => handler'[k] = handler[k]
    BY <2>1 DEF Ends, Fails, Typed, Stages, Rest
  <2>3. /\ (told => told') /\ (untold => untold')
        /\ handler[h].flag /\ ~handler[h].prev => told' \/ untold'
    <3>1. CASE told' = (told \/ (handler[h].flag /\ ~handler[h].prev)) /\ UNCHANGED untold
      BY <3>1
    <3>2. CASE untold' = TRUE /\ UNCHANGED told
      BY <3>2
    <3> QED BY <1>10, <3>1, <3>2 DEF HttpEditMention, TellsNew
  <2> QED BY <2>1, <2>2, <2>3, ToldMentioned
<1>11. ASSUME NEW h \in Handler, DeleteRead(h)
      PROVE  Mentioned'
  <2>1. handler[h].at # "mention" /\ UNCHANGED <<told, untold>>
    BY <1>11 DEF DeleteRead, ReadsIt, Busy, Rest
  <2>2. /\ \A k \in Handler : k # h => handler'[k] = handler[k]
        /\ handler'[h].prev => handler[h].prev \/ message.mentions
    BY <1>11 DEF DeleteRead, ReadsIt, Goes, Ends, Fails, Typed, Stages, Rest
  <2>3. message'.mentions => message.mentions
    BY <1>11 DEF DeleteRead, ReadsIt, Typed, MessageSet
  <2> QED BY <2>1, <2>2, <2>3, StillMentioned
<1>12. ASSUME NEW h \in Handler, DeleteWrite(h)
      PROVE  Mentioned'
  <2>1. handler[h].at # "mention" /\ UNCHANGED <<told, untold>>
    BY <1>12 DEF DeleteWrite, SoftDelete, Busy, Rest
  <2>2. /\ \A k \in Handler : k # h => handler'[k] = handler[k]
        /\ handler'[h].prev => handler[h].prev \/ message.mentions
    BY <1>12 DEF DeleteWrite, SoftDelete, Goes, Ends, Fails, Typed, Stages, Rest
  <2>3. message'.mentions => message.mentions
    BY <1>12 DEF DeleteWrite, SoftDelete, Typed, MessageSet
  <2> QED BY <2>1, <2>2, <2>3, StillMentioned
<1>13. ASSUME NEW h \in Handler, HttpDeleteRead(h)
      PROVE  Mentioned'
  <2>1. handler[h].at # "mention" /\ UNCHANGED <<told, untold>>
    BY <1>13 DEF HttpDeleteRead, ReadsIt, Busy, Rest
  <2>2. /\ \A k \in Handler : k # h => handler'[k] = handler[k]
        /\ handler'[h].prev => handler[h].prev \/ message.mentions
    BY <1>13 DEF HttpDeleteRead, ReadsIt, Goes, Ends, Fails, Typed, Stages, Rest
  <2>3. message'.mentions => message.mentions
    BY <1>13 DEF HttpDeleteRead, ReadsIt, Typed, MessageSet
  <2> QED BY <2>1, <2>2, <2>3, StillMentioned
<1>14. ASSUME NEW h \in Handler, HttpDeleteWrite(h)
      PROVE  Mentioned'
  <2>1. handler[h].at # "mention" /\ UNCHANGED <<told, untold>>
    BY <1>14 DEF HttpDeleteWrite, SoftDelete, Busy, Rest
  <2>2. /\ \A k \in Handler : k # h => handler'[k] = handler[k]
        /\ handler'[h].prev => handler[h].prev \/ message.mentions
    BY <1>14 DEF HttpDeleteWrite, SoftDelete, Goes, Ends, Fails, Typed, Stages, Rest
  <2>3. message'.mentions => message.mentions
    BY <1>14 DEF HttpDeleteWrite, SoftDelete, Typed, MessageSet
  <2> QED BY <2>1, <2>2, <2>3, StillMentioned
<1>15. ASSUME NEW h \in Handler, PinRead(h)
      PROVE  Mentioned'
  <2>1. handler[h].at # "mention" /\ UNCHANGED <<told, untold>>
    BY <1>15 DEF PinRead, Busy, Rest
  <2>2. /\ \A k \in Handler : k # h => handler'[k] = handler[k]
        /\ handler'[h].prev => handler[h].prev \/ message.mentions
    BY <1>15 DEF PinRead, Goes, Ends, Fails, Typed, Stages, Rest
  <2>3. message'.mentions => message.mentions
    BY <1>15 DEF PinRead, Typed, MessageSet
  <2> QED BY <2>1, <2>2, <2>3, StillMentioned
<1>16. ASSUME NEW h \in Handler, PinWrite(h)
      PROVE  Mentioned'
  <2>1. handler[h].at # "mention" /\ UNCHANGED <<told, untold>>
    BY <1>16 DEF PinWrite, Busy, Rest
  <2>2. /\ \A k \in Handler : k # h => handler'[k] = handler[k]
        /\ handler'[h].prev => handler[h].prev \/ message.mentions
    BY <1>16 DEF PinWrite, Goes, Ends, Fails, Typed, Stages, Rest
  <2>3. message'.mentions => message.mentions
    BY <1>16 DEF PinWrite, Typed, MessageSet
  <2> QED BY <2>1, <2>2, <2>3, StillMentioned
<1>17. ASSUME NEW h \in Handler, Pull(h)
      PROVE  Mentioned'
  <2>1. handler[h].at # "mention" /\ UNCHANGED <<told, untold>>
    BY <1>17 DEF Pull, Busy, Rest
  <2>2. /\ \A k \in Handler : k # h => handler'[k] = handler[k]
        /\ handler'[h].prev => handler[h].prev \/ message.mentions
    BY <1>17 DEF Pull, Goes, Ends, Fails, Typed, Stages, Rest
  <2>3. message'.mentions => message.mentions
    BY <1>17 DEF Pull, Typed, MessageSet
  <2> QED BY <2>1, <2>2, <2>3, StillMentioned
<1>18. ASSUME NEW h \in Handler, Unset(h)
      PROVE  Mentioned'
  <2>1. handler[h].at # "mention" /\ UNCHANGED <<told, untold>>
    BY <1>18 DEF Unset, Busy, Rest
  <2>2. /\ \A k \in Handler : k # h => handler'[k] = handler[k]
        /\ handler'[h].prev => handler[h].prev \/ message.mentions
    BY <1>18 DEF Unset, Goes, Ends, Fails, Typed, Stages, Rest
  <2>3. message'.mentions => message.mentions
    BY <1>18 DEF Unset, Typed, MessageSet
  <2> QED BY <2>1, <2>2, <2>3, StillMentioned
<1>19. ASSUME NEW h \in Handler, Add(h)
      PROVE  Mentioned'
  <2>1. handler[h].at # "mention" /\ UNCHANGED <<told, untold>>
    BY <1>19 DEF Add, Busy, Rest
  <2>2. /\ \A k \in Handler : k # h => handler'[k] = handler[k]
        /\ handler'[h].prev => handler[h].prev \/ message.mentions
    BY <1>19 DEF Add, Goes, Ends, Fails, Typed, Stages, Rest
  <2>3. message'.mentions => message.mentions
    BY <1>19 DEF Add, Typed, MessageSet
  <2> QED BY <2>1, <2>2, <2>3, StillMentioned
<1>20. CASE UNCHANGED vars
  BY <1>20 DEF vars, Mentioned, Cared, Telling
<1> QED
  BY <1>1, <1>2, <1>3, <1>4, <1>5, <1>6, <1>7, <1>8, <1>9, <1>10, <1>11, <1>12,
     <1>13, <1>14, <1>15, <1>16, <1>17, <1>18, <1>19, <1>20
  DEF MsgNext

\* Whoever the stored text mentions was told, or will be, unless an error was in the way,
\* however many edits cross.
THEOREM MentionedAreTold == MsgSpec => []MentionsTold
<1>1. MsgInit => Typed /\ Mentioned
  BY InitTyped, InitMentioned
<1>2. Typed /\ Mentioned /\ [MsgNext]_vars => Typed' /\ Mentioned'
  BY NextTyped, NextMentioned
<1>3. Mentioned => MentionsTold
  BY DEF Mentioned, Cared, Telling, MentionsTold
<1> QED BY <1>1, <1>2, <1>3, PTL DEF MsgSpec

-----------------------------------------------------------------------------
(****************************************************************************)
(* Numbers and finite sets.                                                 *)
(****************************************************************************)
\* How the number of elements changes where two sets differ in one element at most.
LEMMA OneMoves ==
  ASSUME NEW D, IsFiniteSet(D), NEW S \in SUBSET D, NEW T \in SUBSET D,
         NEW x, S \ {x} = T \ {x}
  PROVE  /\ Cardinality(S) \in Nat /\ Cardinality(T) \in Nat
         /\ (x \in S <=> x \in T) => Cardinality(T) = Cardinality(S)
         /\ x \in T /\ x \notin S => Cardinality(T) = Cardinality(S) + 1
         /\ x \in S /\ x \notin T => Cardinality(S) = Cardinality(T) + 1
<1>1. IsFiniteSet(S) /\ IsFiniteSet(T)
  BY FS_Subset
<1>2. Cardinality(S) \in Nat /\ Cardinality(T) \in Nat
  BY <1>1, FS_CardinalityType
<1>3. ASSUME x \in S <=> x \in T PROVE Cardinality(T) = Cardinality(S)
  <2>1. S = T
    BY <1>3
  <2> QED BY <2>1
<1>4. ASSUME x \in T, x \notin S PROVE Cardinality(T) = Cardinality(S) + 1
  <2>1. T = S \cup {x}
    BY <1>4
  <2> QED BY <1>1, <1>4, <2>1, FS_AddElement
<1>5. ASSUME x \in S, x \notin T PROVE Cardinality(S) = Cardinality(T) + 1
  <2>1. S = T \cup {x}
    BY <1>5
  <2> QED BY <1>1, <1>5, <2>1, FS_AddElement
<1> QED BY <1>2, <1>3, <1>4, <1>5

\* The numbers below one another have a least one in every set.
LEMMA Below == IsWellFoundedOn({ss \in Nat \X Nat : ss[1] < ss[2]}, Nat)
  BY NatLessThanWellFounded, Zenon DEF OpToRel

\* A set of message numbers has a highest one.
LEMMA Highest ==
  ASSUME NEW n \in Nat, NEW S \in SUBSET (1 .. n), S # {}
  PROVE  Direct!Max(S) \in S /\ \A k \in S : Direct!Max(S) >= k
<1> DEFINE T == {n - m : m \in S}
           R == {ss \in Nat \X Nat : ss[1] < ss[2]}
<1>1. T \subseteq Nat /\ T # {}
  <2>1. \A m \in S : n - m \in Nat
    OBVIOUS
  <2> QED BY <2>1
<1>2. PICK x \in T : \A y \in T : <<y, x>> \notin R
  <2> HIDE DEF R, T
  <2> QED BY <1>1, Below, WFMin DEF R
<1>3. PICK m \in S : x = n - m
  OBVIOUS
<1>4. \A k \in S : m >= k
  <2> SUFFICES ASSUME NEW k \in S PROVE m >= k
    OBVIOUS
  <2>1. n - k \in T /\ n - k \in Nat /\ n - m \in Nat
    OBVIOUS
  <2>2. ~(n - k < n - m)
    BY <1>2, <1>3, <2>1
  <2> QED BY <2>2
<1> QED BY <1>4 DEF Direct!Max

-----------------------------------------------------------------------------
(****************************************************************************)
(* DmTip: where its tasks can be.                                            *)
(****************************************************************************)
TipTaskSet ==
    [at : Direct!Place, kind : Direct!Kind, msg : Direct!Msg \cup {0}, gen : Nat,
     counted : SUBSET Direct!Msg, same : BOOLEAN, extra : BOOLEAN, round : 0 .. 4,
     prev : Nat, left : 0 .. 3]

\* What a task is about fits to where it is.
Fits(r) ==
    /\ r.at \in {"stamped", "probe", "write", "ask", "bump", "check", "tip"} => r.msg \in Direct!Msg
    /\ r.at \in {"ask", "bump", "check"} => r.kind = "send"
    /\ r.at \in {"tip", "drop"} => r.kind \in {"delete", "deleteRead"}
    /\ r.at = "latest" => r.kind \in {"delete", "deleteRead", "wipe"}
    /\ r.at \in {"wipe", "late", "clear"} => r.kind = "wipe"

Peeking == {t \in Handler : task[t].at = "peeked"}

\* A message is inserted by the one that has its timestamp, and what is deleted stays so.
TasksFit ==
    /\ task \in [Handler -> TipTaskSet]
    /\ \A t \in Handler :
        /\ Fits(task[t])
        /\ task[t].at = "stamped" => task[t].msg <= stamps /\ msg[task[t].msg] = "none"
        /\ task[t].at = "tip" => msg[task[t].msg] = "deleted"
        /\ \A x \in Handler :
            task[t].at = "stamped" /\ task[x].at = "stamped" /\ x # t => task[x].msg # task[t].msg
    /\ \A m \in Direct!Msg : m > stamps => msg[m] = "none"

TipTyped ==
    /\ msg \in [Direct!Msg -> {"none", "unread", "read", "deleted"}]
    /\ tip \in Direct!Tip \cup {NoTip}
    /\ tip = NoTip => holds = {}
    /\ entry \in Nat /\ mark \in Nat
    /\ stamps \in Nat /\ sends \in 0 .. MaxMsgs /\ stamps + Cardinality(Peeking) <= sends
    /\ tipRequests \in 0 .. MaxTipRequests /\ others \in 0 .. MaxOthers /\ tipErrors \in 0 .. MaxErrors
    /\ holds \subseteq Direct!Msg
    /\ lapses \subseteq {"extra", "uncounted", "untipped"}

\* A task that will show the tip the message m, or one that is newer.
Shows(r, m) ==
    \/ r.at = "probe" /\ (r.msg = m \/ (r.msg >= m /\ r.msg \in Direct!Live))
    \/ r.at \in {"write", "tip"} /\ r.msg >= m
    \/ r.at = "latest"

Newest ==
    "untipped" \in lapses \/ \A m \in Direct!Live :
        (tip # NoTip /\ tip.last >= m) \/ \E t \in Handler : Shows(task[t], m)

\* A task that is about to count, or will because of what it deletes.
WillCount(r) ==
    \/ r.at \in {"count", "set"}
    \/ /\ r.kind \in {"delete", "wipe"}
       /\ r.at \in {"tip", "latest", "drop", "probe", "write", "late", "clear"}

\* The number in the tip is that of the messages it stands for, ...
NumberStands ==
    tip # NoTip =>
        \/ tip.unread = Cardinality(holds)
        \/ lapses \cap {"extra", "uncounted"} # {}
        \/ \E t \in Handler : task[t].at \in {"count", "set"} \/ (task[t].at = "check" /\ task[t].extra)

\* ... an unread message that is not among them is still to be added or counted, ...
Adds(r, m) ==
    \/ WillCount(r)
    \/ r.kind = "send" /\ r.msg = m /\ r.at \in {"probe", "write", "ask", "bump"}
    \/ r.at \in {"readback", "recount"} /\ m \notin r.counted

NoneMissing ==
    "uncounted" \in lapses \/ \A m \in Direct!Unread \ holds : \E t \in Handler : Adds(task[t], m)

\* ... and one of them that is not unread is still to be found out.
Finds(r, m) ==
    \/ WillCount(r)
    \/ r.at \in {"readback", "recount"} /\ m \in r.counted
    \/ r.at = "check" /\ r.extra /\ r.msg = m

NoneTooMany ==
    lapses \cap {"extra", "uncounted"} # {} \/
        \A m \in holds \ Direct!Unread : \E t \in Handler : Finds(task[t], m)

TipInv == TasksFit /\ TipTyped /\ Newest /\ NumberStands /\ NoneMissing /\ NoneTooMany


-----------------------------------------------------------------------------
(****************************************************************************)
(* How a task moves.                                                        *)
(****************************************************************************)
\* Only t moves, and to a place that fits it.
Moves(t) ==
    /\ task' \in [Handler -> TipTaskSet]
    /\ \A x \in Handler : x # t => task'[x] = task[x]

LEMMA IdleTyped ==
  /\ Direct!Idle \in TipTaskSet /\ Direct!Idle.at = "idle" /\ Direct!Idle.kind = "quiet"
  /\ Direct!Idle.extra = FALSE
  BY DEF Direct!Idle, TipTaskSet, Direct!Place, Direct!Kind

LEMMA GotoMoves ==
  ASSUME task \in [Handler -> TipTaskSet], NEW t \in Handler, NEW place \in Direct!Place,
         Direct!Goto(t, place)
  PROVE  /\ Moves(t)
         /\ task'[t].at = place
         /\ task'[t].kind = task[t].kind /\ task'[t].msg = task[t].msg
         /\ task'[t].counted = task[t].counted /\ task'[t].extra = task[t].extra
<1> DEFINE r == [task[t] EXCEPT !.at = place]
<1>1. /\ r \in TipTaskSet /\ r.at = place /\ r.kind = task[t].kind /\ r.msg = task[t].msg
      /\ r.counted = task[t].counted /\ r.extra = task[t].extra
  BY DEF TipTaskSet
<1>2. task' = [task EXCEPT ![t] = r]
  BY DEF Direct!Goto
<1> HIDE DEF r
<1> QED BY <1>1, <1>2 DEF Moves

LEMMA ToCountMoves ==
  ASSUME task \in [Handler -> TipTaskSet], NEW t \in Handler, Direct!ToCount(t)
  PROVE  /\ Moves(t)
         /\ task'[t].at = "count" /\ task'[t].kind = task[t].kind /\ task'[t].extra = FALSE
<1> DEFINE r == [Direct!Idle EXCEPT !.at = "count", !.kind = task[t].kind]
<1>1. r \in TipTaskSet /\ r.at = "count" /\ r.kind = task[t].kind /\ r.extra = FALSE
  <2>1. task[t].kind \in Direct!Kind
    BY DEF TipTaskSet
  <2> QED BY <2>1, IdleTyped DEF TipTaskSet, Direct!Place
<1>2. task' = [task EXCEPT ![t] = r]
  BY DEF Direct!ToCount
<1> HIDE DEF r
<1> QED BY <1>1, <1>2 DEF Moves

LEMMA EndsMoves ==
  ASSUME task \in [Handler -> TipTaskSet], NEW t \in Handler, Direct!Ends(t)
  PROVE  Moves(t) /\ task'[t].at = "idle" /\ task'[t].kind = "quiet" /\ task'[t].extra = FALSE
<1>1. task' = [task EXCEPT ![t] = Direct!Idle]
  BY DEF Direct!Ends
<1> QED BY <1>1, IdleTyped DEF Moves

LEMMA StartsMoves ==
  ASSUME task \in [Handler -> TipTaskSet], NEW t \in Handler, NEW kind \in Direct!Kind,
         NEW place \in Direct!Place, NEW m \in Direct!Msg \cup {0},
         Direct!Starts(t, kind, place, m)
  PROVE  /\ Moves(t) /\ task[t].at = "idle"
         /\ task'[t].at = place /\ task'[t].kind = kind /\ task'[t].msg = m
         /\ task'[t].extra = FALSE
<1> DEFINE r == [Direct!Idle EXCEPT !.at = place, !.kind = kind, !.msg = m]
<1>1. r \in TipTaskSet /\ r.at = place /\ r.kind = kind /\ r.msg = m /\ r.extra = FALSE
  BY IdleTyped DEF TipTaskSet
<1>2. task[t] = Direct!Idle /\ task' = [task EXCEPT ![t].at = place, ![t].kind = kind, ![t].msg = m]
  BY DEF Direct!Starts
<1>3. task' = [task EXCEPT ![t] = r]
  BY <1>2
<1>4. task[t].at = "idle"
  BY <1>2, IdleTyped
<1> HIDE DEF r
<1> QED BY <1>1, <1>3, <1>4 DEF Moves

\* After the tip was written, or not: to the number, or it ends.
LEMMA TippedMoves ==
  ASSUME task \in [Handler -> TipTaskSet], NEW t \in Handler, Direct!Tipped(t)
  PROVE  /\ Moves(t)
         /\ \/ /\ task[t].kind = "send" /\ task'[t].at = "ask" /\ task'[t].kind = "send"
               /\ task'[t].msg = task[t].msg
            \/ /\ task[t].kind \in {"replay", "delete", "wipe"} /\ task'[t].at = "count"
               /\ task'[t].kind = task[t].kind
            \/ /\ task[t].kind \notin {"send", "replay", "delete", "wipe"}
               /\ task'[t].at = "idle" /\ task'[t].kind = "quiet"
<1>1. CASE task[t].kind = "send"
  <2>1. Direct!Goto(t, "ask")
    BY <1>1 DEF Direct!Tipped
  <2> QED BY <1>1, <2>1, GotoMoves DEF Direct!Place
<1>2. CASE task[t].kind \in {"replay", "delete", "wipe"}
  <2>1. Direct!ToCount(t)
    BY <1>2 DEF Direct!Tipped
  <2> QED BY <1>2, <2>1, ToCountMoves
<1>3. CASE task[t].kind \notin {"send", "replay", "delete", "wipe"}
  <2>1. Direct!Ends(t)
    BY <1>3 DEF Direct!Tipped
  <2> QED BY <1>3, <2>1, EndsMoves
<1> QED BY <1>1, <1>2, <1>3
-----------------------------------------------------------------------------
(****************************************************************************)
(* Steps that write neither a message nor the tip.                           *)
(****************************************************************************)
Excused == lapses \cap {"extra", "uncounted"} # {}

\* What t was to see to, it still is, or it is noted that it will not.
Counts(t) ==
    /\ task[t].at \in {"count", "set"} \/ (task[t].at = "check" /\ task[t].extra) =>
        Excused' \/ task'[t].at \in {"count", "set"}
    /\ \A m \in Direct!Unread :
        Adds(task[t], m) => "uncounted" \in lapses' \/ Adds(task'[t], m)
    /\ \A m \in Direct!Msg \ Direct!Unread :
        Finds(task[t], m) => Excused' \/ Finds(task'[t], m)

PassesOn(t) ==
    /\ Counts(t)
    /\ \A m \in Direct!Live :
        Shows(task[t], m) => "untipped" \in lapses' \/ Shows(task'[t], m)

\* The part of the types that a step of t keeps which takes no timestamp and deletes nothing.
LEMMA FitStays ==
  ASSUME TasksFit, TipTyped, NEW t \in Handler, Moves(t), Fits(task'[t]),
         task[t].at # "peeked", task'[t].at \notin {"peeked", "stamped", "tip"},
         UNCHANGED stamps,
         \A m \in Direct!Msg :
            msg[m] \in {"none", "deleted"} =>
                \/ msg'[m] = msg[m]
                \/ task[t].at = "stamped" /\ task[t].msg = m /\ m <= stamps
  PROVE  TasksFit' /\ Peeking' = Peeking
<1>1. Peeking' = Peeking
  BY DEF Moves, Peeking
<1>2. ASSUME NEW x \in Handler
      PROVE  /\ Fits(task[x])'
             /\ task'[x].at = "stamped" => task'[x].msg <= stamps' /\ msg'[task'[x].msg] = "none"
             /\ task'[x].at = "tip" => msg'[task'[x].msg] = "deleted"
             /\ \A y \in Handler :
                 task'[x].at = "stamped" /\ task'[y].at = "stamped" /\ y # x =>
                     task'[y].msg # task'[x].msg
  <2>1. CASE x = t
    BY <2>1 DEF Fits
  <2>2. CASE x # t
    <3>1. task'[x] = task[x]
      BY <2>2 DEF Moves
    <3>2. \A y \in Handler : task'[y].at = "stamped" => task'[y] = task[y]
      BY DEF Moves
    <3>3. Fits(task[x])' 
      BY <3>1 DEF TasksFit, Fits
    <3>4. ASSUME task[x].at = "stamped"
          PROVE  task[x].msg <= stamps' /\ msg'[task[x].msg] = "none"
      <4>1. /\ task[x].msg \in Direct!Msg /\ task[x].msg <= stamps
            /\ msg[task[x].msg] = "none"
        BY <3>4 DEF TasksFit, Fits
      <4>2. ~(task[t].at = "stamped" /\ task[t].msg = task[x].msg)
        BY <2>2, <3>4 DEF TasksFit
      <4> QED BY <4>1, <4>2
    <3>5. ASSUME task[x].at = "tip"
          PROVE  msg'[task[x].msg] = "deleted"
      <4>1. task[x].msg \in Direct!Msg /\ msg[task[x].msg] = "deleted"
        BY <3>5 DEF TasksFit, Fits
      <4>2. ~(task[t].at = "stamped" /\ task[t].msg = task[x].msg)
        BY <4>1 DEF TasksFit
      <4> QED BY <4>1, <4>2
    <3>6. \A y \in Handler :
             task'[x].at = "stamped" /\ task'[y].at = "stamped" /\ y # x =>
                 task'[y].msg # task'[x].msg
      BY <3>1, <3>2 DEF TasksFit
    <3> QED BY <3>1, <3>3, <3>4, <3>5, <3>6
  <2> QED BY <2>1, <2>2
<1>3. \A m \in Direct!Msg : m > stamps' => msg'[m] = "none"
  <2> SUFFICES ASSUME NEW m \in Direct!Msg, m > stamps PROVE msg'[m] = "none"
    OBVIOUS
  <2>1. msg[m] = "none" /\ m \in Nat /\ stamps \in Nat
    BY DEF TasksFit, TipTyped, Direct!Msg
  <2> QED BY <2>1
<1> QED BY <1>1, <1>2, <1>3 DEF TasksFit, Moves

\* What else a step leaves in its type.
RestTyped ==
    /\ entry \in Nat /\ mark \in Nat
    /\ tipRequests \in 0 .. MaxTipRequests /\ others \in 0 .. MaxOthers /\ tipErrors \in 0 .. MaxErrors
    /\ lapses \subseteq {"extra", "uncounted", "untipped"}

LEMMA SameMsgs ==
  ASSUME UNCHANGED msg
  PROVE  Direct!Live' = Direct!Live /\ Direct!Unread' = Direct!Unread
  BY DEF Direct!Live, Direct!Unread

LEMMA NumbersStay ==
  ASSUME TipInv, NEW t \in Handler, Moves(t), Counts(t), UNCHANGED holds,
         Direct!Unread' = Direct!Unread,
         tip' = NoTip \/ tip'.unread = Cardinality(holds) \/
            (tip # NoTip /\ tip'.unread = tip.unread),
         lapses \cap {"extra", "uncounted"} \subseteq lapses'
  PROVE  NumberStands' /\ NoneMissing' /\ NoneTooMany'
<1>a. Excused => Excused'
  BY DEF Excused
<1>b. \A x \in Handler : x # t => task'[x] = task[x]
  BY DEF Moves
<1>1. NumberStands'
  <2> SUFFICES ASSUME ~Excused', tip' # NoTip, tip'.unread # Cardinality(holds)
               PROVE  \E x \in Handler : \/ task'[x].at \in {"count", "set"}
                                         \/ task'[x].at = "check" /\ task'[x].extra
    BY DEF NumberStands, Excused
  <2>1. PICK x \in Handler : task[x].at \in {"count", "set"} \/ (task[x].at = "check" /\ task[x].extra)
    BY <1>a DEF TipInv, NumberStands, Excused
  <2> QED BY <1>b, <2>1 DEF Counts
<1>2. NoneMissing'
  <2> SUFFICES ASSUME "uncounted" \notin lapses', NEW m \in Direct!Unread \ holds
               PROVE  \E x \in Handler : Adds(task'[x], m)
    BY <1>a DEF NoneMissing, Adds, WillCount
  <2>1. PICK x \in Handler : Adds(task[x], m)
    BY DEF TipInv, NoneMissing
  <2> QED BY <1>b, <2>1 DEF Counts
<1>3. NoneTooMany'
  <2> SUFFICES ASSUME ~Excused', NEW m \in holds \ Direct!Unread
               PROVE  \E x \in Handler : Finds(task'[x], m)
    BY <1>a DEF NoneTooMany, Finds, WillCount, Excused
  <2>1. PICK x \in Handler : Finds(task[x], m)
    BY <1>a DEF TipInv, NoneTooMany, Excused
  <2>2. m \in Direct!Msg
    BY DEF TipInv, TipTyped
  <2> QED BY <1>b, <2>1, <2>2 DEF Counts
<1> QED BY <1>1, <1>2, <1>3

LEMMA NewestStays ==
  ASSUME TipInv, NEW t \in Handler, Moves(t), Direct!Live' = Direct!Live,
         "untipped" \in lapses => "untipped" \in lapses',
         \A m \in Direct!Live :
            (tip # NoTip /\ tip.last >= m) \/ Shows(task[t], m) =>
                \/ "untipped" \in lapses' \/ Shows(task'[t], m)
                \/ tip' # NoTip /\ tip'.last >= m
  PROVE  Newest'
<1> SUFFICES ASSUME "untipped" \notin lapses', NEW m \in Direct!Live, ~(tip' # NoTip /\ tip'.last >= m)
             PROVE  \E x \in Handler : Shows(task'[x], m)
  BY DEF Newest, Shows
<1>2. PICK x \in Handler : (tip # NoTip /\ tip.last >= m) \/ Shows(task[x], m)
  BY DEF TipInv, Newest
<1> QED BY <1>2 DEF Moves

LEMMA StepStays ==
  ASSUME TipInv, NEW t \in Handler, Moves(t), Fits(task'[t]), PassesOn(t),
         task[t].at # "peeked", task'[t].at \notin {"peeked", "stamped", "tip"},
         UNCHANGED <<msg, tip, holds, stamps, sends>>,
         lapses \subseteq lapses', RestTyped'
  PROVE  TipInv'
<1>1. TasksFit' /\ Peeking' = Peeking
  BY FitStays DEF TipInv
<1>2. TipTyped'
  BY <1>1 DEF TipInv, TipTyped, RestTyped
<1> QED BY <1>1, <1>2, SameMsgs, NumbersStay, NewestStays DEF TipInv, PassesOn

-----------------------------------------------------------------------------
LEMMA Bounds ==
  /\ MaxRequests \in Nat /\ MaxErrors \in Nat
  /\ MaxMsgs \in Nat /\ MaxTipRequests \in Nat /\ MaxOthers \in Nat
  /\ MaxUses \in Nat /\ MaxActing \in Nat /\ MaxActs \in Nat /\ MaxFaults \in Nat
  /\ MaxPosts \in Nat /\ MaxRounds \in Nat /\ MaxAsked \in Nat /\ MaxMishaps \in Nat
  BY ChatsAssumption

LEMMA PeekTyped ==
  ASSUME TipTyped
  PROVE  Direct!Peek \in Nat /\ Direct!Bumped \in Nat /\ Direct!Larger(mark, Direct!Bumped) \in Nat
  BY DEF TipTyped, Direct!Peek, Direct!Bumped, Direct!Larger

LEMMA ReadTipStays ==
  ASSUME TipInv, NEW t \in Handler, Direct!ReadTip(t)
  PROVE  TipInv'
<1> USE DEF Direct!At, Direct!counters, Direct!generation
<1>0. /\ task \in [Handler -> TipTaskSet] /\ task[t].at = "tip" /\ task[t].msg \in Direct!Msg
      /\ msg[task[t].msg] = "deleted" /\ task[t].kind \in {"delete", "deleteRead"}
  BY DEF Direct!ReadTip, TipInv, TasksFit, Fits
<1>1. /\ UNCHANGED <<msg, tip, holds, stamps, sends>> /\ lapses \subseteq lapses' /\ RestTyped'
  BY DEF Direct!ReadTip, TipInv, TipTyped, RestTyped
<1>2. CASE Direct!Goto(t, "latest")
  <2>1. Moves(t) /\ task'[t].at = "latest" /\ task'[t].kind = task[t].kind
    BY <1>0, <1>2, GotoMoves DEF Direct!Place
  <2>2. Fits(task'[t]) /\ PassesOn(t)
    BY <1>0, <2>1 DEF Fits, PassesOn, Counts, Shows, Adds, Finds, WillCount
  <2> QED BY <1>0, <1>1, <2>1, <2>2, StepStays
<1>3. CASE /\ tip # NoTip /\ tip.last # task[t].msg
           /\ Direct!Tipped(t)
           /\ lapses' = lapses \cup {why \in {"untipped"} :
                \E m \in Direct!Past : tip.last < m /\ m < task[t].msg}
  <2>1. /\ Moves(t)
        /\ \/ task[t].kind = "delete" /\ task'[t].at = "count" /\ task'[t].kind = "delete"
           \/ task[t].kind = "deleteRead" /\ task'[t].at = "idle" /\ task'[t].kind = "quiet"
    BY <1>0, <1>3, TippedMoves
  <2>2. Fits(task'[t])
    BY <2>1 DEF Fits
  <2>3. Counts(t)
    BY <1>0, <2>1 DEF Counts, Adds, Finds, WillCount
  <2>4. \A m \in Direct!Live :
            \/ "untipped" \in lapses' \/ tip.last >= m
            \/ \E x \in Handler : Shows(task'[x], m)
    <3> SUFFICES ASSUME NEW m \in Direct!Live, "untipped" \notin lapses', ~(tip.last >= m)
                 PROVE  \E x \in Handler : Shows(task'[x], m)
      OBVIOUS
    <3>1. m \in Direct!Msg /\ m # task[t].msg /\ m \in Nat /\ tip.last \in Nat /\ task[t].msg \in Nat
      BY <1>0, <1>3 DEF Direct!Live, TipInv, TipTyped, Direct!Tip, Direct!Msg
    <3>2. CASE m \in Direct!Past
      <4>1. ~(m < task[t].msg)
        BY <1>3, <3>1, <3>2
      <4>2. PICK x \in Handler : Shows(task[x], m)
        BY <1>1, <3>1 DEF TipInv, Newest
      <4>3. ~Shows(task[t], m)
        BY <1>0, <3>1, <4>1 DEF Shows
      <4> QED BY <2>1, <4>2, <4>3 DEF Moves
    <3>3. CASE m \notin Direct!Past
      <4>1. PICK x \in Handler : task[x].msg = m /\ task[x].at \in {"probe", "write"}
        BY <3>3 DEF Direct!Past
      <4>2. task'[x] = task[x]
        BY <1>0, <2>1, <4>1 DEF Moves
      <4> QED BY <3>1, <4>1, <4>2 DEF Shows
    <3> QED BY <3>2, <3>3
  <2> QED
    <3>1. Newest'
      BY <1>1, <1>3, <2>4 DEF Newest, Direct!Live, Shows
    <3>2. NumberStands' /\ NoneMissing' /\ NoneTooMany'
      BY <1>1, <2>1, <2>3, SameMsgs, NumbersStay
    <3>3. TasksFit' /\ Peeking' = Peeking
      BY <1>0, <1>1, <2>1, <2>2, FitStays DEF TipInv
    <3>4. TipTyped'
      BY <1>1, <3>3 DEF TipInv, TipTyped, RestTyped
    <3> QED BY <3>1, <3>2, <3>3, <3>4 DEF TipInv
<1> QED BY <1>2, <1>3 DEF Direct!ReadTip

LEMMA ProbeStays ==
  ASSUME TipInv, NEW t \in Handler, Direct!Probe(t)
  PROVE  TipInv'
<1> USE DEF Direct!At, Direct!counters, Direct!generation, Direct!history
<1>0. /\ task \in [Handler -> TipTaskSet] /\ task[t].at = "probe" /\ task[t].msg \in Direct!Msg
  BY DEF Direct!Probe, TipInv, TasksFit, Fits
<1>1. /\ UNCHANGED <<msg, tip, holds, stamps, sends>> /\ lapses \subseteq lapses' /\ RestTyped'
  BY DEF Direct!Probe, TipInv, TipTyped, RestTyped
<1>2. CASE task[t].msg \in Direct!Live /\ Direct!Goto(t, "write")
  <2>1. /\ Moves(t) /\ task'[t].at = "write" /\ task'[t].kind = task[t].kind
        /\ task'[t].msg = task[t].msg
    BY <1>0, <1>2, GotoMoves DEF Direct!Place
  <2>2. Fits(task'[t]) /\ PassesOn(t)
    BY <1>0, <2>1 DEF Fits, PassesOn, Counts, Shows, Adds, Finds, WillCount, Direct!Msg
  <2> QED BY <1>0, <1>1, <2>1, <2>2, StepStays
<1>3. CASE task[t].msg \notin Direct!Live /\ Direct!Tipped(t)
  <2>1. /\ Moves(t)
        /\ \/ /\ task[t].kind = "send" /\ task'[t].at = "ask" /\ task'[t].kind = "send"
              /\ task'[t].msg = task[t].msg
           \/ /\ task[t].kind \in {"replay", "delete", "wipe"} /\ task'[t].at = "count"
              /\ task'[t].kind = task[t].kind
           \/ /\ task[t].kind \notin {"send", "replay", "delete", "wipe"}
              /\ task'[t].at = "idle" /\ task'[t].kind = "quiet"
    BY <1>0, <1>3, TippedMoves
  <2>2. Fits(task'[t])
    BY <1>0, <2>1 DEF Fits
  <2>3. PassesOn(t)
    BY <1>0, <1>3, <2>1 DEF PassesOn, Counts, Shows, Adds, Finds, WillCount
  <2> QED BY <1>0, <1>1, <2>1, <2>2, <2>3, StepStays
<1> QED BY <1>2, <1>3 DEF Direct!Probe

LEMMA AskStays ==
  ASSUME TipInv, NEW t \in Handler, Direct!Ask(t)
  PROVE  TipInv'
<1> USE DEF Direct!At, Direct!counters, Direct!generation, Direct!history
<1>0. /\ task \in [Handler -> TipTaskSet] /\ task[t].at = "ask" /\ task[t].msg \in Direct!Msg
      /\ task[t].kind = "send"
  BY DEF Direct!Ask, TipInv, TasksFit, Fits
<1>1. /\ UNCHANGED <<msg, tip, holds, stamps, sends>> /\ lapses \subseteq lapses' /\ RestTyped'
  BY DEF Direct!Ask, TipInv, TipTyped, RestTyped
<1>2. CASE Direct!Goto(t, "bump")
  <2>1. /\ Moves(t) /\ task'[t].at = "bump" /\ task'[t].kind = task[t].kind
        /\ task'[t].msg = task[t].msg
    BY <1>0, <1>2, GotoMoves DEF Direct!Place
  <2>2. Fits(task'[t]) /\ PassesOn(t)
    BY <1>0, <2>1 DEF Fits, PassesOn, Counts, Shows, Adds, Finds, WillCount
  <2> QED BY <1>0, <1>1, <2>1, <2>2, StepStays
<1>3. CASE Direct!ToCount(t)
  <2>1. Moves(t) /\ task'[t].at = "count"
    BY <1>0, <1>3, ToCountMoves
  <2>2. Fits(task'[t]) /\ PassesOn(t)
    BY <1>0, <2>1 DEF Fits, PassesOn, Counts, Shows, Adds, Finds, WillCount
  <2> QED BY <1>0, <1>1, <2>1, <2>2, StepStays
<1> QED BY <1>2, <1>3 DEF Direct!Ask

LEMMA LetGoStays ==
  ASSUME TipInv, NEW t \in Handler, task[t].at = "check", Direct!LetGo(t),
         UNCHANGED <<msg, tip, entry, mark, holds, stamps, sends, tipRequests, others>>,
         tipErrors' \in 0 .. MaxErrors
  PROVE  TipInv'
<1>0. task \in [Handler -> TipTaskSet]
  BY DEF TipInv, TasksFit
<1>1. /\ lapses \subseteq lapses' /\ RestTyped' /\ (task[t].extra => "extra" \in lapses')
  BY DEF Direct!LetGo, TipInv, TipTyped, RestTyped
<1>2. Moves(t) /\ task'[t].at = "idle" /\ task'[t].kind = "quiet"
  BY <1>0, EndsMoves DEF Direct!LetGo
<1>3. Fits(task'[t])
  BY <1>2 DEF Fits
<1>4. PassesOn(t)
  BY <1>1, <1>2 DEF PassesOn, Counts, Shows, Adds, Finds, WillCount, Excused
<1> QED BY <1>0, <1>1, <1>2, <1>3, <1>4, StepStays

LEMMA CheckStays ==
  ASSUME TipInv, NEW t \in Handler, Direct!Check(t)
  PROVE  TipInv'
<1> USE DEF Direct!At, Direct!counters, Direct!generation
<1>0. task \in [Handler -> TipTaskSet] /\ task[t].at = "check"
  BY DEF Direct!Check, TipInv, TasksFit
<1>1. /\ UNCHANGED <<msg, tip, entry, mark, holds, stamps, sends, tipRequests, others, tipErrors>>
  BY DEF Direct!Check
<1>2. CASE Direct!LetGo(t)
  BY <1>0, <1>1, <1>2, LetGoStays DEF TipInv, TipTyped
<1>3. CASE Direct!ToCount(t) /\ UNCHANGED lapses
  <2>1. Moves(t) /\ task'[t].at = "count"
    BY <1>0, <1>3, ToCountMoves
  <2>2. Fits(task'[t]) /\ PassesOn(t)
    BY <1>0, <2>1 DEF Fits, PassesOn, Counts, Shows, Adds, Finds, WillCount
  <2>3. lapses \subseteq lapses' /\ RestTyped'
    BY <1>1, <1>3 DEF TipInv, TipTyped, RestTyped
  <2> QED BY <1>0, <1>1, <2>1, <2>2, <2>3, StepStays
<1> QED BY <1>2, <1>3 DEF Direct!Check

\* A sync that fails ends, or begins again, and it is noted.
LEMMA SyncFailsStays ==
  ASSUME TipInv, NEW t \in Handler, task[t].at \in {"count", "set", "readback", "recount"},
         Direct!SyncFails(t),
         UNCHANGED <<msg, tip, entry, mark, stamps, sends, tipRequests, others>>,
         tipErrors' \in 0 .. MaxErrors
  PROVE  TipInv'
<1>0. task \in [Handler -> TipTaskSet]
  BY DEF TipInv, TasksFit
<1>1. /\ lapses \subseteq lapses' /\ RestTyped' /\ "uncounted" \in lapses' /\ UNCHANGED holds
  BY DEF Direct!SyncFails, TipInv, TipTyped, RestTyped
<1>2. Moves(t) /\ task'[t].at \in {"invalidate", "count", "idle"}
  <2>1. CASE Direct!Goto(t, "invalidate")
    BY <1>0, <2>1, GotoMoves DEF Direct!Place
  <2>2. CASE Direct!Ends(t)
    BY <1>0, <2>2, EndsMoves
  <2>3. CASE task[t].left > 1 /\ task' = [task EXCEPT ![t].at = "count", ![t].left = @ - 1]
    <3> DEFINE r == [task[t] EXCEPT !.at = "count", !.left = @ - 1]
    <3>1. task[t].left \in 0 .. 3 /\ task[t] \in TipTaskSet
      BY <1>0 DEF TipTaskSet
    <3>2. task[t].left - 1 \in 0 .. 3
      BY <2>3, <3>1
    <3>3. r \in TipTaskSet /\ r.at = "count"
      BY <3>1, <3>2 DEF TipTaskSet, Direct!Place
    <3>4. task' = [task EXCEPT ![t] = r]
      BY <1>0, <2>3
    <3> HIDE DEF r
    <3> QED BY <1>0, <3>3, <3>4 DEF Moves
  <2> QED BY <2>1, <2>2, <2>3 DEF Direct!SyncFails
<1>3. Fits(task'[t])
  BY <1>2 DEF Fits
<1>4. PassesOn(t)
  BY <1>1, <1>2 DEF PassesOn, Counts, Shows, Adds, Finds, WillCount, Excused
<1> QED BY <1>0, <1>1, <1>2, <1>3, <1>4, StepStays

\* A sync takes another look.
LEMMA RoundMoves ==
  ASSUME TipInv, NEW t \in Handler, NEW n \in 0 .. 4,
         task' = [task EXCEPT ![t].at = "set", ![t].counted = Direct!Unread, ![t].round = n]
  PROVE  Moves(t) /\ task'[t].at = "set" /\ Fits(task'[t])
<1>0. task \in [Handler -> TipTaskSet]
  BY DEF TipInv, TasksFit
<1> DEFINE r == [task[t] EXCEPT !.at = "set", !.counted = Direct!Unread, !.round = n]
<1>1. r \in TipTaskSet /\ r.at = "set"
  BY <1>0 DEF TipTaskSet, Direct!Place, Direct!Unread
<1>2. task' = [task EXCEPT ![t] = r]
  BY <1>0
<1> HIDE DEF r
<1> QED BY <1>0, <1>1, <1>2 DEF Moves, Fits

LEMMA CountStays ==
  ASSUME TipInv, NEW t \in Handler, Direct!Count(t)
  PROVE  TipInv'
<1> USE DEF Direct!At, Direct!counters, Direct!generation, Direct!history
<1>1. /\ UNCHANGED <<msg, tip, holds, stamps, sends>> /\ lapses \subseteq lapses' /\ RestTyped'
      /\ task[t].at = "count"
  BY DEF Direct!Count, TipInv, TipTyped, RestTyped
<1>2. Moves(t) /\ task'[t].at = "set" /\ Fits(task'[t])
  <2>1. task' = [task EXCEPT ![t].at = "set", ![t].counted = Direct!Unread, ![t].round = 1]
    BY DEF Direct!Count
  <2>2. 1 \in 0 .. 4
    OBVIOUS
  <2> QED BY <2>1, <2>2, RoundMoves
<1>3. PassesOn(t)
  BY <1>1, <1>2 DEF PassesOn, Counts, Shows, Adds, Finds, WillCount
<1> QED BY <1>1, <1>2, <1>3, StepStays

LEMMA MsgsFinite ==
  \A S \in SUBSET Direct!Msg : Cardinality(S) \in Nat /\ Direct!Cardinality(S) = Cardinality(S)
<1>1. IsFiniteSet(Direct!Msg)
  BY Bounds, FS_Interval DEF Direct!Msg
<1> QED BY <1>1, FS_Subset, FS_CardinalityType DEF Direct!Cardinality, Cardinality

LEMMA SetUnreadStays ==
  ASSUME TipInv, NEW t \in Handler, Direct!SetUnread(t)
  PROVE  TipInv'
<1> USE DEF Direct!At, Direct!counters, Direct!generation
<1>0. task \in [Handler -> TipTaskSet] /\ task[t].at = "set" /\ task[t].counted \subseteq Direct!Msg
  BY DEF Direct!SetUnread, TipInv, TasksFit, TipTaskSet
<1>1. CASE tip = NoTip
  BY <1>0, <1>1, SyncFailsStays DEF Direct!SetUnread, TipInv, TipTyped
<1>2. CASE tip # NoTip
  <2>1. /\ Direct!Goto(t, "readback") /\ tip' = [tip EXCEPT !.unread = Direct!Number(t)]
        /\ holds' = task[t].counted /\ lapses' = lapses \ {"extra"}
        /\ UNCHANGED <<msg, entry, mark, stamps, sends, tipRequests, others, tipErrors>>
    BY <1>2 DEF Direct!SetUnread
  <2>2. /\ Moves(t) /\ task'[t].at = "readback" /\ task'[t].counted = task[t].counted
    BY <1>0, <2>1, GotoMoves DEF Direct!Place
  <2>3. Direct!Number(t) = Cardinality(task[t].counted) /\ Direct!Number(t) \in Nat
    BY <1>0, MsgsFinite DEF Direct!Number
  <2>4. tip' \in Direct!Tip /\ tip'.last = tip.last /\ tip'.unread = Cardinality(holds')
    BY <1>2, <2>1, <2>3 DEF TipInv, TipTyped, Direct!Tip
  <2>5. tip' # NoTip
    BY <2>4, ChatsAssumption DEF Direct!Tip, Direct!Msg
  <2>6. TasksFit' /\ Peeking' = Peeking
    <3>1. Fits(task'[t])
      BY <2>2 DEF Fits
    <3> QED BY <1>0, <2>1, <2>2, <3>1, FitStays DEF TipInv
  <2>7. TipTyped'
    BY <1>0, <2>1, <2>4, <2>5, <2>6 DEF TipInv, TipTyped
  <2>8. Newest'
    BY <1>0, <2>1, <2>2, <2>4, <2>5, SameMsgs, NewestStays DEF Shows
  <2>9. NumberStands'
    BY <2>4 DEF NumberStands
  <2>10. NoneMissing'
    <3> SUFFICES ASSUME NEW m \in Direct!Unread', m \notin holds'
                 PROVE  Adds(task[t], m)'
      BY DEF NoneMissing
    <3> QED BY <2>1, <2>2 DEF Adds
  <2>11. NoneTooMany'
    <3> SUFFICES ASSUME NEW m \in holds'
                 PROVE  Finds(task[t], m)'
      BY DEF NoneTooMany
    <3> QED BY <2>1, <2>2 DEF Finds
  <2> QED BY <2>6, <2>7, <2>8, <2>9, <2>10, <2>11 DEF TipInv
<1> QED BY <1>1, <1>2

LEMMA ReadBackStays ==
  ASSUME TipInv, NEW t \in Handler, Direct!ReadBack(t)
  PROVE  TipInv'
<1> USE DEF Direct!At, Direct!counters, Direct!generation, Direct!history
<1>0. task \in [Handler -> TipTaskSet] /\ task[t].at = "readback"
  BY DEF Direct!ReadBack, TipInv, TasksFit
<1>1. CASE Direct!SyncFails(t)
  BY <1>0, <1>1, SyncFailsStays DEF Direct!ReadBack, TipInv, TipTyped
<1>2. CASE /\ UNCHANGED <<holds, lapses>>
           /\ task' = [task EXCEPT ![t].at = "recount", ![t].same = tip.unread = Direct!Number(t)]
  <2>1. /\ UNCHANGED <<msg, tip, holds, stamps, sends>> /\ lapses \subseteq lapses' /\ RestTyped'
    BY <1>2 DEF Direct!ReadBack, TipInv, TipTyped, RestTyped
  <2>2. Moves(t) /\ task'[t].at = "recount" /\ task'[t].counted = task[t].counted
    <3> DEFINE r == [task[t] EXCEPT !.at = "recount", !.same = tip.unread = Direct!Number(t)]
    <3>1. r \in TipTaskSet /\ r.at = "recount" /\ r.counted = task[t].counted
      <4>1. (tip.unread = Direct!Number(t)) \in BOOLEAN
        OBVIOUS
      <4> QED BY <1>0, <4>1 DEF TipTaskSet, Direct!Place
    <3>2. task' = [task EXCEPT ![t] = r]
      BY <1>0, <1>2
    <3> HIDE DEF r
    <3> QED BY <1>0, <3>1, <3>2 DEF Moves
  <2>3. Fits(task'[t]) /\ PassesOn(t)
    BY <1>0, <2>2 DEF Fits, PassesOn, Counts, Shows, Adds, Finds, WillCount
  <2> QED BY <1>0, <2>1, <2>2, <2>3, StepStays
<1> QED BY <1>1, <1>2 DEF Direct!ReadBack

\* A sync that has seen the same twice; where the number it wrote is still there, it is right.
LEMMA SyncDoneStays ==
  ASSUME TipInv, NEW t \in Handler, task[t].at = "recount",
         Cardinality(Direct!Unread) = Direct!Number(t), Direct!SyncDone(t),
         UNCHANGED <<msg, tip, entry, mark, stamps, sends, tipRequests, others, tipErrors>>
  PROVE  TipInv'
<1>0. task \in [Handler -> TipTaskSet] /\ Direct!Unread \subseteq Direct!Msg
  BY DEF TipInv, TasksFit, Direct!Unread
<1>a. Direct!Cardinality(Direct!Unread) = Cardinality(Direct!Unread)
  BY <1>0, MsgsFinite
<1>1. Moves(t) /\ task'[t].at \in {"announce", "idle"} /\ Fits(task'[t])
  <2>1. CASE Direct!Goto(t, "announce")
    BY <1>0, <2>1, GotoMoves DEF Direct!Place, Fits
  <2>2. CASE Direct!Ends(t)
    BY <1>0, <2>2, EndsMoves DEF Fits
  <2> QED BY <2>1, <2>2 DEF Direct!SyncDone
<1>2. CASE task[t].counted # Direct!Unread
  <2>1. "uncounted" \in lapses' /\ lapses \subseteq lapses' /\ UNCHANGED holds /\ RestTyped'
    BY <1>a, <1>2 DEF Direct!SyncDone, TipInv, TipTyped, RestTyped
  <2>2. PassesOn(t)
    BY <1>1, <2>1 DEF PassesOn, Counts, Shows, Adds, Finds, WillCount, Excused
  <2> QED BY <1>0, <1>1, <2>1, <2>2, StepStays
<1>3. CASE task[t].counted = Direct!Unread /\ ~(tip # NoTip /\ tip.unread = Direct!Number(t))
  <2>1. UNCHANGED <<lapses, holds>> /\ RestTyped'
    BY <1>3 DEF Direct!SyncDone, TipInv, TipTyped, RestTyped
  <2>2. PassesOn(t)
    BY <1>3, <1>1 DEF PassesOn, Counts, Shows, Adds, Finds, WillCount, Excused
  <2> QED BY <1>0, <1>1, <2>1, <2>2, StepStays
<1>4. CASE task[t].counted = Direct!Unread /\ tip # NoTip /\ tip.unread = Direct!Number(t)
  <2>1. lapses' = lapses \ {"uncounted"} /\ holds' = Direct!Unread
    BY <1>4 DEF Direct!SyncDone
  <2>2. TasksFit' /\ Peeking' = Peeking
    BY <1>1, FitStays DEF TipInv
  <2>3. TipTyped'
    BY <1>0, <1>4, <2>1, <2>2 DEF TipInv, TipTyped
  <2>4. Newest'
    BY <2>1, SameMsgs, NewestStays, <1>1 DEF Shows
  <2>5. Direct!Unread' = Direct!Unread
    BY DEF Direct!Unread
  <2>6. NumberStands' /\ NoneMissing' /\ NoneTooMany'
    BY <1>4, <2>1, <2>5 DEF NumberStands, NoneMissing, NoneTooMany
  <2> QED BY <2>2, <2>3, <2>4, <2>6 DEF TipInv
<1> QED BY <1>2, <1>3, <1>4

LEMMA RecountStays ==
  ASSUME TipInv, NEW t \in Handler, Direct!Recount(t)
  PROVE  TipInv'
<1> USE DEF Direct!At, Direct!counters, Direct!generation, Direct!history
<1>0. /\ task \in [Handler -> TipTaskSet] /\ task[t].at = "recount"
      /\ UNCHANGED <<msg, tip, entry, mark, stamps, sends, tipRequests, others, tipErrors>>
      /\ Direct!Cardinality(Direct!Unread) = Cardinality(Direct!Unread)
  BY MsgsFinite DEF Direct!Recount, TipInv, TasksFit, Direct!Unread
<1>1. CASE Direct!SyncFails(t)
  BY <1>0, <1>1, SyncFailsStays DEF TipInv, TipTyped
<1>2. CASE Cardinality(Direct!Unread) = Direct!Number(t) /\ Direct!SyncDone(t)
  BY <1>0, <1>2, SyncDoneStays
<1>3. CASE /\ task[t].round # 4 /\ UNCHANGED <<holds, lapses>>
           /\ task' = [task EXCEPT ![t].at = "set", ![t].counted = Direct!Unread,
                                   ![t].round = @ + 1]
  <2>1. task[t].round + 1 \in 0 .. 4
    BY <1>0, <1>3 DEF TipTaskSet
  <2>2. task' = [task EXCEPT ![t].at = "set", ![t].counted = Direct!Unread,
                             ![t].round = task[t].round + 1]
    BY <1>0, <1>3
  <2>3. Moves(t) /\ task'[t].at = "set" /\ Fits(task'[t])
    BY <2>1, <2>2, RoundMoves
  <2>4. PassesOn(t)
    BY <1>0, <2>3 DEF PassesOn, Counts, Shows, Adds, Finds, WillCount
  <2>5. RestTyped'
    BY <1>0, <1>3 DEF TipInv, TipTyped, RestTyped
  <2> QED BY <1>0, <1>3, <2>3, <2>4, <2>5, StepStays
<1> QED BY <1>0, <1>1, <1>2, <1>3 DEF Direct!Recount

\* What begins a sync from nowhere.
LEMMA AnewMoves ==
  ASSUME TipInv, NEW t \in Handler, NEW kind \in Direct!Kind, NEW n \in Nat, NEW k \in 0 .. 3,
         \/ task' = [task EXCEPT ![t] = [Direct!Idle EXCEPT
                        !.at = "count", !.kind = kind, !.prev = n, !.left = k]]
         \/ task' = [task EXCEPT ![t] = [Direct!Idle EXCEPT
                        !.at = "count", !.kind = kind, !.left = k]]
  PROVE  Moves(t) /\ task'[t].at = "count" /\ Fits(task'[t])
<1>0. task \in [Handler -> TipTaskSet]
  BY DEF TipInv, TasksFit
<1> SUFFICES ASSUME NEW r \in TipTaskSet, r.at = "count", task' = [task EXCEPT ![t] = r]
             PROVE  Moves(t) /\ task'[t].at = "count" /\ Fits(task'[t])
  <2> DEFINE r == [Direct!Idle EXCEPT !.at = "count", !.kind = kind, !.prev = n, !.left = k]
             s == [Direct!Idle EXCEPT !.at = "count", !.kind = kind, !.left = k]
  <2>1. r \in TipTaskSet /\ r.at = "count" /\ s \in TipTaskSet /\ s.at = "count"
    BY IdleTyped DEF TipTaskSet, Direct!Place
  <2>2. task' = [task EXCEPT ![t] = r] \/ task' = [task EXCEPT ![t] = s]
    OBVIOUS
  <2> HIDE DEF r, s
  <2> QED BY <2>1, <2>2
<1> QED BY <1>0 DEF Moves, Fits

LEMMA AnnounceStays ==
  ASSUME TipInv, NEW t \in Handler, Direct!Announce(t)
  PROVE  TipInv'
<1> USE DEF Direct!At, Direct!counters, Direct!generation, Direct!history
<1>0. /\ task \in [Handler -> TipTaskSet] /\ task[t].at = "announce"
      /\ task[t].counted \subseteq Direct!Msg /\ task[t].left \in 0 .. 3
  BY DEF Direct!Announce, TipInv, TasksFit, TipTaskSet
<1>1. /\ UNCHANGED <<msg, tip, holds, stamps, sends>> /\ lapses \subseteq lapses' /\ RestTyped'
  BY PeekTyped DEF Direct!Announce, Direct!BumpGeneration, TipInv, TipTyped, RestTyped
<1>2. Moves(t) /\ task'[t].at \in {"count", "idle"} /\ Fits(task'[t])
  <2>1. Direct!Number(t) \in Nat
    BY <1>0, MsgsFinite DEF Direct!Number
  <2>2. CASE Direct!Ends(t)
    BY <1>0, <2>2, EndsMoves DEF Fits
  <2>3. CASE task' = [task EXCEPT ![t] = [Direct!Idle EXCEPT
                !.at = "count", !.kind = "heal", !.prev = Direct!Number(t), !.left = 3]]
    <3>1. "heal" \in Direct!Kind /\ 3 \in 0 .. 3
      BY DEF Direct!Kind
    <3> QED BY <2>1, <2>3, <3>1, AnewMoves
  <2>4. CASE /\ task[t].left > 1
             /\ task' = [task EXCEPT ![t] = [Direct!Idle EXCEPT
                !.at = "count", !.kind = "heal", !.prev = Direct!Number(t), !.left = task[t].left - 1]]
    <3>1. "heal" \in Direct!Kind /\ task[t].left - 1 \in 0 .. 3
      BY <1>0, <2>4 DEF Direct!Kind
    <3> QED BY <2>1, <2>4, <3>1, AnewMoves
  <2>5. CASE /\ task[t].left > 1
             /\ task' = [task EXCEPT ![t] = [Direct!Idle EXCEPT
                !.at = "count", !.kind = "retry", !.left = task[t].left - 1]]
    <3>1. "retry" \in Direct!Kind /\ task[t].left - 1 \in 0 .. 3
      BY <1>0, <2>5 DEF Direct!Kind
    <3> QED BY <2>1, <2>5, <3>1, AnewMoves
  <2> QED BY <2>2, <2>3, <2>4, <2>5 DEF Direct!Announce, Direct!AfterAnnounce
<1>3. PassesOn(t)
  BY <1>0 DEF PassesOn, Counts, Shows, Adds, Finds, WillCount
<1> QED BY <1>0, <1>1, <1>2, <1>3, StepStays

LEMMA InvalidateStays ==
  ASSUME TipInv, NEW t \in Handler, Direct!Invalidate(t)
  PROVE  TipInv'
<1> USE DEF Direct!At, Direct!counters, Direct!generation, Direct!history
<1>0. /\ task \in [Handler -> TipTaskSet] /\ task[t].at = "invalidate"
  BY DEF Direct!Invalidate, TipInv, TasksFit, TipTaskSet
<1>1. /\ UNCHANGED <<msg, tip, holds, stamps, sends>> /\ lapses \subseteq lapses' /\ RestTyped'
  BY PeekTyped DEF Direct!Invalidate, Direct!BumpGeneration, TipInv, TipTyped, RestTyped
<1>2. Moves(t) /\ task'[t].at \in {"count", "idle"} /\ Fits(task'[t])
  <2>2. CASE Direct!Ends(t)
    BY <1>0, <2>2, EndsMoves DEF Fits
  <2>3. CASE task' = [task EXCEPT ![t] = [Direct!Idle EXCEPT
                !.at = "count", !.kind = "retry", !.left = 3]]
    <3>1. "retry" \in Direct!Kind /\ 3 \in 0 .. 3 /\ 0 \in Nat
      BY DEF Direct!Kind
    <3> QED BY <2>3, <3>1, AnewMoves
  <2> QED BY <2>2, <2>3 DEF Direct!Invalidate
<1>3. PassesOn(t)
  BY <1>0 DEF PassesOn, Counts, Shows, Adds, Finds, WillCount
<1> QED BY <1>0, <1>1, <1>2, <1>3, StepStays

LEMMA FindLatestStays ==
  ASSUME TipInv, NEW t \in Handler, Direct!FindLatest(t)
  PROVE  TipInv'
<1> USE DEF Direct!At, Direct!counters, Direct!generation, Direct!history
<1>0. /\ task \in [Handler -> TipTaskSet] /\ task[t].at = "latest"
      /\ task[t].kind \in {"delete", "deleteRead", "wipe"}
  BY DEF Direct!FindLatest, TipInv, TasksFit, Fits
<1>1. /\ UNCHANGED <<msg, tip, holds, stamps, sends>> /\ lapses \subseteq lapses' /\ RestTyped'
  BY DEF Direct!FindLatest, TipInv, TipTyped, RestTyped
<1>2. CASE /\ Direct!Live # {}
           /\ task' = [task EXCEPT ![t].at = "probe", ![t].msg = Direct!Latest]
  <2>1. /\ Direct!Latest \in Direct!Live /\ Direct!Live \subseteq Direct!Msg
        /\ \A m \in Direct!Live : Direct!Latest >= m
    <3>1. Direct!Live \in SUBSET (1 .. MaxMsgs)
      BY DEF Direct!Live, Direct!Msg
    <3>2. Direct!Latest = Direct!Max(Direct!Live)
      BY <1>2 DEF Direct!Latest
    <3> QED BY <1>2, <3>1, <3>2, Highest, Bounds DEF Direct!Msg
  <2>2. /\ Moves(t) /\ task'[t].at = "probe" /\ task'[t].kind = task[t].kind
        /\ task'[t].msg = Direct!Latest
    <3> DEFINE r == [task[t] EXCEPT !.at = "probe", !.msg = Direct!Latest]
    <3>1. r \in TipTaskSet /\ r.at = "probe" /\ r.msg = Direct!Latest /\ r.kind = task[t].kind
      BY <1>0, <2>1 DEF TipTaskSet, Direct!Place
    <3>2. task' = [task EXCEPT ![t] = r]
      BY <1>0, <1>2
    <3> HIDE DEF r
    <3> QED BY <1>0, <3>1, <3>2 DEF Moves
  <2>3. Fits(task'[t]) /\ PassesOn(t)
    BY <1>0, <2>1, <2>2 DEF Fits, PassesOn, Counts, Shows, Adds, Finds, WillCount
  <2> QED BY <1>0, <1>1, <2>2, <2>3, StepStays
<1>3. CASE Direct!Live = {} /\ task[t].kind = "wipe" /\ Direct!Tipped(t)
  <2>1. Moves(t) /\ task'[t].at = "count" /\ task'[t].kind = "wipe"
    BY <1>0, <1>3, TippedMoves
  <2>2. Fits(task'[t]) /\ PassesOn(t)
    BY <1>0, <1>3, <2>1 DEF Fits, PassesOn, Counts, Shows, Adds, Finds, WillCount
  <2> QED BY <1>0, <1>1, <2>1, <2>2, StepStays
<1>4. CASE Direct!Live = {} /\ task[t].kind # "wipe" /\ Direct!Goto(t, "drop")
  <2>1. Moves(t) /\ task'[t].at = "drop" /\ task'[t].kind = task[t].kind
    BY <1>0, <1>4, GotoMoves DEF Direct!Place
  <2>2. Fits(task'[t]) /\ PassesOn(t)
    BY <1>0, <1>4, <2>1 DEF Fits, PassesOn, Counts, Shows, Adds, Finds, WillCount
  <2> QED BY <1>0, <1>1, <2>1, <2>2, StepStays
<1> QED BY <1>2, <1>3, <1>4 DEF Direct!FindLatest

LEMMA DropTipStays ==
  ASSUME TipInv, NEW t \in Handler, Direct!DropTip(t)
  PROVE  TipInv'
<1> USE DEF Direct!At, Direct!counters, Direct!generation
<1>0. /\ task \in [Handler -> TipTaskSet] /\ task[t].at = "drop"
      /\ task[t].kind \in {"delete", "deleteRead"}
      /\ UNCHANGED <<msg, entry, mark, stamps, sends, tipRequests, others, tipErrors>>
  BY DEF Direct!DropTip, TipInv, TasksFit, Fits
<1>1. /\ Moves(t) /\ Fits(task'[t])
      /\ \/ task[t].kind = "delete" /\ task'[t].at = "count" /\ task'[t].kind = "delete"
         \/ task[t].kind = "deleteRead" /\ task'[t].at = "idle" /\ task'[t].kind = "quiet"
  BY <1>0, TippedMoves DEF Direct!DropTip, Fits
<1>2. Counts(t)
  BY <1>0, <1>1 DEF Counts, Adds, Finds, WillCount
<1>3. CASE UNCHANGED <<tip, lapses, holds>>
  <2>1. PassesOn(t)
    BY <1>0, <1>2 DEF PassesOn, Shows
  <2>2. RestTyped'
    BY <1>0, <1>3 DEF TipInv, TipTyped, RestTyped
  <2> QED BY <1>0, <1>1, <1>3, <2>1, <2>2, StepStays
<1>4. CASE /\ tip' = NoTip /\ holds' = {}
           /\ lapses' = (lapses \ {"extra"}) \cup {why \in {"untipped", "uncounted"} :
                 IF why = "untipped" THEN Direct!Past # {} ELSE Direct!Unread \cap holds # {}}
  <2>1. TasksFit' /\ Peeking' = Peeking
    BY <1>0, <1>1, FitStays DEF TipInv
  <2>2. TipTyped'
    BY <1>0, <1>4, <2>1 DEF TipInv, TipTyped
  <2>3. Newest'
    <3> SUFFICES ASSUME "untipped" \notin lapses', NEW m \in Direct!Live
                 PROVE  \E x \in Handler : Shows(task'[x], m)
      BY <1>0, SameMsgs DEF Newest, Shows
    <3>1. m \notin Direct!Past
      BY <1>4
    <3>2. PICK x \in Handler : task[x].msg = m /\ task[x].at \in {"probe", "write"}
      BY <3>1 DEF Direct!Past
    <3>3. task'[x] = task[x]
      BY <1>0, <1>1, <3>2 DEF Moves
    <3>4. m >= m
      BY DEF Direct!Live, Direct!Msg
    <3> QED BY <3>2, <3>3, <3>4 DEF Shows
  <2>4. NoneMissing'
    <3> SUFFICES ASSUME "uncounted" \notin lapses', NEW m \in Direct!Unread
                 PROVE  \E x \in Handler : Adds(task'[x], m)
      BY <1>0, SameMsgs DEF NoneMissing, Adds, WillCount
    <3>1. m \notin holds /\ "uncounted" \notin lapses
      BY <1>4
    <3>2. PICK x \in Handler : Adds(task[x], m)
      BY <3>1 DEF TipInv, NoneMissing
    <3>3. x = t => Adds(task'[t], m)
      BY <1>0, <1>1, <3>2 DEF Adds, WillCount
    <3> QED BY <1>1, <3>2, <3>3 DEF Moves
  <2> QED BY <1>4, <2>1, <2>2, <2>3, <2>4 DEF TipInv, NumberStands, NoneTooMany
<1> QED BY <1>3, <1>4 DEF Direct!DropTip, Direct!Drop, Direct!history

LEMMA ClearTipStays ==
  ASSUME TipInv, NEW t \in Handler, Direct!ClearTip(t)
  PROVE  TipInv'
<1> USE DEF Direct!At, Direct!counters, Direct!generation
<1>0. /\ task \in [Handler -> TipTaskSet] /\ task[t].at = "clear" /\ task[t].kind = "wipe"
      /\ UNCHANGED <<msg, entry, mark, stamps, sends, tipRequests, others, tipErrors>>
  BY DEF Direct!ClearTip, TipInv, TasksFit, Fits
<1>1. Moves(t) /\ Fits(task'[t]) /\ task'[t].at = "latest" /\ task'[t].kind = "wipe"
  BY <1>0, GotoMoves DEF Direct!ClearTip, Direct!Place, Fits
<1>2. TasksFit' /\ Peeking' = Peeking
  BY <1>0, <1>1, FitStays DEF TipInv
<1>3. Newest' /\ NoneMissing' /\ NoneTooMany'
  BY <1>1 DEF Newest, NoneMissing, NoneTooMany, Shows, Adds, Finds, WillCount
<1>4. CASE UNCHANGED <<tip, lapses, holds>>
  <2>1. Counts(t)
    BY <1>0, <1>1 DEF Counts, Adds, Finds, WillCount
  <2>2. NumberStands'
    BY <1>0, <1>1, <1>4, <2>1, SameMsgs, NumbersStay
  <2>3. TipTyped'
    BY <1>0, <1>2, <1>4 DEF TipInv, TipTyped
  <2> QED BY <1>2, <1>3, <2>2, <2>3 DEF TipInv
<1>5. CASE tip' = NoTip /\ holds' = {} /\ lapses' = (lapses \ {"extra"}) \cup {}
  BY <1>0, <1>2, <1>3, <1>5 DEF TipInv, TipTyped, NumberStands
<1> QED BY <1>4, <1>5 DEF Direct!ClearTip, Direct!Drop, Direct!history

LEMMA AllDeletedTyped ==
  ASSUME TipTyped
  PROVE  /\ Direct!AllDeleted \in [Direct!Msg -> {"none", "unread", "read", "deleted"}]
         /\ \A m \in Direct!Msg :
             /\ Direct!AllDeleted[m] \notin {"unread", "read"}
             /\ msg[m] \in {"none", "deleted"} => Direct!AllDeleted[m] = msg[m]
<1>1. \A m \in Direct!Msg :
          Direct!AllDeleted[m] = IF m \in Direct!Live THEN "deleted" ELSE msg[m]
  BY DEF Direct!AllDeleted
<1>2. \A m \in Direct!Msg : Direct!AllDeleted[m] \in {"none", "unread", "read", "deleted"}
  BY <1>1 DEF TipTyped
<1>3. Direct!AllDeleted \in [Direct!Msg -> {"none", "unread", "read", "deleted"}]
  BY <1>2 DEF Direct!AllDeleted
<1> QED BY <1>1, <1>3 DEF TipTyped, Direct!Live

\* A wipe of the messages: whatever t was to see to, it counts in the end.
LEMMA WipesStay ==
  ASSUME TipInv, NEW t \in Handler, Moves(t), msg' \in {msg, Direct!AllDeleted},
         task[t].at \in {"wipe", "late"}, task'[t].at \in {"late", "clear"},
         task'[t].kind = "wipe",
         UNCHANGED <<tip, entry, mark, stamps, sends, tipRequests, others, tipErrors, holds, lapses>>
  PROVE  TipInv'
<1>1. /\ msg' \in [Direct!Msg -> {"none", "unread", "read", "deleted"}]
      /\ \A m \in Direct!Msg : msg[m] \in {"none", "deleted"} => msg'[m] = msg[m]
      /\ msg' = msg \/ Direct!Live' = {}
  BY AllDeletedTyped DEF TipInv, TipTyped, Direct!Live
<1>2. Fits(task'[t])
  BY DEF Fits
<1>3. TasksFit' /\ Peeking' = Peeking
  BY <1>1, <1>2, FitStays DEF TipInv
<1>4. TipTyped'
  BY <1>1, <1>3 DEF TipInv, TipTyped
<1>5. Newest'
  <2>1. CASE Direct!Live' = {}
    BY <2>1 DEF Newest
  <2>2. CASE msg' = msg
    BY <2>2, SameMsgs, NewestStays DEF Shows
  <2> QED BY <1>1, <2>1, <2>2
<1>6. NoneMissing' /\ NoneTooMany'
  BY DEF NoneMissing, NoneTooMany, Adds, Finds, WillCount
<1>7. NumberStands'
  BY DEF TipInv, NumberStands, Moves
<1> QED BY <1>3, <1>4, <1>5, <1>6, <1>7 DEF TipInv

LEMMA WipeMessagesStays ==
  ASSUME TipInv, NEW t \in Handler, Direct!WipeMessages(t)
  PROVE  TipInv'
<1> USE DEF Direct!At, Direct!counters, Direct!generation, Direct!history
<1>1. task \in [Handler -> TipTaskSet] /\ task[t].at = "wipe" /\ task[t].kind = "wipe"
  BY DEF Direct!WipeMessages, TipInv, TasksFit, Fits
<1>2. Moves(t) /\ task'[t].at = "late" /\ task'[t].kind = "wipe"
  BY <1>1, GotoMoves DEF Direct!WipeMessages, Direct!Place
<1> QED BY <1>1, <1>2, WipesStay DEF Direct!WipeMessages

LEMMA WipeLateStays ==
  ASSUME TipInv, NEW t \in Handler, Direct!WipeLate(t)
  PROVE  TipInv'
<1> USE DEF Direct!At, Direct!counters, Direct!generation, Direct!history
<1>1. task \in [Handler -> TipTaskSet] /\ task[t].at = "late" /\ task[t].kind = "wipe"
  BY DEF Direct!WipeLate, TipInv, TasksFit, Fits
<1>2. Moves(t) /\ task'[t].at = "clear" /\ task'[t].kind = "wipe"
  BY <1>1, GotoMoves DEF Direct!WipeLate, Direct!Place
<1> QED BY <1>1, <1>2, WipesStay DEF Direct!WipeLate

-----------------------------------------------------------------------------
(****************************************************************************)
(* Steps that write the tip.                                                *)
(****************************************************************************)
LEMMA WriteStays ==
  ASSUME TipInv, NEW t \in Handler, Direct!Write(t)
  PROVE  TipInv'
<1> USE DEF Direct!At, Direct!counters, Direct!generation
<1> DEFINE last == IF tip = NoTip THEN task[t].msg ELSE Direct!Larger(tip.last, task[t].msg)
<1>0. /\ task \in [Handler -> TipTaskSet] /\ task[t].at = "write" /\ task[t].msg \in Direct!Msg
      /\ UNCHANGED <<msg, entry, mark, stamps, sends, tipRequests, others, tipErrors, holds>>
      /\ tip' = Direct!TipAt(last) /\ Direct!Told(last) /\ Direct!Tipped(t)
  BY DEF Direct!Write, TipInv, TasksFit, Fits
<1>1. /\ last \in Direct!Msg /\ last >= task[t].msg
      /\ tip # NoTip => last >= tip.last
  BY <1>0 DEF TipInv, TipTyped, Direct!Tip, Direct!Msg, Direct!Larger
<1> HIDE DEF last
<1>2. /\ tip' \in Direct!Tip /\ tip'.last = last
      /\ tip = NoTip => tip'.unread = 0
      /\ tip # NoTip => tip'.unread = tip.unread
  BY <1>0, <1>1 DEF TipInv, TipTyped, Direct!Tip, Direct!TipAt
<1>3. tip' # NoTip
  BY <1>2, ChatsAssumption DEF Direct!Tip, Direct!Msg
<1>4. /\ Moves(t)
      /\ \/ /\ task[t].kind = "send" /\ task'[t].at = "ask" /\ task'[t].kind = "send"
            /\ task'[t].msg = task[t].msg
         \/ /\ task[t].kind \in {"replay", "delete", "wipe"} /\ task'[t].at = "count"
            /\ task'[t].kind = task[t].kind
         \/ /\ task[t].kind \notin {"send", "replay", "delete", "wipe"}
            /\ task'[t].at = "idle" /\ task'[t].kind = "quiet"
  BY <1>0, TippedMoves
<1>5. Fits(task'[t])
  BY <1>0, <1>4 DEF Fits
<1>6. TasksFit' /\ Peeking' = Peeking
  BY <1>0, <1>4, <1>5, FitStays DEF TipInv
<1>7. lapses' \in {lapses, lapses \ {"untipped"}}
  BY <1>0 DEF Direct!Told
<1>8. TipTyped'
  BY <1>0, <1>2, <1>3, <1>6, <1>7 DEF TipInv, TipTyped
<1>9. NumberStands' /\ NoneMissing' /\ NoneTooMany'
  <2>1. Counts(t)
    BY <1>0, <1>4 DEF Counts, Adds, Finds, WillCount
  <2>2. tip = NoTip => tip'.unread = Cardinality(holds)
    BY <1>2, FS_EmptySet DEF TipInv, TipTyped
  <2> QED BY <1>0, <1>2, <1>4, <1>7, <2>1, <2>2, SameMsgs, NumbersStay
<1>10. Newest'
  <2>1. \A m \in Direct!Live : m \in Nat /\ m \in 1 .. MaxMsgs
    BY Bounds DEF Direct!Live, Direct!Msg
  <2>2. CASE "untipped" \in lapses /\ "untipped" \notin lapses'
    <3>1. last >= Direct!Latest
      BY <1>0, <2>2 DEF Direct!Told
    <3>2. \A m \in Direct!Live : Direct!Latest >= m /\ Direct!Latest \in Nat
      <4> SUFFICES ASSUME NEW m \in Direct!Live
                   PROVE  Direct!Latest >= m /\ Direct!Latest \in Nat
        OBVIOUS
      <4>1. Direct!Live \in SUBSET (1 .. MaxMsgs)
        BY DEF Direct!Live, Direct!Msg
      <4>2. Direct!Latest = Direct!Max(Direct!Live) /\ Direct!Live # {}
        BY DEF Direct!Latest
      <4>3. Direct!Latest \in Direct!Live /\ \A k \in Direct!Live : Direct!Latest >= k
        BY <4>1, <4>2, Highest, Bounds
      <4> QED BY <2>1, <4>3
    <3>3. \A m \in Direct!Live : last >= m
      BY <1>1, <2>1, <3>1, <3>2 DEF Direct!Msg
    <3> QED BY <1>0, <1>2, <1>3, <3>3, SameMsgs DEF Newest
  <2>3. CASE "untipped" \in lapses => "untipped" \in lapses'
    <3>1. \A m \in Direct!Live :
            (tip # NoTip /\ tip.last >= m) \/ Shows(task[t], m) => tip'.last >= m
      <4> SUFFICES ASSUME NEW m \in Direct!Live,
                          (tip # NoTip /\ tip.last >= m) \/ Shows(task[t], m)
                   PROVE  last >= m
        BY <1>2
      <4>1. CASE tip # NoTip /\ tip.last >= m
        <5>1. tip.last \in Nat
          BY <4>1 DEF TipInv, TipTyped, Direct!Tip, Direct!Msg
        <5> QED BY <1>1, <2>1, <4>1, <5>1 DEF Direct!Msg
      <4>2. CASE Shows(task[t], m)
        BY <1>0, <1>1, <2>1, <4>2 DEF Shows, Direct!Msg
      <4> QED BY <4>1, <4>2
    <3> QED BY <1>0, <1>3, <1>4, <2>3, <3>1, SameMsgs, NewestStays
  <2> QED BY <2>2, <2>3
<1> QED BY <1>6, <1>8, <1>9, <1>10 DEF TipInv

LEMMA BumpStays ==
  ASSUME TipInv, NEW t \in Handler, Direct!Bump(t)
  PROVE  TipInv'
<1> USE DEF Direct!At, Direct!counters, Direct!generation, Direct!history
<1>0. /\ task \in [Handler -> TipTaskSet] /\ task[t].at = "bump" /\ task[t].msg \in Direct!Msg
      /\ task[t].kind = "send"
      /\ UNCHANGED <<msg, entry, mark, stamps, sends, tipRequests, others, tipErrors>>
  BY DEF Direct!Bump, TipInv, TasksFit, Fits
<1>1. CASE Direct!ToCount(t) /\ UNCHANGED <<tip, lapses, holds>>
  <2>1. Moves(t) /\ task'[t].at = "count"
    BY <1>0, <1>1, ToCountMoves
  <2>2. Fits(task'[t]) /\ PassesOn(t)
    BY <1>0, <2>1 DEF Fits, PassesOn, Counts, Shows, Adds, Finds, WillCount
  <2>3. RestTyped'
    BY <1>0, <1>1 DEF TipInv, TipTyped, RestTyped
  <2> QED BY <1>0, <1>1, <2>1, <2>2, <2>3, StepStays
<1>2. CASE /\ tip # NoTip /\ tip' = [tip EXCEPT !.unread = @ + 1]
           /\ holds' = holds \cup {task[t].msg} /\ UNCHANGED lapses
           /\ task' = [task EXCEPT ![t].at = "check",
                          ![t].extra = task[t].msg \notin Direct!Unread \ holds]
  <2>1. /\ Moves(t) /\ task'[t].at = "check" /\ task'[t].msg = task[t].msg
        /\ task'[t].kind = "send"
        /\ task'[t].extra <=> task[t].msg \notin Direct!Unread \ holds
    <3> DEFINE r == [task[t] EXCEPT !.at = "check",
                        !.extra = task[t].msg \notin Direct!Unread \ holds]
    <3>1. (task[t].msg \notin Direct!Unread \ holds) \in BOOLEAN
      OBVIOUS
    <3>2. /\ r \in TipTaskSet /\ r.at = "check" /\ r.msg = task[t].msg /\ r.kind = task[t].kind
          /\ r.extra <=> task[t].msg \notin Direct!Unread \ holds
      BY <1>0, <3>1 DEF TipTaskSet, Direct!Place
    <3>3. task' = [task EXCEPT ![t] = r]
      BY <1>0, <1>2
    <3> HIDE DEF r
    <3> QED BY <1>0, <3>2, <3>3 DEF Moves
  <2>2. /\ tip' \in Direct!Tip /\ tip'.last = tip.last /\ tip'.unread = tip.unread + 1
        /\ tip.unread \in Nat
    BY <1>2 DEF TipInv, TipTyped, Direct!Tip
  <2>3. tip' # NoTip
    BY <2>2, ChatsAssumption DEF Direct!Tip, Direct!Msg
  <2>4. TasksFit' /\ Peeking' = Peeking
    <3>1. Fits(task'[t])
      BY <1>0, <2>1 DEF Fits
    <3> QED BY <1>0, <2>1, <3>1, FitStays DEF TipInv
  <2>5. TipTyped'
    BY <1>0, <1>2, <2>2, <2>3, <2>4 DEF TipInv, TipTyped
  <2>6. Newest'
    BY <1>0, <1>2, <2>1, <2>2, <2>3, SameMsgs, NewestStays DEF Shows
  <2>7. NumberStands'
    <3>1. CASE task[t].msg \notin Direct!Unread \ holds
      BY <2>1, <3>1 DEF NumberStands
    <3>2. CASE task[t].msg \notin holds
      <4>1. IsFiniteSet(Direct!Msg)
        BY Bounds, FS_Interval DEF Direct!Msg
      <4>2. IsFiniteSet(holds)
        BY <4>1, FS_Subset DEF TipInv, TipTyped
      <4>3. Cardinality(holds') = Cardinality(holds) + 1 /\ Cardinality(holds) \in Nat
        BY <1>2, <3>2, <4>2, FS_AddElement, FS_CardinalityType
      <4>4. tip.unread = Cardinality(holds) => tip'.unread = Cardinality(holds')
        BY <2>2, <4>3
      <4>5. \A x \in Handler :
               \/ task[x].at \in {"count", "set"}
               \/ task[x].at = "check" /\ task[x].extra
             => x # t /\ task'[x] = task[x]
        BY <1>0, <2>1 DEF Moves
      <4> QED BY <1>2, <4>4, <4>5 DEF TipInv, NumberStands
    <3> QED BY <3>1, <3>2
  <2>8. NoneMissing'
    <3> SUFFICES ASSUME "uncounted" \notin lapses, NEW m \in Direct!Unread \ holds, m # task[t].msg
                 PROVE  \E x \in Handler : Adds(task'[x], m)
      BY <1>0, <1>2, SameMsgs DEF NoneMissing, Adds, WillCount
    <3>1. PICK x \in Handler : Adds(task[x], m)
      BY DEF TipInv, NoneMissing
    <3>2. x # t
      BY <1>0, <3>1 DEF Adds, WillCount
    <3> QED BY <2>1, <3>1, <3>2 DEF Moves
  <2>9. NoneTooMany'
    <3> SUFFICES ASSUME lapses \cap {"extra", "uncounted"} = {}, NEW m \in holds', m \notin Direct!Unread
                 PROVE  \E x \in Handler : Finds(task'[x], m)
      BY <1>0, <1>2, SameMsgs DEF NoneTooMany, Finds, WillCount
    <3>1. CASE m = task[t].msg
      BY <2>1, <3>1 DEF Finds
    <3>2. CASE m # task[t].msg
      <4>1. PICK x \in Handler : Finds(task[x], m)
        BY <1>2, <3>2 DEF TipInv, NoneTooMany
      <4>2. x # t
        BY <1>0, <4>1 DEF Finds, WillCount
      <4> QED BY <2>1, <4>1, <4>2 DEF Moves
    <3> QED BY <3>1, <3>2
  <2> QED BY <2>4, <2>5, <2>6, <2>7, <2>8, <2>9 DEF TipInv
<1> QED BY <1>1, <1>2 DEF Direct!Bump

-----------------------------------------------------------------------------
(****************************************************************************)
(* Steps that write a message.                                              *)
(****************************************************************************)
LEMMA InsertStays ==
  ASSUME TipInv, NEW t \in Handler, Direct!Insert(t)
  PROVE  TipInv'
<1> USE DEF Direct!At, Direct!counters, Direct!generation, Direct!history
<1> DEFINE M == task[t].msg
           new == IF task[t].kind = "send" THEN "unread" ELSE "read"
<1>0. /\ task \in [Handler -> TipTaskSet] /\ task[t].at = "stamped" /\ M \in Direct!Msg
      /\ M <= stamps /\ msg[M] = "none"
      /\ UNCHANGED <<tip, entry, mark, stamps, sends, tipRequests, others, tipErrors, holds, lapses>>
      /\ msg' = [msg EXCEPT ![M] = new]
  BY DEF Direct!Insert, TipInv, TasksFit, Fits
<1>1. /\ Moves(t) /\ task'[t].at = "probe" /\ task'[t].kind = task[t].kind /\ task'[t].msg = M
  BY <1>0, GotoMoves DEF Direct!Insert, Direct!Place
<1>2. /\ msg' \in [Direct!Msg -> {"none", "unread", "read", "deleted"}]
      /\ msg'[M] = new /\ new \in {"unread", "read"}
      /\ \A m \in Direct!Msg : m # M => msg'[m] = msg[m]
  BY <1>0 DEF TipInv, TipTyped
<1>3. TasksFit' /\ Peeking' = Peeking
  <2>1. Fits(task'[t])
    BY <1>0, <1>1 DEF Fits
  <2> QED BY <1>0, <1>1, <1>2, <2>1, FitStays DEF TipInv
<1>4. TipTyped'
  BY <1>0, <1>2, <1>3 DEF TipInv, TipTyped
<1>5. /\ Direct!Live' = Direct!Live \cup {M}
      /\ Direct!Unread' = IF task[t].kind = "send" THEN Direct!Unread \cup {M} ELSE Direct!Unread
  BY <1>0, <1>2 DEF Direct!Live, Direct!Unread
<1> HIDE DEF M, new
<1>6. Newest'
  <2> SUFFICES ASSUME "untipped" \notin lapses, NEW m \in Direct!Live', ~(tip # NoTip /\ tip.last >= m)
               PROVE  \E x \in Handler : Shows(task[x], m)'
    BY <1>0 DEF Newest
  <2>1. CASE m = M
    BY <1>1, <2>1 DEF Shows
  <2>2. CASE m # M
    <3>1. PICK x \in Handler : Shows(task[x], m)
      BY <1>5, <2>2 DEF TipInv, Newest
    <3>2. x # t
      BY <1>0, <3>1 DEF Shows
    <3> QED BY <1>1, <1>5, <3>1, <3>2 DEF Moves, Shows
  <2> QED BY <2>1, <2>2
<1>7. NumberStands'
  BY <1>0, <1>1 DEF TipInv, NumberStands, Moves
<1>8. NoneMissing'
  <2> SUFFICES ASSUME "uncounted" \notin lapses, NEW m \in Direct!Unread', m \notin holds
               PROVE  \E x \in Handler : Adds(task[x], m)'
    BY <1>0 DEF NoneMissing
  <2>1. CASE m = M /\ task[t].kind = "send"
    BY <1>1, <2>1 DEF Adds
  <2>2. CASE ~(m = M /\ task[t].kind = "send")
    <3>1. PICK x \in Handler : Adds(task[x], m)
      BY <1>5, <2>2 DEF TipInv, NoneMissing
    <3>2. x # t
      BY <1>0, <3>1 DEF Adds, WillCount
    <3> QED BY <1>1, <3>1, <3>2 DEF Moves, Adds, WillCount
  <2> QED BY <2>1, <2>2
<1>9. NoneTooMany'
  <2> SUFFICES ASSUME lapses \cap {"extra", "uncounted"} = {}, NEW m \in holds, m \notin Direct!Unread'
               PROVE  \E x \in Handler : Finds(task[x], m)'
    BY <1>0 DEF NoneTooMany
  <2>1. PICK x \in Handler : Finds(task[x], m)
    BY <1>5 DEF TipInv, NoneTooMany
  <2>2. x # t
    BY <1>0, <2>1 DEF Finds, WillCount
  <2> QED BY <1>1, <2>1, <2>2 DEF Moves, Finds, WillCount
<1> QED BY <1>3, <1>4, <1>6, <1>7, <1>8, <1>9 DEF TipInv

\* A new task that is about to count makes up for whatever the number lacks.
LEMMA CountingSettles ==
  ASSUME TipInv, NEW t \in Handler, Moves(t), WillCount(task'[t]), task[t].at = "idle",
         UNCHANGED <<tip, holds, lapses>>
  PROVE  NumberStands' /\ NoneMissing' /\ NoneTooMany'
<1>1. NumberStands'
  BY DEF TipInv, NumberStands, Moves
<1>2. NoneMissing' /\ NoneTooMany'
  BY DEF NoneMissing, NoneTooMany, Adds, Finds, WillCount
<1> QED BY <1>1, <1>2

LEMMA MarkReadStays ==
  ASSUME TipInv, NEW t \in Handler, NEW read \in SUBSET Direct!Unread, Direct!MarkRead(t, read)
  PROVE  TipInv'
<1> USE DEF Direct!counters, Direct!generation, Direct!history
<1>0. /\ Direct!Starts(t, "mark", "count", 0) /\ task \in [Handler -> TipTaskSet]
      /\ msg' = [m \in Direct!Msg |-> IF m \in read THEN "read" ELSE msg[m]]
      /\ UNCHANGED <<tip, entry, mark, stamps, sends, others, tipErrors, holds, lapses>>
      /\ tipRequests < MaxTipRequests /\ tipRequests' = tipRequests + 1
  BY DEF Direct!MarkRead, Direct!Request, TipInv, TasksFit
<1>1. Moves(t) /\ task[t].at = "idle" /\ task'[t].at = "count"
  <2>1. "mark" \in Direct!Kind /\ "count" \in Direct!Place
    BY DEF Direct!Kind, Direct!Place
  <2> QED BY <1>0, <2>1, StartsMoves
<1>2. /\ msg' \in [Direct!Msg -> {"none", "unread", "read", "deleted"}]
      /\ Direct!Live' = Direct!Live
      /\ \A m \in Direct!Msg : msg[m] \in {"none", "deleted"} => msg'[m] = msg[m]
  BY <1>0 DEF TipInv, TipTyped, Direct!Unread, Direct!Live
<1>3. TasksFit' /\ Peeking' = Peeking
  <2>1. Fits(task'[t])
    BY <1>1 DEF Fits
  <2> QED BY <1>0, <1>1, <1>2, <2>1, FitStays DEF TipInv
<1>4. TipTyped'
  BY <1>0, <1>2, <1>3, Bounds DEF TipInv, TipTyped
<1>5. Newest'
  BY <1>0, <1>1, <1>2, NewestStays DEF Shows
<1> QED BY <1>0, <1>1, <1>3, <1>4, <1>5, CountingSettles DEF TipInv, WillCount

LEMMA DeleteStays ==
  ASSUME TipInv, NEW t \in Handler, NEW k \in Direct!Msg, Direct!Delete(t, k)
  PROVE  TipInv'
<1> USE DEF Direct!counters, Direct!generation, Direct!history
<1> DEFINE kind == IF k \in Direct!Unread THEN "delete" ELSE "deleteRead"
<1>0. /\ Direct!Starts(t, kind, "tip", k) /\ task \in [Handler -> TipTaskSet]
      /\ k \in Direct!Live
      /\ msg' = [msg EXCEPT ![k] = "deleted"]
      /\ UNCHANGED <<tip, entry, mark, stamps, sends, others, tipErrors, holds, lapses>>
      /\ tipRequests < MaxTipRequests /\ tipRequests' = tipRequests + 1
  BY DEF Direct!Delete, Direct!Request, TipInv, TasksFit
<1>1. /\ Moves(t) /\ task[t].at = "idle" /\ task'[t].at = "tip" /\ task'[t].kind = kind
      /\ task'[t].msg = k
  <2>1. kind \in Direct!Kind /\ "tip" \in Direct!Place
    BY DEF Direct!Kind, Direct!Place
  <2> HIDE DEF kind
  <2> QED BY <1>0, <2>1, StartsMoves
<1>2. /\ msg' \in [Direct!Msg -> {"none", "unread", "read", "deleted"}]
      /\ msg'[k] = "deleted" /\ msg[k] # "none"
      /\ \A m \in Direct!Msg : m # k => msg'[m] = msg[m]
      /\ Direct!Live' = Direct!Live \ {k} /\ Direct!Unread' = Direct!Unread \ {k}
  BY <1>0 DEF TipInv, TipTyped, Direct!Live, Direct!Unread
<1>3. TasksFit' /\ Peeking' = Peeking
  <2>1. Peeking' = Peeking
    BY <1>1 DEF Moves, Peeking
  <2>2. ASSUME NEW x \in Handler
        PROVE  /\ Fits(task[x])'
               /\ task'[x].at = "stamped" =>
                    /\ task'[x] = task[x] /\ task'[x].msg <= stamps' /\ msg'[task'[x].msg] = "none"
               /\ task'[x].at = "tip" => msg'[task'[x].msg] = "deleted"
    <3>1. CASE x = t
      BY <1>1, <1>2, <3>1 DEF Fits
    <3>2. CASE x # t
      <4>1. task'[x] = task[x] /\ Fits(task[x])
        BY <1>1, <3>2 DEF Moves, TipInv, TasksFit
      <4>2. Fits(task[x])'
        BY <4>1 DEF Fits
      <4>3. ASSUME task[x].at = "stamped"
            PROVE  task[x].msg <= stamps' /\ msg'[task[x].msg] = "none"
        BY <1>0, <1>2, <4>1, <4>3 DEF TipInv, TasksFit, Fits
      <4>4. ASSUME task[x].at = "tip" PROVE msg'[task[x].msg] = "deleted"
        BY <1>2, <4>1, <4>4 DEF TipInv, TasksFit, Fits
      <4> QED BY <4>1, <4>2, <4>3, <4>4
    <3> QED BY <3>1, <3>2
  <2>3. \A m \in Direct!Msg : m > stamps' => msg'[m] = "none"
    BY <1>0, <1>2 DEF TipInv, TasksFit
  <2>4. \A x, y \in Handler :
            task'[x].at = "stamped" /\ task'[y].at = "stamped" /\ y # x => task'[y].msg # task'[x].msg
    BY <2>2 DEF TipInv, TasksFit
  <2> QED BY <1>1, <2>1, <2>2, <2>3, <2>4 DEF TasksFit, Moves
<1>4. TipTyped'
  BY <1>0, <1>2, <1>3, Bounds DEF TipInv, TipTyped
<1>5. Newest'
  <2> SUFFICES ASSUME "untipped" \notin lapses, NEW m \in Direct!Live \ {k}, ~(tip # NoTip /\ tip.last >= m)
               PROVE  \E x \in Handler : Shows(task[x], m)'
    BY <1>0, <1>2 DEF Newest
  <2>1. PICK x \in Handler : Shows(task[x], m)
    BY DEF TipInv, Newest
  <2>2. task'[x] = task[x]
    BY <1>1, <2>1 DEF Shows, Moves
  <2>3. CASE task[x].at = "probe" /\ task[x].msg = k
    BY <1>1, <2>1, <2>3 DEF Shows
  <2>4. CASE ~(task[x].at = "probe" /\ task[x].msg = k)
    BY <1>2, <2>1, <2>2, <2>4 DEF Shows
  <2> QED BY <2>3, <2>4
<1>6. NumberStands' /\ NoneMissing' /\ NoneTooMany'
  <2>1. CASE k \in Direct!Unread
    BY <1>0, <1>1, <2>1, CountingSettles DEF WillCount
  <2>2. CASE k \notin Direct!Unread
    <3>1. Direct!Unread' = Direct!Unread
      BY <1>2, <2>2
    <3>2. Counts(t)
      BY <1>1 DEF Counts, Adds, Finds, WillCount
    <3>3. tip' = NoTip \/ (tip # NoTip /\ tip'.unread = tip.unread)
      BY <1>0
    <3> QED BY <1>0, <1>1, <3>1, <3>2, <3>3, NumbersStay
  <2> QED BY <2>1, <2>2
<1> QED BY <1>3, <1>4, <1>5, <1>6 DEF TipInv

-----------------------------------------------------------------------------
(****************************************************************************)
(* The other steps.                                                         *)
(****************************************************************************)
\* Replay, Edit and StartWipe only begin.
LEMMA BeginStays ==
  ASSUME TipInv, NEW t \in Handler, NEW kind \in {"replay", "quiet", "wipe"},
         NEW place \in {"probe", "wipe"}, place = "wipe" => kind = "wipe",
         NEW m \in Direct!Msg \cup {0}, place = "probe" => m \in Direct!Msg,
         Direct!Starts(t, kind, place, m), Direct!Request,
         UNCHANGED <<msg, tip, entry, mark, stamps, holds, lapses>>
  PROVE  TipInv'
<1>1. kind \in Direct!Kind /\ place \in Direct!Place /\ task \in [Handler -> TipTaskSet]
  BY DEF Direct!Kind, Direct!Place, TipInv, TasksFit
<1>2. /\ Moves(t) /\ task[t].at = "idle" /\ task'[t].at = place /\ task'[t].kind = kind
      /\ task'[t].msg = m
  BY <1>1, StartsMoves
<1>3. Fits(task'[t]) /\ PassesOn(t)
  BY <1>2 DEF Fits, PassesOn, Counts, Shows, Adds, Finds, WillCount
<1>4. RestTyped' /\ UNCHANGED sends
  BY Bounds DEF Direct!Request, TipInv, TipTyped, RestTyped
<1> QED BY <1>2, <1>3, <1>4, StepStays

\* The counts of who has looked at the generation and has no timestamp yet.
LEMMA PeekingMoves ==
  ASSUME NEW t \in Handler, Moves(t)
  PROVE  /\ Cardinality(Peeking) \in Nat /\ Cardinality(Peeking') \in Nat
         /\ t \in Peeking' /\ t \notin Peeking => Cardinality(Peeking') = Cardinality(Peeking) + 1
         /\ t \in Peeking /\ t \notin Peeking' => Cardinality(Peeking) = Cardinality(Peeking') + 1
<1>1. IsFiniteSet(Handler) /\ Peeking \in SUBSET Handler /\ Peeking' \in SUBSET Handler
  BY ChatsAssumption DEF Peeking
<1>2. Peeking \ {t} = Peeking' \ {t}
  BY DEF Moves, Peeking
<1> HIDE DEF Peeking
<1> QED BY <1>1, <1>2, OneMoves

LEMMA SendStays ==
  ASSUME TipInv, NEW t \in Handler, NEW kind \in {"send", "log"}, Direct!Send(t, kind)
  PROVE  TipInv'
<1> USE DEF Direct!generation, Direct!history
<1>0. /\ task \in [Handler -> TipTaskSet] /\ task[t].at = "idle"
      /\ UNCHANGED <<msg, tip, entry, mark, stamps, tipRequests, others, tipErrors, holds, lapses>>
      /\ sends < MaxMsgs /\ sends' = sends + 1
  BY IdleTyped DEF Direct!Send, TipInv, TasksFit
<1>1. Moves(t) /\ task'[t].at = "peeked"
  <2> DEFINE r == [task[t] EXCEPT !.at = "peeked", !.kind = kind, !.gen = Direct!Peek]
  <2>1. r \in TipTaskSet /\ r.at = "peeked"
    BY <1>0, PeekTyped DEF TipInv, TipTaskSet, Direct!Place, Direct!Kind
  <2>2. task' = [task EXCEPT ![t] = r]
    BY <1>0 DEF Direct!Send
  <2> HIDE DEF r
  <2> QED BY <1>0, <2>1, <2>2 DEF Moves
<1>2. TasksFit'
  BY <1>0, <1>1 DEF TipInv, TasksFit, Fits, Moves
<1>3. TipTyped'
  <2>1. Cardinality(Peeking') = Cardinality(Peeking) + 1 /\ Cardinality(Peeking) \in Nat
    BY <1>0, <1>1, PeekingMoves DEF Peeking
  <2>2. stamps' + Cardinality(Peeking') <= sends' /\ sends' \in 0 .. MaxMsgs
    BY <1>0, <2>1, Bounds DEF TipInv, TipTyped
  <2> QED BY <1>0, <2>2 DEF TipInv, TipTyped
<1>4. PassesOn(t)
  BY <1>0 DEF PassesOn, Counts, Shows, Adds, Finds, WillCount
<1>5. Newest' /\ NumberStands' /\ NoneMissing' /\ NoneTooMany'
  BY <1>0, <1>1, <1>4, SameMsgs, NewestStays, NumbersStay DEF PassesOn
<1> QED BY <1>2, <1>3, <1>5 DEF TipInv

LEMMA StampStays ==
  ASSUME TipInv, NEW t \in Handler, Direct!Stamp(t)
  PROVE  TipInv'
<1> USE DEF Direct!At, Direct!counters, Direct!generation, Direct!history
<1>0. /\ task \in [Handler -> TipTaskSet] /\ task[t].at = "peeked"
      /\ UNCHANGED <<msg, tip, entry, mark, sends, tipRequests, others, tipErrors, holds, lapses>>
      /\ stamps' = stamps + 1 /\ stamps \in Nat
      /\ stamps + Cardinality(Peeking) <= sends /\ sends \in 0 .. MaxMsgs
  BY DEF Direct!Stamp, TipInv, TasksFit, TipTyped
<1>a. ASSUME NEW m, m = stamps + 1, m \in Direct!Msg
      PROVE  Moves(t) /\ task'[t].at = "stamped" /\ task'[t].msg = stamps + 1
  <2> DEFINE r == [task[t] EXCEPT !.at = "stamped", !.msg = stamps + 1]
  <2>1. r \in TipTaskSet /\ r.at = "stamped" /\ r.msg = stamps + 1
    BY <1>0, <1>a DEF TipTaskSet, Direct!Place
  <2>2. task' = [task EXCEPT ![t] = r]
    BY <1>0 DEF Direct!Stamp
  <2> HIDE DEF r
  <2> QED BY <1>0, <2>1, <2>2 DEF Moves
<1>b. stamps + 1 \in Direct!Msg
  <2>1. Peeking # {} /\ IsFiniteSet(Peeking) /\ t \in Peeking
    BY <1>0, ChatsAssumption, FS_Subset DEF Peeking
  <2>2. Cardinality(Peeking) \in Nat /\ Cardinality(Peeking) # 0
    BY <2>1, FS_CardinalityType, FS_EmptySet
  <2> QED BY <1>0, <2>2, Bounds DEF Direct!Msg
<1>1. Moves(t) /\ task'[t].at = "stamped" /\ task'[t].msg = stamps + 1
  BY <1>a, <1>b
<1>2. TasksFit'
  <2>1. msg[stamps + 1] = "none" /\ stamps + 1 > stamps
    BY <1>0, <1>b DEF TipInv, TasksFit
  <2>2. ASSUME NEW x \in Handler
        PROVE  /\ Fits(task[x])'
               /\ task'[x].at = "stamped" => task'[x].msg <= stamps' /\ msg'[task'[x].msg] = "none"
               /\ task'[x].at = "tip" => msg'[task'[x].msg] = "deleted"
    <3>1. CASE x = t
      BY <1>0, <1>1, <1>b, <2>1, <3>1 DEF Fits
    <3>2. CASE x # t
      <4>1. task'[x] = task[x] /\ Fits(task[x])
        BY <1>1, <3>2 DEF Moves, TipInv, TasksFit
      <4>2. Fits(task[x])'
        BY <4>1 DEF Fits
      <4>3. task[x].at = "stamped" => task[x].msg <= stamps' /\ msg[task[x].msg] = "none"
        BY <1>0, <4>1 DEF TipInv, TasksFit, Fits, Direct!Msg
      <4>4. task[x].at = "tip" => msg[task[x].msg] = "deleted"
        BY DEF TipInv, TasksFit
      <4> QED BY <1>0, <4>1, <4>2, <4>3, <4>4
    <3> QED BY <3>1, <3>2
  <2>3. \A m \in Direct!Msg : m > stamps' => msg'[m] = "none"
    <3> SUFFICES ASSUME NEW m \in Direct!Msg, m > stamps + 1 PROVE msg[m] = "none"
      BY <1>0
    <3>1. m > stamps
      BY <1>0 DEF Direct!Msg
    <3> QED BY <3>1 DEF TipInv, TasksFit
  <2>4. ASSUME NEW x \in Handler, NEW y \in Handler, y # x,
               task'[x].at = "stamped", task'[y].at = "stamped"
        PROVE  task'[y].msg # task'[x].msg
    <3>1. ASSUME NEW z \in Handler, z # t, task'[z].at = "stamped"
          PROVE  task'[z] = task[z] /\ task[z].msg # stamps + 1
      <4>1. task'[z] = task[z]
        BY <1>1, <3>1 DEF Moves
      <4>2. task[z].msg <= stamps /\ task[z].msg \in Nat
        BY <3>1, <4>1 DEF TipInv, TasksFit, Fits, Direct!Msg
      <4> QED BY <1>0, <4>1, <4>2
    <3> QED BY <1>1, <2>4, <3>1 DEF TipInv, TasksFit
  <2> QED BY <1>1, <2>2, <2>3, <2>4 DEF TasksFit, Moves
<1>3. TipTyped'
  <2>1. Cardinality(Peeking) = Cardinality(Peeking') + 1 /\ Cardinality(Peeking') \in Nat
    BY <1>0, <1>1, PeekingMoves DEF Peeking
  <2>2. stamps' + Cardinality(Peeking') <= sends' /\ stamps' \in Nat
    BY <1>0, <2>1
  <2> QED BY <1>0, <2>2 DEF TipInv, TipTyped
<1>4. PassesOn(t)
  BY <1>0 DEF PassesOn, Counts, Shows, Adds, Finds, WillCount
<1>5. Newest' /\ NumberStands' /\ NoneMissing' /\ NoneTooMany'
  BY <1>0, <1>1, <1>4, SameMsgs, NewestStays, NumbersStay DEF PassesOn
<1> QED BY <1>2, <1>3, <1>5 DEF TipInv

\* The database fails: what is lost is noted.
LEMMA FailStays ==
  ASSUME TipInv, NEW t \in Handler, Direct!Fail(t)
  PROVE  TipInv'
<1> USE DEF Direct!At, Direct!generation
<1>0. /\ task \in [Handler -> TipTaskSet] /\ Fits(task[t])
      /\ UNCHANGED <<msg, tip, entry, mark, stamps, sends, tipRequests, others, holds>>
      /\ tipErrors' \in 0 .. MaxErrors
  BY Bounds DEF Direct!Fail, TipInv, TasksFit, TipTyped
<1>1. CASE task[t].at = "stamped" /\ Direct!Ends(t) /\ UNCHANGED lapses
  <2>1. Moves(t) /\ task'[t].at = "idle"
    BY <1>0, <1>1, EndsMoves
  <2>2. Fits(task'[t]) /\ PassesOn(t)
    BY <1>1, <2>1 DEF Fits, PassesOn, Counts, Shows, Adds, Finds, WillCount
  <2>3. RestTyped'
    BY <1>0, <1>1 DEF TipInv, TipTyped, RestTyped
  <2> QED BY <1>0, <1>1, <2>1, <2>2, <2>3, StepStays
<1>2. CASE /\ \/ task[t].at \in {"probe", "write", "tip", "drop"}
              \/ task[t].at = "latest" /\ task[t].kind # "wipe"
           /\ Direct!Tipped(t) /\ lapses' = lapses \cup {"untipped"}
  <2>1. /\ Moves(t)
        /\ \/ /\ task[t].kind = "send" /\ task'[t].at = "ask" /\ task'[t].kind = "send"
              /\ task'[t].msg = task[t].msg
           \/ /\ task[t].kind \in {"replay", "delete", "wipe"} /\ task'[t].at = "count"
              /\ task'[t].kind = task[t].kind
           \/ /\ task[t].kind \notin {"send", "replay", "delete", "wipe"}
              /\ task'[t].at = "idle" /\ task'[t].kind = "quiet"
    BY <1>0, <1>2, TippedMoves
  <2>2. Fits(task'[t]) /\ PassesOn(t)
    BY <1>0, <1>2, <2>1 DEF Fits, PassesOn, Counts, Shows, Adds, Finds, WillCount
  <2>3. RestTyped'
    BY <1>0, <1>2 DEF TipInv, TipTyped, RestTyped
  <2> QED BY <1>0, <1>2, <2>1, <2>2, <2>3, StepStays
<1>3. CASE task[t].at = "ask" /\ Direct!Goto(t, "bump") /\ UNCHANGED lapses
  <2>1. Moves(t) /\ task'[t].at = "bump" /\ task'[t].kind = task[t].kind /\ task'[t].msg = task[t].msg
    BY <1>0, <1>3, GotoMoves DEF Direct!Place
  <2>2. Fits(task'[t]) /\ PassesOn(t)
    BY <1>0, <1>3, <2>1 DEF Fits, PassesOn, Counts, Shows, Adds, Finds, WillCount
  <2>3. RestTyped'
    BY <1>0, <1>3 DEF TipInv, TipTyped, RestTyped
  <2> QED BY <1>0, <1>3, <2>1, <2>2, <2>3, StepStays
<1>4. CASE task[t].at \in {"ask", "bump"} /\ Direct!ToCount(t) /\ UNCHANGED lapses
  <2>1. Moves(t) /\ task'[t].at = "count"
    BY <1>0, <1>4, ToCountMoves
  <2>2. Fits(task'[t]) /\ PassesOn(t)
    BY <1>0, <1>4, <2>1 DEF Fits, PassesOn, Counts, Shows, Adds, Finds, WillCount
  <2>3. RestTyped'
    BY <1>0, <1>4 DEF TipInv, TipTyped, RestTyped
  <2> QED BY <1>0, <1>4, <2>1, <2>2, <2>3, StepStays
<1>5. CASE task[t].at = "check" /\ Direct!LetGo(t)
  BY <1>0, <1>5, LetGoStays
<1>6. CASE task[t].at \in {"count", "set", "readback", "recount"} /\ Direct!SyncFails(t)
  BY <1>0, <1>6, SyncFailsStays
<1>7. CASE task[t].at = "wipe" /\ Direct!Ends(t) /\ UNCHANGED lapses
  <2>1. Moves(t) /\ task'[t].at = "idle"
    BY <1>0, <1>7, EndsMoves
  <2>2. Fits(task'[t]) /\ PassesOn(t)
    BY <1>7, <2>1 DEF Fits, PassesOn, Counts, Shows, Adds, Finds, WillCount
  <2>3. RestTyped'
    BY <1>0, <1>7 DEF TipInv, TipTyped, RestTyped
  <2> QED BY <1>0, <1>7, <2>1, <2>2, <2>3, StepStays
<1>8. CASE task[t].at = "late" /\ Direct!Ends(t) /\ lapses' = lapses \cup {"uncounted"}
  <2>1. Moves(t) /\ task'[t].at = "idle"
    BY <1>0, <1>8, EndsMoves
  <2>2. Fits(task'[t]) /\ PassesOn(t)
    BY <1>8, <2>1 DEF Fits, PassesOn, Counts, Shows, Adds, Finds, WillCount, Excused
  <2>3. RestTyped'
    BY <1>0, <1>8 DEF TipInv, TipTyped, RestTyped
  <2> QED BY <1>0, <1>8, <2>1, <2>2, <2>3, StepStays
<1>9. CASE task[t].at = "clear" /\ Direct!Goto(t, "latest") /\ UNCHANGED lapses
  <2>1. Moves(t) /\ task'[t].at = "latest" /\ task'[t].kind = task[t].kind
    BY <1>0, <1>9, GotoMoves DEF Direct!Place
  <2>2. Fits(task'[t]) /\ PassesOn(t)
    BY <1>0, <1>9, <2>1 DEF Fits, PassesOn, Counts, Shows, Adds, Finds, WillCount
  <2>3. RestTyped'
    BY <1>0, <1>9 DEF TipInv, TipTyped, RestTyped
  <2> QED BY <1>0, <1>9, <2>1, <2>2, <2>3, StepStays
<1>10. CASE /\ task[t].at = "latest" /\ task[t].kind = "wipe"
            /\ Direct!Ends(t) \/ Direct!Goto(t, "invalidate") \/ Direct!Tipped(t)
            /\ lapses' = lapses \cup {"uncounted", "untipped"}
  <2>1. Moves(t) /\ task'[t].at \in {"idle", "invalidate", "count"}
    <3>1. CASE Direct!Ends(t)
      BY <1>0, <3>1, EndsMoves
    <3>2. CASE Direct!Goto(t, "invalidate")
      BY <1>0, <3>2, GotoMoves DEF Direct!Place
    <3>3. CASE Direct!Tipped(t)
      BY <1>0, <1>10, <3>3, TippedMoves
    <3> QED BY <1>10, <3>1, <3>2, <3>3
  <2>2. Fits(task'[t]) /\ PassesOn(t)
    BY <1>10, <2>1 DEF Fits, PassesOn, Counts, Shows, Adds, Finds, WillCount, Excused
  <2>3. RestTyped'
    BY <1>0, <1>10 DEF TipInv, TipTyped, RestTyped
  <2> QED BY <1>0, <1>10, <2>1, <2>2, <2>3, StepStays
<1> QED
  BY <1>1, <1>2, <1>3, <1>4, <1>5, <1>6, <1>7, <1>8, <1>9, <1>10 DEF Direct!Fail

\* Nobody's step: the tip, the messages and the tasks stay as they are.
LEMMA ApartStays ==
  ASSUME TipInv, UNCHANGED <<msg, tip, task, stamps, sends, holds, lapses>>, RestTyped'
  PROVE  TipInv'
<1>1. TasksFit' /\ Peeking' = Peeking
  BY DEF TipInv, TasksFit, Fits, Peeking
<1>2. TipTyped'
  BY <1>1 DEF TipInv, TipTyped, RestTyped
<1>3. Newest'
  BY SameMsgs DEF TipInv, Newest, Shows
<1>4. NumberStands'
  BY DEF TipInv, NumberStands
<1>5. NoneMissing' /\ NoneTooMany'
  BY SameMsgs DEF TipInv, NoneMissing, NoneTooMany, Adds, Finds, WillCount
<1> QED BY <1>1, <1>2, <1>3, <1>4, <1>5 DEF TipInv

LEMMA InitTip == Direct!Init => TipInv
<1> SUFFICES ASSUME Direct!Init PROVE TipInv
  OBVIOUS
<1>1. TasksFit
  BY IdleTyped DEF Direct!Init, TasksFit, Fits
<1>2. Peeking = {}
  BY IdleTyped DEF Direct!Init, Peeking
<1>3. TipTyped
  BY <1>2, FS_EmptySet, Bounds DEF Direct!Init, TipTyped
<1>4. Newest /\ NumberStands /\ NoneMissing /\ NoneTooMany
  BY DEF Direct!Init, Newest, NumberStands, NoneMissing, NoneTooMany, Direct!Live, Direct!Unread
<1> QED BY <1>1, <1>3, <1>4 DEF TipInv

LEMMA NextTip ==
  ASSUME TipInv, [Direct!Next]_(Direct!vars)
  PROVE  TipInv'
<1>1. ASSUME NEW t \in Handler, Direct!Begin(t)
      PROVE  TipInv'
  <2>1. ASSUME NEW m \in Direct!Msg, Direct!Replay(t, m) PROVE TipInv'
    BY <2>1, BeginStays DEF Direct!Replay, Direct!generation, Direct!history
  <2>2. ASSUME NEW m \in Direct!Msg, Direct!Edit(t, m) PROVE TipInv'
    BY <2>2, BeginStays DEF Direct!Edit, Direct!generation, Direct!history
  <2>3. CASE Direct!StartWipe(t)
    <3>1. stamps \in Direct!Msg \cup {0}
      <4>1. Cardinality(Peeking) \in Nat
        BY ChatsAssumption, FS_Subset, FS_CardinalityType DEF Peeking
      <4> QED BY <4>1, Bounds DEF TipInv, TipTyped, Direct!Msg
    <3> QED BY <2>3, <3>1, BeginStays DEF Direct!StartWipe, Direct!generation, Direct!history
  <2> QED BY <1>1, <2>1, <2>2, <2>3, SendStays, DeleteStays, MarkReadStays DEF Direct!Begin
<1>2. ASSUME NEW t \in Handler, Direct!Step(t)
      PROVE  TipInv'
  BY <1>2, StampStays, InsertStays, ProbeStays, WriteStays, AskStays, BumpStays, CheckStays,
     CountStays, SetUnreadStays, ReadBackStays, RecountStays, AnnounceStays, InvalidateStays,
     ReadTipStays, FindLatestStays, DropTipStays, WipeMessagesStays, WipeLateStays,
     ClearTipStays, FailStays
  DEF Direct!Step
<1>3. CASE Direct!CollectGeneration
  BY <1>3, ApartStays DEF Direct!CollectGeneration, Direct!counters, Direct!history,
     TipInv, TipTyped, RestTyped
<1>4. CASE Direct!AnnounceOther
  BY <1>4, ApartStays, Bounds DEF Direct!AnnounceOther, Direct!history, TipInv, TipTyped, RestTyped
<1>5. CASE UNCHANGED Direct!vars
  BY <1>5, ApartStays DEF Direct!vars, Direct!generation, Direct!counters, Direct!history,
     TipInv, TipTyped, RestTyped
<1> QED BY <1>1, <1>2, <1>3, <1>4, <1>5 DEF Direct!Next

LEMMA TipTypes == TipInv => Direct!TypeOK
<1> SUFFICES ASSUME TipInv PROVE Direct!TypeOK
  OBVIOUS
<1>1. Cardinality(Peeking) \in Nat
  BY ChatsAssumption, FS_Subset, FS_CardinalityType DEF Peeking
<1>2. stamps \in 0 .. MaxMsgs
  BY <1>1, Bounds DEF TipInv, TipTyped
<1> QED BY <1>2 DEF TipInv, TipTyped, TasksFit, TipTaskSet, Direct!TypeOK

\* At rest nobody shows, adds or finds anything.
LEMMA TipHolds == TipInv => Direct!TipSettles /\ Direct!UnreadSettles
<1> SUFFICES ASSUME TipInv, Direct!Settled PROVE Direct!TipSettles /\ Direct!UnreadSettles
  BY DEF Direct!TipSettles, Direct!UnreadSettles
<1>1. \A t \in Handler : task[t].at = "idle"
  BY IdleTyped DEF Direct!Settled
<1>2. Direct!TipSettles
  <2> SUFFICES ASSUME Direct!Live # {}, "untipped" \notin lapses
               PROVE  tip # NoTip /\ tip.last >= Direct!Latest
    BY DEF Direct!TipSettles
  <2>1. Direct!Live \in SUBSET (1 .. MaxMsgs)
    BY DEF Direct!Live, Direct!Msg
  <2>2. Direct!Latest = Direct!Max(Direct!Live)
    BY DEF Direct!Latest
  <2>3. Direct!Latest \in Direct!Live
    BY <2>1, <2>2, Highest, Bounds
  <2> QED BY <1>1, <2>3 DEF TipInv, Newest, Shows
<1>3. Direct!UnreadSettles
  <2> SUFFICES ASSUME tip # NoTip, lapses \cap {"extra", "uncounted"} = {}
               PROVE  tip.unread = Direct!Cardinality(Direct!Unread)
    BY DEF Direct!UnreadSettles
  <2>1. tip.unread = Cardinality(holds)
    BY <1>1 DEF TipInv, NumberStands
  <2>2. Direct!Unread \subseteq holds
    BY <1>1 DEF TipInv, NoneMissing, Adds, WillCount
  <2>3. holds \subseteq Direct!Unread
    BY <1>1 DEF TipInv, NoneTooMany, Finds, WillCount
  <2>4. holds = Direct!Unread /\ Direct!Unread \in SUBSET Direct!Msg
    BY <2>2, <2>3 DEF Direct!Unread
  <2> QED BY <2>1, <2>4, MsgsFinite
<1> QED BY <1>2, <1>3

-----------------------------------------------------------------------------
(****************************************************************************)
(* ChannelMembers: where its requests can be.                                *)
(****************************************************************************)
RequestPlace == {"free", "use", "again", "release", "seed", "join", "pull", "forget", "upsert",
                 "undo", "unmute", "lift", "mute", "wipe", "invites", "states", "channel"}
RequestSet ==
    [op : {"none", "accept", "add", "leave", "kick", "ban", "unban", "mute", "unmute", "delete"},
     at : RequestPlace, who : Person \cup {Nobody}, late : BOOLEAN]

\* What a request is about fits to where it is.
Belongs(a) ==
    /\ a.at = "free" => a.op = "none"
    /\ a.at \in {"use", "again", "release"} => a.op = "accept"
    /\ a.at \in {"seed", "join"} => a.op \in {"accept", "add"}
    /\ a.at \in {"pull", "forget"} => a.op \in {"leave", "kick", "ban"}
    /\ a.at \in {"upsert", "undo"} => a.op = "ban"
    /\ a.at = "unmute" => a.op \in {"unmute", "kick", "ban"}
    /\ a.at = "lift" => a.op \in {"unban", "mute"}
    /\ a.at = "mute" => a.op = "mute"
    /\ a.at \in {"wipe", "invites", "states", "channel"} => a.op = "delete"
    /\ a.at \notin {"free", "wipe", "invites", "states", "channel"} => a.who \in Person

RequestsFit ==
    /\ act \in [Members!Acting -> RequestSet]
    /\ \A r \in Members!Acting : Belongs(act[r])

LEMMA FreeFits == Members!Free \in RequestSet /\ Belongs(Members!Free)
  BY DEF Members!Free, RequestSet, RequestPlace, Belongs

\* A request that goes on.
LEMMA GoesOn ==
  ASSUME act \in [Members!Acting -> RequestSet], NEW r \in Members!Acting,
         NEW at \in RequestPlace
  PROVE  /\ Members!To(r, at) \in [Members!Acting -> RequestSet]
         /\ \A q \in Members!Acting :
             /\ q # r => Members!To(r, at)[q] = act[q]
             /\ Members!To(r, at)[q].op = act[q].op /\ Members!To(r, at)[q].who = act[q].who
             /\ Members!To(r, at)[q].late = act[q].late
         /\ Members!To(r, at)[r].at = at
  BY DEF Members!To, RequestSet

\* A request that is over.
LEMMA IsOver ==
  ASSUME act \in [Members!Acting -> RequestSet], NEW r \in Members!Acting
  PROVE  /\ Members!Over(r) \in [Members!Acting -> RequestSet]
         /\ \A q \in Members!Acting :
             Members!Over(r)[q] = IF q = r THEN Members!Free ELSE act[q]
<1> HIDE DEF Members!Free
<1> QED BY FreeFits DEF Members!Over

\* Requests that have become late: nothing else of them has changed.
LEMMA Later ==
  ASSUME NEW then \in [Members!Acting -> RequestSet], NEW p, NEW ops, NEW places,
         NEW all, all = Members!MadeLate(then, p, ops, places)
  PROVE  /\ all \in [Members!Acting -> RequestSet]
         /\ \A q \in Members!Acting :
             /\ all[q].op = then[q].op /\ all[q].at = then[q].at /\ all[q].who = then[q].who
             /\ then[q].late => all[q].late
             /\ then[q].who = p /\ then[q].op \in ops /\ then[q].at \in places => all[q].late
<1> SUFFICES ASSUME NEW q \in Members!Acting
             PROVE  /\ all[q] \in RequestSet
                    /\ all[q].op = then[q].op /\ all[q].at = then[q].at /\ all[q].who = then[q].who
                    /\ then[q].late => all[q].late
                    /\ then[q].who = p /\ then[q].op \in ops /\ then[q].at \in places => all[q].late
  BY DEF Members!MadeLate
<1> DEFINE l == then[q].late \/ (then[q].who = p /\ then[q].op \in ops /\ then[q].at \in places)
<1>1. l \in BOOLEAN
  OBVIOUS
<1>2. all[q] = [then[q] EXCEPT !.late = l]
  BY DEF Members!MadeLate
<1>3. then[q] \in RequestSet
  OBVIOUS
<1> HIDE DEF l
<1>4. /\ all[q] \in RequestSet /\ all[q].late = l
      /\ all[q].op = then[q].op /\ all[q].at = then[q].at /\ all[q].who = then[q].who
  BY <1>1, <1>2, <1>3 DEF RequestSet
<1> QED BY <1>4 DEF l

\* A request that begins fits, ...
LEMMA LookFits ==
  ASSUME RequestsFit, NEW r \in Members!Acting, NEW a \in RequestSet, Belongs(a),
         Members!Looks(r, a.op, a.at, a.who)
  PROVE  /\ RequestsFit'
         /\ ~act'[r].late /\ act'[r].op = a.op /\ act'[r].at = a.at /\ act'[r].who = a.who
         /\ \A q \in Members!Acting : q # r => act'[q] = act[q]
<1> DEFINE b == [op |-> a.op, at |-> a.at, who |-> a.who, late |-> FALSE]
<1>1. b \in RequestSet /\ Belongs(b) /\ ~b.late
  BY DEF RequestSet, Belongs
<1>2. act' = [act EXCEPT ![r] = b]
  BY DEF Members!Looks
<1>3. b.op = a.op /\ b.at = a.at /\ b.who = a.who
  OBVIOUS
<1> HIDE DEF b
<1> QED BY <1>1, <1>2, <1>3 DEF RequestsFit

\* ... so does one that goes on to where it belongs, ...
LEMMA StepBelongs ==
  ASSUME RequestsFit, NEW r \in Members!Acting, NEW at \in RequestPlace,
         Belongs([act[r] EXCEPT !.at = at])
  PROVE  /\ Members!To(r, at) \in [Members!Acting -> RequestSet]
         /\ \A q \in Members!Acting : Belongs(Members!To(r, at)[q])
<1>1. Belongs(Members!To(r, at)[r])
  BY DEF Members!To, RequestsFit
<1>2. \A q \in Members!Acting : Belongs(Members!To(r, at)[q])
  BY <1>1, GoesOn DEF RequestsFit
<1> QED BY <1>2, GoesOn DEF RequestsFit

LEMMA StepFits ==
  ASSUME RequestsFit, NEW r \in Members!Acting, NEW at \in RequestPlace,
         Belongs([act[r] EXCEPT !.at = at]), act' = Members!To(r, at)
  PROVE  RequestsFit'
BY StepBelongs DEF RequestsFit

\* ... and all do when one is over.
LEMMA OverFits ==
  ASSUME RequestsFit, NEW r \in Members!Acting, act' = Members!Over(r)
  PROVE  RequestsFit'
<1> HIDE DEF Members!Free
<1> QED BY FreeFits, IsOver DEF RequestsFit

LEMMA LateFits ==
  ASSUME NEW then \in [Members!Acting -> RequestSet], \A q \in Members!Acting : Belongs(then[q]),
         NEW p, NEW ops, NEW places, act' = Members!MadeLate(then, p, ops, places)
  PROVE  RequestsFit'
<1>1. \A q \in Members!Acting : Belongs(act'[q])
  BY Later DEF Belongs
<1> QED BY <1>1, Later DEF RequestsFit

\* The new places of a request.
LEMMA Places ==
  ASSUME RequestsFit, NEW r \in Members!Acting
  PROVE  /\ act[r].at \in {"use", "again", "seed", "join"} /\ act[r].op = "accept" =>
              \A at \in {"again", "release", "seed", "join"} : Belongs([act[r] EXCEPT !.at = at])
         /\ act[r].at = "seed" => Belongs([act[r] EXCEPT !.at = "join"])
         /\ act[r].at \in {"pull", "unmute"} /\ act[r].op \in {"leave", "kick", "ban"} =>
              Belongs([act[r] EXCEPT !.at = "forget"])
         /\ act[r].at = "pull" /\ act[r].op # "leave" => Belongs([act[r] EXCEPT !.at = "unmute"])
         /\ act[r].at = "pull" /\ act[r].op = "ban" => Belongs([act[r] EXCEPT !.at = "undo"])
         /\ act[r].at = "upsert" => Belongs([act[r] EXCEPT !.at = "pull"])
         /\ act[r].at = "mute" => Belongs([act[r] EXCEPT !.at = "lift"])
         /\ act[r].at \in {"wipe", "invites", "states"} =>
              \A at \in {"invites", "states", "channel"} : Belongs([act[r] EXCEPT !.at = at])
<1>1. act[r] \in RequestSet /\ Belongs(act[r])
  BY DEF RequestsFit
<1>2. \A at \in RequestPlace :
        /\ [act[r] EXCEPT !.at = at].at = at
        /\ [act[r] EXCEPT !.at = at].op = act[r].op /\ [act[r] EXCEPT !.at = at].who = act[r].who
  BY <1>1 DEF RequestSet
<1> QED BY <1>1, <1>2 DEF Belongs, RequestPlace

\* A request looks at the channel.
LEMMA AnyLook ==
  ASSUME RequestsFit, NEW r \in Members!Acting,
         \/ Members!AcceptLook(r) \/ Members!AddLook(r) \/ Members!LeaveLook(r)
         \/ Members!KickLook(r) \/ Members!BanLook(r) \/ Members!UnbanLook(r)
         \/ Members!MuteLook(r) \/ Members!UnmuteLook(r) \/ Members!DeleteLook(r),
         members \subseteq Person
  PROVE  \E a \in RequestSet :
            /\ Belongs(a) /\ Members!Looks(r, a.op, a.at, a.who)
            /\ a.at \in {"seed", "join"} => a.who \notin banned
            /\ a.op = "mute" => a.who \in members
            /\ a.at \notin {"join", "again", "release"}
            /\ a.op = "accept" => a.at = "use"
<1> DEFINE Looking(op, at, p) == [op |-> op, at |-> at, who |-> p, late |-> FALSE]
<1>1. ASSUME NEW op \in {"accept", "add", "leave", "kick", "ban", "unban", "mute", "unmute", "delete"},
             NEW at \in RequestPlace, NEW p \in Person \cup {Nobody}
      PROVE  /\ Looking(op, at, p) \in RequestSet /\ Looking(op, at, p).op = op
             /\ Looking(op, at, p).at = at /\ Looking(op, at, p).who = p
  BY DEF RequestSet
<1>2. \A at \in {"use", "seed", "pull", "upsert", "lift", "mute", "unmute", "wipe"} : at \in RequestPlace
  BY DEF RequestPlace
<1> HIDE DEF Looking
<1>3. CASE Members!AcceptLook(r)
  <2>1. PICK p \in Person : p \notin banned /\ Members!Looks(r, "accept", "use", p)
    BY <1>3 DEF Members!AcceptLook
  <2> QED BY <1>1, <1>2, <2>1 DEF Belongs
<1>4. CASE Members!AddLook(r)
  <2>1. PICK p \in Person : p \notin banned /\ Members!Looks(r, "add", "seed", p)
    BY <1>4 DEF Members!AddLook
  <2> QED BY <1>1, <1>2, <2>1 DEF Belongs
<1>5. CASE Members!LeaveLook(r) \/ Members!KickLook(r)
  <2>1. PICK p \in Person, op \in {"leave", "kick"} : Members!Looks(r, op, "pull", p)
    BY <1>5 DEF Members!LeaveLook, Members!KickLook
  <2> QED BY <1>1, <1>2, <2>1 DEF Belongs
<1>6. CASE Members!BanLook(r)
  <2>1. PICK p \in Person : Members!Looks(r, "ban", "upsert", p)
    BY <1>6 DEF Members!BanLook
  <2> QED BY <1>1, <1>2, <2>1 DEF Belongs
<1>7. CASE Members!UnbanLook(r)
  <2>1. PICK p \in Person : Members!Looks(r, "unban", "lift", p)
    BY <1>7 DEF Members!UnbanLook
  <2> QED BY <1>1, <1>2, <2>1 DEF Belongs
<1>8. CASE Members!MuteLook(r)
  <2>1. PICK p \in members : Members!Looks(r, "mute", "mute", p)
    BY <1>8 DEF Members!MuteLook
  <2> QED BY <1>1, <1>2, <2>1 DEF Belongs
<1>9. CASE Members!UnmuteLook(r)
  <2>1. PICK p \in Person : Members!Looks(r, "unmute", "unmute", p)
    BY <1>9 DEF Members!UnmuteLook
  <2> QED BY <1>1, <1>2, <2>1 DEF Belongs
<1>10. CASE Members!DeleteLook(r)
  <2>1. Members!Looks(r, "delete", "wipe", Nobody)
    BY <1>10 DEF Members!DeleteLook
  <2> QED BY <1>1, <1>2, <2>1 DEF Belongs
<1> QED BY <1>3, <1>4, <1>5, <1>6, <1>7, <1>8, <1>9, <1>10

-----------------------------------------------------------------------------
MembersTyped ==
    /\ RequestsFit
    /\ alive \in BOOLEAN
    /\ members \subseteq Person /\ banned \subseteq Person /\ muted \subseteq Person
    /\ readStates \subseteq Person
    /\ invite \in {"open", "closed", "gone"} /\ uses \in Int
    /\ acts \in 0 .. MaxActs /\ faults \in 0 .. MaxFaults
    /\ joins \in Nat /\ lost \in Nat
    /\ overtaken \subseteq Person /\ botched \subseteq Person /\ sentenced \subseteq Person
    /\ lifted \subseteq Person /\ stale \subseteq Person

\* The uses that are taken and not yet used.
Taken == {r \in Members!Acting : act[r].op = "accept" /\ ~Members!Is(r, "use")}

LEMMA TakenFinite == IsFiniteSet(Members!Acting) /\ IsFiniteSet(Taken) /\ Cardinality(Taken) \in Nat
<1>1. IsFiniteSet(Members!Acting)
  <2>1. MaxActing \in Int /\ 1 \in Int
    BY ChatsAssumption
  <2> QED BY <2>1, FS_Interval DEF Members!Acting
<1> QED BY <1>1, FS_Subset, FS_CardinalityType DEF Taken

LEMMA RequestsStay ==
  ASSUME MembersTyped, Members!MemberNext
  PROVE  RequestsFit'
<1> USE DEF MembersTyped, Members!Is
<1>0. /\ \A at \in {"again", "release", "seed", "join", "pull", "forget", "undo", "unmute", "lift",
                   "invites", "states", "channel"} : at \in RequestPlace
      /\ \A q \in Members!Acting : Belongs(act[q])
  BY DEF RequestPlace, RequestsFit
<1>1. ASSUME NEW r \in Members!Acting,
             \/ Members!AcceptLook(r) \/ Members!AddLook(r) \/ Members!LeaveLook(r)
             \/ Members!KickLook(r) \/ Members!BanLook(r) \/ Members!UnbanLook(r)
             \/ Members!MuteLook(r) \/ Members!UnmuteLook(r) \/ Members!DeleteLook(r)
      PROVE  RequestsFit'
  <2>1. PICK a \in RequestSet : Belongs(a) /\ Members!Looks(r, a.op, a.at, a.who)
    BY <1>1, AnyLook
  <2> QED BY <2>1, LookFits
<1>2. ASSUME NEW r \in Members!Acting, Members!TakeUse(r) \/ Members!LookAgain(r)
      PROVE  RequestsFit'
  <2>1. /\ act[r].op = "accept" /\ act[r].at \in {"use", "again"}
        /\ act' = Members!Over(r) \/ \E at \in {"again", "seed", "release"} : act' = Members!To(r, at)
    BY <1>0, <1>2 DEF Members!TakeUse, Members!LookAgain, Belongs
  <2> QED BY <1>0, <2>1, Places, StepFits, OverFits
<1>3. ASSUME NEW r \in Members!Acting, Members!Seed(r)
      PROVE  RequestsFit'
  BY <1>0, <1>3, Places, StepFits DEF Members!Seed
<1>4. ASSUME NEW r \in Members!Acting, Members!Join(r) \/ Members!AddFails(r)
      PROVE  RequestsFit'
  <2>1. /\ act[r].at \in {"use", "again", "seed", "join"}
        /\ act' = Members!Over(r) \/ (act' = Members!To(r, "release") /\ act[r].op = "accept")
    BY <1>4 DEF Members!Join, Members!AddFails
  <2> QED BY <1>0, <2>1, Places, StepFits, OverFits
<1>5. ASSUME NEW r \in Members!Acting,
             \/ Members!Release(r) \/ Members!UndoBan(r) \/ Members!Forget(r) \/ Members!Lift(r)
             \/ Members!WriteFails(r) \/ Members!DeleteDocument(r)
      PROVE  RequestsFit'
  <2>1. act' = Members!Over(r)
    BY <1>5 DEF Members!Release, Members!UndoBan, Members!Forget, Members!Lift, Members!WriteFails,
                Members!DeleteDocument
  <2> QED BY <2>1, OverFits
<1>6. ASSUME NEW r \in Members!Acting, Members!BanUpsert(r)
      PROVE  RequestsFit'
  <2> DEFINE then == Members!To(r, "pull")
  <2>1. /\ act[r].at = "upsert"
        /\ act' = Members!MadeLate(then, act[r].who, {"accept", "add"}, {"seed", "join"})
    BY <1>6 DEF Members!BanUpsert
  <2>2. Belongs([act[r] EXCEPT !.at = "pull"])
    BY <2>1, Places
  <2>3. then \in [Members!Acting -> RequestSet] /\ \A q \in Members!Acting : Belongs(then[q])
    BY <1>0, <2>2, StepBelongs
  <2> HIDE DEF then
  <2> QED BY <2>1, <2>3, LateFits
<1>7. ASSUME NEW r \in Members!Acting, Members!Pull(r)
      PROVE  RequestsFit'
  <2> DEFINE then == IF act[r].op = "leave"
                     THEN IF alive THEN Members!To(r, "forget") ELSE Members!Over(r)
                     ELSE Members!To(r, "unmute")
  <2>1. /\ act[r].at = "pull"
        /\ act' = Members!MadeLate(then, act[r].who, {"mute"}, {"mute", "lift"})
    BY <1>7 DEF Members!Pull
  <2>2. \/ then = Members!Over(r)
        \/ \E at \in {"forget", "unmute"} :
             then = Members!To(r, at) /\ Belongs([act[r] EXCEPT !.at = at])
    BY <1>0, <2>1, Places DEF Belongs
  <2>3. then \in [Members!Acting -> RequestSet] /\ \A q \in Members!Acting : Belongs(then[q])
    <3> HIDE DEF then, Members!Free
    <3>1. CASE then = Members!Over(r)
      BY <1>0, <3>1, IsOver, FreeFits DEF RequestsFit
    <3>2. ASSUME NEW at \in {"forget", "unmute"},
                 then = Members!To(r, at), Belongs([act[r] EXCEPT !.at = at])
          PROVE  then \in [Members!Acting -> RequestSet] /\ \A q \in Members!Acting : Belongs(then[q])
      BY <1>0, <3>2, StepBelongs
    <3> QED BY <2>2, <3>1, <3>2
  <2> HIDE DEF then
  <2> QED BY <2>1, <2>3, LateFits
<1>8. ASSUME NEW r \in Members!Acting, Members!PullFails(r)
      PROVE  RequestsFit'
  BY <1>0, <1>8, Places, StepFits, OverFits DEF Members!PullFails
<1>9. ASSUME NEW r \in Members!Acting, Members!Mute(r)
      PROVE  RequestsFit'
  BY <1>0, <1>9, Places, StepFits DEF Members!Mute
<1>10. ASSUME NEW r \in Members!Acting, Members!Unmute(r)
      PROVE  RequestsFit'
  BY <1>0, <1>10, Places, StepFits, OverFits DEF Members!Unmute, Belongs
<1>11. ASSUME NEW r \in Members!Acting,
              Members!DeleteMessages(r) \/ Members!DeleteInvites(r) \/ Members!DeleteReadStates(r)
      PROVE  RequestsFit'
  BY <1>0, <1>11, Places, StepFits
  DEF Members!DeleteMessages, Members!DeleteInvites, Members!DeleteReadStates
<1>12. CASE Members!InviteEnds \/ Members!BanExpires
  BY <1>12 DEF Members!InviteEnds, Members!BanExpires, RequestsFit
<1>13. CASE Members!Stop
  <2> HIDE DEF Members!Free
  <2> QED BY <1>13, FreeFits DEF Members!Stop, RequestsFit
<1> QED
  BY <1>1, <1>2, <1>3, <1>4, <1>5, <1>6, <1>7, <1>8, <1>9, <1>10, <1>11, <1>12, <1>13
  DEF Members!MemberNext

LEMMA InitMembersTyped == Members!MemberInit => MembersTyped
<1> SUFFICES ASSUME Members!MemberInit PROVE MembersTyped
  OBVIOUS
<1>1. RequestsFit
  <2> HIDE DEF Members!Free
  <2> QED BY FreeFits DEF Members!MemberInit, RequestsFit
<1> QED BY <1>1, ChatsAssumption DEF Members!MemberInit, MembersTyped

\* A step of r leaves the other requests where they are.
LEMMA OthersWait ==
  ASSUME MembersTyped, NEW r \in Members!Acting,
         \/ act' = Members!Over(r) \/ \E at \in RequestPlace : act' = Members!To(r, at)
         \/ Members!BanUpsert(r) \/ Members!Pull(r)
         \/ \E a \in RequestSet : Belongs(a) /\ Members!Looks(r, a.op, a.at, a.who)
  PROVE  \A q \in Members!Acting : q # r =>
            /\ act'[q].op = act[q].op /\ act'[q].at = act[q].at /\ act'[q].who = act[q].who
            /\ act[q].late => act'[q].late
<1>1. act \in [Members!Acting -> RequestSet] /\ RequestsFit
  BY DEF MembersTyped, RequestsFit
<1>2. CASE act' = Members!Over(r) \/ \E at \in RequestPlace : act' = Members!To(r, at)
  BY <1>1, <1>2, GoesOn, IsOver
<1>3. CASE Members!BanUpsert(r)
  <2> DEFINE then == Members!To(r, "pull")
  <2>1. act' = Members!MadeLate(then, act[r].who, {"accept", "add"}, {"seed", "join"})
    BY <1>3 DEF Members!BanUpsert
  <2>2. /\ then \in [Members!Acting -> RequestSet]
        /\ \A q \in Members!Acting : q # r => then[q] = act[q]
    BY <1>1, GoesOn DEF RequestPlace
  <2> HIDE DEF then
  <2> QED BY <2>1, <2>2, Later
<1>4. CASE Members!Pull(r)
  <2> DEFINE then == IF act[r].op = "leave"
                     THEN IF alive THEN Members!To(r, "forget") ELSE Members!Over(r)
                     ELSE Members!To(r, "unmute")
  <2>1. act' = Members!MadeLate(then, act[r].who, {"mute"}, {"mute", "lift"})
    BY <1>4 DEF Members!Pull
  <2>2. /\ then \in [Members!Acting -> RequestSet]
        /\ \A q \in Members!Acting : q # r => then[q] = act[q]
    <3>1. "forget" \in RequestPlace /\ "unmute" \in RequestPlace
      BY DEF RequestPlace
    <3> QED BY <1>1, <3>1, GoesOn, IsOver
  <2> HIDE DEF then
  <2> QED BY <2>1, <2>2, Later
<1>5. CASE \E a \in RequestSet : Belongs(a) /\ Members!Looks(r, a.op, a.at, a.who)
  BY <1>1, <1>5, LookFits
<1> QED BY <1>2, <1>3, <1>4, <1>5

\* What the two do that make others late.
LEMMA BanWrites ==
  ASSUME MembersTyped, NEW r \in Members!Acting, Members!BanUpsert(r)
  PROVE  /\ act'[r].at = "pull" /\ act'[r].op = "ban" /\ act'[r].who = act[r].who
         /\ act[r].who \in Person
         /\ \A q \in Members!Acting :
             act'[q].who = act[r].who /\ act'[q].at \in {"seed", "join"} => act'[q].late
<1> DEFINE then == Members!To(r, "pull")
<1>1. /\ act[r].at = "upsert"
      /\ act' = Members!MadeLate(then, act[r].who, {"accept", "add"}, {"seed", "join"})
  BY DEF Members!BanUpsert, Members!Is
<1>2. RequestsFit /\ act \in [Members!Acting -> RequestSet] /\ "pull" \in RequestPlace
  BY DEF MembersTyped, RequestsFit, RequestPlace
<1>3. act[r].op = "ban" /\ act[r].who \in Person
  BY <1>1, <1>2 DEF RequestsFit, Belongs
<1>4. /\ then \in [Members!Acting -> RequestSet] /\ then[r].at = "pull"
      /\ then[r].op = "ban" /\ then[r].who = act[r].who
  BY <1>2, <1>3, GoesOn
<1>5. \A q \in Members!Acting : Belongs(then[q])
  BY <1>1, <1>2, Places, StepBelongs
<1> HIDE DEF then
<1> QED BY <1>1, <1>3, <1>4, <1>5, Later DEF Belongs

LEMMA Pulls ==
  ASSUME MembersTyped, NEW r \in Members!Acting, Members!Pull(r)
  PROVE  /\ act[r].who \in Person
         /\ act'[r].op # "accept" /\ act'[r].at \in {"free", "forget", "unmute"}
         /\ \A q \in Members!Acting :
             act'[q].who = act[r].who /\ act'[q].op = "mute" /\ act'[q].at \in {"mute", "lift"} =>
                act'[q].late
<1> DEFINE then == IF act[r].op = "leave"
                   THEN IF alive THEN Members!To(r, "forget") ELSE Members!Over(r)
                   ELSE Members!To(r, "unmute")
<1>1. act[r].at = "pull" /\ act' = Members!MadeLate(then, act[r].who, {"mute"}, {"mute", "lift"})
  BY DEF Members!Pull, Members!Is
<1>2. /\ act \in [Members!Acting -> RequestSet] /\ Belongs(act[r])
      /\ "forget" \in RequestPlace /\ "unmute" \in RequestPlace
  BY DEF MembersTyped, RequestsFit, RequestPlace
<1>3. act[r].op # "accept" /\ act[r].who \in Person
  BY <1>1, <1>2 DEF Belongs
<1>4. /\ then \in [Members!Acting -> RequestSet]
      /\ then[r].op # "accept" /\ then[r].at \in {"free", "forget", "unmute"}
  <2>1. CASE then = Members!Over(r)
    BY <1>2, <2>1, IsOver DEF Members!Free
  <2>2. ASSUME NEW at \in {"forget", "unmute"}, then = Members!To(r, at)
        PROVE  /\ then \in [Members!Acting -> RequestSet]
               /\ then[r].op # "accept" /\ then[r].at \in {"free", "forget", "unmute"}
    <3> HIDE DEF then
    <3> QED BY <1>2, <1>3, <2>2, GoesOn
  <2> QED BY <2>1, <2>2
<1> HIDE DEF then
<1> QED BY <1>1, <1>3, <1>4, Later

\* So does the number of uses under way, but for its own.
LEMMA OneTakes ==
  ASSUME MembersTyped, NEW r \in Members!Acting,
         \/ act' = Members!Over(r) \/ \E at \in RequestPlace : act' = Members!To(r, at)
         \/ Members!BanUpsert(r) \/ Members!Pull(r)
         \/ \E a \in RequestSet : Belongs(a) /\ Members!Looks(r, a.op, a.at, a.who)
  PROVE  /\ Cardinality(Taken) \in Nat /\ Cardinality(Taken') \in Nat
         /\ (r \in Taken <=> r \in Taken') => Cardinality(Taken') = Cardinality(Taken)
         /\ r \in Taken' /\ r \notin Taken => Cardinality(Taken') = Cardinality(Taken) + 1
         /\ r \in Taken /\ r \notin Taken' => Cardinality(Taken) = Cardinality(Taken') + 1
<1>1. Taken \in SUBSET Members!Acting /\ Taken' \in SUBSET Members!Acting
  BY DEF Taken
<1>2. Taken \ {r} = Taken' \ {r}
  BY OthersWait DEF Taken, Members!Is
<1> QED BY <1>1, <1>2, TakenFinite, OneMoves

\* A request that goes on takes its use along, ...
LEMMA TakesAlong ==
  ASSUME MembersTyped, NEW r \in Members!Acting, NEW at \in RequestPlace, at # "use",
         act' = Members!To(r, at), act[r].op # "accept" \/ act[r].at # "use"
  PROVE  Cardinality(Taken') = Cardinality(Taken)
<1>1. act \in [Members!Acting -> RequestSet]
  BY DEF MembersTyped, RequestsFit
<1>2. r \in Taken <=> r \in Taken'
  BY <1>1, GoesOn DEF Taken, Members!Is
<1> QED BY <1>2, OneTakes

\* ... and one that has none is over without one.
LEMMA TakesNone ==
  ASSUME MembersTyped, NEW r \in Members!Acting, act' = Members!Over(r), r \notin Taken
  PROVE  Cardinality(Taken') = Cardinality(Taken)
<1>1. act \in [Members!Acting -> RequestSet]
  BY DEF MembersTyped, RequestsFit
<1>2. r \notin Taken'
  BY <1>1, IsOver DEF Taken, Members!Free
<1> QED BY <1>2, OneTakes

\* Every use of the invite is accounted for.
UsesStand ==
    /\ uses \in 0 .. MaxUses
    /\ invite # "gone" => uses = joins + lost + Cardinality(Taken)

LEMMA UsesStay ==
  ASSUME MembersTyped, UsesStand, Members!MemberNext
  PROVE  UsesStand'
<1> USE DEF Members!inviteDoc, Members!tallies, UsesStand
<1>0. /\ MaxUses \in Nat /\ joins \in Nat /\ lost \in Nat /\ Cardinality(Taken) \in Nat
      /\ act \in [Members!Acting -> RequestSet]
      /\ \A at \in {"again", "release", "seed", "join", "pull", "forget", "undo", "unmute", "lift",
                   "invites", "states", "channel"} : at \in RequestPlace /\ at # "use"
      /\ \A q \in Members!Acting : Belongs(act[q])
  BY TakenFinite, ChatsAssumption DEF MembersTyped, RequestPlace, RequestsFit
<1>1. ASSUME NEW r \in Members!Acting,
             \/ Members!AcceptLook(r) \/ Members!AddLook(r) \/ Members!LeaveLook(r)
             \/ Members!KickLook(r) \/ Members!BanLook(r) \/ Members!UnbanLook(r)
             \/ Members!MuteLook(r) \/ Members!UnmuteLook(r) \/ Members!DeleteLook(r)
      PROVE  UsesStand'
  <2>1. PICK a \in RequestSet :
            /\ Belongs(a) /\ Members!Looks(r, a.op, a.at, a.who)
            /\ a.op = "accept" => a.at = "use"
    BY <1>1, AnyLook DEF MembersTyped
  <2>2. r \notin Taken'
    BY <2>1, LookFits DEF Taken, Members!Is, MembersTyped
  <2>3. r \notin Taken
    BY <2>1 DEF Members!Looks, Members!Free, Taken
  <2>4. UNCHANGED <<invite, uses, joins, lost>>
    BY <2>1 DEF Members!Looks
  <2> QED BY <2>1, <2>2, <2>3, <2>4, OneTakes
<1>2. ASSUME NEW r \in Members!Acting, Members!TakeUse(r)
      PROVE  UsesStand'
  <2>1. act[r].op = "accept" /\ r \notin Taken /\ UNCHANGED <<invite, joins, lost>>
    BY <1>0, <1>2 DEF Members!TakeUse, Belongs, Taken, Members!Is
  <2>2. CASE uses < MaxUses /\ uses' = uses + 1 /\ act' = Members!To(r, "again")
    <3>1. r \in Taken'
      BY <1>0, <2>1, <2>2, GoesOn DEF Taken, Members!Is
    <3>2. Cardinality(Taken') = Cardinality(Taken) + 1
      BY <1>0, <2>1, <2>2, <3>1, OneTakes
    <3> QED BY <1>0, <2>1, <2>2, <3>2
  <2>3. CASE UNCHANGED uses /\ act' = Members!Over(r)
    BY <2>1, <2>3, TakesNone
  <2> QED BY <1>2, <2>2, <2>3 DEF Members!TakeUse
<1>3. ASSUME NEW r \in Members!Acting,
             Members!LookAgain(r) \/ Members!Seed(r) \/ Members!Mute(r) \/ Members!DeleteMessages(r)
      PROVE  UsesStand'
  <2>1. /\ act[r].at # "use" /\ UNCHANGED <<invite, uses, joins, lost>>
        /\ \E at \in {"seed", "release", "join", "lift", "invites"} : act' = Members!To(r, at)
    BY <1>3 DEF Members!LookAgain, Members!Seed, Members!Mute, Members!DeleteMessages, Members!Is
  <2> QED BY <1>0, <2>1, TakesAlong
<1>4. ASSUME NEW r \in Members!Acting, Members!Join(r)
      PROVE  UsesStand'
  <2>1. act[r].at = "join" /\ UNCHANGED <<invite, uses, lost>>
    BY <1>4 DEF Members!Join, Members!Is
  <2>2. CASE act' = Members!Over(r) /\ act[r].op = "accept" /\ joins' = joins + 1
    <3>1. r \in Taken /\ r \notin Taken'
      BY <1>0, <2>1, <2>2, IsOver DEF Taken, Members!Is, Members!Free
    <3>2. Cardinality(Taken) = Cardinality(Taken') + 1 /\ Cardinality(Taken') \in Nat
      BY <2>2, <3>1, OneTakes
    <3> QED BY <1>0, <2>1, <2>2, <3>2
  <2>3. CASE act' = Members!Over(r) /\ act[r].op # "accept" /\ joins' = joins
    BY <2>1, <2>3, TakesNone DEF Taken
  <2>4. CASE act' = Members!To(r, "release") /\ joins' = joins
    BY <1>0, <2>1, <2>4, TakesAlong
  <2> QED BY <1>4, <2>2, <2>3, <2>4 DEF Members!Join
<1>5. ASSUME NEW r \in Members!Acting, Members!AddFails(r)
      PROVE  UsesStand'
  <2>1. UNCHANGED <<invite, uses, joins, lost>>
    BY <1>5 DEF Members!AddFails
  <2>2. CASE act' = Members!To(r, "release") /\ act[r].at # "use"
    BY <1>0, <2>1, <2>2, TakesAlong
  <2>3. CASE act' = Members!Over(r) /\ ~(act[r].op = "accept" /\ act[r].at # "use")
    BY <2>1, <2>3, TakesNone DEF Taken, Members!Is
  <2> QED BY <1>5, <2>2, <2>3 DEF Members!AddFails, Members!Is
<1>6. ASSUME NEW r \in Members!Acting, Members!Release(r)
      PROVE  UsesStand'
  <2>1. act' = Members!Over(r) /\ UNCHANGED <<invite, joins>> /\ r \in Taken
    BY <1>0, <1>6 DEF Members!Release, Members!Is, Belongs, Taken
  <2>2. r \notin Taken'
    BY <1>0, <2>1, IsOver DEF Taken, Members!Free
  <2>3. Cardinality(Taken) = Cardinality(Taken') + 1 /\ Cardinality(Taken') \in Nat
    BY <2>1, <2>2, OneTakes
  <2>4. \/ uses' = (IF invite # "gone" THEN uses - 1 ELSE uses) /\ lost' = lost
        \/ lost' = lost + 1 /\ uses' = uses
    BY <1>6 DEF Members!Release
  <2> QED BY <1>0, <2>1, <2>3, <2>4
<1>7. ASSUME NEW r \in Members!Acting,
             \/ Members!UndoBan(r) \/ Members!Forget(r) \/ Members!Lift(r) \/ Members!WriteFails(r)
             \/ Members!DeleteDocument(r)
      PROVE  UsesStand'
  <2>1. /\ act' = Members!Over(r) /\ UNCHANGED <<invite, uses, joins, lost>>
        /\ act[r].at \in {"undo", "forget", "lift", "upsert", "mute", "wipe", "channel"}
    BY <1>7 DEF Members!UndoBan, Members!Forget, Members!Lift, Members!WriteFails,
                Members!DeleteDocument, Members!Is
  <2>2. r \notin Taken
    BY <1>0, <2>1 DEF Taken, Belongs
  <2> QED BY <2>1, <2>2, TakesNone
<1>8. ASSUME NEW r \in Members!Acting, Members!BanUpsert(r) \/ Members!Pull(r)
      PROVE  UsesStand'
  <2>1. act[r].at \in {"upsert", "pull"} /\ UNCHANGED <<invite, uses, joins, lost>>
    BY <1>8 DEF Members!BanUpsert, Members!Pull, Members!Is
  <2>2. r \notin Taken
    BY <1>0, <2>1 DEF Taken, Belongs
  <2>3. act'[r].op # "accept"
    BY <1>8, BanWrites, Pulls
  <2>4. r \notin Taken'
    BY <2>3 DEF Taken
  <2> QED BY <1>8, <2>1, <2>2, <2>4, OneTakes
<1>9. ASSUME NEW r \in Members!Acting, Members!PullFails(r) \/ Members!Unmute(r)
      PROVE  UsesStand'
  <2>1. act[r].at \in {"pull", "unmute"} /\ UNCHANGED <<invite, uses, joins, lost>>
    BY <1>9 DEF Members!PullFails, Members!Unmute, Members!Is
  <2>2. r \notin Taken
    BY <1>0, <2>1 DEF Taken, Belongs
  <2>3. act' = Members!Over(r) \/ \E at \in {"undo", "forget"} : act' = Members!To(r, at)
    BY <1>9 DEF Members!PullFails, Members!Unmute
  <2> QED BY <1>0, <2>1, <2>2, <2>3, TakesNone, TakesAlong
<1>10. ASSUME NEW r \in Members!Acting, Members!DeleteInvites(r) \/ Members!DeleteReadStates(r)
      PROVE  UsesStand'
  <2>1. /\ act[r].at # "use" /\ UNCHANGED <<uses, joins, lost>>
        /\ invite' = "gone" \/ UNCHANGED invite
        /\ \E at \in {"states", "channel"} : act' = Members!To(r, at)
    BY <1>10 DEF Members!DeleteInvites, Members!DeleteReadStates, Members!Is
  <2> QED BY <1>0, <2>1, TakesAlong
<1>11. CASE Members!InviteEnds \/ Members!BanExpires
  BY <1>11 DEF Members!InviteEnds, Members!BanExpires, Taken, Members!Is
<1>12. CASE Members!Stop
  <2>1. Taken' = {}
    BY <1>12 DEF Members!Stop, Members!Free, Taken
  <2>2. Cardinality(Taken') = 0
    BY <2>1, FS_EmptySet
  <2>3. lost' = lost + Cardinality(Taken) /\ UNCHANGED <<invite, uses, joins>>
    BY <1>12 DEF Members!Stop, Taken, Members!Is, Members!Cardinality, Cardinality
  <2> QED BY <1>0, <2>2, <2>3
<1> QED
  BY <1>1, <1>2, <1>3, <1>4, <1>5, <1>6, <1>7, <1>8, <1>9, <1>10, <1>11, <1>12
  DEF Members!MemberNext

LEMMA NextMembersTyped ==
  ASSUME MembersTyped, UsesStand, Members!MemberNext
  PROVE  MembersTyped'
<1> USE DEF Members!channelDoc, Members!inviteDoc, Members!tallies, Members!verdicts
<1>0. /\ MaxActs \in Nat /\ MaxFaults \in Nat /\ Cardinality(Taken) \in Nat
      /\ RequestsFit' /\ uses' \in Int
  BY TakenFinite, RequestsStay, UsesStay, ChatsAssumption DEF UsesStand
<1>1. ASSUME NEW r \in Members!Acting,
             \/ Members!AcceptLook(r) \/ Members!AddLook(r) \/ Members!LeaveLook(r)
             \/ Members!KickLook(r) \/ Members!BanLook(r) \/ Members!UnbanLook(r)
             \/ Members!MuteLook(r) \/ Members!UnmuteLook(r) \/ Members!DeleteLook(r)
      PROVE  MembersTyped'
  <2>1. \E a \in RequestSet : Members!Looks(r, a.op, a.at, a.who)
    BY <1>1, AnyLook DEF MembersTyped
  <2>2. /\ UNCHANGED <<alive, members, banned, muted, readStates, invite, faults, joins, lost,
                       overtaken, botched, sentenced, lifted, stale>>
        /\ acts < MaxActs /\ acts' = acts + 1
    BY <2>1 DEF Members!Looks
  <2> QED BY <1>0, <2>2 DEF MembersTyped
<1>2. ASSUME NEW r \in Members!Acting,
             \/ Members!TakeUse(r) \/ Members!LookAgain(r) \/ Members!AddFails(r) \/ Members!PullFails(r)
             \/ Members!Mute(r) \/ Members!Unmute(r) \/ Members!WriteFails(r)
             \/ Members!DeleteMessages(r) \/ Members!DeleteInvites(r) \/ Members!Release(r)
      PROVE  MembersTyped'
  <2>1. /\ UNCHANGED <<alive, members, banned, readStates, acts, joins,
                       overtaken, botched, sentenced, lifted, stale>>
        /\ muted' = muted \/ muted' = muted \ {act[r].who} 
             \/ (muted' = muted \cup {act[r].who} /\ act[r].at = "mute")
        /\ invite' = invite \/ invite' = "gone"
        /\ faults' = faults \/ (faults < MaxFaults /\ faults' = faults + 1)
        /\ lost' = lost \/ lost' = lost + 1
    BY <1>2 DEF Members!TakeUse, Members!LookAgain, Members!AddFails, Members!PullFails,
                Members!Mute, Members!Unmute, Members!WriteFails,
                Members!DeleteMessages, Members!DeleteInvites, Members!Release,
                Members!Fault, Members!Is
  <2>2. act[r].at = "mute" => act[r].who \in Person
    BY DEF MembersTyped, RequestsFit, Belongs
  <2>3. /\ invite' \in {"open", "closed", "gone"} /\ muted' \subseteq Person
        /\ faults' \in 0 .. MaxFaults /\ lost' \in Nat
    BY <1>0, <2>1, <2>2 DEF MembersTyped
  <2> QED BY <1>0, <2>1, <2>3 DEF MembersTyped
<1>3. ASSUME NEW r \in Members!Acting,
             Members!Seed(r) \/ Members!Join(r) \/ Members!UndoBan(r) \/ Members!Forget(r) \/ Members!Lift(r)
      PROVE  MembersTyped'
  <2>1. act[r].who \in Person
    <3>1. Belongs(act[r]) /\ act[r].at \in {"seed", "join", "undo", "forget", "lift"}
      BY <1>3 DEF Members!Seed, Members!Join, Members!UndoBan, Members!Forget, Members!Lift, Members!Is,
                  MembersTyped, RequestsFit
    <3> QED BY <3>1 DEF Belongs
  <2> DEFINE p == act[r].who
  <2>2. /\ UNCHANGED <<alive, muted, invite, acts, lost>>
        /\ members' \subseteq members \cup {p} /\ banned' \subseteq banned
        /\ readStates' \subseteq readStates \cup {p}
        /\ overtaken' \subseteq overtaken \cup {p} /\ botched' \subseteq botched \cup {p}
        /\ sentenced' \subseteq sentenced /\ lifted' \subseteq lifted \cup {p}
        /\ stale' \subseteq stale \cup {p}
        /\ faults' = faults \/ (faults < MaxFaults /\ faults' = faults + 1)
        /\ joins' = joins \/ joins' = joins + 1
    <3>1. CASE Members!Seed(r)
      BY <3>1 DEF Members!Seed
    <3>2. CASE Members!Join(r)
      BY <3>2 DEF Members!Join
    <3>3. CASE Members!UndoBan(r)
      BY <3>3 DEF Members!UndoBan, Members!Fault
    <3>4. CASE Members!Forget(r)
      BY <3>4 DEF Members!Forget, Members!Fault
    <3>5. CASE Members!Lift(r)
      BY <3>5 DEF Members!Lift
    <3> QED BY <1>3, <3>1, <3>2, <3>3, <3>4, <3>5
  <2>3. faults' \in 0 .. MaxFaults /\ joins' \in Nat
    BY <1>0, <2>2 DEF MembersTyped
  <2> QED BY <1>0, <2>1, <2>2, <2>3 DEF MembersTyped
<1>4. ASSUME NEW r \in Members!Acting, Members!BanUpsert(r)
      PROVE  MembersTyped'
  <2>1. act[r].who \in Person
    BY <1>4, BanWrites
  <2>2. /\ UNCHANGED <<alive, members, muted, readStates, invite, acts, faults, joins, lost,
                       overtaken, botched, stale>>
        /\ banned' \subseteq banned \cup {act[r].who} /\ sentenced' \subseteq sentenced \cup {act[r].who}
        /\ lifted' \subseteq lifted
    BY <1>4 DEF Members!BanUpsert
  <2> QED BY <1>0, <2>1, <2>2 DEF MembersTyped
<1>5. ASSUME NEW r \in Members!Acting, Members!Pull(r)
      PROVE  MembersTyped'
  BY <1>0, <1>5 DEF Members!Pull, MembersTyped
<1>6. ASSUME NEW r \in Members!Acting, Members!DeleteReadStates(r) \/ Members!DeleteDocument(r)
      PROVE  MembersTyped'
  <2>1. /\ UNCHANGED <<invite, acts, joins, lost>>
        /\ alive' \in {alive, FALSE}
        /\ members' \subseteq members /\ banned' \subseteq banned /\ muted' \subseteq muted
        /\ readStates' \subseteq readStates
        /\ overtaken' \subseteq overtaken /\ botched' \subseteq botched
        /\ sentenced' \subseteq sentenced /\ lifted' \subseteq lifted
        /\ stale' \subseteq stale \cup members \cup Person
        /\ faults' = faults \/ (faults < MaxFaults /\ faults' = faults + 1)
    BY <1>6 DEF Members!DeleteReadStates, Members!DeleteDocument, Members!Fault
  <2>2. faults' \in 0 .. MaxFaults
    BY <1>0, <2>1 DEF MembersTyped
  <2> QED BY <1>0, <2>1, <2>2 DEF MembersTyped
<1>7. CASE Members!InviteEnds \/ Members!BanExpires
  BY <1>0, <1>7 DEF Members!InviteEnds, Members!BanExpires, MembersTyped
<1>8. CASE Members!Stop
  <2>1. /\ lost' = lost + Cardinality(Taken) /\ faults < MaxFaults /\ faults' = faults + 1
        /\ UNCHANGED <<alive, members, banned, muted, readStates, invite, acts, joins,
                       overtaken, sentenced, lifted, stale>>
        /\ botched' \subseteq botched \cup members
    BY <1>8 DEF Members!Stop, Taken, Members!Is, Members!Fault, Members!Cardinality, Cardinality
  <2>2. lost' \in Nat /\ faults' \in 0 .. MaxFaults
    BY <1>0, <2>1 DEF MembersTyped
  <2> QED BY <1>0, <2>1, <2>2 DEF MembersTyped
<1> QED
  BY <1>1, <1>2, <1>3, <1>4, <1>5, <1>6, <1>7, <1>8
  DEF Members!MemberNext

-----------------------------------------------------------------------------
\* Who adds a member that is banned by now, or mutes one that has gone, looked before that.
WhoIsLate ==
    \A r \in Members!Acting :
        /\ act[r].at \in {"seed", "join"} /\ act[r].who \in banned => act[r].late
        /\ act[r].op = "mute" /\ act[r].at \in {"mute", "lift"} /\ ~act[r].late =>
              act[r].who \in members \/ ~alive

LEMMA LateCarries ==
  ASSUME MembersTyped, WhoIsLate, NEW r \in Members!Acting,
         banned' \subseteq banned, members \subseteq members' \/ ~alive', alive' => alive,
         \/ act' = Members!Over(r)
         \/ \E at \in RequestPlace \ {"mute"} :
              /\ act' = Members!To(r, at)
              /\ at \in {"seed", "join"} => act[r].who \notin banned \/ act[r].at = "seed"
              /\ at = "lift" => act[r].at = "mute"
  PROVE  WhoIsLate'
<1>1. act \in [Members!Acting -> RequestSet]
  BY DEF MembersTyped, RequestsFit
<1>2. CASE act' = Members!Over(r)
  BY <1>1, <1>2, IsOver DEF WhoIsLate, Members!Free
<1>3. ASSUME NEW at \in RequestPlace \ {"mute"}, act' = Members!To(r, at),
             at \in {"seed", "join"} => act[r].who \notin banned \/ act[r].at = "seed",
             at = "lift" => act[r].at = "mute"
      PROVE  WhoIsLate'
  BY <1>1, <1>3, GoesOn DEF WhoIsLate
<1> QED BY <1>2, <1>3

LEMMA LateStays ==
  ASSUME MembersTyped, WhoIsLate, Members!MemberNext
  PROVE  WhoIsLate'
<1> USE DEF Members!channelDoc
<1>0. \A at \in {"again", "release", "seed", "join", "forget", "undo", "unmute", "lift",
                 "invites", "states", "channel"} : at \in RequestPlace \ {"mute"}
  BY DEF RequestPlace
<1>1. ASSUME NEW r \in Members!Acting,
             \/ Members!AcceptLook(r) \/ Members!AddLook(r) \/ Members!LeaveLook(r)
             \/ Members!KickLook(r) \/ Members!BanLook(r) \/ Members!UnbanLook(r)
             \/ Members!MuteLook(r) \/ Members!UnmuteLook(r) \/ Members!DeleteLook(r)
      PROVE  WhoIsLate'
  <2>1. PICK a \in RequestSet :
            /\ Belongs(a) /\ Members!Looks(r, a.op, a.at, a.who)
            /\ a.at \in {"seed", "join"} => a.who \notin banned
            /\ a.op = "mute" => a.who \in members
    BY <1>1, AnyLook DEF MembersTyped
  <2>2. UNCHANGED <<alive, members, banned>>
    BY <2>1 DEF Members!Looks
  <2>3. /\ act'[r].op = a.op /\ act'[r].at = a.at /\ act'[r].who = a.who
        /\ \A q \in Members!Acting : q # r => act'[q] = act[q]
    BY <2>1, LookFits DEF MembersTyped
  <2> QED BY <2>1, <2>2, <2>3 DEF WhoIsLate
<1>2. ASSUME NEW r \in Members!Acting,
             \/ Members!TakeUse(r) \/ Members!LookAgain(r) \/ Members!Seed(r) \/ Members!Join(r)
             \/ Members!AddFails(r) \/ Members!Release(r)
      PROVE  WhoIsLate'
  <2>1. /\ banned' = banned /\ members \subseteq members' /\ alive' = alive
        /\ \/ act' = Members!Over(r)
           \/ \E at \in {"again", "release"} : act' = Members!To(r, at)
           \/ act' = Members!To(r, "seed") /\ act[r].who \notin banned
           \/ act' = Members!To(r, "join") /\ act[r].at = "seed"
    BY <1>2 DEF Members!TakeUse, Members!LookAgain, Members!Seed, Members!Join, Members!AddFails,
                Members!Release, Members!Is
  <2> QED BY <1>0, <2>1, LateCarries
<1>3. ASSUME NEW r \in Members!Acting,
             \/ Members!PullFails(r) \/ Members!UndoBan(r) \/ Members!Forget(r) \/ Members!Mute(r)
             \/ Members!Lift(r) \/ Members!Unmute(r) \/ Members!WriteFails(r)
             \/ Members!DeleteMessages(r) \/ Members!DeleteInvites(r) \/ Members!DeleteReadStates(r)
             \/ Members!DeleteDocument(r)
      PROVE  WhoIsLate'
  <2>1. /\ banned' \subseteq banned
        /\ members \subseteq members' \/ ~alive'
        /\ alive' => alive
        /\ \/ act' = Members!Over(r)
           \/ \E at \in {"undo", "forget", "invites", "states", "channel"} : act' = Members!To(r, at)
           \/ act' = Members!To(r, "lift") /\ act[r].at = "mute"
    BY <1>3 DEF Members!PullFails, Members!UndoBan, Members!Forget, Members!Mute, Members!Lift,
                Members!Unmute, Members!WriteFails, Members!DeleteMessages, Members!DeleteInvites,
                Members!DeleteReadStates, Members!DeleteDocument, Members!Is
  <2> QED BY <1>0, <2>1, LateCarries
<1>4. ASSUME NEW r \in Members!Acting, Members!BanUpsert(r)
      PROVE  WhoIsLate'
  <2>1. UNCHANGED <<alive, members>> /\ banned' \subseteq banned \cup {act[r].who}
    BY <1>4 DEF Members!BanUpsert
  <2> QED BY <1>4, <2>1, BanWrites, OthersWait DEF WhoIsLate
<1>5. ASSUME NEW r \in Members!Acting, Members!Pull(r)
      PROVE  WhoIsLate'
  <2>1. UNCHANGED <<alive, banned>> /\ members' = members \ {act[r].who}
    BY <1>5 DEF Members!Pull
  <2> QED BY <1>5, <2>1, Pulls, OthersWait DEF WhoIsLate
<1>6. CASE Members!InviteEnds \/ Members!BanExpires
  BY <1>6 DEF Members!InviteEnds, Members!BanExpires, WhoIsLate
<1>7. CASE Members!Stop
  BY <1>7 DEF Members!Stop, Members!Free, WhoIsLate
<1> QED
  BY <1>1, <1>2, <1>3, <1>4, <1>5, <1>6, <1>7
  DEF Members!MemberNext

-----------------------------------------------------------------------------
\* Of a channel that is gone nobody is to be kept out.
NobodyLeft == ~alive => sentenced = {}

\* Who is about to join has a read state by then, or a late request deleted it.
JoinersRead == \A r \in Members!Acting : act[r].at = "join" => act[r].who \in readStates \cup stale

MemberInv ==
    /\ MembersTyped
    /\ UsesStand
    /\ WhoIsLate
    /\ NobodyLeft
    /\ JoinersRead
    /\ Members!BannedStayOut
    /\ Members!BansStand
    /\ Members!MembersCanRead

\* A request that bans pulls the user out until it is over.
Pulling(a, p) == a.op = "ban" /\ a.who = p /\ a.at \in {"pull", "undo"}

LEMMA OutCarries ==
  ASSUME MembersTyped, Members!BannedStayOut, NEW r \in Members!Acting,
         members' \subseteq members, banned' \subseteq banned,
         overtaken \subseteq overtaken', botched \subseteq botched',
         \/ act' = Members!Over(r) \/ \E at \in RequestPlace : act' = Members!To(r, at)
         \/ \E a \in RequestSet : Belongs(a) /\ Members!Looks(r, a.op, a.at, a.who),
         \A p \in Person : Pulling(act[r], p) => Pulling(act'[r], p)
  PROVE  Members!BannedStayOut'
<1> SUFFICES ASSUME NEW p \in members' \cap banned'
             PROVE  p \in overtaken' \cup botched' \/ \E q \in Members!Acting : Pulling(act'[q], p)
  BY DEF Members!BannedStayOut, Pulling
<1>1. p \in overtaken \cup botched \/ \E q \in Members!Acting : Pulling(act[q], p)
  BY DEF Members!BannedStayOut, Pulling
<1>2. ASSUME NEW q \in Members!Acting, Pulling(act[q], p)
      PROVE  Pulling(act'[q], p)
  <2>1. p \in Person
    BY DEF MembersTyped
  <2>2. CASE q # r
    BY <1>2, <2>2, OthersWait DEF Pulling
  <2> QED BY <1>2, <2>1, <2>2
<1> QED BY <1>1, <1>2

LEMMA BannedOut ==
  ASSUME MemberInv, Members!MemberNext
  PROVE  Members!BannedStayOut'
<1> USE DEF Members!channelDoc, Members!verdicts
<1>0. /\ MembersTyped /\ Members!BannedStayOut /\ WhoIsLate
      /\ act \in [Members!Acting -> RequestSet] /\ RequestsFit
      /\ \A q \in Members!Acting : Belongs(act[q])
      /\ \A at \in {"again", "release", "seed", "join", "forget", "undo", "unmute", "lift",
                   "invites", "states", "channel"} : at \in RequestPlace
  BY DEF MemberInv, MembersTyped, RequestsFit, RequestPlace
<1>1. ASSUME NEW r \in Members!Acting,
             \/ Members!AcceptLook(r) \/ Members!AddLook(r) \/ Members!LeaveLook(r)
             \/ Members!KickLook(r) \/ Members!BanLook(r) \/ Members!UnbanLook(r)
             \/ Members!MuteLook(r) \/ Members!UnmuteLook(r) \/ Members!DeleteLook(r)
      PROVE  Members!BannedStayOut'
  <2>1. PICK a \in RequestSet : Belongs(a) /\ Members!Looks(r, a.op, a.at, a.who)
    BY <1>0, <1>1, AnyLook DEF MembersTyped
  <2>2. UNCHANGED <<members, banned, overtaken, botched>> /\ act[r] = Members!Free
    BY <2>1 DEF Members!Looks
  <2>3. \A p \in Person : ~Pulling(act[r], p)
    BY <2>2 DEF Pulling, Members!Free
  <2> QED BY <1>0, <2>1, <2>2, <2>3, OutCarries
<1>2. ASSUME NEW r \in Members!Acting,
             \/ Members!TakeUse(r) \/ Members!LookAgain(r) \/ Members!Seed(r) \/ Members!AddFails(r)
             \/ Members!Release(r) \/ Members!Forget(r) \/ Members!Mute(r) \/ Members!Lift(r)
             \/ Members!Unmute(r) \/ Members!WriteFails(r) \/ Members!DeleteMessages(r)
             \/ Members!DeleteInvites(r) \/ Members!DeleteReadStates(r)
      PROVE  Members!BannedStayOut'
  <2>1. /\ UNCHANGED <<members, overtaken, botched>> /\ banned' \subseteq banned
        /\ \/ act' = Members!Over(r)
           \/ \E at \in {"again", "release", "seed", "join", "forget", "lift",
                         "invites", "states", "channel"} : act' = Members!To(r, at)
        /\ act[r].at \notin {"pull", "undo"}
    BY <1>2 DEF Members!TakeUse, Members!LookAgain, Members!Seed, Members!AddFails, Members!Release,
                Members!Forget, Members!Mute, Members!Lift, Members!Unmute, Members!WriteFails,
                Members!DeleteMessages, Members!DeleteInvites, Members!DeleteReadStates, Members!Is
  <2>2. \A p \in Person : ~Pulling(act[r], p)
    BY <2>1 DEF Pulling
  <2> QED BY <1>0, <2>1, <2>2, OutCarries
<1>3. ASSUME NEW r \in Members!Acting, Members!Join(r)
      PROVE  Members!BannedStayOut'
  <2> DEFINE p == act[r].who
  <2>1. /\ UNCHANGED <<banned, botched>> /\ act[r].at = "join"
        /\ act' = Members!Over(r) \/ act' = Members!To(r, "release")
    BY <1>3 DEF Members!Join, Members!Is
  <2>2. CASE members' = members /\ overtaken' = overtaken
    <3>1. \A u \in Person : ~Pulling(act[r], u)
      BY <2>1 DEF Pulling
    <3> QED BY <1>0, <2>1, <2>2, <3>1, OutCarries
  <2>3. CASE /\ members' = members \cup {p}
             /\ overtaken' = IF act[r].late /\ p \in banned THEN overtaken \cup {p} ELSE overtaken
    <3>1. \A q \in Members!Acting : q # r =>
            act'[q].op = act[q].op /\ act'[q].at = act[q].at /\ act'[q].who = act[q].who
      BY <1>0, <2>1, OthersWait
    <3>2. p \in banned => p \in overtaken'
      BY <1>0, <2>1, <2>3 DEF WhoIsLate
    <3> QED BY <1>0, <2>1, <2>3, <3>1, <3>2 DEF Members!BannedStayOut
  <2> QED BY <1>3, <2>2, <2>3 DEF Members!Join
<1>4. ASSUME NEW r \in Members!Acting, Members!BanUpsert(r)
      PROVE  Members!BannedStayOut'
  <2>1. /\ UNCHANGED <<members, overtaken, botched>> /\ banned' \subseteq banned \cup {act[r].who}
        /\ act[r].at = "upsert"
    BY <1>4 DEF Members!BanUpsert, Members!Is
  <2>2. \A q \in Members!Acting : q # r =>
            act'[q].op = act[q].op /\ act'[q].at = act[q].at /\ act'[q].who = act[q].who
    BY <1>0, <1>4, OthersWait
  <2>3. act'[r].at = "pull" /\ act'[r].op = "ban" /\ act'[r].who = act[r].who
    BY <1>0, <1>4, BanWrites
  <2> QED BY <1>0, <2>1, <2>2, <2>3 DEF Members!BannedStayOut
<1>5. ASSUME NEW r \in Members!Acting, Members!Pull(r)
      PROVE  Members!BannedStayOut'
  <2>1. /\ members' = members \ {act[r].who} /\ UNCHANGED banned
        /\ overtaken' = overtaken \ {act[r].who} /\ botched' = botched \ {act[r].who}
    BY <1>5 DEF Members!Pull
  <2>2. \A q \in Members!Acting : q # r =>
            act'[q].op = act[q].op /\ act'[q].at = act[q].at /\ act'[q].who = act[q].who
    BY <1>0, <1>5, OthersWait
  <2> QED BY <1>0, <2>1, <2>2 DEF Members!BannedStayOut
<1>6. ASSUME NEW r \in Members!Acting, Members!PullFails(r)
      PROVE  Members!BannedStayOut'
  <2>1. /\ UNCHANGED <<members, banned, overtaken, botched>>
        /\ act' = IF act[r].op = "ban" THEN Members!To(r, "undo") ELSE Members!Over(r)
    BY <1>6 DEF Members!PullFails
  <2>2. \A p \in Person : Pulling(act[r], p) => Pulling(act'[r], p)
    BY <1>0, <2>1, GoesOn DEF Pulling
  <2> QED BY <1>0, <2>1, <2>2, OutCarries
<1>7. ASSUME NEW r \in Members!Acting, Members!UndoBan(r)
      PROVE  Members!BannedStayOut'
  <2> DEFINE p == act[r].who
  <2>1. /\ UNCHANGED <<members, overtaken>> /\ act' = Members!Over(r)
        /\ \/ banned' = banned \ {p} /\ botched' = botched
           \/ banned' = banned /\ botched' = botched \cup ({p} \cap members)
    BY <1>7 DEF Members!UndoBan
  <2>2. \A q \in Members!Acting : q # r =>
            act'[q].op = act[q].op /\ act'[q].at = act[q].at /\ act'[q].who = act[q].who
    BY <1>0, <2>1, OthersWait
  <2> QED BY <1>0, <2>1, <2>2 DEF Members!BannedStayOut
<1>8. ASSUME NEW r \in Members!Acting, Members!DeleteDocument(r)
      PROVE  Members!BannedStayOut'
  BY <1>8 DEF Members!DeleteDocument, Members!BannedStayOut
<1>9. CASE Members!InviteEnds \/ Members!BanExpires
  BY <1>0, <1>9 DEF Members!InviteEnds, Members!BanExpires, Members!BannedStayOut
<1>10. CASE Members!Stop
  <2>1. /\ UNCHANGED <<members, banned, overtaken>>
        /\ botched' = botched \cup
            {p \in members \cap banned : \E r \in Members!Acting :
                act[r].op = "ban" /\ act[r].who = p}
    BY <1>10 DEF Members!Stop
  <2> QED BY <1>0, <2>1 DEF Members!BannedStayOut
<1> QED
  BY <1>1, <1>2, <1>3, <1>4, <1>5, <1>6, <1>7, <1>8, <1>9, <1>10
  DEF Members!MemberNext

LEMMA BansStay ==
  ASSUME MemberInv, Members!MemberNext
  PROVE  Members!BansStand' /\ NobodyLeft'
<1> USE DEF Members!channelDoc, Members!verdicts, Members!BansStand, NobodyLeft
<1>0. /\ MembersTyped /\ Members!BansStand /\ NobodyLeft /\ WhoIsLate
      /\ \A q \in Members!Acting : Belongs(act[q])
  BY DEF MemberInv, MembersTyped, RequestsFit
<1>1. ASSUME NEW r \in Members!Acting,
             \/ Members!AcceptLook(r) \/ Members!AddLook(r) \/ Members!LeaveLook(r)
             \/ Members!KickLook(r) \/ Members!BanLook(r) \/ Members!UnbanLook(r)
             \/ Members!MuteLook(r) \/ Members!UnmuteLook(r) \/ Members!DeleteLook(r)
      PROVE  Members!BansStand' /\ NobodyLeft'
  <2>1. PICK a \in RequestSet : Belongs(a) /\ Members!Looks(r, a.op, a.at, a.who)
    BY <1>0, <1>1, AnyLook DEF MembersTyped
  <2>2. UNCHANGED <<alive, banned, sentenced, lifted>>
    BY <2>1 DEF Members!Looks
  <2> QED BY <1>0, <2>2
<1>2. ASSUME NEW r \in Members!Acting,
             \/ Members!TakeUse(r) \/ Members!LookAgain(r) \/ Members!Seed(r) \/ Members!AddFails(r)
             \/ Members!Join(r) \/ Members!Release(r) \/ Members!Pull(r) \/ Members!PullFails(r)
             \/ Members!Forget(r) \/ Members!Mute(r)
             \/ Members!Unmute(r) \/ Members!WriteFails(r) \/ Members!DeleteMessages(r)
             \/ Members!DeleteInvites(r) \/ Members!DeleteReadStates(r)
      PROVE  Members!BansStand' /\ NobodyLeft'
  <2>1. UNCHANGED <<alive, banned, sentenced, lifted>>
    BY <1>2 DEF Members!TakeUse, Members!LookAgain, Members!Seed, Members!AddFails, Members!Join,
                Members!Release, Members!Pull, Members!PullFails, Members!Forget, Members!Mute,
                Members!Unmute, Members!WriteFails, Members!DeleteMessages,
                Members!DeleteInvites, Members!DeleteReadStates
  <2> QED BY <1>0, <2>1
<1>3. ASSUME NEW r \in Members!Acting, Members!BanUpsert(r)
      PROVE  Members!BansStand' /\ NobodyLeft'
  BY <1>0, <1>3 DEF Members!BanUpsert
<1>4. ASSUME NEW r \in Members!Acting, Members!UndoBan(r)
      PROVE  Members!BansStand' /\ NobodyLeft'
  BY <1>0, <1>4 DEF Members!UndoBan
<1>5. ASSUME NEW r \in Members!Acting, Members!Lift(r)
      PROVE  Members!BansStand' /\ NobodyLeft'
  <2> DEFINE p == act[r].who
  <2>1. /\ alive' = alive /\ banned' = banned \ {p}
        /\ sentenced' = IF act[r].op = "unban" THEN sentenced \ {p} ELSE sentenced
        /\ lifted' = IF (act[r].op = "mute" /\ p \in banned /\ (act[r].late \/ p \in members))
                        \/ act[r].op = "unban"
                     THEN lifted \cup {p} ELSE lifted
        /\ act[r].at = "lift"
    BY <1>5 DEF Members!Lift, Members!Is
  <2>2. act[r].op \in {"unban", "mute"}
    BY <1>0, <2>1 DEF Belongs
  <2>3. act[r].op = "mute" => act[r].late \/ p \in members \/ ~alive
    BY <1>0, <2>1 DEF WhoIsLate
  <2> QED BY <1>0, <2>1, <2>2, <2>3
<1>6. ASSUME NEW r \in Members!Acting, Members!DeleteDocument(r)
      PROVE  Members!BansStand' /\ NobodyLeft'
  BY <1>6 DEF Members!DeleteDocument
<1>7. CASE Members!InviteEnds \/ Members!BanExpires
  BY <1>0, <1>7 DEF Members!InviteEnds, Members!BanExpires
<1>8. CASE Members!Stop
  BY <1>0, <1>8 DEF Members!Stop
<1> QED
  BY <1>1, <1>2, <1>3, <1>4, <1>5, <1>6, <1>7, <1>8
  DEF Members!MemberNext

\* Only the step before makes a request about to join.
LEMMA NobodyNew ==
  ASSUME act \in [Members!Acting -> RequestSet], NEW r \in Members!Acting,
         act' = Members!Over(r) \/ \E at \in RequestPlace \ {"join"} : act' = Members!To(r, at)
  PROVE  \A q \in Members!Acting : act'[q].at = "join" => act'[q] = act[q]
<1>1. CASE act' = Members!Over(r)
  BY <1>1, IsOver DEF Members!Free
<1>2. ASSUME NEW at \in RequestPlace \ {"join"}, act' = Members!To(r, at)
      PROVE  \A q \in Members!Acting : act'[q].at = "join" => act'[q] = act[q]
  <2>1. act'[r].at # "join" /\ \A q \in Members!Acting : q # r => act'[q] = act[q]
    BY <1>2, GoesOn
  <2> QED BY <2>1
<1> QED BY <1>1, <1>2

\* Read states: nobody new is about to join.
LEMMA ReadersCarry ==
  ASSUME MemberInv, NEW r \in Members!Acting,
         members' \subseteq members, readStates \subseteq readStates', stale \subseteq stale',
         \A q \in Members!Acting : act'[q].at = "join" =>
            \E s \in Members!Acting : act[s].at = "join" /\ act[s].who = act'[q].who
  PROVE  JoinersRead' /\ Members!MembersCanRead'
<1>1. /\ \A s \in Members!Acting : act[s].at = "join" => act[s].who \in readStates \cup stale
      /\ members \subseteq readStates \cup stale
  BY DEF MemberInv, JoinersRead, Members!MembersCanRead
<1> QED BY <1>1 DEF JoinersRead, Members!MembersCanRead

LEMMA ReadersStay ==
  ASSUME MemberInv, Members!MemberNext
  PROVE  JoinersRead' /\ Members!MembersCanRead'
<1> USE DEF Members!channelDoc, Members!verdicts, JoinersRead, Members!MembersCanRead
<1>0. /\ MembersTyped /\ JoinersRead /\ Members!MembersCanRead
      /\ act \in [Members!Acting -> RequestSet] /\ RequestsFit
      /\ \A q \in Members!Acting : Belongs(act[q])
      /\ \A at \in {"again", "release", "seed", "join", "forget", "undo", "unmute", "lift",
                   "invites", "states", "channel"} : at \in RequestPlace
  BY DEF MemberInv, MembersTyped, RequestsFit, RequestPlace
<1>1. ASSUME NEW r \in Members!Acting,
             \/ Members!AcceptLook(r) \/ Members!AddLook(r) \/ Members!LeaveLook(r)
             \/ Members!KickLook(r) \/ Members!BanLook(r) \/ Members!UnbanLook(r)
             \/ Members!MuteLook(r) \/ Members!UnmuteLook(r) \/ Members!DeleteLook(r)
      PROVE  JoinersRead' /\ Members!MembersCanRead'
  <2>1. PICK a \in RequestSet :
            Belongs(a) /\ Members!Looks(r, a.op, a.at, a.who) /\ a.at # "join"
    BY <1>0, <1>1, AnyLook DEF MembersTyped
  <2>2. UNCHANGED <<members, readStates, stale>>
    BY <2>1 DEF Members!Looks
  <2>3. act'[r].at = a.at /\ \A q \in Members!Acting : q # r => act'[q] = act[q]
    BY <1>0, <2>1, LookFits
  <2> QED BY <1>0, <2>1, <2>2, <2>3
<1>2. ASSUME NEW r \in Members!Acting, Members!Seed(r)
      PROVE  JoinersRead' /\ Members!MembersCanRead'
  <2>1. /\ readStates' = readStates \cup {act[r].who} /\ stale' = stale \ {act[r].who}
        /\ act' = Members!To(r, "join") /\ UNCHANGED members
    BY <1>2 DEF Members!Seed
  <2> QED BY <1>0, <2>1, GoesOn
<1>3. ASSUME NEW r \in Members!Acting, Members!Join(r)
      PROVE  JoinersRead' /\ Members!MembersCanRead'
  <2>1. /\ members' \subseteq members \cup {act[r].who} /\ UNCHANGED <<readStates, stale>>
        /\ act' = Members!Over(r) \/ act' = Members!To(r, "release")
        /\ act[r].at = "join"
    BY <1>3 DEF Members!Join, Members!Is
  <2>2. \A q \in Members!Acting : act'[q].at = "join" => act'[q] = act[q]
    BY <1>0, <2>1, NobodyNew
  <2> QED BY <1>0, <2>1, <2>2
<1>4. ASSUME NEW r \in Members!Acting,
             \/ Members!TakeUse(r) \/ Members!LookAgain(r) \/ Members!AddFails(r)
             \/ Members!Release(r) \/ Members!PullFails(r) \/ Members!UndoBan(r) \/ Members!Mute(r)
             \/ Members!Lift(r) \/ Members!Unmute(r) \/ Members!WriteFails(r)
             \/ Members!DeleteMessages(r) \/ Members!DeleteInvites(r) \/ Members!DeleteDocument(r)
      PROVE  JoinersRead' /\ Members!MembersCanRead'
  <2>1. /\ members' \subseteq members /\ UNCHANGED <<readStates, stale>>
        /\ \/ act' = Members!Over(r)
           \/ \E at \in {"again", "release", "seed", "forget", "undo", "lift",
                         "invites", "states"} : act' = Members!To(r, at)
    BY <1>4 DEF Members!TakeUse, Members!LookAgain, Members!AddFails, Members!Release,
                Members!PullFails, Members!UndoBan, Members!Mute, Members!Lift, Members!Unmute,
                Members!WriteFails, Members!DeleteMessages,
                Members!DeleteInvites, Members!DeleteDocument
  <2>2. \A q \in Members!Acting : act'[q].at = "join" => act'[q] = act[q]
    BY <1>0, <2>1, NobodyNew
  <2> QED BY <1>0, <2>1, <2>2
<1>5. ASSUME NEW r \in Members!Acting, Members!BanUpsert(r)
      PROVE  JoinersRead' /\ Members!MembersCanRead'
  <2>1. UNCHANGED <<members, readStates, stale>>
    BY <1>5 DEF Members!BanUpsert
  <2>2. \A q \in Members!Acting : act'[q].at = "join" => act[q].at = "join" /\ act[q].who = act'[q].who
    BY <1>0, <1>5, BanWrites, OthersWait
  <2> QED BY <1>0, <2>1, <2>2
<1>6. ASSUME NEW r \in Members!Acting, Members!Pull(r)
      PROVE  JoinersRead' /\ Members!MembersCanRead'
  <2>1. members' \subseteq members /\ UNCHANGED <<readStates, stale>>
    BY <1>6 DEF Members!Pull
  <2>2. \A q \in Members!Acting : act'[q].at = "join" => act[q].at = "join" /\ act[q].who = act'[q].who
    BY <1>0, <1>6, Pulls, OthersWait
  <2> QED BY <1>0, <2>1, <2>2
<1>7. ASSUME NEW r \in Members!Acting, Members!Forget(r)
      PROVE  JoinersRead' /\ Members!MembersCanRead'
  <2> DEFINE p == act[r].who
             back == p \in members \/ \E q \in Members!Acting : act[q].who = p /\ act[q].at = "join"
  <2>1. /\ UNCHANGED members /\ act' = Members!Over(r)
        /\ \/ readStates' = readStates \ {p} /\ stale' = IF back THEN stale \cup {p} ELSE stale
           \/ UNCHANGED <<readStates, stale>>
    BY <1>7 DEF Members!Forget, Members!Is
  <2>2. \A q \in Members!Acting : act'[q].at = "join" => act'[q] = act[q]
    BY <1>0, <2>1, NobodyNew
  <2>3. /\ ~back => p \notin members
        /\ ~back => \A q \in Members!Acting : act[q].at = "join" => act[q].who # p
    OBVIOUS
  <2> HIDE DEF back
  <2>4. CASE UNCHANGED <<readStates, stale>>
    BY <1>0, <2>1, <2>2, <2>4
  <2>5. CASE readStates' = readStates \ {p} /\ back /\ stale' = stale \cup {p}
    BY <1>0, <2>1, <2>2, <2>5
  <2>6. CASE readStates' = readStates \ {p} /\ ~back /\ stale' = stale
    BY <1>0, <2>1, <2>2, <2>3, <2>6
  <2> QED BY <2>1, <2>4, <2>5, <2>6
<1>8. ASSUME NEW r \in Members!Acting, Members!DeleteReadStates(r)
      PROVE  JoinersRead' /\ Members!MembersCanRead'
  <2>1. /\ UNCHANGED members /\ act' = Members!To(r, "channel")
        /\ \/ stale' = stale \cup members \cup
                {p \in Person : \E q \in Members!Acting : act[q].who = p /\ act[q].at = "join"}
           \/ UNCHANGED <<readStates, stale>>
    BY <1>8 DEF Members!DeleteReadStates, Members!Is
  <2>2. \A q \in Members!Acting : act'[q].at = "join" => act'[q] = act[q] /\ act[q].who \in Person
    BY <1>0, <2>1, NobodyNew DEF Belongs
  <2> QED BY <1>0, <2>1, <2>2
<1>9. CASE Members!InviteEnds \/ Members!BanExpires
  BY <1>0, <1>9 DEF Members!InviteEnds, Members!BanExpires
<1>10. CASE Members!Stop
  BY <1>0, <1>10 DEF Members!Stop, Members!Free
<1> QED
  BY <1>1, <1>2, <1>3, <1>4, <1>5, <1>6, <1>7, <1>8, <1>9, <1>10
  DEF Members!MemberNext

-----------------------------------------------------------------------------
LEMMA InitMembers == Members!MemberInit => MemberInv
<1> SUFFICES ASSUME Members!MemberInit PROVE MemberInv
  OBVIOUS
<1>1. Taken = {}
  BY DEF Members!MemberInit, Members!Free, Taken
<1>2. Cardinality(Taken) = 0
  BY <1>1, FS_EmptySet
<1>3. UsesStand
  BY <1>2, ChatsAssumption DEF Members!MemberInit, UsesStand
<1>4. WhoIsLate /\ NobodyLeft /\ JoinersRead /\ Members!BannedStayOut /\ Members!BansStand
      /\ Members!MembersCanRead
  BY DEF Members!MemberInit, Members!Free, WhoIsLate, NobodyLeft, JoinersRead,
         Members!BannedStayOut, Members!BansStand, Members!MembersCanRead
<1> QED BY <1>3, <1>4, InitMembersTyped DEF MemberInv

LEMMA NextMembers ==
  ASSUME MemberInv, [Members!MemberNext]_(Members!memberVars)
  PROVE  MemberInv'
<1>1. CASE Members!MemberNext
  <2>1. MembersTyped /\ UsesStand /\ WhoIsLate
    BY DEF MemberInv
  <2> QED
    BY <1>1, <2>1, NextMembersTyped, UsesStay, LateStays, BannedOut, BansStay, ReadersStay
    DEF MemberInv
<1>2. CASE UNCHANGED Members!memberVars
  <2> USE <1>2 DEF Members!memberVars, Members!channelDoc, Members!inviteDoc, Members!tallies,
                   Members!verdicts
  <2>1. MembersTyped' /\ UsesStand'
    BY DEF MemberInv, MembersTyped, RequestsFit, UsesStand, Taken, Members!Is
  <2>2. WhoIsLate' /\ NobodyLeft' /\ JoinersRead'
    BY DEF MemberInv, WhoIsLate, NobodyLeft, JoinersRead
  <2>3. Members!BannedStayOut' /\ Members!BansStand' /\ Members!MembersCanRead'
    BY DEF MemberInv, Members!BannedStayOut, Members!BansStand, Members!MembersCanRead
  <2> QED BY <2>1, <2>2, <2>3 DEF MemberInv
<1> QED BY <1>1, <1>2

LEMMA MemberTypes == MemberInv => Members!MemberTypeOK
  BY DEF MemberInv, MembersTyped, UsesStand, RequestsFit, RequestSet, RequestPlace,
         Members!MemberTypeOK

LEMMA MembersAccounted == MemberInv => Members!UsesAccounted
<1>1. \A S : Members!Cardinality(S) = Cardinality(S)
  BY DEF Members!Cardinality, Cardinality
<1>2. Taken = {r \in Members!Acting : act[r].op = "accept" /\ ~Members!Is(r, "use")}
  BY DEF Taken
<1> HIDE DEF Taken
<1> QED BY <1>1, <1>2, ChatsAssumption DEF MemberInv, UsesStand, Members!UsesAccounted

-----------------------------------------------------------------------------
(****************************************************************************)
(* ChannelUnread: where its tasks can be.                                    *)
(****************************************************************************)
JobPlace == {"done", "insert", "look", "bump", "check", "mark", "state",
             "count", "set", "read", "recount", "announce", "invalidate"}
JobSet == [op : {"none", "send", "replay", "mark", "again", "heal", "delete"}, at : JobPlace,
           m : 0 .. MaxPosts, n : 0 .. MaxPosts, prev : 0 .. MaxPosts, fresh : BOOLEAN,
           round : 0 .. MaxRounds, more : 0 .. 3]

\* The messages have the numbers up to that of the last one, and lastReadAt covers none
\* that is still to come.
Filled(k) ==
    /\ k \in 0 .. MaxPosts
    /\ lastRead <= k
    /\ \A i \in Channel!Post : post[i] # "none" <=> i <= k

\* A message is inserted by the one task that has its timestamp.
JobsFit ==
    /\ job \in [Handler -> JobSet]
    /\ \A w \in Handler :
        /\ job[w].at \in {"insert", "look", "bump", "check"} => job[w].m \in Channel!Post
        /\ job[w].at = "insert" => post[job[w].m] = "stamped"
        /\ job[w].at = "mark" => job[w].op = "mark"
        /\ \A x \in Handler \ {w} :
            job[w].at = "insert" /\ job[x].at = "insert" => job[x].m # job[w].m

UnreadTyped ==
    /\ JobsFit
    /\ post \in [Channel!Post -> {"none", "stamped", "live", "gone"}]
    /\ lastRead \in Nat
    /\ \E k \in 0 .. MaxPosts : Filled(k)
    /\ unreadCount \in Nat
    /\ asked \in 0 .. MaxAsked /\ mishaps \in 0 .. MaxMishaps
    /\ lapsed \in BOOLEAN

LEMMA PostsFinite ==
  /\ MaxPosts \in Nat /\ IsFiniteSet(Channel!Post)
  /\ \A S \in SUBSET Channel!Post : Channel!Cardinality(S) \in 0 .. MaxPosts
<1>1. MaxPosts \in Nat /\ 1 \in Int
  BY ChatsAssumption
<1>2. IsFiniteSet(Channel!Post) /\ Cardinality(Channel!Post) = MaxPosts
  BY <1>1, FS_Interval DEF Channel!Post
<1>3. ASSUME NEW S \in SUBSET Channel!Post
      PROVE  Channel!Cardinality(S) \in 0 .. MaxPosts
  <2>1. Cardinality(S) \in Nat /\ Cardinality(S) <= Cardinality(Channel!Post)
    BY <1>2, FS_Subset, FS_CardinalityType
  <2> QED BY <1>1, <1>2, <2>1 DEF Channel!Cardinality, Cardinality
<1> QED BY <1>1, <1>2, <1>3

\* The number of messages that have a timestamp is that of the last one.
LEMMA LastStamped ==
  ASSUME NEW k, Filled(k)
  PROVE  Channel!Stamped = k
<1>1. {i \in Channel!Post : post[i] # "none"} = 1 .. k
  BY PostsFinite DEF Filled, Channel!Post
<1>2. Cardinality(1 .. k) = k
  <2>1. k \in Nat /\ 1 \in Int
    BY PostsFinite DEF Filled
  <2> QED BY <2>1, FS_Interval
<1> QED BY <1>1, <1>2 DEF Channel!Stamped, Channel!Cardinality, Cardinality

LEMMA UnreadNumber == Channel!Unread \in 0 .. MaxPosts
  BY PostsFinite DEF Channel!Unread

\* How the number of unread messages changes with one of them.
LEMMA OnePost ==
  ASSUME NEW m \in Channel!Post, UNCHANGED lastRead,
         \A i \in Channel!Post : i # m => post'[i] = post[i]
  PROVE  /\ (post[m] = "live" /\ m > lastRead <=> post'[m] = "live" /\ m > lastRead) =>
              Channel!Unread' = Channel!Unread
         /\ post[m] # "live" /\ post'[m] = "live" /\ m > lastRead =>
              Channel!Unread' = Channel!Unread + 1
         /\ post[m] = "live" /\ post'[m] # "live" /\ m > lastRead =>
              Channel!Unread = Channel!Unread' + 1
<1> DEFINE S == {i \in Channel!Post : post[i] = "live" /\ i > lastRead}
           T == {i \in Channel!Post : post'[i] = "live" /\ i > lastRead}
<1>1. S \in SUBSET Channel!Post /\ T \in SUBSET Channel!Post /\ S \ {m} = T \ {m}
  OBVIOUS
<1>2. Channel!Unread = Cardinality(S) /\ Channel!Unread' = Cardinality(T)
  BY DEF Channel!Unread, Channel!Cardinality, Cardinality
<1>3. /\ m \in S <=> post[m] = "live" /\ m > lastRead
      /\ m \in T <=> post'[m] = "live" /\ m > lastRead
  OBVIOUS
<1> HIDE DEF S, T
<1> QED BY <1>1, <1>2, <1>3, PostsFinite, OneMoves

-----------------------------------------------------------------------------
\* The jobs a task goes on with.
LEMMA DoneJob ==
  /\ Channel!Done \in JobSet /\ Channel!Done.at = "done" /\ Channel!Done.m = 0
  BY PostsFinite, ChatsAssumption DEF Channel!Done, JobSet, JobPlace

LEMMA JobGoesOn ==
  ASSUME JobsFit, NEW w \in Handler, NEW at \in JobPlace
  PROVE  /\ [job[w] EXCEPT !.at = at] \in JobSet
         /\ [job[w] EXCEPT !.at = at].at = at
         /\ [job[w] EXCEPT !.at = at].op = job[w].op /\ [job[w] EXCEPT !.at = at].m = job[w].m
         /\ [job[w] EXCEPT !.at = at].n = job[w].n /\ [job[w] EXCEPT !.at = at].fresh = job[w].fresh
         /\ [job[w] EXCEPT !.at = at].round = job[w].round
<1>1. job[w] \in JobSet
  BY DEF JobsFit
<1> QED BY <1>1 DEF JobSet

LEMMA JobCounts ==
  ASSUME JobsFit, NEW w \in Handler, NEW at \in JobPlace, NEW n \in 0 .. MaxPosts
  PROVE  /\ [job[w] EXCEPT !.at = at, !.n = n] \in JobSet
         /\ [job[w] EXCEPT !.at = at, !.n = n].at = at
         /\ [job[w] EXCEPT !.at = at, !.n = n].op = job[w].op
         /\ [job[w] EXCEPT !.at = at, !.n = n].round = job[w].round
<1>1. job[w] \in JobSet
  BY DEF JobsFit
<1> QED BY <1>1 DEF JobSet

LEMMA JobTries ==
  ASSUME NEW s \in JobSet, NEW more \in 0 .. 3, NEW op \in {"again", "heal"}
  PROVE  /\ [s EXCEPT !.more = more] \in JobSet /\ [s EXCEPT !.more = more].at = s.at
         /\ [s EXCEPT !.more = more].op = s.op
         /\ [s EXCEPT !.op = op, !.more = more] \in JobSet
         /\ [s EXCEPT !.op = op, !.more = more].at = s.at
  BY DEF JobSet

LEMMA JobSyncs ==
  ASSUME JobsFit, NEW w \in Handler
  PROVE  /\ Channel!SyncFrom(w) \in JobSet
         /\ Channel!SyncFrom(w).at = "count" /\ Channel!SyncFrom(w).op = job[w].op
         /\ \A more \in 0 .. 3 :
              /\ [Channel!SyncFrom(w) EXCEPT !.more = more] \in JobSet
              /\ [Channel!SyncFrom(w) EXCEPT !.more = more].at = "count"
              /\ [Channel!SyncFrom(w) EXCEPT !.more = more].op = job[w].op
         /\ [Channel!SyncFrom(w) EXCEPT !.op = "heal", !.more = 2] \in JobSet
         /\ [Channel!SyncFrom(w) EXCEPT !.op = "heal", !.more = 2].at = "count"
<1>1. job[w] \in JobSet /\ 0 \in 0 .. MaxRounds /\ "count" \in JobPlace
  BY ChatsAssumption DEF JobsFit, JobPlace
<1>2. /\ Channel!SyncFrom(w) \in JobSet
      /\ Channel!SyncFrom(w).at = "count" /\ Channel!SyncFrom(w).op = job[w].op
  BY <1>1 DEF JobSet, Channel!SyncFrom
<1>3. 2 \in 0 .. 3 /\ "heal" \in {"again", "heal"}
  OBVIOUS
<1> QED BY <1>2, <1>3, JobTries

LEMMA JobFails ==
  ASSUME JobsFit, NEW w \in Handler
  PROVE  /\ Channel!NoNumber(w) \in JobSet
         /\ Channel!NoNumber(w).at \in {"invalidate", "count", "done"}
<1>1. job[w] \in JobSet /\ "invalidate" \in JobPlace
  BY DEF JobsFit, JobPlace
<1>2. CASE job[w].op = "mark"
  BY <1>1, <1>2, JobGoesOn, PostsFinite DEF Channel!NoNumber
<1>3. CASE job[w].op # "mark" /\ job[w].op # "again" /\ job[w].more > 0
  <2>1. job[w].more - 1 \in 0 .. 3
    BY <1>1, <1>3 DEF JobSet
  <2>2. Channel!SyncFrom(w).more = job[w].more
    BY <1>1 DEF Channel!SyncFrom, JobSet
  <2>3. Channel!NoNumber(w) = [Channel!SyncFrom(w) EXCEPT !.more = job[w].more - 1]
    BY <1>3, <2>2 DEF Channel!NoNumber
  <2> QED BY <2>1, <2>3, JobSyncs
<1>4. CASE job[w].op # "mark" /\ ~(job[w].op # "again" /\ job[w].more > 0)
  BY <1>4, DoneJob DEF Channel!NoNumber
<1> QED BY <1>2, <1>3, <1>4

LEMMA JobFollows ==
  ASSUME JobsFit, NEW w \in Handler
  PROVE  /\ Channel!Following(w) \in JobSet
         /\ Channel!Following(w).at \in {"count", "done"}
<1> DEFINE s == [Channel!SyncFrom(w) EXCEPT !.prev = job[w].n]
<1>1. job[w] \in JobSet
  BY DEF JobsFit
<1>2. s \in JobSet /\ s.at = "count" /\ s.more = job[w].more
  <2>1. job[w].n \in 0 .. MaxPosts /\ Channel!SyncFrom(w).more = job[w].more
    BY <1>1 DEF JobSet, Channel!SyncFrom
  <2> QED BY <2>1, JobSyncs DEF JobSet
<1>3. Channel!Following(w) \in {[s EXCEPT !.op = "again", !.more = 2], Channel!Done}
      \/ (job[w].more > 0 /\ Channel!Following(w) = [s EXCEPT !.more = @ - 1])
  BY DEF Channel!Following
<1>4. [s EXCEPT !.op = "again", !.more = 2] \in JobSet /\ [s EXCEPT !.op = "again", !.more = 2].at = "count"
  <2>1. 2 \in 0 .. 3 /\ "again" \in {"again", "heal"}
    OBVIOUS
  <2> HIDE DEF s
  <2> QED BY <1>2, <2>1, JobTries
<1>5. ASSUME job[w].more > 0
      PROVE  [s EXCEPT !.more = @ - 1] \in JobSet /\ [s EXCEPT !.more = @ - 1].at = "count"
  <2>1. s.more - 1 \in 0 .. 3
    BY <1>1, <1>2, <1>5 DEF JobSet
  <2> HIDE DEF s
  <2> QED BY <1>2, <2>1 DEF JobSet
<1> HIDE DEF s
<1> QED BY <1>3, <1>4, <1>5, DoneJob

\* One more round of a sync, or none.
LEMMA JobUnsettled ==
  ASSUME JobsFit, NEW w \in Handler, NEW what \in JobSet, what.round = job[w].round,
         Channel!Unsettled(w, what)
  PROVE  \/ /\ job[w].round < MaxRounds
            /\ [what EXCEPT !.round = @ + 1] \in JobSet
            /\ [what EXCEPT !.round = @ + 1].at = what.at /\ [what EXCEPT !.round = @ + 1].op = what.op
            /\ job' = [job EXCEPT ![w] = [what EXCEPT !.round = @ + 1]] /\ UNCHANGED lapsed
         \/ job' = [job EXCEPT ![w] = Channel!NoNumber(w)] /\ lapsed' = TRUE
<1>1. CASE job[w].round < MaxRounds
  <2>1. what.round + 1 \in 0 .. MaxRounds
    BY <1>1, ChatsAssumption DEF JobSet
  <2>2. /\ [what EXCEPT !.round = @ + 1] \in JobSet
        /\ [what EXCEPT !.round = @ + 1].at = what.at /\ [what EXCEPT !.round = @ + 1].op = what.op
    BY <2>1 DEF JobSet
  <2> QED BY <1>1, <2>2 DEF Channel!Unsettled, Channel!Put
<1>2. CASE ~(job[w].round < MaxRounds)
  BY <1>2 DEF Channel!Unsettled, Channel!Put
<1> QED BY <1>1, <1>2

\* The jobs fit as long as the one that changes does, and those that are to insert a
\* message still find it stamped.
LEMMA JobsStayFit ==
  ASSUME JobsFit, NEW w \in Handler, NEW what \in JobSet,
         job' = [job EXCEPT ![w] = what],
         what.at \in {"insert", "look", "bump", "check"} => what.m \in Channel!Post,
         what.at = "insert" => post'[what.m] = "stamped",
         what.at = "mark" => what.op = "mark",
         \A x \in Handler \ {w} : job[x].at = "insert" =>
            /\ post'[job[x].m] = "stamped"
            /\ what.at = "insert" => job[x].m # what.m
  PROVE  JobsFit' /\ job'[w] = what /\ \A x \in Handler \ {w} : job'[x] = job[x]
<1>1. job'[w] = what /\ \A x \in Handler \ {w} : job'[x] = job[x]
  BY DEF JobsFit
<1>2. job' \in [Handler -> JobSet]
  BY DEF JobsFit
<1> QED BY <1>1, <1>2 DEF JobsFit

LEMMA JobsMoveFit ==
  ASSUME JobsFit, UNCHANGED post, NEW w \in Handler, NEW what \in JobSet,
         Channel!Move(w, what), what.at \in {"count", "done"}
  PROVE  /\ JobsFit' /\ job'[w] = what
         /\ \A x \in Handler \ {w} :
             /\ job'[x].op = job[x].op /\ job'[x].at = job[x].at /\ job'[x].m = job[x].m
             /\ job'[x].n = job[x].n /\ ~job'[x].fresh
<1>1. \A x \in Handler \ {w} :
        /\ job'[x] \in JobSet
        /\ job'[x].op = job[x].op /\ job'[x].at = job[x].at /\ job'[x].m = job[x].m
        /\ job'[x].n = job[x].n /\ ~job'[x].fresh
  <2> SUFFICES ASSUME NEW x \in Handler \ {w}
               PROVE  /\ job'[x] \in JobSet
                      /\ job'[x].op = job[x].op /\ job'[x].at = job[x].at /\ job'[x].m = job[x].m
                      /\ job'[x].n = job[x].n /\ ~job'[x].fresh
    OBVIOUS
  <2>1. job[x] \in JobSet /\ job'[x] = [job[x] EXCEPT !.fresh = FALSE]
    BY DEF JobsFit, Channel!Move
  <2> QED BY <2>1 DEF JobSet
<1>2. job'[w] = what
  BY DEF Channel!Move
<1>3. job' \in [Handler -> JobSet]
  BY <1>1, <1>2 DEF Channel!Move
<1> QED BY <1>1, <1>2, <1>3 DEF JobsFit

-----------------------------------------------------------------------------
\* A message that a mark has covered before it was inserted: the sync of the mark is
\* still under way, and its announcement will make the task of the message look again.
Marking(j) == j.op = "mark" /\ j.at \in {"count", "set", "read", "recount", "announce"}

CoveredEarly ==
    \A w \in Handler : job[w].at = "insert" /\ job[w].fresh /\ job[w].m <= lastRead =>
        lapsed \/ \E x \in Handler : Marking(job[x])

\* A task that will write the number again, has just written it, or finds that the
\* generation moved.
Renews(j) ==
    \/ j.at \in {"count", "set", "read"}
    \/ j.at = "recount" /\ j.n = unreadCount
    \/ j.at = "state" /\ j.m > lastRead
    \/ ~j.fresh /\ j.at \in {"look", "bump", "check"}

\* A task that found its number right, and one whose increment is still to come.
Sealing == \E w \in Handler : job[w].at \in {"recount", "announce"}
Adding == {w \in Handler : job[w].at \in {"look", "bump"}}

\* Unless a task will write it, the number is right but for the increments to come, of
\* which a sync that is about to announce may have counted the messages already.
NumberHolds ==
    \/ lapsed
    \/ \E w \in Handler : Renews(job[w])
    \/ IF Sealing THEN Adding # {} \/ unreadCount = Channel!Unread
       ELSE unreadCount + Cardinality(Adding) = Channel!Unread

LEMMA AddingMoves ==
  ASSUME NEW w \in Handler, \A x \in Handler \ {w} : job'[x].at = job[x].at
  PROVE  /\ Cardinality(Adding) \in Nat /\ Cardinality(Adding') \in Nat
         /\ (w \in Adding <=> w \in Adding') => Cardinality(Adding') = Cardinality(Adding)
         /\ w \in Adding' /\ w \notin Adding => Cardinality(Adding') = Cardinality(Adding) + 1
         /\ w \in Adding /\ w \notin Adding' => Cardinality(Adding) = Cardinality(Adding') + 1
<1>1. Adding \in SUBSET Handler /\ Adding' \in SUBSET Handler /\ Adding \ {w} = Adding' \ {w}
  BY DEF Adding
<1> QED BY <1>1, ChatsAssumption, OneMoves

\* A task that goes on without a part in it.
LEMMA NumberCarries ==
  ASSUME NumberHolds, NEW w \in Handler, \A x \in Handler \ {w} : job'[x] = job[x],
         UNCHANGED <<unreadCount, lastRead, lapsed>>, Channel!Unread' = Channel!Unread,
         ~Renews(job[w]), job[w].at \in {"look", "bump"} <=> job'[w].at \in {"look", "bump"},
         job[w].at \notin {"recount", "announce"}, job'[w].at \notin {"recount", "announce"}
  PROVE  NumberHolds'
<1>1. Cardinality(Adding') = Cardinality(Adding) /\ (Adding # {} => Adding' # {})
  BY AddingMoves DEF Adding
<1>2. Sealing' <=> Sealing
  BY DEF Sealing
<1>3. \A x \in Handler : Renews(job[x]) => Renews(job[x])'
  BY DEF Renews
<1> QED BY <1>1, <1>2, <1>3 DEF NumberHolds

LEMMA NumberWritten ==
  ASSUME NEW w \in Handler,
         \/ job'[w].at \in {"count", "set", "read"} \/ lapsed'
         \/ job'[w].at = "recount" /\ job'[w].n = unreadCount'
  PROVE  NumberHolds'
  BY DEF NumberHolds, Renews

LEMMA CoverCarries ==
  ASSUME CoveredEarly, NEW w \in Handler, \A x \in Handler \ {w} : job'[x] = job[x],
         UNCHANGED lastRead, lapsed => lapsed',
         job'[w].at = "insert" => job'[w].m > lastRead \/ job[w] = job'[w],
         lastRead \in Nat, job'[w].m \in Int,
         Marking(job[w]) => lapsed' \/ Marking(job'[w])
  PROVE  CoveredEarly'
<1>1. (\E x \in Handler : Marking(job[x])) => lapsed' \/ \E x \in Handler : Marking(job'[x])
  OBVIOUS
<1> QED BY <1>1 DEF CoveredEarly

\* The number is looked after, whatever the tasks do.
UnreadInv == UnreadTyped /\ CoveredEarly /\ NumberHolds

LEMMA FilledStays ==
  ASSUME \E k \in 0 .. MaxPosts : Filled(k), UNCHANGED lastRead,
         \A i \in Channel!Post : post'[i] = "none" <=> post[i] = "none"
  PROVE  \E k \in 0 .. MaxPosts : Filled(k)'
  BY DEF Filled

-----------------------------------------------------------------------------
\* The steps, each with what it does to all three.
LEMMA SendHolds ==
  ASSUME UnreadInv, NEW w \in Handler, Channel!Send(w)
  PROVE  UnreadInv'
<1>1. PICK k \in 0 .. MaxPosts : Filled(k)
  BY DEF UnreadInv, UnreadTyped
<1> DEFINE m == k + 1
           what == [Channel!Done EXCEPT !.op = "send", !.at = "insert", !.m = m, !.fresh = TRUE]
<1>0. Channel!Stamped = k /\ k \in Nat /\ MaxPosts \in Nat
  BY <1>1, LastStamped, PostsFinite
<1>2. /\ job[w] = Channel!Done
      /\ job' = [job EXCEPT ![w] = what]
      /\ post' = [post EXCEPT ![m] = "stamped"]
      /\ UNCHANGED <<lastRead, unreadCount, asked, mishaps, lapsed>>
  <2> HIDE DEF Channel!Done
  <2> QED BY <1>0 DEF Channel!Send, Channel!Start, Channel!Put
<1>21. k < MaxPosts /\ m \in Channel!Post
  BY <1>0 DEF Channel!Send, Channel!Post
<1>3. what \in JobSet /\ what.at = "insert" /\ what.m = m /\ what.op = "send"
  <2>1. m \in 0 .. MaxPosts /\ "insert" \in JobPlace
    BY <1>0, <1>21 DEF Channel!Post, JobPlace
  <2> HIDE DEF m
  <2> QED BY <2>1, DoneJob DEF JobSet
<1> HIDE DEF what, m
<1>4. JobsFit /\ post \in [Channel!Post -> {"none", "stamped", "live", "gone"}] /\ post[m] = "none"
  BY <1>0, <1>1, <1>21 DEF UnreadInv, UnreadTyped, Filled, Channel!Post, m
<1>5. \A x \in Handler \ {w} : job[x].at = "insert" =>
        post'[job[x].m] = "stamped" /\ job[x].m # m
  BY <1>2, <1>4 DEF JobsFit
<1>6. JobsFit' /\ job'[w] = what /\ \A x \in Handler \ {w} : job'[x] = job[x]
  <2>1. post'[m] = "stamped"
    BY <1>2, <1>21, <1>4
  <2>2. /\ JobsFit /\ job' = [job EXCEPT ![w] = what] /\ what \in JobSet
        /\ what.at \in {"insert", "look", "bump", "check"} => what.m \in Channel!Post
        /\ what.at = "insert" => post'[what.m] = "stamped"
        /\ what.at = "mark" => what.op = "mark"
        /\ \A x \in Handler \ {w} : job[x].at = "insert" =>
            post'[job[x].m] = "stamped" /\ (what.at = "insert" => job[x].m # what.m)
    BY <1>2, <1>21, <1>3, <1>4, <1>5, <2>1
  <2> QED BY <2>2, JobsStayFit
<1>7. UnreadTyped'
  <2>1. Filled(m)' /\ m \in 0 .. MaxPosts
    <3>1. lastRead <= k /\ \A i \in Channel!Post : post[i] # "none" <=> i <= k
      BY <1>1 DEF Filled
    <3>2. \A i \in Channel!Post : post'[i] # "none" <=> i = m \/ post[i] # "none"
      BY <1>2, <1>4
    <3>3. \A i \in Channel!Post : i <= m <=> i = m \/ i <= k
      BY <1>0 DEF m, Channel!Post
    <3>4. m \in 0 .. MaxPosts /\ lastRead' <= m
      BY <1>0, <1>2, <1>21, <3>1 DEF m, UnreadInv, UnreadTyped, Channel!Post
    <3> QED BY <3>1, <3>2, <3>3, <3>4 DEF Filled
  <2>2. post' \in [Channel!Post -> {"none", "stamped", "live", "gone"}]
    BY <1>2, <1>4
  <2> QED BY <1>2, <1>6, <2>1, <2>2 DEF UnreadInv, UnreadTyped
<1>8. lastRead < m /\ lastRead \in Nat /\ m \in Int /\ job[w].at = "done"
  BY <1>0, <1>1, <1>2 DEF Filled, UnreadInv, UnreadTyped, Channel!Done, m
<1>9. CoveredEarly'
  BY <1>2, <1>3, <1>6, <1>8, CoverCarries DEF UnreadInv, Marking
<1>10. Channel!Unread' = Channel!Unread
  BY <1>2, <1>21, <1>4, OnePost
<1>11. NumberHolds'
  BY <1>2, <1>3, <1>6, <1>8, <1>10, NumberCarries DEF UnreadInv, Renews
<1> QED BY <1>7, <1>9, <1>11 DEF UnreadInv

LEMMA InsertHolds ==
  ASSUME UnreadInv, NEW w \in Handler, Channel!Insert(w)
  PROVE  UnreadInv'
<1> DEFINE m == job[w].m
           what == [job[w] EXCEPT !.at = "look"]
<1>1. /\ JobsFit /\ job[w].at = "insert" /\ m \in Channel!Post /\ post[m] = "stamped"
      /\ post \in [Channel!Post -> {"none", "stamped", "live", "gone"}]
      /\ UNCHANGED <<lastRead, unreadCount, asked, lapsed>> /\ lastRead \in Nat /\ unreadCount \in Nat
      /\ \A x \in Handler \ {w} : job[x].at = "insert" => job[x].m # m
  BY DEF Channel!Insert, Channel!At, UnreadInv, UnreadTyped, JobsFit
<1>2. \/ /\ post' = [post EXCEPT ![m] = "live"]
         /\ job' = [job EXCEPT ![w] = what] /\ UNCHANGED mishaps
      \/ /\ post' = [post EXCEPT ![m] = "gone"]
         /\ job' = [job EXCEPT ![w] = Channel!Done]
         /\ mishaps < MaxMishaps /\ mishaps' = mishaps + 1
  BY DEF Channel!Insert, Channel!GoTo, Channel!Put, Channel!Mishap
<1>3. /\ what \in JobSet /\ what.at = "look" /\ what.m = m /\ what.fresh = job[w].fresh
  BY <1>1, JobGoesOn DEF JobPlace
<1> HIDE DEF what
<1>4. \A x \in Handler \ {w} : job[x].at = "insert" => post'[job[x].m] = "stamped"
  BY <1>1, <1>2 DEF JobsFit
<1>5. /\ JobsFit' /\ \A x \in Handler \ {w} : job'[x] = job[x]
      /\ post' = [post EXCEPT ![m] = "live"] => job'[w] = what
      /\ post' # [post EXCEPT ![m] = "live"] => job'[w] = Channel!Done
      /\ job'[w].at \in {"look", "done"} /\ job'[w].m \in Int
  <2>1. CASE post' = [post EXCEPT ![m] = "live"] /\ job' = [job EXCEPT ![w] = what]
    <3>1. JobsFit' /\ job'[w] = what /\ \A x \in Handler \ {w} : job'[x] = job[x]
      BY <1>1, <1>3, <1>4, <2>1, JobsStayFit
    <3> QED BY <1>1, <1>3, <2>1, <3>1 DEF Channel!Post
  <2>2. CASE post' = [post EXCEPT ![m] = "gone"] /\ job' = [job EXCEPT ![w] = Channel!Done]
    <3> HIDE DEF Channel!Done
    <3>1. JobsFit' /\ job'[w] = Channel!Done /\ \A x \in Handler \ {w} : job'[x] = job[x]
      BY <1>1, <1>4, <2>2, DoneJob, JobsStayFit
    <3>2. post' # [post EXCEPT ![m] = "live"]
      BY <1>1, <2>2
    <3> QED BY <2>2, <3>1, <3>2, DoneJob
  <2> QED BY <1>2, <2>1, <2>2
<1>6. UnreadTyped'
  <2>1. \A i \in Channel!Post : post'[i] = "none" <=> post[i] = "none"
    BY <1>1, <1>2
  <2>2. \E k \in 0 .. MaxPosts : Filled(k)'
    BY <1>1, <2>1, FilledStays DEF UnreadInv, UnreadTyped
  <2>3. post' \in [Channel!Post -> {"none", "stamped", "live", "gone"}] /\ mishaps' \in 0 .. MaxMishaps
    BY <1>1, <1>2, ChatsAssumption DEF UnreadInv, UnreadTyped
  <2> QED BY <1>1, <1>5, <2>2, <2>3 DEF UnreadInv, UnreadTyped
<1>7. CoveredEarly'
  BY <1>1, <1>5, CoverCarries DEF UnreadInv, Marking
<1>8. NumberHolds'
  <2>1. CASE post' = [post EXCEPT ![m] = "live"] /\ ~lapsed
    <3>1. /\ job'[w].at = "look" /\ job'[w].fresh = job[w].fresh
          /\ w \in Adding' /\ w \notin Adding
      BY <1>1, <1>3, <1>5, <2>1 DEF Adding
    <3>2. Cardinality(Adding') = Cardinality(Adding) + 1 /\ Cardinality(Adding) \in Nat
      BY <1>5, <3>1, AddingMoves
    <3>3. /\ Sealing' <=> Sealing
          /\ \A x \in Handler : Renews(job[x]) => Renews(job[x])'
      BY <1>1, <1>5, <3>1 DEF Sealing, Renews
    <3>4. /\ m > lastRead => Channel!Unread' = Channel!Unread + 1
          /\ ~(m > lastRead) => Channel!Unread' = Channel!Unread
      BY <1>1, <2>1, OnePost
    <3>5. CASE ~job[w].fresh
      BY <3>1, <3>5 DEF NumberHolds, Renews
    <3>6. CASE m > lastRead
      BY <1>1, <3>1, <3>2, <3>3, <3>4, <3>6, UnreadNumber DEF NumberHolds, UnreadInv
    <3>7. CASE job[w].fresh /\ ~(m > lastRead)
      <4>1. m <= lastRead
        BY <1>1, <3>7 DEF Channel!Post
      <4>2. PICK x \in Handler : Marking(job[x])
        BY <1>1, <2>1, <3>7, <4>1 DEF UnreadInv, CoveredEarly
      <4>3. x # w /\ job'[x] = job[x]
        BY <1>1, <1>5, <4>2 DEF Marking
      <4> QED BY <1>1, <3>1, <4>2, <4>3 DEF NumberHolds, Marking, Renews, Sealing
    <3> QED BY <3>5, <3>6, <3>7
  <2>2. CASE post' # [post EXCEPT ![m] = "live"]
    <3>1. Channel!Unread' = Channel!Unread
      BY <1>1, <1>2, <2>2, OnePost
    <3>2. job'[w].at = "done"
      BY <1>5, <2>2, DoneJob
    <3> QED BY <1>1, <1>5, <3>1, <3>2, NumberCarries DEF UnreadInv, Renews
  <2>3. CASE lapsed
    BY <1>1, <2>3 DEF NumberHolds
  <2> QED BY <2>1, <2>2, <2>3
<1> QED BY <1>6, <1>7, <1>8 DEF UnreadInv

\* A step of a task that leaves the messages and lastReadAt alone.
LEMMA TaskTurns ==
  ASSUME UnreadInv, NEW w \in Handler, NEW what \in JobSet, job' = [job EXCEPT ![w] = what],
         what.at # "insert", what.at = "mark" => what.op = "mark",
         what.at \in {"look", "bump", "check"} => what.m \in Channel!Post,
         UNCHANGED <<post, lastRead>>, unreadCount' \in Nat, lapsed' \in BOOLEAN,
         asked' = asked \/ (asked < MaxAsked /\ asked' = asked + 1),
         mishaps' = mishaps \/ (mishaps < MaxMishaps /\ mishaps' = mishaps + 1),
         lapsed => lapsed',
         Marking(job[w]) => lapsed' \/ Marking(what)
  PROVE  /\ UnreadTyped' /\ CoveredEarly' /\ job'[w] = what /\ Channel!Unread' = Channel!Unread
         /\ \A x \in Handler \ {w} : job'[x] = job[x]
<1>1. JobsFit' /\ job'[w] = what /\ \A x \in Handler \ {w} : job'[x] = job[x]
  <2>1. JobsFit /\ \A x \in Handler \ {w} : job[x].at = "insert" => post'[job[x].m] = "stamped"
    BY DEF UnreadInv, UnreadTyped, JobsFit
  <2>2. /\ what.at = "insert" => post'[what.m] = "stamped"
        /\ \A x \in Handler \ {w} : job[x].at = "insert" =>
            post'[job[x].m] = "stamped" /\ (what.at = "insert" => job[x].m # what.m)
    BY <2>1
  <2> QED BY <2>1, <2>2, JobsStayFit
<1>2. \E k \in 0 .. MaxPosts : Filled(k)'
  BY FilledStays DEF UnreadInv, UnreadTyped
<1>3. asked' \in 0 .. MaxAsked /\ mishaps' \in 0 .. MaxMishaps
  BY ChatsAssumption DEF UnreadInv, UnreadTyped
<1>4. UnreadTyped'
  BY <1>1, <1>2, <1>3 DEF UnreadInv, UnreadTyped
<1>5. CoveredEarly'
  <2>1. lastRead \in Nat /\ what.m \in Int
    BY PostsFinite DEF UnreadInv, UnreadTyped, JobSet
  <2> QED BY <1>1, <2>1, CoverCarries DEF UnreadInv
<1>6. Channel!Unread' = Channel!Unread
  BY DEF Channel!Unread
<1> QED BY <1>1, <1>4, <1>5, <1>6

\* After them the number is to be written, was just written, or nobody is there to do it.
LEMMA TaskRenews ==
  ASSUME UnreadInv, NEW w \in Handler, NEW what \in JobSet, job' = [job EXCEPT ![w] = what],
         UNCHANGED <<post, lastRead>>, unreadCount' \in Nat, lapsed' \in BOOLEAN,
         asked' = asked \/ (asked < MaxAsked /\ asked' = asked + 1),
         mishaps' = mishaps \/ (mishaps < MaxMishaps /\ mishaps' = mishaps + 1),
         lapsed => lapsed',
         \/ lapsed' /\ what.at \in {"count", "invalidate", "done"}
         \/ what.at \in {"count", "set", "read"} /\ (Marking(job[w]) => what.op = "mark")
         \/ /\ what.at = "recount" /\ what.n = unreadCount'
            /\ Marking(job[w]) => what.op = "mark"
  PROVE  UnreadInv'
<1>1. Marking(job[w]) => lapsed' \/ Marking(what)
  BY DEF Marking
<1>2. UnreadTyped' /\ CoveredEarly' /\ job'[w] = what
  BY <1>1, TaskTurns
<1>3. NumberHolds'
  BY <1>2, NumberWritten
<1> QED BY <1>2, <1>3 DEF UnreadInv

LEMMA LookHolds ==
  ASSUME UnreadInv, NEW w \in Handler, Channel!Look(w)
  PROVE  UnreadInv'
<1> DEFINE goes == [job[w] EXCEPT !.at = "bump"]
<1>1. /\ JobsFit /\ job[w].at = "look" /\ job[w].m \in Channel!Post
      /\ UNCHANGED <<post, lastRead, unreadCount, asked, lapsed>>
      /\ unreadCount \in Nat /\ lapsed \in BOOLEAN
  BY DEF Channel!Look, Channel!At, UnreadInv, UnreadTyped, JobsFit
<1>2. /\ \/ job[w].fresh /\ job' = [job EXCEPT ![w] = goes]
         \/ job' = [job EXCEPT ![w] = Channel!SyncFrom(w)]
      /\ mishaps' = mishaps \/ (mishaps < MaxMishaps /\ mishaps' = mishaps + 1)
  BY DEF Channel!Look, Channel!StillActive, Channel!GoTo, Channel!Put, Channel!Mishap
<1>3. CASE job' = [job EXCEPT ![w] = Channel!SyncFrom(w)]
  <2>1. ~Marking(job[w])
    BY <1>1 DEF Marking
  <2> QED BY <1>1, <1>2, <1>3, <2>1, JobSyncs, TaskRenews
<1>4. CASE job[w].fresh /\ job' = [job EXCEPT ![w] = goes]
  <2>1. goes \in JobSet /\ goes.at = "bump" /\ goes.m = job[w].m
    BY <1>1, JobGoesOn DEF JobPlace
  <2> HIDE DEF goes
  <2>2. /\ UnreadTyped' /\ CoveredEarly' /\ job'[w] = goes /\ Channel!Unread' = Channel!Unread
        /\ \A x \in Handler \ {w} : job'[x] = job[x]
    BY <1>1, <1>2, <1>4, <2>1, TaskTurns DEF Marking
  <2>3. NumberHolds'
    BY <1>1, <1>4, <2>1, <2>2, NumberCarries DEF UnreadInv, Renews
  <2> QED BY <2>2, <2>3 DEF UnreadInv
<1> QED BY <1>2, <1>3, <1>4

LEMMA BumpHolds ==
  ASSUME UnreadInv, NEW w \in Handler, Channel!Bump(w)
  PROVE  UnreadInv'
<1> DEFINE goes == [job[w] EXCEPT !.at = "check"]
           again == [Channel!SyncFrom(w) EXCEPT !.more = 3]
<1>1. /\ JobsFit /\ job[w].at = "bump" /\ job[w].m \in Channel!Post
      /\ UNCHANGED <<post, lastRead, asked>>
      /\ unreadCount \in Nat /\ lapsed \in BOOLEAN
  BY DEF Channel!Bump, Channel!At, UnreadInv, UnreadTyped, JobsFit
<1>2. \/ /\ unreadCount' = unreadCount + 1 /\ lapsed' = (lapsed \/ Channel!Unannounced(w))
         /\ job' = [job EXCEPT ![w] = goes] /\ UNCHANGED mishaps
      \/ /\ job' = [job EXCEPT ![w] = again] /\ UNCHANGED <<unreadCount, lapsed>>
         /\ mishaps < MaxMishaps /\ mishaps' = mishaps + 1
  BY DEF Channel!Bump, Channel!GoTo, Channel!Put, Channel!Mishap
<1>3. CASE job' = [job EXCEPT ![w] = again] /\ UNCHANGED <<unreadCount, lapsed>>
           /\ mishaps < MaxMishaps /\ mishaps' = mishaps + 1
  <2>1. again \in JobSet /\ again.at = "count"
    <3>1. 3 \in 0 .. 3
      OBVIOUS
    <3> QED BY <1>1, <3>1, JobSyncs
  <2> HIDE DEF again
  <2> QED BY <1>1, <1>3, <2>1, TaskRenews DEF Marking
<1>4. CASE unreadCount' = unreadCount + 1 /\ lapsed' = (lapsed \/ Channel!Unannounced(w))
           /\ job' = [job EXCEPT ![w] = goes] /\ UNCHANGED mishaps
  <2>1. /\ goes \in JobSet /\ goes.at = "check" /\ goes.m = job[w].m /\ goes.fresh = job[w].fresh
    BY <1>1, JobGoesOn DEF JobPlace
  <2> HIDE DEF goes
  <2>2. /\ UnreadTyped' /\ CoveredEarly' /\ job'[w] = goes /\ Channel!Unread' = Channel!Unread
        /\ \A x \in Handler \ {w} : job'[x] = job[x]
    <3>1. unreadCount' \in Nat /\ lapsed' \in BOOLEAN /\ (lapsed => lapsed')
      BY <1>1, <1>4 DEF Channel!Unannounced
    <3> QED BY <1>1, <1>4, <2>1, <3>1, TaskTurns DEF Marking
  <2>3. NumberHolds'
    <3>1. CASE lapsed'
      BY <3>1 DEF NumberHolds
    <3>2. CASE ~lapsed'
      <4>1. ~lapsed /\ \A x \in Handler \ {w} : job[x].at \notin {"recount", "announce"}
        BY <1>4, <3>2 DEF Channel!Unannounced
      <4>2. ~Sealing /\ ~Sealing'
        BY <1>1, <2>1, <2>2, <4>1 DEF Sealing
      <4>3. \A x \in Handler : Renews(job[x]) => Renews(job[x])'
        BY <1>1, <2>1, <2>2, <4>1 DEF Renews
      <4>4. Cardinality(Adding) = Cardinality(Adding') + 1 /\ Cardinality(Adding') \in Nat
        <5>1. w \in Adding /\ w \notin Adding'
          BY <1>1, <2>1, <2>2 DEF Adding
        <5> QED BY <2>2, <5>1, AddingMoves
      <4> QED BY <1>1, <1>4, <2>2, <4>1, <4>2, <4>3, <4>4 DEF NumberHolds, UnreadInv
    <3> QED BY <3>1, <3>2
  <2> QED BY <2>2, <2>3 DEF UnreadInv
<1> QED BY <1>2, <1>3, <1>4

LEMMA CheckHolds ==
  ASSUME UnreadInv, NEW w \in Handler, Channel!Check(w)
  PROVE  UnreadInv'
<1> DEFINE again == [Channel!SyncFrom(w) EXCEPT !.more = 3]
<1>1. /\ JobsFit /\ job[w].at = "check"
      /\ UNCHANGED <<post, lastRead, unreadCount, asked, lapsed>>
      /\ unreadCount \in Nat /\ lapsed \in BOOLEAN
  BY DEF Channel!Check, Channel!At, UnreadInv, UnreadTyped
<1>2. /\ \/ job[w].fresh /\ job' = [job EXCEPT ![w] = Channel!Done]
         \/ job' = [job EXCEPT ![w] = again]
      /\ mishaps' = mishaps \/ (mishaps < MaxMishaps /\ mishaps' = mishaps + 1)
  BY DEF Channel!Check, Channel!StillActive, Channel!Put, Channel!Mishap
<1>3. CASE job' = [job EXCEPT ![w] = again]
  <2>1. again \in JobSet /\ again.at = "count"
    <3>1. 3 \in 0 .. 3
      OBVIOUS
    <3> QED BY <1>1, <3>1, JobSyncs
  <2> HIDE DEF again
  <2> QED BY <1>1, <1>2, <1>3, <2>1, TaskRenews DEF Marking
<1>4. CASE job[w].fresh /\ job' = [job EXCEPT ![w] = Channel!Done]
  <2> HIDE DEF Channel!Done
  <2>1. /\ UnreadTyped' /\ CoveredEarly' /\ job'[w] = Channel!Done
        /\ Channel!Unread' = Channel!Unread /\ \A x \in Handler \ {w} : job'[x] = job[x]
    BY <1>1, <1>2, <1>4, DoneJob, TaskTurns DEF Marking
  <2>2. NumberHolds'
    BY <1>1, <1>4, <2>1, DoneJob, NumberCarries DEF UnreadInv, Renews
  <2> QED BY <2>1, <2>2 DEF UnreadInv
<1> QED BY <1>2, <1>3, <1>4

LEMMA ReplayHolds ==
  ASSUME UnreadInv, NEW w \in Handler, Channel!Replay(w)
  PROVE  UnreadInv'
<1>1. PICK i \in Channel!Post : Channel!Start(w, "replay", "count", i)
  BY DEF Channel!Replay
<1> DEFINE what == [Channel!Done EXCEPT !.op = "replay", !.at = "count", !.m = i, !.fresh = TRUE]
<1>2. /\ UNCHANGED <<post, lastRead, unreadCount, mishaps, lapsed>> /\ job[w] = Channel!Done
      /\ asked < MaxAsked /\ asked' = asked + 1 /\ job' = [job EXCEPT ![w] = what]
      /\ unreadCount \in Nat /\ lapsed \in BOOLEAN
  <2> HIDE DEF Channel!Done
  <2> QED BY <1>1 DEF Channel!Replay, Channel!Start, Channel!Put, Channel!Asks, UnreadInv, UnreadTyped
<1>3. what \in JobSet /\ what.at = "count"
  <2>1. i \in 0 .. MaxPosts /\ "count" \in JobPlace
    BY PostsFinite DEF Channel!Post, JobPlace
  <2> HIDE DEF Channel!Done
  <2> QED BY <2>1, DoneJob DEF JobSet
<1>4. ~Marking(job[w])
  BY <1>2, DoneJob DEF Marking
<1> HIDE DEF what, Channel!Done
<1> QED BY <1>2, <1>3, <1>4, TaskRenews

LEMMA MarkHolds ==
  ASSUME UnreadInv, NEW w \in Handler, Channel!MarkRead(w)
  PROVE  UnreadInv'
<1> DEFINE what == [Channel!Done EXCEPT !.op = "mark", !.at = "mark", !.m = 0, !.fresh = TRUE]
<1>2. /\ UNCHANGED <<post, lastRead, unreadCount, mishaps, lapsed>> /\ job[w] = Channel!Done
      /\ asked < MaxAsked /\ asked' = asked + 1 /\ job' = [job EXCEPT ![w] = what]
      /\ unreadCount \in Nat /\ lapsed \in BOOLEAN
  <2> HIDE DEF Channel!Done
  <2> QED BY DEF Channel!MarkRead, Channel!Start, Channel!Put, Channel!Asks, UnreadInv, UnreadTyped
<1>3. what \in JobSet /\ what.at = "mark" /\ what.op = "mark"
  <2>1. 0 \in 0 .. MaxPosts /\ "mark" \in JobPlace
    BY PostsFinite DEF JobPlace
  <2> HIDE DEF Channel!Done
  <2> QED BY <2>1, DoneJob DEF JobSet
<1>4. job[w].at = "done"
  BY <1>2, DoneJob
<1> HIDE DEF what, Channel!Done
<1>5. /\ UnreadTyped' /\ CoveredEarly' /\ job'[w] = what
      /\ Channel!Unread' = Channel!Unread /\ \A x \in Handler \ {w} : job'[x] = job[x]
  BY <1>2, <1>3, <1>4, TaskTurns DEF Marking
<1>6. NumberHolds'
  BY <1>2, <1>3, <1>4, <1>5, NumberCarries DEF UnreadInv, Renews
<1> QED BY <1>5, <1>6 DEF UnreadInv

\* What a mark covers has been stamped, and its own sync is still to come.
LEMMA MarkWriteHolds ==
  ASSUME UnreadInv, NEW w \in Handler, Channel!MarkWrite(w)
  PROVE  UnreadInv'
<1> HIDE DEF Channel!Done
<1>1. /\ JobsFit /\ job[w].at = "mark" /\ job[w].op = "mark" /\ lastRead \in Nat
      /\ UNCHANGED <<post, asked, lapsed>> /\ unreadCount \in Nat /\ lapsed \in BOOLEAN
  BY DEF Channel!MarkWrite, Channel!At, UnreadInv, UnreadTyped, JobsFit
<1>2. \/ /\ lastRead' \in {i \in {Channel!Stamped - 1, Channel!Stamped} : i >= lastRead}
         /\ unreadCount' = 0 /\ job' = [job EXCEPT ![w] = Channel!SyncFrom(w)] /\ UNCHANGED mishaps
      \/ /\ mishaps < MaxMishaps /\ mishaps' = mishaps + 1
         /\ job' = [job EXCEPT ![w] = Channel!Done] /\ UNCHANGED <<lastRead, unreadCount>>
  BY DEF Channel!MarkWrite, Channel!Put, Channel!Mishap
<1>3. CASE /\ lastRead' \in {i \in {Channel!Stamped - 1, Channel!Stamped} : i >= lastRead}
           /\ unreadCount' = 0 /\ job' = [job EXCEPT ![w] = Channel!SyncFrom(w)] /\ UNCHANGED mishaps
  <2>1. /\ Channel!SyncFrom(w) \in JobSet /\ Channel!SyncFrom(w).at = "count"
        /\ Channel!SyncFrom(w).op = "mark"
    BY <1>1, JobSyncs
  <2> DEFINE what == Channel!SyncFrom(w)
  <2> HIDE DEF what
  <2>2. JobsFit' /\ job'[w] = what /\ \A x \in Handler \ {w} : job'[x] = job[x]
    <3>1. /\ what \in JobSet /\ what.at = "count" /\ job' = [job EXCEPT ![w] = what]
          /\ \A x \in Handler \ {w} : job[x].at = "insert" => post'[job[x].m] = "stamped"
      BY <1>1, <1>3, <2>1 DEF JobsFit, what
    <3>2. /\ what.at = "insert" => post'[what.m] = "stamped"
          /\ \A x \in Handler \ {w} : job[x].at = "insert" =>
              post'[job[x].m] = "stamped" /\ (what.at = "insert" => job[x].m # what.m)
      BY <3>1
    <3> QED BY <1>1, <3>1, <3>2, JobsStayFit
  <2>3. PICK k \in 0 .. MaxPosts : Filled(k)
    BY DEF UnreadInv, UnreadTyped
  <2>4. lastRead' \in Nat /\ lastRead' <= k
    BY <1>1, <1>3, <2>3, LastStamped, PostsFinite
  <2>5. Filled(k)'
    BY <1>1, <2>3, <2>4 DEF Filled
  <2>6. UnreadTyped'
    BY <1>1, <1>3, <2>2, <2>3, <2>4, <2>5 DEF UnreadInv, UnreadTyped
  <2>7. Marking(job'[w]) /\ job'[w].at = "count"
    BY <2>1, <2>2 DEF Marking, what
  <2> QED BY <2>6, <2>7, NumberWritten DEF UnreadInv, CoveredEarly
<1>4. CASE /\ mishaps < MaxMishaps /\ mishaps' = mishaps + 1
           /\ job' = [job EXCEPT ![w] = Channel!Done] /\ UNCHANGED <<lastRead, unreadCount>>
  <2>1. /\ UnreadTyped' /\ CoveredEarly' /\ job'[w] = Channel!Done
        /\ Channel!Unread' = Channel!Unread /\ \A x \in Handler \ {w} : job'[x] = job[x]
    BY <1>1, <1>4, DoneJob, TaskTurns DEF Marking
  <2>2. NumberHolds'
    BY <1>1, <1>4, <2>1, DoneJob, NumberCarries DEF UnreadInv, Renews
  <2> QED BY <2>1, <2>2 DEF UnreadInv
<1> QED BY <1>2, <1>3, <1>4

LEMMA DeleteHolds ==
  ASSUME UnreadInv, NEW w \in Handler, Channel!Delete(w)
  PROVE  UnreadInv'
<1> HIDE DEF Channel!Done
<1>1. PICK i \in Channel!Post :
        /\ post[i] = "live" /\ post' = [post EXCEPT ![i] = "gone"]
        /\ Channel!Start(w, "delete", "state", i)
  BY DEF Channel!Delete
<1> DEFINE what == [Channel!Done EXCEPT !.op = "delete", !.at = "state", !.m = i, !.fresh = TRUE]
<1>2. /\ UNCHANGED <<lastRead, unreadCount, mishaps, lapsed>> /\ job[w] = Channel!Done
      /\ asked < MaxAsked /\ asked' = asked + 1 /\ job' = [job EXCEPT ![w] = what]
      /\ lastRead \in Nat /\ unreadCount \in Nat /\ lapsed \in BOOLEAN /\ JobsFit
      /\ post \in [Channel!Post -> {"none", "stamped", "live", "gone"}]
  BY <1>1 DEF Channel!Delete, Channel!Start, Channel!Put, Channel!Asks, UnreadInv, UnreadTyped
<1>3. what \in JobSet /\ what.at = "state" /\ what.m = i
  <2>1. i \in 0 .. MaxPosts /\ "state" \in JobPlace
    BY PostsFinite DEF Channel!Post, JobPlace
  <2> QED BY <2>1, DoneJob DEF JobSet
<1>4. job[w].at = "done"
  BY <1>2, DoneJob
<1> HIDE DEF what
<1>5. JobsFit' /\ job'[w] = what /\ \A x \in Handler \ {w} : job'[x] = job[x]
  <2>1. /\ what.at = "insert" => post'[what.m] = "stamped"
        /\ \A x \in Handler \ {w} : job[x].at = "insert" =>
            post'[job[x].m] = "stamped" /\ (what.at = "insert" => job[x].m # what.m)
    BY <1>1, <1>2, <1>3 DEF JobsFit
  <2> QED BY <1>2, <1>3, <2>1, JobsStayFit
<1>6. UnreadTyped'
  <2>1. \A j \in Channel!Post : post'[j] = "none" <=> post[j] = "none"
    BY <1>1, <1>2
  <2>2. \E k \in 0 .. MaxPosts : Filled(k)'
    BY <1>2, <2>1, FilledStays DEF UnreadInv, UnreadTyped
  <2>3. post' \in [Channel!Post -> {"none", "stamped", "live", "gone"}] /\ asked' \in 0 .. MaxAsked
    BY <1>1, <1>2, ChatsAssumption DEF UnreadInv, UnreadTyped
  <2> QED BY <1>2, <1>5, <2>2, <2>3 DEF UnreadInv, UnreadTyped
<1>7. CoveredEarly'
  <2>1. what.m \in Int
    BY <1>3 DEF Channel!Post
  <2> QED BY <1>2, <1>3, <1>4, <1>5, <2>1, CoverCarries DEF UnreadInv, Marking
<1>8. NumberHolds'
  <2>1. CASE i > lastRead
    BY <1>2, <1>3, <1>5, <2>1 DEF NumberHolds, Renews
  <2>2. CASE ~(i > lastRead)
    <3>1. Channel!Unread' = Channel!Unread
      BY <1>1, <1>2, <2>2, OnePost
    <3> QED BY <1>2, <1>3, <1>4, <1>5, <3>1, NumberCarries DEF UnreadInv, Renews
  <2> QED BY <2>1, <2>2
<1> QED BY <1>6, <1>7, <1>8 DEF UnreadInv

LEMMA StateHolds ==
  ASSUME UnreadInv, NEW w \in Handler, Channel!DeleteState(w)
  PROVE  UnreadInv'
<1> HIDE DEF Channel!Done
<1>1. /\ JobsFit /\ job[w].at = "state" /\ ~Marking(job[w])
      /\ UNCHANGED <<post, lastRead, unreadCount, asked, lapsed>>
      /\ unreadCount \in Nat /\ lapsed \in BOOLEAN
  BY DEF Channel!DeleteState, Channel!At, UnreadInv, UnreadTyped, Marking
<1>2. /\ \/ job' = [job EXCEPT ![w] = Channel!SyncFrom(w)]
         \/ ~(job[w].m > lastRead) /\ job' = [job EXCEPT ![w] = Channel!Done]
      /\ mishaps' = mishaps \/ (mishaps < MaxMishaps /\ mishaps' = mishaps + 1)
  BY DEF Channel!DeleteState, Channel!Put, Channel!Mishap
<1>3. CASE job' = [job EXCEPT ![w] = Channel!SyncFrom(w)]
  BY <1>1, <1>2, <1>3, JobSyncs, TaskRenews
<1>4. CASE ~(job[w].m > lastRead) /\ job' = [job EXCEPT ![w] = Channel!Done]
  <2>1. /\ UnreadTyped' /\ CoveredEarly' /\ job'[w] = Channel!Done
        /\ Channel!Unread' = Channel!Unread /\ \A x \in Handler \ {w} : job'[x] = job[x]
    BY <1>1, <1>2, <1>4, DoneJob, TaskTurns
  <2>2. NumberHolds'
    BY <1>1, <1>4, <2>1, DoneJob, NumberCarries DEF UnreadInv, Renews
  <2> QED BY <2>1, <2>2 DEF UnreadInv
<1> QED BY <1>2, <1>3, <1>4

\* The sync.
LEMMA CountHolds ==
  ASSUME UnreadInv, NEW w \in Handler, Channel!Count(w) \/ Channel!SetUnread(w)
  PROVE  UnreadInv'
<1> DEFINE counts == [job[w] EXCEPT !.at = "set", !.n = Channel!Unread]
           sets == [job[w] EXCEPT !.at = "read"]
<1>1. /\ JobsFit /\ UNCHANGED <<post, lastRead, asked, mishaps, lapsed>>
      /\ unreadCount \in Nat /\ lapsed \in BOOLEAN /\ job[w].n \in Nat
      /\ Marking(job[w]) => job[w].op = "mark"
  BY PostsFinite DEF Channel!Count, Channel!SetUnread, UnreadInv, UnreadTyped, JobsFit, JobSet, Marking
<1>2. \/ job' = [job EXCEPT ![w] = counts] /\ unreadCount' = unreadCount
      \/ job' = [job EXCEPT ![w] = sets] /\ unreadCount' = job[w].n
  BY DEF Channel!Count, Channel!SetUnread, Channel!GoTo, Channel!Put
<1>3. /\ counts \in JobSet /\ counts.at = "set" /\ counts.op = job[w].op
      /\ sets \in JobSet /\ sets.at = "read" /\ sets.op = job[w].op
  <2>1. "set" \in JobPlace /\ "read" \in JobPlace /\ "announce" \in JobPlace
    BY DEF JobPlace
  <2>2. counts.at = "set" /\ counts \in JobSet /\ counts.op = job[w].op /\ counts.round = job[w].round
    BY <1>1, <2>1, UnreadNumber, JobCounts
  <2> QED BY <1>1, <2>1, <2>2, JobGoesOn
<1> HIDE DEF counts, sets
<1>4. CASE job' = [job EXCEPT ![w] = counts] /\ unreadCount' = unreadCount
  BY <1>1, <1>3, <1>4, TaskRenews
<1>5. CASE job' = [job EXCEPT ![w] = sets] /\ unreadCount' = job[w].n
  BY <1>1, <1>3, <1>5, TaskRenews
<1> QED BY <1>2, <1>4, <1>5

\* One more round, or none.
LEMMA RoundHolds ==
  ASSUME UnreadInv, NEW w \in Handler, NEW what \in JobSet, what.round = job[w].round,
         what.at \in {"count", "set"}, what.op = job[w].op, Channel!Unsettled(w, what),
         UNCHANGED <<post, lastRead, unreadCount, asked, mishaps>>
  PROVE  UnreadInv'
<1> DEFINE next == [what EXCEPT !.round = @ + 1]
           none == Channel!NoNumber(w)
<1>1. JobsFit /\ unreadCount \in Nat /\ lapsed \in BOOLEAN
  BY DEF UnreadInv, UnreadTyped
<1>2. \/ /\ next \in JobSet /\ next.at = what.at /\ next.op = what.op
         /\ job' = [job EXCEPT ![w] = next] /\ UNCHANGED lapsed
      \/ job' = [job EXCEPT ![w] = none] /\ lapsed' = TRUE
  BY <1>1, JobUnsettled
<1>3. none \in JobSet /\ none.at \in {"invalidate", "count", "done"}
  BY <1>1, JobFails
<1> HIDE DEF next, none
<1>4. CASE /\ next \in JobSet /\ next.at = what.at /\ next.op = what.op
           /\ job' = [job EXCEPT ![w] = next] /\ UNCHANGED lapsed
  BY <1>1, <1>4, TaskRenews DEF Marking
<1>5. CASE job' = [job EXCEPT ![w] = none] /\ lapsed' = TRUE
  BY <1>1, <1>3, <1>5, TaskRenews
<1> QED BY <1>2, <1>4, <1>5

LEMMA ReadBackHolds ==
  ASSUME UnreadInv, NEW w \in Handler, Channel!ReadBack(w)
  PROVE  UnreadInv'
<1> DEFINE goes == [job[w] EXCEPT !.at = "recount"]
           again == [job[w] EXCEPT !.at = "count"]
<1>1. /\ JobsFit /\ UNCHANGED <<post, lastRead, unreadCount, asked, mishaps>>
      /\ unreadCount \in Nat /\ lapsed \in BOOLEAN
  BY DEF Channel!ReadBack, UnreadInv, UnreadTyped
<1>2. \/ unreadCount = job[w].n /\ job' = [job EXCEPT ![w] = goes] /\ UNCHANGED lapsed
      \/ Channel!Unsettled(w, again)
  BY DEF Channel!ReadBack, Channel!GoTo, Channel!Put
<1>3. /\ goes \in JobSet /\ goes.at = "recount" /\ goes.op = job[w].op /\ goes.n = job[w].n
      /\ again \in JobSet /\ again.at = "count" /\ again.op = job[w].op /\ again.round = job[w].round
  BY <1>1, JobGoesOn DEF JobPlace
<1> HIDE DEF goes, again
<1>4. CASE unreadCount = job[w].n /\ job' = [job EXCEPT ![w] = goes] /\ UNCHANGED lapsed
  BY <1>1, <1>3, <1>4, TaskRenews DEF Marking
<1>5. CASE Channel!Unsettled(w, again)
  BY <1>1, <1>3, <1>5, RoundHolds
<1> QED BY <1>2, <1>4, <1>5

LEMMA RecountHolds ==
  ASSUME UnreadInv, NEW w \in Handler, Channel!Recount(w)
  PROVE  UnreadInv'
<1> DEFINE goes == [job[w] EXCEPT !.at = "announce"]
           again == [job[w] EXCEPT !.at = "set", !.n = Channel!Unread]
<1>1. /\ JobsFit /\ UNCHANGED <<post, lastRead, unreadCount, asked, mishaps>>
      /\ unreadCount \in Nat /\ lapsed \in BOOLEAN /\ job[w].at = "recount"
  BY DEF Channel!Recount, Channel!At, UnreadInv, UnreadTyped
<1>2. \/ Channel!Unread = job[w].n /\ job' = [job EXCEPT ![w] = goes] /\ UNCHANGED lapsed
      \/ Channel!Unsettled(w, again)
  BY DEF Channel!Recount, Channel!GoTo, Channel!Put
<1>3. /\ goes \in JobSet /\ goes.at = "announce" /\ goes.op = job[w].op
      /\ again \in JobSet /\ again.at = "set" /\ again.op = job[w].op /\ again.round = job[w].round
  <2>1. "set" \in JobPlace /\ "read" \in JobPlace /\ "announce" \in JobPlace
    BY DEF JobPlace
  <2>2. again.at = "set" /\ again \in JobSet /\ again.op = job[w].op /\ again.round = job[w].round
    BY <1>1, <2>1, UnreadNumber, JobCounts
  <2> QED BY <1>1, <2>1, <2>2, JobGoesOn
<1> HIDE DEF goes, again
<1>4. CASE Channel!Unread = job[w].n /\ job' = [job EXCEPT ![w] = goes] /\ UNCHANGED lapsed
  <2>1. /\ UnreadTyped' /\ CoveredEarly' /\ job'[w] = goes /\ Channel!Unread' = Channel!Unread
        /\ \A x \in Handler \ {w} : job'[x] = job[x]
    BY <1>1, <1>3, <1>4, TaskTurns DEF Marking
  <2>2. Sealing /\ Sealing' /\ Adding' = Adding
    BY <1>1, <1>3, <2>1 DEF Sealing, Adding
  <2>3. ASSUME Renews(job[w]) PROVE unreadCount = Channel!Unread
    BY <1>1, <1>4, <2>3 DEF Renews
  <2>4. \A x \in Handler \ {w} : Renews(job[x]) => Renews(job[x])'
    BY <1>1, <2>1 DEF Renews
  <2>5. NumberHolds'
    BY <1>1, <1>4, <2>1, <2>2, <2>3, <2>4 DEF NumberHolds, UnreadInv
  <2> QED BY <2>1, <2>5 DEF UnreadInv
<1>5. CASE Channel!Unsettled(w, again)
  BY <1>1, <1>3, <1>5, RoundHolds
<1> QED BY <1>2, <1>4, <1>5

LEMMA FailsHolds ==
  ASSUME UnreadInv, NEW w \in Handler, Channel!SyncFails(w)
  PROVE  UnreadInv'
<1> DEFINE none == Channel!NoNumber(w)
<1>1. /\ JobsFit /\ UNCHANGED <<post, lastRead, unreadCount, asked>> /\ lapsed' = TRUE
      /\ unreadCount \in Nat /\ mishaps < MaxMishaps /\ mishaps' = mishaps + 1
      /\ job' = [job EXCEPT ![w] = none]
  BY DEF Channel!SyncFails, Channel!Mishap, Channel!Put, UnreadInv, UnreadTyped
<1>2. none \in JobSet /\ none.at \in {"invalidate", "count", "done"}
  BY <1>1, JobFails
<1> HIDE DEF none
<1> QED BY <1>1, <1>2, TaskRenews

\* The generation moves: whoever is about to add, or to insert, will find that.
LEMMA MoveHolds ==
  ASSUME UnreadInv, NEW w \in Handler, NEW what \in JobSet, Channel!Move(w, what),
         what.at \in {"count", "done"},
         UNCHANGED <<post, lastRead, unreadCount, asked, mishaps>>, lapsed' \in BOOLEAN,
         \/ what.at = "count"
         \/ job[w].at = "announce" /\ lapsed' = (lapsed /\ unreadCount # Channel!Unread)
  PROVE  UnreadInv'
<1>1. /\ JobsFit' /\ job'[w] = what
      /\ \A x \in Handler \ {w} :
          /\ job'[x].op = job[x].op /\ job'[x].at = job[x].at /\ job'[x].m = job[x].m
          /\ job'[x].n = job[x].n /\ ~job'[x].fresh
  <2>1. JobsFit
    BY DEF UnreadInv, UnreadTyped
  <2> QED BY <2>1, JobsMoveFit
<1>2. UnreadTyped'
  <2>1. \E k \in 0 .. MaxPosts : Filled(k)'
    BY FilledStays DEF UnreadInv, UnreadTyped
  <2> QED BY <1>1, <2>1 DEF UnreadInv, UnreadTyped
<1>3. CoveredEarly'
  BY <1>1 DEF CoveredEarly
<1>4. Channel!Unread' = Channel!Unread
  BY DEF Channel!Unread
<1>5. NumberHolds'
  <2>1. CASE what.at = "count"
    BY <1>1, <2>1, NumberWritten
  <2>2. CASE job[w].at = "announce" /\ lapsed' = (lapsed /\ unreadCount # Channel!Unread)
    <3>1. ~Renews(job[w]) /\ Sealing /\ w \notin Adding
      BY <2>2 DEF Renews, Sealing, Adding
    <3>2. CASE \E x \in Handler : Renews(job[x])
      <4>1. PICK x \in Handler \ {w} : Renews(job[x])
        BY <3>1, <3>2
      <4>2. Renews(job[x])'
        BY <1>1, <4>1 DEF Renews
      <4> QED BY <4>2 DEF NumberHolds
    <3>3. CASE Adding # {}
      <4>1. PICK x \in Handler \ {w} : job[x].at \in {"look", "bump"}
        BY <3>1, <3>3 DEF Adding
      <4>2. Renews(job[x])'
        BY <1>1, <4>1 DEF Renews
      <4> QED BY <4>2 DEF NumberHolds
    <3>4. CASE unreadCount = Channel!Unread /\ Adding = {}
      <4>1. Adding' = {}
        BY <1>1, <3>4 DEF Adding
      <4>2. Cardinality(Adding') = 0
        BY <4>1, FS_EmptySet
      <4>3. unreadCount' + Cardinality(Adding') = Channel!Unread'
        BY <1>4, <3>4, <4>2 DEF UnreadInv, UnreadTyped
      <4> QED BY <1>4, <3>4, <4>3 DEF NumberHolds
    <3>5. CASE lapsed /\ unreadCount # Channel!Unread
      BY <2>2, <3>5 DEF NumberHolds
    <3> QED BY <3>1, <3>2, <3>3, <3>4, <3>5 DEF UnreadInv, NumberHolds
  <2> QED BY <2>1, <2>2
<1> QED BY <1>2, <1>3, <1>5 DEF UnreadInv

LEMMA AnnounceHolds ==
  ASSUME UnreadInv, NEW w \in Handler, Channel!Announce(w)
  PROVE  UnreadInv'
<1> HIDE DEF Channel!Done
<1>1. /\ JobsFit /\ job[w].at = "announce" /\ UNCHANGED <<post, lastRead, unreadCount, asked, mishaps>>
      /\ unreadCount \in Nat /\ lapsed \in BOOLEAN
  BY DEF Channel!Announce, Channel!At, UnreadInv, UnreadTyped
<1>2. \/ /\ job[w].op = "again" /\ job' = [job EXCEPT ![w] = Channel!Done]
         /\ lapsed' = (lapsed \/ Channel!Coming(w))
      \/ /\ Channel!Move(w, Channel!Following(w))
         /\ lapsed' = (lapsed /\ unreadCount # Channel!Unread)
  BY DEF Channel!Announce, Channel!Put
<1>3. CASE /\ Channel!Move(w, Channel!Following(w))
           /\ lapsed' = (lapsed /\ unreadCount # Channel!Unread)
  <2> DEFINE what == Channel!Following(w)
  <2>1. what \in JobSet /\ what.at \in {"count", "done"}
    BY <1>1, JobFollows
  <2> HIDE DEF what
  <2>2. Channel!Move(w, what) /\ lapsed' \in BOOLEAN
    BY <1>3 DEF what
  <2> QED BY <1>1, <1>3, <2>1, <2>2, MoveHolds
<1>4. CASE /\ job[w].op = "again" /\ job' = [job EXCEPT ![w] = Channel!Done]
           /\ lapsed' = (lapsed \/ Channel!Coming(w))
  <2>1. lapsed' \in BOOLEAN /\ (lapsed => lapsed') /\ ~Marking(job[w])
    BY <1>1, <1>4 DEF Channel!Coming, Marking
  <2>2. /\ UnreadTyped' /\ CoveredEarly' /\ job'[w] = Channel!Done
        /\ Channel!Unread' = Channel!Unread /\ \A x \in Handler \ {w} : job'[x] = job[x]
    BY <1>1, <1>4, <2>1, DoneJob, TaskTurns
  <2>3. CASE lapsed'
    BY <2>2, <2>3 DEF UnreadInv, NumberHolds
  <2>4. CASE ~lapsed'
    <3>1. /\ ~lapsed /\ Adding = {} /\ Adding' = {} /\ Sealing /\ ~Renews(job[w])
      BY <1>1, <1>4, <2>2, <2>4, DoneJob DEF Channel!Coming, Adding, Sealing, Renews
    <3>2. Cardinality(Adding') = 0
      BY <3>1, FS_EmptySet
    <3>3. (\E x \in Handler : Renews(job[x])) => \E x \in Handler : Renews(job[x])'
      BY <1>1, <2>2, <3>1 DEF Renews
    <3>4. NumberHolds'
      BY <1>1, <2>2, <3>1, <3>2, <3>3 DEF NumberHolds, UnreadInv
    <3> QED BY <2>2, <3>4 DEF UnreadInv
  <2> QED BY <2>3, <2>4
<1> QED BY <1>2, <1>3, <1>4

LEMMA InvalidateHolds ==
  ASSUME UnreadInv, NEW w \in Handler, Channel!Invalidate(w)
  PROVE  UnreadInv'
<1> DEFINE what == [Channel!SyncFrom(w) EXCEPT !.op = "heal", !.more = 2]
<1>1. /\ JobsFit /\ UNCHANGED <<post, lastRead, unreadCount, asked, mishaps, lapsed>>
      /\ lapsed \in BOOLEAN /\ Channel!Move(w, what)
  BY DEF Channel!Invalidate, UnreadInv, UnreadTyped
<1>2. what \in JobSet /\ what.at = "count"
  BY <1>1, JobSyncs
<1> HIDE DEF what
<1> QED BY <1>1, <1>2, MoveHolds

-----------------------------------------------------------------------------
LEMMA InitUnread == Channel!CUInit => UnreadInv
<1> SUFFICES ASSUME Channel!CUInit PROVE UnreadInv
  OBVIOUS
<1>1. /\ \A w \in Handler : job[w].at = "done"
      /\ job \in [Handler -> JobSet]
  <2> HIDE DEF Channel!Done
  <2> QED BY DoneJob DEF Channel!CUInit
<1>2. Filled(0) /\ 0 \in 0 .. MaxPosts
  BY PostsFinite DEF Channel!CUInit, Filled, Channel!Post
<1>3. UnreadTyped
  <2>1. JobsFit
    BY <1>1 DEF JobsFit
  <2>2. post \in [Channel!Post -> {"none", "stamped", "live", "gone"}]
    BY DEF Channel!CUInit
  <2>3. /\ lastRead = 0 /\ unreadCount = 0 /\ asked = 0 /\ mishaps = 0 /\ lapsed = FALSE
        /\ MaxAsked \in Nat /\ MaxMishaps \in Nat
    BY ChatsAssumption DEF Channel!CUInit
  <2>4. \E k \in 0 .. MaxPosts : Filled(k)
    BY <1>2
  <2>5. /\ lastRead \in Nat /\ unreadCount \in Nat
        /\ asked \in 0 .. MaxAsked /\ mishaps \in 0 .. MaxMishaps
    BY <2>3
  <2>6. lapsed \in BOOLEAN
    BY <2>3
  <2> QED BY <2>1, <2>2, <2>4, <2>5, <2>6 DEF UnreadTyped
<1>4. CoveredEarly
  BY <1>1 DEF CoveredEarly
<1>5. NumberHolds
  <2>1. Adding = {} /\ ~Sealing
    BY <1>1 DEF Adding, Sealing
  <2>2. {i \in Channel!Post : post[i] = "live" /\ i > lastRead} = {}
    BY DEF Channel!CUInit
  <2>3. Cardinality(Adding) = 0 /\ Channel!Unread = 0
    BY <2>1, <2>2, FS_EmptySet DEF Channel!Unread, Channel!Cardinality, Cardinality
  <2> QED BY <2>1, <2>3 DEF NumberHolds, Channel!CUInit
<1> QED BY <1>3, <1>4, <1>5 DEF UnreadInv

LEMMA NextUnread ==
  ASSUME UnreadInv, [Channel!CUNext]_(Channel!unreadVars)
  PROVE  UnreadInv'
<1>1. CASE Channel!CUNext
  BY <1>1, SendHolds, InsertHolds, LookHolds, BumpHolds, CheckHolds, ReplayHolds, MarkHolds,
     MarkWriteHolds, DeleteHolds, StateHolds, CountHolds, ReadBackHolds, RecountHolds,
     FailsHolds, AnnounceHolds, InvalidateHolds
  DEF Channel!CUNext
<1>2. CASE UNCHANGED Channel!unreadVars
  <2> USE <1>2 DEF Channel!unreadVars
  <2>1. UnreadTyped'
    BY DEF UnreadInv, UnreadTyped, JobsFit, Filled
  <2>2. CoveredEarly' /\ NumberHolds'
    BY DEF UnreadInv, CoveredEarly, NumberHolds, Renews, Sealing, Adding, Channel!Unread
  <2> QED BY <2>1, <2>2 DEF UnreadInv
<1> QED BY <1>1, <1>2

LEMMA UnreadTypes == UnreadInv => Channel!CUTypeOK
<1> SUFFICES ASSUME UnreadInv PROVE Channel!CUTypeOK
  OBVIOUS
<1>1. lastRead \in 0 .. MaxPosts
  BY PostsFinite DEF UnreadInv, UnreadTyped, Filled
<1> QED BY <1>1 DEF UnreadInv, UnreadTyped, JobsFit, JobSet, JobPlace, Channel!CUTypeOK

LEMMA UnreadSettles == UnreadInv => Channel!ChannelUnreadSettles
<1> SUFFICES ASSUME UnreadInv, \A w \in Handler : job[w] = Channel!Done
             PROVE  lapsed \/ unreadCount = Channel!Unread
  BY DEF Channel!ChannelUnreadSettles
<1>1. \A w \in Handler : job[w].at = "done"
  <2> HIDE DEF Channel!Done
  <2> QED BY DoneJob
<1>2. Adding = {} /\ ~Sealing /\ \A w \in Handler : ~Renews(job[w])
  BY <1>1 DEF Adding, Sealing, Renews
<1>3. Cardinality(Adding) = 0
  BY <1>2, FS_EmptySet
<1> QED BY <1>2, <1>3 DEF UnreadInv, UnreadTyped, NumberHolds

-----------------------------------------------------------------------------
(****************************************************************************)
(* All of them, side by side.                                               *)
(****************************************************************************)
MessageInv == Typed /\ Counted /\ FlagsTyped /\ SentAndDeletedOnce /\ Reacted /\ Mentioned

LEMMA InitMessage == MsgInit => MessageInv
<1> SUFFICES ASSUME MsgInit PROVE MessageInv
  OBVIOUS
<1>1. Counted
  BY ChatsAssumption DEF MsgInit, Counted
<1>2. FlagsTyped
  BY DEF MsgInit, FlagsTyped
<1> QED BY <1>1, <1>2, InitTyped, InitOnce, InitReacted, InitMentioned DEF MessageInv

LEMMA NextMessage == MessageInv /\ [MsgNext]_vars => MessageInv'
<1> SUFFICES ASSUME MessageInv, [MsgNext]_vars PROVE MessageInv'
  OBVIOUS
<1>1. Counted'
  BY NextCounted, ChatsAssumption DEF MessageInv
<1> QED BY <1>1, NextTyped, NextFlags, NextOnce, NextReacted, NextMentioned DEF MessageInv

ChatsInv ==
    /\ moving \in {"tip", "members", "unread", "message"}
    /\ TipInv
    /\ MemberInv
    /\ UnreadInv
    /\ MessageInv

LEMMA InitChats == ChatsInit => ChatsInv
  BY InitTip, InitMembers, InitUnread, InitMessage DEF ChatsInit, ChatsInv

\* What rests keeps its invariant.
LEMMA PartsMove ==
  ASSUME [ChatsNext]_everything
  PROVE  /\ [Direct!Next]_(Direct!vars)
         /\ [Members!MemberNext]_(Members!memberVars)
         /\ [Channel!CUNext]_(Channel!unreadVars)
         /\ [MsgNext]_vars
         /\ UNCHANGED moving
<1> USE DEF directTip, channelMembers, channelUnread
<1>1. UNCHANGED directTip => UNCHANGED Direct!vars
  BY DEF Direct!vars, Direct!generation, Direct!counters, Direct!history
<1>2. UNCHANGED channelMembers => UNCHANGED Members!memberVars
  BY DEF Members!memberVars, Members!channelDoc, Members!inviteDoc, Members!tallies,
         Members!verdicts
<1>3. UNCHANGED channelUnread => UNCHANGED Channel!unreadVars
  BY DEF Channel!unreadVars
<1> HIDE DEF directTip, channelMembers, channelUnread
<1>4. CASE UNCHANGED everything
  BY <1>1, <1>2, <1>3, <1>4 DEF everything
<1>5. CASE ChatsNext
  BY <1>1, <1>2, <1>3, <1>5 DEF ChatsNext
<1> QED BY <1>4, <1>5

LEMMA NextChats == ChatsInv /\ [ChatsNext]_everything => ChatsInv'
<1> SUFFICES ASSUME ChatsInv, [ChatsNext]_everything PROVE ChatsInv'
  OBVIOUS
<1>1. /\ [Direct!Next]_(Direct!vars)
      /\ [Members!MemberNext]_(Members!memberVars)
      /\ [Channel!CUNext]_(Channel!unreadVars)
      /\ [MsgNext]_vars
      /\ UNCHANGED moving
  BY PartsMove
<1>2. TipInv'
  BY <1>1, NextTip DEF ChatsInv
<1>3. MemberInv'
  BY <1>1, NextMembers DEF ChatsInv
<1>4. UnreadInv'
  BY <1>1, NextUnread DEF ChatsInv
<1>5. MessageInv'
  BY <1>1, NextMessage DEF ChatsInv
<1> QED BY <1>1, <1>2, <1>3, <1>4, <1>5 DEF ChatsInv

LEMMA ChatsInvariant == ChatsSpec => []ChatsInv
  BY InitChats, NextChats, PTL DEF ChatsSpec

-----------------------------------------------------------------------------
\* Every part keeps its types, for any number of handlers, users, messages and failures; in
\* particular the number of an invite's uses does not pass its maxUses
\* (Invite::try_register_use) nor fall below zero (Invite::release_use).
THEOREM ChatsTyped == ChatsSpec => []ChatsTypeOK
<1>1. MessageInv => MsgTypeOK
  BY DEF MessageInv, Typed, Counted, FlagsTyped, MsgTypeOK, MessageSet, Stages
<1>2. ChatsInv => ChatsTypeOK
  BY <1>1, TipTypes, MemberTypes, UnreadTypes DEF ChatsInv, ChatsTypeOK
<1> QED BY <1>2, ChatsInvariant, PTL

\* utils/conversation/mod.rs, utils/unread/mod.rs, ws/handlers.rs: when nobody works on a
\* conversation, its tip is there and not older than any message, and the unread number shown
\* for it, direct or channel, is the number of unread messages, however the tasks of any number
\* of sends, reads, deletions and wipes met, but for the lapses named in the models.
THEOREM ConversationsAreSettled == ChatsSpec => []ConversationsSettle
<1>1. ChatsInv => ConversationsSettle
  BY TipHolds, UnreadSettles DEF ChatsInv, ConversationsSettle
<1> QED BY <1>1, ChatsInvariant, PTL

\* controllers/channels.rs, controllers/invites.rs, utils/channel/moderation.rs: a banned user is
\* not a member and a ban lasts, every use of an invite is a member it brought, and members have
\* read states, whichever requests overlap and wherever one stops, but for the accidents the
\* parts of MembershipHolds name.
THEOREM MembershipIsKept == ChatsSpec => []MembershipHolds
<1>1. ChatsInv => MembershipHolds
  BY MembersAccounted DEF ChatsInv, MemberInv, MembershipHolds
<1> QED BY <1>1, ChatsInvariant, PTL

\* One send creates, one deletion deletes, reactions are those asked for, and whoever is
\* mentioned is told: next to everything else that goes on in a conversation.
THEOREM MessagesAreKept == ChatsSpec => []MessageKept
<1>1. ChatsInv => MessageKept
  BY DEF ChatsInv, MessageInv, Reacted, Mentioned, Cared, Telling, MentionsTold, MessageKept
<1> QED BY <1>1, ChatsInvariant, PTL

\* So does what is deleted stay deleted.
THEOREM DeletedForGood == ChatsSpec => DeletedStays
<1>1. ChatsInv /\ [ChatsNext]_everything => [StaysDeleted]_vars
  BY PartsMove, DeletionLasts DEF ChatsInv, MessageInv
<1> QED BY <1>1, ChatsInvariant, PTL DEF ChatsSpec, DeletedStays
=================================================================================
