-------------------------------- MODULE Messages --------------------------------
(****************************************************************************)
(* One message, from its sends with one client nonce (Message::create) through   *)
(* its edits, reactions, pins and deletions (controllers/messages.rs for those   *)
(* over HTTP, ws/handlers.rs for those over a socket).  Handlers run at once, one *)
(* operation of the database per step; only the frames of one user follow each     *)
(* other, in the chat queue of UserFifo.  A socket and HTTP read, write and tell   *)
(* the same, in code of their own.                                              *)
(*                                                                          *)
(* Of the text it matters how often it was edited and whether it mentions the        *)
(* reader; reactions are those with one emoji.  The sender edits and deletes,    *)
(* and the reader is never muted.  What an edit or a deletion does to the tip and *)
(* the unread number is in DmTip and ChannelUnread, what it does to a file in     *)
(* Attachments; the events that repeat the stored message are left out.          *)
(****************************************************************************)
EXTENDS Naturals, FiniteSets

CONSTANTS
    Handler,      \* requests in progress at once
    Reactor,      \* the users who react
    MaxRequests,  \* bound: requests
    MaxErrors     \* bound: operations of the database that fail

VARIABLES
    message,   \* the first document with the nonce
    handler,   \* handler -> what it does and how far it is
    requests, errors,
    created,   \* history: sends that were told that they had created the message
    removed,   \* history: deletions that were told that they had deleted it
    toggled,   \* history: the users whose last successful reaction frame added them
    told,      \* history: the reader has got a message-mention
    untold     \* history: an error kept somebody from sending one

vars == <<message, handler, requests, errors, created, removed, toggled, told, untold>>
history == <<created, removed, toggled, told, untold>>

NoOne == "no one"
Sender == "sender"
NoMessage == [is |-> "none", text |-> 0, mentions |-> FALSE, pinned |-> FALSE,
              entry |-> FALSE, users |-> {}]
Rest == [does |-> "rest", at |-> "start", by |-> NoOne, flag |-> FALSE, prev |-> FALSE]

MsgInit ==
    /\ message = NoMessage
    /\ handler = [h \in Handler |-> Rest]
    /\ requests = 0
    /\ errors = 0
    /\ created = 0
    /\ removed = 0
    /\ toggled = {}
    /\ told = FALSE
    /\ untold = FALSE

Busy(h, does, at) == handler[h].does = does /\ handler[h].at = at
Goes(h, at) == handler' = [handler EXCEPT ![h].at = at] /\ UNCHANGED errors
Ends(h) == handler' = [handler EXCEPT ![h] = Rest] /\ UNCHANGED errors
Fails(h) ==
    /\ errors < MaxErrors
    /\ errors' = errors + 1
    /\ handler' = [handler EXCEPT ![h] = Rest]

\* A request comes in, or a frame of a user who has no other in progress; flag is whether
\* the text is to mention the reader, or the message to be pinned.  The sends have the
\* same nonce, and need not say the same.
Begin(h, does, by, flag) ==
    /\ handler[h] = Rest
    /\ requests < MaxRequests
    /\ does # "send" => message.is # "none"
    /\ by # NoOne => \A g \in Handler : handler[g].by # by
    /\ handler' = [handler EXCEPT ![h] = [Rest EXCEPT !.does = does, !.by = by, !.flag = flag]]
    /\ requests' = requests + 1
    /\ UNCHANGED <<message, errors, history>>

Request(h) ==
    \/ \E does \in {"send", "edit"}, flag \in BOOLEAN : Begin(h, does, Sender, flag)
    \/ \E does \in {"httpEdit", "pin"}, flag \in BOOLEAN : Begin(h, does, NoOne, flag)
    \/ Begin(h, "delete", Sender, FALSE) \/ Begin(h, "httpDelete", NoOne, FALSE)
    \/ \E u \in Reactor : Begin(h, "react", u, FALSE)

-----------------------------------------------------------------------------
\* Message::create looks for a message with the nonce; if there is one it answers, with
\* it or with NONCE_CONFLICT if it is deleted, and the send ends.  A lookup that fails
\* finds nothing.
SendLook(h) ==
    /\ Busy(h, "send", "start")
    /\ \/ IF message.is = "none" THEN Goes(h, "insert") ELSE Ends(h)
       \/ errors < MaxErrors /\ errors' = errors + 1
          /\ handler' = [handler EXCEPT ![h].at = "insert"]
    /\ UNCHANGED <<message, requests, history>>

\* A mutant of SendInsert: the index on sender and nonce is not unique.
SendInsertAgain(h) ==
    /\ Busy(h, "send", "insert")
    /\ message' = [NoMessage EXCEPT !.is = "live", !.mentions = handler[h].flag]
    /\ created' = created + 1
    /\ Goes(h, "mention")
    /\ UNCHANGED <<requests, removed, toggled, told, untold>>

\* The insertion fails where an earlier send was not found by the lookup (the second
\* lookup then answers like the first), or for any other reason; what follows it is a
\* task of its own.
SendInsert(h) ==
    /\ Busy(h, "send", "insert")
    /\ \/ /\ message.is = "none"
          /\ message' = [NoMessage EXCEPT !.is = "live", !.mentions = handler[h].flag]
          /\ created' = created + 1
          /\ handler' = [handler EXCEPT ![h].at = "mention", ![h].by = NoOne]
          /\ UNCHANGED errors
       \/ message.is # "none" /\ Ends(h) /\ UNCHANGED <<message, created>>
       \/ Fails(h) /\ UNCHANGED <<message, created>>
    /\ UNCHANGED <<requests, removed, toggled, told, untold>>

\* Who is mentioned gets a message-mention, if the lookup of who has muted the sender
\* succeeds.
SendMention(h) ==
    /\ Busy(h, "send", "mention")
    /\ \/ Ends(h) /\ told' = (told \/ handler[h].flag) /\ UNCHANGED untold
       \/ Fails(h) /\ untold' = TRUE /\ UNCHANGED told
    /\ UNCHANGED <<message, requests, created, removed, toggled>>

-----------------------------------------------------------------------------
\* An edit reads the message, even a deleted one, and keeps whom it mentions;
ReadsMentions(h) ==
    /\ \/ /\ handler' = [handler EXCEPT ![h].at = "write", ![h].prev = message.mentions]
          /\ UNCHANGED errors
       \/ Fails(h)
    /\ UNCHANGED <<message, requests, history>>

EditRead(h) == Busy(h, "edit", "start") /\ ReadsMentions(h)
HttpEditRead(h) == Busy(h, "httpEdit", "start") /\ ReadsMentions(h)

\* A mutant of Rewrites: the update does not ask whether the message is deleted.
RewritesAnyway(h) ==
    /\ message' = [message EXCEPT !.text = @ + 1, !.mentions = handler[h].flag]
    /\ Goes(h, "mention")
    /\ UNCHANGED <<requests, history>>

\* writes, unless the message is deleted by now;
Rewrites(h) ==
    /\ \/ /\ message.is = "live"
          /\ message' = [message EXCEPT !.text = @ + 1, !.mentions = handler[h].flag]
          /\ Goes(h, "mention")
       \/ message.is = "deleted" /\ Ends(h) /\ UNCHANGED message
       \/ Fails(h) /\ UNCHANGED message
    /\ UNCHANGED <<requests, history>>

EditWrite(h) == Busy(h, "edit", "write") /\ Rewrites(h)
HttpEditWrite(h) == Busy(h, "httpEdit", "write") /\ Rewrites(h)

\* A mutant of TellsNew: it compares with what is stored by now.
TellsNewLate(h) ==
    /\ Ends(h)
    /\ told' = (told \/ (handler[h].flag /\ ~message.mentions))
    /\ UNCHANGED <<message, requests, created, removed, toggled, untold>>

\* and tells who is mentioned now and was not when it read, if it can read the message
\* and the mutes again.
TellsNew(h) ==
    /\ \/ /\ Ends(h)
          /\ told' = (told \/ (handler[h].flag /\ ~handler[h].prev))
          /\ UNCHANGED untold
       \/ Fails(h) /\ untold' = TRUE /\ UNCHANGED told
    /\ UNCHANGED <<message, requests, created, removed, toggled>>

EditMention(h) == Busy(h, "edit", "mention") /\ TellsNew(h)
HttpEditMention(h) == Busy(h, "httpEdit", "mention") /\ TellsNew(h)

-----------------------------------------------------------------------------
\* A deletion reads the message, even a deleted one;
ReadsIt(h) ==
    /\ Goes(h, "write") \/ Fails(h)
    /\ UNCHANGED <<message, requests, history>>

DeleteRead(h) == Busy(h, "delete", "start") /\ ReadsIt(h)
HttpDeleteRead(h) == Busy(h, "httpDelete", "start") /\ ReadsIt(h)

\* A mutant of SoftDelete: the update does not ask whether the message is deleted.
SoftDeleteAnyway(h) ==
    /\ message' = [message EXCEPT !.is = "deleted"]
    /\ removed' = removed + 1
    /\ Ends(h)
    /\ UNCHANGED <<requests, created, toggled, told, untold>>

\* soft_delete_active: only one deletion finds the message undeleted, and goes on to the
\* file, the tip, the unread number and the event.
SoftDelete(h) ==
    /\ \/ /\ message.is = "live"
          /\ message' = [message EXCEPT !.is = "deleted"]
          /\ removed' = removed + 1
          /\ Ends(h)
       \/ message.is = "deleted" /\ Ends(h) /\ UNCHANGED <<message, removed>>
       \/ Fails(h) /\ UNCHANGED <<message, removed>>
    /\ UNCHANGED <<requests, created, toggled, told, untold>>

DeleteWrite(h) == Busy(h, "delete", "write") /\ SoftDelete(h)
HttpDeleteWrite(h) == Busy(h, "httpDelete", "write") /\ SoftDelete(h)

-----------------------------------------------------------------------------
\* A pin is refused on a deleted message,
PinRead(h) ==
    /\ Busy(h, "pin", "start")
    /\ \/ message.is = "live" /\ Goes(h, "write")
       \/ message.is = "deleted" /\ Ends(h)
       \/ Fails(h)
    /\ UNCHANGED <<message, requests, history>>

\* but written on one that was deleted since.
PinWrite(h) ==
    /\ Busy(h, "pin", "write")
    /\ \/ message' = [message EXCEPT !.pinned = handler[h].flag] /\ Ends(h)
       \/ Fails(h) /\ UNCHANGED message
    /\ UNCHANGED <<requests, history>>

-----------------------------------------------------------------------------
\* handle_reaction takes the user out if the user is in,
Pull(h) ==
    /\ Busy(h, "react", "start")
    /\ LET u == handler[h].by IN
       \/ /\ u \in message.users
          /\ message' = [message EXCEPT !.users = @ \ {u}]
          /\ toggled' = toggled \ {u}
          /\ Goes(h, "unset")
       \/ u \notin message.users /\ Goes(h, "add") /\ UNCHANGED <<message, toggled>>
       \/ Fails(h) /\ UNCHANGED <<message, toggled>>
    /\ UNCHANGED <<requests, created, removed, told, untold>>

\* A mutant of Unset: the entry goes whoever is in it by now.
UnsetAnyway(h) ==
    /\ Busy(h, "react", "unset")
    /\ message' = [message EXCEPT !.entry = FALSE, !.users = {}]
    /\ Ends(h)
    /\ UNCHANGED <<requests, history>>

\* with the whole entry if nobody is left in it,
Unset(h) ==
    /\ Busy(h, "react", "unset")
    /\ \/ message.users = {} /\ message' = [message EXCEPT !.entry = FALSE] /\ Ends(h)
       \/ message.users # {} /\ Ends(h) /\ UNCHANGED message
       \/ Fails(h) /\ UNCHANGED message
    /\ UNCHANGED <<requests, history>>

\* and puts the user in otherwise.
Add(h) ==
    /\ Busy(h, "react", "add")
    /\ \/ /\ message' = [message EXCEPT !.entry = TRUE, !.users = @ \cup {handler[h].by}]
          /\ toggled' = toggled \cup {handler[h].by}
          /\ Ends(h)
       \/ Fails(h) /\ UNCHANGED <<message, toggled>>
    /\ UNCHANGED <<requests, created, removed, told, untold>>

-----------------------------------------------------------------------------
MsgNext == \E h \in Handler :
    \/ Request(h)
    \/ SendLook(h) \/ SendInsert(h) \/ SendMention(h)
    \/ EditRead(h) \/ EditWrite(h) \/ EditMention(h)
    \/ HttpEditRead(h) \/ HttpEditWrite(h) \/ HttpEditMention(h)
    \/ DeleteRead(h) \/ DeleteWrite(h) \/ HttpDeleteRead(h) \/ HttpDeleteWrite(h)
    \/ PinRead(h) \/ PinWrite(h)
    \/ Pull(h) \/ Unset(h) \/ Add(h)

MsgSpec == MsgInit /\ [][MsgNext]_vars

-----------------------------------------------------------------------------
MsgTypeOK ==
    /\ message \in [is : {"none", "live", "deleted"}, text : Nat, mentions : BOOLEAN,
                    pinned : BOOLEAN, entry : BOOLEAN, users : SUBSET Reactor]
    /\ handler \in [Handler -> [does : {"rest", "send", "edit", "httpEdit", "delete",
                                        "httpDelete", "pin", "react"},
                                at : {"start", "insert", "mention", "write", "unset", "add"},
                                by : Reactor \cup {Sender, NoOne}, flag : BOOLEAN, prev : BOOLEAN]]
    /\ requests \in 0 .. MaxRequests /\ errors \in 0 .. MaxErrors
    /\ created \in Nat /\ removed \in Nat
    /\ toggled \subseteq Reactor /\ told \in BOOLEAN /\ untold \in BOOLEAN

\* However often a send is repeated and a deletion is asked for, at once or one after the
\* other and with lookups that fail, one send creates the message and one deletion takes
\* it away: the tip, the unread number and the quota are moved once for each.
SentAndDeletedOnce ==
    /\ created = IF message.is = "none" THEN 0 ELSE 1
    /\ removed = IF message.is = "deleted" THEN 1 ELSE 0

\* What is deleted stays so, with the text it had, whatever edit had read it before, and
\* no repeated send brings it back.
StaysDeleted ==
    message.is = "deleted" =>
        /\ message'.is = "deleted"
        /\ message'.text = message.text
        /\ message'.mentions = message.mentions
DeletedStays == [][StaysDeleted]_vars

\* Who has reacted is who last asked to, in whatever order the updates of several users
\* fall, and nobody's reaction goes with the entry that another one has emptied.
ReactionsKept == message.users = toggled /\ (message.users # {} => message.entry)

\* Whoever the stored text mentions was told, by the send or by an edit, once no handler
\* has its mention still to send and none was kept from it by an error: edits that cross,
\* each comparing with what it had read, never leave the reader out.
MentionsTold ==
    \/ message.mentions => told
    \/ untold
    \/ \E h \in Handler : handler[h].at = "mention"
=================================================================================
