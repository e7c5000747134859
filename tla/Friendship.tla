------------------------------- MODULE Friendship -------------------------------
(****************************************************************************)
(* What two people are to each other (controllers/friends.rs): the documents of *)
(* friendrequests that name them, and the cached list of friends of each        *)
(* (utils/friends/cache.rs) as far as it tells of the other.                    *)
(*                                                                          *)
(* A document keeps its id when a rejected request is sent anew, by whichever   *)
(* of the two.  The only unique index is on <<from, to>>, so that the pair may   *)
(* have two documents, one from each.  A handler looks and writes in two steps;  *)
(* what it writes by is the id, with or without the status.                     *)
(*                                                                          *)
(* A document that is deleted stays in the table as "deleted": nothing matches   *)
(* its id any more.                                                           *)
(****************************************************************************)
EXTENDS Naturals, FiniteSets

CONSTANTS
    User,        \* the two
    MaxDocs,     \* bound: documents ever inserted
    MaxHandlers, \* bound: requests in progress at once
    MaxCalls     \* bound: requests

VARIABLES
    doc,     \* id -> who asked, and what became of it
    cached,  \* user -> what the cached list of friends says of the other
    handler, \* the requests in progress
    calls,   \* requests so far
    agreed,  \* history, id -> who has asked or accepted since it was last sent
    removed, \* history: a friendship was removed, and none was made since
    excuses  \* history: the races that make the words below untrue

vars == <<doc, cached, handler, calls, agreed, removed, excuses>>

Doc == 1 .. MaxDocs
Handler == 1 .. MaxHandlers
Peer(u) == CHOOSE v \in User : v # u

Rest == [op |-> "none", by |-> Peer(CHOOSE u \in User : TRUE), id |-> 0, saw |-> "none"]

FInit ==
    /\ doc = [d \in Doc |-> [from |-> Rest.by, status |-> "absent"]]
    /\ cached = [u \in User |-> "none"]
    /\ handler = [h \in Handler |-> Rest]
    /\ calls = 0
    /\ agreed = [d \in Doc |-> {}]
    /\ removed = FALSE
    /\ excuses = {}

-----------------------------------------------------------------------------
Live(d) == doc[d].status \in {"pending", "accepted", "rejected"}
Friends == \E d \in Doc : doc[d].status = "accepted"

\* The unique index has an entry for a request from u, besides document d.
Taken(u, d) == \E e \in Doc \ {d} : Live(e) /\ doc[e].from = u

Ends(h) == handler' = [handler EXCEPT ![h] = Rest]
Goes(h, op) == handler' = [handler EXCEPT ![h].op = op]
Begins(h, u, op, d, saw) ==
    /\ handler[h].op = "none"
    /\ calls < MaxCalls
    /\ calls' = calls + 1
    /\ handler' = [handler EXCEPT ![h] = [op |-> op, by |-> u, id |-> d, saw |-> saw]]

Writes(d, status) == doc' = [doc EXCEPT ![d].status = status]

\* The lists that are being read, which will be put late, and those that are cached.
Late == {<<"late", h>> : h \in {g \in Handler : handler[g].op \in {"list", "ask"}}}
Stale(users) == {<<"stale", u>> : u \in users}

\* A document was written or deleted, and both lists are dropped.
DropLists ==
    /\ cached' = [u \in User |-> "none"]
    /\ excuses' = (excuses \ Stale(User)) \union Late

\* The request is sent anew by u, who was about to accept it.
Turned(u, d) ==
    IF \E h \in Handler : handler[h].op \in {"agree", "accept"} /\ handler[h].by = u /\ handler[h].id = d
    THEN {<<"turned", d>>} ELSE {}

\* A request is accepted.
Accepts(h, d) ==
    /\ Writes(d, "accepted")
    /\ agreed' = [agreed EXCEPT ![d] = @ \union {handler[h].by}]
    /\ removed' = FALSE
    /\ DropLists

-----------------------------------------------------------------------------
\* try_are_friends, for any reason, or as the first step of a request to be friends:
\* the list is read where it is not cached.
ReadList(h, u, op) ==
    /\ op \in {"list", "ask"}
    /\ cached[u] = "none"
    /\ Begins(h, u, op, 0, IF Friends THEN "friends" ELSE "strangers")
    /\ UNCHANGED <<doc, cached, agreed, removed, excuses>>

\* It is put in the cache.
PutList(h) ==
    LET saw == handler[h].saw
        u == handler[h].by
    IN
    /\ handler[h].op \in {"list", "ask"}
    /\ cached' = [cached EXCEPT ![u] = saw]
    /\ excuses' = (excuses \ ({<<"late", h>>} \union Stale({u})))
                    \union IF <<"late", h>> \in excuses THEN Stale({u}) ELSE {}
    /\ IF handler[h].op = "ask" /\ saw = "strangers" THEN Goes(h, "find") ELSE Ends(h)
    /\ UNCHANGED <<doc, calls, agreed, removed>>

\* The cached list will do.
AskCached(h, u) ==
    /\ cached[u] = "strangers"
    /\ Begins(h, u, "find", 0, "none")
    /\ UNCHANGED <<doc, cached, agreed, removed, excuses>>

\* 30 seconds after it was put.
ListExpires(u) ==
    /\ cached[u] # "none"
    /\ cached' = [cached EXCEPT ![u] = "none"]
    /\ excuses' = excuses \ Stale({u})
    /\ UNCHANGED <<doc, handler, calls, agreed, removed>>

\* send_friend_request looks for a document of the two, any of them.
Find(h) ==
    /\ handler[h].op = "find"
    /\ UNCHANGED <<doc, cached, calls, agreed, removed, excuses>>
    /\ \/ ~(\E d \in Doc : Live(d)) /\ Goes(h, "create")
       \/ \E d \in Doc :
            /\ Live(d)
            /\ LET go == CASE doc[d].status = "rejected" -> "again"
                           [] doc[d].status = "pending" /\ doc[d].from # handler[h].by -> "agree"
                           [] OTHER -> "none"
               IN IF go = "none"
                  THEN Ends(h)
                  ELSE handler' = [handler EXCEPT ![h].op = go, ![h].id = d]

\* The other has asked: accepted, if it is still pending.
Agree(h) ==
    LET d == handler[h].id IN
    /\ handler[h].op = "agree"
    /\ Ends(h)
    /\ UNCHANGED calls
    /\ IF doc[d].status = "pending"
       THEN Accepts(h, d)
       ELSE UNCHANGED <<doc, cached, agreed, removed, excuses>>

\* A rejected request is sent anew, whatever has become of it since, with no word to
\* the caches; the unique index may refuse it.
SendAgain(h) ==
    LET d == handler[h].id
        u == handler[h].by
    IN
    /\ handler[h].op = "again"
    /\ Ends(h)
    /\ UNCHANGED <<cached, calls>>
    /\ IF Live(d) /\ ~Taken(u, d)
       THEN /\ doc' = [doc EXCEPT ![d] = [from |-> u, status |-> "pending"]]
            /\ agreed' = [agreed EXCEPT ![d] = {u}]
            /\ excuses' = excuses \union Turned(u, d) \union
                   IF doc[d].status = "accepted"
                   THEN Late \union Stale({v \in User : cached[v] # "none"}) ELSE {}
            /\ UNCHANGED removed
       ELSE UNCHANGED <<doc, agreed, removed, excuses>>

\* A new request; the unique index refuses a second one of the same sender.
Create(h) ==
    LET u == handler[h].by IN
    /\ handler[h].op = "create"
    /\ Ends(h)
    /\ UNCHANGED <<cached, calls, removed>>
    /\ IF Taken(u, 0)
       THEN UNCHANGED <<doc, agreed, excuses>>
       ELSE \E d \in Doc :
              /\ doc[d].status = "absent"
              /\ \A e \in 1 .. d - 1 : doc[e].status # "absent"
              /\ doc' = [doc EXCEPT ![d] = [from |-> u, status |-> "pending"]]
              /\ agreed' = [agreed EXCEPT ![d] = {u}]
              /\ excuses' = IF \E e \in Doc : Live(e) THEN excuses \union {<<"twins", d>>} ELSE excuses

-----------------------------------------------------------------------------
\* A mutant of DecideRead: nobody asks who the request is to.
DecideReadAnyone(h, u, d, op) ==
    /\ doc[d].status = "pending"
    /\ Begins(h, u, op, d, "none")
    /\ UNCHANGED <<doc, cached, agreed, removed, excuses>>

\* accept_friend_request, reject_friend_request, cancel_friend_request: the document
\* is read; the first two are for whom it is to, the last for whom it is from.
DecideRead(h, u, d, op) ==
    /\ doc[d].status = "pending"
    /\ op = "cancel" <=> doc[d].from = u
    /\ Begins(h, u, op, d, "none")
    /\ UNCHANGED <<doc, cached, agreed, removed, excuses>>

\* The document is written, if it is still pending.
Accept(h) ==
    LET d == handler[h].id IN
    /\ handler[h].op = "accept"
    /\ Ends(h)
    /\ UNCHANGED calls
    /\ IF doc[d].status = "pending"
       THEN Accepts(h, d)
       ELSE UNCHANGED <<doc, cached, agreed, removed, excuses>>

Refuse(h) ==
    LET d == handler[h].id IN
    /\ handler[h].op \in {"reject", "cancel"}
    /\ Ends(h)
    /\ IF doc[d].status = "pending" THEN Writes(d, "rejected") ELSE UNCHANGED doc
    /\ UNCHANGED <<cached, calls, agreed, removed, excuses>>

\* remove_friend reads a document that is accepted
RemoveRead(h, u, d) ==
    /\ doc[d].status = "accepted"
    /\ Begins(h, u, "remove", d, "none")
    /\ UNCHANGED <<doc, cached, agreed, removed, excuses>>

\* and deletes it by its id.
Remove(h) ==
    LET d == handler[h].id IN
    /\ handler[h].op = "remove"
    /\ Ends(h)
    /\ UNCHANGED <<calls, agreed>>
    /\ IF Live(d)
       THEN /\ Writes(d, "deleted")
            /\ removed' = TRUE
            /\ DropLists
       ELSE UNCHANGED <<doc, cached, removed, excuses>>

FNext ==
    \/ \E h \in Handler :
        \/ \E u \in User :
            \/ \E op \in {"list", "ask"} : ReadList(h, u, op)
            \/ AskCached(h, u)
            \/ \E d \in Doc :
                \/ \E op \in {"accept", "reject", "cancel"} : DecideRead(h, u, d, op)
                \/ RemoveRead(h, u, d)
        \/ PutList(h) \/ Find(h) \/ Agree(h) \/ SendAgain(h) \/ Create(h)
        \/ Accept(h) \/ Refuse(h) \/ Remove(h)
    \/ \E u \in User : ListExpires(u)

FSpec == FInit /\ [][FNext]_vars

-----------------------------------------------------------------------------
FTypeOK ==
    /\ doc \in [Doc -> [from : User, status : {"absent", "pending", "accepted", "rejected", "deleted"}]]
    /\ cached \in [User -> {"none", "friends", "strangers"}]
    /\ handler \in [Handler -> [op : {"none", "list", "ask", "find", "agree", "again", "create",
                                      "accept", "reject", "cancel", "remove"},
                                by : User, id : 0 .. MaxDocs, saw : {"none", "friends", "strangers"}]]
    /\ calls \in 0 .. MaxCalls
    /\ agreed \in [Doc -> SUBSET User]
    /\ removed \in BOOLEAN
    /\ \A u \in User, d, e \in Doc :
        Live(d) /\ Live(e) /\ doc[d].from = u /\ doc[e].from = u => d = e

\* Two are friends because both have wanted it since the request was last sent:
\* nobody becomes a friend by a request that was theirs alone, but for an
\* acceptance that read the request before it was turned round.
FriendsAgreed ==
    \A d \in Doc : doc[d].status = "accepted" =>
        agreed[d] = User \/ <<"turned", d>> \in excuses

\* Whoever is removed is no friend until they are friends anew, but where two
\* requests had crossed and the pair has two documents.
RemovedAreStrangers ==
    removed => ~Friends \/ \E d \in Doc : <<"twins", d>> \in excuses

\* A cached list says what is so, but where it was read before a change and put after
\* the change had dropped it, and where a request sent anew has undone a friendship,
\* which drops no list.
ListsAreCurrent ==
    \A u \in User :
        cached[u] # "none" /\ <<"stale", u>> \notin excuses => (cached[u] = "friends" <=> Friends)
=================================================================================
