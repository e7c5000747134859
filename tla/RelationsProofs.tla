---------------------------- MODULE RelationsProofs ----------------------------
(****************************************************************************)
(* Proofs about MCRelations, for any bounds, callers and guests, and two     *)
(* people: each part has an inductive invariant of its own (FriendInv, OInv, *)
(* AInv, QInv, LInv, SInv; FileInv is that of AttachmentsProofs), and at the *)
(* end they hold side by side, as no part writes what another reads.         *)
(****************************************************************************)
EXTENDS MCRelations, AttachmentsProofs, FiniteSetTheorems, TLAPS

\* The cardinality the parts are instantiated with is that of FiniteSets.
LEMMA SameCount ==
  \A S : /\ Store!Cardinality(S) = Cardinality(S)
         /\ Rates!Cardinality(S) = Cardinality(S)
         /\ Accounts!Cardinality(S) = Cardinality(S)
  BY DEF Store!Cardinality, Rates!Cardinality, Accounts!Cardinality, Cardinality

\* How the number of elements changes where two sets differ in one element at most.
LEMMA OneMoves ==
  ASSUME NEW D, IsFiniteSet(D), NEW S \in SUBSET D, NEW T \in SUBSET D,
         NEW x, S \ {x} = T \ {x}
  PROVE  /\ Cardinality(S) \in Nat /\ Cardinality(T) \in Nat
         /\ (x \in S <=> x \in T) => Cardinality(T) = Cardinality(S)
         /\ x \in T /\ x \notin S => Cardinality(T) = Cardinality(S) + 1
         /\ x \in S /\ x \notin T => Cardinality(S) = Cardinality(T) + 1
<1>1. IsFiniteSet(S) /\ IsFiniteSet(T)
  BY FS_Subset
<1>2. Cardinality(S) \in Nat /\ Cardinality(T) \in Nat
  BY <1>1, FS_CardinalityType
<1>3. ASSUME x \in S <=> x \in T PROVE Cardinality(T) = Cardinality(S)
  <2>1. S = T
    BY <1>3
  <2> QED BY <2>1
<1>4. ASSUME x \in T, x \notin S PROVE Cardinality(T) = Cardinality(S) + 1
  <2>1. T = S \cup {x}
    BY <1>4
  <2> QED BY <1>1, <1>4, <2>1, FS_AddElement
<1>5. ASSUME x \in S, x \notin T PROVE Cardinality(S) = Cardinality(T) + 1
  <2>1. S = T \cup {x}
    BY <1>5
  <2> QED BY <1>1, <1>5, <2>1, FS_AddElement
<1> QED BY <1>2, <1>3, <1>4, <1>5

(****************************************************************************)
(* Friendship.  The facts that carry its properties through the awaits:       *)
(****************************************************************************)
\* Who writes by an id has read the document, and no id comes into use twice.
Claimed ==
    \A h \in Friend!Handler :
        deciding[h].op \in {"agree", "again", "accept", "reject", "cancel", "remove"} =>
            deciding[h].id \in Friend!Doc /\ pair[deciding[h].id].status # "absent"

\* A pending request is wanted by the one who sent it, and who is about to accept it is the
\* other, unless the request was turned round since.
WantedByBoth ==
    /\ \A d \in Friend!Doc : pair[d].status = "pending" => pair[d].from \in agreed[d]
    /\ \A h \in Friend!Handler :
        deciding[h].op \in {"agree", "accept"} /\ pair[deciding[h].id].status = "pending" =>
            \/ pair[deciding[h].id].from # deciding[h].by
            \/ <<"turned", deciding[h].id>> \in excuses

\* The pair has one document, unless two requests had crossed.
OneDocument ==
    \A d, e \in Friend!Doc : Friend!Live(d) /\ Friend!Live(e) /\ d # e =>
        \E x \in Friend!Doc : <<"twins", x>> \in excuses

\* A list that was read and not put yet says what is so, unless it is known to be late.
ReadRight ==
    \A h \in Friend!Handler :
        deciding[h].op \in {"list", "ask"} =>
            /\ deciding[h].saw # "none"
            /\ <<"late", h>> \in excuses \/ (deciding[h].saw = "friends" <=> Friend!Friends)

\* What holds of the friendship at every step.
FriendInv ==
    /\ Friend!FTypeOK /\ Claimed /\ WantedByBoth /\ OneDocument /\ ReadRight
    /\ Friend!FriendsAgreed /\ Friend!RemovedAreStrangers /\ Friend!ListsAreCurrent

\* The types of a document and of a handler.
RequestSet == [from : Person, status : {"absent", "pending", "accepted", "rejected", "deleted"}]
DecidingSet == [op : {"none", "list", "ask", "find", "agree", "again", "create",
                     "accept", "reject", "cancel", "remove"},
               by : Person, id : 0 .. MaxDocs, saw : {"none", "friends", "strangers"}]

\* A handler that rests has the type of one.
LEMMA RestIsRest ==
  /\ Friend!Rest \in DecidingSet
  /\ Friend!Rest.op = "none" /\ Friend!Rest.id = 0 /\ Friend!Rest.saw = "none"
<1>1. Friend!Rest.by \in Person /\ Friend!Rest.op = "none" /\ Friend!Rest.id = 0
          /\ Friend!Rest.saw = "none"
  BY PersonAssumption DEF Friend!Rest, Friend!Peer
<1>2. Friend!Rest = [op |-> "none", by |-> Friend!Rest.by, id |-> 0, saw |-> "none"]
  BY DEF Friend!Rest
<1> QED BY <1>1, <1>2, FriendBounds DEF DecidingSet

LEMMA FriendInit == Friend!FInit => FriendInv
<1> SUFFICES ASSUME Friend!FInit PROVE FriendInv
  OBVIOUS
<1>1. \A h \in Friend!Handler : deciding[h] = Friend!Rest
  BY DEF Friend!FInit
<1>2. \A d \in Friend!Doc : pair[d].status = "absent"
  BY DEF Friend!FInit
<1>3. \A d \in Friend!Doc : ~Friend!Live(d)
  BY <1>2 DEF Friend!Live
<1>4. Friend!FTypeOK
  <2>1. pair \in [Friend!Doc -> RequestSet]
    <3>1. Friend!Rest.by \in Person
      BY RestIsRest DEF DecidingSet
    <3> QED BY <3>1 DEF Friend!FInit, RequestSet
  <2>2. deciding \in [Friend!Handler -> DecidingSet]
    BY RestIsRest DEF Friend!FInit
  <2>3. 0 \in 0 .. MaxCalls
    BY FriendBounds
  <2>4. /\ listed \in [Person -> {"none", "friends", "strangers"}]
        /\ calls \in 0 .. MaxCalls /\ agreed \in [Friend!Doc -> SUBSET Person]
           /\ parted \in BOOLEAN
    BY <2>3 DEF Friend!FInit
  <2> QED BY <1>3, <2>1, <2>2, <2>4 DEF Friend!FTypeOK, RequestSet, DecidingSet
<1>5. Claimed /\ WantedByBoth /\ OneDocument /\ ReadRight
  BY <1>1, <1>2, <1>3, RestIsRest DEF Claimed, WantedByBoth, OneDocument, ReadRight
<1>6. Friend!FriendsAgreed /\ Friend!RemovedAreStrangers /\ Friend!ListsAreCurrent
  BY <1>2 DEF Friend!FInit, Friend!FriendsAgreed, Friend!RemovedAreStrangers,
     Friend!ListsAreCurrent
<1> QED BY <1>4, <1>5, <1>6 DEF FriendInv

-----------------------------------------------------------------------------
\* A handler that goes on, in any way that claims and has read nothing false.
LEMMA HandlerMoves ==
  ASSUME FriendInv, NEW h \in Friend!Handler, NEW q \in DecidingSet,
         deciding' = [deciding EXCEPT ![h] = q],
         calls' \in 0 .. MaxCalls, UNCHANGED <<pair, listed, agreed, parted, excuses>>,
         q.op \in {"agree", "again", "accept", "reject", "cancel", "remove"} =>
            q.id \in Friend!Doc /\ pair[q.id].status # "absent",
         q.op \in {"agree", "accept"} => pair[q.id].from # q.by,
         q.op \in {"list", "ask"} =>
            q.saw # "none" /\ (<<"late", h>> \in excuses
                \/ (q.saw = "friends" <=> Friend!Friends))
  PROVE  FriendInv'
<1>1. deciding \in [Friend!Handler -> DecidingSet]
  BY DEF FriendInv, Friend!FTypeOK, DecidingSet
<1>2. deciding' \in [Friend!Handler -> DecidingSet] /\ deciding'[h] = q
      /\ \A g \in Friend!Handler : g # h => deciding'[g] = deciding[g]
  BY <1>1
<1>3. Friend!FTypeOK'
  BY <1>2 DEF FriendInv, Friend!FTypeOK, DecidingSet, Friend!Live
<1>4. Claimed'
  BY <1>2 DEF FriendInv, Claimed
<1>5. WantedByBoth'
  BY <1>2 DEF FriendInv, WantedByBoth
<1>6. ReadRight'
  BY <1>2 DEF FriendInv, ReadRight, Friend!Friends
<1>7. OneDocument' /\ Friend!FriendsAgreed' /\ Friend!RemovedAreStrangers'
          /\ Friend!ListsAreCurrent'
  BY DEF FriendInv, OneDocument, Friend!FriendsAgreed, Friend!RemovedAreStrangers,
     Friend!ListsAreCurrent, Friend!Live, Friend!Friends
<1> QED BY <1>3, <1>4, <1>5, <1>6, <1>7 DEF FriendInv

\* A handler is done and has written nothing.
LEMMA HandlerEnds ==
  ASSUME FriendInv, NEW h \in Friend!Handler, Friend!Ends(h),
         UNCHANGED <<pair, listed, calls, agreed, parted, excuses>>
  PROVE  FriendInv'
  BY HandlerMoves, RestIsRest DEF Friend!Ends, FriendInv, Friend!FTypeOK

\* A handler takes up a call.
LEMMA HandlerBegins ==
  ASSUME FriendInv, NEW h \in Friend!Handler, NEW u \in Person, NEW op, NEW d \in 0 .. MaxDocs,
         NEW saw \in {"none", "friends", "strangers"}, Friend!Begins(h, u, op, d, saw),
         UNCHANGED <<pair, listed, agreed, parted, excuses>>,
         \/ op \in {"list", "ask"} /\ saw # "none" /\ (saw = "friends" <=> Friend!Friends)
         \/ op \in {"find", "create"}
         \/ op \in {"accept", "reject", "cancel", "remove"} /\ d \in Friend!Doc
            /\ pair[d].status # "absent" /\ (op = "accept" => pair[d].from # u)
  PROVE  FriendInv'
<1> DEFINE q == [op |-> op, by |-> u, id |-> d, saw |-> saw]
<1>1. deciding' = [deciding EXCEPT ![h] = q]
  BY DEF Friend!Begins
<1>2. q \in DecidingSet /\ q.op = op /\ q.by = u /\ q.id = d /\ q.saw = saw
  BY DEF DecidingSet
<1>3. calls' \in 0 .. MaxCalls
  BY FriendBounds DEF Friend!Begins, FriendInv, Friend!FTypeOK
<1> HIDE DEF q
<1> QED BY <1>1, <1>2, <1>3, HandlerMoves

\* A request looks for the documents of the pair, and decides by the first it finds.
LEMMA FindKeeps ==
  ASSUME FriendInv, NEW h \in Friend!Handler, Friend!Find(h)
  PROVE  FriendInv'
<1>1. deciding[h] \in DecidingSet /\ deciding[h].op = "find"
          /\ deciding \in [Friend!Handler -> DecidingSet]
  BY DEF Friend!Find, FriendInv, Friend!FTypeOK, DecidingSet
<1>2. UNCHANGED <<pair, listed, calls, agreed, parted, excuses>> /\ calls' \in 0 .. MaxCalls
  BY DEF Friend!Find, FriendInv, Friend!FTypeOK
<1>3. CASE Friend!Ends(h)
  BY <1>2, <1>3, HandlerEnds
<1>4. CASE Friend!Goes(h, "create")
  <2> DEFINE q == [deciding[h] EXCEPT !.op = "create"]
  <2>1. q \in DecidingSet /\ q.op = "create"
    BY <1>1 DEF DecidingSet
  <2>2. deciding' = [deciding EXCEPT ![h] = q]
    BY <1>4 DEF Friend!Goes
  <2> HIDE DEF q
  <2> QED BY <1>2, <2>1, <2>2, HandlerMoves
<1>5. ASSUME NEW d \in Friend!Doc, NEW go \in {"again", "agree"}, Friend!Live(d),
             go = "agree" => pair[d].from # deciding[h].by,
             deciding' = [deciding EXCEPT ![h].op = go, ![h].id = d]
      PROVE  FriendInv'
  <2> DEFINE q == [deciding[h] EXCEPT !.op = go, !.id = d]
  <2>1. q \in DecidingSet /\ q.op = go /\ q.id = d /\ q.by = deciding[h].by
    <3>1. d \in 0 .. MaxDocs
      BY FriendBounds DEF Friend!Doc
    <3> QED BY <1>1, <3>1 DEF DecidingSet
  <2>2. deciding' = [deciding EXCEPT ![h] = q]
    BY <1>1, <1>5 DEF DecidingSet
  <2>3. pair[d].status # "absent"
    BY <1>5 DEF Friend!Live
  <2> HIDE DEF q
  <2> QED BY <1>2, <1>5, <2>1, <2>2, <2>3, HandlerMoves
<1>6. \/ Friend!Ends(h) \/ Friend!Goes(h, "create")
      \/ \E d \in Friend!Doc, go \in {"again", "agree"} :
            /\ Friend!Live(d) /\ (go = "agree" => pair[d].from # deciding[h].by)
            /\ deciding' = [deciding EXCEPT ![h].op = go, ![h].id = d]
  BY DEF Friend!Find
<1> QED BY <1>3, <1>4, <1>5, <1>6

\* The calls that only read.
LEMMA ReadListKeeps ==
  ASSUME FriendInv, NEW h \in Friend!Handler, NEW u \in Person, NEW op \in {"list", "ask"},
         Friend!ReadList(h, u, op)
  PROVE  FriendInv'
<1>1. 0 \in 0 .. MaxDocs
  BY FriendBounds
<1> QED BY <1>1, HandlerBegins DEF Friend!ReadList

LEMMA AskCachedKeeps ==
  ASSUME FriendInv, NEW h \in Friend!Handler, NEW u \in Person, Friend!AskCached(h, u)
  PROVE  FriendInv'
<1>1. 0 \in 0 .. MaxDocs
  BY FriendBounds
<1> QED BY <1>1, HandlerBegins DEF Friend!AskCached

LEMMA DecideReadKeeps ==
  ASSUME FriendInv, NEW h \in Friend!Handler, NEW u \in Person, NEW d \in Friend!Doc,
         NEW op \in {"accept", "reject", "cancel"}, Friend!DecideRead(h, u, d, op)
  PROVE  FriendInv'
<1>1. d \in 0 .. MaxDocs
  BY FriendBounds DEF Friend!Doc
<1> QED BY <1>1, HandlerBegins DEF Friend!DecideRead

LEMMA RemoveReadKeeps ==
  ASSUME FriendInv, NEW h \in Friend!Handler, NEW u \in Person, NEW d \in Friend!Doc,
         Friend!RemoveRead(h, u, d)
  PROVE  FriendInv'
<1>1. d \in 0 .. MaxDocs
  BY FriendBounds DEF Friend!Doc
<1> QED BY <1>1, HandlerBegins DEF Friend!RemoveRead

\* The races that are remembered for good.
Remembered == \A n \in {"turned", "twins"}, d \in Friend!Doc : <<n, d>> \in excuses =>
    <<n, d>> \in excuses'

LEMMA EndsSpelled ==
  ASSUME FriendInv, NEW h \in Friend!Handler, Friend!Ends(h)
  PROVE  /\ deciding' \in [Friend!Handler -> DecidingSet]
         /\ deciding'[h] = Friend!Rest
         /\ \A g \in Friend!Handler : g # h => deciding'[g] = deciding[g]
<1>1. deciding \in [Friend!Handler -> DecidingSet]
  BY DEF FriendInv, Friend!FTypeOK, DecidingSet
<1> QED BY <1>1, RestIsRest DEF Friend!Ends

\* Handler h has the document d say x, of which those in A have wanted to be friends.
Rewrites(h, d, x, A) ==
    /\ Friend!Ends(h)
    /\ pair' = [pair EXCEPT ![d] = x] /\ agreed' = [agreed EXCEPT ![d] = A] /\ calls' = calls
    /\ listed' \in [Person -> {"none", "friends", "strangers"}]
    /\ parted' \in BOOLEAN
    /\ Remembered
    /\ x.status # "absent"
    /\ x.status # "deleted" =>
        /\ \A e \in Friend!Doc \ {d} : Friend!Live(e) => pair[e].from # x.from
        /\ Friend!Live(d) \/ (\A e \in Friend!Doc : ~Friend!Live(e))
           \/ <<"twins", d>> \in excuses'
    /\ x.status = "pending" =>
        /\ x.from \in A
        /\ \A g \in Friend!Handler :
            g # h /\ deciding[g].op \in {"agree", "accept"} /\ deciding[g].id = d =>
                x.from # deciding[g].by \/ <<"turned", d>> \in excuses'
    /\ x.status = "accepted" => ~parted' /\ (A = Person \/ <<"turned", d>> \in excuses')
    /\ parted' => parted \/ (Friend!Live(d) /\ x.status = "deleted")

\* A handler writes a document and is done.
LEMMA DocMoves ==
  ASSUME FriendInv, NEW h \in Friend!Handler, NEW d \in Friend!Doc, NEW x \in RequestSet,
         NEW A \in SUBSET Person, Rewrites(h, d, x, A)
  PROVE  /\ Friend!FTypeOK' /\ Claimed' /\ WantedByBoth'
         /\ OneDocument' /\ Friend!FriendsAgreed' /\ Friend!RemovedAreStrangers'
<1> USE DEF Rewrites
<1>1. pair \in [Friend!Doc -> RequestSet] /\ agreed \in [Friend!Doc -> SUBSET Person]
  BY DEF FriendInv, Friend!FTypeOK, RequestSet
<1>2. /\ pair' \in [Friend!Doc -> RequestSet] /\ pair'[d] = x
      /\ \A e \in Friend!Doc : e # d => pair'[e] = pair[e]
  BY <1>1
<1>3. /\ agreed' \in [Friend!Doc -> SUBSET Person] /\ agreed'[d] = A
      /\ \A e \in Friend!Doc : e # d => agreed'[e] = agreed[e]
  BY <1>1
<1>4. /\ deciding' \in [Friend!Handler -> DecidingSet] /\ deciding'[h] = Friend!Rest
      /\ \A g \in Friend!Handler : g # h => deciding'[g] = deciding[g]
  BY EndsSpelled
<1>5. \A e \in Friend!Doc : Friend!Live(e)' => (e = d /\ x.status # "deleted")
          \/ (e # d /\ Friend!Live(e))
  BY <1>2 DEF Friend!Live
<1>6. Friend!FTypeOK'
  <2>1. \A u \in Person, e, f \in Friend!Doc :
           Friend!Live(e)' /\ Friend!Live(f)' /\ pair'[e].from = u /\ pair'[f].from = u => e = f
    BY <1>2, <1>5 DEF FriendInv, Friend!FTypeOK
  <2>2. calls' \in 0 .. MaxCalls
    BY DEF FriendInv, Friend!FTypeOK
  <2> QED BY <1>2, <1>3, <1>4, <2>1, <2>2 DEF Friend!FTypeOK, RequestSet, DecidingSet
<1>7. Claimed'
  BY <1>2, <1>4, RestIsRest DEF FriendInv, Claimed
<1>8. WantedByBoth'
  <2>1. \A e \in Friend!Doc : pair'[e].status = "pending" => pair'[e].from \in agreed'[e]
    BY <1>2, <1>3 DEF FriendInv, WantedByBoth
  <2>2. ASSUME NEW g \in Friend!Handler, deciding'[g].op \in {"agree", "accept"},
               pair'[deciding'[g].id].status = "pending"
        PROVE  \/ pair'[deciding'[g].id].from # deciding'[g].by
               \/ <<"turned", deciding'[g].id>> \in excuses'
    <3>1. g # h /\ deciding'[g] = deciding[g]
      BY <1>4, <2>2, RestIsRest
    <3>2. deciding[g].id \in Friend!Doc
      BY <2>2, <3>1 DEF FriendInv, Claimed
    <3>3. CASE deciding[g].id = d
      BY <1>2, <2>2, <3>1, <3>3
    <3>4. CASE deciding[g].id # d
      BY <1>2, <2>2, <3>1, <3>2, <3>4 DEF FriendInv, WantedByBoth, Remembered
    <3> QED BY <3>3, <3>4
  <2> QED BY <2>1, <2>2 DEF WantedByBoth
<1>9. OneDocument'
  BY <1>5 DEF FriendInv, OneDocument, Remembered
<1>10. Friend!FriendsAgreed'
  BY <1>2, <1>3 DEF FriendInv, Friend!FriendsAgreed, Remembered
<1>11. Friend!RemovedAreStrangers'
  <2> SUFFICES ASSUME parted', NEW e \in Friend!Doc, pair'[e].status = "accepted"
               PROVE  \E y \in Friend!Doc : <<"twins", y>> \in excuses'
    BY DEF Friend!RemovedAreStrangers, Friend!Friends
  <2>1. e # d /\ pair[e].status = "accepted" /\ Friend!Live(e)
    BY <1>2 DEF Friend!Live
  <2>2. \E y \in Friend!Doc : <<"twins", y>> \in excuses
    BY <2>1 DEF FriendInv, Friend!RemovedAreStrangers, OneDocument, Friend!Friends
  <2> QED BY <2>2 DEF Remembered
<1> QED BY <1>6, <1>7, <1>8, <1>9, <1>10, <1>11

\* Both lists are dropped; what is being read will be late.
LEMMA ListsDropped ==
  ASSUME FriendInv, NEW h \in Friend!Handler, Friend!Ends(h), Friend!DropLists
  PROVE  /\ listed' \in [Person -> {"none", "friends", "strangers"}]
         /\ Remembered /\ ReadRight' /\ Friend!ListsAreCurrent'
<1>1. \A u \in Person : listed'[u] = "none"
  BY DEF Friend!DropLists
<1>2. Remembered
  BY DEF Remembered, Friend!DropLists, Friend!Stale
<1>3. ReadRight'
  <2>1. \A g \in Friend!Handler : deciding[g].op \in {"list", "ask"} =>
            <<"late", g>> \in excuses'
    BY DEF Friend!DropLists, Friend!Late
  <2> QED BY <2>1, EndsSpelled, RestIsRest DEF FriendInv, ReadRight
<1> QED BY <1>1, <1>2, <1>3 DEF Friend!DropLists, Friend!ListsAreCurrent

\* The two are to each other what they were.
LEMMA ListsStay ==
  ASSUME FriendInv, NEW h \in Friend!Handler, Friend!Ends(h), listed' = listed,
         excuses \subseteq excuses',
         Friend!Friends' <=> Friend!Friends
  PROVE  /\ listed' \in [Person -> {"none", "friends", "strangers"}]
         /\ Remembered /\ ReadRight' /\ Friend!ListsAreCurrent'
  BY EndsSpelled, RestIsRest
  DEF FriendInv, Friend!FTypeOK, Remembered, ReadRight, Friend!ListsAreCurrent

\* A pending request becomes a friendship; both lists are dropped.
LEMMA AcceptsKeeps ==
  ASSUME FriendInv, NEW h \in Friend!Handler, deciding[h].op \in {"agree", "accept"},
         Friend!Ends(h), calls' = calls,
         pair[deciding[h].id].status = "pending", Friend!Accepts(h, deciding[h].id)
  PROVE  FriendInv'
<1> DEFINE d == deciding[h].id
           x == [pair[d] EXCEPT !.status = "accepted"]
           A == agreed[d] \union {deciding[h].by}
<1>1. d \in Friend!Doc /\ deciding[h].by \in Person /\ pair[d] \in RequestSet
          /\ agreed[d] \subseteq Person
  BY DEF FriendInv, Friend!FTypeOK, Claimed, RequestSet
<1>2. x \in RequestSet /\ x.status = "accepted" /\ x.from = pair[d].from
  BY <1>1 DEF RequestSet
<1>3. pair' = [pair EXCEPT ![d] = x] /\ agreed' = [agreed EXCEPT ![d] = A] /\ parted' = FALSE
  BY DEF Friend!Accepts, Friend!Writes
<1>4. Friend!Live(d) /\ A \in SUBSET Person
  BY <1>1 DEF Friend!Live
<1>5. /\ listed' \in [Person -> {"none", "friends", "strangers"}]
      /\ Remembered /\ ReadRight' /\ Friend!ListsAreCurrent'
  BY ListsDropped DEF Friend!Accepts
<1>6. A = Person \/ <<"turned", d>> \in excuses'
  <2>1. pair[d].from \in agreed[d]
    BY <1>1 DEF FriendInv, WantedByBoth
  <2>2. pair[d].from # deciding[h].by \/ <<"turned", d>> \in excuses
    BY DEF FriendInv, WantedByBoth
  <2> QED BY <1>1, <1>5, <2>1, <2>2, PersonAssumption DEF Remembered
<1>7. \A e \in Friend!Doc \ {d} : Friend!Live(e) => pair[e].from # x.from
  BY <1>1, <1>2, <1>4 DEF FriendInv, Friend!FTypeOK, RequestSet
<1> HIDE DEF d, x, A
<1>8. /\ Friend!FTypeOK' /\ Claimed' /\ WantedByBoth'
      /\ OneDocument' /\ Friend!FriendsAgreed' /\ Friend!RemovedAreStrangers'
  <2>1. Rewrites(h, d, x, A)
    BY <1>1, <1>2, <1>3, <1>4, <1>5, <1>6, <1>7 DEF Rewrites
  <2> QED BY <2>1, <1>1, <1>2, <1>4, DocMoves
<1> QED BY <1>5, <1>8 DEF FriendInv

\* It is accepted by its document, or not any more.
LEMMA AcceptKeeps ==
  ASSUME FriendInv, NEW h \in Friend!Handler, Friend!Agree(h) \/ Friend!Accept(h)
  PROVE  FriendInv'
<1>1. deciding[h].op \in {"agree", "accept"} /\ Friend!Ends(h) /\ calls' = calls
  BY DEF Friend!Agree, Friend!Accept
<1>2. CASE pair[deciding[h].id].status = "pending"
  BY <1>1, <1>2, AcceptsKeeps DEF Friend!Agree, Friend!Accept
<1>3. CASE pair[deciding[h].id].status # "pending"
  BY <1>1, <1>3, HandlerEnds DEF Friend!Agree, Friend!Accept
<1> QED BY <1>2, <1>3

\* A pending request is rejected or cancelled.
LEMMA RefuseKeeps ==
  ASSUME FriendInv, NEW h \in Friend!Handler, Friend!Refuse(h)
  PROVE  FriendInv'
<1> DEFINE d == deciding[h].id
           x == [pair[d] EXCEPT !.status = "rejected"]
<1>1. /\ Friend!Ends(h) /\ UNCHANGED <<listed, calls, agreed, parted, excuses>>
      /\ d \in Friend!Doc /\ pair[d] \in RequestSet /\ agreed[d] \in SUBSET Person
  BY DEF Friend!Refuse, FriendInv, Friend!FTypeOK, Claimed, RequestSet
<1>2. CASE pair[d].status # "pending"
  BY <1>1, <1>2, HandlerEnds DEF Friend!Refuse
<1>3. CASE pair[d].status = "pending"
  <2>1. x \in RequestSet /\ x.status = "rejected" /\ x.from = pair[d].from
    BY <1>1 DEF RequestSet
  <2>2. pair' = [pair EXCEPT ![d] = x]
    BY <1>3 DEF Friend!Refuse, Friend!Writes
  <2>3. agreed' = [agreed EXCEPT ![d] = agreed[d]]
    BY <1>1 DEF FriendInv, Friend!FTypeOK
  <2>4. Friend!Live(d) /\ \A e \in Friend!Doc \ {d} : Friend!Live(e) => pair[e].from # x.from
    BY <1>1, <1>3, <2>1 DEF Friend!Live, FriendInv, Friend!FTypeOK, RequestSet
  <2>5. Friend!Friends' <=> Friend!Friends
    BY <1>1, <1>3, <2>1, <2>2 DEF Friend!Friends, FriendInv, Friend!FTypeOK
  <2>6. /\ listed' \in [Person -> {"none", "friends", "strangers"}]
        /\ Remembered /\ ReadRight' /\ Friend!ListsAreCurrent'
    BY <1>1, <2>5, ListsStay
  <2>7. parted' \in BOOLEAN /\ (parted' => parted)
    BY <1>1 DEF FriendInv, Friend!FTypeOK
  <2> HIDE DEF d, x
  <2>8. /\ Friend!FTypeOK' /\ Claimed' /\ WantedByBoth'
        /\ OneDocument' /\ Friend!FriendsAgreed' /\ Friend!RemovedAreStrangers'
    <3>1. x.status # "absent" /\ calls' = calls
      BY <1>1, <2>1
    <3>2. x.status # "deleted" =>
            /\ \A e \in Friend!Doc \ {d} : Friend!Live(e) => pair[e].from # x.from
            /\ Friend!Live(d) \/ (\A e \in Friend!Doc : ~Friend!Live(e))
               \/ <<"twins", d>> \in excuses'
      BY <2>4
    <3>3. x.status # "pending" /\ x.status # "accepted"
      BY <2>1
    <3>4. parted' => parted \/ (Friend!Live(d) /\ x.status = "deleted")
      BY <2>7
    <3>5. Rewrites(h, d, x, agreed[d])
      BY <1>1, <2>1, <2>2, <2>3, <2>6, <2>7, <3>1, <3>2, <3>3, <3>4 DEF Rewrites
    <3> QED BY <3>5, <1>1, <2>1, DocMoves
  <2> QED BY <2>6, <2>8 DEF FriendInv
<1> QED BY <1>2, <1>3

\* A friend, or a pending request, is removed.
LEMMA RemoveKeeps ==
  ASSUME FriendInv, NEW h \in Friend!Handler, Friend!Remove(h)
  PROVE  FriendInv'
<1> DEFINE d == deciding[h].id
           x == [pair[d] EXCEPT !.status = "deleted"]
<1>1. /\ Friend!Ends(h) /\ UNCHANGED <<calls, agreed>>
      /\ d \in Friend!Doc /\ pair[d] \in RequestSet /\ agreed[d] \in SUBSET Person
  BY DEF Friend!Remove, FriendInv, Friend!FTypeOK, Claimed, RequestSet
<1>2. CASE ~Friend!Live(d)
  BY <1>1, <1>2, HandlerEnds DEF Friend!Remove
<1>3. CASE Friend!Live(d)
  <2>1. x \in RequestSet /\ x.status = "deleted" /\ x.from = pair[d].from
    BY <1>1 DEF RequestSet
  <2>2. pair' = [pair EXCEPT ![d] = x] /\ parted' = TRUE /\ Friend!DropLists
    BY <1>3 DEF Friend!Remove, Friend!Writes
  <2>3. agreed' = [agreed EXCEPT ![d] = agreed[d]]
    BY <1>1 DEF FriendInv, Friend!FTypeOK
  <2>4. /\ listed' \in [Person -> {"none", "friends", "strangers"}]
        /\ Remembered /\ ReadRight' /\ Friend!ListsAreCurrent'
    BY <1>1, <2>2, ListsDropped
  <2> HIDE DEF d, x
  <2>5. /\ Friend!FTypeOK' /\ Claimed' /\ WantedByBoth'
        /\ OneDocument' /\ Friend!FriendsAgreed' /\ Friend!RemovedAreStrangers'
    <3>1. Rewrites(h, d, x, agreed[d])
      BY <1>1, <1>3, <2>1, <2>2, <2>3, <2>4 DEF Rewrites
    <3> QED BY <3>1, <1>1, <2>1, DocMoves
  <2> QED BY <2>4, <2>5 DEF FriendInv
<1> QED BY <1>2, <1>3

\* The first request of a pair, or one that crosses another.
LEMMA CreateKeeps ==
  ASSUME FriendInv, NEW h \in Friend!Handler, Friend!Create(h)
  PROVE  FriendInv'
<1> DEFINE u == deciding[h].by
           x == [from |-> u, status |-> "pending"]
<1>1. Friend!Ends(h) /\ UNCHANGED <<listed, calls, parted>> /\ u \in Person
  BY DEF Friend!Create, FriendInv, Friend!FTypeOK
<1>2. CASE Friend!Taken(u, 0)
  BY <1>1, <1>2, HandlerEnds DEF Friend!Create
<1>3. ASSUME NEW d \in Friend!Doc, ~Friend!Taken(u, 0), pair[d].status = "absent",
             pair' = [pair EXCEPT ![d] = x], agreed' = [agreed EXCEPT ![d] = {u}],
             excuses' = IF \E e \in Friend!Doc :
                 Friend!Live(e) THEN excuses \union {<<"twins", d>>} ELSE excuses
      PROVE  FriendInv'
  <2>1. x \in RequestSet /\ x.status = "pending" /\ x.from = u /\ {u} \in SUBSET Person
    BY <1>1 DEF RequestSet
  <2>2. \A e \in Friend!Doc : Friend!Live(e) => pair[e].from # u
    BY <1>3 DEF Friend!Taken, Friend!Doc
  <2>3. (\A e \in Friend!Doc : ~Friend!Live(e)) \/ <<"twins", d>> \in excuses'
    BY <1>3
  <2>4. \A g \in Friend!Handler : deciding[g].op \in {"agree", "accept"} => deciding[g].id # d
    BY <1>3 DEF FriendInv, Claimed
  <2>5. Friend!Friends' <=> Friend!Friends
    BY <1>3, <2>1 DEF Friend!Friends, FriendInv, Friend!FTypeOK
  <2>6. excuses \subseteq excuses'
    BY <1>3
  <2>7. /\ listed' \in [Person -> {"none", "friends", "strangers"}]
        /\ Remembered /\ ReadRight' /\ Friend!ListsAreCurrent'
    BY <1>1, <2>5, <2>6, ListsStay
  <2>8. parted' \in BOOLEAN /\ (parted' => parted)
    BY <1>1 DEF FriendInv, Friend!FTypeOK
  <2> HIDE DEF u, x
  <2>9. /\ Friend!FTypeOK' /\ Claimed' /\ WantedByBoth'
        /\ OneDocument' /\ Friend!FriendsAgreed' /\ Friend!RemovedAreStrangers'
    <3>1. x.status # "deleted" =>
            /\ \A e \in Friend!Doc \ {d} : Friend!Live(e) => pair[e].from # x.from
            /\ Friend!Live(d) \/ (\A e \in Friend!Doc : ~Friend!Live(e))
               \/ <<"twins", d>> \in excuses'
      BY <2>1, <2>2, <2>3
    <3>2. x.status = "pending" =>
            /\ x.from \in {u}
            /\ \A g \in Friend!Handler :
                  g # h /\ deciding[g].op \in {"agree", "accept"} /\ deciding[g].id = d =>
                     x.from # deciding[g].by \/ <<"turned", d>> \in excuses'
      BY <2>1, <2>4
    <3>3. x.status # "absent" /\ x.status # "accepted" /\ calls' = calls
      BY <1>1, <2>1
    <3>4. parted' => parted \/ (Friend!Live(d) /\ x.status = "deleted")
      BY <2>8
    <3>5. Rewrites(h, d, x, {u})
      BY <1>1, <1>3, <2>1, <2>7, <2>8, <3>1, <3>2, <3>3, <3>4 DEF Rewrites
    <3> QED BY <3>5, <1>3, <2>1, DocMoves
  <2> QED BY <2>7, <2>9 DEF FriendInv
<1> QED BY <1>2, <1>3 DEF Friend!Create

LEMMA SendAgainKeeps ==
  ASSUME FriendInv, NEW h \in Friend!Handler, Friend!SendAgain(h)
  PROVE  FriendInv'
<1> DEFINE d == deciding[h].id
           u == deciding[h].by
           x == [from |-> u, status |-> "pending"]
<1>1. /\ Friend!Ends(h) /\ UNCHANGED <<listed, calls>> /\ u \in Person /\ d \in Friend!Doc
      /\ deciding[h].op = "again"
  BY DEF Friend!SendAgain, FriendInv, Friend!FTypeOK, Claimed
<1>2. CASE ~(Friend!Live(d) /\ ~Friend!Taken(u, d))
  BY <1>1, <1>2, HandlerEnds DEF Friend!SendAgain
<1>3. CASE Friend!Live(d) /\ ~Friend!Taken(u, d)
  <2>1. /\ pair' = [pair EXCEPT ![d] = x] /\ agreed' = [agreed EXCEPT ![d] = {u}]
        /\ parted' = parted /\ excuses \subseteq excuses'
           /\ Friend!Turned(u, d) \subseteq excuses'
    BY <1>3 DEF Friend!SendAgain
  <2>2. pair[d].status = "accepted" =>
           /\ \A g \in Friend!Handler : deciding[g].op \in {"list", "ask"} =>
              <<"late", g>> \in excuses'
           /\ \A v \in Person : listed[v] # "none" => <<"stale", v>> \in excuses'
    BY <1>3 DEF Friend!SendAgain, Friend!Late, Friend!Stale
  <2>3. x \in RequestSet /\ x.status = "pending" /\ x.from = u /\ {u} \in SUBSET Person
    BY <1>1 DEF RequestSet
  <2>4. \A e \in Friend!Doc \ {d} : Friend!Live(e) => pair[e].from # u
    BY <1>3 DEF Friend!Taken
  <2>5. \A g \in Friend!Handler :
           g # h /\ deciding[g].op \in {"agree", "accept"} /\ deciding[g].id = d =>
              u # deciding[g].by \/ <<"turned", d>> \in excuses'
    BY <2>1 DEF Friend!Turned
  <2>6. /\ listed' \in [Person -> {"none", "friends", "strangers"}]
        /\ Remembered /\ ReadRight' /\ Friend!ListsAreCurrent'
    <3>1. CASE pair[d].status # "accepted"
      <4>1. Friend!Friends' <=> Friend!Friends
        BY <1>1, <2>1, <2>3, <3>1 DEF Friend!Friends, FriendInv, Friend!FTypeOK
      <4> QED BY <1>1, <2>1, <4>1, ListsStay
    <3>2. CASE pair[d].status = "accepted"
      <4>1. ReadRight'
        BY <1>1, <2>2, <3>2, EndsSpelled, RestIsRest DEF FriendInv, ReadRight
      <4>2. Friend!ListsAreCurrent'
        BY <1>1, <2>2, <3>2 DEF Friend!ListsAreCurrent
      <4> QED BY <1>1, <2>1, <4>1, <4>2 DEF Remembered, FriendInv, Friend!FTypeOK
    <3> QED BY <3>1, <3>2
  <2>7. parted' \in BOOLEAN /\ (parted' => parted)
    BY <2>1 DEF FriendInv, Friend!FTypeOK
  <2> HIDE DEF d, u, x
  <2>8. /\ Friend!FTypeOK' /\ Claimed' /\ WantedByBoth'
        /\ OneDocument' /\ Friend!FriendsAgreed' /\ Friend!RemovedAreStrangers'
    <3>1. x.status # "deleted" =>
            /\ \A e \in Friend!Doc \ {d} : Friend!Live(e) => pair[e].from # x.from
            /\ Friend!Live(d) \/ (\A e \in Friend!Doc : ~Friend!Live(e))
               \/ <<"twins", d>> \in excuses'
      BY <1>3, <2>3, <2>4
    <3>2. x.status = "pending" =>
            /\ x.from \in {u}
            /\ \A g \in Friend!Handler :
                  g # h /\ deciding[g].op \in {"agree", "accept"} /\ deciding[g].id = d =>
                     x.from # deciding[g].by \/ <<"turned", d>> \in excuses'
      BY <2>3, <2>5
    <3>3. x.status # "absent" /\ x.status # "accepted" /\ calls' = calls
      BY <1>1, <2>3
    <3>4. parted' => parted \/ (Friend!Live(d) /\ x.status = "deleted")
      BY <2>7
    <3>5. Rewrites(h, d, x, {u})
      BY <1>1, <2>1, <2>3, <2>6, <2>7, <3>1, <3>2, <3>3, <3>4 DEF Rewrites
    <3> QED BY <3>5, <1>1, <2>3, DocMoves
  <2> QED BY <2>6, <2>8 DEF FriendInv
<1> QED BY <1>2, <1>3

\* What concerns the lists only.
LEMMA ListMoves ==
  ASSUME FriendInv, UNCHANGED <<pair, agreed, parted>>, calls' = calls,
         deciding' \in [Friend!Handler -> DecidingSet],
         listed' \in [Person -> {"none", "friends", "strangers"}],
         \A g \in Friend!Handler : deciding'[g] = deciding[g]
             \/ deciding'[g].op \in {"none", "find"},
         Remembered, ReadRight', Friend!ListsAreCurrent'
  PROVE  FriendInv'
<1>1. Friend!FTypeOK'
  BY DEF FriendInv, Friend!FTypeOK, Friend!Live, DecidingSet
<1>2. Claimed'
  BY DEF FriendInv, Claimed
<1>3. WantedByBoth'
  <2>1. \A g \in Friend!Handler : deciding[g].op \in {"agree", "accept"} =>
            deciding[g].id \in Friend!Doc
    BY DEF FriendInv, Claimed
  <2> QED BY <2>1 DEF FriendInv, WantedByBoth, Remembered
<1>4. OneDocument' /\ Friend!RemovedAreStrangers'
  BY DEF FriendInv, OneDocument, Friend!RemovedAreStrangers, Remembered, Friend!Live,
     Friend!Friends
<1>5. Friend!FriendsAgreed'
  BY DEF FriendInv, Friend!FriendsAgreed, Remembered
<1> QED BY <1>1, <1>2, <1>3, <1>4, <1>5 DEF FriendInv

\* What was read before is cached now.
LEMMA PutListKeeps ==
  ASSUME FriendInv, NEW h \in Friend!Handler, Friend!PutList(h)
  PROVE  FriendInv'
<1> DEFINE u == deciding[h].by
           saw == deciding[h].saw
<1>1. /\ deciding[h].op \in {"list", "ask"} /\ u \in Person /\ saw \in {"friends", "strangers"}
      /\ listed' = [listed EXCEPT ![u] = saw] /\ UNCHANGED <<pair, calls, agreed, parted>>
  BY DEF Friend!PutList, FriendInv, Friend!FTypeOK, ReadRight
<1>2. /\ \A g \in Friend!Handler : g # h /\ <<"late", g>> \in excuses =>
         <<"late", g>> \in excuses'
      /\ \A v \in Person : v # u /\ <<"stale", v>> \in excuses => <<"stale", v>> \in excuses'
      /\ <<"late", h>> \in excuses => <<"stale", u>> \in excuses'
      /\ Remembered
  BY DEF Friend!PutList, Friend!Stale, Remembered
<1>3. /\ deciding' \in [Friend!Handler -> DecidingSet] /\ deciding'[h].op \in {"none", "find"}
      /\ \A g \in Friend!Handler : g # h => deciding'[g] = deciding[g]
  <2>1. deciding \in [Friend!Handler -> DecidingSet]
    BY DEF FriendInv, Friend!FTypeOK, DecidingSet
  <2>2. CASE Friend!Ends(h)
    BY <2>2, EndsSpelled, RestIsRest
  <2>3. CASE Friend!Goes(h, "find")
    <3> DEFINE q == [deciding[h] EXCEPT !.op = "find"]
    <3>1. q \in DecidingSet /\ q.op = "find" /\ deciding' = [deciding EXCEPT ![h] = q]
      BY <2>1, <2>3 DEF Friend!Goes, DecidingSet
    <3> HIDE DEF q
    <3> QED BY <2>1, <3>1
  <2> QED BY <2>2, <2>3 DEF Friend!PutList
<1>4. ReadRight'
  BY <1>1, <1>2, <1>3 DEF FriendInv, ReadRight, Friend!Friends
<1>5. listed' \in [Person -> {"none", "friends", "strangers"}] /\ listed'[u] = saw
      /\ \A v \in Person : v # u => listed'[v] = listed[v]
  BY <1>1 DEF FriendInv, Friend!FTypeOK
<1>6. Friend!ListsAreCurrent'
  BY <1>1, <1>2, <1>5 DEF FriendInv, Friend!ListsAreCurrent, ReadRight, Friend!Friends
<1> QED BY <1>1, <1>2, <1>3, <1>4, <1>5, <1>6, ListMoves

\* A list is forgotten.
LEMMA ListExpiresKeeps ==
  ASSUME FriendInv, NEW u \in Person, Friend!ListExpires(u)
  PROVE  FriendInv'
<1>1. UNCHANGED <<pair, deciding, calls, agreed, parted>>
          /\ listed' = [listed EXCEPT ![u] = "none"]
  BY DEF Friend!ListExpires
<1>2. /\ \A g \in Friend!Handler : <<"late", g>> \in excuses => <<"late", g>> \in excuses'
      /\ \A v \in Person : v # u /\ <<"stale", v>> \in excuses => <<"stale", v>> \in excuses'
      /\ Remembered
  BY DEF Friend!ListExpires, Friend!Stale, Remembered
<1>3. listed' \in [Person -> {"none", "friends", "strangers"}] /\ listed'[u] = "none"
      /\ \A v \in Person : v # u => listed'[v] = listed[v]
  BY <1>1 DEF FriendInv, Friend!FTypeOK
<1>4. ReadRight'
  BY <1>1, <1>2 DEF FriendInv, ReadRight, Friend!Friends
<1>5. Friend!ListsAreCurrent'
  BY <1>1, <1>2, <1>3 DEF FriendInv, Friend!ListsAreCurrent, Friend!Friends
<1>6. deciding' \in [Friend!Handler -> DecidingSet]
  BY <1>1 DEF FriendInv, Friend!FTypeOK, DecidingSet
<1> QED BY <1>1, <1>2, <1>3, <1>4, <1>5, <1>6, ListMoves

\* Every step of the friendship keeps all of it.
LEMMA FriendNext ==
  ASSUME FriendInv, Friend!FNext
  PROVE  FriendInv'
  BY ReadListKeeps, AskCachedKeeps, DecideReadKeeps, RemoveReadKeeps, PutListKeeps, FindKeeps,
     AcceptKeeps, SendAgainKeeps, CreateKeeps, RefuseKeeps, RemoveKeeps, ListExpiresKeeps
  DEF Friend!FNext

\* So does a step that is not of the friendship.
LEMMA FriendStays ==
  ASSUME FriendInv, UNCHANGED Friend!vars
  PROVE  FriendInv'
<1>1. Friend!FTypeOK' /\ Claimed' /\ WantedByBoth'
  BY DEF FriendInv, Friend!FTypeOK, Claimed, WantedByBoth, Friend!Live, Friend!vars
<1>2. OneDocument' /\ ReadRight' /\ Friend!FriendsAgreed'
  BY DEF FriendInv, OneDocument, ReadRight, Friend!FriendsAgreed, Friend!Live, Friend!Friends,
     Friend!vars
<1>3. Friend!RemovedAreStrangers' /\ Friend!ListsAreCurrent'
  BY DEF FriendInv, Friend!RemovedAreStrangers, Friend!ListsAreCurrent, Friend!Friends,
     Friend!vars
<1> QED BY <1>1, <1>2, <1>3 DEF FriendInv

-----------------------------------------------------------------------------
(****************************************************************************)
(* OwnLists.  A list is read, changed and written whole.                    *)
(****************************************************************************)
Active(t) == toggle[t].stage # "none"
\* Of an entry that no toggle crossed at most one is in progress, what it has read of it is
\* so until it writes, and what it has written is so until it tells it.
Followed ==
    \A e \in Person \ crossed :
        /\ \A t, o \in Lists!Toggle :
            Active(t) /\ Active(o) /\ toggle[t].entry = e /\ toggle[o].entry = e => t = o
        /\ \A t \in Lists!Toggle : toggle[t].entry = e =>
            /\ toggle[t].stage = "read" => (e \in toggle[t].copy <=> e \in blocked)
            /\ toggle[t].stage = "written" => (e \notin toggle[t].copy <=> e \in blocked)

\* With it, every answer is what the list says.
OInv == Lists!OTypeOK /\ Followed /\ Lists!ToldIsSo

\* A list begins in step with what is told.
LEMMA OInitInv == Lists!OInit => OInv
  BY PersonAssumption, ListBounds DEF Lists!OInit, OInv, Lists!OTypeOK, Followed, Lists!ToldIsSo,
     Active, Lists!Rest

\* The steps keep the types,
LEMMA OTyped == OInv /\ Lists!ONext => Lists!OTypeOK'
<1> SUFFICES ASSUME OInv, Lists!ONext PROVE Lists!OTypeOK'
  OBVIOUS
<1>1. Lists!Rest \in [stage : {"none", "asked", "read", "written"}, entry : Person, copy :
          SUBSET Person]
  BY PersonAssumption, ListBounds DEF Lists!Rest
<1>2. ASSUME NEW t \in Lists!Toggle, NEW e \in Person, Lists!ToggleAsk(t, e)
      PROVE Lists!OTypeOK'
  <2>1. made' \in 0 .. MaxToggles
    BY <1>2, ListBounds DEF OInv, Lists!OTypeOK, Lists!ToggleAsk
  <2>2. [stage |-> "asked", entry |-> e, copy |-> {}]
           \in [stage : {"none", "asked", "read", "written"}, entry : Person, copy :
               SUBSET Person]
    OBVIOUS
  <2>3. toggle' \in [Lists!Toggle -> [stage : {"none", "asked", "read", "written"}, entry :
            Person,
                                     copy : SUBSET Person]]
    BY <1>2, <2>2 DEF OInv, Lists!OTypeOK, Lists!ToggleAsk
  <2>4. /\ blocked' \subseteq Person /\ related' \subseteq Person /\ crossed' \subseteq Person
        /\ told' \in [Person -> BOOLEAN]
    BY <1>2 DEF OInv, Lists!OTypeOK, Lists!ToggleAsk
  <2> QED BY <2>1, <2>3, <2>4 DEF Lists!OTypeOK
<1>3. ASSUME NEW t \in Lists!Toggle, Lists!ToggleRead(t) PROVE Lists!OTypeOK'
  BY <1>3 DEF OInv, Lists!OTypeOK, Lists!ToggleRead
<1>4. ASSUME NEW t \in Lists!Toggle, Lists!ToggleWrite(t) PROVE Lists!OTypeOK'
  BY <1>4 DEF OInv, Lists!OTypeOK, Lists!ToggleWrite, Lists!Turned
<1>5. ASSUME NEW t \in Lists!Toggle, Lists!ToggleFails(t) PROVE Lists!OTypeOK'
  BY <1>1, <1>5 DEF OInv, Lists!OTypeOK, Lists!ToggleFails
<1>6. ASSUME NEW t \in Lists!Toggle, Lists!ToggleTell(t) PROVE Lists!OTypeOK'
  BY <1>1, <1>6 DEF OInv, Lists!OTypeOK, Lists!ToggleTell
<1>7. ASSUME NEW e \in Person, Lists!Relates(e) PROVE Lists!OTypeOK'
  BY <1>7 DEF OInv, Lists!OTypeOK, Lists!Relates
<1> QED BY <1>2, <1>3, <1>4, <1>5, <1>6, <1>7 DEF Lists!ONext, OInv, Lists!OTypeOK

\* and the answers in step.
LEMMA OFollows ==
  ASSUME OInv, Lists!ONext PROVE Followed' /\ Lists!ToldIsSo'
<1>1. ASSUME NEW t \in Lists!Toggle, NEW e \in Person, Lists!ToggleAsk(t, e)
      PROVE Followed' /\ Lists!ToldIsSo'
  BY <1>1 DEF OInv, Lists!OTypeOK, Lists!ToggleAsk, Followed, Lists!ToldIsSo, Active,
     Lists!Others
<1>2. ASSUME NEW t \in Lists!Toggle, Lists!ToggleRead(t) PROVE Followed' /\ Lists!ToldIsSo'
  BY <1>2 DEF OInv, Lists!OTypeOK, Lists!ToggleRead, Followed, Lists!ToldIsSo, Active
<1>3. ASSUME NEW t \in Lists!Toggle, Lists!ToggleWrite(t) PROVE Followed' /\ Lists!ToldIsSo'
  <2>1. \A e \in Person \ crossed' : e # toggle[t].entry => (e \in blocked' <=> e \in blocked)
    BY <1>3 DEF OInv, Lists!OTypeOK, Lists!ToggleWrite, Lists!Turned
  <2>2. toggle[t].entry \in blocked' <=> toggle[t].entry \notin toggle[t].copy
    BY <1>3 DEF OInv, Lists!OTypeOK, Lists!ToggleWrite, Lists!Turned
  <2>3. crossed \subseteq crossed' /\ told' = told
    BY <1>3 DEF Lists!ToggleWrite
  <2>4. /\ \A o \in Lists!Toggle \ {t} : toggle'[o] = toggle[o]
        /\ toggle'[t].stage = "written" /\ toggle[t].stage = "read"
        /\ toggle'[t].entry = toggle[t].entry /\ toggle'[t].copy = toggle[t].copy
    BY <1>3 DEF Lists!ToggleWrite, OInv, Lists!OTypeOK
  <2>5. Followed'
    BY <2>1, <2>2, <2>3, <2>4 DEF OInv, Followed, Active
  <2>6. Lists!ToldIsSo'
    BY <2>1, <2>2, <2>3, <2>4 DEF OInv, Lists!ToldIsSo, Followed, Active
  <2> QED BY <2>5, <2>6
<1>4. ASSUME NEW t \in Lists!Toggle, Lists!ToggleFails(t) PROVE Followed' /\ Lists!ToldIsSo'
  BY <1>4 DEF OInv, Lists!OTypeOK, Lists!ToggleFails, Followed, Lists!ToldIsSo, Active,
     Lists!Rest
<1>5. ASSUME NEW t \in Lists!Toggle, Lists!ToggleTell(t) PROVE Followed' /\ Lists!ToldIsSo'
  <2>1. /\ \A o \in Lists!Toggle \ {t} : toggle'[o] = toggle[o]
        /\ toggle[t].stage = "written" /\ toggle'[t].stage = "none"
        /\ UNCHANGED <<blocked, crossed>>
    BY <1>5 DEF Lists!ToggleTell, OInv, Lists!OTypeOK, Lists!Rest
  <2>2. \A e \in Person : told'[e] = IF e = toggle[t].entry THEN e \notin toggle[t].copy
            ELSE told[e]
    BY <1>5 DEF Lists!ToggleTell, OInv, Lists!OTypeOK
  <2>3. Followed'
    BY <2>1 DEF OInv, Followed, Active
  <2>4. ASSUME NEW e \in Person \ crossed,
               \A o \in Lists!Toggle : toggle'[o].stage = "written" => toggle'[o].entry # e
        PROVE  told'[e] <=> e \in blocked
    <3>1. CASE e = toggle[t].entry
      BY <2>1, <2>2, <3>1 DEF OInv, Followed
    <3>2. CASE e # toggle[t].entry
      <4>1. \A o \in Lists!Toggle : toggle[o].stage = "written" => toggle[o].entry # e
        BY <2>1, <2>4, <3>2
      <4> QED BY <2>2, <3>2, <4>1 DEF OInv, Lists!ToldIsSo
    <3> QED BY <3>1, <3>2
  <2> QED BY <2>1, <2>3, <2>4 DEF Lists!ToldIsSo
<1>6. ASSUME NEW e \in Person, Lists!Relates(e) PROVE Followed' /\ Lists!ToldIsSo'
  BY <1>6 DEF OInv, Lists!Relates, Followed, Lists!ToldIsSo, Active
<1> QED BY <1>1, <1>2, <1>3, <1>4, <1>5, <1>6 DEF Lists!ONext

\* A step that is not of the list leaves all as it is.
LEMMA OStays == OInv /\ UNCHANGED Lists!vars => OInv'
  BY DEF Lists!vars, OInv, Lists!OTypeOK, Followed, Lists!ToldIsSo, Active

-----------------------------------------------------------------------------
(****************************************************************************)
(* Access.  A cache is filled by a reader that may have read before the change.*)
(****************************************************************************)
Caches == Cache!Relation \cup {"typing"}
EntrySet == [says : Cache!Verdict \cup {"none"}, age : Nat]
ReaderSet == [op : {"none", "message", "typing"}, asking : 0 .. 3,
              loaded : Cache!Verdict \cup {"none"}, answer : Cache!Verdict]

\* Relations the place does not ask about permit.
Orderly ==
    /\ cache \in [Caches -> EntrySet]
    /\ drops \in Seq(Caches)
    /\ \A c \in Cache!Relation : (\A i \in 1 .. Len(Cache!Asked) : Cache!Asked[i] # c) =>
       truth[c]

\* What differs from the database was read before a change, and is no older than it.
Outdated ==
    /\ \A c \in Cache!Relation : Cache!Wrong(c) => Cache!Changed(c, cache[c].age)
    /\ Cache!Wrong("typing") => \E c \in Cache!Relation :
       Cache!Changed(c, cache["typing"].age + Cache!Longest)

\* A frame asks no more than there is to ask, and carries what was so, or has changed since;
Carried(r) ==
    /\ reader[r].op = "none" => reader[r].asking = 0
    /\ reader[r].asking <= Len(Cache!Asked) + 1
    /\ reader[r].loaded # "none" =>
        /\ reader[r].asking \in 1 .. Len(Cache!Asked)
        /\ \/ reader[r].loaded = Cache!Of(truth[Cache!Asked[reader[r].asking]])
           \/ Cache!Changed(Cache!Asked[reader[r].asking], 0)
    /\ reader[r].answer = "yes" =>
        \A i \in 1 .. Len(Cache!Asked) : i < reader[r].asking =>
            truth[Cache!Asked[i]] \/ Cache!Changed(Cache!Asked[i], Cache!Longest)
    /\ reader[r].answer = "no" =>
        \E i \in 1 .. Len(Cache!Asked) :
            i < reader[r].asking /\ (~truth[Cache!Asked[i]]
                \/ Cache!Changed(Cache!Asked[i], Cache!Longest))

\* if no change met it, it carries what is so.
Exact(r) ==
    /\ reader[r].loaded # "none" => reader[r].loaded
       = Cache!Of(truth[Cache!Asked[reader[r].asking]])
    /\ reader[r].op # "none" =>
        (reader[r].answer = "yes" <=>
            \A i \in 1 .. Len(Cache!Asked) : i < reader[r].asking => truth[Cache!Asked[i]])

\* Where no frame has met a change, what is wrong is still to be dropped.
Dropped ==
    ~met =>
        /\ \A c \in Caches : Cache!Wrong(c) => \E i \in 1 .. Len(drops) : drops[i] = c
        /\ drops # <<>> => \A r \in Cache!Reader : reader[r].op = "none"
        /\ \A r \in Cache!Reader : Exact(r)

\* What holds of the caches at every step.
AInv ==
    /\ Cache!ATypeOK /\ Orderly /\ Outdated /\ Dropped
    /\ \A r \in Cache!Reader : Carried(r)

-----------------------------------------------------------------------------

\* What is asked, and how long it may be kept.
LEMMA AskedFacts ==
  ASSUME place \in {"channel", "dm"}
  PROVE  /\ Len(Cache!Asked) \in {1, 2}
         /\ \A i \in 1 .. Len(Cache!Asked) : Cache!Asked[i] \in Cache!Relation
         /\ Cache!Longest = 2
         /\ \A i \in 1 .. Len(Cache!Asked), v \in Cache!Verdict :
            Cache!Ttl(Cache!Asked[i], v) \in 0 .. 2
<1>1. CASE place = "channel"
  <2>1. Cache!Asked = <<"access">> /\ Cache!Longest = 2
    BY <1>1 DEF Cache!Asked, Cache!Longest, Cache!Ttl
  <2>2. Len(Cache!Asked) = 1 /\ Cache!Asked[1] = "access"
    BY <2>1
  <2> QED BY <2>1, <2>2 DEF Cache!Relation, Cache!Ttl, Cache!Verdict
<1>2. CASE place = "dm"
  <2>1. Cache!Asked = <<"friends", "blocks">> /\ Cache!Longest = 2
    BY <1>2 DEF Cache!Asked, Cache!Longest, Cache!Ttl
  <2>2. Len(Cache!Asked) = 2 /\ Cache!Asked[1] = "friends" /\ Cache!Asked[2] = "blocks"
    BY <2>1
  <2> QED BY <2>1, <2>2 DEF Cache!Relation, Cache!Ttl, Cache!Verdict
<1> QED BY <1>1, <1>2

LEMMA SamePlace == UNCHANGED place => Cache!Asked' = Cache!Asked
    /\ Cache!Longest' = Cache!Longest
  BY DEF Cache!Asked, Cache!Longest

\* What is cached has an age its time permits.
LEMMA EntryAges ==
  ASSUME AInv, NEW c \in Caches
  PROVE  /\ cache[c] \in EntrySet
         /\ cache[c].says # "none" =>
              /\ cache[c].says \in Cache!Verdict
              /\ cache[c].age \in 0 .. Cache!Ttl(c, cache[c].says)
              /\ cache[c].age \in 0 .. 3 /\ (c # "typing" => cache[c].age \in 0 .. 2)
         /\ cache[c].says = "none" => cache[c] = Cache!Empty
<1>1. cache[c] \in EntrySet
  BY DEF AInv, Orderly
<1>2. cache[c] = Cache!Empty \/ (cache[c].says \in Cache!Verdict
          /\ cache[c].age \in 0 .. Cache!Ttl(c, cache[c].says))
  BY DEF AInv, Cache!ATypeOK, Caches
<1>3. \A v \in Cache!Verdict : Cache!Ttl(c, v) \in 0 .. 3
          /\ (c # "typing" => Cache!Ttl(c, v) \in 0 .. 2)
  BY DEF Cache!Ttl, Caches, Cache!Relation, Cache!Verdict
<1>4. "none" \notin Cache!Verdict
  BY DEF Cache!Verdict
<1>5. Cache!Empty.says = "none"
  BY DEF Cache!Empty
<1> QED BY <1>1, <1>2, <1>3, <1>4, <1>5

\* The caches begin empty.
LEMMA AInitInv == Cache!AInit => AInv
<1> SUFFICES ASSUME Cache!AInit PROVE AInv
  OBVIOUS
<1>1. Cache!Empty \in EntrySet /\ Cache!Empty.says = "none"
  BY DEF Cache!Empty, EntrySet
<1>2. \A c \in Caches : cache[c] = Cache!Empty
  BY DEF Cache!AInit, Caches
<1>3. cache \in [Caches -> EntrySet]
  BY <1>1 DEF Cache!AInit, Caches
<1>4. Cache!Rest \in ReaderSet /\ Cache!Rest.op = "none" /\ Cache!Rest.asking = 0
          /\ Cache!Rest.loaded = "none" /\ Cache!Rest.answer = "yes"
  BY DEF Cache!Rest, ReaderSet, Cache!Verdict
<1>5. Cache!ATypeOK
  <2>1. /\ place \in {"channel", "dm"} /\ truth \in [Cache!Relation -> BOOLEAN]
           /\ met \in BOOLEAN
    BY DEF Cache!AInit
  <2>3. since \in [Cache!Relation -> 0 .. Cache!Forever]
    BY DEF Cache!AInit, Cache!Forever
  <2>4. Len(drops) <= 3
    BY DEF Cache!AInit
  <2>2. reader \in [Cache!Reader -> ReaderSet]
    BY <1>4 DEF Cache!AInit
  <2> QED BY <1>2, <2>1, <2>2, <2>3, <2>4 DEF Cache!ATypeOK, Caches, ReaderSet
<1>6. Orderly
  BY <1>3 DEF Cache!AInit, Orderly
<1>7. \A c \in Caches : ~Cache!Wrong(c)
  BY <1>1, <1>2 DEF Cache!Wrong
<1>8. Outdated
  BY <1>7 DEF Outdated, Caches
<1>9. \A r \in Cache!Reader : Carried(r)
  BY <1>4, AskedFacts DEF Cache!AInit, Carried
<1>10. Dropped
  BY <1>4, <1>7 DEF Cache!AInit, Dropped, Exact
<1> QED BY <1>5, <1>6, <1>8, <1>9, <1>10 DEF AInv

LEMMA AStays == AInv /\ UNCHANGED Cache!vars => AInv'
<1> SUFFICES ASSUME AInv, UNCHANGED Cache!vars PROVE AInv'
  OBVIOUS
<1>1. Cache!ATypeOK' /\ Orderly'
  BY DEF AInv, Cache!vars, Cache!ATypeOK, Orderly, Cache!Asked
<1>2. \A c : Cache!Wrong(c)' <=> Cache!Wrong(c)
  BY DEF Cache!vars, Cache!Wrong, Cache!May
<1>3. Outdated'
  BY <1>2 DEF AInv, Cache!vars, Outdated, Cache!Changed, Cache!Longest
<1>4. \A r \in Cache!Reader : Carried(r)' /\ (Exact(r)' <=> Exact(r))
  BY DEF AInv, Cache!vars, Carried, Exact, Cache!Asked, Cache!Changed, Cache!Longest
<1>5. Dropped'
  BY <1>2, <1>4 DEF AInv, Cache!vars, Dropped
<1> QED BY <1>1, <1>3, <1>4, <1>5 DEF AInv

\* A step of one frame: what it leaves in the caches, and what it carries on.
LEMMA Reading ==
  ASSUME AInv, NEW r \in Cache!Reader, NEW new \in ReaderSet, Cache!Reads(r, new),
         UNCHANGED <<place, truth, drops, since>>,
         cache' \in [Caches -> EntrySet],
         \A c \in Caches : cache'[c] = cache[c] \/
            (cache'[c].says \in Cache!Verdict /\ cache'[c].age = 0),
         Outdated',
         ~met' => \A c \in Caches : Cache!Wrong(c)' => Cache!Wrong(c),
         Carried(r)', ~met' => Exact(r)'
  PROVE  AInv'
<1>1. /\ reader' = [reader EXCEPT ![r] = new] /\ reader \in [Cache!Reader -> ReaderSet]
      /\ met' = (met \/ drops # <<>>)
  BY DEF Cache!Reads, AInv, Cache!ATypeOK, ReaderSet
<1>2. reader' \in [Cache!Reader -> ReaderSet]
          /\ \A o \in Cache!Reader \ {r} : reader'[o] = reader[o]
  BY <1>1
<1>3. ASSUME NEW c \in Caches
      PROVE  \/ cache'[c] = Cache!Empty
             \/ cache'[c].says \in Cache!Verdict
                /\ cache'[c].age \in 0 .. Cache!Ttl(c, cache'[c].says)
  <2>1. CASE cache'[c] = cache[c]
    BY <2>1 DEF AInv, Cache!ATypeOK, Caches
  <2>2. CASE cache'[c].says \in Cache!Verdict /\ cache'[c].age = 0
    <3>1. Cache!Ttl(c, cache'[c].says) \in Nat
      BY <2>2 DEF Cache!Ttl, Caches, Cache!Relation
    <3> QED BY <2>2, <3>1
  <2> QED BY <2>1, <2>2
<1>4. Cache!ATypeOK'
  <2>1. met' \in BOOLEAN
    BY <1>1
  <2> QED BY <1>2, <1>3, <2>1 DEF AInv, Cache!ATypeOK, ReaderSet, Caches
<1>5. Orderly'
  BY SamePlace DEF AInv, Orderly
<1>6. \A o \in Cache!Reader : Carried(o)'
  <2>1. ASSUME NEW o \in Cache!Reader \ {r} PROVE Carried(o)'
    <3>1. Carried(o) /\ reader'[o] = reader[o]
      BY <1>2 DEF AInv
    <3>2. Cache!Asked' = Cache!Asked /\ Cache!Longest' = Cache!Longest /\ truth' = truth
              /\ since' = since
      BY SamePlace
    <3> QED BY <3>1, <3>2 DEF Carried, Cache!Changed
  <2> QED BY <2>1
<1>7. ASSUME ~met' PROVE \A o \in Cache!Reader : Exact(o)'
  <2>1. ASSUME NEW o \in Cache!Reader \ {r} PROVE Exact(o)'
    <3>1. ~met /\ reader'[o] = reader[o]
      BY <1>1, <1>2, <1>7
    <3>2. Exact(o)
      BY <3>1 DEF AInv, Dropped
    <3>3. Cache!Asked' = Cache!Asked /\ truth' = truth
      BY SamePlace
    <3> QED BY <3>1, <3>2, <3>3 DEF Exact
  <2> QED BY <1>7, <2>1
<1>8. Dropped'
  BY <1>1, <1>7 DEF AInv, Dropped
<1> QED BY <1>4, <1>5, <1>6, <1>8 DEF AInv

\* A frame that gets the answer of the relation it asks carries it on.
LEMMA Getting ==
  ASSUME AInv, NEW r \in Cache!Reader, NEW c \in Cache!Relation, Cache!Asks(r, c),
         NEW found \in Cache!Verdict,
         Cache!Reads(r, Cache!With(r, found)), UNCHANGED <<place, truth, drops, since>>,
         found = Cache!Of(truth[c]) \/ Cache!Changed(c, Cache!Longest),
         ~met /\ drops = <<>> => found = Cache!Of(truth[c])
  PROVE  Cache!With(r, found) \in ReaderSet /\ Carried(r)' /\ (~met' => Exact(r)')
<1>1. /\ reader[r] \in ReaderSet /\ reader' = [reader EXCEPT ![r] = Cache!With(r, found)]
      /\ reader'[r] = Cache!With(r, found)
      /\ met' = (met \/ drops # <<>>)
  BY DEF Cache!Reads, AInv, Cache!ATypeOK, ReaderSet
<1>2. /\ Len(Cache!Asked) \in {1, 2} /\ reader[r].asking \in 1 .. Len(Cache!Asked)
         /\ Cache!Asked[reader[r].asking] = c
      /\ \A i \in 1 .. Len(Cache!Asked) : Cache!Asked[i] \in Cache!Relation
  BY AskedFacts DEF Cache!Asks, AInv, Cache!ATypeOK
<1>3. Cache!With(r, found) = [op |-> reader[r].op, asking |-> reader[r].asking + 1,
          loaded |-> "none",
                          answer |-> IF found = "no" THEN "no" ELSE reader[r].answer]
  <2>1. reader[r] = [op |-> reader[r].op, asking |-> reader[r].asking,
                     loaded |-> reader[r].loaded, answer |-> reader[r].answer]
    BY <1>1 DEF ReaderSet
  <2> DEFINE R == [op |-> reader[r].op, asking |-> reader[r].asking,
                   loaded |-> reader[r].loaded, answer |-> reader[r].answer]
  <2>2. Cache!With(r, found) =
          [R EXCEPT !.asking = R.asking + 1, !.loaded = "none",
                    !.answer = IF found = "no" THEN "no" ELSE R.answer]
    BY <2>1 DEF Cache!With
  <2> QED BY <2>2
<1>4. Cache!With(r, found) \in ReaderSet
  BY <1>1, <1>2, <1>3 DEF ReaderSet, Cache!Verdict
<1>5. reader[r].op # "none"
  BY <1>2 DEF AInv, Carried
<1>6. \A i \in 1 .. Len(Cache!Asked) : i < reader[r].asking + 1 => i < reader[r].asking
          \/ i = reader[r].asking
  BY <1>2
<1>7. truth[c] \in BOOLEAN /\ (found = "no" \/ found = "yes")
          /\ (found = Cache!Of(truth[c]) <=> (found = "yes" <=> truth[c]))
  BY DEF AInv, Cache!ATypeOK, Cache!Of, Cache!Verdict
<1>8. Carried(r)'
  <2>1. reader'[r].asking = reader[r].asking + 1 /\ reader'[r].loaded = "none"
            /\ reader'[r].op = reader[r].op
        /\ reader'[r].answer = IF found = "no" THEN "no" ELSE reader[r].answer
    BY <1>1, <1>3
  <2>2. ASSUME reader'[r].answer = "yes", NEW i \in 1 .. Len(Cache!Asked), i < reader'[r].asking
        PROVE  truth[Cache!Asked[i]] \/ Cache!Changed(Cache!Asked[i], Cache!Longest)
    <3>1. found = "yes" /\ reader[r].answer = "yes"
      BY <1>7, <2>1, <2>2
    <3>2. CASE i = reader[r].asking
      BY <1>2, <1>7, <3>1, <3>2
    <3>3. CASE i < reader[r].asking
      BY <3>1, <3>3 DEF AInv, Carried
    <3> QED BY <1>6, <2>1, <2>2, <3>2, <3>3
  <2>3. ASSUME reader'[r].answer = "no"
        PROVE  \E i \in 1 .. Len(Cache!Asked) : i < reader'[r].asking
            /\ (~truth[Cache!Asked[i]] \/ Cache!Changed(Cache!Asked[i], Cache!Longest))
    <3>1. CASE found = "no"
      BY <1>2, <1>7, <2>1, <3>1
    <3>2. CASE reader[r].answer = "no"
      <4>1. PICK i \in 1 .. Len(Cache!Asked) : i < reader[r].asking
                /\ (~truth[Cache!Asked[i]] \/ Cache!Changed(Cache!Asked[i], Cache!Longest))
        BY <3>2 DEF AInv, Carried
      <4> QED BY <1>2, <2>1, <4>1
    <3> QED BY <2>1, <2>3, <3>1, <3>2
  <2> QED BY <1>2, <1>5, <2>1, <2>2, <2>3, SamePlace DEF Carried, Cache!Changed
<1>9. ASSUME ~met' PROVE Exact(r)'
  <2>1. found = Cache!Of(truth[c]) /\ Exact(r)
    BY <1>1, <1>9 DEF AInv, Dropped
  <2>2. reader'[r].asking = reader[r].asking + 1 /\ reader'[r].loaded = "none"
            /\ reader'[r].op = reader[r].op
        /\ reader'[r].answer = IF found = "no" THEN "no" ELSE reader[r].answer
    BY <1>1, <1>3
  <2>3. reader[r].answer = "yes" <=> \A i \in 1 .. Len(Cache!Asked) : i < reader[r].asking =>
            truth[Cache!Asked[i]]
    BY <1>5, <2>1 DEF Exact
  <2>4. (\A i \in 1 .. Len(Cache!Asked) : i < reader'[r].asking => truth[Cache!Asked[i]])
        <=> (\A i \in 1 .. Len(Cache!Asked) : i < reader[r].asking => truth[Cache!Asked[i]])
            /\ truth[c]
    BY <1>2, <1>6, <2>2
  <2>5. reader'[r].answer = "yes" <=> \A i \in 1 .. Len(Cache!Asked) : i < reader'[r].asking =>
            truth[Cache!Asked[i]]
    BY <1>7, <2>1, <2>2, <2>3, <2>4
  <2> QED BY <2>2, <2>5, SamePlace DEF Exact
<1> QED BY <1>4, <1>8, <1>9

-----------------------------------------------------------------------------
\* The frames' steps that leave the caches alone.
LEMMA SameCaches ==
  ASSUME AInv, UNCHANGED <<place, truth, cache, since>>
  PROVE  Outdated' /\ \A c : Cache!Wrong(c)' <=> Cache!Wrong(c)
<1>1. \A c : Cache!Wrong(c)' <=> Cache!Wrong(c)
  BY DEF Cache!Wrong, Cache!May
<1> QED BY <1>1, SamePlace DEF AInv, Outdated, Cache!Changed

\* A frame begins to ask.
LEMMA AsksKeep ==
  ASSUME AInv, NEW r \in Cache!Reader, NEW kind \in {"message", "typing"}, Cache!Ask(r, kind)
  PROVE  AInv'
<1>0. kind \in {"none", "message", "typing"} /\ kind # "none"
  OBVIOUS
<1> PICK n \in 0 .. 3 : n = 1
  OBVIOUS
<1> DEFINE new == [Cache!Rest EXCEPT !.op = kind, !.asking = n]
<1>1. Cache!Rest \in ReaderSet /\ Cache!Rest.loaded = "none" /\ Cache!Rest.answer = "yes"
  BY DEF Cache!Rest, ReaderSet, Cache!Verdict
<1>2. /\ new \in ReaderSet
      /\ new.op = kind /\ new.asking = 1 /\ new.loaded = "none" /\ new.answer = "yes"
  BY <1>0, <1>1 DEF ReaderSet
<1>6. Cache!Reads(r, [Cache!Rest EXCEPT !.op = kind, !.asking = 1])
          /\ UNCHANGED <<place, truth, cache, drops, since>>
  BY DEF Cache!Ask
<1>7. Cache!Reads(r, new)
  BY <1>6, Zenon
<1> HIDE DEF new
<1>3. /\ Cache!Reads(r, new) /\ UNCHANGED <<place, truth, cache, drops, since>>
      /\ reader' = [reader EXCEPT ![r] = new] /\ reader \in [Cache!Reader -> ReaderSet]
  BY <1>6, <1>7 DEF Cache!Reads, AInv, Cache!ATypeOK, ReaderSet
<1>4. reader'[r] = new
  BY <1>3
<1>5. Len(Cache!Asked) \in {1, 2}
  BY AskedFacts DEF AInv, Cache!ATypeOK
<1>9. Carried(r)' /\ Exact(r)'
  <2>1. /\ reader'[r].op # "none" /\ reader'[r].asking = 1 /\ reader'[r].loaded = "none"
        /\ reader'[r].answer = "yes"
    BY <1>0, <1>2, <1>4
  <2>2. Len(Cache!Asked)' = Len(Cache!Asked) /\ \A i \in 1 .. Len(Cache!Asked) : ~(i < 1)
    BY <1>3, <1>5, SamePlace
  <2> QED BY <1>5, <2>1, <2>2 DEF Carried, Exact
<1>8. cache' \in [Caches -> EntrySet]
  BY <1>3 DEF AInv, Orderly
<1> QED BY <1>2, <1>3, <1>9, <1>8, SameCaches, Reading

\* The cache answers.
LEMMA HitKeeps ==
  ASSUME AInv, NEW r \in Cache!Reader, NEW c \in Cache!Relation, Cache!Hit(r, c)
  PROVE  AInv'
<1>1. c \in Caches /\ c # "typing" /\ cache[c].says # "none"
  BY DEF Cache!Hit, Caches, Cache!Relation
<1>2. cache[c].says \in Cache!Verdict /\ cache[c].age \in 0 .. 2
  BY <1>1, EntryAges
<1>3. Cache!Longest = 2 /\ since[c] \in Nat
  BY AskedFacts DEF AInv, Cache!ATypeOK
<1>4. cache[c].says = Cache!Of(truth[c]) \/ Cache!Changed(c, Cache!Longest)
  <2>1. CASE Cache!Wrong(c)
    BY <1>2, <1>3, <2>1 DEF AInv, Outdated, Cache!Changed
  <2>2. CASE ~Cache!Wrong(c)
    BY <1>1, <2>2 DEF Cache!Wrong
  <2> QED BY <2>1, <2>2
<1>5. ~met /\ drops = <<>> => cache[c].says = Cache!Of(truth[c])
  <2>1. ~met /\ drops = <<>> => ~Cache!Wrong(c)
    BY <1>1 DEF AInv, Dropped
  <2> QED BY <1>1, <2>1 DEF Cache!Wrong
<1>6. Cache!Reads(r, Cache!With(r, cache[c].says)) /\ Cache!Asks(r, c)
          /\ UNCHANGED <<place, truth, cache, drops, since>>
  BY DEF Cache!Hit
<1>7. Cache!With(r, cache[c].says) \in ReaderSet /\ Carried(r)' /\ (~met' => Exact(r)')
  BY <1>2, <1>4, <1>5, <1>6, Getting
<1>8. cache' \in [Caches -> EntrySet]
  BY <1>6 DEF AInv, Orderly
<1> QED BY <1>6, <1>7, <1>8, SameCaches, Reading

\* The store answers: what is so now.
LEMMA LoadKeeps ==
  ASSUME AInv, NEW r \in Cache!Reader, NEW c \in Cache!Relation, Cache!Load(r, c)
  PROVE  AInv'
<1> DEFINE new == [reader[r] EXCEPT !.loaded = Cache!Of(truth[c])]
<1>1. /\ Cache!Reads(r, new) /\ Cache!Asks(r, c)
         /\ UNCHANGED <<place, truth, cache, drops, since>>
      /\ reader' = [reader EXCEPT ![r] = new] /\ reader \in [Cache!Reader -> ReaderSet]
  BY DEF Cache!Load, Cache!Reads, AInv, Cache!ATypeOK, ReaderSet
<1>2. new = [op |-> reader[r].op, asking |-> reader[r].asking, loaded |-> Cache!Of(truth[c]),
          answer |-> reader[r].answer]
  BY <1>1 DEF ReaderSet
<1>3. Cache!Of(truth[c]) \in Cache!Verdict
  BY DEF Cache!Of, Cache!Verdict
<1>4. reader[r] \in ReaderSet
  BY <1>1
<1>5. new \in ReaderSet
  BY <1>2, <1>3, <1>4 DEF ReaderSet
<1>6. reader'[r] = new
  BY <1>1
<1>7. /\ reader'[r].op = reader[r].op /\ reader'[r].asking = reader[r].asking
      /\ reader'[r].loaded = Cache!Of(truth[c]) /\ reader'[r].answer = reader[r].answer
  BY <1>2, <1>6
<1>8. Carried(r)
  BY DEF AInv
<1>9. reader[r].asking \in 1 .. Len(Cache!Asked) /\ c = Cache!Asked[reader[r].asking]
  BY <1>1 DEF Cache!Asks
<1>10. Carried(r)'
  BY <1>1, <1>7, <1>8, <1>9, SamePlace DEF Carried, Cache!Changed
<1>11. ASSUME ~met' PROVE Exact(r)'
  <2>1. Exact(r)
    BY <1>1, <1>11 DEF AInv, Dropped, Cache!Reads
  <2> QED BY <1>1, <1>7, <1>9, <2>1, SamePlace DEF Exact
<1>12. cache' \in [Caches -> EntrySet]
  BY <1>1 DEF AInv, Orderly
<1> QED BY <1>1, <1>5, <1>10, <1>11, <1>12, SameCaches, Reading

\* A frame that is done carries nothing.
LEMMA RestFits ==
  ASSUME AInv, NEW r \in Cache!Reader, Cache!Reads(r, Cache!Rest),
         UNCHANGED <<place, truth, drops, since>>
  PROVE  Cache!Rest \in ReaderSet /\ Carried(r)' /\ Exact(r)'
<1>1. Cache!Rest \in ReaderSet /\ Cache!Rest.op = "none" /\ Cache!Rest.asking = 0
          /\ Cache!Rest.loaded = "none" /\ Cache!Rest.answer = "yes"
  BY DEF Cache!Rest, ReaderSet, Cache!Verdict
<1>2. reader'[r] = Cache!Rest
  BY DEF Cache!Reads, AInv, Cache!ATypeOK
<1>3. Len(Cache!Asked) \in {1, 2}
  BY AskedFacts DEF AInv, Cache!ATypeOK
<1> QED BY <1>1, <1>2, <1>3, SamePlace DEF Carried, Exact

LEMMA LoadFailsKeeps ==
  ASSUME AInv, NEW r \in Cache!Reader, NEW c \in Cache!Relation, Cache!LoadFails(r, c)
  PROVE  AInv'
<1>1. Cache!Reads(r, Cache!Rest) /\ UNCHANGED <<place, truth, cache, drops, since>>
  BY DEF Cache!LoadFails
<1>2. cache' \in [Caches -> EntrySet]
  BY <1>1 DEF AInv, Orderly
<1> QED BY <1>1, <1>2, RestFits, SameCaches, Reading

\* What is put in a cache.
LEMMA PutFits ==
  ASSUME AInv, NEW c \in Caches, NEW found \in Cache!Verdict, Cache!Put(c, found),
         UNCHANGED <<place, truth, since>>
  PROVE  /\ cache' \in [Caches -> EntrySet]
         /\ \A d \in Caches : cache'[d] = cache[d]
            \/ (cache'[d].says \in Cache!Verdict /\ cache'[d].age = 0)
         /\ \A d \in Caches \ {c} : cache'[d] = cache[d] /\ (Cache!Wrong(d)' <=> Cache!Wrong(d))
         /\ cache'[c].age = 0 /\ cache'[c].says = found /\ found # "none"
<1>1. [says |-> found, age |-> 0] \in EntrySet
  BY DEF EntrySet
<1>2. /\ cache' \in [Caches -> EntrySet] /\ cache'[c] = [says |-> found, age |-> 0]
      /\ \A d \in Caches \ {c} : cache'[d] = cache[d]
  BY <1>1 DEF Cache!Put, AInv, Orderly
<1>3. \A d \in Caches \ {c} : Cache!Wrong(d)' <=> Cache!Wrong(d)
  BY <1>2 DEF Cache!Wrong, Cache!May
<1> QED BY <1>2, <1>3 DEF Cache!Verdict

\* The answer of the store is put in the cache.
LEMMA FillKeeps ==
  ASSUME AInv, NEW r \in Cache!Reader, NEW c \in Cache!Relation, Cache!Fill(r, c)
  PROVE  AInv'
<1>1. /\ Cache!Asks(r, c) /\ reader[r].loaded # "none" /\ Cache!Put(c, reader[r].loaded)
      /\ Cache!Reads(r, Cache!With(r, reader[r].loaded))
         /\ UNCHANGED <<place, truth, drops, since>>
      /\ met' = (met \/ drops # <<>>)
  BY DEF Cache!Fill, Cache!Reads
<1>2. reader[r].loaded \in Cache!Verdict /\ c \in Caches /\ c # "typing"
  BY <1>1 DEF AInv, Cache!ATypeOK, Caches, Cache!Relation
<1>3. reader[r].loaded = Cache!Of(truth[c]) \/ Cache!Changed(c, 0)
  BY <1>1 DEF AInv, Carried, Cache!Asks
<1>4. Cache!Longest = 2 /\ since[c] \in Nat
  BY AskedFacts DEF AInv, Cache!ATypeOK
<1>5. reader[r].loaded = Cache!Of(truth[c]) \/ Cache!Changed(c, Cache!Longest)
  BY <1>3, <1>4 DEF Cache!Changed
<1>6. ~met /\ drops = <<>> => reader[r].loaded = Cache!Of(truth[c])
  BY <1>1 DEF AInv, Dropped, Exact, Cache!Asks
<1>7. Cache!With(r, reader[r].loaded) \in ReaderSet /\ Carried(r)' /\ (~met' => Exact(r)')
  BY <1>1, <1>2, <1>5, <1>6, Getting
<1>8. /\ cache' \in [Caches -> EntrySet]
      /\ \A d \in Caches : cache'[d] = cache[d]
         \/ (cache'[d].says \in Cache!Verdict /\ cache'[d].age = 0)
      /\ \A d \in Caches \ {c} : cache'[d] = cache[d] /\ (Cache!Wrong(d)' <=> Cache!Wrong(d))
      /\ cache'[c].age = 0 /\ cache'[c].says = reader[r].loaded /\ reader[r].loaded # "none"
  BY <1>1, <1>2, PutFits
<1>9. Cache!Wrong(c)' <=> reader[r].loaded # Cache!Of(truth[c])
  BY <1>1, <1>2, <1>8 DEF Cache!Wrong
<1>10. Outdated'
  <2>1. ASSUME NEW d \in Cache!Relation, Cache!Wrong(d)' PROVE since[d] <= cache'[d].age
    <3>1. CASE d = c
      BY <1>3, <1>8, <1>9, <2>1, <3>1 DEF Cache!Changed
    <3>2. CASE d # c
      BY <1>8, <2>1, <3>2 DEF AInv, Outdated, Cache!Changed, Caches
    <3> QED BY <3>1, <3>2
  <2>2. Cache!Wrong("typing")' => \E d \in Cache!Relation :
            since[d] <= cache'["typing"].age + Cache!Longest
    BY <1>2, <1>8 DEF AInv, Outdated, Cache!Changed, Caches
  <2> QED BY <1>1, <2>1, <2>2, SamePlace DEF Outdated, Cache!Changed
<1>11. ~met' => \A d \in Caches : Cache!Wrong(d)' => Cache!Wrong(d)
  BY <1>1, <1>6, <1>8, <1>9
<1> QED BY <1>1, <1>7, <1>8, <1>10, <1>11, Reading

\* All is asked: a typing frame caches what came of it.
LEMMA AnswerKeeps ==
  ASSUME AInv, NEW r \in Cache!Reader, Cache!Answer(r)
  PROVE  AInv'
<1>1. /\ Cache!Reads(r, Cache!Rest) /\ UNCHANGED <<place, truth, drops, since>>
      /\ met' = (met \/ drops # <<>>)
      /\ Cache!Rest \in ReaderSet /\ Carried(r)' /\ Exact(r)'
  BY RestFits DEF Cache!Answer, Cache!Reads
<1>2. CASE UNCHANGED cache
  <2>1. cache' \in [Caches -> EntrySet]
    BY <1>2 DEF AInv, Orderly
  <2> QED BY <1>1, <1>2, <2>1, SameCaches, Reading
<1>3. CASE reader[r].op = "typing" /\ Cache!Put("typing", reader[r].answer)
  <2>0. reader[r].answer \in Cache!Verdict /\ "typing" \in Caches /\ reader[r].asking \in Nat
            /\ reader[r].asking > Len(Cache!Asked)
    BY DEF AInv, Cache!ATypeOK, Caches, Cache!Answer
  <2>1. /\ cache' \in [Caches -> EntrySet]
        /\ \A d \in Caches : cache'[d] = cache[d]
           \/ (cache'[d].says \in Cache!Verdict /\ cache'[d].age = 0)
        /\ \A d \in Caches \ {"typing"} : cache'[d] = cache[d]
           /\ (Cache!Wrong(d)' <=> Cache!Wrong(d))
        /\ cache'["typing"].age = 0 /\ cache'["typing"].says = reader[r].answer
        /\ reader[r].answer # "none"
    BY <1>1, <1>3, <2>0, PutFits
  <2>2. Len(Cache!Asked) \in {1, 2} /\ Cache!Longest = 2
            /\ \A i \in 1 .. Len(Cache!Asked) : Cache!Asked[i] \in Cache!Relation
    BY AskedFacts DEF AInv, Cache!ATypeOK
  <2>3. \A i \in 1 .. Len(Cache!Asked) : i < reader[r].asking
    BY <2>0, <2>2
  <2>4. Cache!May = "yes" <=> \A i \in 1 .. Len(Cache!Asked) : truth[Cache!Asked[i]]
    BY <2>2 DEF Cache!May, Cache!Of, AInv, Orderly
  <2>5. Cache!May \in Cache!Verdict /\ (Cache!Wrong("typing")' <=> reader[r].answer # Cache!May)
    BY <1>1, <2>1 DEF Cache!Wrong, Cache!May, Cache!Of, Cache!Verdict
  <2>6. ASSUME reader[r].answer # Cache!May PROVE \E c \in Cache!Relation :
            since[c] <= 0 + Cache!Longest
    <3>1. CASE reader[r].answer = "yes"
      <4>1. PICK i \in 1 .. Len(Cache!Asked) : ~truth[Cache!Asked[i]]
        BY <2>4, <2>6, <3>1
      <4>2. since[Cache!Asked[i]] <= Cache!Longest
        BY <2>3, <3>1, <4>1 DEF AInv, Carried, Cache!Changed
      <4>3. Cache!Asked[i] \in Cache!Relation /\ since[Cache!Asked[i]] \in Nat
        BY <2>2 DEF AInv, Cache!ATypeOK
      <4> QED BY <2>2, <4>2, <4>3
    <3>2. CASE reader[r].answer = "no"
      <4>1. \A i \in 1 .. Len(Cache!Asked) : truth[Cache!Asked[i]]
        BY <2>4, <2>5, <2>6, <3>2 DEF Cache!Verdict
      <4>2. PICK i \in 1 .. Len(Cache!Asked) : since[Cache!Asked[i]] <= Cache!Longest
        BY <3>2, <4>1 DEF AInv, Carried, Cache!Changed
      <4>3. Cache!Asked[i] \in Cache!Relation /\ since[Cache!Asked[i]] \in Nat
        BY <2>2 DEF AInv, Cache!ATypeOK
      <4> QED BY <2>2, <4>2, <4>3
    <3> QED BY <2>0, <3>1, <3>2 DEF Cache!Verdict
  <2>7. Outdated'
    <3>1. ASSUME NEW d \in Cache!Relation, Cache!Wrong(d)' PROVE since[d] <= cache'[d].age
      <4>1. d \in Caches \ {"typing"}
        BY DEF Caches, Cache!Relation
      <4> QED BY <2>1, <3>1, <4>1 DEF AInv, Outdated, Cache!Changed
    <3> QED BY <1>1, <2>1, <2>5, <2>6, <3>1, SamePlace DEF Outdated, Cache!Changed
  <2>8. ASSUME ~met', NEW d \in Caches, Cache!Wrong(d)' PROVE Cache!Wrong(d)
    <3>1. CASE d = "typing"
      <4>1. reader[r].answer = "yes" <=> \A i \in 1 .. Len(Cache!Asked) : truth[Cache!Asked[i]]
        BY <1>1, <1>3, <2>3, <2>8 DEF AInv, Dropped, Exact
      <4>2. reader[r].answer = Cache!May
        BY <2>0, <2>4, <2>5, <4>1 DEF Cache!Verdict
      <4> QED BY <2>5, <2>8, <3>1, <4>2
    <3> QED BY <2>1, <2>8, <3>1
  <2> QED BY <1>1, <2>1, <2>7, <2>8, Reading
<1> QED BY <1>2, <1>3 DEF Cache!Answer

-----------------------------------------------------------------------------
LEMMA ChangeKeeps ==
  ASSUME AInv, NEW c \in Cache!Relation, Cache!Change(c)
  PROVE  AInv'
<1>1. /\ UNCHANGED <<place, cache, reader>> /\ drops = <<>>
      /\ \A d \in Cache!Relation \ {c} : truth'[d] = truth[d] /\ since'[d] = since[d]
      /\ since'[c] = 0 /\ truth' \in [Cache!Relation -> BOOLEAN]
         /\ since' \in [Cache!Relation -> 0 .. Cache!Forever]
      /\ met' \in BOOLEAN
      /\ ~met' => ~met /\ \A r \in Cache!Reader : reader[r].op = "none"
  <2>1. UNCHANGED <<place, cache, reader>> /\ drops = <<>>
    BY DEF Cache!Change
  <2>2. truth' \in [Cache!Relation -> BOOLEAN]
            /\ \A d \in Cache!Relation \ {c} : truth'[d] = truth[d]
    BY DEF Cache!Change, AInv, Cache!ATypeOK
  <2>3. /\ since' \in [Cache!Relation -> 0 .. Cache!Forever] /\ since'[c] = 0
        /\ \A d \in Cache!Relation \ {c} : since'[d] = since[d]
    BY DEF Cache!Change, AInv, Cache!ATypeOK, Cache!Forever
  <2>4. met' \in BOOLEAN /\ (~met' => ~met /\ \A r \in Cache!Reader : reader[r].op = "none")
    BY DEF Cache!Change, AInv, Cache!ATypeOK
  <2> QED BY <2>1, <2>2, <2>3, <2>4
<1>2. /\ drops' \in Seq(Caches) /\ Len(drops') <= 3
      /\ \E i \in 1 .. Len(drops') : drops'[i] = c
      /\ \E i \in 1 .. Len(drops') : drops'[i] = "typing"
  <2>1. CASE c = "access"
    <3>1. drops' = <<"typing", "access">>
      BY <2>1 DEF Cache!Change
    <3>2. Len(drops') = 2 /\ drops'[1] = "typing" /\ drops'[2] = "access"
              /\ drops' \in Seq(Caches)
      BY <3>1 DEF Caches, Cache!Relation
    <3> QED BY <2>1, <3>2
  <2>2. CASE c = "friends"
    <3>1. drops' = <<"friends", "typing">>
      BY <2>2 DEF Cache!Change
    <3>2. Len(drops') = 2 /\ drops'[2] = "typing" /\ drops'[1] = "friends"
              /\ drops' \in Seq(Caches)
      BY <3>1 DEF Caches, Cache!Relation
    <3> QED BY <2>2, <3>2
  <2>3. CASE c = "blocks"
    <3>1. drops' = <<"friends", "blocks", "typing">>
      BY <2>3 DEF Cache!Change
    <3>2. Len(drops') = 3 /\ drops'[3] = "typing" /\ drops'[2] = "blocks"
              /\ drops' \in Seq(Caches)
      BY <3>1 DEF Caches, Cache!Relation
    <3> QED BY <2>3, <3>2
  <2> QED BY <2>1, <2>2, <2>3 DEF Cache!Relation
<1>3. Cache!ATypeOK'
  BY <1>1, <1>2 DEF AInv, Cache!ATypeOK
<1>4. Orderly'
  <2>1. \E i \in 1 .. Len(Cache!Asked) : Cache!Asked[i] = c
    BY DEF Cache!Change
  <2>2. cache' \in [Caches -> EntrySet]
    BY <1>1 DEF AInv, Orderly
  <2>3. ASSUME NEW d \in Cache!Relation, \A i \in 1 .. Len(Cache!Asked) : Cache!Asked[i] # d
        PROVE truth'[d]
    BY <1>1, <2>1, <2>3 DEF AInv, Orderly
  <2> QED BY <1>1, <1>2, <2>2, <2>3, SamePlace DEF Orderly
<1>5. \A d \in Cache!Relation \ {c} : Cache!Wrong(d)' <=> Cache!Wrong(d)
  <2>1. \A d \in Cache!Relation : d # "typing"
    BY DEF Cache!Relation
  <2> QED BY <1>1, <2>1 DEF Cache!Wrong
<1>6. ASSUME NEW d \in Caches
      PROVE  cache[d].age \in Nat
  BY DEF AInv, Orderly, EntrySet
<1>7. Cache!Longest \in Nat
  BY AskedFacts DEF AInv, Cache!ATypeOK
<1>8. Outdated'
  <2>1. ASSUME NEW d \in Cache!Relation, Cache!Wrong(d)' PROVE since'[d] <= cache'[d].age
    <3>1. CASE d = c
      BY <1>1, <1>6, <3>1 DEF Caches
    <3>2. CASE d # c
      BY <1>1, <1>5, <2>1, <3>2 DEF AInv, Outdated, Cache!Changed
    <3> QED BY <3>1, <3>2
  <2>2. since'[c] <= cache'["typing"].age + Cache!Longest
    BY <1>1, <1>6, <1>7 DEF Caches
  <2> QED BY <1>1, <2>1, <2>2, SamePlace DEF Outdated, Cache!Changed
<1>9. ASSUME NEW r \in Cache!Reader PROVE Carried(r)'
  <2>1. Carried(r)
    BY DEF AInv
  <2>2. \A d \in Cache!Relation : (truth'[d] = truth[d] /\ since'[d] = since[d])
            \/ since'[d] = 0
    BY <1>1
  <2>3. \A i \in 1 .. Len(Cache!Asked) : Cache!Asked[i] \in Cache!Relation
    BY AskedFacts DEF AInv, Cache!ATypeOK
  <2>4. \A i \in 1 .. Len(Cache!Asked) :
          \/ truth'[Cache!Asked[i]] = truth[Cache!Asked[i]]
             /\ since'[Cache!Asked[i]] = since[Cache!Asked[i]]
          \/ since'[Cache!Asked[i]] <= Cache!Longest /\ since'[Cache!Asked[i]] <= 0
    BY <1>7, <2>2, <2>3
  <2> QED BY <1>1, <2>1, <2>4, SamePlace DEF Carried, Cache!Changed
<1>10. Dropped'
  <2>1. SUFFICES ASSUME ~met' PROVE /\ \A d \in Caches : Cache!Wrong(d)' =>
                                       \E i \in 1 .. Len(drops') : drops'[i] = d
                                    /\ \A r \in Cache!Reader : reader[r].op = "none"
                                       /\ Exact(r)'
    BY <1>1 DEF Dropped
  <2>2. \A d \in Caches : ~Cache!Wrong(d)
    BY <1>1, <2>1 DEF AInv, Dropped
  <2>3. ASSUME NEW d \in Caches, Cache!Wrong(d)' PROVE \E i \in 1 .. Len(drops') : drops'[i] = d
    <3>1. d = c \/ d = "typing"
      BY <1>5, <2>2, <2>3 DEF Caches
    <3> QED BY <1>2, <3>1
  <2>4. ASSUME NEW r \in Cache!Reader PROVE reader[r].op = "none" /\ Exact(r)'
    <3>1. reader[r].op = "none" /\ reader[r].asking = 0
      BY <1>1, <2>1 DEF AInv, Carried
    <3>2. reader[r].loaded = "none"
      BY <3>1 DEF AInv, Carried
    <3> QED BY <1>1, <3>1, <3>2 DEF Exact
  <2> QED BY <2>3, <2>4
<1> QED BY <1>3, <1>4, <1>8, <1>9, <1>10 DEF AInv

\* Caches that are emptied are wrong no more, and the others are as they were.
LEMMA Emptying ==
  ASSUME AInv, UNCHANGED <<place, truth, reader, since, met>>,
         cache' \in [Caches -> EntrySet],
         \A c \in Caches : cache'[c] = cache[c] \/ cache'[c] = Cache!Empty,
         drops' \in Seq(Caches), Len(drops') <= 3,
         drops' # <<>> => drops # <<>>,
         ~met => \A c \in Caches : Cache!Wrong(c)' => \E i \in 1 .. Len(drops') : drops'[i] = c
  PROVE  AInv'
<1>1. \A c \in Caches : Cache!Wrong(c)' => Cache!Wrong(c) /\ cache'[c] = cache[c]
  <2>1. Cache!Empty.says = "none"
    BY DEF Cache!Empty
  <2> QED BY <2>1 DEF Cache!Wrong, Cache!May
<1>2. Cache!ATypeOK'
  BY DEF AInv, Cache!ATypeOK, Caches
<1>3. Orderly'
  BY SamePlace DEF AInv, Orderly
<1>4. Outdated'
  BY <1>1, SamePlace DEF AInv, Outdated, Cache!Changed, Caches
<1>5. \A r \in Cache!Reader : Carried(r)' /\ (Exact(r)' <=> Exact(r))
  BY SamePlace DEF AInv, Carried, Exact, Cache!Changed
<1>6. Dropped'
  BY <1>5 DEF AInv, Dropped
<1> QED BY <1>2, <1>3, <1>4, <1>5, <1>6 DEF AInv

\* Nothing is cached.
LEMMA EmptyIsEntry == Cache!Empty \in EntrySet /\ Cache!Empty.says = "none"
  BY DEF Cache!Empty, EntrySet

\* A drop that a change gave takes effect.
LEMMA DropKeeps ==
  ASSUME AInv, Cache!DropNext
  PROVE  AInv'
<1>1. /\ drops # <<>> /\ drops \in Seq(Caches) /\ Len(drops) <= 3
      /\ cache' = [cache EXCEPT ![Head(drops)] = Cache!Empty] /\ drops' = Tail(drops)
      /\ UNCHANGED <<place, truth, reader, since, met>>
  BY DEF Cache!DropNext, AInv, Orderly, Cache!ATypeOK
<1>2. Head(drops) \in Caches /\ Head(drops) = drops[1]
  BY <1>1
<1>3. /\ cache' \in [Caches -> EntrySet] /\ cache'[Head(drops)] = Cache!Empty
      /\ \A c \in Caches \ {Head(drops)} : cache'[c] = cache[c]
  BY <1>1, <1>2, EmptyIsEntry DEF AInv, Orderly
<1>4. /\ drops' \in Seq(Caches) /\ Len(drops') = Len(drops) - 1 /\ Len(drops) \in Nat
      /\ \A i \in 2 .. Len(drops) : drops'[i - 1] = drops[i]
  BY <1>1
<1>5. ASSUME ~met, NEW c \in Caches, Cache!Wrong(c)'
      PROVE \E i \in 1 .. Len(drops') : drops'[i] = c
  <2>1. c # Head(drops)
    BY <1>3, <1>5, EmptyIsEntry DEF Cache!Wrong
  <2>2. Cache!Wrong(c)
    BY <1>1, <1>3, <1>5, <2>1 DEF Cache!Wrong, Cache!May
  <2>3. PICK i \in 1 .. Len(drops) : drops[i] = c
    BY <1>5, <2>2 DEF AInv, Dropped
  <2>4. i # 1 /\ i \in 2 .. Len(drops)
    BY <1>2, <2>1, <2>3
  <2>5. i - 1 \in 1 .. Len(drops') /\ drops'[i - 1] = c
    BY <1>4, <2>3, <2>4
  <2> QED BY <2>5
<1>6. Len(drops') <= 3
  BY <1>1, <1>4
<1>7. \A c \in Caches : cache'[c] = cache[c] \/ cache'[c] = Cache!Empty
  BY <1>3
<1> QED BY <1>1, <1>3, <1>4, <1>5, <1>6, <1>7, Emptying

\* All that is cached is lost.
LEMMA ClearKeeps ==
  ASSUME AInv, Cache!Clear
  PROVE  AInv'
<1>1. /\ UNCHANGED <<place, truth, reader, drops, since, met>>
      /\ drops \in Seq(Caches) /\ Len(drops) <= 3
  BY DEF Cache!Clear, AInv, Orderly, Cache!ATypeOK
<1>2. /\ cache' \in [Caches -> EntrySet]
      /\ \A c \in Caches : cache'[c] = cache[c] \/ cache'[c] = Cache!Empty
  BY EmptyIsEntry DEF Cache!Clear, AInv, Orderly
<1>3. ~met => \A c \in Caches : Cache!Wrong(c)' => \E i \in 1 .. Len(drops') : drops'[i] = c
  <2>1. \A c \in Caches : Cache!Wrong(c)' => Cache!Wrong(c)
    BY <1>1, <1>2, EmptyIsEntry DEF Cache!Wrong, Cache!May
  <2> QED BY <1>1, <2>1 DEF AInv, Dropped
<1> QED BY <1>1, <1>2, <1>3, Emptying

\* Time passes: what is cached grows old, or is forgotten.
LEMMA TickKeeps ==
  ASSUME AInv, Cache!Tick
  PROVE  AInv'
<1>1. /\ drops = <<>> /\ \A r \in Cache!Reader : reader[r].op = "none"
      /\ UNCHANGED <<place, truth, reader, drops>>
      /\ \A c \in Caches : cache'[c] = Cache!Older(cache[c], c)
      /\ cache' = [c \in Caches |-> Cache!Older(cache[c], c)]
      /\ \A c \in Cache!Relation : since'[c] = IF since[c] = Cache!Forever THEN Cache!Forever
         ELSE since[c] + 1
      /\ met' = (met /\ \E c \in Cache!Relation : since'[c] # Cache!Forever)
  BY DEF Cache!Tick, AInv, Orderly
<1>2. ASSUME NEW c \in Caches
      PROVE  /\ cache'[c] \in EntrySet
             /\ \/ cache'[c] = Cache!Empty
                \/ /\ cache'[c].says = cache[c].says /\ cache'[c].age = cache[c].age + 1
                   /\ cache[c].says \in Cache!Verdict
                      /\ cache'[c].age \in 0 .. Cache!Ttl(c, cache'[c].says)
                   /\ cache[c].age \in 0 .. 3 /\ (c # "typing" => cache[c].age \in 0 .. 2)
  <2>1. CASE cache[c].says = "none" \/ cache[c].age = Cache!Ttl(c, cache[c].says)
    BY <1>1, <2>1, EmptyIsEntry DEF Cache!Older
  <2>2. CASE ~(cache[c].says = "none" \/ cache[c].age = Cache!Ttl(c, cache[c].says))
    <3>1. cache'[c] = [cache[c] EXCEPT !.age = @ + 1]
      BY <1>1, <2>2 DEF Cache!Older
    <3>2. /\ cache[c] \in EntrySet /\ cache[c].says \in Cache!Verdict
          /\ cache[c].age \in 0 .. Cache!Ttl(c, cache[c].says)
          /\ cache[c].age \in 0 .. 3 /\ (c # "typing" => cache[c].age \in 0 .. 2)
      BY <2>2, EntryAges
    <3>3. cache'[c] = [says |-> cache[c].says, age |-> cache[c].age + 1]
      BY <3>1, <3>2 DEF EntrySet
    <3>4. Cache!Ttl(c, cache[c].says) \in Nat
      BY <3>2 DEF Cache!Ttl, Caches, Cache!Relation
    <3>5. cache[c].age + 1 \in 0 .. Cache!Ttl(c, cache[c].says)
      BY <2>2, <3>2, <3>4
    <3> QED BY <3>2, <3>3, <3>5 DEF EntrySet
  <2> QED BY <2>1, <2>2
<1>3. since' \in [Cache!Relation -> 0 .. Cache!Forever]
          /\ since \in [Cache!Relation -> 0 .. Cache!Forever]
  <2>1. since \in [Cache!Relation -> 0 .. Cache!Forever]
    BY DEF AInv, Cache!ATypeOK
  <2>2. ASSUME NEW c \in Cache!Relation PROVE (IF since[c] = Cache!Forever THEN Cache!Forever
            ELSE since[c] + 1) \in 0 .. Cache!Forever
    BY <2>1 DEF Cache!Forever
  <2>3. since' = [c \in Cache!Relation |-> IF since[c] = Cache!Forever THEN Cache!Forever
            ELSE since[c] + 1]
    BY DEF Cache!Tick
  <2> QED BY <2>1, <2>2, <2>3
<1>4. Cache!ATypeOK'
  <2>1. met' \in BOOLEAN
    BY <1>1 DEF AInv, Cache!ATypeOK
  <2> QED BY <1>1, <1>2, <1>3, <2>1 DEF AInv, Cache!ATypeOK, Caches
<1>5. Orderly'
  <2>1. cache' \in [Caches -> EntrySet]
    BY <1>1, <1>2
  <2> QED BY <1>1, <2>1, SamePlace DEF AInv, Orderly
<1>6. ASSUME NEW c \in Caches, Cache!Wrong(c)'
      PROVE  /\ Cache!Wrong(c) /\ cache'[c].age = cache[c].age + 1
             /\ cache[c].age \in 0 .. 3 /\ (c # "typing" => cache[c].age \in 0 .. 2)
  BY <1>1, <1>2, <1>6, EmptyIsEntry DEF Cache!Wrong, Cache!May
<1>7. Cache!Longest = 2
  BY AskedFacts DEF AInv, Cache!ATypeOK
<1>8. ASSUME NEW c \in Cache!Relation, NEW n \in 0 .. 5, since[c] <= n
      PROVE  since'[c] <= n + 1 /\ since'[c] # Cache!Forever
  <2>1. since[c] \in 0 .. 7
    BY <1>3 DEF Cache!Forever
  <2>2. since'[c] = since[c] + 1
    BY <1>1, <1>8, <2>1 DEF Cache!Forever
  <2> QED BY <1>8, <2>1, <2>2 DEF Cache!Forever
<1>9. ASSUME NEW c \in Cache!Relation, Cache!Wrong(c)'
      PROVE  since'[c] <= cache'[c].age /\ since'[c] # Cache!Forever
  <2>1. c \in Caches /\ c # "typing"
    BY DEF Caches, Cache!Relation
  <2>2. Cache!Wrong(c) /\ cache'[c].age = cache[c].age + 1 /\ cache[c].age \in 0 .. 5
    BY <1>6, <1>9, <2>1
  <2>3. since[c] <= cache[c].age
    BY <2>2 DEF AInv, Outdated, Cache!Changed
  <2> QED BY <1>8, <2>2, <2>3
<1>10. ASSUME Cache!Wrong("typing")'
       PROVE  \E c \in Cache!Relation : since'[c] <= cache'["typing"].age + Cache!Longest
           /\ since'[c] # Cache!Forever
  <2>1. "typing" \in Caches
    BY DEF Caches
  <2>2. Cache!Wrong("typing") /\ cache'["typing"].age = cache["typing"].age + 1
            /\ cache["typing"].age \in 0 .. 3
    BY <1>6, <1>10, <2>1
  <2>3. PICK c \in Cache!Relation : since[c] <= cache["typing"].age + Cache!Longest
    BY <2>2 DEF AInv, Outdated, Cache!Changed
  <2>4. cache["typing"].age + Cache!Longest \in 0 .. 5
    BY <1>7, <2>2
  <2>5. since'[c] <= (cache["typing"].age + Cache!Longest) + 1 /\ since'[c] # Cache!Forever
    BY <1>8, <2>3, <2>4
  <2>6. (cache["typing"].age + Cache!Longest) + 1 = cache'["typing"].age + Cache!Longest
    BY <1>7, <2>2
  <2> QED BY <2>5, <2>6
<1>11. Outdated'
  BY <1>1, <1>9, <1>10, SamePlace DEF Outdated, Cache!Changed
<1>12. ASSUME NEW r \in Cache!Reader PROVE Carried(r)' /\ Exact(r)'
  <2>1. reader[r].op = "none" /\ reader[r].asking = 0 /\ reader[r].loaded = "none"
    BY <1>1 DEF AInv, Carried
  <2>2. reader[r].answer # "no" /\ Len(Cache!Asked) \in Nat
    BY <2>1, AskedFacts DEF AInv, Carried, Cache!ATypeOK
  <2> QED BY <1>1, <2>1, <2>2, SamePlace DEF Carried, Exact
<1>13. Dropped'
  <2>1. SUFFICES ASSUME ~met' PROVE \A c \in Caches : ~Cache!Wrong(c)'
    BY <1>1, <1>12 DEF Dropped
  <2>2. CASE ~met
    <3>1. \A c \in Caches : ~Cache!Wrong(c)
      BY <1>1, <2>2 DEF AInv, Dropped
    <3> QED BY <1>6, <3>1
  <2>3. CASE \A c \in Cache!Relation : since'[c] = Cache!Forever
    BY <1>9, <1>10, <2>3 DEF Caches
  <2> QED BY <1>1, <2>1, <2>2, <2>3
<1> QED BY <1>4, <1>5, <1>11, <1>12, <1>13 DEF AInv

\* Every step of the caches keeps all of it.
LEMMA ANextKeeps == ASSUME AInv, Cache!ANext PROVE AInv'
  BY AsksKeep, HitKeeps, LoadKeeps, FillKeeps, LoadFailsKeeps, AnswerKeeps, ChangeKeeps,
     DropKeeps, ClearKeeps, TickKeeps DEF Cache!ANext

\* From which the two properties of the caches follow.
LEMMA AInvMeans == AInv => Cache!DropsReachAll /\ Cache!StaleEnds
<1> SUFFICES ASSUME AInv PROVE Cache!DropsReachAll /\ Cache!StaleEnds
  OBVIOUS
<1>1. DOMAIN cache = Caches
  BY DEF AInv, Orderly
<1>2. Cache!DropsReachAll
  BY <1>1 DEF AInv, Dropped, Cache!DropsReachAll
<1>3. Cache!Longest = 2
  BY AskedFacts DEF AInv, Cache!ATypeOK
<1>4. ASSUME NEW c \in Cache!Relation, Cache!Wrong(c)
      PROVE  Cache!Changed(c, Cache!Ttl(c, cache[c].says))
  <2>1. since[c] <= cache[c].age /\ since[c] \in Nat
    BY <1>4 DEF AInv, Outdated, Cache!Changed, Cache!ATypeOK
  <2>2. cache[c].says \in Cache!Verdict /\ cache[c].age \in 0 .. Cache!Ttl(c, cache[c].says)
    BY <1>4, EntryAges DEF Cache!Wrong, Caches
  <2>3. Cache!Ttl(c, cache[c].says) \in Nat
    BY <2>2 DEF Cache!Ttl, Cache!Relation
  <2> QED BY <2>1, <2>2, <2>3 DEF Cache!Changed
<1>5. ASSUME Cache!Wrong("typing")
      PROVE  \E c \in Cache!Relation : Cache!Changed(c,
          Cache!Ttl("typing", cache["typing"].says) + Cache!Longest)
  <2>1. PICK c \in Cache!Relation : since[c] <= cache["typing"].age + Cache!Longest
    BY <1>5 DEF AInv, Outdated, Cache!Changed
  <2>2. cache["typing"].says \in Cache!Verdict
            /\ cache["typing"].age \in 0 .. Cache!Ttl("typing", cache["typing"].says)
    BY <1>5, EntryAges DEF Cache!Wrong, Caches
  <2>3. Cache!Ttl("typing", cache["typing"].says) \in Nat /\ since[c] \in Nat
    BY <2>2 DEF Cache!Ttl, AInv, Cache!ATypeOK
  <2> QED BY <1>3, <2>1, <2>2, <2>3 DEF Cache!Changed
<1>6. Cache!StaleEnds
  <2>1. \A c \in Cache!Relation : c # "typing"
    BY DEF Cache!Relation
  <2> QED BY <1>1, <1>4, <1>5, <2>1 DEF Cache!StaleEnds, Caches
<1> QED BY <1>2, <1>6

-----------------------------------------------------------------------------
(****************************************************************************)
(* Quota.  What the counter stands for, file by file.                       *)
(****************************************************************************)
Waiting == {f \in Store!File : uploads[f] = "waits"}
\* How the steps of a file fit together.
Placed ==
    \A f \in Store!File :
        /\ f \in waiting => uploads[f] \in {"registered", "first", "done"}
        /\ uploads[f] \in {"registered", "first"} => f \in waiting
        /\ message[f] # "none" => uploads[f] = "done"
        /\ removal[f] = "counted" => message[f] = "deleted"
        /\ orphans[f] # "rest" => uploads[f] = "done" /\ (message[f] = "none" => f \in waiting)

\* What the counter stands for, and what it is short of the quota.
Stored ==
    {f \in Store!File :
        /\ uploads[f] = "done" /\ orphans[f] # "discharged"
        /\ (f \in waiting /\ message[f] = "none") \/ f \in Store!Live \/ removal[f] = "counted"}
Balanced ==
    /\ ~counted => used = 0
    /\ state # "off" => used = Cardinality(Stored)
    /\ state = "exact" => used + Cardinality(Store!Uploading) < MaxBytes + UploadsAtOnce

\* The uploads that wait, and those that have been let through to.
Crowded ==
    /\ Cardinality(Store!Uploading) <= UploadsAtOnce
    /\ Cardinality(waiting) + Cardinality(Waiting) < MaxPending + UploadsAtOnce

\* What a rebuild has read that met nothing.
Summed ==
    rebuild.at # "rest" /\ rebuild.alone =>
        /\ Store!Quiet
        /\ rebuild.sum = Cardinality(waiting) + IF rebuild.at = "set"
           THEN Cardinality(Store!Live) ELSE 0

\* What holds of the counter at every step.
QInv == Store!QTypeOK /\ Placed /\ Balanced /\ Crowded /\ Summed

\* The sets of files are finite, and so their numbers are numbers,
LEMMA Counts ==
  ASSUME Store!QTypeOK
  PROVE  /\ IsFiniteSet(Store!File)
         /\ Stored \in SUBSET Store!File /\ Store!Uploading \in SUBSET Store!File
            /\ Waiting \in SUBSET Store!Uploading
         /\ waiting \in SUBSET Store!File /\ Store!Live \in SUBSET Store!File
         /\ Cardinality(Stored) \in Nat /\ Cardinality(Store!Uploading) \in Nat
         /\ Cardinality(Waiting) \in Nat /\ Cardinality(Waiting) <= Cardinality(Store!Uploading)
         /\ Cardinality(waiting) \in Nat /\ Cardinality(Store!Live) \in Nat
<1>1. IsFiniteSet(Store!File)
  BY FS_Interval, StoreBounds DEF Store!File
<1>2. /\ Stored \in SUBSET Store!File /\ Store!Uploading \in SUBSET Store!File
         /\ Waiting \in SUBSET Store!Uploading
      /\ waiting \in SUBSET Store!File /\ Store!Live \in SUBSET Store!File
         /\ Waiting \in SUBSET Store!File
  BY DEF Stored, Store!Uploading, Waiting, Store!Live, Store!QTypeOK
<1>3. IsFiniteSet(Stored) /\ IsFiniteSet(Store!Uploading) /\ IsFiniteSet(Waiting)
          /\ IsFiniteSet(waiting) /\ IsFiniteSet(Store!Live)
  BY <1>1, <1>2, FS_Subset
<1>4. /\ Cardinality(Stored) \in Nat /\ Cardinality(Store!Uploading) \in Nat
         /\ Cardinality(Waiting) \in Nat
      /\ Cardinality(waiting) \in Nat /\ Cardinality(Store!Live) \in Nat
  BY <1>3, FS_CardinalityType
<1>5. Cardinality(Waiting) <= Cardinality(Store!Uploading)
  BY <1>2, <1>3, FS_Subset
<1> QED BY <1>1, <1>2, <1>4, <1>5

\* before a step and after it.
LEMMA CountsThen ==
  ASSUME Store!QTypeOK'
  PROVE  /\ Stored' \in SUBSET Store!File /\ Store!Uploading' \in SUBSET Store!File
            /\ Waiting' \in SUBSET Store!Uploading'
         /\ waiting' \in SUBSET Store!File /\ Store!Live' \in SUBSET Store!File
         /\ Cardinality(Stored') \in Nat /\ Cardinality(Store!Uploading') \in Nat
         /\ Cardinality(Waiting') \in Nat /\ Cardinality(Waiting')
            <= Cardinality(Store!Uploading')
         /\ Cardinality(waiting') \in Nat /\ Cardinality(Store!Live') \in Nat
<1>1. /\ Stored' \in SUBSET Store!File /\ Store!Uploading' \in SUBSET Store!File
         /\ Waiting' \in SUBSET Store!Uploading'
      /\ waiting' \in SUBSET Store!File /\ Store!Live' \in SUBSET Store!File
         /\ Waiting' \in SUBSET Store!File
  BY DEF Stored, Store!Uploading, Waiting, Store!Live, Store!QTypeOK
<1>2. IsFiniteSet(Store!File)
  BY FS_Interval, StoreBounds DEF Store!File
<1>3. IsFiniteSet(Stored') /\ IsFiniteSet(Store!Uploading') /\ IsFiniteSet(Waiting')
          /\ IsFiniteSet(waiting') /\ IsFiniteSet(Store!Live')
  BY <1>1, <1>2, FS_Subset
<1>4. /\ Cardinality(Stored') \in Nat /\ Cardinality(Store!Uploading') \in Nat
         /\ Cardinality(Waiting') \in Nat
      /\ Cardinality(waiting') \in Nat /\ Cardinality(Store!Live') \in Nat
  BY <1>3, FS_CardinalityType
<1>5. Cardinality(Waiting') <= Cardinality(Store!Uploading')
  BY <1>1, <1>3, FS_Subset
<1> QED BY <1>1, <1>4, <1>5

\* When nothing is under way, what is stored waits or is in a message.
LEMMA QuietStored ==
  ASSUME Store!QTypeOK, Placed, Store!Quiet
  PROVE  Cardinality(Stored) = Cardinality(waiting) + Cardinality(Store!Live)
<1>1. Stored = waiting \cup Store!Live
  <2>1. ASSUME NEW f \in Stored PROVE f \in waiting \cup Store!Live
    BY <2>1 DEF Stored, Store!Quiet
  <2>2. ASSUME NEW f \in waiting PROVE f \in Stored
    <3>1. f \in Store!File /\ uploads[f] \in {"registered", "first", "done"}
              /\ f \notin Store!Uploading
      BY <2>2 DEF Store!QTypeOK, Placed, Store!Quiet
    <3>2. uploads[f] = "done"
      BY <3>1 DEF Store!Uploading
    <3>3. message[f] = "none" /\ orphans[f] = "rest"
      BY <2>2, <3>1 DEF Store!Quiet
    <3> QED BY <2>2, <3>1, <3>2, <3>3 DEF Stored
  <2>3. ASSUME NEW f \in Store!Live PROVE f \in Stored
    BY <2>3 DEF Store!Live, Placed, Store!Quiet, Stored
  <2> QED BY <2>1, <2>2, <2>3
<1>2. waiting \cap Store!Live = {}
  BY DEF Store!Quiet, Store!Live
<1>3. IsFiniteSet(waiting) /\ IsFiniteSet(Store!Live)
  BY Counts, FS_Subset
<1>4. Cardinality(waiting) \in Nat /\ Cardinality(Store!Live) \in Nat
  BY Counts
<1> QED BY <1>1, <1>2, <1>3, <1>4, FS_Union, FS_EmptySet, SameCount

\* From which the two properties of the quota follow.
LEMMA QInvMeans == QInv => Store!UsageFollows /\ Store!QuotaBounds
<1> SUFFICES ASSUME QInv PROVE Store!UsageFollows /\ Store!QuotaBounds
  OBVIOUS
<1>1. Store!UsageFollows
  BY QuietStored, SameCount DEF QInv, Store!UsageFollows, Balanced
<1>2. Store!Kept \subseteq Stored \cup Store!Uploading
  <2> SUFFICES ASSUME NEW f \in Store!Kept, f \notin Store!Uploading PROVE f \in Stored
    OBVIOUS
  <2>1. f \in Store!File /\ orphans[f] # "discharged"
    BY DEF Store!Kept
  <2>2. uploads[f] = "done"
    BY <2>1 DEF Store!Kept, Store!Live, Store!Uploading, QInv, Placed
  <2> QED BY <2>1, <2>2 DEF Store!Kept, Stored
<1>3. /\ IsFiniteSet(Stored) /\ IsFiniteSet(Store!Uploading)
      /\ Cardinality(Stored) \in Nat /\ Cardinality(Store!Uploading) \in Nat
      /\ Cardinality(Waiting) \in Nat /\ Cardinality(waiting) \in Nat
  BY Counts, FS_Subset DEF QInv
<1>4. /\ IsFiniteSet(Stored \cup Store!Uploading)
         /\ Cardinality(Stored \cup Store!Uploading) \in Nat
      /\ Cardinality(Stored \cup Store!Uploading)
         <= Cardinality(Stored) + Cardinality(Store!Uploading)
  <2>1. Cardinality(Stored \cap Store!Uploading) \in Nat
    BY <1>3, FS_Subset, FS_CardinalityType
  <2>2. /\ IsFiniteSet(Stored \cup Store!Uploading)
        /\ Cardinality(Stored \cup Store!Uploading)
             = Cardinality(Stored) + Cardinality(Store!Uploading) - Cardinality(Stored \cap Store!Uploading)
    BY <1>3, FS_Union
  <2> QED BY <1>3, <2>1, <2>2, FS_CardinalityType
<1>5. Cardinality(Store!Kept) <= Cardinality(Stored \cup Store!Uploading)
          /\ Cardinality(Store!Kept) \in Nat
  BY <1>2, <1>4, FS_Subset, FS_CardinalityType
<1>6. state = "exact" => Cardinality(Store!Kept) < MaxBytes + UploadsAtOnce
  BY <1>3, <1>4, <1>5, StoreBounds DEF QInv, Balanced
<1>7. Cardinality(waiting) < MaxPending + UploadsAtOnce
  BY <1>3, StoreBounds DEF QInv, Crowded
<1> QED BY <1>1, <1>6, <1>7, SameCount DEF Store!QuotaBounds

\* A user begins with nothing stored.
LEMMA QInitInv == Store!QInit => QInv
<1> SUFFICES ASSUME Store!QInit PROVE QInv
  OBVIOUS
<1>1. Store!QTypeOK
  <2>1. Store!NoRebuild \in [at : {"rest", "messages", "set"}, sum : Nat, alone : BOOLEAN]
    BY DEF Store!NoRebuild
  <2>2. errors \in 0 .. MaxErrors
    BY StoreBounds DEF Store!QInit
  <2>3. /\ used \in Int /\ counted \in BOOLEAN /\ waiting \subseteq Store!File
           /\ rebuild = Store!NoRebuild
    <3>1. used = 0
      BY DEF Store!QInit
    <3>2. counted = FALSE
      BY DEF Store!QInit
    <3>3. waiting = {} /\ rebuild = Store!NoRebuild
      BY DEF Store!QInit
    <3>4. 0 \in Int
      OBVIOUS
    <3> QED BY <3>1, <3>2, <3>3, <3>4, Zenon
  <2>5. state \in {"exact", "off", "repaired"}
    BY DEF Store!QInit
  <2>4. /\ uploads \in [Store!File -> {"none", "put", "waits", "registered", "first", "done",
           "over"}]
        /\ message \in [Store!File -> {"none", "live", "deleted"}]
        /\ removal \in [Store!File -> {"rest", "counted"}]
        /\ orphans \in [Store!File -> {"rest", "found", "discharged"}]
    BY DEF Store!QInit
  <2> QED BY <2>1, <2>2, <2>3, <2>4, <2>5 DEF Store!QTypeOK
<1>2. Placed
  BY DEF Store!QInit, Placed
<1>3. Stored = {} /\ Store!Uploading = {} /\ Waiting = {} /\ waiting = {}
  BY DEF Store!QInit, Stored, Store!Uploading, Waiting
<1>4. Balanced /\ Crowded
  BY <1>3, FS_EmptySet, StoreBounds DEF Store!QInit, Balanced, Crowded
<1>5. Summed
  BY DEF Store!QInit, Summed, Store!NoRebuild
<1> QED BY <1>1, <1>2, <1>4, <1>5 DEF QInv

LEMMA QStays == QInv /\ UNCHANGED Store!vars => QInv'
<1> SUFFICES ASSUME QInv, UNCHANGED Store!vars PROVE QInv'
  OBVIOUS
<1>1. Stored' = Stored /\ Store!Uploading' = Store!Uploading /\ Waiting' = Waiting
          /\ Store!Live' = Store!Live /\ (Store!Quiet' <=> Store!Quiet)
  BY DEF Store!vars, Stored, Store!Uploading, Waiting, Store!Live, Store!Quiet
<1>2. Store!QTypeOK' /\ Placed'
  BY DEF Store!vars, QInv, Store!QTypeOK, Placed
<1>3. Balanced' /\ Crowded' /\ Summed'
  BY <1>1 DEF Store!vars, QInv, Balanced, Crowded, Summed
<1> QED BY <1>2, <1>3 DEF QInv

-----------------------------------------------------------------------------
\* A rebuild that meets something is not held to what it read.
LEMMA MeetsFits ==
  ASSUME QInv, Store!Meets
  PROVE  rebuild' \in [at : {"rest", "messages", "set"}, sum : Nat, alone : BOOLEAN] /\ Summed'
<1>1. rebuild \in [at : {"rest", "messages", "set"}, sum : Nat, alone : BOOLEAN]
  BY DEF QInv, Store!QTypeOK
<1>2. rebuild' = [at |-> rebuild.at, sum |-> rebuild.sum, alone |-> FALSE]
  BY <1>1 DEF Store!Meets
<1>3. ~rebuild'.alone
  BY <1>2
<1> QED BY <1>1, <1>2, <1>3 DEF Summed

LEMMA FailsTyped ==
  ASSUME Store!QTypeOK, Store!Fails \/ UNCHANGED errors
  PROVE  errors' \in 0 .. MaxErrors
<1>1. errors \in 0 .. MaxErrors
  BY DEF Store!QTypeOK
<1> QED BY <1>1, StoreBounds DEF Store!Fails

\* An upload goes on, and the others stay where they are.
LEMMA UploadMoves ==
  ASSUME QInv, NEW f \in Store!File,
         NEW at \in {"none", "put", "waits", "registered", "first", "done", "over"},
         Store!Uploads(f, at)
  PROVE  /\ uploads' \in [Store!File -> {"none", "put", "waits", "registered", "first", "done",
            "over"}]
         /\ uploads'[f] = at /\ \A g \in Store!File \ {f} : uploads'[g] = uploads[g]
         /\ UNCHANGED <<message, removal, orphans>> /\ Store!Live' = Store!Live
         /\ Store!Meets
         /\ Store!Uploading \in SUBSET Store!File /\ Store!Uploading' \in SUBSET Store!File
            /\ Store!Uploading \ {f} = Store!Uploading' \ {f}
         /\ Waiting \in SUBSET Store!File /\ Waiting' \in SUBSET Store!File
            /\ Waiting \ {f} = Waiting' \ {f}
         /\ f \in Store!Uploading <=> uploads[f] \in {"put", "waits", "registered", "first"}
         /\ f \in Store!Uploading' <=> at \in {"put", "waits", "registered", "first"}
         /\ f \in Waiting <=> uploads[f] = "waits"
         /\ f \in Waiting' <=> at = "waits"
<1>1. /\ uploads' \in [Store!File -> {"none", "put", "waits", "registered", "first", "done",
         "over"}]
      /\ uploads'[f] = at /\ \A g \in Store!File \ {f} : uploads'[g] = uploads[g]
      /\ UNCHANGED <<message, removal, orphans>> /\ Store!Meets
  BY DEF Store!Uploads, QInv, Store!QTypeOK
<1> QED BY <1>1 DEF Store!Uploading, Waiting, Store!Live

\* The upload finds room; nothing is counted yet.
LEMMA CheckKeeps == ASSUME QInv, NEW f \in Store!File, Store!Check(f) PROVE QInv'
<1>1. /\ uploads[f] = "none" /\ Cardinality(Store!Uploading) < UploadsAtOnce
         /\ Store!BytesUsed + 1 <= MaxBytes
      /\ Store!Uploads(f, "put") /\ UNCHANGED <<used, counted, waiting, errors, state>>
  BY SameCount DEF Store!Check, Store!Begins
<1>2. /\ uploads' \in [Store!File -> {"none", "put", "waits", "registered", "first", "done",
         "over"}]
      /\ uploads'[f] = "put" /\ \A g \in Store!File \ {f} : uploads'[g] = uploads[g]
      /\ UNCHANGED <<message, removal, orphans>> /\ Store!Live' = Store!Live /\ Store!Meets
      /\ Store!Uploading \in SUBSET Store!File /\ Store!Uploading' \in SUBSET Store!File
         /\ Store!Uploading \ {f} = Store!Uploading' \ {f}
      /\ Waiting \in SUBSET Store!File /\ Waiting' \in SUBSET Store!File
         /\ Waiting \ {f} = Waiting' \ {f}
      /\ f \notin Store!Uploading /\ f \in Store!Uploading' /\ f \notin Waiting
         /\ f \notin Waiting'
  BY <1>1, UploadMoves
<1>3. Store!QTypeOK' /\ Summed'
  BY <1>1, <1>2, MeetsFits DEF QInv, Store!QTypeOK
<1>4. Placed'
  BY <1>1, <1>2 DEF QInv, Placed
<1>5. Stored' = Stored
  BY <1>1, <1>2 DEF Stored, Store!Live
<1>6. /\ Cardinality(Store!Uploading') = Cardinality(Store!Uploading) + 1 /\ Waiting' = Waiting
      /\ Cardinality(Store!Uploading) \in Nat
  BY <1>2, OneMoves, Counts DEF QInv
<1>7. used \in Int /\ used <= Store!BytesUsed /\ Store!BytesUsed \in Int
  BY DEF QInv, Store!QTypeOK, Balanced, Store!BytesUsed
<1>8. Balanced' /\ Crowded'
  BY <1>1, <1>5, <1>6, <1>7, StoreBounds DEF QInv, Balanced, Crowded
<1> QED BY <1>3, <1>4, <1>8 DEF QInv

\* It finds that few enough wait, or gives up.
LEMMA CountPendingKeeps == ASSUME QInv, NEW f \in Store!File, Store!CountPending(f) PROVE QInv'
<1>1. uploads[f] = "put" /\ UNCHANGED <<used, counted, waiting, errors, state>>
  BY DEF Store!CountPending
<1>2. PICK at \in {"waits", "over"} : Store!Uploads(f, at)
          /\ (at = "waits" => Cardinality(waiting) < MaxPending)
  BY SameCount DEF Store!CountPending
<1>3. /\ uploads' \in [Store!File -> {"none", "put", "waits", "registered", "first", "done",
         "over"}]
      /\ uploads'[f] = at /\ \A g \in Store!File \ {f} : uploads'[g] = uploads[g]
      /\ UNCHANGED <<message, removal, orphans>> /\ Store!Live' = Store!Live /\ Store!Meets
      /\ Store!Uploading \in SUBSET Store!File /\ Store!Uploading' \in SUBSET Store!File
         /\ Store!Uploading \ {f} = Store!Uploading' \ {f}
      /\ Waiting \in SUBSET Store!File /\ Waiting' \in SUBSET Store!File
         /\ Waiting \ {f} = Waiting' \ {f}
      /\ f \in Store!Uploading /\ (f \in Store!Uploading' <=> at = "waits") /\ f \notin Waiting
         /\ (f \in Waiting' <=> at = "waits")
  BY <1>1, <1>2, UploadMoves
<1>4. Store!QTypeOK' /\ Summed'
  BY <1>1, <1>3, MeetsFits DEF QInv, Store!QTypeOK
<1>5. Placed'
  BY <1>1, <1>2, <1>3 DEF QInv, Placed
<1>6. Stored' = Stored
  BY <1>1, <1>2, <1>3 DEF Stored, Store!Live
<1>7. Cardinality(Store!Uploading') <= Cardinality(Store!Uploading)
          /\ Cardinality(Store!Uploading) \in Nat /\ Cardinality(Store!Uploading') \in Nat
  BY <1>3, OneMoves, Counts DEF QInv
<1>8. Balanced'
  BY <1>1, <1>6, <1>7, StoreBounds DEF QInv, Store!QTypeOK, Balanced
<1>9. Crowded'
  <2>1. Cardinality(Waiting') \in Nat /\ Cardinality(Waiting') <= Cardinality(Store!Uploading')
            /\ Cardinality(waiting) \in Nat
    BY <1>4, CountsThen, Counts DEF QInv
  <2>2. CASE at = "waits"
    BY <1>1, <1>2, <1>7, <2>1, <2>2, StoreBounds DEF QInv, Crowded
  <2>3. CASE at = "over"
    <3>1. Waiting' = Waiting
      BY <1>3, <2>3
    <3> QED BY <1>1, <1>7, <3>1, StoreBounds DEF QInv, Crowded
  <2> QED BY <2>2, <2>3
<1> QED BY <1>4, <1>5, <1>8, <1>9 DEF QInv

\* It waits for its message now, or an error loses it.
LEMMA RegisterKeeps == ASSUME QInv, NEW f \in Store!File, Store!Register(f) PROVE QInv'
<1>1. uploads[f] = "waits" /\ UNCHANGED <<used, counted, state>> /\ errors' \in 0 .. MaxErrors
  BY FailsTyped DEF Store!Register, QInv
<1>2. PICK at \in {"registered", "over"} :
        Store!Uploads(f, at) /\ waiting' = IF at = "registered" THEN waiting \cup {f}
            ELSE waiting
  BY DEF Store!Register
<1>3. /\ uploads' \in [Store!File -> {"none", "put", "waits", "registered", "first", "done",
         "over"}]
      /\ uploads'[f] = at /\ \A g \in Store!File \ {f} : uploads'[g] = uploads[g]
      /\ UNCHANGED <<message, removal, orphans>> /\ Store!Live' = Store!Live /\ Store!Meets
      /\ Store!Uploading \in SUBSET Store!File /\ Store!Uploading' \in SUBSET Store!File
         /\ Store!Uploading \ {f} = Store!Uploading' \ {f}
      /\ Waiting \in SUBSET Store!File /\ Waiting' \in SUBSET Store!File
         /\ Waiting \ {f} = Waiting' \ {f}
      /\ f \in Store!Uploading /\ (f \in Store!Uploading' <=> at = "registered")
         /\ f \in Waiting /\ f \notin Waiting'
  BY <1>1, <1>2, UploadMoves
<1>4. waiting' \subseteq Store!File
  BY <1>2 DEF QInv, Store!QTypeOK
<1>5. Store!QTypeOK' /\ Summed'
  BY <1>1, <1>3, <1>4, MeetsFits DEF QInv, Store!QTypeOK
<1>6. f \notin waiting
  BY <1>1 DEF QInv, Placed
<1>7. Placed'
  BY <1>1, <1>2, <1>3, <1>6 DEF QInv, Placed
<1>8. Stored' = Stored
  BY <1>1, <1>2, <1>3 DEF Stored, Store!Live
<1>9. Cardinality(Store!Uploading') <= Cardinality(Store!Uploading)
          /\ Cardinality(Store!Uploading) \in Nat /\ Cardinality(Store!Uploading') \in Nat
  BY <1>3, OneMoves, Counts DEF QInv
<1>10. Balanced'
  BY <1>1, <1>8, <1>9, StoreBounds DEF QInv, Store!QTypeOK, Balanced
<1>11. Crowded'
  <2>1. Cardinality(Waiting) = Cardinality(Waiting') + 1 /\ Cardinality(Waiting') \in Nat
    BY <1>3, OneMoves, Counts DEF QInv
  <2>2. /\ Cardinality(waiting') <= Cardinality(waiting) + 1
        /\ Cardinality(waiting) \in Nat /\ Cardinality(waiting') \in Nat
    <3>1. waiting \in SUBSET Store!File /\ waiting' \in SUBSET Store!File
              /\ waiting \ {f} = waiting' \ {f}
      BY <1>2, <1>4 DEF QInv, Store!QTypeOK
    <3> QED BY <1>2, <1>6, <3>1, OneMoves, Counts DEF QInv
  <2> QED BY <1>9, <2>1, <2>2, StoreBounds DEF QInv, Crowded
<1> QED BY <1>5, <1>7, <1>10, <1>11 DEF QInv

\* Its size is added, and it is stored.
LEMMA ChargeKeeps == ASSUME QInv, NEW f \in Store!File, Store!Charge(f) PROVE QInv'
<1>1. /\ uploads[f] = "registered" /\ UNCHANGED <<counted, state>> /\ errors' \in 0 .. MaxErrors
      /\ f \in waiting /\ message[f] = "none" /\ orphans[f] = "rest" /\ removal[f] # "counted"
  BY FailsTyped DEF Store!Charge, QInv, Store!QTypeOK, Placed
<1>2. PICK at \in {"done", "first", "over"} :
        /\ Store!Uploads(f, at)
        /\ at = "done" => counted /\ used' = used + 1 /\ waiting' = waiting
        /\ at = "first" => ~counted /\ used' = used /\ waiting' = waiting
        /\ at = "over" => used' = used /\ waiting' = waiting \ {f}
  BY DEF Store!Charge
<1>3. /\ uploads' \in [Store!File -> {"none", "put", "waits", "registered", "first", "done",
         "over"}]
      /\ uploads'[f] = at /\ \A g \in Store!File \ {f} : uploads'[g] = uploads[g]
      /\ UNCHANGED <<message, removal, orphans>> /\ Store!Live' = Store!Live /\ Store!Meets
      /\ Store!Uploading \in SUBSET Store!File /\ Store!Uploading' \in SUBSET Store!File
         /\ Store!Uploading \ {f} = Store!Uploading' \ {f}
      /\ Waiting \in SUBSET Store!File /\ Waiting' \in SUBSET Store!File
         /\ Waiting \ {f} = Waiting' \ {f}
      /\ f \in Store!Uploading /\ (f \in Store!Uploading' <=> at = "first") /\ f \notin Waiting
         /\ f \notin Waiting'
  BY <1>1, <1>2, UploadMoves
<1>4. waiting' \subseteq waiting /\ waiting' \subseteq Store!File /\ used' \in Int
  BY <1>2 DEF QInv, Store!QTypeOK
<1>5. Store!QTypeOK' /\ Summed'
  BY <1>1, <1>3, <1>4, MeetsFits DEF QInv, Store!QTypeOK
<1>6. Placed'
  BY <1>1, <1>2, <1>3 DEF QInv, Placed
<1>7. /\ Cardinality(Store!Uploading) \in Nat /\ Cardinality(Store!Uploading') \in Nat
         /\ Cardinality(Stored) \in Nat
      /\ at = "first" => Cardinality(Store!Uploading') = Cardinality(Store!Uploading)
      /\ at # "first" => Cardinality(Store!Uploading) = Cardinality(Store!Uploading') + 1
  BY <1>3, OneMoves, Counts DEF QInv
<1>8. at # "done" => Stored' = Stored
  BY <1>1, <1>2, <1>3 DEF Stored, Store!Live
<1>9. at = "done" => Cardinality(Stored') = Cardinality(Stored) + 1
  <2>1. SUFFICES ASSUME at = "done" PROVE Cardinality(Stored') = Cardinality(Stored) + 1
    OBVIOUS
  <2>2. f \notin Stored /\ f \in Stored' /\ Stored \ {f} = Stored' \ {f}
    BY <1>1, <1>2, <1>3, <2>1 DEF Stored, Store!Live
  <2> QED BY <1>5, <2>2, Counts, CountsThen, OneMoves DEF QInv
<1>10. Balanced'
  BY <1>1, <1>2, <1>7, <1>8, <1>9, StoreBounds DEF QInv, Store!QTypeOK, Balanced
<1>11. Crowded'
  <2>1. Waiting' = Waiting
    BY <1>3
  <2>2. Cardinality(waiting') <= Cardinality(waiting) /\ Cardinality(waiting) \in Nat
            /\ Cardinality(waiting') \in Nat
    <3>1. waiting \in SUBSET Store!File /\ waiting' \in SUBSET Store!File
              /\ waiting \ {f} = waiting' \ {f}
      BY <1>2, <1>4 DEF QInv, Store!QTypeOK
    <3> QED BY <1>1, <3>1, OneMoves, Counts DEF QInv
  <2>3. Cardinality(Waiting) \in Nat
    BY Counts DEF QInv
  <2> QED BY <1>7, <2>1, <2>2, <2>3, StoreBounds DEF QInv, Crowded
<1> QED BY <1>5, <1>6, <1>10, <1>11 DEF QInv

LEMMA ChargeFirstKeeps == ASSUME QInv, NEW f \in Store!File, Store!ChargeFirst(f) PROVE QInv'
<1>1. /\ uploads[f] = "first" /\ counted' = TRUE /\ UNCHANGED <<waiting, errors>>
         /\ Store!Uploads(f, "done")
      /\ f \in waiting /\ message[f] = "none" /\ orphans[f] = "rest" /\ removal[f] # "counted"
      /\ used' \in Int /\ state' \in {"exact", "off", "repaired"}
      /\ ~counted => used' = 1 /\ state' = state
      /\ counted => state' = "off"
  BY DEF Store!ChargeFirst, QInv, Store!QTypeOK, Placed
<1>2. /\ uploads' \in [Store!File -> {"none", "put", "waits", "registered", "first", "done",
         "over"}]
      /\ uploads'[f] = "done" /\ \A g \in Store!File \ {f} : uploads'[g] = uploads[g]
      /\ UNCHANGED <<message, removal, orphans>> /\ Store!Live' = Store!Live /\ Store!Meets
      /\ Store!Uploading \in SUBSET Store!File /\ Store!Uploading' \in SUBSET Store!File
         /\ Store!Uploading \ {f} = Store!Uploading' \ {f}
      /\ Waiting \in SUBSET Store!File /\ Waiting' \in SUBSET Store!File
         /\ Waiting \ {f} = Waiting' \ {f}
      /\ f \in Store!Uploading /\ f \notin Store!Uploading' /\ f \notin Waiting
         /\ f \notin Waiting'
  BY <1>1, UploadMoves
<1>3. Store!QTypeOK' /\ Summed'
  BY <1>1, <1>2, MeetsFits DEF QInv, Store!QTypeOK
<1>4. Placed'
  BY <1>1, <1>2 DEF QInv, Placed
<1>5. /\ Cardinality(Store!Uploading) \in Nat /\ Cardinality(Store!Uploading') \in Nat
         /\ Cardinality(Stored) \in Nat
      /\ Cardinality(Store!Uploading) = Cardinality(Store!Uploading') + 1
  BY <1>2, OneMoves, Counts DEF QInv
<1>6. Cardinality(Stored') = Cardinality(Stored) + 1
  <2>1. f \notin Stored /\ f \in Stored' /\ Stored \ {f} = Stored' \ {f}
    BY <1>1, <1>2 DEF Stored, Store!Live
  <2> QED BY <1>3, <2>1, Counts, CountsThen, OneMoves DEF QInv
<1>7. Balanced'
  BY <1>1, <1>5, <1>6, StoreBounds DEF QInv, Balanced
<1>8. Crowded'
  <2>1. Waiting' = Waiting
    BY <1>2
  <2> QED BY <1>1, <1>5, <2>1, StoreBounds DEF QInv, Crowded
<1> QED BY <1>3, <1>4, <1>7, <1>8 DEF QInv

-----------------------------------------------------------------------------
\* What is left to show of a step that uploads nothing.
LEMMA NoUpload ==
  ASSUME QInv, UNCHANGED uploads, Store!Meets,
         used' \in Int, counted' \in BOOLEAN, errors' \in 0 .. MaxErrors,
         state' \in {"exact", "off", "repaired"},
         message' \in [Store!File -> {"none", "live", "deleted"}],
         removal' \in [Store!File -> {"rest", "counted"}],
         orphans' \in [Store!File -> {"rest", "found", "discharged"}],
         waiting' \subseteq waiting,
         Placed',
         ~counted' => used' = 0,
         state' # "off" => used' = Cardinality(Stored'),
         state' = "exact" => state = "exact" /\ used' <= used
  PROVE  QInv'
<1>1. Store!QTypeOK' /\ Summed'
  BY MeetsFits DEF QInv, Store!QTypeOK
<1>2. Store!Uploading' = Store!Uploading /\ Waiting' = Waiting
  BY DEF Store!Uploading, Waiting
<1>3. Cardinality(Store!Uploading) \in Nat /\ used \in Int
  BY Counts DEF QInv, Store!QTypeOK
<1>4. Balanced'
  BY <1>2, <1>3, StoreBounds DEF QInv, Balanced
<1>5. /\ Cardinality(waiting') <= Cardinality(waiting)
      /\ Cardinality(waiting) \in Nat /\ Cardinality(waiting') \in Nat
  <2>1. IsFiniteSet(waiting)
    BY Counts, FS_Subset DEF QInv
  <2> QED BY <2>1, FS_Subset, FS_CardinalityType
<1>6. Cardinality(Waiting) \in Nat
  BY Counts DEF QInv
<1>7. Crowded'
  BY <1>2, <1>5, <1>6, StoreBounds DEF QInv, Crowded
<1> QED BY <1>1, <1>4, <1>7 DEF QInv

\* A file is sent; the message takes its place among those that wait.
LEMMA SendKeeps == ASSUME QInv, NEW f \in Store!File, Store!Send(f) PROVE QInv'
<1>1. /\ uploads[f] = "done" /\ f \in waiting /\ message[f] = "none"
      /\ UNCHANGED <<used, counted, uploads, removal, orphans, state>> /\ Store!Meets
      /\ errors' \in 0 .. MaxErrors /\ (waiting' = waiting \/ waiting' = waiting \ {f})
      /\ message' \in [Store!File -> {"none", "live", "deleted"}]
      /\ message'[f] = "live" /\ \A g \in Store!File \ {f} : message'[g] = message[g]
  BY FailsTyped DEF Store!Send, QInv, Store!QTypeOK
<1>2. Placed'
  BY <1>1 DEF QInv, Placed
<1>3. Stored' = Stored
  BY <1>1 DEF Stored, Store!Live
<1> QED BY <1>1, <1>2, <1>3, NoUpload DEF QInv, Store!QTypeOK, Balanced

\* A message is deleted: its file is still counted,
LEMMA EraseKeeps == ASSUME QInv, NEW f \in Store!File, Store!Erase(f) PROVE QInv'
<1>1. /\ message[f] = "live" /\ UNCHANGED <<used, counted, uploads, waiting, orphans, errors,
         state>> /\ Store!Meets
      /\ message' \in [Store!File -> {"none", "live", "deleted"}]
      /\ message'[f] = "deleted" /\ \A g \in Store!File \ {f} : message'[g] = message[g]
      /\ removal' \in [Store!File -> {"rest", "counted"}]
      /\ removal'[f] = "counted" /\ \A g \in Store!File \ {f} : removal'[g] = removal[g]
  BY DEF Store!Erase, QInv, Store!QTypeOK
<1>2. Placed'
  BY <1>1 DEF QInv, Placed
<1>3. Stored' = Stored
  BY <1>1 DEF Stored, Store!Live
<1> QED BY <1>1, <1>2, <1>3, NoUpload DEF QInv, Store!QTypeOK, Balanced

\* until its size is taken off.
LEMMA DischargeKeeps == ASSUME QInv, NEW f \in Store!File, Store!Discharge(f) PROVE QInv'
<1>1. /\ removal[f] = "counted" /\ message[f] = "deleted" /\ uploads[f] = "done"
      /\ UNCHANGED <<uploads, waiting, message, orphans>> /\ Store!Meets
         /\ errors' \in 0 .. MaxErrors
      /\ removal' \in [Store!File -> {"rest", "counted"}]
      /\ removal'[f] = "rest" /\ \A g \in Store!File \ {f} : removal'[g] = removal[g]
  BY FailsTyped DEF Store!Discharge, QInv, Store!QTypeOK, Placed
<1>2. Placed'
  BY <1>1 DEF QInv, Placed
<1>3. CASE used' = used - 1 /\ counted' = TRUE /\ Store!OffIf(orphans[f] = "discharged")
  <2>1. state' # "off" => state' = state /\ orphans[f] # "discharged"
    BY <1>3 DEF Store!OffIf
  <2>2. ASSUME state' # "off" PROVE used' = Cardinality(Stored')
    <3>1. f \in Stored /\ f \notin Stored' /\ Stored \ {f} = Stored' \ {f}
              /\ Stored' \in SUBSET Store!File
      BY <1>1, <2>1, <2>2 DEF Stored, Store!Live
    <3>2. Cardinality(Stored) = Cardinality(Stored') + 1 /\ Cardinality(Stored') \in Nat
      BY <3>1, Counts, OneMoves DEF QInv
    <3> QED BY <1>3, <2>1, <2>2, <3>2 DEF QInv, Balanced
  <2>3. used' \in Int /\ used' <= used /\ state' \in {"exact", "off", "repaired"}
            /\ (state' = "exact" => state = "exact")
    BY <1>3, <2>1 DEF QInv, Store!QTypeOK
  <2> QED BY <1>1, <1>2, <1>3, <2>2, <2>3, NoUpload DEF QInv, Store!QTypeOK
<1>4. CASE state' = "off" /\ UNCHANGED <<used, counted>>
  BY <1>1, <1>2, <1>4, NoUpload DEF QInv, Store!QTypeOK, Balanced
<1> QED BY <1>3, <1>4 DEF Store!Discharge

\* An infected file is taken off, or is not.
LEMMA BlockKeeps == ASSUME QInv, NEW f \in Store!File, Store!Block(f) PROVE QInv'
<1>1. /\ message[f] = "live" /\ state' = "off"
      /\ UNCHANGED <<used, counted, uploads, waiting, removal, orphans, errors>> /\ Store!Meets
      /\ message' \in [Store!File -> {"none", "live", "deleted"}]
      /\ message'[f] = "deleted" /\ \A g \in Store!File \ {f} : message'[g] = message[g]
  BY DEF Store!Block, QInv, Store!QTypeOK
<1>2. Placed'
  BY <1>1 DEF QInv, Placed
<1> QED BY <1>1, <1>2, NoUpload DEF QInv, Store!QTypeOK, Balanced

\* The cleaner finds files that wait for nothing,
LEMMA OrphanFindKeeps == ASSUME QInv, Store!OrphanFind PROVE QInv'
<1>1. PICK old \in SUBSET {f \in waiting : uploads[f] = "done"} \ {{}} :
        orphans' = [f \in Store!File |-> IF f \in old THEN "found" ELSE "rest"]
  BY DEF Store!OrphanFind
<1>2. /\ \A f \in Store!File : orphans[f] = "rest"
      /\ UNCHANGED <<used, counted, uploads, waiting, message, removal, errors, state>>
         /\ Store!Meets
      /\ orphans' \in [Store!File -> {"rest", "found", "discharged"}]
      /\ \A f \in Store!File : orphans'[f] # "discharged"
         /\ (orphans'[f] # "rest" => f \in waiting /\ uploads[f] = "done")
  BY <1>1 DEF Store!OrphanFind
<1>3. Placed'
  BY <1>2 DEF QInv, Placed
<1>4. Stored' = Stored
  BY <1>2 DEF Stored, Store!Live
<1> QED BY <1>2, <1>3, <1>4, NoUpload DEF QInv, Store!QTypeOK, Balanced

\* takes their sizes off,
LEMMA OrphanDischargeKeeps == ASSUME QInv, NEW f \in Store!File, Store!OrphanDischarge(f)
                              PROVE QInv'
<1>1. /\ orphans[f] = "found" /\ uploads[f] = "done" /\ (message[f] = "none" => f \in waiting)
      /\ UNCHANGED <<uploads, waiting, message, removal>> /\ Store!Meets
         /\ errors' \in 0 .. MaxErrors
      /\ orphans' \in [Store!File -> {"rest", "found", "discharged"}]
      /\ orphans'[f] = "discharged" /\ \A g \in Store!File \ {f} : orphans'[g] = orphans[g]
  BY FailsTyped DEF Store!OrphanDischarge, QInv, Store!QTypeOK, Placed
<1>2. Placed'
  BY <1>1 DEF QInv, Placed
<1>3. CASE used' = used - 1 /\ counted' = TRUE /\ Store!OffIf(message[f] # "none")
  <2>1. state' # "off" => state' = state /\ message[f] = "none"
    BY <1>3 DEF Store!OffIf
  <2>2. ASSUME state' # "off" PROVE used' = Cardinality(Stored')
    <3>1. f \in Stored /\ f \notin Stored' /\ Stored \ {f} = Stored' \ {f}
              /\ Stored' \in SUBSET Store!File
      BY <1>1, <2>1, <2>2 DEF Stored, Store!Live
    <3>2. Cardinality(Stored) = Cardinality(Stored') + 1 /\ Cardinality(Stored') \in Nat
      BY <3>1, Counts, OneMoves DEF QInv
    <3> QED BY <1>3, <2>1, <2>2, <3>2 DEF QInv, Balanced
  <2>3. used' \in Int /\ used' <= used /\ state' \in {"exact", "off", "repaired"}
            /\ (state' = "exact" => state = "exact")
    BY <1>3, <2>1 DEF QInv, Store!QTypeOK
  <2> QED BY <1>1, <1>2, <1>3, <2>2, <2>3, NoUpload DEF QInv, Store!QTypeOK
<1>4. CASE state' = "off" /\ UNCHANGED <<used, counted>>
  BY <1>1, <1>2, <1>4, NoUpload DEF QInv, Store!QTypeOK, Balanced
<1> QED BY <1>3, <1>4 DEF Store!OrphanDischarge

LEMMA OrphanDocumentKeeps == ASSUME QInv, NEW f \in Store!File, Store!OrphanDocument(f)
                             PROVE QInv'
<1>1. /\ orphans[f] = "discharged" /\ uploads[f] = "done"
      /\ UNCHANGED <<used, counted, uploads, message, removal>> /\ Store!Meets
         /\ errors' \in 0 .. MaxErrors
  BY FailsTyped DEF Store!OrphanDocument, QInv, Store!QTypeOK, Placed
<1>2. CASE waiting' = waiting \ {f} /\ orphans' = [orphans EXCEPT ![f] = "rest"]
          /\ Store!OffIf(message[f] # "none")
  <2>1. /\ orphans' \in [Store!File -> {"rest", "found", "discharged"}]
        /\ orphans'[f] = "rest" /\ \A g \in Store!File \ {f} : orphans'[g] = orphans[g]
    BY <1>2 DEF QInv, Store!QTypeOK
  <2>2. Placed'
    BY <1>1, <1>2, <2>1 DEF QInv, Placed
  <2>3. state' # "off" => state' = state /\ message[f] = "none"
    BY <1>2 DEF Store!OffIf
  <2>4. state' # "off" => Stored' = Stored
    <3>1. message[f] = "none" => removal[f] # "counted"
      BY DEF QInv, Placed
    <3> QED BY <1>1, <1>2, <2>1, <2>3, <3>1 DEF Stored, Store!Live
  <2>5. state' \in {"exact", "off", "repaired"}
    BY <1>2 DEF Store!OffIf, QInv, Store!QTypeOK
  <2> QED BY <1>1, <1>2, <2>1, <2>2, <2>3, <2>4, <2>5, NoUpload DEF QInv, Store!QTypeOK,
             Balanced
<1>3. CASE orphans' = [g \in Store!File |-> "rest"] /\ state' = "off" /\ UNCHANGED waiting
  <2>1. orphans' \in [Store!File -> {"rest", "found", "discharged"}]
            /\ \A g \in Store!File : orphans'[g] = "rest"
    BY <1>3
  <2>2. Placed'
    BY <1>1, <1>3, <2>1 DEF QInv, Placed
  <2> QED BY <1>1, <1>3, <2>1, <2>2, NoUpload DEF QInv, Store!QTypeOK, Balanced
<1> QED BY <1>2, <1>3 DEF Store!OrphanDocument

-----------------------------------------------------------------------------
\* A rebuild's steps move nothing but itself and, at the end, the counter.
LEMMA Rebuilding ==
  ASSUME QInv, UNCHANGED <<uploads, waiting, message, removal, orphans>>,
         used' \in Int, counted' \in BOOLEAN, errors' \in 0 .. MaxErrors,
         state' \in {"exact", "off", "repaired"},
         rebuild' \in [at : {"rest", "messages", "set"}, sum : Nat, alone : BOOLEAN],
         ~counted' => used' = 0,
         state' # "off" => used' = Cardinality(Stored),
         state' = "exact" => state = "exact",
         Summed'
  PROVE  QInv'
<1>1. Store!QTypeOK' /\ Placed'
  BY DEF QInv, Store!QTypeOK, Placed
<1>2. Store!Uploading' = Store!Uploading /\ Waiting' = Waiting /\ Stored' = Stored
  BY DEF Store!Uploading, Waiting, Stored, Store!Live
<1>3. Balanced'
  BY <1>2 DEF QInv, Balanced
<1>4. Crowded'
  BY <1>2 DEF QInv, Crowded
<1> QED BY <1>1, <1>3, <1>4 DEF QInv

\* It counts what waits,
LEMMA RebuildPendingKeeps == ASSUME QInv, Store!RebuildPending PROVE QInv'
<1>1. /\ rebuild' = [at |-> "messages", sum |-> Cardinality(waiting), alone |-> Store!Quiet]
      /\ UNCHANGED <<used, counted, uploads, waiting, message, removal, orphans, errors, state>>
  BY SameCount DEF Store!RebuildPending
<1>2. Cardinality(waiting) \in Nat
  BY Counts DEF QInv
<1>3. Store!Quiet \in BOOLEAN /\ (Store!Quiet' <=> Store!Quiet)
  BY <1>1 DEF Store!Quiet, Store!Uploading
<1>4. /\ rebuild' \in [at : {"rest", "messages", "set"}, sum : Nat, alone : BOOLEAN]
      /\ rebuild'.at = "messages" /\ rebuild'.sum = Cardinality(waiting)
         /\ (rebuild'.alone <=> Store!Quiet)
  BY <1>1, <1>2, <1>3
<1>5. Summed'
  BY <1>1, <1>2, <1>3, <1>4 DEF Summed
<1> QED BY <1>1, <1>4, <1>5, Rebuilding DEF QInv, Store!QTypeOK, Balanced

\* adds what is in messages,
LEMMA RebuildMessagesKeeps == ASSUME QInv, Store!RebuildMessages PROVE QInv'
<1>1. /\ rebuild.at = "messages" /\ rebuild' = [rebuild EXCEPT !.at = "set", !.sum
         = @ + Cardinality(Store!Live)]
      /\ UNCHANGED <<used, counted, uploads, waiting, message, removal, orphans, errors, state>>
  BY SameCount DEF Store!RebuildMessages
<1>2. Cardinality(waiting) \in Nat /\ Cardinality(Store!Live) \in Nat
  BY Counts DEF QInv
<1>3. (Store!Quiet' <=> Store!Quiet) /\ Store!Live' = Store!Live
  BY <1>1 DEF Store!Quiet, Store!Uploading, Store!Live
<1>4. rebuild \in [at : {"rest", "messages", "set"}, sum : Nat, alone : BOOLEAN]
  BY DEF QInv, Store!QTypeOK
<1>5. /\ rebuild'.at = "set" /\ rebuild'.sum = rebuild.sum + Cardinality(Store!Live)
         /\ rebuild'.alone = rebuild.alone
      /\ rebuild' = [at |-> "set", sum |-> rebuild.sum + Cardinality(Store!Live),
         alone |-> rebuild.alone]
  BY <1>1, <1>4
<1>6. rebuild' \in [at : {"rest", "messages", "set"}, sum : Nat, alone : BOOLEAN]
  BY <1>2, <1>4, <1>5
<1>7. Summed'
  BY <1>1, <1>2, <1>3, <1>5 DEF Summed, QInv
<1> QED BY <1>1, <1>6, <1>7, Rebuilding DEF QInv, Store!QTypeOK, Balanced

\* and writes the sum: it is what is stored, if no change met it.
LEMMA RebuildSetKeeps == ASSUME QInv, Store!RebuildSet PROVE QInv'
<1>1. /\ rebuild.at = "set" /\ rebuild' = Store!NoRebuild
      /\ UNCHANGED <<uploads, waiting, message, removal, orphans>>
  BY DEF Store!RebuildSet
<1>2. /\ rebuild' \in [at : {"rest", "messages", "set"}, sum : Nat, alone : BOOLEAN]
      /\ rebuild'.at = "rest"
  BY <1>1 DEF Store!NoRebuild
<1>3. Summed'
  BY <1>2 DEF Summed
<1>4. errors' \in 0 .. MaxErrors
  BY FailsTyped DEF Store!RebuildSet, QInv
<1>5. CASE UNCHANGED <<used, counted, state>>
  BY <1>1, <1>2, <1>3, <1>4, <1>5, Rebuilding DEF QInv, Store!QTypeOK, Balanced
<1>6. CASE /\ IF rebuild.sum > 0 \/ Store!BytesUsed > 0
              THEN used' = rebuild.sum /\ counted' = TRUE
              ELSE UNCHANGED <<used, counted>>
           /\ state' = IF ~rebuild.alone THEN "off"
                       ELSE IF state = "exact" \/ (rebuild.sum = 0 /\ used < 0) THEN state
                       ELSE "repaired"
  <2>0. /\ rebuild.sum \in Nat /\ rebuild.alone \in BOOLEAN /\ used \in Int
           /\ counted \in BOOLEAN
        /\ state \in {"exact", "off", "repaired"} /\ (~counted => used = 0)
    BY DEF QInv, Store!QTypeOK, Balanced
  <2>3. used' \in Int /\ counted' \in BOOLEAN /\ (~counted' => used' = 0)
    <3>1. CASE rebuild.sum > 0 \/ Store!BytesUsed > 0
      <4>1. used' = rebuild.sum /\ counted' = TRUE
        BY <1>6, <3>1
      <4> QED BY <2>0, <4>1
    <3>2. CASE ~(rebuild.sum > 0 \/ Store!BytesUsed > 0)
      <4>1. used' = used /\ counted' = counted
        BY <1>6, <3>2
      <4> QED BY <2>0, <4>1
    <3> QED BY <3>1, <3>2
  <2>4. state' \in {"exact", "off", "repaired"} /\ (state' = "exact" => state = "exact")
    <3>1. state' \in {"off", state, "repaired"}
      BY <1>6
    <3> QED BY <2>0, <3>1
  <2>1. /\ used' \in Int /\ counted' \in BOOLEAN /\ (~counted' => used' = 0)
        /\ state' \in {"exact", "off", "repaired"} /\ (state' = "exact" => state = "exact")
    BY <2>3, <2>4
  <2>2. ASSUME state' # "off" PROVE used' = Cardinality(Stored)
    <3>1. rebuild.alone
      BY <1>6, <2>0, <2>2
    <3>2. Store!Quiet /\ rebuild.sum = Cardinality(waiting) + Cardinality(Store!Live)
      BY <1>1, <3>1 DEF QInv, Summed
    <3>3. rebuild.sum = Cardinality(Stored)
      BY <3>2, QuietStored DEF QInv
    <3>4. CASE rebuild.sum > 0 \/ Store!BytesUsed > 0
      BY <1>6, <3>3, <3>4
    <3>5. CASE ~(rebuild.sum > 0 \/ Store!BytesUsed > 0)
      <4>1. rebuild.sum = 0 /\ used <= 0 /\ used' = used
        BY <1>6, <2>0, <3>5 DEF Store!BytesUsed
      <4>2. CASE state # "off"
        BY <4>1, <4>2 DEF QInv, Balanced
      <4>3. CASE state = "off"
        <5>1. ~(used < 0)
          BY <1>6, <2>2, <3>1, <4>1, <4>3
        <5> QED BY <2>0, <3>3, <4>1, <5>1
      <4> QED BY <4>2, <4>3
    <3> QED BY <3>4, <3>5
  <2> QED BY <1>1, <1>2, <1>3, <1>4, <2>1, <2>2, Rebuilding
<1> QED BY <1>5, <1>6 DEF Store!RebuildSet

\* Every step of the quota keeps all of it.
LEMMA QNextKeeps == ASSUME QInv, Store!QNext PROVE QInv'
  BY CheckKeeps, CountPendingKeeps, RegisterKeeps, ChargeKeeps, ChargeFirstKeeps, SendKeeps,
     EraseKeeps, DischargeKeeps, BlockKeeps, OrphanFindKeeps, OrphanDischargeKeeps,
     OrphanDocumentKeeps, RebuildPendingKeeps, RebuildMessagesKeeps,
         RebuildSetKeeps DEF Store!QNext

-----------------------------------------------------------------------------
(****************************************************************************)
(* RateLimits.  What the counters have counted, and how long ago.           *)
(****************************************************************************)
\* Those between the question about k and its count.
Callers(k) == {c \in Caller :
        IF k = Everybody THEN caller[c].at = "through"
                         ELSE caller[c].at = "passed" /\ caller[c].key = k}

CallerSet == [at : {"rest", "passed", "counted", "through"}, key : Rates!Key]
\* A counter that counts lives, and what it has counted is no older than the time it has
\* had; who is asked about everybody comes by the way that asks for them.
Dated ==
    \A k \in Rates!Key :
        /\ bucket[k].count > 0 <=> bucket[k].left > 0
        /\ \A n \in 1 .. Rates!Limit(k) : n <= bucket[k].count =>
           ages[k][n] + bucket[k].left <= Window
Routed ==
    \A c \in Caller :
        /\ caller[c].at # "rest" => caller[c].key \in Own
        /\ caller[c].at \in {"counted", "through"} => way = "total"
        /\ way = "frame" => caller[c].at = "rest"
\* What holds of the counters at every step.
LInv == Rates!LTypeOK /\ Dated /\ Routed /\ Rates!LimitHolds /\ Rates!RefusedRightly

\* A limit lets somebody through.
LEMMA LimitPositive == way \in Rates!Way => \A k \in Rates!Key : Rates!Limit(k) \in Nat \ {0}
  BY RateBounds DEF Rates!Limit, Rates!Way

\* Those who are about to count are callers.
LEMMA AboutCounts == \A k \in Rates!Key : Rates!About(k) = Cardinality(Callers(k))
    /\ Callers(k) \subseteq Caller
  BY SameCount DEF Rates!About, Callers

\* A full counter has counted as many as its limit within the window,
LEMMA RefusesRightly == Rates!LTypeOK /\ Dated => Rates!RefusedRightly
<1> SUFFICES ASSUME Rates!LTypeOK, Dated, NEW k \in Rates!Key, Rates!Full(k)
             PROVE ages[k][Rates!Limit(k)] < Window
  BY DEF Rates!RefusedRightly
<1>1. Rates!Limit(k) \in Nat \ {0}
  BY LimitPositive DEF Rates!LTypeOK
<1>2. bucket[k].count \in Nat /\ bucket[k].left \in Nat /\ bucket[k].count >= Rates!Limit(k)
  BY DEF Rates!LTypeOK, Rates!Full
<1>3. bucket[k].left > 0 /\ ages[k][Rates!Limit(k)] + bucket[k].left <= Window
  BY <1>1, <1>2 DEF Dated
<1>4. ages[k][Rates!Limit(k)] \in Nat
  BY <1>1 DEF Rates!LTypeOK
<1> QED BY <1>2, <1>3, <1>4, RateBounds

\* also after a step.
LEMMA RefusesThen == Rates!LTypeOK' /\ Dated' => Rates!RefusedRightly'
  BY RefusesRightly, PTL

\* The counters begin empty.
LEMMA LInitInv == Rates!LInit => LInv
<1> SUFFICES ASSUME Rates!LInit PROVE LInv
  OBVIOUS
<1>1. Rates!LTypeOK
  BY RateBounds DEF Rates!LInit, Rates!LTypeOK, Rates!None, Rates!Rest, Rates!Key
<1>2. Dated
  BY RateBounds, LimitPositive DEF Rates!LInit, Dated, Rates!None
<1>3. Routed
  BY DEF Rates!LInit, Routed, Rates!Rest
<1>4. ASSUME NEW k \in Rates!Key PROVE Rates!About(k) = 0
  <2>1. Callers(k) = {}
    BY DEF Rates!LInit, Rates!Rest, Callers
  <2> QED BY <2>1, FS_EmptySet, AboutCounts
<1>5. Rates!Crowd \in Nat
  BY RateBounds, FS_CardinalityType, SameCount DEF Rates!Crowd
<1>6. Rates!LimitHolds
  BY <1>4, <1>5, LimitPositive DEF Rates!LInit, Rates!LimitHolds, Rates!None
<1> QED BY <1>1, <1>2, <1>3, <1>6, RefusesRightly DEF LInv

LEMMA LStays == LInv /\ UNCHANGED Rates!vars => LInv'
  BY DEF LInv, Rates!vars, Rates!LTypeOK, Dated, Routed, Rates!LimitHolds, Rates!RefusedRightly,
     Rates!Limit, Rates!Full, Rates!About

\* A count moves the counter, and its age, by one.
LEMMA CountMoves ==
  ASSUME Rates!LTypeOK, Dated, NEW k \in Rates!Key, Rates!Count(k), UNCHANGED <<way, interval>>
  PROVE  /\ bucket' \in [Rates!Key -> [count : Nat, left : 0 .. Window]]
         /\ DOMAIN ages' = Rates!Key /\ \A j \in Rates!Key :
            ages'[j] \in [1 .. Rates!Limit(j) -> 0 .. Window]
         /\ \A j \in Rates!Key \ {k} : bucket'[j] = bucket[j]
         /\ bucket'[k].count = bucket[k].count + 1
         /\ Dated'
<1>1. Rates!Limit(k) \in Nat \ {0} /\ \A j \in Rates!Key : Rates!Limit(j)' = Rates!Limit(j)
  BY LimitPositive DEF Rates!LTypeOK, Rates!Limit
<1>2. Rates!Counted(bucket[k]) \in [count : Nat, left : 0 .. Window]
  BY RateBounds DEF Rates!LTypeOK, Rates!Counted
<1>3. /\ bucket' \in [Rates!Key -> [count : Nat, left : 0 .. Window]]
         /\ bucket'[k] = Rates!Counted(bucket[k])
      /\ \A j \in Rates!Key \ {k} : bucket'[j] = bucket[j]
  BY <1>2 DEF Rates!LTypeOK, Rates!Count
<1>4. /\ \A n \in 1 .. Rates!Limit(k) : ages'[k][n] = IF n = 1 THEN 0 ELSE ages[k][n - 1]
      /\ \A j \in Rates!Key \ {k} : ages'[j] = ages[j]
      /\ ages'[k] \in [1 .. Rates!Limit(k) -> 0 .. Window] /\ DOMAIN ages' = Rates!Key
  BY <1>1, RateBounds DEF Rates!LTypeOK, Rates!Count
<1>5. /\ bucket'[k].count = bucket[k].count + 1
      /\ bucket[k].left > 0 => bucket'[k].left = bucket[k].left
      /\ bucket[k].left = 0 => bucket'[k].left = interval /\ bucket[k].count = 0
  BY <1>3 DEF Rates!Counted, Rates!LTypeOK, Dated
<1>6. ASSUME NEW n \in 1 .. Rates!Limit(k), n <= bucket'[k].count
      PROVE  ages'[k][n] + bucket'[k].left <= Window
  <2>1. CASE n = 1
    BY <1>3, <1>4, <2>1, RateBounds DEF Rates!LTypeOK
  <2>2. CASE n # 1
    <3>1. n - 1 \in 1 .. Rates!Limit(k) /\ n - 1 <= bucket[k].count /\ bucket[k].left > 0
      BY <1>1, <1>5, <1>6, <2>2 DEF Dated, Rates!LTypeOK
    <3> QED BY <1>4, <1>5, <2>2, <3>1 DEF Dated
  <2> QED BY <2>1, <2>2
<1>7. bucket'[k].count > 0 /\ bucket'[k].left > 0
  BY <1>5, RateBounds DEF Rates!LTypeOK
<1>8. Dated'
  BY <1>1, <1>3, <1>4, <1>6, <1>7 DEF Dated
<1> QED BY <1>1, <1>3, <1>4, <1>5, <1>8 DEF Rates!LTypeOK

\* Who is between the question and the count, as one caller moves.
LEMMA AboutMoves ==
  ASSUME Rates!LTypeOK, NEW c \in Caller, \A o \in Caller \ {c} :
         caller'[o] = caller[o], NEW k \in Rates!Key
  PROVE  /\ Rates!About(k) \in Nat /\ Rates!About(k)' \in Nat /\ Rates!Crowd \in Nat
         /\ Rates!About(k)' <= Rates!Crowd
         /\ (c \in Callers(k) <=> c \in Callers(k)') => Rates!About(k)' = Rates!About(k)
         /\ c \in Callers(k)' /\ c \notin Callers(k) => Rates!About(k)' = Rates!About(k) + 1
         /\ c \in Callers(k) /\ c \notin Callers(k)' => Rates!About(k) = Rates!About(k)' + 1
<1>1. /\ Callers(k) \in SUBSET Caller /\ Callers(k)' \in SUBSET Caller
      /\ Callers(k) \ {c} = Callers(k)' \ {c}
  BY DEF Callers
<1>2. Rates!Crowd \in Nat /\ Cardinality(Callers(k)') <= Rates!Crowd
  BY <1>1, FS_Subset, FS_CardinalityType, RateBounds, SameCount DEF Rates!Crowd
<1>3. Rates!About(k) = Cardinality(Callers(k)) /\ Rates!About(k)' = Cardinality(Callers(k)')
  BY SameCount DEF Rates!About, Callers
<1> QED BY <1>1, <1>2, <1>3, OneMoves, RateBounds

LEMMA CallerAt ==
  ASSUME NEW c \in Caller, NEW k \in Rates!Key
  PROVE  /\ c \in Callers(k) <=> IF k = Everybody THEN caller[c].at = "through"
                         ELSE caller[c].at = "passed" /\ caller[c].key = k
         /\ c \in Callers(k)' <=> IF k = Everybody THEN caller'[c].at = "through"
                         ELSE caller'[c].at = "passed" /\ caller'[c].key = k
  BY DEF Callers

\* A caller's step.
LEMMA CallerMoves ==
  ASSUME LInv, NEW c \in Caller,
         NEW at \in {"passed", "counted", "through"}, NEW k \in Own,
         Rates!Goes(c, at, k) \/ Rates!Ends(c)
  PROVE  /\ caller' \in [Caller -> CallerSet]
         /\ \A o \in Caller \ {c} : caller'[o] = caller[o]
         /\ Rates!Goes(c, at, k) => caller'[c].at = at /\ caller'[c].key = k
         /\ Rates!Ends(c) => caller'[c].at = "rest"
         /\ UNCHANGED <<way, interval>>
<1>1. Rates!Rest \in CallerSet /\ Rates!Rest.at = "rest"
  BY DEF Rates!Rest, CallerSet, Rates!Key
<1>2. [at |-> at, key |-> k] \in CallerSet
  BY DEF CallerSet, Rates!Key
<1>3. caller \in [Caller -> CallerSet]
  BY DEF LInv, Rates!LTypeOK, CallerSet
<1>4. UNCHANGED <<way, interval>>
  BY DEF Rates!Goes, Rates!Ends
<1>5. CASE Rates!Goes(c, at, k)
  BY <1>2, <1>3, <1>5, <1>4, <1>1 DEF Rates!Goes, Rates!Ends
<1>6. CASE Rates!Ends(c)
  BY <1>1, <1>3, <1>6, <1>4, <1>2 DEF Rates!Ends, Rates!Goes
<1> QED BY <1>5, <1>6

LEMMA SameLimit == UNCHANGED way => \A k \in Rates!Key : Rates!Limit(k)' = Rates!Limit(k)
  BY DEF Rates!Limit

\* What is left to show of a step that counts nothing.
LEMMA NotCounted ==
  ASSUME LInv, UNCHANGED way, interval' \in 1 .. Window, UNCHANGED <<bucket, ages>>,
         caller' \in [Caller -> CallerSet]
  PROVE  Rates!LTypeOK' /\ Dated'
  BY SameLimit DEF LInv, Rates!LTypeOK, Dated, CallerSet

LEMMA LAsks ==
  ASSUME LInv, NEW c \in Caller, NEW k \in Own, Rates!Ask(c, k)
  PROVE  LInv'
<1>1. /\ caller' \in [Caller -> CallerSet]
      /\ \A o \in Caller \ {c} : caller'[o] = caller[o]
      /\ caller'[c].at = "passed" /\ caller'[c].key = k /\ caller[c].at = "rest"
      /\ UNCHANGED <<way, interval, bucket, ages>>
  BY CallerMoves DEF Rates!Ask, Rates!Stays, Rates!Rest
<1>2. Rates!LTypeOK' /\ Dated'
  BY <1>1, NotCounted DEF LInv, Rates!LTypeOK
<1>3. Routed'
  BY <1>1 DEF LInv, Routed, Rates!Ask
<1>4. k \in Rates!Key /\ k # Everybody
  BY RateBounds DEF Rates!Key
<1>5. ASSUME NEW j \in Rates!Key
      PROVE  bucket[j].count + Rates!About(j)' <= Rates!Limit(j) + IF way \in {"slow", "frame"}
          THEN 0 ELSE Rates!Crowd - 1
  <2>0. Rates!Limit(j) \in Nat /\ bucket[j].count \in Nat
    BY LimitPositive DEF LInv, Rates!LTypeOK
  <2>1. CASE j # k
    <3>1. Rates!About(j)' = Rates!About(j)
      BY <1>1, <2>1, AboutMoves, CallerAt DEF LInv
    <3> QED BY <3>1 DEF LInv, Rates!LimitHolds
  <2>2. CASE j = k /\ way = "slow"
    <3>1. Callers(j) = {}
      BY <1>4, <2>2 DEF Rates!Ask, Rates!Serial, Rates!Alone, Callers
    <3>2. Rates!About(j) = 0
      BY <3>1, FS_EmptySet, AboutCounts
    <3>3. Rates!About(j)' = 1
      BY <1>1, <1>4, <2>2, <3>1, <3>2, AboutMoves, CallerAt DEF LInv
    <3> QED BY <2>0, <2>2, <3>3 DEF Rates!Ask, Rates!Full
  <2>3. CASE j = k /\ way # "slow"
    <3>1. Rates!About(j)' <= Rates!Crowd /\ Rates!About(j)' \in Nat /\ Rates!Crowd \in Nat
      BY <1>1, AboutMoves DEF LInv
    <3> QED BY <2>0, <2>3, <3>1 DEF Rates!Ask, Rates!Full
  <2> QED BY <2>1, <2>2, <2>3
<1>6. Rates!LimitHolds'
  BY <1>1, <1>5, SameLimit DEF Rates!LimitHolds, Rates!Crowd
<1> QED BY <1>2, <1>3, <1>6, RefusesThen DEF LInv

\* A caller counts and goes on or ends; who counts later did not ask about the same key.
LEMMA LCounts ==
  ASSUME LInv, NEW c \in Caller, NEW k \in Rates!Key, c \in Callers(k), Rates!Count(k),
         (Rates!Goes(c, "counted", caller[c].key) /\ way = "total") \/ Rates!Ends(c)
  PROVE  LInv'
<1>0. caller[c].key \in Own
  BY CallerAt DEF LInv, Routed
<1>1. /\ caller' \in [Caller -> CallerSet]
      /\ \A o \in Caller \ {c} : caller'[o] = caller[o]
      /\ UNCHANGED <<way, interval>>
      /\ \/ caller'[c].at = "rest"
         \/ caller'[c].at = "counted" /\ caller'[c].key \in Own /\ way = "total"
  BY <1>0, CallerMoves
<1>2. /\ bucket' \in [Rates!Key -> [count : Nat, left : 0 .. Window]]
      /\ DOMAIN ages' = Rates!Key /\ \A j \in Rates!Key :
         ages'[j] \in [1 .. Rates!Limit(j) -> 0 .. Window]
      /\ \A j \in Rates!Key \ {k} : bucket'[j] = bucket[j]
      /\ bucket'[k].count = bucket[k].count + 1
      /\ Dated'
  BY <1>1, CountMoves DEF LInv
<1>3. Rates!LTypeOK'
  BY <1>1, <1>2, SameLimit DEF LInv, Rates!LTypeOK, CallerSet
<1>4. Routed'
  BY <1>1, CallerAt DEF LInv, Routed
<1>5. ASSUME NEW j \in Rates!Key
      PROVE  bucket'[j].count + Rates!About(j)' <= Rates!Limit(j) + IF way \in {"slow", "frame"}
          THEN 0 ELSE Rates!Crowd - 1
  <2>1. c \notin Callers(j)'
    BY <1>1, CallerAt
  <2>2. Rates!About(j) \in Nat /\ Rates!About(j)' \in Nat /\ Rates!About(j)' <= Rates!About(j)
            /\ Rates!Crowd \in Nat
    BY <1>1, <2>1, AboutMoves DEF LInv
  <2>3. j = k => Rates!About(j) = Rates!About(j)' + 1
    BY <1>1, <2>1, AboutMoves DEF LInv
  <2>4. bucket[j].count \in Nat /\ Rates!Limit(j) \in Nat
    BY LimitPositive DEF LInv, Rates!LTypeOK
  <2>5. bucket'[j].count + Rates!About(j)' <= bucket[j].count + Rates!About(j)
    BY <1>2, <2>2, <2>3, <2>4
  <2>6. bucket'[j].count \in Nat
    BY <1>2
  <2>7. bucket[j].count + Rates!About(j) <= Rates!Limit(j) + IF way \in {"slow", "frame"} THEN 0
            ELSE Rates!Crowd - 1
    BY DEF LInv, Rates!LimitHolds
  <2> QED BY <2>2, <2>4, <2>5, <2>6, <2>7
<1>6. Rates!LimitHolds'
  BY <1>1, <1>5, SameLimit DEF Rates!LimitHolds, Rates!Crowd
<1> QED BY <1>2, <1>3, <1>4, <1>6, RefusesThen DEF LInv

\* A caller goes on or ends without a count, and asks about no key it did not ask about.
LEMMA LPasses ==
  ASSUME LInv, NEW c \in Caller, Rates!Stays,
         \/ Rates!Ends(c)
         \/ /\ Rates!Goes(c, "through", caller[c].key) /\ caller[c].at = "counted"
            /\ ~Rates!Full(Everybody)
  PROVE  LInv'
<1>0. Rates!Goes(c, "through", caller[c].key) /\ caller[c].at = "counted" =>
          caller[c].key \in Own /\ way = "total"
  BY DEF LInv, Routed
<1>1. /\ caller' \in [Caller -> CallerSet]
      /\ \A o \in Caller \ {c} : caller'[o] = caller[o]
      /\ UNCHANGED <<way, interval, bucket, ages>>
      /\ \/ caller'[c].at = "rest"
         \/ /\ caller'[c].at = "through" /\ caller'[c].key \in Own /\ way = "total"
            /\ caller[c].at = "counted" /\ ~Rates!Full(Everybody)
  <2>1. CASE Rates!Ends(c)
    <3>1. Own = {} \/ \E k \in Own : TRUE
      OBVIOUS
    <3>2. Rates!Rest \in CallerSet /\ Rates!Rest.at = "rest"
      BY DEF Rates!Rest, CallerSet, Rates!Key
    <3> QED BY <2>1, <3>2 DEF Rates!Ends, Rates!Stays, LInv, Rates!LTypeOK, CallerSet
  <2>2. CASE Rates!Goes(c, "through", caller[c].key) /\ caller[c].at = "counted"
            /\ ~Rates!Full(Everybody)
    BY <1>0, <2>2, CallerMoves DEF Rates!Stays
  <2> QED BY <2>1, <2>2
<1>2. Rates!LTypeOK' /\ Dated'
  BY <1>1, NotCounted DEF LInv, Rates!LTypeOK
<1>3. Routed'
  BY <1>1 DEF LInv, Routed
<1>5. ASSUME NEW j \in Rates!Key
      PROVE  bucket[j].count + Rates!About(j)' <= Rates!Limit(j) + IF way \in {"slow", "frame"}
          THEN 0 ELSE Rates!Crowd - 1
  <2>0. Rates!Limit(j) \in Nat /\ bucket[j].count \in Nat
    BY LimitPositive DEF LInv, Rates!LTypeOK
  <2>1. CASE c \notin Callers(j)'
    <3>1. Rates!About(j) \in Nat /\ Rates!About(j)' \in Nat /\ Rates!About(j)' <= Rates!About(j)
              /\ Rates!Crowd \in Nat
      BY <1>1, <2>1, AboutMoves DEF LInv
    <3>2. bucket[j].count + Rates!About(j) <= Rates!Limit(j) + IF way \in {"slow", "frame"}
              THEN 0 ELSE Rates!Crowd - 1
      BY DEF LInv, Rates!LimitHolds
    <3> QED BY <2>0, <3>1, <3>2
  <2>2. CASE c \in Callers(j)'
    <3>1. j = Everybody /\ way = "total" /\ ~Rates!Full(Everybody)
      BY <1>1, <2>2, CallerAt
    <3>2. Rates!About(j)' <= Rates!Crowd /\ Rates!About(j)' \in Nat /\ Rates!Crowd \in Nat
      BY <1>1, AboutMoves DEF LInv
    <3> QED BY <2>0, <3>1, <3>2 DEF Rates!Full
  <2> QED BY <2>1, <2>2
<1>6. Rates!LimitHolds'
  BY <1>1, <1>5, SameLimit DEF Rates!LimitHolds, Rates!Crowd
<1> QED BY <1>2, <1>3, <1>6, RefusesThen DEF LInv

\* Counters that are lowered, or that lose time.
LEMMA LLowers ==
  ASSUME LInv, UNCHANGED <<way, caller>>, interval' \in 1 .. Window,
         bucket' \in [Rates!Key -> [count : Nat, left : 0 .. Window]],
         DOMAIN ages' = Rates!Key, \A j \in Rates!Key :
             ages'[j] \in [1 .. Rates!Limit(j) -> 0 .. Window],
         \A j \in Rates!Key : bucket'[j].count <= bucket[j].count,
         Dated'
  PROVE  LInv'
<1>1. Rates!LTypeOK'
  BY SameLimit DEF LInv, Rates!LTypeOK
<1>2. Routed'
  BY DEF LInv, Routed
<1>3. ASSUME NEW k \in Rates!Key PROVE Rates!About(k)' = Rates!About(k)
          /\ Rates!About(k) \in Nat /\ Rates!Crowd \in Nat
  <2>1. Callers(k) \in SUBSET Caller
    BY DEF Callers
  <2>2. Rates!About(k) \in Nat
    BY <2>1, FS_Subset, FS_CardinalityType, AboutCounts, RateBounds
  <2>3. Rates!Crowd \in Nat
    BY FS_CardinalityType, RateBounds, SameCount DEF Rates!Crowd
  <2>4. Rates!About(k)' = Rates!About(k)
    BY DEF Rates!About
  <2> QED BY <2>2, <2>3, <2>4
<1>4. Rates!LimitHolds'
  <2>1. \A k \in Rates!Key : bucket[k].count \in Nat /\ bucket'[k].count \in Nat
            /\ Rates!Limit(k) \in Nat
    BY LimitPositive DEF LInv, Rates!LTypeOK
  <2> DEFINE Beyond == IF way \in {"slow", "frame"} THEN 0 ELSE Rates!Crowd - 1
  <2>2. Beyond' = Beyond
    BY DEF Rates!Crowd
  <2>3. Beyond \in Int
    <3>1. Rates!Crowd \in Nat
      BY FS_CardinalityType, RateBounds, SameCount DEF Rates!Crowd
    <3> QED BY <3>1
  <2>4. \A k \in Rates!Key : bucket[k].count + Rates!About(k) <= Rates!Limit(k) + Beyond
    BY DEF LInv, Rates!LimitHolds
  <2> HIDE DEF Beyond
  <2>5. ASSUME NEW k \in Rates!Key
        PROVE  bucket'[k].count + Rates!About(k)' <= Rates!Limit(k) + Beyond
    <3>1. bucket'[k].count <= bucket[k].count
      OBVIOUS
    <3> QED BY <1>3, <2>1, <2>3, <2>4, <3>1
  <2> QED BY <2>2, <2>5, SameLimit DEF Rates!LimitHolds, Beyond
<1> QED BY <1>1, <1>2, <1>4, RefusesThen DEF LInv

\* Every step of the limits keeps all of it.
LEMMA LNextKeeps == ASSUME LInv, Rates!LNext PROVE LInv'
<1>1. ASSUME NEW c \in Caller, NEW k \in Own, Rates!Ask(c, k) PROVE LInv'
  BY <1>1, LAsks
<1>2. ASSUME NEW c \in Caller, Rates!CountAtOnce(c) PROVE LInv'
  <2>1. c \in Callers(caller[c].key) /\ caller[c].key \in Rates!Key
    BY <1>2, CallerAt, RateBounds DEF Rates!CountAtOnce, LInv, Routed, Rates!Key
  <2>2. (Rates!Goes(c, "counted", caller[c].key) /\ way = "total") \/ Rates!Ends(c)
    BY <1>2 DEF Rates!CountAtOnce
  <2>3. Rates!Count(caller[c].key)
    BY <1>2 DEF Rates!CountAtOnce
  <2> QED BY <2>1, <2>2, <2>3, LCounts
<1>3. ASSUME NEW c \in Caller, Rates!AskAll(c) PROVE LInv'
  BY <1>3, LPasses DEF Rates!AskAll
<1>4. ASSUME NEW c \in Caller, Rates!CountAll(c) PROVE LInv'
  <2>1. c \in Callers(Everybody) /\ Everybody \in Rates!Key
    BY <1>4, CallerAt DEF Rates!CountAll, Rates!Key
  <2> QED BY <1>4, <2>1, LCounts DEF Rates!CountAll
<1>5. ASSUME NEW c \in Caller, Rates!CountAfter(c) PROVE LInv'
  <2>1. c \in Callers(caller[c].key) /\ caller[c].key \in Rates!Key
    BY <1>5, CallerAt, RateBounds DEF Rates!CountAfter, LInv, Routed, Rates!Key
  <2>2. CASE Rates!Count(caller[c].key)
    BY <1>5, <2>1, <2>2, LCounts DEF Rates!CountAfter
  <2>3. CASE Rates!Stays
    BY <1>5, <2>3, LPasses DEF Rates!CountAfter
  <2> QED BY <1>5, <2>2, <2>3 DEF Rates!CountAfter
<1>6. ASSUME NEW k \in Own, Rates!Frame(k) PROVE LInv'
  <2>0. k \in Rates!Key /\ way = "frame" /\ UNCHANGED <<way, interval, caller>>
            /\ ~Rates!Full(k) /\ Rates!Count(k)
    BY <1>6 DEF Rates!Frame, Rates!Key
  <2>1. /\ bucket' \in [Rates!Key -> [count : Nat, left : 0 .. Window]]
        /\ DOMAIN ages' = Rates!Key /\ \A j \in Rates!Key :
           ages'[j] \in [1 .. Rates!Limit(j) -> 0 .. Window]
        /\ \A j \in Rates!Key \ {k} : bucket'[j] = bucket[j]
        /\ bucket'[k].count = bucket[k].count + 1
        /\ Dated'
    BY <2>0, CountMoves DEF LInv
  <2>2. Rates!LTypeOK' /\ Routed'
    BY <2>0, <2>1, SameLimit DEF LInv, Rates!LTypeOK, Routed
  <2>3. ASSUME NEW j \in Rates!Key PROVE Rates!About(j) = 0 /\ Rates!About(j)' = 0
    <3>1. Callers(j) = {}
      BY <2>0 DEF LInv, Routed, Callers
    <3> QED BY <2>0, <3>1, FS_EmptySet, AboutCounts DEF Rates!About
  <2>4. \A j \in Rates!Key : bucket[j].count \in Nat /\ Rates!Limit(j) \in Nat
    BY LimitPositive DEF LInv, Rates!LTypeOK
  <2>5. \A j \in Rates!Key : bucket'[j].count <= Rates!Limit(j)
    <3>0. bucket[k].count \in Nat /\ Rates!Limit(k) \in Nat
      BY <2>0, <2>4
    <3>1. bucket[k].count < Rates!Limit(k)
      BY <2>0, <3>0 DEF Rates!Full
    <3>2. ASSUME NEW j \in Rates!Key PROVE bucket[j].count <= Rates!Limit(j)
      <4>1. bucket[j].count + Rates!About(j) <= Rates!Limit(j) + 0
        BY <2>0 DEF LInv, Rates!LimitHolds
      <4>2. bucket[j].count \in Nat /\ Rates!Limit(j) \in Nat /\ Rates!About(j) = 0
        BY <2>3, <2>4
      <4> QED BY <4>1, <4>2
    <3>3. \A j \in Rates!Key : bucket[j].count <= Rates!Limit(j)
      BY <3>2
    <3>4. bucket'[k].count <= Rates!Limit(k)
      BY <2>1, <3>0, <3>1
    <3> QED BY <2>1, <3>3, <3>4
  <2>6. Rates!LimitHolds'
    <3>1. way' = "frame" /\ \A j \in Rates!Key : Rates!Limit(j)' = Rates!Limit(j)
      BY <2>0, SameLimit
    <3>2. \A j \in Rates!Key : bucket'[j].count + Rates!About(j)' <= Rates!Limit(j) + 0
      <4>1. \A j \in Rates!Key : bucket'[j].count \in Nat
        BY <2>1
      <4> QED BY <2>3, <2>4, <2>5, <4>1
    <3> QED BY <3>1, <3>2 DEF Rates!LimitHolds
  <2> QED BY <2>1, <2>2, <2>6, RefusesThen DEF LInv
<1>7. ASSUME NEW k \in Rates!Key, bucket' = [bucket EXCEPT ![k] = Rates!None],
          UNCHANGED <<way, interval, caller, ages>>
      PROVE  LInv'
  <2>1. /\ bucket' \in [Rates!Key -> [count : Nat, left : 0 .. Window]]
        /\ \A j \in Rates!Key : bucket'[j].count <= bucket[j].count
    BY <1>7, RateBounds DEF Rates!None, LInv, Rates!LTypeOK
  <2>2. Dated'
    BY <1>7, SameLimit, LimitPositive DEF Rates!None, LInv, Rates!LTypeOK, Dated
  <2> QED BY <1>7, <2>1, <2>2, LLowers DEF LInv, Rates!LTypeOK
<1>8. ASSUME Rates!SetInterval PROVE LInv'
  <2>1. Dated' /\ \A j \in Rates!Key : bucket'[j].count <= bucket[j].count
    BY <1>8, SameLimit DEF Rates!SetInterval, LInv, Rates!LTypeOK, Dated
  <2> QED BY <1>8, <2>1, LLowers DEF Rates!SetInterval, LInv, Rates!LTypeOK
<1>9. ASSUME Rates!Tick PROVE LInv'
  <2>1. \A k \in Rates!Key : bucket'[k] = IF bucket[k].left <= 1 THEN Rates!None
            ELSE [bucket[k] EXCEPT !.left = @ - 1]
    BY <1>9 DEF Rates!Tick
  <2>2. ASSUME NEW k \in Rates!Key
        PROVE  /\ bucket'[k] \in [count : Nat, left : 0 .. Window]
               /\ \/ bucket'[k].count = 0 /\ bucket'[k].left = 0
                  \/ /\ bucket[k].left > 1 /\ bucket'[k].left = bucket[k].left - 1
                     /\ bucket'[k].count = bucket[k].count
    <3>1. bucket[k] \in [count : Nat, left : 0 .. Window]
      BY DEF LInv, Rates!LTypeOK
    <3>2. CASE bucket[k].left <= 1
      <4>1. bucket'[k] = [count |-> 0, left |-> 0]
        BY <2>1, <3>2 DEF Rates!None
      <4> QED BY <4>1, RateBounds
    <3>3. CASE ~(bucket[k].left <= 1)
      <4>1. bucket'[k] = [bucket[k] EXCEPT !.left = @ - 1]
        BY <2>1, <3>3
      <4>2. bucket[k].left \in 0 .. Window /\ bucket[k].count \in Nat
        BY <3>1
      <4>3. bucket'[k] = [count |-> bucket[k].count, left |-> bucket[k].left - 1]
        BY <3>1, <4>1
      <4>4. bucket[k].left - 1 \in 0 .. Window /\ bucket[k].left > 1
        BY <3>3, <4>2, RateBounds
      <4> QED BY <4>2, <4>3, <4>4
    <3> QED BY <3>2, <3>3
  <2>3. /\ bucket' \in [Rates!Key -> [count : Nat, left : 0 .. Window]]
        /\ \A k \in Rates!Key : bucket'[k].count <= bucket[k].count
    <3>1. \A k \in Rates!Key : bucket[k].count \in Nat
      BY DEF LInv, Rates!LTypeOK
    <3>2. bucket' = [k \in Rates!Key |-> bucket'[k]]
      BY <1>9 DEF Rates!Tick
    <3>3. bucket' \in [Rates!Key -> [count : Nat, left : 0 .. Window]]
      BY <2>2, <3>2
    <3>4. \A k \in Rates!Key : bucket'[k].count <= bucket[k].count
      BY <2>2, <3>1
    <3> QED BY <3>3, <3>4
  <2>4. /\ DOMAIN ages' = Rates!Key
        /\ \A k \in Rates!Key : \A n \in 1 .. Rates!Limit(k) :
             ages'[k][n] = IF ages[k][n] < Window THEN ages[k][n] + 1 ELSE Window
    BY <1>9 DEF Rates!Tick
  <2>5. \A k \in Rates!Key : ages'[k] \in [1 .. Rates!Limit(k) -> 0 .. Window]
    BY <1>9, RateBounds, LimitPositive DEF Rates!Tick, LInv, Rates!LTypeOK
  <2>6. Dated'
    <3>1. ASSUME NEW k \in Rates!Key PROVE bucket'[k].count > 0 <=> bucket'[k].left > 0
      BY <2>2 DEF LInv, Rates!LTypeOK, Dated
    <3>2. ASSUME NEW k \in Rates!Key, NEW n \in 1 .. Rates!Limit(k), n <= bucket'[k].count
          PROVE  ages'[k][n] + bucket'[k].left <= Window
      <4>1. Rates!Limit(k) \in Nat \ {0} /\ n \in Nat \ {0}
        BY LimitPositive DEF LInv, Rates!LTypeOK
      <4>2. bucket[k].left > 1 /\ bucket'[k].left = bucket[k].left - 1
                /\ bucket'[k].count = bucket[k].count
        BY <2>2, <3>2, <4>1 DEF LInv, Rates!LTypeOK
      <4>3. ages[k][n] + bucket[k].left <= Window
        BY <3>2, <4>2 DEF LInv, Dated
      <4>4. ages[k][n] \in Nat /\ bucket[k].left \in Nat
        <5>1. ages[k] \in [1 .. Rates!Limit(k) -> 0 .. Window] /\ bucket[k].left \in 0 .. Window
          BY DEF LInv, Rates!LTypeOK
        <5>2. ages[k][n] \in 0 .. Window
          BY <5>1
        <5> QED BY <5>1, <5>2
      <4>5. ages'[k][n] = IF ages[k][n] < Window THEN ages[k][n] + 1 ELSE Window
        BY <2>4
      <4> QED BY <4>2, <4>3, <4>4, <4>5, RateBounds
    <3> QED BY <1>9, <3>1, <3>2, SameLimit DEF Dated, Rates!Tick
  <2> QED BY <1>9, <2>3, <2>4, <2>5, <2>6, LLowers DEF Rates!Tick, LInv, Rates!LTypeOK
<1>10. ASSUME NEW k \in Own, Rates!Leave(k) PROVE LInv'
  BY <1>7, <1>10 DEF Rates!Leave, Rates!Key
<1>11. ASSUME NEW k \in Rates!Key, Rates!Evict(k) PROVE LInv'
  BY <1>7, <1>11 DEF Rates!Evict
<1> QED BY <1>1, <1>2, <1>3, <1>4, <1>5, <1>6, <1>8, <1>9, <1>10, <1>11 DEF Rates!LNext

-----------------------------------------------------------------------------
(****************************************************************************)
(* Signups.  The slots of an hour and of a day, and who holds one.          *)
(****************************************************************************)
\* Where a request can be, and those that hold the slot of a day.
GuestSet == [at : {"rest", "asked", "hour", "day", "create"}, name : Name, hour : Accounts!Hour]
Creating == {g \in Guest : guest[g].at = "create"}

\* A counter is never below what was opened and what is held, and never above its limit.
SlotsTaken ==
    /\ \A h \in Accounts!Hour : hourly[h] <= MaxHour
    /\ IsFiniteSet(users)
    /\ Cardinality(users) + Cardinality(Creating) <= daily /\ daily <= MaxDay

\* What holds of the sign-ups at every step.
SInv == Accounts!STypeOK /\ SlotsTaken /\ Accounts!OneWelcome /\ Accounts!SlotsAccounted

\* Who asks for nothing has the type of a guest.
LEMMA SRest == Accounts!Rest \in GuestSet /\ Accounts!Rest.at = "rest"
<1>1. Accounts!Rest.name \in Name /\ Accounts!Rest.hour = 1 /\ Accounts!Rest.at = "rest"
  BY SignupBounds DEF Accounts!Rest
<1>2. Accounts!Rest = [at |-> "rest", name |-> Accounts!Rest.name, hour |-> 1]
  BY DEF Accounts!Rest
<1> QED BY <1>1, <1>2, SignupBounds DEF GuestSet, Accounts!Hour

\* No account is open at first.
LEMMA SInitInv == Accounts!SInit => SInv
<1> SUFFICES ASSUME Accounts!SInit PROVE SInv
  OBVIOUS
<1>1. Accounts!STypeOK
  BY SRest, SignupBounds DEF Accounts!SInit, Accounts!STypeOK, GuestSet, Accounts!Hour
<1>2. Creating = {} /\ \A h \in Accounts!Hour : Accounts!Holding(h) = {}
  BY SRest DEF Accounts!SInit, Creating, Accounts!Holding
<1>3. SlotsTaken
  BY <1>2, FS_EmptySet, SignupBounds DEF Accounts!SInit, SlotsTaken
<1>4. Accounts!OneWelcome
  BY DEF Accounts!SInit, Accounts!OneWelcome
<1>5. Accounts!SlotsAccounted
  BY <1>2, FS_EmptySet, SignupBounds, SameCount DEF Accounts!SInit, Accounts!SlotsAccounted
<1> QED BY <1>1, <1>3, <1>4, <1>5 DEF SInv

\* A step that is not of the sign-ups leaves all as it is.
LEMMA SStays == SInv /\ UNCHANGED Accounts!vars => SInv'
  BY DEF SInv, Accounts!vars, Accounts!history, Accounts!STypeOK, SlotsTaken,
     Accounts!OneWelcome, Accounts!SlotsAccounted, Creating, Accounts!Holding

\* A request moves: the slots it holds before and after.
LEMMA GuestMoves ==
  ASSUME Accounts!STypeOK, NEW g \in Guest, \A o \in Guest \ {g} : guest'[o] = guest[o]
  PROVE  /\ Cardinality(Creating) \in Nat /\ Cardinality(Creating') \in Nat
         /\ (g \in Creating <=> g \in Creating') =>
            Cardinality(Creating') = Cardinality(Creating)
         /\ g \in Creating' /\ g \notin Creating =>
            Cardinality(Creating') = Cardinality(Creating) + 1
         /\ g \in Creating /\ g \notin Creating' =>
            Cardinality(Creating) = Cardinality(Creating') + 1
         /\ \A h \in Accounts!Hour :
            /\ Cardinality(Accounts!Holding(h)) \in Nat
               /\ Cardinality(Accounts!Holding(h)') \in Nat
            /\ (g \in Accounts!Holding(h) <=> g \in Accounts!Holding(h)') =>
               Cardinality(Accounts!Holding(h)') = Cardinality(Accounts!Holding(h))
            /\ g \in Accounts!Holding(h)' /\ g \notin Accounts!Holding(h) =>
               Cardinality(Accounts!Holding(h)') = Cardinality(Accounts!Holding(h)) + 1
            /\ g \in Accounts!Holding(h) /\ g \notin Accounts!Holding(h)' =>
               Cardinality(Accounts!Holding(h)) = Cardinality(Accounts!Holding(h)') + 1
<1>1. /\ Creating \in SUBSET Guest /\ Creating' \in SUBSET Guest
      /\ Creating \ {g} = Creating' \ {g}
  BY DEF Creating
<1>2. ASSUME NEW h \in Accounts!Hour
      PROVE  /\ Accounts!Holding(h) \in SUBSET Guest /\ Accounts!Holding(h)' \in SUBSET Guest
             /\ Accounts!Holding(h) \ {g} = Accounts!Holding(h)' \ {g}
  BY DEF Accounts!Holding
<1>3. \A h \in Accounts!Hour :
            /\ Cardinality(Accounts!Holding(h)) \in Nat
               /\ Cardinality(Accounts!Holding(h)') \in Nat
            /\ (g \in Accounts!Holding(h) <=> g \in Accounts!Holding(h)') =>
               Cardinality(Accounts!Holding(h)') = Cardinality(Accounts!Holding(h))
            /\ g \in Accounts!Holding(h)' /\ g \notin Accounts!Holding(h) =>
               Cardinality(Accounts!Holding(h)') = Cardinality(Accounts!Holding(h)) + 1
            /\ g \in Accounts!Holding(h) /\ g \notin Accounts!Holding(h)' =>
               Cardinality(Accounts!Holding(h)) = Cardinality(Accounts!Holding(h)') + 1
  BY <1>2, OneMoves, SignupBounds
<1> QED BY <1>1, <1>3, OneMoves, SignupBounds

\* The steps keep the types,
LEMMA STyped ==
  ASSUME SInv, Accounts!SNext PROVE Accounts!STypeOK'
<1>0. Accounts!STypeOK
  BY DEF SInv
<1>1. ASSUME NEW g \in Guest, NEW n \in Name, Accounts!Ask(g, n) PROVE Accounts!STypeOK'
  <2>1. [Accounts!Rest EXCEPT !.at = "asked", !.name = n] \in GuestSet
    BY SRest DEF GuestSet
  <2> QED BY <1>0, <1>1, <2>1, SignupBounds DEF Accounts!STypeOK, Accounts!Ask, GuestSet,
             Accounts!history
<1>2. ASSUME NEW g \in Guest, Accounts!TakeTime(g) PROVE Accounts!STypeOK'
  BY <1>0, <1>2 DEF Accounts!STypeOK, Accounts!TakeTime, Accounts!history
<1>3. ASSUME NEW g \in Guest, NEW at \in {"day", "create"}, Accounts!Goes(g, at)
      PROVE guest' \in [Guest -> GuestSet]
  BY <1>0, <1>3 DEF Accounts!STypeOK, Accounts!Goes, GuestSet
<1>4. ASSUME NEW g \in Guest, Accounts!Ends(g) PROVE guest' \in [Guest -> GuestSet]
  BY <1>0, <1>4, SRest DEF Accounts!STypeOK, Accounts!Ends, GuestSet
<1>5. ASSUME NEW g \in Guest, Accounts!TakeHour(g) PROVE Accounts!STypeOK'
  <2>1. guest' \in [Guest -> GuestSet]
    BY <1>3, <1>4, <1>5 DEF Accounts!TakeHour
  <2>2. hourly' \in [Accounts!Hour -> Nat]
    BY <1>0, <1>5 DEF Accounts!STypeOK, Accounts!TakeHour
  <2>3. fails' \in 0 .. MaxFails /\ wasted' = wasted
    BY <1>0, <1>5, SignupBounds DEF Accounts!STypeOK, Accounts!TakeHour, Accounts!Goes,
       Accounts!Errs
  <2> QED BY <1>0, <1>5, <2>1, <2>2, <2>3 DEF Accounts!STypeOK, Accounts!TakeHour, GuestSet
<1>6. ASSUME NEW g \in Guest, Accounts!Wastes(g) \/ wasted' = wasted
      PROVE wasted' \in [Accounts!Hour -> Nat]
  BY <1>0, <1>6 DEF Accounts!STypeOK, Accounts!Wastes
<1>7. ASSUME NEW g \in Guest, Accounts!TakeDay(g) PROVE Accounts!STypeOK'
  <2>1. guest' \in [Guest -> GuestSet]
    BY <1>3, <1>4, <1>7 DEF Accounts!TakeDay
  <2>2. daily' \in Nat
    BY <1>0, <1>7 DEF Accounts!STypeOK, Accounts!TakeDay
  <2>3. fails' \in 0 .. MaxFails
    BY <1>0, <1>7, SignupBounds DEF Accounts!STypeOK, Accounts!TakeDay, Accounts!Goes,
       Accounts!Errs
  <2>4. wasted' \in [Accounts!Hour -> Nat]
    BY <1>6, <1>7 DEF Accounts!TakeDay, Accounts!Goes
  <2> QED BY <1>0, <1>7, <2>1, <2>2, <2>3, <2>4 DEF Accounts!STypeOK, Accounts!TakeDay, GuestSet
<1>8. ASSUME NEW g \in Guest, Accounts!Create(g) PROVE Accounts!STypeOK'
  <2>1. guest' \in [Guest -> GuestSet]
    BY <1>4, <1>8 DEF Accounts!Create
  <2>2. fails' \in 0 .. MaxFails
    BY <1>0, <1>8, SignupBounds DEF Accounts!STypeOK, Accounts!Create, Accounts!Errs
  <2>3. wasted' \in [Accounts!Hour -> Nat]
    BY <1>6, <1>8 DEF Accounts!Create
  <2>4. users' \subseteq Name /\ opened' \in [Accounts!Hour -> Nat]
            /\ welcomed' \in [Name -> Nat]
    BY <1>0, <1>8 DEF Accounts!STypeOK, Accounts!Create
  <2> QED BY <1>0, <1>8, <2>1, <2>2, <2>3, <2>4 DEF Accounts!STypeOK, Accounts!Create, GuestSet
<1>9. ASSUME Accounts!NextHour PROVE Accounts!STypeOK'
  <2>1. hour' \in Accounts!Hour
    BY <1>0, <1>9, SignupBounds DEF Accounts!STypeOK, Accounts!NextHour, Accounts!Hour
  <2> QED BY <1>0, <1>9, <2>1 DEF Accounts!STypeOK, Accounts!NextHour, Accounts!history
<1> QED BY <1>1, <1>2, <1>5, <1>7, <1>8, <1>9 DEF Accounts!SNext

\* Where a request that moves is to be found.
LEMMA GuestAt ==
  ASSUME Accounts!STypeOK, NEW g \in Guest
  PROVE  /\ g \in Creating <=> guest[g].at = "create"
         /\ \A h \in Accounts!Hour : g \in Accounts!Holding(h)
            <=> guest[g].at \in {"day", "create"} /\ guest[g].hour = h
         /\ g \in Creating' <=> guest'[g].at = "create"
         /\ \A h \in Accounts!Hour : g \in Accounts!Holding(h)'
            <=> guest'[g].at \in {"day", "create"} /\ guest'[g].hour = h
  BY DEF Creating, Accounts!Holding

\* the slots,
LEMMA SCounts ==
  ASSUME SInv, Accounts!SNext PROVE SlotsTaken' /\ Accounts!SlotsAccounted'
<1>0. Accounts!STypeOK
  BY DEF SInv
<1>1. ASSUME NEW g \in Guest, NEW n \in Name, Accounts!Ask(g, n)
      PROVE SlotsTaken' /\ Accounts!SlotsAccounted'
  <2>1. /\ guest[g].at = "rest" /\ guest'[g].at = "asked"
        /\ \A o \in Guest \ {g} : guest'[o] = guest[o]
    BY <1>0, <1>1, SRest DEF Accounts!Ask, Accounts!STypeOK, GuestSet
  <2>2. Cardinality(Creating') = Cardinality(Creating)
            /\ \A h \in Accounts!Hour : Cardinality(Accounts!Holding(h)')
               = Cardinality(Accounts!Holding(h))
    BY <1>0, <2>1, GuestMoves, GuestAt
  <2> QED BY <1>1, <2>2, SameCount DEF SInv, SlotsTaken, Accounts!SlotsAccounted, Accounts!Ask,
             Accounts!history
<1>2. ASSUME NEW g \in Guest, Accounts!TakeTime(g) PROVE SlotsTaken' /\ Accounts!SlotsAccounted'
  <2>1. /\ guest[g].at = "asked" /\ guest'[g].at = "hour"
        /\ \A o \in Guest \ {g} : guest'[o] = guest[o]
    BY <1>0, <1>2 DEF Accounts!TakeTime, Accounts!STypeOK
  <2>2. Cardinality(Creating') = Cardinality(Creating)
            /\ \A h \in Accounts!Hour : Cardinality(Accounts!Holding(h)')
               = Cardinality(Accounts!Holding(h))
    BY <1>0, <2>1, GuestMoves, GuestAt
  <2> QED BY <1>2, <2>2, SameCount DEF SInv, SlotsTaken, Accounts!SlotsAccounted,
             Accounts!TakeTime, Accounts!history
<1>3. ASSUME NEW g \in Guest, Accounts!TakeHour(g) PROVE SlotsTaken' /\ Accounts!SlotsAccounted'
  <2>1. guest[g].at = "hour" /\ \A o \in Guest \ {g} : guest'[o] = guest[o]
    BY <1>0, <1>3 DEF Accounts!TakeHour, Accounts!STypeOK, Accounts!Goes, Accounts!Ends
  <2>2. UNCHANGED <<daily, users, opened, wasted>>
    BY <1>3 DEF Accounts!TakeHour, Accounts!Goes
  <2>3. CASE /\ Accounts!Free(hourly[guest[g].hour], MaxHour)
             /\ hourly' = [hourly EXCEPT ![guest[g].hour] = @ + 1] /\ Accounts!Goes(g, "day")
    <3>1. guest'[g].at = "day" /\ guest'[g].hour = guest[g].hour
      BY <1>0, <2>3 DEF Accounts!STypeOK, Accounts!Goes
    <3>2. /\ Cardinality(Creating') = Cardinality(Creating)
          /\ \A h \in Accounts!Hour : Cardinality(Accounts!Holding(h)')
             = Cardinality(Accounts!Holding(h)) + IF h = guest[g].hour THEN 1 ELSE 0
      BY <1>0, <2>1, <3>1, GuestMoves, GuestAt
    <3>3. \A h \in Accounts!Hour : hourly'[h] = hourly[h] + (IF h = guest[g].hour THEN 1 ELSE 0)
              /\ hourly'[h] <= MaxHour
      BY <1>0, <2>3, SignupBounds DEF Accounts!STypeOK, Accounts!Free, SInv, SlotsTaken
    <3>4. SlotsTaken'
      BY <2>2, <3>2, <3>3 DEF SInv, SlotsTaken
    <3>5. Accounts!SlotsAccounted'
      <4>1. \A h \in Accounts!Hour :
                hourly'[h] = opened[h] + Cardinality(Accounts!Holding(h)') + wasted[h]
        BY <1>0, <2>1, <3>2, <3>3, GuestMoves, SameCount DEF SInv, Accounts!SlotsAccounted,
           Accounts!STypeOK
      <4> QED BY <2>2, <4>1, SameCount DEF SInv, Accounts!SlotsAccounted
    <3> QED BY <3>4, <3>5
  <2>4. CASE Accounts!Ends(g) /\ UNCHANGED hourly
    <3>1. guest'[g].at = "rest"
      BY <1>0, <2>4, SRest DEF Accounts!STypeOK, Accounts!Ends
    <3>2. Cardinality(Creating') = Cardinality(Creating)
              /\ \A h \in Accounts!Hour : Cardinality(Accounts!Holding(h)')
                 = Cardinality(Accounts!Holding(h))
      BY <1>0, <2>1, <3>1, GuestMoves, GuestAt
    <3> QED BY <2>2, <2>4, <3>2, SameCount DEF SInv, SlotsTaken, Accounts!SlotsAccounted
  <2> QED BY <1>3, <2>3, <2>4 DEF Accounts!TakeHour
\* A request that holds a slot ends, and the slot is wasted.
<1>4. ASSUME NEW g \in Guest, guest[g].at \in {"day", "create"}, Accounts!Ends(g),
          Accounts!Wastes(g),
             UNCHANGED <<hourly, daily, users, opened>>
      PROVE  SlotsTaken' /\ Accounts!SlotsAccounted'
  <2>1. /\ guest'[g].at = "rest"
        /\ \A o \in Guest \ {g} : guest'[o] = guest[o]
        /\ \A h \in Accounts!Hour : wasted'[h] = wasted[h] + IF h = guest[g].hour THEN 1 ELSE 0
    BY <1>0, <1>4, SRest DEF Accounts!STypeOK, Accounts!Ends, Accounts!Wastes
  <2>2. \A h \in Accounts!Hour : Cardinality(Accounts!Holding(h))
            = Cardinality(Accounts!Holding(h)') + IF h = guest[g].hour THEN 1 ELSE 0
    BY <1>0, <1>4, <2>1, GuestMoves, GuestAt
  <2>3. Cardinality(Creating') <= Cardinality(Creating) /\ Cardinality(Creating') \in Nat
            /\ Cardinality(Creating) \in Nat
    BY <1>0, <1>4, <2>1, GuestMoves, GuestAt
  <2>4. SlotsTaken'
    <3>1. Cardinality(users) \in Nat /\ daily \in Nat
      BY <1>0, FS_CardinalityType DEF SInv, SlotsTaken, Accounts!STypeOK
    <3> QED BY <1>4, <2>3, <3>1 DEF SInv, SlotsTaken
  <2>5. Accounts!SlotsAccounted'
    <3>1. ASSUME NEW h \in Accounts!Hour
          PROVE  hourly[h] = opened[h] + Cardinality(Accounts!Holding(h)') + wasted'[h]
      <4>1. hourly[h] = opened[h] + Cardinality(Accounts!Holding(h)) + wasted[h]
        BY <1>0, SameCount DEF SInv, Accounts!SlotsAccounted
      <4>2. /\ opened[h] \in Nat /\ wasted[h] \in Nat
            /\ Cardinality(Accounts!Holding(h)') \in Nat
        BY <1>0, <2>1, GuestMoves DEF SInv, Accounts!STypeOK
      <4>3. wasted'[h] = wasted[h] + IF h = guest[g].hour THEN 1 ELSE 0
        BY <2>1
      <4> QED BY <2>2, <4>1, <4>2, <4>3
    <3> QED BY <1>4, <3>1, SameCount DEF SInv, Accounts!SlotsAccounted
  <2> QED BY <2>4, <2>5
<1>5. ASSUME NEW g \in Guest, Accounts!TakeDay(g) PROVE SlotsTaken' /\ Accounts!SlotsAccounted'
  <2>1. guest[g].at = "day" /\ UNCHANGED <<hourly, users, opened>>
    BY <1>5 DEF Accounts!TakeDay
  <2>2. CASE Accounts!Free(daily, MaxDay) /\ daily' = daily + 1 /\ Accounts!Goes(g, "create")
    <3>1. /\ guest'[g].at = "create" /\ guest'[g].hour = guest[g].hour /\ wasted' = wasted
          /\ \A o \in Guest \ {g} : guest'[o] = guest[o]
      BY <1>0, <2>2 DEF Accounts!STypeOK, Accounts!Goes
    <3>2. /\ Cardinality(Creating') = Cardinality(Creating) + 1
          /\ \A h \in Accounts!Hour : Cardinality(Accounts!Holding(h)')
             = Cardinality(Accounts!Holding(h))
          /\ Cardinality(Creating) \in Nat
      BY <1>0, <2>1, <3>1, GuestMoves, GuestAt
    <3>3. Cardinality(users) \in Nat /\ daily \in Nat
      BY <1>0, FS_CardinalityType DEF SInv, SlotsTaken, Accounts!STypeOK
    <3>4. SlotsTaken'
      BY <2>1, <2>2, <3>2, <3>3, SignupBounds DEF SInv, SlotsTaken, Accounts!Free
    <3> QED BY <2>1, <3>1, <3>2, <3>4, SameCount DEF SInv, Accounts!SlotsAccounted
  <2>3. CASE Accounts!Ends(g) /\ Accounts!Wastes(g) /\ UNCHANGED daily
    BY <1>4, <2>1, <2>3
  <2> QED BY <1>5, <2>2, <2>3 DEF Accounts!TakeDay
<1>6. ASSUME NEW g \in Guest, Accounts!Create(g) PROVE SlotsTaken' /\ Accounts!SlotsAccounted'
  <2>1. guest[g].at = "create" /\ Accounts!Ends(g) /\ UNCHANGED <<hourly, daily>>
    BY <1>6 DEF Accounts!Create
  <2>2. CASE /\ guest[g].name \notin users /\ users' = users \cup {guest[g].name}
             /\ opened' = [opened EXCEPT ![guest[g].hour] = @ + 1] /\ UNCHANGED wasted
    <3>1. /\ guest'[g].at = "rest"
          /\ \A o \in Guest \ {g} : guest'[o] = guest[o]
          /\ \A h \in Accounts!Hour : opened'[h] = opened[h] + IF h = guest[g].hour THEN 1
             ELSE 0
      BY <1>0, <2>1, <2>2, SRest DEF Accounts!STypeOK, Accounts!Ends
    <3>2. /\ Cardinality(Creating) = Cardinality(Creating') + 1
             /\ Cardinality(Creating') \in Nat
          /\ \A h \in Accounts!Hour : Cardinality(Accounts!Holding(h))
             = Cardinality(Accounts!Holding(h)') + IF h = guest[g].hour THEN 1 ELSE 0
      BY <1>0, <2>1, <3>1, GuestMoves, GuestAt
    <3>3. IsFiniteSet(users') /\ Cardinality(users') = Cardinality(users) + 1
              /\ Cardinality(users) \in Nat
      BY <2>2, FS_AddElement, FS_CardinalityType DEF SInv, SlotsTaken
    <3>4. SlotsTaken'
      BY <1>0, <2>1, <3>2, <3>3 DEF SInv, SlotsTaken, Accounts!STypeOK
    <3>5. \A h \in Accounts!Hour :
              hourly[h] = opened'[h] + Cardinality(Accounts!Holding(h)') + wasted[h]
      BY <1>0, <3>1, <3>2, GuestMoves, SameCount DEF SInv, Accounts!SlotsAccounted,
         Accounts!STypeOK
    <3>6. \A h \in Accounts!Hour : opened'[h] <= MaxHour
      BY <1>0, <3>1, <3>5, GuestMoves, SignupBounds DEF SInv, SlotsTaken, Accounts!STypeOK
    <3>7. Cardinality(users') <= MaxDay
      BY <1>0, <3>2, <3>3, SignupBounds DEF SInv, SlotsTaken, Accounts!STypeOK
    <3> QED BY <2>1, <2>2, <3>4, <3>5, <3>6, <3>7, SameCount DEF Accounts!SlotsAccounted
  <2>3. CASE Accounts!Wastes(g) /\ UNCHANGED <<users, opened>>
    BY <1>4, <2>1, <2>3
  <2> QED BY <1>6, <2>2, <2>3 DEF Accounts!Create
<1>7. ASSUME Accounts!NextHour PROVE SlotsTaken' /\ Accounts!SlotsAccounted'
  BY <1>7 DEF SInv, Accounts!NextHour, Accounts!history, SlotsTaken, Accounts!SlotsAccounted,
     Creating, Accounts!Holding
<1> QED BY <1>1, <1>2, <1>3, <1>5, <1>6, <1>7 DEF Accounts!SNext

\* and the one welcome of a name.
LEMMA SWelcomes ==
  ASSUME SInv, Accounts!SNext PROVE Accounts!OneWelcome'
<1>0. Accounts!STypeOK /\ Accounts!OneWelcome
  BY DEF SInv
<1>1. CASE UNCHANGED <<users, welcomed>>
  BY <1>0, <1>1 DEF Accounts!OneWelcome
<1>2. ASSUME NEW g \in Guest, Accounts!Create(g) PROVE Accounts!OneWelcome'
  BY <1>0, <1>2 DEF Accounts!Create, Accounts!OneWelcome, Accounts!STypeOK
<1> QED BY <1>1, <1>2 DEF Accounts!SNext, Accounts!Ask, Accounts!TakeTime, Accounts!TakeHour,
           Accounts!TakeDay, Accounts!NextHour, Accounts!history

\* So every step of the sign-ups keeps all of it.
LEMMA SNextKeeps == ASSUME SInv, Accounts!SNext PROVE SInv'
  BY STyped, SCounts, SWelcomes DEF SInv

-----------------------------------------------------------------------------
\* All parts together.  The one that moves keeps its own invariant; the others rest.
FileInv == TypeInv /\ Watched /\ PlacedInv

\* The file: what AttachmentsProofs proves, as one invariant.
LEMMA FileInit == AttInit => FileInv
  BY InitTyped, InitWatched, InitEarly, InitContained, InitSound, InitSettled
     DEF FileInv, PlacedInv

LEMMA FileKeeps == ASSUME FileInv, [AttNext]_vars PROVE FileInv'
<1>1. TypeInv /\ Watched /\ PlacedInv
  BY DEF FileInv
<1>2. TypeInv'
  BY <1>1, NextFlags, NextTyped DEF TypeInv
<1> QED BY <1>1, <1>2, NextWatched, NextPlaced DEF FileInv

LEMMA FileMeans == FileInv => AttTypeOK /\ PendingIsScanned /\ CleanIsThere /\ InfectedStaysIn
<1> SUFFICES ASSUME FileInv PROVE AttTypeOK /\ PendingIsScanned /\ CleanIsThere
        /\ InfectedStaysIn
  OBVIOUS
<1>1. TypeInv /\ Watched /\ PlacedInv
  BY DEF FileInv
<1>2. AttTypeOK
  BY <1>1 DEF TypeInv, FlagsTyped, Typed, AttTypeOK, MsgSet, JobSet, ScanSet
<1>3. PendingIsScanned
  BY <1>1 DEF Watched, Waits, PendingIsScanned, Awaited
<1>4. CleanIsThere
  BY <1>1, PlacedMeans
<1>5. InfectedStaysIn
  BY <1>1 DEF PlacedInv, Contained, InfectedStaysIn
<1> QED BY <1>2, <1>3, <1>4, <1>5

\* All of it.
RelationsInv ==
    /\ moving \in Part
    /\ FileInv /\ FriendInv /\ OInv /\ AInv /\ QInv /\ LInv /\ SInv

\* It holds at first,
LEMMA RelationsInitInv == RelationsInit => RelationsInv
  BY FileInit, FriendInit, OInitInv, AInitInv, QInitInv, LInitInv, SInitInv
     DEF RelationsInit, RelationsInv

\* What rests stays as it is.
LEMMA FileRests == ASSUME FileInv, UNCHANGED vars PROVE FileInv'
  BY FileKeeps

LEMMA FriendRests == ASSUME FriendInv, UNCHANGED friendship PROVE FriendInv'
  BY FriendStays DEF friendship, Friend!vars

LEMMA ListRests == ASSUME OInv, UNCHANGED ownList PROVE OInv'
  BY OStays DEF ownList, Lists!vars

LEMMA AccessRests == ASSUME AInv, UNCHANGED cached PROVE AInv'
  BY AStays DEF cached, Cache!vars

LEMMA QuotaRests == ASSUME QInv, UNCHANGED quota PROVE QInv'
  BY QStays DEF quota, Store!vars

LEMMA RatesRest == ASSUME LInv, UNCHANGED rates PROVE LInv'
  BY LStays DEF rates, Rates!vars

LEMMA SignupsRest == ASSUME SInv, UNCHANGED signups PROVE SInv'
  BY SStays DEF signups, Accounts!vars

\* and every step keeps it: the part that moves its own invariant, the others by resting.
LEMMA RelationsKeep ==
  ASSUME RelationsInv, [RelationsNext]_everything
  PROVE  RelationsInv'
<1>1. /\ moving \in Part
      /\ FileInv /\ FriendInv /\ OInv /\ AInv /\ QInv /\ LInv /\ SInv
  BY DEF RelationsInv
<1>2. moving' \in Part
  BY <1>1 DEF RelationsNext, everything
<1>3. FileInv'
  <2>1. CASE AttNext
    BY <1>1, <2>1, FileKeeps
  <2>2. CASE UNCHANGED vars
    BY <1>1, <2>2, FileRests
  <2> QED BY <2>1, <2>2 DEF RelationsNext, everything
<1>4. FriendInv'
  <2>1. CASE Friend!FNext
    BY <1>1, <2>1, FriendNext
  <2>2. CASE UNCHANGED friendship
    BY <1>1, <2>2, FriendRests
  <2> QED BY <2>1, <2>2 DEF RelationsNext, everything
<1>5. OInv'
  <2>1. CASE Lists!ONext
    BY <1>1, <2>1, OTyped, OFollows DEF OInv
  <2>2. CASE UNCHANGED ownList
    BY <1>1, <2>2, ListRests
  <2> QED BY <2>1, <2>2 DEF RelationsNext, everything
<1>6. AInv'
  <2>1. CASE Cache!ANext
    BY <1>1, <2>1, ANextKeeps
  <2>2. CASE UNCHANGED cached
    BY <1>1, <2>2, AccessRests
  <2> QED BY <2>1, <2>2 DEF RelationsNext, everything
<1>7. QInv'
  <2>1. CASE Store!QNext
    BY <1>1, <2>1, QNextKeeps
  <2>2. CASE UNCHANGED quota
    BY <1>1, <2>2, QuotaRests
  <2> QED BY <2>1, <2>2 DEF RelationsNext, everything
<1>8. LInv'
  <2>1. CASE Rates!LNext
    BY <1>1, <2>1, LNextKeeps
  <2>2. CASE UNCHANGED rates
    BY <1>1, <2>2, RatesRest
  <2> QED BY <2>1, <2>2 DEF RelationsNext, everything
<1>9. SInv'
  <2>1. CASE Accounts!SNext
    BY <1>1, <2>1, SNextKeeps
  <2>2. CASE UNCHANGED signups
    BY <1>1, <2>2, SignupsRest
  <2> QED BY <2>1, <2>2 DEF RelationsNext, everything
<1> QED BY <1>2, <1>3, <1>4, <1>5, <1>6, <1>7, <1>8, <1>9 DEF RelationsInv

\* So it always holds, whichever part moves.
LEMMA RelationsAlways == RelationsSpec => []RelationsInv
  BY RelationsInitInv, RelationsKeep, PTL DEF RelationsSpec

\* Every part has its types, whatever fails, crosses or expires.
THEOREM RelationsTyped == RelationsSpec => []RelationsTypeOK
<1>1. RelationsInv => RelationsTypeOK
  <2> SUFFICES ASSUME RelationsInv PROVE RelationsTypeOK
    OBVIOUS
  <2>1. /\ AttTypeOK /\ Friend!FTypeOK /\ Lists!OTypeOK /\ Cache!ATypeOK
        /\ Store!QTypeOK /\ Rates!LTypeOK /\ Accounts!STypeOK
    BY FileMeans DEF RelationsInv, FriendInv, OInv, AInv, QInv, LInv, SInv
  <2>2. moving \in {"file", "friends", "lists", "access", "quota", "rates", "signups"}
    BY DEF RelationsInv, Part
  <2> QED BY <2>1, <2>2 DEF RelationsTypeOK
<1> QED BY <1>1, RelationsAlways, PTL

\* Two people are friends only where both have wanted it, and one who removed the other
\* stays removed until they agree anew, for any number of requests that cross, come again,
\* or are answered late, but for the races that the model names.
THEOREM FriendsHaveAgreed == RelationsSpec => []FriendshipHolds
<1>1. RelationsInv => FriendshipHolds
  BY DEF RelationsInv, FriendInv, FriendshipHolds
<1> QED BY <1>1, RelationsAlways, PTL

\* What is cached of a relation is so, or is about to be dropped, or became wrong no longer
\* ago than the cache may keep it; and a friend list that is wrong has a named race behind it.
\* However many read at once, and whenever the relations change.
THEOREM CachesAreCurrent == RelationsSpec => []CachesFollow
<1>1. RelationsInv => CachesFollow
  BY AInvMeans DEF RelationsInv, FriendInv, CachesFollow
<1> QED BY <1>1, RelationsAlways, PTL

\* What the client was last told of an entry is what the list says, but for entries whose
\* toggles crossed, for any number of entries and of toggles at once.
THEOREM ClientsAreToldSo == RelationsSpec => []ToldIsSo
<1>1. RelationsInv => ToldIsSo
  BY DEF RelationsInv, OInv, ToldIsSo
<1> QED BY <1>1, RelationsAlways, PTL

\* No message waits for a scan that nobody will make, what is shown as clean is there, the
\* counter is exact where nothing is under way and no named race or error has met it, and what
\* is kept passes the quota by less than what is uploaded at once; for any bounds.
THEOREM FilesAreSettled == RelationsSpec => []FilesSettle
<1>1. RelationsInv => FilesSettle
  BY FileMeans, QInvMeans DEF RelationsInv, FilesSettle
<1> QED BY <1>1, RelationsAlways, PTL

\* No limit is passed by more than those who ask at once, nobody is refused for what is older
\* than the window, no name is given twice, and each slot of a sign-up is an account, held by a
\* request, or known to be wasted; for any number of callers and guests.
THEOREM LimitsAreKept == RelationsSpec => []LimitsKept
<1>1. RelationsInv => LimitsKept
  BY DEF RelationsInv, LInv, SInv, LimitsKept
<1> QED BY <1>1, RelationsAlways, PTL
================================================================================
