------------------------------- MODULE CallProofs -------------------------------
(****************************************************************************)
(* Proofs about CallSessions, for any users, connections and bounds: the     *)
(* types, and that the books of the calls balance (LedgerInv): a call that   *)
(* was placed has one holder until it has one outcome.                       *)
(****************************************************************************)
EXTENDS CallSessions, TLAPS

\* The steps of a connection keep the phases in their type.
LEMMA ConnTyped ==
  ASSUME ConnTypeOK, NEW c \in Conn, ConnStep(c)
  PROVE  ConnTypeOK'
  BY DEF ConnTypeOK, ConnStep, Attach, Detach, Decide, Wake, MoveTo, Phase

\* So does moving one to a phase.
LEMMA MoveTyped ==
  ASSUME ConnTypeOK, NEW c \in Conn, NEW phase \in Phase, MoveTo(c, phase)
  PROVE  ConnTypeOK'
  BY DEF ConnTypeOK, MoveTo

\* They leave a connection in the middle of its cleanup where it is.
LEMMA ActingStays ==
  ASSUME ConnTypeOK, NEW c \in Conn, ConnStep(c), NEW d \in Conn, conn[d] = "acting"
  PROVE  conn'[d] = conn[d]
  BY DEF ConnTypeOK, ConnStep, Attach, Detach, Decide, Wake, MoveTo

-----------------------------------------------------------------------------
(****************************************************************************)
(* LedgerInv, spelled out for each place a session can be in.               *)
(****************************************************************************)
InOrder(s) == /\ s.id < nextId
              /\ s.phase = "Accepted" <=> s.id \in answered
              /\ \A v \in verdicts : v[1] # s.id

Books ==
    /\ \A p \in Pair : sessions[p] # NoSession =>
          PairOf(sessions[p]) = p /\ InOrder(sessions[p])
    /\ \A c \in Conn : \A s \in taken[c] :
          PairOf(s) \in Pair /\ InOrder(s) /\ conn[c] = "acting"
    /\ \A p, q \in Pair :
          sessions[p] # NoSession /\ sessions[q] # NoSession
              /\ sessions[p].id = sessions[q].id => p = q
    /\ \A p \in Pair, c \in Conn : \A s \in taken[c] :
          sessions[p] # NoSession => s.id # sessions[p].id
    /\ \A c, d \in Conn : \A s \in taken[c], t \in taken[d] :
          s.id = t.id => c = d /\ s = t
    /\ \A c \in Conn : \A s, t \in taken[c] : PairOf(s) = PairOf(t) => s = t
    /\ \A v \in verdicts : v[1] < nextId
    /\ \A v, w \in verdicts : v[1] = w[1] => v = w
    /\ \A i \in answered : i < nextId
    /\ \A i \in CallId : i < nextId =>
          \/ \E v \in verdicts : v[1] = i
          \/ \E p \in Pair : sessions[p] # NoSession /\ sessions[p].id = i
          \/ \E c \in Conn : \E s \in taken[c] : s.id = i

LEMMA BooksAreLedger == Books <=> LedgerInv
<1>1. \A s : s \in Held <=> \/ \E p \in Pair : sessions[p] # NoSession /\ s = sessions[p]
                            \/ \E c \in Conn : s \in taken[c]
  BY DEF Held, InHand, InMap
<1>2. LedgerInv => Books
  <2> SUFFICES ASSUME LedgerInv PROVE Books
    OBVIOUS
  <2>1. \A s \in Held : InOrder(s)
    BY DEF LedgerInv, IdsPlaced, EndsOnce, Over, InOrder
  <2>2. \A c \in Conn : \A s \in taken[c] : conn[c] = "acting"
    BY DEF LedgerInv, TakenByActing
  <2> QED
    BY <1>1, <2>1, <2>2
    DEF Books, LedgerInv, KeysMatch, OneHolder, IdsPlaced, EndsOnce, NeverForgotten,
        Over, InMap
<1>3. Books => LedgerInv
  <2> SUFFICES ASSUME Books PROVE LedgerInv
    OBVIOUS
  <2>1. \A s \in Held : InOrder(s)
    BY <1>1 DEF Books
  <2>2. KeysMatch /\ OneHolder
    BY DEF Books, KeysMatch, OneHolder, InMap
  <2>3. TakenByActing
    BY DEF Books, TakenByActing
  <2>4. IdsPlaced
    BY <2>1 DEF Books, IdsPlaced, InOrder
  <2>5. EndsOnce
    BY <2>1 DEF Books, EndsOnce, InOrder, Over
  <2>6. NeverForgotten
    BY <1>1 DEF Books, NeverForgotten, Over
  <2> QED BY <2>2, <2>3, <2>4, <2>5, <2>6 DEF LedgerInv
<1> QED BY <1>2, <1>3

-----------------------------------------------------------------------------
(****************************************************************************)
(* The ways the actions move sessions.  Most take some out of the map and    *)
(* give each an outcome.                                                    *)
(****************************************************************************)
LEMMA SessionTyped ==
  ASSUME TypeOK, NEW p \in Pair, sessions[p] # NoSession
  PROVE  /\ sessions[p] \in Session
         /\ sessions[p].id \in CallId
  BY DEF TypeOK, Session

LEMMA RemoveKeepsBooks ==
  ASSUME TypeOK, Books, NEW R \in SUBSET InMap, NEW f \in [R -> Verdict],
         sessions' = Without(R),
         verdicts' = verdicts \cup {<<sessions[p].id, f[p]>> : p \in R},
         UNCHANGED <<nextId, taken, answered>>,
         \A c \in Conn : taken[c] # {} => conn'[c] = conn[c]
  PROVE  /\ sessions' \in [Pair -> Session \cup {NoSession}]
         /\ verdicts' \subseteq CallId \X Verdict
         /\ Books'
<1>1. \A p \in Pair : sessions'[p] = IF p \in R THEN NoSession ELSE sessions[p]
  BY DEF Without
<1>2. \A p \in R : p \in Pair /\ sessions[p] # NoSession /\ sessions[p].id \in CallId
  BY SessionTyped DEF InMap
<1>3. \A v : v \in verdicts' <=> \/ v \in verdicts
                                 \/ \E p \in R : v = <<sessions[p].id, f[p]>>
  OBVIOUS
<1>4. sessions' \in [Pair -> Session \cup {NoSession}]
  BY DEF Without, TypeOK
<1>5. verdicts' \subseteq CallId \X Verdict
  BY <1>2, <1>3 DEF TypeOK
<1>6. \A p \in Pair : sessions'[p] # NoSession =>
          PairOf(sessions[p])' = p /\ InOrder(sessions[p])'
  <2> SUFFICES ASSUME NEW p \in Pair, sessions'[p] # NoSession
               PROVE  PairOf(sessions[p])' = p /\ InOrder(sessions[p])'
    OBVIOUS
  <2>1. p \notin R /\ sessions'[p] = sessions[p]
    BY <1>1
  <2>2. \A q \in R : sessions[q].id # sessions[p].id
    BY <1>2, <2>1 DEF Books
  <2>3. PairOf(sessions[p]) = p /\ InOrder(sessions[p])
    BY <2>1 DEF Books
  <2>4. PairOf(sessions[p])' = p
    BY <2>1, <2>3 DEF PairOf, Parties
  <2>5. InOrder(sessions[p])'
    BY <1>3, <2>1, <2>2, <2>3 DEF InOrder
  <2> QED BY <2>4, <2>5
<1>7. \A c \in Conn : \A s \in taken'[c] :
          PairOf(s) \in Pair /\ InOrder(s)' /\ conn'[c] = "acting"
  <2> SUFFICES ASSUME NEW c \in Conn, NEW s \in taken[c]
               PROVE  PairOf(s) \in Pair /\ InOrder(s)' /\ conn'[c] = "acting"
    OBVIOUS
  <2>1. \A q \in R : sessions[q].id # s.id
    BY <1>2 DEF Books
  <2>2. PairOf(s) \in Pair /\ InOrder(s) /\ conn[c] = "acting"
    BY DEF Books
  <2>3. InOrder(s)'
    BY <1>3, <2>1, <2>2 DEF InOrder
  <2>4. conn'[c] = "acting"
    BY <2>2
  <2> QED BY <2>2, <2>3, <2>4
<1>8. \A v \in verdicts' : v[1] < nextId'
  BY <1>2, <1>3 DEF Books, InOrder
<1>9. \A v, w \in verdicts' : v[1] = w[1] => v = w
  <2> SUFFICES ASSUME NEW v \in verdicts', NEW w \in verdicts', v[1] = w[1]
               PROVE  v = w
    OBVIOUS
  <2>1. CASE v \in verdicts /\ w \in verdicts
    BY <2>1 DEF Books
  <2>2. ASSUME NEW x \in verdicts, NEW p \in R
        PROVE  x[1] # sessions[p].id
    BY <1>2, <2>2 DEF Books, InOrder
  <2>3. CASE \E p, q \in R : v = <<sessions[p].id, f[p]>> /\ w = <<sessions[q].id, f[q]>>
    BY <1>2, <2>3 DEF Books
  <2> QED BY <1>3, <2>1, <2>2, <2>3
<1>10. \A i \in CallId : i < nextId' =>
          \/ \E v \in verdicts' : v[1] = i
          \/ \E p \in Pair : sessions'[p] # NoSession /\ sessions'[p].id = i
          \/ \E c \in Conn : \E s \in taken'[c] : s.id = i
  <2> SUFFICES ASSUME NEW i \in CallId, i < nextId,
                      NEW p \in Pair, sessions[p] # NoSession, sessions[p].id = i
               PROVE  \/ \E v \in verdicts' : v[1] = i
                      \/ sessions'[p] # NoSession /\ sessions'[p].id = i
    BY <1>3 DEF Books
  <2>1. CASE p \in R
    <3>1. <<sessions[p].id, f[p]>> \in verdicts'
      BY <2>1
    <3> QED BY <3>1
  <2>2. CASE p \notin R
    BY <1>1, <2>2
  <2> QED BY <2>1, <2>2
<1>11. /\ \A p, q \in Pair :
            sessions'[p] # NoSession /\ sessions'[q] # NoSession
                /\ sessions'[p].id = sessions'[q].id => p = q
       /\ \A p \in Pair, c \in Conn : \A s \in taken'[c] :
            sessions'[p] # NoSession => s.id # sessions'[p].id
  BY <1>1 DEF Books
<1>12. /\ \A c, d \in Conn : \A s \in taken'[c], t \in taken'[d] :
            s.id = t.id => c = d /\ s = t
       /\ \A c \in Conn : \A s, t \in taken'[c] : PairOf(s) = PairOf(t) => s = t
       /\ \A i \in answered' : i < nextId'
  BY DEF Books
<1>13. Books'
  BY <1>6, <1>7, <1>8, <1>9, <1>10, <1>11, <1>12 DEF Books, PairOf, Parties
<1> QED BY <1>4, <1>5, <1>13

\* Steps that move no session.
LEMMA QuietKeepsBooks ==
  ASSUME Books, UNCHANGED <<sessions, nextId, taken, verdicts, answered>>,
         \A c \in Conn : taken[c] # {} => conn'[c] = conn[c]
  PROVE  Books'
<1>1. \A s : InOrder(s) => InOrder(s)'
  BY DEF InOrder
<1>2. \A c \in Conn : taken'[c] # {} => conn'[c] = conn[c]
  OBVIOUS
<1> QED BY <1>1, <1>2 DEF Books, PairOf, Parties

\* A session is rewritten in place: it keeps its id, its users and, with the
\* set of answered calls, its phase.
LEMMA RewriteKeepsBooks ==
  ASSUME TypeOK, Books, NEW p \in Pair, sessions[p] # NoSession,
         NEW s \in Session, s.id = sessions[p].id, PairOf(s) = PairOf(sessions[p]),
         sessions' = [sessions EXCEPT ![p] = s],
         \/ s.phase = sessions[p].phase /\ answered' = answered
         \/ s.phase = "Accepted" /\ answered' = answered \cup {s.id},
         UNCHANGED <<conn, nextId, taken, verdicts>>
  PROVE  Books'
<1>1. sessions' \in [Pair -> Session \cup {NoSession}]
  BY DEF TypeOK
<1>2. \A q \in Pair : /\ sessions'[q] # NoSession <=> sessions[q] # NoSession
                      /\ sessions'[q].id = sessions[q].id
                      /\ q # p => sessions'[q] = sessions[q]
                      /\ sessions'[p] = s
  BY CallAssumption DEF TypeOK
<1>3. \A q \in Pair : sessions'[q] # NoSession =>
          PairOf(sessions[q])' = q /\ InOrder(sessions[q])'
  <2> SUFFICES ASSUME NEW q \in Pair, sessions'[q] # NoSession
               PROVE  PairOf(sessions[q])' = q /\ InOrder(sessions[q])'
    OBVIOUS
  <2>1. PairOf(sessions[q]) = q /\ InOrder(sessions[q])
    BY <1>2 DEF Books
  <2>2. CASE q = p
    BY <1>2, <2>1, <2>2 DEF PairOf, Parties, InOrder
  <2>3. CASE q # p
    <3>1. sessions[q].id # s.id
      BY <1>2, <2>3 DEF Books
    <3> QED BY <1>2, <2>1, <2>3, <3>1 DEF PairOf, Parties, InOrder
  <2> QED BY <2>2, <2>3
<1>4. \A c \in Conn : \A t \in taken'[c] :
          PairOf(t) \in Pair /\ InOrder(t)' /\ conn'[c] = "acting"
  <2> SUFFICES ASSUME NEW c \in Conn, NEW t \in taken[c]
               PROVE  PairOf(t) \in Pair /\ InOrder(t)' /\ conn'[c] = "acting"
    OBVIOUS
  <2>1. t.id # s.id
    BY DEF Books
  <2>2. PairOf(t) \in Pair /\ InOrder(t) /\ conn[c] = "acting"
    BY DEF Books
  <2> QED BY <2>1, <2>2 DEF InOrder
<1>5. s.id < nextId
  BY DEF Books, InOrder
<1>6. /\ \A q, r \in Pair :
            sessions'[q] # NoSession /\ sessions'[r] # NoSession
                /\ sessions'[q].id = sessions'[r].id => q = r
      /\ \A q \in Pair, c \in Conn : \A t \in taken'[c] :
            sessions'[q] # NoSession => t.id # sessions'[q].id
      /\ \A i \in answered' : i < nextId'
  BY <1>2, <1>5 DEF Books
<1>7. \A i \in CallId : i < nextId' =>
          \/ \E v \in verdicts' : v[1] = i
          \/ \E q \in Pair : sessions'[q] # NoSession /\ sessions'[q].id = i
          \/ \E c \in Conn : \E t \in taken'[c] : t.id = i
  BY <1>2 DEF Books
<1>8. /\ \A c, d \in Conn : \A t \in taken'[c], w \in taken'[d] :
            t.id = w.id => c = d /\ t = w
      /\ \A c \in Conn : \A t, w \in taken'[c] : PairOf(t) = PairOf(w) => t = w
      /\ \A v \in verdicts' : v[1] < nextId'
      /\ \A v, w \in verdicts' : v[1] = w[1] => v = w
  BY DEF Books
<1> QED BY <1>3, <1>4, <1>6, <1>7, <1>8 DEF Books, PairOf, Parties

\* A new session takes the next id; the one it replaces, if there was one, has
\* its outcome.
LEMMA CreateKeepsBooks ==
  ASSUME TypeOK, Books, NEW p \in Pair, nextId \in CallId,
         NEW s \in Session, s.id = nextId, PairOf(s) = p, s.phase = "Ringing",
         sessions' = [sessions EXCEPT ![p] = s], nextId' = nextId + 1,
         UNCHANGED <<conn, taken, answered>>,
         NEW V, verdicts' = verdicts \cup V,
         \/ sessions[p] = NoSession /\ V = {}
         \/ sessions[p] # NoSession /\ \E w \in Verdict : V = {<<sessions[p].id, w>>}
  PROVE  /\ verdicts' \subseteq CallId \X Verdict
         /\ Books'
<1>1. \A q \in Pair : sessions'[q] = IF q = p THEN s ELSE sessions[q]
  BY DEF TypeOK
<1>2. /\ nextId \in Nat
      /\ s # NoSession
      /\ \A i \in CallId : i \in Nat
  BY CallAssumption DEF CallId
<1>3. \A q \in Pair : sessions[q] # NoSession =>
          /\ PairOf(sessions[q]) = q
          /\ InOrder(sessions[q])
          /\ sessions[q].id \in CallId
          /\ sessions[q].id # nextId
  BY <1>2, SessionTyped DEF Books, InOrder
<1>4. \A c \in Conn : \A t \in taken[c] :
          PairOf(t) \in Pair /\ InOrder(t) /\ conn[c] = "acting" /\ t.id # nextId
            /\ t.id \in CallId
  BY <1>2 DEF Books, InOrder, TypeOK, Session
<1>5. \A v \in V : /\ sessions[p] # NoSession
                   /\ v[1] = sessions[p].id
                   /\ v \in CallId \X Verdict
  BY <1>3
<1>6. verdicts' \subseteq CallId \X Verdict
  BY <1>5 DEF TypeOK
<1>7. \A q \in Pair : sessions'[q] # NoSession =>
          PairOf(sessions[q])' = q /\ InOrder(sessions[q])'
  <2> SUFFICES ASSUME NEW q \in Pair, sessions'[q] # NoSession
               PROVE  PairOf(sessions[q])' = q /\ InOrder(sessions[q])'
    OBVIOUS
  <2>1. CASE q = p
    <3>1. sessions'[q] = s
      BY <1>1, <2>1
    <3>2. \A v \in verdicts' : v[1] # nextId
      BY <1>2, <1>3, <1>5 DEF Books
    <3>3. nextId \notin answered
      BY <1>2 DEF Books
    <3> QED BY <1>2, <2>1, <3>1, <3>2, <3>3 DEF PairOf, Parties, InOrder
  <2>2. CASE q # p
    <3>1. sessions'[q] = sessions[q]
      BY <1>1, <2>2
    <3>2. \A v \in V : v[1] # sessions[q].id
      BY <1>5, <2>2, <3>1 DEF Books
    <3>3. PairOf(sessions[q]) = q /\ InOrder(sessions[q]) /\ sessions[q].id \in Nat
      BY <1>2, <1>3, <3>1
    <3>4. PairOf(sessions[q])' = q
      BY <3>1, <3>3 DEF PairOf, Parties
    <3>5. sessions[q].id < nextId'
      BY <1>2, <3>3 DEF InOrder
    <3>6. InOrder(sessions[q])'
      BY <3>1, <3>2, <3>3, <3>5 DEF InOrder
    <3> QED BY <3>4, <3>6
  <2> QED BY <2>1, <2>2
<1>8. \A c \in Conn : \A t \in taken'[c] :
          PairOf(t) \in Pair /\ InOrder(t)' /\ conn'[c] = "acting"
  <2> SUFFICES ASSUME NEW c \in Conn, NEW t \in taken[c]
               PROVE  InOrder(t)'
    BY <1>4
  <2>1. \A v \in V : v[1] # t.id
    BY <1>5 DEF Books
  <2>2. InOrder(t) /\ t.id \in Nat
    BY <1>2, <1>4
  <2> QED BY <1>2, <2>1, <2>2 DEF InOrder
<1>9. \A v \in verdicts' : v[1] < nextId'
  <2>1. \A v \in verdicts : v[1] < nextId /\ v[1] \in Nat
    BY <1>2 DEF Books, TypeOK
  <2>2. \A v \in V : v[1] < nextId /\ v[1] \in Nat
    BY <1>2, <1>3, <1>5 DEF InOrder
  <2> QED BY <1>2, <2>1, <2>2
<1>10. \A v, w \in verdicts' : v[1] = w[1] => v = w
  <2>1. \A v \in verdicts, w \in V : v[1] # w[1]
    BY <1>3, <1>5 DEF InOrder
  <2> QED BY <2>1 DEF Books
<1>11. /\ \A q, r \in Pair :
             sessions'[q] # NoSession /\ sessions'[r] # NoSession
                 /\ sessions'[q].id = sessions'[r].id => q = r
       /\ \A q \in Pair, c \in Conn : \A t \in taken'[c] :
             sessions'[q] # NoSession => t.id # sessions'[q].id
  BY <1>1, <1>3, <1>4 DEF Books
<1>12. \A i \in answered' : i < nextId'
  BY <1>2 DEF Books, TypeOK
<1>13. \A i \in CallId : i < nextId' =>
          \/ \E v \in verdicts' : v[1] = i
          \/ \E q \in Pair : sessions'[q] # NoSession /\ sessions'[q].id = i
          \/ \E c \in Conn : \E t \in taken'[c] : t.id = i
  <2> SUFFICES ASSUME NEW i \in CallId, i < nextId'
               PROVE  \/ \E v \in verdicts' : v[1] = i
                      \/ \E q \in Pair : sessions'[q] # NoSession /\ sessions'[q].id = i
                      \/ \E c \in Conn : \E t \in taken'[c] : t.id = i
    OBVIOUS
  <2>1. CASE i = nextId
    BY <1>1, <1>2, <2>1
  <2>2. CASE i # nextId
    <3>1. i < nextId
      BY <1>2, <2>2
    <3>2. ASSUME NEW q \in Pair, sessions[q] # NoSession, sessions[q].id = i
          PROVE  \/ \E v \in verdicts' : v[1] = i
                 \/ sessions'[q] # NoSession /\ sessions'[q].id = i
      <4>1. CASE q = p
        <5>1. PICK w \in Verdict : V = {<<sessions[p].id, w>>}
          BY <3>2, <4>1
        <5>2. <<i, w>> \in verdicts'
          BY <3>2, <4>1, <5>1
        <5> QED BY <5>2
      <4>2. CASE q # p
        BY <1>1, <3>2, <4>2
      <4> QED BY <4>1, <4>2
    <3> QED BY <3>1, <3>2 DEF Books
  <2> QED BY <2>1, <2>2
<1>14. /\ \A c, d \in Conn : \A t \in taken'[c], w \in taken'[d] :
             t.id = w.id => c = d /\ t = w
       /\ \A c \in Conn : \A t, w \in taken'[c] : PairOf(t) = PairOf(w) => t = w
  BY DEF Books
<1>15. Books'
  BY <1>7, <1>8, <1>9, <1>10, <1>11, <1>12, <1>13, <1>14 DEF Books, PairOf, Parties
<1> QED BY <1>6, <1>15

\* A cleanup takes sessions into its hands.
LEMMA TakeKeepsBooks ==
  ASSUME TypeOK, Books, NEW c \in Conn, NEW R \in SUBSET InMap, conn[c] # "acting",
         conn' = [conn EXCEPT ![c] = "acting"],
         sessions' = Without(R),
         taken' = [taken EXCEPT ![c] = {sessions[p] : p \in R}],
         UNCHANGED <<nextId, verdicts, answered>>
  PROVE  /\ sessions' \in [Pair -> Session \cup {NoSession}]
         /\ taken' \in [Conn -> SUBSET Session]
         /\ Books'
<1>1. \A p \in Pair : sessions'[p] = IF p \in R THEN NoSession ELSE sessions[p]
  BY DEF Without
<1>2. \A p \in R : p \in Pair /\ sessions[p] # NoSession /\ sessions[p] \in Session
  BY SessionTyped DEF InMap
<1>3. taken[c] = {}
  BY DEF Books
<1>4. \A d \in Conn : \A s \in taken'[d] :
          \/ d # c /\ s \in taken[d]
          \/ d = c /\ \E p \in R : s = sessions[p]
  BY DEF TypeOK
<1>5. \A d \in Conn : conn'[d] = IF d = c THEN "acting" ELSE conn[d]
  BY DEF TypeOK, ConnTypeOK
<1>6. sessions' \in [Pair -> Session \cup {NoSession}]
  BY DEF Without, TypeOK
<1>7. taken' \in [Conn -> SUBSET Session]
  BY <1>2 DEF TypeOK
<1>8. \A s : InOrder(s)' <=> InOrder(s)
  BY DEF InOrder
<1>9. \A p \in Pair : sessions'[p] # NoSession =>
          PairOf(sessions[p])' = p /\ InOrder(sessions[p])'
  BY <1>1, <1>8 DEF Books, PairOf, Parties, InOrder
<1>10. \A d \in Conn : \A s \in taken'[d] :
          PairOf(s) \in Pair /\ InOrder(s)' /\ conn'[d] = "acting"
  BY <1>2, <1>4, <1>5, <1>8 DEF Books
<1>11. /\ \A p, q \in Pair :
             sessions'[p] # NoSession /\ sessions'[q] # NoSession
                 /\ sessions'[p].id = sessions'[q].id => p = q
       /\ \A p \in Pair, d \in Conn : \A s \in taken'[d] :
             sessions'[p] # NoSession => s.id # sessions'[p].id
  BY <1>1, <1>2, <1>4 DEF Books
<1>12. \A d, e \in Conn : \A s \in taken'[d], t \in taken'[e] :
          s.id = t.id => d = e /\ s = t
  BY <1>2, <1>4 DEF Books
<1>13. \A d \in Conn : \A s, t \in taken'[d] : PairOf(s) = PairOf(t) => s = t
  BY <1>2, <1>4 DEF Books
<1>14. \A i \in CallId : i < nextId' =>
          \/ \E v \in verdicts' : v[1] = i
          \/ \E p \in Pair : sessions'[p] # NoSession /\ sessions'[p].id = i
          \/ \E d \in Conn : \E s \in taken'[d] : s.id = i
  <2> SUFFICES ASSUME NEW i \in CallId, i < nextId
               PROVE  \/ \E v \in verdicts : v[1] = i
                      \/ \E p \in Pair : sessions'[p] # NoSession /\ sessions'[p].id = i
                      \/ \E d \in Conn : \E s \in taken'[d] : s.id = i
    OBVIOUS
  <2>1. ASSUME NEW p \in Pair, sessions[p] # NoSession, sessions[p].id = i
        PROVE  \/ sessions'[p] # NoSession /\ sessions'[p].id = i
               \/ \E s \in taken'[c] : s.id = i
    <3>1. CASE p \in R
      <4>1. sessions[p] \in taken'[c]
        BY <3>1 DEF TypeOK
      <4> QED BY <2>1, <4>1
    <3>2. CASE p \notin R
      BY <1>1, <2>1, <3>2
    <3> QED BY <3>1, <3>2
  <2>2. ASSUME NEW d \in Conn, NEW s \in taken[d], s.id = i
        PROVE  s \in taken'[d]
    BY <1>3, <2>2 DEF TypeOK
  <2> QED BY <2>1, <2>2 DEF Books
<1>15. /\ \A v \in verdicts' : v[1] < nextId'
       /\ \A v, w \in verdicts' : v[1] = w[1] => v = w
       /\ \A i \in answered' : i < nextId'
  BY DEF Books
<1>16. Books'
  BY <1>9, <1>10, <1>11, <1>12, <1>13, <1>14, <1>15 DEF Books, PairOf, Parties
<1> QED BY <1>6, <1>7, <1>16

(****************************************************************************)
(* A cleanup empties its hands: the sessions in B go back to the map, where  *)
(* nothing is in their way, and the others have an outcome each.            *)
(****************************************************************************)
HandedBack(s) == [s EXCEPT !.restored = TRUE]

\* Handing a session back changes nothing that the books are about.
LEMMA HandedBackSame ==
  ASSUME NEW s \in Session
  PROVE  /\ HandedBack(s) \in Session
         /\ HandedBack(s) # NoSession
         /\ HandedBack(s).id = s.id
         /\ HandedBack(s).phase = s.phase
         /\ PairOf(HandedBack(s)) = PairOf(s)
<1>1. HandedBack(s) \in Session
  BY DEF HandedBack, Session
<1>2. /\ HandedBack(s).id = s.id
      /\ HandedBack(s).phase = s.phase
      /\ HandedBack(s).caller = s.caller
      /\ HandedBack(s).callee = s.callee
  BY DEF HandedBack, Session
<1> QED BY <1>1, <1>2, CallAssumption DEF PairOf, Parties

LEMMA ReturnKeepsBooks ==
  ASSUME TypeOK, Books, NEW c \in Conn, NEW B \in SUBSET taken[c],
         \A s \in B : sessions[PairOf(s)] = NoSession,
         sessions' = [p \in Pair |->
             IF \E s \in B : PairOf(s) = p
             THEN HandedBack(CHOOSE s \in B : PairOf(s) = p)
             ELSE sessions[p]],
         taken' = [taken EXCEPT ![c] = {}],
         NEW g \in [taken[c] \ B -> Verdict],
         verdicts' = verdicts \cup {<<s.id, g[s]>> : s \in taken[c] \ B},
         conn' = [conn EXCEPT ![c] = "done"],
         UNCHANGED <<nextId, answered>>
  PROVE  /\ sessions' \in [Pair -> Session \cup {NoSession}]
         /\ taken' \in [Conn -> SUBSET Session]
         /\ verdicts' \subseteq CallId \X Verdict
         /\ Books'
<1>1. \A s \in taken[c] : /\ s \in Session /\ s.id \in CallId
                          /\ PairOf(s) \in Pair /\ InOrder(s)
  BY DEF TypeOK, Books, Session
<1>2. \A p \in Pair :
          \/ \E s \in B : PairOf(s) = p /\ sessions'[p] = HandedBack(s)
          \/ (\A s \in B : PairOf(s) # p) /\ sessions'[p] = sessions[p]
  OBVIOUS
<1>3. \A s \in B : /\ HandedBack(s) \in Session
                   /\ HandedBack(s) # NoSession
                   /\ HandedBack(s).id = s.id
                   /\ HandedBack(s).phase = s.phase
                   /\ PairOf(HandedBack(s)) = PairOf(s)
  BY <1>1, HandedBackSame
<1>4. \A s \in B : sessions'[PairOf(s)] = HandedBack(s)
  <2> SUFFICES ASSUME NEW s \in B PROVE sessions'[PairOf(s)] = HandedBack(s)
    OBVIOUS
  <2>1. PICK t \in B : PairOf(t) = PairOf(s) /\ sessions'[PairOf(s)] = HandedBack(t)
    BY <1>1, <1>2
  <2>2. t = s
    BY <2>1 DEF Books
  <2> QED BY <2>1, <2>2
<1>5. sessions' \in [Pair -> Session \cup {NoSession}]
  <2>1. \A p \in Pair : sessions'[p] \in Session \cup {NoSession}
    BY <1>2, <1>3 DEF TypeOK
  <2> QED BY <2>1
<1>6. \A d \in Conn : taken'[d] = IF d = c THEN {} ELSE taken[d]
  BY DEF TypeOK
<1>7. taken' \in [Conn -> SUBSET Session]
  BY DEF TypeOK
<1>8. \A v : v \in verdicts' <=> \/ v \in verdicts
                                 \/ \E s \in taken[c] \ B : v = <<s.id, g[s]>>
  OBVIOUS
<1>9. verdicts' \subseteq CallId \X Verdict
  BY <1>1, <1>8 DEF TypeOK
<1>10. \A p \in Pair : sessions'[p] # NoSession =>
          PairOf(sessions[p])' = p /\ InOrder(sessions[p])'
  <2> SUFFICES ASSUME NEW p \in Pair, sessions'[p] # NoSession
               PROVE  PairOf(sessions[p])' = p /\ InOrder(sessions[p])'
    OBVIOUS
  <2>1. CASE \E s \in B : PairOf(s) = p /\ sessions'[p] = HandedBack(s)
    <3>1. PICK s \in B : PairOf(s) = p /\ sessions'[p] = HandedBack(s)
      BY <2>1
    <3>2. \A v \in verdicts' : v[1] # s.id
      BY <1>1, <1>8 DEF Books, InOrder
    <3>3. InOrder(s)'
      BY <1>1, <3>2 DEF InOrder
    <3>4. InOrder(sessions[p])'
      BY <1>3, <3>1, <3>3 DEF InOrder
    <3>5. PairOf(sessions[p])' = p
      BY <1>3, <3>1 DEF PairOf, Parties
    <3> QED BY <3>4, <3>5
  <2>2. CASE sessions'[p] = sessions[p]
    <3>1. PairOf(sessions[p]) = p /\ InOrder(sessions[p])
      BY <2>2 DEF Books
    <3>2. \A v \in verdicts' : v[1] # sessions[p].id
      BY <1>8, <2>2, <3>1 DEF Books, InOrder
    <3> QED BY <2>2, <3>1, <3>2 DEF InOrder, PairOf, Parties
  <2> QED BY <1>2, <2>1, <2>2
<1>11. \A d \in Conn : \A s \in taken'[d] :
          PairOf(s) \in Pair /\ InOrder(s)' /\ conn'[d] = "acting"
  <2> SUFFICES ASSUME NEW d \in Conn, NEW s \in taken[d], d # c
               PROVE  PairOf(s) \in Pair /\ InOrder(s)' /\ conn'[d] = "acting"
    BY <1>6
  <2>1. PairOf(s) \in Pair /\ InOrder(s) /\ conn[d] = "acting"
    BY DEF Books
  <2>2. \A v \in verdicts' : v[1] # s.id
    BY <1>8, <2>1 DEF Books, InOrder
  <2>3. InOrder(s)'
    BY <2>1, <2>2 DEF InOrder
  <2> QED BY <2>1, <2>3 DEF TypeOK, ConnTypeOK
<1>12. \A p, q \in Pair :
          sessions'[p] # NoSession /\ sessions'[q] # NoSession
              /\ sessions'[p].id = sessions'[q].id => p = q
  <2> SUFFICES ASSUME NEW p \in Pair, NEW q \in Pair,
                      sessions'[p] # NoSession, sessions'[q] # NoSession,
                      sessions'[p].id = sessions'[q].id
               PROVE  p = q
    OBVIOUS
  <2>1. CASE sessions'[p] = sessions[p] /\ sessions'[q] = sessions[q]
    BY <2>1 DEF Books
  <2>2. ASSUME NEW s \in B, NEW r \in Pair, sessions[r] # NoSession
        PROVE  s.id # sessions[r].id
    BY <2>2 DEF Books
  <2>3. ASSUME NEW s \in B, NEW t \in B, s.id = t.id
        PROVE  PairOf(s) = PairOf(t)
    BY <2>3 DEF Books
  <2> QED BY <1>2, <1>3, <2>1, <2>2, <2>3
<1>13. \A p \in Pair, d \in Conn : \A s \in taken'[d] :
          sessions'[p] # NoSession => s.id # sessions'[p].id
  BY <1>2, <1>3, <1>6 DEF Books
<1>14. /\ \A d, e \in Conn : \A s \in taken'[d], t \in taken'[e] :
             s.id = t.id => d = e /\ s = t
       /\ \A d \in Conn : \A s, t \in taken'[d] : PairOf(s) = PairOf(t) => s = t
  BY <1>6 DEF Books
<1>15. \A v \in verdicts' : v[1] < nextId'
  BY <1>1, <1>8 DEF Books, InOrder
<1>16. \A v, w \in verdicts' : v[1] = w[1] => v = w
  <2>1. ASSUME NEW v \in verdicts, NEW s \in taken[c]
        PROVE  v[1] # s.id
    BY <1>1 DEF InOrder
  <2>2. ASSUME NEW s \in taken[c], NEW t \in taken[c], s.id = t.id
        PROVE  s = t
    BY <2>2 DEF Books
  <2> QED BY <1>8, <2>1, <2>2 DEF Books
<1>17. \A i \in CallId : i < nextId' =>
          \/ \E v \in verdicts' : v[1] = i
          \/ \E p \in Pair : sessions'[p] # NoSession /\ sessions'[p].id = i
          \/ \E d \in Conn : \E s \in taken'[d] : s.id = i
  <2> SUFFICES ASSUME NEW i \in CallId, i < nextId
               PROVE  \/ \E v \in verdicts' : v[1] = i
                      \/ \E p \in Pair : sessions'[p] # NoSession /\ sessions'[p].id = i
                      \/ \E d \in Conn : \E s \in taken'[d] : s.id = i
    OBVIOUS
  <2>1. ASSUME NEW p \in Pair, sessions[p] # NoSession, sessions[p].id = i
        PROVE  sessions'[p] # NoSession /\ sessions'[p].id = i
    BY <1>2, <2>1
  <2>2. ASSUME NEW s \in taken[c], s.id = i
        PROVE  \/ \E v \in verdicts' : v[1] = i
               \/ \E p \in Pair : sessions'[p] # NoSession /\ sessions'[p].id = i
    <3>1. CASE s \in B
      BY <1>1, <1>3, <1>4, <2>2, <3>1
    <3>2. CASE s \notin B
      <4>1. <<i, g[s]>> \in verdicts'
        BY <2>2, <3>2
      <4> QED BY <4>1
    <3> QED BY <3>1, <3>2
  <2>3. ASSUME NEW d \in Conn, NEW s \in taken[d], s.id = i, d # c
        PROVE  \E e \in Conn : \E t \in taken'[e] : t.id = i
    BY <1>6, <2>3
  <2> QED BY <2>1, <2>2, <2>3 DEF Books
<1>18. \A i \in answered' : i < nextId'
  BY DEF Books
<1>19. Books'
  BY <1>10, <1>11, <1>12, <1>13, <1>14, <1>15, <1>16, <1>17, <1>18
  DEF Books, PairOf, Parties
<1> QED BY <1>5, <1>7, <1>9, <1>19

-----------------------------------------------------------------------------
(****************************************************************************)
(* The invariant.                                                           *)
(****************************************************************************)
LEMMA InitBooks == Init => TypeOK /\ Books
<1> SUFFICES ASSUME Init PROVE TypeOK /\ Books
  OBVIOUS
<1>1. TypeOK
  BY CallAssumption DEF Init, TypeOK, ConnInit, ConnTypeOK, Phase
<1>2. \A i \in CallId : ~(i < nextId)
  BY CallAssumption DEF Init, CallId
<1>3. Books
  BY <1>2 DEF Init, Books
<1> QED BY <1>1, <1>3

\* The pair of two different users.
LEMMA PairOfTwo ==
  ASSUME NEW u \in User, NEW v \in User, u # v
  PROVE  {u, v} \in Pair
  BY DEF Pair

\* The outcomes the code gives are outcomes.
LEMMA Outcomes ==
  ASSUME NEW s, NEW u
  PROVE  Expiry(s) \in Verdict /\ Departure(s, u) \in Verdict
  BY DEF Expiry, Departure, Verdict

\* A sweep, on its own or at the start of an invite or a timeout frame.
LEMMA SweepKeepsBooks ==
  ASSUME TypeOK, Books,
         sessions' = Without(StalePairs), verdicts' = verdicts \cup SweptVerdicts,
         UNCHANGED <<conn, nextId, taken, answered>>
  PROVE  /\ sessions' \in [Pair -> Session \cup {NoSession}]
         /\ verdicts' \subseteq CallId \X Verdict
         /\ Books'
<1> DEFINE f == [p \in StalePairs |-> Expiry(sessions[p])]
<1>1. StalePairs \in SUBSET InMap
  BY DEF StalePairs
<1>2. f \in [StalePairs -> Verdict]
  BY Outcomes
<1>3. verdicts' = verdicts \cup {<<sessions[p].id, f[p]>> : p \in StalePairs}
  BY DEF SweptVerdicts
<1> HIDE DEF f
<1> QED BY <1>1, <1>2, <1>3, RemoveKeepsBooks

\* One session is taken out of the map for good.
LEMMA TakeDownKeepsBooks ==
  ASSUME TypeOK, Books, NEW p \in InMap, NEW verdict \in Verdict,
         sessions' = Without({p}),
         verdicts' = verdicts \cup {<<sessions[p].id, verdict>>},
         UNCHANGED <<conn, nextId, taken, answered>>
  PROVE  /\ sessions' \in [Pair -> Session \cup {NoSession}]
         /\ verdicts' \subseteq CallId \X Verdict
         /\ Books'
<1> DEFINE f == [q \in {p} |-> verdict]
<1>1. {p} \in SUBSET InMap /\ f \in [{p} -> Verdict]
  OBVIOUS
<1>2. verdicts' = verdicts \cup {<<sessions[q].id, f[q]>> : q \in {p}}
  OBVIOUS
<1> HIDE DEF f
<1> QED BY <1>1, <1>2, RemoveKeepsBooks

\* What an invite or accept leaves behind when it is over.
LEMMA JobOver ==
  ASSUME TypeOK, NEW u \in User, job' = [job EXCEPT ![u] = Idle]
  PROVE  /\ job' \in [User -> Job \cup {Idle}]
         /\ \A v \in User : job'[v] # Idle => job'[v].peer # v
  BY DEF TypeOK

\* call:invite, second half.
LEMMA InviteCreateKeeps ==
  ASSUME TypeOK, Books, NEW u \in User, InviteCreate(u)
  PROVE  TypeOK' /\ Books'
<1> DEFINE peer == job[u].peer
           pair == {u, peer}
           old  == sessions[pair]
           removed == IF old # NoSession /\ old.stale THEN {pair} ELSE {}
           replaced(v) == {<<sessions[p].id, v>> : p \in removed}
           late == Gone(u)
           overtaken == pair \notin related \cup severing
           new  == [id |-> nextId, caller |-> u, callee |-> peer,
                    phase |-> "Ringing", stale |-> FALSE,
                    callerConn |-> job[u].conn, calleeConn |-> NoConn,
                    late |-> late, overtaken |-> overtaken, restored |-> FALSE]
<1>1. job[u] # Idle /\ job[u] \in Job
  BY DEF InviteCreate, TypeOK
<1>2. peer \in User /\ job[u].conn \in Conn /\ peer # u
  BY <1>1 DEF Job, TypeOK
<1>3. pair \in Pair
  BY <1>2, PairOfTwo
<1>4. /\ job' \in [User -> Job \cup {Idle}]
      /\ \A v \in User : job'[v] # Idle => job'[v].peer # v
  BY JobOver DEF InviteCreate
<1>5. UNCHANGED <<conn, taken, related, severing, relations, answered>>
  BY DEF InviteCreate
<1>6. ASSUME /\ sessions' \in [Pair -> Session \cup {NoSession}]
             /\ verdicts' \subseteq CallId \X Verdict
             /\ nextId' \in 1..(MaxCalls + 1)
             /\ Books'
      PROVE  TypeOK' /\ Books'
  BY <1>4, <1>5, <1>6 DEF TypeOK, ConnTypeOK
<1>7. CASE UNCHANGED <<sessions, nextId, verdicts>>
  <2>1. Books'
    BY <1>5, <1>7, QuietKeepsBooks
  <2> QED BY <1>6, <1>7, <2>1 DEF TypeOK
<1>8. CASE /\ sessions' = Without(removed)
           /\ verdicts' = verdicts \cup replaced("lost")
           /\ UNCHANGED nextId
  <2>1. CASE removed = {}
    <3>1. UNCHANGED <<sessions, verdicts>>
      BY <1>8, <2>1 DEF Without, TypeOK
    <3> QED BY <1>7, <1>8, <3>1
  <2>2. CASE removed # {}
    <3>1. pair \in InMap /\ removed = {pair}
      BY <1>3, <2>2 DEF InMap
    <3>2. /\ sessions' = Without({pair})
          /\ verdicts' = verdicts \cup {<<sessions[pair].id, "lost">>}
      BY <1>8, <3>1
    <3>3. "lost" \in Verdict
      BY DEF Verdict
    <3> HIDE DEF pair
    <3>4. /\ sessions' \in [Pair -> Session \cup {NoSession}]
          /\ verdicts' \subseteq CallId \X Verdict
          /\ Books'
      BY <1>5, <1>8, <3>1, <3>2, <3>3, TakeDownKeepsBooks
    <3> QED BY <1>6, <1>8, <3>4 DEF TypeOK
  <2> QED BY <2>1, <2>2
<1>9. CASE /\ old = NoSession \/ old.stale
           /\ nextId \in CallId
           /\ sessions' = [sessions EXCEPT ![pair] = new]
           /\ nextId' = nextId + 1
           /\ verdicts' = verdicts \cup
                  (IF removed = {} THEN {} ELSE replaced(Expiry(old)))
  <2> DEFINE V == IF removed = {} THEN {} ELSE replaced(Expiry(old))
  <2>1. new \in Session
    <3>1. late \in BOOLEAN /\ overtaken \in BOOLEAN
      BY DEF Gone, Connected, CleanupAhead
    <3> HIDE DEF late, overtaken
    <3> QED BY <1>2, <1>9, <3>1 DEF Session
  <2>2. new.id = nextId /\ PairOf(new) = pair /\ new.phase = "Ringing"
    BY DEF PairOf, Parties
  <2>3. \/ sessions[pair] = NoSession /\ V = {}
        \/ sessions[pair] # NoSession /\ \E w \in Verdict : V = {<<sessions[pair].id, w>>}
    <3>1. CASE old = NoSession
      BY <3>1
    <3>2. CASE old # NoSession
      <4>1. removed = {pair}
        BY <1>9, <3>2
      <4>2. V = {<<sessions[pair].id, Expiry(old)>>}
        BY <4>1
      <4>3. Expiry(old) \in Verdict
        BY Outcomes
      <4> QED BY <3>2, <4>2, <4>3
    <3> QED BY <3>1, <3>2
  <2>4. verdicts' = verdicts \cup V
    BY <1>9
  <2>5. /\ nextId \in CallId
        /\ sessions' = [sessions EXCEPT ![pair] = new]
        /\ nextId' = nextId + 1
    BY <1>9
  <2> HIDE DEF V, new, pair
  <2>6. verdicts' \subseteq CallId \X Verdict /\ Books'
    BY <1>3, <1>5, <2>1, <2>2, <2>3, <2>4, <2>5, CreateKeepsBooks
  <2>7. sessions' \in [Pair -> Session \cup {NoSession}]
    BY <1>3, <2>1, <2>5 DEF TypeOK
  <2>8. nextId' \in 1..(MaxCalls + 1)
    BY <2>5, CallAssumption DEF CallId
  <2> QED BY <1>6, <2>6, <2>7, <2>8
<1> QED BY <1>7, <1>8, <1>9 DEF InviteCreate

\* call:accept, second half.
LEMMA AcceptKeeps ==
  ASSUME TypeOK, Books, NEW u \in User, Accept(u)
  PROVE  TypeOK' /\ Books'
<1> DEFINE pair == {u, job[u].peer}
           s    == sessions[pair]
           new  == [s EXCEPT !.phase = "Accepted", !.calleeConn = job[u].conn,
                             !.late = s.late \/ Gone(u)]
<1>1. job[u] # Idle /\ job[u] \in Job
  BY DEF Accept, TypeOK
<1>2. job[u].peer \in User /\ job[u].conn \in Conn /\ job[u].peer # u
  BY <1>1 DEF Job, TypeOK
<1>3. pair \in Pair
  BY <1>2, PairOfTwo
<1>4. /\ job' \in [User -> Job \cup {Idle}]
      /\ \A v \in User : job'[v] # Idle => job'[v].peer # v
  BY JobOver DEF Accept
<1>5. UNCHANGED <<conn, nextId, taken, related, severing, relations>>
  BY DEF Accept
<1>6. ASSUME /\ sessions' \in [Pair -> Session \cup {NoSession}]
             /\ verdicts' \subseteq CallId \X Verdict
             /\ answered' \subseteq CallId
             /\ Books'
      PROVE  TypeOK' /\ Books'
  BY <1>4, <1>5, <1>6 DEF TypeOK, ConnTypeOK
<1>7. CASE UNCHANGED <<sessions, verdicts, answered>>
  <2>1. Books'
    BY <1>5, <1>7, QuietKeepsBooks
  <2> QED BY <1>6, <1>7, <2>1 DEF TypeOK
<1>8. CASE /\ s # NoSession
           /\ sessions' = Without({pair})
           /\ verdicts' = verdicts \cup {<<s.id, "missed">>}
           /\ UNCHANGED answered
  <2>1. pair \in InMap /\ "missed" \in Verdict
    BY <1>3, <1>8 DEF InMap, Verdict
  <2>2. /\ sessions' \in [Pair -> Session \cup {NoSession}]
        /\ verdicts' \subseteq CallId \X Verdict
        /\ Books'
    BY <1>5, <1>8, <2>1, TakeDownKeepsBooks
  <2> QED BY <1>6, <1>8, <2>2 DEF TypeOK
<1>9. CASE /\ s # NoSession
           /\ sessions' = [sessions EXCEPT
                  ![pair].phase = "Accepted",
                  ![pair].calleeConn = job[u].conn,
                  ![pair].late = s.late \/ Gone(u)]
           /\ answered' = answered \cup {s.id}
           /\ UNCHANGED verdicts
  <2>1. s \in Session /\ s.id \in CallId
    BY <1>3, <1>9, SessionTyped
  <2>2. new \in Session
    BY <1>2, <2>1 DEF Session
  <2>3. new.id = s.id /\ new.phase = "Accepted"
    BY <2>1 DEF Session
  <2>4. new.caller = s.caller /\ new.callee = s.callee
    BY <2>1 DEF Session
  <2>5. PairOf(new) = PairOf(s)
    BY <2>4 DEF PairOf, Parties
  <2>6. sessions' = [sessions EXCEPT ![pair] = new]
    BY <1>3, <1>9, <2>1 DEF TypeOK, Session
  <2>7. answered' = answered \cup {new.id}
    BY <1>9, <2>3
  <2> HIDE DEF new, pair
  <2>8. Books'
    BY <1>3, <1>5, <1>9, <2>2, <2>3, <2>5, <2>6, <2>7, RewriteKeepsBooks
  <2>9. sessions' \in [Pair -> Session \cup {NoSession}]
    BY <1>3, <2>2, <2>6 DEF TypeOK
  <2> QED BY <1>6, <1>9, <2>1, <2>8, <2>9 DEF TypeOK
<1> QED BY <1>7, <1>8, <1>9 DEF Accept

\* The types of a step that only takes sessions out of the map.
LEMMA OnlyRemoves ==
  ASSUME TypeOK, sessions' \in [Pair -> Session \cup {NoSession}],
         verdicts' \subseteq CallId \X Verdict,
         UNCHANGED <<conn, nextId, job, taken, related, severing, relations, answered>>
  PROVE  TypeOK'
  BY DEF TypeOK, ConnTypeOK

\* call:reject, call:cancel, call:end and the end of a wiped conversation.
LEMMA TakeDownKeeps ==
  ASSUME TypeOK, Books, NEW p \in InMap, NEW verdict \in Verdict, TakeDown(p, verdict)
  PROVE  TypeOK' /\ Books'
<1>1. /\ sessions' = Without({p})
      /\ verdicts' = verdicts \cup {<<sessions[p].id, verdict>>}
      /\ UNCHANGED <<conn, nextId, job, taken, related, severing, relations, answered>>
  BY DEF TakeDown
<1>2. /\ sessions' \in [Pair -> Session \cup {NoSession}]
      /\ verdicts' \subseteq CallId \X Verdict
      /\ Books'
  BY <1>1, TakeDownKeepsBooks
<1> QED BY <1>1, <1>2, OnlyRemoves

\* The frames that take one call down.
LEMMA HangUpKeeps ==
  ASSUME TypeOK, Books, NEW u \in User, NEW p \in Pair,
         Reject(u, p) \/ Cancel(u, p) \/ End(u, p)
  PROVE  TypeOK' /\ Books'
<1>1. p \in InMap
  BY DEF Reject, Cancel, End, CanHandle
<1>2. \E verdict \in Verdict : TakeDown(p, verdict)
  BY DEF Reject, Cancel, End, Verdict
<1> QED BY <1>1, <1>2, TakeDownKeeps

\* call:timeout
LEMMA TimeoutKeeps ==
  ASSUME TypeOK, Books, NEW u \in User, NEW p \in Pair, Timeout(u, p)
  PROVE  TypeOK' /\ Books'
<1> DEFINE R == StalePairs \cup {p}
           f == [q \in R |-> IF q = p THEN "missed" ELSE Expiry(sessions[q])]
<1>1. /\ p \in InMap
      /\ sessions[p].phase = "Ringing"
      /\ sessions' = Without(R)
      /\ verdicts' = verdicts \cup SweptVerdicts \cup {<<sessions[p].id, "missed">>}
      /\ UNCHANGED <<conn, nextId, job, taken, related, severing, relations, answered>>
  BY DEF Timeout, CanHandle
<1>2. R \in SUBSET InMap
  BY <1>1 DEF StalePairs
<1>3. f \in [R -> Verdict]
  BY Outcomes DEF Verdict
<1>4. \A q \in StalePairs : f[q] = Expiry(sessions[q])
  BY <1>1 DEF Expiry
<1>5. f[p] = "missed"
  OBVIOUS
<1>6. verdicts' = verdicts \cup {<<sessions[q].id, f[q]>> : q \in R}
  <2> HIDE DEF f
  <2>1. {<<sessions[q].id, f[q]>> : q \in R}
           = SweptVerdicts \cup {<<sessions[p].id, "missed">>}
    BY <1>4, <1>5 DEF SweptVerdicts
  <2> QED BY <1>1, <2>1
<1> HIDE DEF f, R
<1>7. /\ sessions' \in [Pair -> Session \cup {NoSession}]
      /\ verdicts' \subseteq CallId \X Verdict
      /\ Books'
  BY <1>1, <1>2, <1>3, <1>6, RemoveKeepsBooks
<1> QED BY <1>1, <1>7, OnlyRemoves

\* sweep_expired_call_sessions
LEMMA SweepKeeps ==
  ASSUME TypeOK, Books, Sweep
  PROVE  TypeOK' /\ Books'
  BY SweepKeepsBooks, OnlyRemoves DEF Sweep

\* A relation check that passed leaves an invite or accept in the FIFO.
LEMMA JobBegins ==
  ASSUME TypeOK, NEW c \in Conn, NEW peer \in User, Owner[c] # peer,
         NEW op \in {"invite", "accept"},
         job' = [job EXCEPT ![Owner[c]] = [op |-> op, peer |-> peer, conn |-> c]]
  PROVE  /\ job' \in [User -> Job \cup {Idle}]
         /\ \A v \in User : job'[v] # Idle => job'[v].peer # v
<1>1. Owner[c] \in User
  BY ConnAssumption
<1>2. [op |-> op, peer |-> peer, conn |-> c] \in Job
  BY DEF Job
<1> QED BY <1>1, <1>2 DEF TypeOK

\* call:invite and call:accept, first half.
LEMMA RequestKeeps ==
  ASSUME TypeOK, Books, NEW c \in Conn, NEW peer \in User,
         InviteCheck(c, peer) \/ AcceptCheck(c, peer)
  PROVE  TypeOK' /\ Books'
<1>1. CASE InviteCheck(c, peer)
  <2>1. /\ sessions' = Without(StalePairs)
        /\ verdicts' = verdicts \cup SweptVerdicts
        /\ Owner[c] # peer
        /\ job' = [job EXCEPT ![Owner[c]] = [op |-> "invite", peer |-> peer, conn |-> c]]
        /\ UNCHANGED <<conn, nextId, taken, related, severing, relations, answered>>
    BY <1>1 DEF InviteCheck
  <2>2. /\ sessions' \in [Pair -> Session \cup {NoSession}]
        /\ verdicts' \subseteq CallId \X Verdict
        /\ Books'
    BY <2>1, SweepKeepsBooks
  <2>3. /\ job' \in [User -> Job \cup {Idle}]
        /\ \A v \in User : job'[v] # Idle => job'[v].peer # v
    BY <2>1, JobBegins
  <2> QED BY <2>1, <2>2, <2>3 DEF TypeOK, ConnTypeOK
<1>2. CASE AcceptCheck(c, peer)
  <2>1. /\ Owner[c] # peer
        /\ job' = [job EXCEPT ![Owner[c]] = [op |-> "accept", peer |-> peer, conn |-> c]]
        /\ UNCHANGED <<conn, sessions, nextId, taken, related, severing, relations,
                       verdicts, answered>>
    BY <1>2 DEF AcceptCheck
  <2>2. /\ job' \in [User -> Job \cup {Idle}]
        /\ \A v \in User : job'[v] # Idle => job'[v].peer # v
    BY <2>1, JobBegins
  <2>3. Books'
    BY <2>1, QuietKeepsBooks
  <2> QED BY <2>1, <2>2, <2>3 DEF TypeOK, ConnTypeOK
<1> QED BY <1>1, <1>2

\* A session turns stale.
LEMMA ExpireKeeps ==
  ASSUME TypeOK, Books, NEW p \in Pair, Expire(p)
  PROVE  TypeOK' /\ Books'
<1> DEFINE s   == sessions[p]
           new == [s EXCEPT !.stale = TRUE]
<1>1. /\ s # NoSession
      /\ UNCHANGED <<conn, nextId, job, taken, related, severing, relations,
                     verdicts, answered>>
  BY DEF Expire, InMap
<1>2. s \in Session
  BY <1>1, SessionTyped
<1>3. new \in Session /\ new.id = s.id /\ new.phase = s.phase
  BY <1>2 DEF Session
<1>4. new.caller = s.caller /\ new.callee = s.callee
  BY <1>2 DEF Session
<1>5. PairOf(new) = PairOf(s)
  BY <1>4 DEF PairOf, Parties
<1>6. sessions' = [sessions EXCEPT ![p] = new]
  BY DEF Expire
<1> HIDE DEF new
<1>7. Books'
  BY <1>1, <1>3, <1>5, <1>6, RewriteKeepsBooks
<1>8. sessions' \in [Pair -> Session \cup {NoSession}]
  BY <1>3, <1>6 DEF TypeOK
<1> QED BY <1>1, <1>7, <1>8 DEF TypeOK, ConnTypeOK

\* remove_friend, toggle_contact_block, delete_conversation, purge_user_data.
LEMMA SeverKeeps ==
  ASSUME TypeOK, Books, NEW p \in Pair, Sever(p)
  PROVE  TypeOK' /\ Books'
<1>1. Books'
  BY QuietKeepsBooks DEF Sever
<1>2. relations' \in 0..MaxRelations
  BY CallAssumption DEF Sever, TypeOK
<1> QED BY <1>1, <1>2 DEF Sever, TypeOK, ConnTypeOK

LEMMA TakePairKeeps ==
  ASSUME TypeOK, Books, NEW p \in Pair, TakePair(p)
  PROVE  TypeOK' /\ Books'
<1>1. /\ severing' = severing \ {p}
      /\ UNCHANGED <<conn, nextId, job, taken, related, relations, answered>>
  BY DEF TakePair
<1>2. CASE p \in InMap
  <2>1. /\ sessions' = Without({p})
        /\ verdicts' = verdicts \cup {<<sessions[p].id, "severed">>}
        /\ "severed" \in Verdict
    BY <1>2 DEF TakePair, Verdict
  <2>2. /\ sessions' \in [Pair -> Session \cup {NoSession}]
        /\ verdicts' \subseteq CallId \X Verdict
        /\ Books'
    BY <1>1, <1>2, <2>1, TakeDownKeepsBooks
  <2> QED BY <1>1, <2>2 DEF TypeOK, ConnTypeOK
<1>3. CASE p \notin InMap
  <2>1. UNCHANGED <<sessions, verdicts>>
    BY <1>3 DEF TakePair
  <2>2. Books'
    BY <1>1, <2>1, QuietKeepsBooks
  <2> QED BY <1>1, <2>1, <2>2 DEF TypeOK, ConnTypeOK
<1> QED BY <1>2, <1>3

LEMMA WipeKeeps ==
  ASSUME TypeOK, Books, NEW p \in Pair, WipeConversation(p)
  PROVE  TypeOK' /\ Books'
<1>1. p \in InMap /\ "severed" \in Verdict /\ TakeDown(p, "severed")
  BY DEF WipeConversation, Verdict
<1> QED BY <1>1, TakeDownKeeps

LEMMA PurgeKeeps ==
  ASSUME TypeOK, Books, NEW u \in User, PurgeUser(u)
  PROVE  TypeOK' /\ Books'
<1> DEFINE R == {p \in InMap : u \in p}
           f == [p \in R |-> "severed"]
<1>1. /\ sessions' = Without(R)
      /\ verdicts' = verdicts \cup {<<sessions[p].id, "severed">> : p \in R}
      /\ UNCHANGED <<conn, nextId, job, taken, related, severing, relations, answered>>
  BY DEF PurgeUser
<1>2. R \in SUBSET InMap /\ f \in [R -> Verdict]
  BY DEF Verdict
<1>3. verdicts' = verdicts \cup {<<sessions[p].id, f[p]>> : p \in R}
  BY <1>1
<1> HIDE DEF f, R
<1>4. /\ sessions' \in [Pair -> Session \cup {NoSession}]
      /\ verdicts' \subseteq CallId \X Verdict
      /\ Books'
  BY <1>1, <1>2, <1>3, RemoveKeepsBooks
<1> QED BY <1>1, <1>4, OnlyRemoves

\* The steps of a connection that touch no call.
LEMMA ConnectionKeeps ==
  ASSUME TypeOK, Books, NEW c \in Conn, Connection(c)
  PROVE  TypeOK' /\ Books'
<1>1. ConnStep(c) /\ ConnTypeOK
      /\ UNCHANGED <<sessions, nextId, job, taken, related, severing, relations,
                     verdicts, answered>>
  BY DEF Connection, callVars, TypeOK
<1>2. \A d \in Conn : taken[d] # {} => conn[d] = "acting"
  BY DEF Books
<1>3. \A d \in Conn : taken[d] # {} => conn'[d] = conn[d]
  BY <1>1, <1>2, ActingStays
<1>4. ConnTypeOK'
  BY <1>1, ConnTyped
<1>5. Books'
  BY <1>1, <1>3, QuietKeepsBooks
<1> QED BY <1>1, <1>4, <1>5 DEF TypeOK

\* take_sessions_for_connection
LEMMA CleanConnectionKeeps ==
  ASSUME TypeOK, Books, NEW c \in Conn, CleanConnection(c)
  PROVE  TypeOK' /\ Books'
<1> DEFINE R == {p \in InMap : Owner[c] \in p /\ OwnsSide(sessions[p], Owner[c], c)}
           f == [p \in R |-> Departure(sessions[p], Owner[c])]
<1>1. /\ conn[c] = "partial"
      /\ MoveTo(c, "done")
      /\ sessions' = Without(R)
      /\ verdicts' = verdicts \cup
             {<<sessions[p].id, Departure(sessions[p], Owner[c])>> : p \in R}
      /\ UNCHANGED <<nextId, job, taken, related, severing, relations, answered>>
  BY DEF CleanConnection
<1>2. R \in SUBSET InMap
  OBVIOUS
<1>3. f \in [R -> Verdict]
  BY Outcomes
<1>4. verdicts' = verdicts \cup {<<sessions[p].id, f[p]>> : p \in R}
  BY <1>1
<1> HIDE DEF f, R
<1>5. ConnTypeOK' /\ \A d \in Conn : taken[d] # {} => conn'[d] = conn[d]
  <2>1. ConnTypeOK /\ "done" \in Phase
    BY DEF TypeOK, Phase
  <2>2. \A d \in Conn : taken[d] # {} => conn[d] = "acting"
    BY DEF Books
  <2> QED BY <1>1, <2>1, <2>2, MoveTyped DEF MoveTo, ConnTypeOK
<1>6. /\ sessions' \in [Pair -> Session \cup {NoSession}]
      /\ verdicts' \subseteq CallId \X Verdict
      /\ Books'
  BY <1>1, <1>2, <1>3, <1>4, <1>5, RemoveKeepsBooks
<1> QED BY <1>1, <1>5, <1>6 DEF TypeOK

\* on_user_disconnected, first part
LEMMA TakeAllKeeps ==
  ASSUME TypeOK, Books, NEW c \in Conn, TakeAll(c)
  PROVE  TypeOK' /\ Books'
<1> DEFINE R == {p \in InMap : Owner[c] \in p}
<1>1. /\ conn[c] = "closing"
      /\ conn' = [conn EXCEPT ![c] = "acting"]
      /\ sessions' = Without(R)
      /\ taken' = [taken EXCEPT ![c] = {sessions[p] : p \in R}]
      /\ UNCHANGED <<nextId, job, related, severing, relations, verdicts, answered>>
  BY DEF TakeAll, MoveTo
<1>2. R \in SUBSET InMap /\ conn[c] # "acting"
  BY <1>1
<1> HIDE DEF R
<1>3. /\ sessions' \in [Pair -> Session \cup {NoSession}]
      /\ taken' \in [Conn -> SUBSET Session]
      /\ Books'
  BY <1>1, <1>2, TakeKeepsBooks
<1>4. ConnTypeOK'
  BY <1>1 DEF TypeOK, ConnTypeOK, Phase
<1> QED BY <1>1, <1>3, <1>4 DEF TypeOK

\* on_user_disconnected, second part: the user is gone.
LEMMA FinalizeTakenKeeps ==
  ASSUME TypeOK, Books, NEW c \in Conn, FinalizeTaken(c)
  PROVE  TypeOK' /\ Books'
<1> DEFINE B == {}
           g == [s \in taken[c] \ B |-> Departure(s, Owner[c])]
<1>1. /\ conn' = [conn EXCEPT ![c] = "done"]
      /\ taken' = [taken EXCEPT ![c] = {}]
      /\ verdicts' = verdicts \cup {<<s.id, Departure(s, Owner[c])>> : s \in taken[c]}
      /\ UNCHANGED <<sessions, nextId, job, related, severing, relations, answered>>
  BY DEF FinalizeTaken, MoveTo
<1>2. /\ B \in SUBSET taken[c]
      /\ \A s \in B : sessions[PairOf(s)] = NoSession
      /\ g \in [taken[c] \ B -> Verdict]
  BY Outcomes
<1>3. verdicts' = verdicts \cup {<<s.id, g[s]>> : s \in taken[c] \ B}
  BY <1>1
<1>4. sessions' = [p \in Pair |-> IF \E s \in B : PairOf(s) = p
                                  THEN HandedBack(CHOOSE s \in B : PairOf(s) = p)
                                  ELSE sessions[p]]
  BY <1>1 DEF TypeOK
<1> HIDE DEF B, g
<1>5. /\ sessions' \in [Pair -> Session \cup {NoSession}]
      /\ taken' \in [Conn -> SUBSET Session]
      /\ verdicts' \subseteq CallId \X Verdict
      /\ Books'
  BY <1>1, <1>2, <1>3, <1>4, ReturnKeepsBooks
<1>6. ConnTypeOK'
  BY <1>1 DEF TypeOK, ConnTypeOK, Phase
<1> QED BY <1>1, <1>5, <1>6 DEF TypeOK

\* on_user_disconnected, second part: the user is back.
LEMMA RestoreTakenKeeps ==
  ASSUME TypeOK, Books, NEW c \in Conn, RestoreTaken(c)
  PROVE  TypeOK' /\ Books'
<1> DEFINE B == {s \in taken[c] : sessions[PairOf(s)] = NoSession /\ ~s.stale}
           g == [s \in taken[c] \ B |-> "dropped"]
<1>1. /\ conn' = [conn EXCEPT ![c] = "done"]
      /\ taken' = [taken EXCEPT ![c] = {}]
      /\ verdicts' = verdicts \cup {<<s.id, "dropped">> : s \in taken[c] \ B}
      /\ sessions' = [p \in Pair |-> IF \E s \in B : PairOf(s) = p
                                     THEN HandedBack(CHOOSE s \in B : PairOf(s) = p)
                                     ELSE sessions[p]]
      /\ UNCHANGED <<nextId, job, related, severing, relations, answered>>
  BY DEF RestoreTaken, MoveTo, HandedBack
<1>2. /\ B \in SUBSET taken[c]
      /\ \A s \in B : sessions[PairOf(s)] = NoSession
      /\ g \in [taken[c] \ B -> Verdict]
  BY DEF Verdict
<1>3. verdicts' = verdicts \cup {<<s.id, g[s]>> : s \in taken[c] \ B}
  BY <1>1
<1> HIDE DEF B, g
<1>4. /\ sessions' \in [Pair -> Session \cup {NoSession}]
      /\ taken' \in [Conn -> SUBSET Session]
      /\ verdicts' \subseteq CallId \X Verdict
      /\ Books'
  BY <1>1, <1>2, <1>3, ReturnKeepsBooks
<1>5. ConnTypeOK'
  BY <1>1 DEF TypeOK, ConnTypeOK, Phase
<1> QED BY <1>1, <1>4, <1>5 DEF TypeOK

\* Every step keeps the types and the books.
LEMMA NextKeeps ==
  ASSUME TypeOK, Books, [Next]_vars
  PROVE  TypeOK' /\ Books'
<1>1. CASE Frame
  BY <1>1, InviteCreateKeeps, AcceptKeeps, HangUpKeeps, TimeoutKeeps DEF Frame
<1>2. CASE Request
  BY <1>2, RequestKeeps DEF Request
<1>3. CASE Relation
  BY <1>3, SeverKeeps, TakePairKeeps, WipeKeeps, PurgeKeeps DEF Relation
<1>4. CASE Clock
  BY <1>4, SweepKeeps, ExpireKeeps DEF Clock
<1>5. CASE Cleanup
  BY <1>5, CleanConnectionKeeps, TakeAllKeeps, FinalizeTakenKeeps, RestoreTakenKeeps
  DEF Cleanup
<1>6. CASE \E c \in Conn : Connection(c)
  BY <1>6, ConnectionKeeps
<1>7. CASE UNCHANGED vars
  <2>1. UNCHANGED <<conn, sessions, nextId, job, taken, related, severing, relations,
                    verdicts, answered>>
    BY <1>7 DEF vars, callVars
  <2>2. Books'
    BY <2>1, QuietKeepsBooks
  <2> QED BY <2>1, <2>2 DEF TypeOK, ConnTypeOK
<1> QED BY <1>1, <1>2, <1>3, <1>4, <1>5, <1>6, <1>7 DEF Next

LEMMA BooksInvariant == Spec => [](TypeOK /\ Books)
<1>1. Init => TypeOK /\ Books
  BY InitBooks
<1>2. TypeOK /\ Books /\ [Next]_vars => (TypeOK /\ Books)'
  BY NextKeeps
<1> QED BY <1>1, <1>2, PTL DEF Spec

-----------------------------------------------------------------------------
\* The state of the calls has its types, whatever the users, their connections
\* and the bounds.
THEOREM CallTypeCorrect == Spec => []TypeOK
  BY BooksInvariant, PTL

\* The inductive invariant: a call that was placed is held by the map or by one
\* cleanup, never by two, until it is over.
THEOREM LedgerBalanced == Spec => []LedgerInv
  BY BooksInvariant, BooksAreLedger, PTL

\* A call is ended once, by one of the tasks that race to take its session out
\* of SESSIONS.
THEOREM CallsEndOnce == Spec => []EndsOnce
<1>1. LedgerInv => EndsOnce
  BY DEF LedgerInv
<1> QED BY <1>1, LedgerBalanced, PTL

\* No task lets go of a session of SESSIONS without an outcome for its call.
THEOREM NoCallForgotten == Spec => []NeverForgotten
<1>1. LedgerInv => NeverForgotten
  BY DEF LedgerInv
<1> QED BY <1>1, LedgerBalanced, PTL
-----------------------------------------------------------------------------
(****************************************************************************)
(* What a step can make of a session of the map.  All but two leave nothing   *)
(* there that was not there before, but for what restore_sessions hands back. *)
(****************************************************************************)
\* The session of p is what it was, but that it may have turned stale.
Persists(p) ==
    /\ sessions[p] # NoSession
    /\ sessions'[p].caller = sessions[p].caller
    /\ sessions'[p].callee = sessions[p].callee
    /\ sessions'[p].phase = sessions[p].phase
    /\ sessions'[p].late = sessions[p].late
    /\ sessions'[p].overtaken = sessions[p].overtaken
    /\ sessions'[p].restored = sessions[p].restored
    /\ sessions[p].stale => sessions'[p].stale

NothingNew ==
    \A p \in Pair : sessions'[p] # NoSession => Persists(p) \/ sessions'[p].restored

\* The two steps that make a session depend on somebody: create_ringing_session,
Created(u, pair) ==
    /\ pair \in Pair /\ u \in pair
    /\ \A v \in pair : ~Busy(v)
    /\ \A p \in Pair : p # pair => sessions'[p] = sessions[p]
    /\ sessions'[pair].caller = u /\ sessions'[pair].phase = "Ringing"
    /\ sessions'[pair].late <=> Gone(u)
    /\ sessions'[pair].overtaken <=> pair \notin related \cup severing
    /\ UNCHANGED <<conn, related, severing>>

\* and accept_session.
Answered(u, pair) ==
    /\ pair \in Pair /\ sessions[pair] # NoSession
    /\ \A p \in Pair : p # pair => sessions'[p] = sessions[p]
    /\ sessions'[pair].caller = sessions[pair].caller
    /\ sessions'[pair].callee = u
    /\ sessions'[pair].late <=> sessions[pair].late \/ Gone(u)
    /\ sessions'[pair].overtaken = sessions[pair].overtaken
    /\ sessions'[pair].restored = sessions[pair].restored
    /\ sessions'[pair].stale = sessions[pair].stale
    /\ UNCHANGED <<conn, related, severing>>

LEMMA RemovedNothingNew ==
  ASSUME NEW R, sessions' = Without(R)
  PROVE  NothingNew
  BY DEF NothingNew, Persists, Without

LEMMA SameNothingNew ==
  ASSUME sessions' = sessions
  PROVE  NothingNew
  BY DEF NothingNew, Persists

LEMMA InviteIsNew ==
  ASSUME TypeOK, NEW u \in User, InviteCreate(u)
  PROVE  NothingNew \/ \E pair \in Pair : Created(u, pair)
<1> DEFINE peer == job[u].peer
           pair == {u, peer}
           old  == sessions[pair]
           removed == IF old # NoSession /\ old.stale THEN {pair} ELSE {}
           late == Gone(u)
           overtaken == pair \notin related \cup severing
           new  == [id |-> nextId, caller |-> u, callee |-> peer,
                    phase |-> "Ringing", stale |-> FALSE,
                    callerConn |-> job[u].conn, calleeConn |-> NoConn,
                    late |-> late, overtaken |-> overtaken, restored |-> FALSE]
<1>1. job[u] # Idle /\ job[u] \in Job
  BY DEF InviteCreate, TypeOK
<1>2. peer \in User /\ peer # u
  BY <1>1 DEF Job, TypeOK
<1>3. pair \in Pair
  BY <1>2, PairOfTwo
<1>4. \/ sessions' = sessions
      \/ sessions' = Without(removed)
      \/ sessions' = [sessions EXCEPT ![pair] = new] /\ ~Busy(u) /\ ~Busy(peer)
  BY DEF InviteCreate
<1>5. CASE sessions' = [sessions EXCEPT ![pair] = new] /\ ~Busy(u) /\ ~Busy(peer)
  <2>1. UNCHANGED <<conn, related, severing>>
    BY DEF InviteCreate
  <2>2. \A v \in pair : ~Busy(v)
    BY <1>5
  <2>3. /\ new.caller = u /\ new.phase = "Ringing"
        /\ new.late = late /\ new.overtaken = overtaken
    OBVIOUS
  <2>4. sessions'[pair] = new /\ \A p \in Pair : p # pair => sessions'[p] = sessions[p]
    <3> HIDE DEF new, pair
    <3> QED BY <1>3, <1>5 DEF TypeOK
  <2>5. u \in pair
    OBVIOUS
  <2> HIDE DEF new
  <2>6. Created(u, pair)
    BY <1>3, <2>1, <2>2, <2>3, <2>4, <2>5 DEF Created
  <2> QED BY <1>3, <2>6
<1> QED BY <1>4, <1>5, RemovedNothingNew, SameNothingNew

LEMMA AcceptIsAnswer ==
  ASSUME TypeOK, NEW u \in User, Accept(u)
  PROVE  NothingNew \/ \E pair \in Pair : Answered(u, pair)
<1> DEFINE pair == {u, job[u].peer}
           s == sessions[pair]
           late == s.late \/ Gone(u)
           new == [s EXCEPT !.phase = "Accepted", !.calleeConn = job[u].conn, !.late = late]
<1>1. job[u] # Idle /\ job[u] \in Job
  BY DEF Accept, TypeOK
<1>2. pair \in Pair
  <2>1. job[u].peer \in User /\ job[u].peer # u
    BY <1>1 DEF Job, TypeOK
  <2> QED BY <2>1, PairOfTwo
<1>3. \/ sessions' = sessions
      \/ sessions' = Without({pair})
      \/ /\ s # NoSession /\ s.callee = u
         /\ sessions' = [sessions EXCEPT ![pair].phase = "Accepted",
                                         ![pair].calleeConn = job[u].conn,
                                         ![pair].late = late]
  BY DEF Accept
<1>4. CASE /\ s # NoSession /\ s.callee = u
           /\ sessions' = [sessions EXCEPT ![pair].phase = "Accepted",
                                           ![pair].calleeConn = job[u].conn,
                                           ![pair].late = late]
  <2>1. s \in Session
    BY <1>2, <1>4, SessionTyped
  <2>2. UNCHANGED <<conn, related, severing>>
    BY DEF Accept
  <2> HIDE DEF late
  <2>3. /\ new.caller = s.caller /\ new.callee = s.callee /\ new.late = late
        /\ new.overtaken = s.overtaken /\ new.restored = s.restored /\ new.stale = s.stale
    BY <2>1 DEF Session
  <2>4. sessions' = [sessions EXCEPT ![pair] = new]
    BY <1>2, <1>4, <2>1 DEF TypeOK, Session
  <2> HIDE DEF new, pair
  <2>5. sessions'[pair] = new /\ \A p \in Pair : p # pair => sessions'[p] = sessions[p]
    BY <1>2, <2>4 DEF TypeOK
  <2>6. new.late <=> s.late \/ Gone(u)
    BY <2>3 DEF late
  <2>7. Answered(u, pair)
    BY <1>2, <1>4, <2>2, <2>3, <2>5, <2>6 DEF Answered
  <2> QED BY <1>2, <2>7
<1> QED BY <1>3, <1>4, RemovedNothingNew, SameNothingNew

LEMMA ExpireNothingNew ==
  ASSUME TypeOK, NEW p \in Pair, Expire(p)
  PROVE  NothingNew
<1> DEFINE new == [sessions[p] EXCEPT !.stale = TRUE]
<1>1. sessions[p] # NoSession /\ sessions' = [sessions EXCEPT ![p] = new]
  BY DEF Expire, InMap
<1>2. sessions[p] \in Session
  BY <1>1, SessionTyped
<1>3. /\ new.caller = sessions[p].caller /\ new.callee = sessions[p].callee
      /\ new.phase = sessions[p].phase /\ new.late = sessions[p].late
      /\ new.overtaken = sessions[p].overtaken /\ new.restored = sessions[p].restored
      /\ new.stale
  BY <1>2 DEF Session
<1> HIDE DEF new
<1>4. sessions'[p] = new /\ \A q \in Pair : q # p => sessions'[q] = sessions[q]
  BY <1>1 DEF TypeOK
<1> QED BY <1>1, <1>3, <1>4 DEF NothingNew, Persists

LEMMA RestoreNothingNew ==
  ASSUME TypeOK, NEW c \in Conn, RestoreTaken(c)
  PROVE  NothingNew
<1> DEFINE B == {s \in taken[c] : sessions[PairOf(s)] = NoSession /\ ~s.stale}
<1>1. sessions' = [p \in Pair |-> IF \E s \in B : PairOf(s) = p
                                  THEN HandedBack(CHOOSE s \in B : PairOf(s) = p)
                                  ELSE sessions[p]]
  BY DEF RestoreTaken, HandedBack
<1>2. B \subseteq Session
  BY DEF TypeOK
<1> HIDE DEF B
<1> SUFFICES ASSUME NEW p \in Pair, sessions'[p] # NoSession
             PROVE  Persists(p) \/ sessions'[p].restored
  BY DEF NothingNew
<1>3. CASE \E s \in B : PairOf(s) = p
  <2>1. PICK t \in B : t = CHOOSE s \in B : PairOf(s) = p
    BY <1>3
  <2>2. sessions'[p] = HandedBack(t) /\ t \in Session
    BY <1>1, <1>2, <1>3, <2>1
  <2>3. HandedBack(t).restored
    BY <2>2 DEF HandedBack, Session
  <2> QED BY <2>2, <2>3
<1>4. CASE ~\E s \in B : PairOf(s) = p
  BY <1>1, <1>4 DEF Persists
<1> QED BY <1>3, <1>4

\* Every step leaves nothing new, or creates a session, or answers one.
LEMMA StepsOfSessions ==
  ASSUME TypeOK, [Next]_vars
  PROVE  \/ NothingNew
         \/ \E u \in User, pair \in Pair : Created(u, pair) \/ Answered(u, pair)
<1>1. CASE Frame
  BY <1>1, InviteIsNew, AcceptIsAnswer, RemovedNothingNew
  DEF Frame, Reject, Cancel, End, Timeout, TakeDown
<1>2. CASE Request
  BY <1>2, RemovedNothingNew, SameNothingNew DEF Request, InviteCheck, AcceptCheck
<1>3. CASE Relation
  BY <1>3, RemovedNothingNew, SameNothingNew
  DEF Relation, Sever, TakePair, WipeConversation, PurgeUser, TakeDown
<1>4. CASE Clock
  BY <1>4, RemovedNothingNew, ExpireNothingNew DEF Clock, Sweep
<1>5. CASE Cleanup
  BY <1>5, RemovedNothingNew, SameNothingNew, RestoreNothingNew
  DEF Cleanup, CleanConnection, TakeAll, FinalizeTaken
<1>6. CASE \E c \in Conn : Connection(c)
  BY <1>6, SameNothingNew DEF Connection, callVars
<1>7. CASE UNCHANGED vars
  BY <1>7, SameNothingNew DEF vars, callVars
<1> QED BY <1>1, <1>2, <1>3, <1>4, <1>5, <1>6, <1>7 DEF Next

-----------------------------------------------------------------------------
LEMMA OneCallKept ==
  ASSUME TypeOK, OneCallAtATime, [Next]_vars
  PROVE  OneCallAtATime'
<1> SUFFICES ASSUME NEW p \in Pair, NEW q \in Pair, p # q, p \cap q # {},
                    sessions'[p] # NoSession, sessions'[q] # NoSession,
                    ~sessions'[p].stale, ~sessions'[q].stale,
                    ~sessions'[p].restored, ~sessions'[q].restored
             PROVE  FALSE
  BY DEF OneCallAtATime, InMap
<1>1. CASE NothingNew
  BY <1>1 DEF NothingNew, Persists, OneCallAtATime, InMap
<1>2. ASSUME NEW u \in User, NEW pair \in Pair, Created(u, pair)
      PROVE  FALSE
  <2>1. ASSUME NEW r \in Pair, r # pair, r \cap pair # {},
               sessions'[r] # NoSession, ~sessions'[r].stale
        PROVE  FALSE
    BY <1>2, <2>1 DEF Created, Busy, InMap
  <2>2. CASE p # pair /\ q # pair
    BY <1>2, <2>2 DEF Created, OneCallAtATime, InMap
  <2> QED BY <2>1, <2>2
<1>3. ASSUME NEW u \in User, NEW pair \in Pair, Answered(u, pair)
      PROVE  FALSE
  BY <1>3 DEF Answered, OneCallAtATime, InMap
<1> QED BY <1>1, <1>2, <1>3, StepsOfSessions

\* The end of a relation is remembered by its handler until that has looked at the map.
LEMMA StepsOfRelations ==
  ASSUME TypeOK, [Next]_vars, NEW p \in Pair, p \notin related'
  PROVE  \/ p \in severing' \/ sessions'[p] = NoSession
         \/ p \notin related /\ p \notin severing
<1>0. ASSUME UNCHANGED <<related, severing>>
      PROVE  p \in severing' \/ (p \notin related /\ p \notin severing)
  BY <1>0
<1>1. CASE Frame
  <2>1. ASSUME NEW u \in User, InviteCreate(u) \/ Accept(u)
        PROVE  UNCHANGED <<related, severing>>
    BY <2>1 DEF InviteCreate, Accept
  <2> QED BY <1>0, <1>1, <2>1 DEF Frame, Reject, Cancel, End, Timeout, TakeDown
<1>2. CASE Request
  BY <1>0, <1>2 DEF Request, InviteCheck, AcceptCheck
<1>3. CASE Relation
  <2>1. ASSUME NEW q \in Pair, Sever(q)
        PROVE  p \in severing' \/ (p \notin related /\ p \notin severing)
    BY <2>1 DEF Sever
  <2>2. ASSUME NEW q \in Pair, TakePair(q)
        PROVE  \/ p \in severing' \/ sessions'[p] = NoSession
               \/ p \notin related /\ p \notin severing
    <3>1. related' = related /\ severing' = severing \ {q}
      BY <2>2 DEF TakePair
    <3>2. CASE q = p
      BY <2>2, <3>2 DEF TakePair, Without, InMap
    <3>3. CASE q # p
      BY <3>1, <3>3
    <3> QED BY <3>2, <3>3
  <2> QED BY <1>3, <2>1, <2>2 DEF Relation, WipeConversation, PurgeUser, TakeDown
<1>4. CASE Clock
  BY <1>4 DEF Clock, Sweep, Expire
<1>5. CASE Cleanup
  BY <1>5 DEF Cleanup, CleanConnection, TakeAll, FinalizeTaken, RestoreTaken
<1>6. CASE \E c \in Conn : Connection(c)
  BY <1>6 DEF Connection, callVars
<1>7. CASE UNCHANGED vars
  BY <1>7 DEF vars, callVars
<1> QED BY <1>1, <1>2, <1>3, <1>4, <1>5, <1>6, <1>7 DEF Next

LEMMA SeveredKept ==
  ASSUME TypeOK, SeveredMeansNoCall, [Next]_vars
  PROVE  SeveredMeansNoCall'
<1> SUFFICES ASSUME NEW p \in Pair, sessions'[p] # NoSession, p \notin related',
                    p \notin severing', ~sessions'[p].overtaken, ~sessions'[p].restored
             PROVE  FALSE
  BY DEF SeveredMeansNoCall, InMap
<1>0. p \notin related /\ p \notin severing
  BY StepsOfRelations
<1>1. CASE NothingNew
  BY <1>0, <1>1 DEF NothingNew, Persists, SeveredMeansNoCall, InMap
<1>2. ASSUME NEW u \in User, NEW pair \in Pair, Created(u, pair)
      PROVE  FALSE
  BY <1>0, <1>2 DEF Created, SeveredMeansNoCall, InMap
<1>3. ASSUME NEW u \in User, NEW pair \in Pair, Answered(u, pair)
      PROVE  FALSE
  BY <1>0, <1>3 DEF Answered, SeveredMeansNoCall, InMap
<1> QED BY <1>1, <1>2, <1>3, StepsOfSessions

\* A user is connected, or has the cleanup of calls ahead.
Present(u) == Connected(u) \/ CleanupAhead(u)

\* Nobody leaves but through on_user_disconnected, which takes all of the user's calls.
LEMMA StepsOfConnections ==
  ASSUME TypeOK, [Next]_vars, NEW u \in User, Present(u)
  PROVE  Present(u)' \/ \A p \in Pair : u \in p => sessions'[p] = NoSession
<1>0. /\ Present(u) <=> \E d \in Conn : Owner[d] = u /\ conn[d] \in {"live", "left", "linger", "closing"}
      /\ Present(u)' <=> \E d \in Conn : Owner[d] = u /\ conn'[d] \in {"live", "left", "linger", "closing"}
  BY DEF Present, Connected, CleanupAhead
<1>1. ASSUME conn' = conn PROVE Present(u)'
  BY <1>0, <1>1
<1>2. ASSUME NEW c \in Conn, Connection(c) PROVE Present(u)'
  <2>1. PICK d \in Conn : Owner[d] = u /\ conn[d] \in {"live", "left", "linger", "closing"}
    BY <1>0
  <2>2. CASE Attach(c) \/ Detach(c)
    BY <1>0, <2>1, <2>2 DEF Attach, Detach, MoveTo, TypeOK, ConnTypeOK
  <2>3. CASE Decide(c) \/ Wake(c)
    <3>1. CASE Connected(Owner[c]) /\ Owner[c] = u
      <4>1. PICK e \in Conn : Owner[e] = u /\ conn[e] = "live"
        BY <3>1 DEF Connected
      <4>2. conn'[e] = "live"
        BY <2>3, <4>1 DEF Decide, Wake, MoveTo, TypeOK, ConnTypeOK
      <4> QED BY <1>0, <4>1, <4>2
    <3>2. CASE ~Connected(Owner[c])
      BY <1>0, <2>1, <2>3, <3>2 DEF Decide, Wake, MoveTo, TypeOK, ConnTypeOK
    <3>3. CASE Owner[c] # u
      BY <1>0, <2>1, <2>3, <3>3 DEF Decide, Wake, MoveTo, TypeOK, ConnTypeOK
    <3> QED BY <3>1, <3>2, <3>3
  <2> QED BY <1>2, <2>2, <2>3 DEF Connection, ConnStep
<1>3. ASSUME NEW c \in Conn, conn[c] \in {"partial", "acting"}, MoveTo(c, "done")
      PROVE  Present(u)'
  BY <1>0, <1>3 DEF MoveTo, TypeOK, ConnTypeOK
<1>4. ASSUME NEW c \in Conn, TakeAll(c)
      PROVE  Present(u)' \/ \A p \in Pair : u \in p => sessions'[p] = NoSession
  <2>1. CASE Owner[c] = u
    BY <1>4, <2>1 DEF TakeAll, Without, InMap
  <2>2. CASE Owner[c] # u
    BY <1>0, <1>4, <2>2 DEF TakeAll, MoveTo, TypeOK, ConnTypeOK
  <2> QED BY <2>1, <2>2
<1>5. CASE Frame
  BY <1>1, <1>5 DEF Frame, InviteCreate, Accept, Reject, Cancel, End, Timeout, TakeDown
<1>6. CASE Request
  BY <1>1, <1>6 DEF Request, InviteCheck, AcceptCheck
<1>7. CASE Relation
  BY <1>1, <1>7 DEF Relation, Sever, TakePair, WipeConversation, PurgeUser, TakeDown
<1>8. CASE Clock
  BY <1>1, <1>8 DEF Clock, Sweep, Expire
<1>9. CASE Cleanup
  BY <1>3, <1>4, <1>9 DEF Cleanup, CleanConnection, FinalizeTaken, RestoreTaken
<1>10. CASE UNCHANGED vars
  BY <1>1, <1>10 DEF vars
<1> QED BY <1>2, <1>5, <1>6, <1>7, <1>8, <1>9, <1>10 DEF Next

LEMMA OfflineKept ==
  ASSUME TypeOK, Books, TypeOK', Books', OfflineMeansNoCall, [Next]_vars
  PROVE  OfflineMeansNoCall'
<1> SUFFICES ASSUME NEW p \in Pair, sessions'[p] # NoSession, NEW u \in Needed(sessions'[p]),
                    ~sessions'[p].late, ~sessions'[p].restored
             PROVE  Present(u)'
  BY DEF OfflineMeansNoCall, InMap, Present, Needed
<1>1. u \in User /\ u \in p
  <2>1. sessions'[p] \in Session /\ PairOf(sessions'[p]) = p
    BY DEF TypeOK, Books, PairOf, Parties
  <2> QED BY <2>1 DEF Needed, PairOf, Parties, Session
<1>2. ASSUME Present(u) PROVE Present(u)'
  BY <1>1, <1>2, StepsOfConnections
<1>3. CASE NothingNew
  <2>1. Persists(p)
    BY <1>3 DEF NothingNew
  <2>2. Needed(sessions[p]) = Needed(sessions'[p])
    BY <2>1 DEF Persists, Needed
  <2> QED BY <1>2, <2>1, <2>2 DEF Persists, OfflineMeansNoCall, InMap, Present
<1>4. ASSUME NEW v \in User, NEW pair \in Pair, Created(v, pair)
      PROVE  Present(u)'
  <2>1. CASE p = pair
    <3>1. u = v /\ ~Gone(v)
      BY <1>4, <2>1 DEF Created, Needed
    <3> QED BY <1>2, <3>1 DEF Gone, Present
  <2>2. CASE p # pair
    BY <1>2, <1>4, <2>2 DEF Created, OfflineMeansNoCall, InMap, Present
  <2> QED BY <2>1, <2>2
<1>5. ASSUME NEW v \in User, NEW pair \in Pair, Answered(v, pair)
      PROVE  Present(u)'
  <2>1. CASE p = pair
    <3>1. CASE u = v
      BY <1>2, <1>5, <2>1, <3>1 DEF Answered, Gone, Present
    <3>2. CASE u # v
      <4>1. u \in Needed(sessions[p]) /\ sessions[p] # NoSession
        BY <1>5, <2>1, <3>2 DEF Answered, Needed
      <4> QED BY <1>2, <1>5, <2>1, <4>1 DEF Answered, OfflineMeansNoCall, InMap, Present
    <3> QED BY <3>1, <3>2
  <2>2. CASE p # pair
    BY <1>2, <1>5, <2>2 DEF Answered, OfflineMeansNoCall, InMap, Present
  <2> QED BY <2>1, <2>2
<1> QED BY <1>3, <1>4, <1>5, StepsOfSessions

\* Being busy is decided under the lock, so that a user is in one call at a time:
\* only restore_sessions, which does not ask, can give a user a second.
THEOREM OneCallPerUser == Spec => []OneCallAtATime
<1>1. Init => OneCallAtATime
  BY DEF Init, OneCallAtATime, InMap
<1>2. TypeOK /\ OneCallAtATime /\ [Next]_vars => OneCallAtATime'
  BY OneCallKept
<1> QED BY <1>1, <1>2, CallTypeCorrect, PTL DEF Spec

\* No call is left to users who have gone, or whose relation has ended: a needed party
\* who is not connected has the cleanup ahead, and a pair without a relation the handler
\* that ends its call, but for the races that the session names.
THEOREM NobodyLeftInCall == Spec => []NoOrphanCall
<1>1. Init => OfflineMeansNoCall /\ SeveredMeansNoCall
  BY DEF Init, OfflineMeansNoCall, SeveredMeansNoCall, InMap
<1>2. ASSUME TypeOK, Books, OfflineMeansNoCall, SeveredMeansNoCall, [Next]_vars
      PROVE  OfflineMeansNoCall' /\ SeveredMeansNoCall'
  <2>1. TypeOK' /\ Books'
    BY <1>2, NextKeeps
  <2>2. OfflineMeansNoCall'
    BY <1>2, <2>1, OfflineKept
  <2>3. SeveredMeansNoCall'
    BY <1>2, SeveredKept
  <2> QED BY <2>2, <2>3
<1>3. OfflineMeansNoCall /\ SeveredMeansNoCall => NoOrphanCall
  BY DEF NoOrphanCall
<1> QED BY <1>1, <1>2, <1>3, BooksInvariant, PTL DEF Spec

-----------------------------------------------------------------------------
(****************************************************************************)
(* The refinement of CallPromise: a step ends calls that are held, in a way   *)
(* that fits how far they have come, answers one, or places one.              *)
(****************************************************************************)
IsHeld(s) == \/ \E p \in Pair : sessions[p] # NoSession /\ s = sessions[p]
             \/ \E c \in Conn : s \in taken[c]

Fits(s, w) == \/ w \in {"severed", "dropped", "lost"}
              \/ s.phase = "Ringing" /\ w \in {"missed", "cancelled"}
              \/ s.phase = "Accepted" /\ w = "logged"

\* What the step adds to the outcomes it adds to calls that were held.
EndsHeld == /\ verdicts \subseteq verdicts'
            /\ \A v \in verdicts' \ verdicts :
                  \E s : IsHeld(s) /\ v[1] = s.id /\ Fits(s, v[2])

AnswersHeld == \/ answered' = answered
               \/ \E p \in Pair : /\ sessions[p] # NoSession
                                  /\ answered' = answered \cup {sessions[p].id}

Proceeds == EndsHeld /\ AnswersHeld /\ nextId' \in {nextId, nextId + 1}

LEMMA NothingEnds ==
  ASSUME UNCHANGED <<nextId, verdicts, answered>>
  PROVE  Proceeds
  BY DEF Proceeds, EndsHeld, AnswersHeld

\* The outcomes the code gives fit.
LEMMA OutcomesFit ==
  ASSUME NEW s \in Session, NEW u
  PROVE  Fits(s, Expiry(s)) /\ Fits(s, Departure(s, u))
  BY DEF Fits, Expiry, Departure, Session

\* Sessions of the map or in the hands of a cleanup end, each in a way that fits.
LEMMA HeldEnd ==
  ASSUME NEW R, NEW f, \A s \in R : IsHeld(s) /\ Fits(s, f[s]),
         verdicts' = verdicts \cup {<<s.id, f[s]>> : s \in R}
  PROVE  EndsHeld
<1> SUFFICES ASSUME NEW v \in verdicts' \ verdicts
             PROVE  \E s : IsHeld(s) /\ v[1] = s.id /\ Fits(s, v[2])
  BY DEF EndsHeld
<1>1. PICK s \in R : v = <<s.id, f[s]>>
  OBVIOUS
<1> QED BY <1>1

LEMMA MapEnds ==
  ASSUME NEW R \in SUBSET InMap, NEW f, \A p \in R : Fits(sessions[p], f[p]),
         verdicts' = verdicts \cup {<<sessions[p].id, f[p]>> : p \in R}
  PROVE  EndsHeld
<1> SUFFICES ASSUME NEW v \in verdicts' \ verdicts
             PROVE  \E s : IsHeld(s) /\ v[1] = s.id /\ Fits(s, v[2])
  BY DEF EndsHeld
<1>1. PICK p \in R : v = <<sessions[p].id, f[p]>>
  OBVIOUS
<1>2. IsHeld(sessions[p])
  BY DEF IsHeld, InMap
<1> QED BY <1>1, <1>2

LEMMA SweptFit ==
  ASSUME TypeOK, NEW v \in SweptVerdicts
  PROVE  \E s : IsHeld(s) /\ v[1] = s.id /\ Fits(s, v[2])
<1>1. PICK p \in StalePairs : v = <<sessions[p].id, Expiry(sessions[p])>>
  BY DEF SweptVerdicts
<1>2. p \in Pair /\ sessions[p] # NoSession
  BY DEF StalePairs, InMap
<1>3. IsHeld(sessions[p]) /\ Fits(sessions[p], Expiry(sessions[p]))
  BY <1>2, SessionTyped, OutcomesFit DEF IsHeld
<1> QED BY <1>1, <1>3

\* One call ends, after a sweep or without one.
LEMMA OneEnds ==
  ASSUME TypeOK, NEW p \in Pair, sessions[p] # NoSession, NEW w, Fits(sessions[p], w),
         NEW V \in {{}, SweptVerdicts},
         verdicts' = verdicts \cup V \cup {<<sessions[p].id, w>>}
  PROVE  EndsHeld
  BY SweptFit DEF EndsHeld, IsHeld

LEMMA InviteProceeds ==
  ASSUME TypeOK, NEW u \in User, InviteCreate(u)
  PROVE  Proceeds
<1> DEFINE pair == {u, job[u].peer}
           old  == sessions[pair]
           removed == IF old # NoSession /\ old.stale THEN {pair} ELSE {}
<1>1. pair \in Pair
  <2>1. job[u] \in Job /\ job[u].peer # u
    BY DEF InviteCreate, TypeOK
  <2> QED BY <2>1, PairOfTwo DEF Job
<1>2. UNCHANGED answered /\ nextId' \in {nextId, nextId + 1}
  BY DEF InviteCreate
<1>3. \/ verdicts' = verdicts
      \/ /\ old # NoSession
         /\ \E w \in {"lost", Expiry(old)} : verdicts' = verdicts \cup {<<old.id, w>>}
  <2> HIDE DEF pair
  <2>1. \/ verdicts' = verdicts
        \/ \E w \in {"lost", Expiry(old)} :
              verdicts' = verdicts \cup {<<sessions[p].id, w>> : p \in removed}
    BY DEF InviteCreate, pair
  <2> QED BY <2>1
<1>4. EndsHeld
  <2>1. CASE verdicts' = verdicts
    BY <2>1 DEF EndsHeld
  <2>2. ASSUME old # NoSession, NEW w \in {"lost", Expiry(old)},
               verdicts' = verdicts \cup {<<old.id, w>>}
        PROVE  EndsHeld
    <3> HIDE DEF pair
    <3>1. old \in Session
      BY <1>1, <2>2, SessionTyped
    <3>2. Fits(old, w)
      BY <2>2, <3>1, OutcomesFit DEF Fits
    <3>3. verdicts' = verdicts \cup {} \cup {<<old.id, w>>}
      BY <2>2
    <3> QED BY <1>1, <2>2, <3>2, <3>3, OneEnds
  <2> QED BY <1>3, <2>1, <2>2
<1> QED BY <1>2, <1>4 DEF Proceeds, AnswersHeld

LEMMA AcceptProceeds ==
  ASSUME TypeOK, NEW u \in User, Accept(u)
  PROVE  Proceeds
<1> DEFINE pair == {u, job[u].peer}
           s    == sessions[pair]
<1>1. pair \in Pair
  <2>1. job[u] \in Job /\ job[u].peer # u
    BY DEF Accept, TypeOK
  <2> QED BY <2>1, PairOfTwo DEF Job
<1>2. UNCHANGED nextId
  BY DEF Accept
<1>3. \/ UNCHANGED <<verdicts, answered>>
      \/ /\ s # NoSession /\ s.phase = "Ringing"
         /\ \/ UNCHANGED answered /\ verdicts' = verdicts \cup {} \cup {<<s.id, "missed">>}
            \/ UNCHANGED verdicts /\ answered' = answered \cup {s.id}
  BY DEF Accept
<1> HIDE DEF pair
<1>4. CASE UNCHANGED <<verdicts, answered>>
  BY <1>2, <1>4, NothingEnds
<1>5. CASE /\ s # NoSession /\ s.phase = "Ringing"
           /\ UNCHANGED answered /\ verdicts' = verdicts \cup {} \cup {<<s.id, "missed">>}
  <2>1. Fits(s, "missed")
    BY <1>5 DEF Fits
  <2>2. EndsHeld
    BY <1>1, <1>5, <2>1, OneEnds
  <2> QED BY <1>2, <1>5, <2>2 DEF Proceeds, AnswersHeld
<1>6. CASE s # NoSession /\ UNCHANGED verdicts /\ answered' = answered \cup {s.id}
  BY <1>1, <1>2, <1>6 DEF Proceeds, EndsHeld, AnswersHeld
<1> QED BY <1>3, <1>4, <1>5, <1>6

LEMMA HangUpProceeds ==
  ASSUME TypeOK, NEW u \in User, NEW p \in Pair,
         Reject(u, p) \/ Cancel(u, p) \/ End(u, p) \/ Timeout(u, p) \/ WipeConversation(p)
  PROVE  Proceeds
<1>1. p \in Pair /\ sessions[p] # NoSession /\ UNCHANGED <<nextId, answered>>
  BY DEF Reject, Cancel, End, Timeout, WipeConversation, CanHandle, InMap, TakeDown
<1>2. sessions[p] \in Session
  BY <1>1, SessionTyped
<1>3. \E V \in {{}, SweptVerdicts}, w \in Verdict :
         Fits(sessions[p], w) /\ verdicts' = verdicts \cup V \cup {<<sessions[p].id, w>>}
  <2>1. CASE Reject(u, p)
    BY <2>1 DEF Reject, TakeDown, Fits, Verdict
  <2>2. CASE Cancel(u, p)
    BY <2>2 DEF Cancel, TakeDown, Fits, Verdict
  <2>3. CASE End(u, p)
    <3> DEFINE w == IF sessions[p].phase = "Accepted" THEN "logged"
                    ELSE IF sessions[p].callee = u THEN "missed" ELSE "cancelled"
    <3>1. Fits(sessions[p], w) /\ w \in Verdict
      BY <1>2 DEF Fits, Session, Verdict
    <3>2. verdicts' = verdicts \cup {} \cup {<<sessions[p].id, w>>}
      BY <2>3 DEF End, TakeDown
    <3> QED BY <3>1, <3>2
  <2>4. CASE Timeout(u, p)
    BY <2>4 DEF Timeout, Fits, Verdict
  <2>5. CASE WipeConversation(p)
    BY <2>5 DEF WipeConversation, TakeDown, Fits, Verdict
  <2> QED BY <2>1, <2>2, <2>3, <2>4, <2>5
<1>4. EndsHeld
  BY <1>1, <1>3, OneEnds
<1> QED BY <1>1, <1>4 DEF Proceeds, AnswersHeld

LEMMA SweepProceeds ==
  ASSUME TypeOK, verdicts' = verdicts \cup SweptVerdicts, UNCHANGED <<nextId, answered>>
  PROVE  Proceeds
  BY SweptFit DEF Proceeds, EndsHeld, AnswersHeld

LEMMA TakePairProceeds ==
  ASSUME TypeOK, NEW p \in Pair, TakePair(p)
  PROVE  Proceeds
<1>1. \/ verdicts' = verdicts
      \/ sessions[p] # NoSession
         /\ verdicts' = verdicts \cup {} \cup {<<sessions[p].id, "severed">>}
  BY DEF TakePair, InMap
<1>2. EndsHeld
  <2>1. Fits(sessions[p], "severed")
    BY DEF Fits
  <2> QED BY <1>1, <2>1, OneEnds DEF EndsHeld
<1> QED BY <1>2 DEF TakePair, Proceeds, AnswersHeld

LEMMA PurgeProceeds ==
  ASSUME TypeOK, NEW u \in User, PurgeUser(u)
  PROVE  Proceeds
<1> DEFINE R == {p \in InMap : u \in p}
           f == [p \in R |-> "severed"]
<1>1. verdicts' = verdicts \cup {<<sessions[p].id, f[p]>> : p \in R}
  BY DEF PurgeUser
<1>2. \A p \in R : Fits(sessions[p], f[p])
  BY DEF Fits
<1>3. R \in SUBSET InMap
  OBVIOUS
<1> HIDE DEF R, f
<1>4. EndsHeld
  BY <1>1, <1>2, <1>3, MapEnds
<1> QED BY <1>4 DEF PurgeUser, Proceeds, AnswersHeld

LEMMA CleanConnectionProceeds ==
  ASSUME TypeOK, NEW c \in Conn, CleanConnection(c)
  PROVE  Proceeds
<1> DEFINE u == Owner[c]
           R == {p \in InMap : u \in p /\ OwnsSide(sessions[p], u, c)}
           f == [p \in R |-> Departure(sessions[p], u)]
<1>1. verdicts' = verdicts \cup {<<sessions[p].id, f[p]>> : p \in R}
  BY DEF CleanConnection
<1>2. \A p \in R : Fits(sessions[p], f[p])
  BY SessionTyped, OutcomesFit DEF InMap
<1>3. R \in SUBSET InMap
  OBVIOUS
<1> HIDE DEF R, f
<1>4. EndsHeld
  BY <1>1, <1>2, <1>3, MapEnds
<1> QED BY <1>4 DEF CleanConnection, Proceeds, AnswersHeld

LEMMA FinalizeProceeds ==
  ASSUME TypeOK, NEW c \in Conn, FinalizeTaken(c)
  PROVE  Proceeds
<1> DEFINE R == taken[c]
           f == [s \in R |-> Departure(s, Owner[c])]
<1>1. verdicts' = verdicts \cup {<<s.id, f[s]>> : s \in R}
  BY DEF FinalizeTaken
<1>2. \A s \in R : IsHeld(s) /\ Fits(s, f[s])
  BY OutcomesFit DEF TypeOK, IsHeld
<1> HIDE DEF R, f
<1>3. EndsHeld
  BY <1>1, <1>2, HeldEnd
<1> QED BY <1>3 DEF FinalizeTaken, Proceeds, AnswersHeld

LEMMA RestoreProceeds ==
  ASSUME TypeOK, NEW c \in Conn, RestoreTaken(c)
  PROVE  Proceeds
<1> DEFINE R == taken[c] \ {s \in taken[c] : sessions[PairOf(s)] = NoSession /\ ~s.stale}
           f == [s \in R |-> "dropped"]
<1>1. verdicts' = verdicts \cup {<<s.id, f[s]>> : s \in R}
  BY DEF RestoreTaken
<1>2. \A s \in R : IsHeld(s) /\ Fits(s, f[s])
  BY DEF IsHeld, Fits
<1> HIDE DEF R, f
<1>3. EndsHeld
  BY <1>1, <1>2, HeldEnd
<1> QED BY <1>3 DEF RestoreTaken, Proceeds, AnswersHeld

LEMMA NextProceeds ==
  ASSUME TypeOK, [Next]_vars
  PROVE  Proceeds
<1>1. CASE Frame
  BY <1>1, InviteProceeds, AcceptProceeds, HangUpProceeds DEF Frame
<1>2. CASE Request
  BY <1>2, SweepProceeds, NothingEnds DEF Request, InviteCheck, AcceptCheck
<1>3. CASE Relation
  <2>1. ASSUME NEW p \in Pair, Sever(p) PROVE Proceeds
    BY <2>1, NothingEnds DEF Sever
  <2>2. ASSUME NEW p \in Pair, WipeConversation(p) PROVE Proceeds
    <3>1. PICK u \in User : TRUE
      BY <2>2 DEF Pair
    <3> QED BY <2>2, <3>1, HangUpProceeds
  <2> QED BY <1>3, <2>1, <2>2, TakePairProceeds, PurgeProceeds DEF Relation
<1>4. CASE Clock
  BY <1>4, SweepProceeds, NothingEnds DEF Clock, Sweep, Expire
<1>5. CASE Cleanup
  <2>1. ASSUME NEW c \in Conn, TakeAll(c) PROVE Proceeds
    BY <2>1, NothingEnds DEF TakeAll
  <2> QED BY <1>5, <2>1, CleanConnectionProceeds, FinalizeProceeds, RestoreProceeds DEF Cleanup
<1>6. CASE \E c \in Conn : Connection(c)
  BY <1>6, NothingEnds DEF Connection, callVars
<1>7. CASE UNCHANGED vars
  BY <1>7, NothingEnds DEF vars, callVars
<1> QED BY <1>1, <1>2, <1>3, <1>4, <1>5, <1>6, <1>7 DEF Next

\* Status, for the ids given out, the outcomes and the answered calls of either state.
StatusOf(n, V, A, i) ==
    IF i >= n THEN "unborn"
    ELSE IF \E v \in V : v[1] = i THEN Outcome((CHOOSE v \in V : v[1] = i)[2])
    ELSE IF i \in A THEN "answered" ELSE "ringing"

LEMMA StatusSpelled ==
  /\ Status = [i \in CallId |-> StatusOf(nextId, verdicts, answered, i)]
  /\ Status' = [i \in CallId |-> StatusOf(nextId', verdicts', answered', i)]
  BY DEF Status, StatusOf, Over, Outcome

LEMMA StatusOver ==
  ASSUME NEW n \in Nat, NEW V, NEW A, NEW i \in Nat, i < n,
         NEW v \in V, v[1] = i, \A x, y \in V : x[1] = y[1] => x = y
  PROVE  StatusOf(n, V, A, i) = Outcome(v[2])
<1>1. (CHOOSE x \in V : x[1] = i) = v
  OBVIOUS
<1> QED BY <1>1 DEF StatusOf

LEMMA StatusOpen ==
  ASSUME NEW n \in Nat, NEW V, NEW A, NEW i \in Nat, ~\E v \in V : v[1] = i
  PROVE  StatusOf(n, V, A, i) = IF i >= n THEN "unborn"
                                ELSE IF i \in A THEN "answered" ELSE "ringing"
  BY DEF StatusOf

LEMMA StatusMoves ==
  ASSUME TypeOK, Books, TypeOK', Books', [Next]_vars, NEW i \in CallId
  PROVE  \/ Status'[i] = Status[i]
         \/ <<Status[i], Status'[i]>> \in Promise!Edge
<1> DEFINE S == StatusOf(nextId, verdicts, answered, i)
           T == StatusOf(nextId', verdicts', answered', i)
<1>0. Status[i] = S /\ Status'[i] = T
  BY StatusSpelled
<1>1. Proceeds
  BY NextProceeds
<1>2. i \in Nat /\ nextId \in Nat /\ nextId' \in Nat /\ nextId <= nextId'
  BY <1>1, CallAssumption DEF TypeOK, CallId, Proceeds
<1>3. \A s : IsHeld(s) => InOrder(s) /\ s.phase \in {"Ringing", "Accepted"}
  BY DEF IsHeld, Books, TypeOK, Session
<1> HIDE DEF S, T
<1>4. CASE i >= nextId
  <2>1. ~\E v \in verdicts : v[1] = i
    BY <1>2, <1>4 DEF Books
  <2>2. ~\E v \in verdicts' : v[1] = i
    BY <1>1, <1>2, <1>3, <1>4, <2>1 DEF Proceeds, EndsHeld, InOrder
  <2>3. i \notin answered'
    BY <1>1, <1>2, <1>3, <1>4 DEF Proceeds, AnswersHeld, Books, InOrder, IsHeld
  <2>4. S = "unborn"
    BY <1>2, <1>4, <2>1, StatusOpen DEF S
  <2>5. T \in {"unborn", "ringing"}
    BY <1>2, <2>2, <2>3, StatusOpen DEF T
  <2> QED BY <1>0, <2>4, <2>5 DEF Promise!Edge
<1>5. CASE i < nextId
  <2>1. i < nextId'
    BY <1>2, <1>5
  <2>2. ASSUME NEW v \in verdicts, v[1] = i PROVE S = T
    <3>1. v \in verdicts'
      BY <1>1 DEF Proceeds, EndsHeld
    <3>2. S = Outcome(v[2])
      BY <1>2, <1>5, <2>2, StatusOver DEF S, Books
    <3>3. T = Outcome(v[2])
      BY <1>2, <2>1, <2>2, <3>1, StatusOver DEF T, Books
    <3> QED BY <3>2, <3>3
  <2>3. CASE ~\E v \in verdicts : v[1] = i
    <3>1. S = IF i \in answered THEN "answered" ELSE "ringing"
      BY <1>2, <1>5, <2>3, StatusOpen DEF S
    <3>2. ASSUME NEW v \in verdicts', v[1] = i
          PROVE  <<S, T>> \in Promise!Edge
      <4>1. PICK s : IsHeld(s) /\ v[1] = s.id /\ Fits(s, v[2])
        BY <1>1, <2>3, <3>2 DEF Proceeds, EndsHeld
      <4>2. s.phase = "Accepted" <=> i \in answered
        BY <1>3, <3>2, <4>1 DEF InOrder
      <4>3. T = Outcome(v[2])
        BY <1>2, <2>1, <3>2, StatusOver DEF T, Books
      <4>4. CASE S = "ringing"
        <5>1. v[2] \in {"severed", "dropped", "lost", "missed", "cancelled"}
          BY <3>1, <4>1, <4>2, <4>4 DEF Fits
        <5> QED BY <4>3, <4>4, <5>1 DEF Outcome, Promise!Edge
      <4>5. CASE S = "answered"
        <5>1. v[2] \in {"severed", "dropped", "lost", "logged"}
          BY <3>1, <4>1, <4>2, <4>5 DEF Fits
        <5> QED BY <4>3, <4>5, <5>1 DEF Outcome, Promise!Edge
      <4> QED BY <3>1, <4>4, <4>5
    <3>3. CASE ~\E v \in verdicts' : v[1] = i
      <4>1. T = IF i \in answered' THEN "answered" ELSE "ringing"
        BY <1>2, <2>1, <3>3, StatusOpen DEF T
      <4>2. answered \subseteq answered'
        BY <1>1 DEF Proceeds, AnswersHeld
      <4> QED BY <1>0, <3>1, <4>1, <4>2 DEF Promise!Edge
    <3> QED BY <1>0, <3>2, <3>3
  <2> QED BY <1>0, <2>2, <2>3
<1> QED BY <1>2, <1>4, <1>5

\* The life of a call, whoever acts on it: it rings once, is answered at most once and
\* while it rings, and ends once, in a way that fits whether it was answered.
THEOREM CallsKeepPromise == Spec => KeepsPromise
<1>1. Init => Promise!Init
  <2> SUFFICES ASSUME Init PROVE Status = [i \in CallId |-> "unborn"]
    BY DEF Promise!Init
  <2>1. nextId = 1 /\ verdicts = {} /\ answered = {}
    BY DEF Init
  <2>2. \A i \in CallId : i >= nextId
    BY <2>1, CallAssumption DEF CallId
  <2> QED BY <2>2 DEF Status
<1>2. ASSUME TypeOK, Books, [Next]_vars
      PROVE  [Promise!Next]_Status
  <2>1. TypeOK' /\ Books'
    BY <1>2, NextKeeps
  <2>2. DOMAIN Status' = CallId
    BY StatusSpelled
  <2>3. \A i \in CallId : \/ Status'[i] = Status[i]
                          \/ <<Status[i], Status'[i]>> \in Promise!Edge
    BY <1>2, <2>1, StatusMoves
  <2> QED BY <2>2, <2>3 DEF Promise!Next
<1> QED BY <1>1, <1>2, BooksInvariant, PTL DEF Spec, KeepsPromise, Promise!Spec
================================================================================
