--------------------------- MODULE SocketStateProofs ---------------------------
(****************************************************************************)
(* Proofs about MCSocketState, for any users, sockets, chats and bounds: a     *)
(* user's jobs run one at a time and in order and none is lost silently or    *)
(* begun twice (UserFifo); the counts of sockets are exact and within their   *)
(* limits (SocketAdmission); merging typing frames never lets an old word     *)
(* come last (TypingQueue).  First each part alone, then all side by side.    *)
(****************************************************************************)
EXTENDS MCSocketState, FiniteSetTheorems, SequenceTheorems, TLAPS

Elements(s) == {s[i] : i \in DOMAIN s}

Ascending(s) == \A i, j \in DOMAIN s : i < j => s[i] < s[j]

LEMMA AppendFacts ==
  ASSUME NEW s \in Seq(Job), NEW e \in Job
  PROVE  /\ Append(s, e) \in Seq(Job)
         /\ Len(Append(s, e)) = Len(s) + 1
         /\ Elements(Append(s, e)) = Elements(s) \cup {e}
         /\ Ascending(s) /\ (\A x \in Elements(s) : x < e) => Ascending(Append(s, e))
<1> DEFINE t == Append(s, e)
<1>1. /\ t \in Seq(Job) /\ Len(t) = Len(s) + 1 /\ Len(s) \in Nat
      /\ DOMAIN s = 1..Len(s) /\ DOMAIN t = 1..(Len(s) + 1)
      /\ \A i \in 1..Len(s) : t[i] = s[i]
      /\ t[Len(s) + 1] = e
  OBVIOUS
<1>2. Elements(t) = Elements(s) \cup {e}
  <2>1. 1..(Len(s) + 1) = 1..Len(s) \cup {Len(s) + 1}
    BY <1>1
  <2> HIDE DEF t
  <2> QED BY <1>1, <2>1 DEF Elements
<1>3. ASSUME Ascending(s), \A x \in Elements(s) : x < e PROVE Ascending(t)
  <2> SUFFICES ASSUME NEW i \in DOMAIN t, NEW j \in DOMAIN t, i < j
               PROVE  t[i] < t[j]
    BY DEF Ascending
  <2>1. i \in 1..Len(s) /\ t[i] = s[i] /\ s[i] \in Elements(s)
    BY <1>1 DEF Elements
  <2>2. CASE j \in 1..Len(s)
    BY <1>1, <1>3, <2>1, <2>2 DEF Ascending
  <2>3. CASE j = Len(s) + 1
    BY <1>1, <1>3, <2>1, <2>3
  <2> QED BY <1>1, <2>2, <2>3
<1> QED BY <1>1, <1>2, <1>3

LEMMA TailFacts ==
  ASSUME NEW s \in Seq(Job), s # <<>>
  PROVE  /\ Head(s) \in Job
         /\ Tail(s) \in Seq(Job)
         /\ Len(Tail(s)) = Len(s) - 1 /\ Len(s) \in Nat \ {0}
         /\ Elements(s) = Elements(Tail(s)) \cup {Head(s)}
         /\ Ascending(s) =>
               Ascending(Tail(s)) /\ \A x \in Elements(Tail(s)) : Head(s) < x
<1> DEFINE t == Tail(s)
<1>1. /\ t \in Seq(Job) /\ Len(s) \in Nat \ {0} /\ Len(t) = Len(s) - 1
      /\ DOMAIN s = 1..Len(s) /\ DOMAIN t = 1..(Len(s) - 1)
      /\ \A i \in 1..(Len(s) - 1) : t[i] = s[i + 1]
      /\ Head(s) = s[1] /\ s[1] \in Job
  OBVIOUS
<1> HIDE DEF t
<1>2. Elements(s) = Elements(t) \cup {Head(s)}
  <2>1. ASSUME NEW x \in Elements(s) PROVE x \in Elements(t) \cup {Head(s)}
    <3>1. PICK i \in 1..Len(s) : x = s[i]
      BY <1>1 DEF Elements
    <3>2. CASE i = 1
      BY <1>1, <3>1, <3>2
    <3>3. CASE i # 1
      <4>1. i - 1 \in 1..(Len(s) - 1) /\ t[i - 1] = s[i]
        BY <1>1, <3>3
      <4> QED BY <1>1, <3>1, <4>1 DEF Elements
    <3> QED BY <3>2, <3>3
  <2>2. ASSUME NEW x \in Elements(t) \cup {Head(s)} PROVE x \in Elements(s)
    <3>1. CASE x = Head(s)
      BY <1>1, <3>1 DEF Elements
    <3>2. CASE x \in Elements(t)
      <4>1. PICK i \in 1..(Len(s) - 1) : x = t[i]
        BY <1>1, <3>2 DEF Elements
      <4>2. i + 1 \in 1..Len(s) /\ x = s[i + 1]
        BY <1>1, <4>1
      <4> QED BY <1>1, <4>2 DEF Elements
    <3> QED BY <2>2, <3>1, <3>2
  <2> QED BY <2>1, <2>2
<1>3. ASSUME Ascending(s)
      PROVE  Ascending(t) /\ \A x \in Elements(t) : Head(s) < x
  <2>1. ASSUME NEW i \in DOMAIN t, NEW j \in DOMAIN t, i < j PROVE t[i] < t[j]
    <3>1. /\ i + 1 \in DOMAIN s /\ j + 1 \in DOMAIN s /\ i + 1 < j + 1
          /\ t[i] = s[i + 1] /\ t[j] = s[j + 1]
      BY <1>1, <2>1
    <3> QED BY <1>3, <3>1 DEF Ascending
  <2>2. ASSUME NEW x \in Elements(t) PROVE Head(s) < x
    <3>1. PICK i \in DOMAIN t : x = t[i]
      BY DEF Elements
    <3>2. 1 \in DOMAIN s /\ i + 1 \in DOMAIN s /\ 1 < i + 1 /\ t[i] = s[i + 1]
      BY <1>1
    <3> QED BY <1>1, <1>3, <3>1, <3>2 DEF Ascending
  <2> QED BY <2>1, <2>2 DEF Ascending
<1> QED BY <1>1, <1>2, <1>3 DEF t

-----------------------------------------------------------------------------
(****************************************************************************)
(* Types.                                                                   *)
(****************************************************************************)
LEMMA WatchTyped ==
  ASSUME TypeOK, Watch
  PROVE  exposed' \in [User -> BOOLEAN]
  BY DEF Watch, TypeOK, Exposed

LEMMA CollectedTyped ==
  ASSUME TypeOK
  PROVE  Collected \in [User -> Job \cup {None}]
  BY DEF TypeOK, Collected

LEMMA NextJob ==
  ASSUME TypeOK, NEW u \in User, accepted[u] < MaxJobs
  PROVE  accepted[u] + 1 \in Job /\ accepted[u] + 1 \in 0..MaxJobs
  BY FifoAssumption DEF TypeOK, Job

LEMMA NextTyped == TypeOK /\ [Next]_vars => TypeOK'
<1> SUFFICES ASSUME TypeOK, [Next]_vars PROVE TypeOK'
  OBVIOUS
<1> USE DEF channels, history
<1>1. ASSUME NEW u \in User, Connect(u) PROVE TypeOK'
  BY <1>1 DEF Connect, TypeOK
<1>2. ASSUME NEW u \in User, Disconnect(u) PROVE TypeOK'
  BY <1>2, WatchTyped DEF Disconnect, TypeOK
<1>3. ASSUME NEW u \in User, MinutePasses(u) PROVE TypeOK'
  BY <1>3, WatchTyped DEF MinutePasses, TypeOK
<1>4. ASSUME NEW u \in User, Enqueue(u) PROVE idle' \in [User -> BOOLEAN]
  BY <1>4 DEF Enqueue, TypeOK
<1>5. ASSUME NEW u \in User, Refuse(u) PROVE TypeOK'
  BY <1>4, <1>5, CollectedTyped DEF Refuse, Enqueue, TypeOK
<1>6. ASSUME NEW u \in User, Send(u) PROVE TypeOK'
  <2> DEFINE l == Collected[u]
             j == accepted[u] + 1
  <2>1. l \in Job /\ j \in Job /\ j \in 0..MaxJobs
    BY <1>6, CollectedTyped, NextJob DEF Send, Enqueue, Serving
  <2>2. queue[u][l] \in Seq(Job) /\ Len(queue[u][l]) < Cap
    BY <1>6, <2>1, FifoAssumption DEF Send, Full, TypeOK
  <2>3. Append(queue[u][l], j) \in Seq(Job) /\ Len(Append(queue[u][l], j)) <= Cap
    BY <2>1, <2>2, FifoAssumption
  <2>4. queue' = [queue EXCEPT ![u][l] = Append(queue[u][l], j)]
    BY <1>6 DEF Send
  <2> HIDE DEF l, j
  <2>5. /\ queue' \in [User -> [Job -> Seq(Job)]]
        /\ \A v \in User, k \in Job : Len(queue'[v][k]) <= Cap
    BY <2>1, <2>3, <2>4 DEF TypeOK
  <2>6. accepted' \in [User -> 0..MaxJobs]
    BY <1>6, <2>1 DEF Send, TypeOK, j
  <2> QED BY <1>4, <1>6, <2>5, <2>6, CollectedTyped DEF Send, Enqueue, TypeOK
<1>7. ASSUME NEW u \in User, Spawn(u) PROVE TypeOK'
  <2> DEFINE j == accepted[u] + 1
  <2>1. j \in Job /\ j \in 0..MaxJobs
    BY <1>7, NextJob DEF Spawn, Enqueue
  <2>2. <<j>> \in Seq(Job) /\ Len(<<j>>) <= Cap
    BY <2>1, FifoAssumption
  <2>3. /\ queue' = [queue EXCEPT ![u][j] = <<j>>]
        /\ slot' = [Collected EXCEPT ![u] = j]
        /\ accepted' = [accepted EXCEPT ![u] = j]
    BY <1>7 DEF Spawn
  <2> HIDE DEF j
  <2>4. /\ queue' \in [User -> [Job -> Seq(Job)]]
        /\ \A v \in User, k \in Job : Len(queue'[v][k]) <= Cap
    BY <2>1, <2>2, <2>3 DEF TypeOK
  <2>5. /\ accepted' \in [User -> 0..MaxJobs]
        /\ slot' \in [User -> Job \cup {None}]
    BY <2>1, <2>3, CollectedTyped DEF TypeOK
  <2> QED BY <1>4, <1>7, <2>4, <2>5 DEF Spawn, Enqueue, TypeOK
<1>8. ASSUME NEW u \in User, NEW l \in Job, Receive(u, l) PROVE TypeOK'
  <2>1. queue[u][l] \in Seq(Job) /\ queue[u][l] # <<>> /\ Len(queue[u][l]) <= Cap
    BY <1>8 DEF Receive, TypeOK
  <2>2. /\ Head(queue[u][l]) \in Job
        /\ Tail(queue[u][l]) \in Seq(Job)
        /\ Len(Tail(queue[u][l])) <= Cap
    BY <2>1, TailFacts, FifoAssumption
  <2>3. /\ queue' \in [User -> [Job -> Seq(Job)]]
        /\ \A v \in User, k \in Job : Len(queue'[v][k]) <= Cap
    BY <1>8, <2>2 DEF Receive, TypeOK
  <2>4. hand' \in [User -> [Job -> Job \cup {None}]]
    BY <1>8, <2>2 DEF Receive, TypeOK
  <2> QED BY <1>8, <2>3, <2>4 DEF Receive, TypeOK
<1>9. ASSUME NEW u \in User, NEW l \in Job, Begin(u, l) PROVE TypeOK'
  BY <1>9 DEF Begin, TypeOK
<1>10. ASSUME NEW u \in User, NEW l \in Job, Finish(u, l) PROVE TypeOK'
  <2>1. hand' \in [User -> [Job -> Job \cup {None}]] /\ busy' \in [User -> [Job -> BOOLEAN]]
    BY <1>10 DEF Finish, TypeOK
  <2> QED BY <1>10, <2>1, WatchTyped DEF Finish, TypeOK
<1>11. ASSUME NEW u \in User, NEW l \in Job, Panic(u, l) PROVE TypeOK'
  <2>1. Queued(u, l) \subseteq Job
    BY DEF Queued, TypeOK
  <2>2. /\ queue' \in [User -> [Job -> Seq(Job)]]
        /\ \A v \in User, k \in Job : Len(queue'[v][k]) <= Cap
    <3>1. <<>> \in Seq(Job) /\ Len(<<>>) <= Cap
      BY FifoAssumption
    <3> QED BY <1>11, <3>1 DEF Panic, TypeOK
  <2>3. hand' \in [User -> [Job -> Job \cup {None}]]
    BY <1>11 DEF Panic, TypeOK
  <2>4. lost' \in [User -> SUBSET Job] /\ dead' \in [User -> SUBSET Job]
    BY <1>11, <2>1 DEF Panic, TypeOK
  <2>5. panics' \in 0..MaxPanics
    BY <1>11, FifoAssumption DEF Panic, TypeOK
  <2> QED BY <1>11, <2>2, <2>3, <2>4, <2>5 DEF Panic, TypeOK
<1>12. CASE UNCHANGED vars
  BY <1>12 DEF vars, TypeOK
<1> QED BY <1>1, <1>2, <1>3, <1>5, <1>6, <1>7, <1>8, <1>9, <1>10, <1>11, <1>12
    DEF Next, Worker

-----------------------------------------------------------------------------
(****************************************************************************)
(* The order, a user at a time.                                             *)
(****************************************************************************)
\* What a channel holds is older towards its head, and what its worker has in
\* hand is older than that; a number that has not been given out is nowhere.
LaneInv(u, l) ==
    /\ Ascending(queue[u][l])
    /\ \A x \in Queued(u, l) : x <= accepted[u]
    /\ hand[u][l] # None =>
          hand[u][l] <= accepted[u] /\ \A x \in Queued(u, l) : hand[u][l] < x
    /\ l > accepted[u] => ~HasWork(u, l) /\ ~busy[u][l] /\ l \notin dead[u]
    /\ l \in dead[u] => ~HasWork(u, l) /\ busy[u][l]
    /\ busy[u][l] => l \in dead[u] \/ (hand[u][l] # None /\ hand[u][l] \in started[u])

\* While the user is not excused only the channel in the map has work, and that
\* work comes after everything that has begun.
OrderInv(u) ==
    /\ \A l \in Job : l # slot[u] => ~HasWork(u, l)
    /\ \A l \in Job : \A x \in Queued(u, l), j \in started[u] : j < x
    /\ \A l \in Job, j \in started[u] :
          hand[u][l] # None /\ ~busy[u][l] => j < hand[u][l]

FifoInv(u) ==
    /\ \A l \in Job : LaneInv(u, l)
    /\ slot[u] <= accepted[u]
    /\ \A j \in started[u] : j <= accepted[u]
    /\ Exposed(u) => exposed[u]
    /\ ~exposed[u] => OrderInv(u)

LEMMA InitFifo == Init => \A u \in User : FifoInv(u)
  BY FifoAssumption DEF Init, FifoInv, LaneInv, OrderInv, Ascending, Queued, HasWork, Exposed, Job, None

\* A step that leaves a user's channels alone keeps the invariant, unless it is
\* what exposes the user.
LEMMA SameChannels ==
  ASSUME TypeOK, NEW u \in User, FifoInv(u),
         UNCHANGED <<queue[u], hand[u], busy[u], dead[u], accepted[u], started[u]>>,
         exposed'[u] = FALSE => ~exposed[u],
         Exposed(u)' => exposed'[u],
         slot'[u] \in {slot[u], None},
         ~exposed[u] => slot'[u] = slot[u] \/ ~HasWork(u, slot[u]),
         exposed'[u] \in BOOLEAN
  PROVE  FifoInv(u)'
<1>1. \A l \in Job : Queued(u, l)' = Queued(u, l) /\ (HasWork(u, l)' <=> HasWork(u, l))
  BY DEF Queued, HasWork
<1>2. \A l \in Job : LaneInv(u, l)'
  BY <1>1 DEF FifoInv, LaneInv
<1>3. ASSUME ~exposed'[u] PROVE OrderInv(u)'
  <2>1. OrderInv(u)
    BY <1>3 DEF FifoInv
  <2>2. \A l \in Job : l # slot'[u] => ~HasWork(u, l)
    BY <1>3, <2>1 DEF OrderInv
  <2> QED BY <1>1, <2>1, <2>2 DEF OrderInv
<1>4. slot'[u] <= accepted'[u]
  BY DEF FifoInv, TypeOK, None
<1> QED BY <1>2, <1>3, <1>4 DEF FifoInv

\* What the enqueue of one user does to another.
LEMMA CollectedElsewhere ==
  ASSUME TypeOK, NEW w \in User, Enqueue(w), NEW u \in User, u # w, FifoInv(u),
         slot'[u] = Collected[u],
         UNCHANGED <<queue[u], accepted[u]>>
  PROVE  FifoInv(u)'
<1>1. /\ UNCHANGED <<up[u], hand[u], busy[u], dead[u], started[u], exposed[u]>>
      /\ idle'[u] => idle[u]
      /\ slot'[u] = IF slot[u] # None /\ Kept(u) THEN slot[u] ELSE None
  BY DEF Enqueue, Collected, history
<1>2. Exposed(u)' => exposed'[u]
  <2>1. ASSUME Exposed(u)' PROVE Exposed(u)
    BY <1>1, <2>1 DEF Exposed, HasWork
  <2> QED BY <1>1, <2>1 DEF FifoInv
<1>3. ASSUME ~exposed[u], slot'[u] # slot[u]
      PROVE  slot'[u] = None /\ ~HasWork(u, slot[u])
  <2>1. slot[u] # None /\ ~Kept(u) /\ slot'[u] = None
    BY <1>1, <1>3
  <2>2. ~Exposed(u)
    BY <1>3 DEF FifoInv
  <2> QED BY <2>1, <2>2 DEF Exposed, Kept
<1>4. exposed'[u] \in BOOLEAN
  BY <1>1 DEF TypeOK
<1> QED BY <1>1, <1>2, <1>3, <1>4, SameChannels

LEMMA OthersUnchanged ==
  ASSUME TypeOK, NEW u \in User, FifoInv(u),
         UNCHANGED <<up[u], idle[u], slot[u], queue[u], hand[u], busy[u], dead[u],
                     accepted[u], started[u]>>,
         Watch \/ UNCHANGED exposed
  PROVE  FifoInv(u)'
<1>1. Exposed(u)' <=> Exposed(u)
  BY DEF Exposed, HasWork
<1>2. exposed'[u] <=> exposed[u]
  BY <1>1 DEF Watch, FifoInv
<1>3. exposed'[u] \in BOOLEAN
  BY WatchTyped DEF TypeOK
<1> QED BY <1>1, <1>2, <1>3, SameChannels DEF FifoInv

LEMMA AroundFifo ==
  ASSUME TypeOK, NEW u \in User, FifoInv(u),
         Connect(u) \/ Disconnect(u) \/ MinutePasses(u)
  PROVE  FifoInv(u)'
<1>1. UNCHANGED <<slot[u], queue[u], hand[u], busy[u], dead[u], accepted[u], started[u]>>
  BY DEF Connect, Disconnect, MinutePasses, channels, history
<1>2. (Exposed(u)' => exposed'[u]) /\ (exposed[u] => exposed'[u]) /\ exposed'[u] \in BOOLEAN
  <2>1. CASE Watch
    BY <2>1, WatchTyped DEF Watch
  <2>2. CASE Connect(u)
    BY <2>2 DEF Connect, Exposed, TypeOK
  <2> QED BY <2>1, <2>2 DEF Disconnect, MinutePasses
<1> QED BY <1>1, <1>2, SameChannels

LEMMA RefuseFifo ==
  ASSUME TypeOK, NEW u \in User, FifoInv(u), Refuse(u)
  PROVE  FifoInv(u)'
<1>1. /\ UNCHANGED <<queue[u], hand[u], busy[u], dead[u], accepted[u], started[u], exposed[u]>>
      /\ up'[u] /\ up[u]
  BY DEF Refuse, Enqueue, history
<1>2. slot'[u] = slot[u]
  BY <1>1 DEF Refuse, Collected, Kept
<1> QED BY <1>1, <1>2, SameChannels DEF Exposed, TypeOK

\* A new job comes after all that has begun.
LEMMA NewJobLast ==
  ASSUME TypeOK, NEW u \in User, FifoInv(u)
  PROVE  /\ accepted[u] \in Nat
         /\ \A i \in started[u] : i \in Nat /\ i < accepted[u] + 1
         /\ \A l \in Job, x \in Job : x \in Queued(u, l) => x < accepted[u] + 1
  BY FifoAssumption DEF TypeOK, FifoInv, LaneInv, Job

LEMMA SendFifo ==
  ASSUME TypeOK, NEW u \in User, FifoInv(u), Send(u)
  PROVE  FifoInv(u)'
<1>0. PICK l, j : l = slot[u] /\ j = accepted[u] + 1
  OBVIOUS
<1>1. Collected[u] = l /\ l \in Job /\ l \notin dead[u]
  BY <1>0, CollectedTyped DEF Send, Enqueue, Collected, Kept, Serving
<1>2. j \in Job /\ accepted[u] \in Nat
  BY <1>0, NextJob, NewJobLast DEF Send, Enqueue
<1>3. /\ UNCHANGED <<hand[u], busy[u], dead[u], started[u], exposed[u]>>
      /\ slot'[u] = l /\ up'[u]
      /\ accepted'[u] = j
      /\ queue'[u][l] = Append(queue[u][l], j)
      /\ \A k \in Job : k # l => queue'[u][k] = queue[u][k]
  BY <1>0, <1>1 DEF Send, Enqueue, history, TypeOK
<1>4. /\ Queued(u, l)' = Queued(u, l) \cup {j}
      /\ Ascending(queue'[u][l])
      /\ queue'[u][l] # <<>>
  <2>1. /\ queue[u][l] \in Seq(Job) /\ Ascending(queue[u][l])
        /\ Elements(queue[u][l]) = Queued(u, l)
        /\ Elements(queue[u][l]) \subseteq Job
    BY <1>1 DEF TypeOK, FifoInv, LaneInv, Elements, Queued
  <2>2. \A x \in Elements(queue[u][l]) : x < j
    BY <1>0, <1>1, <2>1, NewJobLast
  <2>3. /\ Append(queue[u][l], j) # <<>>
        /\ Elements(Append(queue[u][l], j)) = Queued(u, l) \cup {j}
        /\ Ascending(Append(queue[u][l], j))
    BY <1>2, <2>1, <2>2, AppendFacts
  <2>4. Queued(u, l)' = Elements(queue'[u][l])
    BY DEF Queued, Elements
  <2> QED BY <1>3, <2>3, <2>4
<1>5. \A k \in Job : k # l => Queued(u, k)' = Queued(u, k) /\ (HasWork(u, k)' <=> HasWork(u, k))
  BY <1>3 DEF Queued, HasWork
<1>6. ASSUME NEW k \in Job PROVE LaneInv(u, k)'
  <2>0. LaneInv(u, k) /\ hand[u][k] \in Job \cup {None} /\ Queued(u, k) \subseteq Job
    BY DEF FifoInv, TypeOK, Queued
  <2>1. CASE k = l
    <3>1. ~(l > accepted'[u])
      BY <1>0, <1>1, <1>2, <1>3 DEF FifoInv, Job
    <3>2. \A x \in Queued(u, l)' : x <= j
      BY <1>0, <1>2, <1>4, <2>0, <2>1 DEF LaneInv, Job
    <3>3. hand'[u][l] # None =>
             hand'[u][l] <= j /\ \A x \in Queued(u, l)' : hand'[u][l] < x
      BY <1>0, <1>2, <1>3, <1>4, <2>0, <2>1 DEF LaneInv, Job, None
    <3>4. busy'[u][l] => hand'[u][l] # None /\ hand'[u][l] \in started'[u]
      BY <1>1, <1>3, <2>0, <2>1 DEF LaneInv
    <3>5. l \notin dead'[u]
      BY <1>1, <1>3
    <3> QED BY <1>3, <1>4, <2>1, <3>1, <3>2, <3>3, <3>4, <3>5 DEF LaneInv
  <2>2. CASE k # l
    BY <1>0, <1>2, <1>3, <1>5, <2>0, <2>2 DEF LaneInv, Job, None
  <2> QED BY <2>1, <2>2
<1>7. \A i \in started[u] : i < j
  BY <1>0, NewJobLast
<1>8. ASSUME ~exposed'[u] PROVE OrderInv(u)'
  <2>1. OrderInv(u)
    BY <1>3, <1>8 DEF FifoInv
  <2>2. \A k \in Job : k # slot'[u] => ~HasWork(u, k)'
    BY <1>0, <1>3, <1>5, <2>1 DEF OrderInv
  <2>3. \A k \in Job : \A x \in Queued(u, k)', i \in started'[u] : i < x
    BY <1>3, <1>4, <1>5, <1>7, <2>1 DEF OrderInv
  <2> QED BY <1>3, <2>1, <2>2, <2>3 DEF OrderInv
<1>9. ~Exposed(u)'
  BY <1>3 DEF Exposed
<1>10. (\A i \in started'[u] : i <= accepted'[u]) /\ slot'[u] <= accepted'[u]
  BY <1>0, <1>1, <1>2, <1>3, <1>7, NewJobLast DEF FifoInv, Job
<1> QED BY <1>6, <1>8, <1>9, <1>10 DEF FifoInv

LEMMA SpawnFifo ==
  ASSUME TypeOK, NEW u \in User, FifoInv(u), Spawn(u)
  PROVE  FifoInv(u)'
<1>0. PICK j : j = accepted[u] + 1
  OBVIOUS
<1>1. Collected[u] = slot[u] /\ (slot[u] = None \/ slot[u] \in dead[u])
  BY DEF Spawn, Enqueue, Collected, Kept, Serving
<1>2. j \in Job /\ accepted[u] \in Nat
  BY <1>0, NextJob, NewJobLast DEF Spawn, Enqueue
<1>3. /\ UNCHANGED <<hand[u], busy[u], dead[u], started[u], exposed[u]>>
      /\ slot'[u] = j /\ up'[u]
      /\ accepted'[u] = j
      /\ queue'[u][j] = <<j>>
      /\ \A k \in Job : k # j => queue'[u][k] = queue[u][k]
  BY <1>0, <1>2, CollectedTyped DEF Spawn, Enqueue, history, TypeOK
<1>4. Queued(u, j)' = {j} /\ Ascending(queue'[u][j])
  BY <1>3 DEF Queued, Ascending
<1>5. \A k \in Job : k # j => Queued(u, k)' = Queued(u, k) /\ (HasWork(u, k)' <=> HasWork(u, k))
  BY <1>3 DEF Queued, HasWork
<1>6. hand[u][j] = None /\ ~busy[u][j] /\ j \notin dead[u]
  BY <1>0, <1>2 DEF FifoInv, LaneInv, HasWork, Job
<1>7. ASSUME NEW k \in Job PROVE LaneInv(u, k)'
  <2>0. LaneInv(u, k) /\ hand[u][k] \in Job \cup {None} /\ Queued(u, k) \subseteq Job
    BY DEF FifoInv, TypeOK, Queued
  <2>1. CASE k = j
    BY <1>2, <1>3, <1>4, <1>6, <2>1 DEF LaneInv, Job
  <2>2. CASE k # j
    BY <1>0, <1>2, <1>3, <1>5, <2>0, <2>2 DEF LaneInv, Job, None
  <2> QED BY <2>1, <2>2
<1>8. \A i \in started[u] : i < j
  BY <1>0, NewJobLast
<1>9. ASSUME ~exposed'[u] PROVE OrderInv(u)'
  <2>1. OrderInv(u)
    BY <1>3, <1>9 DEF FifoInv
  <2>2. ASSUME NEW k \in Job, k # j PROVE ~HasWork(u, k)
    <3>1. CASE k = slot[u]
      BY <1>1, <3>1 DEF FifoInv, LaneInv, Job, None
    <3> QED BY <2>1, <3>1 DEF OrderInv
  <2>3. \A k \in Job : k # slot'[u] => ~HasWork(u, k)'
    BY <1>3, <1>5, <2>2
  <2>4. \A k \in Job : \A x \in Queued(u, k)', i \in started'[u] : i < x
    BY <1>3, <1>4, <1>5, <1>8, <2>1 DEF OrderInv
  <2> QED BY <1>3, <2>1, <2>3, <2>4 DEF OrderInv
<1>10. ~Exposed(u)'
  BY <1>3 DEF Exposed
<1>11. (\A i \in started'[u] : i <= accepted'[u]) /\ slot'[u] <= accepted'[u]
  BY <1>0, <1>2, <1>3, <1>8, NewJobLast DEF Job
<1> QED BY <1>7, <1>9, <1>10, <1>11 DEF FifoInv

-----------------------------------------------------------------------------
LEMMA ReceiveFifo ==
  ASSUME TypeOK, NEW u \in User, NEW l \in Job, FifoInv(u), Receive(u, l)
  PROVE  FifoInv(u)'
<1> DEFINE h == Head(queue[u][l])
<1>1. /\ UNCHANGED <<up[u], idle[u], slot[u], busy[u], dead[u], accepted[u], started[u],
                     exposed[u]>>
      /\ hand'[u][l] = h /\ queue'[u][l] = Tail(queue[u][l])
      /\ \A k \in Job : k # l => queue'[u][k] = queue[u][k] /\ hand'[u][k] = hand[u][k]
      /\ hand[u][l] = None /\ queue[u][l] # <<>> /\ l \notin dead[u]
  BY DEF Receive, history, TypeOK
<1>2. /\ h \in Job /\ h # None
      /\ Queued(u, l) = Queued(u, l)' \cup {h}
      /\ Ascending(queue'[u][l])
      /\ \A x \in Queued(u, l)' : h < x
  <2>1. queue[u][l] \in Seq(Job) /\ Ascending(queue[u][l])
    BY DEF TypeOK, FifoInv, LaneInv
  <2>2. /\ Queued(u, l) = Elements(queue[u][l])
        /\ Queued(u, l)' = Elements(queue'[u][l])
    BY DEF Queued, Elements
  <2>3. h \in Job
    BY <1>1, <2>1, TailFacts
  <2>4. h # None
    BY <2>3 DEF Job, None
  <2> QED BY <1>1, <2>1, <2>2, <2>3, <2>4, TailFacts
<1> HIDE DEF h
<1>3. /\ \A k \in Job : k # l => Queued(u, k)' = Queued(u, k)
      /\ \A k \in Job : HasWork(u, k)' => HasWork(u, k)
      /\ HasWork(u, l)
  BY <1>1 DEF Queued, HasWork
<1>4. ASSUME NEW k \in Job PROVE LaneInv(u, k)'
  <2>0. LaneInv(u, k)
    BY DEF FifoInv
  <2>1. CASE k = l
    <3>1. ~busy[u][l] /\ ~(l > accepted[u])
      BY <1>1, <1>3, <2>0, <2>1 DEF LaneInv
    <3> QED BY <1>1, <1>2, <2>0, <2>1, <3>1 DEF LaneInv
  <2>2. CASE k # l
    BY <1>1, <1>3, <2>0, <2>2 DEF LaneInv
  <2> QED BY <2>1, <2>2
<1>5. ASSUME ~exposed'[u] PROVE OrderInv(u)'
  <2>1. OrderInv(u)
    BY <1>1, <1>5 DEF FifoInv
  <2>2. \A k \in Job : k # slot'[u] => ~HasWork(u, k)'
    BY <1>1, <1>3, <2>1 DEF OrderInv
  <2>3. \A k \in Job : \A x \in Queued(u, k)', i \in started'[u] : i < x
    BY <1>1, <1>2, <1>3, <2>1 DEF OrderInv
  <2>4. ASSUME NEW k \in Job, NEW i \in started'[u], hand'[u][k] # None, ~busy'[u][k]
        PROVE  i < hand'[u][k]
    BY <1>1, <1>2, <2>1, <2>4 DEF OrderInv
  <2> QED BY <2>2, <2>3, <2>4 DEF OrderInv
<1>6. Exposed(u)' => exposed'[u]
  BY <1>1, <1>3 DEF Exposed, FifoInv, TypeOK, None
<1> QED BY <1>1, <1>4, <1>5, <1>6 DEF FifoInv

LEMMA BeginFifo ==
  ASSUME TypeOK, NEW u \in User, NEW l \in Job, FifoInv(u), Begin(u, l)
  PROVE  FifoInv(u)'
<1>1. /\ UNCHANGED <<up[u], idle[u], slot[u], queue[u], hand[u], dead[u], accepted[u],
                     exposed[u]>>
      /\ busy'[u][l] /\ \A k \in Job : k # l => busy'[u][k] = busy[u][k]
      /\ started'[u] = started[u] \cup {hand[u][l]}
      /\ hand[u][l] # None /\ ~busy[u][l]
  BY DEF Begin, TypeOK
<1>2. /\ \A k \in Job : Queued(u, k)' = Queued(u, k) /\ (HasWork(u, k)' <=> HasWork(u, k))
      /\ HasWork(u, l)
  BY <1>1 DEF Queued, HasWork
<1>3. ASSUME NEW k \in Job PROVE LaneInv(u, k)'
  <2>0. LaneInv(u, k)
    BY DEF FifoInv
  <2>1. CASE k = l
    <3>1. ~(l > accepted[u]) /\ l \notin dead[u]
      BY <1>2, <2>0, <2>1 DEF LaneInv
    <3> QED BY <1>1, <1>2, <2>0, <2>1, <3>1 DEF LaneInv
  <2>2. CASE k # l
    BY <1>1, <1>2, <2>0, <2>2 DEF LaneInv
  <2> QED BY <2>1, <2>2
<1>4. ASSUME ~exposed'[u] PROVE OrderInv(u)'
  <2>1. OrderInv(u)
    BY <1>1, <1>4 DEF FifoInv
  <2>2. l = slot[u] /\ \A k \in Job : k # l => ~HasWork(u, k)
    BY <1>2, <2>1 DEF OrderInv
  <2>3. \A k \in Job : k # l => Queued(u, k) = {} /\ hand[u][k] = None
    BY <2>2 DEF HasWork, Queued
  <2>4. \A x \in Queued(u, l), i \in started'[u] : i < x
    BY <1>1, <2>1 DEF OrderInv, FifoInv, LaneInv
  <2>5. \A k \in Job : \A x \in Queued(u, k)', i \in started'[u] : i < x
    BY <1>2, <2>3, <2>4
  <2>6. \A k \in Job : k # slot'[u] => ~HasWork(u, k)'
    BY <1>1, <1>2, <2>2
  <2>7. \A k \in Job : hand'[u][k] = None \/ busy'[u][k]
    BY <1>1, <2>3
  <2> QED BY <2>5, <2>6, <2>7 DEF OrderInv
<1>5. Exposed(u)' => exposed'[u]
  <2>1. ASSUME Exposed(u)' PROVE Exposed(u)
    <3>1. slot[u] \in Job
      BY <1>1, <2>1 DEF Exposed, TypeOK
    <3> QED BY <1>1, <1>2, <2>1, <3>1 DEF Exposed
  <2> QED BY <1>1, <2>1 DEF FifoInv
<1>6. \A i \in started'[u] : i <= accepted'[u]
  BY <1>1 DEF FifoInv, LaneInv
<1> QED BY <1>1, <1>3, <1>4, <1>5, <1>6 DEF FifoInv

\* A job that is over: what Finish and Panic have in common.
LEMMA OverFifo ==
  ASSUME TypeOK, NEW u \in User, NEW l \in Job, FifoInv(u),
         hand[u][l] # None, busy[u][l],
         hand'[u][l] = None,
         UNCHANGED <<slot[u], accepted[u], started[u]>>,
         \A k \in Job : k # l => UNCHANGED <<queue[u][k], hand[u][k], busy[u][k]>>,
         dead'[u] \ {l} = dead[u] \ {l},
         \/ queue'[u][l] = queue[u][l] /\ ~busy'[u][l] /\ l \notin dead'[u]
         \/ queue'[u][l] = <<>> /\ busy'[u][l] /\ l \in dead'[u],
         Exposed(u)' => exposed'[u],
         exposed[u] => exposed'[u]
  PROVE  FifoInv(u)'
<1>1. /\ \A k \in Job : k # l => Queued(u, k)' = Queued(u, k) /\ (HasWork(u, k)' <=> HasWork(u, k))
      /\ Queued(u, l)' \subseteq Queued(u, l)
      /\ HasWork(u, l)
  BY DEF Queued, HasWork
<1>2. ASSUME NEW k \in Job PROVE LaneInv(u, k)'
  <2>0. LaneInv(u, k)
    BY DEF FifoInv
  <2>1. CASE k = l
    <3>1. ~(l > accepted[u])
      BY <1>1, <2>0, <2>1 DEF LaneInv
    <3>2. Ascending(queue'[u][l])
      BY <2>0, <2>1 DEF LaneInv, Ascending
    <3> QED BY <1>1, <2>0, <2>1, <3>1, <3>2 DEF LaneInv, HasWork
  <2>2. CASE k # l
    <3>1. k \in dead'[u] <=> k \in dead[u]
      BY <2>2
    <3> QED BY <1>1, <2>0, <2>2, <3>1 DEF LaneInv
  <2> QED BY <2>1, <2>2
<1>3. ASSUME ~exposed'[u] PROVE OrderInv(u)'
  <2>1. OrderInv(u)
    BY <1>3 DEF FifoInv
  <2>2. l = slot[u]
    BY <1>1, <2>1 DEF OrderInv
  <2>3. \A k \in Job : k # slot'[u] => ~HasWork(u, k)'
    BY <1>1, <2>1, <2>2 DEF OrderInv
  <2>4. \A k \in Job : \A x \in Queued(u, k)', i \in started'[u] : i < x
    BY <1>1, <2>1 DEF OrderInv
  <2>5. \A k \in Job : k # l => hand[u][k] = None
    BY <2>1, <2>2 DEF OrderInv, HasWork
  <2> QED BY <2>3, <2>4, <2>5 DEF OrderInv
<1> QED BY <1>2, <1>3 DEF FifoInv

LEMMA WorkerFifo ==
  ASSUME TypeOK, NEW u \in User, NEW l \in Job, FifoInv(u), Worker(u, l)
  PROVE  FifoInv(u)'
<1>0. l \in dead[u] => hand[u][l] = None
  BY DEF FifoInv, LaneInv, HasWork
<1>1. CASE Finish(u, l)
  <2>1. (Exposed(u)' => exposed'[u]) /\ (exposed[u] => exposed'[u])
    BY <1>1 DEF Finish, Watch
  <2>2. l \notin dead'[u]
    BY <1>0, <1>1 DEF Finish
  <2> QED BY <1>1, <2>1, <2>2, OverFifo DEF Finish, history, TypeOK
<1>2. CASE Panic(u, l)
  <2>1. ASSUME Exposed(u)' PROVE Exposed(u)
    <3>1. slot[u] \in Job /\ slot[u] # l
      BY <1>2, <2>1 DEF Exposed, Panic, TypeOK
    <3> QED BY <1>2, <2>1, <3>1 DEF Exposed, HasWork, Panic, TypeOK
  <2>2. (Exposed(u)' => exposed'[u]) /\ (exposed[u] => exposed'[u])
    BY <1>2, <2>1 DEF Panic, FifoInv
  <2>3. dead'[u] = dead[u] \cup {l}
    BY <1>2 DEF Panic, TypeOK
  <2> QED BY <1>2, <2>2, <2>3, OverFifo DEF Panic, TypeOK
<1> QED BY <1>1, <1>2, ReceiveFifo, BeginFifo DEF Worker

-----------------------------------------------------------------------------
LEMMA NextFifo ==
  TypeOK /\ (\A u \in User : FifoInv(u)) /\ [Next]_vars => \A u \in User : FifoInv(u)'
<1> SUFFICES ASSUME TypeOK, \A u \in User : FifoInv(u), [Next]_vars, NEW u \in User
             PROVE  FifoInv(u)'
  OBVIOUS
<1> USE DEF channels, history
<1>1. ASSUME NEW w \in User, Connect(w) \/ Disconnect(w) \/ MinutePasses(w)
      PROVE  FifoInv(u)'
  <2>1. CASE w = u
    BY <1>1, <2>1, AroundFifo
  <2>2. CASE w # u
    <3>1. UNCHANGED <<up[u], idle[u], slot[u], queue[u], hand[u], busy[u], dead[u],
                      accepted[u], started[u]>>
      BY <1>1, <2>2 DEF Connect, Disconnect, MinutePasses, TypeOK
    <3>2. Watch \/ UNCHANGED exposed
      BY <1>1 DEF Connect, Disconnect, MinutePasses
    <3> QED BY <3>1, <3>2, OthersUnchanged
  <2> QED BY <2>1, <2>2
<1>2. ASSUME NEW w \in User, Refuse(w) \/ Send(w) \/ Spawn(w) PROVE FifoInv(u)'
  <2>1. CASE w = u
    BY <1>2, <2>1, RefuseFifo, SendFifo, SpawnFifo
  <2>2. CASE w # u
    <3>1. Enqueue(w)
      BY <1>2 DEF Refuse, Send, Spawn
    <3>2. slot'[u] = Collected[u] /\ UNCHANGED <<queue[u], accepted[u]>>
      BY <1>2, <2>2, CollectedTyped DEF Refuse, Send, Spawn, TypeOK
    <3> QED BY <2>2, <3>1, <3>2, CollectedElsewhere
  <2> QED BY <2>1, <2>2
<1>3. ASSUME NEW w \in User, NEW l \in Job, Worker(w, l) PROVE FifoInv(u)'
  <2>1. CASE w = u
    BY <1>3, <2>1, WorkerFifo
  <2>2. CASE w # u
    <3>1. UNCHANGED <<up[u], idle[u], slot[u], queue[u], hand[u], busy[u], dead[u],
                      accepted[u], started[u]>>
      BY <1>3, <2>2 DEF Worker, Receive, Begin, Finish, Panic, TypeOK
    <3>2. Watch \/ UNCHANGED exposed
      BY <1>3 DEF Worker, Receive, Begin, Finish, Panic
    <3> QED BY <3>1, <3>2, OthersUnchanged
  <2> QED BY <2>1, <2>2
<1>4. CASE UNCHANGED vars
  BY <1>4, OthersUnchanged DEF vars
<1> QED BY <1>1, <1>2, <1>3, <1>4 DEF Next

LEMMA FifoInvariant == Spec => [](TypeOK /\ \A u \in User : FifoInv(u))
<1>1. Init => TypeOK
  BY FifoAssumption DEF Init, TypeOK, Job
<1>2. TypeOK /\ (\A u \in User : FifoInv(u)) /\ [Next]_vars
         => (TypeOK /\ \A u \in User : FifoInv(u))'
  BY NextTyped, NextFifo
<1> QED BY <1>1, <1>2, InitFifo, PTL DEF Spec

\* The queues keep their types; in particular no channel holds more than its
\* capacity.
THEOREM FifoTypeCorrect == Spec => []TypeOK
  BY FifoInvariant, PTL

LEMMA OrderHolds == TypeOK /\ (\A u \in User : FifoInv(u)) => InOrder
<1> SUFFICES ASSUME TypeOK, NEW u \in User, FifoInv(u), ~exposed[u]
             PROVE  /\ \A k, l \in Running(u) : k = l
                    /\ \A i \in Pending(u), j \in started[u] : j < i
  BY DEF InOrder
<1>0. OrderInv(u)
  BY DEF FifoInv
<1>1. \A k, l \in Running(u) : k = l
  BY <1>0 DEF OrderInv, Running, HasWork
<1>2. ASSUME NEW i \in Pending(u), NEW j \in started[u] PROVE j < i
  <2>1. CASE \E l \in Job : i \in Queued(u, l)
    BY <1>0, <2>1 DEF OrderInv
  <2>2. CASE \E l \in Job : hand[u][l] # None /\ ~busy[u][l] /\ i = hand[u][l]
    BY <1>0, <2>2 DEF OrderInv
  <2> QED BY <2>1, <2>2 DEF Pending
<1> QED BY <1>1, <1>2

\* A user's jobs run one at a time and in the order they were accepted, for any
\* number of users, jobs, reconnections and panics, unless the user was away
\* for a minute with its worker between two jobs.
THEOREM JobsInOrder == Spec => []InOrder
  BY OrderHolds, FifoInvariant, PTL

-----------------------------------------------------------------------------
(****************************************************************************)
(* No job is lost or done twice.                                            *)
(****************************************************************************)
\* The jobs of a channel that have not begun.
Stake(u, l) ==
    Queued(u, l) \cup {x \in {hand[u][l]} : hand[u][l] # None /\ ~busy[u][l]}

\* Beside Accounted: a job that has not begun is in one channel only.
AccInv(u) ==
    /\ \A k, l \in Job : k # l => Stake(u, k) \cap Stake(u, l) = {}
    /\ 1..accepted[u] = (UNION {Stake(u, l) : l \in Job}) \cup started[u] \cup lost[u]
    /\ \A l \in Job : Stake(u, l) \cap (started[u] \cup lost[u]) = {}
    /\ lost[u] \cap started[u] = {}
    /\ lost[u] # {} => dead[u] # {}

LEMMA PendingStakes ==
  ASSUME NEW u \in User
  PROVE  Pending(u) = UNION {Stake(u, l) : l \in Job}
  BY DEF Pending, Stake

\* A step that gives every channel the jobs it had.
LEMMA SameStakes ==
  ASSUME NEW u \in User, AccInv(u),
         UNCHANGED <<accepted[u], started[u], lost[u], dead[u]>>,
         \A l \in Job : Stake(u, l)' = Stake(u, l)
  PROVE  AccInv(u)'
<1>1. (UNION {Stake(u, l) : l \in Job})' = UNION {Stake(u, l) : l \in Job}
  OBVIOUS
<1> QED BY <1>1 DEF AccInv

\* A step that moves the jobs in gone from channel l to those that have begun,
\* or to those that are lost.
LEMMA StakeGone ==
  ASSUME NEW u \in User, AccInv(u), NEW l \in Job, NEW gone,
         gone \subseteq Stake(u, l), accepted'[u] = accepted[u],
         Stake(u, l)' = Stake(u, l) \ gone,
         \A k \in Job : k # l => Stake(u, k)' = Stake(u, k),
         \/ started'[u] = started[u] \cup gone /\ UNCHANGED <<lost[u], dead[u]>>
         \/ lost'[u] = lost[u] \cup gone /\ started'[u] = started[u] /\ l \in dead'[u]
  PROVE  AccInv(u)'
<1>1. started'[u] \cup lost'[u] = started[u] \cup lost[u] \cup gone
  OBVIOUS
<1>2. (UNION {Stake(u, k) : k \in Job})' \cup gone = UNION {Stake(u, k) : k \in Job}
  <2>1. ASSUME NEW x, x \in (UNION {Stake(u, k) : k \in Job})'
        PROVE  x \in UNION {Stake(u, k) : k \in Job}
    <3>1. PICK k \in Job : x \in Stake(u, k)'
      BY <2>1
    <3>2. x \in Stake(u, k)
      BY <3>1
    <3> QED BY <3>2
  <2>2. ASSUME NEW x, x \in UNION {Stake(u, k) : k \in Job}, x \notin gone
        PROVE  x \in (UNION {Stake(u, k) : k \in Job})'
    <3>1. PICK k \in Job : x \in Stake(u, k)
      BY <2>2
    <3>2. x \in Stake(u, k)'
      BY <2>2, <3>1
    <3> QED BY <3>2
  <2> QED BY <2>1, <2>2
<1>3. \A k \in Job : Stake(u, k)' \cap gone = {} /\ Stake(u, k)' \subseteq Stake(u, k)
  BY DEF AccInv
<1>4. \A k \in Job : Stake(u, k)' \cap (started'[u] \cup lost'[u]) = {}
  BY <1>1, <1>3 DEF AccInv
<1>5. \A j, k \in Job : j # k => Stake(u, j)' \cap Stake(u, k)' = {}
  BY <1>3 DEF AccInv
<1>6. lost'[u] \cap started'[u] = {} /\ (lost'[u] # {} => dead'[u] # {})
  BY DEF AccInv
<1>7. (1..accepted[u])' =
         (UNION {Stake(u, k) : k \in Job})' \cup started'[u] \cup lost'[u]
  BY <1>1, <1>2 DEF AccInv
<1> QED BY <1>4, <1>5, <1>6, <1>7 DEF AccInv

\* A step that puts the next job on channel l.
LEMMA StakeMore ==
  ASSUME NEW u \in User, AccInv(u), NEW l \in Job,
         accepted[u] \in Nat, accepted'[u] = accepted[u] + 1,
         UNCHANGED <<started[u], lost[u], dead[u]>>,
         Stake(u, l)' = Stake(u, l) \cup {accepted[u] + 1},
         \A k \in Job : k # l => Stake(u, k)' = Stake(u, k)
  PROVE  AccInv(u)'
<1> DEFINE j == accepted[u] + 1
<1>1. 1..j = 1..accepted[u] \cup {j} /\ j \notin 1..accepted[u]
  OBVIOUS
<1> HIDE DEF j
<1>2. /\ \A k \in Job : j \notin Stake(u, k)
      /\ j \notin started[u] /\ j \notin lost[u]
  BY <1>1 DEF AccInv
<1>3. Stake(u, l)' = Stake(u, l) \cup {j} /\ accepted'[u] = j
  BY DEF j
<1>4. (UNION {Stake(u, k) : k \in Job})' = (UNION {Stake(u, k) : k \in Job}) \cup {j}
  <2>1. ASSUME NEW x, x \in (UNION {Stake(u, k) : k \in Job})'
        PROVE  x \in (UNION {Stake(u, k) : k \in Job}) \cup {j}
    <3>1. PICK k \in Job : x \in Stake(u, k)'
      BY <2>1
    <3>2. x \in Stake(u, k) \cup {j}
      BY <1>3, <3>1
    <3> QED BY <3>2
  <2>2. ASSUME NEW x, x \in UNION {Stake(u, k) : k \in Job}
        PROVE  x \in (UNION {Stake(u, k) : k \in Job})'
    <3>1. PICK k \in Job : x \in Stake(u, k)
      BY <2>2
    <3>2. x \in Stake(u, k)'
      BY <1>3, <3>1
    <3> QED BY <3>2
  <2> QED BY <1>3, <2>1, <2>2
<1>5. \A k \in Job : Stake(u, k)' \cap (started'[u] \cup lost'[u]) = {}
  BY <1>2, <1>3 DEF AccInv
<1>6. \A i, k \in Job : i # k => Stake(u, i)' \cap Stake(u, k)' = {}
  BY <1>2, <1>3 DEF AccInv
<1>7. (1..accepted[u])' =
         (UNION {Stake(u, k) : k \in Job})' \cup started'[u] \cup lost'[u]
  BY <1>1, <1>3, <1>4 DEF AccInv
<1> QED BY <1>5, <1>6, <1>7 DEF AccInv

LEMMA SendAcc ==
  ASSUME TypeOK, NEW u \in User, FifoInv(u), AccInv(u), Send(u)
  PROVE  AccInv(u)'
<1>0. PICK l, j : l = Collected[u] /\ j = accepted[u] + 1
  OBVIOUS
<1>1. l \in Job /\ j \in Job /\ accepted[u] \in Nat
  BY <1>0, CollectedTyped, NextJob, NewJobLast DEF Send, Enqueue, Serving
<1>2. /\ UNCHANGED <<hand[u], busy[u], dead[u], started[u], lost[u]>>
      /\ accepted'[u] = j
      /\ queue'[u][l] = Append(queue[u][l], j)
      /\ \A k \in Job : k # l => queue'[u][k] = queue[u][k]
  BY <1>0, <1>1 DEF Send, Enqueue, history, TypeOK
<1>3. Elements(Append(queue[u][l], j)) = Elements(queue[u][l]) \cup {j}
  BY <1>1, AppendFacts DEF TypeOK
<1>4. Queued(u, l)' = Queued(u, l) \cup {j}
  <2>1. Queued(u, l)' = Elements(queue'[u][l]) /\ Queued(u, l) = Elements(queue[u][l])
    BY DEF Queued, Elements
  <2> QED BY <1>2, <1>3, <2>1
<1>5. Stake(u, l)' = Stake(u, l) \cup {j}
  BY <1>2, <1>4 DEF Stake
<1>6. \A k \in Job : k # l => Stake(u, k)' = Stake(u, k)
  BY <1>2 DEF Stake, Queued
<1> QED BY <1>0, <1>1, <1>2, <1>5, <1>6, StakeMore

LEMMA SpawnAcc ==
  ASSUME TypeOK, NEW u \in User, FifoInv(u), AccInv(u), Spawn(u)
  PROVE  AccInv(u)'
<1>0. PICK j : j = accepted[u] + 1
  OBVIOUS
<1>1. j \in Job /\ accepted[u] \in Nat /\ j > accepted[u]
  BY <1>0, NextJob, NewJobLast DEF Spawn, Enqueue
<1>2. /\ UNCHANGED <<hand[u], busy[u], dead[u], started[u], lost[u]>>
      /\ accepted'[u] = j
      /\ queue'[u][j] = <<j>>
      /\ \A k \in Job : k # j => queue'[u][k] = queue[u][k]
  BY <1>0, <1>1 DEF Spawn, Enqueue, history, TypeOK
<1>3. Queued(u, j) = {} /\ hand[u][j] = None
  BY <1>1 DEF FifoInv, LaneInv, HasWork, Queued
<1>4. Queued(u, j)' = {j}
  BY <1>2 DEF Queued
<1>5. Stake(u, j)' = Stake(u, j) \cup {j}
  BY <1>2, <1>3, <1>4 DEF Stake
<1>6. \A k \in Job : k # j => Stake(u, k)' = Stake(u, k)
  BY <1>2 DEF Stake, Queued
<1> QED BY <1>0, <1>1, <1>2, <1>5, <1>6, StakeMore

LEMMA ReceiveAcc ==
  ASSUME TypeOK, NEW u \in User, NEW l \in Job, FifoInv(u), AccInv(u), Receive(u, l)
  PROVE  AccInv(u)'
<1> DEFINE h == Head(queue[u][l])
<1>1. /\ UNCHANGED <<busy[u], dead[u], accepted[u], started[u], lost[u]>>
      /\ hand'[u][l] = h /\ queue'[u][l] = Tail(queue[u][l])
      /\ \A k \in Job : k # l => queue'[u][k] = queue[u][k] /\ hand'[u][k] = hand[u][k]
      /\ hand[u][l] = None /\ queue[u][l] # <<>> /\ l \notin dead[u]
  BY DEF Receive, history, TypeOK
<1>2. h \in Job /\ Elements(queue[u][l]) = Elements(Tail(queue[u][l])) \cup {h}
  BY <1>1, TailFacts DEF TypeOK
<1>3. Queued(u, l) = Queued(u, l)' \cup {h}
  <2>1. Queued(u, l)' = Elements(queue'[u][l]) /\ Queued(u, l) = Elements(queue[u][l])
    BY DEF Queued, Elements
  <2> QED BY <1>1, <1>2, <2>1
<1> HIDE DEF h
<1>4. h # None /\ ~busy[u][l]
  BY <1>1, <1>2 DEF FifoInv, LaneInv, Job, None
<1>5. Stake(u, l)' = Stake(u, l)
  BY <1>1, <1>3, <1>4 DEF Stake
<1>6. \A k \in Job : k # l => Stake(u, k)' = Stake(u, k)
  BY <1>1 DEF Stake, Queued
<1> QED BY <1>1, <1>5, <1>6, SameStakes

LEMMA BeginAcc ==
  ASSUME TypeOK, NEW u \in User, NEW l \in Job, FifoInv(u), AccInv(u), Begin(u, l)
  PROVE  AccInv(u)'
<1>1. /\ UNCHANGED <<queue[u], hand[u], dead[u], accepted[u], lost[u]>>
      /\ busy'[u][l] /\ \A k \in Job : k # l => busy'[u][k] = busy[u][k]
      /\ started'[u] = started[u] \cup {hand[u][l]}
      /\ hand[u][l] # None /\ ~busy[u][l]
  BY DEF Begin, TypeOK
<1>2. hand[u][l] \notin Queued(u, l)
  <2>1. hand[u][l] \in Job
    BY <1>1 DEF TypeOK
  <2>2. \A x \in Queued(u, l) : hand[u][l] < x
    BY <1>1 DEF FifoInv, LaneInv
  <2> QED BY <2>1, <2>2 DEF Job
<1>3. {hand[u][l]} \subseteq Stake(u, l) /\ Stake(u, l)' = Stake(u, l) \ {hand[u][l]}
  BY <1>1, <1>2 DEF Stake, Queued
<1>4. \A k \in Job : k # l => Stake(u, k)' = Stake(u, k)
  BY <1>1 DEF Stake, Queued
<1> QED BY <1>1, <1>3, <1>4, StakeGone

LEMMA WorkerAcc ==
  ASSUME TypeOK, NEW u \in User, NEW l \in Job, FifoInv(u), AccInv(u), Worker(u, l)
  PROVE  AccInv(u)'
<1>1. CASE Finish(u, l)
  <2>1. /\ UNCHANGED <<queue[u], dead[u], accepted[u], started[u], lost[u]>>
        /\ busy[u][l] /\ hand'[u][l] = None
        /\ \A k \in Job : k # l => hand'[u][k] = hand[u][k] /\ busy'[u][k] = busy[u][k]
    BY <1>1 DEF Finish, history, TypeOK
  <2>2. \A k \in Job : Stake(u, k)' = Stake(u, k)
    BY <2>1 DEF Stake, Queued
  <2> QED BY <2>1, <2>2, SameStakes
<1>2. CASE Panic(u, l)
  <2>1. /\ UNCHANGED <<busy[u], accepted[u], started[u]>>
        /\ busy[u][l] /\ hand'[u][l] = None /\ queue'[u][l] = <<>>
        /\ l \in dead'[u] /\ lost'[u] = lost[u] \cup Queued(u, l)
        /\ \A k \in Job : k # l => hand'[u][k] = hand[u][k] /\ queue'[u][k] = queue[u][k]
    BY <1>2 DEF Panic, TypeOK
  <2>2. Stake(u, l) = Queued(u, l) /\ Stake(u, l)' = {}
    BY <2>1 DEF Stake, Queued
  <2>3. \A k \in Job : k # l => Stake(u, k)' = Stake(u, k)
    BY <2>1 DEF Stake, Queued
  <2> QED BY <2>1, <2>2, <2>3, StakeGone
<1> QED BY <1>1, <1>2, ReceiveAcc, BeginAcc DEF Worker

\* A step of another user, or one that concerns no job.
LEMMA NoJobAcc ==
  ASSUME NEW u \in User, AccInv(u),
         UNCHANGED <<queue[u], hand[u], busy[u], dead[u], accepted[u], started[u], lost[u]>>
  PROVE  AccInv(u)'
<1>1. \A l \in Job : Stake(u, l)' = Stake(u, l)
  BY DEF Stake, Queued
<1> QED BY <1>1, SameStakes

LEMMA NextAcc ==
  TypeOK /\ (\A u \in User : FifoInv(u)) /\ (\A u \in User : AccInv(u)) /\ [Next]_vars
     => (\A u \in User : AccInv(u))'
<1> SUFFICES ASSUME TypeOK, \A u \in User : FifoInv(u), \A u \in User : AccInv(u),
                    [Next]_vars, NEW u \in User
             PROVE  AccInv(u)'
  OBVIOUS
<1> USE DEF channels, history
<1>1. ASSUME NEW w \in User,
             Connect(w) \/ Disconnect(w) \/ MinutePasses(w) \/ Refuse(w)
      PROVE  AccInv(u)'
  <2>1. UNCHANGED <<queue, hand, busy, dead, accepted, started, lost>>
    BY <1>1 DEF Connect, Disconnect, MinutePasses, Refuse, Enqueue
  <2> QED BY <2>1, NoJobAcc
<1>2. ASSUME NEW w \in User, Send(w) \/ Spawn(w) PROVE AccInv(u)'
  <2>1. CASE w = u
    BY <1>2, <2>1, SendAcc, SpawnAcc
  <2>2. CASE w # u
    <3>1. UNCHANGED <<queue[u], hand[u], busy[u], dead[u], accepted[u], started[u], lost[u]>>
      BY <1>2, <2>2 DEF Send, Spawn, Enqueue, TypeOK
    <3> QED BY <3>1, NoJobAcc
  <2> QED BY <2>1, <2>2
<1>3. ASSUME NEW w \in User, NEW l \in Job, Worker(w, l) PROVE AccInv(u)'
  <2>1. CASE w = u
    BY <1>3, <2>1, WorkerAcc
  <2>2. CASE w # u
    <3>1. UNCHANGED <<queue[u], hand[u], busy[u], dead[u], accepted[u], started[u], lost[u]>>
      BY <1>3, <2>2 DEF Worker, Receive, Begin, Finish, Panic, TypeOK
    <3> QED BY <3>1, NoJobAcc
  <2> QED BY <2>1, <2>2
<1>4. CASE UNCHANGED vars
  BY <1>4, NoJobAcc DEF vars
<1> QED BY <1>1, <1>2, <1>3, <1>4 DEF Next

LEMMA InitAcc == Init => \A u \in User : AccInv(u)
<1> SUFFICES ASSUME Init, NEW u \in User PROVE AccInv(u)
  OBVIOUS
<1>1. \A l \in Job : Stake(u, l) = {}
  BY DEF Init, Stake, Queued
<1>2. 1..accepted[u] = {} /\ started[u] = {} /\ lost[u] = {}
  BY DEF Init
<1> QED BY <1>1, <1>2 DEF AccInv

LEMMA AccHolds == (\A u \in User : AccInv(u)) => Accounted
<1> SUFFICES ASSUME NEW u \in User, AccInv(u)
             PROVE  /\ 1..accepted[u] = Pending(u) \cup started[u] \cup lost[u]
                    /\ Pending(u) \cap started[u] = {}
                    /\ lost[u] \cap (Pending(u) \cup started[u]) = {}
                    /\ lost[u] # {} => dead[u] # {}
  BY DEF Accounted
<1>1. \A x \in Pending(u) : x \notin started[u] /\ x \notin lost[u]
  BY PendingStakes DEF AccInv
<1>2. 1..accepted[u] = Pending(u) \cup started[u] \cup lost[u]
  BY PendingStakes DEF AccInv
<1> QED BY <1>1, <1>2 DEF AccInv

\* An accepted job is never lost silently and never begins twice, for any number
\* of users, jobs, reconnections, collections and panics: it waits in one
\* channel, or has begun, or was dropped with a channel whose worker died.
THEOREM NoJobUnaccounted == Spec => []Accounted
  BY InitAcc, AccHolds, NextAcc, FifoInvariant, PTL DEF Spec

-----------------------------------------------------------------------------
(****************************************************************************)
(* Admission.  There may be any number of sockets; those that hold a place    *)
(* are finitely many.                                                       *)
(****************************************************************************)
AdmissionInv ==
    /\ Admission!TypeOK
    /\ IsFiniteSet(Admission!InTotal)
    /\ Admission!CountsExact
    /\ Admission!LimitsHold

LEMMA SameCardinality == \A S : Admission!Cardinality(S) = Cardinality(S)
  BY DEF Admission!Cardinality, Cardinality

\* Sets that differ in one element differ in number by one.
LEMMA OneMoves ==
  ASSUME NEW S, IsFiniteSet(S), NEW T, NEW x, S \ {x} = T \ {x}
  PROVE  /\ IsFiniteSet(T) /\ Cardinality(S) \in Nat /\ Cardinality(T) \in Nat
         /\ (x \in S <=> x \in T) => Cardinality(T) = Cardinality(S)
         /\ x \in T /\ x \notin S => Cardinality(T) = Cardinality(S) + 1
         /\ x \in S /\ x \notin T => Cardinality(T) = Cardinality(S) - 1
<1>1. T \in SUBSET (S \cup {x}) /\ IsFiniteSet(S \cup {x})
  BY FS_AddElement
<1>2. IsFiniteSet(T)
  BY <1>1, FS_Subset
<1>3. Cardinality(S) \in Nat /\ Cardinality(T) \in Nat
  BY <1>2, FS_CardinalityType
<1>4. ASSUME x \in S <=> x \in T PROVE Cardinality(T) = Cardinality(S)
  <2>1. S = T
    BY <1>4
  <2> QED BY <2>1
<1>5. ASSUME x \in T, x \notin S PROVE Cardinality(T) = Cardinality(S) + 1
  <2>1. T = S \cup {x}
    BY <1>5
  <2> QED BY <1>5, <2>1, FS_AddElement
<1>6. ASSUME x \in S, x \notin T PROVE Cardinality(T) = Cardinality(S) - 1
  <2>1. S = T \cup {x}
    BY <1>6
  <2>2. Cardinality(S) = Cardinality(T) + 1
    BY <1>2, <1>6, <2>1, FS_AddElement
  <2> QED BY <1>3, <2>2
<1> QED BY <1>2, <1>3, <1>4, <1>5, <1>6

\* The phases in which a socket counts in the total, for its address, for its user.
Totalled == {"reserved", "counted", "open", "leaving"}
Addressed == {"counted", "open", "leaving"}

\* By how much a count changes.
Change(P, from, to) ==
    CASE to \in P /\ from \notin P -> 1
      [] to \notin P /\ from \in P -> 0 - 1
      [] OTHER -> 0

\* When a socket goes from one phase to another and the counts change accordingly, they
\* stay exact.
LEMMA SocketMoves ==
  ASSUME AdmissionInv, NEW s \in Socket, NEW p \in Admission!Phase,
         phase' = [phase EXCEPT ![s] = p],
         total' = total + Change(Totalled, phase[s], p),
         perIp' = [perIp EXCEPT ![From[s]] = @ + Change(Addressed, phase[s], p)],
         perUser' = [perUser EXCEPT ![Of[s]] = @ + Change({"open"}, phase[s], p)],
         total' <= total \/ total < MaxTotal,
         perIp'[From[s]] <= perIp[From[s]] \/ perIp[From[s]] < MaxPerIp,
         perUser'[Of[s]] <= perUser[Of[s]] \/ perUser[Of[s]] < MaxPerUser
  PROVE  AdmissionInv'
<1> DEFINE a == From[s]
           u == Of[s]
<1>1. /\ phase \in [Socket -> Admission!Phase] /\ total \in Nat
      /\ perIp \in [Address -> Nat] /\ perUser \in [User -> Nat]
      /\ a \in Address /\ u \in User
      /\ MaxTotal \in Nat /\ MaxPerIp \in Nat /\ MaxPerUser \in Nat
  BY StateAssumption DEF AdmissionInv, Admission!TypeOK
<1>2. /\ phase' \in [Socket -> Admission!Phase] /\ phase'[s] = p
      /\ \A r \in Socket : r # s => phase'[r] = phase[r]
  BY <1>1
<1>3. /\ \A b \in Address : b # a => perIp'[b] = perIp[b]
      /\ \A v \in User : v # u => perUser'[v] = perUser[v]
      /\ perIp'[a] = perIp[a] + Change(Addressed, phase[s], p)
      /\ perUser'[u] = perUser[u] + Change({"open"}, phase[s], p)
      /\ DOMAIN perIp' = Address /\ DOMAIN perUser' = User
      /\ perIp' = [b \in Address |-> perIp'[b]] /\ perUser' = [v \in User |-> perUser'[v]]
  BY <1>1
<1>4. /\ Admission!InTotal \ {s} = Admission!InTotal' \ {s}
      /\ s \in Admission!InTotal <=> phase[s] \in Totalled
      /\ s \in Admission!InTotal' <=> p \in Totalled
  BY <1>2 DEF Admission!InTotal, Totalled
<1>5. /\ IsFiniteSet(Admission!InTotal') /\ total' = Cardinality(Admission!InTotal')
      /\ total' \in Nat
  <2>1. total = Cardinality(Admission!InTotal) /\ IsFiniteSet(Admission!InTotal)
    BY SameCardinality DEF AdmissionInv, Admission!CountsExact
  <2> DEFINE S == Admission!InTotal
             T == Admission!InTotal'
  <2>2. /\ IsFiniteSet(S) /\ S \ {s} = T \ {s}
        /\ s \in S <=> phase[s] \in Totalled
        /\ s \in T <=> p \in Totalled
        /\ total = Cardinality(S)
    BY <1>4, <2>1
  <2> HIDE DEF S, T
  <2>3. /\ IsFiniteSet(T) /\ Cardinality(S) \in Nat /\ Cardinality(T) \in Nat
        /\ (s \in S <=> s \in T) => Cardinality(T) = Cardinality(S)
        /\ s \in T /\ s \notin S => Cardinality(T) = Cardinality(S) + 1
        /\ s \in S /\ s \notin T => Cardinality(T) = Cardinality(S) - 1
    BY <2>2, OneMoves
  <2>4. total' = Cardinality(T)
    BY <2>2, <2>3 DEF Change
  <2> QED BY <2>3, <2>4 DEF T
<1>6. ASSUME NEW b \in Address
      PROVE  perIp'[b] = Cardinality(Admission!InIp(b)') /\ perIp'[b] \in Nat
  <2> DEFINE S == Admission!InIp(b)
             T == Admission!InIp(b)'
  <2>1. /\ S \ {s} = T \ {s}
        /\ s \in S <=> b = a /\ phase[s] \in Addressed
        /\ s \in T <=> b = a /\ p \in Addressed
        /\ S \in SUBSET Admission!InTotal
        /\ perIp[b] = Cardinality(S)
    BY <1>1, <1>2, SameCardinality
    DEF AdmissionInv, Admission!CountsExact, Admission!InIp, Admission!InTotal, Addressed
  <2> HIDE DEF S, T
  <2>2. IsFiniteSet(S)
    BY <2>1, FS_Subset DEF AdmissionInv
  <2>3. /\ Cardinality(S) \in Nat /\ Cardinality(T) \in Nat
        /\ (s \in S <=> s \in T) => Cardinality(T) = Cardinality(S)
        /\ s \in T /\ s \notin S => Cardinality(T) = Cardinality(S) + 1
        /\ s \in S /\ s \notin T => Cardinality(T) = Cardinality(S) - 1
    BY <2>1, <2>2, OneMoves
  <2>4. CASE b = a
    <3>1. perIp'[b] = perIp[b] + Change(Addressed, phase[s], p)
      BY <1>3, <2>4
    <3> QED BY <2>1, <2>3, <2>4, <3>1 DEF T, Change
  <2>5. CASE b # a
    BY <1>3, <2>1, <2>3, <2>5 DEF T
  <2> QED BY <2>4, <2>5
<1>7. ASSUME NEW v \in User
      PROVE  perUser'[v] = Cardinality(Admission!InUser(v)') /\ perUser'[v] \in Nat
  <2> DEFINE S == Admission!InUser(v)
             T == Admission!InUser(v)'
  <2>1. /\ S \ {s} = T \ {s}
        /\ s \in S <=> v = u /\ phase[s] \in {"open"}
        /\ s \in T <=> v = u /\ p \in {"open"}
        /\ S \in SUBSET Admission!InTotal
        /\ perUser[v] = Cardinality(S)
    BY <1>1, <1>2, SameCardinality
    DEF AdmissionInv, Admission!CountsExact, Admission!InUser, Admission!InTotal
  <2> HIDE DEF S, T
  <2>2. IsFiniteSet(S)
    BY <2>1, FS_Subset DEF AdmissionInv
  <2>3. /\ Cardinality(S) \in Nat /\ Cardinality(T) \in Nat
        /\ (s \in S <=> s \in T) => Cardinality(T) = Cardinality(S)
        /\ s \in T /\ s \notin S => Cardinality(T) = Cardinality(S) + 1
        /\ s \in S /\ s \notin T => Cardinality(T) = Cardinality(S) - 1
    BY <2>1, <2>2, OneMoves
  <2>4. CASE v = u
    <3>1. perUser'[v] = perUser[v] + Change({"open"}, phase[s], p)
      BY <1>3, <2>4
    <3> QED BY <2>1, <2>3, <2>4, <3>1 DEF T, Change
  <2>5. CASE v # u
    BY <1>3, <2>1, <2>3, <2>5 DEF T
  <2> QED BY <2>4, <2>5
<1>8. Admission!TypeOK'
  BY <1>2, <1>3, <1>5, <1>6, <1>7 DEF Admission!TypeOK
<1>9. Admission!CountsExact'
  BY <1>5, <1>6, <1>7, SameCardinality DEF Admission!CountsExact
<1>10. Admission!LimitsHold'
  <2>1. total <= MaxTotal /\ perIp[a] <= MaxPerIp /\ perUser[u] <= MaxPerUser
        /\ Change(Totalled, phase[s], p) <= 1 /\ Change(Addressed, phase[s], p) <= 1
        /\ Change({"open"}, phase[s], p) <= 1
    BY <1>1 DEF AdmissionInv, Admission!LimitsHold, Change
  <2>2. /\ perIp[a] \in Nat /\ perUser[u] \in Nat /\ total \in Nat
        /\ Change(Totalled, phase[s], p) \in Int /\ Change(Addressed, phase[s], p) \in Int
        /\ Change({"open"}, phase[s], p) \in Int
    BY <1>1 DEF Change
  <2>3. total' <= MaxTotal
    BY <1>1, <2>1, <2>2
  <2>4. perIp'[a] <= MaxPerIp
    BY <1>1, <1>3, <2>1, <2>2
  <2>5. perUser'[u] <= MaxPerUser
    BY <1>1, <1>3, <2>1, <2>2
  <2> QED BY <1>3, <2>3, <2>4, <2>5 DEF AdmissionInv, Admission!LimitsHold
<1> QED BY <1>5, <1>8, <1>9, <1>10 DEF AdmissionInv

LEMMA NothingCounted ==
  ASSUME AdmissionInv, NEW s \in Socket
  PROVE  /\ perIp = [perIp EXCEPT ![From[s]] = @ + 0]
         /\ perUser = [perUser EXCEPT ![Of[s]] = @ + 0]
         /\ perIp[From[s]] \in Nat /\ perUser[Of[s]] \in Nat /\ total \in Nat
         /\ From[s] \in DOMAIN perIp /\ Of[s] \in DOMAIN perUser
  BY StateAssumption DEF AdmissionInv, Admission!TypeOK

LEMMA NextAdmission == AdmissionInv /\ [Admission!Next]_(Admission!vars) => AdmissionInv'
<1> SUFFICES ASSUME AdmissionInv, [Admission!Next]_(Admission!vars) PROVE AdmissionInv'
  OBVIOUS
<1>1. ASSUME NEW s \in Socket, Admission!Handshake(s) PROVE AdmissionInv'
  <2>1. PICK p \in {"upgrade", "gone"} : Admission!Goes(s, "new", p)
    BY <1>1 DEF Admission!Handshake
  <2>2. /\ phase[s] = "new" /\ p \in Admission!Phase /\ phase' = [phase EXCEPT ![s] = p]
        /\ UNCHANGED <<total, perIp, perUser>>
    BY <1>1, <2>1 DEF Admission!Handshake, Admission!Goes, Admission!Phase
  <2>3. /\ Change(Totalled, phase[s], p) = 0 /\ Change(Addressed, phase[s], p) = 0
        /\ Change({"open"}, phase[s], p) = 0
    BY <2>2 DEF Change, Totalled, Addressed
  <2>4. /\ total' = total + Change(Totalled, phase[s], p) /\ total' <= total
        /\ perIp' = [perIp EXCEPT ![From[s]] = @ + Change(Addressed, phase[s], p)]
        /\ perUser' = [perUser EXCEPT ![Of[s]] = @ + Change({"open"}, phase[s], p)]
        /\ perIp'[From[s]] <= perIp[From[s]] /\ perUser'[Of[s]] <= perUser[Of[s]]
    BY <2>2, <2>3, NothingCounted
  <2> QED BY <2>2, <2>4, SocketMoves
<1>2. ASSUME NEW s \in Socket, Admission!Reserve(s) PROVE AdmissionInv'
  <2> USE DEF Admission!Reserve, Admission!Goes, Admission!Phase, Change, Totalled, Addressed
  <2>1. CASE total < MaxTotal
    BY <1>2, <2>1, SocketMoves, NothingCounted
  <2>2. CASE ~(total < MaxTotal)
    BY <1>2, <2>2, SocketMoves, NothingCounted
  <2> QED BY <2>1, <2>2
<1>3. ASSUME NEW s \in Socket, Admission!CountIp(s) PROVE AdmissionInv'
  <2> USE DEF Admission!CountIp, Admission!Goes, Admission!Phase, Change, Totalled, Addressed
  <2>1. CASE perIp[From[s]] < MaxPerIp
    BY <1>3, <2>1, SocketMoves, NothingCounted
  <2>2. CASE ~(perIp[From[s]] < MaxPerIp)
    BY <1>3, <2>2, SocketMoves, NothingCounted
  <2> QED BY <2>1, <2>2
<1>4. ASSUME NEW s \in Socket, Admission!CountUser(s) PROVE AdmissionInv'
  <2> USE DEF Admission!CountUser, Admission!Goes, Admission!Phase, Change, Totalled, Addressed
  <2>1. CASE perUser[Of[s]] < MaxPerUser
    BY <1>4, <2>1, SocketMoves, NothingCounted
  <2>2. CASE ~(perUser[Of[s]] < MaxPerUser)
    BY <1>4, <2>2, SocketMoves, NothingCounted
  <2> QED BY <2>1, <2>2
<1>5. ASSUME NEW s \in Socket, Admission!LeaveUser(s) PROVE AdmissionInv'
  <2>0. PICK p \in Admission!Phase : p = "leaving"
    BY DEF Admission!Phase
  <2>1. /\ phase[s] = "open" /\ phase' = [phase EXCEPT ![s] = p]
    BY <1>5, <2>0 DEF Admission!LeaveUser, Admission!Goes, Admission!Phase
  <2>2. /\ Change(Totalled, phase[s], p) = 0 /\ Change(Addressed, phase[s], p) = 0
        /\ Change({"open"}, phase[s], p) = 0 - 1
    BY <2>0, <2>1 DEF Change, Totalled, Addressed
  <2>3. /\ perIp[From[s]] \in Nat /\ perUser[Of[s]] \in Nat /\ total \in Nat
        /\ From[s] \in DOMAIN perIp /\ Of[s] \in DOMAIN perUser
    BY NothingCounted
  <2>4. total' = total + Change(Totalled, phase[s], p) /\ total' <= total
    BY <1>5, <2>2, <2>3 DEF Admission!LeaveUser
  <2>5. /\ perIp' = [perIp EXCEPT ![From[s]] = @ + Change(Addressed, phase[s], p)]
        /\ perIp'[From[s]] <= perIp[From[s]]
    BY <1>5, <2>2, <2>3, NothingCounted DEF Admission!LeaveUser
  <2>6. /\ perUser' = [perUser EXCEPT ![Of[s]] = @ + Change({"open"}, phase[s], p)]
        /\ perUser'[Of[s]] <= perUser[Of[s]]
    <3>1. perUser[Of[s]] - 1 = perUser[Of[s]] + Change({"open"}, phase[s], p)
      BY <2>2, <2>3
    <3>2. perUser' = [perUser EXCEPT ![Of[s]] = perUser[Of[s]] - 1]
      BY <1>5 DEF Admission!LeaveUser
    <3>3. perUser'[Of[s]] = perUser[Of[s]] - 1
      BY <2>3, <3>2
    <3>4. perUser' = [perUser EXCEPT ![Of[s]] = perUser[Of[s]] + Change({"open"}, phase[s], p)]
      BY <3>1, <3>2, Zenon
    <3> QED BY <2>3, <3>3, <3>4
  <2> QED BY <2>1, <2>4, <2>5, <2>6, SocketMoves
<1>6. ASSUME NEW s \in Socket, Admission!LeaveIp(s) PROVE AdmissionInv'
  <2>0. PICK p \in Admission!Phase : p = "gone"
    BY DEF Admission!Phase
  <2>1. /\ phase[s] = "leaving" /\ phase' = [phase EXCEPT ![s] = p]
    BY <1>6, <2>0 DEF Admission!LeaveIp, Admission!Goes, Admission!Phase
  <2>2. /\ Change(Totalled, phase[s], p) = 0 - 1 /\ Change(Addressed, phase[s], p) = 0 - 1
        /\ Change({"open"}, phase[s], p) = 0
    BY <2>0, <2>1 DEF Change, Totalled, Addressed
  <2>3. /\ perIp[From[s]] \in Nat /\ perUser[Of[s]] \in Nat /\ total \in Nat
        /\ From[s] \in DOMAIN perIp /\ Of[s] \in DOMAIN perUser
    BY NothingCounted
  <2>4. total' = total + Change(Totalled, phase[s], p) /\ total' <= total
    BY <1>6, <2>2, <2>3 DEF Admission!LeaveIp
  <2>5. /\ perIp' = [perIp EXCEPT ![From[s]] = @ + Change(Addressed, phase[s], p)]
        /\ perIp'[From[s]] <= perIp[From[s]]
    <3>1. perIp[From[s]] - 1 = perIp[From[s]] + Change(Addressed, phase[s], p)
      BY <2>2, <2>3
    <3>2. perIp' = [perIp EXCEPT ![From[s]] = perIp[From[s]] - 1]
      BY <1>6 DEF Admission!LeaveIp
    <3>3. perIp'[From[s]] = perIp[From[s]] - 1
      BY <2>3, <3>2
    <3>4. perIp' = [perIp EXCEPT ![From[s]] = perIp[From[s]] + Change(Addressed, phase[s], p)]
      BY <3>1, <3>2, Zenon
    <3> QED BY <2>3, <3>3, <3>4
  <2>6. /\ perUser' = [perUser EXCEPT ![Of[s]] = @ + Change({"open"}, phase[s], p)]
        /\ perUser'[Of[s]] <= perUser[Of[s]]
    BY <1>6, <2>2, <2>3, NothingCounted DEF Admission!LeaveIp
  <2> QED BY <2>1, <2>4, <2>5, <2>6, SocketMoves
<1>7. CASE UNCHANGED Admission!vars
  BY <1>7 DEF Admission!vars, AdmissionInv, Admission!TypeOK, Admission!CountsExact,
      Admission!LimitsHold, Admission!InTotal, Admission!InIp, Admission!InUser
<1> QED BY <1>1, <1>2, <1>3, <1>4, <1>5, <1>6, <1>7 DEF Admission!Next, Admission!Step

LEMMA InitAdmission == Admission!Init => AdmissionInv
<1> SUFFICES ASSUME Admission!Init PROVE AdmissionInv
  OBVIOUS
<1>1. /\ Admission!InTotal = {} /\ \A b \in Address : Admission!InIp(b) = {}
      /\ \A v \in User : Admission!InUser(v) = {}
  BY DEF Admission!Init, Admission!InTotal, Admission!InIp, Admission!InUser
<1>2. IsFiniteSet({}) /\ Cardinality({}) = 0
  BY FS_EmptySet
<1>3. Admission!CountsExact
  BY <1>1, <1>2, SameCardinality DEF Admission!Init, Admission!CountsExact
<1>4. Admission!TypeOK /\ Admission!LimitsHold
  BY StateAssumption DEF Admission!Init, Admission!TypeOK, Admission!Phase, Admission!LimitsHold
<1> QED BY <1>1, <1>2, <1>3, <1>4 DEF AdmissionInv
-----------------------------------------------------------------------------
(****************************************************************************)
(* The typing queue.                                                        *)
(****************************************************************************)
\* The chats of a queue are apart.
Apart(s) == \A i, j \in DOMAIN s : s[i].chat = s[j].chat => i = j

LEMMA TailApart ==
  ASSUME NEW S, NEW s \in Seq(S), s # <<>>
  PROVE  /\ Tail(s) \in Seq(S) /\ Head(s) \in S /\ Len(s) \in Nat \ {0}
         /\ Len(Tail(s)) = Len(s) - 1
         /\ Elements(s) = Elements(Tail(s)) \cup {Head(s)}
         /\ Apart(s) => Apart(Tail(s)) /\ \A e \in Elements(Tail(s)) : e.chat # Head(s).chat
<1> DEFINE t == Tail(s)
<1>1. /\ t \in Seq(S) /\ Len(s) \in Nat \ {0} /\ Len(t) = Len(s) - 1
      /\ DOMAIN s = 1..Len(s) /\ DOMAIN t = 1..(Len(s) - 1)
      /\ \A i \in 1..(Len(s) - 1) : t[i] = s[i + 1]
      /\ Head(s) = s[1] /\ s[1] \in S
  OBVIOUS
<1> HIDE DEF t
<1>2. Elements(s) = Elements(t) \cup {Head(s)}
  <2>1. ASSUME NEW x \in Elements(s) PROVE x \in Elements(t) \cup {Head(s)}
    <3>1. PICK i \in 1..Len(s) : x = s[i]
      BY <1>1 DEF Elements
    <3>2. CASE i = 1
      BY <1>1, <3>1, <3>2
    <3>3. CASE i # 1
      <4>1. i - 1 \in 1..(Len(s) - 1) /\ t[i - 1] = s[i]
        BY <1>1, <3>3
      <4> QED BY <1>1, <3>1, <4>1 DEF Elements
    <3> QED BY <3>2, <3>3
  <2>2. ASSUME NEW x \in Elements(t) PROVE x \in Elements(s)
    <3>1. PICK i \in 1..(Len(s) - 1) : x = t[i]
      BY <1>1, <2>2 DEF Elements
    <3>2. i + 1 \in 1..Len(s) /\ x = s[i + 1]
      BY <1>1, <3>1
    <3> QED BY <1>1, <3>2 DEF Elements
  <2>3. Head(s) \in Elements(s)
    BY <1>1 DEF Elements
  <2> QED BY <2>1, <2>2, <2>3
<1>3. ASSUME Apart(s) PROVE Apart(t) /\ \A e \in Elements(t) : e.chat # Head(s).chat
  <2>1. ASSUME NEW i \in DOMAIN t, NEW j \in DOMAIN t, t[i].chat = t[j].chat PROVE i = j
    <3>1. /\ i + 1 \in DOMAIN s /\ j + 1 \in DOMAIN s
          /\ t[i] = s[i + 1] /\ t[j] = s[j + 1]
      BY <1>1
    <3>2. i + 1 = j + 1
      BY <1>3, <2>1, <3>1 DEF Apart
    <3> QED BY <1>1, <3>2
  <2>2. ASSUME NEW e \in Elements(t) PROVE e.chat # Head(s).chat
    <3>1. PICK i \in DOMAIN t : e = t[i]
      BY DEF Elements
    <3>2. 1 \in DOMAIN s /\ i + 1 \in DOMAIN s /\ 1 # i + 1 /\ t[i] = s[i + 1]
      BY <1>1
    <3> QED BY <1>1, <1>3, <3>1, <3>2 DEF Apart
  <2> QED BY <2>1, <2>2 DEF Apart
<1> QED BY <1>1, <1>2, <1>3 DEF t

LEMMA AppendApart ==
  ASSUME NEW S, NEW s \in Seq(S), NEW e \in S
  PROVE  /\ Append(s, e) \in Seq(S)
         /\ Len(Append(s, e)) = Len(s) + 1 /\ Append(s, e) # <<>>
         /\ Elements(Append(s, e)) = Elements(s) \cup {e}
         /\ Apart(s) /\ (\A x \in Elements(s) : x.chat # e.chat) => Apart(Append(s, e))
<1> DEFINE t == Append(s, e)
<1>1. /\ t \in Seq(S) /\ Len(t) = Len(s) + 1 /\ Len(s) \in Nat /\ t # <<>>
      /\ DOMAIN s = 1..Len(s) /\ DOMAIN t = 1..(Len(s) + 1)
      /\ \A i \in 1..Len(s) : t[i] = s[i]
      /\ t[Len(s) + 1] = e
  OBVIOUS
<1> HIDE DEF t
<1>2. 1..(Len(s) + 1) = 1..Len(s) \cup {Len(s) + 1}
  BY <1>1
<1>3. Elements(t) = Elements(s) \cup {e}
  BY <1>1, <1>2 DEF Elements
<1>4. ASSUME Apart(s), \A x \in Elements(s) : x.chat # e.chat PROVE Apart(t)
  <2> SUFFICES ASSUME NEW i \in DOMAIN t, NEW j \in DOMAIN t, t[i].chat = t[j].chat
               PROVE  i = j
    BY DEF Apart
  <2>1. ASSUME NEW k \in 1..Len(s) PROVE t[k].chat # e.chat
    BY <1>1, <1>4 DEF Elements
  <2>2. CASE i \in 1..Len(s) /\ j \in 1..Len(s)
    BY <1>1, <1>4, <2>2 DEF Apart
  <2>3. CASE i = Len(s) + 1 \/ j = Len(s) + 1
    BY <1>1, <1>2, <2>1, <2>3
  <2> QED BY <1>1, <1>2, <2>2, <2>3
<1> QED BY <1>1, <1>3, <1>4 DEF t

\* What retain() leaves of a queue in which the chats are apart.
LEMMA OthersFacts ==
  ASSUME NEW c, words \in Seq(Typing!Entry), Apart(words)
  PROVE  /\ Typing!Others(c) \in Seq(Typing!Entry)
         /\ Len(Typing!Others(c)) <= Len(words)
         /\ Elements(Typing!Others(c)) = {e \in Elements(words) : e.chat # c}
         /\ Apart(Typing!Others(c))
<1> DEFINE t == Typing!Others(c)
<1>1. /\ Len(words) \in Nat /\ DOMAIN words = 1..Len(words)
      /\ \A i \in 1..Len(words) : words[i] \in Typing!Entry
  OBVIOUS
<1>2. CASE ~Typing!Waiting(c)
  <2>1. t = words
    BY <1>2 DEF Typing!Others
  <2>2. \A e \in Elements(words) : e.chat # c
    BY <1>2 DEF Typing!Waiting, Elements
  <2> QED BY <1>1, <2>1, <2>2
<1>3. CASE Typing!Waiting(c)
  <2>1. PICK at \in DOMAIN words :
           /\ words[at].chat = c
           /\ t = [i \in 1 .. Len(words) - 1 |-> words[IF i < at THEN i ELSE i + 1]]
    BY <1>3 DEF Typing!Waiting, Typing!Others
  <2> HIDE DEF t
  <2> DEFINE m == Len(words) - 1
             From1(i) == IF i < at THEN i ELSE i + 1
  <2>2. /\ m \in Nat /\ at \in 1..(m + 1) /\ Len(words) = m + 1 /\ DOMAIN words = 1..(m + 1)
        /\ \A i \in 1..m : From1(i) \in 1..(m + 1) /\ From1(i) # at
        /\ \A i, j \in 1..m : From1(i) = From1(j) => i = j
    BY <1>1, <2>1
  <2>3. /\ t = [i \in 1..m |-> words[From1(i)]] /\ DOMAIN t = 1..m
        /\ \A i \in 1..m : t[i] = words[From1(i)] /\ t[i] \in Typing!Entry
    BY <1>1, <2>1, <2>2
  <2>4. \A k \in 1..(m + 1) : k # at => \E i \in 1..m : From1(i) = k
    <3> SUFFICES ASSUME NEW k \in 1..(m + 1), k # at PROVE \E i \in 1..m : From1(i) = k
      OBVIOUS
    <3>1. CASE k < at
      BY <2>2, <3>1
    <3>2. CASE k > at
      <4>1. k - 1 \in 1..m /\ From1(k - 1) = k
        BY <2>2, <3>2
      <4> QED BY <4>1
    <3> QED BY <2>2, <3>1, <3>2
  <2> HIDE DEF m, From1
  <2>5. t \in [1..m -> Typing!Entry] /\ m \in Nat
    BY <2>2, <2>3
  <2>6. t \in Seq(Typing!Entry) /\ Len(t) = m
    BY <2>5, SeqDef, LenProperties
  <2>7. Elements(t) = {e \in Elements(words) : e.chat # c}
    <3>1. ASSUME NEW e \in Elements(t) PROVE e \in Elements(words) /\ e.chat # c
      <4>1. PICK i \in 1..m : e = words[From1(i)]
        BY <2>3 DEF Elements
      <4>2. From1(i) \in DOMAIN words /\ From1(i) # at
        BY <2>2
      <4> QED BY <2>1, <4>1, <4>2 DEF Elements, Apart
    <3>2. ASSUME NEW e \in Elements(words), e.chat # c PROVE e \in Elements(t)
      <4>1. PICK k \in 1..(m + 1) : e = words[k]
        BY <2>2 DEF Elements
      <4>2. PICK i \in 1..m : From1(i) = k
        BY <2>1, <2>4, <3>2, <4>1
      <4> QED BY <2>3, <4>1, <4>2 DEF Elements
    <3> QED BY <3>1, <3>2
  <2>8. Apart(t)
    BY <2>2, <2>3 DEF Apart
  <2>9. m <= Len(words)
    BY <2>2
  <2> QED BY <2>6, <2>7, <2>8, <2>9 DEF t
<1> QED BY <1>2, <1>3

\* What waits on a chat is the last word on it, and so is what the runner has in hand,
\* unless a later word waits or was dropped.
TypingInv ==
    /\ Typing!TypeOK
    /\ Apart(words)
    /\ \A e \in Elements(words) : e.word = last[e.chat]
    /\ word # Nothing =>
          \/ \E e \in Elements(words) : e.chat = word.chat
          \/ word.chat \in evicted
          \/ word.word = last[word.chat]
    /\ Typing!NoLostWakeup
    /\ Typing!LastWordWins

LEMMA WaitingIs == \A c : Typing!Waiting(c) <=> \E e \in Elements(words) : e.chat = c
  BY DEF Typing!Waiting, Elements

LEMMA EntryParts ==
  ASSUME NEW e \in Typing!Entry
  PROVE  e.chat \in Chat /\ e.word \in Typing!Word
  BY DEF Typing!Entry

LEMMA NothingIsNoEntry == Nothing \notin Typing!Entry
  BY StateAssumption DEF Typing!Entry, Typing!Word

LEMMA EmptyQueue ==
  ASSUME NEW S, NEW s \in Seq(S)
  PROVE  s = <<>> <=> Elements(s) = {}
<1>1. s # <<>> => s[1] \in Elements(s)
  BY DEF Elements
<1>2. s = <<>> => Elements(s) = {}
  BY DEF Elements
<1> QED BY <1>1, <1>2

\* A queue to which a chat's new word is put in place of its old one, and out of which at
\* most the word on another chat falls.
LEMMA WordTakesPlace ==
  ASSUME TypingInv, NEW c \in Chat, NEW w \in Typing!Word,
         NEW e, e = [chat |-> c, word |-> w],
         NEW D \in SUBSET Elements(words), \A d \in D : d.chat # c,
         words' \in Seq(Typing!Entry), Len(words') <= QueueMax, Apart(words'),
         Elements(words') = {d \in Elements(words) \ D : d.chat # c} \cup {e},
         evicted' = (evicted \ {c}) \cup {d.chat : d \in D},
         last' = [last EXCEPT ![c] = w],
         running' = TRUE, frames' = frames + 1, frames < MaxFrames,
         UNCHANGED <<word, heard>>
  PROVE  TypingInv'
<1>1. /\ words \in Seq(Typing!Entry) /\ last \in [Chat -> Typing!Word \cup {"silent"}]
      /\ word \in Typing!Entry \cup {Nothing} /\ evicted \in SUBSET Chat
      /\ \A d \in Elements(words) : d \in Typing!Entry
  BY DEF TypingInv, Typing!TypeOK, Elements
<1>2. /\ last'[c] = w /\ \A b \in Chat : b # c => last'[b] = last[b]
      /\ last' \in [Chat -> Typing!Word \cup {"silent"}]
  BY <1>1
<1>3. evicted' \in SUBSET Chat
  BY <1>1, EntryParts
<1>4. Typing!TypeOK'
  BY <1>1, <1>2, <1>3, StateAssumption DEF TypingInv, Typing!TypeOK
<1>5. \A d \in Elements(words') : d.word = last'[d.chat]
  BY <1>1, <1>2, EntryParts DEF TypingInv
<1>6. ASSUME word # Nothing
      PROVE  \/ \E d \in Elements(words') : d.chat = word.chat
             \/ word.chat \in evicted'
             \/ word.word = last'[word.chat]
  <2>1. word \in Typing!Entry /\ word.chat \in Chat
    BY <1>1, <1>6, EntryParts
  <2>2. CASE word.chat = c
    BY <2>2
  <2>3. CASE word.chat # c
    <3>1. CASE \E d \in Elements(words) : d.chat = word.chat
      <4>1. PICK d \in Elements(words) : d.chat = word.chat
        BY <3>1
      <4>2. CASE d \in D
        BY <4>1, <4>2
      <4>3. CASE d \notin D
        BY <2>3, <4>1, <4>3
      <4> QED BY <4>2, <4>3
    <3>2. CASE word.chat \in evicted
      BY <2>3, <3>2
    <3>3. CASE word.word = last[word.chat]
      BY <1>2, <2>1, <2>3, <3>3
    <3> QED BY <1>6, <3>1, <3>2, <3>3 DEF TypingInv
  <2> QED BY <2>2, <2>3
<1>7. Typing!NoLostWakeup'
  BY DEF Typing!NoLostWakeup
<1>8. Typing!LastWordWins'
  <2> SUFFICES ASSUME NEW b \in Chat, ~Typing!Waiting(b)', word = Nothing \/ word.chat # b,
                      b \notin evicted'
               PROVE  heard[b] = last'[b]
    BY DEF Typing!LastWordWins
  <2>1. \A d \in Elements(words') : d.chat # b
    BY DEF Typing!Waiting, Elements
  <2>2. b # c
    BY <2>1
  <2>3. ~Typing!Waiting(b)
    <3> SUFFICES ASSUME NEW d \in Elements(words), d.chat = b PROVE FALSE
      BY WaitingIs
    <3>1. CASE d \in D
      BY <3>1
    <3>2. CASE d \notin D
      BY <2>1, <2>2, <3>2
    <3> QED BY <3>1, <3>2
  <2>4. b \notin evicted
    BY <2>2
  <2> QED BY <1>2, <2>2, <2>3, <2>4 DEF TypingInv, Typing!LastWordWins
<1> QED BY <1>4, <1>5, <1>6, <1>7, <1>8 DEF TypingInv

LEMMA FrameTyping ==
  ASSUME TypingInv, NEW c \in Chat, NEW w \in Typing!Word, Typing!Frame(c, w)
  PROVE  TypingInv'
<1> DEFINE e == [chat |-> c, word |-> w]
           rest == Typing!Others(c)
<1>1. words \in Seq(Typing!Entry) /\ Len(words) <= QueueMax /\ Apart(words)
      /\ e \in Typing!Entry /\ QueueMax \in Nat \ {0} /\ evicted \in SUBSET Chat
  BY StateAssumption DEF TypingInv, Typing!TypeOK, Typing!Entry
<1>2. /\ rest \in Seq(Typing!Entry) /\ Len(rest) <= Len(words) /\ Apart(rest)
      /\ Elements(rest) = {d \in Elements(words) : d.chat # c}
  BY <1>1, OthersFacts
<1>3. /\ last' = [last EXCEPT ![c] = w] /\ running' = TRUE
      /\ frames < MaxFrames /\ frames' = frames + 1 /\ UNCHANGED <<word, heard>>
  BY DEF Typing!Frame
<1>4. (\E i \in DOMAIN words : words[i] = e) <=> e \in Elements(words)
  BY DEF Elements
<1>5. CASE e \in Elements(words)
  <2>1. words' = words /\ evicted' = evicted \ {c}
    BY <1>4, <1>5 DEF Typing!Frame
  <2>2. \A d \in Elements(words) : d.chat = c => d = e
    BY <1>5 DEF Apart, Elements, TypingInv
  <2>3. Elements(words') = {d \in Elements(words) \ {} : d.chat # c} \cup {e}
    BY <1>5, <2>1, <2>2
  <2>4. evicted' = (evicted \ {c}) \cup {d.chat : d \in {}}
    BY <2>1
  <2> HIDE DEF e
  <2>5. e = [chat |-> c, word |-> w] /\ {} \in SUBSET Elements(words)
        /\ \A d \in {} : d.chat # c
    BY DEF e
  <2> QED BY <1>1, <1>3, <2>1, <2>3, <2>4, <2>5, WordTakesPlace
<1>6. CASE e \notin Elements(words)
  <2>1. words' = Append(Typing!Room(rest), e)
    BY <1>4, <1>6 DEF Typing!Frame
  <2>2. CASE Len(rest) >= QueueMax
    <3> DEFINE h == Head(rest)
    <3>1. Typing!Room(rest) = Tail(rest) /\ evicted' = (evicted \ {c}) \cup {h.chat}
      BY <1>4, <1>6, <2>2 DEF Typing!Frame, Typing!Room
    <3>2. rest # <<>> /\ Len(rest) = QueueMax
      BY <1>1, <1>2, <2>2
    <3> HIDE DEF rest
    <3>3. /\ Tail(rest) \in Seq(Typing!Entry) /\ h \in Elements(rest)
          /\ Len(Tail(rest)) = QueueMax - 1 /\ Apart(Tail(rest))
          /\ Elements(rest) = Elements(Tail(rest)) \cup {h}
          /\ h \notin Elements(Tail(rest))
      BY <1>2, <3>2, TailApart
    <3>4. \A x \in Elements(Tail(rest)) : x.chat # e.chat
      BY <1>2, <3>3
    <3> HIDE DEF e, h
    <3>5. /\ words' \in Seq(Typing!Entry) /\ Len(words') = (QueueMax - 1) + 1
          /\ Elements(words') = Elements(Tail(rest)) \cup {e} /\ Apart(words')
      <4> DEFINE t == Tail(rest)
      <4>1. /\ t \in Seq(Typing!Entry) /\ Apart(t) /\ \A x \in Elements(t) : x.chat # e.chat
            /\ words' = Append(t, e) /\ e \in Typing!Entry /\ Len(t) = QueueMax - 1
        BY <1>1, <2>1, <3>1, <3>3, <3>4
      <4> HIDE DEF t
      <4>2. /\ words' \in Seq(Typing!Entry) /\ Len(words') = Len(t) + 1
            /\ Elements(words') = Elements(t) \cup {e} /\ Apart(words')
        BY <4>1, AppendApart
      <4> QED BY <4>1, <4>2 DEF t
    <3>6. /\ {h} \in SUBSET Elements(words) /\ \A d \in {h} : d.chat # c
          /\ e = [chat |-> c, word |-> w]
      BY <1>2, <3>3 DEF e
    <3>7. Elements(words') = {d \in Elements(words) \ {h} : d.chat # c} \cup {e}
      BY <1>2, <3>3, <3>5
    <3>8. evicted' = (evicted \ {c}) \cup {d.chat : d \in {h}} /\ Len(words') <= QueueMax
      BY <1>1, <3>1, <3>5
    <3> QED BY <1>3, <3>5, <3>6, <3>7, <3>8, WordTakesPlace
  <2>3. CASE ~(Len(rest) >= QueueMax)
    <3>1. Typing!Room(rest) = rest /\ evicted' = evicted \ {c}
      BY <1>4, <1>6, <2>3 DEF Typing!Frame, Typing!Room
    <3>2. Len(rest) \in Nat /\ Len(rest) + 1 <= QueueMax
      BY <1>1, <1>2, <2>3
    <3> HIDE DEF rest
    <3>3. \A x \in Elements(rest) : x.chat # e.chat
      BY <1>2
    <3> HIDE DEF e
    <3>4. /\ words' \in Seq(Typing!Entry) /\ Len(words') <= QueueMax
          /\ Elements(words') = Elements(rest) \cup {e} /\ Apart(words')
      BY <1>1, <1>2, <2>1, <3>1, <3>2, <3>3, AppendApart
    <3>5. /\ {} \in SUBSET Elements(words) /\ \A d \in {} : d.chat # c
          /\ e = [chat |-> c, word |-> w]
      BY DEF e
    <3>6. Elements(words') = {d \in Elements(words) \ {} : d.chat # c} \cup {e}
      BY <1>2, <3>4
    <3>7. evicted' = (evicted \ {c}) \cup {d.chat : d \in {}}
      BY <3>1
    <3> QED BY <1>3, <3>4, <3>5, <3>6, <3>7, WordTakesPlace
  <2> QED BY <2>2, <2>3
<1> QED BY <1>5, <1>6

LEMMA PopTyping ==
  ASSUME TypingInv, Typing!Pop
  PROVE  TypingInv'
<1>1. /\ words \in Seq(Typing!Entry) /\ words # <<>> /\ Apart(words) /\ word = Nothing
      /\ Len(words) <= QueueMax /\ QueueMax \in Nat
  BY StateAssumption DEF TypingInv, Typing!TypeOK, Typing!Pop
<1> DEFINE h == Head(words)
<1>2. /\ words' = Tail(words) /\ word' = h /\ running
      /\ UNCHANGED <<running, frames, last, heard, evicted>>
  BY DEF Typing!Pop
<1>3. /\ words' \in Seq(Typing!Entry) /\ h \in Typing!Entry
      /\ Len(words') = Len(words) - 1 /\ Len(words) \in Nat \ {0}
      /\ Elements(words) = Elements(words') \cup {h} /\ Apart(words')
  BY <1>1, <1>2, TailApart
<1> HIDE DEF h
<1>4. h # Nothing /\ h.chat \in Chat
  BY <1>3, NothingIsNoEntry, EntryParts
<1>5. Typing!TypeOK'
  BY <1>1, <1>2, <1>3 DEF TypingInv, Typing!TypeOK
<1>6. h.word = last[h.chat] /\ \A d \in Elements(words') : d.word = last[d.chat]
  BY <1>3 DEF TypingInv
<1>7. Typing!NoLostWakeup'
  BY <1>2 DEF Typing!NoLostWakeup
<1>8. Typing!LastWordWins'
  <2> SUFFICES ASSUME NEW b \in Chat, ~Typing!Waiting(b)', word'.chat # b, b \notin evicted
               PROVE  heard[b] = last[b]
    BY <1>2, <1>4 DEF Typing!LastWordWins
  <2>1. \A d \in Elements(words') : d.chat # b
    BY DEF Typing!Waiting, Elements
  <2>2. ~Typing!Waiting(b)
    BY <1>2, <1>3, <2>1, WaitingIs
  <2> QED BY <1>1, <2>2 DEF TypingInv, Typing!LastWordWins
<1> QED BY <1>2, <1>3, <1>5, <1>6, <1>7, <1>8 DEF TypingInv

LEMMA FinishTyping ==
  ASSUME TypingInv, Typing!Finish
  PROVE  TypingInv'
<1> DEFINE c == word.chat
<1>1. /\ word \in Typing!Entry /\ c \in Chat /\ word.word \in Typing!Word /\ word # Nothing
      /\ heard \in [Chat -> Typing!Word \cup {"silent"}]
  BY EntryParts DEF TypingInv, Typing!TypeOK, Typing!Finish
<1>2. /\ heard' = [heard EXCEPT ![c] = word.word] /\ word' = Nothing
      /\ UNCHANGED <<words, running, frames, last, evicted>>
  BY DEF Typing!Finish
<1>3. /\ heard' \in [Chat -> Typing!Word \cup {"silent"}] /\ heard'[c] = word.word
      /\ \A b \in Chat : b # c => heard'[b] = heard[b]
  BY <1>1, <1>2
<1>4. Typing!TypeOK'
  BY <1>2, <1>3 DEF TypingInv, Typing!TypeOK
<1>5. Typing!NoLostWakeup'
  BY <1>2 DEF TypingInv, Typing!NoLostWakeup
<1>6. Typing!LastWordWins'
  <2> SUFFICES ASSUME NEW b \in Chat, ~Typing!Waiting(b)', b \notin evicted
               PROVE  heard'[b] = last[b]
    BY <1>2 DEF Typing!LastWordWins
  <2>1. ~Typing!Waiting(b)
    BY <1>2 DEF Typing!Waiting
  <2>2. CASE b = c
    BY <1>1, <1>3, <2>1, <2>2, WaitingIs DEF TypingInv
  <2>3. CASE b # c
    BY <1>3, <2>1, <2>3 DEF TypingInv, Typing!LastWordWins
  <2> QED BY <2>2, <2>3
<1> QED BY <1>2, <1>4, <1>5, <1>6 DEF TypingInv

LEMMA NextTyping == TypingInv /\ [Typing!Next]_(Typing!vars) => TypingInv'
<1> SUFFICES ASSUME TypingInv, [Typing!Next]_(Typing!vars) PROVE TypingInv'
  OBVIOUS
<1>1. CASE Typing!Stop
  BY <1>1 DEF Typing!Stop, TypingInv, Typing!TypeOK, Typing!NoLostWakeup,
      Typing!LastWordWins, Typing!Waiting
<1>2. CASE UNCHANGED Typing!vars
  BY <1>2 DEF Typing!vars, TypingInv, Typing!TypeOK, Typing!NoLostWakeup,
      Typing!LastWordWins, Typing!Waiting
<1> QED BY <1>1, <1>2, FrameTyping, PopTyping, FinishTyping DEF Typing!Next, Typing!Runner

LEMMA InitTyping == Typing!Init => TypingInv
<1> SUFFICES ASSUME Typing!Init PROVE TypingInv
  OBVIOUS
<1>1. /\ words = <<>> /\ word = Nothing /\ Elements(words) = {} /\ Apart(words)
      /\ Len(words) = 0 /\ words \in Seq(Typing!Entry)
  BY DEF Typing!Init, Elements, Apart
<1>2. 0 <= QueueMax /\ 0 \in 0 .. MaxFrames
  BY StateAssumption
<1>3. Typing!TypeOK
  BY <1>1, <1>2 DEF Typing!Init, Typing!TypeOK
<1> QED BY <1>1, <1>3 DEF Typing!Init, TypingInv, Typing!NoLostWakeup, Typing!LastWordWins

-----------------------------------------------------------------------------
(****************************************************************************)
(* All of them, side by side.                                               *)
(****************************************************************************)
QueuesInv ==
    /\ TypeOK
    /\ \A u \in User : FifoInv(u)
    /\ \A u \in User : AccInv(u)

StateInv == QueuesInv /\ AdmissionInv /\ TypingInv

LEMMA InitState == StateInit => StateInv
<1>1. Init => TypeOK
  BY FifoAssumption DEF Init, TypeOK, Job
<1> QED BY <1>1, InitFifo, InitAcc, InitAdmission, InitTyping DEF StateInit, StateInv, QueuesInv

\* What rests keeps its invariant.
LEMMA StateParts ==
  ASSUME [StateNext]_everything
  PROVE  /\ [Next]_vars
         /\ [Admission!Next]_(Admission!vars)
         /\ [Typing!Next]_(Typing!vars)
<1>1. UNCHANGED admission => UNCHANGED Admission!vars
  BY DEF admission, Admission!vars
<1>2. UNCHANGED typing => UNCHANGED Typing!vars
  BY DEF typing, Typing!vars
<1>3. CASE UNCHANGED everything
  BY <1>1, <1>2, <1>3 DEF everything
<1>4. CASE StateNext
  BY <1>1, <1>2, <1>4 DEF StateNext
<1> QED BY <1>3, <1>4

LEMMA NextState == StateInv /\ [StateNext]_everything => StateInv'
<1> SUFFICES ASSUME StateInv, [StateNext]_everything PROVE StateInv'
  OBVIOUS
<1>1. [Next]_vars /\ [Admission!Next]_(Admission!vars) /\ [Typing!Next]_(Typing!vars)
  BY StateParts
<1>2. QueuesInv'
  <2>1. TypeOK'
    BY <1>1, NextTyped DEF StateInv, QueuesInv
  <2>2. \A u \in User : FifoInv(u)'
    BY <1>1, NextFifo DEF StateInv, QueuesInv
  <2>3. \A u \in User : AccInv(u)'
    BY <1>1, NextAcc DEF StateInv, QueuesInv
  <2> QED BY <2>1, <2>2, <2>3 DEF QueuesInv
<1>3. AdmissionInv'
  BY <1>1, NextAdmission DEF StateInv
<1>4. TypingInv'
  BY <1>1, NextTyping DEF StateInv
<1> QED BY <1>2, <1>3, <1>4 DEF StateInv

LEMMA StateInvariant == StateSpec => []StateInv
  BY InitState, NextState, PTL DEF StateSpec

\* The parts of ws/state.rs keep their types; no channel holds more than its capacity, and
\* no typing queue more than TYPING_QUEUE_MAX.
THEOREM StateTyped == StateSpec => []StateTypeOK
<1>1. StateInv => StateTypeOK
  BY DEF StateInv, QueuesInv, AdmissionInv, TypingInv, StateTypeOK
<1> QED BY <1>1, StateInvariant, PTL

\* fifo_enqueue and its worker, next to the rest of ws/state.rs: jobs keep their order, and
\* none is lost silently or begins twice.
THEOREM JobsKept == StateSpec => [](InOrder /\ Accounted)
<1>1. StateInv => InOrder /\ Accounted
  BY OrderHolds, AccHolds DEF StateInv, QueuesInv
<1> QED BY <1>1, StateInvariant, PTL

\* register_ip_connection, register_connection and their ways back: each count is at every
\* moment the number of sockets that hold a place in it, and within its limit, for any
\* number of sockets, addresses and users, however their handshakes and ends interleave.
THEOREM AdmissionIsExact == StateSpec => []AdmissionHolds
<1>1. StateInv => AdmissionHolds
  BY DEF StateInv, AdmissionInv, AdmissionHolds
<1> QED BY <1>1, StateInvariant, PTL

\* spawn_user_ordered_eventually: what waits has a runner, a chat waits in one place, and
\* what is handled last on a chat is what the user said last, for any number of chats and
\* frames and any capacity, but for words dropped from a full queue.
THEOREM LastWordIsHeard == StateSpec => []LastWordWins
<1>1. Apart(words) => Typing!OnePlace
  BY DEF Apart, Typing!OnePlace
<1>2. StateInv => LastWordWins
  BY <1>1 DEF StateInv, TypingInv, LastWordWins
<1> QED BY <1>2, StateInvariant, PTL
================================================================================
