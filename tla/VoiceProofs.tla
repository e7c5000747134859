------------------------------ MODULE VoiceProofs ------------------------------
(****************************************************************************)
(* Proofs about VoiceRoster, for any sets of users, connections and channels *)
(* and any bound on memberships ended.  RosterMatchesOwner is inductive      *)
(* together with the types.                                                 *)
(****************************************************************************)
EXTENDS VoiceRoster, TLAPS

RosterInv == TypeOK /\ RosterMatchesOwner

\* The steps of a connection keep the phases in their type.
LEMMA ConnTyped ==
  ASSUME ConnTypeOK, NEW c \in Conn, ConnStep(c)
  PROVE  ConnTypeOK'
  BY DEF ConnTypeOK, ConnStep, Attach, Detach, Decide, Wake, MoveTo, Phase

\* So does moving one to a phase.
LEMMA MoveTyped ==
  ASSUME ConnTypeOK, NEW c \in Conn, NEW phase \in Phase, MoveTo(c, phase)
  PROVE  ConnTypeOK'
  BY DEF ConnTypeOK, MoveTo

-----------------------------------------------------------------------------
\* The four operations that take a user off the roster keep the two maps typed
\* and in step.
LEMMA LeaveKeeps ==
  ASSUME RosterInv, NEW ch \in Channel, NEW u \in User, LeaveVoice(ch, u)
  PROVE  /\ roster' \in [Channel -> SUBSET User]
         /\ owner' \in [User -> Claim \cup {NoOwner}]
         /\ RosterMatchesOwner'
  BY VoiceAssumption DEF RosterInv, TypeOK, RosterMatchesOwner, LeaveVoice, Claim

LEMMA ClearUserKeeps ==
  ASSUME RosterInv, NEW u \in User, ClearUser(u)
  PROVE  /\ roster' \in [Channel -> SUBSET User]
         /\ owner' \in [User -> Claim \cup {NoOwner}]
         /\ RosterMatchesOwner'
  BY VoiceAssumption DEF RosterInv, TypeOK, RosterMatchesOwner, ClearUser, Claim

LEMMA ClearChannelKeeps ==
  ASSUME RosterInv, NEW ch \in Channel, ClearChannel(ch)
  PROVE  /\ roster' \in [Channel -> SUBSET User]
         /\ owner' \in [User -> Claim \cup {NoOwner}]
         /\ RosterMatchesOwner'
  BY VoiceAssumption DEF RosterInv, TypeOK, RosterMatchesOwner, ClearChannel, Claim

LEMMA ClearConnectionKeeps ==
  ASSUME RosterInv, NEW u \in User, NEW c \in Conn, ClearConnection(u, c)
  PROVE  /\ roster' \in [Channel -> SUBSET User]
         /\ owner' \in [User -> Claim \cup {NoOwner}]
         /\ RosterMatchesOwner'
<1>1. CASE owner[u] # NoOwner /\ owner[u].conn = c
  <2>1. owner[u].chan \in Channel
    BY <1>1 DEF RosterInv, TypeOK, Claim
  <2>2. LeaveVoice(owner[u].chan, u)
    BY <1>1 DEF ClearConnection
  <2> QED BY <2>1, <2>2, LeaveKeeps
<1>2. CASE ~(owner[u] # NoOwner /\ owner[u].conn = c)
  BY <1>2 DEF ClearConnection, RosterInv, TypeOK, RosterMatchesOwner
<1> QED BY <1>1, <1>2

-----------------------------------------------------------------------------
LEMMA InitRoster == Init => RosterInv
  BY ConnAssumption, VoiceAssumption
  DEF Init, RosterInv, TypeOK, RosterMatchesOwner, ConnInit, ConnTypeOK, Phase

\* Every step keeps the invariant: one case for each action.
LEMMA NextRoster ==
  ASSUME RosterInv, [Next]_vars
  PROVE  RosterInv'
<1> USE DEF RosterInv
<1>1. ASSUME NEW c \in Conn, NEW ch \in Channel, JoinCheck(c, ch)
      PROVE  RosterInv'
  <2>1. Owner[c] \in User
    BY ConnAssumption
  <2>2. joining' \in [User -> Join \cup {NoJoin}]
    BY <1>1, <2>1 DEF JoinCheck, TypeOK, Join
  <2> QED BY <1>1, <2>2 DEF JoinCheck, TypeOK, RosterMatchesOwner, ConnTypeOK
<1>2. ASSUME NEW u \in User, JoinVoice(u)
      PROVE  RosterInv'
  <2> DEFINE claim == owner'[u]
  <2>1. joining[u] \in Join
    BY <1>2 DEF JoinVoice, TypeOK
  <2>2. joining[u].chan \in Channel /\ joining[u].conn \in Conn
    BY <2>1 DEF Join
  <2>3. claim \in Claim /\ claim.chan = joining[u].chan
    BY <1>2, <2>2 DEF JoinVoice, TypeOK, Claim
  <2>4. \A v \in User : v # u => owner'[v] = owner[v]
    BY <1>2 DEF JoinVoice, TypeOK
  <2>5. owner' \in [User -> Claim \cup {NoOwner}]
    BY <1>2, <2>3, <2>4 DEF JoinVoice, TypeOK
  <2>6. roster' \in [Channel -> SUBSET User]
    BY <1>2 DEF JoinVoice, TypeOK
  <2>7. RosterMatchesOwner'
    BY <1>2, <2>2, <2>3, <2>4, VoiceAssumption
    DEF JoinVoice, TypeOK, RosterMatchesOwner
  <2>8. joining' \in [User -> Join \cup {NoJoin}]
    BY <1>2 DEF JoinVoice, TypeOK
  <2> QED BY <1>2, <2>5, <2>6, <2>7, <2>8 DEF JoinVoice, TypeOK, ConnTypeOK
<1>3. ASSUME NEW u \in User, NEW ch \in Channel, LeaveFrame(u, ch)
      PROVE  RosterInv'
  BY <1>3, LeaveKeeps DEF LeaveFrame, TypeOK, ConnTypeOK
<1>4. ASSUME NEW u \in User, NEW ch \in Channel, Oust(ch, u)
      PROVE  RosterInv'
  BY <1>4, VoiceAssumption DEF Oust, TypeOK, ConnTypeOK, RosterMatchesOwner
<1>5. ASSUME NEW u \in User, NEW ch \in Channel, OustFromVoice(ch, u)
      PROVE  RosterInv'
  BY <1>5, LeaveKeeps DEF OustFromVoice, TypeOK, ConnTypeOK
<1>6. ASSUME NEW ch \in Channel, DeleteChannel(ch)
      PROVE  RosterInv'
  BY <1>6, VoiceAssumption DEF DeleteChannel, TypeOK, ConnTypeOK, RosterMatchesOwner
<1>7. ASSUME NEW ch \in Channel, ClearDeleted(ch)
      PROVE  RosterInv'
  BY <1>7, ClearChannelKeeps DEF ClearDeleted, TypeOK, ConnTypeOK
<1>8. ASSUME NEW u \in User, PurgeVoice(u)
      PROVE  RosterInv'
  BY <1>8, ClearUserKeeps DEF PurgeVoice, TypeOK, ConnTypeOK
<1>9. ASSUME NEW c \in Conn, Connection(c)
      PROVE  RosterInv'
  BY <1>9, ConnTyped DEF Connection, voiceVars, TypeOK, RosterMatchesOwner
<1>10. ASSUME NEW c \in Conn, CleanConnection(c)
       PROVE  RosterInv'
  <2>1. ConnTypeOK'
    BY <1>10, MoveTyped DEF CleanConnection, TypeOK, Phase
  <2>2. Owner[c] \in User
    BY ConnAssumption
  <2> QED BY <1>10, <2>1, <2>2, ClearConnectionKeeps DEF CleanConnection, TypeOK
<1>11. ASSUME NEW c \in Conn, StillGone(c)
       PROVE  RosterInv'
  <2>1. ConnTypeOK'
    BY <1>11, MoveTyped DEF StillGone, TypeOK, Phase
  <2> QED BY <1>11, <2>1 DEF StillGone, voiceVars, TypeOK, RosterMatchesOwner
<1>12. ASSUME NEW c \in Conn, ClearGone(c)
       PROVE  RosterInv'
  <2>1. ConnTypeOK'
    BY <1>12, MoveTyped DEF ClearGone, TypeOK, Phase
  <2>2. Owner[c] \in User
    BY ConnAssumption
  <2> QED BY <1>12, <2>1, <2>2, ClearUserKeeps DEF ClearGone, TypeOK
<1>13. CASE UNCHANGED vars
  BY <1>13 DEF vars, voiceVars, TypeOK, ConnTypeOK, RosterMatchesOwner
<1> QED
  BY <1>1, <1>2, <1>3, <1>4, <1>5, <1>6, <1>7, <1>8, <1>9, <1>10, <1>11, <1>12,
     <1>13
  DEF Next, Frame, Moderation, Ending

-----------------------------------------------------------------------------
LEMMA RosterInvariant == Spec => []RosterInv
<1>1. RosterInv /\ [Next]_vars => RosterInv'
  BY NextRoster
<1> QED BY <1>1, InitRoster, PTL DEF Spec

\* Every variable keeps to its type.
THEOREM VoiceTypeCorrect == Spec => []TypeOK
<1>1. RosterInv => TypeOK
  BY DEF RosterInv
<1> QED BY <1>1, RosterInvariant, PTL

\* The roster and the owner map agree after any interleaving of frames,
\* moderation and cleanups, so no user is in two channels' voice.
THEOREM RosterAgrees == Spec => []RosterMatchesOwner
<1>1. RosterInv => RosterMatchesOwner
  BY DEF RosterInv
<1> QED BY <1>1, RosterInvariant, PTL
-----------------------------------------------------------------------------
(****************************************************************************)
(* Nobody is left behind by a connection that ends.  The argument is that a  *)
(* user is always watched over: by a live connection, or by a task that      *)
(* still has the user-level cleanup to do; the task only gives that up when  *)
(* it sees the user connected, or when it has done it.                      *)
(****************************************************************************)
WatchedOver(u) == Connected(u) \/ VoiceCleanupAhead(u)

\* A connection's steps never leave its user unwatched.
LEMMA ConnWatches ==
  ASSUME TypeOK, NEW c \in Conn, ConnStep(c), NEW u \in User, WatchedOver(u)
  PROVE  WatchedOver(u)'
<1>1. PICK d \in Conn : /\ Owner[d] = u
                        /\ conn[d] \in {"live", "left", "linger", "closing", "acting"}
  BY DEF WatchedOver, Connected, VoiceCleanupAhead, CleanupAhead
<1>2. CASE d # c
  <2>1. conn'[d] = conn[d]
    BY <1>2 DEF TypeOK, ConnTypeOK, ConnStep, Attach, Detach, Decide, Wake, MoveTo
  <2> QED BY <1>1, <2>1 DEF WatchedOver, Connected, VoiceCleanupAhead, CleanupAhead
<1>3. CASE d = c
  <2>1. CASE Attach(c)
    BY <1>1, <1>3, <2>1 DEF Attach
  <2>2. CASE Detach(c)
    <3>1. conn'[c] = "left"
      BY <2>2 DEF Detach, MoveTo, TypeOK, ConnTypeOK
    <3> QED BY <1>1, <1>3, <3>1 DEF WatchedOver, VoiceCleanupAhead, CleanupAhead
  <2>3. CASE Decide(c) \/ Wake(c)
    <3>1. CASE Connected(u)
      <4>1. PICK e \in Conn : Owner[e] = u /\ conn[e] = "live"
        BY <3>1 DEF Connected
      <4>2. conn'[e] = "live"
        BY <2>3, <4>1 DEF Decide, Wake, MoveTo, TypeOK, ConnTypeOK
      <4> QED BY <4>1, <4>2 DEF WatchedOver, Connected
    <3>2. CASE ~Connected(u)
      <4>1. conn'[c] \in {"linger", "closing"}
        BY <1>1, <1>3, <2>3, <3>2 DEF Decide, Wake, MoveTo, TypeOK, ConnTypeOK
      <4> QED BY <1>1, <1>3, <4>1 DEF WatchedOver, VoiceCleanupAhead, CleanupAhead
    <3> QED BY <3>1, <3>2
  <2> QED BY <2>1, <2>2, <2>3 DEF ConnStep
<1> QED BY <1>2, <1>3

\* Nor does any other step, except the one that clears the user's voice.
LEMMA NextWatches ==
  ASSUME TypeOK, [Next]_vars, NEW u \in User, WatchedOver(u)
  PROVE  \/ WatchedOver(u)'
         \/ \E c \in Conn : ClearGone(c) /\ Owner[c] = u
<1> USE DEF WatchedOver, Connected, VoiceCleanupAhead, CleanupAhead
<1>1. CASE UNCHANGED conn
  BY <1>1
<1>2. ASSUME NEW c \in Conn, Connection(c)
      PROVE  WatchedOver(u)'
  BY <1>2, ConnWatches DEF Connection
<1>3. ASSUME NEW c \in Conn, CleanConnection(c)
      PROVE  WatchedOver(u)'
  BY <1>3 DEF CleanConnection, MoveTo, TypeOK, ConnTypeOK
<1>4. ASSUME NEW c \in Conn, StillGone(c)
      PROVE  WatchedOver(u)'
  <2>1. conn[c] = "closing"
    BY <1>4 DEF StillGone
  <2>2. CASE Connected(Owner[c])
    BY <1>4, <2>1, <2>2 DEF StillGone, MoveTo, TypeOK, ConnTypeOK
  <2>3. CASE ~Connected(Owner[c])
    BY <1>4, <2>1, <2>3 DEF StillGone, MoveTo, TypeOK, ConnTypeOK
  <2> QED BY <2>2, <2>3
<1>5. ASSUME NEW c \in Conn, ClearGone(c), Owner[c] # u
      PROVE  WatchedOver(u)'
  BY <1>5 DEF ClearGone, MoveTo, TypeOK, ConnTypeOK
<1>6. ASSUME NEW v \in User, NEW ch \in Channel,
             OustFromVoice(ch, v) \/ Oust(ch, v) \/ LeaveFrame(v, ch)
                 \/ DeleteChannel(ch) \/ ClearDeleted(ch) \/ PurgeVoice(v)
                 \/ JoinVoice(v)
      PROVE  UNCHANGED conn
  BY <1>6 DEF OustFromVoice, Oust, LeaveFrame, DeleteChannel, ClearDeleted,
              PurgeVoice, JoinVoice
<1>7. ASSUME NEW c \in Conn, NEW ch \in Channel, JoinCheck(c, ch)
      PROVE  UNCHANGED conn
  BY <1>7 DEF JoinCheck
<1>8. CASE UNCHANGED vars
  BY <1>8 DEF vars
<1>9. ASSUME NEW v \in User, PurgeVoice(v) \/ JoinVoice(v)
      PROVE  UNCHANGED conn
  BY <1>9 DEF PurgeVoice, JoinVoice
<1>10. ASSUME NEW ch \in Channel, DeleteChannel(ch) \/ ClearDeleted(ch)
       PROVE  UNCHANGED conn
  BY <1>10 DEF DeleteChannel, ClearDeleted
<1> QED
  BY <1>1, <1>2, <1>3, <1>4, <1>5, <1>6, <1>7, <1>8, <1>9, <1>10
  DEF Next, Frame, Moderation, Ending

\* Every operation on the owner map drops an entry, keeps it, or, for a join,
\* writes one that says how things stood.
LEMMA OwnerSteps ==
  ASSUME RosterInv, [Next]_vars, NEW u \in User, owner'[u] # NoOwner
  PROVE  owner'[u] = owner[u] \/ JoinVoice(u)
<1> USE DEF RosterInv, TypeOK
<1>1. ASSUME NEW c \in Conn, NEW ch \in Channel, JoinCheck(c, ch)
      PROVE  owner' = owner
  BY <1>1 DEF JoinCheck
<1>2. ASSUME NEW v \in User, JoinVoice(v), v # u
      PROVE  owner'[u] = owner[u]
  BY <1>2 DEF JoinVoice
<1>3. ASSUME NEW v \in User, NEW ch \in Channel, LeaveVoice(ch, v)
      PROVE  owner'[u] = owner[u]
  BY <1>3 DEF LeaveVoice
<1>4. ASSUME NEW v \in User, NEW ch \in Channel, LeaveFrame(v, ch) \/ OustFromVoice(ch, v)
      PROVE  owner'[u] = owner[u]
  BY <1>3, <1>4 DEF LeaveFrame, OustFromVoice
<1>5. ASSUME NEW v \in User, NEW ch \in Channel, Oust(ch, v)
      PROVE  owner' = owner
  BY <1>5 DEF Oust
<1>6. ASSUME NEW ch \in Channel, DeleteChannel(ch) \/ ClearDeleted(ch)
      PROVE  owner'[u] = owner[u]
  BY <1>6 DEF DeleteChannel, ClearDeleted, ClearChannel
<1>7. ASSUME NEW v \in User, PurgeVoice(v)
      PROVE  owner'[u] = owner[u]
  BY <1>7 DEF PurgeVoice, ClearUser
<1>8. ASSUME NEW c \in Conn, Connection(c) \/ StillGone(c)
      PROVE  owner' = owner
  BY <1>8 DEF Connection, StillGone, voiceVars
<1>9. ASSUME NEW c \in Conn, CleanConnection(c)
      PROVE  owner'[u] = owner[u]
  <2>1. Owner[c] \in User
    BY ConnAssumption
  <2>2. owner[Owner[c]] # NoOwner => owner[Owner[c]].chan \in Channel
    BY <2>1 DEF Claim
  <2> QED BY <1>3, <1>9, <2>1, <2>2 DEF CleanConnection, ClearConnection
<1>10. ASSUME NEW c \in Conn, ClearGone(c)
       PROVE  owner'[u] = owner[u]
  BY <1>10 DEF ClearGone, ClearUser
<1>11. CASE UNCHANGED vars
  BY <1>11 DEF vars, voiceVars
<1> QED
  BY <1>1, <1>2, <1>4, <1>5, <1>6, <1>7, <1>8, <1>9, <1>10, <1>11
  DEF Next, Frame, Moderation, Ending

\* No step leaves a ghost.
LEMMA NextNoGhost ==
  ASSUME RosterInv, NoGhost, [Next]_vars
  PROVE  NoGhost'
<1> SUFFICES ASSUME NEW u \in User, owner'[u] # NoOwner, ~(owner'[u].late)
             PROVE  WatchedOver(u)'
  BY DEF NoGhost, WatchedOver
<1>1. TypeOK
  BY DEF RosterInv
<1>2. CASE JoinVoice(u)
  <2>1. ~(~Connected(u) /\ ~VoiceCleanupAhead(u))
    BY <1>1, <1>2 DEF JoinVoice, TypeOK
  <2>2. UNCHANGED conn
    BY <1>2 DEF JoinVoice
  <2> QED
    BY <2>1, <2>2 DEF WatchedOver, Connected, VoiceCleanupAhead, CleanupAhead
<1>3. CASE owner'[u] = owner[u]
  <2>1. WatchedOver(u)
    BY <1>3 DEF NoGhost, WatchedOver
  <2>2. ASSUME NEW c \in Conn, ClearGone(c), Owner[c] = u
        PROVE  FALSE
    BY <1>1, <2>2 DEF ClearGone, ClearUser, TypeOK
  <2> QED BY <1>1, <2>1, <2>2, NextWatches
<1> QED BY <1>2, <1>3, OwnerSteps

\* Nobody who is offline, with the cleanups over, is still in voice, unless the
\* join was done after them: whatever the number of connections and the order
\* in which they end and come back.
THEOREM NoGhostEver == Spec => []NoGhost
<1>1. Init => NoGhost
  BY DEF Init, NoGhost
<1>2. RosterInv /\ NoGhost /\ [Next]_vars => NoGhost'
  BY NextNoGhost
<1> QED BY <1>1, <1>2, RosterInvariant, PTL DEF Spec

-----------------------------------------------------------------------------
\* No step leaves an outsider in voice: a membership ends together with the
\* promise to drop the user from the roster, and the promise is kept.
LEMMA NextMembersOnly ==
  ASSUME RosterInv, VoiceForMembersOnly, [Next]_vars
  PROVE  VoiceForMembersOnly'
<1> USE DEF RosterInv, TypeOK
<1> SUFFICES ASSUME NEW u \in User, owner'[u] # NoOwner, ~(owner'[u].overtaken)
             PROVE  LET ch == owner'[u].chan IN
                    u \in member'[ch] \/ <<ch, u>> \in ousting' \/ ch \in closed'
  BY DEF VoiceForMembersOnly
<1> DEFINE here == owner'[u].chan
<1>1. CASE JoinVoice(u)
  <2>1. joining[u].chan \in Channel
    BY <1>1 DEF JoinVoice, Join
  <2>2. /\ owner'[u].chan = joining[u].chan
        /\ owner'[u].overtaken =
              (/\ u \notin member[joining[u].chan]
               /\ <<joining[u].chan, u>> \notin ousting
               /\ joining[u].chan \notin closed)
    BY <1>1 DEF JoinVoice
  <2> QED BY <1>1, <2>2 DEF JoinVoice
<1>2. CASE owner'[u] = owner[u]
  <2>1. here \in Channel
    BY <1>2 DEF Claim
  <2>2. u \in member[here] \/ <<here, u>> \in ousting \/ here \in closed
    BY <1>2 DEF VoiceForMembersOnly
  <2>3. ASSUME UNCHANGED <<member, ousting, closed>>
        PROVE  u \in member'[here] \/ <<here, u>> \in ousting' \/ here \in closed'
    BY <2>2, <2>3
  <2>4. ASSUME NEW v \in User, NEW ch \in Channel, Oust(ch, v)
        PROVE  u \in member'[here] \/ <<here, u>> \in ousting' \/ here \in closed'
    BY <2>1, <2>2, <2>4 DEF Oust
  <2>5. ASSUME NEW v \in User, NEW ch \in Channel, OustFromVoice(ch, v)
        PROVE  u \in member'[here] \/ <<here, u>> \in ousting' \/ here \in closed'
    <3>1. ~(ch = here /\ v = u)
      BY <1>2, <2>5 DEF OustFromVoice, LeaveVoice
    <3> QED BY <2>2, <2>5, <3>1 DEF OustFromVoice
  <2>6. ASSUME NEW ch \in Channel, DeleteChannel(ch)
        PROVE  u \in member'[here] \/ <<here, u>> \in ousting' \/ here \in closed'
    BY <2>1, <2>2, <2>6 DEF DeleteChannel
  <2>7. ASSUME NEW ch \in Channel, ClearDeleted(ch)
        PROVE  u \in member'[here] \/ <<here, u>> \in ousting' \/ here \in closed'
    <3>1. ch # here
      BY <1>2, <2>7 DEF ClearDeleted, ClearChannel
    <3> QED BY <2>2, <2>7, <3>1 DEF ClearDeleted
  <2>8. ASSUME NEW v \in User, NEW ch \in Channel,
               LeaveFrame(v, ch) \/ JoinVoice(v) \/ PurgeVoice(v)
        PROVE  UNCHANGED <<member, ousting, closed>>
    BY <2>8 DEF LeaveFrame, JoinVoice, PurgeVoice
  <2>9. ASSUME NEW c \in Conn, NEW ch \in Channel, JoinCheck(c, ch)
        PROVE  UNCHANGED <<member, ousting, closed>>
    BY <2>9 DEF JoinCheck
  <2>10. ASSUME NEW c \in Conn,
                Connection(c) \/ CleanConnection(c) \/ StillGone(c) \/ ClearGone(c)
         PROVE  UNCHANGED <<member, ousting, closed>>
    BY <2>10 DEF Connection, CleanConnection, StillGone, ClearGone, voiceVars
  <2>11. CASE UNCHANGED vars
    BY <2>3, <2>11 DEF vars, voiceVars
  <2> QED
    BY <2>1, <2>3, <2>4, <2>5, <2>6, <2>7, <2>8, <2>9, <2>10, <2>11
    DEF Next, Frame, Moderation, Ending
<1> QED BY <1>1, <1>2, OwnerSteps

\* A user who may not access a channel is out of its voice as soon as the
\* handler that ended the access is over, unless a join overtook it.
THEOREM MembersOnly == Spec => []VoiceForMembersOnly
<1>1. Init => VoiceForMembersOnly
  BY DEF Init, VoiceForMembersOnly
<1>2. RosterInv /\ VoiceForMembersOnly /\ [Next]_vars => VoiceForMembersOnly'
  BY NextMembersOnly
<1> QED BY <1>1, <1>2, RosterInvariant, PTL DEF Spec

\* The end of a connection takes nothing from a live one, but for a user-level
\* cleanup past its last look.
THEOREM LiveVoiceSpared == Spec => EndSparesLiveVoice
<1> DEFINE Spares ==
      \A c \in Conn : conn[c] # conn'[c] =>
          \A u \in User :
              owner[u] # NoOwner /\ conn[owner[u].conn] = "live"
                  => owner'[u] = owner[u] \/ conn[c] = "acting"
<1>1. RosterInv /\ [Next]_vars => [Spares]_vars
  <2> SUFFICES ASSUME RosterInv, Next,
                      NEW c \in Conn, conn[c] # conn'[c],
                      NEW u \in User, owner[u] # NoOwner,
                      conn[owner[u].conn] = "live", conn[c] # "acting"
               PROVE  owner'[u] = owner[u]
    OBVIOUS
  <2>1. TypeOK
    BY DEF RosterInv
  <2>2. ASSUME NEW d \in Conn, Connection(d) \/ StillGone(d)
        PROVE  owner' = owner
    BY <2>2 DEF Connection, StillGone, voiceVars
  <2>3. ASSUME NEW d \in Conn, CleanConnection(d)
        PROVE  owner'[u] = owner[u]
    <3>1. owner[Owner[d]] # NoOwner /\ owner[Owner[d]].conn = d => Owner[d] # u
      BY <2>3 DEF CleanConnection
    <3> QED
      BY <2>1, <2>3, <3>1, ConnAssumption
      DEF CleanConnection, ClearConnection, LeaveVoice, TypeOK
  <2>4. ASSUME NEW d \in Conn, ClearGone(d)
        PROVE  FALSE
    <3>1. d = c
      BY <2>1, <2>4 DEF ClearGone, MoveTo, TypeOK, ConnTypeOK
    <3> QED BY <2>4, <3>1 DEF ClearGone
  <2>5. ASSUME NEW v \in User, NEW ch \in Channel,
               LeaveFrame(v, ch) \/ OustFromVoice(ch, v) \/ Oust(ch, v)
        PROVE  FALSE
    BY <2>5 DEF LeaveFrame, OustFromVoice, Oust
  <2>6. ASSUME NEW v \in User, JoinVoice(v) \/ PurgeVoice(v)
        PROVE  FALSE
    BY <2>6 DEF JoinVoice, PurgeVoice
  <2>7. ASSUME NEW ch \in Channel, DeleteChannel(ch) \/ ClearDeleted(ch)
        PROVE  FALSE
    BY <2>7 DEF DeleteChannel, ClearDeleted
  <2>8. ASSUME NEW d \in Conn, NEW ch \in Channel, JoinCheck(d, ch)
        PROVE  FALSE
    BY <2>8 DEF JoinCheck
  <2> QED
    BY <2>2, <2>3, <2>4, <2>5, <2>6, <2>7, <2>8
    DEF Next, Frame, Moderation, Ending
<1> QED BY <1>1, RosterInvariant, PTL DEF Spec, EndSparesLiveVoice
================================================================================
