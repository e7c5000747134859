------------------------------ MODULE VoiceRoster ------------------------------
(****************************************************************************)
(* Voice channels: the CHANNEL_VOICE roster and the VOICE_OWNER map of       *)
(* utils/voice/channels.rs, the channel-voice:* handlers, the HTTP handlers  *)
(* that take a member out of a channel or delete it, and what the end of a   *)
(* connection does to the roster.                                           *)
(*                                                                          *)
(* The two maps are always locked together, so an operation is one step; the *)
(* channel is read from the database before a join, in a step of its own.    *)
(****************************************************************************)
EXTENDS Connections

CONSTANTS
    Channel,     \* text channels with voice
    MaxOusts,    \* bound: memberships and channels a behaviour ends
    NoOwner,     \* VOICE_OWNER has no entry for the user
    NoJoin       \* no join of the user is in progress

(****************************************************************************)
(* A VOICE_OWNER entry: the channel and the connection that joined.  The     *)
(* last two fields are history: "late", that the user was offline and        *)
(* cleaned up after when the join was done; "overtaken", that the membership *)
(* had ended by then.                                                       *)
(****************************************************************************)
Claim == [chan : Channel, conn : Conn, late : BOOLEAN, overtaken : BOOLEAN]

\* A join whose access check has passed.
Join == [chan : Channel, conn : Conn]

ASSUME VoiceAssumption ==
    /\ MaxOusts \in Nat
    /\ NoOwner \notin Claim
    /\ NoJoin \notin Join

VARIABLES
    roster,    \* CHANNEL_VOICE: who is in each channel's voice
    owner,     \* VOICE_OWNER: what each user has joined, and from where
    joining,   \* the join each user's call FIFO is in the middle of
    member,    \* who may access each channel (none, once it is deleted)
    ousting,   \* <<channel, user>>: out of the database, not yet of the roster
    closed,    \* channels deleted in the database, not yet in the roster
    ousts      \* how many memberships and channels have ended

voiceVars == <<roster, owner, joining, member, ousting, closed, ousts>>
vars == <<conn, voiceVars>>

TypeOK ==
    /\ ConnTypeOK
    /\ roster \in [Channel -> SUBSET User]
    /\ owner \in [User -> Claim \cup {NoOwner}]
    /\ joining \in [User -> Join \cup {NoJoin}]
    /\ member \in [Channel -> SUBSET User]
    /\ ousting \subseteq Channel \X User
    /\ closed \subseteq Channel
    /\ ousts \in 0..MaxOusts

Init ==
    /\ ConnInit
    /\ roster = [ch \in Channel |-> {}]
    /\ owner = [u \in User |-> NoOwner]
    /\ joining = [u \in User |-> NoJoin]
    /\ member = [ch \in Channel |-> User]
    /\ ousting = {}
    /\ closed = {}
    /\ ousts = 0

\* u's user-level cleanup has passed, or u never needs one.
VoiceCleanupAhead(u) ==
    CleanupAhead(u) \/ \E c \in Conn : Owner[c] = u /\ conn[c] = "acting"

-----------------------------------------------------------------------------
(****************************************************************************)
(* The operations of utils/voice/channels.rs on the two maps.               *)
(****************************************************************************)
\* Mutant of ClearUser: the owner entry is left behind.
ClearRosterOnly(u) ==
    /\ roster' = [ch \in Channel |-> roster[ch] \ {u}]
    /\ UNCHANGED owner

\* clear_user_from_all_channels
ClearUser(u) ==
    /\ roster' = [ch \in Channel |-> roster[ch] \ {u}]
    /\ owner' = [owner EXCEPT ![u] = NoOwner]

\* leave_channel_voice: the entry goes only if it is about this channel.
LeaveVoice(ch, u) ==
    /\ roster' = [roster EXCEPT ![ch] = @ \ {u}]
    /\ owner' = IF owner[u] # NoOwner /\ owner[u].chan = ch
                THEN [owner EXCEPT ![u] = NoOwner]
                ELSE owner

\* clear_channel_voice
ClearChannel(ch) ==
    /\ roster' = [roster EXCEPT ![ch] = {}]
    /\ owner' = [u \in User |->
           IF owner[u] # NoOwner /\ owner[u].chan = ch THEN NoOwner ELSE owner[u]]

\* Mutant of ClearConnection: whichever connection made the join.
ClearAnyway(u, c) ==
    IF owner[u] # NoOwner
    THEN LeaveVoice(owner[u].chan, u)
    ELSE UNCHANGED <<roster, owner>>

\* clear_connection: nothing happens unless this connection made the join.
ClearConnection(u, c) ==
    IF owner[u] # NoOwner /\ owner[u].conn = c
    THEN LeaveVoice(owner[u].chan, u)
    ELSE UNCHANGED <<roster, owner>>

-----------------------------------------------------------------------------
(****************************************************************************)
(* handle_channel_voice_join: the channel is read and the access checked ... *)
(****************************************************************************)
JoinCheck(c, ch) ==
    LET u == Owner[c] IN
    /\ MayHaveQueuedFrames(c)
    /\ joining[u] = NoJoin
    /\ u \in member[ch]
    /\ joining' = [joining EXCEPT ![u] = [chan |-> ch, conn |-> c]]
    /\ UNCHANGED <<conn, roster, owner, member, ousting, closed, ousts>>

\* Mutant of JoinVoice: the user stays in the voice of another channel.
JoinAlso(u) ==
    LET ch == joining[u].chan IN
    /\ joining[u] # NoJoin
    /\ joining' = [joining EXCEPT ![u] = NoJoin]
    /\ roster' = [roster EXCEPT ![ch] = @ \cup {u}]
    /\ owner' = [owner EXCEPT ![u] =
           [chan |-> ch, conn |-> joining[u].conn,
            late |-> ~Connected(u) /\ ~VoiceCleanupAhead(u),
            overtaken |-> u \notin member[ch] /\ <<ch, u>> \notin ousting
                          /\ ch \notin closed]]
    /\ UNCHANGED <<conn, member, ousting, closed, ousts>>

\* ... and join_channel_voice moves the user there from any other channel.
JoinVoice(u) ==
    LET ch == joining[u].chan
        c  == joining[u].conn IN
    /\ joining[u] # NoJoin
    /\ joining' = [joining EXCEPT ![u] = NoJoin]
    /\ roster' = [x \in Channel |->
           IF x = ch THEN roster[x] \cup {u} ELSE roster[x] \ {u}]
    /\ owner' = [owner EXCEPT ![u] =
           [chan |-> ch, conn |-> c,
            late |-> ~Connected(u) /\ ~VoiceCleanupAhead(u),
            overtaken |-> u \notin member[ch] /\ <<ch, u>> \notin ousting
                          /\ ch \notin closed]]
    /\ UNCHANGED <<conn, member, ousting, closed, ousts>>

\* handle_channel_voice_leave: who is in the roster may leave, member or not.
LeaveFrame(u, ch) ==
    /\ joining[u] = NoJoin
    /\ \E c \in Conn : Owner[c] = u /\ MayHaveQueuedFrames(c)
    /\ u \in roster[ch] \cup member[ch]
    /\ LeaveVoice(ch, u)
    /\ UNCHANGED <<conn, joining, member, ousting, closed, ousts>>

-----------------------------------------------------------------------------
\* Mutant of Oust: the two ids are handed over in the wrong order.
OustSwapped(ch, u) ==
    /\ u \in member[ch]
    /\ ousts < MaxOusts
    /\ ousts' = ousts + 1
    /\ member' = [member EXCEPT ![ch] = @ \ {u}]
    /\ ousting' = ousting \cup {<<u, ch>>}
    /\ UNCHANGED <<conn, roster, owner, joining, closed>>

(****************************************************************************)
(* A member leaves, is kicked or is banned: the database first, the roster   *)
(* after several other awaits.                                              *)
(****************************************************************************)
Oust(ch, u) ==
    /\ u \in member[ch]
    /\ ousts < MaxOusts
    /\ ousts' = ousts + 1
    /\ member' = [member EXCEPT ![ch] = @ \ {u}]
    /\ ousting' = ousting \cup {<<ch, u>>}
    /\ UNCHANGED <<conn, roster, owner, joining, closed>>

\* Mutant of OustFromVoice: the roster is forgotten.
OustFromTextOnly(ch, u) ==
    /\ <<ch, u>> \in ousting
    /\ ousting' = ousting \ {<<ch, u>>}
    /\ UNCHANGED <<conn, roster, owner, joining, member, closed, ousts>>

OustFromVoice(ch, u) ==
    /\ <<ch, u>> \in ousting
    /\ ousting' = ousting \ {<<ch, u>>}
    /\ LeaveVoice(ch, u)
    /\ UNCHANGED <<conn, joining, member, closed, ousts>>

\* delete_channel: the same order, for everybody in it.
DeleteChannel(ch) ==
    /\ member[ch] # {}
    /\ ousts < MaxOusts
    /\ ousts' = ousts + 1
    /\ member' = [member EXCEPT ![ch] = {}]
    /\ closed' = closed \cup {ch}
    /\ UNCHANGED <<conn, roster, owner, joining, ousting>>

ClearDeleted(ch) ==
    /\ ch \in closed
    /\ closed' = closed \ {ch}
    /\ ClearChannel(ch)
    /\ UNCHANGED <<conn, joining, member, ousting, ousts>>

\* The account of u is deleted: it loses its voice presence first.
PurgeVoice(u) ==
    /\ owner[u] # NoOwner
    /\ ClearUser(u)
    /\ UNCHANGED <<conn, joining, member, ousting, closed, ousts>>

-----------------------------------------------------------------------------
(****************************************************************************)
(* Connections.                                                             *)
(****************************************************************************)
Connection(c) == ConnStep(c) /\ UNCHANGED voiceVars

CleanConnection(c) ==
    /\ conn[c] = "partial"
    /\ MoveTo(c, "done")
    /\ ClearConnection(Owner[c], c)
    /\ UNCHANGED <<joining, member, ousting, closed, ousts>>

\* on_user_disconnected, after the calls: the last look at the connections ...
StillGone(c) ==
    /\ conn[c] = "closing"
    /\ MoveTo(c, IF Connected(Owner[c]) THEN "done" ELSE "acting")
    /\ UNCHANGED voiceVars

\* Mutant of ClearGone: only what this connection had joined is cleared.
ClearOwnJoin(c) ==
    /\ conn[c] = "acting"
    /\ MoveTo(c, "done")
    /\ ClearConnection(Owner[c], c)
    /\ UNCHANGED <<joining, member, ousting, closed, ousts>>

\* ... and the roster is cleared, whether or not the user is back by now.
ClearGone(c) ==
    /\ conn[c] = "acting"
    /\ MoveTo(c, "done")
    /\ ClearUser(Owner[c])
    /\ UNCHANGED <<joining, member, ousting, closed, ousts>>

-----------------------------------------------------------------------------
Frame ==
    \/ \E c \in Conn, ch \in Channel : JoinCheck(c, ch)
    \/ \E u \in User : JoinVoice(u)
    \/ \E u \in User, ch \in Channel : LeaveFrame(u, ch)

Moderation ==
    \/ \E u \in User, ch \in Channel : Oust(ch, u) \/ OustFromVoice(ch, u)
    \/ \E ch \in Channel : DeleteChannel(ch) \/ ClearDeleted(ch)
    \/ \E u \in User : PurgeVoice(u)

Ending == \E c \in Conn :
    Connection(c) \/ CleanConnection(c) \/ StillGone(c) \/ ClearGone(c)

Next == Frame \/ Moderation \/ Ending

Spec == Init /\ [][Next]_vars

\* A connection's task, once its loop has ended, runs to its end.
Fairness ==
    \A c \in Conn : WF_vars(\/ (Decide(c) \/ Wake(c)) /\ UNCHANGED voiceVars
                            \/ CleanConnection(c) \/ StillGone(c) \/ ClearGone(c))

FairSpec == Spec /\ Fairness

-----------------------------------------------------------------------------
(****************************************************************************)
(* Properties.                                                              *)
(****************************************************************************)
\* The two maps tell one story: a user is in the roster of exactly the channel
\* its owner entry names, hence in one channel at most, whichever of the six
\* operations on the maps came last.
RosterMatchesOwner ==
    \A u \in User, ch \in Channel :
        u \in roster[ch] <=> owner[u] # NoOwner /\ owner[u].chan = ch

\* Nobody is left in voice after going offline, unless the join itself was done
\* after the user's cleanup.
NoGhost ==
    \A u \in User :
        owner[u] # NoOwner => Connected(u) \/ VoiceCleanupAhead(u) \/ owner[u].late

\* Nobody is left in the voice of a channel they may not access, unless the
\* handler that ended their access has still to drop them, or the join's check
\* had passed before and the join came after that handler.
VoiceForMembersOnly ==
    \A u \in User :
        owner[u] # NoOwner =>
            LET ch == owner[u].chan IN
            \/ u \in member[ch]
            \/ <<ch, u>> \in ousting
            \/ ch \in closed
            \/ owner[u].overtaken

\* What a live connection joined is not taken away by the end of another one,
\* but by a user-level cleanup that had already found the user gone.
EndSparesLiveVoice ==
    [][\A c \in Conn : conn[c] # conn'[c] =>
          \A u \in User :
              owner[u] # NoOwner /\ conn[owner[u].conn] = "live"
                  => owner'[u] = owner[u] \/ conn[c] = "acting"]_vars

\* A user who goes offline and stays so leaves the roster.
GhostsLeave ==
    \A u \in User :
        (owner[u] # NoOwner /\ ~Connected(u))
            ~> (owner[u] = NoOwner \/ Connected(u) \/ owner[u].late)

\* utils/voice/channels.rs:6, "Kick z kanalu tekstowego powinien zrzucic voice":
\* once a kick is over, the kicked user is out of the channel's voice.
KickDropsVoice ==
    \A u \in User, ch \in Channel :
        u \in roster[ch] => u \in member[ch] \/ <<ch, u>> \in ousting \/ ch \in closed
================================================================================
