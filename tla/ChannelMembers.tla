------------------------------ MODULE ChannelMembers ------------------------------
(****************************************************************************)
(* The members of a channel, its bans and mutes, and one invite to it           *)
(* (controllers/channels.rs, controllers/invites.rs, utils/channel/             *)
(* moderation.rs).  The admin is not among Person: it is always a member.      *)
(*                                                                          *)
(* A request looks at the channel and then writes, one document at a time.      *)
(* Each write is atomic ($addToSet, $pull, a pipeline), none depends on what    *)
(* was seen: what the look has found may be old by then.  Act is what requests  *)
(* under way hold.  Every write may fail; what becomes of the request then      *)
(* differs from write to write.                                              *)
(****************************************************************************)
EXTENDS Integers, FiniteSets

CONSTANTS
    Person,    \* users, without the channel's admin
    Nobody,    \* no user
    MaxUses,   \* maxUses of the invite
    MaxActing, \* bound: requests under way at once
    MaxActs,   \* bound: requests begun
    MaxFaults  \* bound: database errors, and crashes of the process

VARIABLES
    alive,      \* the Channel document is there
    members, banned, muted,   \* its lists; of bans and mutes those in force
    readStates, \* who has a ChannelReadState
    invite,     \* "open", "closed" (revoked or expired), "gone"
    uses,       \* useCount of the invite
    act,        \* the requests under way
    acts, faults,
    joins,      \* history: members added by the invite
    lost,       \* history: uses that were to be given back and were not
    overtaken,  \* history: members added on a look from before their ban
    botched,    \* history: members whose ban failed half way and was not undone
    sentenced,  \* history: banned, and neither unbanned nor the time over
    lifted,     \* history: bans a mute took away, or the failure of a repeated ban
    unread      \* history: members whose read state a request deleted late

channelDoc == <<alive, members, banned, muted>>
inviteDoc == <<invite, uses>>
tallies == <<joins, lost>>
verdicts == <<overtaken, botched, sentenced, lifted>>
memberVars == <<channelDoc, readStates, inviteDoc, act, acts, faults, tallies, verdicts, unread>>

Acting == 1 .. MaxActing
Free == [op |-> "none", at |-> "free", who |-> Nobody, late |-> FALSE]

MemberTypeOK ==
    /\ alive \in BOOLEAN
    /\ members \subseteq Person /\ banned \subseteq Person /\ muted \subseteq Person
    /\ readStates \subseteq Person
    /\ invite \in {"open", "closed", "gone"}
    /\ uses \in 0 .. MaxUses
    /\ act \in [Acting ->
            [op : {"none", "accept", "add", "leave", "kick", "ban", "unban", "mute", "unmute",
                   "delete"},
             at : {"free", "use", "again", "release", "seed", "join", "pull", "forget", "upsert",
                   "undo", "unmute", "lift", "mute", "wipe", "invites", "states", "channel"},
             who : Person \union {Nobody}, late : BOOLEAN]]
    /\ acts \in 0 .. MaxActs
    /\ faults \in 0 .. MaxFaults
    /\ joins \in Nat /\ lost \in Nat
    /\ \A ps \in {overtaken, botched, sentenced, lifted, unread} : ps \subseteq Person

\* A channel as create_channel leaves it, with its first members.
MemberInit ==
    /\ alive = TRUE
    /\ \E ps \in SUBSET Person : members = ps /\ readStates = ps
    /\ banned = {} /\ muted = {}
    /\ invite = "open" /\ uses = 0
    /\ act = [r \in Acting |-> Free]
    /\ acts = 0 /\ faults = 0 /\ joins = 0 /\ lost = 0
    /\ overtaken = {} /\ botched = {} /\ sentenced = {} /\ lifted = {} /\ unread = {}

-----------------------------------------------------------------------------
\* A request begins with a look at the channel and takes the first free place.
Looks(r, op, at, p) ==
    /\ alive
    /\ act[r] = Free
    /\ \A q \in Acting : q < r => act[q] # Free
    /\ acts < MaxActs
    /\ acts' = acts + 1
    /\ act' = [act EXCEPT ![r] = [op |-> op, at |-> at, who |-> p, late |-> FALSE]]
    /\ UNCHANGED <<channelDoc, readStates, inviteDoc, faults, tallies, verdicts, unread>>

Is(r, at) == act[r].at = at
To(r, at) == [act EXCEPT ![r].at = at]
Over(r) == [act EXCEPT ![r] = Free]

\* Requests that looked before this and have p still in hand.
MadeLate(then, p, ops, places) ==
    [q \in Acting |->
        [then[q] EXCEPT !.late =
            @ \/ (then[q].who = p /\ then[q].op \in ops /\ then[q].at \in places)]]

Fault == faults < MaxFaults /\ faults' = faults + 1

-----------------------------------------------------------------------------
(****************************************************************************)
(* accept_invite and add_user_to_channel.                                     *)
(****************************************************************************)
\* accept_invite: the invite, and the first look at the channel.
AcceptLook(r) ==
    \E p \in Person \ (banned \union members) :
        invite = "open" /\ uses < MaxUses /\ Looks(r, "accept", "use", p)

\* add_user_to_channel: the target is no member, not banned, and a friend.
AddLook(r) ==
    \E p \in Person \ (banned \union members) : Looks(r, "add", "seed", p)

\* Mutant of TakeUse: the count is not compared.
TakeUseAnyway(r) ==
    /\ Is(r, "use")
    /\ IF invite = "open"
       THEN uses' = uses + 1 /\ act' = To(r, "again")
       ELSE UNCHANGED uses /\ act' = Over(r)
    /\ UNCHANGED <<channelDoc, readStates, invite, acts, faults, tallies, verdicts, unread>>

\* Invite::try_register_use
TakeUse(r) ==
    /\ Is(r, "use")
    /\ IF invite = "open" /\ uses < MaxUses
       THEN uses' = uses + 1 /\ act' = To(r, "again")
       ELSE UNCHANGED uses /\ act' = Over(r)
    /\ UNCHANGED <<channelDoc, readStates, invite, acts, faults, tallies, verdicts, unread>>

\* Mutant of LookAgain: only that the channel is there.
LookIfThere(r) ==
    /\ Is(r, "again")
    /\ act' = IF alive THEN To(r, "seed") ELSE To(r, "release")
    /\ UNCHANGED <<channelDoc, readStates, inviteDoc, acts, faults, tallies, verdicts, unread>>

\* The second look at the channel, and one at the user.
LookAgain(r) ==
    /\ Is(r, "again")
    /\ act' = IF alive /\ act[r].who \notin banned THEN To(r, "seed") ELSE To(r, "release")
    /\ UNCHANGED <<channelDoc, readStates, inviteDoc, acts, faults, tallies, verdicts, unread>>

\* Mutant of Seed: whether it worked is not asked.
SeedOrNot(r) ==
    /\ Is(r, "seed")
    /\ \/ readStates' = readStates \union {act[r].who} /\ UNCHANGED faults
       \/ UNCHANGED readStates /\ Fault
    /\ unread' = unread \ {act[r].who}
    /\ act' = To(r, "join")
    /\ UNCHANGED <<channelDoc, inviteDoc, acts, tallies, verdicts>>

\* ChannelReadState::seed_if_missing
Seed(r) ==
    /\ Is(r, "seed")
    /\ readStates' = readStates \union {act[r].who}
    /\ unread' = unread \ {act[r].who}
    /\ act' = To(r, "join")
    /\ UNCHANGED <<channelDoc, inviteDoc, acts, faults, tallies, verdicts>>

\* $addToSet.  A use is for nothing when nothing is modified: no channel, or
\* (in the same millisecond as the write before) a member already.
Join(r) ==
    /\ Is(r, "join")
    /\ LET p == act[r].who
           taken == act[r].op = "accept"
       IN \/ /\ alive
             /\ members' = members \union {p}
             /\ overtaken' = IF act[r].late /\ p \in banned THEN overtaken \union {p} ELSE overtaken
             /\ joins' = IF taken THEN joins + 1 ELSE joins
             /\ act' = Over(r)
          \/ /\ ~alive \/ p \in members
             /\ act' = IF taken THEN To(r, "release") ELSE Over(r)
             /\ UNCHANGED <<members, overtaken, joins>>
    /\ UNCHANGED <<alive, banned, muted, readStates, inviteDoc, acts, faults, lost,
                   botched, sentenced, lifted, unread>>

\* An error before a member is added: a use is to be given back.
AddFails(r) ==
    /\ act[r].at \in {"use", "again", "seed", "join"}
    /\ Fault
    /\ act' = IF act[r].op = "accept" /\ ~Is(r, "use") THEN To(r, "release") ELSE Over(r)
    /\ UNCHANGED <<channelDoc, readStates, inviteDoc, acts, tallies, verdicts, unread>>

\* Mutant of Release: the count may not go back.
ReleaseNothing(r) ==
    /\ Is(r, "release")
    /\ act' = Over(r)
    /\ UNCHANGED <<channelDoc, readStates, inviteDoc, acts, faults, tallies, verdicts, unread>>

\* Invite::release_use; its error is ignored.
Release(r) ==
    /\ Is(r, "release")
    /\ \/ /\ uses' = IF invite # "gone" THEN uses - 1 ELSE uses
          /\ UNCHANGED <<faults, lost>>
       \/ lost' = lost + 1 /\ Fault /\ UNCHANGED uses
    /\ act' = Over(r)
    /\ UNCHANGED <<channelDoc, readStates, invite, acts, joins, verdicts, unread>>

-----------------------------------------------------------------------------
(****************************************************************************)
(* leave_channel, kick_channel_member, ban_channel_member.                    *)
(****************************************************************************)
\* Whether the user is a member at all none of them asks.
LeaveLook(r) == \E p \in Person : Looks(r, "leave", "pull", p)
KickLook(r) == \E p \in Person : Looks(r, "kick", "pull", p)
BanLook(r) == \E p \in Person : Looks(r, "ban", "upsert", p)

\* upsert_banned_member
BanUpsert(r) ==
    /\ Is(r, "upsert")
    /\ LET p == act[r].who
       IN  /\ banned' = IF alive THEN banned \union {p} ELSE banned
           /\ sentenced' = IF alive THEN sentenced \union {p} ELSE sentenced
           /\ lifted' = lifted \ {p}
           /\ act' = MadeLate(To(r, "pull"), p, {"accept", "add"}, {"seed", "join"})
    /\ UNCHANGED <<alive, members, muted, readStates, inviteDoc, acts, faults, tallies,
                   overtaken, botched, unread>>

\* $pull from members.
Pull(r) ==
    /\ Is(r, "pull")
    /\ LET p == act[r].who
           next == IF act[r].op = "leave" THEN IF alive THEN To(r, "forget") ELSE Over(r)
                   ELSE To(r, "unmute")
       IN  /\ members' = members \ {p}
           /\ overtaken' = overtaken \ {p}
           /\ botched' = botched \ {p}
           /\ act' = MadeLate(next, p, {"mute"}, {"mute", "lift"})
    /\ UNCHANGED <<alive, banned, muted, readStates, inviteDoc, acts, faults, tallies,
                   sentenced, lifted, unread>>

\* It fails: a ban that is written already is taken back, in up to three tries.
PullFails(r) ==
    /\ Is(r, "pull")
    /\ Fault
    /\ act' = IF act[r].op = "ban" THEN To(r, "undo") ELSE Over(r)
    /\ UNCHANGED <<channelDoc, readStates, inviteDoc, acts, tallies, verdicts, unread>>

UndoBan(r) ==
    /\ Is(r, "undo")
    /\ LET p == act[r].who
       IN \/ /\ banned' = banned \ {p}
             /\ lifted' = lifted \union {p}
             /\ UNCHANGED <<botched, faults>>
          \/ /\ botched' = botched \union ({p} \intersect members)
             /\ Fault
             /\ UNCHANGED <<banned, lifted>>
    /\ act' = Over(r)
    /\ UNCHANGED <<alive, members, muted, readStates, inviteDoc, acts, tallies,
                   overtaken, sentenced, unread>>

\* The read state of who has gone is deleted, in vain or late if the user has come
\* back, or is coming back, meanwhile.  An error is ignored.
Forget(r) ==
    /\ Is(r, "forget")
    /\ LET p == act[r].who
           back == p \in members \/ \E q \in Acting : act[q].who = p /\ Is(q, "join")
       IN \/ /\ readStates' = readStates \ {p}
             /\ unread' = IF back THEN unread \union {p} ELSE unread
             /\ UNCHANGED faults
          \/ Fault /\ UNCHANGED <<readStates, unread>>
    /\ act' = Over(r)
    /\ UNCHANGED <<channelDoc, inviteDoc, acts, tallies, verdicts>>

-----------------------------------------------------------------------------
(****************************************************************************)
(* unban_channel_member, mute_channel_member, unmute_channel_member.           *)
(****************************************************************************)
\* Mutant of MuteLook: anyone may be muted.
MuteAnyone(r) == \E p \in Person : Looks(r, "mute", "mute", p)

\* Only a member may be muted.
MuteLook(r) == \E p \in members : Looks(r, "mute", "mute", p)

UnbanLook(r) == \E p \in Person : Looks(r, "unban", "lift", p)
UnmuteLook(r) == \E p \in Person : Looks(r, "unmute", "unmute", p)

\* upsert_muted_member
Mute(r) ==
    /\ Is(r, "mute")
    /\ muted' = IF alive THEN muted \union {act[r].who} ELSE muted
    /\ act' = To(r, "lift")
    /\ UNCHANGED <<alive, members, banned, readStates, inviteDoc, acts, faults, tallies, verdicts, unread>>

\* pull_banned_member: unban, and the end of a mute, where an error is ignored.
Lift(r) ==
    /\ Is(r, "lift")
    /\ LET p == act[r].who
           unawares == act[r].op = "mute" /\ p \in banned /\ (act[r].late \/ p \in members)
       IN  /\ banned' = banned \ {p}
           /\ sentenced' = IF act[r].op = "unban" THEN sentenced \ {p} ELSE sentenced
           /\ lifted' = IF unawares \/ act[r].op = "unban" THEN lifted \union {p} ELSE lifted
    /\ act' = Over(r)
    /\ UNCHANGED <<alive, members, muted, readStates, inviteDoc, acts, faults, tallies,
                   overtaken, botched, unread>>

\* pull_muted_member: unmute, and a step of kick and ban, where an error is ignored.
Unmute(r) ==
    /\ Is(r, "unmute")
    /\ \/ muted' = muted \ {act[r].who} /\ UNCHANGED faults
       \/ UNCHANGED muted /\ Fault
    /\ act' = IF act[r].op = "unmute" THEN Over(r) ELSE To(r, "forget")
    /\ UNCHANGED <<alive, members, banned, readStates, inviteDoc, acts, tallies, verdicts, unread>>

\* An error at the first write of a ban, a mute or a deletion, or at the one of an
\* unban, ends the request; so does one at the end of a mute.
WriteFails(r) ==
    /\ act[r].at \in {"upsert", "mute", "lift", "wipe", "channel"}
    /\ Fault
    /\ act' = Over(r)
    /\ UNCHANGED <<channelDoc, readStates, inviteDoc, acts, tallies, verdicts, unread>>

-----------------------------------------------------------------------------
(****************************************************************************)
(* delete_channel, the invite, and time.                                      *)
(****************************************************************************)
DeleteLook(r) == Looks(r, "delete", "wipe", Nobody)

\* wipe_live_messages
DeleteMessages(r) ==
    /\ Is(r, "wipe")
    /\ act' = To(r, "invites")
    /\ UNCHANGED <<channelDoc, readStates, inviteDoc, acts, faults, tallies, verdicts, unread>>

DeleteInvites(r) ==
    /\ Is(r, "invites")
    /\ \/ invite' = "gone" /\ UNCHANGED faults
       \/ UNCHANGED invite /\ Fault
    /\ act' = To(r, "states")
    /\ UNCHANGED <<channelDoc, readStates, uses, acts, tallies, verdicts, unread>>

DeleteReadStates(r) ==
    /\ Is(r, "states")
    /\ \/ /\ readStates' = {}
          /\ unread' = unread \union members \union
                {p \in Person : \E q \in Acting : act[q].who = p /\ Is(q, "join")}
          /\ UNCHANGED faults
       \/ Fault /\ UNCHANGED <<readStates, unread>>
    /\ act' = To(r, "channel")
    /\ UNCHANGED <<channelDoc, inviteDoc, acts, tallies, verdicts>>

DeleteDocument(r) ==
    /\ Is(r, "channel")
    /\ alive' = FALSE
    /\ members' = {} /\ banned' = {} /\ muted' = {}
    /\ overtaken' = {} /\ botched' = {} /\ sentenced' = {} /\ lifted' = {}
    /\ act' = Over(r)
    /\ UNCHANGED <<readStates, inviteDoc, acts, faults, tallies, unread>>

\* delete_invite, or the invite expires.
InviteEnds ==
    /\ invite # "gone"
    /\ invite' \in {"closed", "gone"}
    /\ UNCHANGED <<channelDoc, readStates, uses, act, acts, faults, tallies, verdicts, unread>>

\* ChannelModerationEntry.expiresAt
BanExpires ==
    \E p \in banned :
        /\ banned' = banned \ {p}
        /\ sentenced' = sentenced \ {p}
        /\ UNCHANGED <<alive, members, muted, readStates, inviteDoc, act, acts, faults, tallies,
                       overtaken, botched, lifted, unread>>

\* The process stops.
Stop ==
    /\ \E r \in Acting : act[r] # Free
    /\ Fault
    /\ act' = [r \in Acting |-> Free]
    /\ lost' = lost + Cardinality({r \in Acting : act[r].op = "accept" /\ ~Is(r, "use")})
    /\ botched' = botched \union
            {p \in members \intersect banned : \E r \in Acting :
                act[r].op = "ban" /\ act[r].who = p}
    /\ UNCHANGED <<channelDoc, readStates, inviteDoc, acts, joins,
                   overtaken, sentenced, lifted, unread>>

-----------------------------------------------------------------------------
MemberNext ==
    \/ \E r \in Acting :
        \/ AcceptLook(r) \/ AddLook(r) \/ TakeUse(r) \/ LookAgain(r) \/ Seed(r) \/ Join(r)
        \/ AddFails(r) \/ Release(r)
        \/ LeaveLook(r) \/ KickLook(r) \/ BanLook(r) \/ BanUpsert(r) \/ Pull(r) \/ PullFails(r)
        \/ UndoBan(r) \/ Forget(r)
        \/ UnbanLook(r) \/ MuteLook(r) \/ UnmuteLook(r) \/ Mute(r) \/ Lift(r) \/ Unmute(r)
        \/ WriteFails(r)
        \/ DeleteLook(r) \/ DeleteMessages(r) \/ DeleteInvites(r) \/ DeleteReadStates(r)
        \/ DeleteDocument(r)
    \/ InviteEnds \/ BanExpires \/ Stop

MemberSpec == MemberInit /\ [][MemberNext]_memberVars

-----------------------------------------------------------------------------
\* A banned user is not a member, unless a request that looked before the ban has
\* added the user since, the ban is still to pull the user out, or it failed at
\* that and could not be undone.
BannedStayOut ==
    \A p \in members \intersect banned :
        \/ p \in overtaken \union botched
        \/ \E r \in Acting : act[r].op = "ban" /\ act[r].who = p /\ act[r].at \in {"pull", "undo"}

\* A ban stands until it is lifted by name or its time is over.  Two requests lift
\* it by accident: a mute that looked while the user was still a member, and the
\* taking back of a second ban that failed.
BansStand == sentenced \subseteq banned \union lifted

\* No more users join by an invite than it allows, and its count is the number of
\* those who did, those who are about to, and the uses that were lost.
UsesAccounted ==
    /\ uses <= MaxUses
    /\ invite # "gone" =>
        uses = joins + lost +
            Cardinality({r \in Acting : act[r].op = "accept" /\ ~Is(r, "use")})

\* Every member has a read state, from before it was a member; only one who leaves
\* and comes back at once may lose it again, or a member of a channel that could not
\* be deleted to the end.
MembersCanRead == members \subseteq readStates \union unread
=================================================================================
