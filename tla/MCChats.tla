-------------------------------- MODULE MCChats --------------------------------
(****************************************************************************)
(* The bookkeeping of conversations, side by side: one message (Messages), the   *)
(* tip of a direct conversation (DmTip), the members, bans and an invite of a     *)
(* channel (ChannelMembers), and the unread number of a channel for one reader    *)
(* (ChannelUnread).  None writes what another reads, so a behaviour moves one of   *)
(* them, and the others rest in their initial states.  The handlers of the first  *)
(* are the tasks of the second and the workers of the last.                      *)
(****************************************************************************)
EXTENDS Messages, TLC

CONSTANTS
    one, two, pat, quin,
    MaxMsgs, MaxTipRequests, MaxOthers, NoTip,
    Person, Nobody, MaxUses, MaxActing, MaxActs, MaxFaults,
    MaxPosts, MaxRounds, MaxAsked, MaxMishaps

\* There may be any number of requests, errors and messages, but not infinitely many
\* handlers at once.
ASSUME ChatsAssumption ==
    /\ IsFiniteSet(Handler)
    /\ \A bound \in {MaxRequests, MaxErrors, MaxMsgs, MaxTipRequests, MaxOthers,
                     MaxUses, MaxActing, MaxActs, MaxFaults,
                     MaxPosts, MaxRounds, MaxAsked, MaxMishaps} : bound \in Nat
    /\ NoTip \notin [last : Nat, unread : Nat]
    /\ Nobody \notin Person

VARIABLES
    moving,  \* which of the parts this behaviour is about
    msg, tip, entry, mark, task, stamps, sends, tipRequests, others, tipErrors, holds, lapses,
    alive, members, banned, muted, readStates, invite, uses, act, acts, faults,
    joins, lost, overtaken, botched, sentenced, lifted, stale,
    post, lastRead, unreadCount, job, asked, mishaps, lapsed

directTip == <<msg, tip, entry, mark, task, stamps, sends, tipRequests, others, tipErrors,
               holds, lapses>>
channelMembers == <<alive, members, banned, muted, readStates, invite, uses, act, acts, faults,
                    joins, lost, overtaken, botched, sentenced, lifted, stale>>
channelUnread == <<post, lastRead, unreadCount, job, asked, mishaps, lapsed>>

Direct == INSTANCE MCDmTip WITH
    Task <- Handler, MaxRequests <- MaxTipRequests, requests <- tipRequests, errors <- tipErrors
Members == INSTANCE ChannelMembers WITH unread <- stale
Channel == INSTANCE ChannelUnread WITH Worker <- Handler

ChatsInit ==
    /\ moving \in {"tip", "members", "unread", "message"}
    /\ Direct!Init
    /\ Members!MemberInit
    /\ Channel!CUInit
    /\ MsgInit
    /\ moving # "members" => members = {}

ChatsNext ==
    /\ UNCHANGED moving
    /\ \/ moving = "tip" /\ Direct!Next /\ UNCHANGED <<channelMembers, channelUnread, vars>>
       \/ moving = "members" /\ Members!MemberNext /\ UNCHANGED <<directTip, channelUnread, vars>>
       \/ moving = "unread" /\ Channel!CUNext /\ UNCHANGED <<directTip, channelMembers, vars>>
       \/ moving = "message" /\ MsgNext /\ UNCHANGED <<directTip, channelMembers, channelUnread>>

everything == <<moving, directTip, channelMembers, channelUnread, vars>>
ChatsSpec == ChatsInit /\ [][ChatsNext]_everything

AnyHandler == Permutations(Handler)
RelativeTip == <<moving, Direct!Relative, channelMembers, channelUnread, vars>>

-----------------------------------------------------------------------------
\* The types of the parts, each in the behaviours that move it.
ChatsTypeOK ==
    CASE moving = "tip" -> Direct!TypeOK
      [] moving = "members" -> Members!MemberTypeOK
      [] moving = "unread" -> Channel!CUTypeOK
      [] moving = "message" -> MsgTypeOK

\* When nobody works on a conversation, its tip is there and not older than any message,
\* and the number of unread messages shown for it is the number there is, in the tip of a
\* direct one and in the read state of a channel, but for the lapses named in the models.
ConversationsSettle ==
    /\ Direct!TipSettles
    /\ Direct!UnreadSettles
    /\ Channel!ChannelUnreadSettles

\* A ban keeps its user out, and lasts until it is lifted or over; every use of an invite
\* is a member it brought, but for those that could not be given back; who is a member has
\* a read state.
MembershipHolds ==
    /\ Members!BannedStayOut
    /\ Members!BansStand
    /\ Members!UsesAccounted
    /\ Members!MembersCanRead

\* Of the sends with one nonce one creates the message, and of its deletions one deletes
\* it; reactions are those that were asked for; whoever is mentioned is told.
MessageKept ==
    /\ SentAndDeletedOnce
    /\ ReactionsKept
    /\ MentionsTold
=================================================================================
