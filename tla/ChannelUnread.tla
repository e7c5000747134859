------------------------------ MODULE ChannelUnread -------------------------------
(****************************************************************************)
(* The unread number of one channel for one of its readers: unreadCount of its  *)
(* ChannelReadState (model/read_state.rs, utils/unread/mod.rs), and the tasks   *)
(* that write it (ws/handlers.rs).  A send adds one to it unless the generation *)
(* moved; a sync counts the messages after lastReadAt and writes the number it  *)
(* found, and moves the generation when it announces it.                     *)
(*                                                                          *)
(* Messages are numbered by their timestamps; they may be inserted in another   *)
(* order.  lastRead is the last message lastReadAt covers.  A task takes one     *)
(* operation of the database per step.  Of a generation it matters to a task     *)
(* only whether it moved since the task looked: fresh.                        *)
(****************************************************************************)
EXTENDS Integers, FiniteSets

CONSTANTS
    Worker,      \* tasks there may be at once
    MaxPosts,    \* bound: messages sent to the channel
    MaxRounds,   \* the rounds of try_sync_channel_unread
    MaxAsked,    \* bound: marks, deletions and repeated sends
    MaxMishaps   \* bound: database errors

VARIABLES
    post,      \* the messages
    lastRead, unreadCount,   \* of the ChannelReadState
    job,       \* the tasks
    asked, mishaps,
    lapsed     \* history: the number may be off, and no task is there to see to it

unreadVars == <<post, lastRead, unreadCount, job, asked, mishaps, lapsed>>

Post == 1 .. MaxPosts
Stamped == Cardinality({i \in Post : post[i] # "none"})
Done == [op |-> "none", at |-> "done", m |-> 0, n |-> 0, prev |-> 0, fresh |-> FALSE, round |-> 0, more |-> 0]

\* What try_count_channel_unread counts.  It reads lastReadAt before and after, and
\* counts again when it moved, so it is as good as one look.
Unread == Cardinality({i \in Post : post[i] = "live" /\ i > lastRead})

CUTypeOK ==
    /\ post \in [Post -> {"none", "stamped", "live", "gone"}]
    /\ lastRead \in 0 .. MaxPosts
    /\ unreadCount \in Nat
    /\ job \in [Worker ->
            [op : {"none", "send", "replay", "mark", "again", "heal", "delete"},
             at : {"done", "insert", "look", "bump", "check", "mark", "state",
                   "count", "set", "read", "recount", "announce", "invalidate"},
             m : 0 .. MaxPosts, n : 0 .. MaxPosts, prev : 0 .. MaxPosts, fresh : BOOLEAN,
             round : 0 .. MaxRounds, more : 0 .. 3]]
    /\ asked \in 0 .. MaxAsked
    /\ mishaps \in 0 .. MaxMishaps
    /\ lapsed \in BOOLEAN

\* A member whose read state seed_if_missing made.
CUInit ==
    /\ post = [i \in Post |-> "none"]
    /\ lastRead = 0
    /\ unreadCount = 0
    /\ job = [w \in Worker |-> Done]
    /\ asked = 0
    /\ mishaps = 0
    /\ lapsed = FALSE

-----------------------------------------------------------------------------
At(w, at) == job[w].at = at
Put(w, what) == job' = [job EXCEPT ![w] = what]
GoTo(w, at) == Put(w, [job[w] EXCEPT !.at = at])
Start(w, op, at, m) ==
    /\ job[w] = Done
    /\ Put(w, [Done EXCEPT !.op = op, !.at = at, !.m = m, !.fresh = TRUE])

\* Begins a sync, of which there may be some more afterwards.
SyncFrom(w) == [job[w] EXCEPT !.at = "count", !.round = 0]

Asks == asked < MaxAsked /\ asked' = asked + 1
Mishap == mishaps < MaxMishaps /\ mishaps' = mishaps + 1

\* The generation moves, and w goes on with what.
Move(w, what) ==
    job' = [x \in Worker |-> IF x = w THEN what ELSE [job[x] EXCEPT !.fresh = FALSE]]

-----------------------------------------------------------------------------
(****************************************************************************)
(* create_and_broadcast_channel_message.                                      *)
(****************************************************************************)
\* The generation is looked at, then Message::create takes the time.
Send(w) ==
    /\ Stamped < MaxPosts
    /\ Start(w, "send", "insert", Stamped + 1)
    /\ post' = [post EXCEPT ![Stamped + 1] = "stamped"]
    /\ UNCHANGED <<lastRead, unreadCount, asked, mishaps, lapsed>>

Insert(w) ==
    /\ At(w, "insert")
    /\ \/ /\ post' = [post EXCEPT ![job[w].m] = "live"]
          /\ GoTo(w, "look")
          /\ UNCHANGED mishaps
       \/ /\ post' = [post EXCEPT ![job[w].m] = "gone"]
          /\ Put(w, Done)
          /\ Mishap
    /\ UNCHANGED <<lastRead, unreadCount, asked, lapsed>>

\* message_still_active; where it cannot be read the message counts as there.
StillActive(w, then, otherwise) ==
    \/ post[job[w].m] = "live" /\ then /\ UNCHANGED mishaps
    \/ post[job[w].m] # "live" /\ otherwise /\ UNCHANGED mishaps
    \/ post[job[w].m] # "live" /\ then /\ Mishap

\* After the tip: message_still_active, then the generation.  Both are looked at
\* once more before the increment, which changes nothing but the moment.
Look(w) ==
    /\ At(w, "look")
    /\ StillActive(w, IF job[w].fresh THEN GoTo(w, "bump") ELSE Put(w, SyncFrom(w)),
                   Put(w, SyncFrom(w)))
    /\ UNCHANGED <<post, lastRead, unreadCount, asked, lapsed>>

\* Another task has found its number right and not announced it yet.
Unannounced(w) == \E x \in Worker \ {w} : job[x].at \in {"recount", "announce"}

\* Mutant of Bump: the generation is not looked at any more.
BumpBlindly(w) ==
    /\ At(w, "bump")
    /\ unreadCount' = unreadCount + 1
    /\ lapsed' = (lapsed \/ Unannounced(w))
    /\ Put(w, Done)
    /\ UNCHANGED <<post, lastRead, asked, mishaps>>

\* ChannelReadState::bump_unread; who has failed is synced, three times if need be.
Bump(w) ==
    /\ At(w, "bump")
    /\ \/ /\ unreadCount' = unreadCount + 1
          /\ lapsed' = (lapsed \/ Unannounced(w))
          /\ GoTo(w, "check")
          /\ UNCHANGED mishaps
       \/ /\ Mishap
          /\ Put(w, [SyncFrom(w) EXCEPT !.more = 3])
          /\ UNCHANGED <<unreadCount, lapsed>>
    /\ UNCHANGED <<post, lastRead, asked>>

\* Whether the message is still there, and the generation has not moved.
Check(w) ==
    /\ At(w, "check")
    /\ LET resync == Put(w, [SyncFrom(w) EXCEPT !.more = 3])
       IN  StillActive(w, IF job[w].fresh THEN Put(w, Done) ELSE resync, resync)
    /\ UNCHANGED <<post, lastRead, unreadCount, asked, lapsed>>

\* A nonce that is known: a sync for every reader.
Replay(w) ==
    \E i \in Post :
        /\ post[i] = "live"
        /\ Start(w, "replay", "count", i)
        /\ Asks
        /\ UNCHANGED <<post, lastRead, unreadCount, mishaps, lapsed>>

-----------------------------------------------------------------------------
(****************************************************************************)
(* handle_mark_channel_read, handle_delete_message.                           *)
(****************************************************************************)
MarkRead(w) ==
    /\ Start(w, "mark", "mark", 0)
    /\ Asks
    /\ UNCHANGED <<post, lastRead, unreadCount, mishaps, lapsed>>

\* ChannelReadState::upsert: everything up to the millisecond before is read, so a
\* message of this very millisecond is not.
MarkWrite(w) ==
    /\ At(w, "mark")
    /\ \/ /\ lastRead' \in {i \in {Stamped - 1, Stamped} : i >= lastRead}
          /\ unreadCount' = 0
          /\ Put(w, SyncFrom(w))
          /\ UNCHANGED mishaps
       \/ Mishap /\ Put(w, Done) /\ UNCHANGED <<lastRead, unreadCount>>
    /\ UNCHANGED <<post, asked, lapsed>>

\* Message::soft_delete_active
Delete(w) ==
    \E i \in Post :
        /\ post[i] = "live"
        /\ post' = [post EXCEPT ![i] = "gone"]
        /\ Start(w, "delete", "state", i)
        /\ Asks
        /\ UNCHANGED <<lastRead, unreadCount, mishaps, lapsed>>

\* The read states: only who has not read the message is synced, or everybody if
\* they cannot be read.
DeleteState(w) ==
    /\ At(w, "state")
    /\ \/ /\ Put(w, IF job[w].m > lastRead THEN SyncFrom(w) ELSE Done)
          /\ UNCHANGED mishaps
       \/ Mishap /\ Put(w, SyncFrom(w))
    /\ UNCHANGED <<post, lastRead, unreadCount, asked, lapsed>>

-----------------------------------------------------------------------------
(****************************************************************************)
(* try_sync_channel_unread.                                                   *)
(****************************************************************************)
Count(w) ==
    /\ At(w, "count")
    /\ Put(w, [job[w] EXCEPT !.at = "set", !.n = Unread])
    /\ UNCHANGED <<post, lastRead, unreadCount, asked, mishaps, lapsed>>

\* set_channel_unread_denorm
SetUnread(w) ==
    /\ At(w, "set")
    /\ unreadCount' = job[w].n
    /\ GoTo(w, "read")
    /\ UNCHANGED <<post, lastRead, asked, mishaps, lapsed>>

\* What follows a sync that did not find its number right: after that of a mark
\* the generation moves all the same; some are tried again.
NoNumber(w) ==
    IF job[w].op = "mark" THEN [job[w] EXCEPT !.at = "invalidate"]
    ELSE IF job[w].op # "again" /\ job[w].more > 0
         THEN [SyncFrom(w) EXCEPT !.more = @ - 1]
         ELSE Done

\* What was written, or what is there to count, is no longer n: one more round,
\* until they are over and the number is left as it is.
Unsettled(w, what) ==
    IF job[w].round < MaxRounds
    THEN Put(w, [what EXCEPT !.round = @ + 1]) /\ UNCHANGED lapsed
    ELSE Put(w, NoNumber(w)) /\ lapsed' = TRUE

\* Mutant of ReadBack: what is there by then is not compared.
ReadNothing(w) ==
    /\ At(w, "read")
    /\ GoTo(w, "recount")
    /\ UNCHANGED <<post, lastRead, unreadCount, asked, mishaps, lapsed>>

\* channel_unread_denorm: what the number is by then.
ReadBack(w) ==
    /\ At(w, "read")
    /\ IF unreadCount = job[w].n
       THEN GoTo(w, "recount") /\ UNCHANGED lapsed
       ELSE Unsettled(w, [job[w] EXCEPT !.at = "count"])
    /\ UNCHANGED <<post, lastRead, unreadCount, asked, mishaps>>

Recount(w) ==
    /\ At(w, "recount")
    /\ IF Unread = job[w].n
       THEN GoTo(w, "announce") /\ UNCHANGED lapsed
       ELSE Unsettled(w, [job[w] EXCEPT !.at = "set", !.n = Unread])
    /\ UNCHANGED <<post, lastRead, unreadCount, asked, mishaps>>

\* A database error anywhere in a sync.
SyncFails(w) ==
    /\ job[w].at \in {"count", "set", "read", "recount"}
    /\ Mishap
    /\ Put(w, NoNumber(w))
    /\ lapsed' = TRUE
    /\ UNCHANGED <<post, lastRead, unreadCount, asked>>

\* After its first number a mark syncs again, until one is what the last one was;
\* a mark that had none syncs until there is nothing unread.
Following(w) ==
    LET sync == [SyncFrom(w) EXCEPT !.prev = job[w].n]
    IN  CASE job[w].op = "mark" -> [sync EXCEPT !.op = "again", !.more = 2]
          [] \/ job[w].op = "again" /\ job[w].more > 0
             \/ job[w].op = "heal" /\ job[w].more > 0 /\ job[w].n > 0
               -> [sync EXCEPT !.more = @ - 1]
          [] OTHER -> Done

\* A message is inserted, and so was counted, and its increment is still to come.
Coming(w) == \E x \in Worker \ {w} : job[x].at \in {"look", "bump"}

\* emit_unread_absolute moves the generation; a number that was announced before
\* is not announced again.
Announce(w) ==
    /\ At(w, "announce")
    /\ IF job[w].op = "again" /\ job[w].n = job[w].prev
       THEN Put(w, Done) /\ lapsed' = (lapsed \/ Coming(w))
       ELSE Move(w, Following(w)) /\ lapsed' = (lapsed /\ unreadCount # Unread)
    /\ UNCHANGED <<post, lastRead, unreadCount, asked, mishaps>>

Invalidate(w) ==
    /\ At(w, "invalidate")
    /\ Move(w, [SyncFrom(w) EXCEPT !.op = "heal", !.more = 2])
    /\ UNCHANGED <<post, lastRead, unreadCount, asked, mishaps, lapsed>>

-----------------------------------------------------------------------------
CUNext ==
    \E w \in Worker :
        \/ Send(w) \/ Insert(w) \/ Look(w) \/ Bump(w) \/ Check(w) \/ Replay(w)
        \/ MarkRead(w) \/ MarkWrite(w) \/ Delete(w) \/ DeleteState(w)
        \/ Count(w) \/ SetUnread(w) \/ ReadBack(w) \/ Recount(w)
        \/ SyncFails(w) \/ Announce(w) \/ Invalidate(w)

CUSpec == CUInit /\ [][CUNext]_unreadVars

-----------------------------------------------------------------------------
\* Once no task is at work the reader's number is the number of messages after
\* lastReadAt, however sends, marks, deletions and repeats met.  What can make it
\* differ, until a later sync puts it right: a sync that failed; an increment between
\* the last look of a sync and its announcement; and one for a message that a mark
\* counted again without a word, because the number was the one it had announced.
ChannelUnreadSettles ==
    (\A w \in Worker : job[w] = Done) => lapsed \/ unreadCount = Unread
=================================================================================
