--------------------------------- MODULE DmTip ---------------------------------
(****************************************************************************)
(* The tip of a direct conversation (utils/tips.rs): the document that holds  *)
(* its last message and, for each of the two, how many messages are unread.   *)
(* It is kept up to date beside the messages, without transactions, by the    *)
(* tasks of whoever sends, reads, edits or deletes; a counter in memory, the  *)
(* generation (utils/unread/mod.rs), tells a task that sends whether the      *)
(* number of unread messages was announced since it began.                   *)
(*                                                                          *)
(* The module is about one of the two directions: "unread" is about messages  *)
(* to one user, the reader.  What the reader sends, and the log of a call     *)
(* that was answered, is read from the start and counts only as a last       *)
(* message.  A step of a task is one database operation, with what is done    *)
(* before the next one.                                                      *)
(****************************************************************************)
EXTENDS Naturals, FiniteSets, FiniteSetsExt

CONSTANTS
    Task,         \* tasks that may be in progress at once
    MaxMsgs,      \* bound: messages
    MaxRequests,  \* bound: what is done with them
    MaxOthers,    \* bound: announcements about the reader's other conversations
    MaxErrors,    \* bound: database operations that fail
    NoTip         \* there is no tip

\* Messages, numbered in the order of their timestamps.
Msg == 1..MaxMsgs

Tip == [last : Msg, unread : Nat]

(****************************************************************************)
(* What a task is about.  "heal" and "retry" are the tasks that a "mark"      *)
(* spawns; "quiet" only has the tip look at a message.                       *)
(****************************************************************************)
Kind == {"send", "log", "replay", "quiet", "mark", "heal", "retry",
         "delete", "deleteRead", "wipe"}

Place == {"idle", "peeked", "stamped", "probe", "write", "ask", "bump", "check",
          "count", "set", "readback", "recount", "announce", "invalidate",
          "tip", "latest", "drop", "wipe", "late", "clear"}

Idle == [at |-> "idle", kind |-> "quiet", msg |-> 0, gen |-> 0,
         counted |-> {}, same |-> FALSE, extra |-> FALSE, round |-> 0, prev |-> 0, left |-> 0]

VARIABLES
    msg,       \* the messages
    tip,       \* the tip
    entry,     \* the conversation in UNREAD_GENERATIONS, 0 when it is not there
    mark,      \* the reader in USER_GENERATION_WATERMARK
    task,      \* the tasks in progress
    stamps,    \* how many messages have their timestamp
    sends, requests, others, errors,   \* the bounds' counters
    holds,     \* history: the messages that the tip's number stands for
    lapses     \* history: why the tip may be off

history == <<holds, lapses>>
counters == <<sends, requests, others, errors>>
generation == <<entry, mark>>
vars == <<msg, tip, generation, task, stamps, counters, history>>

TypeOK ==
    /\ msg \in [Msg -> {"none", "unread", "read", "deleted"}]
    /\ tip \in Tip \cup {NoTip}
    /\ entry \in Nat /\ mark \in Nat
    /\ \A t \in Task :
        /\ task[t].at \in Place /\ task[t].kind \in Kind
        /\ task[t].msg \in Msg \cup {0}
        /\ task[t].round \in 0..4 /\ task[t].left \in 0..3
        /\ task[t].gen \in Nat /\ task[t].prev \in Nat
        /\ task[t].counted \subseteq Msg
    /\ stamps \in 0..MaxMsgs /\ sends \in 0..MaxMsgs
    /\ requests \in 0..MaxRequests /\ others \in 0..MaxOthers /\ errors \in 0..MaxErrors
    /\ holds \subseteq Msg
    /\ lapses \subseteq {"extra", "uncounted", "untipped"}

Init ==
    /\ msg = [m \in Msg |-> "none"]
    /\ tip = NoTip
    /\ entry = 0 /\ mark = 0
    /\ task = [t \in Task |-> Idle]
    /\ stamps = 0
    /\ sends = 0 /\ requests = 0 /\ others = 0 /\ errors = 0
    /\ holds = {} /\ lapses = {}

Live == {m \in Msg : msg[m] \in {"unread", "read"}}
Unread == {m \in Msg : msg[m] = "unread"}
Latest == IF Live = {} THEN 0 ELSE Max(Live)

\* Messages that no task will show to the tip any more.
Past == {m \in Live :
    \A t \in Task : task[t].msg # m \/ task[t].at \notin {"probe", "write"}}

-----------------------------------------------------------------------------
(****************************************************************************)
(* Generations.  The entry of a conversation starts from, and is read with,   *)
(* the watermark of all the reader's conversations, but counts on from        *)
(* itself.                                                                  *)
(****************************************************************************)
Larger(a, b) == IF a > b THEN a ELSE b

\* peek_unread_generation
Peek == Larger(entry, mark)

\* bump_generation
Bumped == (IF entry = 0 THEN mark ELSE entry) + 1

BumpGeneration == entry' = Bumped /\ mark' = Larger(mark, Bumped)

\* maybe_gc_generations: an hour without a word about the conversation.
CollectGeneration ==
    /\ entry # 0 /\ \A t \in Task : task[t] = Idle
    /\ entry' = 0
    /\ UNCHANGED <<msg, tip, mark, task, stamps, counters, history>>

\* Another conversation's entry is at most the watermark, so its next is at
\* most one more; where it is less nothing changes here.
AnnounceOther ==
    /\ others < MaxOthers
    /\ others' = others + 1
    /\ mark' = mark + 1
    /\ UNCHANGED <<msg, tip, entry, task, stamps, sends, requests, errors, history>>

-----------------------------------------------------------------------------
(****************************************************************************)
(* Where a task goes.                                                       *)
(****************************************************************************)
At(t, place) == task[t].at = place

Goto(t, place) == task' = [task EXCEPT ![t].at = place]

\* On to the sync.
ToCount(t) ==
    task' = [task EXCEPT ![t] = [Idle EXCEPT !.at = "count", !.kind = task[t].kind]]

Ends(t) == task' = [task EXCEPT ![t] = Idle]

Starts(t, kind, place, m) ==
    /\ task[t] = Idle
    /\ task' = [task EXCEPT ![t].at = place, ![t].kind = kind, ![t].msg = m]

\* After upsert_dm_tip or refresh_dm_tip_after_delete.
Tipped(t) ==
    CASE task[t].kind = "send" -> Goto(t, "ask")
      [] task[t].kind \in {"replay", "delete", "wipe"} -> ToCount(t)
      [] OTHER -> Ends(t)

Request ==
    /\ requests < MaxRequests
    /\ requests' = requests + 1
    /\ UNCHANGED <<sends, others, errors>>

-----------------------------------------------------------------------------
(****************************************************************************)
(* A message is sent: handle_send_message and Message::create; persist_call_log *)
(* for the log of a call.                                                   *)
(****************************************************************************)
\* The generation is read before anything else.
Send(t, kind) ==
    /\ sends < MaxMsgs
    /\ sends' = sends + 1
    /\ task[t] = Idle
    /\ task' = [task EXCEPT ![t].at = "peeked", ![t].kind = kind, ![t].gen = Peek]
    /\ UNCHANGED <<msg, tip, generation, stamps, requests, others, errors, history>>

Stamp(t) ==
    /\ At(t, "peeked")
    /\ stamps' = stamps + 1
    /\ task' = [task EXCEPT ![t].at = "stamped", ![t].msg = stamps + 1]
    /\ UNCHANGED <<msg, tip, generation, counters, history>>

Insert(t) ==
    /\ At(t, "stamped")
    /\ msg' = [msg EXCEPT ![task[t].msg] = IF task[t].kind = "send" THEN "unread" ELSE "read"]
    /\ Goto(t, "probe")
    /\ UNCHANGED <<tip, generation, stamps, counters, history>>

\* The same nonce again: the message is there already.
Replay(t, m) ==
    /\ Request
    /\ m \in Live
    /\ Starts(t, "replay", "probe", m)
    /\ UNCHANGED <<msg, tip, generation, stamps, history>>

\* An edit.
Edit(t, m) ==
    /\ Request
    /\ m \in Live
    /\ Starts(t, "quiet", "probe", m)
    /\ UNCHANGED <<msg, tip, generation, stamps, history>>

-----------------------------------------------------------------------------
(****************************************************************************)
(* upsert_dm_tip: is the message still there ...                             *)
(****************************************************************************)
Probe(t) ==
    /\ At(t, "probe")
    /\ IF task[t].msg \in Live THEN Goto(t, "write") ELSE Tipped(t)
    /\ UNCHANGED <<msg, tip, generation, stamps, counters, history>>

TipAt(m) == IF tip = NoTip THEN [last |-> m, unread |-> 0] ELSE [tip EXCEPT !.last = m]

\* A tip that is not older than any message is as it should be again.
Told(m) == lapses' = IF m >= Latest THEN lapses \ {"untipped"} ELSE lapses

\* Mutant of Write: the filter does not compare timestamps.
WriteAny(t) ==
    /\ At(t, "write")
    /\ tip' = TipAt(task[t].msg)
    /\ Told(task[t].msg)
    /\ Tipped(t)
    /\ UNCHANGED <<msg, generation, stamps, counters, holds>>

\* ... then the tip is made, or moved if the message is not older than its last.
Write(t) ==
    /\ At(t, "write")
    /\ LET last == IF tip = NoTip THEN task[t].msg ELSE Larger(tip.last, task[t].msg)
       IN tip' = TipAt(last) /\ Told(last)
    /\ Tipped(t)
    /\ UNCHANGED <<msg, generation, stamps, counters, holds>>

(****************************************************************************)
(* The tip task of a message that counts.  One that is gone, or was announced *)
(* about since the send began, is counted with all others ...                *)
(****************************************************************************)
Ask(t) ==
    /\ At(t, "ask")
    /\ IF task[t].msg \in Live /\ Peek = task[t].gen THEN Goto(t, "bump") ELSE ToCount(t)
    /\ UNCHANGED <<msg, tip, generation, stamps, counters, history>>

\* ... any other adds one (bump_dm_unread),
Bump(t) ==
    /\ At(t, "bump")
    /\ IF tip = NoTip
       THEN ToCount(t) /\ UNCHANGED <<tip, history>>
       ELSE /\ tip' = [tip EXCEPT !.unread = @ + 1]
            /\ holds' = holds \cup {task[t].msg}
            /\ task' = [task EXCEPT ![t].at = "check",
                                   ![t].extra = task[t].msg \notin Unread \ holds]
            /\ UNCHANGED lapses
    /\ UNCHANGED <<msg, generation, stamps, counters>>

\* The task ends with what it added, extra or not.
LetGo(t) ==
    /\ Ends(t)
    /\ lapses' = lapses \cup (IF task[t].extra THEN {"extra"} ELSE {})

\* Mutant of Check: the generation is not read a second time.
CheckOnlyLive(t) ==
    /\ At(t, "check")
    /\ IF task[t].msg \in Live THEN Ends(t) ELSE ToCount(t)
    /\ UNCHANGED <<msg, tip, generation, stamps, counters, history>>

\* and asks again.
Check(t) ==
    /\ At(t, "check")
    /\ IF task[t].msg \in Live /\ Peek = task[t].gen
       THEN LetGo(t)
       ELSE ToCount(t) /\ UNCHANGED lapses
    /\ UNCHANGED <<msg, tip, generation, stamps, counters, holds>>

-----------------------------------------------------------------------------
(****************************************************************************)
(* try_sync_dm_tip_unread: count, set, and see whether both still hold, four  *)
(* times at most.                                                           *)
(****************************************************************************)
Number(t) == Cardinality(task[t].counted)

\* It returns None.
SyncFails(t) ==
    /\ lapses' = lapses \cup {"uncounted"} /\ UNCHANGED holds
    /\ CASE task[t].kind \in {"mark", "wipe"} -> Goto(t, "invalidate")
         [] task[t].kind = "retry" /\ task[t].left > 1 ->
                task' = [task EXCEPT ![t].at = "count", ![t].left = @ - 1]
         [] OTHER -> Ends(t)

\* It returns Some(n).  The two counts it compares may agree by accident.
SyncDone(t) ==
    /\ LET agrees == Number(t) = Cardinality(Unread)
           right == task[t].counted = Unread /\ tip # NoTip /\ tip.unread = Number(t)
       IN  /\ lapses' = IF agrees /\ task[t].counted # Unread THEN lapses \cup {"uncounted"}
                        ELSE IF right THEN lapses \ {"uncounted"} ELSE lapses
           /\ holds' = IF right THEN Unread ELSE holds
    /\ IF task[t].kind = "heal" /\ Number(t) = task[t].prev THEN Ends(t)
                                                         ELSE Goto(t, "announce")

Count(t) ==
    /\ At(t, "count")
    /\ task' = [task EXCEPT ![t].at = "set", ![t].counted = Unread, ![t].round = 1]
    /\ UNCHANGED <<msg, tip, generation, stamps, counters, history>>

SetUnread(t) ==
    /\ At(t, "set")
    /\ IF tip = NoTip
       THEN SyncFails(t) /\ UNCHANGED tip
       ELSE /\ Goto(t, "readback")
            /\ tip' = [tip EXCEPT !.unread = Number(t)]
            /\ holds' = task[t].counted
            /\ lapses' = lapses \ {"extra"}
    /\ UNCHANGED <<msg, generation, stamps, counters>>

ReadBack(t) ==
    /\ At(t, "readback")
    /\ IF tip = NoTip \/ (task[t].round = 4 /\ tip.unread # Number(t))
       THEN SyncFails(t)
       ELSE /\ task' = [task EXCEPT ![t].at = "recount", ![t].same = tip.unread = Number(t)]
            /\ UNCHANGED history
    /\ UNCHANGED <<msg, tip, generation, stamps, counters>>

\* Mutant of Recount: there is no last round.
RecountForever(t) ==
    /\ At(t, "recount")
    /\ IF Cardinality(Unread) = Number(t) /\ task[t].same THEN SyncDone(t)
       ELSE /\ task' = [task EXCEPT ![t].at = "set", ![t].counted = Unread, ![t].round = @ + 1]
            /\ UNCHANGED history
    /\ UNCHANGED <<msg, tip, generation, stamps, counters>>

Recount(t) ==
    /\ At(t, "recount")
    /\ IF Cardinality(Unread) = Number(t) /\ task[t].same THEN SyncDone(t)
       ELSE IF task[t].round = 4 THEN SyncFails(t)
       ELSE /\ task' = [task EXCEPT ![t].at = "set", ![t].counted = Unread, ![t].round = @ + 1]
            /\ UNCHANGED history
    /\ UNCHANGED <<msg, tip, generation, stamps, counters>>

-----------------------------------------------------------------------------
(****************************************************************************)
(* emit_unread_absolute, and what the task does after it: a mark read heals,  *)
(* counting again until two counts agree.                                    *)
(****************************************************************************)
AfterAnnounce(t) ==
    LET me == task[t] IN
    CASE me.kind = "mark" ->
            task' = [task EXCEPT ![t] = [Idle EXCEPT
                !.at = "count", !.kind = "heal", !.prev = Number(t), !.left = 3]]
      [] me.kind = "heal" /\ me.left > 1 ->
            task' = [task EXCEPT ![t] = [Idle EXCEPT
                !.at = "count", !.kind = "heal", !.prev = Number(t), !.left = me.left - 1]]
      [] me.kind = "retry" /\ me.left > 1 /\ Number(t) # 0 ->
            task' = [task EXCEPT ![t] = [Idle EXCEPT
                !.at = "count", !.kind = "retry", !.left = me.left - 1]]
      [] OTHER -> Ends(t)

Announce(t) ==
    /\ At(t, "announce")
    /\ BumpGeneration
    /\ AfterAnnounce(t)
    /\ UNCHANGED <<msg, tip, stamps, counters, history>>

\* invalidate_unread_generation, where there is nothing to announce.
Invalidate(t) ==
    /\ At(t, "invalidate")
    /\ BumpGeneration
    /\ IF task[t].kind = "mark"
       THEN task' = [task EXCEPT ![t] = [Idle EXCEPT
                !.at = "count", !.kind = "retry", !.left = 3]]
       ELSE Ends(t)
    /\ UNCHANGED <<msg, tip, stamps, counters, history>>

-----------------------------------------------------------------------------
\* handle_mark_message_read for one message; handle_mark_conversation_read for
\* all that were found unread a moment before, or none.
MarkRead(t, read) ==
    /\ Request
    /\ Starts(t, "mark", "count", 0)
    /\ msg' = [m \in Msg |-> IF m \in read THEN "read" ELSE msg[m]]
    /\ UNCHANGED <<tip, generation, stamps, history>>

\* The message is deleted, and refresh_dm_tip_after_delete looks whether it was
\* the last one, ...
Delete(t, m) ==
    /\ Request
    /\ m \in Live
    /\ Starts(t, IF m \in Unread THEN "delete" ELSE "deleteRead", "tip", m)
    /\ msg' = [msg EXCEPT ![m] = "deleted"]
    /\ UNCHANGED <<tip, generation, stamps, history>>

ReadTip(t) ==
    /\ At(t, "tip")
    /\ IF tip # NoTip /\ tip.last # task[t].msg
       THEN /\ Tipped(t)
            /\ lapses' = lapses \cup {why \in {"untipped"} :
                   \E m \in Past : tip.last < m /\ m < task[t].msg}
       ELSE Goto(t, "latest") /\ UNCHANGED lapses
    /\ UNCHANGED <<msg, tip, generation, stamps, counters, holds>>

\* which message is the last now (for a wipe: whether there is one at all),
FindLatest(t) ==
    /\ At(t, "latest")
    /\ IF Live # {}
       THEN task' = [task EXCEPT ![t].at = "probe", ![t].msg = Latest]
       ELSE IF task[t].kind = "wipe" THEN Tipped(t) ELSE Goto(t, "drop")
    /\ UNCHANGED <<msg, tip, generation, stamps, counters, history>>

\* The tip goes, and its number with it.
Drop(lapse) == tip' = NoTip /\ holds' = {} /\ lapses' = (lapses \ {"extra"}) \cup lapse

\* and removes the tip if there is none.  An older message that was inserted in
\* between, and could not move the tip, is left without.
DropTip(t) ==
    /\ At(t, "drop")
    /\ IF tip # NoTip /\ tip.last = task[t].msg
       THEN Drop({why \in {"untipped", "uncounted"} :
                     IF why = "untipped" THEN Past # {} ELSE Unread \cap holds # {}})
       ELSE UNCHANGED <<tip, history>>
    /\ Tipped(t)
    /\ UNCHANGED <<msg, generation, stamps, counters>>

-----------------------------------------------------------------------------
(****************************************************************************)
(* delete_conversation, and the same in remove_friend: the time is taken      *)
(* first; the reader's and the other's number are synced alike.              *)
(****************************************************************************)
StartWipe(t) ==
    /\ Request
    /\ Starts(t, "wipe", "wipe", stamps)
    /\ UNCHANGED <<msg, tip, generation, stamps, history>>

AllDeleted == [m \in Msg |-> IF m \in Live THEN "deleted" ELSE msg[m]]

WipeMessages(t) ==
    /\ At(t, "wipe")
    /\ msg' = AllDeleted
    /\ Goto(t, "late")
    /\ UNCHANGED <<tip, generation, stamps, counters, history>>

\* A second time if a message with a file has come since.
WipeLate(t) ==
    /\ At(t, "late")
    /\ msg' \in {msg, AllDeleted}
    /\ Goto(t, "clear")
    /\ UNCHANGED <<tip, generation, stamps, counters, history>>

\* clear_dm_tip_at_most
ClearTip(t) ==
    /\ At(t, "clear")
    /\ IF tip # NoTip /\ tip.last <= task[t].msg
       THEN Drop({}) ELSE UNCHANGED <<tip, history>>
    /\ Goto(t, "latest")
    /\ UNCHANGED <<msg, generation, stamps, counters>>

-----------------------------------------------------------------------------
(****************************************************************************)
(* The database fails.                                                      *)
(****************************************************************************)
Fail(t) ==
    /\ errors < MaxErrors
    /\ errors' = errors + 1
    /\ UNCHANGED <<msg, tip, generation, stamps, sends, requests, others, holds>>
    /\ \/ At(t, "stamped") /\ Ends(t) /\ UNCHANGED lapses
       \/ \/ task[t].at \in {"probe", "write", "tip", "drop"}
          \/ At(t, "latest") /\ task[t].kind # "wipe"
          /\ Tipped(t) /\ lapses' = lapses \cup {"untipped"}
       \/ /\ At(t, "ask")
          /\ IF Peek = task[t].gen THEN Goto(t, "bump") ELSE ToCount(t)
          /\ UNCHANGED lapses
       \/ At(t, "bump") /\ ToCount(t) /\ UNCHANGED lapses
       \/ At(t, "check") /\ Peek = task[t].gen /\ LetGo(t)
       \/ task[t].at \in {"count", "set", "readback", "recount"} /\ SyncFails(t)
       \/ At(t, "wipe") /\ Ends(t) /\ UNCHANGED lapses
       \/ At(t, "late") /\ Ends(t) /\ lapses' = lapses \cup {"uncounted"}
       \/ At(t, "clear") /\ Goto(t, "latest") /\ UNCHANGED lapses
       \/ /\ At(t, "latest") /\ task[t].kind = "wipe"
          /\ Ends(t) \/ Goto(t, "invalidate") \/ Tipped(t)
          /\ lapses' = lapses \cup {"uncounted", "untipped"}

-----------------------------------------------------------------------------
Begin(t) ==
    \/ \E kind \in {"send", "log"} : Send(t, kind)
    \/ \E m \in Msg : Replay(t, m) \/ Edit(t, m) \/ Delete(t, m)
    \/ \E read \in SUBSET Unread : MarkRead(t, read)
    \/ StartWipe(t)

Step(t) ==
    \/ Stamp(t) \/ Insert(t) \/ Probe(t) \/ Write(t) \/ Ask(t) \/ Bump(t) \/ Check(t)
    \/ Count(t) \/ SetUnread(t) \/ ReadBack(t) \/ Recount(t) \/ Announce(t) \/ Invalidate(t)
    \/ ReadTip(t) \/ FindLatest(t) \/ DropTip(t)
    \/ WipeMessages(t) \/ WipeLate(t) \/ ClearTip(t)
    \/ Fail(t)

Next ==
    \/ \E t \in Task : Begin(t) \/ Step(t)
    \/ CollectGeneration \/ AnnounceOther

Spec == Init /\ [][Next]_vars

-----------------------------------------------------------------------------
(****************************************************************************)
(* Properties.                                                              *)
(****************************************************************************)
Settled == \A t \in Task : task[t] = Idle

\* When everything that was begun is done, the tip says how many messages are
\* unread, whatever was sent, read, deleted and wiped at the same time
\* (try_sync_dm_tip_unread, bump_dm_unread): but for a message that was counted
\* by a sync and added by its own task too, and until the next sync, after one
\* that failed or compared two numbers that were the same by accident.
UnreadSettles ==
    Settled /\ tip # NoTip /\ lapses \cap {"extra", "uncounted"} = {}
        => tip.unread = Cardinality(Unread)

\* And no message is newer than the tip, which is there if there are messages
\* (upsert_dm_tip, refresh_dm_tip_after_delete, clear_dm_tip_at_most): but for a
\* write of it that failed, a removal that an older message came too late for, and
\* the deletion of a newer message that left the tip at an older one than the last.
TipSettles ==
    Settled /\ Live # {} /\ "untipped" \notin lapses
        => tip # NoTip /\ tip.last >= Latest

\* tips.rs:2, the tip is the denormalised last message: once nothing is in
\* progress it is about the last message of the conversation, also after
\* refresh_dm_tip_after_delete.
TipIsLastMessage ==
    Settled /\ tip # NoTip /\ errors = 0 => tip.last = Latest

\* unread/mod.rs:2, a fence between delta and absolute: the generation keeps the
\* task of a send from adding what a sync has counted meanwhile, so that, where
\* no sync failed, the tip never says more than there is.
FenceHolds ==
    Settled /\ tip # NoTip /\ "uncounted" \notin lapses
        => tip.unread <= Cardinality(Unread)
================================================================================
