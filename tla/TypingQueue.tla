------------------------------- MODULE TypingQueue ------------------------------
(****************************************************************************)
(* The typing queue of a user (ws/state.rs, spawn_user_ordered_eventually):  *)
(* the one queue that refuses nothing.  It keeps the last word on every chat, *)
(* drops its oldest entry when it is full, and starts a runner when none is  *)
(* at work.  Users have nothing to do with one another here: what an enqueue *)
(* collects of other users' slots is empty and has no runner, as a new one.  *)
(****************************************************************************)
EXTENDS Naturals, Sequences, FiniteSets

CONSTANTS
    Chat,
    QueueMax,   \* TYPING_QUEUE_MAX, not zero
    MaxFrames,  \* bound: typing frames in a behaviour
    Nothing     \* what the runner has in hand between two jobs

\* TypingPayload.is_typing, an Option<bool>.
Word == {"typing", "stopped", "unset"}

Entry == [chat : Chat, word : Word]

VARIABLES
    queue,    \* TypingSlot.queue
    running,  \* TypingSlot.running
    hand,     \* the job the runner is at
    frames,   \* how many frames there have been
    last,     \* history: the last word the user said on a chat
    heard,    \* history: the last word that was handled
    evicted   \* history: chats whose last word was dropped from a full queue

vars == <<queue, running, hand, frames, last, heard, evicted>>

TypeOK ==
    /\ queue \in Seq(Entry) /\ Len(queue) <= QueueMax
    /\ running \in BOOLEAN
    /\ hand \in Entry \cup {Nothing}
    /\ frames \in 0..MaxFrames
    /\ last \in [Chat -> Word \cup {"silent"}]
    /\ heard \in [Chat -> Word \cup {"silent"}]
    /\ evicted \in SUBSET Chat

Init ==
    /\ queue = <<>>
    /\ running = FALSE
    /\ hand = Nothing
    /\ frames = 0
    /\ last = [c \in Chat |-> "silent"]
    /\ heard = [c \in Chat |-> "silent"]
    /\ evicted = {}

-----------------------------------------------------------------------------
Waiting(c) == \E i \in DOMAIN queue : queue[i].chat = c

\* The queue with room for one more.
Room(q) == IF Len(q) >= QueueMax THEN Tail(q) ELSE q

\* Mutant of Others: what was said on the chat before stays.
OthersAll(c) == queue

\* What waits on other chats.  A chat waits in one place at most (OnePlace), so that
\* all that retain() takes out is the entry there.
Others(c) ==
    LET at == CHOOSE i \in DOMAIN queue : queue[i].chat = c
    IN  IF Waiting(c) THEN [i \in 1 .. Len(queue) - 1 |-> queue[IF i < at THEN i ELSE i + 1]]
        ELSE queue

(****************************************************************************)
(* A typing frame.  A word that waits already keeps its place, with the new  *)
(* job for the old one; any other word takes the chat's place at the end.    *)
(****************************************************************************)
Frame(c, w) ==
    LET entry == [chat |-> c, word |-> w]
        said == \E i \in DOMAIN queue : queue[i] = entry
        full == Len(Others(c)) >= QueueMax
    IN  /\ frames < MaxFrames
        /\ frames' = frames + 1
        /\ last' = [last EXCEPT ![c] = w]
        /\ queue' = IF said THEN queue ELSE Append(Room(Others(c)), entry)
        /\ evicted' = IF said \/ ~full THEN evicted \ {c}
                      ELSE (evicted \ {c}) \cup {Head(Others(c)).chat}
        /\ running' = TRUE
        /\ UNCHANGED <<hand, heard>>

\* The runner, under the lock of the map: the next job,
Pop ==
    /\ running /\ hand = Nothing /\ queue # <<>>
    /\ hand' = Head(queue)
    /\ queue' = Tail(queue)
    /\ UNCHANGED <<running, frames, last, heard, evicted>>

\* Mutant of Stop: the runner ends after every job.
StopEarly ==
    /\ running /\ hand = Nothing
    /\ running' = FALSE
    /\ UNCHANGED <<queue, hand, frames, last, heard, evicted>>

\* or, when there is none, its end.
Stop ==
    /\ running /\ hand = Nothing /\ queue = <<>>
    /\ running' = FALSE
    /\ UNCHANGED <<queue, hand, frames, last, heard, evicted>>

\* handle_typing is done.
Finish ==
    /\ hand # Nothing
    /\ heard' = [heard EXCEPT ![hand.chat] = hand.word]
    /\ hand' = Nothing
    /\ UNCHANGED <<queue, running, frames, last, evicted>>

Runner == Pop \/ Stop \/ Finish

Next == Runner \/ \E c \in Chat, w \in Word : Frame(c, w)

Spec == Init /\ [][Next]_vars

-----------------------------------------------------------------------------
(****************************************************************************)
(* Properties.                                                              *)
(****************************************************************************)
\* Whatever waits has a runner that will come to it: the runner gives up its
\* flag with the same lock that shows it the queue is empty.
NoLostWakeup == queue # <<>> \/ hand # Nothing => running

\* A chat waits in one place at most.
OnePlace == \A i, j \in DOMAIN queue : queue[i].chat = queue[j].chat => i = j

\* What is handled last on a chat is what the user said last: a "stopped" is
\* never followed by a "typing" from before it, however frames are merged.
\* But for a word dropped from a full queue.
LastWordWins ==
    \A c \in Chat :
        ~Waiting(c) /\ (hand = Nothing \/ hand.chat # c) /\ c \notin evicted
            => heard[c] = last[c]
================================================================================
