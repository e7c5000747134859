----------------------------- MODULE MCSocketState -----------------------------
(****************************************************************************)
(* Three parts of ws/state.rs that share nothing side by side: the UserFifo   *)
(* of two users, SocketAdmission, and the TypingQueue of one user.  A         *)
(* behaviour moves one of them, the other two rest in their initial state.   *)
(*                                                                          *)
(* "bob" is there to collect the queue slot of "ann" when it is ann who is    *)
(* gone, and the other way round.  Five sockets come from two addresses, with *)
(* limits low enough for each to be met.  Three chats share a typing queue of *)
(* two, so that it overflows.                                               *)
(****************************************************************************)
EXTENDS UserFifo, TLC

CONSTANTS
    ann, bob, home, work, a1, a2, a3, b1, b2,
    Socket, Address, MaxTotal, MaxPerIp, MaxPerUser,
    From, Of,
    Chat, QueueMax, MaxFrames, Nothing

\* Every socket comes from an address and is a user's.  A typing queue has room for a chat.
ASSUME StateAssumption ==
    /\ From \in [Socket -> Address] /\ Of \in [Socket -> User]
    /\ \A bound \in {MaxTotal, MaxPerIp, MaxPerUser, MaxFrames} : bound \in Nat
    /\ QueueMax \in Nat \ {0}
    /\ Nothing \notin [chat : Chat, word : {"typing", "stopped", "unset"}]

MCFrom == (a1 :> home) @@ (a2 :> home) @@ (a3 :> work) @@ (b1 :> home) @@ (b2 :> work)
MCOf == (a1 :> ann) @@ (a2 :> ann) @@ (a3 :> ann) @@ (b1 :> bob) @@ (b2 :> bob)

VARIABLES
    moving,  \* which of the three parts this behaviour is about
    phase, total, perIp, perUser,
    words, running, word, frames, last, heard, evicted

admission == <<phase, total, perIp, perUser>>
typing == <<words, running, word, frames, last, heard, evicted>>

Admission == INSTANCE SocketAdmission
Typing == INSTANCE TypingQueue WITH queue <- words, hand <- word

StateInit ==
    /\ moving \in {"fifo", "admission", "typing"}
    /\ Init
    /\ Admission!Init
    /\ Typing!Init

StateNext ==
    /\ UNCHANGED moving
    /\ \/ moving = "fifo" /\ Next /\ UNCHANGED <<admission, typing>>
       \/ moving = "admission" /\ Admission!Next /\ UNCHANGED <<vars, typing>>
       \/ moving = "typing" /\ Typing!Next /\ UNCHANGED <<vars, admission>>

everything == <<moving, vars, admission, typing>>
StateSpec == StateInit /\ [][StateNext]_everything

\* Workers that rest have no step to take, so their fairness asks nothing.
StateFairSpec == StateSpec /\ Fairness

-----------------------------------------------------------------------------
\* The types of the three parts.
StateTypeOK == TypeOK /\ Admission!TypeOK /\ Typing!TypeOK

\* The counts of sockets are exact, and within their limits.
AdmissionHolds == Admission!CountsExact /\ Admission!LimitsHold

\* A typing frame that waits has a runner that will come to it, a chat waits in one place,
\* and what is handled last on it is what the user said last.
LastWordWins == Typing!NoLostWakeup /\ Typing!OnePlace /\ Typing!LastWordWins
================================================================================
