------------------------------ MODULE MCVoiceCalls ------------------------------
(****************************************************************************)
(* What must end although its users do nothing for it, side by side: the voice  *)
(* of channels (VoiceRoster) and direct calls (CallSessions), both under the    *)
(* fairness of the tasks that clean up.  Neither writes what the other reads,   *)
(* so a behaviour moves one of them, and the other rests in its initial state.  *)
(* Calls need two users, one of them with two connections.                     *)
(****************************************************************************)
EXTENDS MCVoiceRoster

CONSTANTS
    jan, ewa, j1, j2, e1,
    Caller, Line,
    MaxCalls, MaxRelations, NoSession, NoConn, Idle

LineOwner == (j1 :> jan) @@ (j2 :> jan) @@ (e1 :> ewa)

VARIABLES
    moving,  \* which of the two this behaviour is about
    line, sessions, nextId, job, taken, related, severing, relations,
    verdicts, answered

calls == <<line, sessions, nextId, job, taken, related, severing, relations,
           verdicts, answered>>

Call == INSTANCE CallSessions WITH
    User <- Caller, Conn <- Line, Owner <- LineOwner, conn <- line

VoiceCallsInit ==
    /\ moving \in {"voice", "calls"}
    /\ Init
    /\ Call!Init

VoiceCallsNext ==
    /\ UNCHANGED moving
    /\ \/ moving = "voice" /\ Next /\ UNCHANGED calls
       \/ moving = "calls" /\ Call!Next /\ UNCHANGED vars

\* What rests has no step to take, so its fairness asks nothing.
VoiceCallsSpec ==
    /\ VoiceCallsInit
    /\ [][VoiceCallsNext]_<<moving, vars, calls>>
    /\ Fairness
    /\ Call!Fairness

-----------------------------------------------------------------------------
\* Every call that is placed ends, whatever its parties and their connections do.
EveryCallEnds == Call!EveryCallEnds
================================================================================
