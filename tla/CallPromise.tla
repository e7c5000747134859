------------------------------ MODULE CallPromise ------------------------------
(****************************************************************************)
(* What a direct call promises to its two parties, whoever acts on it and    *)
(* however their connections come and go: it rings once, it may be answered  *)
(* once while it rings, and it ends once, in a way that fits whether it had  *)
(* been answered.  CallSessions is shown to implement this specification.    *)
(****************************************************************************)
EXTENDS Naturals

CONSTANT CallId      \* the calls that may ever be placed

VARIABLE status      \* how far each call has come

(****************************************************************************)
(* "missed" and "logged" are the two kinds of call-log message, "cancelled"  *)
(* ends without one, "severed" is the relation of the two users ending and   *)
(* "vanished" a call that disappears without anybody being told.             *)
(****************************************************************************)
Edge == {<<"unborn", "ringing">>, <<"ringing", "answered">>,
         <<"ringing", "missed">>, <<"ringing", "cancelled">>,
         <<"ringing", "severed">>, <<"ringing", "vanished">>,
         <<"answered", "logged">>, <<"answered", "severed">>,
         <<"answered", "vanished">>}

Init == status = [i \in CallId |-> "unborn"]

\* One step may end several calls (a sweep, a disconnection), each along an edge.
Next == /\ DOMAIN status' = CallId
        /\ \A i \in CallId : \/ status'[i] = status[i]
                             \/ <<status[i], status'[i]>> \in Edge

Spec == Init /\ [][Next]_status
================================================================================
