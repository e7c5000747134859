----------------------------- MODULE MCCallSessions -----------------------------
(****************************************************************************)
(* Small instances of CallSessions.  "ann" has two connections, so that a    *)
(* connection may end without being the last and a reconnection may overtake *)
(* a cleanup; a third user, when there is one, is only called.               *)
(****************************************************************************)
EXTENDS CallSessions, TLC

CONSTANTS ann, bob, cat, a1, a2, b1

MCOwner == (a1 :> ann) @@ (a2 :> ann) @@ (b1 :> bob)

\* ann's connections are interchangeable.
AnnsConnections == {(a1 :> x) @@ (a2 :> y) : <<x, y>> \in {<<a1, a2>>, <<a2, a1>>}}

\* What a step reads: two states that differ in the other variables, which are
\* history, have the same steps.  Sound for a property that does not read those.
WithoutHistory == <<conn, sessions, nextId, job, taken, related, severing, relations>>
================================================================================
