------------------------------ MODULE Connections ------------------------------
(****************************************************************************)
(* The life of a WebSocket connection, from ws/mod.rs (handle_socket) and    *)
(* ws/state.rs (register_connection, unregister_connection).  The modules    *)
(* about calls, the voice roster and presence extend this one: what each of  *)
(* them must clean up when a connection ends hangs off these phases.         *)
(*                                                                          *)
(* SocketState.connections counts a user's connections; here the count is    *)
(* the number of the user's connections that are "live".                     *)
(****************************************************************************)
EXTENDS Naturals, FiniteSets

CONSTANTS
    User,        \* accounts
    Conn,        \* connection ids (NEXT_CONN_ID never hands one out twice)
    Owner,       \* whose connection it is
    MaxPerUser   \* MAX_CONNECTIONS_PER_USER

ASSUME ConnAssumption ==
    /\ Owner \in [Conn -> User]
    /\ MaxPerUser \in Nat \ {0}

VARIABLE conn    \* phase of every connection

(****************************************************************************)
(* unused    the id has not been handed out                                  *)
(* refused   turned away by register_connection                              *)
(* live      between register_connection and unregister_connection           *)
(* left      unregistered, has not asked yet whether it was the last one     *)
(* partial   was not the last: about to drop what this connection owned      *)
(* linger    was the last: asleep for 400 ms                                 *)
(* closing   woke up, found the user offline, is in on_user_disconnected     *)
(* acting    in on_user_disconnected, between two of its steps               *)
(* done      its task has ended                                              *)
(****************************************************************************)
Phase == {"unused", "refused", "live", "left", "partial", "linger",
          "closing", "acting", "done"}

ConnTypeOK == conn \in [Conn -> Phase]

ConnInit == conn = [c \in Conn |-> "unused"]

LiveOf(u) == {c \in Conn : Owner[c] = u /\ conn[c] = "live"}

\* is_user_connected
Connected(u) == \E c \in Conn : Owner[c] = u /\ conn[c] = "live"

MoveTo(c, phase) == conn' = [conn EXCEPT ![c] = phase]

(****************************************************************************)
(* A connection is accepted, unless the user has too many already.           *)
(****************************************************************************)
Attach(c) ==
    /\ conn[c] = "unused"
    /\ IF Cardinality(LiveOf(Owner[c])) < MaxPerUser
       THEN MoveTo(c, "live")
       ELSE MoveTo(c, "refused")

\* The select loop breaks (close frame, error, revocation, pong timeout) and
\* the connection is taken off the registry and off the user's count.
Detach(c) ==
    /\ conn[c] = "live"
    /\ MoveTo(c, "left")

\* last_connection is computed after the unregistration, not with it: two
\* connections that end together may both find themselves the last.
Decide(c) ==
    /\ conn[c] = "left"
    /\ IF Connected(Owner[c]) THEN MoveTo(c, "partial") ELSE MoveTo(c, "linger")

\* After the 400 ms: a user who has reconnected keeps everything.  The same
\* test opens on_user_disconnected, where a positive answer changes nothing
\* either, so one step stands for both.
Wake(c) ==
    /\ conn[c] = "linger"
    /\ IF Connected(Owner[c]) THEN MoveTo(c, "done") ELSE MoveTo(c, "closing")

\* A frame of connection c can be handled: frames wait in the user's queue, so
\* the connection may have ended by now.
MayHaveQueuedFrames(c) == conn[c] \notin {"unused", "refused"}

\* Some task of u still has the user-level cleanup ahead of it.
CleanupAhead(u) ==
    \E c \in Conn : Owner[c] = u /\ conn[c] \in {"left", "linger", "closing"}

ConnStep(c) == Attach(c) \/ Detach(c) \/ Decide(c) \/ Wake(c)
================================================================================
