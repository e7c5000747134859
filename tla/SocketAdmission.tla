----------------------------- MODULE SocketAdmission ----------------------------
(****************************************************************************)
(* How many sockets there may be (ws/state.rs, called by ws_handler and      *)
(* handle_socket): in all, from one address, of one user.  The total is an   *)
(* atomic, the two maps have a lock each, so a socket takes its three places *)
(* in separate steps, with a way back from each, and gives them up in two.   *)
(*                                                                          *)
(* A step holds one lock throughout.  Where it also changes the total, under *)
(* the lock of the addresses, nobody sees the one change without the other.  *)
(****************************************************************************)
EXTENDS Integers, FiniteSets

CONSTANTS
    Socket,
    Address,
    User,
    From,        \* the address a socket comes from
    Of,          \* the user it authenticates as
    MaxTotal,    \* MAX_GLOBAL_WS_CONNECTIONS
    MaxPerIp,    \* MAX_CONNECTIONS_PER_IP
    MaxPerUser   \* MAX_CONNECTIONS_PER_USER

VARIABLES
    phase,   \* how far a socket has come
    total,   \* ws_total
    perIp,   \* ip_connections
    perUser  \* connections

vars == <<phase, total, perIp, perUser>>

(****************************************************************************)
(* new       no handshake yet                                                *)
(* upgrade   passed can_accept_ip_connection; authenticated and upgraded       *)
(* reserved  has its place in the total                                      *)
(* counted   and in its address's count                                      *)
(* open      and in its user's                                               *)
(* leaving   has given up its place in its user's count, or got none         *)
(* gone      refused or over                                                 *)
(****************************************************************************)
Phase == {"new", "upgrade", "reserved", "counted", "open", "leaving", "gone"}

TypeOK ==
    /\ phase \in [Socket -> Phase]
    /\ total \in Nat
    /\ perIp \in [Address -> Nat]
    /\ perUser \in [User -> Nat]

Init ==
    /\ phase = [s \in Socket |-> "new"]
    /\ total = 0
    /\ perIp = [a \in Address |-> 0]
    /\ perUser = [u \in User |-> 0]

-----------------------------------------------------------------------------
Goes(s, from, to) == phase[s] = from /\ phase' = [phase EXCEPT ![s] = to]

\* can_accept_ip_connection, in the handshake: it takes no place.
Handshake(s) ==
    /\ \/ Goes(s, "new", "upgrade") /\ total < MaxTotal /\ perIp[From[s]] < MaxPerIp
       \/ Goes(s, "new", "gone")
    /\ UNCHANGED <<total, perIp, perUser>>

\* Mutant of Reserve: the total is not looked at again after the handshake.
ReserveBlindly(s) ==
    /\ Goes(s, "upgrade", "reserved")
    /\ total' = total + 1
    /\ UNCHANGED <<perIp, perUser>>

\* register_ip_connection: the compare-and-swap loop on the total,
Reserve(s) ==
    /\ IF total < MaxTotal
       THEN Goes(s, "upgrade", "reserved") /\ total' = total + 1
       ELSE Goes(s, "upgrade", "gone") /\ UNCHANGED total
    /\ UNCHANGED <<perIp, perUser>>

\* Mutant of CountIp: the place in the total is kept.
CountIpOnly(s) ==
    /\ IF perIp[From[s]] < MaxPerIp
       THEN Goes(s, "reserved", "counted") /\ perIp' = [perIp EXCEPT ![From[s]] = @ + 1]
       ELSE Goes(s, "reserved", "gone") /\ UNCHANGED perIp
    /\ UNCHANGED <<total, perUser>>

\* then the count of the address, or the way back.
CountIp(s) ==
    /\ IF perIp[From[s]] < MaxPerIp
       THEN /\ Goes(s, "reserved", "counted")
            /\ perIp' = [perIp EXCEPT ![From[s]] = @ + 1]
            /\ UNCHANGED total
       ELSE /\ Goes(s, "reserved", "gone")
            /\ total' = total - 1
            /\ UNCHANGED perIp
    /\ UNCHANGED perUser

\* register_connection
CountUser(s) ==
    /\ IF perUser[Of[s]] < MaxPerUser
       THEN /\ Goes(s, "counted", "open")
            /\ perUser' = [perUser EXCEPT ![Of[s]] = @ + 1]
       ELSE Goes(s, "counted", "leaving") /\ UNCHANGED perUser
    /\ UNCHANGED <<total, perIp>>

\* unregister_connection, after the loop
LeaveUser(s) ==
    /\ Goes(s, "open", "leaving")
    /\ perUser' = [perUser EXCEPT ![Of[s]] = @ - 1]
    /\ UNCHANGED <<total, perIp>>

\* unregister_ip_connection
LeaveIp(s) ==
    /\ Goes(s, "leaving", "gone")
    /\ perIp' = [perIp EXCEPT ![From[s]] = @ - 1]
    /\ total' = total - 1
    /\ UNCHANGED perUser

Step(s) == Handshake(s) \/ Reserve(s) \/ CountIp(s) \/ CountUser(s) \/ LeaveUser(s) \/ LeaveIp(s)

Next == \E s \in Socket : Step(s)

Spec == Init /\ [][Next]_vars

-----------------------------------------------------------------------------
(****************************************************************************)
(* Properties.                                                              *)
(****************************************************************************)
InTotal == {s \in Socket : phase[s] \in {"reserved", "counted", "open", "leaving"}}
InIp(a) == {s \in Socket : From[s] = a /\ phase[s] \in {"counted", "open", "leaving"}}
InUser(u) == {s \in Socket : Of[s] = u /\ phase[s] = "open"}

\* No place is lost or taken twice, however handshakes, refusals and ends
\* interleave: each count is the number of sockets that hold a place in it.
CountsExact ==
    /\ total = Cardinality(InTotal)
    /\ \A a \in Address : perIp[a] = Cardinality(InIp(a))
    /\ \A u \in User : perUser[u] = Cardinality(InUser(u))

\* The limits hold at every moment, though the handshake looks at them long
\* before the places are taken.
LimitsHold ==
    /\ total <= MaxTotal
    /\ \A a \in Address : perIp[a] <= MaxPerIp
    /\ \A u \in User : perUser[u] <= MaxPerUser
================================================================================
