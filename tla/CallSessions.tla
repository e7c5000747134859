------------------------------ MODULE CallSessions ------------------------------
(****************************************************************************)
(* Direct calls: the SESSIONS map of utils/voice/calls.rs, the handlers of   *)
(* the call:* frames and the cleanups of ws/handlers.rs and ws/mod.rs, and   *)
(* the HTTP handlers that end a call because the relation of its two users   *)
(* ended.  The map's mutex makes each operation on it one step; what is     *)
(* between two of them (a database read, another await) is where steps of    *)
(* other tasks come in.                                                     *)
(*                                                                          *)
(* A user's call frames run one after the other (the per-user call FIFO), so *)
(* a user has at most one invite or accept between its check and its effect. *)
(****************************************************************************)
EXTENDS Connections

CONSTANTS
    MaxCalls,     \* bound: calls placed in a behaviour
    MaxRelations, \* bound: times a behaviour ends the relation of two users
    NoSession,    \* SESSIONS has no entry for the pair
    NoConn,       \* callee_conn_id is None
    Idle          \* no invite or accept is in progress

CallId == 1..MaxCalls

\* pair_key: the two users, in no order
Pair == {p \in SUBSET User : \E a, b \in User : a # b /\ p = {a, b}}

(****************************************************************************)
(* A session.  "stale" says that the phase's time limit is over (RINGING_TTL *)
(* since created_at, ACCEPTED_TTL since accepted_at).  The last three fields *)
(* are history: "late", that a party was already offline and cleaned up      *)
(* after when its job made the session depend on it; "overtaken", that the   *)
(* relation ended between the check and the creation; "restored", that       *)
(* restore_sessions put it back.                                            *)
(****************************************************************************)
Session ==
    [id : CallId, caller : User, callee : User, phase : {"Ringing", "Accepted"},
     stale : BOOLEAN, callerConn : Conn, calleeConn : Conn \cup {NoConn},
     late : BOOLEAN, overtaken : BOOLEAN, restored : BOOLEAN]

\* An invite or accept whose relation check has passed.
Job == [op : {"invite", "accept"}, peer : User, conn : Conn]

ASSUME CallAssumption ==
    /\ MaxCalls \in Nat
    /\ MaxRelations \in Nat
    /\ NoConn \notin Conn
    /\ NoSession \notin Session
    /\ Idle \notin Job

\* What became of a call.
Verdict == {"missed", "logged", "cancelled", "severed", "dropped", "lost"}

VARIABLES
    sessions,   \* SESSIONS, by pair
    nextId,     \* the next call to be placed
    job,        \* what each user's call FIFO is in the middle of
    taken,      \* sessions on_user_disconnected has taken and not yet dealt with
    related,    \* pairs that are friends and not blocked (in the database)
    severing,   \* pairs no longer related, whose session is still to be taken
    relations,  \* how many times a relation has ended
    verdicts,   \* history: <<call, verdict>>, one for every time a call ended
    answered    \* history: the calls that were accepted

callVars == <<sessions, nextId, job, taken, related, severing, relations,
              verdicts, answered>>
vars == <<conn, callVars>>

TypeOK ==
    /\ ConnTypeOK
    /\ sessions \in [Pair -> Session \cup {NoSession}]
    /\ nextId \in 1..(MaxCalls + 1)
    /\ job \in [User -> Job \cup {Idle}]
    /\ \A u \in User : job[u] # Idle => job[u].peer # u
    /\ taken \in [Conn -> SUBSET Session]
    /\ related \subseteq Pair
    /\ severing \subseteq Pair
    /\ relations \in 0..MaxRelations
    /\ verdicts \subseteq CallId \X Verdict
    /\ answered \subseteq CallId

Init ==
    /\ ConnInit
    /\ sessions = [p \in Pair |-> NoSession]
    /\ nextId = 1
    /\ job = [u \in User |-> Idle]
    /\ taken = [c \in Conn |-> {}]
    /\ related = Pair
    /\ severing = {}
    /\ relations = 0
    /\ verdicts = {}
    /\ answered = {}

-----------------------------------------------------------------------------
(****************************************************************************)
(* The map.                                                                 *)
(****************************************************************************)
InMap == {p \in Pair : sessions[p] # NoSession}
Parties(s) == {s.caller, s.callee}
PairOf(s) == Parties(s)

\* Mutant of Busy: only an answered call makes a user busy.
BusyIfAnswered(u) == \E p \in InMap : u \in p /\ sessions[p].phase = "Accepted"

\* user_has_active_session_locked
Busy(u) == \E p \in InMap : u \in p /\ ~sessions[p].stale

\* connection_owns_side: the callee owns a side only once it has accepted.
OwnsSide(s, u, c) ==
    IF s.caller = u THEN s.callerConn = c
    ELSE s.callee = u /\ s.phase = "Accepted" /\ s.calleeConn = c

Without(ps) == [p \in Pair |-> IF p \in ps THEN NoSession ELSE sessions[p]]

\* Mutant of Expiry: an answered call that runs out of time is logged as missed.
ExpiryMissed(s) == "missed"

\* finalize_expired_ringing_session and finalize_stale_accepted_session: the
\* parties are told and the call leaves a message in their conversation.
Expiry(s) == IF s.phase = "Ringing" THEN "missed" ELSE "logged"

\* finalize_taken_call_sessions, for the party u that has gone.
Departure(s, u) ==
    IF s.phase = "Accepted" THEN "logged"
    ELSE IF s.caller = u THEN "cancelled" ELSE "missed"

\* Mutant of StalePairs: answered calls have no time limit.
StaleRinging == {p \in InMap : sessions[p].stale /\ sessions[p].phase = "Ringing"}

\* take_stale_locked and what finalize_expired_ringing_sessions does with it.
StalePairs == {p \in InMap : sessions[p].stale}

SweptVerdicts == {<<sessions[p].id, Expiry(sessions[p])>> : p \in StalePairs}

\* A job of u can be taken off the queue: u once had a connection to send it.
Served(u) == \E c \in Conn : Owner[c] = u /\ MayHaveQueuedFrames(c)

\* u's user-level cleanup is over and u has not come back.
Gone(u) == ~Connected(u) /\ ~CleanupAhead(u)

-----------------------------------------------------------------------------
(****************************************************************************)
(* Time: a ringing call turns stale after 60 s, an accepted one after 4 h.   *)
(****************************************************************************)
Expire(p) ==
    /\ p \in InMap
    /\ ~sessions[p].stale
    /\ sessions' = [sessions EXCEPT ![p].stale = TRUE]
    /\ UNCHANGED <<conn, nextId, job, taken, related, severing, relations,
                   verdicts, answered>>

\* sweep_expired_call_sessions, every 15 s; also how an invite, a timeout
\* frame and on_user_connected begin.
Sweep ==
    /\ StalePairs # {}
    /\ sessions' = Without(StalePairs)
    /\ verdicts' = verdicts \cup SweptVerdicts
    /\ UNCHANGED <<conn, nextId, job, taken, related, severing, relations, answered>>

\* Mutant of InviteCheck: the two users are not looked at.
InviteUnchecked(c, peer) ==
    /\ MayHaveQueuedFrames(c)
    /\ job[Owner[c]] = Idle
    /\ nextId \in CallId
    /\ job' = [job EXCEPT ![Owner[c]] = [op |-> "invite", peer |-> peer, conn |-> c]]
    /\ UNCHANGED <<conn, sessions, nextId, taken, related, severing, relations,
                   verdicts, answered>>

(****************************************************************************)
(* call:invite.  Expired sessions are dealt with, then the database is asked *)
(* about the relation; create_ringing_session runs on the answer, later.     *)
(****************************************************************************)
InviteCheck(c, peer) ==
    LET from == Owner[c] IN
    /\ MayHaveQueuedFrames(c)
    /\ job[from] = Idle
    /\ from # peer
    /\ {from, peer} \in related
    /\ nextId \in CallId
    /\ sessions' = Without(StalePairs)
    /\ verdicts' = verdicts \cup SweptVerdicts
    /\ job' = [job EXCEPT ![from] = [op |-> "invite", peer |-> peer, conn |-> c]]
    /\ UNCHANGED <<conn, nextId, taken, related, severing, relations, answered>>

(****************************************************************************)
(* create_ringing_session.  An expired session of the pair that turned stale *)
(* since the check is replaced; it is removed before the two users are found *)
(* busy, and then the error leaves nobody to finish it.                      *)
(****************************************************************************)
InviteCreate(u) ==
    LET peer     == job[u].peer
        pair     == {u, peer}
        old      == sessions[pair]
        blocked  == old # NoSession /\ ~old.stale
        removed  == IF old # NoSession /\ old.stale THEN {pair} ELSE {}
        busy     == Busy(u) \/ Busy(peer)
        new      == [id |-> nextId, caller |-> u, callee |-> peer,
                     phase |-> "Ringing", stale |-> FALSE,
                     callerConn |-> job[u].conn, calleeConn |-> NoConn,
                     late |-> Gone(u),
                     overtaken |-> pair \notin related \cup severing,
                     restored |-> FALSE]
        \* outcome of the session that was removed
        replaced(v) == {<<sessions[p].id, v>> : p \in removed}
    IN
    /\ job[u] # Idle
    /\ job[u].op = "invite"
    /\ \/ /\ blocked                                   \* InProgress
          /\ UNCHANGED <<sessions, nextId, verdicts>>
       \/ /\ ~blocked /\ busy                          \* InProgress
          /\ sessions' = Without(removed)
          /\ verdicts' = verdicts \cup replaced("lost")
          /\ UNCHANGED nextId
       \/ /\ ~blocked /\ ~busy /\ nextId \in CallId
          /\ sessions' = [sessions EXCEPT ![pair] = new]
          /\ nextId' = nextId + 1
          /\ verdicts' = verdicts \cup
                 (IF removed = {} THEN {} ELSE replaced(Expiry(old)))
    /\ job' = [job EXCEPT ![u] = Idle]
    /\ UNCHANGED <<conn, taken, related, severing, relations, answered>>

(****************************************************************************)
(* call:accept, its relation check first.                                   *)
(****************************************************************************)
AcceptCheck(c, peer) ==
    LET from == Owner[c] IN
    /\ MayHaveQueuedFrames(c)
    /\ job[from] = Idle
    /\ from # peer
    /\ {from, peer} \in related
    /\ job' = [job EXCEPT ![from] = [op |-> "accept", peer |-> peer, conn |-> c]]
    /\ UNCHANGED <<conn, sessions, nextId, taken, related, severing, relations,
                   verdicts, answered>>

\* accept_session
Accept(u) ==
    LET pair == {u, job[u].peer}
        s    == sessions[pair]
        ours == s # NoSession /\ s.callee = u /\ s.phase = "Ringing"
    IN
    /\ job[u] # Idle
    /\ job[u].op = "accept"
    /\ \/ /\ ~ours                          \* NotFound, WrongRole, InvalidPhase
          /\ UNCHANGED <<sessions, verdicts, answered>>
       \/ /\ ours /\ s.stale                \* Expired
          /\ sessions' = Without({pair})
          /\ verdicts' = verdicts \cup {<<s.id, "missed">>}
          /\ UNCHANGED answered
       \/ /\ ours /\ ~s.stale
          /\ sessions' = [sessions EXCEPT
                 ![pair].phase = "Accepted",
                 ![pair].calleeConn = job[u].conn,
                 ![pair].late = s.late \/ Gone(u)]
          /\ answered' = answered \cup {s.id}
          /\ UNCHANGED verdicts
    /\ job' = [job EXCEPT ![u] = Idle]
    /\ UNCHANGED <<conn, nextId, taken, related, severing, relations>>

(****************************************************************************)
(* The frames that only take a call down.  They ask nothing of the database, *)
(* and reject and cancel do not look at the time limit.                      *)
(****************************************************************************)
TakeDown(p, verdict) ==
    /\ sessions' = Without({p})
    /\ verdicts' = verdicts \cup {<<sessions[p].id, verdict>>}
    /\ UNCHANGED <<conn, nextId, job, taken, related, severing, relations, answered>>

CanHandle(u, p) == p \in InMap /\ u \in p /\ job[u] = Idle /\ Served(u)

\* call:reject
Reject(u, p) ==
    /\ CanHandle(u, p)
    /\ sessions[p].callee = u /\ sessions[p].phase = "Ringing"
    /\ TakeDown(p, "missed")

\* call:cancel
Cancel(u, p) ==
    /\ CanHandle(u, p)
    /\ sessions[p].caller = u /\ sessions[p].phase = "Ringing"
    /\ TakeDown(p, "cancelled")

\* call:end, by either party and in either phase
End(u, p) ==
    /\ CanHandle(u, p)
    /\ TakeDown(p, IF sessions[p].phase = "Accepted" THEN "logged"
                   ELSE IF sessions[p].callee = u THEN "missed" ELSE "cancelled")

\* call:timeout, from the caller: what has expired is dealt with first, and a
\* session that is still fresh is cancelled as missed.
Timeout(u, p) ==
    /\ CanHandle(u, p)
    /\ sessions[p].caller = u /\ sessions[p].phase = "Ringing"
    /\ sessions' = Without(StalePairs \cup {p})
    /\ verdicts' = verdicts \cup SweptVerdicts \cup {<<sessions[p].id, "missed">>}
    /\ UNCHANGED <<conn, nextId, job, taken, related, severing, relations, answered>>

-----------------------------------------------------------------------------
(****************************************************************************)
(* remove_friend and toggle_contact_block: the database first, then the      *)
(* session of the pair, without a log message.                              *)
(****************************************************************************)
Sever(p) ==
    /\ p \in related
    /\ relations < MaxRelations
    /\ relations' = relations + 1
    /\ related' = related \ {p}
    /\ severing' = severing \cup {p}
    /\ UNCHANGED <<conn, sessions, nextId, job, taken, verdicts, answered>>

\* Mutant of TakePair: only an answered call is ended.
TakeAnsweredPair(p) ==
    /\ p \in severing
    /\ severing' = severing \ {p}
    /\ IF p \in InMap /\ sessions[p].phase = "Accepted"
       THEN /\ sessions' = Without({p})
            /\ verdicts' = verdicts \cup {<<sessions[p].id, "severed">>}
       ELSE UNCHANGED <<sessions, verdicts>>
    /\ UNCHANGED <<conn, nextId, job, taken, related, relations, answered>>

\* take_session_for_pair
TakePair(p) ==
    /\ p \in severing
    /\ severing' = severing \ {p}
    /\ IF p \in InMap
       THEN /\ sessions' = Without({p})
            /\ verdicts' = verdicts \cup {<<sessions[p].id, "severed">>}
       ELSE UNCHANGED <<sessions, verdicts>>
    /\ UNCHANGED <<conn, nextId, job, taken, related, relations, answered>>

\* delete_conversation ends the call of two users who stay friends.
WipeConversation(p) ==
    /\ p \in InMap /\ p \in related
    /\ TakeDown(p, "severed")

\* purge_user_data takes every session of the account that is deleted.
PurgeUser(u) ==
    LET ps == {p \in InMap : u \in p} IN
    /\ ps # {}
    /\ sessions' = Without(ps)
    /\ verdicts' = verdicts \cup {<<sessions[p].id, "severed">> : p \in ps}
    /\ UNCHANGED <<conn, nextId, job, taken, related, severing, relations, answered>>

-----------------------------------------------------------------------------
(****************************************************************************)
(* Connections.                                                             *)
(****************************************************************************)
Connection(c) == ConnStep(c) /\ UNCHANGED callVars

\* A connection that was not the user's last: take_sessions_for_connection.
CleanConnection(c) ==
    LET u  == Owner[c]
        ps == {p \in InMap : u \in p /\ OwnsSide(sessions[p], u, c)} IN
    /\ conn[c] = "partial"
    /\ MoveTo(c, "done")
    /\ sessions' = Without(ps)
    /\ verdicts' = verdicts \cup
           {<<sessions[p].id, Departure(sessions[p], u)>> : p \in ps}
    /\ UNCHANGED <<nextId, job, taken, related, severing, relations, answered>>

\* Mutant of TakeAll: the sessions are copied and stay in the map.
CopyAll(c) ==
    /\ conn[c] = "closing"
    /\ MoveTo(c, "acting")
    /\ taken' = [taken EXCEPT ![c] = {sessions[p] : p \in {q \in InMap : Owner[c] \in q}}]
    /\ UNCHANGED <<sessions, nextId, job, related, severing, relations, verdicts, answered>>

\* Mutant of TakeAll: a call that still rings is left to its time limit.
TakeAnswered(c) ==
    LET ps == {p \in InMap : Owner[c] \in p /\ sessions[p].phase = "Accepted"} IN
    /\ conn[c] = "closing"
    /\ MoveTo(c, "acting")
    /\ sessions' = Without(ps)
    /\ taken' = [taken EXCEPT ![c] = {sessions[p] : p \in ps}]
    /\ UNCHANGED <<nextId, job, related, severing, relations, verdicts, answered>>

\* on_user_disconnected: take_sessions_for_user ...
TakeAll(c) ==
    LET ps == {p \in InMap : Owner[c] \in p} IN
    /\ conn[c] = "closing"
    /\ MoveTo(c, "acting")
    /\ sessions' = Without(ps)
    /\ taken' = [taken EXCEPT ![c] = {sessions[p] : p \in ps}]
    /\ UNCHANGED <<nextId, job, related, severing, relations, verdicts, answered>>

\* ... then the user is still gone, and the calls end ...
FinalizeTaken(c) ==
    /\ conn[c] = "acting"
    /\ ~Connected(Owner[c])
    /\ MoveTo(c, "done")
    /\ taken' = [taken EXCEPT ![c] = {}]
    /\ verdicts' = verdicts \cup
           {<<s.id, Departure(s, Owner[c])>> : s \in taken[c]}
    /\ UNCHANGED <<sessions, nextId, job, related, severing, relations, answered>>

\* Mutant of RestoreTaken: the user is back, and what was taken is let go.
LetGo(c) ==
    /\ conn[c] = "acting"
    /\ Connected(Owner[c])
    /\ MoveTo(c, "done")
    /\ taken' = [taken EXCEPT ![c] = {}]
    /\ UNCHANGED <<sessions, nextId, job, related, severing, relations, verdicts, answered>>

\* Mutant of RestoreTaken: a session is put back over a newer one of the pair.
RestoreOver(c) ==
    LET back == {s \in taken[c] : ~s.stale} IN
    /\ conn[c] = "acting"
    /\ Connected(Owner[c])
    /\ MoveTo(c, "done")
    /\ taken' = [taken EXCEPT ![c] = {}]
    /\ sessions' = [p \in Pair |->
           IF \E s \in back : PairOf(s) = p THEN CHOOSE s \in back : PairOf(s) = p
           ELSE sessions[p]]
    /\ verdicts' = verdicts \cup {<<s.id, "dropped">> : s \in taken[c] \ back}
    /\ UNCHANGED <<nextId, job, related, severing, relations, answered>>

(****************************************************************************)
(* ... or the user is back: restore_sessions puts back what is not out of    *)
(* time, unless the pair has a new session.  The check and the insertion are *)
(* one step: a disconnection between them is dealt with 400 ms later.        *)
(****************************************************************************)
RestoreTaken(c) ==
    LET fits(s) == sessions[PairOf(s)] = NoSession
        back    == {s \in taken[c] : fits(s) /\ ~s.stale} IN
    /\ conn[c] = "acting"
    /\ Connected(Owner[c])
    /\ MoveTo(c, "done")
    /\ taken' = [taken EXCEPT ![c] = {}]
    /\ sessions' = [p \in Pair |->
           IF \E s \in back : PairOf(s) = p
           THEN [(CHOOSE s \in back : PairOf(s) = p) EXCEPT !.restored = TRUE]
           ELSE sessions[p]]
    /\ verdicts' = verdicts \cup {<<s.id, "dropped">> : s \in taken[c] \ back}
    /\ UNCHANGED <<nextId, job, related, severing, relations, answered>>

-----------------------------------------------------------------------------
Frame == \E u \in User :
    \/ InviteCreate(u)
    \/ Accept(u)
    \/ \E p \in Pair : Reject(u, p) \/ Cancel(u, p) \/ End(u, p) \/ Timeout(u, p)

Request == \E c \in Conn, peer \in User : InviteCheck(c, peer) \/ AcceptCheck(c, peer)

Relation ==
    \/ \E p \in Pair : Sever(p) \/ TakePair(p) \/ WipeConversation(p)
    \/ \E u \in User : PurgeUser(u)

Clock == Sweep \/ \E p \in Pair : Expire(p)

Cleanup == \E c \in Conn :
    \/ CleanConnection(c)
    \/ TakeAll(c)
    \/ FinalizeTaken(c)
    \/ RestoreTaken(c)

Next == Frame \/ Request \/ Relation \/ Clock \/ Cleanup
        \/ \E c \in Conn : Connection(c)

Spec == Init /\ [][Next]_vars

(****************************************************************************)
(* The sweeper runs for ever, time passes, and a connection's task runs to   *)
(* its end.  No user is obliged to send anything.                           *)
(****************************************************************************)
Fairness ==
    /\ WF_vars(Sweep)
    /\ \A p \in Pair : WF_vars(Expire(p))
    /\ \A c \in Conn :
          WF_vars(TakeAll(c) \/ FinalizeTaken(c) \/ RestoreTaken(c))

FairSpec == Spec /\ Fairness

-----------------------------------------------------------------------------
(****************************************************************************)
(* Properties.                                                              *)
(****************************************************************************)
InHand == UNION {taken[c] : c \in Conn}
Held == {sessions[p] : p \in InMap} \cup InHand
Over(i) == \E v \in verdicts : v[1] = i

\* A call ends once: it is not finished by two of the tasks that may take it
\* (sweeper, frames, cleanups, HTTP), nor finished while one still holds it.
EndsOnce ==
    /\ \A v, w \in verdicts : v[1] = w[1] => v = w
    /\ \A s \in Held : ~Over(s.id)

\* A call that was placed is in the map, in the hands of a cleanup, or over: no
\* task lets go of a session without an outcome.
NeverForgotten ==
    \A i \in CallId : i < nextId => Over(i) \/ \E s \in Held : s.id = i

\* A session is filed under its two users.
KeysMatch ==
    /\ \A p \in InMap : PairOf(sessions[p]) = p
    /\ \A c \in Conn : \A s \in taken[c] : PairOf(s) \in Pair
    /\ \A c \in Conn : \A s, t \in taken[c] : PairOf(s) = PairOf(t) => s = t

\* No two holders have the same call.
OneHolder ==
    /\ \A p, q \in InMap : sessions[p].id = sessions[q].id => p = q
    /\ \A p \in InMap, c \in Conn : \A s \in taken[c] : s.id # sessions[p].id
    /\ \A c, d \in Conn : \A s \in taken[c], t \in taken[d] :
          s.id = t.id => c = d /\ s = t

\* Only a cleanup between its taking and its second look holds sessions.
TakenByActing == \A c \in Conn : taken[c] # {} => conn[c] = "acting"

\* Ids are handed out in order, and a session is accepted when its call was.
IdsPlaced ==
    /\ \A s \in Held : s.id < nextId /\ (s.phase = "Accepted" <=> s.id \in answered)
    /\ \A v \in verdicts : v[1] < nextId
    /\ \A i \in answered : i < nextId

\* The inductive invariant of the two properties above: the books of the calls
\* balance, in the map, in the hands of the cleanups and in what is over.
LedgerInv ==
    /\ KeysMatch /\ OneHolder /\ TakenByActing /\ IdsPlaced
    /\ EndsOnce /\ NeverForgotten

\* user_has_active_session_locked keeps a user in one call at a time; only a
\* session handed back by restore_sessions, which does not ask, can be a second.
OneCallAtATime ==
    \A p, q \in InMap :
        p # q /\ p \cap q # {} /\ ~sessions[p].stale /\ ~sessions[q].stale
            => sessions[p].restored \/ sessions[q].restored

\* The users a session needs: the caller always, the callee once it answered.
Needed(s) == {s.caller} \cup (IF s.phase = "Accepted" THEN {s.callee} ELSE {})

\* Nobody stays in a call after going offline: a needed party that is not
\* connected has its cleanup ahead.  The exceptions are a frame handled after
\* that cleanup and a session handed back by the other party's.
OfflineMeansNoCall ==
    \A p \in InMap : \A u \in Needed(sessions[p]) :
        \/ Connected(u)
        \/ CleanupAhead(u)
        \/ sessions[p].late
        \/ sessions[p].restored

\* Two users who are no longer friends, or blocked, are not in a call, or the
\* handler is about to end it.  The exceptions are a call whose check had
\* passed before, and one that a cleanup held while the handler looked.
SeveredMeansNoCall ==
    \A p \in InMap :
        p \notin related =>
            \/ p \in severing
            \/ sessions[p].overtaken
            \/ sessions[p].restored

\* Who is in a call has it to be in: no call is left to users who are gone, or who
\* have nothing to do with each other any more.
NoOrphanCall == OfflineMeansNoCall /\ SeveredMeansNoCall

\* What a call log says of a call, in the words of CallPromise.
Outcome(v) == IF v \in {"dropped", "lost"} THEN "vanished" ELSE v

Status == [i \in CallId |->
    IF i >= nextId THEN "unborn"
    ELSE IF Over(i) THEN Outcome((CHOOSE v \in verdicts : v[1] = i)[2])
    ELSE IF i \in answered THEN "answered" ELSE "ringing"]

Promise == INSTANCE CallPromise WITH status <- Status

\* Every call runs through the life CallPromise describes: no answered call is
\* logged as missed, no call rings or is answered again after its end.
KeepsPromise == Promise!Spec

\* Every call ends, whatever its parties and their connections do.
EveryCallEnds == \A i \in CallId : (i < nextId) ~> Over(i)

\* utils/voice/calls.rs:6, "Timeout = hangup": a call whose time is up is hung
\* up, that is, its parties are told and the log gets its message.
TimeoutIsHangup == \A v \in verdicts : v[2] # "lost"
================================================================================
