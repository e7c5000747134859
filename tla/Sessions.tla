--------------------------------- MODULE Sessions --------------------------------
(****************************************************************************)
(* The sessions of one account: its refresh tokens in the database, the        *)
(* requests of controllers/auth.rs that issue, rotate and revoke them, and the *)
(* sockets that were opened under them (ws/registry.rs, ws/mod.rs).            *)
(*                                                                          *)
(* A session is a family of refresh tokens.  Each rotation retires one token  *)
(* and adds another of the same family, in two writes.  An access token holds *)
(* a family and the account's tokenVersion at its making, and is good while   *)
(* the version stands, the account may log in and the family has a live token.*)
(* Of versions and passwords it only matters whether one is the present one:  *)
(* "current" says so, of a version or of the password a token was opened with.*)
(*                                                                          *)
(* A request goes from one await to the next; between two of them any other    *)
(* step may come.  Sockets are cut off by tasks of their own (Disconnect), or  *)
(* by the recheck every socket makes of its own access token.                  *)
(****************************************************************************)
EXTENDS Integers, Sequences, FiniteSets

CONSTANTS
    MaxSockets,   \* bound: sockets ever opened
    MaxAtOnce,    \* bound: requests under way at once
    MaxTokens,    \* bound: refresh tokens ever issued
    MaxRequests   \* bound: requests ever started

ASSUME SessionAssumption == MaxTokens \in Nat \ {0}

VARIABLES
    allowed,   \* is_login_allowed of the User document
    tokens,    \* the RefreshToken documents, in the order they were issued
    access,    \* the families with an access token of the present tokenVersion
    request,   \* what each request holds across its awaits
    started,   \* how many requests there have been
    spawned,   \* the disconnect tasks that have not run, by whom they are for
    socket,    \* the account's sockets
    ended,     \* history: the families that have been revoked
    unlisted,  \* history: families revoked together with others, and not by name
    unrevoked  \* history: a revocation failed, and the failure was logged

vars == <<allowed, tokens, access, request, started, spawned, socket,
          ended, unlisted, unrevoked>>

Everyone == 0
Request == 1 .. MaxAtOnce
Socket == 1 .. MaxSockets
Families == {tokens[i].family : i \in DOMAIN tokens}
LastFamily == CHOOSE f \in Families : \A g \in Families : g <= f

\* RefreshToken::family_is_active
Active(f) == \E i \in DOMAIN tokens : tokens[i].family = f /\ tokens[i].live

\* user_from_token_payload, of an access token for f, of the present version or
\* of an earlier one.
Granted(f, current) == current /\ allowed /\ Active(f)

\* Someone holds an access token for f that is good.
Good(f) == f \in access /\ Granted(f, TRUE)

Open(s) == socket[s].at = "open"
Denied(s) == ~Granted(socket[s].family, socket[s].current)

Idle == [op |-> "none", at |-> "idle", family |-> 0, token |-> 0, current |-> FALSE,
         listed |-> {}, late |-> FALSE]

Away == [at |-> "away", family |-> 0, current |-> FALSE, excused |-> FALSE]

-----------------------------------------------------------------------------
Operation == {"none", "login", "refresh", "logout", "others", "change", "disable"}
Place == {"idle", "user", "retire", "renew", "access", "reuse", "reused", "drop",
          "issue", "family", "rest", "update", "write", "version", "revoke"}
Target == 0 .. MaxTokens

TypeOK ==
    /\ allowed \in BOOLEAN
    /\ tokens \in Seq([family : 1 .. MaxTokens, live : BOOLEAN, current : BOOLEAN, late : BOOLEAN])
    /\ access \subseteq 1 .. MaxTokens
    /\ request \in [Request ->
            [op : Operation, at : Place, family : Target, token : Target, current : BOOLEAN,
             listed : SUBSET (1 .. MaxTokens), late : BOOLEAN]]
    /\ started \in Nat
    /\ spawned \in [Target -> Nat]
    /\ socket \in [Socket ->
            [at : {"away", "shaken", "open", "over"}, family : Target, current : BOOLEAN,
             excused : BOOLEAN]]
    /\ ended \subseteq 1 .. MaxTokens
    /\ unlisted \subseteq ended
    /\ unrevoked \in BOOLEAN

\* An account that has signed up, and holds its first session.
Init ==
    /\ allowed = TRUE
    /\ tokens = <<[family |-> 1, live |-> TRUE, current |-> TRUE, late |-> FALSE]>>
    /\ access = {1}
    /\ request = [r \in Request |-> Idle]
    /\ started = 0
    /\ spawned = [x \in Target |-> 0]
    /\ socket = [s \in Socket |-> Away]
    /\ ended = {}
    /\ unlisted = {}
    /\ unrevoked = FALSE

-----------------------------------------------------------------------------
database == <<allowed, tokens, access>>
history == <<ended, unlisted, unrevoked>>

\* The first place that is free; which one it is says nothing.
Starts(r, op, at, what) ==
    /\ request[r] = Idle
    /\ \A q \in Request : q < r => request[q] # Idle
    /\ started < MaxRequests
    /\ started' = started + 1
    /\ request' = [request EXCEPT ![r] = [what EXCEPT !.op = op, !.at = at]]

\* The request r is at one await and goes on to the next.
At(r, op, at) == request[r].op = op /\ request[r].at = at
Goes(r, at) == request' = [request EXCEPT ![r].at = at]
Answers(r) == request' = [request EXCEPT ![r] = Idle]

Spawn(xs) == spawned' = [x \in Target |-> spawned[x] + IF x \in xs THEN 1 ELSE 0]

\* The tokenVersion is incremented: the access tokens there are now of old.
NewVersion ==
    /\ access' = {}
    /\ socket' = [s \in Socket |-> [socket[s] EXCEPT !.current = FALSE]]

\* The tokens of the families of fs are revoked.  The requests that have the
\* old state of one in hand, or are about to open a session, are late.
Holds(r, fs) ==
    \/ request[r].op \in {"login", "change"} /\ fs = Families
    \/ request[r].op = "refresh" /\ request[r].family \in fs

Overtaken(r, fs, next) ==
    [q \in Request |->
        IF q = r THEN next ELSE [request[q] EXCEPT !.late = @ \/ Holds(q, fs)]]

Revoked(fs) ==
    [i \in DOMAIN tokens |->
        [tokens[i] EXCEPT !.live = @ /\ tokens[i].family \notin fs]]

-----------------------------------------------------------------------------
(****************************************************************************)
(* Opening a session: login and verify_two_factor_login, once they are sure   *)
(* of the password (and the code), come to login_response.                    *)
(****************************************************************************)
Login(r) ==
    /\ allowed
    /\ Starts(r, "login", "issue", [Idle EXCEPT !.current = TRUE])
    /\ UNCHANGED <<database, spawned, socket, history>>

\* issue_refresh_token: a family of its own.
Issue(r) ==
    /\ request[r].at = "issue"
    /\ Len(tokens) < MaxTokens
    /\ tokens' = Append(tokens, [family |-> LastFamily + 1, live |-> TRUE,
                                 current |-> request[r].current, late |-> request[r].late])
    /\ request' = [request EXCEPT ![r].at = "access", ![r].family = LastFamily + 1]
    /\ UNCHANGED <<allowed, access, started, spawned, socket, history>>

\* create_access_token reads the tokenVersion anew.
GrantAccess(r) ==
    /\ request[r].at = "access"
    /\ access' = access \union {request[r].family}
    /\ Answers(r)
    /\ UNCHANGED <<allowed, tokens, started, spawned, socket, history>>

-----------------------------------------------------------------------------
(****************************************************************************)
(* rotate_refresh_token, of any token ever issued.                            *)
(****************************************************************************)
\* Mutant of FindToken: a token that has been revoked is taken like any other.
FindAnyToken(r) ==
    \E i \in DOMAIN tokens :
        /\ Starts(r, "refresh", "user",
                  [Idle EXCEPT !.token = i, !.family = tokens[i].family, !.late = tokens[i].late])
        /\ UNCHANGED <<database, spawned, socket, history>>

\* A revoked token, and one that comes with another fingerprint, is reuse; one
\* that has no fingerprint is only dropped.
FindToken(r) ==
    \E i \in DOMAIN tokens, next \in {"user", "reuse", "drop"} :
        /\ tokens[i].live \/ next = "reuse"
        /\ Starts(r, "refresh", next,
                  [Idle EXCEPT !.token = i, !.family = tokens[i].family, !.late = tokens[i].late])
        /\ UNCHANGED <<database, spawned, socket, history>>

\* The account: it must still be allowed to log in.
LookAtUser(r) ==
    /\ At(r, "refresh", "user")
    /\ IF allowed THEN Goes(r, "retire") ELSE Answers(r)
    /\ UNCHANGED <<database, started, spawned, socket, history>>

Drop(r) ==
    /\ At(r, "refresh", "drop")
    /\ \/ tokens' = [tokens EXCEPT ![request[r].token].live = FALSE]
       \/ UNCHANGED tokens
    /\ Answers(r)
    /\ UNCHANGED <<allowed, access, started, spawned, socket, history>>

\* RefreshToken::revoke_by_id, whatever has become of the token since.
Retire(r) ==
    /\ At(r, "refresh", "retire")
    /\ tokens' = [tokens EXCEPT ![request[r].token].live = FALSE]
    /\ Goes(r, "renew")
    /\ UNCHANGED <<allowed, access, started, spawned, socket, history>>

Renew(r) ==
    /\ At(r, "refresh", "renew")
    /\ Len(tokens) < MaxTokens
    /\ tokens' = Append(tokens, [tokens[request[r].token] EXCEPT
                                    !.live = TRUE, !.late = request[r].late])
    /\ Goes(r, "access")
    /\ UNCHANGED <<allowed, access, started, spawned, socket, history>>

\* The answer to reuse: the family, then the version and the sockets, whatever
\* becomes of each.
RevokeReused(r) ==
    /\ At(r, "refresh", "reuse")
    /\ \/ /\ tokens' = Revoked({request[r].family})
          /\ ended' = ended \union {request[r].family}
          /\ request' = Overtaken(r, {request[r].family}, [request[r] EXCEPT !.at = "reused"])
       \/ Goes(r, "reused") /\ UNCHANGED <<tokens, ended>>
    /\ UNCHANGED <<allowed, access, started, spawned, socket, unlisted, unrevoked>>

InvalidateReused(r) ==
    /\ At(r, "refresh", "reused")
    /\ NewVersion \/ UNCHANGED <<access, socket>>
    /\ Spawn({Everyone})
    /\ Answers(r)
    /\ UNCHANGED <<allowed, tokens, started, history>>

-----------------------------------------------------------------------------
(****************************************************************************)
(* Ending sessions.                                                           *)
(****************************************************************************)
\* logout: family_id_from_refresh_token knows no family of a revoked token.
LogoutCheck(r) ==
    \E i \in DOMAIN tokens :
        /\ Starts(r, "logout", "family",
                  [Idle EXCEPT !.token = i,
                               !.family = IF tokens[i].live THEN tokens[i].family ELSE 0])
        /\ UNCHANGED <<database, spawned, socket, history>>

\* Mutant of LogoutRevoke: the sockets are left alone.
LogoutQuietly(r) ==
    /\ At(r, "logout", "family")
    /\ LET f == tokens[request[r].token].family
       IN  /\ tokens' = Revoked({f})
           /\ ended' = ended \union {f}
           /\ request' = Overtaken(r, {f}, Idle)
    /\ UNCHANGED <<allowed, access, started, spawned, socket, unlisted, unrevoked>>

\* revoke_refresh_token_family, then the sockets: of the family, or of everyone
\* when the token was revoked already.
LogoutRevoke(r) ==
    /\ At(r, "logout", "family")
    /\ LET f == tokens[request[r].token].family
       IN  /\ tokens' = Revoked({f})
           /\ ended' = ended \union {f}
           /\ request' = Overtaken(r, {f}, Idle)
    /\ Spawn({request[r].family})
    /\ UNCHANGED <<allowed, access, started, socket, unlisted, unrevoked>>

\* A logout that brings no refresh token, only an access token, good or not.
LogoutByAccess ==
    /\ started < MaxRequests
    /\ started' = started + 1
    /\ Spawn({Everyone})
    /\ UNCHANGED <<database, request, socket, history>>

\* revoke_session: the holder of a good access token ends one family by name.
RevokeSession ==
    \E f \in Families :
        /\ \E a \in access : Good(a)
        /\ started < MaxRequests
        /\ started' = started + 1
        /\ tokens' = Revoked({f})
        /\ ended' = ended \union {f}
        /\ request' = [q \in Request |-> [request[q] EXCEPT !.late = @ \/ Holds(q, {f})]]
        /\ Spawn({f})
        /\ UNCHANGED <<allowed, access, socket, unlisted, unrevoked>>

\* revoke_other_sessions, and revoke_other_devices after a change of two-factor
\* settings: first the list of the families that are active,
ListOthers(r) ==
    \E a \in access :
        /\ Good(a)
        /\ Starts(r, "others", "rest",
                  [Idle EXCEPT !.family = a,
                               !.listed = {f \in Families \ {a} : Active(f)}])
        /\ UNCHANGED <<database, spawned, socket, history>>

\* then the revocation of all but one, and the sockets of those listed.
RevokeOthers(r) ==
    /\ At(r, "others", "rest")
    /\ LET fs == {f \in Families \ {request[r].family} : Active(f)}
       IN  /\ tokens' = Revoked(fs)
           /\ ended' = ended \union fs
           /\ unlisted' = unlisted \union (fs \ request[r].listed)
           /\ request' = Overtaken(r, fs, Idle)
    /\ Spawn(request[r].listed)
    /\ UNCHANGED <<allowed, access, started, socket, unrevoked>>

-----------------------------------------------------------------------------
(****************************************************************************)
(* change_password and disable_account: the document, invalidate_user_session, *)
(* and for a password a new session.                                         *)
(****************************************************************************)
ChangeCheck(r) ==
    /\ \E a \in access : Good(a)
    /\ Starts(r, "change", "update", Idle)
    /\ UNCHANGED <<database, spawned, socket, history>>

UpdatePassword(r) ==
    /\ At(r, "change", "update")
    /\ tokens' = [i \in DOMAIN tokens |-> [tokens[i] EXCEPT !.current = FALSE]]
    /\ request' = [q \in Request |->
            IF q = r THEN [request[q] EXCEPT !.at = "version", !.current = TRUE]
                     ELSE [request[q] EXCEPT !.current = FALSE]]
    /\ NewVersion
    /\ UNCHANGED <<allowed, started, spawned, history>>

DisableCheck(r) ==
    /\ \E a \in access : Good(a)
    /\ Starts(r, "disable", "write", Idle)
    /\ UNCHANGED <<database, spawned, socket, history>>

DisableWrite(r) ==
    /\ At(r, "disable", "write")
    /\ allowed' = FALSE
    /\ Goes(r, "version")
    /\ UNCHANGED <<tokens, access, started, spawned, socket, history>>

\* User::invalidate_tokens; an error is logged and nothing else.
InvalidateVersion(r) ==
    /\ request[r].at = "version"
    /\ NewVersion \/ UNCHANGED <<access, socket>>
    /\ Goes(r, "revoke")
    /\ UNCHANGED <<allowed, tokens, started, spawned, history>>

\* Mutant of RevokeAll: only the sockets are cut off.
RevokeNone(r) ==
    /\ request[r].at = "revoke"
    /\ IF request[r].op = "change" THEN Goes(r, "issue") ELSE Answers(r)
    /\ Spawn({Everyone})
    /\ UNCHANGED <<allowed, tokens, access, started, socket, history>>

\* revoke_user_refresh_tokens; an error is logged, and the sockets are cut off
\* all the same.
RevokeAll(r) ==
    /\ request[r].at = "revoke"
    /\ LET next == IF request[r].op = "change" THEN [request[r] EXCEPT !.at = "issue"] ELSE Idle
       IN  \/ /\ tokens' = Revoked(Families)
              /\ ended' = ended \union Families
              /\ request' = Overtaken(r, Families, next)
              /\ UNCHANGED <<unlisted, unrevoked>>
           \/ /\ unrevoked' = TRUE
              /\ request' = [request EXCEPT ![r] = next]
              /\ UNCHANGED <<tokens, ended, unlisted>>
    /\ Spawn({Everyone})
    /\ UNCHANGED <<allowed, access, started, socket>>

\* The database fails and the request answers with an error; the steps whose
\* errors are only logged have it in their own actions.
GivesUp(r) ==
    /\ request[r].at \in {"user", "retire", "renew", "issue", "access", "family", "rest",
                          "update", "write"}
    /\ Answers(r)
    /\ UNCHANGED <<database, started, spawned, socket, history>>

\* An administrator's tool blocks the account in the database, and tells nobody.
Block ==
    /\ allowed' = FALSE
    /\ UNCHANGED <<tokens, access, request, started, spawned, socket, history>>

-----------------------------------------------------------------------------
(****************************************************************************)
(* Sockets.                                                                   *)
(****************************************************************************)
\* ws_handler: the access token is good at the handshake.
Handshake(s) ==
    /\ socket[s].at = "away"
    /\ \A x \in Socket : x < s => socket[x].at # "away"
    /\ \E a \in access :
        /\ Good(a)
        /\ socket' = [socket EXCEPT ![s] = [at |-> "shaken", family |-> a, current |-> TRUE,
                                            excused |-> a \in ended]]
    /\ UNCHANGED <<database, request, started, spawned, history>>

\* handle_socket: ConnectionRegistry::register.
Register(s) ==
    /\ socket[s].at = "shaken"
    /\ socket' = [socket EXCEPT ![s].at = "open"]
    /\ UNCHANGED <<database, request, started, spawned, history>>

\* The client goes: the loop breaks and unregisters.
Leave(s) ==
    /\ socket[s].at \in {"shaken", "open"}
    /\ socket' = [socket EXCEPT ![s].at = "over"]
    /\ UNCHANGED <<database, request, started, spawned, history>>

Meant(s, x) == x = Everyone \/ socket[s].family = x

\* Mutant of Disconnect: it runs though nobody has asked for it.
DisconnectUnasked(x) ==
    /\ spawned' = [spawned EXCEPT ![x] = @ - 1]
    /\ socket' = [s \in Socket |->
            IF Meant(s, x) /\ Open(s) THEN [socket[s] EXCEPT !.at = "over"] ELSE socket[s]]
    /\ UNCHANGED <<database, request, started, history>>

\* disconnect_family, disconnect_user: who is registered is taken out and told
\* to stop.  A socket not registered yet is not found, and so excused.
Disconnect(x) ==
    /\ spawned[x] > 0
    /\ spawned' = [spawned EXCEPT ![x] = @ - 1]
    /\ socket' = [s \in Socket |->
            CASE Meant(s, x) /\ Open(s) -> [socket[s] EXCEPT !.at = "over"]
              [] Meant(s, x) /\ socket[s].at = "shaken" -> [socket[s] EXCEPT !.excused = TRUE]
              [] OTHER -> socket[s]]
    /\ UNCHANGED <<database, request, started, history>>

\* Mutant of Recheck: a socket asks only whether the account may log in.
RecheckAccount(s) ==
    /\ Open(s)
    /\ ~allowed
    /\ spawned[Everyone] = 0
    /\ Spawn({Everyone})
    /\ UNCHANGED <<database, request, started, socket, history>>

\* The tick of a socket that got the account's slot (try_begin_auth_recheck) and
\* finds its token denied: everybody's sockets go.  While that task is still to
\* run another would change nothing.
Recheck(s) ==
    /\ Open(s)
    /\ Denied(s)
    /\ spawned[Everyone] = 0
    /\ Spawn({Everyone})
    /\ UNCHANGED <<database, request, started, socket, history>>

-----------------------------------------------------------------------------
RequestStep(r) ==
    \/ Login(r) \/ Issue(r) \/ GrantAccess(r)
    \/ FindToken(r) \/ Drop(r) \/ LookAtUser(r) \/ Retire(r) \/ Renew(r)
    \/ RevokeReused(r) \/ InvalidateReused(r)
    \/ LogoutCheck(r) \/ LogoutRevoke(r)
    \/ ListOthers(r) \/ RevokeOthers(r)
    \/ ChangeCheck(r) \/ UpdatePassword(r)
    \/ DisableCheck(r) \/ DisableWrite(r)
    \/ InvalidateVersion(r) \/ RevokeAll(r)
    \/ GivesUp(r)

Next ==
    \/ \E r \in Request : RequestStep(r)
    \/ LogoutByAccess \/ RevokeSession
    \/ Block
    \/ \E s \in Socket : Handshake(s) \/ Register(s) \/ Leave(s) \/ Recheck(s)
    \/ \E x \in Target : Disconnect(x)

Spec == Init /\ [][Next]_vars

\* Of an account's sockets one gets the slot each interval; which one nobody
\* says.  It is sure to be a denied one only where no other is open.
NoneGood == \A s \in Socket : Open(s) => Denied(s)

\* Tasks run once spawned, sockets register after the upgrade, and ticks come.
Fairness ==
    /\ WF_vars(\E x \in Target : Disconnect(x))
    /\ WF_vars(\E s \in Socket : Register(s))
    /\ WF_vars(NoneGood /\ \E s \in Socket : Recheck(s))

FairSpec == Spec /\ Fairness

-----------------------------------------------------------------------------
\* A session that was ended has no live token, ever again, but one a rotation
\* put there that held the family's token when it was ended.
EndedStaysEnded ==
    \A i \in DOMAIN tokens :
        tokens[i].live /\ tokens[i].family \in ended => tokens[i].late

\* A change of password is under way between its first write and its last.
Changing == \E r \in Request : request[r].op = "change" /\ request[r].at \in {"version", "revoke"}

\* Once a password change is through, what is live was opened with the password
\* in force: the exceptions are requests it overtook, and a logged failure.
OldPasswordOpensNothing ==
    \A i \in DOMAIN tokens :
        tokens[i].live /\ ~Changing /\ ~unrevoked =>
            tokens[i].current \/ tokens[i].late

\* When no disconnect is to come, an open socket of an ended session was not
\* registered yet when its disconnect ran, or its session was revoked without
\* being named.  (The recheck is for these.)
SocketsEndWithSessions ==
    \A s \in Socket :
        /\ Open(s)
        /\ socket[s].family \in ended
        /\ \A x \in Target : spawned[x] = 0
        /\ \A r \in Request : request[r].at # "reused"
        => socket[s].excused \/ socket[s].family \in unlisted

\* An account none of whose open sockets has a good token loses them all, unless
\* a good one opens or a rotation makes one good again.
DeniedAccountEnds ==
    (\E s \in Socket : Open(s)) /\ NoneGood ~> (\A s \in Socket : ~Open(s)) \/ ~NoneGood
=================================================================================
