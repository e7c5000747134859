-------------------------------- MODULE Presence --------------------------------
(****************************************************************************)
(* Who is shown online: the isOnline field of a user, which on_user_connected*)
(* and on_user_disconnected (ws/handlers.rs) set, and which the set-online    *)
(* and set-offline frames and an HTTP status change set too.  Each of these  *)
(* is a task of its own, in no queue: it looks at the connection count and   *)
(* writes the field in separate steps, and tasks of several connections of   *)
(* a user, old and new, interleave.                                         *)
(****************************************************************************)
EXTENDS Connections

CONSTANTS
    MaxFrames,   \* bound: set-online and set-offline frames in a behaviour
    MaxErrors    \* bound: database errors in a behaviour

(****************************************************************************)
(* Why the field may differ from what the connections say, once nothing is   *)
(* in progress.                                                             *)
(*                                                                          *)
(* late      set online when the user was gone and cleaned up after           *)
(* chosen    set offline by a frame of a connection that was live            *)
(* stale     set offline by a frame of a connection that had ended           *)
(* failed    a task gave up on a database error                              *)
(****************************************************************************)
Excuse == {"none", "late", "chosen", "stale", "failed"}

VARIABLES
    online,   \* isOnline in the database
    greet,    \* on_user_connected of a connection: "none", or "due"
    bye,      \* on_user_disconnected: what it has done, see ByeStep
    frame,    \* the set-online or set-offline task of a connection
    frames,   \* how many such frames have been sent
    errors,   \* how many database errors there have been
    excuse    \* history: why the field may be off, see Excuse

\* checked   found the user gone for the last time before the write
\* written   has set the user offline
\* restore   found the user back, is to set it online again
ByeStep == {"none", "checked", "written", "restore"}

\* The task of a frame; "checked", "written" and "restore" are those of
\* set-offline.
FrameStep == {"none", "online", "offline", "checked", "written", "restore"}

presenceVars == <<online, greet, bye, frame, frames, errors, excuse>>
vars == <<conn, presenceVars>>

TypeOK ==
    /\ ConnTypeOK
    /\ online \in [User -> BOOLEAN]
    /\ greet \in [Conn -> {"none", "due"}]
    /\ bye \in [Conn -> ByeStep]
    /\ frame \in [Conn -> FrameStep]
    /\ frames \in 0..MaxFrames
    /\ errors \in 0..MaxErrors
    /\ excuse \in [User -> Excuse]
    /\ \A c \in Conn : bye[c] # "none" <=> conn[c] = "acting"

Init ==
    /\ ConnInit
    /\ online = [u \in User |-> FALSE]
    /\ greet = [c \in Conn |-> "none"]
    /\ bye = [c \in Conn |-> "none"]
    /\ frame = [c \in Conn |-> "none"]
    /\ frames = 0
    /\ errors = 0
    /\ excuse = [u \in User |-> "none"]

-----------------------------------------------------------------------------
\* set_user_online: the field, and whether anybody is there to be online.
SetOnline(u) ==
    /\ online' = [online EXCEPT ![u] = TRUE]
    /\ excuse' = [excuse EXCEPT ![u] =
           IF Connected(u) \/ CleanupAhead(u) THEN "none" ELSE "late"]

\* set_user_offline
SetOffline(u, why) ==
    /\ online' = [online EXCEPT ![u] = FALSE]
    /\ excuse' = [excuse EXCEPT ![u] = IF Connected(u) THEN why ELSE "none"]

\* A database error, in the write or in the read before it: the task returns
\* without its write.
GiveUp(u) ==
    /\ errors < MaxErrors
    /\ errors' = errors + 1
    /\ excuse' = [excuse EXCEPT ![u] = "failed"]
    /\ UNCHANGED online

\* A write of the field, or the error that takes its place.
Written(u) == SetOnline(u) /\ UNCHANGED errors

-----------------------------------------------------------------------------
\* Mutant of Open: only a user's first connection ever greets.
OpenOnce(c) ==
    /\ Attach(c)
    /\ greet' = [greet EXCEPT ![c] =
           IF \A d \in Conn : Owner[d] = Owner[c] => conn[d] = "unused" THEN "due" ELSE @]
    /\ UNCHANGED <<online, bye, frame, frames, errors, excuse>>

\* handle_socket: the connection that makes the count one greets.
Open(c) ==
    /\ Attach(c)
    /\ greet' = [greet EXCEPT ![c] = IF LiveOf(Owner[c]) = {} THEN "due" ELSE @]
    /\ UNCHANGED <<online, bye, frame, frames, errors, excuse>>

\* on_user_connected: its task may run late, and does not look whether the
\* connection is still there.
Greet(c) ==
    /\ greet[c] = "due"
    /\ greet' = [greet EXCEPT ![c] = "none"]
    /\ Written(Owner[c]) \/ GiveUp(Owner[c])
    /\ UNCHANGED <<conn, bye, frame, frames>>

Connection(c) ==
    /\ Detach(c) \/ Decide(c) \/ Wake(c)
    /\ UNCHANGED presenceVars

(****************************************************************************)
(* on_user_disconnected, after the calls and the voice roster.  It asks      *)
(* several times whether the user is back, and returns if so; the last time  *)
(* before the write stands for all of them.                                 *)
(****************************************************************************)
ByeCheck(c) ==
    /\ conn[c] = "closing"
    /\ IF Connected(Owner[c])
       THEN MoveTo(c, "done") /\ UNCHANGED bye
       ELSE MoveTo(c, "acting") /\ bye' = [bye EXCEPT ![c] = "checked"]
    /\ UNCHANGED <<online, greet, frame, frames, errors, excuse>>

\* Mutant of ByeOver: the connection's task is left open.
ByeLeftOpen(c) == bye' = [bye EXCEPT ![c] = "none"] /\ UNCHANGED conn

\* Its task has ended.
ByeOver(c) == MoveTo(c, "done") /\ bye' = [bye EXCEPT ![c] = "none"]

\* Mutant of ByeWrite: the write is forgotten.
ByeNoWrite(c) ==
    /\ bye[c] = "checked"
    /\ bye' = [bye EXCEPT ![c] = "written"]
    /\ UNCHANGED <<conn, online, greet, frame, frames, errors, excuse>>

\* set_user_offline, without another look.
ByeWrite(c) ==
    /\ bye[c] = "checked"
    /\ \/ /\ SetOffline(Owner[c], "none")
          /\ bye' = [bye EXCEPT ![c] = "written"]
          /\ UNCHANGED <<conn, errors>>
       \/ GiveUp(Owner[c]) /\ ByeOver(c)
    /\ UNCHANGED <<greet, frame, frames>>

\* Mutant of ByeSecondLook: there is none.
ByeNoSecondLook(c) ==
    /\ bye[c] = "written"
    /\ ByeOver(c)
    /\ UNCHANGED <<online, greet, frame, frames, errors, excuse>>

\* A user who is back by now goes online again.
ByeSecondLook(c) ==
    /\ bye[c] = "written"
    /\ IF Connected(Owner[c])
       THEN bye' = [bye EXCEPT ![c] = "restore"] /\ UNCHANGED conn
       ELSE ByeOver(c)
    /\ UNCHANGED <<online, greet, frame, frames, errors, excuse>>

ByeRestore(c) ==
    /\ bye[c] = "restore"
    /\ Written(Owner[c]) \/ GiveUp(Owner[c])
    /\ ByeOver(c)
    /\ UNCHANGED <<greet, frame, frames>>

-----------------------------------------------------------------------------
(****************************************************************************)
(* The set-online and set-offline frames.  Each starts a task; set-offline   *)
(* stands back when the user has a second connection.                       *)
(****************************************************************************)
Elsewhere(u) == Cardinality(LiveOf(u)) > 1

Send(c, what) ==
    /\ conn[c] = "live"
    /\ frame[c] = "none"
    /\ frames < MaxFrames
    /\ frames' = frames + 1
    /\ frame' = [frame EXCEPT ![c] = what]
    /\ UNCHANGED <<conn, online, greet, bye, errors, excuse>>

FrameOver(c) == frame' = [frame EXCEPT ![c] = "none"]

FrameOnline(c) ==
    /\ frame[c] \in {"online", "restore"}
    /\ FrameOver(c)
    /\ Written(Owner[c]) \/ GiveUp(Owner[c])
    /\ UNCHANGED <<conn, greet, bye, frames>>

\* The last of its two looks at the count before the write.
FrameCheck(c) ==
    /\ frame[c] = "offline"
    /\ frame' = [frame EXCEPT ![c] = IF Elsewhere(Owner[c]) THEN "none" ELSE "checked"]
    /\ UNCHANGED <<conn, online, greet, bye, frames, errors, excuse>>

FrameWrite(c) ==
    /\ frame[c] = "checked"
    /\ \/ /\ SetOffline(Owner[c], IF conn[c] = "live" THEN "chosen" ELSE "stale")
          /\ frame' = [frame EXCEPT ![c] = "written"]
          /\ UNCHANGED errors
       \/ GiveUp(Owner[c]) /\ FrameOver(c)
    /\ UNCHANGED <<conn, greet, bye, frames>>

FrameSecondLook(c) ==
    /\ frame[c] = "written"
    /\ frame' = [frame EXCEPT ![c] = IF Elsewhere(Owner[c]) THEN "restore" ELSE "none"]
    /\ UNCHANGED <<conn, online, greet, bye, frames, errors, excuse>>

\* update_availability_status, over HTTP, sets isOnline without a connection.
HttpStatus(u) ==
    /\ Written(u)
    /\ UNCHANGED <<conn, greet, bye, frame, frames>>

-----------------------------------------------------------------------------
Bye(c) == ByeCheck(c) \/ ByeWrite(c) \/ ByeSecondLook(c) \/ ByeRestore(c)
FrameTask(c) == FrameOnline(c) \/ FrameCheck(c) \/ FrameWrite(c) \/ FrameSecondLook(c)

Next ==
    \/ \E c \in Conn : Open(c) \/ Connection(c) \/ Greet(c) \/ Bye(c) \/ FrameTask(c)
    \/ \E c \in Conn, what \in {"online", "offline"} : Send(c, what)
    \/ \E u \in User : HttpStatus(u)

Spec == Init /\ [][Next]_vars

\* The tasks run; no user is obliged to connect, leave or send anything.
Fairness == \A c \in Conn :
    /\ WF_vars((Decide(c) \/ Wake(c)) /\ UNCHANGED presenceVars)
    /\ WF_vars(Greet(c))
    /\ WF_vars(Bye(c))
    /\ WF_vars(FrameTask(c))

FairSpec == Spec /\ Fairness

-----------------------------------------------------------------------------
(****************************************************************************)
(* Properties.                                                              *)
(****************************************************************************)
\* No task of u has a step ahead that may write the field.
Quiet(u) ==
    /\ ~CleanupAhead(u)
    /\ \A c \in Conn : Owner[c] = u =>
          greet[c] = "none" /\ bye[c] = "none" /\ frame[c] = "none"

\* Once the dust has settled the field says whether the user is connected: a
\* goodbye overtaken by a reconnection is taken back, and every last
\* connection that ends is followed by a goodbye.  But for the excuses.
OnlineMatches ==
    \A u \in User : Quiet(u) /\ excuse[u] = "none" => online[u] = Connected(u)

\* The inductive invariant of OnlineMatches: a field that is off has a task
\* that is about to set it right.
Amended ==
    \A u \in User : excuse[u] = "none" =>
        /\ online[u] =>
              \/ Connected(u) \/ CleanupAhead(u)
              \/ \E c \in Conn : Owner[c] = u /\ bye[c] = "checked"
        /\ ~online[u] /\ Connected(u) =>
              \E c \in Conn : Owner[c] = u /\
                  (greet[c] = "due" \/ bye[c] \in {"written", "restore"})

\* A user who has gone is shown offline in the end.
GoneGoesOffline ==
    \A u \in User :
        (online[u] /\ ~Connected(u)) ~> (~online[u] \/ Connected(u) \/ excuse[u] # "none")
================================================================================
