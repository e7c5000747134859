----------------------------- MODULE AccountsProofs -----------------------------
(****************************************************************************)
(* Proofs about MCAccounts, for any bounds: the invariants of all its parts,   *)
(* each from an inductive invariant of its own.  SessionsProofs has that of   *)
(* the sessions; here are those of Presence (Amended), TwoFactor (CodesInv),   *)
(* AccountDeletion (DeletionInv) and Pictures (PictureInv).                    *)
(****************************************************************************)
EXTENDS MCAccounts, SessionsProofs

-----------------------------------------------------------------------------
(****************************************************************************)
(* Presence: the types, and that isOnline agrees with the connections when no  *)
(* task of the user is in progress, by way of the invariant Amended.         *)
(****************************************************************************)
\* The steps of a connection keep the phases in their type.
LEMMA ConnTyped ==
  ASSUME Online!ConnTypeOK, NEW c \in Conn, Online!ConnStep(c)
  PROVE  Online!ConnTypeOK'
  BY DEF Online!ConnTypeOK, Online!ConnStep, Online!Attach, Online!Detach, Online!Decide,
         Online!Wake, Online!MoveTo, Online!Phase

LEMMA InitPresence == Online!Init => Online!TypeOK /\ Online!Amended
<1> SUFFICES ASSUME Online!Init PROVE Online!TypeOK /\ Online!Amended
  OBVIOUS
<1>1. Online!TypeOK
  BY AccountsAssumption
  DEF Online!Init, Online!TypeOK, Online!ConnInit, Online!ConnTypeOK, Online!Phase,
      Online!Excuse, Online!ByeStep, Online!FrameStep
<1>2. Online!Amended
  BY DEF Online!Init, Online!Amended, Online!ConnInit, Online!Connected
<1> QED BY <1>1, <1>2

\* What a write of the field does, whichever task makes it.
LEMMA WriteTyped ==
  ASSUME Online!TypeOK, NEW u \in User,
         \/ Online!Written(u)
         \/ Online!GiveUp(u)
         \/ \E why \in Online!Excuse : Online!SetOffline(u, why) /\ UNCHANGED errors
  PROVE  /\ online' \in [User -> BOOLEAN]
         /\ errors' \in 0..MaxErrors
         /\ excuse' \in [User -> Online!Excuse]
<1>1. CASE Online!Written(u)
  BY <1>1 DEF Online!TypeOK, Online!Written, Online!SetOnline, Online!Excuse
<1>2. CASE Online!GiveUp(u)
  BY <1>2, AccountsAssumption DEF Online!TypeOK, Online!GiveUp, Online!Excuse
<1>3. CASE \E why \in Online!Excuse : Online!SetOffline(u, why) /\ UNCHANGED errors
  BY <1>3 DEF Online!TypeOK, Online!SetOffline, Online!Excuse
<1> QED BY <1>1, <1>2, <1>3

\* What the task of a frame does to the field.
LEMMA FrameCases ==
  ASSUME NEW c \in Conn, Online!FrameTask(c)
  PROVE  \/ Online!Written(Owner[c]) \/ Online!GiveUp(Owner[c])
         \/ UNCHANGED <<online, errors, excuse>>
         \/ Online!SetOffline(Owner[c], "chosen") /\ UNCHANGED errors
         \/ Online!SetOffline(Owner[c], "stale") /\ UNCHANGED errors
<1>1. CASE Online!FrameOnline(c)
  BY <1>1 DEF Online!FrameOnline
<1>2. CASE Online!FrameCheck(c)
  BY <1>2 DEF Online!FrameCheck
<1>3. CASE Online!FrameWrite(c)
  <2>1. CASE conn[c] = "live"
    BY <1>3, <2>1 DEF Online!FrameWrite
  <2>2. CASE conn[c] # "live"
    BY <1>3, <2>2 DEF Online!FrameWrite
  <2> QED BY <2>1, <2>2
<1>4. CASE Online!FrameSecondLook(c)
  BY <1>4 DEF Online!FrameSecondLook
<1> QED BY <1>1, <1>2, <1>3, <1>4 DEF Online!FrameTask

LEMMA NextTyped == Online!TypeOK /\ [Online!Next]_(Online!vars) => Online!TypeOK'
<1> SUFFICES ASSUME Online!TypeOK, [Online!Next]_(Online!vars) PROVE Online!TypeOK'
  OBVIOUS
<1>0. Online!ConnTypeOK /\ \A c \in Conn : Owner[c] \in User
  BY AccountsAssumption DEF Online!TypeOK
<1>1. ASSUME NEW c \in Conn, Online!Open(c) PROVE Online!TypeOK'
  <2>1. Online!ConnTypeOK'
    BY <1>0, <1>1, ConnTyped DEF Online!Open, Online!ConnStep
  <2>2. \A d \in Conn : conn'[d] = "acting" <=> conn[d] = "acting"
    BY <1>1 DEF Online!Open, Online!Attach, Online!MoveTo, Online!TypeOK, Online!ConnTypeOK
  <2> QED BY <1>1, <2>1, <2>2 DEF Online!Open, Online!TypeOK
<1>2. ASSUME NEW c \in Conn, Online!Connection(c) PROVE Online!TypeOK'
  <2>1. Online!ConnTypeOK'
    BY <1>0, <1>2, ConnTyped DEF Online!Connection, Online!ConnStep
  <2>2. \A d \in Conn : conn'[d] = "acting" <=> conn[d] = "acting"
    BY <1>2 DEF Online!Connection, Online!Detach, Online!Decide, Online!Wake, Online!MoveTo,
                Online!TypeOK, Online!ConnTypeOK
  <2> QED BY <1>2, <2>1, <2>2 DEF Online!Connection, Online!presenceVars, Online!TypeOK
<1>3. ASSUME NEW c \in Conn, Online!Greet(c) PROVE Online!TypeOK'
  <2>1. Online!Written(Owner[c]) \/ Online!GiveUp(Owner[c])
    BY <1>3 DEF Online!Greet
  <2>2. /\ online' \in [User -> BOOLEAN]
        /\ errors' \in 0..MaxErrors
        /\ excuse' \in [User -> Online!Excuse]
    BY <1>0, <2>1, WriteTyped
  <2> QED BY <1>3, <2>2 DEF Online!Greet, Online!TypeOK, Online!ConnTypeOK
<1>4. ASSUME NEW c \in Conn, Online!ByeCheck(c) PROVE Online!TypeOK'
  BY <1>4 DEF Online!ByeCheck, Online!MoveTo, Online!TypeOK, Online!ConnTypeOK, Online!Phase,
              Online!ByeStep
<1>5. ASSUME NEW c \in Conn, Online!ByeWrite(c) PROVE Online!TypeOK'
  <2>1. conn[c] = "acting"
    BY <1>5 DEF Online!ByeWrite, Online!TypeOK
  <2>2. /\ online' \in [User -> BOOLEAN]
        /\ errors' \in 0..MaxErrors
        /\ excuse' \in [User -> Online!Excuse]
    <3>1. CASE Online!SetOffline(Owner[c], "none") /\ UNCHANGED errors
      BY <1>0, <3>1, WriteTyped DEF Online!Excuse
    <3>2. CASE Online!GiveUp(Owner[c])
      BY <1>0, <3>2, WriteTyped
    <3> QED BY <1>5, <3>1, <3>2 DEF Online!ByeWrite
  <2>3. /\ Online!ConnTypeOK' /\ bye' \in [Conn -> Online!ByeStep]
        /\ \A d \in Conn : bye'[d] # "none" <=> conn'[d] = "acting"
    <3>1. CASE Online!ByeOver(c)
      BY <3>1 DEF Online!ByeOver, Online!MoveTo, Online!TypeOK, Online!ConnTypeOK, Online!Phase,
                  Online!ByeStep
    <3>2. CASE bye' = [bye EXCEPT ![c] = "written"] /\ UNCHANGED conn
      BY <2>1, <3>2 DEF Online!TypeOK, Online!ConnTypeOK, Online!ByeStep
    <3> QED BY <1>5, <3>1, <3>2 DEF Online!ByeWrite
  <2> QED BY <1>5, <2>2, <2>3 DEF Online!ByeWrite, Online!TypeOK
<1>6. ASSUME NEW c \in Conn, Online!ByeSecondLook(c) PROVE Online!TypeOK'
  BY <1>6 DEF Online!ByeSecondLook, Online!ByeOver, Online!MoveTo, Online!TypeOK,
              Online!ConnTypeOK, Online!Phase, Online!ByeStep
<1>7. ASSUME NEW c \in Conn, Online!ByeRestore(c) PROVE Online!TypeOK'
  <2>1. Online!Written(Owner[c]) \/ Online!GiveUp(Owner[c])
    BY <1>7 DEF Online!ByeRestore
  <2>2. /\ online' \in [User -> BOOLEAN]
        /\ errors' \in 0..MaxErrors
        /\ excuse' \in [User -> Online!Excuse]
    BY <1>0, <2>1, WriteTyped
  <2>3. /\ Online!ConnTypeOK' /\ bye' \in [Conn -> Online!ByeStep]
        /\ \A d \in Conn : bye'[d] # "none" <=> conn'[d] = "acting"
    BY <1>7 DEF Online!ByeRestore, Online!ByeOver, Online!MoveTo, Online!TypeOK,
                Online!ConnTypeOK, Online!Phase, Online!ByeStep
  <2> QED BY <1>7, <2>2, <2>3 DEF Online!ByeRestore, Online!TypeOK
<1>8. ASSUME NEW c \in Conn, Online!FrameTask(c) PROVE Online!TypeOK'
  <2>1. /\ online' \in [User -> BOOLEAN]
        /\ errors' \in 0..MaxErrors
        /\ excuse' \in [User -> Online!Excuse]
    <3>1. CASE Online!Written(Owner[c]) \/ Online!GiveUp(Owner[c])
      BY <1>0, <3>1, WriteTyped
    <3>2. CASE UNCHANGED <<online, errors, excuse>>
      BY <3>2 DEF Online!TypeOK
    <3>3. CASE \E why \in Online!Excuse : Online!SetOffline(Owner[c], why) /\ UNCHANGED errors
      BY <1>0, <3>3, WriteTyped
    <3> QED BY <1>8, <3>1, <3>2, <3>3, FrameCases DEF Online!Excuse
  <2>2. frame' \in [Conn -> Online!FrameStep]
    BY <1>8 DEF Online!FrameTask, Online!FrameOnline, Online!FrameCheck, Online!FrameWrite,
                Online!FrameSecondLook, Online!FrameOver,
                Online!FrameStep, Online!TypeOK
  <2>3. UNCHANGED <<conn, greet, bye, frames>>
    BY <1>8 DEF Online!FrameTask, Online!FrameOnline, Online!FrameCheck, Online!FrameWrite,
                Online!FrameSecondLook
  <2> QED BY <2>1, <2>2, <2>3 DEF Online!TypeOK, Online!ConnTypeOK
<1>9. ASSUME NEW c \in Conn, NEW what \in {"online", "offline"}, Online!Send(c, what)
      PROVE  Online!TypeOK'
  BY <1>9, AccountsAssumption DEF Online!Send, Online!TypeOK, Online!ConnTypeOK, Online!FrameStep
<1>10. ASSUME NEW u \in User, Online!HttpStatus(u) PROVE Online!TypeOK'
  <2>1. /\ online' \in [User -> BOOLEAN]
        /\ errors' \in 0..MaxErrors
        /\ excuse' \in [User -> Online!Excuse]
    BY <1>10, WriteTyped DEF Online!HttpStatus
  <2> QED BY <1>10, <2>1 DEF Online!HttpStatus, Online!TypeOK, Online!ConnTypeOK
<1>11. CASE UNCHANGED Online!vars
  BY <1>11 DEF Online!vars, Online!presenceVars, Online!TypeOK, Online!ConnTypeOK
<1> QED BY <1>1, <1>2, <1>3, <1>4, <1>5, <1>6, <1>7, <1>8, <1>9, <1>10, <1>11
    DEF Online!Next, Online!Bye

-----------------------------------------------------------------------------
(****************************************************************************)
(* Amended, a user at a time.                                               *)
(****************************************************************************)
\* Some goodbye of u is about to set the field to FALSE.
ByeAhead(u) == \E c \in Conn : Owner[c] = u /\ bye[c] = "checked"

\* Some task of u is about to set the field to TRUE.
WelcomeAhead(u) ==
    \E c \in Conn : Owner[c] = u /\ (greet[c] = "due" \/ bye[c] \in {"written", "restore"})

AmendedFor(u) ==
    excuse[u] = "none" =>
        /\ online[u] => Online!Connected(u) \/ Online!CleanupAhead(u) \/ ByeAhead(u)
        /\ ~online[u] /\ Online!Connected(u) => WelcomeAhead(u)

LEMMA AmendedByUser == Online!Amended <=> \A u \in User : AmendedFor(u)
  BY DEF Online!Amended, AmendedFor, ByeAhead, WelcomeAhead

\* After a welcome, or an error in its place, the field needs no amends.
LEMMA WelcomeAmends ==
  ASSUME Online!TypeOK, NEW u \in User, Online!Written(u) \/ Online!GiveUp(u), UNCHANGED conn
  PROVE  AmendedFor(u)'
  BY DEF Online!TypeOK, Online!Written, Online!SetOnline, Online!GiveUp, AmendedFor,
         Online!Connected, Online!CleanupAhead

\* A step of one user's task is nothing to another.
LEMMA OthersAmended ==
  ASSUME Online!TypeOK, NEW u \in User, AmendedFor(u),
         UNCHANGED <<online[u], excuse[u]>>,
         \A d \in Conn : Owner[d] = u => UNCHANGED <<conn[d], greet[d], bye[d]>>
  PROVE  AmendedFor(u)'
  BY DEF AmendedFor, Online!Connected, Online!CleanupAhead, ByeAhead, WelcomeAhead

LEMMA OpenAmended ==
  ASSUME Online!TypeOK, NEW c \in Conn, Online!Open(c), NEW u \in User, AmendedFor(u)
  PROVE  AmendedFor(u)'
<1>1. CASE Owner[c] # u
  <2>1. \A d \in Conn : Owner[d] = u => UNCHANGED <<conn[d], greet[d], bye[d]>>
    BY <1>1 DEF Online!Open, Online!Attach, Online!MoveTo, Online!TypeOK, Online!ConnTypeOK
  <2> QED BY <2>1, OthersAmended DEF Online!Open
<1>2. CASE Owner[c] = u
  <2>1. /\ UNCHANGED <<online, bye, excuse>>
        /\ \A d \in Conn : d # c => UNCHANGED <<conn[d], greet[d]>>
        /\ conn[c] = "unused"
        /\ conn'[c] \in {"live", "refused"}
        /\ greet[c] = "due" => greet'[c] = "due"
    BY DEF Online!Open, Online!Attach, Online!MoveTo, Online!TypeOK, Online!ConnTypeOK
  <2>2. /\ Online!Connected(u) => Online!Connected(u)'
        /\ Online!CleanupAhead(u) => Online!CleanupAhead(u)'
        /\ ByeAhead(u) => ByeAhead(u)'
        /\ WelcomeAhead(u) => WelcomeAhead(u)'
    BY <2>1 DEF Online!Connected, Online!CleanupAhead, ByeAhead, WelcomeAhead
  <2>3. ASSUME ~Online!Connected(u), Online!Connected(u)' PROVE WelcomeAhead(u)'
    <3>1. Online!LiveOf(u) = {}
      BY <2>3 DEF Online!Connected, Online!LiveOf
    <3>2. greet'[c] = "due"
      BY <1>2, <3>1 DEF Online!Open, Online!TypeOK
    <3> QED BY <1>2, <3>2 DEF WelcomeAhead
  <2> QED BY <2>1, <2>2, <2>3 DEF AmendedFor
<1> QED BY <1>1, <1>2

LEMMA ConnectionAmended ==
  ASSUME Online!TypeOK, NEW c \in Conn, Online!Connection(c), NEW u \in User, AmendedFor(u)
  PROVE  AmendedFor(u)'
<1>1. UNCHANGED <<online, bye, greet, excuse>>
  BY DEF Online!Connection, Online!presenceVars
<1>2. /\ ByeAhead(u) => ByeAhead(u)'
      /\ WelcomeAhead(u) => WelcomeAhead(u)'
  BY <1>1 DEF ByeAhead, WelcomeAhead
<1>3. Online!Connected(u)' => Online!Connected(u)
  BY DEF Online!Connection, Online!Detach, Online!Decide, Online!Wake, Online!MoveTo,
         Online!Connected, Online!TypeOK, Online!ConnTypeOK
<1>4. Online!Connected(u) \/ Online!CleanupAhead(u)
        => Online!Connected(u)' \/ Online!CleanupAhead(u)'
  BY DEF Online!Connection, Online!Detach, Online!Decide, Online!Wake, Online!MoveTo,
         Online!Connected, Online!CleanupAhead,
         Online!TypeOK, Online!ConnTypeOK
<1> QED BY <1>1, <1>2, <1>3, <1>4 DEF AmendedFor

LEMMA GreetAmended ==
  ASSUME Online!TypeOK, NEW c \in Conn, Online!Greet(c), NEW u \in User, AmendedFor(u)
  PROVE  AmendedFor(u)'
<1>0. Owner[c] \in User
  BY AccountsAssumption
<1>1. CASE Owner[c] = u
  BY <1>1, WelcomeAmends DEF Online!Greet
<1>2. CASE Owner[c] # u
  <2>1. UNCHANGED <<online[u], excuse[u]>>
    BY <1>0, <1>2 DEF Online!Greet, Online!Written, Online!SetOnline, Online!GiveUp, Online!TypeOK
  <2>2. \A d \in Conn : Owner[d] = u => UNCHANGED <<conn[d], greet[d], bye[d]>>
    BY <1>2 DEF Online!Greet, Online!TypeOK
  <2> QED BY <2>1, <2>2, OthersAmended
<1> QED BY <1>1, <1>2

\* What a goodbye does to users it is not about.
LEMMA ByeElsewhere ==
  ASSUME Online!TypeOK, NEW c \in Conn, Online!Bye(c), NEW u \in User, AmendedFor(u), Owner[c] # u
  PROVE  AmendedFor(u)'
<1>0. Owner[c] \in User
  BY AccountsAssumption
<1>1. UNCHANGED <<online[u], excuse[u]>>
  BY <1>0 DEF Online!Bye, Online!ByeCheck, Online!ByeWrite, Online!ByeSecondLook,
              Online!ByeRestore, Online!Written, Online!SetOnline,
              Online!SetOffline, Online!GiveUp, Online!TypeOK
<1>2. \A d \in Conn : Owner[d] = u => UNCHANGED <<conn[d], greet[d], bye[d]>>
  BY DEF Online!Bye, Online!ByeCheck, Online!ByeWrite, Online!ByeSecondLook, Online!ByeRestore,
         Online!ByeOver, Online!MoveTo,
         Online!TypeOK, Online!ConnTypeOK
<1> QED BY <1>1, <1>2, OthersAmended

LEMMA ByeAmended ==
  ASSUME Online!TypeOK, NEW c \in Conn, Online!Bye(c), NEW u \in User, AmendedFor(u), Owner[c] = u
  PROVE  AmendedFor(u)'
<1>1. CASE Online!ByeCheck(c)
  <2>1. /\ UNCHANGED <<online, greet, excuse>>
        /\ conn[c] = "closing"
        /\ \A d \in Conn : d # c => UNCHANGED <<conn[d], bye[d]>>
        /\ Online!Connected(u) => conn'[c] = "done" /\ bye'[c] = bye[c]
        /\ ~Online!Connected(u) => conn'[c] = "acting" /\ bye'[c] = "checked"
    BY <1>1 DEF Online!ByeCheck, Online!MoveTo, Online!TypeOK, Online!ConnTypeOK
  <2>2. bye[c] = "none"
    BY <2>1 DEF Online!TypeOK
  <2>3. Online!Connected(u)' <=> Online!Connected(u)
    BY <2>1 DEF Online!Connected
  <2>4. WelcomeAhead(u) => WelcomeAhead(u)'
    BY <2>1, <2>2 DEF WelcomeAhead
  <2>5. ~Online!Connected(u) => ByeAhead(u)'
    BY <2>1 DEF ByeAhead
  <2> QED BY <2>1, <2>3, <2>4, <2>5 DEF AmendedFor
<1>2. CASE Online!ByeWrite(c)
  <2>1. CASE Online!SetOffline(u, "none") /\ bye' = [bye EXCEPT ![c] = "written"]
    <3>1. ~online'[u]
      BY <2>1 DEF Online!SetOffline, Online!TypeOK
    <3>2. WelcomeAhead(u)'
      BY <2>1 DEF WelcomeAhead, Online!TypeOK
    <3> QED BY <3>1, <3>2 DEF AmendedFor
  <2>2. CASE Online!GiveUp(u)
    BY <2>2 DEF Online!GiveUp, AmendedFor, Online!TypeOK
  <2> QED BY <1>2, <2>1, <2>2 DEF Online!ByeWrite
<1>3. CASE Online!ByeSecondLook(c)
  <2>1. /\ UNCHANGED <<online, greet, excuse>>
        /\ bye[c] = "written" /\ conn[c] = "acting"
        /\ \A d \in Conn : d # c => UNCHANGED <<conn[d], bye[d]>>
        /\ Online!Connected(u) => conn'[c] = "acting" /\ bye'[c] = "restore"
        /\ ~Online!Connected(u) => conn'[c] = "done"
    BY <1>3 DEF Online!ByeSecondLook, Online!ByeOver, Online!MoveTo, Online!TypeOK,
                Online!ConnTypeOK
  <2>2. Online!Connected(u)' <=> Online!Connected(u)
    BY <2>1 DEF Online!Connected
  <2>3. Online!CleanupAhead(u) => Online!CleanupAhead(u)'
    BY <2>1 DEF Online!CleanupAhead
  <2>4. ByeAhead(u) => ByeAhead(u)'
    BY <2>1 DEF ByeAhead
  <2>5. Online!Connected(u) => WelcomeAhead(u)'
    BY <2>1 DEF WelcomeAhead
  <2> QED BY <2>1, <2>2, <2>3, <2>4, <2>5 DEF AmendedFor
<1>4. CASE Online!ByeRestore(c)
  <2>1. CASE Online!GiveUp(u)
    BY <2>1 DEF Online!GiveUp, AmendedFor, Online!TypeOK
  <2>2. CASE Online!Written(u)
    <3>1. /\ conn[c] = "acting"
          /\ conn' = [conn EXCEPT ![c] = "done"]
      BY <1>4 DEF Online!ByeRestore, Online!ByeOver, Online!MoveTo, Online!TypeOK
    <3>2. /\ Online!Connected(u)' <=> Online!Connected(u)
          /\ Online!CleanupAhead(u)' <=> Online!CleanupAhead(u)
      BY <3>1 DEF Online!Connected, Online!CleanupAhead, Online!TypeOK, Online!ConnTypeOK
    <3> QED BY <2>2, <3>2 DEF Online!Written, Online!SetOnline, AmendedFor, Online!TypeOK
  <2> QED BY <1>4, <2>1, <2>2 DEF Online!ByeRestore
<1> QED BY <1>1, <1>2, <1>3, <1>4 DEF Online!Bye

LEMMA FrameAmended ==
  ASSUME Online!TypeOK, NEW c \in Conn, Online!FrameTask(c), NEW u \in User, AmendedFor(u)
  PROVE  AmendedFor(u)'
<1>0. Owner[c] \in User
  BY AccountsAssumption
<1>1. UNCHANGED <<conn, greet, bye>>
  BY DEF Online!FrameTask, Online!FrameOnline, Online!FrameCheck, Online!FrameWrite,
         Online!FrameSecondLook
<1>2. CASE Owner[c] # u
  <2>1. UNCHANGED <<online[u], excuse[u]>>
    BY <1>0, <1>2 DEF Online!FrameTask, Online!FrameOnline, Online!FrameCheck, Online!FrameWrite,
                      Online!FrameSecondLook, Online!Written,
                      Online!SetOnline, Online!SetOffline, Online!GiveUp, Online!TypeOK
  <2> QED BY <1>1, <2>1, OthersAmended
<1>3. CASE Owner[c] = u
  <2>1. CASE Online!Written(u) \/ Online!GiveUp(u)
    BY <1>1, <2>1, WelcomeAmends
  <2>2. CASE UNCHANGED <<online, excuse>>
    BY <1>1, <2>2, OthersAmended
  <2>3. CASE Online!SetOffline(u, "chosen") \/ Online!SetOffline(u, "stale")
    <3>1. ~online'[u] /\ (Online!Connected(u) => excuse'[u] # "none")
      BY <2>3 DEF Online!SetOffline, Online!TypeOK
    <3>2. Online!Connected(u)' <=> Online!Connected(u)
      BY <1>1 DEF Online!Connected
    <3> QED BY <3>1, <3>2 DEF AmendedFor
  <2> QED BY <1>3, <2>1, <2>2, <2>3, FrameCases
<1> QED BY <1>2, <1>3

LEMMA NextAmended ==
  Online!TypeOK /\ Online!Amended /\ [Online!Next]_(Online!vars) => Online!Amended'
<1> SUFFICES ASSUME Online!TypeOK, Online!Amended, [Online!Next]_(Online!vars), NEW u \in User
             PROVE  AmendedFor(u)'
  BY AmendedByUser DEF Online!Amended, AmendedFor, ByeAhead, WelcomeAhead
<1>0. AmendedFor(u)
  BY AmendedByUser
<1>1. ASSUME NEW c \in Conn, Online!Bye(c) PROVE AmendedFor(u)'
  BY <1>0, <1>1, ByeElsewhere, ByeAmended
<1>2. ASSUME NEW c \in Conn, NEW what \in {"online", "offline"}, Online!Send(c, what)
      PROVE  AmendedFor(u)'
  BY <1>0, <1>2, OthersAmended DEF Online!Send
<1>3. ASSUME NEW v \in User, Online!HttpStatus(v) PROVE AmendedFor(u)'
  <2>1. CASE v = u
    BY <1>3, <2>1, WelcomeAmends DEF Online!HttpStatus
  <2>2. CASE v # u
    <3>1. UNCHANGED <<online[u], excuse[u], conn, greet, bye>>
      BY <1>3, <2>2 DEF Online!HttpStatus, Online!Written, Online!SetOnline, Online!TypeOK
    <3> QED BY <1>0, <3>1, OthersAmended
  <2> QED BY <2>1, <2>2
<1>4. CASE UNCHANGED Online!vars
  BY <1>0, <1>4, OthersAmended DEF Online!vars, Online!presenceVars
<1> QED BY <1>0, <1>1, <1>2, <1>3, <1>4, OpenAmended, ConnectionAmended, GreetAmended,
           FrameAmended DEF Online!Next

\* Where all is amended and no task is in progress, isOnline is right.
LEMMA AmendedMatches ==
  Online!TypeOK /\ Online!Amended => Online!OnlineMatches
<1> SUFFICES ASSUME Online!TypeOK, Online!Amended, NEW u \in User, Online!Quiet(u),
                    excuse[u] = "none"
             PROVE  online[u] = Online!Connected(u)
  BY DEF Online!OnlineMatches
<1>1. AmendedFor(u)
  BY AmendedByUser
<1>2. ~Online!CleanupAhead(u) /\ ~ByeAhead(u) /\ ~WelcomeAhead(u)
    BY DEF Online!Quiet, ByeAhead, WelcomeAhead
<1>3. online[u] <=> Online!Connected(u)
    BY <1>1, <1>2 DEF AmendedFor
<1>4. online[u] \in BOOLEAN /\ Online!Connected(u) \in BOOLEAN
    BY DEF Online!TypeOK, Online!Connected
<1> QED BY <1>3, <1>4

-----------------------------------------------------------------------------
(****************************************************************************)
(* Two-factor settings.  A request that is not stale has read what the         *)
(* document holds, so a code it takes from the list it read is gone from the    *)
(* list; what a stale one puts back is noted as revived.  New codes are of a    *)
(* set that nobody was given before (Given).                                *)
(****************************************************************************)
\* The backup codes handed out so far.
Given == (1 .. made) \X {"a", "b"}

\* What a request q holds, when the document is doc, the codes of given were handed out, those
\* of used were accepted and those of back put back, and a code was seen for the secrets of seen.
Asked(q, doc, given, used, seen, back) ==
    /\ q.read.codes \subseteq given
    /\ q.op = "none" => q = Codes!Resting
    /\ q.op # "none" /\ ~q.stale => q.read = doc
    /\ q.op = "enable" => q.read.pending \in seen \ {0}
    /\ q.op = "use" => q.code \in given
    /\ q.code \in given \union {<<>>}
    /\ q.code \in used => q.stale \/ q.code \in back

CodesInv ==
    /\ Codes!TFTypeOK
    /\ settings.codes \subseteq Given
    /\ spent \subseteq Given
    /\ \A r \in Codes!Asker : Asked(asking[r], settings, Given, spent, shown, revived)
    /\ Codes!SecretWasShown
    /\ settings.codes \intersect spent \subseteq revived
    /\ ~settings.enabled => settings.codes \subseteq revived

AskSet == [op : {"none", "setup", "enable", "disable", "use"}, read : Codes!Settings,
           code : Codes!Code \union {<<>>}, stale : BOOLEAN]

\* No code is empty.
LEMMA EmptyIsNone == <<>> \notin Given /\ <<>> \notin Codes!Code
<1>1. ASSUME NEW S, NEW T PROVE <<>> \notin S \X T
  <2> SUFFICES ASSUME NEW x \in S, NEW y \in T, <<>> = <<x, y>> PROVE FALSE
    OBVIOUS
  <2>1. Len(<<>>) = 0 /\ Len(<<x, y>>) = 2
    OBVIOUS
  <2> QED BY <2>1
<1> QED BY <1>1 DEF Given, Codes!Code

\* What rests holds nothing.
LEMMA RestHolds ==
  /\ Codes!Resting.op = "none" /\ Codes!Resting.code = <<>> /\ Codes!Resting.stale = FALSE
  /\ Codes!Resting.read.codes = {}
  BY DEF Codes!Resting

LEMMA InitCodes == Codes!TFInit => CodesInv
<1> SUFFICES ASSUME Codes!TFInit PROVE CodesInv
  OBVIOUS
<1> DEFINE none == [enabled |-> FALSE, secret |-> 0, pending |-> 0, codes |-> {}]
<1>1. Codes!Resting = [op |-> "none", read |-> none, code |-> <<>>, stale |-> FALSE]
  BY DEF Codes!Resting
<1>2. none \in Codes!Settings /\ none.codes = {} /\ none.enabled = FALSE /\ none.secret = 0
  BY AccountsAssumption DEF Codes!Settings, Codes!Secret
<1> HIDE DEF none
<1>3. settings = none /\ asking = [r \in Codes!Asker |-> Codes!Resting] /\ made = 0
      /\ spent = {} /\ shown = {} /\ revived = {}
  BY <1>1 DEF Codes!TFInit
<1>4. Codes!Resting \in AskSet
  BY <1>1, <1>2 DEF AskSet
<1>5. Asked(Codes!Resting, settings, Given, spent, shown, revived)
  BY <1>3, RestHolds DEF Asked
<1>6. Codes!TFTypeOK
  BY <1>2, <1>3, <1>4, AccountsAssumption DEF Codes!TFTypeOK, AskSet
<1> QED BY <1>2, <1>3, <1>5, <1>6 DEF CodesInv, Codes!SecretWasShown

LEMMA RestAsked ==
  ASSUME NEW doc, NEW given, NEW used, NEW seen, NEW back, <<>> \notin used
  PROVE  Asked(Codes!Resting, doc, given, used, seen, back)
  BY RestHolds DEF Asked

LEMMA RestTyped == Codes!Resting \in AskSet
<1> DEFINE none == [enabled |-> FALSE, secret |-> 0, pending |-> 0, codes |-> {}]
<1>2. none \in Codes!Settings
  BY AccountsAssumption DEF Codes!Settings, Codes!Secret
<1>3. [op |-> "none", read |-> none, code |-> <<>>, stale |-> FALSE] \in AskSet
  BY <1>2 DEF AskSet
<1> QED BY <1>3 DEF Codes!Resting

\* One request reads.
LEMMA ReadKeeps ==
  ASSUME CodesInv, NEW r \in Codes!Asker, NEW op \in {"setup", "enable", "disable", "use"},
         NEW STATE c, c \in settings.codes \union {<<>>}, op = "use" => c \in settings.codes,
         Codes!Reads(r, op, c), UNCHANGED <<spent, revived>>,
         shown \subseteq shown', shown' \subseteq Codes!Secret,
         op = "enable" => settings.pending \in shown' \ {0}
  PROVE  CodesInv'
<1> DEFINE new == [op |-> op, read |-> settings, code |-> c, stale |-> FALSE]
<1>0. asking \in [Codes!Asker -> AskSet] /\ settings \in Codes!Settings
  BY DEF CodesInv, Codes!TFTypeOK, AskSet
<1>1. asking' = [asking EXCEPT ![r] = new] /\ UNCHANGED <<settings, made>>
  BY DEF Codes!Reads
<1>2. Given' = Given
  BY <1>1 DEF Given
<1>3. c \in Given \union {<<>>} /\ c \in Codes!Code \union {<<>>}
  BY <1>0 DEF CodesInv, Codes!Settings
<1>4. new \in AskSet
  BY <1>0, <1>3 DEF AskSet
<1>5. c \in spent => c \in revived
  BY EmptyIsNone DEF CodesInv
<1>6. Asked(new, settings, Given, spent, shown', revived)
  <2>1. settings.codes \subseteq Given
    BY DEF CodesInv
  <2> QED BY <1>3, <1>5, <2>1 DEF Asked
<1> HIDE DEF new
<1>7. \A q \in Codes!Asker : Asked(asking'[q], settings, Given, spent, shown', revived)
  <2> TAKE q \in Codes!Asker
  <2>1. CASE q = r
    BY <1>0, <1>1, <1>6, <2>1
  <2>2. CASE q # r
    <3>1. asking'[q] = asking[q] /\ Asked(asking[q], settings, Given, spent, shown, revived)
      BY <1>0, <1>1, <2>2 DEF CodesInv
    <3> QED BY <3>1 DEF Asked
  <2> QED BY <2>1, <2>2
<1>8. Codes!TFTypeOK'
  BY <1>0, <1>1, <1>4 DEF CodesInv, Codes!TFTypeOK, AskSet
<1> QED BY <1>1, <1>2, <1>7, <1>8 DEF CodesInv, Codes!SecretWasShown

\* One request writes.
LEMMA WriteKeeps ==
  ASSUME CodesInv, NEW r \in Codes!Asker, NEW STATE new, new \in Codes!Settings,
         Codes!Writes(r, new), UNCHANGED shown, made' \in 0 .. MaxSecrets, made <= made',
         new.codes \subseteq Given',
         spent' \subseteq Given', spent \subseteq spent',
         new.enabled <=> new.secret # 0, new.enabled => new.secret \in shown,
         new.codes \intersect spent' \subseteq revived',
         ~new.enabled => new.codes \subseteq revived'
  PROVE  CodesInv'
<1>0. asking \in [Codes!Asker -> AskSet] /\ settings \in Codes!Settings /\ made \in Nat
  BY DEF CodesInv, Codes!TFTypeOK, AskSet
<1>1. settings' = new
  BY DEF Codes!Writes
<1>2. Given \subseteq Given' /\ Given' \subseteq Codes!Code
  <2>1. 1 .. made \subseteq 1 .. made' /\ 1 .. made' \subseteq 1 .. MaxSecrets
    BY <1>0, AccountsAssumption
  <2> QED BY <2>1 DEF Given, Codes!Code
<1> DEFINE behind(q) == [asking[q] EXCEPT !.stale = asking[q] # Codes!Resting]
<1>3. asking' = [q \in Codes!Asker |-> IF q = r THEN Codes!Resting ELSE behind(q)]
  BY DEF Codes!Writes
<1>4. ASSUME NEW q \in Codes!Asker
      PROVE  behind(q) \in AskSet /\ Asked(behind(q), settings', Given', spent', shown', revived')
  <2>1. asking[q] \in AskSet /\ Asked(asking[q], settings, Given, spent, shown, revived)
    BY <1>0 DEF CodesInv
  <2>2. /\ behind(q) \in AskSet /\ behind(q).op = asking[q].op /\ behind(q).read = asking[q].read
        /\ behind(q).code = asking[q].code /\ behind(q).stale = (asking[q] # Codes!Resting)
    BY <2>1 DEF AskSet
  <2>3. CASE asking[q].op = "none"
    <3>1. asking[q] = Codes!Resting
      BY <2>1, <2>3 DEF Asked
    <3>2. behind(q) = [Codes!Resting EXCEPT !.stale = FALSE]
      BY <3>1
    <3>3. behind(q) = Codes!Resting
      BY <3>2, RestTyped, RestHolds DEF AskSet
    <3>4. <<>> \notin spent'
      BY <1>2, EmptyIsNone
    <3> HIDE DEF behind
    <3> QED BY <2>2, <3>3, <3>4, RestAsked
  <2>4. CASE asking[q].op # "none"
    <3>1. behind(q).stale = TRUE
      BY <2>2, <2>4, RestHolds
    <3> HIDE DEF behind
    <3> QED BY <1>2, <2>1, <2>2, <2>4, <3>1 DEF Asked
  <2> QED BY <2>3, <2>4
<1>5. Asked(Codes!Resting, settings', Given', spent', shown', revived') /\ Codes!Resting \in AskSet
  <2>1. <<>> \notin spent'
    BY <1>2, EmptyIsNone
  <2> QED BY <2>1, RestAsked, RestTyped
<1> HIDE DEF behind
<1>6. /\ asking' \in [Codes!Asker -> AskSet]
      /\ \A q \in Codes!Asker : Asked(asking'[q], settings', Given', spent', shown', revived')
  BY <1>3, <1>4, <1>5
<1>7. revived' \subseteq Codes!Code /\ spent' \subseteq Codes!Code
  BY <1>2 DEF Codes!Writes, CodesInv, Codes!TFTypeOK
<1>8. Codes!TFTypeOK'
  BY <1>1, <1>6, <1>7 DEF CodesInv, Codes!TFTypeOK, AskSet
<1> QED BY <1>1, <1>6, <1>8 DEF CodesInv, Codes!SecretWasShown

LEMMA CodesRead ==
  ASSUME CodesInv, NEW r \in Codes!Asker,
         Codes!SetupRead(r) \/ Codes!EnableRead(r) \/ Codes!DisableRead(r) \/ Codes!UseRead(r)
  PROVE  CodesInv'
<1>1. CASE Codes!SetupRead(r) \/ Codes!DisableRead(r)
  <2>1. PICK op \in {"setup", "disable"} : Codes!Reads(r, op, <<>>)
    BY <1>1 DEF Codes!SetupRead, Codes!DisableRead
  <2>2. UNCHANGED <<spent, shown, revived>> /\ shown \subseteq Codes!Secret
    BY <1>1 DEF Codes!SetupRead, Codes!DisableRead, CodesInv, Codes!TFTypeOK
  <2> QED BY <2>1, <2>2, ReadKeeps
<1>2. CASE Codes!EnableRead(r)
  <2>1. /\ Codes!Reads(r, "enable", <<>>) /\ UNCHANGED <<spent, revived>>
        /\ settings.pending # 0 /\ shown' = shown \union {settings.pending}
    BY <1>2 DEF Codes!EnableRead
  <2>2. shown \subseteq Codes!Secret /\ settings.pending \in Codes!Secret
    BY DEF CodesInv, Codes!TFTypeOK, Codes!Settings
  <2> QED BY <2>1, <2>2, ReadKeeps
<1>3. CASE Codes!UseRead(r)
  <2>1. PICK c \in settings.codes : Codes!Reads(r, "use", c)
    BY <1>3 DEF Codes!UseRead
  <2>2. UNCHANGED <<spent, shown, revived>> /\ shown \subseteq Codes!Secret
    BY <1>3 DEF Codes!UseRead, CodesInv, Codes!TFTypeOK
  <2> QED BY <2>1, <2>2, ReadKeeps
<1> QED BY <1>1, <1>2, <1>3

LEMMA CodesWritten ==
  ASSUME CodesInv, NEW r \in Codes!Asker,
         Codes!SetupWrite(r) \/ Codes!EnableWrite(r) \/ Codes!DisableWrite(r) \/ Codes!UseWrite(r)
  PROVE  CodesInv'
<1>0. /\ asking[r] \in AskSet /\ settings \in Codes!Settings /\ made \in 0 .. MaxSecrets
      /\ Asked(asking[r], settings, Given, spent, shown, revived)
      /\ settings.codes \subseteq Given /\ spent \subseteq Given /\ Codes!SecretWasShown
      /\ settings.codes \intersect spent \subseteq revived
      /\ ~settings.enabled => settings.codes \subseteq revived
      /\ MaxSecrets \in Nat /\ shown \subseteq Codes!Secret
  BY AccountsAssumption DEF CodesInv, Codes!TFTypeOK, AskSet
<1>1. CASE Codes!SetupWrite(r)
  <2> DEFINE new == [settings EXCEPT !.pending = made + 1]
  <2>1. /\ made < MaxSecrets /\ made' = made + 1 /\ UNCHANGED <<spent, shown>>
        /\ Codes!Writes(r, new)
    BY <1>1 DEF Codes!SetupWrite
  <2>2. made' \in 0 .. MaxSecrets /\ made <= made' /\ made' \in Codes!Secret
    BY <1>0, <2>1 DEF Codes!Secret
  <2>3. /\ new \in Codes!Settings /\ new.enabled = settings.enabled
        /\ new.secret = settings.secret /\ new.codes = settings.codes
    BY <1>0, <2>1, <2>2 DEF Codes!Settings
  <2> HIDE DEF new
  <2>4. Given \subseteq Given'
    <3>1. 1 .. made \subseteq 1 .. made'
      BY <1>0, <2>1
    <3> QED BY <3>1 DEF Given
  <2>5. revived' = revived
    BY <2>1, <2>3 DEF Codes!Writes
  <2> QED BY <1>0, <2>1, <2>2, <2>3, <2>4, <2>5, WriteKeeps DEF Codes!SecretWasShown
<1>2. CASE Codes!EnableWrite(r)
  <2> DEFINE secret == asking[r].read.pending
             codes == Codes!CodesOf(made + 1)
             new == [enabled |-> TRUE, secret |-> secret, pending |-> 0, codes |-> codes]
  <2>1. /\ made < MaxSecrets /\ made' = made + 1 /\ UNCHANGED <<spent, shown>>
        /\ Codes!Writes(r, new) /\ asking[r].op = "enable"
    BY <1>2 DEF Codes!EnableWrite, Codes!Asks
  <2>2. made' \in 0 .. MaxSecrets /\ made <= made' /\ 0 \in Codes!Secret
    BY <1>0, <2>1 DEF Codes!Secret
  <2>3. secret \in shown \ {0} /\ secret \in Codes!Secret
    BY <1>0, <2>1 DEF Asked
  <2>4. codes \subseteq Given' /\ Given' \subseteq Codes!Code
    <3>1. made + 1 \in 1 .. made' /\ 1 .. made' \subseteq 1 .. MaxSecrets
      BY <1>0, <2>1
    <3> QED BY <3>1 DEF Given, Codes!CodesOf, Codes!Code
  <2>5. Given \subseteq Given' /\ codes \intersect Given = {}
    <3>1. 1 .. made \subseteq 1 .. made' /\ made + 1 \notin 1 .. made
      BY <1>0, <2>1
    <3> QED BY <3>1 DEF Given, Codes!CodesOf
  <2> HIDE DEF secret, codes
  <2>6. new \in Codes!Settings /\ new.enabled = TRUE /\ new.secret = secret /\ new.codes = codes
    BY <2>2, <2>3, <2>4 DEF Codes!Settings
  <2> HIDE DEF new
  <2>7. new.codes \intersect spent' \subseteq revived'
    BY <1>0, <2>1, <2>5, <2>6
  <2> QED BY <1>0, <2>1, <2>2, <2>3, <2>4, <2>5, <2>6, <2>7, WriteKeeps
<1>3. CASE Codes!DisableWrite(r)
  <2> DEFINE new == [enabled |-> FALSE, secret |-> 0, pending |-> 0, codes |-> {}]
  <2>1. UNCHANGED <<made, spent, shown>> /\ Codes!Writes(r, new)
    BY <1>3 DEF Codes!DisableWrite
  <2>2. /\ new \in Codes!Settings /\ new.enabled = FALSE /\ new.secret = 0 /\ new.codes = {}
    BY <1>0 DEF Codes!Settings, Codes!Secret
  <2> HIDE DEF new
  <2>3. Given' = Given
    BY <2>1 DEF Given
  <2> QED BY <1>0, <2>1, <2>2, <2>3, WriteKeeps
<1>4. CASE Codes!UseWrite(r)
  <2> DEFINE code == asking[r].code
             codes == asking[r].read.codes \ {code}
             new == [settings EXCEPT !.codes = codes]
  <2>1. /\ UNCHANGED <<made, shown>> /\ Codes!Writes(r, new) /\ asking[r].op = "use"
        /\ spent' = spent \union {code}
    BY <1>4 DEF Codes!UseWrite, Codes!Asks
  <2>2. code \in Given /\ asking[r].read.codes \subseteq Given
    BY <1>0, <2>1 DEF Asked
  <2>3. ~asking[r].stale => asking[r].read = settings
    BY <1>0, <2>1 DEF Asked
  <2>4. /\ new \in Codes!Settings /\ new.enabled = settings.enabled
        /\ new.secret = settings.secret /\ new.codes = codes
    <3>1. asking[r].read.codes \subseteq Codes!Code
      BY <1>0 DEF AskSet, Codes!Settings
    <3> QED BY <1>0, <3>1 DEF Codes!Settings
  <2>5. /\ asking[r].stale => revived' = revived \union (codes \ settings.codes)
        /\ ~asking[r].stale => revived' = revived \ (settings.codes \ codes)
    BY <2>1, <2>4 DEF Codes!Writes
  <2>6. codes \intersect settings.codes \intersect revived \subseteq revived'
    BY <2>5
  <2>7. codes \ settings.codes \subseteq revived'
    BY <2>3, <2>5
  <2>8. codes \intersect spent' \subseteq revived'
    BY <1>0, <2>1, <2>6, <2>7
  <2>9. ~settings.enabled => codes \subseteq revived'
    BY <1>0, <2>6, <2>7
  <2>10. Given' = Given /\ codes \subseteq Given
    BY <2>1, <2>2 DEF Given
  <2> HIDE DEF new, codes, code
  <2> QED BY <1>0, <2>1, <2>2, <2>4, <2>8, <2>9, <2>10, WriteKeeps DEF Codes!SecretWasShown
<1> QED BY <1>1, <1>2, <1>3, <1>4

LEMMA NextCodes ==
  ASSUME CodesInv, [Codes!TFNext]_(Codes!tfVars)
  PROVE  CodesInv'
<1>1. ASSUME NEW r \in Codes!Asker, Codes!AskFails(r) PROVE CodesInv'
  <2>1. UNCHANGED <<settings, made, spent, shown, revived>>
        /\ asking' = [asking EXCEPT ![r] = Codes!Resting]
    BY <1>1 DEF Codes!AskFails
  <2>2. Given' = Given
    BY <2>1 DEF Given
  <2>3. Asked(Codes!Resting, settings, Given, spent, shown, revived)
    BY EmptyIsNone, RestAsked DEF CodesInv
  <2>4. Codes!TFTypeOK'
    BY <2>1, RestTyped DEF CodesInv, Codes!TFTypeOK, AskSet
  <2>5. \A q \in Codes!Asker : Asked(asking'[q], settings, Given, spent, shown, revived)
    BY <2>1, <2>3 DEF CodesInv, Codes!TFTypeOK
  <2> QED BY <2>1, <2>2, <2>4, <2>5 DEF CodesInv, Codes!SecretWasShown
<1>2. CASE UNCHANGED Codes!tfVars
  <2>1. UNCHANGED <<settings, asking, made, spent, shown, revived>>
    BY <1>2 DEF Codes!tfVars
  <2>2. Given' = Given
    BY <2>1 DEF Given
  <2> QED BY <2>1, <2>2 DEF CodesInv, Codes!TFTypeOK, Codes!SecretWasShown
<1> QED BY <1>1, <1>2, CodesRead, CodesWritten DEF Codes!TFNext

\* What TwoFactorHolds says follows.
LEMMA CodesHold == CodesInv => TwoFactorHolds
<1> SUFFICES ASSUME CodesInv PROVE TwoFactorHolds
  OBVIOUS
<1>1. \A r \in Codes!Asker : asking[r].code \in spent =>
        asking[r].stale \/ asking[r].code \in revived
  BY DEF CodesInv, Asked
<1> QED BY <1>1 DEF CodesInv, TwoFactorHolds, Codes!SpentCodesAreGone

-----------------------------------------------------------------------------
(****************************************************************************)
(* The deletion of the account.  What the run is past is gone, or was written  *)
(* behind its back, or its deletion failed without stopping it; a later run    *)
(* forgets, and starts anew.  So when the user goes, last, nothing else is    *)
(* left.                                                                      *)
(****************************************************************************)
DeletionInv ==
    /\ Deletion!DelTypeOK
    /\ purge > 0 => present
    /\ \A i \in 1 .. purge - 1 :
            Deletion!Order[i] \in records => Deletion!Order[i] \in late \union skipped
    /\ ~present => records \subseteq late \union skipped
    /\ withdrawn => scheduled = "no" /\ purge = 0
    /\ ~purged

\* The user is the last to go, and a failure to delete it stops the run.
LEMMA OrderFacts ==
  /\ Len(Deletion!Order) = 11
  /\ Deletion!Order[11] = "user" /\ Deletion!Order[11] \notin Deletion!Careless
  /\ \A i \in 1 .. 10 : Deletion!Order[i] # "user"
  /\ \A k \in Deletion!Kind : \E i \in 1 .. 10 : Deletion!Order[i] = k
<1>1. Len(Deletion!Order) = 11 /\ DOMAIN Deletion!Order = 1 .. 11
  BY DEF Deletion!Order
<1>2. Deletion!Order[11] = "user" /\ Deletion!Order[11] \notin Deletion!Careless
  BY DEF Deletion!Order, Deletion!Careless
<1>3. \A i \in 1 .. 10 : Deletion!Order[i] # "user"
  <2>1. \A i \in 1 .. 10 : i = 1 \/ i = 2 \/ i = 3 \/ i = 4 \/ i = 5 \/ i = 6 \/ i = 7 \/ i = 8
                          \/ i = 9 \/ i = 10
    OBVIOUS
  <2> QED BY <2>1 DEF Deletion!Order
<1>4. ASSUME NEW k \in Deletion!Kind PROVE \E i \in 1 .. 10 : Deletion!Order[i] = k
  <2>1. PICK i \in 1 .. 11 : Deletion!Order[i] = k /\ k # "user"
    BY <1>1 DEF Deletion!Kind
  <2>2. i # 11
    BY <1>2, <2>1
  <2> QED BY <2>1, <2>2
<1> QED BY <1>1, <1>2, <1>3, <1>4

LEMMA InitDeletion == Deletion!DelInit => DeletionInv
<1> SUFFICES ASSUME Deletion!DelInit PROVE DeletionInv
  OBVIOUS
<1>1. Deletion!DelTypeOK
  <2>1. 0 \in 0 .. Len(Deletion!Order) /\ 0 \in 0 .. MaxWrites /\ 0 \in 0 .. MaxStops
    BY OrderFacts, AccountsAssumption
  <2> QED BY <2>1 DEF Deletion!DelInit, Deletion!DelTypeOK
<1> QED BY <1>1 DEF Deletion!DelInit, DeletionInv

LEMMA NextDeletion ==
  ASSUME DeletionInv, [Deletion!DelNext]_(Deletion!delVars)
  PROVE  DeletionInv'
<1>0. /\ present \in BOOLEAN /\ scheduled \in {"no", "grace", "due"}
      /\ records \subseteq Deletion!Kind /\ signedIn \in BOOLEAN
      /\ writing \subseteq Deletion!Kind /\ purge \in 0 .. 11
      /\ written \in 0 .. MaxWrites /\ stops \in 0 .. MaxStops
      /\ late \subseteq Deletion!Kind /\ skipped \subseteq Deletion!Kind
      /\ withdrawn \in BOOLEAN /\ purged \in BOOLEAN
      /\ MaxWrites \in Nat /\ MaxStops \in Nat
  BY OrderFacts, AccountsAssumption DEF DeletionInv, Deletion!DelTypeOK
<1> DEFINE Gone(k) == k \in records => k \in late \union skipped
<1>1. /\ purge > 0 => present
      /\ \A i \in 1 .. purge - 1 : Gone(Deletion!Order[i])
      /\ ~present => records \subseteq late \union skipped
      /\ withdrawn => scheduled = "no" /\ purge = 0
      /\ ~purged
  BY DEF DeletionInv
<1> HIDE DEF Gone
<1>2. CASE Deletion!RequestDeletion \/ Deletion!CancelDeletion \/ Deletion!GraceEnds
           \/ Deletion!SignIn
  <2>1. /\ UNCHANGED <<present, records, writing, written, purge, stops, late, skipped, purged>>
        /\ scheduled' \in {"no", "grace", "due"} /\ signedIn' \in BOOLEAN /\ withdrawn' \in BOOLEAN
        /\ withdrawn' => scheduled' = "no" /\ purge = 0
    <3>1. CASE Deletion!RequestDeletion
      BY <1>0, <3>1 DEF Deletion!RequestDeletion, Deletion!user, Deletion!work, Deletion!bounds
    <3>2. CASE Deletion!CancelDeletion
      BY <1>0, <3>2 DEF Deletion!CancelDeletion, Deletion!user, Deletion!work, Deletion!bounds
    <3>3. CASE Deletion!GraceEnds
      BY <1>0, <1>1, <3>3 DEF Deletion!GraceEnds, Deletion!user, Deletion!work, Deletion!bounds
    <3>4. CASE Deletion!SignIn
      BY <1>0, <1>1, <3>4 DEF Deletion!SignIn, Deletion!work, Deletion!bounds
    <3> QED BY <1>2, <3>1, <3>2, <3>3, <3>4
  <2> QED BY <2>1 DEF DeletionInv, Deletion!DelTypeOK
<1>3. ASSUME NEW k \in Deletion!Kind, Deletion!BeginWrite(k) PROVE DeletionInv'
  <2>1. /\ UNCHANGED <<present, signedIn, scheduled, records, purge, stops, late, skipped, purged,
                       withdrawn>>
        /\ writing' \subseteq Deletion!Kind /\ written' \in 0 .. MaxWrites
    BY <1>0, <1>3 DEF Deletion!BeginWrite, Deletion!user, Deletion!bounds
  <2> QED BY <2>1 DEF DeletionInv, Deletion!DelTypeOK
<1>4. ASSUME NEW k \in Deletion!Kind, Deletion!EndWrite(k) PROVE DeletionInv'
  <2>1. /\ UNCHANGED <<present, signedIn, scheduled, purge, written, stops, skipped, withdrawn,
                       purged>>
        /\ writing' = writing \ {k} /\ records' = records \union {k}
        /\ late' = IF Deletion!Past(k) THEN late \union {k} ELSE late
    BY <1>4 DEF Deletion!EndWrite, Deletion!user
  <2>2. ASSUME NEW i \in 1 .. purge - 1, Deletion!Order[i] \in records'
        PROVE  Deletion!Order[i] \in late' \union skipped'
    <3>1. CASE Deletion!Order[i] = k
      <4>1. Deletion!Past(k)
        BY <3>1 DEF Deletion!Past
      <4> QED BY <2>1, <3>1, <4>1
    <3>2. CASE Deletion!Order[i] # k
      BY <1>1, <2>1, <2>2, <3>2 DEF Gone
    <3> QED BY <3>1, <3>2
  <2>3. ~present => records' \subseteq late' \union skipped'
    BY <1>1, <2>1 DEF Deletion!Past
  <2>4. Deletion!DelTypeOK'
    BY <1>0, <2>1, OrderFacts DEF Deletion!DelTypeOK
  <2> QED BY <1>1, <2>1, <2>2, <2>3, <2>4 DEF DeletionInv
<1>5. CASE Deletion!BeginPurge
  <2>1. /\ UNCHANGED <<present, signedIn, scheduled, records, writing, written, stops, withdrawn,
                       purged>>
        /\ present /\ scheduled = "due" /\ purge' = 1 /\ late' = {} /\ skipped' = {}
    BY <1>5 DEF Deletion!BeginPurge, Deletion!user, Deletion!work
  <2>2. Deletion!DelTypeOK'
    BY <1>0, <2>1, OrderFacts DEF Deletion!DelTypeOK
  <2> QED BY <1>1, <2>1, <2>2 DEF DeletionInv
<1>6. CASE Deletion!PurgeStep
  <2>1. /\ UNCHANGED <<scheduled, writing, written, stops, late, skipped, withdrawn>>
        /\ purge > 0 /\ records' = records \ {Deletion!Order[purge]}
        /\ signedIn' \in BOOLEAN /\ present' = (Deletion!Order[purge] # "user")
        /\ purge' = (IF purge = 11 THEN 0 ELSE purge + 1)
        /\ purged' = (purged \/ withdrawn)
    BY <1>0, <1>6, OrderFacts DEF Deletion!PurgeStep, Deletion!Deletes
  <2>2. ~withdrawn /\ ~purged'
    <3>1. purge # 0
      BY <1>0, <2>1
    <3>2. ~withdrawn /\ ~purged
      BY <1>1, <3>1
    <3> QED BY <2>1, <3>2
  <2>3. ASSUME NEW i \in 1 .. purge, Deletion!Order[i] \in records'
        PROVE  Deletion!Order[i] \in late' \union skipped'
    <3>1. i # purge
      BY <2>1, <2>3
    <3>2. i \in 1 .. purge - 1
      BY <1>0, <3>1
    <3> QED BY <1>1, <2>1, <2>3, <3>2 DEF Gone
  <2>4. CASE purge = 11
    <3>1. ~present' /\ purge' = 0
      BY <2>1, <2>4, OrderFacts
    <3>2. ASSUME NEW k \in records' PROVE k \in late' \union skipped'
      <4>1. PICK i \in 1 .. 10 : Deletion!Order[i] = k
        BY <1>0, <2>1, OrderFacts
      <4> QED BY <2>3, <2>4, <4>1
    <3>3. Deletion!DelTypeOK'
      BY <1>0, <2>1, <2>2, <3>1, OrderFacts DEF Deletion!DelTypeOK
    <3> QED BY <2>2, <2>1, <3>1, <3>2, <3>3 DEF DeletionInv
  <2>5. CASE purge # 11
    <3>1. purge \in 1 .. 10 /\ purge' = purge + 1
      BY <1>0, <2>1, <2>5
    <3>2. present' = TRUE
      BY <2>1, <3>1, OrderFacts
    <3>3. \A i \in 1 .. purge' - 1 :
            Deletion!Order[i] \in records' => Deletion!Order[i] \in late' \union skipped'
      BY <2>3, <3>1
    <3>4. Deletion!DelTypeOK'
      BY <1>0, <2>1, <2>2, <3>1, <3>2, OrderFacts DEF Deletion!DelTypeOK
    <3> QED BY <2>1, <2>2, <3>2, <3>3, <3>4 DEF DeletionInv
  <2> QED BY <2>4, <2>5
<1>7. CASE Deletion!PurgeError
  <2>1. /\ UNCHANGED <<present, signedIn, scheduled, records, writing, written, late, withdrawn,
                       purged>>
        /\ purge > 0 /\ stops' \in 0 .. MaxStops
    BY <1>0, <1>7 DEF Deletion!PurgeError, Deletion!user, Deletion!work
  <2>2. CASE Deletion!Order[purge] \in Deletion!Careless
    <3>1. /\ purge' = purge + 1 /\ purge \in 1 .. 10
          /\ skipped' = skipped \union ({Deletion!Order[purge]} \intersect Deletion!Kind)
      BY <1>0, <1>7, <2>1, <2>2, OrderFacts DEF Deletion!PurgeError
    <3>2. ASSUME NEW i \in 1 .. purge, Deletion!Order[i] \in records
          PROVE  Deletion!Order[i] \in late \union skipped'
      <4>1. CASE i = purge
        BY <1>0, <3>1, <3>2, <4>1
      <4>2. CASE i # purge
        <5>1. i \in 1 .. purge - 1
          BY <3>1, <4>2
        <5> QED BY <1>1, <3>1, <3>2, <5>1 DEF Gone
      <4> QED BY <4>1, <4>2
    <3>3. Deletion!DelTypeOK'
      BY <1>0, <2>1, <3>1, OrderFacts DEF Deletion!DelTypeOK
    <3>4. \A i \in 1 .. purge' - 1 :
            Deletion!Order[i] \in records' => Deletion!Order[i] \in late' \union skipped'
      BY <2>1, <3>1, <3>2
    <3> QED BY <1>1, <2>1, <3>1, <3>3, <3>4 DEF DeletionInv
  <2>3. CASE Deletion!Order[purge] \notin Deletion!Careless
    <3>1. purge' = 0 /\ UNCHANGED skipped
      BY <1>7, <2>3 DEF Deletion!PurgeError
    <3>2. Deletion!DelTypeOK'
      BY <1>0, <2>1, <3>1, OrderFacts DEF Deletion!DelTypeOK
    <3> QED BY <1>1, <2>1, <3>1, <3>2 DEF DeletionInv
  <2> QED BY <2>2, <2>3
<1>8. CASE Deletion!Crash
  <2>1. /\ UNCHANGED <<present, signedIn, scheduled, records, written, late, skipped, purged,
                       withdrawn>>
        /\ purge' = 0 /\ writing' = {} /\ stops' \in 0 .. MaxStops
    BY <1>0, <1>8 DEF Deletion!Crash, Deletion!user, Deletion!bounds
  <2>2. Deletion!DelTypeOK'
    BY <1>0, <2>1, OrderFacts DEF Deletion!DelTypeOK
  <2> QED BY <1>1, <2>1, <2>2 DEF DeletionInv
<1>9. CASE UNCHANGED Deletion!delVars
  BY <1>9 DEF Deletion!delVars, DeletionInv, Deletion!DelTypeOK
<1> QED BY <1>2, <1>3, <1>4, <1>5, <1>6, <1>7, <1>8, <1>9 DEF Deletion!DelNext

LEMMA DeletionHolds == DeletionInv => NothingIsLeft
  BY DEF DeletionInv, NothingIsLeft, Deletion!NothingIsLeft, Deletion!WithdrawnMeansKept

-----------------------------------------------------------------------------
(****************************************************************************)
(* Pictures.  An upload that is not shown yet has a key that no other request  *)
(* knows (PicturesApart), so that nobody deletes its object or replaces its   *)
(* key before it is set; and whoever is about to delete an object does not    *)
(* delete the one shown (Held).  Every object is accounted for.               *)
(****************************************************************************)
EditSet == [op : {"none", "upload", "remove"}, at : {"rest", "put", "set", "clean"},
            old : Images!Key, new : Images!Key]

\* The upload q has not set its key yet.
Coming(q) == q.op = "upload" /\ q.at \in {"put", "set"}

\* What a request q holds while pic is shown, the objects st are stored and the keys fl failed.
Held(q, pic, st, fl, up) ==
    /\ q \in EditSet
    /\ q.old \in 0 .. up /\ q.new \in 0 .. up
    /\ q.op = "none" => q = Images!AtRest
    /\ Coming(q) => q.new \in 1 .. up /\ q.new # pic /\ q.new # q.old
    /\ q.op = "upload" /\ q.at = "set" => q.new \in st
    /\ q.at = "clean" /\ q.old # 0 => q.old # pic
    /\ q.op = "remove" /\ q.at = "put" => owner = "channel"
    /\ q.op = "remove" /\ q.at = "set" /\ owner = "channel" /\ q.old \in st => q.old \in fl

PicturesApart ==
    \A e, x \in Images!Editor : e # x /\ Coming(editing[e]) =>
        /\ editing[e].new # editing[x].old
        /\ Coming(editing[x]) => editing[e].new # editing[x].new

\* Who sees to it that the object k goes if it is not the picture pic: the requests of ed do,
\* or they have failed or met another (lost).
Accounted(k, pic, lost, ed) ==
    \/ k = pic
    \/ k \in lost
    \/ \E e \in Images!Editor :
        \/ ed[e].op = "upload" /\ ed[e].at = "set" /\ ed[e].new = k
        \/ ed[e].at = "clean" /\ ed[e].old = k

PictureInv ==
    /\ owner \in {"profile", "channel"}
    /\ uploads \in Images!Key
    /\ picture \in 0 .. uploads
    /\ stored \subseteq 1 .. uploads
    /\ failed \subseteq Images!Key
    /\ crossed \subseteq Images!Key
    /\ editing \in [Images!Editor -> EditSet]
    /\ \A e \in Images!Editor : Held(editing[e], picture, stored, failed, uploads)
    /\ PicturesApart
    /\ \A k \in stored : Accounted(k, picture, failed \union crossed, editing)
    /\ Images!ShownExists

LEMMA RestHeld ==
  /\ Images!AtRest.op = "none" /\ Images!AtRest.at = "rest"
  /\ Images!AtRest.old = 0 /\ Images!AtRest.new = 0
  /\ Images!AtRest \in EditSet
  /\ \A pic, st, fl : \A up \in Nat : Held(Images!AtRest, pic, st, fl, up)
<1>1. 0 \in Images!Key
  BY AccountsAssumption DEF Images!Key
<1>2. /\ Images!AtRest.op = "none" /\ Images!AtRest.at = "rest"
      /\ Images!AtRest.old = 0 /\ Images!AtRest.new = 0
      /\ Images!AtRest \in EditSet
  BY <1>1 DEF Images!AtRest, EditSet
<1> QED BY <1>2 DEF Held, Coming

LEMMA InitPicture == Images!PicInit => PictureInv
<1> SUFFICES ASSUME Images!PicInit PROVE PictureInv
  OBVIOUS
<1>1. /\ owner \in {"profile", "channel"} /\ picture = 0 /\ stored = {} /\ uploads = 0
      /\ failed = {} /\ crossed = {} /\ 0 \in Images!Key
      /\ editing = [e \in Images!Editor |-> Images!AtRest]
  BY AccountsAssumption DEF Images!PicInit, Images!Key
<1>2. PicturesApart
  BY <1>1, RestHeld DEF PicturesApart, Coming
<1>3. \A e \in Images!Editor : Held(editing[e], picture, stored, failed, uploads)
  BY <1>1, RestHeld
<1> QED BY <1>1, <1>2, <1>3, RestHeld DEF PictureInv, Images!ShownExists

\* When a request goes to the state w, and pic is shown and the objects of st are stored,
\* nothing that x relies on is lost to it; and to any but e.
LeavesAlone(x, w, pic, st) ==
    /\ Coming(editing[x]) => editing[x].new # pic /\ editing[x].new # w.old
    /\ editing[x].op = "upload" /\ editing[x].at = "set" => editing[x].new \in st
    /\ editing[x].at = "clean" /\ editing[x].old # 0 => editing[x].old # pic
    /\ editing[x].old \in st => editing[x].old \in stored
    /\ Coming(w) => /\ w.new # editing[x].old
                    /\ Coming(editing[x]) => w.new # editing[x].new

OthersLeave(e, w, pic, st) ==
    \A x \in Images!Editor \ {e} : LeavesAlone(x, w, pic, st)

\* Keys are added to, and stay within those there have been.
KeysMove ==
    /\ uploads' \in Images!Key /\ uploads <= uploads'
    /\ picture' \in 0 .. uploads' /\ stored' \subseteq 1 .. uploads'
    /\ failed \subseteq failed' /\ failed' \subseteq Images!Key /\ crossed' \subseteq Images!Key

\* A request goes to the state w; the others hold what they held.
LEMMA PictureMoves ==
  ASSUME PictureInv, NEW e \in Images!Editor, NEW STATE w,
         editing' = [editing EXCEPT ![e] = w],
         owner' = owner, KeysMove,
         Held(w, picture', stored', failed', uploads'),
         OthersLeave(e, w, picture', stored'),
         \A k \in stored' : Accounted(k, picture', failed' \union crossed', editing'),
         Images!ShownExists'
  PROVE  PictureInv'
<1>1. /\ editing \in [Images!Editor -> EditSet] /\ w \in EditSet
      /\ uploads \in Nat /\ uploads' \in Nat
  BY AccountsAssumption DEF KeysMove, PictureInv, Held, Images!Key
<1>2. editing' \in [Images!Editor -> EditSet] /\ editing'[e] = w
      /\ \A x \in Images!Editor : x # e => editing'[x] = editing[x]
  BY <1>1
<1>3. ASSUME NEW x \in Images!Editor
      PROVE  Held(editing[x], picture, stored, failed, uploads)'
  <2>1. CASE x = e
    BY <1>2, <2>1 DEF Held
  <2>2. CASE x # e
    <3>1. Held(editing[x], picture, stored, failed, uploads) /\ editing'[x] = editing[x]
      BY <1>2, <2>2 DEF PictureInv
    <3> QED BY <1>1, <2>2, <3>1 DEF KeysMove, Held, OthersLeave, LeavesAlone
  <2> QED BY <2>1, <2>2
<1>4. PicturesApart'
  <2> SUFFICES ASSUME NEW y \in Images!Editor, NEW x \in Images!Editor, y # x, Coming(editing'[y])
               PROVE  /\ editing'[y].new # editing'[x].old
                      /\ Coming(editing'[x]) => editing'[y].new # editing'[x].new
    BY DEF PicturesApart, Coming
  <2>1. CASE y = e
    BY <1>2, <2>1 DEF OthersLeave, LeavesAlone
  <2>2. CASE x = e
    BY <1>2, <2>2 DEF OthersLeave, LeavesAlone
  <2>3. CASE y # e /\ x # e
    BY <1>2, <2>3 DEF PictureInv, PicturesApart
  <2> QED BY <2>1, <2>2, <2>3
<1> QED BY <1>2, <1>3, <1>4 DEF KeysMove, PictureInv

\* What a request holds, and what it holds apart from the others.
LEMMA PictureFacts ==
  ASSUME PictureInv, NEW e \in Images!Editor
  PROVE  /\ Held(editing[e], picture, stored, failed, uploads)
         /\ editing[e] \in EditSet
         /\ uploads \in Nat /\ uploads <= MaxPictures
         /\ picture \in Images!Key /\ stored \subseteq Images!Key
         /\ \A x \in Images!Editor : x # e =>
              /\ Held(editing[x], picture, stored, failed, uploads)
              /\ Coming(editing[e]) =>
                    /\ editing[e].new # editing[x].old
                    /\ Coming(editing[x]) => editing[e].new # editing[x].new
              /\ Coming(editing[x]) => editing[x].new # editing[e].old
<1>1. uploads \in Nat /\ uploads <= MaxPictures /\ MaxPictures \in Nat
  BY AccountsAssumption DEF PictureInv, Images!Key
<1>2. picture \in Images!Key /\ stored \subseteq Images!Key
  BY <1>1 DEF PictureInv, Images!Key
<1> QED BY <1>1, <1>2 DEF PictureInv, PicturesApart

\* Objects are accounted for as before, by requests other than e.
LEMMA AccountedStays ==
  ASSUME PictureInv, NEW e \in Images!Editor, NEW STATE w, editing' = [editing EXCEPT ![e] = w],
         NEW k, Accounted(k, picture, failed \union crossed, editing),
         k = picture => picture' = k \/ k \in failed' \union crossed'
                        \/ (w.at = "clean" /\ w.old = k),
         failed \subseteq failed', crossed \subseteq crossed',
         Images!Editing(e, "upload", "set") /\ editing[e].new = k => picture' = k \/ k \in failed',
         editing[e].at = "clean" /\ editing[e].old = k => k \in failed'
  PROVE  Accounted(k, picture', failed' \union crossed', editing')
<1>1. /\ editing'[e] = w
      /\ \A x \in Images!Editor : x # e => editing'[x] = editing[x]
  BY DEF PictureInv
<1>2. CASE k = picture \/ k \in failed \union crossed
  BY <1>1, <1>2 DEF Accounted
<1>3. CASE \E x \in Images!Editor :
            \/ editing[x].op = "upload" /\ editing[x].at = "set" /\ editing[x].new = k
            \/ editing[x].at = "clean" /\ editing[x].old = k
  <2>1. PICK x \in Images!Editor :
            \/ editing[x].op = "upload" /\ editing[x].at = "set" /\ editing[x].new = k
            \/ editing[x].at = "clean" /\ editing[x].old = k
    BY <1>3
  <2>2. CASE x = e
    BY <2>1, <2>2 DEF Accounted, Images!Editing
  <2>3. CASE x # e
    BY <1>1, <2>1, <2>3 DEF Accounted
  <2> QED BY <2>2, <2>3
<1> QED BY <1>2, <1>3 DEF Accounted

LEMMA UploadReadKeeps ==
  ASSUME PictureInv, NEW e \in Images!Editor, Images!UploadRead(e), owner' = owner
  PROVE  PictureInv'
<1> DEFINE w == [op |-> "upload", at |-> "put", old |-> picture, new |-> uploads + 1]
<1>1. /\ editing[e] = Images!AtRest /\ uploads < MaxPictures /\ uploads' = uploads + 1
      /\ editing' = [editing EXCEPT ![e] = w]
      /\ UNCHANGED <<picture, stored, failed, crossed>>
  BY DEF Images!UploadRead, Images!Edit
<1>2. /\ uploads' \in Images!Key /\ uploads \in Nat
      /\ picture \in Images!Key /\ picture \in 0 .. uploads
      /\ stored \subseteq 1 .. uploads
  BY <1>1, PictureFacts, AccountsAssumption DEF Images!Key, PictureInv
<1>3. w \in EditSet
  BY <1>1, <1>2 DEF EditSet
<1>4. w.op = "upload" /\ w.at = "put" /\ w.old = picture /\ w.new = uploads + 1
  OBVIOUS
<1> HIDE DEF w
<1>5. Held(w, picture', stored', failed', uploads')
  BY <1>1, <1>2, <1>3, <1>4 DEF Held, Coming
<1>6. OthersLeave(e, w, picture', stored')
  <2> SUFFICES ASSUME NEW x \in Images!Editor \ {e}
               PROVE  LeavesAlone(x, w, picture', stored')
    BY DEF OthersLeave
  <2>1. Held(editing[x], picture, stored, failed, uploads)
    BY PictureFacts
  <2> QED BY <1>1, <1>2, <1>4, <2>1 DEF LeavesAlone, Held
<1>7. ASSUME NEW k \in stored' PROVE Accounted(k, picture', failed' \union crossed', editing')
  <2>1. Accounted(k, picture, failed \union crossed, editing)
    BY <1>1, <1>7 DEF PictureInv
  <2> QED BY <1>1, <2>1, RestHeld, AccountedStays DEF Images!Editing
<1>8. Images!ShownExists'
  <2>1. \A x \in Images!Editor : Images!Editing(x, "remove", "set") => editing'[x] = editing[x]
    BY <1>1, RestHeld DEF Images!Editing, PictureInv
  <2> QED BY <1>1, <2>1 DEF PictureInv, Images!ShownExists, Images!Editing
<1>9. KeysMove
  BY <1>1, <1>2 DEF KeysMove, PictureInv
<1> QED BY <1>1, <1>5, <1>6, <1>7, <1>8, <1>9, PictureMoves

LEMMA RemoveReadKeeps ==
  ASSUME PictureInv, NEW e \in Images!Editor, Images!RemoveRead(e), owner' = owner
  PROVE  PictureInv'
<1> DEFINE w == [op |-> "remove", at |-> IF owner = "channel" THEN "put" ELSE "set",
                 old |-> picture, new |-> 0]
<1>1. /\ editing[e] = Images!AtRest
      /\ editing' = [editing EXCEPT ![e] = w]
      /\ UNCHANGED <<picture, stored, uploads, failed, crossed>>
  BY DEF Images!RemoveRead, Images!Edit
<1>2. /\ uploads \in Images!Key /\ uploads \in Nat
      /\ picture \in Images!Key /\ picture \in 0 .. uploads
      /\ 0 \in Images!Key
  BY <1>1, PictureFacts, AccountsAssumption DEF Images!Key, PictureInv
<1>3. w \in EditSet
  BY <1>1, <1>2 DEF EditSet
<1>4. w.op = "remove" /\ w.old = picture /\ w.new = 0
      /\ w.at = IF owner = "channel" THEN "put" ELSE "set"
  OBVIOUS
<1> HIDE DEF w
<1>5. Held(w, picture', stored', failed', uploads')
  BY <1>1, <1>2, <1>3, <1>4 DEF Held, Coming
<1>6. OthersLeave(e, w, picture', stored')
  <2> SUFFICES ASSUME NEW x \in Images!Editor \ {e}
               PROVE  LeavesAlone(x, w, picture', stored')
    BY DEF OthersLeave
  <2>1. Held(editing[x], picture, stored, failed, uploads)
    BY PictureFacts
  <2> QED BY <1>1, <1>2, <1>4, <2>1 DEF LeavesAlone, Held, Coming
<1>7. ASSUME NEW k \in stored' PROVE Accounted(k, picture', failed' \union crossed', editing')
  <2>1. Accounted(k, picture, failed \union crossed, editing)
    BY <1>1, <1>7 DEF PictureInv
  <2> QED BY <1>1, <2>1, RestHeld, AccountedStays DEF Images!Editing
<1>8. Images!ShownExists'
  <2>1. \A x \in Images!Editor : Images!Editing(x, "remove", "set") => editing'[x] = editing[x]
    BY <1>1, RestHeld DEF Images!Editing, PictureInv
  <2> QED BY <1>1, <2>1 DEF PictureInv, Images!ShownExists, Images!Editing
<1>9. KeysMove
  BY <1>1, <1>2 DEF KeysMove, PictureInv
<1> QED BY <1>1, <1>5, <1>6, <1>7, <1>8, <1>9, PictureMoves

LEMMA UploadPutKeeps ==
  ASSUME PictureInv, NEW e \in Images!Editor, Images!UploadPut(e), owner' = owner
  PROVE  PictureInv'
<1> DEFINE E == editing[e]
<1>0. /\ E \in EditSet /\ E.op = "upload" /\ E.at = "put" /\ Coming(E)
      /\ Held(E, picture, stored, failed, uploads)
      /\ uploads \in Nat /\ E.new \in 1 .. uploads /\ uploads \in Images!Key
      /\ UNCHANGED <<picture, uploads, failed, crossed>>
  BY PictureFacts DEF Images!UploadPut, Images!Editing, Coming, Held, PictureInv
<1>1. PICK w : /\ editing' = [editing EXCEPT ![e] = w]
               /\ \/ w = [E EXCEPT !.at = "set"] /\ stored' = stored \union {E.new}
                  \/ w = Images!AtRest /\ stored' = stored
  BY DEF Images!UploadPut, Images!Edit
<1>2. /\ w \in EditSet /\ w.old \in {0, E.old}
      /\ \/ w.op = "upload" /\ w.at = "set" /\ w.old = E.old /\ w.new = E.new
            /\ stored' = stored \union {E.new}
         \/ w = Images!AtRest /\ stored' = stored
  BY <1>0, <1>1, RestHeld DEF EditSet
<1>3. Held(w, picture', stored', failed', uploads')
  <2>1. CASE w = Images!AtRest
    BY <1>0, <2>1, RestHeld
  <2>2. CASE w.op = "upload" /\ w.at = "set" /\ w.old = E.old /\ w.new = E.new
             /\ stored' = stored \union {E.new}
    BY <1>0, <1>2, <2>2 DEF Held, Coming
  <2> QED BY <1>2, <2>1, <2>2
<1>4. OthersLeave(e, w, picture', stored')
  <2> SUFFICES ASSUME NEW x \in Images!Editor \ {e}
               PROVE  LeavesAlone(x, w, picture', stored')
    BY DEF OthersLeave
  <2>1. /\ Held(editing[x], picture, stored, failed, uploads)
        /\ E.new # editing[x].old
        /\ Coming(editing[x]) => E.new # editing[x].new /\ editing[x].new # E.old
    BY <1>0, PictureFacts
  <2>2. Coming(editing[x]) => editing[x].new # 0
    BY <1>0, <2>1 DEF Held
  <2> QED BY <1>0, <1>2, <2>1, <2>2, RestHeld DEF LeavesAlone, Held, Coming
<1>5. ASSUME NEW k \in stored' PROVE Accounted(k, picture', failed' \union crossed', editing')
  <2>1. CASE k \in stored
    <3>1. Accounted(k, picture, failed \union crossed, editing)
      BY <2>1 DEF PictureInv
    <3> QED BY <1>0, <1>1, <3>1, AccountedStays DEF Images!Editing
  <2>2. CASE k \notin stored
    <3>1. editing'[e] = w /\ w.op = "upload" /\ w.at = "set" /\ w.new = k
      BY <1>1, <1>2, <1>5, <2>2 DEF PictureInv
    <3> QED BY <3>1 DEF Accounted, Images!Editing
  <2> QED BY <2>1, <2>2
<1>6. Images!ShownExists'
  <2>1. \A x \in Images!Editor : Images!Editing(x, "remove", "set") => editing'[x] = editing[x]
    BY <1>0, <1>1 DEF Images!Editing, PictureInv
  <2> QED BY <1>0, <1>2, <2>1 DEF PictureInv, Images!ShownExists, Images!Editing
<1>7. KeysMove
  <2>1. stored' = stored \union {E.new} \/ stored' = stored
    BY <1>2
  <2>2. stored \subseteq 1 .. uploads
    BY DEF PictureInv
  <2>3. stored' \subseteq 1 .. uploads
    BY <1>0, <2>1, <2>2
  <2> QED BY <1>0, <2>3 DEF KeysMove, PictureInv
<1>8. editing' = [editing EXCEPT ![e] = w]
  BY <1>1
<1> QED BY <1>3, <1>4, <1>5, <1>6, <1>7, <1>8, PictureMoves

\* The keys of a request that goes are those it had.
LEMMA NextState ==
  ASSUME NEW q \in EditSet, NEW at \in {"put", "set", "clean"}
  PROVE  /\ [q EXCEPT !.at = at] \in EditSet
         /\ [q EXCEPT !.at = at].at = at /\ [q EXCEPT !.at = at].op = q.op
         /\ [q EXCEPT !.at = at].old = q.old /\ [q EXCEPT !.at = at].new = q.new
  BY DEF EditSet

LEMMA UploadSetKeeps ==
  ASSUME PictureInv, NEW e \in Images!Editor, Images!UploadSet(e), owner' = owner
  PROVE  PictureInv'
<1> DEFINE E == editing[e]
<1>0. /\ E \in EditSet /\ E.op = "upload" /\ E.at = "set" /\ Coming(E)
      /\ Held(E, picture, stored, failed, uploads)
      /\ uploads \in Nat /\ E.new \in 1 .. uploads /\ E.new \in Images!Key
      /\ E.new # picture /\ E.new # E.old /\ E.new \in stored
      /\ uploads \in Images!Key /\ uploads' = uploads
      /\ picture \in Images!Key /\ picture \in 0 .. uploads /\ stored \subseteq 1 .. uploads
      /\ failed \subseteq Images!Key /\ crossed \subseteq Images!Key
  BY PictureFacts DEF Images!UploadSet, Images!Editing, Coming, Held, PictureInv, EditSet
<1>a. \A x \in Images!Editor \ {e} :
        /\ Held(editing[x], picture, stored, failed, uploads)
        /\ E.new # editing[x].old
        /\ Coming(editing[x]) => E.new # editing[x].new /\ editing[x].new # E.old
  BY <1>0, PictureFacts
<1>1. CASE /\ picture' = E.new /\ crossed' = crossed \union Images!Unseen(e)
           /\ editing' = [editing EXCEPT ![e] = [E EXCEPT !.at = "clean"]]
           /\ UNCHANGED <<stored, failed>>
  <2> DEFINE w == [E EXCEPT !.at = "clean"]
  <2>1. w \in EditSet /\ w.at = "clean" /\ w.op = E.op /\ w.old = E.old /\ w.new = E.new
    BY <1>0, NextState
  <2>2. editing' = [editing EXCEPT ![e] = w]
    BY <1>1
  <2> HIDE DEF w
  <2>3. Held(w, picture', stored', failed', uploads')
    BY <1>0, <1>1, <2>1 DEF Held, Coming
  <2>4. OthersLeave(e, w, picture', stored')
    <3> SUFFICES ASSUME NEW x \in Images!Editor \ {e}
                 PROVE  LeavesAlone(x, w, picture', stored')
      BY DEF OthersLeave
    <3> QED BY <1>a, <1>1, <2>1 DEF LeavesAlone, Held
  <2>5. ASSUME NEW k \in stored' PROVE Accounted(k, picture', failed' \union crossed', editing')
    <3>1. Accounted(k, picture, failed \union crossed, editing) /\ k # 0
      BY <1>0, <1>1, <2>5 DEF PictureInv
    <3>2. k = picture => k \in crossed' \/ (w.at = "clean" /\ w.old = k)
      BY <1>1, <2>1, <3>1 DEF Images!Unseen
    <3> QED BY <1>0, <1>1, <2>2, <3>1, <3>2, AccountedStays
  <2>6. Images!ShownExists'
    BY <1>0, <1>1 DEF Images!ShownExists
  <2>7. KeysMove
    BY <1>0, <1>1 DEF KeysMove, Images!Unseen
  <2> QED BY <2>2, <2>3, <2>4, <2>5, <2>6, <2>7, PictureMoves
<1>2. CASE /\ \/ owner = "channel" /\ stored' = stored \ {E.new} /\ UNCHANGED failed
              \/ owner # "channel" /\ failed' = failed \union {E.new} /\ UNCHANGED stored
           /\ editing' = [editing EXCEPT ![e] = Images!AtRest]
           /\ UNCHANGED <<picture, crossed>>
  <2>1. Held(Images!AtRest, picture', stored', failed', uploads')
    BY <1>0, RestHeld
  <2>2. stored' \subseteq stored /\ stored \ stored' \subseteq {E.new}
        /\ (E.new \in stored' => E.new \in failed')
        /\ failed \subseteq failed' /\ failed' \subseteq Images!Key
    BY <1>0, <1>2
  <2>3. OthersLeave(e, Images!AtRest, picture', stored')
    <3> SUFFICES ASSUME NEW x \in Images!Editor \ {e}
                 PROVE  LeavesAlone(x, Images!AtRest, picture', stored')
      BY DEF OthersLeave
    <3> QED BY <1>0, <1>a, <1>2, <2>2, RestHeld DEF LeavesAlone, Held, Coming
  <2>4. ASSUME NEW k \in stored' PROVE Accounted(k, picture', failed' \union crossed', editing')
    <3>1. Accounted(k, picture, failed \union crossed, editing)
      BY <2>2, <2>4 DEF PictureInv
    <3> QED BY <1>0, <1>2, <2>2, <2>4, <3>1, AccountedStays
  <2>5. Images!ShownExists'
    <3>1. \A x \in Images!Editor : Images!Editing(x, "remove", "set") => editing'[x] = editing[x]
      BY <1>0, <1>2 DEF Images!Editing, PictureInv
    <3> QED BY <1>0, <1>2, <2>2, <3>1 DEF PictureInv, Images!ShownExists, Images!Editing
  <2>6. KeysMove
    BY <1>0, <1>2, <2>2 DEF KeysMove
  <2> QED BY <1>2, <2>1, <2>3, <2>4, <2>5, <2>6, PictureMoves
<1>3. \/ /\ picture' = E.new /\ crossed' = crossed \union Images!Unseen(e)
         /\ editing' = [editing EXCEPT ![e] = [E EXCEPT !.at = "clean"]]
         /\ UNCHANGED <<stored, failed>>
      \/ /\ \/ owner = "channel" /\ stored' = stored \ {E.new} /\ UNCHANGED failed
            \/ owner # "channel" /\ failed' = failed \union {E.new} /\ UNCHANGED stored
         /\ editing' = [editing EXCEPT ![e] = Images!AtRest]
         /\ UNCHANGED <<picture, crossed>>
  BY DEF Images!UploadSet, Images!Edit
<1> QED BY <1>1, <1>2, <1>3

\* Clean and RemoveObject delete the object of the key that was read, or fail to.
LEMMA OldGoes ==
  ASSUME PictureInv, NEW e \in Images!Editor, NEW STATE w, owner' = owner,
         \/ editing[e].at = "clean" /\ w = Images!AtRest
         \/ Images!Editing(e, "remove", "put") /\ w = [editing[e] EXCEPT !.at = "set"],
         editing' = [editing EXCEPT ![e] = w],
         \/ stored' = stored \ {editing[e].old} /\ UNCHANGED failed
         \/ failed' = failed \union {editing[e].old} /\ UNCHANGED stored,
         UNCHANGED <<picture, uploads, crossed>>
  PROVE  PictureInv'
<1> DEFINE E == editing[e]
<1>0. /\ E \in EditSet /\ E.old \in Images!Key
      /\ Held(E, picture, stored, failed, uploads)
      /\ uploads \in Nat /\ uploads \in Images!Key
      /\ picture \in Images!Key /\ picture \in 0 .. uploads /\ stored \subseteq 1 .. uploads
      /\ failed \subseteq Images!Key /\ crossed \subseteq Images!Key
  BY PictureFacts DEF PictureInv, EditSet
<1>1. /\ stored' \subseteq stored /\ stored \ stored' \subseteq {E.old}
      /\ (E.old \in stored' => E.old \in failed')
      /\ failed \subseteq failed' /\ failed' \subseteq Images!Key
  BY <1>0
<1>2. \/ w = Images!AtRest /\ E.at = "clean"
      \/ /\ w \in EditSet /\ w.op = "remove" /\ w.at = "set" /\ w.old = E.old /\ w.new = E.new
         /\ E.op = "remove" /\ E.at = "put" /\ owner = "channel"
  BY <1>0, NextState DEF Images!Editing, Held
<1>3. Held(w, picture', stored', failed', uploads')
  <2>1. CASE w = Images!AtRest
    BY <1>0, <2>1, RestHeld
  <2>2. CASE w \in EditSet /\ w.op = "remove" /\ w.at = "set" /\ w.old = E.old /\ w.new = E.new
    BY <1>0, <1>1, <2>2 DEF Held, Coming
  <2> QED BY <1>2, <2>1, <2>2
<1>4. ~Coming(w) /\ w.old \in {0, E.old}
  BY <1>2, RestHeld DEF Coming
<1>5. OthersLeave(e, w, picture', stored')
  <2> SUFFICES ASSUME NEW x \in Images!Editor \ {e}
               PROVE  LeavesAlone(x, w, picture', stored')
    BY DEF OthersLeave
  <2>1. /\ Held(editing[x], picture, stored, failed, uploads)
        /\ Coming(editing[x]) => editing[x].new # E.old
    BY PictureFacts
  <2>2. Coming(editing[x]) => editing[x].new # 0
    BY <1>0, <2>1 DEF Held
  <2> QED BY <1>1, <1>4, <2>1, <2>2 DEF LeavesAlone, Held, Coming
<1>6. ASSUME NEW k \in stored' PROVE Accounted(k, picture', failed' \union crossed', editing')
  <2>1. Accounted(k, picture, failed \union crossed, editing)
    BY <1>1, <1>6 DEF PictureInv
  <2> QED BY <1>1, <1>2, <1>6, <2>1, AccountedStays DEF Images!Editing
<1>7. Images!ShownExists'
  <2>1. \A x \in Images!Editor : Images!Editing(x, "remove", "set") => editing'[x] = editing[x]
    BY <1>2 DEF Images!Editing, PictureInv
  <2>2. CASE picture # 0 /\ picture \in stored \ stored'
    <3>1. picture = E.old
      BY <1>1, <2>2
    <3>2. w.op = "remove" /\ w.at = "set" /\ w.old = picture /\ owner = "channel"
      BY <1>0, <1>2, <2>2, <3>1 DEF Held
    <3>3. editing'[e] = w
      BY DEF PictureInv
    <3> QED BY <3>2, <3>3 DEF Images!ShownExists, Images!Editing
  <2>3. CASE picture = 0 \/ picture \notin stored \ stored'
    BY <1>1, <2>1, <2>3 DEF PictureInv, Images!ShownExists, Images!Editing
  <2> QED BY <2>2, <2>3
<1>8. KeysMove
  BY <1>0, <1>1 DEF KeysMove
<1> QED BY <1>3, <1>5, <1>6, <1>7, <1>8, PictureMoves

LEMMA RemoveKeyKeeps ==
  ASSUME PictureInv, NEW e \in Images!Editor, Images!RemoveKey(e), owner' = owner
  PROVE  PictureInv'
<1> DEFINE E == editing[e]
<1>0. /\ E \in EditSet /\ E.op = "remove" /\ E.at = "set" /\ E.old \in Images!Key
      /\ Held(E, picture, stored, failed, uploads)
      /\ uploads \in Nat /\ uploads \in Images!Key /\ 0 \in Images!Key
      /\ picture \in Images!Key /\ picture \in 0 .. uploads /\ stored \subseteq 1 .. uploads
      /\ failed \subseteq Images!Key /\ crossed \subseteq Images!Key
      /\ UNCHANGED <<stored, uploads>>
  <2>1. 0 \in Images!Key
    BY AccountsAssumption DEF Images!Key
  <2> QED BY <2>1, PictureFacts DEF Images!RemoveKey, Images!Editing, PictureInv, EditSet
<1>a. \A x \in Images!Editor \ {e} :
        /\ Held(editing[x], picture, stored, failed, uploads)
        /\ Coming(editing[x]) => editing[x].new # E.old /\ editing[x].new # 0
  <2> TAKE x \in Images!Editor \ {e}
  <2>1. /\ Held(editing[x], picture, stored, failed, uploads)
        /\ Coming(editing[x]) => editing[x].new # E.old
    BY PictureFacts
  <2>2. Coming(editing[x]) => editing[x].new # 0
    BY <1>0, <2>1 DEF Held
  <2> QED BY <2>1, <2>2
<1>1. ASSUME NEW STATE w, editing' = [editing EXCEPT ![e] = w],
             picture' = 0, crossed' = crossed \union Images!Unseen(e), UNCHANGED failed,
             \/ owner = "channel" /\ w = Images!AtRest
             \/ owner # "channel" /\ w = [E EXCEPT !.at = "clean"]
      PROVE  PictureInv'
  <2>1. \/ w = Images!AtRest /\ owner = "channel"
        \/ /\ w \in EditSet /\ w.op = "remove" /\ w.at = "clean" /\ w.old = E.old /\ w.new = E.new
           /\ owner # "channel"
    BY <1>0, <1>1, NextState
  <2>2. Held(w, picture', stored', failed', uploads')
    <3>1. CASE w = Images!AtRest
      BY <1>0, <3>1, RestHeld
    <3>2. CASE w \in EditSet /\ w.op = "remove" /\ w.at = "clean" /\ w.old = E.old /\ w.new = E.new
      BY <1>0, <1>1, <3>2 DEF Held, Coming
    <3> QED BY <2>1, <3>1, <3>2
  <2>3. ~Coming(w) /\ w.old \in {0, E.old}
    BY <2>1, RestHeld DEF Coming
  <2>4. OthersLeave(e, w, picture', stored')
    BY <1>0, <1>a, <1>1, <2>3 DEF OthersLeave, LeavesAlone, Held
  <2>5. ASSUME NEW k \in stored' PROVE Accounted(k, picture', failed' \union crossed', editing')
    <3>1. Accounted(k, picture, failed \union crossed, editing) /\ k # 0
      BY <1>0, <2>5 DEF PictureInv
    <3>2. k = picture => k \in failed' \union crossed' \/ (w.at = "clean" /\ w.old = k)
      <4>1. k = picture => k \in crossed' \/ k = E.old
        BY <1>1, <3>1 DEF Images!Unseen
      <4>2. CASE k = picture /\ k = E.old
        BY <1>0, <1>1, <2>1, <2>5, <4>2 DEF Held
      <4> QED BY <4>1, <4>2
    <3> QED BY <1>0, <1>1, <3>1, <3>2, AccountedStays DEF Images!Editing
  <2>6. Images!ShownExists'
    BY <1>1 DEF Images!ShownExists
  <2>7. KeysMove
    BY <1>0, <1>1 DEF KeysMove, Images!Unseen
  <2> QED BY <1>1, <2>2, <2>4, <2>5, <2>6, <2>7, PictureMoves
<1>2. CASE /\ failed' = failed \union {E.old} /\ UNCHANGED <<picture, crossed>>
           /\ editing' = [editing EXCEPT ![e] = Images!AtRest]
  <2>1. Held(Images!AtRest, picture', stored', failed', uploads')
    BY <1>0, RestHeld
  <2>2. OthersLeave(e, Images!AtRest, picture', stored')
    BY <1>0, <1>a, <1>2, RestHeld DEF OthersLeave, LeavesAlone, Held, Coming
  <2>3. ASSUME NEW k \in stored' PROVE Accounted(k, picture', failed' \union crossed', editing')
    <3>1. Accounted(k, picture, failed \union crossed, editing)
      BY <1>0, <2>3 DEF PictureInv
    <3> QED BY <1>0, <1>2, <3>1, AccountedStays DEF Images!Editing
  <2>4. Images!ShownExists'
    <3>1. \A x \in Images!Editor \ {e} : editing'[x] = editing[x]
      BY <1>2 DEF PictureInv
    <3>2. picture = E.old => picture \in failed'
      BY <1>2
    <3> QED BY <1>0, <1>2, <3>1, <3>2 DEF PictureInv, Images!ShownExists, Images!Editing
  <2>5. KeysMove
    <3>1. failed \subseteq failed' /\ failed' \subseteq Images!Key
      BY <1>0, <1>2
    <3>2. UNCHANGED <<picture, stored, uploads, crossed>>
      BY <1>0, <1>2
    <3> QED BY <1>0, <3>1, <3>2 DEF KeysMove
  <2> QED BY <1>2, <2>1, <2>2, <2>3, <2>4, <2>5, PictureMoves
<1>3. \/ /\ picture' = 0 /\ crossed' = crossed \union Images!Unseen(e) /\ UNCHANGED failed
         /\ editing' = [editing EXCEPT ![e] =
                IF owner = "channel" THEN Images!AtRest ELSE [E EXCEPT !.at = "clean"]]
      \/ /\ failed' = failed \union {E.old} /\ UNCHANGED <<picture, crossed>>
         /\ editing' = [editing EXCEPT ![e] = Images!AtRest]
  BY DEF Images!RemoveKey, Images!Edit
<1>4. CASE owner = "channel"
  BY <1>1, <1>2, <1>3, <1>4
<1>5. CASE owner # "channel"
  BY <1>1, <1>2, <1>3, <1>5
<1> QED BY <1>4, <1>5

LEMMA NextPicture ==
  ASSUME PictureInv, [Images!PicNext]_(Images!picVars)
  PROVE  PictureInv'
<1>1. ASSUME NEW e \in Images!Editor, Images!Clean(e), owner' = owner PROVE PictureInv'
  BY <1>1, OldGoes DEF Images!Clean, Images!Edit
<1>2. ASSUME NEW e \in Images!Editor, Images!RemoveObject(e), owner' = owner PROVE PictureInv'
  BY <1>2, OldGoes DEF Images!RemoveObject, Images!Edit
<1>3. CASE UNCHANGED Images!picVars
  <2>1. UNCHANGED <<owner, picture, stored, editing, uploads, failed, crossed>>
    BY <1>3 DEF Images!picVars
  <2> QED BY <2>1 DEF PictureInv, PicturesApart, Held, Accounted, Images!ShownExists,
          Images!Editing
<1> QED BY <1>1, <1>2, <1>3, UploadReadKeeps, UploadPutKeeps, UploadSetKeeps, RemoveReadKeeps,
           RemoveKeyKeeps DEF Images!PicNext

LEMMA PictureTypes == PictureInv => Images!PicTypeOK
<1> SUFFICES ASSUME PictureInv PROVE Images!PicTypeOK
  OBVIOUS
<1>1. uploads \in Nat /\ uploads <= MaxPictures /\ MaxPictures \in Nat
  BY AccountsAssumption DEF PictureInv, Images!Key
<1>2. picture \in Images!Key /\ stored \subseteq Images!Key
  BY <1>1 DEF PictureInv, Images!Key
<1> QED BY <1>2 DEF PictureInv, EditSet, Images!PicTypeOK

LEMMA PictureHolds == PictureInv => PictureKept
<1> SUFFICES ASSUME PictureInv, \A e \in Images!Editor : editing[e] = Images!AtRest,
                    NEW k \in stored
             PROVE  k \in {picture} \union failed \union crossed
  BY DEF PictureKept, Images!NothingLeaks, PictureInv
<1>1. Accounted(k, picture, failed \union crossed, editing)
  BY DEF PictureInv
<1> QED BY <1>1, RestHeld DEF Accounted
-----------------------------------------------------------------------------
(****************************************************************************)
(* The parts side by side: a step moves one, and the others rest.            *)
(****************************************************************************)
AccountsInv ==
    /\ moving \in {"presence", "session", "twoFactor", "deletion", "pictures"}
    /\ Online!TypeOK /\ Online!Amended
    /\ SessionInv
    /\ CodesInv
    /\ DeletionInv
    /\ PictureInv

LEMMA InitAccounts == AccountsInit => AccountsInv
  BY InitPresence, InitSession, InitCodes, InitDeletion, InitPicture
  DEF AccountsInit, AccountsInv

\* What rests keeps its invariant.
LEMMA PartsMove ==
  ASSUME [AccountsNext]_everything
  PROVE  /\ [Online!Next]_(Online!vars)
         /\ [Next]_vars
         /\ [Codes!TFNext]_(Codes!tfVars)
         /\ [Deletion!DelNext]_(Deletion!delVars)
         /\ [Images!PicNext]_(Images!picVars)
         /\ UNCHANGED moving
<1>1. CASE UNCHANGED everything
  BY <1>1 DEF everything, presence, twoFactor, deletion, pictures, Online!vars,
     Online!presenceVars, Codes!tfVars, Deletion!delVars, Images!picVars
<1>2. CASE Online!Next /\ UNCHANGED <<moving, vars, twoFactor, deletion, pictures>>
  BY <1>2 DEF twoFactor, deletion, pictures, Codes!tfVars, Deletion!delVars, Images!picVars
<1>3. CASE Next /\ UNCHANGED <<moving, presence, twoFactor, deletion, pictures>>
  BY <1>3 DEF presence, twoFactor, deletion, pictures, Online!vars,
     Online!presenceVars, Codes!tfVars, Deletion!delVars, Images!picVars
<1>4. CASE Codes!TFNext /\ UNCHANGED <<moving, presence, vars, deletion, pictures>>
  BY <1>4 DEF presence, deletion, pictures, Online!vars,
     Online!presenceVars, Deletion!delVars, Images!picVars
<1>5. CASE Deletion!DelNext /\ UNCHANGED <<moving, presence, vars, twoFactor, pictures>>
  BY <1>5 DEF presence, twoFactor, pictures, Online!vars,
     Online!presenceVars, Codes!tfVars, Images!picVars
<1>6. CASE Images!PicNext /\ UNCHANGED <<moving, presence, vars, twoFactor, deletion>>
  BY <1>6 DEF presence, twoFactor, deletion, Online!vars,
     Online!presenceVars, Codes!tfVars, Deletion!delVars
<1> QED BY <1>1, <1>2, <1>3, <1>4, <1>5, <1>6 DEF AccountsNext

LEMMA NextAccounts == AccountsInv /\ [AccountsNext]_everything => AccountsInv'
<1> SUFFICES ASSUME AccountsInv, [AccountsNext]_everything PROVE AccountsInv'
  OBVIOUS
<1>1. /\ [Online!Next]_(Online!vars)
      /\ [Next]_vars
      /\ [Codes!TFNext]_(Codes!tfVars)
      /\ [Deletion!DelNext]_(Deletion!delVars)
      /\ [Images!PicNext]_(Images!picVars)
      /\ UNCHANGED moving
  BY PartsMove
<1>2. Online!TypeOK' /\ Online!Amended'
  BY <1>1, NextTyped, NextAmended DEF AccountsInv
<1>3. SessionInv'
  BY <1>1, NextSession DEF AccountsInv
<1>4. CodesInv'
  BY <1>1, NextCodes DEF AccountsInv
<1>5. DeletionInv'
  BY <1>1, NextDeletion DEF AccountsInv
<1>6. PictureInv'
  BY <1>1, NextPicture DEF AccountsInv
<1> QED BY <1>1, <1>2, <1>3, <1>4, <1>5, <1>6 DEF AccountsInv

LEMMA AccountsInvariant == AccountsSpec => []AccountsInv
  BY InitAccounts, NextAccounts, PTL DEF AccountsSpec

-----------------------------------------------------------------------------
\* Every part keeps its types, for any number of connections, sockets, tokens, requests,
\* secrets, writes and pictures; in particular a goodbye is in progress exactly while its
\* connection is in on_user_disconnected (ws/handlers.rs).
THEOREM AccountsTyped == AccountsSpec => []AccountsTypeOK
<1>1. AccountsInv => AccountsTypeOK
  BY SessionTypes, PictureTypes DEF AccountsInv, CodesInv, DeletionInv, AccountsTypeOK
<1> QED BY <1>1, AccountsInvariant, PTL

\* ws/handlers.rs: once no task of a user is in progress, isOnline says whether the user is
\* connected, but for the excuses: for any number of connections that come and go in any order.
THEOREM PresenceSettles == AccountsSpec => []OnlineMatches
<1>1. AccountsInv => OnlineMatches
  BY AmendedMatches DEF AccountsInv, OnlineMatches
<1> QED BY <1>1, AccountsInvariant, PTL

\* controllers/auth.rs, ws/registry.rs: a session that was ended has no live token again, what
\* was opened with an old password is not live, and sockets end with their sessions, with the
\* exceptions the parts of SessionsEnd name.
THEOREM SessionsAreEnded == AccountsSpec => []SessionsEnd
<1>1. AccountsInv => SessionsEnd
  BY SessionHolds DEF AccountsInv, SessionsEnd
<1> QED BY <1>1, AccountsInvariant, PTL

\* controllers/auth.rs, utils/auth/step_up.rs: two-factor is on exactly while there is a secret,
\* which its owner has shown, and a backup code that was accepted is not to be had again, but
\* through a write that was based on an older read.
THEOREM TwoFactorIsKept == AccountsSpec => []TwoFactorHolds
<1>1. AccountsInv => TwoFactorHolds
  BY CodesHold DEF AccountsInv
<1> QED BY <1>1, AccountsInvariant, PTL

\* utils/admin/mod.rs: when the user is gone nothing refers to it, however often the purge was
\* stopped, but what was written behind its back or failed without stopping it; and a deletion
\* taken back before a run had it in hand deletes nothing.
THEOREM DeletionLeavesNothing == AccountsSpec => []NothingIsLeft
<1>1. AccountsInv => NothingIsLeft
  BY DeletionHolds DEF AccountsInv
<1> QED BY <1>1, AccountsInvariant, PTL

\* The picture shown has its object, and an object that is not shown goes with the request that
\* replaced it, whichever requests overlap, but for those that failed or met another.
THEOREM PicturesAreKept == AccountsSpec => []PictureKept
<1>1. AccountsInv => PictureKept
  BY PictureHolds DEF AccountsInv
<1> QED BY <1>1, AccountsInvariant, PTL
=================================================================================
