------------------------------- MODULE MCAccounts -------------------------------
(****************************************************************************)
(* What concerns one account, side by side: its Presence, its Sessions, its     *)
(* TwoFactor settings, its AccountDeletion and its Pictures.  None writes what  *)
(* another reads, so a behaviour moves one of them, and the others rest in      *)
(* their initial states.                                                      *)
(****************************************************************************)
EXTENDS Sessions

CONSTANTS
    ann, a1, a2,
    User, Conn, Owner, MaxPerUser, MaxFrames, MaxErrors,
    MaxSecrets, MaxTwoFactor,
    MaxWrites, MaxStops,
    MaxPictures, MaxEditors

\* Presence is checked with one user, as users do not meet in it, and two connections,
\* each of which may be the late one.
MCOwner == [c \in Conn |-> ann]

ASSUME AccountsAssumption ==
    /\ Owner \in [Conn -> User]
    /\ MaxPerUser \in Nat \ {0}
    /\ MaxFrames \in Nat
    /\ MaxErrors \in Nat
    /\ MaxSecrets \in Nat
    /\ MaxPictures \in Nat
    /\ MaxWrites \in Nat
    /\ MaxStops \in Nat

VARIABLES
    moving,  \* which of the parts this behaviour is about
    conn, online, greet, bye, frame, frames, errors, excuse,
    settings, asking, made, spent, shown, revived,
    present, scheduled, records, signedIn, writing, purge, written, stops,
    late, skipped, withdrawn, purged,
    owner, picture, stored, editing, uploads, failed, crossed

presence == <<conn, online, greet, bye, frame, frames, errors, excuse>>
twoFactor == <<settings, asking, made, spent, shown, revived>>
deletion == <<present, scheduled, records, signedIn, writing, purge, written, stops,
              late, skipped, withdrawn, purged>>
pictures == <<owner, picture, stored, editing, uploads, failed, crossed>>

Online == INSTANCE Presence
Codes == INSTANCE TwoFactor
Deletion == INSTANCE AccountDeletion
Images == INSTANCE Pictures WITH shown <- picture

AccountsInit ==
    /\ moving \in {"presence", "session", "twoFactor", "deletion", "pictures"}
    /\ Init
    /\ Online!Init
    /\ Codes!TFInit
    /\ Deletion!DelInit
    /\ Images!PicInit
    /\ moving # "pictures" => owner = "profile"

AccountsNext ==
    /\ UNCHANGED moving
    /\ \/ moving = "presence" /\ Online!Next /\ UNCHANGED <<vars, twoFactor, deletion, pictures>>
       \/ moving = "session" /\ Next /\ UNCHANGED <<presence, twoFactor, deletion, pictures>>
       \/ moving = "twoFactor" /\ Codes!TFNext /\ UNCHANGED <<presence, vars, deletion, pictures>>
       \/ moving = "deletion" /\ Deletion!DelNext /\ UNCHANGED <<presence, vars, twoFactor, pictures>>
       \/ moving = "pictures" /\ Images!PicNext /\ UNCHANGED <<presence, vars, twoFactor, deletion>>

everything == <<moving, presence, vars, twoFactor, deletion, pictures>>
AccountsSpec == AccountsInit /\ [][AccountsNext]_everything

\* What rests has no step to take, so its fairness asks nothing.
AccountsFairSpec ==
    AccountsSpec /\ Online!Fairness /\ Fairness /\ Deletion!DelFairness

-----------------------------------------------------------------------------
\* The types of the parts, each in the behaviours that move it.
AccountsTypeOK ==
    CASE moving = "presence" -> Online!TypeOK
      [] moving = "session" -> TypeOK
      [] moving = "twoFactor" -> Codes!TFTypeOK
      [] moving = "deletion" -> Deletion!DelTypeOK
      [] moving = "pictures" -> Images!PicTypeOK

\* Once no task of a user is in progress, isOnline says whether the user is connected.
OnlineMatches == Online!OnlineMatches

\* A user who has gone is shown offline in the end.
GoneGoesOffline == Online!GoneGoesOffline

\* A session that was ended (logout, reuse, revocation) has no live token again, what
\* was opened with an old password is not live, and the sockets of a session end with it.
SessionsEnd ==
    /\ EndedStaysEnded
    /\ OldPasswordOpensNothing
    /\ SocketsEndWithSessions

\* The secret of two-factor authentication in force is one its owner has shown,
\* and a backup code is spent once.
TwoFactorHolds == Codes!SecretWasShown /\ Codes!SpentCodesAreGone

\* Nothing refers to an account that is deleted; one whose deletion was taken
\* back in time is left whole.
NothingIsLeft == Deletion!NothingIsLeft /\ Deletion!WithdrawnMeansKept

\* A deletion that is due is carried out, however often it is stopped.
DueMeansDeleted == Deletion!DueMeansDeleted

\* The picture shown exists, and nothing but it is stored.
PictureKept == Images!ShownExists /\ Images!NothingLeaks
=================================================================================
