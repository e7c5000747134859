------------------------------- MODULE MCRelations -------------------------------
(****************************************************************************)
(* Who may do what, side by side: the friendship of two people              *)
(* (Friendship), one list of one of them (OwnLists), what is cached of who  *)
(* may write where (Access), a file from its upload on (Attachments), what  *)
(* a user may store (Quota), how often something may be done (RateLimits),  *)
(* and how many accounts may be opened (Signups).  None writes what another *)
(* reads, so a behaviour moves one of them, and the others rest in their    *)
(* initial states.  The messages that carry the file are interchangeable.   *)
(****************************************************************************)
EXTENDS Attachments, TLC

CONSTANTS
    one, two, pat, quin, Person,
    MaxDocs, MaxHandlers, MaxCalls,
    MaxToggles, AtOnce,
    MaxReaders,
    MaxFiles, MaxBytes, MaxPending, UploadsAtOnce, MaxErrors,
    Caller, Own, Everybody, MaxOwn, MaxAll, Window,
    Guest, Name, MaxHour, MaxDay, Hours, MaxTries, MaxFails

VARIABLES
    moving,  \* which of the parts this behaviour is about
    pair, listed, deciding, calls, agreed, parted, excuses,
    blocked, related, toggle, made, told, crossed,
    place, truth, cache, reader, drops, since, met,
    used, counted, uploads, waiting, message, removal, orphans, rebuild, errors, state,
    way, interval, bucket, caller, ages,
    hour, hourly, daily, users, guest, tries, fails, opened, welcomed, wasted

friendship == <<pair, listed, deciding, calls, agreed, parted, excuses>>
ownList == <<blocked, related, toggle, made, told, crossed>>
cached == <<place, truth, cache, reader, drops, since, met>>
quota == <<used, counted, uploads, waiting, message, removal, orphans, rebuild, errors, state>>
rates == <<way, interval, bucket, caller, ages>>
signups == <<hour, hourly, daily, users, guest, tries, fails, opened, welcomed, wasted>>

Friend == INSTANCE Friendship WITH
    User <- Person, doc <- pair, cached <- listed, handler <- deciding, removed <- parted
Lists == INSTANCE OwnLists WITH Entry <- Person, list <- blocked
Cache == INSTANCE Access
Store == INSTANCE Quota WITH
    AtOnce <- UploadsAtOnce,
    made <- counted, file <- uploads, pending <- waiting, cleaner <- orphans
Rates == INSTANCE RateLimits
Accounts == INSTANCE Signups

Part == {"file", "friends", "lists", "access", "quota", "rates", "signups"}

RelationsInit ==
    /\ moving \in Part
    /\ AttInit
    /\ Friend!FInit
    /\ Lists!OInit
    /\ Cache!AInit
    /\ Store!QInit
    /\ Rates!LInit
    /\ Accounts!SInit
    /\ moving # "file" => file = "sound" /\ scanner /\ verdict = "none"
    /\ moving # "access" => place = "channel" /\ truth["access"]
    /\ moving # "rates" => way = "all"

RelationsNext ==
    /\ UNCHANGED moving
    /\ \/ /\ moving = "file" /\ AttNext
          /\ UNCHANGED <<friendship, ownList, cached, quota, rates, signups>>
       \/ /\ moving = "friends" /\ Friend!FNext
          /\ UNCHANGED <<vars, ownList, cached, quota, rates, signups>>
       \/ /\ moving = "lists" /\ Lists!ONext
          /\ UNCHANGED <<vars, friendship, cached, quota, rates, signups>>
       \/ /\ moving = "access" /\ Cache!ANext
          /\ UNCHANGED <<vars, friendship, ownList, quota, rates, signups>>
       \/ /\ moving = "quota" /\ Store!QNext
          /\ UNCHANGED <<vars, friendship, ownList, cached, rates, signups>>
       \/ /\ moving = "rates" /\ Rates!LNext
          /\ UNCHANGED <<vars, friendship, ownList, cached, quota, signups>>
       \/ /\ moving = "signups" /\ Accounts!SNext
          /\ UNCHANGED <<vars, friendship, ownList, cached, quota, rates>>

everything ==
    <<moving, vars, friendship, ownList, cached, quota, rates, signups>>
RelationsSpec == RelationsInit /\ [][RelationsNext]_everything

\* The friendship is that of two people; the other numbers are whatever the settings say.
ASSUME PersonAssumption == \E u, v \in Person : u # v /\ Person = {u, v}
ASSUME FriendBounds == MaxDocs \in Nat /\ MaxHandlers \in Nat /\ MaxCalls \in Nat
ASSUME ListBounds == MaxToggles \in Nat
ASSUME StoreBounds ==
    /\ MaxFiles \in Nat /\ MaxBytes \in Nat /\ MaxPending \in Nat
    /\ UploadsAtOnce \in Nat \ {0} /\ MaxErrors \in Nat
ASSUME RateBounds ==
    /\ IsFiniteSet(Caller) /\ Everybody \notin Own
    /\ MaxOwn \in Nat \ {0} /\ MaxAll \in Nat \ {0} /\ Window \in Nat \ {0}
ASSUME SignupBounds ==
    /\ IsFiniteSet(Guest) /\ Name # {}
    /\ MaxHour \in Nat /\ MaxDay \in Nat /\ Hours \in Nat \ {0}
    /\ MaxTries \in Nat /\ MaxFails \in Nat

AnyCarrier == Permutations(Letter)

-----------------------------------------------------------------------------
\* The types of the parts, each in the behaviours that move it.
RelationsTypeOK ==
    CASE moving = "file" -> AttTypeOK
      [] moving = "friends" -> Friend!FTypeOK
      [] moving = "lists" -> Lists!OTypeOK
      [] moving = "access" -> Cache!ATypeOK
      [] moving = "quota" -> Store!QTypeOK
      [] moving = "rates" -> Rates!LTypeOK
      [] moving = "signups" -> Accounts!STypeOK

\* Two are friends because both have wanted it, and who was removed is none until they
\* are friends anew.
FriendshipHolds == Friend!FriendsAgreed /\ Friend!RemovedAreStrangers

\* What a cache says of a relation is so, or was so no longer ago than the cache may
\* keep it, or the race is one that the models name.
CachesFollow ==
    /\ Friend!ListsAreCurrent
    /\ Cache!DropsReachAll
    /\ Cache!StaleEnds

\* A message does not wait for ever for the scan of its file, and what it shows as clean
\* is there; and the counter of what a user has stored follows what is stored, which
\* passes the quota by no more than what is uploaded at once.
FilesSettle ==
    /\ PendingIsScanned
    /\ CleanIsThere
    /\ Store!UsageFollows
    /\ Store!QuotaBounds

\* What the client was told of an entry of a list is what the list says.
ToldIsSo == Lists!ToldIsSo

\* A limit is passed by no more than those who ask at once, and refuses nobody for what is
\* longer ago than its window; a name is given once, and every slot of the sign-ups is
\* accounted for.
LimitsKept ==
    /\ Rates!LimitHolds
    /\ Rates!RefusedRightly
    /\ Accounts!OneWelcome
    /\ Accounts!SlotsAccounted
=================================================================================
