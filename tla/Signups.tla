-------------------------------- MODULE Signups ---------------------------------
(****************************************************************************)
(* Signing up (signup in controllers/auth.rs): the name must be free, the slots    *)
(* of the hour and of the day (utils/registration/mod.rs) are taken one after the   *)
(* other, and the account is inserted.  Requests run at once, one operation of the   *)
(* database per step; all the hours are of one day.                             *)
(*                                                                          *)
(* A slot is taken by an update that asks for a count below the limit and may       *)
(* insert.  At the limit it finds nothing and inserts what is there already: the     *)
(* answer is an error and not HourlyLimit or DailyLimit, and the step back that      *)
(* gives the slot of the hour back is not reached.                              *)
(****************************************************************************)
EXTENDS Naturals, FiniteSets

CONSTANTS
    Guest,    \* requests in progress at once
    Name,     \* the names they ask for
    MaxHour,  \* SIGNUP_MAX_GLOBAL_PER_HOUR
    MaxDay,   \* SIGNUP_MAX_GLOBAL_PER_DAY
    Hours,    \* bound: hours
    MaxTries, \* bound: requests
    MaxFails  \* bound: operations of the database that fail

VARIABLES
    hour,     \* the time
    hourly,   \* hour -> the count of its slots
    daily,    \* the count of the day
    users,    \* the names of the accounts
    guest,    \* request -> how far it is, its name, its hour
    tries, fails,
    opened,   \* history: hour -> accounts whose slot is of it
    welcomed, \* history: name -> answers that the account was created
    wasted    \* history: hour -> slots taken for nothing, by the day's limit, a name taken
              \* meanwhile or an error

vars == <<hour, hourly, daily, users, guest, tries, fails, opened, welcomed, wasted>>
history == <<opened, welcomed, wasted>>

Hour == 1 .. Hours
Rest == [at |-> "rest", name |-> CHOOSE n \in Name : TRUE, hour |-> 1]

SInit ==
    /\ hour = 1
    /\ hourly = [h \in Hour |-> 0]
    /\ daily = 0
    /\ users = {}
    /\ guest = [g \in Guest |-> Rest]
    /\ tries = 0
    /\ fails = 0
    /\ opened = [h \in Hour |-> 0]
    /\ welcomed = [n \in Name |-> 0]
    /\ wasted = [h \in Hour |-> 0]

-----------------------------------------------------------------------------
Goes(g, at) == guest' = [guest EXCEPT ![g].at = at] /\ UNCHANGED <<fails, wasted>>
Ends(g) == guest' = [guest EXCEPT ![g] = Rest]
Errs == fails < MaxFails /\ fails' = fails + 1
Wastes(g) == wasted' = [wasted EXCEPT ![guest[g].hour] = @ + 1]

\* The name is free, and the password in no breach that is known.
Ask(g, n) ==
    /\ guest[g] = Rest
    /\ tries < MaxTries
    /\ tries' = tries + 1
    /\ n \notin users
    /\ guest' = [guest EXCEPT ![g] = [Rest EXCEPT !.at = "asked", !.name = n]]
    /\ UNCHANGED <<hour, hourly, daily, users, fails, history>>

\* try_consume_global_signup_slot takes the time;
TakeTime(g) ==
    /\ guest[g].at = "asked"
    /\ guest' = [guest EXCEPT ![g].at = "hour", ![g].hour = hour]
    /\ UNCHANGED <<hour, hourly, daily, users, tries, fails, history>>

\* A mutant of Free: one more than there are.
FreeLate(count, max) == count <= max

\* try_consume_window: its filter
Free(count, max) == count < max

\* takes a slot of that hour, or answers Unavailable;
TakeHour(g) ==
    /\ guest[g].at = "hour"
    /\ LET h == guest[g].hour IN
       \/ Free(hourly[h], MaxHour) /\ hourly' = [hourly EXCEPT ![h] = @ + 1] /\ Goes(g, "day")
       \/ ~Free(hourly[h], MaxHour) /\ Ends(g) /\ UNCHANGED <<hourly, fails, wasted>>
       \/ Errs /\ Ends(g) /\ UNCHANGED <<hourly, wasted>>
    /\ UNCHANGED <<hour, daily, users, tries, opened, welcomed>>

\* takes one of the day, or answers Unavailable: the slot of the hour stays taken.
TakeDay(g) ==
    /\ guest[g].at = "day"
    /\ \/ Free(daily, MaxDay) /\ daily' = daily + 1 /\ Goes(g, "create")
       \/ ~Free(daily, MaxDay) /\ Ends(g) /\ Wastes(g) /\ UNCHANGED <<daily, fails>>
       \/ Errs /\ Ends(g) /\ Wastes(g) /\ UNCHANGED daily
    /\ UNCHANGED <<hour, hourly, users, tries, opened, welcomed>>

\* A mutant of Create: the index on the name is not unique.
CreateAnyway(g) ==
    /\ guest[g].at = "create"
    /\ users' = users \cup {guest[g].name}
    /\ opened' = [opened EXCEPT ![guest[g].hour] = @ + 1]
    /\ welcomed' = [welcomed EXCEPT ![guest[g].name] = @ + 1]
    /\ Ends(g)
    /\ UNCHANGED <<hour, hourly, daily, tries, fails, wasted>>

\* User::create, which only the unique index on the name keeps from making a second
\* account; it fails then, or otherwise, and both slots stay taken.
Create(g) ==
    /\ guest[g].at = "create"
    /\ Ends(g)
    /\ \/ /\ guest[g].name \notin users
          /\ users' = users \cup {guest[g].name}
          /\ opened' = [opened EXCEPT ![guest[g].hour] = @ + 1]
          /\ welcomed' = [welcomed EXCEPT ![guest[g].name] = @ + 1]
          /\ UNCHANGED <<fails, wasted>>
       \/ guest[g].name \in users /\ Wastes(g) /\ UNCHANGED <<users, opened, welcomed, fails>>
       \/ Errs /\ Wastes(g) /\ UNCHANGED <<users, opened, welcomed>>
    /\ UNCHANGED <<hour, hourly, daily, tries>>

NextHour ==
    /\ hour < Hours
    /\ hour' = hour + 1
    /\ UNCHANGED <<hourly, daily, users, guest, tries, fails, history>>

SNext ==
    \/ \E g \in Guest :
        \/ \E n \in Name : Ask(g, n)
        \/ TakeTime(g) \/ TakeHour(g) \/ TakeDay(g) \/ Create(g)
    \/ NextHour

SSpec == SInit /\ [][SNext]_vars

-----------------------------------------------------------------------------
STypeOK ==
    /\ hour \in Hour
    /\ hourly \in [Hour -> Nat] /\ daily \in Nat
    /\ users \subseteq Name
    /\ guest \in [Guest -> [at : {"rest", "asked", "hour", "day", "create"}, name : Name, hour : Hour]]
    /\ tries \in 0 .. MaxTries /\ fails \in 0 .. MaxFails
    /\ opened \in [Hour -> Nat] /\ welcomed \in [Name -> Nat] /\ wasted \in [Hour -> Nat]

\* Of a name there is one account and one answer that it was created, whoever asks at once.
OneWelcome == \A n \in Name : welcomed[n] = IF n \in users THEN 1 ELSE 0

\* Every slot of an hour is an account, a request on its way or one that was wasted;
\* and there are no more of either than the limits say, across the hours and for any
\* order of the requests.
Holding(h) == {g \in Guest : guest[g].at \in {"day", "create"} /\ guest[g].hour = h}
SlotsAccounted ==
    /\ \A h \in Hour :
        /\ hourly[h] = opened[h] + Cardinality(Holding(h)) + wasted[h]
        /\ opened[h] <= MaxHour
    /\ Cardinality(users) <= MaxDay
================================================================================
