------------------------------- MODULE RateLimits -------------------------------
(****************************************************************************)
(* How often something may be done: the counters of utils/ratelimit/mod.rs, of    *)
(* its slowmode.rs, and of check_rate_limit (ws/state.rs).  A counter belongs to a  *)
(* key (an address, a user, a member of a channel, or everybody), and lives for a   *)
(* window from its first count on.  What differs is when it is asked and when it    *)
(* is moved, and a behaviour is about one of these ways:                         *)
(*   "all"       limit_all asks and counts before the request, under two locks;     *)
(*   "total"     try_ip_then_total does so for the address and then for everybody,   *)
(*               upload_limiter for the address and then for the user;              *)
(*   "failures"  limit_failures asks before the request and counts after it, if it   *)
(*               has failed;                                                  *)
(*   "slow"      slow mode asks before a message is stored and counts after it; the  *)
(*               messages of one member follow each other in the queue of UserFifo,   *)
(*               and the channel's interval, their window, may be changed;         *)
(*   "frame"     check_rate_limit asks and counts frames under one lock.            *)
(* Everything lasts whole ticks.                                              *)
(****************************************************************************)
EXTENDS Naturals, FiniteSets

CONSTANTS
    Caller,    \* requests in progress at once
    Own,       \* the keys of addresses, or of users
    Everybody, \* the key of the total
    MaxOwn,    \* what one of the first may do in a window
    MaxAll,    \* what all may do together
    Window     \* the window, and the longest interval of slow mode

VARIABLES
    way,      \* the way of counting this behaviour is about
    interval, \* the interval of slow mode in force
    bucket,   \* key -> its count, and the ticks for which it is still to live
    caller,   \* caller -> its key, and how far it is
    ages      \* history: key -> n -> how many ticks ago it was counted for the n-th last time,
              \* up to the limit; a window, if that is longer ago or never was

vars == <<way, interval, bucket, caller, ages>>

Key == Own \cup {Everybody}
Way == {"all", "total", "failures", "slow", "frame"}
Limit(k) == IF way = "slow" THEN 1 ELSE IF k = Everybody THEN MaxAll ELSE MaxOwn

\* An expired counter is as good as none, to is_over_limit as to increment.
None == [count |-> 0, left |-> 0]
Rest == [at |-> "rest", key |-> Everybody]

LInit ==
    /\ way \in Way
    /\ interval = Window
    /\ bucket = [k \in Key |-> None]
    /\ caller = [c \in Caller |-> Rest]
    /\ ages = [k \in Key |-> [n \in 1 .. Limit(k) |-> Window]]

-----------------------------------------------------------------------------
\* is_over_limit, would_block_with_window
Full(k) == bucket[k].count >= Limit(k)

\* A mutant of Counted: whoever counts makes the window start again.
CountedAfresh(b) == [count |-> b.count + 1, left |-> interval]

\* increment_with_window: into the counter that lives, or into a new one.
Counted(b) ==
    IF b.left > 0 THEN [b EXCEPT !.count = @ + 1] ELSE [count |-> 1, left |-> interval]

Count(k) ==
    /\ bucket' = [bucket EXCEPT ![k] = Counted(bucket[k])]
    /\ ages' = [ages EXCEPT ![k] = [n \in 1 .. Limit(k) |-> IF n = 1 THEN 0 ELSE ages[k][n - 1]]]

Stays == UNCHANGED <<bucket, ages>>
Goes(c, at, k) ==
    /\ caller' = [caller EXCEPT ![c] = [at |-> at, key |-> k]]
    /\ UNCHANGED <<way, interval>>
Ends(c) == caller' = [caller EXCEPT ![c] = Rest] /\ UNCHANGED <<way, interval>>

Serial == way = "slow"
Alone(k) == \A c \in Caller : caller[c].at # "rest" => caller[c].key # k

\* A mutant of Ask: one more than may pass passes.
AskLate(c, k) ==
    /\ caller[c] = Rest /\ way # "frame"
    /\ bucket[k].count <= Limit(k)
    /\ Goes(c, "passed", k)
    /\ Stays

\* A request comes in and is let through; one that is refused changes nothing.
Ask(c, k) ==
    /\ caller[c] = Rest /\ way # "frame"
    /\ Serial => Alone(k)
    /\ ~Full(k)
    /\ Goes(c, "passed", k)
    /\ Stays

\* It is counted at once; with "total" everybody's counter is asked next.
CountAtOnce(c) ==
    /\ caller[c].at = "passed"
    /\ \/ way = "all" /\ Ends(c)
       \/ way = "total" /\ Goes(c, "counted", caller[c].key)
    /\ Count(caller[c].key)

\* What everybody's counter refuses has been counted for the address.
AskAll(c) ==
    /\ caller[c].at = "counted"
    /\ IF Full(Everybody) THEN Ends(c) ELSE Goes(c, "through", caller[c].key)
    /\ Stays

CountAll(c) ==
    /\ caller[c].at = "through"
    /\ Count(Everybody)
    /\ Ends(c)

\* A request that has failed, or a message that was stored, is counted when that is over;
\* one that went well, or a send that only repeats one, is not.
CountAfter(c) ==
    /\ way \in {"failures", "slow"}
    /\ caller[c].at = "passed"
    /\ Count(caller[c].key) \/ Stays
    /\ Ends(c)

\* check_rate_limit
Frame(k) ==
    /\ way = "frame"
    /\ ~Full(k)
    /\ Count(k)
    /\ UNCHANGED <<way, interval, caller>>

\* clear_user_state: with the user's last connection the counters go.
Leave(k) ==
    /\ way = "frame"
    /\ bucket' = [bucket EXCEPT ![k] = None]
    /\ UNCHANGED <<way, interval, caller, ages>>

\* evict_expired_and_cap: above MAX_STORE_BUCKETS the counters that have least time left go.
Evict(k) ==
    /\ way # "frame"
    /\ bucket[k].left > 0
    /\ bucket' = [bucket EXCEPT ![k] = None]
    /\ UNCHANGED <<way, interval, caller, ages>>

\* The channel's interval is changed; a counter that lives keeps its time.
SetInterval ==
    /\ way = "slow"
    /\ interval' \in 1 .. Window
    /\ UNCHANGED <<way, bucket, caller, ages>>

Tick ==
    /\ bucket' = [k \in Key |-> IF bucket[k].left <= 1 THEN None ELSE [bucket[k] EXCEPT !.left = @ - 1]]
    /\ ages' = [k \in Key |-> [n \in 1 .. Limit(k) |->
          IF ages[k][n] < Window THEN ages[k][n] + 1 ELSE Window]]
    /\ UNCHANGED <<way, interval, caller>>

LNext ==
    \/ \E c \in Caller :
        \/ \E k \in Own : Ask(c, k)
        \/ CountAtOnce(c) \/ AskAll(c) \/ CountAll(c) \/ CountAfter(c)
    \/ \E k \in Own : Frame(k) \/ Leave(k)
    \/ \E k \in Key : Evict(k)
    \/ SetInterval
    \/ Tick

LSpec == LInit /\ [][LNext]_vars

-----------------------------------------------------------------------------
Crowd == Cardinality(Caller)

LTypeOK ==
    /\ way \in Way
    /\ interval \in 1 .. Window
    /\ bucket \in [Key -> [count : Nat, left : 0 .. Window]]
    /\ caller \in [Caller -> [at : {"rest", "passed", "counted", "through"}, key : Key]]
    /\ DOMAIN ages = Key /\ \A k \in Key : ages[k] \in [1 .. Limit(k) -> 0 .. Window]

\* Those who are past the question and not yet counted.
About(k) ==
    Cardinality({c \in Caller :
        IF k = Everybody THEN caller[c].at = "through"
                         ELSE caller[c].at = "passed" /\ caller[c].key = k})

\* The question and the count are two steps: a limit is passed by no more than those who
\* ask at once.  Where they follow each other, as in slow mode, or are one step, it holds.
LimitHolds ==
    \A k \in Key :
        bucket[k].count + About(k) <=
            Limit(k) + IF way \in {"slow", "frame"} THEN 0 ELSE Crowd - 1

\* Nobody is refused for what lies further back than a window: as many as the limit have
\* been counted within the last one, however late the counts came and whatever was
\* evicted.
RefusedRightly == \A k \in Key : Full(k) => ages[k][Limit(k)] < Window
================================================================================
