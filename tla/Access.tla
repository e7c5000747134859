--------------------------------- MODULE Access ---------------------------------
(****************************************************************************)
(* May this user write here?  The answer is cached twice: the relations the     *)
(* answer rests on (utils/access/cache.rs for a channel, utils/friends/cache.rs  *)
(* for a direct conversation), and, above them, the answer itself for frames     *)
(* that tell of typing (ws/typing.rs).  Whoever changes a relation writes the     *)
(* database and then drops the caches one by one, while readers fill them.       *)
(*                                                                          *)
(* Time passes in ticks of 15 seconds.  A reader or a writer takes less.         *)
(****************************************************************************)
EXTENDS Naturals, Sequences, FiniteSets

CONSTANT MaxReaders  \* bound: frames in progress at once

VARIABLES
    place,   \* where: "channel" or "dm"
    truth,   \* relation -> does it permit to write?  In the database
    cache,   \* relation, or "typing" -> what is cached and for how long it has been
    reader,  \* the frames in progress
    drops,   \* the caches that a change has still to drop
    since,   \* relation -> ticks since it was changed, up to Forever
    met      \* history: a frame was in progress during a change of the last Forever ticks

vars == <<place, truth, cache, reader, drops, since, met>>

Reader == 1 .. MaxReaders
Relation == {"access", "friends", "blocks"}
Verdict == {"yes", "no"}
Of(b) == IF b THEN "yes" ELSE "no"

\* What require_channel_access and require_dm_access ask, in this order.
Asked == IF place = "channel" THEN <<"access">> ELSE <<"friends", "blocks">>

\* For how many ticks an entry is believed: ALLOW_TTL_MS, DENY_TTL_MS (less than a tick),
\* FRIEND_IDS_TTL_MS, BLOCK_PAIR_TTL_MS.
Ttl(c, verdict) ==
    CASE c = "typing" -> IF verdict = "yes" THEN 3 ELSE 0
      [] c = "access" -> IF verdict = "yes" THEN 2 ELSE 0
      [] c = "friends" -> 2
      [] c = "blocks" -> 1

Forever == 7
Empty == [says |-> "none", age |-> 0]
Rest == [op |-> "none", asking |-> 0, loaded |-> "none", answer |-> "yes"]

AInit ==
    /\ place \in {"channel", "dm"}
    /\ truth \in [Relation -> BOOLEAN]
    /\ \A r \in Relation : (\A i \in 1 .. Len(Asked) : Asked[i] # r) => truth[r]
    /\ cache = [c \in Relation \union {"typing"} |-> Empty]
    /\ reader = [r \in Reader |-> Rest]
    /\ drops = <<>>
    /\ since = [r \in Relation |-> Forever]
    /\ met = FALSE

-----------------------------------------------------------------------------
Put(c, verdict) == cache' = [cache EXCEPT ![c] = [says |-> verdict, age |-> 0]]
Reads(r, new) ==
    /\ reader' = [reader EXCEPT ![r] = new]
    /\ met' = (met \/ drops # <<>>)

\* The answer of the relation that is asked now is in; on to the next.
With(r, verdict) ==
    [reader[r] EXCEPT !.asking = @ + 1, !.loaded = "none",
                      !.answer = IF verdict = "no" THEN "no" ELSE @]

\* A message frame asks the relations, a typing frame only where its own cache is empty.
Ask(r, op) ==
    /\ reader[r].op = "none"
    /\ op = "typing" => cache["typing"].says = "none"
    /\ Reads(r, [Rest EXCEPT !.op = op, !.asking = 1])
    /\ UNCHANGED <<place, truth, cache, drops, since>>

Asks(r, c) ==
    /\ reader[r].asking \in 1 .. Len(Asked)
    /\ c = Asked[reader[r].asking]

\* A mutant of Hit: an entry that is used is young again.
HitRenews(r, c) ==
    /\ Asks(r, c)
    /\ reader[r].loaded = "none"
    /\ cache[c].says # "none"
    /\ Reads(r, With(r, cache[c].says))
    /\ Put(c, cache[c].says)
    /\ UNCHANGED <<place, truth, drops, since>>

\* The cache has it.
Hit(r, c) ==
    /\ Asks(r, c)
    /\ reader[r].loaded = "none"
    /\ cache[c].says # "none"
    /\ Reads(r, With(r, cache[c].says))
    /\ UNCHANGED <<place, truth, cache, drops, since>>

\* The database is asked;
Load(r, c) ==
    /\ Asks(r, c)
    /\ reader[r].loaded = "none"
    /\ cache[c].says = "none"
    /\ Reads(r, [reader[r] EXCEPT !.loaded = Of(truth[c])])
    /\ UNCHANGED <<place, truth, cache, drops, since>>

\* its answer is put in the cache.
Fill(r, c) ==
    /\ Asks(r, c)
    /\ reader[r].loaded # "none"
    /\ Put(c, reader[r].loaded)
    /\ Reads(r, With(r, reader[r].loaded))
    /\ UNCHANGED <<place, truth, drops, since>>

\* The database does not answer: Unavailable is not cached.
LoadFails(r, c) ==
    /\ Asks(r, c)
    /\ reader[r].loaded = "none"
    /\ cache[c].says = "none"
    /\ Reads(r, Rest)
    /\ UNCHANGED <<place, truth, cache, drops, since>>

\* A typing frame puts the answer in the cache of its own.
Answer(r) ==
    /\ reader[r].asking > Len(Asked)
    /\ IF reader[r].op = "typing" THEN Put("typing", reader[r].answer) ELSE UNCHANGED cache
    /\ Reads(r, Rest)
    /\ UNCHANGED <<place, truth, drops, since>>

-----------------------------------------------------------------------------
\* A relation is changed in the database: a kick, a ban, a mute, a block, an end of a
\* friendship, or its opposite.  A channel drops the typing cache first and the relation
\* after it, a direct conversation the other way round.
Change(c) ==
    /\ drops = <<>>
    /\ \E i \in 1 .. Len(Asked) : Asked[i] = c
    /\ truth' = [truth EXCEPT ![c] = ~@]
    /\ drops' = CASE c = "access" -> <<"typing", "access">>
                  [] c = "friends" -> <<"friends", "typing">>
                  [] c = "blocks" -> <<"friends", "blocks", "typing">>
    /\ since' = [since EXCEPT ![c] = 0]
    /\ met' = (met \/ \E r \in Reader : reader[r].op # "none")
    /\ UNCHANGED <<place, cache, reader>>

\* A mutant of DropNext: only the first cache is dropped.
DropFirst ==
    /\ drops # <<>>
    /\ cache' = [cache EXCEPT ![Head(drops)] = Empty]
    /\ drops' = <<>>
    /\ UNCHANGED <<place, truth, reader, since, met>>

DropNext ==
    /\ drops # <<>>
    /\ cache' = [cache EXCEPT ![Head(drops)] = Empty]
    /\ drops' = Tail(drops)
    /\ UNCHANGED <<place, truth, reader, since, met>>

\* The user's last connection has gone: clear_user.  The list of friends stays.
Clear ==
    /\ cache' = [c \in DOMAIN cache |-> IF c = "friends" THEN cache[c] ELSE Empty]
    /\ UNCHANGED <<place, truth, reader, drops, since, met>>

\* 15 seconds pass; an entry that is older than its time is not believed any more.
Older(e, c) ==
    IF e.says = "none" \/ e.age = Ttl(c, e.says) THEN Empty ELSE [e EXCEPT !.age = @ + 1]

Tick ==
    /\ drops = <<>>
    /\ \A r \in Reader : reader[r].op = "none"
    /\ cache' = [c \in DOMAIN cache |-> Older(cache[c], c)]
    /\ since' = [c \in Relation |-> IF since[c] = Forever THEN Forever ELSE since[c] + 1]
    /\ met' = (met /\ \E c \in Relation : since'[c] # Forever)
    /\ UNCHANGED <<place, truth, reader, drops>>

ANext ==
    \/ \E r \in Reader :
        \/ \E op \in {"message", "typing"} : Ask(r, op)
        \/ \E c \in Relation : Hit(r, c) \/ Load(r, c) \/ Fill(r, c) \/ LoadFails(r, c)
        \/ Answer(r)
    \/ \E c \in Relation : Change(c)
    \/ DropNext
    \/ Clear
    \/ Tick

ASpec == AInit /\ [][ANext]_vars

-----------------------------------------------------------------------------
ATypeOK ==
    /\ place \in {"channel", "dm"}
    /\ truth \in [Relation -> BOOLEAN]
    /\ \A c \in Relation \union {"typing"} :
        \/ cache[c] = Empty
        \/ cache[c].says \in Verdict /\ cache[c].age \in 0 .. Ttl(c, cache[c].says)
    /\ reader \in [Reader -> [op : {"none", "message", "typing"}, asking : 0 .. 3,
                              loaded : Verdict \union {"none"}, answer : Verdict]]
    /\ Len(drops) <= 3
    /\ since \in [Relation -> 0 .. Forever]
    /\ met \in BOOLEAN

May == Of(\A r \in Relation : truth[r])
Wrong(c) == cache[c].says # "none" /\ cache[c].says # (IF c = "typing" THEN May ELSE Of(truth[c]))

\* A change that no frame met has left nothing wrong in any cache.
DropsReachAll == drops = <<>> /\ ~met => \A c \in DOMAIN cache : ~Wrong(c)

\* However frames and changes meet, what is wrong in a cache is gone when its time, and
\* for typing the time of the relation it was taken from before, is over: whoever is
\* kicked or blocked does not go on.
Longest == IF place = "channel" THEN Ttl("access", "yes") ELSE Ttl("friends", "yes")
Changed(c, ticks) == since[c] <= ticks

StaleEnds ==
    \A c \in DOMAIN cache : Wrong(c) =>
        IF c = "typing"
        THEN \E r \in Relation : Changed(r, Ttl(c, cache[c].says) + Longest)
        ELSE Changed(c, Ttl(c, cache[c].says))
=================================================================================
