-------------------------------- MODULE UserFifo --------------------------------
(****************************************************************************)
(* The job queues of a user (ws/state.rs): the frames of all connections of  *)
(* a user go, by kind, through a chat, an ack and a call queue, which are    *)
(* three copies of the code modelled here.  A queue is a bounded channel     *)
(* with a worker; the map of a kind has a slot, the channel's only sender,   *)
(* for every user who has one.  Any user's enqueue first collects the slots  *)
(* of users who have been gone for a while, and a worker whose slot is gone   *)
(* drains its channel and ends.                                             *)
(*                                                                          *)
(* FifoSlot.alive turns FALSE only when a worker has drained a channel whose *)
(* slot is gone, so no slot in the map ever shows it: it has no variable.    *)
(****************************************************************************)
EXTENDS Naturals, Sequences, FiniteSets

CONSTANTS
    User,
    Cap,        \* CHAT_FIFO_CAP, ACK_FIFO_CAP or CALL_FIFO_CAP
    MaxJobs,    \* bound: jobs of a user that are accepted
    MaxPanics   \* bound: jobs that panic

ASSUME FifoAssumption == Cap \in Nat \ {0} /\ MaxJobs \in Nat /\ MaxPanics \in Nat

\* The jobs of a user, numbered as they are accepted.  A channel and its worker
\* go by the number of the first job sent on it.
Job == 1..MaxJobs
None == 0

VARIABLES
    up,        \* the user has a connection
    idle,      \* the slot was last used FIFO_IDLE_GC_MS ago or longer
    slot,      \* the channel in the map, or None
    queue,     \* what a channel holds
    hand,      \* the job a worker has received and not finished, or None
    busy,      \* FifoSlot.busy of a channel
    dead,      \* channels whose worker was killed by a panic
    accepted,  \* how many jobs have been accepted
    started,   \* history: the jobs that have begun to run
    lost,      \* history: the jobs dropped with a channel whose worker died
    panics,    \* how many jobs have panicked
    exposed    \* history: users who were at some time as in Exposed

channels == <<queue, hand, busy, dead>>
history == <<started, lost>>
vars == <<up, idle, slot, channels, accepted, history, panics, exposed>>

Queued(u, l) == {queue[u][l][i] : i \in DOMAIN queue[u][l]}

TypeOK ==
    /\ up \in [User -> BOOLEAN]
    /\ idle \in [User -> BOOLEAN]
    /\ slot \in [User -> Job \cup {None}]
    /\ queue \in [User -> [Job -> Seq(Job)]]
    /\ hand \in [User -> [Job -> Job \cup {None}]]
    /\ busy \in [User -> [Job -> BOOLEAN]]
    /\ dead \in [User -> SUBSET Job]
    /\ accepted \in [User -> 0..MaxJobs]
    /\ started \in [User -> SUBSET Job]
    /\ lost \in [User -> SUBSET Job]
    /\ panics \in 0..MaxPanics
    /\ exposed \in [User -> BOOLEAN]
    /\ \A u \in User, l \in Job : Len(queue[u][l]) <= Cap

Init ==
    /\ up = [u \in User |-> FALSE]
    /\ idle = [u \in User |-> FALSE]
    /\ slot = [u \in User |-> None]
    /\ queue = [u \in User |-> [l \in Job |-> <<>>]]
    /\ hand = [u \in User |-> [l \in Job |-> None]]
    /\ busy = [u \in User |-> [l \in Job |-> FALSE]]
    /\ dead = [u \in User |-> {}]
    /\ accepted = [u \in User |-> 0]
    /\ started = [u \in User |-> {}]
    /\ lost = [u \in User |-> {}]
    /\ panics = 0
    /\ exposed = [u \in User |-> FALSE]

-----------------------------------------------------------------------------
HasWork(u, l) == hand[u][l] # None \/ queue[u][l] # <<>>

\* A user gone for a minute whose worker is between two jobs: busy is stored
\* after recv has returned a job and cleared when it is done.
Exposed(u) ==
    /\ ~up[u] /\ idle[u] /\ slot[u] # None
    /\ ~busy[u][slot[u]] /\ HasWork(u, slot[u])

Watch == exposed' = [u \in User |-> exposed[u] \/ Exposed(u)']

-----------------------------------------------------------------------------
Connect(u) ==
    /\ ~up[u]
    /\ up' = [up EXCEPT ![u] = TRUE]
    /\ UNCHANGED <<idle, slot, channels, accepted, history, panics, exposed>>

\* The last connection ends.
Disconnect(u) ==
    /\ up[u]
    /\ up' = [up EXCEPT ![u] = FALSE]
    /\ UNCHANGED <<idle, slot, channels, accepted, history, panics>>
    /\ Watch

\* FIFO_IDLE_GC_MS go by after the last enqueue.  A worker that has a step to
\* take does not wait that long for it: only a job does.
MinutePasses(u) ==
    /\ slot[u] # None /\ ~idle[u]
    /\ busy[u][slot[u]] \/ ~HasWork(u, slot[u])
    /\ idle' = [idle EXCEPT ![u] = TRUE]
    /\ UNCHANGED <<up, slot, channels, accepted, history, panics>>
    /\ Watch

-----------------------------------------------------------------------------
\* Mutant of Kept: the worker is not asked whether it is in a job.
KeptIfHere(u) == up[u] \/ ~idle[u]

\* gc_fifo_map: which slots stay.
Kept(u) == busy[u][slot[u]] \/ up[u] \/ ~idle[u]

Collected == [u \in User |-> IF slot[u] # None /\ Kept(u) THEN slot[u] ELSE None]

\* Mutant of Serving: nobody asks whether the worker is there.
ServingAny(u, l) == l # None

\* A channel that is open: the worker, its only receiver, has not died.
Serving(u, l) == l # None /\ l \notin dead[u]

\* Mutant of Full: one too late.
FullLate(u, l) == Len(queue[u][l]) > Cap

Full(u, l) == Len(queue[u][l]) >= Cap

(****************************************************************************)
(* fifo_enqueue, from the loop of one of the user's connections.  The map is *)
(* locked throughout: collect, then find the slot, then try_send.            *)
(****************************************************************************)
Enqueue(u) ==
    /\ up[u]
    /\ accepted[u] < MaxJobs
    /\ idle' = [v \in User |-> v # u /\ Collected[v] # None /\ idle[v]]
    /\ UNCHANGED <<up, hand, busy, dead, history, panics, exposed>>

\* TrySendError::Full: the frame is refused.
Refuse(u) ==
    /\ Enqueue(u)
    /\ Serving(u, Collected[u]) /\ Full(u, Collected[u])
    /\ slot' = Collected
    /\ UNCHANGED <<queue, accepted>>

Send(u) ==
    /\ Enqueue(u)
    /\ Serving(u, Collected[u]) /\ ~Full(u, Collected[u])
    /\ slot' = Collected
    /\ accepted' = [accepted EXCEPT ![u] = @ + 1]
    /\ queue' = [queue EXCEPT ![u][Collected[u]] = Append(@, accepted[u] + 1)]

\* Mutant of Spawn: the job that found the channel closed is not sent again.
SpawnWithout(u) ==
    /\ Enqueue(u)
    /\ ~Serving(u, Collected[u])
    /\ slot' = [Collected EXCEPT ![u] = accepted[u] + 1]
    /\ accepted' = [accepted EXCEPT ![u] = @ + 1]
    /\ queue' = [queue EXCEPT ![u][accepted[u] + 1] =
           IF slot[u] = None THEN <<accepted[u] + 1>> ELSE <<>>]

\* No slot, or TrySendError::Closed: a new channel and worker, with the job.
Spawn(u) ==
    /\ Enqueue(u)
    /\ ~Serving(u, Collected[u])
    /\ slot' = [Collected EXCEPT ![u] = accepted[u] + 1]
    /\ accepted' = [accepted EXCEPT ![u] = @ + 1]
    /\ queue' = [queue EXCEPT ![u][accepted[u] + 1] = <<accepted[u] + 1>>]

-----------------------------------------------------------------------------
\* The worker: rx.recv() returns a job,
Receive(u, l) ==
    /\ hand[u][l] = None /\ l \notin dead[u] /\ queue[u][l] # <<>>
    /\ hand' = [hand EXCEPT ![u][l] = Head(queue[u][l])]
    /\ queue' = [queue EXCEPT ![u][l] = Tail(@)]
    /\ UNCHANGED <<up, idle, slot, busy, dead, accepted, history, panics, exposed>>

\* it stores busy and runs the job,
Begin(u, l) ==
    /\ hand[u][l] # None /\ ~busy[u][l]
    /\ busy' = [busy EXCEPT ![u][l] = TRUE]
    /\ started' = [started EXCEPT ![u] = @ \cup {hand[u][l]}]
    /\ UNCHANGED <<up, idle, slot, queue, hand, dead, accepted, lost, panics, exposed>>

\* and clears busy,
Finish(u, l) ==
    /\ hand[u][l] # None /\ busy[u][l]
    /\ busy' = [busy EXCEPT ![u][l] = FALSE]
    /\ hand' = [hand EXCEPT ![u][l] = None]
    /\ UNCHANGED <<up, idle, slot, queue, dead, accepted, history, panics>>
    /\ Watch

\* or is killed by a panic of the job: the receiver is dropped, with what the
\* channel holds, and busy stays.
Panic(u, l) ==
    /\ hand[u][l] # None /\ busy[u][l]
    /\ panics < MaxPanics
    /\ panics' = panics + 1
    /\ hand' = [hand EXCEPT ![u][l] = None]
    /\ dead' = [dead EXCEPT ![u] = @ \cup {l}]
    /\ lost' = [lost EXCEPT ![u] = @ \cup Queued(u, l)]
    /\ queue' = [queue EXCEPT ![u][l] = <<>>]
    /\ UNCHANGED <<up, idle, slot, busy, accepted, started, exposed>>

Worker(u, l) == Receive(u, l) \/ Begin(u, l) \/ Finish(u, l) \/ Panic(u, l)

-----------------------------------------------------------------------------
Next ==
    \/ \E u \in User : \/ Connect(u) \/ Disconnect(u) \/ MinutePasses(u)
                       \/ Refuse(u) \/ Send(u) \/ Spawn(u)
    \/ \E u \in User, l \in Job : Worker(u, l)

Spec == Init /\ [][Next]_vars

\* Workers are scheduled and jobs come to an end, one way or the other.
Fairness == \A u \in User, l \in Job : WF_vars(Worker(u, l))

FairSpec == Spec /\ Fairness

-----------------------------------------------------------------------------
(****************************************************************************)
(* Properties.                                                              *)
(****************************************************************************)
Running(u) == {l \in Job : hand[u][l] # None /\ busy[u][l]}

\* Accepted jobs that have not begun.
Pending(u) ==
    (UNION {Queued(u, l) : l \in Job})
    \cup {hand[u][l] : l \in {k \in Job : hand[u][k] # None /\ ~busy[u][k]}}

\* A user's jobs run one at a time and in the order they were accepted, across
\* reconnections, panics and collections: no job is overtaken by a later one.
\* But for a user who was gone for a minute while its worker was between two
\* jobs, whose slot may have been collected with a backlog.
InOrder ==
    \A u \in User : ~exposed[u] =>
        /\ \A k, l \in Running(u) : k = l
        /\ \A i \in Pending(u), j \in started[u] : j < i

\* A job that was accepted is waiting, or has begun, or was dropped by a panic
\* of an earlier job of its channel; and it begins once at most.
Accounted ==
    \A u \in User :
        /\ 1..accepted[u] = Pending(u) \cup started[u] \cup lost[u]
        /\ Pending(u) \cap started[u] = {}
        /\ lost[u] \cap (Pending(u) \cup started[u]) = {}
        /\ lost[u] # {} => dead[u] # {}

\* state.rs:4: "jeden worker, nie dropuj sendera mid-job" (one worker, do not
\* drop the sender in the middle of a job).
OneWorker == \A u \in User, k, l \in Job : HasWork(u, k) /\ HasWork(u, l) => k = l

\* Every accepted job is run, or dropped by a panic: in particular the death of
\* a worker does not stop the user's queue.
EveryJobRuns ==
    \A u \in User, j \in Job : j <= accepted[u] ~> j \in started[u] \cup lost[u]
================================================================================
