----------------------------- MODULE AccountDeletion -----------------------------
(****************************************************************************)
(* The deletion of one account (utils/admin/mod.rs): asked for and taken back  *)
(* over HTTP (controllers/auth.rs), carried out by a job of main.rs every hour *)
(* and at every start, once the days of grace are over.                       *)
(*                                                                          *)
(* The purge is a row of writes to a dozen collections, the User document      *)
(* last.  It may stop at any of them, by an error or with the process, and a   *)
(* later run starts it anew.  Meanwhile the user, until its tokens are revoked,*)
(* and its friends go on writing: a request that got past its checks finishes. *)
(*                                                                          *)
(* What there is of the account is a set of kinds of records.                 *)
(****************************************************************************)
EXTENDS Integers, Sequences, FiniteSets

CONSTANTS
    MaxWrites,  \* bound: records written
    MaxStops    \* bound: errors and crashes

VARIABLES
    present,    \* the User document is there
    scheduled,  \* deletionScheduledAt: "no", "grace" or "due"
    records,    \* the kinds of records that refer to the account
    signedIn,   \* the account has a refresh token that is live
    writing,    \* the kinds of records requests are about to write
    purge,      \* the step the job is at, 0 while it does not purge the account
    written,    \* how many records were written
    stops,      \* how many times the job was stopped
    late,       \* history: the kinds written when the purge was past them
    skipped,    \* history: the kinds whose deletion failed without stopping the job
    withdrawn,  \* history: the request is taken back, and no run had begun
    purged      \* history: a run that had begun after that deleted something

delVars == <<present, scheduled, records, signedIn, writing, purge, written, stops,
             late, skipped, withdrawn, purged>>

(****************************************************************************)
(* What the purge deletes, in order.  Of a kind in Careless an error is        *)
(* ignored; any other stops the purge, which then is due again.              *)
(****************************************************************************)
Order == <<"files", "tokens", "related", "tips", "messages", "requests", "invites",
           "memberships", "channelContent", "channels", "user">>
Careless == {"files", "tokens", "related", "tips"}
Kind == {Order[i] : i \in DOMAIN Order} \ {"tokens", "user"}

\* Records a friend writes: a direct message, with its file and tip, or the
\* addition to a channel.
OfFriends == {"files", "tips", "messages", "memberships"}

DelTypeOK ==
    /\ present \in BOOLEAN
    /\ scheduled \in {"no", "grace", "due"}
    /\ records \subseteq Kind
    /\ signedIn \in BOOLEAN
    /\ writing \subseteq Kind
    /\ purge \in 0 .. Len(Order)
    /\ written \in 0 .. MaxWrites
    /\ stops \in 0 .. MaxStops
    /\ late \subseteq Kind
    /\ skipped \subseteq Kind
    /\ withdrawn \in BOOLEAN
    /\ purged \in BOOLEAN

\* An account with records of every kind.
DelInit ==
    /\ present = TRUE
    /\ scheduled = "no"
    /\ records = Kind
    /\ signedIn = TRUE
    /\ writing = {}
    /\ purge = 0
    /\ written = 0
    /\ stops = 0
    /\ late = {}
    /\ skipped = {}
    /\ withdrawn = FALSE
    /\ purged = FALSE

-----------------------------------------------------------------------------
user == <<present, signedIn>>
work == <<records, writing, written>>
bounds == <<late, skipped, purged>>

\* request_account_deletion, once sure of the password
RequestDeletion ==
    /\ present
    /\ signedIn
    /\ scheduled = "no"
    /\ scheduled' = "grace"
    /\ withdrawn' = FALSE
    /\ UNCHANGED <<user, work, purge, stops, bounds>>

\* cancel_account_deletion: it does not know whether a run has the account in hand.
CancelDeletion ==
    /\ present
    /\ signedIn
    /\ scheduled # "no"
    /\ scheduled' = "no"
    /\ withdrawn' = (purge = 0)
    /\ UNCHANGED <<user, work, purge, stops, bounds>>

\* The days of grace are over.
GraceEnds ==
    /\ scheduled = "grace"
    /\ scheduled' = "due"
    /\ UNCHANGED <<user, work, purge, stops, bounds, withdrawn>>

\* login: as long as there is an account.
SignIn ==
    /\ present
    /\ signedIn' = TRUE
    /\ UNCHANGED <<present, scheduled, work, purge, stops, bounds, withdrawn>>

\* A request of the user, or a message of a friend, has passed its checks.
BeginWrite(k) ==
    /\ written < MaxWrites
    /\ \/ present /\ signedIn
       \/ k \in OfFriends /\ "requests" \in records
    /\ writing' = writing \union {k}
    /\ written' = written + 1
    /\ UNCHANGED <<user, scheduled, records, purge, stops, bounds, withdrawn>>

\* The purge has deleted the records of the kind k, in the run it is at or in
\* the one that has deleted the user.
Past(k) ==
    \/ ~present
    \/ \E i \in 1 .. purge - 1 : Order[i] = k

\* It writes.
EndWrite(k) ==
    /\ k \in writing
    /\ writing' = writing \ {k}
    /\ records' = records \union {k}
    /\ late' = IF Past(k) THEN late \union {k} ELSE late
    /\ UNCHANGED <<user, scheduled, purge, written, stops, skipped, withdrawn, purged>>

-----------------------------------------------------------------------------

\* Mutant of BeginPurge: an account is tried once.
BeginPurgeOnce ==
    /\ present
    /\ scheduled = "due"
    /\ purge = 0
    /\ stops = 0
    /\ purge' = 1
    /\ late' = {}
    /\ skipped' = {}
    /\ UNCHANGED <<user, scheduled, work, stops, withdrawn, purged>>

\* process_scheduled_deletions lists the accounts that are due, and begins.
BeginPurge ==
    /\ present
    /\ scheduled = "due"
    /\ purge = 0
    /\ purge' = 1
    /\ late' = {}
    /\ skipped' = {}
    /\ UNCHANGED <<user, scheduled, work, stops, withdrawn, purged>>

\* What the present step deletes.
Deletes ==
    /\ records' = records \ {Order[purge]}
    /\ signedIn' = (signedIn /\ Order[purge] \notin {"tokens", "user"})
    /\ present' = (Order[purge] # "user")

\* Mutant of PurgeStep: the user goes first.
PurgeUserFirst ==
    /\ purge > 0
    /\ records' = records \ {Order[purge]}
    /\ signedIn' = FALSE
    /\ present' = FALSE
    /\ purge' = IF purge = Len(Order) THEN 0 ELSE purge + 1
    /\ purged' = (purged \/ withdrawn)
    /\ UNCHANGED <<scheduled, writing, written, stops, late, skipped, withdrawn>>

\* purge_user_completely: one write after the other.
PurgeStep ==
    /\ purge > 0
    /\ Deletes
    /\ purge' = IF purge = Len(Order) THEN 0 ELSE purge + 1
    /\ purged' = (purged \/ withdrawn)
    /\ UNCHANGED <<scheduled, writing, written, stops, late, skipped, withdrawn>>

\* An error.  The run goes on, or gives the account up.
PurgeError ==
    /\ purge > 0
    /\ stops < MaxStops
    /\ stops' = stops + 1
    /\ IF Order[purge] \in Careless
       THEN /\ purge' = purge + 1
            /\ skipped' = skipped \union ({Order[purge]} \intersect Kind)
       ELSE /\ purge' = 0
            /\ UNCHANGED skipped
    /\ UNCHANGED <<user, scheduled, work, late, withdrawn, purged>>

\* The process stops: the job and the requests with it.
Crash ==
    /\ stops < MaxStops
    /\ stops' = stops + 1
    /\ purge' = 0
    /\ writing' = {}
    /\ UNCHANGED <<user, scheduled, records, written, bounds, withdrawn>>

-----------------------------------------------------------------------------
DelNext ==
    \/ RequestDeletion \/ CancelDeletion \/ GraceEnds \/ SignIn
    \/ \E k \in Kind : BeginWrite(k) \/ EndWrite(k)
    \/ BeginPurge \/ PurgeStep \/ PurgeError \/ Crash

DelSpec == DelInit /\ [][DelNext]_delVars

\* The job runs every hour and at every start, and time passes.
DelFairness ==
    /\ WF_delVars(GraceEnds)
    /\ WF_delVars(BeginPurge)
    /\ WF_delVars(PurgeStep)

DelFairSpec == DelSpec /\ DelFairness

-----------------------------------------------------------------------------
\* When the user is gone nothing refers to it, however many runs it took, but
\* what was written behind the back of the last run, and what that run could not
\* delete and did not care.
NothingIsLeft ==
    ~present => records \subseteq late \union skipped

\* A deletion that was taken back before a run had it in hand deletes nothing.
WithdrawnMeansKept == ~purged

\* An account that is to be deleted is, in the end, unless the user takes it back.
DueMeansDeleted == scheduled = "due" ~> ~present \/ scheduled # "due"
=================================================================================
