------------------------------ MODULE Attachments -------------------------------
(****************************************************************************)
(* One attachment, from its upload to its end: the object in the store          *)
(* (utils/storage/r2.rs), its pending_uploads document (model/uploads.rs), the   *)
(* messages that point at it, and the scanner (utils/scan/worker.rs) that moves   *)
(* it from quarantine to where everybody may read it.  Besides the scanner,      *)
(* three tasks remove objects: the deletion of a message                        *)
(* (cleanup_attachment_if_unreferenced), the cleanup of uploads never sent, and  *)
(* the daily reconcile_attachments.                                           *)
(*                                                                          *)
(* A task takes one operation of the database or of the store per step.  The     *)
(* quota and its counter (user_storage_usage) are left out, and so is the        *)
(* thumbnail, which goes where its image goes.                                 *)
(****************************************************************************)
EXTENDS Naturals, Sequences, FiniteSets

CONSTANTS
    Letter,      \* the messages that may carry the attachment
    MaxAttempts, \* MAX_SCAN_ATTEMPTS
    MaxSlips     \* bound: operations that fail, and restarts of the server

ASSUME AttAssumption == MaxAttempts \in Nat /\ MaxSlips \in Nat

VARIABLES
    file,     \* what the bytes are: sound, infected, other than their hash says
    scanner,  \* is CLAMAV_HOST set?
    verdict,  \* attachment_scan_cache, for the hash of these bytes
    object,   \* where the object is: in quarantine, public
    upload,   \* upload_file
    pending,  \* the scan status in the pending_uploads document
    msg,      \* message -> is it there, its scan status, does it point at the file?
    sending,  \* message -> how far its send is
    jobs,     \* the queue of the scanner, and the retries that wait to be in it
    scan,     \* the job the worker is at
    erasing,  \* message -> how far the cleanup after its deletion is
    cleaner,  \* cleanup_orphans
    sweep,    \* reconcile_attachments
    slips,
    forgone,  \* history: the scanner has given up, or a requeue at the start failed
    collided, \* history: the object went with its document, or while that or a send stood
    blind     \* history: the sweep took a read that failed for one that found nothing

vars == <<file, scanner, verdict, object, upload, pending, msg, sending, jobs, scan,
          erasing, cleaner, sweep, slips, forgone, collided, blind>>
fixed == <<file, scanner>>
tasks == <<erasing, cleaner, sweep>>
history == <<slips, forgone, collided, blind>>

NoMsg == [is |-> "none", status |-> "pending", url |-> FALSE]
NoScan == [at |-> "idle", hash |-> FALSE, attempts |-> 0, says |-> "none"]
Job(hash, attempts) == [hash |-> hash, attempts |-> attempts]

AttInit ==
    /\ file \in {"sound", "infected", "altered"}
    /\ scanner \in BOOLEAN
    /\ verdict \in {"none", IF file = "infected" THEN "blocked" ELSE "clean"}
    /\ object = {}
    /\ upload = "none"
    /\ pending = "none"
    /\ msg = [m \in Letter |-> NoMsg]
    /\ sending = [m \in Letter |-> "none"]
    /\ jobs = <<>>
    /\ scan = NoScan
    /\ erasing = [m \in Letter |-> "none"]
    /\ cleaner = "rests"
    /\ sweep = "rests"
    /\ slips = 0
    /\ forgone = FALSE
    /\ collided = FALSE
    /\ blind = FALSE

-----------------------------------------------------------------------------
Refers(m) == msg[m].is = "live" /\ msg[m].url
Referenced == \E m \in Letter : Refers(m)

\* An operation fails (what it was part of ends as the action says), or the server stops.
Slips == slips < MaxSlips /\ slips' = slips + 1
Enqueue(hash, attempts) == jobs' = Append(jobs, Job(hash, attempts))

\* A task that has found no message and no document is about to remove the object.
Removing ==
    \/ \E m \in Letter : erasing[m] = "unreferenced"
    \/ sweep \in {"unregistered", "orphan"}
Collides == collided' = (collided \/ Removing)

-----------------------------------------------------------------------------
\* upload_file puts the object in quarantine,
UploadPut ==
    /\ upload = "none"
    /\ object' = {"quarantine"}
    /\ upload' = "put"
    /\ Collides
    /\ UNCHANGED <<fixed, verdict, pending, msg, sending, jobs, scan, tasks, slips, forgone, blind>>

\* makes its document, or takes the object away again,
UploadRegister ==
    /\ upload = "put"
    /\ \/ /\ pending' = "pending"
          /\ upload' = "registered"
          /\ Collides
          /\ UNCHANGED <<object, slips>>
       \/ /\ Slips
          /\ object' = {}
          /\ upload' = "over"
          /\ UNCHANGED <<pending, collided>>
    /\ UNCHANGED <<fixed, verdict, msg, sending, jobs, scan, tasks, forgone, blind>>

\* and charges it to the quota, or takes both away; then the scanner is told.
UploadCharge ==
    /\ upload = "registered"
    /\ \/ /\ upload' = "done"
          /\ Enqueue(TRUE, 0)
          /\ UNCHANGED <<object, pending, slips>>
       \/ /\ Slips
          /\ object' = {}
          /\ pending' = "none"
          /\ upload' = "over"
          /\ UNCHANGED jobs
    /\ UNCHANGED <<fixed, verdict, msg, sending, scan, tasks, forgone, collided, blind>>

-----------------------------------------------------------------------------
SendGoes(m, stage) ==
    /\ sending' = [sending EXCEPT ![m] = stage]
    /\ UNCHANGED <<fixed, verdict, object, upload, scan, tasks, slips, forgone, blind>>

\* validate_message_attachment finds the document of the upload, which is not blocked;
Validate(m) ==
    /\ sending[m] = "none"
    /\ msg[m].is = "none"
    /\ upload = "done"
    /\ pending \in {"pending", "clean"}
    /\ SendGoes(m, "valid")
    /\ UNCHANGED <<pending, msg, jobs, collided>>

\* the object of an image must be there;
Measure(m) ==
    /\ sending[m] = "valid"
    /\ object = {}
    /\ SendGoes(m, "none")
    /\ UNCHANGED <<pending, msg, jobs, collided>>

\* scan_status_for_attachment reads the document again: pending where it is gone;
Look(m) ==
    /\ sending[m] = "valid"
    /\ SendGoes(m, "looked")
    /\ msg' = [msg EXCEPT ![m].status = IF pending = "none" THEN "pending" ELSE pending]
    /\ UNCHANGED <<pending, jobs, collided>>

\* the message is inserted;
Insert(m) ==
    /\ sending[m] = "looked"
    /\ SendGoes(m, "inserted")
    /\ msg' = [msg EXCEPT ![m].is = "live", ![m].url = TRUE]
    /\ Collides
    /\ UNCHANGED <<pending, jobs>>

\* A mutant of Claim: the scanner, told of the upload, is not told of the message.
ClaimAlone(m) ==
    /\ sending[m] = "inserted"
    /\ sending' = [sending EXCEPT ![m] = "done"]
    /\ pending' = "none"
    /\ UNCHANGED <<fixed, verdict, object, upload, msg, jobs, scan, tasks, history>>

\* the document is taken away, and the scanner is told if it was still pending.
Claim(m) ==
    /\ sending[m] = "inserted"
    /\ sending' = [sending EXCEPT ![m] = "done"]
    /\ \/ pending' = "none" /\ UNCHANGED slips
       \/ Slips /\ UNCHANGED pending
    /\ IF msg[m].status = "pending" THEN Enqueue(FALSE, 0) ELSE UNCHANGED jobs
    /\ UNCHANGED <<fixed, verdict, object, upload, msg, scan, tasks, forgone, collided, blind>>

-----------------------------------------------------------------------------
\* A mutant of RetryOf: the attempts are counted and not asked for.
RetryForever(job, rest) ==
    /\ scan' = NoScan
    /\ jobs' = Append(rest, Job(job.hash, job.attempts + 1))
    /\ UNCHANGED forgone

\* A failed job is tried again later, a few times, if there is a scanner at all.
RetryOf(job, rest) ==
    /\ scan' = NoScan
    /\ IF scanner /\ job.attempts < MaxAttempts
       THEN jobs' = Append(rest, Job(job.hash, job.attempts + 1)) /\ UNCHANGED forgone
       ELSE jobs' = rest /\ forgone' = TRUE

Retry == RetryOf(scan, jobs)

\* The worker takes the jobs one at a time.  It loads the object from quarantine, or else
\* from where it is public, and knows the hash it should have from the job or from the
\* document;
Take ==
    /\ scan = NoScan
    /\ jobs # <<>>
    /\ LET job == Head(jobs) IN
       IF object = {}
       THEN RetryOf(job, Tail(jobs)) /\ UNCHANGED slips
       ELSE \/ /\ scan' = [at |-> "judge", hash |-> job.hash \/ pending # "none",
                           attempts |-> job.attempts, says |-> "none"]
               /\ jobs' = Tail(jobs)
               /\ UNCHANGED <<forgone, slips>>
            \/ Slips /\ RetryOf(job, Tail(jobs))
    /\ UNCHANGED <<fixed, verdict, object, upload, pending, msg, sending, tasks, collided, blind>>

Judged(says) == scan' = [scan EXCEPT !.at = "apply", !.says = says]

\* A mutant of Judge: with no scanner configured everything is clean.
JudgeOpenly ==
    /\ scan.at = "judge"
    /\ Judged(IF scanner /\ file = "infected" THEN "blocked" ELSE "clean")
    /\ verdict' = "clean"
    /\ UNCHANGED <<fixed, object, upload, pending, msg, sending, jobs, tasks, history>>

\* a wrong hash is as bad as an infection; otherwise the cache says, or clamd; with
\* neither, the object stays in quarantine.
Judge ==
    /\ scan.at = "judge"
    /\ IF scan.hash /\ file = "altered"
       THEN Judged("blocked") /\ verdict' = "blocked" /\ UNCHANGED <<jobs, forgone, slips>>
       ELSE IF verdict # "none"
       THEN Judged(verdict) /\ UNCHANGED <<verdict, jobs, forgone, slips>>
       ELSE IF ~scanner
       THEN scan' = NoScan /\ forgone' = TRUE /\ UNCHANGED <<verdict, jobs, slips>>
       ELSE \/ LET says == IF file = "infected" THEN "blocked" ELSE "clean" IN
               Judged(says) /\ verdict' = says /\ UNCHANGED <<jobs, forgone, slips>>
            \/ Slips /\ Retry /\ UNCHANGED verdict
    /\ UNCHANGED <<fixed, object, upload, pending, msg, sending, tasks, collided, blind>>

\* apply_verdict: publish_scanned, from the bytes that were scanned, or
\* delete_attachment_key, whose failure is passed over;
Move ==
    /\ scan.at = "apply"
    /\ \/ /\ object' = IF scan.says = "clean" THEN {"public"} ELSE {}
          /\ scan' = [scan EXCEPT !.at = "status"]
          /\ UNCHANGED <<jobs, forgone, slips>>
       \/ scan.says = "clean" /\ Slips /\ Retry /\ UNCHANGED object
       \/ /\ scan.says = "blocked" /\ Slips
          /\ scan' = [scan EXCEPT !.at = "status"]
          /\ UNCHANGED <<object, jobs, forgone>>
    /\ UNCHANGED <<fixed, verdict, upload, pending, msg, sending, tasks, collided, blind>>

\* set_scan_status, whose failure is passed over;
SetStatus ==
    /\ scan.at = "status"
    /\ scan' = [scan EXCEPT !.at = "messages"]
    /\ \/ pending' = (IF pending = "none" THEN "none" ELSE scan.says) /\ UNCHANGED slips
       \/ Slips /\ UNCHANGED pending
    /\ UNCHANGED <<fixed, verdict, object, upload, msg, sending, jobs, tasks, forgone, collided, blind>>

\* apply_scan_verdict on the messages that point at the file.
Tell ==
    /\ scan.at = "messages"
    /\ \/ /\ scan' = NoScan
          /\ msg' = [m \in Letter |->
                        IF Refers(m)
                        THEN [msg[m] EXCEPT !.status = scan.says, !.url = scan.says = "clean"]
                        ELSE msg[m]]
          /\ UNCHANGED <<jobs, forgone, slips>>
       \/ Slips /\ Retry /\ UNCHANGED msg
    /\ UNCHANGED <<fixed, verdict, object, upload, pending, sending, tasks, collided, blind>>

-----------------------------------------------------------------------------
Rests == UNCHANGED <<fixed, verdict, upload, sending, jobs, scan, forgone>>

InHand == \E m \in Letter : sending[m] \notin {"none", "done"}

\* delete_attachment_key, whose failure is passed over.
Remove ==
    \/ object' = {} /\ collided' = (collided \/ InHand \/ pending # "none") /\ UNCHANGED slips
    \/ Slips /\ UNCHANGED <<object, collided>>

\* A message is deleted;
Erase(m) ==
    /\ Refers(m)
    /\ msg' = [msg EXCEPT ![m].is = "deleted"]
    /\ erasing' = [erasing EXCEPT ![m] = "deleted"]
    /\ Rests
    /\ UNCHANGED <<object, pending, cleaner, sweep, slips, collided, blind>>

\* A mutant of EraseCount: the other messages are not counted.
EraseUncounted(m) ==
    /\ erasing[m] = "deleted"
    /\ erasing' = [erasing EXCEPT ![m] = "unreferenced"]
    /\ Rests
    /\ UNCHANGED <<object, pending, msg, cleaner, sweep, slips, collided, blind>>

\* the messages that point at the file are counted; if there is none left
EraseCount(m) ==
    /\ erasing[m] = "deleted"
    /\ \/ /\ erasing' = [erasing EXCEPT ![m] = IF Referenced THEN "none" ELSE "unreferenced"]
          /\ UNCHANGED slips
       \/ erasing' = [erasing EXCEPT ![m] = "none"] /\ Slips
    /\ Rests
    /\ UNCHANGED <<object, pending, msg, cleaner, sweep, collided, blind>>

\* the object goes.
EraseObject(m) ==
    /\ erasing[m] = "unreferenced"
    /\ erasing' = [erasing EXCEPT ![m] = "none"]
    /\ Remove
    /\ Rests
    /\ UNCHANGED <<pending, msg, cleaner, sweep, blind>>

\* cleanup_orphans lists the documents that are an hour old, whoever uses the file, and
\* removes the object, or fails to, and then the document.
OrphanFind ==
    /\ cleaner = "rests" /\ upload # "registered" /\ pending # "none"
    /\ cleaner' = "found"
    /\ Rests
    /\ UNCHANGED <<object, pending, msg, erasing, sweep, slips, collided, blind>>

OrphanObject ==
    /\ cleaner = "found"
    /\ cleaner' = "removed"
    /\ \/ object' = {} /\ collided' = TRUE /\ UNCHANGED slips
       \/ Slips /\ UNCHANGED <<object, collided>>
    /\ Rests
    /\ UNCHANGED <<pending, msg, erasing, sweep, blind>>

OrphanDocument ==
    /\ cleaner = "removed"
    /\ cleaner' = "rests"
    /\ pending' = "none"
    /\ Rests
    /\ UNCHANGED <<object, msg, erasing, sweep, slips, collided, blind>>

\* reconcile_attachments reads the documents, then the messages, then lists the objects,
\* and removes those that it has found in neither.  A read that fails finds nothing.
Overlooks == Slips /\ blind' = TRUE
SweepDocuments ==
    /\ sweep = "rests"
    /\ \/ pending = "none" /\ UNCHANGED <<slips, blind>>
       \/ pending # "none" /\ Overlooks
    /\ sweep' = "unregistered"
    /\ Rests
    /\ UNCHANGED <<object, pending, msg, erasing, cleaner, collided>>

SweepMessages ==
    /\ sweep = "unregistered"
    /\ \/ sweep' = (IF Referenced THEN "rests" ELSE "orphan") /\ UNCHANGED <<slips, blind>>
       \/ Referenced /\ Overlooks /\ sweep' = "orphan"
    /\ Rests
    /\ UNCHANGED <<object, pending, msg, erasing, cleaner, collided>>

SweepObject ==
    /\ sweep = "orphan"
    /\ sweep' = "rests"
    /\ Remove
    /\ Rests
    /\ UNCHANGED <<pending, msg, erasing, cleaner, blind>>

-----------------------------------------------------------------------------
\* The server stops, with all it was doing, and starts again: requeue_pending, which gives
\* up where a read fails.
Restart ==
    /\ Slips
    /\ upload' = IF upload \in {"put", "registered"} THEN "over" ELSE upload
    /\ sending' = [m \in Letter |-> IF msg[m].is = "none" THEN "none" ELSE "done"]
    /\ scan' = NoScan
    /\ erasing' = [m \in Letter |-> "none"]
    /\ cleaner' = "rests"
    /\ sweep' = "rests"
    /\ \/ /\ jobs' = (IF pending = "pending" THEN <<Job(TRUE, 0)>> ELSE <<>>)
                     \o IF \E m \in Letter : Refers(m) /\ msg[m].status = "pending"
                        THEN <<Job(FALSE, 0)>> ELSE <<>>
          /\ UNCHANGED forgone
       \/ jobs' = <<>> /\ forgone' = TRUE
    /\ UNCHANGED <<fixed, verdict, object, pending, msg, collided, blind>>

\* 30 days later.
VerdictExpires ==
    /\ verdict # "none"
    /\ verdict' = "none"
    /\ UNCHANGED <<fixed, object, upload, pending, msg, sending, jobs, scan, tasks, history>>

AttNext ==
    \/ UploadPut \/ UploadRegister \/ UploadCharge
    \/ \E m \in Letter :
        \/ Validate(m) \/ Measure(m) \/ Look(m) \/ Insert(m) \/ Claim(m)
        \/ Erase(m) \/ EraseCount(m) \/ EraseObject(m)
    \/ Take \/ Judge \/ Move \/ SetStatus \/ Tell
    \/ OrphanFind \/ OrphanObject \/ OrphanDocument
    \/ SweepDocuments \/ SweepMessages \/ SweepObject
    \/ Restart \/ VerdictExpires

AttSpec == AttInit /\ [][AttNext]_vars

-----------------------------------------------------------------------------
AttTypeOK ==
    /\ file \in {"sound", "infected", "altered"}
    /\ scanner \in BOOLEAN
    /\ verdict \in {"none", "clean", "blocked"}
    /\ object \in {{}, {"quarantine"}, {"public"}}
    /\ upload \in {"none", "put", "registered", "done", "over"}
    /\ pending \in {"none", "pending", "clean", "blocked"}
    /\ msg \in [Letter -> [is : {"none", "live", "deleted"}, url : BOOLEAN,
                          status : {"pending", "clean", "blocked"}]]
    /\ sending \in [Letter -> {"none", "valid", "looked", "inserted", "done"}]
    /\ jobs \in Seq([hash : BOOLEAN, attempts : 0 .. MaxAttempts])
    /\ scan \in [at : {"idle", "judge", "apply", "status", "messages"}, hash : BOOLEAN,
                 attempts : 0 .. MaxAttempts, says : {"none", "clean", "blocked"}]
    /\ erasing \in [Letter -> {"none", "deleted", "unreferenced"}]
    /\ cleaner \in {"rests", "found", "removed"}
    /\ sweep \in {"rests", "unregistered", "orphan"}
    /\ slips \in 0 .. MaxSlips
    /\ forgone \in BOOLEAN /\ collided \in BOOLEAN /\ blind \in BOOLEAN

\* What is infected is never public, and no message and no upload says that it is clean,
\* whatever fails and with or without a scanner.
InfectedStaysIn ==
    file = "infected" =>
        /\ "public" \notin object
        /\ pending # "clean"
        /\ \A m \in Letter : msg[m].status # "clean"

\* A message whose attachment is still to be scanned has a job that will see to it, and
\* goes on waiting only where the scanner has given up.
Awaited ==
    \/ jobs # <<>> \/ scan # NoScan
    \/ \E m \in Letter : sending[m] = "inserted"
PendingIsScanned ==
    \A m \in Letter : Refers(m) /\ msg[m].status = "pending" => Awaited \/ forgone

\* The file, if it is what was uploaded, of a message that shows it as clean is there for
\* all to read, but where it went while its document or a send stood (cleanup_orphans asks
\* no message, and the count of cleanup_attachment_if_unreferenced is old when the object
\* goes), or where the sweep could not read.
Shown == file # "altered" /\ \E m \in Letter : Refers(m) /\ msg[m].status = "clean"
CleanIsThere == Shown => object = {"public"} \/ collided \/ blind
=================================================================================
