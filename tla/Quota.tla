--------------------------------- MODULE Quota ----------------------------------
(****************************************************************************)
(* What one user may keep in the store: the counter user_storage_usage           *)
(* (model/storage_usage.rs) against the files it stands for.  It is asked by an     *)
(* upload before it stores anything and raised when all is stored                *)
(* (upload_file), lowered when a message with a file is deleted                   *)
(* (cleanup_attachment_if_unreferenced) and by cleanup_orphans, and computed anew by  *)
(* reconcile_attachments (rebuild_user_storage_usage).  The uploads that wait for     *)
(* their message have a limit of their own.                                      *)
(*                                                                          *)
(* Every file has the size one; a file is sent in one message, which tells its size. *)
(* What becomes of the object itself is in Attachments.                          *)
(****************************************************************************)
EXTENDS Integers, FiniteSets

CONSTANTS
    MaxFiles,   \* bound: files the user uploads, numbered as they come
    MaxBytes,   \* max_user_storage_bytes
    MaxPending, \* MAX_PENDING_UPLOADS_PER_USER
    AtOnce,     \* bound: uploads in progress at once
    MaxErrors   \* bound: operations of the database that fail

VARIABLES
    used,    \* bytesUsed, if the user has a document
    made,    \* has the user one?
    file,    \* file -> its upload
    pending, \* the files that have a document in pending_uploads
    message, \* file -> its message, if it was sent
    removal, \* file -> how far the deletion of its message is
    cleaner, \* file -> how far cleanup_orphans is with it
    rebuild, \* rebuild_user_storage_usage: how far, and its sum
    errors,
    state    \* history: is the counter exact, off by a race or an error that the actions
             \* name, or computed anew since?

File == 1 .. MaxFiles
vars == <<used, made, file, pending, message, removal, cleaner, rebuild, errors, state>>

NoRebuild == [at |-> "rest", sum |-> 0, alone |-> TRUE]

QInit ==
    /\ used = 0
    /\ made = FALSE
    /\ file = [f \in File |-> "none"]
    /\ pending = {}
    /\ message = [f \in File |-> "none"]
    /\ removal = [f \in File |-> "rest"]
    /\ cleaner = [f \in File |-> "rest"]
    /\ rebuild = NoRebuild
    /\ errors = 0
    /\ state = "exact"

-----------------------------------------------------------------------------
OffIf(wrong) == state' = IF wrong THEN "off" ELSE state
Fails == errors < MaxErrors /\ errors' = errors + 1
Live == {f \in File : message[f] = "live"}
BytesUsed == IF made /\ used > 0 THEN used ELSE 0

\* Nothing that moves the counter, or what it stands for, is under way.
Uploading == {f \in File : file[f] \in {"put", "waits", "registered", "first"}}
Quiet ==
    /\ Uploading = {}
    /\ \A f \in File : removal[f] = "rest" /\ cleaner[f] = "rest"
    /\ \A f \in pending : message[f] = "none"

\* A change that a rebuild meets.
Meets == rebuild' = [rebuild EXCEPT !.alone = FALSE]
Begins(f) ==
    /\ file[f] = "none" /\ \A g \in 1 .. f - 1 : file[g] # "none"
    /\ Cardinality(Uploading) < AtOnce
Uploads(f, at) ==
    /\ file' = [file EXCEPT ![f] = at]
    /\ Meets
    /\ UNCHANGED <<message, removal, cleaner>>

\* A mutant of Check: it asks whether there is room for anything at all.
CheckLate(f) ==
    /\ Begins(f)
    /\ BytesUsed <= MaxBytes
    /\ Uploads(f, "put")
    /\ UNCHANGED <<used, made, pending, errors, state>>

\* would_exceed finds room; the object is put in the store,
Check(f) ==
    /\ Begins(f)
    /\ BytesUsed + 1 <= MaxBytes
    /\ Uploads(f, "put")
    /\ UNCHANGED <<used, made, pending, errors, state>>

\* register counts the documents that wait,
CountPending(f) ==
    /\ file[f] = "put"
    /\ \/ Cardinality(pending) < MaxPending /\ Uploads(f, "waits")
       \/ Cardinality(pending) >= MaxPending /\ Uploads(f, "over")
    /\ UNCHANGED <<used, made, pending, errors, state>>

\* and inserts its own; a failure takes the object away again.
Register(f) ==
    /\ file[f] = "waits"
    /\ \/ pending' = pending \cup {f} /\ Uploads(f, "registered") /\ UNCHANGED errors
       \/ Fails /\ Uploads(f, "over") /\ UNCHANGED pending
    /\ UNCHANGED <<used, made, state>>

\* adjust raises the counter, or finds none; a failure takes the document away too.
Charge(f) ==
    /\ file[f] = "registered"
    /\ \/ made /\ used' = used + 1 /\ Uploads(f, "done") /\ UNCHANGED <<pending, errors>>
       \/ ~made /\ Uploads(f, "first") /\ UNCHANGED <<used, pending, errors>>
       \/ Fails /\ Uploads(f, "over") /\ pending' = pending \ {f} /\ UNCHANGED used
    /\ UNCHANGED <<made, state>>

\* The upsert inserts: no index keeps two first uploads from making a document each, of
\* which one is read from then on.
ChargeFirst(f) ==
    /\ file[f] = "first"
    /\ made' = TRUE
    /\ IF made THEN state' = "off" /\ UNCHANGED used ELSE used' = 1 /\ UNCHANGED state
    /\ Uploads(f, "done")
    /\ UNCHANGED <<pending, errors>>

-----------------------------------------------------------------------------
\* The file is sent, and its document taken away if that succeeds.
Send(f) ==
    /\ file[f] = "done" /\ f \in pending /\ message[f] = "none"
    /\ message' = [message EXCEPT ![f] = "live"]
    /\ \/ pending' = pending \ {f} /\ UNCHANGED errors
       \/ Fails /\ UNCHANGED pending
    /\ Meets
    /\ UNCHANGED <<used, made, file, removal, cleaner, state>>

\* The message is deleted; no other has the file,
Erase(f) ==
    /\ message[f] = "live"
    /\ message' = [message EXCEPT ![f] = "deleted"]
    /\ removal' = [removal EXCEPT ![f] = "counted"]
    /\ Meets
    /\ UNCHANGED <<used, made, file, pending, cleaner, errors, state>>

\* A mutant of Discharge: the counter stays.
DischargeNothing(f) ==
    /\ removal[f] = "counted"
    /\ removal' = [removal EXCEPT ![f] = "rest"]
    /\ UNCHANGED <<used, made, file, pending, message, cleaner, rebuild, errors, state>>

\* so the object goes and the counter is lowered, by whatever the document, or else the
\* message, says; again for a file that cleanup_orphans is just removing.
Discharge(f) ==
    /\ removal[f] = "counted"
    /\ removal' = [removal EXCEPT ![f] = "rest"]
    /\ \/ /\ used' = used - 1 /\ made' = TRUE
          /\ OffIf(cleaner[f] = "discharged")
          /\ UNCHANGED errors
       \/ Fails /\ state' = "off" /\ UNCHANGED <<used, made>>
    /\ Meets
    /\ UNCHANGED <<file, pending, message, cleaner>>

\* apply_scan_verdict takes the file from a message that carries an infection: nobody will
\* find whom to lower the counter for.
Block(f) ==
    /\ message[f] = "live"
    /\ message' = [message EXCEPT ![f] = "deleted"]
    /\ state' = "off"
    /\ Meets
    /\ UNCHANGED <<used, made, file, pending, removal, cleaner, errors>>

-----------------------------------------------------------------------------
\* cleanup_orphans finds the documents that are an hour old, whatever was sent since. One
\* after the other it
OrphanFind ==
    /\ \A f \in File : cleaner[f] = "rest"
    /\ \E old \in SUBSET {f \in pending : file[f] = "done"} \ {{}} :
        cleaner' = [f \in File |-> IF f \in old THEN "found" ELSE "rest"]
    /\ Meets
    /\ UNCHANGED <<used, made, file, pending, message, removal, errors, state>>

\* A mutant of OrphanDischarge: the file goes, and the counter stays.
OrphanForget(f) ==
    /\ cleaner[f] = "found" /\ \A g \in File : cleaner[g] # "discharged"
    /\ cleaner' = [cleaner EXCEPT ![f] = "discharged"]
    /\ UNCHANGED <<used, made, file, pending, message, removal, rebuild, errors, state>>

\* lowers the counter, again for a file that has or had a message,
OrphanDischarge(f) ==
    /\ cleaner[f] = "found" /\ \A g \in File : cleaner[g] # "discharged"
    /\ cleaner' = [cleaner EXCEPT ![f] = "discharged"]
    /\ \/ /\ used' = used - 1 /\ made' = TRUE
          /\ OffIf(message[f] # "none")
          /\ UNCHANGED errors
       \/ Fails /\ state' = "off" /\ UNCHANGED <<used, made>>
    /\ Meets
    /\ UNCHANGED <<file, pending, message, removal>>

\* and removes the document, or fails to, leaves the rest and comes again for it.
OrphanDocument(f) ==
    /\ cleaner[f] = "discharged"
    /\ \/ /\ pending' = pending \ {f}
          /\ cleaner' = [cleaner EXCEPT ![f] = "rest"]
          /\ OffIf(message[f] # "none")
          /\ UNCHANGED errors
       \/ /\ Fails
          /\ cleaner' = [g \in File |-> "rest"]
          /\ state' = "off"
          /\ UNCHANGED pending
    /\ Meets
    /\ UNCHANGED <<used, made, file, message, removal>>

-----------------------------------------------------------------------------
\* rebuild_user_storage_usage reads the documents,
RebuildPending ==
    /\ rebuild.at = "rest"
    /\ rebuild' = [at |-> "messages", sum |-> Cardinality(pending), alone |-> Quiet]
    /\ UNCHANGED <<used, made, file, pending, message, removal, cleaner, errors, state>>

\* reads the messages,
RebuildMessages ==
    /\ rebuild.at = "messages"
    /\ rebuild' = [rebuild EXCEPT !.at = "set", !.sum = @ + Cardinality(Live)]
    /\ UNCHANGED <<used, made, file, pending, message, removal, cleaner, errors, state>>

\* and writes the sum, over whatever has moved the counter since; or an error ends it.
RebuildSet ==
    /\ rebuild.at = "set"
    /\ rebuild' = NoRebuild
    /\ \/ /\ IF rebuild.sum > 0 \/ BytesUsed > 0
             THEN used' = rebuild.sum /\ made' = TRUE
             ELSE UNCHANGED <<used, made>>
          /\ state' = IF ~rebuild.alone THEN "off"
                      ELSE IF state = "exact" \/ (rebuild.sum = 0 /\ used < 0) THEN state
                      ELSE "repaired"
          /\ UNCHANGED errors
       \/ Fails /\ UNCHANGED <<used, made, state>>
    /\ UNCHANGED <<file, pending, message, removal, cleaner>>

QNext ==
    \/ \E f \in File :
        \/ Check(f) \/ CountPending(f) \/ Register(f) \/ Charge(f) \/ ChargeFirst(f)
        \/ Send(f) \/ Erase(f) \/ Discharge(f) \/ Block(f)
        \/ OrphanDischarge(f) \/ OrphanDocument(f)
    \/ OrphanFind
    \/ RebuildPending \/ RebuildMessages \/ RebuildSet

QSpec == QInit /\ [][QNext]_vars

-----------------------------------------------------------------------------
QTypeOK ==
    /\ used \in Int /\ made \in BOOLEAN
    /\ file \in [File -> {"none", "put", "waits", "registered", "first", "done", "over"}]
    /\ pending \subseteq File
    /\ message \in [File -> {"none", "live", "deleted"}]
    /\ removal \in [File -> {"rest", "counted"}]
    /\ cleaner \in [File -> {"rest", "found", "discharged"}]
    /\ rebuild \in [at : {"rest", "messages", "set"}, sum : Nat, alone : BOOLEAN]
    /\ errors \in 0 .. MaxErrors
    /\ state \in {"exact", "off", "repaired"}

\* When nothing is under way the counter is what the user has in the store, but for the
\* races and errors the actions name, which a rebuild that meets nothing repairs.
UsageFollows == Quiet /\ state # "off" => used = Cardinality(pending) + Cardinality(Live)

\* Until then what is in the store for the user exceeds the quota by no more than what is
\* uploaded at once, and so does the number of uploads that wait exceed its limit at any
\* time.
Kept ==
    {f \in File :
        /\ cleaner[f] # "discharged"
        /\ (f \in pending /\ message[f] = "none") \/ f \in Live \/ removal[f] = "counted"}
QuotaBounds ==
    /\ state = "exact" => Cardinality(Kept) < MaxBytes + AtOnce
    /\ Cardinality(pending) < MaxPending + AtOnce
================================================================================
