--------------------------- MODULE AttachmentsProofs ---------------------------
(****************************************************************************)
(* Proofs about Attachments, for any set of messages, any number of attempts  *)
(* and any number of failures and restarts: the types, that what is infected  *)
(* never gets out of quarantine, that what waits for a scan will get one, and  *)
(* that a clean file is there.                                              *)
(****************************************************************************)
EXTENDS Attachments, TLAPS

JobSet == [hash : BOOLEAN, attempts : 0 .. MaxAttempts]
ScanSet == [at : {"idle", "judge", "apply", "status", "messages"}, hash : BOOLEAN,
            attempts : 0 .. MaxAttempts, says : {"none", "clean", "blocked"}]
MsgSet == [is : {"none", "live", "deleted"}, url : BOOLEAN,
           status : {"pending", "clean", "blocked"}]

-----------------------------------------------------------------------------
\* A failed job is in the queue again with one attempt more, or the scanner has given up.
LEMMA RetryTyped ==
  ASSUME NEW job, job.hash \in BOOLEAN, job.attempts \in 0 .. MaxAttempts,
         NEW rest \in Seq(JobSet), forgone \in BOOLEAN, scanner \in BOOLEAN,
         RetryOf(job, rest)
  PROVE  jobs' \in Seq(JobSet) /\ scan' \in ScanSet /\ forgone' \in BOOLEAN
<1>1. scan' \in ScanSet
  BY AttAssumption DEF RetryOf, ScanSet, NoScan
<1>2. CASE scanner /\ job.attempts < MaxAttempts
  <2>1. Job(job.hash, job.attempts + 1) \in JobSet
    BY <1>2, AttAssumption DEF Job, JobSet
  <2> QED BY <1>1, <1>2, <2>1 DEF RetryOf
<1>3. CASE ~(scanner /\ job.attempts < MaxAttempts)
  <2>1. jobs' = rest /\ forgone' = TRUE
    BY <1>3 DEF RetryOf
  <2> QED BY <1>1, <2>1
<1> QED BY <1>2, <1>3

\* The flags, apart from the rest: each step leaves a flag or sets it.
FlagsTyped ==
    scanner \in BOOLEAN /\ forgone \in BOOLEAN /\ collided \in BOOLEAN /\ blind \in BOOLEAN

LEMMA NextFlags ==
  ASSUME FlagsTyped, [AttNext]_vars
  PROVE  FlagsTyped'
<1> USE DEF FlagsTyped, fixed, tasks, history
<1>1. CASE UploadPut
  BY <1>1 DEF UploadPut, Collides
<1>2. CASE UploadRegister
  BY <1>2 DEF UploadRegister, Collides
<1>3. CASE UploadCharge
  BY <1>3 DEF UploadCharge
<1>4. CASE Take
  BY <1>4 DEF Take, RetryOf
<1>5. CASE Judge
  BY <1>5 DEF Judge, Judged, Retry, RetryOf
<1>6. CASE Move
  BY <1>6 DEF Move, Retry, RetryOf
<1>7. CASE SetStatus
  BY <1>7 DEF SetStatus
<1>8. CASE Tell
  BY <1>8 DEF Tell, Retry, RetryOf
<1>9. CASE OrphanFind
  BY <1>9 DEF OrphanFind, Rests
<1>10. CASE OrphanObject
  BY <1>10 DEF OrphanObject, Rests
<1>11. CASE OrphanDocument
  BY <1>11 DEF OrphanDocument, Rests
<1>12. CASE SweepDocuments
  BY <1>12 DEF SweepDocuments, Rests, Overlooks
<1>13. CASE SweepMessages
  BY <1>13 DEF SweepMessages, Rests, Overlooks
<1>14. CASE SweepObject
  BY <1>14 DEF SweepObject, Rests, Remove
<1>15. CASE Restart
  BY <1>15 DEF Restart
<1>16. CASE VerdictExpires
  BY <1>16 DEF VerdictExpires
<1>17. ASSUME NEW m \in Letter, Validate(m)
      PROVE  FlagsTyped'
  BY <1>17 DEF Validate, SendGoes
<1>18. ASSUME NEW m \in Letter, Measure(m)
      PROVE  FlagsTyped'
  BY <1>18 DEF Measure, SendGoes
<1>19. ASSUME NEW m \in Letter, Look(m)
      PROVE  FlagsTyped'
  BY <1>19 DEF Look, SendGoes
<1>20. ASSUME NEW m \in Letter, Insert(m)
      PROVE  FlagsTyped'
  BY <1>20 DEF Insert, SendGoes, Collides
<1>21. ASSUME NEW m \in Letter, Claim(m)
      PROVE  FlagsTyped'
  BY <1>21 DEF Claim
<1>22. ASSUME NEW m \in Letter, Erase(m)
      PROVE  FlagsTyped'
  BY <1>22 DEF Erase, Rests
<1>23. ASSUME NEW m \in Letter, EraseCount(m)
      PROVE  FlagsTyped'
  BY <1>23 DEF EraseCount, Rests
<1>24. ASSUME NEW m \in Letter, EraseObject(m)
      PROVE  FlagsTyped'
  BY <1>24 DEF EraseObject, Rests, Remove
<1>25. CASE UNCHANGED vars
  BY <1>25 DEF vars
<1> QED
  BY <1>1, <1>2, <1>3, <1>4, <1>5, <1>6, <1>7, <1>8, <1>9, <1>10, <1>11, <1>12, <1>13,
     <1>14, <1>15, <1>16, <1>17, <1>18, <1>19, <1>20, <1>21, <1>22, <1>23, <1>24, <1>25
  DEF AttNext

\* The rest of the types; a job that was judged, and only such a one, has a verdict.
Typed ==
    /\ file \in {"sound", "infected", "altered"}
    /\ verdict \in {"none", "clean", "blocked"}
    /\ object \in {{}, {"quarantine"}, {"public"}}
    /\ upload \in {"none", "put", "registered", "done", "over"}
    /\ pending \in {"none", "pending", "clean", "blocked"}
    /\ msg \in [Letter -> MsgSet]
    /\ sending \in [Letter -> {"none", "valid", "looked", "inserted", "done"}]
    /\ jobs \in Seq(JobSet)
    /\ scan \in ScanSet
    /\ scan.at \in {"apply", "status", "messages"} => scan.says \in {"clean", "blocked"}
    /\ erasing \in [Letter -> {"none", "deleted", "unreferenced"}]
    /\ cleaner \in {"rests", "found", "removed"}
    /\ sweep \in {"rests", "unregistered", "orphan"}
    /\ slips \in 0 .. MaxSlips

TypeInv == FlagsTyped /\ Typed

LEMMA InitTyped == AttInit => TypeInv
<1> SUFFICES ASSUME AttInit PROVE TypeInv
  OBVIOUS
<1>1. FlagsTyped
  BY DEF AttInit, FlagsTyped
<1>2. Typed
  BY AttAssumption DEF AttInit, Typed, NoMsg, NoScan, MsgSet, JobSet, ScanSet
<1> QED BY <1>1, <1>2 DEF TypeInv

LEMMA EnqueueTyped ==
  ASSUME NEW hash \in BOOLEAN, jobs \in Seq(JobSet), Enqueue(hash, 0)
  PROVE  jobs' \in Seq(JobSet)
<1>1. Job(hash, 0) \in JobSet
  BY AttAssumption DEF Job, JobSet
<1> QED BY <1>1 DEF Enqueue

\* The first job of a queue, and what is left.
LEMMA HeadTyped ==
  ASSUME jobs \in Seq(JobSet), jobs # <<>>
  PROVE  /\ Head(jobs) \in JobSet
         /\ Tail(jobs) \in Seq(JobSet)
  OBVIOUS

\* After a retry the scanner's part is typed, and nothing is in hand.
LEMMA RetryLeaves ==
  ASSUME NEW job, job.hash \in BOOLEAN, job.attempts \in 0 .. MaxAttempts,
         NEW rest \in Seq(JobSet), FlagsTyped, RetryOf(job, rest)
  PROVE  /\ jobs' \in Seq(JobSet) /\ scan' \in ScanSet
         /\ scan'.at = "idle" /\ scan'.says = "none"
<1>1. jobs' \in Seq(JobSet) /\ scan' \in ScanSet
  BY RetryTyped DEF FlagsTyped
<1>2. scan' = NoScan
  BY DEF RetryOf
<1> QED BY <1>1, <1>2 DEF NoScan

LEMMA TakeRetries ==
  ASSUME TypeInv, jobs # <<>>, RetryOf(Head(jobs), Tail(jobs))
  PROVE  jobs' \in Seq(JobSet) /\ scan' \in ScanSet /\ scan'.at = "idle"
<1> DEFINE again == Job(Head(jobs).hash, Head(jobs).attempts + 1)
<1>1. Head(jobs) \in JobSet /\ Tail(jobs) \in Seq(JobSet)
  BY HeadTyped DEF TypeInv, Typed
<1>2. scan' \in ScanSet /\ scan'.at = "idle"
  BY AttAssumption DEF RetryOf, NoScan, ScanSet
<1>3. CASE jobs' = Append(Tail(jobs), again) /\ Head(jobs).attempts < MaxAttempts
  <2>1. again \in JobSet
    BY <1>1, <1>3, AttAssumption DEF Job, JobSet
  <2> HIDE DEF again
  <2> QED BY <1>1, <1>2, <1>3, <2>1
<1>4. CASE jobs' = Tail(jobs)
  BY <1>1, <1>2, <1>4
<1> QED BY <1>3, <1>4 DEF RetryOf

LEMMA ScanRetries ==
  ASSUME TypeInv, Retry
  PROVE  jobs' \in Seq(JobSet) /\ scan' \in ScanSet /\ scan'.at = "idle"
<1>1. scan.hash \in BOOLEAN /\ scan.attempts \in 0 .. MaxAttempts
  BY DEF TypeInv, Typed, ScanSet
<1>2. jobs \in Seq(JobSet) /\ FlagsTyped
  BY DEF TypeInv, Typed
<1> QED BY <1>1, <1>2, RetryLeaves DEF Retry

LEMMA LetterRewritten ==
  ASSUME NEW l \in MsgSet, NEW status \in {"pending", "clean", "blocked"}, NEW url \in BOOLEAN
  PROVE  /\ [l EXCEPT !.status = status] \in MsgSet
         /\ [l EXCEPT !.status = status, !.url = url] \in MsgSet
         /\ [l EXCEPT !.is = "live", !.url = url] \in MsgSet
  BY DEF MsgSet

LEMMA NextTyped ==
  ASSUME TypeInv, [AttNext]_vars
  PROVE  Typed'
<1> USE AttAssumption DEF TypeInv, Typed, fixed, tasks, history
<1>1. CASE UploadPut
  BY <1>1 DEF UploadPut
<1>2. CASE UploadRegister
  BY <1>2 DEF UploadRegister, Slips
<1>3. CASE UploadCharge
  <2>1. UNCHANGED <<file, verdict, msg, sending, scan, erasing, cleaner, sweep>>
    BY <1>3 DEF UploadCharge
  <2>2. CASE Enqueue(TRUE, 0) /\ upload' = "done" /\ UNCHANGED <<object, pending, slips>>
    <3>1. jobs' \in Seq(JobSet)
      BY <2>2, EnqueueTyped
    <3> QED BY <2>1, <2>2, <3>1
  <2>3. CASE Slips /\ object' = {} /\ pending' = "none" /\ upload' = "over" /\ UNCHANGED jobs
    BY <2>1, <2>3 DEF Slips
  <2> QED BY <1>3, <2>2, <2>3 DEF UploadCharge
<1>4. CASE Take
  <2>1. Head(jobs) \in JobSet /\ Tail(jobs) \in Seq(JobSet)
    BY <1>4, HeadTyped DEF Take
  <2>2. CASE RetryOf(Head(jobs), Tail(jobs))
    <3>1. jobs' \in Seq(JobSet) /\ scan' \in ScanSet /\ scan'.at = "idle"
      BY <1>4, <2>2, TakeRetries DEF Take
    <3> QED BY <1>4, <2>2, <3>1 DEF Take, Slips
  <2>3. CASE ~RetryOf(Head(jobs), Tail(jobs))
    <3>1. /\ scan' = [at |-> "judge", hash |-> Head(jobs).hash \/ pending # "none",
                      attempts |-> Head(jobs).attempts, says |-> "none"]
          /\ jobs' = Tail(jobs) /\ slips' = slips
      BY <1>4, <2>3 DEF Take
    <3>2. scan' \in ScanSet /\ scan'.at = "judge"
      BY <2>1, <3>1 DEF JobSet, ScanSet
    <3> QED BY <1>4, <2>1, <3>1, <3>2 DEF Take
  <2> QED BY <2>2, <2>3
<1>5. CASE Judge
  <2>2. CASE Retry
    BY <1>5, <2>2, ScanRetries DEF Judge, Slips
  <2>3. CASE scan' = NoScan /\ UNCHANGED <<verdict, jobs, slips>>
    BY <1>5, <2>3 DEF Judge, NoScan, ScanSet
  <2>4. ASSUME NEW says \in {"clean", "blocked"}, Judged(says),
               verdict' \in {"clean", "blocked"}, UNCHANGED <<jobs, slips>>
        PROVE  Typed'
    <3>1. scan' \in ScanSet /\ scan'.says = says
      BY <2>4 DEF Judged, ScanSet
    <3> QED BY <1>5, <2>4, <3>1 DEF Judge
  <2> QED
    BY <1>5, <2>2, <2>3, <2>4 DEF Judge
<1>6. CASE Move
  <2>2. CASE Retry
    BY <1>6, ScanRetries, <2>2 DEF Move, Slips
  <2>3. CASE ~Retry
    <3>1. scan' = [scan EXCEPT !.at = "status"] /\ jobs' = jobs
      BY <1>6, <2>3 DEF Move
    <3>2. scan' \in ScanSet /\ scan'.says \in {"clean", "blocked"}
      BY <1>6, <3>1 DEF Move, ScanSet
    <3> QED BY <1>6, <2>3, <3>1, <3>2 DEF Move, Slips
  <2> QED BY <2>2, <2>3
<1>7. CASE SetStatus
  BY <1>7 DEF SetStatus, Slips, ScanSet
<1>8. CASE Tell
  <2>1. UNCHANGED <<file, verdict, object, upload, pending, sending, erasing, cleaner, sweep>>
    BY <1>8 DEF Tell
  <2>2. CASE Retry /\ Slips /\ UNCHANGED msg
    <3>1. jobs' \in Seq(JobSet) /\ scan' \in ScanSet /\ scan'.at = "idle"
      BY <2>2, ScanRetries
    <3> QED BY <2>1, <2>2, <3>1 DEF Slips
  <2>3. CASE /\ scan' = NoScan
             /\ msg' = [m \in Letter |->
                           IF Refers(m)
                           THEN [msg[m] EXCEPT !.status = scan.says, !.url = scan.says = "clean"]
                           ELSE msg[m]]
             /\ UNCHANGED <<jobs, forgone, slips>>
    <3>1. scan.says \in {"clean", "blocked"}
      BY <1>8 DEF Tell
    <3>2. msg' \in [Letter -> MsgSet]
      <4>1. \A m \in Letter :
               [msg[m] EXCEPT !.status = scan.says, !.url = scan.says = "clean"] \in MsgSet
        BY <3>1, LetterRewritten
      <4> QED BY <2>3, <4>1
    <3>3. scan' = NoScan /\ jobs' = jobs /\ slips' = slips
      BY <2>3
    <3>4. scan' \in ScanSet /\ scan'.at = "idle"
      BY <3>3 DEF NoScan, ScanSet
    <3> QED BY <2>1, <3>2, <3>3, <3>4
  <2> QED BY <1>8, <2>2, <2>3 DEF Tell
<1>9. CASE OrphanFind
  BY <1>9 DEF OrphanFind, Rests, Slips, Remove, Overlooks, MsgSet
<1>10. CASE OrphanObject
  BY <1>10 DEF OrphanObject, Rests, Slips, Remove, Overlooks, MsgSet
<1>11. CASE OrphanDocument
  BY <1>11 DEF OrphanDocument, Rests, Slips, Remove, Overlooks, MsgSet
<1>12. CASE SweepDocuments
  BY <1>12 DEF SweepDocuments, Rests, Slips, Remove, Overlooks, MsgSet
<1>13. CASE SweepMessages
  BY <1>13 DEF SweepMessages, Rests, Slips, Remove, Overlooks, MsgSet
<1>14. CASE SweepObject
  BY <1>14 DEF SweepObject, Rests, Slips, Remove, Overlooks, MsgSet
<1>15. CASE Restart
  <2>1. Job(TRUE, 0) \in JobSet /\ Job(FALSE, 0) \in JobSet
    BY DEF Job, JobSet
  <2>2. \A j \in JobSet, k \in JobSet :
            /\ <<>> \o <<>> \in Seq(JobSet) /\ <<j>> \o <<>> \in Seq(JobSet)
            /\ <<>> \o <<k>> \in Seq(JobSet) /\ <<j>> \o <<k>> \in Seq(JobSet)
            /\ <<>> \in Seq(JobSet)
    <3> HIDE DEF TypeInv, Typed
    <3> QED OBVIOUS
  <2>3. jobs' \in Seq(JobSet)
    <3>1. \/ jobs' = <<>> \o <<>> \/ jobs' = <<Job(TRUE, 0)>> \o <<>>
          \/ jobs' = <<>> \o <<Job(FALSE, 0)>> \/ jobs' = <<Job(TRUE, 0)>> \o <<Job(FALSE, 0)>>
          \/ jobs' = <<>>
      BY <1>15, Zenon DEF Restart
    <3> QED BY <2>1, <2>2, <3>1, Zenon
  <2>4. slips' \in 0 .. MaxSlips /\ scan' \in ScanSet /\ scan'.at = "idle"
    BY <1>15 DEF Restart, Slips, NoScan, ScanSet
  <2>5. /\ UNCHANGED <<file, verdict, object, pending, msg>>
        /\ upload' = IF upload \in {"put", "registered"} THEN "over" ELSE upload
        /\ sending' = [m \in Letter |-> IF msg[m].is = "none" THEN "none" ELSE "done"]
        /\ erasing' = [m \in Letter |-> "none"]
        /\ cleaner' = "rests" /\ sweep' = "rests"
    BY <1>15 DEF Restart
  <2> QED BY <2>3, <2>4, <2>5
<1>16. CASE VerdictExpires
  BY <1>16 DEF VerdictExpires
<1>17. ASSUME NEW m \in Letter, Validate(m)
      PROVE  Typed'
  BY <1>17 DEF Validate, SendGoes, MsgSet
<1>18. ASSUME NEW m \in Letter, Measure(m)
      PROVE  Typed'
  BY <1>18 DEF Measure, SendGoes, MsgSet
<1>19. ASSUME NEW m \in Letter, Look(m)
      PROVE  Typed'
  <2> DEFINE status == IF pending = "none" THEN "pending" ELSE pending
  <2>1. msg' = [msg EXCEPT ![m].status = status] /\ status \in {"pending", "clean", "blocked"}
    BY <1>19 DEF Look
  <2>2. msg' \in [Letter -> MsgSet]
    <3>1. [msg[m] EXCEPT !.status = status] \in MsgSet
      BY <2>1, LetterRewritten
    <3> QED BY <2>1, <3>1
  <2> QED BY <1>19, <2>2 DEF Look, SendGoes
<1>20. ASSUME NEW m \in Letter, Insert(m)
      PROVE  Typed'
  <2>1. msg' \in [Letter -> MsgSet]
    <3>1. [msg[m] EXCEPT !.is = "live", !.url = TRUE] \in MsgSet
      BY LetterRewritten
    <3> QED BY <1>20, <3>1 DEF Insert
  <2> QED BY <1>20, <2>1 DEF Insert, SendGoes
<1>21. ASSUME NEW m \in Letter, Claim(m)
      PROVE  Typed'
  <2>1. jobs' \in Seq(JobSet)
    BY <1>21, EnqueueTyped DEF Claim
  <2> QED BY <1>21, <2>1 DEF Claim, Slips
<1>22. ASSUME NEW m \in Letter, Erase(m)
      PROVE  Typed'
  BY <1>22 DEF Erase, Rests, Slips, Remove, Overlooks, MsgSet
<1>23. ASSUME NEW m \in Letter, EraseCount(m)
      PROVE  Typed'
  BY <1>23 DEF EraseCount, Rests, Slips, Remove, Overlooks, MsgSet
<1>24. ASSUME NEW m \in Letter, EraseObject(m)
      PROVE  Typed'
  BY <1>24 DEF EraseObject, Rests, Slips, Remove, Overlooks, MsgSet
<1>25. CASE UNCHANGED vars
  BY <1>25 DEF vars
<1> QED
  BY <1>1, <1>2, <1>3, <1>4, <1>5, <1>6, <1>7, <1>8, <1>9, <1>10, <1>11, <1>12, <1>13,
     <1>14, <1>15, <1>16, <1>17, <1>18, <1>19, <1>20, <1>21, <1>22, <1>23, <1>24, <1>25
  DEF AttNext

\* Everything has its type, whatever fails and whenever the server is started anew.
THEOREM AttTypeCorrect == AttSpec => []AttTypeOK
<1>1. AttInit => TypeInv
  BY InitTyped
<1>2. TypeInv /\ [AttNext]_vars => TypeInv'
  BY NextFlags, NextTyped DEF TypeInv
<1>3. TypeInv => AttTypeOK
  BY DEF TypeInv, FlagsTyped, Typed, AttTypeOK, MsgSet, JobSet, ScanSet
<1> QED BY <1>1, <1>2, <1>3, PTL DEF AttSpec

-----------------------------------------------------------------------------
\* InfectedStaysIn with what it rests on: neither the cache of verdicts nor the job in
\* hand calls an infected file clean.
Contained ==
    file = "infected" =>
        /\ verdict # "clean" /\ scan.says # "clean"
        /\ "public" \notin object
        /\ pending # "clean"
        /\ \A m \in Letter : msg[m].status # "clean"

LEMMA InitContained == AttInit => Contained
  BY DEF AttInit, Contained, NoMsg, NoScan

\* Only Judge decides, by the file itself or by the cache; the other steps pass on what
\* they have read.
LEMMA NextContained ==
  ASSUME TypeInv, Contained, [AttNext]_vars
  PROVE  Contained'
<1> USE DEF Contained, fixed, tasks, history
<1>t. scan \in ScanSet /\ msg \in [Letter -> MsgSet]
  BY DEF TypeInv, Typed
<1>1. CASE UploadPut
  BY <1>1, <1>t DEF UploadPut
<1>2. CASE UploadRegister
  BY <1>2, <1>t DEF UploadRegister
<1>3. CASE UploadCharge
  BY <1>3, <1>t DEF UploadCharge
<1>4. CASE Take
  BY <1>4, <1>t DEF Take, ScanSet, NoScan, Judged, Retry, RetryOf, MsgSet
<1>5. CASE Judge
  <2>1. UNCHANGED <<file, object, pending, msg>>
    BY <1>5 DEF Judge
  <2>2. \/ Judged("blocked") /\ verdict' = "blocked"
        \/ Judged(verdict) /\ verdict' = verdict
        \/ scan' = NoScan /\ verdict' = verdict
        \/ Judged("clean") /\ file # "infected"
    <3>1. CASE (scan.hash /\ file = "altered") \/ verdict # "none" \/ ~scanner
      BY <1>5, <3>1 DEF Judge
    <3>2. CASE ~((scan.hash /\ file = "altered") \/ verdict # "none" \/ ~scanner)
      <4>1. CASE Retry /\ UNCHANGED verdict
        BY <4>1 DEF Retry, RetryOf
      <4>2. CASE ~(Retry /\ UNCHANGED verdict) /\ file = "infected"
        BY <1>5, <3>2, <4>2 DEF Judge
      <4>3. CASE ~(Retry /\ UNCHANGED verdict) /\ file # "infected"
        BY <1>5, <3>2, <4>3 DEF Judge
      <4> QED BY <4>1, <4>2, <4>3
    <3> QED BY <3>1, <3>2
  <2>3. \A says : Judged(says) => scan'.says = says
    BY <1>t DEF Judged, ScanSet
  <2>4. scan' = NoScan => scan'.says = "none"
    BY DEF NoScan
  <2>5. file = "infected" => scan'.says # "clean" /\ verdict' # "clean"
    BY <2>2, <2>3, <2>4
  <2> QED BY <2>1, <2>5
<1>6. CASE Move
  BY <1>6, <1>t DEF Move, ScanSet, NoScan, Judged, Retry, RetryOf, MsgSet
<1>7. CASE SetStatus
  BY <1>7, <1>t DEF SetStatus, ScanSet, NoScan, Judged, Retry, RetryOf, MsgSet
<1>8. CASE Tell
  <2>1. UNCHANGED <<file, verdict, object, pending>> /\ scan' = NoScan
    BY <1>8 DEF Tell, Retry, RetryOf
  <2>2. ASSUME NEW m \in Letter
        PROVE  msg'[m].status \in {msg[m].status, scan.says}
    <3>1. CASE UNCHANGED msg
      BY <3>1
    <3>2. CASE ~UNCHANGED msg
      <4>1. msg' = [k \in Letter |->
                       IF Refers(k)
                       THEN [msg[k] EXCEPT !.status = scan.says, !.url = scan.says = "clean"]
                       ELSE msg[k]]
        BY <1>8, <3>2 DEF Tell
      <4>2. msg'[m] = msg[m] \/ msg'[m].status = scan.says
        BY <1>t, <4>1 DEF MsgSet
      <4> QED BY <4>2
    <3> QED BY <3>1, <3>2
  <2> QED BY <2>1, <2>2 DEF NoScan
<1>9. CASE OrphanFind
  BY <1>9, <1>t DEF OrphanFind, Rests, Remove, MsgSet
<1>10. CASE OrphanObject
  BY <1>10, <1>t DEF OrphanObject, Rests, Remove, MsgSet
<1>11. CASE OrphanDocument
  BY <1>11, <1>t DEF OrphanDocument, Rests, Remove, MsgSet
<1>12. CASE SweepDocuments
  BY <1>12, <1>t DEF SweepDocuments, Rests, Remove, MsgSet
<1>13. CASE SweepMessages
  BY <1>13, <1>t DEF SweepMessages, Rests, Remove, MsgSet
<1>14. CASE SweepObject
  BY <1>14, <1>t DEF SweepObject, Rests, Remove, MsgSet
<1>15. CASE Restart
  BY <1>15, <1>t DEF Restart, NoScan
<1>16. CASE VerdictExpires
  BY <1>16, <1>t DEF VerdictExpires
<1>17. ASSUME NEW m \in Letter, Validate(m)
      PROVE  Contained'
  BY <1>17, <1>t DEF Validate, SendGoes, MsgSet
<1>18. ASSUME NEW m \in Letter, Measure(m)
      PROVE  Contained'
  BY <1>18, <1>t DEF Measure, SendGoes, MsgSet
<1>19. ASSUME NEW m \in Letter, Look(m)
      PROVE  Contained'
  BY <1>19, <1>t DEF Look, SendGoes, MsgSet
<1>20. ASSUME NEW m \in Letter, Insert(m)
      PROVE  Contained'
  BY <1>20, <1>t DEF Insert, SendGoes, MsgSet
<1>21. ASSUME NEW m \in Letter, Claim(m)
      PROVE  Contained'
  BY <1>21, <1>t DEF Claim
<1>22. ASSUME NEW m \in Letter, Erase(m)
      PROVE  Contained'
  BY <1>22, <1>t DEF Erase, Rests, Remove, MsgSet
<1>23. ASSUME NEW m \in Letter, EraseCount(m)
      PROVE  Contained'
  BY <1>23, <1>t DEF EraseCount, Rests, Remove, MsgSet
<1>24. ASSUME NEW m \in Letter, EraseObject(m)
      PROVE  Contained'
  BY <1>24, <1>t DEF EraseObject, Rests, Remove, MsgSet
<1>25. CASE UNCHANGED vars
  BY <1>25 DEF vars
<1> QED
  BY <1>1, <1>2, <1>3, <1>4, <1>5, <1>6, <1>7, <1>8, <1>9, <1>10, <1>11, <1>12, <1>13,
     <1>14, <1>15, <1>16, <1>17, <1>18, <1>19, <1>20, <1>21, <1>22, <1>23, <1>24, <1>25
  DEF AttNext

\* An infected file is never public, and nothing says that it is clean, however many
\* operations fail, with or without a scanner, and with any number of messages.
THEOREM InfectedNeverOut == AttSpec => []InfectedStaysIn
<1>1. AttInit => TypeInv /\ Contained
  BY InitTyped, InitContained
<1>2. TypeInv /\ Contained /\ [AttNext]_vars => TypeInv' /\ Contained'
  BY NextFlags, NextTyped, NextContained DEF TypeInv
<1>3. Contained => InfectedStaysIn
  BY DEF Contained, InfectedStaysIn
<1> QED BY <1>1, <1>2, <1>3, PTL DEF AttSpec

-----------------------------------------------------------------------------
\* PendingIsScanned message by message: each that waits has a job in the queue or in hand,
\* or its own send has the job still to give.  A message in the middle of its send is not
\* there yet.
Waits(m) == Refers(m) /\ msg[m].status = "pending"
Watched ==
    \A m \in Letter :
        /\ sending[m] \in {"valid", "looked"} => msg[m].is = "none"
        /\ Waits(m) => jobs # <<>> \/ scan # NoScan \/ sending[m] = "inserted" \/ forgone

LEMMA InitWatched == AttInit => Watched
  BY DEF AttInit, Watched, Waits, Refers, NoMsg

\* A job that is repeated is in the queue again, or else the scanner has given up.
LEMMA RetryWatches ==
  ASSUME NEW job, NEW rest \in Seq(JobSet), RetryOf(job, rest)
  PROVE  jobs' # <<>> \/ forgone'
<1>1. CASE jobs' = Append(rest, Job(job.hash, job.attempts + 1))
  BY <1>1
<1>2. CASE forgone' = TRUE
  BY <1>2
<1> QED BY <1>1, <1>2 DEF RetryOf

LEMMA EnqueueWatches ==
  ASSUME NEW hash, jobs \in Seq(JobSet), Enqueue(hash, 0)
  PROVE  jobs' # <<>>
  BY DEF Enqueue

\* Where nothing is said of the messages and sends, and what was waited for goes on.
LEMMA StillWatched ==
  ASSUME Watched, UNCHANGED <<msg, sending>>,
         jobs' # <<>> \/ forgone' \/ scan' # NoScan
                      \/ UNCHANGED <<jobs, scan, forgone>>
  PROVE  Watched'
  BY DEF Watched, Waits, Refers

LEMMA NextWatched ==
  ASSUME TypeInv, Watched, [AttNext]_vars
  PROVE  Watched'
<1> USE DEF fixed, tasks, history
<1>t. /\ scan \in ScanSet /\ msg \in [Letter -> MsgSet] /\ jobs \in Seq(JobSet)
      /\ sending \in [Letter -> {"none", "valid", "looked", "inserted", "done"}]
  BY DEF TypeInv, Typed
<1>1. CASE UploadPut
  BY <1>1, StillWatched DEF UploadPut
<1>2. CASE UploadRegister
  BY <1>2, StillWatched DEF UploadRegister
<1>3. CASE UploadCharge
  <2>1. jobs' # <<>> \/ UNCHANGED jobs
    BY <1>3, <1>t, EnqueueWatches DEF UploadCharge
  <2> QED BY <1>3, <2>1, StillWatched DEF UploadCharge
<1>4. CASE Take
  <2>1. jobs' # <<>> \/ forgone' \/ scan' # NoScan
    <3>1. CASE RetryOf(Head(jobs), Tail(jobs))
      BY <1>4, <1>t, <3>1, HeadTyped, RetryWatches DEF Take
    <3>2. CASE ~RetryOf(Head(jobs), Tail(jobs))
      <4>1. scan'.at = "judge"
        BY <1>4, <3>2 DEF Take
      <4> QED BY <4>1 DEF NoScan
    <3> QED BY <3>1, <3>2
  <2> QED BY <1>4, <2>1, StillWatched DEF Take
<1>5. CASE Judge
  <2>1. CASE Retry
    BY <1>5, <1>t, <2>1, RetryWatches, StillWatched DEF Judge, Retry
  <2>2. CASE forgone' = TRUE
    BY <1>5, <2>2, StillWatched DEF Judge
  <2>3. ASSUME NEW says, Judged(says)
        PROVE  Watched'
    <3>1. scan'.at = "apply"
      BY <1>t, <2>3 DEF Judged, ScanSet
    <3> QED BY <1>5, <3>1, StillWatched DEF Judge, NoScan
  <2> QED BY <1>5, <2>1, <2>2, <2>3 DEF Judge
<1>6. CASE Move
  <2>1. CASE Retry
    BY <1>6, <1>t, <2>1, RetryWatches, StillWatched DEF Move, Retry
  <2>2. CASE ~Retry
    <3>1. scan'.at = "status"
      BY <1>6, <1>t, <2>2 DEF Move, ScanSet
    <3> QED BY <1>6, <3>1, StillWatched DEF Move, NoScan
  <2> QED BY <2>1, <2>2
<1>7. CASE SetStatus
  <2>1. scan'.at = "messages"
    BY <1>7, <1>t DEF SetStatus, ScanSet
  <2> QED BY <1>7, <2>1, StillWatched DEF SetStatus, NoScan
<1>8. CASE Tell
  <2>1. CASE Retry /\ UNCHANGED msg
    BY <1>8, <1>t, <2>1, RetryWatches, StillWatched DEF Tell, Retry
  <2>2. CASE msg' = [m \in Letter |->
                        IF Refers(m)
                        THEN [msg[m] EXCEPT !.status = scan.says, !.url = scan.says = "clean"]
                        ELSE msg[m]]
    <3>1. scan.says \in {"clean", "blocked"}
      BY <1>8 DEF TypeInv, Typed, Tell
    <3>2. ASSUME NEW m \in Letter
          PROVE  msg'[m].is = msg[m].is /\ ~Waits(m)'
      BY <1>t, <2>2, <3>1 DEF MsgSet, Waits, Refers
    <3>3. UNCHANGED sending
      BY <1>8 DEF Tell
    <3> QED BY <3>2, <3>3 DEF Watched
  <2> QED BY <1>8, <2>1, <2>2 DEF Tell
<1>9. CASE OrphanFind
  BY <1>9, StillWatched DEF OrphanFind, Rests
<1>10. CASE OrphanObject
  BY <1>10, StillWatched DEF OrphanObject, Rests
<1>11. CASE OrphanDocument
  BY <1>11, StillWatched DEF OrphanDocument, Rests
<1>12. CASE SweepDocuments
  BY <1>12, StillWatched DEF SweepDocuments, Rests
<1>13. CASE SweepMessages
  BY <1>13, StillWatched DEF SweepMessages, Rests
<1>14. CASE SweepObject
  BY <1>14, StillWatched DEF SweepObject, Rests
<1>15. CASE Restart
  <2>1. /\ UNCHANGED msg
        /\ sending' = [m \in Letter |-> IF msg[m].is = "none" THEN "none" ELSE "done"]
    BY <1>15 DEF Restart
  <2>2. ASSUME NEW m \in Letter, Waits(m)
        PROVE  jobs' # <<>> \/ forgone'
    <3>1. CASE forgone' = TRUE
      BY <3>1
    <3>2. CASE jobs' = <<>> \o <<Job(FALSE, 0)>>
      <4>1. Len(jobs') = 1
        BY <3>2
      <4> QED BY <4>1
    <3>3. CASE jobs' = <<Job(TRUE, 0)>> \o <<Job(FALSE, 0)>>
      <4>1. Len(jobs') = 2
        BY <3>3
      <4> QED BY <4>1
    <3> QED BY <1>15, <2>2, <3>1, <3>2, <3>3, Zenon DEF Restart, Waits
  <2> QED BY <2>1, <2>2 DEF Watched, Waits, Refers
<1>16. CASE VerdictExpires
  BY <1>16, StillWatched DEF VerdictExpires
<1>17. ASSUME NEW m \in Letter, Validate(m)
      PROVE  Watched'
  BY <1>17, <1>t DEF Validate, SendGoes, Watched, Waits, Refers
<1>18. ASSUME NEW m \in Letter, Measure(m)
      PROVE  Watched'
  BY <1>18, <1>t DEF Measure, SendGoes, Watched, Waits, Refers
<1>19. ASSUME NEW m \in Letter, Look(m)
      PROVE  Watched'
  BY <1>19, <1>t DEF Look, SendGoes, Watched, Waits, Refers, MsgSet
<1>20. ASSUME NEW m \in Letter, Insert(m)
      PROVE  Watched'
  BY <1>20, <1>t DEF Insert, SendGoes, Watched, Waits, Refers, MsgSet
<1>21. ASSUME NEW m \in Letter, Claim(m)
      PROVE  Watched'
  <2>1. CASE msg[m].status = "pending"
    <3>1. jobs' # <<>>
      BY <1>21, <1>t, <2>1, EnqueueWatches DEF Claim
    <3> QED BY <1>21, <1>t, <3>1 DEF Claim, Watched, Waits, Refers
  <2>2. CASE msg[m].status # "pending"
    BY <1>21, <1>t, <2>2 DEF Claim, Watched, Waits, Refers
  <2> QED BY <2>1, <2>2
<1>22. ASSUME NEW m \in Letter, Erase(m)
      PROVE  Watched'
  BY <1>22, <1>t DEF Erase, Rests, Watched, Waits, Refers, MsgSet
<1>23. ASSUME NEW m \in Letter, EraseCount(m)
      PROVE  Watched'
  BY <1>23, StillWatched DEF EraseCount, Rests
<1>24. ASSUME NEW m \in Letter, EraseObject(m)
      PROVE  Watched'
  BY <1>24, StillWatched DEF EraseObject, Rests
<1>25. CASE UNCHANGED vars
  BY <1>25, StillWatched DEF vars
<1> QED
  BY <1>1, <1>2, <1>3, <1>4, <1>5, <1>6, <1>7, <1>8, <1>9, <1>10, <1>11, <1>12, <1>13,
     <1>14, <1>15, <1>16, <1>17, <1>18, <1>19, <1>20, <1>21, <1>22, <1>23, <1>24, <1>25
  DEF AttNext

\* A message that waits for the scan of its file waits for a job, or for the end of its
\* send, and goes on waiting only where the scanner has given up.
THEOREM PendingAreWatched == AttSpec => []PendingIsScanned
<1>1. AttInit => TypeInv /\ Watched
  BY InitTyped, InitWatched
<1>2. TypeInv /\ Watched /\ [AttNext]_vars => TypeInv' /\ Watched'
  BY NextFlags, NextTyped, NextWatched DEF TypeInv
<1>3. Watched => PendingIsScanned
  BY DEF Watched, Waits, PendingIsScanned, Awaited
<1> QED BY <1>1, <1>2, <1>3, PTL DEF AttSpec

-----------------------------------------------------------------------------
\* Until an upload is complete, nobody but the upload knows of it.
Early ==
    /\ upload \in {"none", "put", "registered"} =>
        /\ scan = NoScan /\ jobs = <<>>
        /\ \A m \in Letter : msg[m].is = "none" /\ sending[m] = "none"
    /\ upload \in {"none", "put"} => pending = "none"

LEMMA InitEarly == AttInit => Early
  BY DEF AttInit, Early, NoMsg

LEMMA NextEarly ==
  ASSUME TypeInv, Early, [AttNext]_vars
  PROVE  Early'
<1> USE DEF fixed, tasks, history
<1>1. CASE UploadPut
  BY <1>1 DEF UploadPut, Early
<1>2. CASE UploadRegister
  BY <1>2 DEF UploadRegister, Early
<1>3. CASE UploadCharge
  BY <1>3 DEF UploadCharge, Early
<1>4. CASE Take
  <2>1. upload \notin {"none", "put", "registered"}
    BY <1>4 DEF Take, Early, NoScan
  <2> QED BY <1>4, <2>1 DEF Take, Early
<1>5. CASE Judge
  <2>1. upload \notin {"none", "put", "registered"}
    BY <1>5 DEF Judge, Early, NoScan
  <2> QED BY <1>5, <2>1 DEF Judge, Early
<1>6. CASE Move
  <2>1. upload \notin {"none", "put", "registered"}
    BY <1>6 DEF Move, Early, NoScan
  <2> QED BY <1>6, <2>1 DEF Move, Early
<1>7. CASE SetStatus
  <2>1. upload \notin {"none", "put", "registered"}
    BY <1>7 DEF SetStatus, Early, NoScan
  <2> QED BY <1>7, <2>1 DEF SetStatus, Early
<1>8. CASE Tell
  <2>1. scan.at = "messages" /\ UNCHANGED upload
    BY <1>8 DEF Tell
  <2>2. upload \notin {"none", "put", "registered"}
    BY <2>1 DEF Early, NoScan
  <2> QED BY <2>1, <2>2 DEF Early
<1>9. CASE OrphanFind
  BY <1>9 DEF OrphanFind, Rests, Early
<1>10. CASE OrphanObject
  BY <1>10 DEF OrphanObject, Rests, Early
<1>11. CASE OrphanDocument
  BY <1>11 DEF OrphanDocument, Rests, Early
<1>12. CASE SweepDocuments
  BY <1>12 DEF SweepDocuments, Rests, Early
<1>13. CASE SweepMessages
  BY <1>13 DEF SweepMessages, Rests, Early
<1>14. CASE SweepObject
  BY <1>14 DEF SweepObject, Rests, Early
<1>15. CASE Restart
  <2>1. CASE upload \in {"none", "put"}
    <3>1. upload = "none" \/ upload' = "over"
      BY <1>15, <2>1 DEF Restart
    <3>2. pending' = "none" /\ msg' = msg /\ scan' = NoScan
          /\ sending' = [m \in Letter |-> IF msg[m].is = "none" THEN "none" ELSE "done"]
      BY <1>15, <2>1 DEF Restart, Early
    <3>3. \A m \in Letter : msg[m].is = "none"
      BY <2>1 DEF Early
    <3>4. jobs' = <<>>
      <4>1. ~ \E m \in Letter : Refers(m) /\ msg[m].status = "pending"
        BY <3>3 DEF Refers
      <4>2. jobs' = <<>> \o <<>> \/ jobs' = <<>>
        BY <1>15, <2>1, <4>1, Zenon DEF Restart, Early
      <4>3. <<>> \o <<>> = <<>>
        OBVIOUS
      <4> QED BY <4>2, <4>3
    <3> QED BY <3>2, <3>3, <3>4 DEF Early
  <2>2. CASE upload \notin {"none", "put"}
    <3>1. upload' \notin {"none", "put", "registered"}
      BY <1>15, <2>2 DEF Restart, TypeInv, Typed
    <3> QED BY <3>1 DEF Early
  <2> QED BY <2>1, <2>2
<1>16. CASE VerdictExpires
  BY <1>16 DEF VerdictExpires, Early
<1>17. ASSUME NEW m \in Letter, Validate(m)
      PROVE  Early'
  <2>1. upload \notin {"none", "put", "registered"}
    BY <1>17 DEF Validate, Early
  <2> QED BY <1>17, <2>1 DEF Validate, SendGoes, Early
<1>18. ASSUME NEW m \in Letter, Measure(m)
      PROVE  Early'
  <2>1. upload \notin {"none", "put", "registered"}
    BY <1>18 DEF Measure, Early
  <2> QED BY <1>18, <2>1 DEF Measure, SendGoes, Early
<1>19. ASSUME NEW m \in Letter, Look(m)
      PROVE  Early'
  <2>1. upload \notin {"none", "put", "registered"}
    BY <1>19 DEF Look, Early
  <2> QED BY <1>19, <2>1 DEF Look, SendGoes, Early
<1>20. ASSUME NEW m \in Letter, Insert(m)
      PROVE  Early'
  <2>1. upload \notin {"none", "put", "registered"}
    BY <1>20 DEF Insert, Early
  <2> QED BY <1>20, <2>1 DEF Insert, SendGoes, Early
<1>21. ASSUME NEW m \in Letter, Claim(m)
      PROVE  Early'
  <2>1. upload \notin {"none", "put", "registered"}
    BY <1>21 DEF Claim, Early
  <2> QED BY <1>21, <2>1 DEF Claim, Early
<1>22. ASSUME NEW m \in Letter, Erase(m)
      PROVE  Early'
  <2>1. upload \notin {"none", "put", "registered"}
    BY <1>22 DEF Erase, Refers, Early
  <2> QED BY <1>22, <2>1 DEF Erase, Rests, Early
<1>23. ASSUME NEW m \in Letter, EraseCount(m)
      PROVE  Early'
  BY <1>23 DEF EraseCount, Rests, Early
<1>24. ASSUME NEW m \in Letter, EraseObject(m)
      PROVE  Early'
  BY <1>24 DEF EraseObject, Rests, Early
<1>25. CASE UNCHANGED vars
  BY <1>25 DEF vars, Early
<1> QED
  BY <1>1, <1>2, <1>3, <1>4, <1>5, <1>6, <1>7, <1>8, <1>9, <1>10, <1>11, <1>12, <1>13,
     <1>14, <1>15, <1>16, <1>17, <1>18, <1>19, <1>20, <1>21, <1>22, <1>23, <1>24, <1>25
  DEF AttNext

\* Of a sound file nothing says that it is infected.
SoundPasses == file = "sound" => verdict # "blocked" /\ scan.says # "blocked"

LEMMA InitSound == AttInit => SoundPasses
  BY DEF AttInit, SoundPasses, NoScan

LEMMA NextSound ==
  ASSUME TypeInv, SoundPasses, [AttNext]_vars
  PROVE  SoundPasses'
<1> USE DEF fixed, tasks, history
<1>t. scan \in ScanSet
  BY DEF TypeInv, Typed
<1>1. CASE UploadPut
  BY <1>1 DEF UploadPut, SoundPasses
<1>2. CASE UploadRegister
  BY <1>2 DEF UploadRegister, SoundPasses
<1>3. CASE UploadCharge
  BY <1>3 DEF UploadCharge, SoundPasses
<1>4. CASE Take
  <2>1. UNCHANGED <<file, verdict>>
    BY <1>4 DEF Take
  <2>2. scan'.says = "none"
    BY <1>4 DEF Take, RetryOf, NoScan
  <2> QED BY <2>1, <2>2 DEF SoundPasses
<1>5. CASE Judge
  <2>1. CASE file = "sound"
    <3>1. UNCHANGED file /\ ~(scan.hash /\ file = "altered")
      BY <1>5, <2>1 DEF Judge
    <3>2. \/ Judged(verdict) /\ verdict' = verdict
          \/ scan' = NoScan /\ verdict' = verdict
          \/ Judged("clean") /\ verdict' = "clean"
      <4>1. CASE verdict # "none" \/ ~scanner
        BY <1>5, <3>1, <4>1 DEF Judge
      <4>2. CASE verdict = "none" /\ scanner /\ Retry /\ UNCHANGED verdict
        BY <4>2 DEF Retry, RetryOf
      <4>3. CASE verdict = "none" /\ scanner /\ ~(Retry /\ UNCHANGED verdict)
        BY <1>5, <2>1, <3>1, <4>3 DEF Judge
      <4> QED BY <4>1, <4>2, <4>3
    <3>3. \A says : Judged(says) => scan'.says = says
      BY <1>t DEF Judged, ScanSet
    <3>4. scan' = NoScan => scan'.says = "none"
      BY DEF NoScan
    <3> QED BY <2>1, <3>1, <3>2, <3>3, <3>4 DEF SoundPasses
  <2>2. CASE file # "sound"
    BY <1>5, <2>2 DEF Judge, SoundPasses
  <2> QED BY <2>1, <2>2
<1>6. CASE Move
  <2>1. UNCHANGED <<file, verdict>>
    BY <1>6 DEF Move
  <2>2. scan'.says \in {scan.says, "none"}
    BY <1>6, <1>t DEF Move, Retry, RetryOf, NoScan, ScanSet
  <2> QED BY <2>1, <2>2 DEF SoundPasses
<1>7. CASE SetStatus
  <2>1. UNCHANGED <<file, verdict>>
    BY <1>7 DEF SetStatus
  <2>2. scan'.says \in {scan.says, "none"}
    BY <1>7, <1>t DEF SetStatus, Retry, RetryOf, NoScan, ScanSet
  <2> QED BY <2>1, <2>2 DEF SoundPasses
<1>8. CASE Tell
  <2>1. UNCHANGED <<file, verdict>>
    BY <1>8 DEF Tell
  <2>2. scan'.says \in {scan.says, "none"}
    <3>1. scan' = NoScan
      BY <1>8 DEF Tell, Retry, RetryOf
    <3> QED BY <3>1 DEF NoScan
  <2> QED BY <2>1, <2>2 DEF SoundPasses
<1>9. CASE OrphanFind
  BY <1>9 DEF OrphanFind, Rests, SoundPasses
<1>10. CASE OrphanObject
  BY <1>10 DEF OrphanObject, Rests, SoundPasses
<1>11. CASE OrphanDocument
  BY <1>11 DEF OrphanDocument, Rests, SoundPasses
<1>12. CASE SweepDocuments
  BY <1>12 DEF SweepDocuments, Rests, SoundPasses
<1>13. CASE SweepMessages
  BY <1>13 DEF SweepMessages, Rests, SoundPasses
<1>14. CASE SweepObject
  BY <1>14 DEF SweepObject, Rests, SoundPasses
<1>15. CASE Restart
  BY <1>15 DEF Restart, SoundPasses, NoScan
<1>16. CASE VerdictExpires
  BY <1>16 DEF VerdictExpires, SoundPasses
<1>17. ASSUME NEW m \in Letter, Validate(m)
      PROVE  SoundPasses'
  BY <1>17 DEF Validate, SendGoes, SoundPasses
<1>18. ASSUME NEW m \in Letter, Measure(m)
      PROVE  SoundPasses'
  BY <1>18 DEF Measure, SendGoes, SoundPasses
<1>19. ASSUME NEW m \in Letter, Look(m)
      PROVE  SoundPasses'
  BY <1>19 DEF Look, SendGoes, SoundPasses
<1>20. ASSUME NEW m \in Letter, Insert(m)
      PROVE  SoundPasses'
  BY <1>20 DEF Insert, SendGoes, SoundPasses
<1>21. ASSUME NEW m \in Letter, Claim(m)
      PROVE  SoundPasses'
  BY <1>21 DEF Claim, SoundPasses
<1>22. ASSUME NEW m \in Letter, Erase(m)
      PROVE  SoundPasses'
  BY <1>22 DEF Erase, Rests, SoundPasses
<1>23. ASSUME NEW m \in Letter, EraseCount(m)
      PROVE  SoundPasses'
  BY <1>23 DEF EraseCount, Rests, SoundPasses
<1>24. ASSUME NEW m \in Letter, EraseObject(m)
      PROVE  SoundPasses'
  BY <1>24 DEF EraseObject, Rests, SoundPasses
<1>25. CASE UNCHANGED vars
  BY <1>25 DEF vars, SoundPasses
<1> QED
  BY <1>1, <1>2, <1>3, <1>4, <1>5, <1>6, <1>7, <1>8, <1>9, <1>10, <1>11, <1>12, <1>13,
     <1>14, <1>15, <1>16, <1>17, <1>18, <1>19, <1>20, <1>21, <1>22, <1>23, <1>24, <1>25
  DEF AttNext

-----------------------------------------------------------------------------
\* What a sound file's object is relied on for, and by whom it is wanted while its verdict
\* is passed on; and who is about to remove it has found nobody who shows it.
Relied ==
    \/ pending = "clean"
    \/ \E m \in Letter : (Refers(m) \/ sending[m] = "looked") /\ msg[m].status = "clean"
Wanted == pending # "none" \/ InHand \/ Referenced
Settled ==
    /\ Relied => object = {"public"}
    /\ scan.at \in {"status", "messages"} /\ Wanted => object = {"public"}
    /\ \A m \in Letter : erasing[m] = "unreferenced" => ~Referenced
    /\ sweep = "orphan" => ~Referenced

\* A step that touches neither the object nor what is said of it, and finds nothing anew.
LEMMA StillSettled ==
  ASSUME Settled, UNCHANGED <<object, pending, msg, sending>>,
         scan'.at \in {"status", "messages"} => scan'.at = scan.at,
         \A m \in Letter : erasing'[m] = "unreferenced" => erasing[m] = "unreferenced",
         sweep' = "orphan" => sweep = "orphan"
  PROVE  Settled'
  BY DEF Settled, Relied, Wanted, InHand, Referenced, Refers

\* Who removes the object finds it wanted by nobody, or collides.
LEMMA RemovedSettled ==
  ASSUME Settled, UNCHANGED <<pending, msg, sending, scan>>, object' = {},
         pending = "none", ~InHand, ~Referenced
  PROVE  Settled'
  BY DEF Settled, Relied, Wanted, InHand, Referenced, Refers

\* Before the upload is complete nothing is relied on.
LEMMA EarlySettled ==
  ASSUME Early, upload \in {"none", "put", "registered"}, pending' # "clean",
         UNCHANGED <<msg, sending, scan>>
  PROVE  Settled'
<1>1. scan' = NoScan /\ \A m \in Letter : msg'[m].is = "none" /\ sending'[m] = "none"
  BY DEF Early
<1>2. ~Referenced' /\ ~Relied'
  BY <1>1 DEF Referenced, Refers, Relied
<1> QED BY <1>1, <1>2 DEF Settled, NoScan

LEMMA InitSettled == AttInit => Settled
  BY DEF AttInit, Settled, Relied, Wanted, InHand, Referenced, Refers, NoMsg, NoScan

LEMMA NextSettled ==
  ASSUME TypeInv, Early, Settled, file = "sound", SoundPasses,
         ~collided', ~blind', [AttNext]_vars
  PROVE  Settled'
<1> USE DEF fixed, tasks, history
<1>t. /\ scan \in ScanSet /\ msg \in [Letter -> MsgSet]
      /\ sending \in [Letter -> {"none", "valid", "looked", "inserted", "done"}]
      /\ erasing \in [Letter -> {"none", "deleted", "unreferenced"}]
  BY DEF TypeInv, Typed
<1>1. CASE UploadPut
  <2>1. upload \in {"none", "put", "registered"} /\ UNCHANGED <<msg, sending, scan>>
    BY <1>1 DEF UploadPut
  <2>2. pending' # "clean"
    <3>1. pending = "none" \/ upload = "registered"
      BY <1>1 DEF UploadPut, Early
    <3> QED BY <1>1, <3>1 DEF UploadPut
  <2> QED BY <2>1, <2>2, EarlySettled
<1>2. CASE UploadRegister
  <2>1. upload \in {"none", "put", "registered"} /\ UNCHANGED <<msg, sending, scan>>
    BY <1>2 DEF UploadRegister
  <2>2. pending' # "clean"
    <3>1. pending = "none" \/ upload = "registered"
      BY <1>2 DEF UploadRegister, Early
    <3> QED BY <1>2, <3>1 DEF UploadRegister
  <2> QED BY <2>1, <2>2, EarlySettled
<1>3. CASE UploadCharge
  <2>1. upload = "registered" /\ UNCHANGED <<msg, sending, scan, erasing, sweep>>
    BY <1>3 DEF UploadCharge
  <2>2. CASE UNCHANGED <<object, pending>>
    BY <2>1, <2>2, StillSettled
  <2>3. CASE pending' = "none"
    BY <2>1, <2>3, EarlySettled
  <2> QED BY <1>3, <2>2, <2>3 DEF UploadCharge
<1>4. CASE Take
  <2>1. scan'.at \in {"idle", "judge"}
    BY <1>4 DEF Take, RetryOf, NoScan
  <2> QED BY <1>4, <2>1, StillSettled DEF Take
<1>5. CASE Judge
  <2>1. \/ scan' = NoScan \/ Judged("blocked") \/ Judged(verdict) \/ Judged("clean")
    <3>1. CASE (scan.hash /\ file = "altered") \/ verdict # "none" \/ ~scanner
      BY <1>5, <3>1 DEF Judge
    <3>2. CASE ~((scan.hash /\ file = "altered") \/ verdict # "none" \/ ~scanner)
      <4>1. CASE Retry /\ UNCHANGED verdict
        BY <4>1 DEF Retry, RetryOf
      <4>2. CASE ~(Retry /\ UNCHANGED verdict)
        BY <1>5, <3>2, <4>2 DEF Judge
      <4> QED BY <4>1, <4>2
    <3> QED BY <3>1, <3>2
  <2>2. \A says : Judged(says) => scan'.at = "apply"
    BY <1>t DEF Judged, ScanSet
  <2>3. scan'.at \in {"idle", "apply"}
    BY <2>1, <2>2 DEF NoScan
  <2> QED BY <1>5, <2>3, StillSettled DEF Judge
<1>6. CASE Move
  <2>1. UNCHANGED <<pending, msg, sending, erasing, cleaner, sweep>> /\ scan.at = "apply"
    BY <1>6 DEF Move
  <2>2. scan.says = "clean"
    BY <1>6, <2>1 DEF TypeInv, Typed, SoundPasses
  <2>3. CASE object' = {"public"}
    BY <2>1, <2>3 DEF Settled, Referenced, Refers
  <2>4. CASE Retry /\ UNCHANGED object
    <3>1. scan'.at = "idle"
      BY <2>4 DEF Retry, RetryOf, NoScan
    <3> QED BY <2>1, <2>4, <3>1, StillSettled
  <2> QED BY <1>6, <2>2, <2>3, <2>4 DEF Move
<1>7. CASE SetStatus
  <2>1. UNCHANGED <<object, msg, sending, erasing, cleaner, sweep>> /\ scan.at = "status"
    BY <1>7 DEF SetStatus
  <2>2. pending' = pending \/ (pending # "none" /\ pending' # "none")
    BY <1>7 DEF SetStatus, TypeInv, Typed
  <2>3. Wanted' <=> Wanted
    BY <2>1, <2>2 DEF Wanted, InHand, Referenced, Refers
  <2>4. Relied' => Relied \/ Wanted
    BY <2>1, <2>2 DEF Relied, Wanted, Refers
  <2>5. UNCHANGED Referenced
    BY <2>1 DEF Referenced, Refers
  <2> QED BY <2>1, <2>3, <2>4, <2>5 DEF Settled
<1>8. CASE Tell
  <2>1. /\ UNCHANGED <<object, pending, sending, erasing, cleaner, sweep>>
        /\ scan.at = "messages" /\ scan' = NoScan
    BY <1>8 DEF Tell, Retry, RetryOf
  <2>2. CASE UNCHANGED msg
    BY <2>1, <2>2, StillSettled DEF NoScan
  <2>3. CASE msg' = [m \in Letter |->
                        IF Refers(m)
                        THEN [msg[m] EXCEPT !.status = scan.says, !.url = scan.says = "clean"]
                        ELSE msg[m]]
    <3>1. ASSUME NEW m \in Letter
          PROVE  (Refers(m) => Referenced) /\ (Refers(m)' => Refers(m))
                 /\ (~Refers(m) => msg'[m] = msg[m])
      BY <1>t, <2>3 DEF Refers, Referenced, MsgSet
    <3>2. Referenced' => Referenced
      BY <3>1 DEF Referenced
    <3>3. Relied' => Relied \/ Referenced
      BY <2>1, <3>1 DEF Relied
    <3>4. Referenced => object = {"public"}
      BY <2>1 DEF Settled, Wanted
    <3> QED BY <2>1, <3>2, <3>3, <3>4 DEF Settled, NoScan
  <2> QED BY <1>8, <2>2, <2>3 DEF Tell
<1>9. CASE OrphanFind
  BY <1>9, StillSettled DEF OrphanFind, Rests
<1>10. CASE OrphanObject
  <2>1. UNCHANGED object
    BY <1>10 DEF OrphanObject
  <2> QED BY <1>10, <2>1, StillSettled DEF OrphanObject, Rests
<1>11. CASE OrphanDocument
  <2>1. UNCHANGED <<object, msg, sending, scan, erasing, sweep>> /\ pending' = "none"
    BY <1>11 DEF OrphanDocument, Rests
  <2> QED BY <2>1 DEF Settled, Relied, Wanted, InHand, Referenced, Refers
<1>12. CASE SweepDocuments
  BY <1>12, StillSettled DEF SweepDocuments, Rests
<1>13. CASE SweepMessages
  <2>1. /\ UNCHANGED <<object, pending, msg, sending, scan, erasing>>
        /\ sweep' = "orphan" => ~Referenced
    BY <1>13 DEF SweepMessages, Rests, Overlooks
  <2> QED BY <2>1 DEF Settled, Relied, Wanted, InHand, Referenced, Refers
<1>14. CASE SweepObject
  <2>1. /\ UNCHANGED <<pending, msg, sending, scan>> /\ ~Referenced
        /\ \A k \in Letter : erasing'[k] = "unreferenced" => erasing[k] = "unreferenced"
        /\ sweep' = "orphan" => sweep = "orphan"
    BY <1>14, <1>t DEF SweepObject, Rests, Settled
  <2>2. CASE UNCHANGED object
    BY <2>1, <2>2, StillSettled
  <2>3. CASE object' = {} /\ collided' = (collided \/ InHand \/ pending # "none")
    BY <2>1, <2>3, RemovedSettled
  <2> QED BY <1>14, <2>2, <2>3 DEF SweepObject, Remove
<1>15. CASE Restart
  <2>1. /\ UNCHANGED <<object, pending, msg>> /\ sweep' = "rests" /\ scan' = NoScan
        /\ sending' = [m \in Letter |-> IF msg[m].is = "none" THEN "none" ELSE "done"]
        /\ erasing' = [m \in Letter |-> "none"]
    BY <1>15 DEF Restart
  <2>2. Relied' => Relied
    BY <2>1 DEF Relied, Refers
  <2> QED BY <2>1, <2>2 DEF Settled, NoScan
<1>16. CASE VerdictExpires
  BY <1>16, StillSettled DEF VerdictExpires
<1>17. ASSUME NEW m \in Letter, Validate(m)
      PROVE  Settled'
  <2>1. /\ UNCHANGED <<object, pending, scan, erasing, sweep>>
        /\ \A k \in Letter : sending'[k] = IF k = m THEN "valid" ELSE sending[k]
    BY <1>17, <1>t DEF Validate, SendGoes
  <2>2. UNCHANGED msg /\ pending # "none"
    BY <1>17 DEF Validate
  <2>3. Wanted /\ (Relied' => Relied)
    BY <2>1, <2>2 DEF Wanted, Relied, Refers
  <2> QED BY <2>1, <2>2, <2>3 DEF Settled, Referenced, Refers
<1>18. ASSUME NEW m \in Letter, Measure(m)
      PROVE  Settled'
  <2>1. /\ UNCHANGED <<object, pending, scan, erasing, sweep>>
        /\ \A k \in Letter : sending'[k] = IF k = m THEN "none" ELSE sending[k]
    BY <1>18, <1>t DEF Measure, SendGoes
  <2>2. UNCHANGED msg
    BY <1>18 DEF Measure
  <2>3. (Wanted' => Wanted) /\ (Relied' => Relied)
    BY <2>1, <2>2 DEF Wanted, InHand, Referenced, Relied, Refers
  <2> QED BY <2>1, <2>2, <2>3 DEF Settled, Referenced, Refers
<1>19. ASSUME NEW m \in Letter, Look(m)
      PROVE  Settled'
  <2>1. /\ UNCHANGED <<object, pending, scan, erasing, sweep>>
        /\ \A k \in Letter : sending'[k] = IF k = m THEN "looked" ELSE sending[k]
    BY <1>19, <1>t DEF Look, SendGoes
  <2>2. /\ \A k \in Letter : k # m => msg'[k] = msg[k]
        /\ msg'[m].is = msg[m].is /\ msg'[m].url = msg[m].url
        /\ msg'[m].status = IF pending = "none" THEN "pending" ELSE pending
    BY <1>19, <1>t DEF Look, MsgSet
  <2>3. \A k \in Letter : Refers(k)' <=> Refers(k)
    BY <2>2 DEF Refers
  <2>4. InHand /\ Wanted
    BY <1>19 DEF Look, InHand, Wanted
  <2>5. Relied' => Relied
    BY <2>1, <2>2, <2>3 DEF Relied
  <2> QED BY <2>1, <2>3, <2>4, <2>5 DEF Settled, Referenced
<1>20. ASSUME NEW m \in Letter, Insert(m)
      PROVE  Settled'
  <2>1. /\ UNCHANGED <<object, pending, scan, erasing, sweep>>
        /\ \A k \in Letter : sending'[k] = IF k = m THEN "inserted" ELSE sending[k]
    BY <1>20, <1>t DEF Insert, SendGoes
  <2>2. /\ \A k \in Letter : k # m => msg'[k] = msg[k]
        /\ msg'[m].status = msg[m].status
    BY <1>20, <1>t DEF Insert, MsgSet
  <2>3. ~Removing
    BY <1>20 DEF Insert, Collides
  <2>4. InHand /\ Wanted /\ sending[m] = "looked"
    BY <1>20 DEF Insert, InHand, Wanted
  <2>5. Relied' => Relied
    BY <2>1, <2>2, <2>4 DEF Relied, Refers
  <2> QED BY <2>1, <2>3, <2>4, <2>5 DEF Settled, Removing
<1>21. ASSUME NEW m \in Letter, Claim(m)
      PROVE  Settled'
  <2>1. /\ UNCHANGED <<object, scan, erasing, sweep, msg>>
        /\ \A k \in Letter : sending'[k] = IF k = m THEN "done" ELSE sending[k]
        /\ pending' \in {"none", pending}
    BY <1>21, <1>t DEF Claim
  <2>2. (Wanted' => Wanted) /\ (Relied' => Relied)
    BY <2>1 DEF Wanted, InHand, Referenced, Relied, Refers
  <2> QED BY <2>1, <2>2 DEF Settled, Referenced, Refers
<1>22. ASSUME NEW m \in Letter, Erase(m)
      PROVE  Settled'
  <2>1. /\ UNCHANGED <<object, pending, sending, scan, sweep>>
        /\ \A k \in Letter : erasing'[k] = "unreferenced" => erasing[k] = "unreferenced"
        /\ \A k \in Letter : msg'[k].status = msg[k].status /\ (Refers(k)' => Refers(k))
    BY <1>22, <1>t DEF Erase, Rests, Refers, MsgSet
  <2> QED BY <2>1 DEF Settled, Relied, Wanted, InHand, Referenced
<1>23. ASSUME NEW m \in Letter, EraseCount(m)
      PROVE  Settled'
  <2>1. /\ UNCHANGED <<object, pending, msg, sending, scan, sweep>>
        /\ \A k \in Letter : erasing'[k] = "unreferenced" =>
               erasing[k] = "unreferenced" \/ ~Referenced
    BY <1>23, <1>t DEF EraseCount, Rests
  <2> QED BY <2>1 DEF Settled, Relied, Wanted, InHand, Referenced, Refers
<1>24. ASSUME NEW m \in Letter, EraseObject(m)
      PROVE  Settled'
  <2>1. /\ UNCHANGED <<pending, msg, sending, scan>> /\ ~Referenced
        /\ \A k \in Letter : erasing'[k] = "unreferenced" => erasing[k] = "unreferenced"
        /\ sweep' = "orphan" => sweep = "orphan"
    BY <1>24, <1>t DEF EraseObject, Rests, Settled
  <2>2. CASE UNCHANGED object
    BY <2>1, <2>2, StillSettled
  <2>3. CASE object' = {} /\ collided' = (collided \/ InHand \/ pending # "none")
    BY <2>1, <2>3, RemovedSettled
  <2> QED BY <1>24, <2>2, <2>3 DEF EraseObject, Remove
<1>25. CASE UNCHANGED vars
  BY <1>25, StillSettled DEF vars
<1> QED
  BY <1>1, <1>2, <1>3, <1>4, <1>5, <1>6, <1>7, <1>8, <1>9, <1>10, <1>11, <1>12, <1>13,
     <1>14, <1>15, <1>16, <1>17, <1>18, <1>19, <1>20, <1>21, <1>22, <1>23, <1>24, <1>25
  DEF AttNext

\* A file is what it is, and what is written down of a race stays so.
LEMMA RacesStay ==
  ASSUME [AttNext]_vars
  PROVE  (collided => collided') /\ (blind => blind') /\ UNCHANGED file
<1> USE DEF fixed, tasks, history
<1>1. CASE UploadPut
  BY <1>1 DEF UploadPut, Collides
<1>2. CASE UploadRegister
  <2>1. UNCHANGED <<file, blind>>
    BY <1>2 DEF UploadRegister
  <2>2. CASE Collides
    BY <2>1, <2>2 DEF Collides, Slips
  <2>3. CASE UNCHANGED collided
    BY <2>1, <2>3
  <2> QED BY <1>2, <2>2, <2>3 DEF UploadRegister
<1>3. CASE UploadCharge
  BY <1>3 DEF UploadCharge
<1>4. CASE Take
  BY <1>4 DEF Take
<1>5. CASE Judge
  BY <1>5 DEF Judge
<1>6. CASE Move
  BY <1>6 DEF Move
<1>7. CASE SetStatus
  BY <1>7 DEF SetStatus
<1>8. CASE Tell
  BY <1>8 DEF Tell
<1>9. CASE OrphanFind
  BY <1>9 DEF OrphanFind, Rests, Remove, Overlooks
<1>10. CASE OrphanObject
  BY <1>10 DEF OrphanObject, Rests, Remove, Overlooks
<1>11. CASE OrphanDocument
  BY <1>11 DEF OrphanDocument, Rests, Remove, Overlooks
<1>12. CASE SweepDocuments
  BY <1>12 DEF SweepDocuments, Rests, Remove, Overlooks
<1>13. CASE SweepMessages
  BY <1>13 DEF SweepMessages, Rests, Remove, Overlooks
<1>14. CASE SweepObject
  <2>1. UNCHANGED <<file, blind>> /\ Remove
    BY <1>14 DEF SweepObject, Rests
  <2>2. CASE collided' = (collided \/ InHand \/ pending # "none")
    BY <2>1, <2>2
  <2>3. CASE UNCHANGED collided
    BY <2>1, <2>3
  <2> QED BY <2>1, <2>2, <2>3 DEF Remove
<1>15. CASE Restart
  BY <1>15 DEF Restart
<1>16. CASE VerdictExpires
  BY <1>16 DEF VerdictExpires
<1>17. ASSUME NEW m \in Letter, Validate(m)
      PROVE  (collided => collided') /\ (blind => blind') /\ UNCHANGED file
  BY <1>17 DEF Validate, SendGoes
<1>18. ASSUME NEW m \in Letter, Measure(m)
      PROVE  (collided => collided') /\ (blind => blind') /\ UNCHANGED file
  BY <1>18 DEF Measure, SendGoes
<1>19. ASSUME NEW m \in Letter, Look(m)
      PROVE  (collided => collided') /\ (blind => blind') /\ UNCHANGED file
  BY <1>19 DEF Look, SendGoes
<1>20. ASSUME NEW m \in Letter, Insert(m)
      PROVE  (collided => collided') /\ (blind => blind') /\ UNCHANGED file
  BY <1>20 DEF Insert, SendGoes, Collides
<1>21. ASSUME NEW m \in Letter, Claim(m)
      PROVE  (collided => collided') /\ (blind => blind') /\ UNCHANGED file
  BY <1>21 DEF Claim
<1>22. ASSUME NEW m \in Letter, Erase(m)
      PROVE  (collided => collided') /\ (blind => blind') /\ UNCHANGED file
  BY <1>22 DEF Erase, Rests, Remove, Overlooks
<1>23. ASSUME NEW m \in Letter, EraseCount(m)
      PROVE  (collided => collided') /\ (blind => blind') /\ UNCHANGED file
  BY <1>23 DEF EraseCount, Rests, Remove, Overlooks
<1>24. ASSUME NEW m \in Letter, EraseObject(m)
      PROVE  (collided => collided') /\ (blind => blind') /\ UNCHANGED file
  <2>1. UNCHANGED <<file, blind>> /\ Remove
    BY <1>24 DEF EraseObject, Rests
  <2>2. CASE collided' = (collided \/ InHand \/ pending # "none")
    BY <2>1, <2>2
  <2>3. CASE UNCHANGED collided
    BY <2>1, <2>3
  <2> QED BY <2>1, <2>2, <2>3 DEF Remove
<1>25. CASE UNCHANGED vars
  BY <1>25 DEF vars
<1> QED
  BY <1>1, <1>2, <1>3, <1>4, <1>5, <1>6, <1>7, <1>8, <1>9, <1>10, <1>11, <1>12, <1>13,
     <1>14, <1>15, <1>16, <1>17, <1>18, <1>19, <1>20, <1>21, <1>22, <1>23, <1>24, <1>25
  DEF AttNext

PlacedInv == TypeInv /\ Early /\ Contained /\ SoundPasses
                     /\ (file = "sound" => Settled \/ collided \/ blind)

LEMMA NextPlaced ==
  ASSUME PlacedInv, [AttNext]_vars
  PROVE  PlacedInv'
<1>1. TypeInv' /\ Early' /\ Contained' /\ SoundPasses'
  BY NextFlags, NextTyped, NextEarly, NextContained, NextSound DEF PlacedInv, TypeInv
<1>2. ASSUME file' = "sound", ~collided', ~blind'
      PROVE  Settled'
  <2>1. file = "sound" /\ ~collided /\ ~blind
    BY <1>2, RacesStay
  <2>2. Settled
    BY <2>1 DEF PlacedInv
  <2> QED BY <1>2, <2>1, <2>2, NextSettled DEF PlacedInv
<1> QED BY <1>1, <1>2 DEF PlacedInv

LEMMA PlacedMeans == PlacedInv => CleanIsThere
<1> SUFFICES ASSUME PlacedInv, Shown, ~collided, ~blind PROVE object = {"public"}
  BY DEF CleanIsThere
<1>1. PICK m \in Letter : Refers(m) /\ msg[m].status = "clean"
  BY DEF Shown
<1>2. file = "sound"
  BY <1>1 DEF PlacedInv, Contained, TypeInv, Typed, Shown
<1>3. Settled /\ Relied
  BY <1>1, <1>2 DEF PlacedInv, Relied
<1> QED BY <1>3 DEF Settled

\* The file that a message shows as clean is there for all to read, unless it was removed
\* while its document or a send stood, or the sweep could not read.
THEOREM CleanIsPlaced == AttSpec => []CleanIsThere
<1>1. AttInit => PlacedInv
  BY InitTyped, InitEarly, InitContained, InitSound, InitSettled DEF PlacedInv
<1>2. PlacedInv /\ [AttNext]_vars => PlacedInv'
  BY NextPlaced
<1> QED BY <1>1, <1>2, PlacedMeans, PTL DEF AttSpec
================================================================================
