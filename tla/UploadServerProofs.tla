------------------------- MODULE UploadServerProofs -------------------------
(***************************************************************************)
(* What holds of the private uploads for every set of uploads and handlers, *)
(* every limit and any number of failures.                                 *)
(***************************************************************************)
EXTENDS UploadServer, FiniteSetTheorems, TLAPS

---------------------------------------------------------------------------
(* The steps, by the thread that takes them. *)

Expire(t) == /\ t # Worker
             /\ At(t, "idle") \/ AllCleaned(t)
             /\ \E aged \in SUBSET Upload :
                   \/ Reap(t, aged, Idle)
                   \/ /\ t \in Handler
                      /\ \E u \in Upload : Reap(t, aged, Serving("clean", "audit", u))

Sweep(t) == t # Worker /\ (NextRemoval(t) \/ Cleaned(t))

Operation(h) == \/ \E r \in Request, u \in Upload \cup {None} : Acquire(h, r, u)
                \/ FindUpload(h)
                \/ FinishOperation(h)
                \/ Claim(h)
                \/ StartFails(h)
                \/ Unstarted(h)
                \/ TakeRetained(h)
                \/ Approve(h)
                \/ Approved(h)

Audit(t) == t = Worker /\ (Retain \/ Discard \/ Discarded \/ FinishAudit)

LEMMA Steps ==
    ASSUME Next
    PROVE  \E t \in Thread :
              \/ Expire(t)
              \/ Sweep(t)
              \/ RemovalStep(t)
              \/ t \in Handler /\ (Refuse(t) \/ UploadStep(t) \/ Operation(t) \/ StartWorker(t))
              \/ Audit(t)
<1>1. ASSUME NEW h \in Handler, Arrive(h) \/ HandlerStep(h)
      PROVE  /\ h \in Thread
             /\ \/ Expire(h)
                \/ Sweep(h)
                \/ RemovalStep(h)
                \/ Refuse(h) \/ UploadStep(h) \/ Operation(h) \/ StartWorker(h)
  <2>1. h # Worker /\ h \in Thread
    BY ServerAssumption DEF Thread
  <2>2. CASE Arrive(h)
    BY <2>1, <2>2 DEF Arrive, Expire
  <2>3. CASE OperationStep(h)
    BY <2>1, <2>3 DEF OperationStep, Operation, ReapAgain, Serves, Expire
  <2>4. CASE CleanStep(h) \/ Refuse(h) \/ UploadStep(h)
    BY <2>1, <2>4 DEF CleanStep, Sweep
  <2>5. QED
    BY <1>1, <2>1, <2>2, <2>3, <2>4 DEF HandlerStep
<1>2. CASE WorkerStep
  BY <1>2 DEF WorkerStep, Audit, Thread
<1>3. CASE ReaperStep
  BY <1>3, ServerAssumption DEF ReaperStep, ReaperWakes, CleanStep, Sweep, Expire, Thread
<1>4. QED
  BY <1>1, <1>2, <1>3 DEF Next

---------------------------------------------------------------------------
(* Type correctness, and what a thread may be doing. *)

InProcessing(t) ==
    \E place \in {"receive", "staging", "reject", "release"} : At(t, place)

RemovesItsUpload(t) ==
    \E place \in {"reject", "unstarted", "discard", "approved"} : At(t, place)

\* Places at which a thread works for an upload.
HasUpload(t) ==
    \/ \E place \in {"staging", "found", "claimed", "running", "retained", "approving"} :
          At(t, place)
    \/ RemovesItsUpload(t)
    \/ At(t, "receive") /\ thread[t].request = "policy"
    \/ At(t, "operating") /\ thread[t].request \in {"audit", "approve"}
    \/ At(t, "clean") /\ thread[t].request = "audit"

WellFormed(t) ==
    /\ t = Reaper => At(t, "clean")
    /\ t = Worker => thread[t].at \in {"idle", "running", "retained", "discard"}
    /\ t \in Handler => thread[t].at \notin {"running", "retained", "discard"}
    /\ HasUpload(t) => thread[t].upload \in Upload
    /\ thread[t].at \in {"receive", "staging"} => thread[t].request \in {"workbook", "policy"}
    /\ At(t, "operating") => thread[t].request \in {"audit", "approve", "verify"}
    /\ At(t, "clean") => thread[t].request \in {None, "audit"}
    /\ RemovesItsUpload(t) => thread[t].removal # None /\ thread[t].removal.of = thread[t].upload
    /\ ~At(t, "clean") => thread[t].todo = {} /\ (thread[t].removal # None => RemovesItsUpload(t))
    /\ Removing(t, "unlink") \/ Removing(t, "rmdir") => thread[t].removal.attempts \in 1 .. 2
    /\ t \in processing <=> InProcessing(t)

ShapeOK == \A t \in Thread : WellFormed(t)

LEMMA ThreadStep ==
    ASSUME TypeOK, NEW t \in Thread, NEW record \in Record, Become(t, record)
    PROVE  /\ thread' \in [Thread -> Record]
           /\ thread'[t] = record
           /\ \A s \in Thread \ {t} : thread'[s] = thread[s]
BY DEF TypeOK, Become

LEMMA NoneIsNothing ==
    /\ None \notin Upload /\ None \notin Attempt
    /\ None # "staged" /\ None # "ready" /\ None # "workbook" /\ None # "policy"
    /\ None # "audit" /\ None # "approve" /\ None # "verify"
BY ServerAssumption DEF Request

LEMMA Attempts ==
    ASSUME TypeOK, NEW u \in Upload, NEW n \in 1 .. 2
    PROVE  /\ Removal(u, n) \in Attempt
           /\ Removal(u, n) # None
           /\ Removal(u, n).of = u
           /\ Removal(u, n).attempts = n
BY ServerAssumption DEF Removal, Listed, Attempt

\* The thread of t is replaced by a record that fits.
LEMMA StaysShaped ==
    ASSUME TypeOK, ShapeOK, NEW t \in Thread, NEW record \in Record, Become(t, record),
           processing' \subseteq Handler, processing' \ {t} = processing \ {t},
           WellFormed(t)'
    PROVE  ShapeOK'
<1>1. ASSUME NEW s \in Thread, s # t
      PROVE  WellFormed(s)'
  <2>1. thread'[s] = thread[s]
    BY <1>1, ThreadStep
  <2>2. s \in processing' <=> s \in processing
    BY <1>1
  <2>3. QED
    BY <2>1, <2>2 DEF ShapeOK, WellFormed, InProcessing, RemovesItsUpload, HasUpload, At, Removing
<1>2. QED
  BY <1>1 DEF ShapeOK

TablesOK ==
    /\ uploads \in [Upload -> {"staged", "ready", None}]
    /\ retained \subseteq Upload
    /\ pending \subseteq Upload
    /\ processing \subseteq Handler
    /\ locked \in BOOLEAN
    /\ disk \in [Upload -> {"unused", "files", "empty", "gone"}]
    /\ failures \in Failures

\* A step that replaces the record of one thread by one that fits.
LEMMA Fits ==
    ASSUME TypeOK, ShapeOK, NEW t \in Thread, NEW record \in Record, Become(t, record),
           TablesOK', processing' \ {t} = processing \ {t},
           record.at = "idle" => record = Idle, WellFormed(t)'
    PROVE  TypeOK' /\ ShapeOK'
<1>1. ShapeOK'
  BY StaysShaped DEF TablesOK
<1>2. ASSUME NEW s \in Thread, At(s, "idle")'
      PROVE  thread'[s] = Idle /\ s \notin processing'
  <2>1. CASE s = t
    BY <1>2, <2>1, ThreadStep DEF At, WellFormed, InProcessing
  <2>2. CASE s # t
    BY <1>2, <2>2, ThreadStep DEF At, TypeOK
  <2>3. QED
    BY <2>1, <2>2
<1>3. QED
  BY <1>1, <1>2, ThreadStep DEF TypeOK, TablesOK

LEMMA IdleFields ==
    /\ Idle \in Record
    /\ Idle.at = "idle" /\ Idle.request = None /\ Idle.removal = None /\ Idle.todo = {}
BY DEF Idle, Record

LEMMA ServingFields ==
    ASSUME NEW place \in {"clean", "receive", "operating"}, NEW request \in Request,
           NEW u \in Upload \cup {None}
    PROVE  LET r == Serving(place, request, u)
           IN  /\ r \in Record
               /\ r.at = place /\ r.request = request /\ r.upload = u
               /\ r.removal = None /\ r.todo = {}
BY DEF Serving, Idle, Record

LEMMA ShapeExpire ==
    ASSUME TypeOK, ShapeOK, NEW t \in Thread, Expire(t)
    PROVE  TypeOK' /\ ShapeOK'
<1>1. PICK aged \in SUBSET Upload, record \in {Idle} \cup {Serving("clean", "audit", u) : u \in Upload} :
         Reap(t, aged, record) /\ (record # Idle => t \in Handler)
  BY DEF Expire
<1> DEFINE next == [record EXCEPT !.at = "clean", !.todo = pending']
<1>2. pending' \in SUBSET Upload
  BY <1>1 DEF Reap, TypeOK
<1>3. next \in Record /\ next.removal = None /\ next.at = "clean"
      /\ next.request \in {None, "audit"} /\ (next.request = "audit" => next.upload \in Upload)
  <2> DEFINE Fresh(r) == r \in Record /\ r.removal = None /\ r.request \in {None, "audit"}
                         /\ (r.request = "audit" => r.upload \in Upload)
  <2>1. Fresh(record)
    <3>1. CASE record = Idle
      BY <3>1, IdleFields, NoneIsNothing
    <3>2. ASSUME NEW u \in Upload, record = Serving("clean", "audit", u)
          PROVE  Fresh(record)
      BY <3>2, ServingFields DEF Request
    <3>3. QED
      BY <3>1, <3>2
  <2>2. QED
    BY <1>2, <2>1 DEF Record
<1>4. TablesOK'
  BY <1>1, <1>2 DEF Reap, TypeOK, TablesOK
<1>5. t \notin processing /\ processing' = processing
  BY <1>1 DEF Expire, ShapeOK, WellFormed, InProcessing, AllCleaned, At, Reap
<1>6. thread'[t] = next
  BY <1>1, <1>3, ThreadStep DEF Reap
<1>7. WellFormed(t)'
  BY <1>2, <1>1, <1>3, <1>5, <1>6 DEF WellFormed, InProcessing, RemovesItsUpload, HasUpload, At, Removing, Expire
<1>8. Become(t, next)
  BY <1>1 DEF Reap
<1>9. QED
  BY <1>3, <1>4, <1>5, <1>7, <1>8, Fits

\* The records that a step gives to its thread.
LEMMA Moved ==
    ASSUME TypeOK, NEW t \in Thread,
           NEW place \in {"staging", "release", "found", "claimed", "retained", "approving"}
    PROVE  LET r == [thread[t] EXCEPT !.at = place]
           IN  /\ r \in Record /\ r.at = place
               /\ r.request = thread[t].request /\ r.upload = thread[t].upload
               /\ r.todo = thread[t].todo /\ r.removal = thread[t].removal
BY DEF TypeOK, Record

RemovingItsUpload(t, place, n) ==
    [thread[t] EXCEPT !.at = place, !.removal = Removal(thread[t].upload, n)]

LEMMA MovedToRemove ==
    ASSUME TypeOK, NEW t \in Thread, thread[t].upload \in Upload, NEW n \in 1 .. 2,
           NEW place \in {"reject", "unstarted", "discard", "approved"}
    PROVE  LET r == RemovingItsUpload(t, place, n)
           IN  /\ r \in Record /\ r.at = place
               /\ r.request = thread[t].request /\ r.upload = thread[t].upload
               /\ r.todo = thread[t].todo
               /\ r.removal = Removal(thread[t].upload, n)
<1>1. Removal(thread[t].upload, n) \in Attempt
  BY Attempts
<1>2. thread[t] \in Record
  BY DEF TypeOK
<1>3. ASSUME NEW record \in Record, NEW attempt \in Attempt
      PROVE  LET r == [record EXCEPT !.at = place, !.removal = attempt]
             IN  /\ r \in Record /\ r.at = place
                 /\ r.request = record.request /\ r.upload = record.upload
                 /\ r.todo = record.todo /\ r.removal = attempt
  BY DEF Record
<1>4. QED
  BY <1>1, <1>2, <1>3 DEF RemovingItsUpload

LEMMA SteppedRemoval ==
    ASSUME TypeOK, NEW t \in Thread, thread[t].removal # None,
           NEW step \in {"unlink", "rmdir", "removed", "stuck"}
    PROVE  LET r == [thread[t] EXCEPT !.removal.step = step]
           IN  /\ r \in Record /\ r.at = thread[t].at
               /\ r.request = thread[t].request /\ r.upload = thread[t].upload
               /\ r.todo = thread[t].todo
               /\ r.removal \in Attempt /\ r.removal.step = step
               /\ r.removal.of = thread[t].removal.of
               /\ r.removal.attempts = thread[t].removal.attempts
<1>1. thread[t] \in Record /\ thread[t].removal \in Attempt
  BY DEF TypeOK, Record
<1> DEFINE record == thread[t]
<1> HIDE DEF record
<1>2. record \in Record /\ record.removal \in Attempt
  BY <1>1 DEF record
<1>3. [record EXCEPT !.removal.step = step] = [record EXCEPT !.removal = [record.removal EXCEPT !.step = step]]
  BY <1>2
<1>4. [record.removal EXCEPT !.step = step] \in Attempt
  BY <1>2 DEF Attempt
<1>5. QED
  BY <1>2, <1>3, <1>4 DEF record, Record, Attempt

LEMMA NextAttempts ==
    ASSUME TypeOK, NEW removal \in Attempt, removal.attempts \in 1 .. 2
    PROVE  LET again == NextAttempt(removal)
           IN  /\ again \in Attempt
               /\ again.of = removal.of
               /\ \/ again.step = "stuck"
                  \/ again = Removal(removal.of, 1)
<1>1. CASE removal.attempts > 1
  <2>1. removal.attempts - 1 = 1 /\ removal.of \in Upload
    BY <1>1 DEF Attempt
  <2>2. QED
    BY <1>1, <2>1, Attempts DEF NextAttempt
<1>2. CASE ~(removal.attempts > 1)
  BY <1>2 DEF NextAttempt, Attempt
<1>3. QED
  BY <1>1, <1>2

LEMMA FailedRemoval ==
    ASSUME TypeOK, ShapeOK, NEW t \in Thread, Removing(t, "unlink") \/ Removing(t, "rmdir")
    PROVE  LET r == [thread[t] EXCEPT !.removal = NextAttempt(@)]
           IN  /\ r \in Record /\ r.at = thread[t].at
               /\ r.request = thread[t].request /\ r.upload = thread[t].upload
               /\ r.todo = thread[t].todo
               /\ r.removal \in Attempt
               /\ r.removal.of = thread[t].removal.of
               /\ \/ r.removal.step = "stuck"
                  \/ r.removal = Removal(thread[t].removal.of, 1)
<1>1. thread[t].removal \in Attempt /\ thread[t].removal.attempts \in 1 .. 2
  BY DEF TypeOK, Record, ShapeOK, WellFormed, Removing
<1>2. thread[t] \in Record
  BY DEF TypeOK
<1>3. ASSUME NEW record \in Record, NEW attempt \in Attempt
      PROVE  LET r == [record EXCEPT !.removal = attempt]
             IN  /\ r \in Record /\ r.at = record.at
                 /\ r.request = record.request /\ r.upload = record.upload
                 /\ r.todo = record.todo /\ r.removal = attempt
  BY DEF Record
<1>4. QED
  BY <1>1, <1>2, <1>3, NextAttempts

LEMMA ShapeSweep ==
    ASSUME TypeOK, ShapeOK, NEW t \in Thread, Sweep(t)
    PROVE  TypeOK' /\ ShapeOK'
<1>1. thread[t] \in Record /\ WellFormed(t) /\ At(t, "clean")
  BY DEF TypeOK, ShapeOK, Sweep, NextRemoval, Cleaned
<1>2. CASE NextRemoval(t)
  <2>1. PICK u \in thread[t].todo :
           Become(t, [thread[t] EXCEPT !.todo = @ \ {u}, !.removal = Removal(u, 2)])
    BY <1>2 DEF NextRemoval
  <2>2. u \in Upload
    BY <1>1, <2>1 DEF Record
  <2> DEFINE rest == thread[t].todo \ {u}
             next == [thread[t] EXCEPT !.todo = rest, !.removal = Removal(u, 2)]
  <2>3. /\ Removal(u, 2) \in Attempt /\ Removal(u, 2).attempts = 2
        /\ rest \in SUBSET Upload
    BY <1>1, <2>2, Attempts DEF Record
  <2>4. /\ next.at = "clean" /\ next.request = thread[t].request
        /\ next.upload = thread[t].upload
        /\ next.todo = rest /\ next.removal = Removal(u, 2)
        /\ next \in Record
    <3> DEFINE old == thread[t]
               attempt == Removal(u, 2)
    <3>1. old \in Record /\ old.at = "clean" /\ attempt \in Attempt
      BY <1>1, <2>3 DEF At
    <3> HIDE DEF old, attempt, rest
    <3>2. LET r == [old EXCEPT !.todo = rest, !.removal = attempt]
          IN  /\ r \in Record /\ r.at = old.at
              /\ r.request = old.request /\ r.upload = old.upload
              /\ r.todo = rest /\ r.removal = attempt
      BY <2>3, <3>1 DEF Record
    <3>3. QED
      BY <3>1, <3>2 DEF old, attempt
  <2>5. TablesOK' /\ processing' = processing
    BY <1>2 DEF NextRemoval, TypeOK, TablesOK, tables
  <2>6. thread'[t] = next
    BY <2>1, <2>4, ThreadStep
  <2>7. WellFormed(t)'
    BY <1>1, <2>3, <2>4, <2>5, <2>6
       DEF WellFormed, InProcessing, RemovesItsUpload, HasUpload, At, Removing
  <2>8. QED
    BY <2>1, <2>4, <2>5, <2>7, Fits
<1>3. CASE Cleaned(t)
  <2> DEFINE next == [thread[t] EXCEPT !.removal = None]
  <2>1. Become(t, next)
    BY <1>3 DEF Cleaned
  <2>2. /\ next.at = "clean" /\ next.request = thread[t].request
        /\ next.upload = thread[t].upload
        /\ next.todo = thread[t].todo /\ next.removal = None
        /\ next \in Record
    BY <1>1 DEF Record, At
  <2>3. TablesOK' /\ processing' = processing
    BY <1>1, <1>3 DEF Cleaned, Removed, Removing, TypeOK, TablesOK, Record, Attempt
  <2>4. thread'[t] = next
    BY <2>1, <2>2, ThreadStep
  <2>5. WellFormed(t)'
    BY <1>1, <2>2, <2>3, <2>4
       DEF WellFormed, InProcessing, RemovesItsUpload, HasUpload, At, Removing
  <2>6. QED
    BY <2>1, <2>2, <2>3, <2>5, Fits
<1>4. QED
  BY <1>2, <1>3 DEF Sweep

LEMMA ShapeRemoval ==
    ASSUME TypeOK, ShapeOK, NEW t \in Thread, RemovalStep(t)
    PROVE  TypeOK' /\ ShapeOK'
<1>1. thread[t] \in Record /\ WellFormed(t) /\ thread[t].removal # None /\ ~At(t, "idle")
  BY DEF TypeOK, ShapeOK, RemovalStep, Unlink, UnlinkVanished, RemoveDirectory, RemovalFails, Removing,
         WellFormed, RemovesItsUpload, At
<1>2. thread[t].removal \in Attempt
  BY <1>1 DEF Record
<1>3. TablesOK' /\ processing' = processing
  <2>1. thread[t].removal.of \in Upload
    BY <1>2 DEF Attempt
  <2>2. CASE Unlink(t) \/ UnlinkVanished(t) \/ RemoveDirectory(t)
    BY <2>1, <2>2 DEF Unlink, UnlinkVanished, RemoveDirectory, TypeOK, TablesOK, tables, Failures
  <2>3. CASE RemovalFails(t)
    <3> DEFINE late == IF thread[t].removal.attempts > 1 THEN failures.stuck
                       ELSE failures.stuck \cup {thread[t].removal.of}
    <3>1. failures \in Failures
      BY DEF TypeOK
    <3>2. late \subseteq Upload
      BY <2>1, <3>1 DEF Failures
    <3>3. failures.removal + 1 \in 0 .. MaxRemovalFailures
      BY <2>3, <3>1, ServerAssumption DEF RemovalFails, Failures
    <3>4. failures' = [failures EXCEPT !.removal = @ + 1, !.stuck = late]
      BY <2>3, <3>1 DEF RemovalFails, Failures
    <3> HIDE DEF late
    <3>5. failures' \in Failures
      BY <3>1, <3>2, <3>3, <3>4 DEF Failures
    <3>6. QED
      BY <2>3, <3>5 DEF RemovalFails, TypeOK, TablesOK, tables
  <2>4. QED
    BY <2>2, <2>3 DEF RemovalStep
<1>4. ASSUME NEW record \in Record, Become(t, record),
             record.at = thread[t].at, record.request = thread[t].request,
             record.upload = thread[t].upload, record.todo = thread[t].todo,
             record.removal \in Attempt, record.removal.of = thread[t].removal.of,
             record.removal.step \in {"unlink", "rmdir"} => record.removal.attempts \in 1 .. 2
      PROVE  TypeOK' /\ ShapeOK'
  <2>1. thread'[t] = record
    BY <1>4, ThreadStep
  <2>2. WellFormed(t)'
    BY <1>1, <1>2, <1>3, <1>4, <2>1, NoneIsNothing
       DEF WellFormed, InProcessing, RemovesItsUpload, HasUpload, At, Removing
  <2>3. QED
    BY <1>1, <1>3, <1>4, <2>2, Fits DEF At
<1>5. ASSUME NEW step \in {"rmdir", "removed"}, Proceed(t, step),
             Removing(t, "unlink") \/ Removing(t, "rmdir")
      PROVE  TypeOK' /\ ShapeOK'
  <2>1. thread[t].removal.attempts \in 1 .. 2
    BY <1>1, <1>5 DEF WellFormed
  <2>2. QED
    BY <1>1, <1>4, <1>5, <2>1, SteppedRemoval DEF Proceed
<1>6. CASE Unlink(t) \/ UnlinkVanished(t) \/ RemoveDirectory(t)
  BY <1>5, <1>6 DEF Unlink, UnlinkVanished, RemoveDirectory
<1>7. CASE RemovalFails(t)
  <2> DEFINE next == [thread[t] EXCEPT !.removal = NextAttempt(@)]
  <2>1. Become(t, next)
    BY <1>7 DEF RemovalFails
  <2>2. thread[t].removal.of \in Upload
    BY <1>2 DEF Attempt
  <2>3. next.removal.step \in {"unlink", "rmdir"} => next.removal.attempts \in 1 .. 2
    BY <1>7, <2>2, FailedRemoval, Attempts DEF RemovalFails
  <2>4. /\ next \in Record /\ next.at = thread[t].at
        /\ next.request = thread[t].request /\ next.upload = thread[t].upload
        /\ next.todo = thread[t].todo
        /\ next.removal \in Attempt /\ next.removal.of = thread[t].removal.of
    BY <1>7, FailedRemoval DEF RemovalFails
  <2> HIDE DEF next
  <2>5. QED
    BY <1>4, <2>1, <2>3, <2>4
<1>8. QED
  BY <1>6, <1>7 DEF RemovalStep

\* The thread is done with its request.
LEMMA ShapeIdle ==
    ASSUME TypeOK, ShapeOK, NEW t \in Thread, t # Reaper, Become(t, Idle),
           TablesOK', processing' \ {t} = processing \ {t}, t \notin processing'
    PROVE  TypeOK' /\ ShapeOK'
<1>1. thread'[t] = Idle
  BY ThreadStep, IdleFields
<1>2. WellFormed(t)'
  BY <1>1, IdleFields, NoneIsNothing
     DEF WellFormed, InProcessing, RemovesItsUpload, HasUpload, At, Removing
<1>3. QED
  BY <1>2, IdleFields, Fits

LEMMA ShapeMoved ==
    ASSUME TypeOK, ShapeOK, NEW t \in Thread,
           NEW place \in {"staging", "release", "found", "claimed", "retained", "approving"},
           Go(t, place), TablesOK', processing' = processing, t # Reaper, thread[t].todo = {},
           thread[t].removal = None,
           place \in {"staging", "release"} <=> t \in processing,
           t = Worker <=> place = "retained",
           place # "release" => thread[t].upload \in Upload,
           place = "staging" => thread[t].request \in {"workbook", "policy"}
    PROVE  TypeOK' /\ ShapeOK'
<1> DEFINE next == [thread[t] EXCEPT !.at = place]
<1>1. /\ next \in Record /\ next.at = place
      /\ next.request = thread[t].request /\ next.upload = thread[t].upload
      /\ next.todo = {} /\ next.removal = None
  BY Moved
<1>2. Become(t, next)
  BY DEF Go
<1> HIDE DEF next
<1>3. thread'[t] = next
  BY <1>1, <1>2, ThreadStep
<1>4. t \in Handler \/ t = Worker
  BY DEF Thread
<1>5. WellFormed(t)'
  BY <1>1, <1>3, <1>4, ServerAssumption
     DEF WellFormed, InProcessing, RemovesItsUpload, HasUpload, At, Removing
<1>6. QED
  BY <1>1, <1>2, <1>5, Fits

LEMMA ShapeToRemove ==
    ASSUME TypeOK, ShapeOK, NEW t \in Thread, NEW n \in 1 .. 2,
           NEW place \in {"reject", "unstarted", "discard", "approved"},
           Become(t, RemovingItsUpload(t, place, n)),
           TablesOK', processing' = processing, t # Reaper, thread[t].todo = {},
           place = "reject" <=> t \in processing,
           t = Worker <=> place = "discard",
           thread[t].upload \in Upload
    PROVE  TypeOK' /\ ShapeOK'
<1> DEFINE next == RemovingItsUpload(t, place, n)
<1>1. /\ next \in Record /\ next.at = place
      /\ next.request = thread[t].request /\ next.upload = thread[t].upload
      /\ next.todo = {} /\ next.removal = Removal(thread[t].upload, n)
  BY MovedToRemove
<1>2. Become(t, next)
  OBVIOUS
<1> HIDE DEF next
<1>3. thread'[t] = next
  BY <1>1, <1>2, ThreadStep
<1>4. t \in Handler \/ t = Worker
  BY DEF Thread
<1>5. next.removal # None /\ next.removal.of = next.upload /\ next.removal.attempts \in 1 .. 2
  BY <1>1, Attempts
<1>6. WellFormed(t)'
  BY <1>1, <1>3, <1>4, <1>5, ServerAssumption
     DEF WellFormed, InProcessing, RemovesItsUpload, HasUpload, At, Removing
<1>7. QED
  BY <1>1, <1>2, <1>6, Fits

\* A thread that serves a request removes nothing yet.
LEMMA Serious ==
    ASSUME TypeOK, ShapeOK, NEW t \in Thread,
           thread[t].at \in {"receive", "staging", "release", "found", "operating", "claimed",
                             "running", "retained", "approving"}
    PROVE  /\ thread[t].todo = {} /\ thread[t].removal = None /\ t # Reaper
           /\ thread[t].at \in {"receive", "staging", "release"} <=> t \in processing
BY DEF ShapeOK, WellFormed, InProcessing, RemovesItsUpload, At

LEMMA ShapeUpload ==
    ASSUME TypeOK, ShapeOK, NEW t \in Handler, UploadStep(t)
    PROVE  TypeOK' /\ ShapeOK'
<1>1. /\ t \in Thread /\ t # Worker /\ t # Reaper
      /\ thread[t] \in Record /\ WellFormed(t)
  BY ServerAssumption DEF Thread, TypeOK, ShapeOK
<1>2. CASE \E r \in Request, u \in Upload \cup {None} : Reserve(t, r, u)
  <2>1. PICK r \in {"workbook", "policy"}, u \in Upload \cup {None} : Reserve(t, r, u)
    BY <1>2 DEF Reserve
  <2>2. r = "policy" => u \in Upload
    BY <2>1 DEF Reserve, Serves, Target, Known
  <2> DEFINE next == Serving("receive", r, u)
  <2>3. /\ next \in Record /\ next.at = "receive" /\ next.request = r /\ next.upload = u
        /\ next.removal = None /\ next.todo = {}
    BY ServingFields DEF Request
  <2>4. Become(t, next) /\ TablesOK' /\ processing' = processing \cup {t}
    BY <2>1 DEF Reserve, TypeOK, TablesOK, tables
  <2> HIDE DEF next
  <2>5. thread'[t] = next
    BY <1>1, <2>3, <2>4, ThreadStep
  <2>6. WellFormed(t)'
    BY <1>1, <2>2, <2>3, <2>4, <2>5
       DEF WellFormed, InProcessing, RemovesItsUpload, HasUpload, At, Removing
  <2>7. QED
    BY <1>1, <2>3, <2>4, <2>6, Fits
<1>3. CASE BodyRefused(t)
  BY <1>1, <1>3, ShapeMoved, Serious DEF BodyRefused, TypeOK, TablesOK, tables, At
<1>4. CASE ReceiveWorkbook(t)
  <2>1. PICK u \in Upload : /\ disk' = [disk EXCEPT ![u] = "files"]
                            /\ Become(t, [thread[t] EXCEPT !.at = "staging", !.upload = u])
    BY <1>4 DEF ReceiveWorkbook
  <2> DEFINE old == thread[t]
             next == [old EXCEPT !.at = "staging", !.upload = u]
  <2>2. /\ old \in Record /\ old.todo = {} /\ old.removal = None
        /\ old.request = "workbook" /\ t \in processing
    BY <1>1, <1>4, Serious DEF ReceiveWorkbook, At
  <2>3. Become(t, next) /\ TablesOK' /\ processing' = processing
    BY <1>4, <2>1 DEF ReceiveWorkbook, TypeOK, TablesOK, tables
  <2> HIDE DEF old
  <2>4. /\ next \in Record /\ next.at = "staging" /\ next.request = "workbook"
        /\ next.upload = u /\ next.removal = None /\ next.todo = {}
    BY <2>2 DEF Record
  <2> HIDE DEF next
  <2>5. thread'[t] = next
    BY <1>1, <2>3, <2>4, ThreadStep
  <2>6. WellFormed(t)'
    BY <1>1, <2>2, <2>3, <2>4, <2>5
       DEF WellFormed, InProcessing, RemovesItsUpload, HasUpload, At, Removing
  <2>7. QED
    BY <1>1, <2>3, <2>4, <2>6, Fits
<1>5. CASE ReceivePolicy(t)
  <2>1. /\ thread[t].upload \in Upload /\ thread[t].request = "policy"
        /\ t \in processing /\ thread[t].todo = {} /\ thread[t].removal = None
    BY <1>1, <1>5, Serious DEF ReceivePolicy, WellFormed, HasUpload, At
  <2>2. TablesOK' /\ processing' = processing
    BY <1>5, <2>1 DEF ReceivePolicy, TypeOK, TablesOK
  <2>3. Go(t, "staging") \/ Go(t, "release")
    BY <1>5 DEF ReceivePolicy
  <2>4. QED
    BY <1>1, <2>1, <2>2, <2>3, ShapeMoved
<1>6. CASE Accept(t)
  <2>1. thread[t].upload \in Upload
    BY <1>1, <1>6 DEF Accept, WellFormed, HasUpload, At
  <2>2. TablesOK' /\ processing' = processing
    BY <1>6, <2>1 DEF Accept, TypeOK, TablesOK
  <2>3. QED
    BY <1>1, <1>6, <2>2, ShapeMoved, Serious DEF Accept, At
<1>7. CASE Reject(t)
  <2>1. /\ thread[t].upload \in Upload /\ t \in processing /\ thread[t].todo = {}
    BY <1>1, <1>7, Serious DEF Reject, WellFormed, HasUpload, At
  <2>2. TablesOK' /\ processing' = processing
    BY <1>7 DEF Reject, TypeOK, TablesOK, tables
  <2>3. PICK n \in 1 .. 2 : Become(t, RemovingItsUpload(t, "reject", n))
    <3> DEFINE n == IF thread[t].request = "workbook" THEN 1 ELSE 2
    <3>1. Become(t, RemovingItsUpload(t, "reject", n))
      BY <1>7, Zenon DEF Reject, RemovingItsUpload
    <3>2. n \in 1 .. 2
      OBVIOUS
    <3> HIDE DEF n
    <3>3. QED
      BY <3>1, <3>2
  <2>4. QED
    BY <1>1, <2>1, <2>2, <2>3, ShapeToRemove
<1>8. CASE Rejected(t)
  <2> DEFINE old == thread[t]
             next == [old EXCEPT !.at = "release", !.removal = None]
  <2>1. /\ old \in Record /\ old.todo = {} /\ old.removal # None /\ t \in processing
    BY <1>1, <1>8 DEF Rejected, Removed, Removing, WellFormed, InProcessing, At
  <2>2. old.removal.of \in Upload
    BY <2>1 DEF Record, Attempt
  <2>3. Become(t, next) /\ TablesOK' /\ processing' = processing
    BY <1>8, <2>2 DEF Rejected, Dispose, TypeOK, TablesOK
  <2> HIDE DEF old
  <2>4. /\ next \in Record /\ next.at = "release"
        /\ next.removal = None /\ next.todo = {}
    BY <2>1 DEF Record
  <2> HIDE DEF next
  <2>5. thread'[t] = next
    BY <1>1, <2>3, <2>4, ThreadStep
  <2>6. WellFormed(t)'
    BY <1>1, <2>1, <2>3, <2>4, <2>5
       DEF WellFormed, InProcessing, RemovesItsUpload, HasUpload, At, Removing
  <2>7. QED
    BY <1>1, <2>3, <2>4, <2>6, Fits
<1>9. CASE ReleaseProcessing(t)
  BY <1>1, <1>9, ShapeIdle DEF ReleaseProcessing, TypeOK, TablesOK, tables
<1>10. QED
  BY <1>2, <1>3, <1>4, <1>5, <1>6, <1>7, <1>8, <1>9 DEF UploadStep

LEMMA ShapeOperation ==
    ASSUME TypeOK, ShapeOK, NEW t \in Handler, Operation(t)
    PROVE  TypeOK' /\ ShapeOK'
<1>1. /\ t \in Thread /\ t # Worker /\ t # Reaper
      /\ thread[t] \in Record /\ WellFormed(t)
  BY ServerAssumption DEF Thread, TypeOK, ShapeOK
<1>2. CASE \E r \in Request, u \in Upload \cup {None} : Acquire(t, r, u)
  <2>1. PICK r \in {"audit", "approve", "verify"}, u \in Upload \cup {None} : Acquire(t, r, u)
    BY <1>2 DEF Acquire, Request
  <2>2. r \in {"audit", "approve"} => u \in Upload
    BY <1>1, <2>1 DEF Acquire, Serves, Target, Known, WellFormed, HasUpload
  <2>3. t \notin processing
    BY <1>1, <2>1 DEF Acquire, Serves, AllCleaned, WellFormed, InProcessing, At
  <2> DEFINE next == Serving("operating", r, u)
  <2>4. /\ next \in Record /\ next.at = "operating" /\ next.request = r /\ next.upload = u
        /\ next.removal = None /\ next.todo = {}
    BY ServingFields DEF Request
  <2>5. Become(t, next) /\ TablesOK' /\ processing' = processing
    BY <2>1 DEF Acquire, TypeOK, TablesOK, tables
  <2> HIDE DEF next
  <2>6. thread'[t] = next
    BY <1>1, <2>4, <2>5, ThreadStep
  <2>7. WellFormed(t)'
    BY <1>1, <2>2, <2>3, <2>4, <2>5, <2>6
       DEF WellFormed, InProcessing, RemovesItsUpload, HasUpload, At, Removing
  <2>8. QED
    BY <1>1, <2>4, <2>5, <2>7, Fits
<1>3. CASE FindUpload(t)
  <2>1. /\ thread[t].upload \in Upload /\ t \notin processing
        /\ thread[t].todo = {} /\ thread[t].removal = None
    BY <1>1, <1>3 DEF FindUpload, AllCleaned, WellFormed, HasUpload, InProcessing, At
  <2>2. Go(t, "found") /\ TablesOK' /\ processing' = processing
    BY <1>3 DEF FindUpload, TypeOK, TablesOK, tables
  <2>3. QED
    BY <1>1, <2>1, <2>2, ShapeMoved
<1>4. CASE FinishOperation(t) \/ Unstarted(t) \/ Approved(t)
  <2>1. Become(t, Idle) /\ processing' = processing
    BY <1>4 DEF FinishOperation, Unstarted, Approved, EndOperation
  <2>2. t \notin processing
    BY <1>1, <1>4 DEF FinishOperation, Unstarted, Approved, WellFormed, InProcessing, At
  <2>3. Removed(t) => thread[t].removal.of \in Upload
    BY <1>1 DEF Removed, Removing, Record, Attempt
  <2>4. TablesOK'
    BY <1>4, <2>3 DEF FinishOperation, Unstarted, Approved, EndOperation, Dispose, Removed,
                      TypeOK, TablesOK, tables
  <2>5. QED
    BY <1>1, <2>1, <2>2, <2>4, ShapeIdle
<1>5. CASE Claim(t)
  <2>1. /\ thread[t].upload \in Upload /\ t \notin processing
        /\ thread[t].todo = {} /\ thread[t].removal = None
    BY <1>1, <1>5, Serious DEF Claim, WellFormed, HasUpload, At
  <2>2. TablesOK' /\ processing' = processing
    BY <1>5, <2>1 DEF Claim, Unclaimed, EndOperation, TypeOK, TablesOK
  <2>3. Go(t, "claimed") \/ Become(t, Idle)
    BY <1>5 DEF Claim, EndOperation
  <2>4. QED
    BY <1>1, <2>1, <2>2, <2>3, ShapeMoved, ShapeIdle
<1>6. CASE StartFails(t)
  <2>1. /\ thread[t].upload \in Upload /\ t \notin processing /\ thread[t].todo = {}
    BY <1>1, <1>6, Serious DEF StartFails, WellFormed, HasUpload, At
  <2>2. TablesOK' /\ processing' = processing
    <3>1. failures' \in Failures
      BY <1>6, ServerAssumption DEF StartFails, TypeOK, Failures
    <3>2. QED
      BY <1>6, <3>1 DEF StartFails, TypeOK, TablesOK, tables
  <2>3. Become(t, RemovingItsUpload(t, "unstarted", 2))
    BY <1>6, Zenon DEF StartFails, RemovingItsUpload
  <2>4. QED
    BY <1>1, <2>1, <2>2, <2>3, ShapeToRemove
<1>7. CASE TakeRetained(t)
  <2>1. /\ thread[t].upload \in Upload /\ t \notin processing
        /\ thread[t].todo = {} /\ thread[t].removal = None
    BY <1>1, <1>7, Serious DEF TakeRetained, WellFormed, HasUpload, At
  <2>2. Go(t, "approving") /\ TablesOK' /\ processing' = processing
    BY <1>7 DEF TakeRetained, TypeOK, TablesOK, tables
  <2>3. QED
    BY <1>1, <2>1, <2>2, ShapeMoved
<1>8. CASE Approve(t)
  <2>1. /\ thread[t].upload \in Upload /\ t \notin processing /\ thread[t].todo = {}
    BY <1>1, <1>8, Serious DEF Approve, WellFormed, HasUpload, At
  <2>2. TablesOK' /\ processing' = processing
    BY <1>8 DEF Approve, TypeOK, TablesOK, tables
  <2>3. Become(t, RemovingItsUpload(t, "approved", 2))
    BY <1>8, Zenon DEF Approve, RemovingItsUpload
  <2>4. QED
    BY <1>1, <2>1, <2>2, <2>3, ShapeToRemove
<1>9. QED
  BY <1>2, <1>3, <1>4, <1>5, <1>6, <1>7, <1>8 DEF Operation

LEMMA ShapeAudit ==
    ASSUME TypeOK, ShapeOK, NEW t \in Thread, Audit(t)
    PROVE  TypeOK' /\ ShapeOK'
<1>1. t = Worker /\ t # Reaper /\ thread[t] \in Record /\ WellFormed(t)
  BY ServerAssumption DEF Audit, TypeOK, ShapeOK
<1>2. t \notin processing
  BY <1>1, ServerAssumption DEF TypeOK
<1>3. CASE Retain
  <2>1. /\ thread[t].upload \in Upload
        /\ thread[t].todo = {} /\ thread[t].removal = None
    BY <1>1, <1>3, Serious DEF Retain, WellFormed, HasUpload, At
  <2>2. Go(t, "retained") /\ TablesOK' /\ processing' = processing
    BY <1>1, <1>3, <2>1 DEF Retain, TypeOK, TablesOK
  <2>3. QED
    BY <1>1, <1>2, <2>1, <2>2, ShapeMoved
<1>4. CASE Discard
  <2>1. /\ thread[t].upload \in Upload /\ thread[t].todo = {}
    BY <1>1, <1>4, Serious DEF Discard, WellFormed, HasUpload, At
  <2>2. TablesOK' /\ processing' = processing
    BY <1>4 DEF Discard, TypeOK, TablesOK
  <2>3. Become(t, RemovingItsUpload(t, "discard", 2))
    BY <1>1, <1>4, Zenon DEF Discard, RemovingItsUpload
  <2>4. QED
    BY <1>1, <1>2, <2>1, <2>2, <2>3, ShapeToRemove
<1>5. CASE Discarded \/ FinishAudit
  <2>1. Become(t, Idle) /\ processing' = processing
    BY <1>1, <1>5 DEF Discarded, FinishAudit, EndOperation
  <2>2. Removed(t) => thread[t].removal.of \in Upload
    BY <1>1 DEF Removed, Removing, Record, Attempt
  <2>3. TablesOK'
    BY <1>1, <1>5, <2>2 DEF Discarded, FinishAudit, EndOperation, Dispose, Removed,
                            TypeOK, TablesOK, tables
  <2>4. QED
    BY <1>1, <1>2, <2>1, <2>3, ShapeIdle
<1>6. QED
  BY <1>3, <1>4, <1>5 DEF Audit

\* The record of the worker that StartWorker starts.
Started(u) == [Idle EXCEPT !.request = "audit", !.at = "running", !.upload = u]

LEMMA ShapeStart ==
    ASSUME TypeOK, ShapeOK, NEW t \in Handler, StartWorker(t), At(Worker, "idle")
    PROVE  /\ TypeOK' /\ ShapeOK'
           /\ thread'[t] = Idle /\ thread'[Worker] = Started(thread[t].upload)
           /\ \A s \in Thread \ {t, Worker} : thread'[s] = thread[s]
           /\ Started(thread[t].upload) \in Record
           /\ Started(thread[t].upload).at = "running"
           /\ Started(thread[t].upload).request = "audit"
           /\ Started(thread[t].upload).upload = thread[t].upload
           /\ Started(thread[t].upload).removal = None
           /\ Started(thread[t].upload).todo = {}
<1> DEFINE u == thread[t].upload
           started == Started(u)
<1>1. t \in Thread /\ t # Worker /\ Worker \in Thread /\ Reaper # Worker /\ t # Reaper
  BY ServerAssumption DEF Thread
<1>2. u \in Upload /\ t \notin processing
  BY <1>1, Serious DEF StartWorker, ShapeOK, WellFormed, HasUpload, At
<1> HIDE DEF u
<1>3. /\ started \in Record /\ started.at = "running" /\ started.request = "audit"
      /\ started.upload = u /\ started.removal = None /\ started.todo = {}
  BY <1>2 DEF Started, Idle, Record, Request
<1> HIDE DEF started
<1>4. thread' = [thread EXCEPT ![t] = Idle, ![Worker] = started]
  BY Zenon DEF StartWorker, started, u, Started
<1>5. /\ thread' \in [Thread -> Record]
      /\ thread'[t] = Idle /\ thread'[Worker] = started
      /\ \A s \in Thread \ {t, Worker} : thread'[s] = thread[s]
  BY <1>1, <1>3, <1>4, IdleFields DEF TypeOK
<1>6. UNCHANGED <<tables, processing, locked, disk, failures>> /\ Worker \notin processing
  BY ServerAssumption DEF StartWorker, TypeOK
<1>7. WellFormed(t)'
  BY <1>1, <1>2, <1>5, <1>6, IdleFields, NoneIsNothing
     DEF WellFormed, InProcessing, RemovesItsUpload, HasUpload, At, Removing
<1>8. WellFormed(Worker)'
  BY <1>1, <1>2, <1>3, <1>5, <1>6, ServerAssumption
     DEF WellFormed, InProcessing, RemovesItsUpload, HasUpload, At, Removing
<1>9. ASSUME NEW s \in Thread, s # t, s # Worker
      PROVE  WellFormed(s)'
  <2>1. thread'[s] = thread[s]
    BY <1>5, <1>9
  <2>2. QED
    BY <1>6, <2>1 DEF ShapeOK, WellFormed, InProcessing, RemovesItsUpload, HasUpload, At, Removing
<1>10. TypeOK'
  <2>1. ASSUME NEW s \in Thread, At(s, "idle")'
        PROVE  thread'[s] = Idle /\ s \notin processing'
    BY <1>2, <1>3, <1>5, <1>6, <2>1 DEF At, TypeOK
  <2>2. QED
    BY <1>5, <1>6, <2>1 DEF TypeOK, tables
<1>11. QED
  BY <1>3, <1>5, <1>7, <1>8, <1>9, <1>10 DEF ShapeOK, started, u

---------------------------------------------------------------------------
(* What the thread that takes a step looks like afterwards. *)

Only(t) == \A s \in Thread \ {t} : thread'[s] = thread[s]

KeepsRequest(t) == /\ thread'[t].request = thread[t].request
                   /\ thread'[t].upload = thread[t].upload

LEMMA IdleEffect ==
    ASSUME TypeOK, NEW t \in Thread, Become(t, Idle)
    PROVE  /\ Only(t) /\ thread'[t].at = "idle" /\ thread'[t].request = None
           /\ thread'[t].todo = {} /\ thread'[t].removal = None
BY IdleFields, ThreadStep DEF Only

LEMMA GoEffect ==
    ASSUME TypeOK, NEW t \in Thread,
           NEW place \in {"staging", "release", "found", "claimed", "retained", "approving"},
           Go(t, place)
    PROVE  /\ Only(t) /\ thread'[t].at = place /\ KeepsRequest(t)
           /\ thread'[t].todo = thread[t].todo /\ thread'[t].removal = thread[t].removal
<1> DEFINE next == [thread[t] EXCEPT !.at = place]
<1>1. /\ next \in Record /\ next.at = place
      /\ next.request = thread[t].request /\ next.upload = thread[t].upload
      /\ next.todo = thread[t].todo /\ next.removal = thread[t].removal
  BY Moved
<1>2. Become(t, next)
  BY DEF Go
<1> HIDE DEF next
<1>3. QED
  BY <1>1, <1>2, ThreadStep DEF Only, KeepsRequest

LEMMA ToRemoveEffect ==
    ASSUME TypeOK, NEW t \in Thread, NEW n \in 1 .. 2, thread[t].upload \in Upload,
           NEW place \in {"reject", "unstarted", "discard", "approved"},
           Become(t, RemovingItsUpload(t, place, n))
    PROVE  /\ Only(t) /\ thread'[t].at = place /\ KeepsRequest(t)
           /\ thread'[t].todo = thread[t].todo
           /\ thread'[t].removal = Removal(thread[t].upload, n)
<1> DEFINE next == RemovingItsUpload(t, place, n)
<1>1. /\ next \in Record /\ next.at = place
      /\ next.request = thread[t].request /\ next.upload = thread[t].upload
      /\ next.todo = thread[t].todo /\ next.removal = Removal(thread[t].upload, n)
  BY MovedToRemove
<1>2. Become(t, next)
  OBVIOUS
<1> HIDE DEF next
<1>3. QED
  BY <1>1, <1>2, ThreadStep DEF Only, KeepsRequest

LEMMA ServingEffect ==
    ASSUME TypeOK, NEW t \in Thread, NEW place \in {"clean", "receive", "operating"},
           NEW request \in Request, NEW u \in Upload \cup {None},
           Become(t, Serving(place, request, u))
    PROVE  /\ Only(t) /\ thread'[t].at = place /\ thread'[t].request = request
           /\ thread'[t].upload = u
           /\ thread'[t].todo = {} /\ thread'[t].removal = None
BY ServingFields, ThreadStep DEF Only

LEMMA ProceedEffect ==
    ASSUME TypeOK, NEW t \in Thread, thread[t].removal # None,
           NEW step \in {"unlink", "rmdir", "removed", "stuck"}, Proceed(t, step)
    PROVE  /\ Only(t) /\ thread'[t].at = thread[t].at /\ KeepsRequest(t)
           /\ thread'[t].todo = thread[t].todo
           /\ thread'[t].removal # None /\ thread'[t].removal.step = step
           /\ thread'[t].removal.of = thread[t].removal.of
<1> DEFINE next == [thread[t] EXCEPT !.removal.step = step]
<1>1. /\ next \in Record /\ next.at = thread[t].at
      /\ next.request = thread[t].request /\ next.upload = thread[t].upload
      /\ next.todo = thread[t].todo
      /\ next.removal \in Attempt /\ next.removal.step = step
      /\ next.removal.of = thread[t].removal.of
  BY SteppedRemoval
<1>2. Become(t, next)
  BY DEF Proceed
<1> HIDE DEF next
<1>3. QED
  BY <1>1, <1>2, ThreadStep, NoneIsNothing DEF Only, KeepsRequest

LEMMA RemovalFailsEffect ==
    ASSUME TypeOK, ShapeOK, NEW t \in Thread, RemovalFails(t)
    PROVE  /\ Only(t) /\ thread'[t].at = thread[t].at /\ KeepsRequest(t)
           /\ thread'[t].todo = thread[t].todo
           /\ thread'[t].removal # None
           /\ thread'[t].removal.of = thread[t].removal.of
           /\ thread'[t].removal.step \in {"stuck", Listed(thread[t].removal.of)}
<1> DEFINE next == [thread[t] EXCEPT !.removal = NextAttempt(@)]
<1>1. Become(t, next)
  BY DEF RemovalFails
<1>2. /\ next \in Record /\ next.at = thread[t].at
      /\ next.request = thread[t].request /\ next.upload = thread[t].upload
      /\ next.todo = thread[t].todo
      /\ next.removal \in Attempt
      /\ next.removal.of = thread[t].removal.of
      /\ \/ next.removal.step = "stuck"
         \/ next.removal = Removal(thread[t].removal.of, 1)
  BY FailedRemoval DEF RemovalFails
<1> HIDE DEF next
<1>3. next.removal.step \in {"stuck", Listed(thread[t].removal.of)}
  BY <1>2 DEF Removal
<1>4. QED
  BY <1>1, <1>2, <1>3, ThreadStep, NoneIsNothing DEF Only, KeepsRequest

LEMMA RetryEffect ==
    ASSUME TypeOK, ShapeOK, NEW t \in Thread, RemovalFails(t), thread[t].removal.attempts > 1
    PROVE  thread'[t].removal.step = Listed(thread[t].removal.of)
<1> DEFINE next == [thread[t] EXCEPT !.removal = NextAttempt(@)]
<1>1. Become(t, next)
  BY DEF RemovalFails
<1>2. next \in Record /\ next.removal = NextAttempt(thread[t].removal)
  BY FailedRemoval DEF RemovalFails, Record
<1>3. NextAttempt(thread[t].removal).step = Listed(thread[t].removal.of)
  BY DEF NextAttempt, Removal
<1> HIDE DEF next
<1>4. QED
  BY <1>1, <1>2, <1>3, ThreadStep

LEMMA NextRemovalEffect ==
    ASSUME TypeOK, NEW t \in Thread, NextRemoval(t)
    PROVE  /\ Only(t) /\ thread'[t].at = "clean" /\ KeepsRequest(t)
           /\ \E u \in thread[t].todo : /\ thread'[t].todo = thread[t].todo \ {u}
                                        /\ thread'[t].removal = Removal(u, 2)
<1>1. PICK u \in thread[t].todo :
         Become(t, [thread[t] EXCEPT !.todo = @ \ {u}, !.removal = Removal(u, 2)])
  BY DEF NextRemoval
<1> DEFINE old == thread[t]
           rest == old.todo \ {u}
           attempt == Removal(u, 2)
           next == [old EXCEPT !.todo = rest, !.removal = attempt]
<1>2. /\ old \in Record /\ old.at = "clean" /\ u \in Upload
      /\ rest \in SUBSET Upload /\ attempt \in Attempt
  BY <1>1, Attempts DEF NextRemoval, At, TypeOK, Record
<1>3. Become(t, next)
  BY <1>1
<1> HIDE DEF old, rest, attempt
<1>4. /\ next \in Record /\ next.at = old.at
      /\ next.request = old.request /\ next.upload = old.upload
      /\ next.todo = rest /\ next.removal = attempt
  BY <1>2 DEF Record
<1> HIDE DEF next
<1>5. Only(t) /\ thread'[t] = next
  BY <1>3, <1>4, ThreadStep DEF Only
<1>6. KeepsRequest(t) /\ thread'[t].at = "clean"
  BY <1>2, <1>4, <1>5 DEF KeepsRequest, old
<1>7. thread'[t].todo = thread[t].todo \ {u} /\ thread'[t].removal = Removal(u, 2)
  BY <1>4, <1>5 DEF old, rest, attempt
<1>8. QED
  BY <1>1, <1>5, <1>6, <1>7

LEMMA DoneRemovingEffect ==
    ASSUME TypeOK, NEW t \in Thread, Cleaned(t) \/ Rejected(t)
    PROVE  /\ Only(t) /\ thread'[t].at = (IF At(t, "clean") THEN "clean" ELSE "release")
           /\ KeepsRequest(t)
           /\ thread'[t].todo = thread[t].todo /\ thread'[t].removal = None
<1> DEFINE old == thread[t]
<1>1. old \in Record
  BY DEF TypeOK
<1> HIDE DEF old
<1>2. CASE Cleaned(t)
  <2> DEFINE next == [old EXCEPT !.removal = None]
  <2>1. Become(t, next) /\ At(t, "clean")
    BY <1>2 DEF Cleaned, old
  <2>2. /\ next \in Record /\ next.at = old.at
        /\ next.request = old.request /\ next.upload = old.upload
        /\ next.todo = old.todo /\ next.removal = None
    BY <1>1 DEF Record
  <2> HIDE DEF next
  <2>3. QED
    BY <2>1, <2>2, ThreadStep DEF Only, KeepsRequest, At, old
<1>3. CASE Rejected(t)
  <2> DEFINE next == [old EXCEPT !.at = "release", !.removal = None]
  <2>1. Become(t, next) /\ ~At(t, "clean")
    BY <1>3 DEF Rejected, old, At
  <2>2. /\ next \in Record /\ next.at = "release"
        /\ next.request = old.request /\ next.upload = old.upload
        /\ next.todo = old.todo /\ next.removal = None
    BY <1>1 DEF Record
  <2> HIDE DEF next
  <2>3. QED
    BY <2>1, <2>2, ThreadStep DEF Only, KeepsRequest, old
<1>4. QED
  BY <1>2, <1>3

LEMMA ReceiveWorkbookEffect ==
    ASSUME TypeOK, NEW t \in Thread, ReceiveWorkbook(t)
    PROVE  \E u \in Upload :
              /\ disk[u] = "unused" /\ disk' = [disk EXCEPT ![u] = "files"]
              /\ Only(t) /\ thread'[t].at = "staging" /\ thread'[t].request = "workbook"
              /\ thread'[t].upload = u
              /\ thread'[t].todo = thread[t].todo /\ thread'[t].removal = thread[t].removal
<1>1. PICK u \in Upload : /\ disk[u] = "unused" /\ disk' = [disk EXCEPT ![u] = "files"]
                          /\ Become(t, [thread[t] EXCEPT !.at = "staging", !.upload = u])
  BY DEF ReceiveWorkbook
<1> DEFINE old == thread[t]
           next == [old EXCEPT !.at = "staging", !.upload = u]
<1>2. old \in Record /\ old.request = "workbook" /\ Become(t, next)
  BY <1>1 DEF TypeOK, ReceiveWorkbook
<1> HIDE DEF old
<1>3. /\ next \in Record /\ next.at = "staging" /\ next.request = old.request
      /\ next.upload = u /\ next.removal = old.removal /\ next.todo = old.todo
  BY <1>2 DEF Record
<1> HIDE DEF next
<1>4. QED
  BY <1>1, <1>2, <1>3, ThreadStep DEF Only, old

LEMMA ExpireEffect ==
    ASSUME TypeOK, NEW t \in Thread, Expire(t)
    PROVE  /\ Only(t) /\ thread'[t].at = "clean"
           /\ \/ thread'[t].request = None
              \/ /\ t \in Handler /\ thread'[t].request = "audit" /\ thread'[t].upload \in Upload
           /\ thread'[t].todo = pending' /\ thread'[t].removal = None
<1>1. PICK aged \in SUBSET Upload, record \in {Idle} \cup {Serving("clean", "audit", u) : u \in Upload} :
         Reap(t, aged, record) /\ (record # Idle => t \in Handler)
  BY DEF Expire
<1> DEFINE next == [record EXCEPT !.at = "clean", !.todo = pending']
           Fresh(r) == /\ r \in Record /\ r.removal = None
                       /\ \/ r.request = None
                          \/ t \in Handler /\ r.request = "audit" /\ r.upload \in Upload
<1>2. Fresh(record)
  <2>1. CASE record = Idle
    BY <2>1, IdleFields
  <2>2. ASSUME NEW u \in Upload, record = Serving("clean", "audit", u), record # Idle
        PROVE  Fresh(record)
    BY <1>1, <2>2, ServingFields DEF Request
  <2>3. QED
    BY <2>1, <2>2
<1>3. pending' \in SUBSET Upload
  BY <1>1 DEF Reap, TypeOK
<1>4. Fresh(next) /\ next.at = "clean" /\ next.todo = pending'
  BY <1>2, <1>3 DEF Record
<1>5. Become(t, next)
  BY <1>1 DEF Reap
<1> HIDE DEF next
<1>6. QED
  BY <1>4, <1>5, ThreadStep DEF Only

LEMMA RejectEffect ==
    ASSUME TypeOK, ShapeOK, NEW t \in Thread, Reject(t)
    PROVE  /\ Only(t) /\ thread'[t].at = "reject" /\ KeepsRequest(t)
           /\ thread'[t].todo = thread[t].todo
           /\ thread[t].upload \in Upload
           /\ \E n \in 1 .. 2 : thread'[t].removal = Removal(thread[t].upload, n)
<1> DEFINE n == IF thread[t].request = "workbook" THEN 1 ELSE 2
<1>1. Become(t, RemovingItsUpload(t, "reject", n))
  BY Zenon DEF Reject, RemovingItsUpload
<1>2. n \in 1 .. 2
  OBVIOUS
<1>3. thread[t].upload \in Upload
  BY DEF Reject, ShapeOK, WellFormed, HasUpload, At
<1> HIDE DEF n
<1>4. QED
  BY <1>1, <1>2, <1>3, ToRemoveEffect

LEMMA GiveUpEffect ==
    ASSUME TypeOK, ShapeOK, NEW t \in Thread,
           NEW place \in {"unstarted", "approved", "discard"},
           CASE place = "unstarted" -> StartFails(t)
             [] place = "approved" -> Approve(t)
             [] place = "discard" -> t = Worker /\ Discard
    PROVE  /\ Only(t) /\ thread'[t].at = place /\ KeepsRequest(t)
           /\ thread'[t].todo = thread[t].todo
           /\ thread[t].upload \in Upload
           /\ thread'[t].removal = Removal(thread[t].upload, 2)
<1>1. StartFails(t) \/ Approve(t) \/ (t = Worker /\ Discard)
  OBVIOUS
<1>2. thread[t].upload \in Upload
  BY <1>1 DEF StartFails, Approve, Discard, ShapeOK, WellFormed, HasUpload, At
<1>3. Become(t, RemovingItsUpload(t, place, 2))
  <2>1. CASE place = "unstarted"
    BY <2>1, Zenon DEF StartFails, RemovingItsUpload
  <2>2. CASE place = "approved"
    BY <2>2, Zenon DEF Approve, RemovingItsUpload
  <2>3. CASE place = "discard"
    BY <2>3, Zenon DEF Discard, RemovingItsUpload
  <2>4. QED
    BY <2>1, <2>2, <2>3
<1>4. QED
  BY <1>2, <1>3, ToRemoveEffect

LEMMA UploadEffect ==
    ASSUME TypeOK, ShapeOK, NEW t \in Thread, UploadStep(t)
    PROVE  /\ Only(t)
           /\ thread'[t].at \in {"receive", "staging", "release", "reject", "idle"}
<1>1. CASE \E r \in Request, u \in Upload \cup {None} : Reserve(t, r, u)
  BY <1>1, ServingEffect DEF Reserve
<1>2. CASE BodyRefused(t) \/ ReceivePolicy(t) \/ Accept(t)
  BY <1>2, GoEffect DEF BodyRefused, ReceivePolicy, Accept
<1>3. CASE ReceiveWorkbook(t)
  BY <1>3, ReceiveWorkbookEffect
<1>4. CASE Reject(t)
  BY <1>4, RejectEffect
<1>5. CASE Rejected(t)
  BY <1>5, DoneRemovingEffect DEF Rejected, At
<1>6. CASE ReleaseProcessing(t)
  BY <1>6, IdleEffect DEF ReleaseProcessing
<1>7. QED
  BY <1>1, <1>2, <1>3, <1>4, <1>5, <1>6 DEF UploadStep

---------------------------------------------------------------------------
(* The operation lock. *)

LEMMA LockKept ==
    ASSUME LockHandedOver, NEW t \in Thread, Only(t), locked' = locked,
           InOperation(t)' <=> InOperation(t)
    PROVE  LockHandedOver'
<1>1. ASSUME NEW s \in Thread
      PROVE  InOperation(s)' <=> InOperation(s)
  BY DEF Only, InOperation, At
<1>2. QED
  BY <1>1 DEF LockHandedOver

LEMMA LockTaken ==
    ASSUME LockHandedOver, NEW t \in Thread, Only(t), ~locked, locked' = TRUE, InOperation(t)'
    PROVE  LockHandedOver'
<1>1. ASSUME NEW s \in Thread \ {t}
      PROVE  ~InOperation(s)'
  BY DEF LockHandedOver, Only, InOperation, At
<1>2. QED
  BY <1>1 DEF LockHandedOver

LEMMA LockFreed ==
    ASSUME LockHandedOver, NEW t \in Thread, Only(t), InOperation(t), locked' = FALSE,
           ~InOperation(t)'
    PROVE  LockHandedOver'
<1>1. ASSUME NEW s \in Thread \ {t}
      PROVE  ~InOperation(s)'
  BY DEF LockHandedOver, Only, InOperation, At
<1>2. QED
  BY <1>1 DEF LockHandedOver

LEMMA WorkerIdle ==
    ASSUME ShapeOK, LockHandedOver, NEW t \in Handler, InOperation(t)
    PROVE  At(Worker, "idle")
<1>1. t \in Thread /\ Worker \in Thread /\ t # Worker
  BY ServerAssumption DEF Thread
<1>2. ~InOperation(Worker)
  BY <1>1 DEF LockHandedOver
<1>3. QED
  BY <1>1, <1>2 DEF ShapeOK, WellFormed, InOperation, At

LEMMA LockStep ==
    ASSUME TypeOK, ShapeOK, LockHandedOver, [Next]_vars
    PROVE  LockHandedOver'
<1>1. CASE UNCHANGED vars
  BY <1>1 DEF vars, tables, LockHandedOver, InOperation, At
<1>2. CASE Next
  <2>1. PICK t \in Thread :
           \/ Expire(t)
           \/ Sweep(t)
           \/ RemovalStep(t)
           \/ t \in Handler /\ (Refuse(t) \/ UploadStep(t) \/ Operation(t) \/ StartWorker(t))
           \/ Audit(t)
    BY <1>2, Steps
  <2>2. thread[t] \in Record /\ WellFormed(t)
    BY DEF TypeOK, ShapeOK
  <2>3. CASE Expire(t)
    <3>1. locked' = locked /\ ~InOperation(t)
      BY <2>3 DEF Expire, Reap, AllCleaned, InOperation, At
    <3>2. Only(t) /\ thread'[t].at = "clean"
      BY <2>3, ExpireEffect
    <3>3. QED
      BY <3>1, <3>2, LockKept DEF InOperation, At
  <2>4. CASE Sweep(t)
    <3>1. locked' = locked /\ At(t, "clean")
      BY <2>4 DEF Sweep, NextRemoval, Cleaned
    <3>2. Only(t) /\ thread'[t].at = "clean"
      BY <2>4, <3>1, NextRemovalEffect, DoneRemovingEffect DEF Sweep
    <3>3. QED
      BY <3>1, <3>2, LockKept DEF InOperation, At
  <2>5. CASE RemovalStep(t)
    <3>1. locked' = locked
      BY <2>5 DEF RemovalStep, Unlink, UnlinkVanished, RemoveDirectory, RemovalFails
    <3>2. Only(t) /\ thread'[t].at = thread[t].at
      BY <2>5, ProceedEffect, RemovalFailsEffect
         DEF RemovalStep, Unlink, UnlinkVanished, RemoveDirectory, Removing
    <3>3. QED
      BY <3>1, <3>2, LockKept DEF InOperation, At
  <2>6. CASE t \in Handler /\ Refuse(t)
    <3>1. Only(t) /\ thread'[t].at = "idle"
      BY <2>6, IdleEffect DEF Refuse
    <3>2. locked' = locked /\ ~InOperation(t)
      BY <2>6 DEF Refuse, AllCleaned, InOperation, At
    <3>3. QED
      BY <3>1, <3>2, LockKept DEF InOperation, At
  <2>7. CASE t \in Handler /\ UploadStep(t)
    <3>1. locked' = locked /\ ~InOperation(t)
      BY <2>7 DEF UploadStep, Reserve, Serves, AllCleaned, BodyRefused, ReceiveWorkbook,
         ReceivePolicy, Accept, Reject, Rejected, ReleaseProcessing, InOperation, At
    <3>2. Only(t) /\ thread'[t].at \in {"receive", "staging", "release", "reject", "idle"}
      BY <2>7, UploadEffect
    <3>3. QED
      BY <3>1, <3>2, LockKept DEF InOperation, At
  <2>8. CASE t \in Handler /\ Operation(t)
    <3>1. CASE FindUpload(t)
      BY <3>1, GoEffect, LockKept DEF FindUpload, AllCleaned, InOperation, At
    <3>2. CASE \E r \in Request, u \in Upload \cup {None} : Acquire(t, r, u)
      BY <3>2, ServingEffect, LockTaken DEF Acquire, InOperation, At
    <3>3. CASE FinishOperation(t) \/ Approved(t)
      BY <3>3, IdleEffect, LockFreed DEF FinishOperation, Approved, EndOperation, InOperation, At
    <3>4. CASE Claim(t)
      BY <3>4, IdleEffect, GoEffect, LockFreed, LockKept DEF Claim, EndOperation, InOperation, At
    <3>5. CASE StartFails(t)
      <4>1. Only(t) /\ thread'[t].at = "unstarted"
        BY <3>5, GiveUpEffect
      <4>2. QED
        BY <3>5, <4>1, LockFreed DEF StartFails, InOperation, At
    <3>6. CASE Unstarted(t)
      BY <3>6, IdleEffect, LockKept DEF Unstarted, InOperation, At
    <3>7. CASE TakeRetained(t)
      BY <3>7, GoEffect, LockKept DEF TakeRetained, InOperation, At
    <3>8. CASE Approve(t)
      <4>1. Only(t) /\ thread'[t].at = "approved"
        BY <3>8, GiveUpEffect
      <4>2. QED
        BY <3>8, <4>1, LockKept DEF Approve, InOperation, At
    <3>9. QED
      BY <2>8, <3>1, <3>2, <3>3, <3>4, <3>5, <3>6, <3>7, <3>8 DEF Operation
  <2>9. CASE t \in Handler /\ StartWorker(t)
    <3>1. InOperation(t) /\ locked' = locked
      BY <2>9 DEF StartWorker, InOperation, At
    <3>2. At(Worker, "idle")
      BY <2>9, <3>1, WorkerIdle
    <3>3. /\ thread'[t].at = "idle" /\ thread'[Worker].at = "running"
          /\ \A s \in Thread \ {t, Worker} : thread'[s] = thread[s]
      BY <2>9, <3>2, ShapeStart, IdleFields
    <3>4. Worker \in Thread /\ Worker # t
      BY <2>9, ServerAssumption DEF Thread
    <3>5. \A s \in Thread : InOperation(s)' <=> s = Worker
      BY <3>1, <3>3, <3>4 DEF LockHandedOver, InOperation, At
    <3>6. QED
      BY <3>1, <3>4, <3>5 DEF LockHandedOver
  <2>10. CASE Audit(t)
    <3>1. CASE Retain
      BY <2>10, <3>1, GoEffect, LockKept DEF Audit, Retain, InOperation, At
    <3>2. CASE Discard
      <4>1. Only(t) /\ thread'[t].at = "discard"
        BY <2>10, <3>2, GiveUpEffect DEF Audit
      <4>2. QED
        BY <2>10, <3>2, <4>1, LockKept DEF Audit, Discard, InOperation, At
    <3>3. CASE Discarded \/ FinishAudit
      BY <2>10, <3>3, IdleEffect, LockFreed
         DEF Audit, Discarded, FinishAudit, EndOperation, InOperation, At
    <3>4. QED
      BY <2>10, <3>1, <3>2, <3>3 DEF Audit
  <2>11. QED
    BY <2>1, <2>3, <2>4, <2>5, <2>6, <2>7, <2>8, <2>9, <2>10
<1>3. QED
  BY <1>1, <1>2

---------------------------------------------------------------------------
(* Who owns an upload. *)

\* Threads that have an upload to themselves, in no table.
Exclusive(t) == \E place \in {"staging", "claimed", "running"} : At(t, place)

\* Threads that work on an upload that is kept for its review.
Reviews(t) == \E place \in {"retained", "approving", "approved"} : At(t, place)

\* Handlers of an audit that have seen their upload prepared.
SeesReady(t) == At(t, "found") \/ (At(t, "operating") /\ thread[t].request = "audit")

ToRemove(t) == thread[t].todo \cup IF thread[t].removal = None THEN {}
                                   ELSE {thread[t].removal.of}

PreparedOwned ==
    \A u \in Upload : uploads[u] # None =>
        u \notin retained /\ u \notin pending /\ disk[u] = "files"

ExclusiveOwned ==
    \A t \in Thread : Exclusive(t) =>
        /\ uploads[thread[t].upload] = None
        /\ thread[t].upload \notin retained
        /\ thread[t].upload \notin pending
        /\ disk[thread[t].upload] = "files"

ExclusiveAlone ==
    \A s, t \in Thread :
        Exclusive(s) /\ Exclusive(t) /\ thread[s].upload = thread[t].upload => s = t

\* An approval removes its upload before it is taken out of the table.
RetainedOwned ==
    \A u \in retained :
        /\ u \notin pending
        /\ \/ disk[u] = "files"
           \/ disk[u] # "unused" /\ \E t \in Thread : At(t, "approved") /\ thread[t].upload = u

PendingOwned == \A u \in pending : disk[u] # "unused"

RemovalOwned ==
    \A t \in Thread : \A u \in ToRemove(t) :
        /\ uploads[u] = None
        /\ disk[u] # "unused"
        /\ u \in retained => At(t, "approved") /\ thread[t].upload = u
        /\ \A s \in Thread : Exclusive(s) => thread[s].upload # u

ReviewOwned == \A t \in Thread : Reviews(t) => thread[t].upload \in retained

\* What was prepared is not prepared once more.
ReadyOnce ==
    \A t \in Thread : SeesReady(t) =>
        /\ disk[thread[t].upload] # "unused"
        /\ uploads[thread[t].upload] # "staged"
        /\ \A s \in Thread : At(s, "staging") => thread[s].upload # thread[t].upload

Ownership == /\ PreparedOwned /\ ExclusiveOwned /\ ExclusiveAlone /\ RetainedOwned
             /\ PendingOwned /\ RemovalOwned /\ ReviewOwned /\ ReadyOnce

IInv == TypeOK /\ ShapeOK /\ LockHandedOver /\ Ownership

LEMMA OwnTypes ==
    ASSUME TypeOK, ShapeOK, NEW t \in Thread
    PROVE  /\ ToRemove(t) \subseteq Upload
           /\ Exclusive(t) \/ Reviews(t) \/ SeesReady(t) => thread[t].upload \in Upload
<1>1. thread[t] \in Record
  BY DEF TypeOK
<1>2. ToRemove(t) \subseteq Upload
  BY <1>1 DEF ToRemove, Record, Attempt
<1>3. QED
  BY <1>2 DEF ShapeOK, WellFormed, HasUpload, RemovesItsUpload, Exclusive, Reviews, SeesReady, At

SameFor(s) ==
    /\ thread'[s] = thread[s] /\ ToRemove(s)' = ToRemove(s)
    /\ At(s, "staging")' <=> At(s, "staging")
    /\ At(s, "approved")' <=> At(s, "approved")
    /\ Exclusive(s)' <=> Exclusive(s)
    /\ Reviews(s)' <=> Reviews(s)
    /\ SeesReady(s)' <=> SeesReady(s)

LEMMA OthersSame ==
    ASSUME NEW t \in Thread, Only(t), NEW s \in Thread, s # t
    PROVE  SameFor(s)
BY DEF Only, SameFor, Exclusive, Reviews, SeesReady, ToRemove, At

LEMMA OwnershipExpire ==
    ASSUME IInv, NEW t \in Thread, Expire(t)
    PROVE  Ownership'
<1>1. PICK aged \in SUBSET Upload :
         /\ aged \subseteq Expirable
         /\ uploads' = [u \in Upload |-> IF u \in aged THEN None ELSE uploads[u]]
         /\ retained' = retained \ aged
         /\ pending' = pending \cup aged
         /\ disk' = disk
  BY DEF Expire, Reap
<1>2. Only(t) /\ thread'[t].at = "clean" /\ thread'[t].todo = pending' /\ thread'[t].removal = None
  BY ExpireEffect DEF IInv
<1>3. ~Exclusive(t)' /\ ~Reviews(t)' /\ ~SeesReady(t)' /\ ToRemove(t)' = pending'
  BY <1>2 DEF Exclusive, Reviews, SeesReady, ToRemove, At
<1>4. ASSUME NEW s \in Thread, s # t
      PROVE  SameFor(s)
  BY <1>2, <1>4, OthersSame
<1>5. ASSUME NEW s \in Thread, Reviews(s)
      PROVE  retained' = retained /\ \A u \in aged : uploads[u] # None
  BY <1>1, <1>5 DEF Reviews, IInv, LockHandedOver, InOperation, Expirable, Ownership, PreparedOwned
<1>6. PreparedOwned'
  BY <1>1 DEF IInv, Ownership, PreparedOwned
<1>7. aged \subseteq {u \in Upload : uploads[u] # None} \cup retained
  BY <1>1 DEF Expirable
<1>8. \A s \in Thread : Exclusive(s) \/ Reviews(s) \/ SeesReady(s) => thread[s].upload \in Upload
  BY OwnTypes DEF IInv
<1>9. ExclusiveOwned' /\ ExclusiveAlone'
  BY <1>1, <1>3, <1>4, <1>7, <1>8 DEF SameFor, IInv, Ownership, ExclusiveOwned, ExclusiveAlone
<1>10. PendingOwned'
  BY <1>1, <1>7, NoneIsNothing DEF IInv, Ownership, PreparedOwned, PendingOwned, RetainedOwned
<1>11. RetainedOwned'
  <2>1. ASSUME NEW u \in retained', disk[u] # "files"
        PROVE  \E s \in Thread : At(s, "approved")' /\ thread'[s].upload = u
    <3>1. PICK s \in Thread : At(s, "approved") /\ thread[s].upload = u
      BY <1>1, <2>1 DEF IInv, Ownership, RetainedOwned
    <3>2. s # t
      BY <3>1 DEF Expire, AllCleaned, At
    <3>3. QED
      BY <1>4, <3>1, <3>2 DEF SameFor
  <2>2. QED
    BY <1>1, <2>1 DEF IInv, Ownership, RetainedOwned
<1>12. ReviewOwned'
  BY <1>3, <1>4, <1>5 DEF SameFor, IInv, Ownership, ReviewOwned
<1>13. ReadyOnce'
  BY <1>1, <1>2, <1>3, <1>4, <1>8, NoneIsNothing DEF SameFor, IInv, Ownership, ReadyOnce, At
<1>14. RemovalOwned'
  <2>1. ASSUME NEW u \in pending'
        PROVE  /\ uploads'[u] = None /\ disk'[u] # "unused" /\ u \notin retained'
               /\ \A s \in Thread : Exclusive(s)' => thread'[s].upload # u
    BY <1>1, <1>9, <1>10, <1>11, <2>1, <1>6 DEF IInv, TypeOK, PendingOwned, ExclusiveOwned, RetainedOwned, PreparedOwned
  <2>2. ASSUME NEW s \in Thread, s # t, NEW u \in ToRemove(s)
        PROVE  /\ uploads'[u] = None /\ disk'[u] # "unused"
               /\ u \in retained' => At(s, "approved")' /\ thread'[s].upload = u
               /\ \A r \in Thread : Exclusive(r)' => thread'[r].upload # u
    <3>1. u \in Upload
      BY <2>2, OwnTypes DEF IInv
    <3>2. At(s, "approved")' <=> At(s, "approved")
      BY <1>4, <2>2 DEF SameFor
    <3>3. QED
      BY <1>1, <1>3, <1>4, <2>2, <3>1, <3>2 DEF SameFor, IInv, Ownership, RemovalOwned
  <2>3. QED
    BY <1>3, <1>4, <2>1, <2>2 DEF SameFor, RemovalOwned
<1>15. QED
  BY <1>6, <1>9, <1>10, <1>11, <1>12, <1>13, <1>14 DEF Ownership

\* A step that takes nothing into possession.
LEMMA OwnershipQuiet ==
    ASSUME IInv, NEW t \in Thread, Only(t),
           uploads' = uploads, retained' = retained, pending' \subseteq pending, disk' = disk,
           ToRemove(t)' \subseteq ToRemove(t),
           Exclusive(t)' => Exclusive(t) /\ thread'[t].upload = thread[t].upload,
           At(t, "staging")' => At(t, "staging"),
           Reviews(t)' => thread'[t].upload \in retained,
           At(t, "approved") => At(t, "approved")' /\ thread'[t].upload = thread[t].upload,
           SeesReady(t)' => \/ uploads[thread'[t].upload] = "ready" /\ thread'[t].upload \in Upload
                            \/ SeesReady(t) /\ thread'[t].upload = thread[t].upload
    PROVE  Ownership'
<1>1. \A s \in Thread \ {t} : SameFor(s)
  BY OthersSame
<1>2. PreparedOwned' /\ PendingOwned'
  BY DEF IInv, Ownership, PreparedOwned, PendingOwned
<1>3. ExclusiveOwned' /\ ExclusiveAlone'
  BY <1>1 DEF SameFor, IInv, Ownership, ExclusiveOwned, ExclusiveAlone
<1>4. RetainedOwned'
  <2>1. ASSUME NEW s \in Thread, At(s, "approved")
        PROVE  At(s, "approved")' /\ thread'[s].upload = thread[s].upload
    BY <1>1, <2>1 DEF SameFor
  <2>2. QED
    BY <2>1 DEF IInv, Ownership, RetainedOwned
<1>5. RemovalOwned'
  <2>1. ASSUME NEW s \in Thread, NEW u \in ToRemove(s)'
        PROVE  /\ u \in ToRemove(s)
               /\ At(s, "approved") => At(s, "approved")' /\ thread'[s].upload = thread[s].upload
    BY <1>1, <2>1 DEF SameFor
  <2>2. ASSUME NEW s \in Thread, Exclusive(s)'
        PROVE  Exclusive(s) /\ thread'[s].upload = thread[s].upload
    BY <1>1, <2>2 DEF SameFor
  <2>3. QED
    BY <2>1, <2>2 DEF IInv, Ownership, RemovalOwned
<1>6. ReviewOwned'
  BY <1>1 DEF SameFor, IInv, Ownership, ReviewOwned
<1>7. ReadyOnce'
  <2>1. ASSUME NEW s \in Thread, At(s, "staging")'
        PROVE  At(s, "staging") /\ thread'[s].upload = thread[s].upload
    BY <1>1, <2>1 DEF SameFor, Exclusive, At
  <2>2. ASSUME NEW s \in Thread, SeesReady(s)'
        PROVE  \/ uploads[thread'[s].upload] = "ready" /\ thread'[s].upload \in Upload
               \/ SeesReady(s) /\ thread'[s].upload = thread[s].upload
    BY <1>1, <2>2 DEF SameFor
  <2>3. ASSUME NEW u \in Upload, uploads[u] = "ready"
        PROVE  disk[u] # "unused" /\ \A s \in Thread : At(s, "staging") => thread[s].upload # u
    BY <2>3, NoneIsNothing DEF IInv, Ownership, PreparedOwned, ExclusiveOwned, Exclusive
  <2>4. QED
    BY <2>1, <2>2, <2>3 DEF IInv, Ownership, ReadyOnce
<1>8. QED
  BY <1>2, <1>3, <1>4, <1>5, <1>6, <1>7 DEF Ownership

\* Work on the directory of an upload that is being removed.
LEMMA OwnershipRemoval ==
    ASSUME IInv, NEW t \in Thread, RemovalStep(t)
    PROVE  Ownership'
<1>1. /\ Only(t) /\ thread'[t].at = thread[t].at /\ KeepsRequest(t)
      /\ ToRemove(t)' = ToRemove(t)
  BY ProceedEffect, RemovalFailsEffect
     DEF RemovalStep, Unlink, UnlinkVanished, RemoveDirectory, Removing, ToRemove, RemovalFails, IInv
<1>2. UNCHANGED tables
  BY DEF RemovalStep, Unlink, UnlinkVanished, RemoveDirectory, RemovalFails
<1>3. \/ disk' = disk
      \/ \E u \in ToRemove(t), to \in {"empty", "gone"} : disk' = [disk EXCEPT ![u] = to]
  BY DEF RemovalStep, Unlink, UnlinkVanished, RemoveDirectory, RemovalFails, Removing, ToRemove
<1>4. /\ Exclusive(t)' <=> Exclusive(t)
      /\ Reviews(t)' <=> Reviews(t)
      /\ SeesReady(t)' <=> SeesReady(t)
  BY <1>1 DEF KeepsRequest, Exclusive, Reviews, SeesReady, At
<1>5. CASE disk' = disk
  BY <1>1, <1>2, <1>4, <1>5, OwnershipQuiet DEF tables, KeepsRequest, IInv, Ownership, ReviewOwned, At
<1>6. CASE disk' # disk
  <2>1. PICK u \in ToRemove(t), to \in {"empty", "gone"} : disk' = [disk EXCEPT ![u] = to]
    BY <1>3, <1>6
  <2>2. /\ u \in Upload /\ uploads[u] = None
        /\ u \in retained => At(t, "approved") /\ thread[t].upload = u
        /\ \A s \in Thread : Exclusive(s) => thread[s].upload # u
    BY OwnTypes DEF IInv, Ownership, RemovalOwned
  <2>3. \A s \in Thread : SameFor(s) \/ s = t
    BY <1>1, OthersSame
  <2>4. \A s \in Thread : /\ ToRemove(s)' = ToRemove(s)
                          /\ thread'[s].upload = thread[s].upload
                          /\ At(s, "staging")' <=> At(s, "staging")
                          /\ At(s, "approved")' <=> At(s, "approved")
                          /\ Exclusive(s)' <=> Exclusive(s)
                          /\ Reviews(s)' <=> Reviews(s)
                          /\ SeesReady(s)' <=> SeesReady(s)
    BY <1>1, <1>4, <2>3 DEF SameFor, KeepsRequest, At
  <2>5. /\ disk'[u] # "unused"
        /\ \A v \in Upload : v # u => disk'[v] = disk[v]
    BY <2>1, <2>2 DEF IInv, TypeOK
  <2>6. \A s \in Thread : Exclusive(s) \/ SeesReady(s) => thread[s].upload \in Upload
    BY OwnTypes DEF IInv
  <2>7. PreparedOwned' /\ PendingOwned'
    BY <1>2, <2>2, <2>5 DEF tables, IInv, TypeOK, Ownership, PreparedOwned, PendingOwned
  <2>8. ExclusiveOwned' /\ ExclusiveAlone'
    BY <1>2, <2>2, <2>4, <2>5, <2>6 DEF tables, IInv, Ownership, ExclusiveOwned, ExclusiveAlone
  <2>9. RetainedOwned'
    <3>1. ASSUME NEW v \in retained
          PROVE  /\ v \notin pending
                 /\ \/ disk'[v] = "files"
                    \/ disk'[v] # "unused" /\ \E s \in Thread : At(s, "approved") /\ thread[s].upload = v
      BY <2>2, <2>5 DEF IInv, TypeOK, Ownership, RetainedOwned
    <3>2. QED
      BY <1>2, <2>4, <3>1 DEF tables, RetainedOwned
  <2>10. RemovalOwned'
    <3>1. ASSUME NEW s \in Thread, NEW v \in ToRemove(s)
          PROVE  /\ uploads[v] = None /\ disk'[v] # "unused"
                 /\ v \in retained => At(s, "approved") /\ thread[s].upload = v
                 /\ \A r \in Thread : Exclusive(r) => thread[r].upload # v
      BY <2>5, OwnTypes DEF IInv, Ownership, RemovalOwned
    <3>2. QED
      BY <1>2, <2>4, <3>1 DEF tables, RemovalOwned
  <2>11. ReviewOwned'
    BY <1>2, <2>4 DEF tables, IInv, Ownership, ReviewOwned
  <2>12. ReadyOnce'
    BY <1>2, <2>4, <2>5, <2>6 DEF tables, IInv, Ownership, ReadyOnce
  <2>13. QED
    BY <2>7, <2>8, <2>9, <2>10, <2>11, <2>12 DEF Ownership
<1>7. QED
  BY <1>5, <1>6

\* A thread gives up the upload it has to itself, or that it reviews.
LEMMA OwnershipGivesUp ==
    ASSUME IInv, NEW t \in Thread, Only(t),
           uploads' = uploads, pending' = pending, disk' = disk,
           LET u == thread[t].upload
           IN  /\ ToRemove(t)' = {u} /\ thread'[t].upload = u
               /\ \/ Exclusive(t) /\ retained' = retained
                  \/ Reviews(t) /\ retained' = retained \ {u}
                  \/ Reviews(t) /\ At(t, "approved")' /\ retained' = retained,
           ~At(t, "approved"), ~Exclusive(t)', ~SeesReady(t)',
           Reviews(t)' => Reviews(t) /\ retained' = retained
    PROVE  Ownership'
<1> DEFINE u == thread[t].upload
<1>1. \A s \in Thread : SameFor(s) \/ s = t
  BY OthersSame
<1>2. u \in Upload /\ uploads[u] = None /\ disk[u] # "unused" /\ u \notin pending
  BY OwnTypes, NoneIsNothing
     DEF IInv, TypeOK, Ownership, ExclusiveOwned, ReviewOwned, RetainedOwned, PreparedOwned
<1>3. \A s \in Thread \ {t} : Exclusive(s) => thread[s].upload # u
  BY DEF IInv, Ownership, ExclusiveOwned, ExclusiveAlone, ReviewOwned
<1>4. \A s \in Thread \ {t} : Reviews(s) => retained' = retained \/ thread[s].upload # u
  BY DEF IInv, LockHandedOver, InOperation, Reviews
<1>5. u \in retained' => At(t, "approved")'
  BY DEF IInv, Ownership, ExclusiveOwned
<1>6. PreparedOwned' /\ PendingOwned' /\ ReadyOnce'
  BY <1>1 DEF SameFor, Exclusive, At, IInv, Ownership, PreparedOwned, PendingOwned, ReadyOnce
<1>7. ExclusiveOwned' /\ ExclusiveAlone'
  BY <1>1 DEF SameFor, IInv, Ownership, ExclusiveOwned, ExclusiveAlone
<1>8. RetainedOwned'
  <2>1. ASSUME NEW v \in retained', NEW s \in Thread, At(s, "approved"), thread[s].upload = v
        PROVE  At(s, "approved")' /\ thread'[s].upload = v
    BY <1>1, <2>1 DEF SameFor
  <2>2. QED
    BY <2>1 DEF IInv, Ownership, RetainedOwned
<1>9. RemovalOwned'
  <2>1. ASSUME NEW s \in Thread, s # t, NEW v \in ToRemove(s)
        PROVE  /\ uploads'[v] = None /\ disk'[v] # "unused"
               /\ v \in retained' => At(s, "approved")' /\ thread'[s].upload = v
               /\ \A r \in Thread : Exclusive(r)' => thread'[r].upload # v
    BY <1>1, <2>1 DEF SameFor, IInv, Ownership, RemovalOwned
  <2>2. \A r \in Thread : Exclusive(r)' => thread'[r].upload # u
    BY <1>1, <1>3 DEF SameFor
  <2>3. QED
    BY <1>1, <1>2, <1>5, <2>1, <2>2 DEF SameFor, RemovalOwned
<1>10. ReviewOwned'
  BY <1>1, <1>4 DEF SameFor, IInv, Ownership, ReviewOwned
<1>11. QED
  BY <1>6, <1>7, <1>8, <1>9, <1>10 DEF Ownership

\* A removal ends; what could not be removed is queued.
LEMMA OwnershipDisposes ==
    ASSUME IInv, NEW t \in Thread, Only(t), RemovesItsUpload(t), Removed(t), Dispose(t),
           uploads' = uploads, disk' = disk,
           retained' = IF At(t, "approved") THEN retained \ {thread[t].upload} ELSE retained,
           ToRemove(t)' = {}, ~Exclusive(t)', ~SeesReady(t)', ~Reviews(t)'
    PROVE  Ownership'
<1> DEFINE u == thread[t].upload
<1>1. \A s \in Thread : SameFor(s) \/ s = t
  BY OthersSame
<1>2. u \in ToRemove(t) /\ u \in Upload /\ thread[t].removal.of = u
  BY DEF IInv, ShapeOK, WellFormed, HasUpload, ToRemove, Removed, Removing
<1>3. /\ uploads[u] = None /\ disk[u] # "unused" /\ u \notin retained'
      /\ \A s \in Thread : Exclusive(s) => thread[s].upload # u
  BY <1>2 DEF IInv, Ownership, RemovalOwned
<1>4. pending' = pending \/ pending' = pending \cup {u}
  BY <1>2 DEF Dispose
<1>5. \A s \in Thread \ {t} : Reviews(s) => retained' = retained
  BY DEF IInv, LockHandedOver, InOperation, Reviews
<1>6. PreparedOwned' /\ PendingOwned' /\ ReadyOnce'
  BY <1>1, <1>3, <1>4
     DEF SameFor, Exclusive, At, IInv, Ownership, PreparedOwned, PendingOwned, ReadyOnce
<1>7. ExclusiveOwned' /\ ExclusiveAlone'
  BY <1>1, <1>3, <1>4 DEF SameFor, IInv, Ownership, ExclusiveOwned, ExclusiveAlone
<1>8. RetainedOwned'
  <2>1. ASSUME NEW v \in retained', NEW s \in Thread, At(s, "approved"), thread[s].upload = v
        PROVE  At(s, "approved")' /\ thread'[s].upload = v
    BY <1>1, <1>3, <2>1 DEF SameFor
  <2>2. QED
    BY <1>3, <1>4, <2>1 DEF IInv, Ownership, RetainedOwned
<1>9. RemovalOwned'
  <2>1. ASSUME NEW s \in Thread, s # t, NEW v \in ToRemove(s)
        PROVE  /\ uploads'[v] = None /\ disk'[v] # "unused"
               /\ v \in retained' => At(s, "approved")' /\ thread'[s].upload = v
               /\ \A r \in Thread : Exclusive(r)' => thread'[r].upload # v
    BY <1>1, <2>1 DEF SameFor, IInv, Ownership, RemovalOwned
  <2>2. QED
    BY <1>1, <2>1 DEF SameFor, RemovalOwned
<1>10. ReviewOwned'
  BY <1>1, <1>5 DEF SameFor, IInv, Ownership, ReviewOwned
<1>11. QED
  BY <1>6, <1>7, <1>8, <1>9, <1>10 DEF Ownership

LEMMA OwnershipReceives ==
    ASSUME IInv, NEW t \in Handler, ReceiveWorkbook(t)
    PROVE  Ownership'
<1>1. t \in Thread /\ UNCHANGED tables /\ thread[t].todo = {} /\ thread[t].removal = None
  BY Serious DEF IInv, Thread, ReceiveWorkbook, At
<1>2. PICK u \in Upload :
         /\ disk[u] = "unused" /\ disk' = [disk EXCEPT ![u] = "files"]
         /\ Only(t) /\ thread'[t].at = "staging"
         /\ thread'[t].upload = u /\ thread'[t].todo = {} /\ thread'[t].removal = None
  BY <1>1, ReceiveWorkbookEffect DEF IInv
<1>3. Exclusive(t)' /\ ~Reviews(t)' /\ ~SeesReady(t)' /\ ToRemove(t)' = {}
  BY <1>2 DEF Exclusive, Reviews, SeesReady, ToRemove, At
<1>4. \A s \in Thread : SameFor(s) \/ s = t
  BY <1>1, <1>2, OthersSame
<1>5. /\ uploads[u] = None /\ u \notin retained /\ u \notin pending
      /\ \A s \in Thread : /\ u \notin ToRemove(s)
                           /\ Exclusive(s) \/ SeesReady(s) => thread[s].upload # u
  BY <1>2 DEF IInv, Ownership, PreparedOwned, ExclusiveOwned, RetainedOwned, PendingOwned,
              RemovalOwned, ReadyOnce
<1>6. disk'[u] = "files" /\ \A v \in Upload : v # u => disk'[v] = disk[v]
  BY <1>2 DEF IInv, TypeOK
<1>7. \A s \in Thread : /\ ToRemove(s) \subseteq Upload
                        /\ Exclusive(s) \/ SeesReady(s) => thread[s].upload \in Upload
  BY OwnTypes DEF IInv
<1>8. PreparedOwned' /\ PendingOwned'
  BY <1>1, <1>5, <1>6 DEF tables, IInv, TypeOK, Ownership, PreparedOwned, PendingOwned
<1>9. ReadyOnce'
  BY <1>1, <1>2, <1>3, <1>4, <1>5, <1>6, <1>7
     DEF tables, SameFor, IInv, Ownership, ReadyOnce
<1>10. ExclusiveOwned'
  BY <1>1, <1>2, <1>4, <1>5, <1>6, <1>7 DEF tables, SameFor, IInv, Ownership, ExclusiveOwned
<1>11. ExclusiveAlone'
  BY <1>2, <1>4, <1>5 DEF SameFor, IInv, Ownership, ExclusiveAlone
<1>12. RetainedOwned'
  <2>1. ASSUME NEW v \in Upload, NEW s \in Thread, At(s, "approved"), thread[s].upload = v
        PROVE  At(s, "approved")' /\ thread'[s].upload = v
    <3>1. s # t
      BY <2>1 DEF ReceiveWorkbook, At
    <3>2. QED
      BY <1>4, <2>1, <3>1 DEF SameFor
  <2>2. QED
    BY <1>1, <1>5, <1>6, <2>1 DEF tables, IInv, TypeOK, Ownership, RetainedOwned
<1>13. RemovalOwned'
  <2>1. ASSUME NEW s \in Thread, s # t, NEW v \in ToRemove(s)
        PROVE  /\ uploads'[v] = None /\ disk'[v] # "unused"
               /\ v \in retained' => At(s, "approved")' /\ thread'[s].upload = v
               /\ \A r \in Thread : Exclusive(r)' => thread'[r].upload # v
    BY <1>1, <1>2, <1>4, <1>5, <1>6, <1>7, <2>1
       DEF tables, SameFor, IInv, Ownership, RemovalOwned
  <2>2. QED
    BY <1>3, <1>4, <2>1 DEF SameFor, RemovalOwned
<1>14. ReviewOwned'
  BY <1>1, <1>3, <1>4 DEF tables, SameFor, IInv, Ownership, ReviewOwned
<1>15. QED
  BY <1>8, <1>9, <1>10, <1>11, <1>12, <1>13, <1>14 DEF Ownership

\* A prepared upload is taken out of the table.
LEMMA OwnershipTakes ==
    ASSUME IInv, NEW t \in Thread, Only(t),
           NEW u \in Upload, u = thread[t].upload, u = thread'[t].upload, uploads[u] # None,
           uploads' = [uploads EXCEPT ![u] = None],
           UNCHANGED <<retained, pending, disk>>,
           ToRemove(t)' = {}, Exclusive(t)', ~SeesReady(t)', ~Reviews(t)', ~At(t, "approved"),
           At(t, "staging")' => uploads[u] = "staged"
    PROVE  Ownership'
<1>1. \A s \in Thread : SameFor(s) \/ s = t
  BY OthersSame
<1>2. /\ uploads'[u] = None /\ u \notin retained /\ u \notin pending /\ disk[u] = "files"
      /\ \A s \in Thread : u \notin ToRemove(s) /\ (Exclusive(s) => thread[s].upload # u)
      /\ \A v \in Upload : v # u => uploads'[v] = uploads[v]
  BY DEF IInv, TypeOK, Ownership, PreparedOwned, ExclusiveOwned, RemovalOwned
<1>3. \A s \in Thread : /\ ToRemove(s) \subseteq Upload
                        /\ Exclusive(s) \/ SeesReady(s) => thread[s].upload \in Upload
  BY OwnTypes DEF IInv
<1>4. PreparedOwned' /\ PendingOwned'
  BY <1>2 DEF IInv, TypeOK, Ownership, PreparedOwned, PendingOwned
<1>5. ExclusiveOwned' /\ ExclusiveAlone'
  BY <1>1, <1>2, <1>3 DEF SameFor, IInv, Ownership, ExclusiveOwned, ExclusiveAlone
<1>6. RetainedOwned'
  BY <1>1 DEF SameFor, IInv, Ownership, RetainedOwned
<1>7. RemovalOwned'
  <2>1. ASSUME NEW s \in Thread, s # t, NEW v \in ToRemove(s)
        PROVE  /\ uploads'[v] = None /\ disk'[v] # "unused"
               /\ v \in retained' => At(s, "approved")' /\ thread'[s].upload = v
               /\ \A r \in Thread : Exclusive(r)' => thread'[r].upload # v
    BY <1>1, <1>2, <1>3, <2>1 DEF SameFor, IInv, Ownership, RemovalOwned
  <2>2. QED
    BY <1>1, <2>1 DEF SameFor, RemovalOwned
<1>8. ReviewOwned'
  BY <1>1 DEF SameFor, IInv, Ownership, ReviewOwned
<1>9. ReadyOnce'
  BY <1>1, <1>2, <1>3, NoneIsNothing DEF SameFor, IInv, Ownership, ReadyOnce
<1>10. QED
  BY <1>4, <1>5, <1>6, <1>7, <1>8, <1>9 DEF Ownership

LEMMA OwnershipAccepts ==
    ASSUME IInv, NEW t \in Handler, Accept(t)
    PROVE  Ownership'
<1> DEFINE u == thread[t].upload
<1>1. t \in Thread /\ Exclusive(t) /\ thread[t].todo = {} /\ thread[t].removal = None
  BY Serious DEF IInv, Thread, Accept, Exclusive, At
<1>2. u \in Upload
  BY <1>1, OwnTypes DEF IInv
<1>3. Only(t) /\ thread'[t].at = "release" /\ thread'[t].todo = {} /\ thread'[t].removal = None
  BY <1>1, GoEffect DEF IInv, Accept
<1>4. ~Exclusive(t)' /\ ~Reviews(t)' /\ ~SeesReady(t)' /\ ToRemove(t)' = {}
  BY <1>3 DEF Exclusive, Reviews, SeesReady, ToRemove, At
<1>5. \A s \in Thread : SameFor(s) \/ s = t
  BY <1>1, <1>3, OthersSame
<1>6. /\ uploads'[u] \in {"staged", "ready"}
      /\ \A v \in Upload : v # u => uploads'[v] = uploads[v]
      /\ UNCHANGED <<retained, pending, disk>>
  BY <1>2 DEF Accept, IInv, TypeOK
<1>7. /\ u \notin retained /\ u \notin pending /\ disk[u] = "files"
      /\ \A s \in Thread : /\ u \notin ToRemove(s)
                           /\ Exclusive(s) /\ s # t => thread[s].upload # u
                           /\ SeesReady(s) => thread[s].upload # u
  BY <1>1 DEF Accept, At, IInv, Ownership, ExclusiveOwned, ExclusiveAlone, RemovalOwned, ReadyOnce
<1>8. \A s \in Thread : /\ ToRemove(s) \subseteq Upload
                        /\ Exclusive(s) \/ SeesReady(s) => thread[s].upload \in Upload
  BY OwnTypes DEF IInv
<1>9. PreparedOwned' /\ PendingOwned'
  BY <1>6, <1>7 DEF IInv, TypeOK, Ownership, PreparedOwned, PendingOwned
<1>10. ExclusiveOwned' /\ ExclusiveAlone'
  BY <1>4, <1>5, <1>6, <1>7, <1>8 DEF SameFor, IInv, Ownership, ExclusiveOwned, ExclusiveAlone
<1>11. RetainedOwned'
  BY <1>5, <1>6 DEF Accept, At, SameFor, IInv, Ownership, RetainedOwned
<1>12. RemovalOwned'
  <2>1. ASSUME NEW s \in Thread, s # t, NEW v \in ToRemove(s)
        PROVE  /\ uploads'[v] = None /\ disk'[v] # "unused"
               /\ v \in retained' => At(s, "approved")' /\ thread'[s].upload = v
               /\ \A r \in Thread : Exclusive(r)' => thread'[r].upload # v
    BY <1>4, <1>5, <1>6, <1>7, <1>8, <2>1 DEF SameFor, IInv, Ownership, RemovalOwned
  <2>2. QED
    BY <1>4, <1>5, <2>1 DEF SameFor, RemovalOwned
<1>13. ReviewOwned'
  BY <1>4, <1>5, <1>6 DEF SameFor, IInv, Ownership, ReviewOwned
<1>14. ReadyOnce'
  BY <1>3, <1>4, <1>5, <1>6, <1>7, <1>8 DEF SameFor, IInv, Ownership, ReadyOnce, At
<1>15. QED
  BY <1>9, <1>10, <1>11, <1>12, <1>13, <1>14 DEF Ownership

LEMMA OwnershipRetains ==
    ASSUME IInv, Retain
    PROVE  Ownership'
<1> DEFINE t == Worker
           u == thread[Worker].upload
<1>1. t \in Thread /\ Exclusive(t) /\ thread[t].todo = {} /\ thread[t].removal = None
  BY Serious DEF IInv, Thread, Retain, Exclusive, At
<1>2. /\ Only(t) /\ thread'[t].at = "retained" /\ thread'[t].upload = u
      /\ thread'[t].todo = {} /\ thread'[t].removal = None
  BY <1>1, GoEffect DEF IInv, Retain, KeepsRequest
<1>3. ~Exclusive(t)' /\ ~SeesReady(t)' /\ ToRemove(t)' = {}
  BY <1>2 DEF Exclusive, SeesReady, ToRemove, At
<1>4. \A s \in Thread : SameFor(s) \/ s = t
  BY <1>1, <1>2, OthersSame
<1>5. retained' = retained \cup {u} /\ UNCHANGED <<uploads, pending, disk>>
  BY DEF Retain
<1>6. /\ uploads[u] = None /\ u \notin pending /\ disk[u] = "files"
      /\ \A s \in Thread : /\ u \notin ToRemove(s)
                           /\ Exclusive(s) /\ s # t => thread[s].upload # u
  BY <1>1 DEF IInv, Ownership, ExclusiveOwned, ExclusiveAlone, RemovalOwned
<1>7. PreparedOwned' /\ PendingOwned'
  BY <1>5, <1>6 DEF IInv, Ownership, PreparedOwned, PendingOwned
<1>8. ExclusiveOwned' /\ ExclusiveAlone'
  BY <1>3, <1>4, <1>5, <1>6 DEF SameFor, IInv, Ownership, ExclusiveOwned, ExclusiveAlone
<1>9. RetainedOwned'
  BY <1>4, <1>5, <1>6 DEF Retain, At, SameFor, IInv, Ownership, RetainedOwned
<1>10. RemovalOwned'
  BY <1>3, <1>4, <1>5, <1>6 DEF SameFor, IInv, Ownership, RemovalOwned
<1>11. ReviewOwned'
  BY <1>2, <1>4, <1>5 DEF SameFor, IInv, Ownership, ReviewOwned
<1>12. ReadyOnce'
  BY <1>2, <1>3, <1>4, <1>5 DEF SameFor, IInv, Ownership, ReadyOnce, At
<1>13. QED
  BY <1>7, <1>8, <1>9, <1>10, <1>11, <1>12 DEF Ownership

LEMMA OwnershipHandsOver ==
    ASSUME IInv, NEW t \in Handler, StartWorker(t)
    PROVE  Ownership'
<1> DEFINE u == thread[t].upload
<1>1. t \in Thread /\ Worker \in Thread /\ t # Worker /\ Exclusive(t) /\ InOperation(t)
  BY ServerAssumption DEF Thread, StartWorker, Exclusive, InOperation, At
<1>2. At(Worker, "idle")
  BY <1>1, WorkerIdle DEF IInv
<1>3. /\ thread'[t] = Idle /\ thread'[Worker].at = "running" /\ thread'[Worker].upload = u
      /\ thread'[Worker].removal = None /\ thread'[Worker].todo = {}
      /\ \A s \in Thread \ {t, Worker} : thread'[s] = thread[s]
  BY <1>2, ShapeStart DEF IInv
<1>4. /\ ~Exclusive(t)' /\ ~Reviews(t)' /\ ~SeesReady(t)' /\ ToRemove(t)' = {}
      /\ ~At(t, "approved") /\ ~At(t, "staging")'
  BY <1>3, IdleFields DEF StartWorker, Exclusive, Reviews, SeesReady, ToRemove, At
<1>5. /\ Exclusive(Worker)' /\ ~Reviews(Worker)' /\ ~SeesReady(Worker)' /\ ToRemove(Worker)' = {}
      /\ ~At(Worker, "approved") /\ ~At(Worker, "staging")' /\ ~Exclusive(Worker)
  BY <1>2, <1>3 DEF Exclusive, Reviews, SeesReady, ToRemove, At
<1>6. \A s \in Thread : SameFor(s) \/ s = t \/ s = Worker
  BY <1>3 DEF SameFor, Exclusive, Reviews, SeesReady, ToRemove, At
<1>7. UNCHANGED <<uploads, retained, pending, disk>>
  BY DEF StartWorker, tables
<1>8. PreparedOwned' /\ PendingOwned'
  BY <1>7 DEF IInv, Ownership, PreparedOwned, PendingOwned
<1>9. ExclusiveOwned' /\ ExclusiveAlone'
  BY <1>1, <1>3, <1>4, <1>6, <1>7 DEF SameFor, IInv, Ownership, ExclusiveOwned, ExclusiveAlone
<1>10. RetainedOwned'
  BY <1>4, <1>5, <1>6, <1>7 DEF SameFor, IInv, Ownership, RetainedOwned
<1>11. RemovalOwned'
  BY <1>1, <1>3, <1>4, <1>5, <1>6, <1>7 DEF SameFor, IInv, Ownership, RemovalOwned
<1>12. ReviewOwned'
  BY <1>4, <1>5, <1>6, <1>7 DEF SameFor, IInv, Ownership, ReviewOwned
<1>13. ReadyOnce'
  BY <1>4, <1>5, <1>6, <1>7 DEF SameFor, IInv, Ownership, ReadyOnce
<1>14. QED
  BY <1>8, <1>9, <1>10, <1>11, <1>12, <1>13 DEF Ownership

LEMMA OwnershipSweep ==
    ASSUME IInv, NEW t \in Thread, Sweep(t)
    PROVE  Ownership'
<1>1. At(t, "clean") /\ UNCHANGED <<uploads, retained, disk>> /\ pending' \subseteq pending
  BY DEF Sweep, NextRemoval, Cleaned, tables
<1>2. Only(t) /\ thread'[t].at = "clean"
  BY <1>1, NextRemovalEffect, DoneRemovingEffect DEF Sweep, IInv
<1>3. ToRemove(t)' \subseteq ToRemove(t)
  <2>1. CASE NextRemoval(t)
    <3>1. PICK u \in thread[t].todo : /\ thread'[t].todo = thread[t].todo \ {u}
                                     /\ thread'[t].removal = Removal(u, 2)
      BY <2>1, NextRemovalEffect DEF IInv
    <3>2. u \in Upload
      BY DEF IInv, TypeOK, Record
    <3>3. QED
      BY <3>1, <3>2, Attempts DEF IInv, ToRemove
  <2>2. CASE Cleaned(t)
    BY <2>2, DoneRemovingEffect DEF IInv, ToRemove
  <2>3. QED
    BY <2>1, <2>2 DEF Sweep
<1>4. QED
  BY <1>1, <1>2, <1>3, OwnershipQuiet DEF Exclusive, Reviews, SeesReady, At

LEMMA OwnershipUpload ==
    ASSUME IInv, NEW t \in Handler, UploadStep(t)
    PROVE  Ownership'
<1>1. t \in Thread
  BY DEF Thread
<1>2. CASE \E r \in Request, u \in Upload \cup {None} : Reserve(t, r, u)
  <2>1. Only(t) /\ thread'[t].at = "receive" /\ thread'[t].todo = {} /\ thread'[t].removal = None
    BY <1>1, <1>2, ServingEffect DEF IInv, Reserve
  <2>2. UNCHANGED <<tables, disk>> /\ At(t, "clean")
    BY <1>2 DEF Reserve, Serves, AllCleaned
  <2>3. QED
    BY <1>1, <2>1, <2>2, OwnershipQuiet DEF tables, Exclusive, Reviews, SeesReady, ToRemove, At
<1>3. CASE BodyRefused(t)
  <2>1. /\ Only(t) /\ thread'[t].at = "release"
        /\ thread'[t].todo = thread[t].todo /\ thread'[t].removal = thread[t].removal
    BY <1>1, <1>3, GoEffect DEF IInv, BodyRefused
  <2>2. UNCHANGED <<tables, disk>> /\ At(t, "receive")
    BY <1>3 DEF BodyRefused
  <2>3. QED
    BY <1>1, <2>1, <2>2, OwnershipQuiet DEF tables, Exclusive, Reviews, SeesReady, ToRemove, At
<1>4. CASE ReceivePolicy(t)
  <2> DEFINE u == thread[t].upload
  <2>1. /\ At(t, "receive") /\ thread[t].todo = {} /\ thread[t].removal = None /\ u \in Upload
    BY <1>1, <1>4, Serious DEF IInv, ReceivePolicy, ShapeOK, WellFormed, HasUpload, At
  <2>2. CASE uploads[u] = "staged"
    <3>1. /\ Only(t) /\ thread'[t].at = "staging" /\ thread'[t].upload = u
          /\ thread'[t].todo = {} /\ thread'[t].removal = None
      BY <1>1, <1>4, <2>1, <2>2, GoEffect DEF IInv, ReceivePolicy, KeepsRequest
    <3>2. uploads' = [uploads EXCEPT ![u] = None] /\ UNCHANGED <<retained, pending, disk>>
      BY <1>4, <2>2 DEF ReceivePolicy
    <3>3. QED
      BY <1>1, <2>1, <2>2, <3>1, <3>2, NoneIsNothing, OwnershipTakes
         DEF Exclusive, Reviews, SeesReady, ToRemove, At
  <2>3. CASE uploads[u] # "staged"
    <3>1. /\ Only(t) /\ thread'[t].at = "release" /\ thread'[t].todo = {}
          /\ thread'[t].removal = None
      BY <1>1, <1>4, <2>1, <2>3, GoEffect DEF IInv, ReceivePolicy
    <3>2. UNCHANGED <<uploads, retained, pending, disk>>
      BY <1>4, <2>3 DEF ReceivePolicy
    <3>3. QED
      BY <1>1, <2>1, <3>1, <3>2, OwnershipQuiet DEF Exclusive, Reviews, SeesReady, ToRemove, At
  <2>4. QED
    BY <2>2, <2>3
<1>5. CASE Reject(t)
  <2>1. PICK n \in 1 .. 2 :
           /\ Only(t) /\ thread'[t].at = "reject" /\ thread'[t].upload = thread[t].upload
           /\ thread'[t].todo = thread[t].todo
           /\ thread[t].upload \in Upload
           /\ thread'[t].removal = Removal(thread[t].upload, n)
    BY <1>1, <1>5, RejectEffect DEF IInv, KeepsRequest
  <2>2. ToRemove(t)' = {thread[t].upload}
    BY <1>1, <1>5, <2>1, Serious, Attempts DEF IInv, ToRemove, Reject, At
  <2>3. UNCHANGED <<tables, disk>> /\ Exclusive(t)
    BY <1>5 DEF Reject, Exclusive
  <2>4. ~Exclusive(t)' /\ ~SeesReady(t)' /\ ~Reviews(t)' /\ ~At(t, "approved")
    BY <1>5, <2>1 DEF Reject, Exclusive, Reviews, SeesReady, At
  <2>5. QED
    BY <1>1, <2>1, <2>2, <2>3, <2>4, OwnershipGivesUp DEF tables
<1>6. CASE Rejected(t)
  <2>1. /\ Only(t) /\ thread'[t].at = "release"
        /\ thread'[t].todo = thread[t].todo /\ thread'[t].removal = None
    BY <1>1, <1>6, DoneRemovingEffect DEF IInv, Rejected, At
  <2>2. thread[t].todo = {} /\ RemovesItsUpload(t)
    BY <1>1, <1>6 DEF IInv, ShapeOK, WellFormed, Rejected, RemovesItsUpload, At
  <2>3. QED
    BY <1>1, <1>6, <2>1, <2>2, OwnershipDisposes
       DEF Rejected, Exclusive, Reviews, SeesReady, ToRemove, At
<1>7. CASE ReleaseProcessing(t)
  <2>1. /\ Only(t) /\ thread'[t].at = "idle" /\ thread'[t].todo = {} /\ thread'[t].removal = None
    BY <1>1, <1>7, IdleEffect DEF IInv, ReleaseProcessing
  <2>2. UNCHANGED <<tables, disk>> /\ At(t, "release")
    BY <1>7 DEF ReleaseProcessing
  <2>3. QED
    BY <1>1, <2>1, <2>2, OwnershipQuiet DEF tables, Exclusive, Reviews, SeesReady, ToRemove, At
<1>8. QED
  BY <1>2, <1>3, <1>4, <1>5, <1>6, <1>7, OwnershipReceives, OwnershipAccepts DEF UploadStep

LEMMA OwnershipOperation ==
    ASSUME IInv, NEW t \in Handler, Operation(t)
    PROVE  Ownership'
<1> DEFINE u == thread[t].upload
<1>1. t \in Thread
  BY DEF Thread
<1>2. CASE \E r \in Request, v \in Upload \cup {None} : Acquire(t, r, v)
  <2>1. PICK r \in Request, v \in Upload \cup {None} : Acquire(t, r, v)
    BY <1>2
  <2>2. /\ Only(t) /\ thread'[t].at = "operating" /\ thread'[t].request = r
        /\ thread'[t].upload = v /\ thread'[t].todo = {} /\ thread'[t].removal = None
    BY <1>1, <2>1, ServingEffect DEF IInv, Acquire
  <2>3. /\ UNCHANGED <<tables, disk>> /\ (At(t, "clean") \/ At(t, "found"))
        /\ r = "audit" => At(t, "found") /\ v = u
    BY <2>1 DEF Acquire, Serves, AllCleaned
  <2>4. ToRemove(t)' = {} /\ ~Exclusive(t)' /\ ~Reviews(t)' /\ ~At(t, "staging")'
    BY <2>2 DEF Exclusive, Reviews, ToRemove, At
  <2>5. SeesReady(t)' => SeesReady(t) /\ thread'[t].upload = thread[t].upload
    BY <2>2, <2>3 DEF SeesReady, At
  <2>6. ~At(t, "approved")
    BY <2>3 DEF At
  <2>7. QED
    BY <1>1, <2>2, <2>3, <2>4, <2>5, <2>6, OwnershipQuiet DEF tables
<1>3. CASE FindUpload(t)
  <2>1. /\ Only(t) /\ thread'[t].at = "found" /\ thread'[t].upload = u
        /\ thread'[t].todo = thread[t].todo /\ thread'[t].removal = thread[t].removal
    BY <1>1, <1>3, GoEffect DEF IInv, FindUpload, KeepsRequest
  <2>2. /\ UNCHANGED <<tables, disk>> /\ At(t, "clean") /\ uploads[u] = "ready" /\ u \in Upload
    BY <1>1, <1>3 DEF FindUpload, AllCleaned, IInv, ShapeOK, WellFormed, HasUpload
  <2>3. QED
    BY <1>1, <2>1, <2>2, OwnershipQuiet DEF tables, Exclusive, Reviews, SeesReady, ToRemove, At
<1>4. CASE FinishOperation(t)
  <2>1. /\ Only(t) /\ thread'[t].at = "idle" /\ thread'[t].todo = {} /\ thread'[t].removal = None
    BY <1>1, <1>4, IdleEffect DEF IInv, FinishOperation, EndOperation
  <2>2. UNCHANGED <<tables, disk>> /\ (At(t, "operating") \/ At(t, "approving"))
    BY <1>4 DEF FinishOperation
  <2>3. QED
    BY <1>1, <2>1, <2>2, OwnershipQuiet DEF tables, Exclusive, Reviews, SeesReady, ToRemove, At
<1>5. CASE Claim(t)
  <2>1. /\ At(t, "operating") /\ thread[t].todo = {} /\ thread[t].removal = None
        /\ u \in Upload /\ SeesReady(t)
    BY <1>1, <1>5, Serious
       DEF IInv, Claim, ShapeOK, WellFormed, HasUpload, SeesReady, At
  <2>2. UNCHANGED <<retained, pending, disk>> /\ uploads' = [uploads EXCEPT ![u] = None]
    BY <1>5 DEF Claim, Unclaimed
  <2>3. CASE uploads[u] = "ready"
    <3>1. /\ Only(t) /\ thread'[t].at = "claimed" /\ thread'[t].upload = u
          /\ thread'[t].todo = {} /\ thread'[t].removal = None
      BY <1>1, <1>5, <2>1, <2>3, GoEffect DEF IInv, Claim, KeepsRequest
    <3>2. QED
      BY <1>1, <2>1, <2>2, <2>3, <3>1, NoneIsNothing, OwnershipTakes
         DEF Exclusive, Reviews, SeesReady, ToRemove, At
  <2>4. CASE uploads[u] # "ready"
    <3>1. /\ Only(t) /\ thread'[t].at = "idle" /\ thread'[t].todo = {}
          /\ thread'[t].removal = None
      BY <1>1, <1>5, <2>4, IdleEffect DEF IInv, Claim, EndOperation
    <3>2. uploads[u] = None
      BY <1>1, <2>1, <2>4 DEF IInv, TypeOK, Ownership, ReadyOnce
    <3>3. uploads' = uploads
      BY <2>1, <2>2, <3>2 DEF IInv, TypeOK
    <3>4. QED
      BY <1>1, <2>1, <2>2, <3>1, <3>3, OwnershipQuiet
         DEF Exclusive, Reviews, SeesReady, ToRemove, At
  <2>5. QED
    BY <2>3, <2>4
<1>6. CASE StartFails(t)
  <2>1. /\ Only(t) /\ thread'[t].at = "unstarted" /\ thread'[t].upload = u
        /\ thread'[t].todo = thread[t].todo
        /\ u \in Upload /\ thread'[t].removal = Removal(u, 2)
    BY <1>1, <1>6, GiveUpEffect DEF IInv, KeepsRequest
  <2>2. ToRemove(t)' = {u}
    BY <1>1, <1>6, <2>1, Serious, Attempts DEF IInv, ToRemove, StartFails, At
  <2>3. UNCHANGED <<tables, disk>> /\ Exclusive(t)
    BY <1>6 DEF StartFails, Exclusive
  <2>4. ~Exclusive(t)' /\ ~SeesReady(t)' /\ ~Reviews(t)' /\ ~At(t, "approved")
    BY <1>6, <2>1 DEF StartFails, Exclusive, Reviews, SeesReady, At
  <2>5. QED
    BY <1>1, <2>1, <2>2, <2>3, <2>4, OwnershipGivesUp DEF tables
<1>7. CASE Unstarted(t) \/ Approved(t)
  <2>1. /\ Only(t) /\ thread'[t].at = "idle" /\ thread'[t].todo = {} /\ thread'[t].removal = None
    BY <1>1, <1>7, IdleEffect DEF IInv, Unstarted, Approved, EndOperation
  <2>2. /\ RemovesItsUpload(t) /\ Removed(t) /\ Dispose(t) /\ UNCHANGED <<uploads, disk>>
        /\ retained' = IF At(t, "approved") THEN retained \ {u} ELSE retained
    BY <1>7 DEF Unstarted, Approved, RemovesItsUpload, At
  <2>3. QED
    BY <1>1, <2>1, <2>2, OwnershipDisposes DEF Exclusive, Reviews, SeesReady, ToRemove, At
<1>8. CASE TakeRetained(t)
  <2>1. /\ Only(t) /\ thread'[t].at = "approving" /\ thread'[t].upload = u
        /\ thread'[t].todo = thread[t].todo /\ thread'[t].removal = thread[t].removal
    BY <1>1, <1>8, GoEffect DEF IInv, TakeRetained, KeepsRequest
  <2>2. UNCHANGED <<tables, disk>> /\ At(t, "operating") /\ u \in retained
    BY <1>8 DEF TakeRetained
  <2>3. QED
    BY <1>1, <2>1, <2>2, OwnershipQuiet DEF tables, Exclusive, Reviews, SeesReady, ToRemove, At
<1>9. CASE Approve(t)
  <2>1. /\ Only(t) /\ thread'[t].at = "approved" /\ thread'[t].upload = u
        /\ thread'[t].todo = thread[t].todo
        /\ u \in Upload /\ thread'[t].removal = Removal(u, 2)
    BY <1>1, <1>9, GiveUpEffect DEF IInv, KeepsRequest
  <2>2. ToRemove(t)' = {u}
    BY <1>1, <1>9, <2>1, Serious, Attempts DEF IInv, ToRemove, Approve, At
  <2>3. UNCHANGED <<tables, disk>> /\ Reviews(t) /\ At(t, "approved")'
    BY <1>9, <2>1 DEF Approve, Reviews, At
  <2>4. ~Exclusive(t)' /\ ~SeesReady(t)' /\ ~At(t, "approved")
    BY <1>9, <2>1 DEF Approve, Exclusive, SeesReady, At
  <2>5. QED
    BY <1>1, <2>1, <2>2, <2>3, <2>4, OwnershipGivesUp DEF tables
<1>10. QED
  BY <1>2, <1>3, <1>4, <1>5, <1>6, <1>7, <1>8, <1>9 DEF Operation

LEMMA OwnershipAudit ==
    ASSUME IInv, NEW t \in Thread, Audit(t)
    PROVE  Ownership'
<1> DEFINE u == thread[t].upload
<1>1. t = Worker
  BY DEF Audit
<1>2. CASE Discard
  <2>1. /\ Only(t) /\ thread'[t].at = "discard" /\ thread'[t].upload = u
        /\ thread'[t].todo = thread[t].todo
        /\ u \in Upload /\ thread'[t].removal = Removal(u, 2)
    BY <1>1, <1>2, GiveUpEffect DEF IInv, KeepsRequest
  <2>2. ToRemove(t)' = {u}
    BY <1>1, <1>2, <2>1, Serious, Attempts DEF IInv, ToRemove, Discard, At
  <2>3. UNCHANGED <<uploads, pending, disk>> /\ retained' = retained \ {u}
    BY <1>1, <1>2 DEF Discard
  <2>4. (Exclusive(t) /\ retained' = retained) \/ Reviews(t)
    BY <1>1, <1>2, <2>3 DEF Discard, Exclusive, Reviews, IInv, Ownership, ExclusiveOwned
  <2>5. ~Exclusive(t)' /\ ~SeesReady(t)' /\ ~Reviews(t)' /\ ~At(t, "approved")
    BY <1>1, <1>2, <2>1 DEF Discard, Exclusive, Reviews, SeesReady, At
  <2>6. QED
    BY <2>1, <2>2, <2>3, <2>4, <2>5, OwnershipGivesUp
<1>3. CASE Discarded
  <2>1. /\ Only(t) /\ thread'[t].at = "idle" /\ thread'[t].todo = {} /\ thread'[t].removal = None
    BY <1>1, <1>3, IdleEffect DEF IInv, Discarded, EndOperation
  <2>2. /\ RemovesItsUpload(t) /\ Removed(t) /\ Dispose(t) /\ UNCHANGED <<uploads, retained, disk>>
        /\ ~At(t, "approved")
    BY <1>1, <1>3 DEF Discarded, RemovesItsUpload, At
  <2>3. QED
    BY <2>1, <2>2, OwnershipDisposes DEF Exclusive, Reviews, SeesReady, ToRemove, At
<1>4. CASE FinishAudit
  <2>1. /\ Only(t) /\ thread'[t].at = "idle" /\ thread'[t].todo = {} /\ thread'[t].removal = None
    BY <1>1, <1>4, IdleEffect DEF IInv, FinishAudit, EndOperation
  <2>2. UNCHANGED <<tables, disk>> /\ At(t, "retained")
    BY <1>1, <1>4 DEF FinishAudit
  <2>3. QED
    BY <2>1, <2>2, OwnershipQuiet DEF tables, Exclusive, Reviews, SeesReady, ToRemove, At
<1>5. QED
  BY <1>2, <1>3, <1>4, OwnershipRetains DEF Audit

LEMMA OwnershipRefuse ==
    ASSUME IInv, NEW t \in Thread, Refuse(t)
    PROVE  Ownership'
<1>1. /\ Only(t) /\ thread'[t].at = "idle" /\ thread'[t].todo = {} /\ thread'[t].removal = None
  BY IdleEffect DEF IInv, Refuse
<1>2. UNCHANGED <<tables, disk>> /\ (At(t, "clean") \/ At(t, "found"))
  BY DEF Refuse, AllCleaned
<1>3. QED
  BY <1>1, <1>2, OwnershipQuiet DEF tables, Exclusive, Reviews, SeesReady, ToRemove, At

---------------------------------------------------------------------------
(* The invariant. *)

LEMMA InvariantInitially == Init => IInv
<1> SUFFICES ASSUME Init
             PROVE  IInv
  OBVIOUS
<1>1. \A t \in Thread : /\ thread[t] \in Record
                        /\ thread[t].at = IF t = Reaper THEN "clean" ELSE "idle"
                        /\ t # Reaper => thread[t] = Idle
                        /\ thread[t].todo = {} /\ thread[t].removal = None
                        /\ thread[t].request = None
  <2>1. Idle \in Record /\ [Idle EXCEPT !.at = "clean"] \in Record
    BY DEF Idle, Record
  <2>2. /\ [Idle EXCEPT !.at = "clean"].at = "clean" /\ [Idle EXCEPT !.at = "clean"].todo = {}
        /\ [Idle EXCEPT !.at = "clean"].removal = None
        /\ [Idle EXCEPT !.at = "clean"].request = None
    BY DEF Idle
  <2>3. thread = [t \in Thread |-> IF t = Reaper THEN [Idle EXCEPT !.at = "clean"] ELSE Idle]
    BY DEF Init
  <2> HIDE DEF Idle
  <2>4. QED
    BY <2>1, <2>2, <2>3, IdleFields
<1>2. TypeOK
  <2>1. thread \in [Thread -> Record]
    BY <1>1 DEF Init
  <2>2. failures \in Failures
    BY ServerAssumption DEF Init, NoFailures, Failures
  <2>3. \A t \in Thread : At(t, "idle") => thread[t] = Idle /\ t \notin processing
    BY <1>1 DEF Init, At
  <2>4. QED
    BY <2>1, <2>2, <2>3 DEF Init, TypeOK
<1>3. ShapeOK
  BY <1>1, ServerAssumption, NoneIsNothing
     DEF Init, ShapeOK, WellFormed, HasUpload, RemovesItsUpload, InProcessing, At, Removing
<1>4. LockHandedOver
  BY <1>1 DEF Init, LockHandedOver, InOperation, At
<1>5. Ownership
  BY <1>1 DEF Init, Ownership, PreparedOwned, ExclusiveOwned, ExclusiveAlone, RetainedOwned,
     PendingOwned, RemovalOwned, ReviewOwned, ReadyOnce, Exclusive, Reviews, SeesReady, ToRemove, At
<1>6. QED
  BY <1>2, <1>3, <1>4, <1>5 DEF IInv

LEMMA InvariantStep == IInv /\ [Next]_vars => IInv'
<1> SUFFICES ASSUME IInv, [Next]_vars
             PROVE  IInv'
  OBVIOUS
<1>1. CASE UNCHANGED vars
  BY <1>1 DEF vars, tables, IInv, TypeOK, ShapeOK, LockHandedOver, Ownership, WellFormed,
     HasUpload, RemovesItsUpload, InProcessing, InOperation, At, Removing,
     PreparedOwned, ExclusiveOwned, ExclusiveAlone, RetainedOwned,
     PendingOwned, RemovalOwned, ReviewOwned, ReadyOnce, Exclusive, Reviews, SeesReady, ToRemove
<1>2. CASE Next
  <2>1. PICK t \in Thread :
           \/ Expire(t)
           \/ Sweep(t)
           \/ RemovalStep(t)
           \/ t \in Handler /\ (Refuse(t) \/ UploadStep(t) \/ Operation(t) \/ StartWorker(t))
           \/ Audit(t)
    BY <1>2, Steps
  <2>2. TypeOK' /\ ShapeOK'
    <3>1. CASE t \in Handler /\ Refuse(t)
      <4>1. t # Reaper /\ t \notin processing
        BY <3>1, ServerAssumption DEF IInv, ShapeOK, WellFormed, InProcessing, At, Refuse, AllCleaned
      <4>2. QED
        BY <3>1, <4>1, ShapeIdle DEF IInv, Refuse, TypeOK, TablesOK, tables
    <3>2. CASE t \in Handler /\ StartWorker(t)
      BY <3>2, ShapeStart, WorkerIdle DEF IInv, StartWorker, InOperation
    <3>3. QED
      BY <2>1, <3>1, <3>2, ShapeExpire, ShapeSweep, ShapeRemoval, ShapeUpload, ShapeOperation,
         ShapeAudit DEF IInv
  <2>3. LockHandedOver'
    BY <1>2, LockStep DEF IInv
  <2>4. Ownership'
    BY <2>1, OwnershipExpire, OwnershipSweep, OwnershipRemoval, OwnershipRefuse, OwnershipUpload,
       OwnershipOperation, OwnershipHandsOver, OwnershipAudit
  <2>5. QED
    BY <2>2, <2>3, <2>4 DEF IInv
<1>3. QED
  BY <1>1, <1>2

LEMMA Invariance == Spec => []IInv
BY InvariantInitially, InvariantStep, PTL DEF Spec

\* Every variable has its type for every set of uploads and handlers.
THEOREM TypeCorrectness == Spec => []TypeOK
<1>1. IInv => TypeOK
  BY DEF IInv
<1>2. QED
  BY <1>1, Invariance, PTL

\* The operation lock passes from the handler of an audit to its worker and is
\* never held by two threads, nor left behind by one that is done.
THEOREM LockIsHandedOver == Spec => []LockHandedOver
<1>1. IInv => LockHandedOver
  BY DEF IInv
<1>2. QED
  BY <1>1, Invariance, PTL

\* However many requests, audits and cleanups interleave, the thread that works
\* on an upload has it to itself and finds its files.
THEOREM FilesAreKept == Spec => []UsersKeepTheirFiles
<1>1. IInv => UsersKeepTheirFiles
  <2> SUFFICES ASSUME IInv, NEW t \in Thread, Using(t)
               PROVE  /\ disk[thread[t].upload] = "files"
                      /\ \A s \in Thread \ {t} : Using(s) => thread[s].upload # thread[t].upload
    BY DEF UsersKeepTheirFiles
  <2>1. \A s \in Thread : Using(s) => Exclusive(s) \/ (Reviews(s) /\ ~At(s, "approved"))
    BY DEF Using, Exclusive, Reviews, At
  <2>2. \A s \in Thread : Reviews(s) => InOperation(s)
    BY DEF Reviews, InOperation
  <2>3. disk[thread[t].upload] = "files"
    <3>1. CASE Exclusive(t)
      BY <3>1 DEF IInv, Ownership, ExclusiveOwned
    <3>2. CASE Reviews(t) /\ ~At(t, "approved")
      BY <2>2, <3>2 DEF IInv, LockHandedOver, Ownership, ReviewOwned, RetainedOwned, Reviews
    <3>3. QED
      BY <2>1, <3>1, <3>2
  <2>4. ASSUME NEW s \in Thread \ {t}, Using(s)
        PROVE  thread[s].upload # thread[t].upload
    BY <2>1, <2>2, <2>4
       DEF IInv, LockHandedOver, Ownership, ExclusiveOwned, ExclusiveAlone, ReviewOwned
  <2>5. QED
    BY <2>3, <2>4
<1>2. QED
  BY <1>1, Invariance, PTL

---------------------------------------------------------------------------
(***************************************************************************)
(* UploadServer implements UploadLifecycle: every step of every thread     *)
(* moves the phases of the uploads along the edges of their life.          *)
(***************************************************************************)

(* What the phase of an upload depends on. *)

Prepares(t, u) == At(t, "staging") /\ thread[t].upload = u

Audits(t, u) == (At(t, "claimed") \/ At(t, "running")) /\ thread[t].upload = u

Ends(t, u) == At(t, "approved") /\ thread[t].upload = u

LEMMA PhaseMeans ==
    ASSUME NEW u \in Upload
    PROVE  PhaseOf(u) =
             CASE disk[u] = "unused" -> "absent"
               [] disk[u] = "gone" -> "gone"
               [] OTHER ->
                    IF uploads[u] = "ready" THEN "prepared"
                    ELSE IF uploads[u] = "staged" \/ \E t \in Thread : Prepares(t, u)
                         THEN "preparing"
                    ELSE IF \E t \in Thread : Audits(t, u) THEN "auditing"
                    ELSE IF u \in retained /\ ~\E t \in Thread : Ends(t, u) THEN "review"
                    ELSE "given up"
<1>1. \A t \in Thread :
         /\ Prepares(t, u) <=> thread[t].upload = u /\ \E place \in {"staging"} : At(t, place)
         /\ Audits(t, u) <=> thread[t].upload = u /\ \E place \in {"claimed", "running"} : At(t, place)
         /\ Ends(t, u) <=> thread[t].upload = u /\ \E place \in {"approved"} : At(t, place)
  BY DEF Prepares, Audits, Ends
<1>2. QED
  BY <1>1 DEF PhaseOf

LEMMA PhaseMeansNext ==
    ASSUME NEW u \in Upload
    PROVE  PhaseOf(u)' =
             CASE disk'[u] = "unused" -> "absent"
               [] disk'[u] = "gone" -> "gone"
               [] OTHER ->
                    IF uploads'[u] = "ready" THEN "prepared"
                    ELSE IF uploads'[u] = "staged" \/ \E t \in Thread : Prepares(t, u)'
                         THEN "preparing"
                    ELSE IF \E t \in Thread : Audits(t, u)' THEN "auditing"
                    ELSE IF u \in retained' /\ ~\E t \in Thread : Ends(t, u)' THEN "review"
                    ELSE "given up"
<1>1. \A t \in Thread :
         /\ Prepares(t, u)' <=> thread'[t].upload = u /\ \E place \in {"staging"} : At(t, place)'
         /\ Audits(t, u)' <=> thread'[t].upload = u /\ \E place \in {"claimed", "running"} : At(t, place)'
         /\ Ends(t, u)' <=> thread'[t].upload = u /\ \E place \in {"approved"} : At(t, place)'
  BY DEF Prepares, Audits, Ends
<1>2. QED
  BY <1>1 DEF PhaseOf

SameRoles(t, u) == /\ Prepares(t, u)' <=> Prepares(t, u)
                   /\ Audits(t, u)' <=> Audits(t, u)
                   /\ Ends(t, u)' <=> Ends(t, u)

LEMMA OtherRoles ==
    ASSUME NEW t \in Thread, Only(t), NEW s \in Thread, s # t, NEW u
    PROVE  SameRoles(s, u)
BY DEF Only, SameRoles, Prepares, Audits, Ends, At

LEMMA PhaseSame ==
    ASSUME NEW t \in Thread, Only(t), NEW u \in Upload,
           disk'[u] = disk[u], uploads'[u] = uploads[u], u \in retained' <=> u \in retained,
           SameRoles(t, u)
    PROVE  PhaseOf(u)' = PhaseOf(u)
<1>1. \A s \in Thread : SameRoles(s, u)
  BY OtherRoles
<1>2. /\ (\E s \in Thread : Prepares(s, u)') <=> \E s \in Thread : Prepares(s, u)
      /\ (\E s \in Thread : Audits(s, u)') <=> \E s \in Thread : Audits(s, u)
      /\ (\E s \in Thread : Ends(s, u)') <=> \E s \in Thread : Ends(s, u)
  BY <1>1 DEF SameRoles
<1>3. QED
  BY <1>2, PhaseMeans, PhaseMeansNext

---------------------------------------------------------------------------
(* The phases, and the edges between them. *)

LEMMA PhasePrepared ==
    ASSUME IInv, NEW u \in Upload, uploads[u] # None
    PROVE  PhaseOf(u) = IF uploads[u] = "ready" THEN "prepared" ELSE "preparing"
BY PhaseMeans DEF IInv, TypeOK, Ownership, PreparedOwned

LEMMA PhasePreparing ==
    ASSUME IInv, NEW t \in Thread, NEW u \in Upload, Prepares(t, u)
    PROVE  PhaseOf(u) = "preparing"
<1>1. uploads[u] = None /\ disk[u] = "files"
  BY DEF Prepares, IInv, Ownership, ExclusiveOwned, Exclusive
<1>2. QED
  BY <1>1, NoneIsNothing, PhaseMeans

LEMMA PhaseAuditing ==
    ASSUME IInv, NEW t \in Thread, NEW u \in Upload, Audits(t, u)
    PROVE  PhaseOf(u) = "auditing"
<1>1. uploads[u] = None /\ disk[u] = "files"
  BY DEF Audits, IInv, Ownership, ExclusiveOwned, Exclusive
<1>2. ~\E s \in Thread : Prepares(s, u)
  BY DEF Audits, Prepares, At, IInv, Ownership, ExclusiveAlone, Exclusive
<1>3. QED
  BY <1>1, <1>2, NoneIsNothing, PhaseMeans

LEMMA PhaseReview ==
    ASSUME IInv, NEW u \in retained, ~\E t \in Thread : Ends(t, u)
    PROVE  PhaseOf(u) = "review"
<1>1. disk[u] = "files" /\ u \in Upload
  BY DEF Ends, IInv, TypeOK, Ownership, RetainedOwned
<1>2. /\ uploads[u] = None
      /\ ~\E s \in Thread : Prepares(s, u) \/ Audits(s, u)
  BY <1>1 DEF Audits, Prepares, IInv, Ownership, PreparedOwned, ExclusiveOwned, Exclusive
<1>3. QED
  BY <1>1, <1>2, NoneIsNothing, PhaseMeans

\* Whoever works under the operation lock is alone in it.
LEMMA NoneEnds ==
    ASSUME IInv, NEW t \in Thread, InOperation(t), ~At(t, "approved"), NEW u
    PROVE  ~\E s \in Thread : Ends(s, u)
BY DEF IInv, LockHandedOver, InOperation, Ends

Moves(u) == \/ PhaseOf(u)' = PhaseOf(u)
            \/ <<PhaseOf(u), PhaseOf(u)'>> \in Lifecycle!Edge

\* Nobody has the upload after the step: it is given up, if it was not before.
LEMMA MovesGivenUp ==
    ASSUME NEW u \in Upload, disk'[u] \in {"files", "empty"}, uploads'[u] = None,
           ~\E s \in Thread : Prepares(s, u)' \/ Audits(s, u)',
           u \in retained' => \E s \in Thread : Ends(s, u)',
           PhaseOf(u) \in {"preparing", "prepared", "auditing", "review", "given up"}
    PROVE  Moves(u)
<1>1. PhaseOf(u)' = "given up"
  BY PhaseMeansNext, NoneIsNothing
<1>2. QED
  BY <1>1 DEF Moves, Lifecycle!Edge

LEMMA Onward ==
    ASSUME NEW u, NEW before, NEW after, PhaseOf(u) = before, PhaseOf(u)' = after,
           \/ before = after
           \/ before = "absent" /\ after = "preparing"
           \/ before = "preparing" /\ after = "prepared"
           \/ before = "prepared" /\ after = "auditing"
           \/ before = "auditing" /\ after = "review"
           \/ before = "given up" /\ after = "gone"
    PROVE  Moves(u)
BY DEF Moves, Lifecycle!Edge

\* A step that changes no table, no directory and nobody's role.
LEMMA MovesNothing ==
    ASSUME NEW t \in Thread, Only(t), UNCHANGED <<disk, uploads, retained>>,
           \A u \in Upload : SameRoles(t, u)
    PROVE  \A u \in Upload : Moves(u)
BY PhaseSame DEF Moves

LEMMA NoRoles ==
    ASSUME NEW t \in Thread,
           thread[t].at \notin {"staging", "claimed", "running", "approved"},
           thread'[t].at \notin {"staging", "claimed", "running", "approved"}
    PROVE  \A u \in Upload : SameRoles(t, u)
BY DEF SameRoles, Prepares, Audits, Ends, At

---------------------------------------------------------------------------
(* The steps. *)

LEMMA MovesExpire ==
    ASSUME IInv, NEW t \in Thread, Expire(t)
    PROVE  \A u \in Upload : Moves(u)
<1>1. PICK aged \in SUBSET Upload :
         /\ aged \subseteq Expirable
         /\ uploads' = [u \in Upload |-> IF u \in aged THEN None ELSE uploads[u]]
         /\ retained' = retained \ aged
         /\ disk' = disk
  BY DEF Expire, Reap
<1>2. Only(t) /\ thread'[t].at = "clean"
  BY ExpireEffect DEF IInv
<1>3. thread[t].at \in {"idle", "clean"}
  BY DEF Expire, AllCleaned, At
<1>4. \A u \in Upload : SameRoles(t, u)
  BY <1>2, <1>3, NoRoles
<1>5. ASSUME NEW u \in Upload
      PROVE  Moves(u)
  <2>1. CASE u \notin aged
    BY <1>1, <1>2, <1>4, <2>1, PhaseSame DEF Moves
  <2>2. CASE u \in aged
    <3>1. uploads[u] # None \/ (u \in retained /\ ~locked)
      BY <1>1, <2>2 DEF Expirable
    <3>2. PhaseOf(u) \in {"prepared", "preparing", "review"} /\ disk[u] = "files"
      <4>1. CASE uploads[u] # None
        BY <4>1, PhasePrepared DEF IInv, Ownership, PreparedOwned
      <4>2. CASE u \in retained /\ ~locked
        <5>1. ~\E s \in Thread : At(s, "approved")
          BY <4>2 DEF IInv, LockHandedOver, InOperation
        <5>2. QED
          BY <4>2, <5>1, PhaseReview DEF Ends, IInv, Ownership, RetainedOwned
      <4>3. QED
        BY <3>1, <4>1, <4>2
    <3>3. ~\E s \in Thread : Prepares(s, u) \/ Audits(s, u)
      BY <3>1 DEF Prepares, Audits, Exclusive, IInv, Ownership, ExclusiveOwned
    <3>4. ~\E s \in Thread : Prepares(s, u)' \/ Audits(s, u)'
      BY <1>2, <1>4, <3>3, OtherRoles DEF SameRoles
    <3>5. QED
      BY <1>1, <2>2, <3>2, <3>4, MovesGivenUp
  <2>3. QED
    BY <2>1, <2>2
<1>6. QED
  BY <1>5

LEMMA MovesRemoval ==
    ASSUME IInv, NEW t \in Thread, RemovalStep(t)
    PROVE  \A u \in Upload : Moves(u)
<1>1. /\ Only(t) /\ thread'[t].at = thread[t].at /\ KeepsRequest(t)
      /\ thread[t].removal # None /\ thread[t].removal.of \in ToRemove(t)
  BY ProceedEffect, RemovalFailsEffect
     DEF RemovalStep, Unlink, UnlinkVanished, RemoveDirectory, Removing, ToRemove, RemovalFails, IInv
<1>2. UNCHANGED <<uploads, retained>>
  BY DEF RemovalStep, Unlink, UnlinkVanished, RemoveDirectory, RemovalFails, tables
<1>3. \A u \in Upload : SameRoles(t, u)
  BY <1>1 DEF SameRoles, Prepares, Audits, Ends, At, KeepsRequest
<1>4. PICK v \in ToRemove(t) : v = thread[t].removal.of
  BY <1>1
<1>5. /\ v \in Upload /\ uploads[v] = None /\ disk[v] # "unused"
      /\ ~\E s \in Thread : Prepares(s, v) \/ Audits(s, v)
      /\ v \in retained => \E s \in Thread : Ends(s, v)
  BY OwnTypes DEF IInv, Ownership, RemovalOwned, Prepares, Audits, Ends, Exclusive
<1>6. PhaseOf(v) = IF disk[v] = "gone" THEN "gone" ELSE "given up"
  BY <1>5, NoneIsNothing, PhaseMeans
<1>7. \/ disk' = disk
      \/ disk[v] = "files" /\ disk' = [disk EXCEPT ![v] = "empty"]
      \/ disk' = [disk EXCEPT ![v] = "gone"]
  BY <1>4 DEF RemovalStep, Unlink, UnlinkVanished, RemoveDirectory, RemovalFails
<1>8. \A u \in Upload : u # v => disk'[u] = disk[u]
  BY <1>5, <1>7 DEF IInv, TypeOK
<1>9. ASSUME NEW u \in Upload, disk'[u] = disk[u]
      PROVE  Moves(u)
  BY <1>1, <1>2, <1>3, <1>9, PhaseSame DEF Moves
<1>10. CASE disk'[v] # disk[v]
  <2>1. CASE disk' = [disk EXCEPT ![v] = "gone"]
    <3>1. disk'[v] = "gone"
      BY <1>5, <2>1 DEF IInv, TypeOK
    <3>2. PhaseOf(v)' = "gone"
      BY <1>5, <3>1, PhaseMeansNext
    <3>3. Moves(v)
      BY <1>6, <3>2, Onward
    <3>4. QED
      BY <1>8, <1>9, <3>3
  <2>2. CASE disk[v] = "files" /\ disk' = [disk EXCEPT ![v] = "empty"]
    <3>1. disk'[v] = "empty"
      BY <1>5, <2>2 DEF IInv, TypeOK
    <3>2. /\ ~\E s \in Thread : Prepares(s, v)' \/ Audits(s, v)'
          /\ v \in retained => \E s \in Thread : Ends(s, v)'
      BY <1>1, <1>3, <1>5, OtherRoles DEF SameRoles
    <3>3. Moves(v)
      BY <1>2, <1>5, <1>6, <2>2, <3>1, <3>2, MovesGivenUp
    <3>4. QED
      BY <1>8, <1>9, <3>3
  <2>3. QED
    BY <1>7, <1>10, <2>1, <2>2
<1>11. QED
  BY <1>8, <1>9, <1>10

\* A thread gives up the upload it has to itself, or that it reviews.
LEMMA MovesGivesUp ==
    ASSUME IInv, NEW t \in Thread, Only(t), disk' = disk, uploads' = uploads,
           NEW u \in Upload, thread[t].upload = u, thread'[t].upload = u,
           thread[t].at \in {"staging", "claimed", "running", "retained", "approving"},
           thread'[t].at \in {"reject", "unstarted", "discard", "approved"},
           retained \ {u} \subseteq retained', retained' \subseteq retained,
           u \in retained' => At(t, "approved")'
    PROVE  \A v \in Upload : Moves(v)
<1>1. ASSUME NEW v \in Upload, v # u
      PROVE  Moves(v)
  <2>1. SameRoles(t, v) /\ (v \in retained' <=> v \in retained)
    BY <1>1 DEF SameRoles, Prepares, Audits, Ends
  <2>2. QED
    BY <2>1, PhaseSame DEF Moves
<1>2. Moves(u)
  <2>1. Exclusive(t) \/ (Reviews(t) /\ InOperation(t) /\ ~At(t, "approved"))
    BY DEF Exclusive, Reviews, InOperation, At
  <2>2. PhaseOf(u) \in {"preparing", "auditing", "review"}
    <3>1. CASE Exclusive(t)
      BY <3>1, PhasePreparing, PhaseAuditing DEF Exclusive, Prepares, Audits
    <3>2. CASE Reviews(t) /\ InOperation(t) /\ ~At(t, "approved")
      <4>1. u \in retained
        BY <3>2 DEF IInv, Ownership, ReviewOwned
      <4>2. QED
        BY <3>2, <4>1, NoneEnds, PhaseReview
    <3>3. QED
      BY <2>1, <3>1, <3>2
  <2>3. uploads[u] = None /\ disk[u] = "files"
    <3>1. CASE Exclusive(t)
      BY <3>1 DEF IInv, Ownership, ExclusiveOwned
    <3>2. CASE Reviews(t) /\ InOperation(t) /\ ~At(t, "approved")
      <4>1. u \in retained
        BY <3>2 DEF IInv, Ownership, ReviewOwned
      <4>2. QED
        BY <3>2, <4>1, NoneEnds DEF IInv, Ownership, RetainedOwned, PreparedOwned, Ends
    <3>3. QED
      BY <2>1, <3>1, <3>2
  <2>4. \A s \in Thread \ {t} : ~Prepares(s, u) /\ ~Audits(s, u)
    BY <2>1 DEF Prepares, Audits, Exclusive, IInv, Ownership, ExclusiveAlone, ExclusiveOwned, ReviewOwned
  <2>5. ~\E s \in Thread : Prepares(s, u)' \/ Audits(s, u)'
    <3>1. ~Prepares(t, u)' /\ ~Audits(t, u)'
      BY DEF Prepares, Audits, At
    <3>2. QED
      BY <2>4, <3>1, OtherRoles DEF SameRoles
  <2>6. u \in retained' => \E s \in Thread : Ends(s, u)'
    BY DEF Ends
  <2>7. QED
    BY <2>2, <2>3, <2>5, <2>6, MovesGivenUp
<1>3. QED
  BY <1>1, <1>2

LEMMA MovesUpload ==
    ASSUME IInv, NEW t \in Handler, UploadStep(t)
    PROVE  \A u \in Upload : Moves(u)
<1>1. t \in Thread
  BY DEF Thread
<1>2. CASE \/ \E r \in Request, v \in Upload \cup {None} : Reserve(t, r, v)
           \/ BodyRefused(t) \/ Rejected(t) \/ ReleaseProcessing(t)
  <2>1. Only(t) /\ thread'[t].at \in {"receive", "release", "idle"}
    <3>1. CASE \E r \in Request, v \in Upload \cup {None} : Reserve(t, r, v)
      BY <1>1, <3>1, ServingEffect DEF IInv, Reserve
    <3>2. CASE BodyRefused(t) \/ Rejected(t) \/ ReleaseProcessing(t)
      BY <1>1, <3>2, GoEffect, IdleEffect, DoneRemovingEffect
         DEF IInv, BodyRefused, Rejected, ReleaseProcessing, At
    <3>3. QED
      BY <1>2, <3>1, <3>2
  <2>2. /\ UNCHANGED <<disk, uploads, retained>>
        /\ thread[t].at \in {"clean", "receive", "reject", "release"}
    BY <1>2 DEF Reserve, Serves, AllCleaned, BodyRefused, Rejected, ReleaseProcessing, tables, At
  <2>3. QED
    BY <1>1, <2>1, <2>2, NoRoles, MovesNothing
<1>3. CASE ReceiveWorkbook(t)
  <2>1. At(t, "receive") /\ UNCHANGED <<uploads, retained>>
    BY <1>3 DEF ReceiveWorkbook, tables
  <2>2. PICK u \in Upload :
           /\ disk[u] = "unused" /\ disk' = [disk EXCEPT ![u] = "files"]
           /\ Only(t) /\ thread'[t].at = "staging" /\ thread'[t].upload = u
    BY <1>1, <1>3, ReceiveWorkbookEffect DEF IInv
  <2>3. ASSUME NEW v \in Upload, v # u
        PROVE  Moves(v)
    <3>1. SameRoles(t, v) /\ disk'[v] = disk[v]
      BY <2>1, <2>2, <2>3 DEF SameRoles, Prepares, Audits, Ends, At
    <3>2. QED
      BY <1>1, <2>1, <2>2, <3>1, PhaseSame DEF Moves
  <2>4. Moves(u)
    <3>1. PhaseOf(u) = "absent"
      BY <2>2, PhaseMeans
    <3>2. uploads'[u] = None /\ disk'[u] = "files" /\ Prepares(t, u)'
      BY <2>1, <2>2, NoneIsNothing DEF IInv, TypeOK, Ownership, PreparedOwned, Prepares, At
    <3>3. PhaseOf(u)' = "preparing"
      BY <1>1, <3>2, NoneIsNothing, PhaseMeansNext
    <3>4. QED
      BY <3>1, <3>3, Onward
  <2>5. QED
    BY <2>3, <2>4
<1>4. CASE ReceivePolicy(t)
  <2>1. PICK u \in Upload : u = thread[t].upload
    BY <1>1, <1>4 DEF ReceivePolicy, IInv, ShapeOK, WellFormed, HasUpload, At
  <2>2. At(t, "receive") /\ UNCHANGED <<disk, retained>>
    BY <1>4 DEF ReceivePolicy
  <2>3. CASE uploads[u] = "staged"
    <3>1. /\ Only(t) /\ thread'[t].at = "staging" /\ thread'[t].upload = u
          /\ uploads' = [uploads EXCEPT ![u] = None]
      BY <1>1, <1>4, <2>1, <2>3, GoEffect DEF IInv, ReceivePolicy, KeepsRequest
    <3>2. ASSUME NEW v \in Upload, v # u
          PROVE  Moves(v)
      <4>1. SameRoles(t, v) /\ uploads'[v] = uploads[v]
        BY <2>2, <3>1, <3>2 DEF SameRoles, Prepares, Audits, Ends, At, IInv, TypeOK
      <4>2. QED
        BY <1>1, <2>2, <3>1, <4>1, PhaseSame DEF Moves
    <3>3. Moves(u)
      <4>1. PhaseOf(u) = "preparing" /\ disk[u] = "files"
        BY <2>3, NoneIsNothing, PhasePrepared DEF IInv, Ownership, PreparedOwned
      <4>2. uploads'[u] = None /\ Prepares(t, u)'
        BY <3>1 DEF IInv, TypeOK, Prepares, At
      <4>3. PhaseOf(u)' = "preparing"
        BY <1>1, <2>2, <4>1, <4>2, NoneIsNothing, PhaseMeansNext
      <4>4. QED
        BY <4>1, <4>3, Onward
    <3>4. QED
      BY <3>2, <3>3
  <2>4. CASE uploads[u] # "staged"
    <3>1. Only(t) /\ thread'[t].at = "release" /\ uploads' = uploads
      BY <1>1, <1>4, <2>1, <2>4, GoEffect DEF IInv, ReceivePolicy
    <3>2. QED
      BY <1>1, <2>2, <3>1, NoRoles, MovesNothing DEF At
  <2>5. QED
    BY <2>3, <2>4
<1>5. CASE Accept(t)
  <2>1. PICK u \in Upload : u = thread[t].upload
    BY <1>1, <1>5 DEF Accept, IInv, ShapeOK, WellFormed, HasUpload, At
  <2>2. /\ At(t, "staging") /\ UNCHANGED <<disk, retained>>
        /\ uploads'[u] \in {"staged", "ready"}
        /\ \A v \in Upload : v # u => uploads'[v] = uploads[v]
    BY <1>5, <2>1 DEF Accept, IInv, TypeOK
  <2>3. Only(t) /\ thread'[t].at = "release"
    BY <1>1, <1>5, GoEffect DEF IInv, Accept
  <2>4. ASSUME NEW v \in Upload, v # u
        PROVE  Moves(v)
    <3>1. SameRoles(t, v)
      BY <2>1, <2>2, <2>3, <2>4 DEF SameRoles, Prepares, Audits, Ends, At
    <3>2. QED
      BY <1>1, <2>2, <2>3, <2>4, <3>1, PhaseSame DEF Moves
  <2>5. Moves(u)
    <3>1. Prepares(t, u) /\ disk[u] = "files"
      BY <1>1, <2>1, <2>2 DEF Prepares, Exclusive, IInv, Ownership, ExclusiveOwned
    <3>2. PhaseOf(u) = "preparing"
      BY <1>1, <3>1, PhasePreparing
    <3>3. PhaseOf(u)' \in {"preparing", "prepared"}
      BY <2>2, <3>1, PhaseMeansNext
    <3>4. QED
      BY <3>2, <3>3, Onward
  <2>6. QED
    BY <2>4, <2>5
<1>6. CASE Reject(t)
  <2>1. /\ Only(t) /\ thread'[t].at = "reject" /\ thread'[t].upload = thread[t].upload
        /\ thread[t].upload \in Upload
    BY <1>1, <1>6, RejectEffect DEF IInv, KeepsRequest
  <2>2. UNCHANGED <<disk, uploads, retained>> /\ At(t, "staging") /\ Exclusive(t)
    BY <1>6 DEF Reject, tables, Exclusive
  <2>3. thread[t].upload \notin retained
    BY <1>1, <2>2 DEF IInv, Ownership, ExclusiveOwned
  <2>4. QED
    BY <1>1, <2>1, <2>2, <2>3, MovesGivesUp DEF At
<1>7. QED
  BY <1>2, <1>3, <1>4, <1>5, <1>6 DEF UploadStep

LEMMA MovesOperation ==
    ASSUME IInv, NEW t \in Handler, Operation(t)
    PROVE  \A u \in Upload : Moves(u)
<1>1. t \in Thread
  BY DEF Thread
<1>2. CASE \/ \E r \in Request, v \in Upload \cup {None} : Acquire(t, r, v)
           \/ FindUpload(t) \/ FinishOperation(t) \/ TakeRetained(t) \/ Unstarted(t)
  <2>1. Only(t) /\ thread'[t].at \in {"operating", "found", "idle", "approving"}
    <3>1. CASE \E r \in Request, v \in Upload \cup {None} : Acquire(t, r, v)
      BY <1>1, <3>1, ServingEffect DEF IInv, Acquire
    <3>2. CASE FindUpload(t) \/ TakeRetained(t)
      BY <1>1, <3>2, GoEffect DEF IInv, FindUpload, TakeRetained
    <3>3. CASE FinishOperation(t) \/ Unstarted(t)
      BY <1>1, <3>3, IdleEffect DEF IInv, FinishOperation, EndOperation, Unstarted
    <3>4. QED
      BY <1>2, <3>1, <3>2, <3>3
  <2>2. /\ UNCHANGED <<disk, uploads, retained>>
        /\ thread[t].at \in {"clean", "found", "operating", "approving", "unstarted"}
    BY <1>2 DEF Acquire, Serves, AllCleaned, FindUpload, FinishOperation, TakeRetained, Unstarted,
       tables, At
  <2>3. QED
    BY <1>1, <2>1, <2>2, NoRoles, MovesNothing
<1>3. CASE Claim(t)
  <2>1. PICK u \in Upload : u = thread[t].upload
    BY <1>1, <1>3 DEF Claim, IInv, ShapeOK, WellFormed, HasUpload, At
  <2>2. /\ At(t, "operating") /\ UNCHANGED <<disk, retained>> /\ SeesReady(t)
        /\ uploads' = [uploads EXCEPT ![u] = None]
    BY <1>3, <2>1 DEF Claim, Unclaimed, SeesReady
  <2>3. CASE uploads[u] = "ready"
    <3>1. Only(t) /\ thread'[t].at = "claimed" /\ thread'[t].upload = u
      BY <1>1, <1>3, <2>1, <2>3, GoEffect DEF IInv, Claim, KeepsRequest
    <3>2. ASSUME NEW v \in Upload, v # u
          PROVE  Moves(v)
      <4>1. SameRoles(t, v) /\ uploads'[v] = uploads[v]
        BY <2>2, <3>1, <3>2 DEF SameRoles, Prepares, Audits, Ends, At, IInv, TypeOK
      <4>2. QED
        BY <1>1, <2>2, <3>1, <4>1, PhaseSame DEF Moves
    <3>3. Moves(u)
      <4>1. PhaseOf(u) = "prepared" /\ disk[u] = "files"
        BY <2>3, NoneIsNothing, PhasePrepared DEF IInv, Ownership, PreparedOwned
      <4>2. uploads'[u] = None /\ Audits(t, u)'
        BY <2>2, <3>1 DEF IInv, TypeOK, Audits, At
      <4>3. ~\E s \in Thread : Prepares(s, u)'
        <5>1. ~\E s \in Thread : Prepares(s, u)
          BY <2>3, NoneIsNothing DEF Prepares, Exclusive, IInv, Ownership, ExclusiveOwned
        <5>2. ~Prepares(t, u)'
          BY <3>1 DEF Prepares, At
        <5>3. QED
          BY <1>1, <3>1, <5>1, <5>2, OtherRoles DEF SameRoles
      <4>4. PhaseOf(u)' = "auditing"
        BY <1>1, <2>2, <4>1, <4>2, <4>3, NoneIsNothing, PhaseMeansNext
      <4>5. QED
        BY <4>1, <4>4, Onward
    <3>4. QED
      BY <3>2, <3>3
  <2>4. CASE uploads[u] # "ready"
    <3>1. Only(t) /\ thread'[t].at = "idle"
      BY <1>1, <1>3, <2>1, <2>4, IdleEffect DEF IInv, Claim, EndOperation
    <3>2. uploads[u] = None
      BY <1>1, <2>1, <2>2, <2>4 DEF IInv, TypeOK, Ownership, ReadyOnce
    <3>3. uploads' = uploads
      BY <2>2, <3>2 DEF IInv, TypeOK
    <3>4. QED
      BY <1>1, <2>2, <3>1, <3>3, NoRoles, MovesNothing DEF At
  <2>5. QED
    BY <2>3, <2>4
<1>4. CASE StartFails(t) \/ Approve(t)
  <2>1. /\ Only(t) /\ thread'[t].at \in {"unstarted", "approved"}
        /\ thread'[t].at = "approved" <=> Approve(t)
        /\ thread'[t].upload = thread[t].upload /\ thread[t].upload \in Upload
    <3>1. CASE StartFails(t)
      BY <1>1, <3>1, GiveUpEffect DEF IInv, KeepsRequest, StartFails, Approve, At
    <3>2. CASE Approve(t)
      BY <1>1, <3>2, GiveUpEffect DEF IInv, KeepsRequest
    <3>3. QED
      BY <1>4, <3>1, <3>2
  <2>2. UNCHANGED <<disk, uploads, retained>> /\ (At(t, "claimed") \/ At(t, "approving"))
    BY <1>4 DEF StartFails, Approve, tables
  <2>3. StartFails(t) => thread[t].upload \notin retained
    BY <1>1 DEF StartFails, Exclusive, IInv, Ownership, ExclusiveOwned
  <2>4. thread[t].upload \in retained => At(t, "approved")'
    BY <1>4, <2>1, <2>3 DEF At
  <2>5. QED
    BY <1>1, <2>1, <2>2, <2>4, MovesGivesUp DEF At
<1>5. CASE Approved(t)
  <2>1. Only(t) /\ thread'[t].at = "idle"
    BY <1>1, <1>5, IdleEffect DEF IInv, Approved, EndOperation
  <2>2. PICK u \in Upload : u = thread[t].upload
    BY <1>1, <1>5 DEF Approved, IInv, ShapeOK, WellFormed, HasUpload, RemovesItsUpload
  <2>3. UNCHANGED <<disk, uploads>> /\ retained' = retained \ {u} /\ At(t, "approved")
    BY <1>5, <2>2 DEF Approved
  <2>4. ASSUME NEW v \in Upload, v # u
        PROVE  Moves(v)
    <3>1. SameRoles(t, v) /\ (v \in retained' <=> v \in retained)
      BY <2>1, <2>2, <2>3, <2>4 DEF SameRoles, Prepares, Audits, Ends, At
    <3>2. QED
      BY <1>1, <2>1, <2>3, <3>1, PhaseSame DEF Moves
  <2>5. Moves(u)
    <3>1. u \in retained /\ Ends(t, u)
      BY <1>1, <2>2, <2>3 DEF IInv, Ownership, ReviewOwned, Reviews, Ends
    <3>2. /\ uploads[u] = None /\ disk[u] # "unused"
          /\ ~\E s \in Thread : Prepares(s, u) \/ Audits(s, u)
      BY <3>1, NoneIsNothing DEF IInv, Ownership, RetainedOwned, PreparedOwned, ExclusiveOwned,
         Exclusive, Prepares, Audits
    <3>3. ~\E s \in Thread : Prepares(s, u)' \/ Audits(s, u)'
      <4>1. ~Prepares(t, u)' /\ ~Audits(t, u)'
        BY <2>1 DEF Prepares, Audits, At
      <4>2. QED
        BY <1>1, <2>1, <3>2, <4>1, OtherRoles DEF SameRoles
    <3>4. PhaseOf(u) = IF disk[u] = "gone" THEN "gone" ELSE "given up"
      BY <1>1, <3>1, <3>2, NoneIsNothing, PhaseMeans
    <3>5. PhaseOf(u)' = IF disk[u] = "gone" THEN "gone" ELSE "given up"
      BY <2>3, <3>2, <3>3, NoneIsNothing, PhaseMeansNext
    <3>6. QED
      BY <3>4, <3>5 DEF Moves
  <2>6. QED
    BY <2>4, <2>5
<1>6. QED
  BY <1>2, <1>3, <1>4, <1>5 DEF Operation

LEMMA MovesAudit ==
    ASSUME IInv, NEW t \in Thread, Audit(t)
    PROVE  \A u \in Upload : Moves(u)
<1>1. t = Worker
  BY DEF Audit
<1>2. CASE Discarded \/ FinishAudit
  <2>1. Only(t) /\ thread'[t].at = "idle"
    BY <1>1, <1>2, IdleEffect DEF IInv, Discarded, FinishAudit, EndOperation
  <2>2. UNCHANGED <<disk, uploads, retained>> /\ thread[t].at \in {"discard", "retained"}
    BY <1>1, <1>2 DEF Discarded, FinishAudit, tables, At
  <2>3. QED
    BY <2>1, <2>2, NoRoles, MovesNothing
<1>3. CASE Discard
  <2>1. /\ Only(t) /\ thread'[t].at = "discard" /\ thread'[t].upload = thread[t].upload
        /\ thread[t].upload \in Upload
    BY <1>1, <1>3, GiveUpEffect DEF IInv, KeepsRequest
  <2>2. /\ UNCHANGED <<disk, uploads>> /\ retained' = retained \ {thread[t].upload}
        /\ At(t, "running") \/ At(t, "retained")
    BY <1>1, <1>3 DEF Discard
  <2>3. QED
    BY <2>1, <2>2, MovesGivesUp DEF At
<1>4. CASE Retain
  <2>1. PICK u \in Upload : u = thread[t].upload
    BY <1>1, <1>4 DEF Retain, IInv, ShapeOK, WellFormed, HasUpload, At
  <2>2. /\ Only(t) /\ thread'[t].at = "retained" /\ At(t, "running")
        /\ retained' = retained \cup {u} /\ UNCHANGED <<disk, uploads>>
    BY <1>1, <1>4, <2>1, GoEffect DEF IInv, Retain
  <2>3. ASSUME NEW v \in Upload, v # u
        PROVE  Moves(v)
    <3>1. SameRoles(t, v)
      BY <2>1, <2>2, <2>3 DEF SameRoles, Prepares, Audits, Ends, At
    <3>2. QED
      BY <2>2, <2>3, <3>1, PhaseSame DEF Moves
  <2>4. Moves(u)
    <3>1. Audits(t, u) /\ InOperation(t) /\ ~At(t, "approved")
      BY <2>1, <2>2 DEF Audits, InOperation, At
    <3>2. /\ PhaseOf(u) = "auditing"
          /\ uploads[u] = None /\ disk[u] = "files"
          /\ ~\E s \in Thread : Ends(s, u)
      BY <3>1, PhaseAuditing, NoneEnds DEF Audits, IInv, Ownership, ExclusiveOwned, Exclusive
    <3>3. \A s \in Thread \ {t} : ~Prepares(s, u) /\ ~Audits(s, u)
      BY <3>1 DEF Prepares, Audits, Exclusive, IInv, Ownership, ExclusiveAlone
    <3>4. ~\E s \in Thread : Prepares(s, u)' \/ Audits(s, u)' \/ Ends(s, u)'
      <4>1. ~Prepares(t, u)' /\ ~Audits(t, u)' /\ ~Ends(t, u)'
        BY <2>2 DEF Prepares, Audits, Ends, At
      <4>2. QED
        BY <2>2, <3>2, <3>3, <4>1, OtherRoles DEF SameRoles
    <3>5. PhaseOf(u)' = "review"
      BY <2>2, <3>2, <3>4, NoneIsNothing, PhaseMeansNext
    <3>6. QED
      BY <3>2, <3>5, Onward
  <2>5. QED
    BY <2>3, <2>4
<1>5. QED
  BY <1>2, <1>3, <1>4 DEF Audit

\* The audit of an upload passes from its handler to the worker.
LEMMA MovesHandsOver ==
    ASSUME IInv, NEW t \in Handler, StartWorker(t)
    PROVE  \A u \in Upload : Moves(u)
<1>1. t \in Thread /\ Worker \in Thread /\ t # Worker /\ InOperation(t) /\ At(t, "claimed")
  BY ServerAssumption DEF Thread, StartWorker, InOperation, At
<1>2. At(Worker, "idle")
  BY <1>1, WorkerIdle DEF IInv
<1>3. /\ thread'[t] = Idle /\ thread'[Worker].at = "running"
      /\ thread'[Worker].upload = thread[t].upload
      /\ \A s \in Thread \ {t, Worker} : thread'[s] = thread[s]
  BY <1>2, ShapeStart DEF IInv
<1>4. UNCHANGED <<disk, uploads, retained>>
  BY DEF StartWorker, tables
<1>5. ASSUME NEW u \in Upload
      PROVE  Moves(u)
  <2>1. \A s \in Thread \ {t, Worker} : SameRoles(s, u)
    BY <1>3 DEF SameRoles, Prepares, Audits, Ends, At
  <2>2. /\ ~Prepares(t, u) /\ ~Prepares(t, u)' /\ ~Prepares(Worker, u) /\ ~Prepares(Worker, u)'
        /\ ~Ends(t, u) /\ ~Ends(t, u)' /\ ~Ends(Worker, u) /\ ~Ends(Worker, u)'
        /\ ~Audits(t, u)' /\ ~Audits(Worker, u)
    BY <1>1, <1>2, <1>3, IdleFields DEF Prepares, Audits, Ends, At
  <2>3. Audits(Worker, u)' <=> Audits(t, u)
    BY <1>1, <1>3 DEF Audits, At
  <2>4. /\ (\E s \in Thread : Prepares(s, u)') <=> \E s \in Thread : Prepares(s, u)
        /\ (\E s \in Thread : Audits(s, u)') <=> \E s \in Thread : Audits(s, u)
        /\ (\E s \in Thread : Ends(s, u)') <=> \E s \in Thread : Ends(s, u)
    BY <1>1, <2>1, <2>2, <2>3 DEF SameRoles
  <2>5. PhaseOf(u)' = PhaseOf(u)
    BY <1>4, <2>4, PhaseMeans, PhaseMeansNext
  <2>6. QED
    BY <2>5 DEF Moves
<1>6. QED
  BY <1>5

LEMMA MovesSweep ==
    ASSUME IInv, NEW t \in Thread, Sweep(t) \/ Refuse(t)
    PROVE  \A u \in Upload : Moves(u)
<1>1. /\ UNCHANGED <<disk, uploads, retained>>
      /\ thread[t].at \in {"clean", "found"}
  BY DEF Sweep, NextRemoval, Cleaned, Refuse, AllCleaned, tables, At
<1>2. Only(t) /\ thread'[t].at \in {"clean", "idle"}
  <2>1. CASE Sweep(t)
    BY <2>1, NextRemovalEffect, DoneRemovingEffect DEF IInv, Sweep, Cleaned
  <2>2. CASE Refuse(t)
    BY <2>2, IdleEffect DEF IInv, Refuse
  <2>3. QED
    BY <2>1, <2>2
<1>3. QED
  BY <1>1, <1>2, NoRoles, MovesNothing

---------------------------------------------------------------------------
\* Every upload goes through the phases of its life in one direction and is
\* audited at most once, whatever the threads do to it at the same time.
THEOREM LifecycleIsImplemented == Spec => ImplementsLifecycle
<1> DEFINE phase == [u \in Upload |-> PhaseOf(u)]
<1>1. Init => Lifecycle!LifecycleInit
  BY PhaseMeans DEF Init, Lifecycle!LifecycleInit
<1>2. IInv /\ [Next]_vars => [Lifecycle!LifecycleNext]_phase
  <2> SUFFICES ASSUME IInv, [Next]_vars
               PROVE  [Lifecycle!LifecycleNext]_phase
    OBVIOUS
  <2>1. CASE UNCHANGED vars
    <3>1. \A u \in Upload : PhaseOf(u)' = PhaseOf(u)
      BY <2>1 DEF vars, tables, PhaseOf, At
    <3>2. phase' = phase
      BY <3>1
    <3>3. QED
      BY <3>2
  <2>2. CASE Next
    <3>1. PICK t \in Thread :
             \/ Expire(t)
             \/ Sweep(t)
             \/ RemovalStep(t)
             \/ t \in Handler /\ (Refuse(t) \/ UploadStep(t) \/ Operation(t) \/ StartWorker(t))
             \/ Audit(t)
      BY <2>2, Steps
    <3>2. \A u \in Upload : Moves(u)
      BY <3>1, MovesExpire, MovesSweep, MovesRemoval, MovesUpload, MovesOperation, MovesHandsOver,
         MovesAudit
    <3>3. phase' \in [Upload -> Lifecycle!Phase]
      BY PhaseMeansNext DEF Lifecycle!Phase
    <3>4. \A u \in Upload : phase'[u] = phase[u] \/ <<phase[u], phase'[u]>> \in Lifecycle!Edge
      BY <3>2 DEF Moves
    <3>5. QED
      BY <3>3, <3>4 DEF Lifecycle!LifecycleNext
  <2>3. QED
    BY <2>1, <2>2
<1>3. QED
  BY <1>1, <1>2, Invariance, PTL DEF Spec, ImplementsLifecycle, Lifecycle!LifecycleSpec

---------------------------------------------------------------------------
(***************************************************************************)
(* No directory of an upload is lost, however its removals fail, unless    *)
(* one thread reports it as removed while another gives it up.             *)
(***************************************************************************)

(* What is removed, and who knows what is not. *)

HeldBy(t, u) == \/ Using(t) /\ thread[t].upload = u
                \/ thread[t].removal # None /\ thread[t].removal.of = u

\* The directory is gone, or a thread took it for removed.
Reported(u) == disk[u] = "gone" \/ u \in failures.early

Present(u) == Exists(u) /\ u \notin failures.early

\* A removal that ended well has been reported, and what a cleanup still has to
\* remove is queued for the next one.
RemovalKept(t) ==
    /\ Removing(t, "removed") => Reported(thread[t].removal.of)
    /\ At(t, "clean") => \A u \in ToRemove(t) : u \in pending \/ Reported(u)

\* What nobody has reported as removed is known.
NoneForgotten == \A u \in Upload : Present(u) => u \in Tracked \/ Held(u)

Kept == (\A t \in Thread : RemovalKept(t)) /\ NoneForgotten

LEMMA KeptStep ==
    ASSUME Kept, NEW t \in Thread, Only(t),
           \A u \in Upload : Reported(u) => Reported(u)',
           \A u \in pending : u \in pending' \/ Reported(u)',
           \A s \in Thread : ToRemove(s) \subseteq Upload,
           RemovalKept(t)',
           \A u \in Upload :
              /\ Present(u)'
              /\ Present(u) => u \in Tracked \/ HeldBy(t, u)
              => u \in Tracked' \/ HeldBy(t, u)'
    PROVE  Kept'
<1>1. ASSUME NEW s \in Thread, s # t
      PROVE  /\ RemovalKept(s)'
             /\ \A u \in Upload : HeldBy(s, u)' <=> HeldBy(s, u)
  <2>1. thread'[s] = thread[s]
    BY <1>1 DEF Only
  <2>2. \A u \in Upload : HeldBy(s, u)' <=> HeldBy(s, u)
    BY <2>1 DEF HeldBy, Using, At
  <2>3. RemovalKept(s)
    BY DEF Kept
  <2>4. Removing(s, "removed")' => Reported(thread[s].removal.of)'
    <3>1. Removing(s, "removed") => thread[s].removal.of \in ToRemove(s)
      BY DEF Removing, ToRemove
    <3>2. QED
      BY <2>1, <2>3, <3>1 DEF RemovalKept, Removing
  <2>5. At(s, "clean")' => \A u \in ToRemove(s)' : u \in pending' \/ Reported(u)'
    <3>1. ToRemove(s)' = ToRemove(s) /\ (At(s, "clean")' <=> At(s, "clean"))
      BY <2>1 DEF ToRemove, At
    <3>2. QED
      BY <2>3, <3>1 DEF RemovalKept
  <2>6. QED
    BY <2>2, <2>4, <2>5 DEF RemovalKept
<1>2. ASSUME NEW u \in Upload, Present(u)'
      PROVE  u \in Tracked' \/ Held(u)'
  <2>1. CASE Present(u) => u \in Tracked \/ HeldBy(t, u)
    BY <1>2, <2>1 DEF Held, HeldBy
  <2>2. CASE ~(Present(u) => u \in Tracked \/ HeldBy(t, u))
    <3>1. PICK s \in Thread : HeldBy(s, u)
      BY <2>2 DEF Kept, NoneForgotten, Held, HeldBy
    <3>2. HeldBy(s, u)'
      BY <1>1, <2>2, <3>1
    <3>3. QED
      BY <3>2 DEF Held, HeldBy
  <2>3. QED
    BY <2>1, <2>2
<1>3. QED
  BY <1>1, <1>2 DEF Kept, NoneForgotten

LEMMA Untouched ==
    ASSUME UNCHANGED <<tables, disk, failures.early>>
    PROVE  /\ Tracked' = Tracked
           /\ \A u \in Upload : Present(u)' <=> Present(u)
BY DEF tables, Tracked, Present, Exists

\* A step that leaves the tables and the disk alone.
LEMMA KeptQuiet ==
    ASSUME IInv, Kept, NEW t \in Thread, Only(t), UNCHANGED <<tables, disk, failures.early>>,
           RemovalKept(t)',
           \A u \in Upload : HeldBy(t, u) => HeldBy(t, u)' \/ u \in Tracked
    PROVE  Kept'
<1>1. \A s \in Thread : ToRemove(s) \subseteq Upload
  BY OwnTypes DEF IInv
<1>2. \A u \in pending : u \in pending'
  BY DEF tables
<1>3. \A u \in Upload : Reported(u)' <=> Reported(u)
  BY DEF Reported
<1>4. QED
  BY <1>1, <1>2, <1>3, Untouched, KeptStep

LEMMA KeptExpire ==
    ASSUME IInv, Kept, NEW t \in Thread, Expire(t)
    PROVE  Kept'
<1>1. PICK aged \in SUBSET Upload :
         /\ aged \subseteq Expirable
         /\ uploads' = [u \in Upload |-> IF u \in aged THEN None ELSE uploads[u]]
         /\ retained' = retained \ aged
         /\ pending' = pending \cup aged
         /\ UNCHANGED <<disk, failures.early>>
  BY DEF Expire, Reap
<1>2. Only(t) /\ thread'[t].at = "clean" /\ thread'[t].todo = pending' /\ thread'[t].removal = None
  BY ExpireEffect DEF IInv
<1>3. \A u \in Upload : ~HeldBy(t, u)
  <2>1. thread[t].removal = None /\ (At(t, "idle") \/ At(t, "clean"))
    BY IdleFields DEF Expire, AllCleaned, IInv, TypeOK
  <2>2. QED
    BY <2>1 DEF HeldBy, Using, At
<1>4. Tracked \subseteq Tracked'
  BY <1>1 DEF Tracked
<1>5. RemovalKept(t)'
  BY <1>2 DEF RemovalKept, Removing, ToRemove
<1>6. \A s \in Thread : ToRemove(s) \subseteq Upload
  BY OwnTypes DEF IInv
<1>7. \A u \in Upload : Present(u)' <=> Present(u)
  BY <1>1 DEF Present, Exists
<1>8. QED
  BY <1>1, <1>2, <1>3, <1>4, <1>5, <1>6, <1>7, KeptStep DEF Reported

LEMMA KeptSweep ==
    ASSUME IInv, Kept, NEW t \in Thread, Sweep(t)
    PROVE  Kept'
<1>1. At(t, "clean") /\ UNCHANGED <<uploads, retained, disk, failures.early>>
  BY DEF Sweep, NextRemoval, Cleaned, tables
<1>2. ToRemove(t) \subseteq Upload /\ \A s \in Thread : ToRemove(s) \subseteq Upload
  BY OwnTypes DEF IInv
<1>3. \A u \in ToRemove(t) : disk[u] # "unused" /\ (u \in pending \/ Reported(u))
  BY <1>1 DEF Kept, RemovalKept, IInv, Ownership, RemovalOwned
<1>4. CASE NextRemoval(t)
  <2>1. PICK u \in thread[t].todo : /\ thread'[t].todo = thread[t].todo \ {u}
                                   /\ thread'[t].removal = Removal(u, 2)
    BY <1>4, NextRemovalEffect DEF IInv
  <2>2. Only(t) /\ thread'[t].at = "clean" /\ thread[t].removal = None /\ pending' = pending
    BY <1>4, NextRemovalEffect DEF IInv, NextRemoval, tables
  <2>3. u \in Upload /\ u \in ToRemove(t)
    BY <1>2, <2>1 DEF ToRemove
  <2>4. thread'[t].removal # None /\ thread'[t].removal.of = u
    BY <2>1, <2>3, Attempts DEF IInv
  <2>5. ToRemove(t)' \subseteq ToRemove(t)
    BY <2>1, <2>3, <2>4 DEF ToRemove
  <2>6. thread'[t].removal.step = "removed" => Reported(u)
    <3>1. thread'[t].removal.step = Listed(u)
      BY <2>1 DEF Removal
    <3>2. QED
      BY <1>3, <2>3, <3>1 DEF Listed, IInv, TypeOK, Reported
  <2>7. RemovalKept(t)'
    BY <1>1, <1>3, <2>2, <2>4, <2>5, <2>6 DEF RemovalKept, Removing, Reported
  <2>8. \A v \in Upload : ~HeldBy(t, v)
    BY <1>1, <2>2 DEF HeldBy, Using, At
  <2>9. QED
    BY <1>1, <2>2, <2>7, <2>8, KeptQuiet DEF tables
<1>5. CASE Cleaned(t)
  <2> DEFINE v == thread[t].removal.of
  <2>1. Only(t) /\ thread'[t].at = "clean" /\ thread'[t].todo = thread[t].todo
        /\ thread'[t].removal = None
    BY <1>1, <1>5, DoneRemovingEffect DEF IInv
  <2>2. thread[t].removal # None /\ v \in ToRemove(t)
    BY <1>5 DEF Cleaned, Removed, Removing, ToRemove
  <2>3. \/ pending' = pending
        \/ pending' = pending \ {v} /\ Reported(v)
    BY <1>5 DEF Cleaned, Kept, RemovalKept
  <2>4. v \in pending' \/ Reported(v)
    BY <1>3, <2>2, <2>3
  <2>5. \A u \in pending : u \in pending' \/ Reported(u)
    BY <2>3
  <2>6. ToRemove(t)' \subseteq ToRemove(t)
    BY <2>1 DEF ToRemove
  <2>7. RemovalKept(t)'
    BY <1>1, <1>3, <2>1, <2>5, <2>6 DEF RemovalKept, Removing, Reported
  <2>8. \A u \in Upload : u \in Tracked \/ HeldBy(t, u) => u \in Tracked' \/ Reported(u)
    BY <1>1, <2>4, <2>5 DEF HeldBy, Using, At, Tracked
  <2>9. \A u \in Upload : Present(u)' <=> Present(u)
    BY <1>1 DEF Present, Exists
  <2>10. \A u \in Upload : Reported(u)' <=> Reported(u)
    BY <1>1 DEF Reported
  <2>11. QED
    BY <1>1, <1>2, <2>1, <2>5, <2>7, <2>8, <2>9, <2>10, KeptStep DEF Reported, Present, Exists
<1>6. QED
  BY <1>4, <1>5 DEF Sweep

LEMMA KeptRemoval ==
    ASSUME IInv, Kept, NEW t \in Thread, RemovalStep(t)
    PROVE  Kept'
<1> DEFINE u == thread[t].removal.of
<1>1. /\ thread[t].removal # None /\ u \in ToRemove(t)
      /\ Removing(t, "unlink") \/ Removing(t, "rmdir")
  BY DEF RemovalStep, Unlink, UnlinkVanished, RemoveDirectory, RemovalFails, Removing, ToRemove
<1>2. u \in Upload /\ disk[u] # "unused" /\ \A s \in Thread : ToRemove(s) \subseteq Upload
  BY <1>1, OwnTypes DEF IInv, Ownership, RemovalOwned
<1>3. /\ Only(t) /\ thread'[t].at = thread[t].at /\ KeepsRequest(t)
      /\ thread'[t].todo = thread[t].todo
      /\ thread'[t].removal # None /\ thread'[t].removal.of = u
  BY <1>1, ProceedEffect, RemovalFailsEffect
     DEF RemovalStep, Unlink, UnlinkVanished, RemoveDirectory, RemovalFails, IInv
<1>4. UNCHANGED tables
  BY DEF RemovalStep, Unlink, UnlinkVanished, RemoveDirectory, RemovalFails
<1>5. \/ disk' = disk
      \/ disk[u] = "files" /\ disk' = [disk EXCEPT ![u] = "empty"]
      \/ disk' = [disk EXCEPT ![u] = "gone"]
  BY DEF RemovalStep, Unlink, UnlinkVanished, RemoveDirectory, RemovalFails
<1>6. failures.early \subseteq failures'.early
  <2>1. failures \in Failures
    BY DEF IInv, TypeOK
  <2>2. CASE UnlinkVanished(t)
    BY <2>1, <2>2 DEF UnlinkVanished, Failures
  <2>3. CASE RemovalFails(t)
    BY <2>1, <2>3 DEF RemovalFails, Failures
  <2>4. QED
    BY <2>2, <2>3 DEF RemovalStep, Unlink, RemoveDirectory
<1>7. thread'[t].removal.step = "removed" => Reported(u)'
  <2>1. CASE Unlink(t)
    BY <1>1, <2>1, ProceedEffect DEF Unlink, IInv
  <2>2. CASE UnlinkVanished(t)
    <3>1. thread'[t].removal.step = "removed" => VanishedChildRaises
      BY <1>1, <2>2, ProceedEffect DEF UnlinkVanished, IInv
    <3>2. disk' = disk /\ disk[u] \in {"empty", "gone"}
      BY <1>2, <2>2 DEF UnlinkVanished, IInv, TypeOK
    <3>3. CASE disk[u] = "gone"
      BY <1>3, <3>2, <3>3 DEF Reported
    <3>4. CASE disk[u] = "empty" /\ VanishedChildRaises
      <4>1. failures \in Failures
        BY DEF IInv, TypeOK
      <4>2. u \in failures'.early
        BY <2>2, <3>4, <4>1 DEF UnlinkVanished, Failures
      <4>3. QED
        BY <1>3, <4>2 DEF Reported
    <3>5. QED
      BY <3>1, <3>2, <3>3, <3>4
  <2>3. CASE RemoveDirectory(t)
    <3>1. disk'[u] = "gone"
      BY <1>2, <2>3 DEF RemoveDirectory, IInv, TypeOK
    <3>2. QED
      BY <1>3, <3>1 DEF Reported
  <2>4. CASE RemovalFails(t)
    <3>1. thread'[t].removal.step = "removed" => disk'[u] = "gone"
      BY <1>2, <2>4, RemovalFailsEffect DEF RemovalFails, Listed, IInv, TypeOK
    <3>2. QED
      BY <1>3, <3>1 DEF Reported
  <2>5. QED
    BY <2>1, <2>2, <2>3, <2>4 DEF RemovalStep
<1>8. \A v \in Upload : /\ Reported(v) => Reported(v)'
                        /\ Present(v)' => Present(v)
  BY <1>2, <1>5, <1>6 DEF IInv, TypeOK, Present, Exists, Reported
<1>9. ToRemove(t)' = ToRemove(t) /\ (At(t, "clean")' <=> At(t, "clean"))
  BY <1>1, <1>3 DEF ToRemove, At
<1>10. RemovalKept(t)'
  <2>1. \A v \in ToRemove(t) : At(t, "clean") => v \in pending \/ Reported(v)
    BY DEF Kept, RemovalKept
  <2>2. QED
    BY <1>2, <1>3, <1>4, <1>7, <1>8, <1>9, <2>1 DEF tables, RemovalKept, Removing
<1>11. \A v \in Upload : HeldBy(t, v)' <=> HeldBy(t, v)
  BY <1>1, <1>3 DEF KeepsRequest, HeldBy, Using, At
<1>12. Tracked' = Tracked /\ pending' = pending
  BY <1>4 DEF tables, Tracked
<1>13. QED
  BY <1>2, <1>3, <1>8, <1>10, <1>11, <1>12, KeptStep

\* A thread begins to remove the upload it worked on.
LEMMA KeptGivesUp ==
    ASSUME IInv, Kept, NEW t \in Thread, Only(t), Exclusive(t) \/ Reviews(t),
           UNCHANGED <<uploads, pending, disk, failures.early>>,
           retained \ {thread[t].upload} \subseteq retained',
           NEW n \in 1 .. 2, thread'[t].removal = Removal(thread[t].upload, n),
           thread'[t].at # "clean", thread[t].removal = None
    PROVE  Kept'
<1>1. thread[t].upload \in Upload /\ \A s \in Thread : ToRemove(s) \subseteq Upload
  BY OwnTypes DEF IInv
<1>2. PICK u \in Upload : u = thread[t].upload
  BY <1>1
<1>3. disk[u] # "unused"
  BY <1>2, NoneIsNothing DEF IInv, Ownership, ExclusiveOwned, ReviewOwned, RetainedOwned
<1>4. thread'[t].removal # None /\ thread'[t].removal.of = u
  BY <1>2, Attempts DEF IInv
<1>5. thread'[t].removal.step = Listed(u)
  BY <1>2 DEF Removal
<1>6. Listed(u) = "removed" => Reported(u)'
  BY <1>3 DEF Listed, IInv, TypeOK, Reported
<1>7. RemovalKept(t)'
  BY <1>4, <1>5, <1>6 DEF RemovalKept, Removing, At
<1>8. HeldBy(t, u)'
  BY <1>4 DEF HeldBy
<1>9. \A v \in Upload : v # u => (HeldBy(t, v) => HeldBy(t, v)') /\ (v \in Tracked => v \in Tracked')
  BY <1>2 DEF HeldBy, Tracked
<1>10. \A v \in Upload : Present(v)' <=> Present(v)
  BY DEF Present, Exists
<1>11. QED
  BY <1>1, <1>7, <1>8, <1>9, <1>10, KeptStep DEF Reported

\* A removal ends.
LEMMA KeptDisposes ==
    ASSUME IInv, Kept, NEW t \in Thread, Only(t), RemovesItsUpload(t), Removed(t), Dispose(t),
           UNCHANGED <<uploads, disk, failures.early>>,
           retained \ {thread[t].upload} \subseteq retained',
           thread'[t].removal = None, thread'[t].at # "clean"
    PROVE  Kept'
<1> DEFINE u == thread[t].upload
<1>1. u \in Upload /\ thread[t].removal.of = u /\ \A s \in Thread : ToRemove(s) \subseteq Upload
  BY OwnTypes DEF IInv, ShapeOK, WellFormed, HasUpload
<1>2. /\ pending \subseteq pending'
      /\ u \in pending' \/ Reported(u)
  BY <1>1 DEF Dispose, Removed, Removing, Kept, RemovalKept
<1>3. RemovalKept(t)'
  BY DEF RemovalKept, Removing, At
<1>4. \A v \in Upload : HeldBy(t, v) => v = u
  BY <1>1 DEF HeldBy, Using, At
<1>5. \A v \in Upload : v # u => (v \in Tracked => v \in Tracked')
  BY <1>2 DEF Tracked
<1>6. u \in Tracked' \/ Reported(u)
  BY <1>2 DEF Tracked
<1>7. \A v \in Upload : Present(v)' <=> Present(v)
  BY DEF Present, Exists
<1>8. \A v \in Upload : Present(v)' /\ (Present(v) => v \in Tracked \/ HeldBy(t, v)) => v \in Tracked'
  BY <1>4, <1>5, <1>6, <1>7 DEF Reported, Present, Exists
<1>9. QED
  BY <1>1, <1>2, <1>3, <1>8, KeptStep DEF Reported

\* A thread that removes nothing exchanges a table for its own use, or gives
\* back what it uses.
LEMMA KeptMoves ==
    ASSUME IInv, Kept, NEW t \in Thread, Only(t),
           UNCHANGED <<pending, disk, failures.early>>,
           thread[t].removal = None, thread'[t].removal = None,
           thread'[t].at = "clean" => thread'[t].todo = {},
           \A v \in Upload : v \in Tracked \/ HeldBy(t, v) => v \in Tracked' \/ HeldBy(t, v)'
    PROVE  Kept'
<1>1. RemovalKept(t)'
  BY DEF RemovalKept, Removing, ToRemove, At
<1>2. \A s \in Thread : ToRemove(s) \subseteq Upload
  BY OwnTypes DEF IInv
<1>3. \A v \in Upload : Present(v)' <=> Present(v)
  BY DEF Present, Exists
<1>4. QED
  BY <1>1, <1>2, <1>3, KeptStep DEF Reported

LEMMA KeptUpload ==
    ASSUME IInv, Kept, NEW t \in Handler, UploadStep(t)
    PROVE  Kept'
<1> DEFINE u == thread[t].upload
<1>1. t \in Thread /\ \A s \in Thread : ToRemove(s) \subseteq Upload
  BY OwnTypes DEF Thread, IInv
<1>2. CASE \E r \in Request, v \in Upload \cup {None} : Reserve(t, r, v)
  <2>1. PICK r \in Request, v \in Upload \cup {None} : Reserve(t, r, v)
    BY <1>2
  <2>2. Only(t) /\ thread'[t].at = "receive" /\ thread'[t].removal = None
    BY <1>1, <2>1, ServingEffect DEF IInv, Reserve
  <2>3. UNCHANGED <<tables, disk, failures.early>> /\ At(t, "clean") /\ thread[t].removal = None
    BY <2>1 DEF Reserve, Serves, AllCleaned
  <2>4. \A v2 \in Upload : ~HeldBy(t, v2)
    BY <2>3 DEF HeldBy, Using, At
  <2>5. QED
    BY <1>1, <2>2, <2>3, <2>4, KeptQuiet DEF RemovalKept, Removing, At
<1>3. CASE BodyRefused(t) \/ ReleaseProcessing(t)
  <2>1. UNCHANGED <<tables, disk, failures.early>> /\ thread[t].removal = None /\ (At(t, "receive") \/ At(t, "release"))
    BY <1>1, <1>3, Serious DEF BodyRefused, ReleaseProcessing, IInv, At
  <2>2. Only(t) /\ thread'[t].at \in {"release", "idle"} /\ thread'[t].removal = None
    BY <1>1, <1>3, <2>1, GoEffect, IdleEffect DEF IInv, BodyRefused, ReleaseProcessing
  <2>3. \A v \in Upload : ~HeldBy(t, v)
    BY <2>1 DEF HeldBy, Using, At
  <2>4. QED
    BY <1>1, <2>1, <2>2, <2>3, KeptQuiet DEF RemovalKept, Removing, At
<1>4. CASE ReceiveWorkbook(t)
  <2>1. thread[t].removal = None /\ UNCHANGED tables /\ At(t, "receive")
    BY <1>1, <1>4, Serious DEF IInv, ReceiveWorkbook, At
  <2>2. PICK v \in Upload :
           /\ disk[v] = "unused" /\ disk' = [disk EXCEPT ![v] = "files"]
           /\ Only(t) /\ thread'[t].at = "staging" /\ thread'[t].upload = v
           /\ thread'[t].removal = thread[t].removal
    BY <1>1, <1>4, ReceiveWorkbookEffect DEF IInv
  <2>3. RemovalKept(t)'
    BY <2>1, <2>2 DEF RemovalKept, Removing, At
  <2>4. HeldBy(t, v)'
    BY <2>2 DEF HeldBy, Using, At
  <2>5. \A w \in Upload : w # v => ~HeldBy(t, w) /\ disk'[w] = disk[w]
    BY <2>1, <2>2 DEF HeldBy, Using, At, IInv, TypeOK
  <2>6. \A w \in Upload : Reported(w) => Reported(w)'
    BY <1>4, <2>2 DEF IInv, TypeOK, ReceiveWorkbook, Reported
  <2>7. Tracked' = Tracked /\ UNCHANGED <<pending, failures.early>>
    BY <1>4, <2>1 DEF tables, Tracked, ReceiveWorkbook
  <2>8. QED
    BY <1>1, <2>2, <2>3, <2>4, <2>5, <2>6, <2>7, KeptStep DEF Present, Exists
<1>5. CASE ReceivePolicy(t)
  <2>1. thread[t].removal = None /\ At(t, "receive") /\ UNCHANGED <<retained, pending, disk, failures.early>>
    BY <1>1, <1>5, Serious DEF IInv, ReceivePolicy, At
  <2>2. Only(t) /\ thread'[t].at \in {"staging", "release"} /\ thread'[t].removal = None /\ KeepsRequest(t)
    BY <1>1, <1>5, <2>1, GoEffect DEF IInv, ReceivePolicy
  <2>3. \A v \in Upload : ~HeldBy(t, v)
    BY <2>1 DEF HeldBy, Using, At
  <2>4. \A v \in Upload : v \in Tracked => v \in Tracked' \/ HeldBy(t, v)'
    <3>1. CASE uploads' = uploads
      BY <2>1, <3>1 DEF Tracked
    <3>2. CASE thread'[t].at = "staging" /\ uploads' = [uploads EXCEPT ![u] = None]
      <4>1. \A v \in Upload : v # u => uploads'[v] = uploads[v]
        BY <3>2 DEF IInv, TypeOK
      <4>2. \A v \in Upload : v = u => HeldBy(t, v)'
        BY <2>2, <3>2 DEF HeldBy, Using, At, KeepsRequest
      <4>3. QED
        BY <2>1, <4>1, <4>2 DEF Tracked
    <3>3. QED
      BY <1>1, <1>5, <3>1, <3>2, GoEffect DEF ReceivePolicy, IInv
  <2>5. QED
    BY <1>1, <2>1, <2>2, <2>3, <2>4, KeptMoves
<1>6. CASE Accept(t)
  <2>1. thread[t].removal = None /\ At(t, "staging") /\ UNCHANGED <<retained, pending, disk, failures.early>>
        /\ u \in Upload
    BY <1>1, <1>6, Serious DEF IInv, Accept, ShapeOK, WellFormed, HasUpload, At
  <2>2. Only(t) /\ thread'[t].at = "release" /\ thread'[t].removal = None
    BY <1>1, <1>6, <2>1, GoEffect DEF IInv, Accept
  <2>3. \A v \in Upload : HeldBy(t, v) => v = u
    BY <2>1 DEF HeldBy
  <2>4. \A v \in Upload : v = u \/ uploads[v] # None => uploads'[v] # None
    BY <1>6, <2>1, NoneIsNothing DEF IInv, TypeOK, Accept
  <2>5. QED
    BY <1>1, <2>1, <2>2, <2>3, <2>4, KeptMoves DEF Tracked
<1>7. CASE Reject(t)
  <2>1. PICK n \in 1 .. 2 : /\ Only(t) /\ thread'[t].at = "reject"
                            /\ thread'[t].removal = Removal(u, n)
    BY <1>1, <1>7, RejectEffect DEF IInv
  <2>2. UNCHANGED <<tables, disk, failures.early>> /\ Exclusive(t) /\ thread[t].removal = None
    BY <1>1, <1>7, Serious DEF IInv, Reject, Exclusive, At
  <2>3. QED
    BY <1>1, <2>1, <2>2, KeptGivesUp DEF tables
<1>8. CASE Rejected(t)
  <2>1. /\ Only(t) /\ thread'[t].at = "release" /\ thread'[t].removal = None
    BY <1>1, <1>8, DoneRemovingEffect DEF IInv, Rejected, At
  <2>2. RemovesItsUpload(t) /\ UNCHANGED <<uploads, retained, disk, failures.early>> /\ Removed(t) /\ Dispose(t)
    BY <1>8 DEF Rejected, RemovesItsUpload
  <2>3. QED
    BY <1>1, <2>1, <2>2, KeptDisposes
<1>9. QED
  BY <1>2, <1>3, <1>4, <1>5, <1>6, <1>7, <1>8 DEF UploadStep

LEMMA KeptOperation ==
    ASSUME IInv, Kept, NEW t \in Handler, Operation(t)
    PROVE  Kept'
<1> DEFINE u == thread[t].upload
<1>1. t \in Thread
  BY DEF Thread
<1>2. CASE \E r \in Request, v \in Upload \cup {None} : Acquire(t, r, v)
  <2>1. PICK r \in Request, v \in Upload \cup {None} : Acquire(t, r, v)
    BY <1>2
  <2>2. Only(t) /\ thread'[t].at = "operating" /\ thread'[t].removal = None
    BY <1>1, <2>1, ServingEffect DEF IInv, Acquire
  <2>3. UNCHANGED <<tables, disk, failures.early>> /\ (At(t, "clean") \/ At(t, "found")) /\ thread[t].removal = None
    BY <1>1, <2>1, Serious DEF IInv, Acquire, Serves, AllCleaned, At
  <2>4. \A w \in Upload : ~HeldBy(t, w)
    BY <2>3 DEF HeldBy, Using, At
  <2>5. QED
    BY <1>1, <2>2, <2>3, <2>4, KeptQuiet DEF RemovalKept, Removing, At
<1>3. CASE FindUpload(t)
  <2>1. Only(t) /\ thread'[t].at = "found" /\ thread'[t].removal = thread[t].removal
    BY <1>1, <1>3, GoEffect DEF IInv, FindUpload
  <2>2. UNCHANGED <<tables, disk, failures.early>> /\ At(t, "clean") /\ thread[t].removal = None
    BY <1>3 DEF FindUpload, AllCleaned
  <2>3. \A w \in Upload : ~HeldBy(t, w)
    BY <2>2 DEF HeldBy, Using, At
  <2>4. QED
    BY <1>1, <2>1, <2>2, <2>3, KeptQuiet DEF RemovalKept, Removing, At
<1>4. CASE FinishOperation(t)
  <2>1. Only(t) /\ thread'[t].at = "idle" /\ thread'[t].removal = None
    BY <1>1, <1>4, IdleEffect DEF IInv, FinishOperation, EndOperation
  <2>2. UNCHANGED <<tables, disk, failures.early>> /\ (At(t, "operating") \/ At(t, "approving"))
        /\ thread[t].removal = None
    BY <1>1, <1>4, Serious DEF IInv, FinishOperation, At
  <2>3. \A w \in Upload : HeldBy(t, w) => w \in Tracked
    BY <1>1, <2>2 DEF HeldBy, Using, At, Tracked, IInv, Ownership, ReviewOwned, Reviews
  <2>4. QED
    BY <1>1, <2>1, <2>2, <2>3, KeptQuiet DEF RemovalKept, Removing, At
<1>5. CASE Claim(t)
  <2>1. /\ At(t, "operating") /\ thread[t].removal = None /\ u \in Upload /\ SeesReady(t)
        /\ UNCHANGED <<retained, pending, disk, failures.early>> /\ uploads' = [uploads EXCEPT ![u] = None]
    BY <1>1, <1>5, Serious
       DEF IInv, Claim, Unclaimed, ShapeOK, WellFormed, HasUpload, SeesReady, At
  <2>2. \A v \in Upload : ~HeldBy(t, v)
    BY <2>1 DEF HeldBy, Using, At
  <2>3. \A v \in Upload : v # u => uploads'[v] = uploads[v]
    BY <2>1 DEF IInv, TypeOK
  <2>4. CASE uploads[u] = "ready"
    <3>1. Only(t) /\ thread'[t].at = "claimed" /\ thread'[t].removal = None /\ KeepsRequest(t)
      BY <1>1, <1>5, <2>1, <2>4, GoEffect DEF IInv, Claim
    <3>2. \A v \in Upload : v = u => HeldBy(t, v)'
      BY <3>1 DEF HeldBy, Using, At, KeepsRequest
    <3>3. \A v \in Upload : v \in Tracked => v \in Tracked' \/ HeldBy(t, v)'
      BY <2>1, <2>3, <3>2 DEF Tracked
    <3>4. QED
      BY <1>1, <2>1, <2>2, <3>1, <3>3, KeptMoves
  <2>5. CASE uploads[u] # "ready"
    <3>1. Only(t) /\ thread'[t].at = "idle" /\ thread'[t].removal = None
      BY <1>1, <1>5, <2>5, IdleEffect DEF IInv, Claim, EndOperation
    <3>2. uploads[u] = None
      BY <1>1, <2>1, <2>5 DEF IInv, TypeOK, Ownership, ReadyOnce
    <3>3. QED
      BY <1>1, <2>1, <2>2, <2>3, <3>1, <3>2, KeptMoves DEF Tracked
  <2>6. QED
    BY <2>4, <2>5
<1>6. CASE StartFails(t) \/ Approve(t)
  <2>1. Only(t) /\ thread'[t].at \in {"unstarted", "approved"} /\ thread'[t].removal = Removal(u, 2)
    <3>1. CASE StartFails(t)
      BY <1>1, <3>1, GiveUpEffect DEF IInv
    <3>2. CASE Approve(t)
      BY <1>1, <3>2, GiveUpEffect DEF IInv
    <3>3. QED
      BY <1>6, <3>1, <3>2
  <2>2. UNCHANGED <<tables, disk, failures.early>> /\ (Exclusive(t) \/ Reviews(t)) /\ thread[t].removal = None
    BY <1>1, <1>6, Serious
       DEF IInv, TypeOK, Failures, StartFails, Approve, Exclusive, Reviews, At
  <2>3. QED
    BY <1>1, <2>1, <2>2, KeptGivesUp DEF tables
<1>7. CASE Unstarted(t) \/ Approved(t)
  <2>1. Only(t) /\ thread'[t].at = "idle" /\ thread'[t].removal = None
    BY <1>1, <1>7, IdleEffect DEF IInv, Unstarted, Approved, EndOperation
  <2>2. /\ RemovesItsUpload(t) /\ Removed(t) /\ Dispose(t) /\ UNCHANGED <<uploads, disk, failures.early>>
        /\ retained \ {u} \subseteq retained'
    BY <1>7 DEF Unstarted, Approved, RemovesItsUpload, At
  <2>3. QED
    BY <1>1, <2>1, <2>2, KeptDisposes
<1>8. CASE TakeRetained(t)
  <2>1. Only(t) /\ thread'[t].at = "approving" /\ thread'[t].removal = thread[t].removal
    BY <1>1, <1>8, GoEffect DEF IInv, TakeRetained
  <2>2. UNCHANGED <<tables, disk, failures.early>> /\ At(t, "operating") /\ thread[t].removal = None
    BY <1>1, <1>8, Serious DEF IInv, TakeRetained, At
  <2>3. \A w \in Upload : ~HeldBy(t, w)
    BY <2>2 DEF HeldBy, Using, At
  <2>4. QED
    BY <1>1, <2>1, <2>2, <2>3, KeptQuiet DEF RemovalKept, Removing, At
<1>9. QED
  BY <1>2, <1>3, <1>4, <1>5, <1>6, <1>7, <1>8 DEF Operation

LEMMA KeptAudit ==
    ASSUME IInv, Kept, NEW t \in Thread, Audit(t)
    PROVE  Kept'
<1> DEFINE u == thread[t].upload
<1>1. t = Worker
  BY DEF Audit
<1>2. CASE Discard
  <2>1. Only(t) /\ thread'[t].at = "discard" /\ thread'[t].removal = Removal(u, 2)
    BY <1>1, <1>2, GiveUpEffect DEF IInv
  <2>2. /\ UNCHANGED <<uploads, pending, disk, failures.early>> /\ retained' = retained \ {u}
        /\ Exclusive(t) \/ Reviews(t)
        /\ thread[t].removal = None
    BY <1>1, <1>2, Serious DEF IInv, Discard, Exclusive, Reviews, At
  <2>3. QED
    BY <2>1, <2>2, KeptGivesUp
<1>3. CASE Discarded
  <2>1. Only(t) /\ thread'[t].at = "idle" /\ thread'[t].removal = None
    BY <1>1, <1>3, IdleEffect DEF IInv, Discarded, EndOperation
  <2>2. RemovesItsUpload(t) /\ Removed(t) /\ Dispose(t) /\ UNCHANGED <<uploads, retained, disk, failures.early>>
    BY <1>1, <1>3 DEF Discarded, RemovesItsUpload
  <2>3. QED
    BY <2>1, <2>2, KeptDisposes
<1>4. CASE FinishAudit
  <2>1. Only(t) /\ thread'[t].at = "idle" /\ thread'[t].removal = None
    BY <1>1, <1>4, IdleEffect DEF IInv, FinishAudit, EndOperation
  <2>2. UNCHANGED <<tables, disk, failures.early>> /\ At(t, "retained") /\ thread[t].removal = None
    BY <1>1, <1>4, Serious DEF IInv, FinishAudit, At
  <2>3. \A w \in Upload : HeldBy(t, w) => w \in Tracked
    BY <2>2 DEF HeldBy, Using, At, Tracked, IInv, Ownership, ReviewOwned, Reviews
  <2>4. QED
    BY <2>1, <2>2, <2>3, KeptQuiet DEF RemovalKept, Removing, At
<1>5. CASE Retain
  <2>1. At(t, "running") /\ thread[t].removal = None
    BY <1>1, <1>5, Serious DEF IInv, Retain, At
  <2>2. Only(t) /\ thread'[t].at = "retained" /\ thread'[t].removal = None /\ KeepsRequest(t)
    BY <1>1, <1>5, <2>1, GoEffect DEF IInv, Retain
  <2>3. UNCHANGED <<uploads, pending, disk, failures.early>> /\ retained' = retained \cup {u}
    BY <1>1, <1>5 DEF Retain
  <2>4. \A v \in Upload : HeldBy(t, v) => HeldBy(t, v)'
    BY <2>1, <2>2 DEF HeldBy, Using, At, KeepsRequest
  <2>5. QED
    BY <2>1, <2>2, <2>3, <2>4, KeptMoves DEF Tracked
<1>6. QED
  BY <1>2, <1>3, <1>4, <1>5 DEF Audit

LEMMA KeptRefuse ==
    ASSUME IInv, Kept, NEW t \in Thread, Refuse(t)
    PROVE  Kept'
<1>1. Only(t) /\ thread'[t].at = "idle" /\ thread'[t].removal = None
  BY IdleEffect DEF IInv, Refuse
<1>2. UNCHANGED <<tables, disk, failures.early>> /\ (At(t, "clean") \/ At(t, "found")) /\ thread[t].removal = None
  BY Serious DEF Refuse, AllCleaned, IInv, At
<1>3. \A v \in Upload : ~HeldBy(t, v)
  BY <1>2 DEF HeldBy, Using, At
<1>4. QED
  BY <1>1, <1>2, <1>3, KeptQuiet DEF RemovalKept, Removing, At

\* The worker takes over what its handler held.
LEMMA KeptHandsOver ==
    ASSUME IInv, Kept, NEW t \in Handler, StartWorker(t)
    PROVE  Kept'
<1>0. PICK u : u = thread[t].upload
  OBVIOUS
<1>1. t \in Thread /\ Worker \in Thread /\ t # Worker /\ InOperation(t) /\ At(t, "claimed")
  BY ServerAssumption DEF Thread, StartWorker, InOperation, At
<1>2. At(Worker, "idle") /\ thread[t].removal = None
  BY <1>1, WorkerIdle, Serious DEF IInv, At
<1>3. /\ thread'[t] = Idle /\ thread'[Worker].at = "running" /\ thread'[Worker].upload = u
      /\ thread'[Worker].removal = None
      /\ \A s \in Thread \ {t, Worker} : thread'[s] = thread[s]
  BY <1>0, <1>2, ShapeStart DEF IInv
<1>4. UNCHANGED <<tables, disk, failures.early>>
  BY DEF StartWorker
<1>5. RemovalKept(t)' /\ RemovalKept(Worker)'
  BY <1>3, IdleFields DEF RemovalKept, Removing, At
<1>6. ASSUME NEW s \in Thread \ {t, Worker}
      PROVE  /\ RemovalKept(s)'
             /\ \A v \in Upload : HeldBy(s, v)' <=> HeldBy(s, v)
  <2>1. thread'[s] = thread[s]
    BY <1>3
  <2>2. ToRemove(s)' = ToRemove(s) /\ (At(s, "clean")' <=> At(s, "clean"))
    BY <2>1 DEF ToRemove, At
  <2>3. RemovalKept(s)
    BY DEF Kept
  <2>4. QED
    BY <1>4, <2>1, <2>2, <2>3 DEF tables, RemovalKept, Reported, Removing, HeldBy, Using, At
<1>7. \A v \in Upload : /\ HeldBy(t, v) => v = u
                        /\ ~HeldBy(Worker, v)
  <2>1. thread[Worker].removal = None
    BY <1>1, <1>2, IdleFields DEF IInv, TypeOK
  <2>2. QED
    BY <1>0, <1>2, <2>1 DEF HeldBy, Using, At
<1>8. HeldBy(Worker, u)'
  BY <1>3 DEF HeldBy, Using, At
<1>9. \A v \in Upload : (\E s \in Thread : HeldBy(s, v)) => \E s \in Thread : HeldBy(s, v)'
  BY <1>1, <1>6, <1>7, <1>8
<1>10. \A v \in Upload : Held(v) => Held(v)'
  BY <1>9 DEF Held, HeldBy
<1>11. NoneForgotten'
  BY <1>4, <1>10, Untouched DEF Kept, NoneForgotten
<1>12. QED
  BY <1>5, <1>6, <1>11 DEF Kept

---------------------------------------------------------------------------
LEMMA KeptInvariance == Spec => []Kept
<1>1. Init => Kept
  <2> SUFFICES ASSUME Init
               PROVE  Kept
    OBVIOUS
  <2>1. \A u \in Upload : ~Present(u)
    BY DEF Init, Present, Exists
  <2>2. \A t \in Thread : thread[t].removal = None /\ thread[t].todo = {}
    <3>1. thread = [t \in Thread |-> IF t = Reaper THEN [Idle EXCEPT !.at = "clean"] ELSE Idle]
      BY DEF Init
    <3>2. [Idle EXCEPT !.at = "clean"].removal = None /\ [Idle EXCEPT !.at = "clean"].todo = {}
      BY DEF Idle
    <3>3. QED
      BY <3>1, <3>2, IdleFields
  <2>3. QED
    BY <2>1, <2>2 DEF Kept, NoneForgotten, RemovalKept, Removing, ToRemove
<1>2. IInv /\ Kept /\ [Next]_vars => Kept'
  <2> SUFFICES ASSUME IInv, Kept, [Next]_vars
               PROVE  Kept'
    OBVIOUS
  <2>1. CASE UNCHANGED vars
    BY <2>1 DEF vars, tables, Kept, NoneForgotten, RemovalKept, Reported, Removing, ToRemove, At,
       Tracked, Present, Exists, Held, Using
  <2>2. CASE Next
    <3>1. PICK t \in Thread :
             \/ Expire(t)
             \/ Sweep(t)
             \/ RemovalStep(t)
             \/ t \in Handler /\ (Refuse(t) \/ UploadStep(t) \/ Operation(t) \/ StartWorker(t))
             \/ Audit(t)
      BY <2>2, Steps
    <3>2. QED
      BY <3>1, KeptExpire, KeptSweep, KeptRemoval, KeptRefuse, KeptUpload, KeptOperation,
         KeptHandsOver, KeptAudit
  <2>3. QED
    BY <2>1, <2>2
<1>3. QED
  BY <1>1, <1>2, Invariance, PTL DEF Spec

---------------------------------------------------------------------------
(* A directory that has lost its files has a thread that will remove it,   *)
(* unless one has given it up.  Only such a directory is reported early.   *)

Remover(t, u) == Removing(t, "rmdir") /\ thread[t].removal.of = u

Watched ==
    \A u \in Upload :
       /\ disk[u] = "empty" => u \in failures.stuck \/ \E t \in Thread : Remover(t, u)
       /\ u \in failures.early => disk[u] \in {"empty", "gone"}

LEMMA Becoming ==
    ASSUME TypeOK, NEW t \in Thread, NEW record, Become(t, record)
    PROVE  Only(t)
BY DEF Become, Only, TypeOK

\* A step that removes nothing: whoever is about to remove a directory is not
\* disturbed, and the directories stay, but for one that is created.
Aside == /\ \A s \in Thread : Removing(s, "rmdir") => thread'[s] = thread[s]
         /\ failures'.early = failures.early /\ failures'.stuck = failures.stuck
         /\ \A u \in Upload : disk'[u] # disk[u] => disk[u] = "unused" /\ disk'[u] = "files"

LEMMA WatchedAside ==
    ASSUME Watched, Aside
    PROVE  Watched'
<1> SUFFICES ASSUME NEW u \in Upload
             PROVE  /\ disk'[u] = "empty" =>
                          u \in failures'.stuck \/ \E t \in Thread : Remover(t, u)'
                    /\ u \in failures'.early => disk'[u] \in {"empty", "gone"}
  BY DEF Watched
<1>1. \A t \in Thread : Remover(t, u) => Remover(t, u)'
  BY DEF Aside, Remover, Removing
<1>2. disk'[u] = disk[u] \/ (disk[u] = "unused" /\ disk'[u] = "files")
  BY DEF Aside
<1>3. QED
  BY <1>1, <1>2 DEF Aside, Watched

LEMMA AsideAlone ==
    ASSUME NEW t \in Thread, Only(t), ~Removing(t, "rmdir"),
           failures'.early = failures.early, failures'.stuck = failures.stuck, disk' = disk
    PROVE  Aside
BY DEF Aside, Only

LEMMA AsideUpload ==
    ASSUME IInv, NEW t \in Handler, UploadStep(t)
    PROVE  Aside
<1>1. t \in Thread
  BY DEF Thread
<1>2. Only(t)
  BY <1>1, UploadEffect DEF IInv
<1>3. failures' = failures
  BY DEF UploadStep, Reserve, BodyRefused, ReceiveWorkbook, ReceivePolicy, Accept, Reject,
     Rejected, ReleaseProcessing
<1>4. ~Removing(t, "rmdir")
  <2>1. CASE Rejected(t)
    BY <2>1 DEF Rejected, Removed, Removing
  <2>2. CASE AllCleaned(t)
    BY <2>2 DEF AllCleaned, Removing
  <2>3. CASE thread[t].at \in {"receive", "staging", "release"}
    BY <1>1, <2>3, Serious DEF IInv, Removing
  <2>4. QED
    BY <2>1, <2>2, <2>3 DEF UploadStep, Reserve, Serves, BodyRefused, ReceiveWorkbook,
       ReceivePolicy, Accept, Reject, ReleaseProcessing, At
<1>5. CASE ReceiveWorkbook(t)
  <2>1. PICK u \in Upload : disk[u] = "unused" /\ disk' = [disk EXCEPT ![u] = "files"]
    BY <1>5 DEF ReceiveWorkbook
  <2>2. \A v \in Upload : disk'[v] # disk[v] => disk[v] = "unused" /\ disk'[v] = "files"
    BY <2>1 DEF IInv, TypeOK
  <2>3. QED
    BY <1>1, <1>2, <1>3, <1>4, <2>2 DEF Aside, Only
<1>6. CASE ~ReceiveWorkbook(t)
  <2>1. disk' = disk
    BY <1>6 DEF UploadStep, Reserve, BodyRefused, ReceivePolicy, Accept, Reject,
       Rejected, ReleaseProcessing
  <2>2. QED
    BY <1>1, <1>2, <1>3, <1>4, <2>1, AsideAlone
<1>7. QED
  BY <1>5, <1>6

LEMMA AsideOperation ==
    ASSUME IInv, NEW t \in Handler, Operation(t)
    PROVE  Aside
<1>1. t \in Thread
  BY DEF Thread
<1>2. Only(t)
  BY <1>1, Becoming DEF IInv, Operation, Acquire, FindUpload, Go, FinishOperation, EndOperation,
     Claim, StartFails, Unstarted, TakeRetained, Approve, Approved
<1>3. failures'.early = failures.early /\ failures'.stuck = failures.stuck
  <2>1. CASE StartFails(t)
    BY <2>1 DEF StartFails, IInv, TypeOK, Failures
  <2>2. CASE ~StartFails(t)
    BY <2>2 DEF Operation, Acquire, FindUpload, FinishOperation, Claim, Unstarted,
       TakeRetained, Approve, Approved
  <2>3. QED
    BY <2>1, <2>2
<1>4. disk' = disk
  BY DEF Operation, Acquire, FindUpload, FinishOperation, Claim, StartFails, Unstarted,
     TakeRetained, Approve, Approved
<1>5. ~Removing(t, "rmdir")
  <2>1. CASE Unstarted(t) \/ Approved(t)
    BY <2>1 DEF Unstarted, Approved, Removed, Removing
  <2>2. CASE AllCleaned(t)
    BY <2>2 DEF AllCleaned, Removing
  <2>3. CASE thread[t].at \in {"found", "operating", "claimed", "approving"}
    BY <1>1, <2>3, Serious DEF IInv, Removing
  <2>4. QED
    BY <2>1, <2>2, <2>3 DEF Operation, Acquire, Serves, FindUpload, FinishOperation, Claim,
       StartFails, TakeRetained, Approve, At
<1>6. QED
  BY <1>1, <1>2, <1>3, <1>4, <1>5, AsideAlone

LEMMA AsideHandsOver ==
    ASSUME IInv, NEW t \in Handler, StartWorker(t)
    PROVE  Aside
<1>1. t \in Thread /\ Worker \in Thread /\ InOperation(t) /\ At(t, "claimed")
  BY DEF Thread, StartWorker, InOperation, At
<1>2. thread[t].removal = None /\ thread[Worker].removal = None
  <2>1. thread[Worker] = Idle
    BY <1>1, WorkerIdle DEF IInv, TypeOK
  <2>2. QED
    BY <1>1, <2>1, Serious, IdleFields DEF IInv, At
<1>3. \A s \in Thread \ {t, Worker} : thread'[s] = thread[s]
  BY DEF StartWorker, IInv, TypeOK
<1>4. QED
  BY <1>2, <1>3 DEF Aside, StartWorker, Removing

LEMMA AsideAudit ==
    ASSUME IInv, NEW t \in Thread, Audit(t)
    PROVE  Aside
<1>1. t = Worker
  BY DEF Audit
<1>2. Only(t)
  BY <1>1, Becoming DEF IInv, Audit, Retain, Go, Discard, Discarded, FinishAudit, EndOperation
<1>3. UNCHANGED <<disk, failures>>
  BY DEF Audit, Retain, Discard, Discarded, FinishAudit
<1>4. ~Removing(t, "rmdir")
  <2>1. CASE Discarded
    BY <1>1, <2>1 DEF Discarded, Removed, Removing
  <2>2. CASE thread[t].at \in {"running", "retained"}
    BY <2>2, Serious DEF IInv, Removing
  <2>3. QED
    BY <1>1, <2>1, <2>2 DEF Audit, Retain, Discard, FinishAudit, At
<1>5. QED
  BY <1>2, <1>3, <1>4, AsideAlone

LEMMA AsideClean ==
    ASSUME IInv, NEW t \in Thread, Expire(t) \/ Sweep(t) \/ Refuse(t)
    PROVE  Aside
<1>1. CASE Expire(t)
  <2>1. Only(t)
    BY <1>1, ExpireEffect DEF IInv
  <2>2. thread[t].removal = None
    BY <1>1, IdleFields DEF Expire, AllCleaned, IInv, TypeOK
  <2>3. QED
    BY <1>1, <2>1, <2>2, AsideAlone DEF Expire, Reap, Removing
<1>2. CASE Sweep(t)
  <2>1. Only(t)
    BY <1>2, NextRemovalEffect, DoneRemovingEffect DEF IInv, Sweep
  <2>2. ~Removing(t, "rmdir")
    BY <1>2 DEF Sweep, NextRemoval, Cleaned, Removed, Removing
  <2>3. QED
    BY <1>2, <2>1, <2>2, AsideAlone DEF Sweep, NextRemoval, Cleaned
<1>3. CASE Refuse(t)
  <2>1. Only(t)
    BY <1>3, IdleEffect DEF IInv, Refuse
  <2>2. thread[t].removal = None
    BY <1>3, Serious DEF Refuse, AllCleaned, IInv, At
  <2>3. QED
    BY <1>3, <2>1, <2>2, AsideAlone DEF Refuse, Removing
<1>4. QED
  BY <1>1, <1>2, <1>3

\* A removal goes on: it passes the duty on to its next attempt, removes the
\* directory or gives it up.
LEMMA WatchedRemoval ==
    ASSUME IInv, Watched, NEW t \in Thread, RemovalStep(t)
    PROVE  Watched'
<1> DEFINE u == thread[t].removal.of
<1>1. /\ thread[t].removal # None /\ u \in ToRemove(t)
      /\ Removing(t, "unlink") \/ Removing(t, "rmdir")
  BY DEF RemovalStep, Unlink, UnlinkVanished, RemoveDirectory, RemovalFails, Removing, ToRemove
<1>2. u \in Upload /\ disk[u] # "unused"
  BY <1>1, OwnTypes DEF IInv, Ownership, RemovalOwned
<1>3. Only(t) /\ thread'[t].removal # None /\ thread'[t].removal.of = u
  BY <1>1, ProceedEffect, RemovalFailsEffect
     DEF RemovalStep, Unlink, UnlinkVanished, RemoveDirectory, RemovalFails, IInv
<1>4. \A v \in Upload : v # u => disk'[v] = disk[v]
  BY <1>2 DEF RemovalStep, Unlink, UnlinkVanished, RemoveDirectory, RemovalFails, IInv, TypeOK
<1>5. /\ failures.stuck \subseteq failures'.stuck
      /\ \A v \in Upload : v # u => (v \in failures'.early => v \in failures.early)
  <2>1. failures \in Failures
    BY DEF IInv, TypeOK
  <2>2. CASE UnlinkVanished(t)
    BY <2>1, <2>2 DEF UnlinkVanished, Failures
  <2>3. CASE RemovalFails(t)
    BY <2>1, <2>3 DEF RemovalFails, Failures
  <2>4. QED
    BY <2>2, <2>3 DEF RemovalStep, Unlink, RemoveDirectory
<1>6. ASSUME NEW v \in Upload, v # u
      PROVE  /\ disk'[v] = "empty" => v \in failures'.stuck \/ \E s \in Thread : Remover(s, v)'
             /\ v \in failures'.early => disk'[v] \in {"empty", "gone"}
  <2>1. \A s \in Thread : Remover(s, v) => Remover(s, v)'
    BY <1>3, <1>6 DEF Only, Remover, Removing
  <2>2. QED
    BY <1>4, <1>5, <1>6, <2>1 DEF Watched
<1>7. \A s \in Thread : s # t => (Remover(s, u) => Remover(s, u)')
  BY <1>3 DEF Only, Remover, Removing
<1> DEFINE Fine == /\ disk'[u] = "empty" =>
                         u \in failures'.stuck \/ \E s \in Thread : Remover(s, u)'
                   /\ u \in failures'.early => disk'[u] \in {"empty", "gone"}
<1>8. ASSUME Fine
      PROVE  Watched'
  <2> SUFFICES ASSUME NEW v \in Upload
               PROVE  /\ disk'[v] = "empty" =>
                            v \in failures'.stuck \/ \E s \in Thread : Remover(s, v)'
                      /\ v \in failures'.early => disk'[v] \in {"empty", "gone"}
    BY DEF Watched
  <2>1. CASE v = u
    BY <1>3, <1>8, <2>1
  <2>2. CASE v # u
    BY <1>6, <2>2
  <2>3. QED
    BY <2>1, <2>2
<1>9. CASE Unlink(t)
  <2>1. thread'[t].removal.step = "rmdir" /\ disk'[u] = "empty"
    BY <1>1, <1>2, <1>9, ProceedEffect DEF Unlink, IInv, TypeOK
  <2>2. Remover(t, u)'
    BY <1>3, <2>1 DEF Remover, Removing
  <2>3. QED
    BY <1>8, <2>1, <2>2
<1>10. CASE UnlinkVanished(t)
  <2>1. Removing(t, "unlink") /\ disk' = disk /\ disk[u] \in {"empty", "gone"}
        /\ failures'.stuck = failures.stuck
    BY <1>2, <1>10 DEF UnlinkVanished, IInv, TypeOK, Failures
  <2>2. ~Remover(t, u)
    BY <2>1 DEF Remover, Removing
  <2>3. QED
    BY <1>2, <1>7, <1>8, <2>1, <2>2 DEF Watched
<1>11. CASE RemoveDirectory(t)
  <2>1. disk'[u] = "gone"
    BY <1>2, <1>11 DEF RemoveDirectory, IInv, TypeOK
  <2>2. QED
    BY <1>8, <2>1
<1>12. CASE RemovalFails(t)
  <2>1. disk' = disk /\ failures'.early = failures.early
    BY <1>12 DEF RemovalFails, IInv, TypeOK, Failures
  <2>2. disk[u] = "empty" => u \in failures'.stuck \/ Remover(t, u)'
    <3>1. CASE thread[t].removal.attempts > 1
      <4>1. thread'[t].removal.step = Listed(u)
        BY <1>12, <3>1, RetryEffect DEF IInv
      <4>2. QED
        BY <1>3, <4>1 DEF Listed, Remover, Removing
    <3>2. CASE ~(thread[t].removal.attempts > 1)
      BY <1>2, <1>12, <3>2 DEF RemovalFails, IInv, TypeOK, Failures
    <3>3. QED
      BY <3>1, <3>2
  <2>3. QED
    BY <1>2, <1>8, <2>1, <2>2 DEF Watched
<1>13. QED
  BY <1>9, <1>10, <1>11, <1>12 DEF RemovalStep

LEMMA WatchedInvariance == Spec => []Watched
<1>1. Init => Watched
  BY DEF Init, NoFailures, Watched
<1>2. IInv /\ Watched /\ [Next]_vars => Watched'
  <2> SUFFICES ASSUME IInv, Watched, [Next]_vars
               PROVE  Watched'
    OBVIOUS
  <2>1. CASE UNCHANGED vars
    BY <2>1 DEF vars, Watched, Remover, Removing
  <2>2. CASE Next
    <3>1. PICK t \in Thread :
             \/ Expire(t)
             \/ Sweep(t)
             \/ RemovalStep(t)
             \/ t \in Handler /\ (Refuse(t) \/ UploadStep(t) \/ Operation(t) \/ StartWorker(t))
             \/ Audit(t)
      BY <2>2, Steps
    <3>2. RemovalStep(t) \/ Aside
      BY <3>1, AsideClean, AsideUpload, AsideOperation, AsideHandsOver, AsideAudit
    <3>3. QED
      BY <3>2, WatchedRemoval, WatchedAside
  <2>3. QED
    BY <2>1, <2>2
<1>3. QED
  BY <1>1, <1>2, Invariance, PTL DEF Spec

\* Every directory on disk is known to a table or to a thread, whatever fails
\* and whoever removes it at the same time, so that its deletion is attempted
\* again; but for one that a thread reported as removed while another was at it
\* and that a thread then gave up.
THEOREM DirectoriesAreKnown == Spec => []NoUploadLost
<1>1. Kept /\ Watched => NoUploadLost
  <2> SUFFICES ASSUME Kept, Watched, NEW u \in Upload, Exists(u)
               PROVE  u \in Tracked \/ Held(u) \/ MayBeLost(u)
    BY DEF NoUploadLost
  <2>1. CASE u \notin failures.early
    BY <2>1 DEF Kept, NoneForgotten, Present
  <2>2. CASE u \in failures.early
    <3>1. disk[u] = "empty"
      BY <2>2 DEF Watched, Exists
    <3>2. CASE u \in failures.stuck
      BY <2>2, <3>2 DEF MayBeLost
    <3>3. CASE \E t \in Thread : Remover(t, u)
      BY <3>3 DEF Remover, Removing, Held
    <3>4. QED
      BY <3>1, <3>2, <3>3 DEF Watched
  <2>3. QED
    BY <2>1, <2>2
<1>2. QED
  BY <1>1, KeptInvariance, WatchedInvariance, PTL

---------------------------------------------------------------------------
(* How many directories there are. *)

\* Threads whose upload is in no table, from its receipt or its claim to its
\* removal.
Counted(t) == \E place \in {"staging", "reject", "unstarted", "claimed", "running", "discard"} :
                 At(t, place)

Room == Tracked \cup {u \in Upload : \E t \in Thread : Counted(t) /\ thread[t].upload = u}

\* Reservations for a workbook that has not been received.
Awaiting == {t \in Handler : At(t, "receive") /\ thread[t].request = "workbook"}

NotStarted == {t \in Handler : At(t, "unstarted")}

Bounded ==
    /\ IsFiniteSet(processing)
    /\ IsFiniteSet(NotStarted)
    /\ Cardinality(NotStarted) <= failures.start
    /\ IsFiniteSet(Room)
    /\ Cardinality(Room) + Cardinality(Awaiting) <= MaxUploads + 1 + failures.start

LEMMA AwaitingReserved ==
    ASSUME IInv, Bounded
    PROVE  /\ Awaiting \subseteq processing /\ IsFiniteSet(Awaiting)
           /\ Cardinality(Awaiting) \in Nat /\ Cardinality(Room) \in Nat
           /\ Cardinality(NotStarted) \in Nat /\ failures.start \in Nat
<1>1. Awaiting \subseteq processing
  BY DEF Awaiting, Thread, IInv, ShapeOK, WellFormed, InProcessing
<1>2. IsFiniteSet(Awaiting)
  BY <1>1, FS_Subset DEF Bounded
<1>3. failures.start \in Nat
  BY ServerAssumption DEF IInv, TypeOK, Failures
<1>4. QED
  BY <1>1, <1>2, <1>3, FS_CardinalityType DEF Bounded

LEMMA RoomShrinks ==
    ASSUME IInv, Bounded, Room' \subseteq Room, Awaiting' \subseteq Awaiting,
           NotStarted' \subseteq NotStarted, processing' \subseteq processing,
           failures'.start = failures.start
    PROVE  Bounded'
<1>1. IsFiniteSet(processing') /\ IsFiniteSet(NotStarted') /\ IsFiniteSet(Room')
  BY FS_Subset DEF Bounded
<1>2. /\ Cardinality(NotStarted') <= Cardinality(NotStarted)
      /\ Cardinality(Room') <= Cardinality(Room)
      /\ Cardinality(Awaiting') <= Cardinality(Awaiting)
  BY AwaitingReserved, FS_Subset DEF Bounded
<1>3. /\ Cardinality(NotStarted') \in Nat /\ Cardinality(Room') \in Nat
      /\ Cardinality(Awaiting') \in Nat
  BY <1>1, AwaitingReserved, FS_Subset, FS_CardinalityType
<1>4. QED
  BY <1>1, <1>2, <1>3, AwaitingReserved, ServerAssumption DEF Bounded

LEMMA CountedInRoom ==
    ASSUME IInv, NEW t \in Thread, Counted(t)
    PROVE  thread[t].upload \in Room
<1>1. thread[t].upload \in Upload
  BY DEF Counted, IInv, ShapeOK, WellFormed, HasUpload, RemovesItsUpload, At
<1>2. QED
  BY <1>1 DEF Room

\* A thread that neither reserves nor receives nor fails to start an audit.
LEMMA RoomStep ==
    ASSUME IInv, Bounded, NEW t \in Thread, Only(t), Tracked' \subseteq Room,
           Counted(t)' => thread'[t].upload \in Room,
           ~At(t, "receive")', At(t, "unstarted")' => At(t, "unstarted"),
           processing' \subseteq processing, failures'.start = failures.start
    PROVE  Bounded'
<1>1. ASSUME NEW s \in Thread, s # t
      PROVE  /\ thread'[s] = thread[s] /\ (Counted(s)' <=> Counted(s))
             /\ At(s, "receive")' <=> At(s, "receive")
             /\ At(s, "unstarted")' <=> At(s, "unstarted")
  BY <1>1 DEF Only, Counted, At
<1>2. Room' \subseteq Room
  BY <1>1 DEF Room
<1>3. Awaiting' \subseteq Awaiting
  BY <1>1 DEF Awaiting, Thread
<1>4. NotStarted' \subseteq NotStarted
  BY <1>1 DEF NotStarted, Thread
<1>5. QED
  BY <1>2, <1>3, <1>4, RoomShrinks

LEMMA UnionBound ==
    ASSUME NEW S, NEW T, IsFiniteSet(S), IsFiniteSet(T)
    PROVE  /\ IsFiniteSet(S \cup T)
           /\ Cardinality(S \cup T) <= Cardinality(S) + Cardinality(T)
<1>1. IsFiniteSet(S \cup T)
      /\ Cardinality(S \cup T) = Cardinality(S) + Cardinality(T) - Cardinality(S \cap T)
  BY FS_Union
<1>2. IsFiniteSet(S \cap T)
  BY FS_Subset
<1>3. QED
  BY <1>1, <1>2, FS_CardinalityType

LEMMA OneMore ==
    ASSUME NEW S, NEW x, IsFiniteSet(S)
    PROVE  /\ IsFiniteSet(S \cup {x})
           /\ Cardinality(S \cup {x}) <= Cardinality(S) + 1
           /\ Cardinality(S \cup {x}) \in Nat
<1>1. IsFiniteSet(S \cup {x})
      /\ Cardinality(S \cup {x}) = IF x \in S THEN Cardinality(S) ELSE Cardinality(S) + 1
  BY FS_AddElement
<1>2. Cardinality(S) \in Nat
  BY FS_CardinalityType
<1>3. QED
  BY <1>1, <1>2

LEMMA DisjointUnion ==
    ASSUME NEW S, NEW T, IsFiniteSet(S), IsFiniteSet(T), S \cap T = {}
    PROVE  Cardinality(S \cup T) = Cardinality(S) + Cardinality(T)
<1>1. Cardinality(S \cup T) = Cardinality(S) + Cardinality(T) - Cardinality(S \cap T)
  BY FS_Union
<1>2. Cardinality(S \cap T) = 0
  BY FS_EmptySet
<1>3. QED
  BY <1>1, <1>2, FS_CardinalityType

LEMMA RoomUploads ==
    ASSUME NEW S, S \subseteq Thread, IsFiniteSet(S)
    PROVE  LET T == {thread[t].upload : t \in S}
           IN  IsFiniteSet(T) /\ Cardinality(T) <= Cardinality(S)
<1> DEFINE T == {thread[t].upload : t \in S}
           f == [t \in S |-> thread[t].upload]
<1>1. f \in Surjection(S, T)
  BY DEF Surjection
<1>2. QED
  BY <1>1, FS_Surjection

\* Whoever has an upload outside the tables holds a reservation, failed to start
\* its audit, or works under the operation lock.
LEMMA RoomCount ==
    ASSUME IInv, Bounded, IsFiniteSet(Tracked)
    PROVE  Cardinality(Room) + Cardinality(Awaiting)
              <= Cardinality(Tracked) + Cardinality(processing) + 1 + Cardinality(NotStarted)
<1> DEFINE Preparing == {t \in Handler : At(t, "staging") \/ At(t, "reject")}
           Auditing == {t \in Thread : \E place \in {"claimed", "running", "discard"} : At(t, place)}
           UploadsOf(S) == {thread[t].upload : t \in S}
<1>1. Preparing \cup Awaiting \subseteq processing /\ Preparing \cap Awaiting = {}
  BY DEF Awaiting, Thread, IInv, ShapeOK, WellFormed, InProcessing, At
<1>2. /\ IsFiniteSet(Preparing) /\ IsFiniteSet(Awaiting)
      /\ Cardinality(Preparing) + Cardinality(Awaiting) <= Cardinality(processing)
      /\ Cardinality(Preparing) \in Nat /\ Cardinality(Awaiting) \in Nat
      /\ Cardinality(processing) \in Nat
  <2>1. IsFiniteSet(Preparing) /\ IsFiniteSet(Awaiting) /\ IsFiniteSet(processing)
    BY <1>1, FS_Subset DEF Bounded
  <2>2. Cardinality(Preparing \cup Awaiting) = Cardinality(Preparing) + Cardinality(Awaiting)
    BY <1>1, <2>1, DisjointUnion
  <2>3. Cardinality(Preparing \cup Awaiting) <= Cardinality(processing)
    BY <1>1, <2>1, FS_Subset
  <2>4. QED
    BY <2>1, <2>2, <2>3, FS_CardinalityType
<1>3. IsFiniteSet(UploadsOf(Auditing)) /\ Cardinality(UploadsOf(Auditing)) <= 1
  <2>1. \A s, t \in Auditing : s = t
    BY DEF IInv, LockHandedOver, InOperation
  <2>2. CASE Auditing = {}
    <3>1. UploadsOf(Auditing) = {}
      BY <2>2
    <3>2. QED
      BY <3>1, FS_EmptySet
  <2>3. CASE Auditing # {}
    <3>1. PICK t \in Auditing : TRUE
      BY <2>3
    <3>2. UploadsOf(Auditing) = {thread[t].upload}
      BY <2>1, <3>1
    <3>3. IsFiniteSet({thread[t].upload}) /\ Cardinality({thread[t].upload}) = 1
      BY FS_Singleton, Zenon
    <3>4. QED
      BY <3>2, <3>3
  <2>4. QED
    BY <2>2, <2>3
<1>4. /\ IsFiniteSet(UploadsOf(Preparing)) /\ Cardinality(UploadsOf(Preparing)) <= Cardinality(Preparing)
      /\ IsFiniteSet(UploadsOf(NotStarted)) /\ Cardinality(UploadsOf(NotStarted)) <= Cardinality(NotStarted)
  <2>1. Preparing \subseteq Thread /\ NotStarted \subseteq Thread /\ IsFiniteSet(NotStarted)
    BY DEF Thread, NotStarted, Bounded
  <2>2. QED
    BY <1>2, <2>1, RoomUploads
<1>5. Room \subseteq Tracked \cup UploadsOf(Preparing) \cup UploadsOf(NotStarted) \cup UploadsOf(Auditing)
  <2>1. ASSUME NEW t \in Thread, Counted(t)
        PROVE  t \in Preparing \cup NotStarted \cup Auditing
    BY <2>1 DEF Counted, NotStarted, Thread, IInv, ShapeOK, WellFormed, At
  <2>2. QED
    BY <2>1 DEF Room
<1> DEFINE A == Tracked
           B == UploadsOf(Preparing)
           C == UploadsOf(NotStarted)
           D == UploadsOf(Auditing)
<1>6. /\ IsFiniteSet(A \cup B \cup C \cup D)
      /\ Cardinality(A \cup B \cup C \cup D)
            <= Cardinality(A) + Cardinality(B) + Cardinality(C) + Cardinality(D)
  <2>1. IsFiniteSet(A) /\ IsFiniteSet(B) /\ IsFiniteSet(C) /\ IsFiniteSet(D)
    BY <1>3, <1>4
  <2> HIDE DEF A, B, C, D
  <2>2. /\ IsFiniteSet(A \cup B)
        /\ Cardinality(A \cup B) <= Cardinality(A) + Cardinality(B)
    BY <2>1, UnionBound
  <2>3. /\ IsFiniteSet(A \cup B \cup C)
        /\ Cardinality(A \cup B \cup C) <= Cardinality(A \cup B) + Cardinality(C)
    BY <2>1, <2>2, UnionBound
  <2>4. /\ IsFiniteSet(A \cup B \cup C \cup D)
        /\ Cardinality(A \cup B \cup C \cup D) <= Cardinality(A \cup B \cup C) + Cardinality(D)
    BY <2>1, <2>3, UnionBound
  <2>5. QED
    BY <2>1, <2>2, <2>3, <2>4, FS_CardinalityType
<1>7. Cardinality(Room) <= Cardinality(A \cup B \cup C \cup D)
  BY <1>5, <1>6, FS_Subset
<1>8. /\ Cardinality(A) \in Nat /\ Cardinality(B) \in Nat /\ Cardinality(C) \in Nat
      /\ Cardinality(D) \in Nat /\ Cardinality(NotStarted) \in Nat /\ Cardinality(Room) \in Nat
      /\ Cardinality(A \cup B \cup C \cup D) \in Nat
  BY <1>3, <1>4, <1>6, FS_CardinalityType DEF Bounded
<1> DEFINE a == Cardinality(A)
           b == Cardinality(B)
           c == Cardinality(C)
           d == Cardinality(D)
<1>9. /\ Cardinality(Room) <= a + b + c + d /\ d <= 1
      /\ b <= Cardinality(Preparing) /\ c <= Cardinality(NotStarted)
      /\ a \in Nat /\ b \in Nat /\ c \in Nat /\ d \in Nat
  BY <1>3, <1>4, <1>6, <1>7, <1>8
<1>10. a = Cardinality(Tracked)
  OBVIOUS
<1> HIDE DEF a, b, c, d, A, B, C, D, Preparing, Auditing, UploadsOf
<1>11. QED
  BY <1>2, <1>8, <1>9, <1>10

LEMMA BoundedReserve ==
    ASSUME IInv, Bounded, NEW t \in Handler, NEW r \in Request, NEW v \in Upload \cup {None},
           Reserve(t, r, v)
    PROVE  Bounded'
<1>1. t \in Thread
  BY DEF Thread
<1>2. Only(t) /\ thread'[t].at = "receive" /\ thread'[t].request = r
  BY <1>1, ServingEffect DEF IInv, Reserve
<1>3. /\ At(t, "clean") /\ UNCHANGED <<tables, failures>> /\ processing' = processing \cup {t}
      /\ r = "workbook" => Cardinality(Tracked) + Cardinality(processing) < MaxUploads
  BY DEF Reserve, Serves, AllCleaned
<1>4. \A s \in Thread \ {t} : thread'[s] = thread[s]
  BY <1>2 DEF Only
<1>5. Room' = Room /\ NotStarted' = NotStarted
  <2>1. Tracked' = Tracked
    BY <1>3 DEF tables, Tracked
  <2>2. \A s \in Thread : /\ Counted(s)' <=> Counted(s)
                          /\ Counted(s) => thread'[s].upload = thread[s].upload
                          /\ At(s, "unstarted")' <=> At(s, "unstarted")
    BY <1>2, <1>3, <1>4 DEF Counted, At
  <2>3. QED
    BY <2>1, <2>2 DEF Room, NotStarted, Thread
<1>6. Awaiting' = IF r = "workbook" THEN Awaiting \cup {t} ELSE Awaiting
  BY <1>1, <1>2, <1>3, <1>4 DEF Awaiting, Thread, At
<1>7. IsFiniteSet(processing')
  BY <1>3, FS_AddElement DEF Bounded
<1>8. CASE r = "workbook"
  <2>1. IsFiniteSet(Tracked)
    BY FS_Subset DEF Bounded, Room
  <2>2. Cardinality(Room) + Cardinality(Awaiting)
           <= Cardinality(Tracked) + Cardinality(processing) + 1 + Cardinality(NotStarted)
    BY <2>1, RoomCount
  <2>3. t \notin Awaiting /\ Cardinality(Awaiting') = Cardinality(Awaiting) + 1
    BY <1>3, <1>6, <1>8, AwaitingReserved, FS_AddElement DEF Awaiting, At
  <2>4. Cardinality(Tracked) \in Nat /\ Cardinality(processing) \in Nat
    BY <2>1, FS_CardinalityType DEF Bounded
  <2>5. Cardinality(Room) + Cardinality(Awaiting') <= MaxUploads + 1 + failures.start
    BY <1>3, <1>8, <2>2, <2>3, <2>4, AwaitingReserved, ServerAssumption DEF Bounded
  <2>6. QED
    BY <1>3, <1>5, <1>7, <2>5 DEF Bounded
<1>9. CASE r # "workbook"
  BY <1>3, <1>5, <1>6, <1>7, <1>9 DEF Bounded
<1>10. QED
  BY <1>8, <1>9

LEMMA BoundedReceive ==
    ASSUME IInv, Bounded, NEW t \in Handler, ReceiveWorkbook(t)
    PROVE  Bounded'
<1>1. t \in Thread /\ t \in Awaiting /\ UNCHANGED <<tables, processing, failures>>
  BY DEF Thread, Awaiting, ReceiveWorkbook
<1>2. PICK u \in Upload : Only(t) /\ thread'[t].at = "staging" /\ thread'[t].upload = u
  BY <1>1, ReceiveWorkbookEffect DEF IInv
<1>3. \A s \in Thread \ {t} : thread'[s] = thread[s]
  BY <1>2 DEF Only
<1>4. Room' \subseteq Room \cup {u}
  BY <1>1, <1>2, <1>3 DEF Room, Tracked, tables, Counted, At
<1>5. Awaiting' = Awaiting \ {t}
  BY <1>1, <1>2, <1>3 DEF Awaiting, Thread, At
<1>6. NotStarted' = NotStarted
  BY <1>1, <1>2, <1>3 DEF Awaiting, NotStarted, Thread, At
<1>7. Cardinality(Awaiting') = Cardinality(Awaiting) - 1
  BY <1>1, <1>5, AwaitingReserved, FS_RemoveElement
<1>8. /\ IsFiniteSet(Room \cup {u})
      /\ Cardinality(Room \cup {u}) <= Cardinality(Room) + 1
      /\ Cardinality(Room \cup {u}) \in Nat
  BY OneMore DEF Bounded
<1>9. IsFiniteSet(Room') /\ Cardinality(Room') <= Cardinality(Room \cup {u}) /\ Cardinality(Room') \in Nat
  BY <1>4, <1>8, FS_Subset, FS_CardinalityType
<1>10. QED
  BY <1>1, <1>6, <1>7, <1>8, <1>9, AwaitingReserved, ServerAssumption DEF Bounded

LEMMA BoundedStartFails ==
    ASSUME IInv, Bounded, NEW t \in Handler, StartFails(t)
    PROVE  Bounded'
<1>1. t \in Thread /\ UNCHANGED <<tables, processing>> /\ Counted(t)
  BY DEF Thread, StartFails, Counted
<1>2. failures'.start = failures.start + 1
  BY DEF StartFails, IInv, TypeOK
<1>3. Only(t) /\ thread'[t].at = "unstarted" /\ thread'[t].upload = thread[t].upload
  BY <1>1, GiveUpEffect DEF IInv, KeepsRequest
<1>4. \A s \in Thread \ {t} : thread'[s] = thread[s]
  BY <1>3 DEF Only
<1>5. Room' \subseteq Room
  <2>1. Tracked' = Tracked
    BY <1>1 DEF tables, Tracked
  <2>2. \A s \in Thread : Counted(s)' => Counted(s) /\ thread'[s].upload = thread[s].upload
    BY <1>1, <1>3, <1>4 DEF Counted, At
  <2>3. QED
    BY <2>1, <2>2 DEF Room
<1>6. Awaiting' \subseteq Awaiting
  BY <1>3, <1>4 DEF Awaiting, Thread, At
<1>7. NotStarted' \subseteq NotStarted \cup {t}
  BY <1>4 DEF NotStarted, Thread, At
<1>8. /\ IsFiniteSet(NotStarted \cup {t})
      /\ Cardinality(NotStarted \cup {t}) <= Cardinality(NotStarted) + 1
      /\ Cardinality(NotStarted \cup {t}) \in Nat
  BY OneMore DEF Bounded
<1>9. /\ IsFiniteSet(NotStarted') /\ Cardinality(NotStarted') <= Cardinality(NotStarted \cup {t})
      /\ Cardinality(NotStarted') \in Nat
  BY <1>7, <1>8, FS_Subset, FS_CardinalityType
<1>10. /\ IsFiniteSet(Room') /\ Cardinality(Room') <= Cardinality(Room) /\ Cardinality(Room') \in Nat
       /\ Cardinality(Awaiting') <= Cardinality(Awaiting) /\ Cardinality(Awaiting') \in Nat
  BY <1>5, <1>6, AwaitingReserved, FS_Subset, FS_CardinalityType DEF Bounded
<1>11. QED
  BY <1>1, <1>2, <1>8, <1>9, <1>10, AwaitingReserved, ServerAssumption DEF Bounded

LEMMA BoundedUpload ==
    ASSUME IInv, Bounded, NEW t \in Handler, UploadStep(t)
    PROVE  Bounded'
<1> DEFINE u == thread[t].upload
<1>1. t \in Thread /\ Tracked \subseteq Room
  BY DEF Thread, Room
<1>2. CASE BodyRefused(t) \/ ReleaseProcessing(t)
  <2>1. Only(t) /\ thread'[t].at \in {"release", "idle"}
    BY <1>1, <1>2, GoEffect, IdleEffect DEF BodyRefused, ReleaseProcessing, IInv
  <2>2. Tracked' = Tracked /\ processing' \subseteq processing /\ failures' = failures
    BY <1>2 DEF BodyRefused, ReleaseProcessing, tables, Tracked
  <2>3. QED
    BY <1>1, <2>1, <2>2, RoomStep DEF Counted, At
<1>3. CASE ReceivePolicy(t)
  <2>1. UNCHANGED <<retained, pending, processing, failures>> /\ u \in Upload
    BY <1>1, <1>3 DEF ReceivePolicy, IInv, ShapeOK, WellFormed, HasUpload, At
  <2>2. CASE uploads[u] = "staged"
    <3>1. Only(t) /\ thread'[t].at = "staging" /\ thread'[t].upload = u
      BY <1>1, <1>3, <2>2, GoEffect DEF ReceivePolicy, IInv, KeepsRequest
    <3>2. u \in Tracked
      BY <2>1, <2>2, NoneIsNothing DEF Tracked
    <3>3. Tracked' \subseteq Tracked
      BY <1>3, <2>1, <2>2 DEF ReceivePolicy, Tracked, IInv, TypeOK
    <3>4. QED
      BY <1>1, <2>1, <3>1, <3>2, <3>3, RoomStep DEF Counted, At
  <2>3. CASE uploads[u] # "staged"
    <3>1. Only(t) /\ thread'[t].at = "release" /\ Tracked' = Tracked
      BY <1>1, <1>3, <2>1, <2>3, GoEffect DEF ReceivePolicy, IInv, Tracked
    <3>2. QED
      BY <1>1, <2>1, <3>1, RoomStep DEF Counted, At
  <2>4. QED
    BY <2>2, <2>3
<1>4. CASE Accept(t) \/ Rejected(t)
  <2>1. Only(t) /\ thread'[t].at = "release" /\ UNCHANGED <<processing, failures>>
    BY <1>1, <1>4, GoEffect, DoneRemovingEffect DEF Accept, Rejected, IInv, At
  <2>2. Counted(t) /\ u \in Room
    BY <1>1, <1>4, CountedInRoom DEF Accept, Rejected, Counted
  <2>3. Tracked' \subseteq Tracked \cup {u}
    <3>1. CASE Accept(t)
      BY <3>1 DEF Accept, Tracked, IInv, TypeOK
    <3>2. CASE Rejected(t)
      BY <1>1, <3>2 DEF Rejected, Dispose, Tracked, IInv, ShapeOK, WellFormed, RemovesItsUpload
    <3>3. QED
      BY <1>4, <3>1, <3>2
  <2>4. QED
    BY <1>1, <2>1, <2>2, <2>3, RoomStep DEF Counted, At
<1>5. CASE Reject(t)
  <2>1. Only(t) /\ thread'[t].at = "reject" /\ thread'[t].upload = u
    BY <1>1, <1>5, RejectEffect DEF IInv, KeepsRequest
  <2>2. u \in Room /\ Tracked' = Tracked /\ UNCHANGED <<processing, failures>>
    BY <1>1, <1>5, CountedInRoom DEF Reject, Counted, tables, Tracked
  <2>3. QED
    BY <1>1, <2>1, <2>2, RoomStep DEF At
<1>6. QED
  BY <1>2, <1>3, <1>4, <1>5, BoundedReserve, BoundedReceive DEF UploadStep

LEMMA BoundedOperation ==
    ASSUME IInv, Bounded, NEW t \in Handler, Operation(t)
    PROVE  Bounded'
<1> DEFINE u == thread[t].upload
<1>1. t \in Thread /\ Tracked \subseteq Room
  BY DEF Thread, Room
<1>2. CASE \E r \in Request, v \in Upload \cup {None} : Acquire(t, r, v)
  <2>1. Only(t) /\ thread'[t].at = "operating"
    BY <1>1, <1>2, ServingEffect DEF IInv, Acquire
  <2>2. Tracked' = Tracked /\ UNCHANGED <<processing, failures>>
    BY <1>2 DEF Acquire, tables, Tracked
  <2>3. QED
    BY <1>1, <2>1, <2>2, RoomStep DEF Counted, At
<1>3. CASE FindUpload(t) \/ FinishOperation(t) \/ TakeRetained(t) \/ Approve(t)
  <2>1. Only(t) /\ thread'[t].at \in {"found", "idle", "approving", "approved"}
    <3>1. CASE FindUpload(t) \/ TakeRetained(t)
      BY <1>1, <3>1, GoEffect DEF IInv, FindUpload, TakeRetained
    <3>2. CASE FinishOperation(t)
      BY <1>1, <3>2, IdleEffect DEF IInv, FinishOperation, EndOperation
    <3>3. CASE Approve(t)
      BY <1>1, <3>3, GiveUpEffect DEF IInv
    <3>4. QED
      BY <1>3, <3>1, <3>2, <3>3
  <2>2. Tracked' = Tracked /\ UNCHANGED <<processing, failures>>
    BY <1>3 DEF FindUpload, FinishOperation, TakeRetained, Approve, tables, Tracked
  <2>3. QED
    BY <1>1, <2>1, <2>2, RoomStep DEF Counted, At
<1>4. CASE Claim(t)
  <2>1. /\ UNCHANGED <<retained, pending, processing, failures>> /\ u \in Upload
        /\ uploads' = [uploads EXCEPT ![u] = None]
    BY <1>1, <1>4 DEF Claim, Unclaimed, IInv, ShapeOK, WellFormed, HasUpload, At
  <2>2. Tracked' \subseteq Tracked
    BY <2>1 DEF Tracked, IInv, TypeOK
  <2>3. CASE uploads[u] = "ready"
    <3>1. Only(t) /\ thread'[t].at = "claimed" /\ thread'[t].upload = u
      BY <1>1, <1>4, <2>3, GoEffect DEF Claim, IInv, KeepsRequest
    <3>2. u \in Tracked
      BY <2>1, <2>3, NoneIsNothing DEF Tracked
    <3>3. QED
      BY <1>1, <2>1, <2>2, <3>1, <3>2, RoomStep DEF At
  <2>4. CASE uploads[u] # "ready"
    <3>1. Only(t) /\ thread'[t].at = "idle"
      BY <1>1, <1>4, <2>4, IdleEffect DEF Claim, IInv, EndOperation
    <3>2. QED
      BY <1>1, <2>1, <2>2, <3>1, RoomStep DEF Counted, At
  <2>5. QED
    BY <2>3, <2>4
<1>5. CASE Unstarted(t) \/ Approved(t)
  <2>1. Only(t) /\ thread'[t].at = "idle" /\ UNCHANGED <<processing, failures>>
    BY <1>1, <1>5, IdleEffect DEF Unstarted, Approved, EndOperation, IInv
  <2>2. u \in Room
    <3>1. CASE Unstarted(t)
      BY <1>1, <3>1, CountedInRoom DEF Unstarted, Counted
    <3>2. CASE Approved(t)
      BY <1>1, <3>2 DEF Approved, Tracked, IInv, Ownership, ReviewOwned, Reviews
    <3>3. QED
      BY <1>5, <3>1, <3>2
  <2>3. Tracked' \subseteq Tracked \cup {u}
    BY <1>1, <1>5 DEF Unstarted, Approved, Dispose, Tracked, IInv, ShapeOK, WellFormed, RemovesItsUpload
  <2>4. QED
    BY <1>1, <2>1, <2>2, <2>3, RoomStep DEF Counted, At
<1>6. QED
  BY <1>2, <1>3, <1>4, <1>5, BoundedStartFails DEF Operation

LEMMA BoundedAudit ==
    ASSUME IInv, Bounded, NEW t \in Thread, Audit(t)
    PROVE  Bounded'
<1> DEFINE u == thread[t].upload
<1>1. t = Worker /\ Tracked \subseteq Room /\ UNCHANGED <<processing, failures>>
  BY DEF Audit, Retain, Discard, Discarded, FinishAudit, Room
<1>2. u \in Room
  <2>1. CASE At(t, "running") \/ At(t, "discard")
    BY <2>1, CountedInRoom DEF Counted
  <2>2. CASE At(t, "retained")
    BY <1>1, <2>2 DEF Tracked, IInv, Ownership, ReviewOwned, Reviews
  <2>3. QED
    BY <2>1, <2>2 DEF Audit, Retain, Discard, Discarded, FinishAudit
<1>3. Tracked' \subseteq Tracked \cup {u}
  BY <1>1 DEF Audit, Retain, Discard, Discarded, FinishAudit, Dispose, Tracked, tables,
     IInv, ShapeOK, WellFormed, RemovesItsUpload
<1>4. Only(t) /\ (thread'[t].at \in {"idle", "retained"}
                  \/ (thread'[t].at = "discard" /\ thread'[t].upload = u))
  <2>1. CASE Retain
    BY <1>1, <2>1, GoEffect DEF Retain, IInv
  <2>2. CASE Discard
    BY <1>1, <2>2, GiveUpEffect DEF IInv, KeepsRequest
  <2>3. CASE Discarded \/ FinishAudit
    BY <1>1, <2>3, IdleEffect DEF Discarded, FinishAudit, EndOperation, IInv
  <2>4. QED
    BY <2>1, <2>2, <2>3 DEF Audit
<1>5. QED
  BY <1>1, <1>2, <1>3, <1>4, RoomStep DEF Counted, At

LEMMA BoundedHandsOver ==
    ASSUME IInv, Bounded, NEW t \in Handler, StartWorker(t)
    PROVE  Bounded'
<1>1. t \in Thread /\ Worker \in Thread /\ t # Worker /\ InOperation(t) /\ Counted(t)
  BY ServerAssumption DEF Thread, StartWorker, InOperation, Counted, At
<1>2. At(Worker, "idle")
  BY <1>1, WorkerIdle DEF IInv
<1>3. /\ thread'[t] = Idle /\ thread'[Worker].at = "running"
      /\ thread'[Worker].upload = thread[t].upload
      /\ \A s \in Thread \ {t, Worker} : thread'[s] = thread[s]
  BY <1>2, ShapeStart DEF IInv
<1>4. UNCHANGED <<tables, processing, failures>> /\ Tracked' = Tracked
  BY DEF StartWorker, tables, Tracked
<1>5. Room' \subseteq Room
  BY <1>1, <1>3, <1>4, IdleFields DEF Room, Counted, At
<1>6. Awaiting' \subseteq Awaiting /\ NotStarted' \subseteq NotStarted
  BY <1>1, <1>3, IdleFields, ServerAssumption DEF Awaiting, NotStarted, Thread, At
<1>7. QED
  BY <1>4, <1>5, <1>6, RoomShrinks

LEMMA BoundedStep ==
    ASSUME IInv, Bounded, NEW t \in Thread,
           Expire(t) \/ Sweep(t) \/ RemovalStep(t) \/ Refuse(t)
    PROVE  Bounded'
<1>1. Tracked \subseteq Room
  BY DEF Room
<1>2. CASE Expire(t)
  <2>1. Only(t) /\ thread'[t].at = "clean"
    BY <1>2, ExpireEffect DEF IInv
  <2>2. Tracked' \subseteq Tracked /\ UNCHANGED <<processing, failures>>
    BY <1>2 DEF Expire, Reap, Expirable, Tracked
  <2>3. QED
    BY <1>1, <2>1, <2>2, RoomStep DEF Counted, At
<1>3. CASE Sweep(t)
  <2>1. Only(t) /\ thread'[t].at = "clean"
    BY <1>3, NextRemovalEffect, DoneRemovingEffect DEF IInv, Sweep, Cleaned
  <2>2. Tracked' \subseteq Tracked /\ UNCHANGED <<processing, failures>>
    BY <1>3 DEF Sweep, NextRemoval, Cleaned, tables, Tracked
  <2>3. QED
    BY <1>1, <2>1, <2>2, RoomStep DEF Counted, At
<1>4. CASE RemovalStep(t)
  <2>1. Only(t) /\ thread'[t].at = thread[t].at /\ KeepsRequest(t)
    BY <1>4, ProceedEffect, RemovalFailsEffect
       DEF RemovalStep, Unlink, UnlinkVanished, RemoveDirectory, RemovalFails, Removing, IInv
  <2>2. thread[t].removal # None
    BY <1>4 DEF RemovalStep, Unlink, UnlinkVanished, RemoveDirectory, RemovalFails, Removing
  <2>3. ~At(t, "receive")
    BY <2>2, Serious DEF IInv, At
  <2>4. Tracked' = Tracked /\ processing' = processing /\ failures'.start = failures.start
    <3>1. failures \in Failures
      BY DEF IInv, TypeOK
    <3>2. failures'.start = failures.start
      BY <1>4, <3>1
         DEF RemovalStep, Unlink, UnlinkVanished, RemoveDirectory, RemovalFails, Failures
    <3>3. QED
      BY <1>4, <3>2 DEF RemovalStep, Unlink, UnlinkVanished, RemoveDirectory, RemovalFails,
         tables, Tracked
  <2>5. Counted(t)' => thread'[t].upload \in Room
    BY <2>1, CountedInRoom DEF Counted, At, KeepsRequest
  <2>6. QED
    BY <1>1, <2>1, <2>3, <2>4, <2>5, RoomStep DEF At
<1>5. CASE Refuse(t)
  <2>1. Only(t) /\ thread'[t].at = "idle"
    BY <1>5, IdleEffect DEF IInv, Refuse
  <2>2. Tracked' = Tracked /\ UNCHANGED <<processing, failures>>
    BY <1>5 DEF Refuse, tables, Tracked
  <2>3. QED
    BY <1>1, <2>1, <2>2, RoomStep DEF Counted, At
<1>6. QED
  BY <1>2, <1>3, <1>4, <1>5

LEMMA BoundedInvariance == Spec => []Bounded
<1>1. Init => Bounded
  <2> SUFFICES ASSUME Init
               PROVE  Bounded
    OBVIOUS
  <2>1. \A t \in Thread : thread[t].at \in {"idle", "clean"}
    <3>1. thread = [t \in Thread |-> IF t = Reaper THEN [Idle EXCEPT !.at = "clean"] ELSE Idle]
      BY DEF Init
    <3>2. [Idle EXCEPT !.at = "clean"].at = "clean"
      BY DEF Idle
    <3>3. QED
      BY <3>1, <3>2, IdleFields
  <2>2. Room = {} /\ Awaiting = {} /\ NotStarted = {} /\ processing = {} /\ failures.start = 0
    BY <2>1 DEF Init, NoFailures, Room, Tracked, Counted, Awaiting, NotStarted, Thread, At
  <2>3. QED
    BY <2>2, FS_EmptySet, ServerAssumption DEF Bounded
<1>2. IInv /\ Bounded /\ [Next]_vars => Bounded'
  <2> SUFFICES ASSUME IInv, Bounded, [Next]_vars
               PROVE  Bounded'
    OBVIOUS
  <2>1. CASE UNCHANGED vars
    <3>1. Room' = Room /\ Awaiting' = Awaiting /\ NotStarted' = NotStarted
      BY <2>1 DEF vars, tables, Room, Tracked, Counted, Awaiting, NotStarted, At
    <3>2. QED
      BY <2>1, <3>1 DEF vars, Bounded
  <2>2. CASE Next
    <3>1. PICK t \in Thread :
             \/ Expire(t)
             \/ Sweep(t)
             \/ RemovalStep(t)
             \/ t \in Handler /\ (Refuse(t) \/ UploadStep(t) \/ Operation(t) \/ StartWorker(t))
             \/ Audit(t)
      BY <2>2, Steps
    <3>2. QED
      BY <3>1, BoundedStep, BoundedUpload, BoundedOperation, BoundedHandsOver, BoundedAudit
  <2>3. QED
    BY <2>1, <2>2
<1>3. QED
  BY <1>1, <1>2, Invariance, PTL DEF Spec

\* The server never keeps more directories than its limit allows, but for the
\* audit that runs, for those that it could not start and for what a thread
\* reported as removed too early, however requests, audits and cleanups
\* interleave and with any number of uploads and handlers.
THEOREM DirectoriesAreBounded == Spec => []UploadsBounded
<1>1. IInv /\ Kept /\ Bounded => UploadsBounded
  <2> SUFFICES ASSUME IInv, Kept, Bounded
               PROVE  UploadsBounded
    OBVIOUS
  <2>1. ASSUME NEW u \in Upload, Present(u)
        PROVE  u \in Room
    <3>1. CASE u \in Tracked
      BY <3>1 DEF Room
    <3>2. ASSUME NEW t \in Thread, HeldBy(t, u)
          PROVE  u \in Room
      <4>1. CASE Counted(t) /\ thread[t].upload = u
        BY <4>1 DEF Room
      <4>2. CASE Reviews(t) /\ thread[t].upload = u
        BY <4>2 DEF Room, Tracked, IInv, Ownership, ReviewOwned
      <4>3. CASE Using(t) /\ thread[t].upload = u
        BY <4>1, <4>2, <4>3 DEF Using, Counted, Reviews
      <4>4. CASE thread[t].removal # None /\ thread[t].removal.of = u /\ At(t, "clean")
        BY <2>1, <4>4 DEF Kept, RemovalKept, ToRemove, Reported, Present, Exists, Room, Tracked
      <4>5. CASE thread[t].removal # None /\ thread[t].removal.of = u /\ ~At(t, "clean")
        <5>1. RemovesItsUpload(t) /\ thread[t].upload = u
          BY <4>5 DEF IInv, ShapeOK, WellFormed
        <5>2. QED
          BY <4>1, <4>2, <5>1 DEF RemovesItsUpload, Counted, Reviews
      <4>6. QED
        BY <3>2, <4>3, <4>4, <4>5 DEF HeldBy
    <3>3. QED
      BY <2>1, <3>1, <3>2 DEF Kept, NoneForgotten, Held, HeldBy
  <2>2. {u \in Upload : Present(u)} \subseteq Room
    BY <2>1
  <2>3. /\ Cardinality({u \in Upload : Present(u)}) <= Cardinality(Room)
        /\ Cardinality({u \in Upload : Present(u)}) \in Nat
    BY <2>2, FS_Subset, FS_CardinalityType DEF Bounded
  <2>4. QED
    BY <2>3, AwaitingReserved, ServerAssumption DEF Bounded, UploadsBounded, Present
<1>2. QED
  BY <1>1, Invariance, KeptInvariance, BoundedInvariance, PTL
=============================================================================
