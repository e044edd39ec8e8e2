---------------------------- MODULE UploadServer ----------------------------
(***************************************************************************)
(* The private uploads of the review server (ui.py make_handler,           *)
(* uploaded_inputs.py).  A workbook is received and staged, a policy is    *)
(* attached to it, one audit claims the pair, a proposed repair keeps it   *)
(* for review, an approval or its age ends it, and its directory is        *)
(* deleted.  Four kinds of threads do this: request handlers, each of      *)
(* which first expires old uploads; the worker of the running audit; and   *)
(* the reaper.  They share the tables of uploads under uploads_lock, the   *)
(* directories on disk, and the operation lock that serializes audits,     *)
(* approvals and verifications.                                            *)
(*                                                                         *)
(* An action is what a thread does under uploads_lock, or one of its       *)
(* operations on a directory or on the operation lock; the release that    *)
(* ends an operation goes with the step before it, since nobody waits for  *)
(* that lock.  Runs, jobs and cleanup keys are known by their upload: an   *)
(* upload has one run at most.                                             *)
(* Bundled benchmark cases hold the operation lock like a verification and *)
(* touch no upload.                                                        *)
(***************************************************************************)
EXTENDS Integers, FiniteSets

CONSTANTS
    Upload,       \* upload ids
    Handler,      \* threads that answer requests
    Reaper, Worker, None,
    MaxUploads,           \* MAX_UPLOADS_PER_SERVER
    MaxProcessing,        \* MAX_CONCURRENT_UPLOAD_PROCESSING
    VanishedChildRaises,  \* shutil.rmtree raises FileNotFoundError for a file
                          \* that another thread unlinked (Python before 3.13)
    MaxRemovalFailures,   \* bound on failing file operations
    MaxStartFailures      \* bound on threads the system refuses to start

Thread == Handler \cup {Reaper, Worker}

Request == {"workbook", "policy", "audit", "approve", "verify"}

\* An attempt to remove the directory of an upload.
Attempt == [of : Upload, attempts : 0 .. 2,
            step : {"unlink", "rmdir", "removed", "stuck"}]

ASSUME ServerAssumption ==
    /\ Reaper # Worker
    /\ {Reaper, Worker} \cap Handler = {}
    /\ None \notin Upload \cup Request \cup Attempt \cup {"staged", "ready"}
    /\ MaxUploads \in Nat \ {0}
    /\ MaxProcessing \in Nat \ {0}
    /\ VanishedChildRaises \in BOOLEAN
    /\ MaxRemovalFailures \in Nat
    /\ MaxStartFailures \in Nat

VARIABLES
    uploads,     \* what is tracked as prepared: "staged", "ready" or None
    retained,    \* kept for the review of the run that proposes a repair
    pending,     \* cleanup_pending_uploads
    processing,  \* the handlers with a reservation in upload_processing
    locked,      \* operation_lock
    disk,        \* the directory of each upload
    thread,      \* what every thread is doing
    failures     \* the failures of the system, and the removals that they spoil

tables == <<uploads, retained, pending>>
vars == <<tables, processing, locked, disk, thread, failures>>

\* early: uploads whose removal was reported while their directory was there;
\* stuck: uploads whose removal was given up.
NoFailures == [removal |-> 0, start |-> 0, early |-> {}, stuck |-> {}]

\* todo: the directories that a cleanup still has to remove; removal: the
\* removal under way.
Idle == [request |-> None, at |-> "idle", upload |-> None, todo |-> {},
         removal |-> None]

Init == /\ uploads = [u \in Upload |-> None]
        /\ retained = {}
        /\ pending = {}
        /\ processing = {}
        /\ locked = FALSE
        /\ disk = [u \in Upload |-> "unused"]
        /\ thread = [[t \in Thread |-> Idle] EXCEPT ![Reaper].at = "clean"]
        /\ failures = NoFailures

At(t, place) == thread[t].at = place

Become(t, record) == thread' = [thread EXCEPT ![t] = record]

Go(t, place) == Become(t, [thread[t] EXCEPT !.at = place])

\* Mutant of Tracked: uploads that wait for their removal are not counted.
TrackedAlive == {u \in Upload : uploads[u] # None} \cup retained

Tracked == {u \in Upload : uploads[u] # None} \cup retained \cup pending

---------------------------------------------------------------------------
(* remove_upload, that is shutil.rmtree, and try_remove_upload around it.  *)
(* Two threads may remove the same directory at once.                      *)

\* An attempt begins with a list of the files; a directory that is not there
\* any more counts as removed.
Listed(u) == CASE disk[u] = "files" -> "unlink"
               [] disk[u] = "empty" -> "rmdir"
               [] OTHER             -> "removed"

Removal(u, attempts) == [of |-> u, step |-> Listed(u), attempts |-> attempts]

Removing(t, step) == /\ thread[t].removal # None
                     /\ thread[t].removal.step = step

Proceed(t, step) == Become(t, [thread[t] EXCEPT !.removal.step = step])

Unlink(t) ==
    /\ Removing(t, "unlink")
    /\ disk[thread[t].removal.of] = "files"
    /\ disk' = [disk EXCEPT ![thread[t].removal.of] = "empty"]
    /\ Proceed(t, "rmdir")
    /\ UNCHANGED <<tables, processing, locked, failures>>

\* remove_upload takes any FileNotFoundError for a directory that is not there
\* any more, also that of a file which another thread unlinked first.
UnlinkVanished(t) ==
    /\ Removing(t, "unlink")
    /\ disk[thread[t].removal.of] # "files"
    /\ Proceed(t, IF VanishedChildRaises THEN "removed" ELSE "rmdir")
    /\ failures' = [failures EXCEPT !.early =
           IF VanishedChildRaises /\ disk[thread[t].removal.of] = "empty"
           THEN @ \cup {thread[t].removal.of} ELSE @]
    /\ UNCHANGED <<tables, processing, locked, disk>>

RemoveDirectory(t) ==
    /\ Removing(t, "rmdir")
    /\ disk' = [disk EXCEPT ![thread[t].removal.of] = "gone"]
    /\ Proceed(t, "removed")
    /\ UNCHANGED <<tables, processing, locked, failures>>

\* Any other error of the system starts the next attempt, if there is one.
NextAttempt(removal) ==
    IF removal.attempts > 1 THEN Removal(removal.of, removal.attempts - 1)
    ELSE [of |-> removal.of, step |-> "stuck", attempts |-> 0]

RemovalFails(t) ==
    /\ Removing(t, "unlink") \/ Removing(t, "rmdir")
    /\ failures.removal < MaxRemovalFailures
    /\ failures' = [failures EXCEPT !.removal = @ + 1, !.stuck =
           IF thread[t].removal.attempts > 1 THEN @
           ELSE @ \cup {thread[t].removal.of}]
    /\ Become(t, [thread[t] EXCEPT !.removal = NextAttempt(@)])
    /\ UNCHANGED <<tables, processing, locked, disk>>

Removed(t) == Removing(t, "removed") \/ Removing(t, "stuck")

\* Mutant of Dispose: a removal that failed is not queued.
DisposeOnce(t) == UNCHANGED pending

\* queue_cleanup, for a directory that could not be removed.
Dispose(t) == pending' = IF Removing(t, "stuck")
                         THEN pending \cup {thread[t].removal.of} ELSE pending

---------------------------------------------------------------------------
(* reap_expired_uploads. *)

\* Mutant of Expirable: an approval may be using its upload.
ExpirableAlways == {u \in Upload : uploads[u] # None} \cup retained

\* What is old enough is expired: prepared uploads whatever happens, those kept
\* for review only while no operation runs.
Expirable == {u \in Upload : uploads[u] # None}
             \cup IF locked THEN {} ELSE retained

\* Any of the uploads may have become older than UPLOAD_TTL_SECONDS.  All of it
\* happens under uploads_lock; the removals follow without it.
Reap(t, aged, record) ==
    /\ aged \subseteq Expirable
    /\ uploads' = [u \in Upload |-> IF u \in aged THEN None ELSE uploads[u]]
    /\ retained' = retained \ aged
    /\ pending' = pending \cup aged
    /\ Become(t, [record EXCEPT !.at = "clean", !.todo = pending'])
    /\ UNCHANGED <<processing, locked, disk, failures>>

NextRemoval(t) ==
    /\ At(t, "clean")
    /\ thread[t].removal = None
    /\ \E u \in thread[t].todo :
         Become(t, [thread[t] EXCEPT !.todo = @ \ {u}, !.removal = Removal(u, 2)])
    /\ UNCHANGED <<tables, processing, locked, disk, failures>>

\* Only what has been removed leaves the table.
Cleaned(t) ==
    /\ At(t, "clean")
    /\ Removed(t)
    /\ pending' = IF Removing(t, "removed")
                  THEN pending \ {thread[t].removal.of} ELSE pending
    /\ Become(t, [thread[t] EXCEPT !.removal = None])
    /\ UNCHANGED <<uploads, retained, processing, locked, disk, failures>>

AllCleaned(t) == At(t, "clean") /\ thread[t].removal = None /\ thread[t].todo = {}

\* The reaper waits when it has nothing left to remove.
ReaperWakes(aged) == AllCleaned(Reaper) /\ Reap(Reaper, aged, Idle)

---------------------------------------------------------------------------
(* do_POST: every request expires old uploads before its path is read. *)

Arrive(h) == At(h, "idle") /\ \E aged \in SUBSET Upload : Reap(h, aged, Idle)

\* A client names an upload whose id it has been told.
Known == {u \in Upload : disk[u] # "unused"}

Target(request) == IF request \in {"workbook", "verify"} THEN {None} ELSE Known

Serves(h, request, u) == /\ AllCleaned(h)
                         /\ thread[h].request = None
                         /\ u \in Target(request)

Serving(place, request, u) ==
    [Idle EXCEPT !.at = place, !.request = request, !.upload = u]

\* The request is malformed, over a rate limit, or finds the server full, the
\* upload not ready or the operation lock taken.
Refuse(h) == /\ AllCleaned(h) \/ At(h, "found")
             /\ Become(h, Idle)
             /\ UNCHANGED <<tables, processing, locked, disk, failures>>

---------------------------------------------------------------------------
(* Workbook and policy uploads. *)

\* reserve_upload_processing: only a new workbook needs room for itself.
Reserve(h, request, u) ==
    /\ request \in {"workbook", "policy"}
    /\ Serves(h, request, u)
    /\ Cardinality(processing) < MaxProcessing
    /\ request = "workbook" =>
           Cardinality(Tracked) + Cardinality(processing) < MaxUploads
    /\ processing' = processing \cup {h}
    /\ Become(h, Serving("receive", request, u))
    /\ UNCHANGED <<tables, locked, disk, failures>>

\* Mutant of BodyRefused: the reservation is not given back.
BodyRefusedEarly(h) == /\ At(h, "receive")
                       /\ Become(h, Idle)
                       /\ UNCHANGED <<tables, processing, locked, disk, failures>>

BodyRefused(h) == /\ At(h, "receive")
                  /\ Go(h, "release")
                  /\ UNCHANGED <<tables, processing, locked, disk, failures>>

ReceiveWorkbook(h) ==
    /\ At(h, "receive")
    /\ thread[h].request = "workbook"
    /\ \E u \in Upload :
         /\ disk[u] = "unused"
         /\ disk' = [disk EXCEPT ![u] = "files"]
         /\ Become(h, [thread[h] EXCEPT !.at = "staging", !.upload = u])
    /\ UNCHANGED <<tables, processing, locked, failures>>

\* The workbook is taken out of the table while its policy is read.
ReceivePolicy(h) ==
    /\ At(h, "receive")
    /\ thread[h].request = "policy"
    /\ LET u == thread[h].upload
       IN  IF uploads[u] = "staged"
           THEN /\ uploads' = [uploads EXCEPT ![u] = None]
                /\ Go(h, "staging")
           ELSE /\ Go(h, "release")
                /\ UNCHANGED uploads
    /\ UNCHANGED <<retained, pending, processing, locked, disk, failures>>

\* The files pass their preflight and are tracked, with a new time of creation.
Accept(h) ==
    /\ At(h, "staging")
    /\ uploads' = [uploads EXCEPT ![thread[h].upload] =
                     IF thread[h].request = "workbook" THEN "staged" ELSE "ready"]
    /\ Go(h, "release")
    /\ UNCHANGED <<retained, pending, processing, locked, disk, failures>>

\* A refused workbook is removed at the first attempt or queued; a refused
\* policy removes its workbook like any other cleanup.
Reject(h) ==
    /\ At(h, "staging")
    /\ Become(h, [thread[h] EXCEPT
           !.at = "reject",
           !.removal = Removal(thread[h].upload,
                               IF thread[h].request = "workbook" THEN 1 ELSE 2)])
    /\ UNCHANGED <<tables, processing, locked, disk, failures>>

Rejected(h) ==
    /\ At(h, "reject")
    /\ Removed(h)
    /\ Dispose(h)
    /\ Become(h, [thread[h] EXCEPT !.at = "release", !.removal = None])
    /\ UNCHANGED <<uploads, retained, processing, locked, disk, failures>>

ReleaseProcessing(h) ==
    /\ At(h, "release")
    /\ processing' = processing \ {h}
    /\ Become(h, Idle)
    /\ UNCHANGED <<tables, locked, disk, failures>>

---------------------------------------------------------------------------
(* Operations.  An audit's handler takes the lock and its worker releases  *)
(* it; every other operation is done by its handler.                       *)

\* An audit of an upload expires old uploads once more.
ReapAgain(h, u) ==
    /\ Serves(h, "audit", u)
    /\ \E aged \in SUBSET Upload : Reap(h, aged, Serving("clean", "audit", u))

FindUpload(h) == /\ AllCleaned(h)
                 /\ thread[h].request = "audit"
                 /\ uploads[thread[h].upload] = "ready"
                 /\ Go(h, "found")
                 /\ UNCHANGED <<tables, processing, locked, disk, failures>>

\* The lock is not waited for.
Acquire(h, request, u) ==
    /\ \/ /\ At(h, "found")
          /\ <<request, u>> = <<"audit", thread[h].upload>>
       \/ /\ request \in {"approve", "verify"}
          /\ Serves(h, request, u)
    /\ ~locked
    /\ locked' = TRUE
    /\ Become(h, Serving("operating", request, u))
    /\ UNCHANGED <<tables, processing, disk, failures>>

\* Mutant of EndOperation: the handler answers and keeps the lock.
EndOperationOnly(t) == Become(t, Idle) /\ UNCHANGED locked

EndOperation(t) == Become(t, Idle) /\ locked' = FALSE

\* The audit is over its rate limit; the approval names no run of this
\* server or fails; the verification is done or fails.
FinishOperation(h) ==
    /\ \/ At(h, "operating")
       \/ At(h, "approving")
    /\ EndOperation(h)
    /\ UNCHANGED <<tables, processing, disk, failures>>

\* Mutant of Unclaimed: the audit leaves the upload where it found it.
UnclaimedLeft(u) == uploads

Unclaimed(u) == [uploads EXCEPT ![u] = None]

\* The upload may have expired or have been claimed since it was found.
Claim(h) ==
    /\ At(h, "operating")
    /\ thread[h].request = "audit"
    /\ LET u == thread[h].upload
       IN  /\ uploads' = Unclaimed(u)
           /\ IF uploads[u] = "ready"
              THEN Go(h, "claimed") /\ UNCHANGED locked
              ELSE EndOperation(h)
    /\ UNCHANGED <<retained, pending, processing, disk, failures>>

StartWorker(h) ==
    /\ At(h, "claimed")
    /\ thread' = [thread EXCEPT ![h] = Idle,
                    ![Worker] = [Idle EXCEPT !.request = "audit", !.at = "running",
                                             !.upload = thread[h].upload]]
    /\ UNCHANGED <<tables, processing, locked, disk, failures>>

\* The lock is released before the upload is removed.
StartFails(h) ==
    /\ At(h, "claimed")
    /\ failures.start < MaxStartFailures
    /\ failures' = [failures EXCEPT !.start = @ + 1]
    /\ locked' = FALSE
    /\ Become(h, [thread[h] EXCEPT !.at = "unstarted",
                                   !.removal = Removal(thread[h].upload, 2)])
    /\ UNCHANGED <<tables, processing, disk>>

Unstarted(h) ==
    /\ At(h, "unstarted")
    /\ Removed(h)
    /\ Dispose(h)
    /\ Become(h, Idle)
    /\ UNCHANGED <<uploads, retained, processing, locked, disk, failures>>

\* _run_audit: a repair is kept for its review.
Retain == /\ At(Worker, "running")
          /\ retained' = retained \cup {thread[Worker].upload}
          /\ Go(Worker, "retained")
          /\ UNCHANGED <<uploads, pending, processing, locked, disk, failures>>

\* No repair is proposed, or the audit fails, even after it kept the upload.
Discard == /\ At(Worker, "running") \/ At(Worker, "retained")
           /\ retained' = retained \ {thread[Worker].upload}
           /\ Become(Worker, [thread[Worker] EXCEPT
                  !.at = "discard", !.removal = Removal(thread[Worker].upload, 2)])
           /\ UNCHANGED <<uploads, pending, processing, locked, disk, failures>>

Discarded == /\ At(Worker, "discard")
             /\ Removed(Worker)
             /\ Dispose(Worker)
             /\ EndOperation(Worker)
             /\ UNCHANGED <<uploads, retained, processing, disk, failures>>

FinishAudit == /\ At(Worker, "retained")
               /\ EndOperation(Worker)
               /\ UNCHANGED <<tables, processing, disk, failures>>

TakeRetained(h) == /\ At(h, "operating")
                   /\ thread[h].request = "approve"
                   /\ thread[h].upload \in retained
                   /\ Go(h, "approving")
                   /\ UNCHANGED <<tables, processing, locked, disk, failures>>

\* approve_agentic_proposal has published the release (ApprovalTransaction).
Approve(h) == /\ At(h, "approving")
              /\ Become(h, [thread[h] EXCEPT !.at = "approved",
                                             !.removal = Removal(thread[h].upload, 2)])
              /\ UNCHANGED <<tables, processing, locked, disk, failures>>

Approved(h) ==
    /\ At(h, "approved")
    /\ Removed(h)
    /\ retained' = retained \ {thread[h].upload}
    /\ Dispose(h)
    /\ EndOperation(h)
    /\ UNCHANGED <<uploads, processing, disk, failures>>

---------------------------------------------------------------------------
RemovalStep(t) == \/ Unlink(t)
                  \/ UnlinkVanished(t)
                  \/ RemoveDirectory(t)
                  \/ RemovalFails(t)

CleanStep(t) == NextRemoval(t) \/ Cleaned(t) \/ RemovalStep(t)

UploadStep(h) == \/ \E r \in Request, u \in Upload \cup {None} : Reserve(h, r, u)
                 \/ BodyRefused(h)
                 \/ ReceiveWorkbook(h)
                 \/ ReceivePolicy(h)
                 \/ Accept(h)
                 \/ Reject(h)
                 \/ Rejected(h)
                 \/ ReleaseProcessing(h)

OperationStep(h) == \/ \E r \in Request, u \in Upload \cup {None} : Acquire(h, r, u)
                    \/ \E u \in Upload : ReapAgain(h, u)
                    \/ FindUpload(h)
                    \/ FinishOperation(h)
                    \/ Claim(h)
                    \/ StartWorker(h)
                    \/ StartFails(h)
                    \/ Unstarted(h)
                    \/ TakeRetained(h)
                    \/ Approve(h)
                    \/ Approved(h)

HandlerStep(h) == \/ CleanStep(h)
                  \/ Refuse(h)
                  \/ UploadStep(h)
                  \/ OperationStep(h)

WorkerStep == RemovalStep(Worker) \/ Retain \/ Discard \/ Discarded \/ FinishAudit

ReaperStep == (\E aged \in SUBSET Upload : ReaperWakes(aged)) \/ CleanStep(Reaper)

Next == \/ \E h \in Handler : Arrive(h) \/ HandlerStep(h)
        \/ WorkerStep
        \/ ReaperStep

\* Every thread goes on.  The reaper wakes up again and again, and finds every
\* upload that stays tracked too old in the end; for one that is kept for its
\* review this says that it does not meet a running operation every time.
Fairness == /\ \A h \in Handler : WF_vars(HandlerStep(h))
            /\ WF_vars(WorkerStep)
            /\ WF_vars(ReaperStep)
            /\ \A u \in Upload :
                  SF_vars(\E aged \in SUBSET Upload : u \in aged /\ ReaperWakes(aged))

Spec == Init /\ [][Next]_vars /\ Fairness

---------------------------------------------------------------------------
(* Properties. *)

Record == [request : Request \cup {None},
           at : {"idle", "clean", "receive", "staging", "reject",
                 "release", "found", "operating", "claimed", "unstarted",
                 "running", "retained", "discard", "approving", "approved"},
           upload : Upload \cup {None},
           todo : SUBSET Upload,
           removal : Attempt \cup {None}]

Failures == [removal : 0 .. MaxRemovalFailures, start : 0 .. MaxStartFailures,
             early : SUBSET Upload, stuck : SUBSET Upload]

\* Every variable has its type, and a thread that is done holds neither a
\* reservation nor anything of its last request.
TypeOK ==
    /\ uploads \in [Upload -> {"staged", "ready", None}]
    /\ retained \subseteq Upload
    /\ pending \subseteq Upload
    /\ processing \subseteq Handler
    /\ locked \in BOOLEAN
    /\ disk \in [Upload -> {"unused", "files", "empty", "gone"}]
    /\ thread \in [Thread -> Record]
    /\ \A t \in Thread : At(t, "idle") => thread[t] = Idle /\ t \notin processing
    /\ failures \in Failures

\* Threads that work on the files of an upload.
Using(t) == \E place \in {"staging", "claimed", "running", "retained", "approving"} :
                At(t, place)

\* Whoever stages, audits or approves an upload has it to itself and finds its
\* directory as it was received, whatever expires meanwhile.
UsersKeepTheirFiles ==
    \A t \in Thread : Using(t) =>
        /\ disk[thread[t].upload] = "files"
        /\ \A s \in Thread \ {t} : Using(s) => thread[s].upload # thread[t].upload

Exists(u) == disk[u] \in {"files", "empty"}

\* A thread works on the files of u or is removing them.
Held(u) == \E t \in Thread : \/ Using(t) /\ thread[t].upload = u
                             \/ thread[t].removal # None /\ thread[t].removal.of = u

\* One thread has reported the removal of u while another was at it, and a
\* thread has given it up.
MayBeLost(u) == u \in failures.early \cap failures.stuck

\* Every directory on disk is known to a table or held by a thread, so that its
\* deletion is attempted until it succeeds.  One exception: of several threads
\* that remove it at once one reported it as removed too early, by which it left
\* the table, and one gave up.
NoUploadLost == \A u \in Upload : Exists(u) => u \in Tracked \/ Held(u) \/ MayBeLost(u)

\* docs/SECURITY.md:46 says of every deletion that fails that it is queued for
\* retries: no upload whose removal was given up is unknown to the server.  The
\* exception of NoUploadLost breaks this.
FailedDeletionsQueued ==
    \A u \in failures.stuck : Exists(u) => u \in Tracked \/ Held(u)

\* A running audit's upload is not counted, so the server keeps one directory
\* more than its limit, and one more for every audit it could not start.  What
\* was reported as removed too early is not counted either.
UploadsBounded ==
    Cardinality({u \in Upload : Exists(u) /\ u \notin failures.early})
        <= MaxUploads + 1 + failures.start

InOperation(t) == \E place \in {"operating", "claimed", "running", "retained", "discard",
                                "approving", "approved"} : At(t, place)

\* The operation lock is taken exactly as long as one thread works under it,
\* through the hand-over from the handler of an audit to its worker.
LockHandedOver ==
    /\ locked <=> \E t \in Thread : InOperation(t)
    /\ \A s, t \in Thread : InOperation(s) /\ InOperation(t) => s = t

\* An upload moves through the phases of its life in one direction: it is
\* audited at most once, and never used again after it has been given up.
PhaseOf(u) ==
    LET at(places) == \E t \in Thread : /\ thread[t].upload = u
                                        /\ \E place \in places : At(t, place)
    IN  CASE disk[u] = "unused" -> "absent"
          [] disk[u] = "gone" -> "gone"
          [] OTHER ->
               IF uploads[u] = "ready" THEN "prepared"
               ELSE IF uploads[u] = "staged" \/ at({"staging"}) THEN "preparing"
               ELSE IF at({"claimed", "running"}) THEN "auditing"
               ELSE IF u \in retained /\ ~at({"approved"}) THEN "review"
               ELSE "given up"

Lifecycle == INSTANCE UploadLifecycle WITH
    phase <- [u \in Upload |-> PhaseOf(u)]

ImplementsLifecycle == Lifecycle!LifecycleSpec

\* No directory stays for ever, whatever fails and whoever still wants it, but
\* for the one exception of NoUploadLost.
EveryUploadDeleted == \A u \in Upload : []<>(~Exists(u) \/ MayBeLost(u))
=============================================================================
