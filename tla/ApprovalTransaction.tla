------------------------- MODULE ApprovalTransaction -------------------------
(***************************************************************************)
(* Publishing an approved proposal (agentic.py approve_agentic_proposal)   *)
(* and serving it (ui.py).  A finished run persists its proposal and its   *)
(* report in the run directory.  Reviewers, each in a process of its own,  *)
(* then try to approve: under an exclusive lock on the run directory they  *)
(* snapshot the inputs, patch and replay a pending copy, and publish the   *)
(* workbook, the report and last the marker approval.json.  The server     *)
(* reads these files without the lock.  The inputs are the user's files,   *)
(* edited at any time.  A process may die at any point; the system then    *)
(* releases its lock and keeps every file as it is.                        *)
(*                                                                         *)
(* Equal hashes stand for equal contents.  Snapshots and pending files     *)
(* carry a fresh transaction id, so they are private to a transaction: they *)
(* are fields of its reviewer's record.                                    *)
(***************************************************************************)
EXTENDS Integers, Sequences

CONSTANTS
    Reviewer,
    Informed,     \* the reviewers that quote the hash of this proposal
    Content,      \* contents of the two input files
    Reviewed,     \* the content whose hashes are in the proposal
    None,
    Unapproved,   \* the report the run itself writes
    AwaitReport,  \* reviewers act only after the run has returned or died
    MaxFaults,    \* bound on failing steps and dying processes
    MaxEdits      \* bound on edits of the inputs

ASSUME ApprovalAssumption ==
    /\ Informed \subseteq Reviewer
    /\ Reviewed \in Content
    /\ None \notin Content
    /\ None \notin Reviewer
    /\ AwaitReport \in BOOLEAN
    /\ MaxFaults \in Nat
    /\ MaxEdits \in Nat

VARIABLES
    inputs,     \* the content of the user's workbook and policy
    run,        \* the artifact the run writes next
    proposal,   \* is proposal.json in the run directory
    files,      \* repaired.xlsx, report.json and approval.json
    lock,       \* who holds .approval.lock
    approver,   \* per reviewer, its approval transaction
    stamp,      \* the clock behind approved_at
    download,   \* the request the server is answering
    served,     \* what each download last returned
    faults, edits

diskVars == <<inputs, run, proposal, files>>
vars == <<diskVars, lock, approver, stamp, download, served, faults, edits>>

\* approval.json, and by its hash approval_hash the report that carries it;
\* the workbook is known by the content it was patched from.
Approval == [actor : Reviewer, stamp : Nat, content : Content]

ASSUME MarkerAssumption == /\ None \notin Approval
                           /\ Unapproved \notin Approval
                           /\ None # Unapproved

Artifact == {"repaired", "report", "approval"}

\* Mutant of PublicationOrder: the marker is published first.
MarkerFirst == <<"approval", "repaired", "report">>

\* The approval manifest is the commit marker and is published last.
PublicationOrder == <<"repaired", "report", "approval">>

NoTransaction == [at |-> "outside", snapshot |-> None, sealed |-> None, next |-> 1]

NoRequest == [at |-> "idle", approval |-> None, report |-> None]

Init == /\ inputs = Reviewed
        /\ run = "proposal"
        /\ proposal = FALSE
        /\ files = [f \in Artifact |-> None]
        /\ lock = None
        /\ approver = [a \in Reviewer |-> NoTransaction]
        /\ stamp = 0
        /\ download = NoRequest
        /\ served = [f \in Artifact |-> None]
        /\ faults = 0
        /\ edits = 0

---------------------------------------------------------------------------
(* The end of the run, and the user. *)

\* run_agentic persists the state of the run and then the proposal.
PersistProposal == /\ run = "proposal"
                   /\ proposal' = TRUE
                   /\ run' = "report"
                   /\ UNCHANGED <<inputs, files, lock, approver, stamp, download,
                                  served, faults, edits>>

\* Only then it writes its own, not approved, report.
PersistReport == /\ run = "report"
                 /\ files' = [files EXCEPT !["report"] = Unapproved]
                 /\ run' = "returned"
                 /\ UNCHANGED <<inputs, proposal, lock, approver, stamp, download,
                                served, faults, edits>>

RunDies == /\ run \in {"proposal", "report"}
           /\ faults < MaxFaults
           /\ faults' = faults + 1
           /\ run' = "dead"
           /\ UNCHANGED <<inputs, proposal, files, lock, approver, stamp, download,
                          served, edits>>

EditInputs == /\ edits < MaxEdits
              /\ edits' = edits + 1
              /\ inputs' \in Content \ {inputs}
              /\ UNCHANGED <<run, proposal, files, lock, approver, stamp, download,
                             served, faults>>

---------------------------------------------------------------------------
(* approve_agentic_proposal, step by step. *)

At(a, place) == approver[a].at = place

Move(a, place) == approver' = [approver EXCEPT ![a].at = place]

\* Mutant of LockFree: the lock file is opened but not locked.
LockFreeAlways == TRUE

LockFree == lock = None

\* The lock is not waited for: a reviewer that finds it taken is refused.
Acquire(a) == /\ At(a, "outside")
              /\ AwaitReport => run \in {"returned", "dead"}
              /\ LockFree
              /\ lock' = a
              /\ Move(a, "locked")
              /\ UNCHANGED <<diskVars, stamp, download, served, faults, edits>>

\* Refused unless the evidence pack is there, nothing is approved yet and the
\* expected hash is that of the proposal.
Check(a) == /\ At(a, "locked")
            /\ Move(a, IF proposal /\ files["approval"] = None /\ a \in Informed
                       THEN "checked" ELSE "leaving")
            /\ UNCHANGED <<diskVars, lock, stamp, download, served, faults, edits>>

CopySnapshot(a) ==
    /\ At(a, "checked")
    /\ approver' = [approver EXCEPT ![a].at = "copied", ![a].snapshot = inputs]
    /\ UNCHANGED <<diskVars, lock, stamp, download, served, faults, edits>>

\* The hashes of the snapshot are those of the proposal, or it is refused.
\* The snapshot is patched into a pending workbook, which is compared with it
\* and replayed, and the approval is sealed with the hash of the result.
Seal(a) ==
    /\ At(a, "copied")
    /\ IF approver[a].snapshot = Reviewed
       THEN /\ stamp' = stamp + 1
            /\ approver' = [approver EXCEPT
                   ![a].at = "publishing",
                   ![a].sealed = [actor |-> a, stamp |-> stamp,
                                  content |-> approver[a].snapshot]]
       ELSE Move(a, "leaving") /\ UNCHANGED stamp
    /\ UNCHANGED <<diskVars, lock, download, served, faults, edits>>

\* One atomic replacement of a published file.
Publish(a) ==
    LET f == PublicationOrder[approver[a].next]
    IN  /\ At(a, "publishing")
        /\ files' = [files EXCEPT ![f] = IF f = "repaired"
                                         THEN approver[a].sealed.content
                                         ELSE approver[a].sealed]
        /\ IF approver[a].next = Len(PublicationOrder)
           THEN Move(a, "leaving")
           ELSE approver' = [approver EXCEPT ![a].next = @ + 1]
        /\ UNCHANGED <<inputs, run, proposal, lock, stamp, download, served,
                       faults, edits>>

\* Mutant of Cleanup: the snapshots stay behind.
CleanupForgotten(a) == [approver EXCEPT ![a].at = "outside"]

\* The finally clause unlinks the snapshots and the pending files.
Cleanup(a) == [approver EXCEPT ![a] = NoTransaction]

Leave(a) == /\ At(a, "leaving")
            /\ approver' = Cleanup(a)
            /\ lock' = None
            /\ UNCHANGED <<diskVars, stamp, download, served, faults, edits>>

\* Reading, patching, replaying or replacing a file fails.
StepFails(a) == /\ approver[a].at \in {"locked", "checked", "copied", "publishing"}
                /\ faults < MaxFaults
                /\ faults' = faults + 1
                /\ Move(a, "leaving")
                /\ UNCHANGED <<diskVars, lock, stamp, download, served, edits>>

\* The process dies; the system closes its lock file.
ReviewerDies(a) == /\ ~At(a, "outside")
                   /\ faults < MaxFaults
                   /\ faults' = faults + 1
                   /\ approver' = [approver EXCEPT ![a] = NoTransaction]
                   /\ lock' = None
                   /\ UNCHANGED <<diskVars, stamp, download, served, edits>>

---------------------------------------------------------------------------
(* The server: _valid_approval_commit reads one file after the other, and  *)
(* the bytes that are sent are read after that.                            *)

Request(record) == download' = record

FindFiles == /\ download.at = "idle"
             /\ \A f \in Artifact : files[f] # None
             /\ Request([download EXCEPT !.at = "approval"])
             /\ UNCHANGED <<diskVars, lock, approver, stamp, served, faults, edits>>

ReadApproval == /\ download.at = "approval"
                /\ Request([download EXCEPT !.at = "report",
                                            !.approval = files["approval"]])
                /\ UNCHANGED <<diskVars, lock, approver, stamp, served, faults, edits>>

ReadReport == /\ download.at = "report"
              /\ Request([download EXCEPT !.at = "repaired", !.report = files["report"]])
              /\ UNCHANGED <<diskVars, lock, approver, stamp, served, faults, edits>>

\* The marker binds the report and the bytes of the workbook.
Bound(approval, report, repaired) == /\ report = approval
                                     /\ repaired = approval.content

CompareHashes ==
    /\ download.at = "repaired"
    /\ Request(IF Bound(download.approval, download.report, files["repaired"])
               THEN [download EXCEPT !.at = "send"] ELSE NoRequest)
    /\ UNCHANGED <<diskVars, lock, approver, stamp, served, faults, edits>>

\* Mutant of Gated: the report is downloadable like any other artifact.
GatedWithoutReport == {"repaired", "approval"}

\* APPROVAL_GATED_DOWNLOADS
Gated == Artifact

Send(f) == /\ IF f \in Gated THEN download.at = "send" ELSE files[f] # None
           /\ served' = [served EXCEPT ![f] = files[f]]
           /\ Request(NoRequest)
           /\ UNCHANGED <<diskVars, lock, approver, stamp, faults, edits>>

---------------------------------------------------------------------------
RunStep == PersistProposal \/ PersistReport

ApprovalStep(a) == Check(a) \/ CopySnapshot(a) \/ Seal(a) \/ Publish(a) \/ Leave(a)

ServerStep == \/ FindFiles
              \/ ReadApproval
              \/ ReadReport
              \/ CompareHashes
              \/ \E f \in Artifact : Send(f)

Trouble == \/ RunDies
           \/ \E a \in Reviewer : StepFails(a) \/ ReviewerDies(a)

Next == \/ RunStep
        \/ \E a \in Reviewer : Acquire(a) \/ ApprovalStep(a)
        \/ ServerStep
        \/ EditInputs
        \/ Trouble

\* A process that is not dead goes on.  The reviewers who quote the right hash
\* are people: they try again as long as nothing is approved, and it is not
\* always somebody else who holds the lock when they do.
Fairness == /\ WF_vars(RunStep)
            /\ \A a \in Reviewer : WF_vars(ApprovalStep(a))
            /\ SF_vars(\E a \in Informed : Acquire(a))

Spec == Init /\ [][Next]_vars /\ Fairness

---------------------------------------------------------------------------
(* Properties. *)

Committed == /\ \A f \in Artifact : files[f] # None
             /\ Bound(files["approval"], files["report"], files["repaired"])

\* Every variable has its type, and a transaction that is over has unlinked
\* its snapshots and pending files.
TypeOK ==
    /\ inputs \in Content
    /\ run \in {"proposal", "report", "returned", "dead"}
    /\ proposal \in BOOLEAN
    /\ files \in [Artifact -> Content \cup Approval \cup {Unapproved, None}]
    /\ files["repaired"] \in Content \cup {None}
    /\ files["report"] \in Approval \cup {Unapproved, None}
    /\ files["approval"] \in Approval \cup {None}
    /\ lock \in Reviewer \cup {None}
    /\ approver \in [Reviewer ->
           [at : {"outside", "locked", "checked", "copied", "publishing", "leaving"},
            snapshot : Content \cup {None}, sealed : Approval \cup {None},
            next : 1 .. Len(PublicationOrder)]]
    /\ \A a \in Reviewer : At(a, "outside") => approver[a] = NoTransaction
    /\ stamp \in Nat
    /\ download \in [at : {"idle", "approval", "report", "repaired", "send"},
                     approval : Approval \cup {None},
                     report : Approval \cup {Unapproved, None}]
    /\ served \in [Artifact -> Content \cup Approval \cup {Unapproved, None}]
    /\ faults \in 0 .. MaxFaults
    /\ edits \in 0 .. MaxEdits

\* What the server has handed out belongs to the one approved release, although
\* it checks and reads the files without the lock.
ServedIsApproved == \A f \in Artifact : served[f] # None => /\ Committed
                                                            /\ served[f] = files[f]

\* Whatever reviewers, crashes and edits do, the files show no release or one
\* whole release patched from exactly the reviewed inputs, and never another.
Visible == IF Committed THEN files["approval"] ELSE None

Register == INSTANCE ApprovalRegister WITH
    Release <- {r \in Approval : r.content = Reviewed /\ r.actor \in Informed},
    visible <- Visible

ImplementsRegister == Register!RegisterSpec

\* Once approval.json is published, the release it marks stays committed.
MarkerCommits == files["approval"] # None => Committed

\* An approval that fails or dies can be repeated: if the proposal is there and
\* the inputs are again the reviewed ones, some reviewer completes.
InterruptedApprovalCompletes ==
    <>proposal /\ <>[](inputs = Reviewed) => <>Committed
=============================================================================
