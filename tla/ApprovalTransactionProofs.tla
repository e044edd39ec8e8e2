---------------------- MODULE ApprovalTransactionProofs ----------------------
(***************************************************************************)
(* What holds of the approval of a proposal for every set of reviewers and *)
(* contents and any number of failures, crashes and edits, when reviewers  *)
(* wait for the run to return: the type invariant, that everything served  *)
(* is the approved release, and that the files implement ApprovalRegister. *)
(***************************************************************************)
EXTENDS ApprovalTransaction, TLAPS

---------------------------------------------------------------------------
(* Type correctness. *)

LEMMA ThreeArtifacts == /\ Len(PublicationOrder) = 3
                        /\ PublicationOrder[1] = "repaired"
                        /\ PublicationOrder[2] = "report"
                        /\ PublicationOrder[3] = "approval"
BY DEF PublicationOrder

ActionsOf(a) == \/ Acquire(a)
                \/ ApprovalStep(a)
                \/ StepFails(a)
                \/ ReviewerDies(a)

\* The record of a reviewer between the steps of its transaction.
Transaction == [at : {"outside", "locked", "checked", "copied", "publishing", "leaving"},
                snapshot : Content \cup {None}, sealed : Approval \cup {None},
                next : 1 .. 3]

ApproverTypeOK ==
    /\ approver \in [Reviewer -> Transaction]
    /\ \A a \in Reviewer : At(a, "outside") => approver[a] = NoTransaction

FilesTypeOK ==
    /\ inputs \in Content
    /\ run \in {"proposal", "report", "returned", "dead"}
    /\ proposal \in BOOLEAN
    /\ files \in [Artifact -> Content \cup Approval \cup {Unapproved, None}]
    /\ files["repaired"] \in Content \cup {None}
    /\ files["report"] \in Approval \cup {Unapproved, None}
    /\ files["approval"] \in Approval \cup {None}
    /\ lock \in Reviewer \cup {None}
    /\ stamp \in Nat

ServerTypeOK ==
    /\ download \in [at : {"idle", "approval", "report", "repaired", "send"},
                     approval : Approval \cup {None},
                     report : Approval \cup {Unapproved, None}]
    /\ served \in [Artifact -> Content \cup Approval \cup {Unapproved, None}]

BoundsOK == faults \in 0 .. MaxFaults /\ edits \in 0 .. MaxEdits

LEMMA TypeParts ==
    TypeOK <=> ApproverTypeOK /\ FilesTypeOK /\ ServerTypeOK /\ BoundsOK
BY ThreeArtifacts DEF TypeOK, ApproverTypeOK, FilesTypeOK, ServerTypeOK, BoundsOK, Transaction

\* What a sealed approval must be for its files to be publishable.
Sealed(a) == /\ approver[a].sealed \in Approval
             /\ approver[a].sealed.actor = a
             /\ approver[a].sealed.content = Reviewed

SealedOK == \A a \in Reviewer : At(a, "publishing") => a \in Informed /\ Sealed(a)

LEMMA MovesStayTransactions ==
    ASSUME ApproverTypeOK, NEW a \in Reviewer,
           NEW place \in {"locked", "checked", "copied", "publishing", "leaving"},
           Move(a, place)
    PROVE  ApproverTypeOK'
BY DEF ApproverTypeOK, Move, Transaction, At

LEMMA ApproverTypeStep ==
    ASSUME ApproverTypeOK, FilesTypeOK, [Next]_vars
    PROVE  ApproverTypeOK'
<1>1. ASSUME UNCHANGED approver
      PROVE  ApproverTypeOK'
  BY <1>1 DEF ApproverTypeOK, At
<1>2. ASSUME NEW a \in Reviewer, approver' = [approver EXCEPT ![a] = NoTransaction]
      PROVE  ApproverTypeOK'
  <2>1. NoTransaction \in Transaction
    BY DEF NoTransaction, Transaction
  <2>2. QED
    BY <1>2, <2>1 DEF ApproverTypeOK, At
<1>3. ASSUME NEW a \in Reviewer, ActionsOf(a)
      PROVE  ApproverTypeOK'
  <2>1. CASE Acquire(a) \/ Check(a) \/ StepFails(a)
    BY <2>1, MovesStayTransactions DEF Acquire, Check, StepFails
  <2>2. CASE CopySnapshot(a)
    BY <2>2 DEF CopySnapshot, ApproverTypeOK, FilesTypeOK, At, Transaction
  <2>3. CASE Seal(a)
    <3>1. CASE approver[a].snapshot = Reviewed
      <4>1. [actor |-> a, stamp |-> stamp, content |-> approver[a].snapshot] \in Approval
        BY <3>1, ApprovalAssumption DEF Approval, FilesTypeOK
      <4>2. QED
        BY <2>3, <3>1, <4>1 DEF Seal, ApproverTypeOK, At, Transaction
    <3>2. CASE approver[a].snapshot # Reviewed
      BY <2>3, <3>2, MovesStayTransactions DEF Seal
    <3>3. QED
      BY <3>1, <3>2
  <2>4. CASE Publish(a)
    <3>1. CASE approver[a].next = 3
      BY <2>4, <3>1, ThreeArtifacts, MovesStayTransactions DEF Publish
    <3>2. CASE approver[a].next # 3
      BY <2>4, <3>2, ThreeArtifacts DEF Publish, ApproverTypeOK, At, Transaction
    <3>3. QED
      BY <3>1, <3>2
  <2>5. CASE Leave(a) \/ ReviewerDies(a)
    BY <1>2, <2>5 DEF Leave, Cleanup, ReviewerDies
  <2>6. QED
    BY <1>3, <2>1, <2>2, <2>3, <2>4, <2>5 DEF ActionsOf, ApprovalStep
<1>4. CASE RunStep \/ RunDies \/ EditInputs \/ ServerStep \/ UNCHANGED vars
  BY <1>1, <1>4 DEF RunStep, PersistProposal, PersistReport, RunDies, EditInputs,
     ServerStep, FindFiles, ReadApproval, ReadReport, CompareHashes, Send, vars
<1>5. QED
  BY <1>3, <1>4 DEF Next, Trouble, ActionsOf

LEMMA FilesTypeStep ==
    ASSUME ApproverTypeOK, FilesTypeOK, SealedOK, [Next]_vars
    PROVE  FilesTypeOK'
<1>1. ASSUME UNCHANGED <<diskVars, stamp>>, lock' \in Reviewer \cup {None}
      PROVE  FilesTypeOK'
  BY <1>1 DEF FilesTypeOK, diskVars
<1>2. ASSUME NEW a \in Reviewer, ActionsOf(a)
      PROVE  FilesTypeOK'
  <2>1. CASE Acquire(a) \/ Check(a) \/ StepFails(a) \/ CopySnapshot(a) \/ Leave(a)
             \/ ReviewerDies(a)
    BY <1>1, <2>1 DEF Acquire, Check, StepFails, CopySnapshot, Leave, ReviewerDies, FilesTypeOK
  <2>2. CASE Seal(a)
    BY <2>2 DEF Seal, FilesTypeOK, diskVars
  <2>3. CASE Publish(a)
    <3>1. Sealed(a) /\ approver[a].next \in 1 .. 3
      BY <2>3 DEF Publish, SealedOK, ApproverTypeOK, Transaction
    <3>2. approver[a].sealed.content \in Content /\ approver[a].sealed \in Approval
      BY <3>1, ApprovalAssumption DEF Sealed
    <3>3. PublicationOrder[approver[a].next] \in Artifact
      BY <3>1, ThreeArtifacts DEF Artifact
    <3>4. QED
      BY <2>3, <3>2, <3>3 DEF Publish, FilesTypeOK, Artifact
  <2>4. QED
    BY <1>2, <2>1, <2>2, <2>3 DEF ActionsOf, ApprovalStep
<1>3. CASE ServerStep \/ UNCHANGED vars
  BY <1>1, <1>3 DEF ServerStep, FindFiles, ReadApproval, ReadReport, CompareHashes,
     Send, vars, FilesTypeOK
<1>4. CASE RunStep \/ RunDies \/ EditInputs
  BY <1>4 DEF RunStep, PersistProposal, PersistReport, RunDies, EditInputs,
     FilesTypeOK, Artifact
<1>5. QED
  BY <1>2, <1>3, <1>4 DEF Next, Trouble, ActionsOf

LEMMA ServerTypeStep ==
    ASSUME FilesTypeOK, ServerTypeOK, [Next]_vars
    PROVE  ServerTypeOK'
<1>1. CASE ServerStep
  <2>1. CASE FindFiles \/ ReadApproval \/ ReadReport
    BY <2>1 DEF FindFiles, ReadApproval, ReadReport, Request, ServerTypeOK, FilesTypeOK
  <2>2. CASE CompareHashes
    BY <2>2 DEF CompareHashes, Request, NoRequest, ServerTypeOK
  <2>3. CASE \E f \in Artifact : Send(f)
    BY <2>3 DEF Send, Request, NoRequest, ServerTypeOK, FilesTypeOK
  <2>4. QED
    BY <1>1, <2>1, <2>2, <2>3 DEF ServerStep
<1>2. CASE UNCHANGED <<download, served>>
  BY <1>2 DEF ServerTypeOK
<1>3. Next => ServerStep \/ UNCHANGED <<download, served>>
  BY DEF Next, RunStep, PersistProposal, PersistReport, RunDies, EditInputs, Trouble,
     Acquire, ApprovalStep, Check, CopySnapshot, Seal, Publish, Leave, StepFails,
     ReviewerDies
<1>4. QED
  BY <1>1, <1>2, <1>3 DEF vars

LEMMA BoundsStep ==
    ASSUME BoundsOK, [Next]_vars
    PROVE  BoundsOK'
<1>1. ASSUME UNCHANGED edits \/ (edits < MaxEdits /\ edits' = edits + 1),
             UNCHANGED faults \/ (faults < MaxFaults /\ faults' = faults + 1)
      PROVE  BoundsOK'
  BY <1>1, ApprovalAssumption DEF BoundsOK
<1>2. ASSUME NEW a \in Reviewer, ActionsOf(a)
      PROVE  BoundsOK'
  BY <1>1, <1>2 DEF ActionsOf, Acquire, ApprovalStep, Check, CopySnapshot, Seal,
     Publish, Leave, StepFails, ReviewerDies
<1>3. CASE ServerStep \/ UNCHANGED vars
  BY <1>1, <1>3 DEF ServerStep, FindFiles, ReadApproval, ReadReport, CompareHashes,
     Send, vars
<1>4. CASE RunStep \/ RunDies \/ EditInputs
  BY <1>1, <1>4 DEF RunStep, PersistProposal, PersistReport, RunDies, EditInputs
<1>5. QED
  BY <1>2, <1>3, <1>4 DEF Next, Trouble, ActionsOf

---------------------------------------------------------------------------
(* The inductive invariant. *)

RunOver == run \in {"returned", "dead"}

\* A reviewer inside its transaction holds the lock, after the run; and from
\* its check to its last publication nothing is approved.
Guarded == \A a \in Reviewer :
    /\ ~At(a, "outside") => lock = a /\ RunOver
    /\ approver[a].at \in {"checked", "copied", "publishing"} =>
           a \in Informed /\ files["approval"] = None

\* What a transaction has published so far is its own.
Published == \A a \in Reviewer : At(a, "publishing") =>
    /\ approver[a].next > 1 => files["repaired"] = approver[a].sealed.content
    /\ approver[a].next > 2 => files["report"] = approver[a].sealed

\* A transaction publishes from the beginning.
Fresh == \A a \in Reviewer :
    approver[a].at \in {"outside", "locked", "checked", "copied"} => approver[a].next = 1

\* The marker is there only with the whole release it binds.
MarkerOK == files["approval"] # None =>
    /\ RunOver
    /\ Committed
    /\ files["approval"].content = Reviewed
    /\ files["approval"].actor \in Informed

\* From the moment the server has found it, the marker is there to stay.
Requested ==
    /\ download.at = "approval" => files["approval"] # None
    /\ download.at \in {"report", "repaired"} =>
           files["approval"] # None /\ download.approval = files["approval"]
    /\ download.at = "send" => files["approval"] # None

IInv == /\ ApproverTypeOK
        /\ FilesTypeOK
        /\ ServerTypeOK
        /\ BoundsOK
        /\ AwaitReport
        /\ SealedOK
        /\ Guarded
        /\ Fresh
        /\ Published
        /\ MarkerOK
        /\ Requested
        /\ ServedIsApproved

\* The steps of other reviewers, and those of the server and the user, leave
\* the transaction of a reviewer alone.
LEMMA Inside ==
    ASSUME IInv, NEW a \in Reviewer, NEW b \in Reviewer,
           ~At(a, "outside"), ~At(b, "outside")
    PROVE  a = b
BY DEF IInv, Guarded

LEMMA Frame ==
    ASSUME IInv, UNCHANGED <<approver, files, lock>>, RunOver => RunOver'
    PROVE  SealedOK' /\ Guarded' /\ Published' /\ MarkerOK'
BY DEF IInv, SealedOK, Sealed, Guarded, Published, MarkerOK, Committed, At

\* Nothing the server relies on is touched while the marker and all files stay.
LEMMA ServerFrame ==
    ASSUME IInv, UNCHANGED <<download, served>>,
           UNCHANGED files \/ files["approval"] = None
    PROVE  Requested' /\ ServedIsApproved'
<1>1. CASE UNCHANGED files
  BY <1>1 DEF IInv, Requested, ServedIsApproved, Committed
<1>2. CASE files["approval"] = None
  <2>1. download.at = "idle"
    BY <1>2 DEF IInv, Requested, ServerTypeOK
  <2>2. \A f \in Artifact : served[f] = None
    BY <1>2 DEF IInv, ServedIsApproved, Committed, Artifact
  <2>3. QED
    BY <2>1, <2>2 DEF Requested, ServedIsApproved
<1>3. QED
  BY <1>1, <1>2

LEMMA RunPreserves ==
    ASSUME IInv, RunStep \/ RunDies \/ EditInputs
    PROVE  SealedOK' /\ Guarded' /\ Published' /\ MarkerOK' /\ Requested'
           /\ ServedIsApproved'
<1>1. CASE PersistReport
  <2>1. ~RunOver
    BY <1>1 DEF PersistReport, RunOver
  <2>2. \A a \in Reviewer : At(a, "outside")
    BY <2>1 DEF IInv, Guarded
  <2>3. files["approval"] = None
    BY <2>1 DEF IInv, MarkerOK
  <2>4. files'["approval"] = None /\ approver' = approver
    BY <1>1, <2>3 DEF PersistReport, IInv, FilesTypeOK, Artifact
  <2>5. SealedOK' /\ Guarded' /\ Published' /\ MarkerOK'
    BY <2>2, <2>4 DEF SealedOK, Guarded, Published, MarkerOK, At
  <2>6. QED
    BY <1>1, <2>3, <2>5, ServerFrame DEF PersistReport
<1>2. CASE PersistProposal \/ RunDies \/ EditInputs
  BY <1>2, Frame, ServerFrame DEF PersistProposal, RunDies, EditInputs, RunOver
<1>3. QED
  BY <1>1, <1>2 DEF RunStep

LEMMA ServerPreserves ==
    ASSUME IInv, ServerStep
    PROVE  SealedOK' /\ Guarded' /\ Published' /\ MarkerOK' /\ Requested'
           /\ ServedIsApproved'
<1>1. SealedOK' /\ Guarded' /\ Published' /\ MarkerOK'
  BY Frame DEF ServerStep, FindFiles, ReadApproval, ReadReport, CompareHashes, Send,
     diskVars, RunOver
<1>2. UNCHANGED files
  BY DEF ServerStep, FindFiles, ReadApproval, ReadReport, CompareHashes, Send, diskVars
<1>3. ASSUME UNCHANGED served
      PROVE  ServedIsApproved'
  BY <1>2, <1>3 DEF IInv, ServedIsApproved, Committed
<1>4. CASE FindFiles \/ ReadApproval \/ ReadReport
  <2>1. Requested'
    BY <1>2, <1>4 DEF FindFiles, ReadApproval, ReadReport, Request, IInv, Requested,
       ServerTypeOK, Artifact
  <2>2. QED
    BY <1>1, <1>3, <1>4, <2>1 DEF FindFiles, ReadApproval, ReadReport
<1>5. CASE CompareHashes
  <2>1. Requested'
    BY <1>2, <1>5 DEF CompareHashes, Request, NoRequest, IInv, Requested, ServerTypeOK
  <2>2. QED
    BY <1>1, <1>3, <1>5, <2>1 DEF CompareHashes
<1>6. ASSUME NEW f \in Artifact, Send(f)
      PROVE  Requested' /\ ServedIsApproved'
  <2>1. download.at = "send"
    BY <1>6 DEF Send, Gated
  <2>2. Committed
    BY <2>1 DEF IInv, Requested, MarkerOK
  <2>3. Requested'
    BY <1>6 DEF Send, Request, NoRequest, Requested
  <2>4. Committed'
    BY <1>2, <2>2 DEF Committed
  <2>5. \A g \in Artifact : served'[g] # None => served'[g] = files'[g]
    BY <1>2, <1>6 DEF Send, IInv, ServerTypeOK, ServedIsApproved
  <2>6. QED
    BY <2>3, <2>4, <2>5 DEF ServedIsApproved
<1>7. QED
  BY <1>1, <1>4, <1>5, <1>6 DEF ServerStep

LEMMA FreshStep ==
    ASSUME ApproverTypeOK, Fresh, [Next]_vars
    PROVE  Fresh'
<1>1. ASSUME UNCHANGED approver
      PROVE  Fresh'
  BY <1>1 DEF Fresh
<1>2. ASSUME NEW a \in Reviewer, ActionsOf(a)
      PROVE  Fresh'
  BY <1>2 DEF ActionsOf, Acquire, ApprovalStep, Check, CopySnapshot, Seal, Publish, Leave,
     StepFails, ReviewerDies, Move, Cleanup, NoTransaction, ApproverTypeOK, Transaction,
     At, Fresh
<1>3. CASE RunStep \/ RunDies \/ EditInputs \/ ServerStep \/ UNCHANGED vars
  BY <1>1, <1>3 DEF RunStep, PersistProposal, PersistReport, RunDies, EditInputs,
     ServerStep, FindFiles, ReadApproval, ReadReport, CompareHashes, Send, vars
<1>4. QED
  BY <1>2, <1>3 DEF Next, Trouble, ActionsOf

\* A step of reviewer a that publishes nothing.
LEMMA QuietStep ==
    ASSUME IInv, NEW a \in Reviewer, UNCHANGED <<files, run>>,
           \A b \in Reviewer \ {a} : approver'[b] = approver[b] /\ At(b, "outside"),
           ~At(a, "outside")' => lock' = a /\ RunOver,
           (approver'[a].at \in {"checked", "copied", "publishing"} =>
               a \in Informed /\ files["approval"] = None),
           At(a, "publishing")' => Sealed(a)' /\ approver'[a].next = 1
    PROVE  SealedOK' /\ Guarded' /\ Published' /\ MarkerOK'
<1>1. SealedOK'
  BY DEF SealedOK, At
<1>2. Guarded'
  BY DEF Guarded, At, RunOver
<1>3. Published'
  BY DEF Published, At
<1>4. MarkerOK'
  BY DEF IInv, MarkerOK, RunOver, Committed
<1>5. QED
  BY <1>1, <1>2, <1>3, <1>4

LEMMA PublishPreserves ==
    ASSUME IInv, NEW a \in Reviewer, Publish(a)
    PROVE  SealedOK' /\ Guarded' /\ Published' /\ MarkerOK'
<1> DEFINE f == PublicationOrder[approver[a].next]
<1>1. /\ At(a, "publishing")
      /\ files["approval"] = None
      /\ a \in Informed
      /\ Sealed(a)
      /\ lock = a
      /\ RunOver
      /\ \A b \in Reviewer \ {a} : At(b, "outside")
  BY Inside DEF Publish, IInv, Guarded, SealedOK, At
<1>2. /\ approver \in [Reviewer -> Transaction]
      /\ approver[a].next \in 1 .. 3
      /\ files \in [Artifact -> Content \cup Approval \cup {Unapproved, None}]
  BY DEF IInv, ApproverTypeOK, FilesTypeOK, Transaction
<1>3. UNCHANGED <<run, lock>> /\ \A b \in Reviewer \ {a} : approver'[b] = approver[b]
  BY <1>2 DEF Publish, Move
<1>4. CASE approver[a].next \in 1 .. 2
  <2>1. f \in {"repaired", "report"} /\ (f = "repaired" <=> approver[a].next = 1)
    BY <1>4, ThreeArtifacts
  <2>2. files' = [files EXCEPT ![f] = IF f = "repaired" THEN approver[a].sealed.content
                                                       ELSE approver[a].sealed]
    BY DEF Publish
  <2>3. files'["approval"] = None
    BY <1>1, <1>2, <2>1, <2>2 DEF Artifact
  <2>4. approver' = [approver EXCEPT ![a].next = @ + 1]
    BY <1>2, <1>4, ThreeArtifacts DEF Publish
  <2>5. /\ approver'[a].at = "publishing"
        /\ approver'[a].sealed = approver[a].sealed
        /\ approver'[a].next = approver[a].next + 1
    BY <1>1, <1>2, <2>4 DEF Transaction, At
  <2>6. SealedOK'
    BY <1>1, <1>3, <2>5 DEF SealedOK, Sealed, At
  <2>7. Guarded'
    BY <1>1, <1>3, <2>3, <2>5 DEF Guarded, At, RunOver
  <2>8. approver[a].next = 1 => files'["repaired"] = approver[a].sealed.content
    BY <1>2, <2>1, <2>2 DEF Artifact
  <2>9. approver[a].next = 2 => /\ files'["report"] = approver[a].sealed
                                /\ files'["repaired"] = files["repaired"]
    BY <1>2, <2>2, ThreeArtifacts DEF Artifact
  <2>10. approver[a].next = 2 => files["repaired"] = approver[a].sealed.content
    BY <1>1 DEF IInv, Published
  <2>11. Published'
    BY <1>1, <1>3, <1>4, <2>5, <2>8, <2>9, <2>10 DEF Published, At
  <2>12. QED
    BY <2>3, <2>6, <2>7, <2>11 DEF MarkerOK
<1>5. CASE approver[a].next = 3
  <2>1. f = "approval" /\ files' = [files EXCEPT !["approval"] = approver[a].sealed]
    BY <1>5, ThreeArtifacts DEF Publish
  <2>2. approver' = [approver EXCEPT ![a].at = "leaving"]
    BY <1>5, ThreeArtifacts DEF Publish, Move
  <2>3. approver'[a].at = "leaving"
    BY <1>2, <2>2 DEF Transaction
  <2>4. SealedOK' /\ Guarded' /\ Published'
    BY <1>1, <1>3, <2>3 DEF SealedOK, Guarded, Published, At, RunOver
  <2>5. files["repaired"] = approver[a].sealed.content /\ files["report"] = approver[a].sealed
    BY <1>1, <1>5 DEF IInv, Published
  <2>6. /\ files'["approval"] = approver[a].sealed
        /\ files'["report"] = approver[a].sealed
        /\ files'["repaired"] = approver[a].sealed.content
    BY <1>2, <2>1, <2>5 DEF Artifact
  <2>7. approver[a].sealed # None /\ approver[a].sealed.content # None
    BY <1>1, ApprovalAssumption, MarkerAssumption DEF Sealed
  <2>8. Committed'
    BY <2>6, <2>7 DEF Committed, Bound, Artifact
  <2>9. MarkerOK'
    BY <1>1, <1>3, <2>6, <2>8 DEF MarkerOK, Sealed, RunOver
  <2>10. QED
    BY <2>4, <2>9
<1>6. QED
  BY <1>2, <1>4, <1>5

LEMMA ReviewerPreserves ==
    ASSUME IInv, NEW a \in Reviewer, ActionsOf(a)
    PROVE  SealedOK' /\ Guarded' /\ Published' /\ MarkerOK' /\ Requested'
           /\ ServedIsApproved'
<1>1. approver \in [Reviewer -> Transaction]
  BY DEF IInv, ApproverTypeOK
<1>2. ~At(a, "outside") \/ lock = None => \A b \in Reviewer \ {a} : At(b, "outside")
  BY Inside, ApprovalAssumption DEF IInv, Guarded
<1>3. CASE Acquire(a)
  <2>1. approver'[a].at = "locked" /\ \A b \in Reviewer \ {a} : approver'[b] = approver[b]
    BY <1>1, <1>3 DEF Acquire, Move, Transaction
  <2>2. UNCHANGED <<files, run, download, served>> /\ lock = None /\ lock' = a /\ RunOver
    BY <1>3 DEF Acquire, LockFree, diskVars, IInv, RunOver
  <2>3. QED
    BY <1>2, <2>1, <2>2, QuietStep, ServerFrame DEF At
<1>4. CASE Check(a)
  <2>1. /\ approver'[a].at = IF proposal /\ files["approval"] = None /\ a \in Informed
                             THEN "checked" ELSE "leaving"
        /\ \A b \in Reviewer \ {a} : approver'[b] = approver[b]
    BY <1>1, <1>4 DEF Check, Move, Transaction
  <2>2. ~At(a, "outside") /\ UNCHANGED <<files, run, lock, download, served>>
    BY <1>4 DEF Check, diskVars, At
  <2>3. QED
    BY <1>2, <2>1, <2>2, QuietStep, ServerFrame DEF At, IInv, Guarded
<1>5. CASE CopySnapshot(a)
  <2>1. approver'[a].at = "copied" /\ \A b \in Reviewer \ {a} : approver'[b] = approver[b]
    BY <1>1, <1>5 DEF CopySnapshot, Transaction
  <2>2. At(a, "checked") /\ UNCHANGED <<files, run, lock, download, served>>
    BY <1>5 DEF CopySnapshot, diskVars
  <2>3. QED
    BY <1>2, <2>1, <2>2, QuietStep, ServerFrame DEF At, IInv, Guarded
<1>6. CASE Seal(a)
  <2>1. At(a, "copied") /\ UNCHANGED <<files, run, lock, download, served>>
    BY <1>6 DEF Seal, diskVars
  <2>2. \A b \in Reviewer \ {a} : approver'[b] = approver[b]
    BY <1>1, <1>6 DEF Seal, Move
  <2>3. a \in Informed /\ files["approval"] = None /\ lock = a /\ RunOver
    BY <2>1 DEF IInv, Guarded, At
  <2>4. CASE approver[a].snapshot = Reviewed
    <3>1. /\ approver'[a].at = "publishing"
          /\ approver'[a].sealed = [actor |-> a, stamp |-> stamp, content |-> Reviewed]
          /\ approver'[a].next = approver[a].next
      BY <1>1, <1>6, <2>4 DEF Seal, Transaction
    <3>2. Sealed(a)'
      BY <3>1, ApprovalAssumption DEF Sealed, Approval, IInv, FilesTypeOK
    <3>3. approver[a].next = 1
      BY <2>1 DEF IInv, Fresh, At
    <3>4. QED
      BY <1>2, <2>1, <2>2, <2>3, <3>1, <3>2, <3>3, QuietStep, ServerFrame DEF At
  <2>5. CASE approver[a].snapshot # Reviewed
    <3>1. approver'[a].at = "leaving"
      BY <1>1, <1>6, <2>5 DEF Seal, Move, Transaction
    <3>2. QED
      BY <1>2, <2>1, <2>2, <2>3, <3>1, QuietStep, ServerFrame DEF At
  <2>6. QED
    BY <2>4, <2>5
<1>7. CASE Publish(a)
  <2>1. files["approval"] = None /\ UNCHANGED <<download, served>>
    BY <1>7 DEF Publish, IInv, Guarded, At
  <2>2. QED
    BY <1>7, <2>1, PublishPreserves, ServerFrame
<1>8. CASE StepFails(a)
  <2>1. approver'[a].at = "leaving" /\ \A b \in Reviewer \ {a} : approver'[b] = approver[b]
    BY <1>1, <1>8 DEF StepFails, Move, Transaction
  <2>2. ~At(a, "outside") /\ UNCHANGED <<files, run, lock, download, served>>
    BY <1>8 DEF StepFails, diskVars, At
  <2>3. QED
    BY <1>2, <2>1, <2>2, QuietStep, ServerFrame DEF At, IInv, Guarded
<1>9. CASE Leave(a) \/ ReviewerDies(a)
  <2>1. approver'[a].at = "outside" /\ \A b \in Reviewer \ {a} : approver'[b] = approver[b]
    BY <1>1, <1>9 DEF Leave, Cleanup, ReviewerDies, NoTransaction
  <2>2. ~At(a, "outside") /\ UNCHANGED <<files, run, download, served>>
    BY <1>9 DEF Leave, ReviewerDies, diskVars, At
  <2>3. QED
    BY <1>2, <2>1, <2>2, QuietStep, ServerFrame DEF At
<1>10. QED
  BY <1>3, <1>4, <1>5, <1>6, <1>7, <1>8, <1>9 DEF ActionsOf, ApprovalStep

LEMMA InitIsGood ==
    ASSUME Init, AwaitReport
    PROVE  IInv
<1>1. NoTransaction \in Transaction
  BY DEF NoTransaction, Transaction
<1>2. ApproverTypeOK
  BY <1>1 DEF Init, ApproverTypeOK
<1>3. FilesTypeOK
  BY ApprovalAssumption DEF Init, FilesTypeOK, Artifact
<1>4. ServerTypeOK /\ BoundsOK
  BY ApprovalAssumption DEF Init, ServerTypeOK, BoundsOK, NoRequest, Artifact
<1>5. SealedOK /\ Guarded /\ Published /\ Fresh
  <2>1. \A a \in Reviewer : approver[a] = NoTransaction
    BY DEF Init
  <2>2. NoTransaction.at = "outside" /\ NoTransaction.next = 1
    BY DEF NoTransaction
  <2>3. \A a \in Reviewer : approver[a].at = "outside" /\ approver[a].next = 1
    BY <2>1, <2>2
  <2>4. SealedOK /\ Guarded
    BY <2>3 DEF SealedOK, Guarded, At
  <2>5. QED
    BY <2>3, <2>4 DEF Published, Fresh, At
<1>6. MarkerOK /\ Requested /\ ServedIsApproved
  BY DEF Init, MarkerOK, Requested, ServedIsApproved, NoRequest, Artifact
<1>7. QED
  BY <1>2, <1>3, <1>4, <1>5, <1>6 DEF IInv

LEMMA StepIsGood ==
    ASSUME IInv, [Next]_vars
    PROVE  IInv'
<1>1. ApproverTypeOK' /\ FilesTypeOK' /\ ServerTypeOK' /\ BoundsOK' /\ AwaitReport'
  BY ApproverTypeStep, FilesTypeStep, ServerTypeStep, BoundsStep DEF IInv
<1>2. Fresh'
  BY FreshStep DEF IInv
<1>3. SealedOK' /\ Guarded' /\ Published' /\ MarkerOK' /\ Requested' /\ ServedIsApproved'
  <2>1. CASE UNCHANGED vars
    BY <2>1, Frame, ServerFrame DEF vars, diskVars, RunOver
  <2>2. CASE RunStep \/ RunDies \/ EditInputs
    BY <2>2, RunPreserves
  <2>3. CASE ServerStep
    BY <2>3, ServerPreserves
  <2>4. CASE \E a \in Reviewer : ActionsOf(a)
    BY <2>4, ReviewerPreserves
  <2>5. QED
    BY <2>1, <2>2, <2>3, <2>4 DEF Next, Trouble, ActionsOf
<1>4. QED
  BY <1>1, <1>2, <1>3 DEF IInv

LEMMA Invariance == ASSUME AwaitReport PROVE Spec => []IInv
BY InitIsGood, StepIsGood, PTL DEF Spec

---------------------------------------------------------------------------
(* The theorems. *)

\* Every variable has its type, and a transaction that is over has left no
\* snapshot and no pending file (the finally clause of
\* approve_agentic_proposal).
THEOREM TypeCorrect == ASSUME AwaitReport PROVE Spec => []TypeOK
<1>1. IInv => TypeOK
  BY TypeParts DEF IInv
<1>2. QED
  BY <1>1, Invariance, PTL

\* The server hands out nothing but the approved release, although it checks
\* and reads the files without the lock (_valid_approval_commit, do_GET).
THEOREM ServedOnlyApproved == ASSUME AwaitReport PROVE Spec => []ServedIsApproved
<1>1. IInv => ServedIsApproved
  BY DEF IInv
<1>2. QED
  BY <1>1, Invariance, PTL

\* Nothing is visible before the marker, and what the marker made visible stays.
LEMMA StepPublishesOnce ==
    ASSUME IInv, IInv', [Next]_vars
    PROVE  [Register!Approve]_Visible
<1> DEFINE Releases == {r \in Approval : r.content = Reviewed /\ r.actor \in Informed}
<1>1. Visible = files["approval"] /\ Visible' = files'["approval"]
  BY DEF IInv, MarkerOK, Visible, Committed, Artifact
<1>2. files'["approval"] # None => files'["approval"] \in Releases
  BY DEF IInv, MarkerOK, FilesTypeOK
<1>3. files["approval"] # None => UNCHANGED files
  <2>1. ASSUME files["approval"] # None, NEW a \in Reviewer, ActionsOf(a)
        PROVE  UNCHANGED files
    <3>1. ~At(a, "publishing")
      BY <2>1 DEF IInv, Guarded, At
    <3>2. QED
      BY <2>1, <3>1 DEF ActionsOf, Acquire, ApprovalStep, Check, CopySnapshot, Seal,
         Publish, Leave, StepFails, ReviewerDies, diskVars
  <2>2. ASSUME files["approval"] # None, RunStep \/ RunDies \/ EditInputs
        PROVE  UNCHANGED files
    BY <2>2 DEF RunStep, PersistProposal, PersistReport, RunDies, EditInputs, IInv,
       MarkerOK, RunOver
  <2>3. ServerStep \/ UNCHANGED vars => UNCHANGED files
    BY DEF ServerStep, FindFiles, ReadApproval, ReadReport, CompareHashes, Send,
       vars, diskVars
  <2>4. QED
    BY <2>1, <2>2, <2>3 DEF Next, Trouble, ActionsOf
<1>4. QED
  BY <1>1, <1>2, <1>3 DEF Register!Approve

\* The files show no release, and then one whole release for ever, made by a
\* reviewer of exactly this proposal from exactly the reviewed inputs.
THEOREM ApprovalImplementsRegister == ASSUME AwaitReport PROVE Spec => ImplementsRegister
<1>1. Init => Register!RegisterInit
  BY DEF Init, Register!RegisterInit, Visible, Committed, Artifact
<1>2. IInv /\ IInv' /\ [Next]_vars => [Register!Approve]_Visible
  BY StepPublishesOnce
<1>3. QED
  BY <1>1, <1>2, Invariance, PTL DEF Spec, ImplementsRegister, Register!RegisterSpec

=============================================================================
