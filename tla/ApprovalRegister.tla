-------------------------- MODULE ApprovalRegister --------------------------
(***************************************************************************)
(* What the approval of one run's proposal promises to whoever looks at    *)
(* the published files: nothing is approved until one release appears      *)
(* whole, and from then on that release is what is approved.               *)
(* ApprovalTransaction implements this specification with three files, a   *)
(* lock and a commit marker.                                               *)
(***************************************************************************)
CONSTANTS Release, None

VARIABLE visible   \* the approved release, or None

RegisterInit == visible = None

Approve == visible = None /\ visible' \in Release

RegisterSpec == RegisterInit /\ [][Approve]_visible
=============================================================================
