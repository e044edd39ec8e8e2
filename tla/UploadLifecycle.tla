-------------------------- MODULE UploadLifecycle --------------------------
(***************************************************************************)
(* What the review server promises about each private upload: it moves     *)
(* through the phases of its life in one direction, is audited once at     *)
(* most, is kept for review only after its audit, and is gone for good     *)
(* once it has been given up.  UploadServer implements this specification. *)
(***************************************************************************)
CONSTANT Upload

VARIABLE phase

Phase == {"absent", "preparing", "prepared", "auditing", "review", "given up", "gone"}

Edge == {<<"absent", "preparing">>,    \* received
         <<"preparing", "prepared">>,  \* both files accepted
         <<"prepared", "auditing">>,   \* claimed by its one audit
         <<"auditing", "review">>,     \* the audit proposes a repair
         <<"given up", "gone">>}       \* deleted
        \cup {<<before, "given up">> :
                before \in {"preparing", "prepared", "auditing", "review"}}

LifecycleInit == phase = [u \in Upload |-> "absent"]

\* One step may expire several uploads.
LifecycleNext == /\ phase' \in [Upload -> Phase]
                 /\ \A u \in Upload : \/ phase'[u] = phase[u]
                                      \/ <<phase[u], phase'[u]>> \in Edge

LifecycleSpec == LifecycleInit /\ [][LifecycleNext]_phase
=============================================================================
