--------------------------- MODULE AuditAuthority ---------------------------
(***************************************************************************)
(* What an audit run promises, whatever the models say.                    *)
(*                                                                         *)
(* A run stages proposals, tests the staged one and finally closes with an *)
(* outcome.  Staging forgets the result of every earlier test.  The        *)
(* outcome is REPAIR only for the proposal that is staged and that         *)
(* survived its test, and a run that is closed never changes again.        *)
(* AuditRun is the program; it implements this specification.              *)
(***************************************************************************)
CONSTANTS Proposal, None

VARIABLES staged,   \* the proposal that is staged, or None
          tested,   \* the result of testing the staged proposal
          outcome   \* "open", or how the run ended

authorityVars == <<staged, tested, outcome>>

Result == {"untested", "survived", "broken", "inconclusive"}

AuthorityInit == /\ staged = None
                 /\ tested = "untested"
                 /\ outcome = "open"

Stage(p) == /\ outcome = "open"
            /\ staged' = p
            /\ tested' = "untested"
            /\ UNCHANGED outcome

Test(result) == /\ outcome = "open"
                /\ staged # None
                /\ tested' = result
                /\ UNCHANGED <<staged, outcome>>

Repair == /\ outcome = "open"
          /\ tested = "survived"
          /\ outcome' = "REPAIR"
          /\ UNCHANGED <<staged, tested>>

Decline == /\ outcome = "open"
           /\ outcome' \in {"NO_CHANGE", "ABSTAIN"}
           /\ UNCHANGED <<staged, tested>>

AuthorityNext == \/ \E p \in Proposal : Stage(p)
                 \/ \E result \in Result : Test(result)
                 \/ Repair
                 \/ Decline

AuthoritySpec == AuthorityInit /\ [][AuthorityNext]_authorityVars
=============================================================================
