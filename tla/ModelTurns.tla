----------------------------- MODULE ModelTurns -----------------------------
(***************************************************************************)
(* What an agent loop takes a model exchange to be: one step.              *)
(*                                                                         *)
(* The loop offers tools.  The exchange then either hands over calls to    *)
(* those tools, at least one and no more than asked for, or it fails; in   *)
(* both cases everything it cost is charged at once, and it never costs    *)
(* more requests than were left when it began.  An exchange whose charge   *)
(* the ledger refuses, or that breaks, ends the loop uncharged.            *)
(* ModelExchange implements this specification with retries, repairs and   *)
(* pauses; AuditRun builds on it.                                          *)
(***************************************************************************)
EXTENDS AgentBudget, Sequences

CONSTANTS Tool, None

VARIABLES offered,  \* what the exchange under way was asked for, or None
          inHand,   \* the calls that are not executed yet
          ended     \* None, or how the loop ended

turnVars == <<usage, elapsed, offered, inHand, ended>>

\* most: one call, unless the request allows several at once.
Offer == [tools : SUBSET Tool \ {{}}, several : BOOLEAN]

TurnsInit == /\ BudgetInit
             /\ offered = None
             /\ inHand = <<>>
             /\ ended = None

Ask == /\ ended = None /\ offered = None /\ inHand = <<>>
       /\ offered' \in Offer
       /\ UNCHANGED <<usage, elapsed, inHand, ended>>

RetriesLeft == {n \in 0 .. 5 : /\ n < Remaining("modelCalls")
                               /\ n <= Remaining("retries")}

TakeTurn ==
    /\ offered # None /\ ended = None
    /\ \E n \in RetriesLeft, tokens \in 0 .. Remaining("inputTokens") :
           Charge(ModelCall(Manager, tokens, 0, 0, n))
    /\ offered' = None
    /\ inHand' # <<>>
    /\ \A i \in DOMAIN inHand' : inHand'[i] \in offered.tools
    /\ Len(inHand') = 1 \/ offered.several
    /\ UNCHANGED ended

Fail == /\ offered # None /\ ended = None
        /\ \E n \in RetriesLeft : Charge(ModelCall(Manager, 0, 0, 0, n))
        /\ offered' = None
        /\ ended' = "MODEL_UNAVAILABLE"
        /\ UNCHANGED inHand

\* Any step of the loop may end it with an exception of another kind.
Stop == /\ ended = None
        /\ offered' = None
        /\ inHand' = <<>>
        /\ ended' \in {"SAFETY_LIMIT_REACHED", "RUNTIME_FAILURE"}
        /\ UNCHANGED <<usage, elapsed>>

Execute == /\ ended = None /\ inHand # <<>>
           /\ Charge(ToolCall) \/ UNCHANGED budgetVars
           /\ \/ inHand' = Tail(inHand) /\ UNCHANGED ended
              \/ inHand' = <<>> /\ ended' = "DECIDED"
           /\ UNCHANGED offered

Clock == Tick /\ UNCHANGED <<offered, inHand, ended>>

TurnsNext == Ask \/ TakeTurn \/ Fail \/ Stop \/ Execute \/ Clock

TurnsSpec == TurnsInit /\ [][TurnsNext]_turnVars
=============================================================================
