---------------------------- MODULE PolicyOracle ----------------------------
(***************************************************************************)
(* The two implementations of the supplier-rebate policy that an approved  *)
(* pack plays against each other: the interpreter of the rule IR           *)
(* (policy_oracle.py), which owns the expected results, and the formulas   *)
(* of a workbook (the ones compile_rule_formulas writes, or a workbook     *)
(* with one of the defects of the public benchmark); and the boundary      *)
(* tests generated from the IR (policy_pack.py).                           *)
(*                                                                         *)
(* Money is counted in thousands (a tier test steps by one of them, where  *)
(* the code steps by a cent), rates in percent, service levels in basis    *)
(* points, dates in days; a proration is a pair, numerator and denominator,*)
(* and the final rebate is in cents.                                       *)
(***************************************************************************)
EXTENDS Integers, Sequences, FiniteSets, FiniteSetsExt

Larger(a, b) == IF a >= b THEN a ELSE b
Smaller(a, b) == IF a <= b THEN a ELSE b

(* The parameters of the compiled IR, as the cited clauses give them. *)
Bounds == <<0, 100, 250, 500>>
Rates == <<0, 2, 3, 4>>
Delivery == 9500
Quality == 200
BothRate == 60
SingleRate == 75
CapCents == 2000000

(* The quotient of two naturals, rounded half up. *)
Rounded(n, d) == (2 * n + d) \div (2 * d)

Critical(in) == in.incidents >= 1 /\ in.waiver # "Y"
PeriodDays(in) == Larger(1, in.end - in.start + 1)

-----------------------------------------------------------------------------
(* evaluate_rule_ir, one operator per operation of the IR. *)

FlooredSubtraction(in) == Larger(0, in.gross - in.returns - in.passThrough)

InclusiveActiveDays(in) == Larger(0, in.end - Larger(in.start, in.contract) + 1)

OrderedRangeLookup(eligible) ==
  LET matches == {i \in DOMAIN Bounds : eligible >= Bounds[i]}
  IN  Rates[Max(matches)]

CriticalThenSla(in) ==
  LET late == in.onTime < Delivery
      faulty == in.defects > Quality
  IN  CASE Critical(in) -> 0
        [] ~Critical(in) /\ late /\ faulty -> BothRate
        [] ~Critical(in) /\ late # faulty -> SingleRate
        [] ~Critical(in) /\ ~late /\ ~faulty -> 100

ActivePeriodProration(active, in) ==
  IF active >= PeriodDays(in) THEN <<1, 1>>
  ELSE IF active = 0 THEN <<0, 1>> ELSE <<active, PeriodDays(in)>>

(* Mutant of CapThenRound: the cap is applied to the rebate before the multipliers. *)
RoundThenCap(gross, sla, share) ==
  Rounded(Smaller(gross * 10, CapCents \div 100) * sla * share[1], share[2])
(* The cap comes after all multipliers, the rounding after the cap. *)
CapThenRound(gross, sla, share) ==
  Smaller(Rounded(gross * sla * share[1] * 10, share[2]), CapCents)

DecisionPrecedence(final, in) ==
  IF Critical(in) THEN "EXCLUDED_CRITICAL"
  ELSE IF final = 0 THEN "NO_REBATE" ELSE "PAYABLE"

(* The outputs L6 to T6. *)
EvaluateRuleIR(in) ==
  LET l == FlooredSubtraction(in)
      m == InclusiveActiveDays(in)
      n == OrderedRangeLookup(l)
      p == CriticalThenSla(in)
      q == ActivePeriodProration(m, in)
      s == CapThenRound(l * n, p, q)
  IN  [L6 |-> l, M6 |-> m, N6 |-> n, P6 |-> p, Q6 |-> q, S6 |-> s,
       T6 |-> DecisionPrecedence(s, in)]

-----------------------------------------------------------------------------
(* A workbook: the compiled formulas, with the defects of the benchmark.   *)

Defects == {"M01", "M02", "M03", "M04", "M05", "M06", "M07", "M08", "M09", "M10",
            "M11", "M12", "no floor", "no day floor", "no cap"}

SheetSla(in, wrong) ==
  LET late   == IF "M06" \in wrong THEN in.onTime <= Delivery ELSE in.onTime < Delivery
      faulty == IF "M07" \in wrong THEN in.defects >= Quality ELSE in.defects > Quality
      critical == in.incidents >= (IF "M08" \in wrong THEN 2 ELSE 1) /\ in.waiver # "Y"
  IN  IF "M10" \in wrong /\ in.waiver = "Y" THEN 100
      ELSE IF critical THEN 0
      ELSE IF late /\ faulty THEN (IF "M09" \in wrong THEN 50 ELSE BothRate)
      ELSE IF late \/ faulty THEN SingleRate ELSE 100

(* compile_rule_formulas, evaluated.  LOOKUP has no answer below the first bound:
   the worker reports an error, and there are no outputs. *)
Sheet(in, wrong) ==
  LET spend == in.gross - (IF "M01" \in wrong THEN 0 ELSE in.returns)
                        - (IF "M02" \in wrong THEN 0 ELSE in.passThrough)
      l == IF "no floor" \in wrong THEN spend ELSE Larger(0, spend)
      days == in.end - Larger(in.start, in.contract) + 1
      m == IF "no day floor" \in wrong THEN days ELSE Larger(0, days)
      shifted == \/ "M03" \in wrong /\ l = Bounds[2]
                 \/ "M04" \in wrong /\ l = Bounds[3]
                 \/ "M05" \in wrong /\ l = Bounds[4]
      n == OrderedRangeLookup(IF shifted THEN l - 1 ELSE l)
      p == SheetSla(in, wrong)
      period == IF "M11" \in wrong THEN Larger(1, in.end - in.start) ELSE PeriodDays(in)
      q == IF m >= period THEN <<1, 1>> ELSE IF m = 0 THEN <<0, 1>> ELSE <<m, period>>
      s == CASE "M12" \in wrong ->
                  Rounded(Smaller(l * n * 10, CapCents \div 100) * p * q[1], q[2])
             [] "no cap" \in wrong -> Rounded(l * n * p * q[1] * 10, q[2])
             [] OTHER -> Smaller(Rounded(l * n * p * q[1] * 10, q[2]), CapCents)
  IN  IF l < Bounds[1] THEN [error |-> "worker"]
      ELSE [L6 |-> l, M6 |-> m, N6 |-> n, P6 |-> p, Q6 |-> q, S6 |-> s,
            T6 |-> IF Critical(in) THEN "EXCLUDED_CRITICAL"
                   ELSE IF s = 0 THEN "NO_REBATE" ELSE "PAYABLE"]

(* _same, on every output of a test that was executed. *)
Status(in, wrong) ==
  CASE Sheet(in, wrong) = [error |-> "worker"] -> "ERROR"
    [] Sheet(in, wrong) = EvaluateRuleIR(in) -> "PASS"
    [] OTHER -> "FAIL"

-----------------------------------------------------------------------------
(* _generated_cases: the boundary tests. *)

DefaultInputs ==
  [start |-> 1, end |-> 90, contract |-> -364, gross |-> 250, returns |-> 0,
   passThrough |-> 0, onTime |-> 9800, defects |-> 100, incidents |-> 0, waiver |-> "N"]

(* Mutant of TierSteps: the tests never stand on a bound. *)
TierStepsApart == <<-1, 1>>
TierSteps == <<-1, 0, 1>>

TierCases == {[DefaultInputs EXCEPT !.gross = Bounds[b] + TierSteps[i]] :
                b \in 2..Len(Bounds), i \in DOMAIN TierSteps}
ServiceCases == {[DefaultInputs EXCEPT !.onTime = Delivery + step] : step \in -1..1}
           \cup {[DefaultInputs EXCEPT !.defects = Quality + step] : step \in -1..1}
DeductionCases ==
  {[DefaultInputs EXCEPT !.gross = 180],
   [DefaultInputs EXCEPT !.gross = 260, !.returns = 15],
   [DefaultInputs EXCEPT !.gross = 260, !.passThrough = 15],
   [DefaultInputs EXCEPT !.gross = 10, !.returns = 15, !.passThrough = 5]}
InteractionCases ==
  {[DefaultInputs EXCEPT !.incidents = 1],
   [DefaultInputs EXCEPT !.onTime = Delivery - 100, !.defects = Quality + 100],
   [DefaultInputs EXCEPT !.contract = 1],
   [DefaultInputs EXCEPT !.contract = 2],
   [DefaultInputs EXCEPT !.contract = 92],
   [DefaultInputs EXCEPT !.gross = 600],
   [DefaultInputs EXCEPT !.gross = 600, !.onTime = Delivery - 100]}
GeneratedCases == TierCases \cup ServiceCases \cup DeductionCases \cup InteractionCases

(* The regression case of the released pack: a waiver and a late delivery. *)
WaiverScope ==
  [DefaultInputs EXCEPT !.onTime = 9400, !.defects = 100, !.incidents = 1, !.waiver = "Y"]

Detecting(wrong, cases) == {in \in cases : Status(in, wrong) # "PASS"}
=============================================================================
