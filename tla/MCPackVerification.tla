------------------------- MODULE MCPackVerification -------------------------
(***************************************************************************)
(* Four generated tests, a regression test, and the pack files a careless  *)
(* release could come with.                                                *)
(***************************************************************************)
EXTENDS PackVerification

Test(id, inputs) == [id |-> id, inputs |-> inputs, rules |-> {"RB-101"}]

MCGenerated ==
  <<Test("floor", [DefaultInputs EXCEPT !.gross = 10, !.returns = 15, !.passThrough = 5]),
    Test("tier", [DefaultInputs EXCEPT !.gross = 250 - 1]),
    Test("delivery", [DefaultInputs EXCEPT !.onTime = Delivery]),
    Test("after penalty", [DefaultInputs EXCEPT !.gross = 600, !.onTime = Delivery - 100])>>
MCContents == {{}, {"M10"}, {"no floor"}}

Waiver == Test("waiver", WaiverScope)
MCCasefold(name) == IF name = "Ann" THEN "ann" ELSE name

Approval(name, role, release) ==
  [reviewer |-> name, role |-> role, attests |-> release, reviewed |-> {"floor", "waiver"}]

File(version, regressions) ==
  LET release == [code |-> version, tests |-> MCGenerated \o regressions]
  IN  [approvals |-> <<Approval("ann", "POLICY_OWNER", release),
                       Approval("bob", "CONTROLS_REVIEWER", release)>>,
       regressions |-> regressions, release |-> release]

Approved(version) == File(version, <<Waiver>>)
Unknown == [Waiver EXCEPT !.rules = {"RB-999"}]
Repeated == [Waiver EXCEPT !.inputs = MCGenerated[2].inputs]

(* An approved file, the file of the version before, and files of careless reviews. *)
Careless(version) ==
  {[Approved(version) EXCEPT !.approvals[2].reviewer = "Ann"],
   [Approved(version) EXCEPT !.approvals = SubSeq(@, 1, 1)],
   [Approved(version) EXCEPT !.approvals =
      Append(@, Approval("ann", "CONTROLS_REVIEWER", Approved(version).release))],
   [Approved(version) EXCEPT !.approvals[1].attests = Approved(version - 1).release],
   File(version, <<Unknown>>), File(version, <<Repeated>>), File(version, <<Waiver, Waiver>>),
   File(version, <<>>)}
MCConfigs(version) ==
  {Approved(version), Approved(version - 1)} \cup (IF version = 1 THEN Careless(1) ELSE {})
=============================================================================
