------------------------------ MODULE CDICheck ------------------------------
(***************************************************************************)
(* Checks the pure stages of the corridor in CDI over every combination of *)
(* bounded inputs.  The single variable holds one corridor input: the raw  *)
(* request's taint families and sensitivity, the system's posture,         *)
(* integrity, governance and consents, the adapter output and the leak     *)
(* budget.  Every initial state is one combination, and it never changes. *)
(* The posture package's RequiresConfirmation is checked at the same      *)
(* posture levels.                                                         *)
(***************************************************************************)
EXTENDS CDI, Naturals, FiniteSets, SequencesExt

CONSTANTS Postures,     \* posture levels fed to Decide and Egress
          OutputLens,   \* byte lengths of adapter output
          Budgets       \* leak budgets passed to Egress

VARIABLE in

Pos == INSTANCE Posture

\* Operation risks in increasing order, and one the code does not know.
RiskLadder == <<"low", "medium", "high">>
OperationRisks == {"low", "medium", "high", "critical"}

Outputs == UNION {{Text(l, l, e) : e \in {0} \cup {x \in OutputLens : 0 < x /\ x <= l}} : l \in OutputLens}

Init == in \in [smuggling: BOOLEAN, pressure: BOOLEAN, sensitivity: Sensitivities,
                 posture: Postures, integrity: IntegrityStates,
                 governance: GovernanceStates, consents: SUBSET {"high_risk_operations"},
                 output: Outputs, budget: Budgets]

\* An input, once chosen, stays as it is.
Hold == UNCHANGED in

Spec == Init /\ [][Hold]_in

\* The DecisionContext Execute builds from a labelled request and state.
CtxOf(i) == [integrity   |-> i.integrity,
             labels      |-> DetectTaint([smuggling |-> i.smuggling, pressure |-> i.pressure]),
             posture     |-> i.posture,
             governance  |-> i.governance,
             sensitivity |-> i.sensitivity,
             consents    |-> i.consents]

\* The artifact Execute hands to Egress: LeakBudgetUsed is len(content).
ArtifactOf(i) == [content |-> i.output, sensitivity |-> i.sensitivity,
                  leakBudgetUsed |-> i.output.len]

-----------------------------------------------------------------------------
(* Reference: the decision order of the design, as a table of ten rules,   *)
(* the first rule that fires giving the result.                            *)

SpecRuleFires(r, c) ==
    IF c = NilContext THEN r = 1 ELSE
    CASE r = 1  -> FALSE
      [] r = 2  -> c.integrity = "INTEGRITY_VOID"
      [] r = 3  -> IsTainted(c.labels)
      [] r = 4  -> c.posture = 0
      [] r = 5  -> c.governance = "nil"
      [] r = 6  -> c.sensitivity = "high" /\ "high_risk_operations" \notin c.consents
      [] r = 7  -> c.integrity = "INTEGRITY_DEGRADED"
      [] r = 8  -> c.sensitivity = "low" /\ ~IsTainted(c.labels)
      [] r = 9  -> c.sensitivity = "medium"
      [] r = 10 -> TRUE

SpecRuleResult(r, c) ==
    LET reasons == <<"nil context", "integrity_void", "tainted_input", "undefined_posture",
                     "missing_governance", "high_risk_requires_consent", "integrity_degraded",
                     "clean_low_sensitivity", "medium_sensitivity", "unknown_case">>
        kind    == IF r = 8 THEN "ALLOW" ELSE IF r \in {7, 9} THEN "DEGRADE" ELSE "DENY"
        scope   == CASE r = 7 -> {"read_only", "query"}
                     [] r = 8 -> {"*"}
                     [] r = 9 -> {"query", "search", "read"}
                     [] OTHER -> {}
    IN  Result(kind, reasons[r], scope, IF kind = "DENY" THEN 0 ELSE c.posture)

SpecDecide(c) ==
    LET first == SelectInSeq(<<1, 2, 3, 4, 5, 6, 7, 8, 9, 10>>, LAMBDA r : SpecRuleFires(r, c))
    IN  SpecRuleResult(first, c)

\* Decide (decision.go 40-136) returns exactly the decision, reason, scope
\* and required posture of the design's first-match rule table, for every
\* context Execute can build and for the nil context.
DecideMatchesSpec ==
    /\ Decide(CtxOf(in)) = SpecDecide(CtxOf(in))
    /\ Decide(NilContext) = SpecDecide(NilContext)

\* What reaches the user from Egress (egress.go 31-127): no bypass phrase
\* survives, an unrecognised sensitivity is always redacted (fail closed),
\* and no more adapter bytes than the leak budget reach the user.
EgressContract ==
    LET a   == ArtifactOf(in)
        out == Egress(a, in.posture, in.budget)
    IN  /\ out.content.bypassEnd = 0
        /\ in.sensitivity = "other" => out.redacted /\ out.content # a.content
        /\ out.content.payload <= in.budget

\* Posture levels are graduated constraint (THREAT_MODEL_APPENDIX.md 118-120,
\* 155): between defined levels, a higher posture requires confirmation
\* for every operation the lower one does, and at any level a riskier
\* operation requires confirmation whenever a less risky one does.
PostureGraduated ==
    LET l == in.posture
    IN  /\ \A r \in OperationRisks :
              Pos!IsValid(l) /\ Pos!IsValid(l + 1) /\ Pos!RequiresConfirmation(l, r)
                 => Pos!RequiresConfirmation(l + 1, r)
        /\ \A i \in 1..Len(RiskLadder) - 1 :
              Pos!RequiresConfirmation(l, RiskLadder[i])
                 => Pos!RequiresConfirmation(l, RiskLadder[i + 1])

=============================================================================
