-------------------------------- MODULE CDI --------------------------------
(***************************************************************************)
(* The pure decision and boundary logic of the richer Go corridor:         *)
(*   - CIF ingress labelling   (kernel-go/internal/cif/egress.go 151-273)  *)
(*   - CDI action decision     (kernel-go/internal/cdi/decision.go 40-144) *)
(*   - CDI output decision     (decision.go 148-176)                       *)
(*   - CIF egress shaping      (egress.go 31-127)                          *)
(* Text is abstracted to what the scans tell apart: a raw input is a       *)
(* record saying which pattern families it contains and how large it is;   *)
(* an output is its byte length, how many of those bytes are adapter      *)
(* output (the rest are fixed markers), and the end offset of its first    *)
(* bypass phrase (0 when it contains none).                                *)
(***************************************************************************)
EXTENDS Naturals, FiniteSets

IntegrityStates == {"INTEGRITY_OK", "INTEGRITY_DEGRADED", "INTEGRITY_VOID"}

\* GovernanceCapsule.Rules: a nil map, an empty non-nil map, or real rules.
GovernanceStates == {"nil", "empty", "rules"}

\* The caller-supplied metadata["sensitivity"]; "other" stands for any
\* string the code does not name (assessSensitivity passes it through).
Sensitivities == {"low", "medium", "high", "other"}

Decisions == {"ALLOW", "DEGRADE", "DENY"}

\* The value Execute passes when it has no context (Decide's nil check).
NilContext == [isNil |-> TRUE]

-----------------------------------------------------------------------------
(* CIF ingress                                                             *)

MaxInputBytes == 100 * 1024

\* Ingress: empty and oversized inputs are rejected before any labelling.
IngressOk(raw) == raw.size > 0 /\ raw.size <= MaxInputBytes

\* detectTaint: one label per pattern family found, else exactly "clean".
DetectTaint(raw) ==
    LET found == (IF raw.smuggling THEN {"instruction_smuggling_attempt"} ELSE {})
                 \cup (IF raw.pressure THEN {"pressure_tactic"} ELSE {})
    IN  IF found = {} THEN {"clean"} ELSE found

\* LabeledRequest.IsTainted: any label other than "clean".
IsTainted(labels) == \E l \in labels : l # "clean"

-----------------------------------------------------------------------------
(* CDI action decision                                                     *)

Result(d, reason, scope, required) ==
    [decision |-> d, reason |-> reason, scope |-> scope, requiredPosture |-> required]

\* A DENY leaves DegradedScope nil and RequiredPosture 0.
Deny(reason) == Result("DENY", reason, {}, 0)

\* hasConsent: a nil map, a missing key and a false value all read false;
\* the model keeps the set of keys whose value is true.
hasConsent(consents, required) == required \in consents

\* Mutant: the DEGRADED check moved ahead of the consent check.
evaluateRequestDegradedFirst(ctx) ==
    IF ctx.integrity = "INTEGRITY_DEGRADED"
    THEN Result("DEGRADE", "integrity_degraded", {"read_only", "query"}, ctx.posture)
    ELSE IF ctx.sensitivity = "high" /\ ~hasConsent(ctx.consents, "high_risk_operations")
    THEN Deny("high_risk_requires_consent")
    ELSE IF ctx.sensitivity = "low" /\ ~IsTainted(ctx.labels)
    THEN Result("ALLOW", "clean_low_sensitivity", {"*"}, ctx.posture)
    ELSE IF ctx.sensitivity = "medium"
    THEN Result("DEGRADE", "medium_sensitivity", {"query", "search", "read"}, ctx.posture)
    ELSE Deny("unknown_case")

evaluateRequest(ctx) ==
    IF ctx.sensitivity = "high" /\ ~hasConsent(ctx.consents, "high_risk_operations")
    THEN Deny("high_risk_requires_consent")
    ELSE IF ctx.integrity = "INTEGRITY_DEGRADED"
    THEN Result("DEGRADE", "integrity_degraded", {"read_only", "query"}, ctx.posture)
    ELSE IF ctx.sensitivity = "low" /\ ~IsTainted(ctx.labels)
    THEN Result("ALLOW", "clean_low_sensitivity", {"*"}, ctx.posture)
    ELSE IF ctx.sensitivity = "medium"
    THEN Result("DEGRADE", "medium_sensitivity", {"query", "search", "read"}, ctx.posture)
    ELSE Deny("unknown_case")

\* Decide: first match wins.  Only a nil map is "missing_governance"; an
\* empty map passes on to evaluateRequest.
Decide(ctx) ==
    IF ctx = NilContext THEN Deny("nil context")
    ELSE IF ctx.integrity = "INTEGRITY_VOID" THEN Deny("integrity_void")
    ELSE IF IsTainted(ctx.labels) THEN Deny("tainted_input")
    ELSE IF ctx.posture = 0 THEN Deny("undefined_posture")
    ELSE IF ctx.governance = "nil" THEN Deny("missing_governance")
    ELSE evaluateRequest(ctx)

-----------------------------------------------------------------------------
(* CDI output decision                                                     *)

\* containsBypassPatterns is a stub that never matches.
containsBypassPatterns(content) == FALSE

DecideOutput(content, sensitivity, posture) ==
    IF sensitivity = "high" /\ posture >= 2
    THEN Deny("high_sensitivity_blocked_by_posture")
    ELSE IF containsBypassPatterns(content)
    THEN Deny("bypass_instruction_in_output")
    ELSE Result("ALLOW", "output_approved", {}, 0)

-----------------------------------------------------------------------------
(* CIF egress                                                              *)

\* Byte lengths of the fixed replacement texts.
OverBudgetMarkerLen == 33       \* "\n[REDACTED: leak budget exceeded]"
PostureRedactionLen == 60       \* "[REDACTED: sensitive content filtered ...]"
BypassBlockLen      == 53       \* "[OUTPUT BLOCKED: bypass instruction ...]"

Text(len, payload, bypassEnd) == [len |-> len, payload |-> payload, bypassEnd |-> bypassEnd]

\* A fixed replacement text: no adapter bytes, no bypass phrase.
Marker(len) == Text(len, 0, 0)

\* content[:budget] + marker: a bypass phrase survives only if it ends
\* inside the kept prefix.
redactOverBudget(content, budget) ==
    IF content.len <= budget THEN content
    ELSE Text(budget + OverBudgetMarkerLen,
              IF content.payload <= budget THEN content.payload ELSE budget,
              IF content.bypassEnd <= budget THEN content.bypassEnd ELSE 0)

\* Mutant: the fail-closed default of the switch dropped.
shouldRedactByPostureNoDefault(sensitivity, posture) ==
    CASE sensitivity = "high"   -> posture >= 2
      [] sensitivity = "medium" -> posture >= 3
      [] OTHER                  -> FALSE

shouldRedactByPosture(sensitivity, posture) ==
    CASE sensitivity = "high"   -> posture >= 2
      [] sensitivity = "medium" -> posture >= 3
      [] sensitivity = "low"    -> FALSE
      [] OTHER                  -> TRUE

redactSensitive(content) == Marker(PostureRedactionLen)

containsBypassInstructions(content) == content.bypassEnd > 0

stripBypassInstructions(content) == Marker(BypassBlockLen)

\* Egress: the three checks run in order on the running content; each one
\* that fires sets redacted and overwrites the reason.
Egress(artifact, posture, leakBudget) ==
    LET over == artifact.leakBudgetUsed > leakBudget
        c1   == IF over THEN redactOverBudget(artifact.content, leakBudget)
                ELSE artifact.content
        post == shouldRedactByPosture(artifact.sensitivity, posture)
        c2   == IF post THEN redactSensitive(c1) ELSE c1
        byp  == containsBypassInstructions(c2)
        c3   == IF byp THEN stripBypassInstructions(c2) ELSE c2
    IN  [content  |-> c3,
         redacted |-> over \/ post \/ byp,
         reason   |-> IF byp THEN "bypass_instruction_detected"
                      ELSE IF post THEN "posture_constraint"
                      ELSE IF over THEN "leak_budget_exceeded"
                      ELSE ""]
=============================================================================
