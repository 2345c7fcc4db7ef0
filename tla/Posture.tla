------------------------------ MODULE Posture ------------------------------
(***************************************************************************)
(* The pure functions of package posture (src/audit/THREAT_MODEL_APPENDIX  *)
(* .md 118-214): the level constants, IsValid, RequiresConfirmation and    *)
(* FailClosed.  A level is any Go int a caller passes; an operation risk   *)
(* is any string, of which the code tells apart "high", "medium" and       *)
(* "low".                                                                  *)
(***************************************************************************)
EXTENDS Integers

\* P0 undefined, P1 default restrictive ... P4 maximum constraint.
P0 == 0
P1 == 1
P2 == 2
P3 == 3
P4 == 4

\* IsValid: a defined level is one of P1..P4.
IsValid(level) == level >= P1 /\ level <= P4

\* Mutant: the traditional escalation model, more freedom at higher levels.
RequiresConfirmationEscalating(level, operationRisk) ==
    IF level = P0 THEN TRUE
    ELSE CASE operationRisk = "high"   -> level <= P2
           [] operationRisk = "medium" -> level >= P3
           [] operationRisk = "low"    -> level >= P4
           [] OTHER                    -> TRUE

\* RequiresConfirmation: P0 always; otherwise high from P2, medium from P3,
\* low from P4; an unknown risk always (fail closed).
RequiresConfirmation(level, operationRisk) ==
    IF level = P0 THEN TRUE
    ELSE CASE operationRisk = "high"   -> level >= P2
           [] operationRisk = "medium" -> level >= P3
           [] operationRisk = "low"    -> level >= P4
           [] OTHER                    -> TRUE

\* FailClosed: only P0 with a high-risk operation.
FailClosed(level, operationRisk) == level = P0 /\ operationRisk = "high"

=============================================================================
