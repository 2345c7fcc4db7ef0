------------------------------ MODULE Corridor ------------------------------
(***************************************************************************)
(* What the corridor promises, from SPEC.md section 2.3 and axioms         *)
(* ONE_PATH_LAW, FAIL_CLOSED and STOP_DOMINANCE (section 3): every request *)
(* is judged before anything acts on it; a request whose prerequisites are *)
(* missing (no governance capsule) or under STOP is denied, and a DENY is  *)
(* terminal; an allowed request may still be refused by its adapter; every *)
(* request is eventually answered.                                         *)
(*                                                                         *)
(* log is the sequence of judgements and effects a reader of the receipts  *)
(* sees.  permitted[r] is whether r's system state lets it pass the judge. *)
(***************************************************************************)
EXTENDS Naturals, Sequences

CONSTANT Requests

VARIABLES phase,      \* phase[r]: "new", "allowed", "acted" or "done"
          permitted,  \* permitted[r]: governance capsule present and no STOP
          log         \* judgements and effects, oldest first

vars == <<phase, permitted, log>>

Events == {"ALLOW", "DENY", "EFFECT", "REFUSE"}

Init ==
    /\ phase = [r \in Requests |-> "new"]
    /\ permitted \in [Requests -> BOOLEAN]
    /\ log = <<>>

\* The judge: DENY is always possible, ALLOW only for a permitted request.
Judge(r) ==
    /\ phase[r] = "new"
    /\ \E v \in {"DENY"} \cup (IF permitted[r] THEN {"ALLOW"} ELSE {}) :
          /\ log' = Append(log, [ev |-> v, r |-> r])
          /\ phase' = [phase EXCEPT ![r] = IF v = "ALLOW" THEN "allowed" ELSE "done"]
    /\ UNCHANGED permitted

\* Power: the side effect of an allowed request.
Act(r) ==
    /\ phase[r] = "allowed"
    /\ log' = Append(log, [ev |-> "EFFECT", r |-> r])
    /\ phase' = [phase EXCEPT ![r] = "acted"]
    /\ UNCHANGED permitted

\* The adapter refuses an allowed request; nothing acts.
Refuse(r) ==
    /\ phase[r] = "allowed"
    /\ log' = Append(log, [ev |-> "REFUSE", r |-> r])
    /\ phase' = [phase EXCEPT ![r] = "done"]
    /\ UNCHANGED permitted

\* The response of a request that acted is returned.
Answer(r) ==
    /\ phase[r] = "acted"
    /\ phase' = [phase EXCEPT ![r] = "done"]
    /\ UNCHANGED <<permitted, log>>

Step(r) == Judge(r) \/ Act(r) \/ Refuse(r) \/ Answer(r)

Next == \E r \in Requests : Step(r)

Spec == Init /\ [][Next]_vars /\ \A r \in Requests : WF_vars(Step(r))

=============================================================================
