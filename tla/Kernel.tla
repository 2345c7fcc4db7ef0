------------------------------- MODULE Kernel -------------------------------
(***************************************************************************)
(* The richer Go corridor (src/unnamed/part_003): concurrent Execute calls *)
(* over one SystemState, racing the state's mutators RevokeAllTokens (the  *)
(* STOP sweep) and SetIntegrityState, with wall-clock seconds passing.     *)
(*                                                                         *)
(* Each worker runs one Execute.  Its steps are cut where Execute touches  *)
(* shared state: the unlocked read of SystemState that builds the          *)
(* decision context, the ledger append of the decision, the clock read in *)
(* mintToken, AddToken under state.mu, the unlocked RevokedAt check in     *)
(* kernelExecute, the registry's VerifyToken, the adapter's Invoke, and   *)
(* the final ledger append followed by the local output stages.            *)
(***************************************************************************)
EXTENDS CDI, Naturals, Sequences, FiniteSets, TLC

CONSTANTS
    Workers,              \* goroutines each running one Execute
    Requests,             \* raw requests a caller may submit
    InitGovernance,       \* GovernanceCapsule.Rules a caller may have set
    InitConsents,         \* AuthorityCapsule.ActiveConsents a caller may have set
    InitPostures,         \* PostureLevel a caller may have set
    SetupAdapters,        \* adapter names the driver registers before Execute
    TokenTTL,             \* mintToken's 5-minute TTL, in clock seconds
    MaxClock,             \* bound: last wall-clock second explored
    MaxStops,             \* bound: RevokeAllTokens calls
    MaxIntegrityChanges,  \* bound: SetIntegrityState calls
    NoWorker              \* the worker field of receipts no worker writes

VARIABLES
    integrity,     \* SystemState.IntegrityState
    pending,       \* value SetIntegrityState is storing (holds state.mu), or NoWrite
    sys,           \* fields Execute reads but nothing writes: governance, consents, posture, registry
    active,        \* ActiveCapabilityTokens: digest -> owning worker
    clock,         \* time.Now() in whole seconds
    ledger,        \* AuditLedger receipts, genesis first
    pc, req, dec, tok, effects, resp,
    stops, changes \* calls made so far, for the bounds

vars == <<integrity, pending, sys, active, clock, ledger, pc, req, dec, tok,
          effects, resp, stops, changes>>

LOCAL FSE == INSTANCE FiniteSetsExt

NoWrite == "none"
AdapterName == "mock_adapter"
OutputText == Text(33, 33, 0)            \* "mock adapter mock_adapter invoked"
LeakBudget == 10000

\* A torn read of the two-word string header while SetIntegrityState stores
\* it: a pointer of one literal with the length of the other, equal to no
\* IntegrityState constant.
TornRead == "torn"

NoToken == [minted |-> FALSE, scope |-> {}, minPosture |-> 0, maxPosture |-> 0,
            issuedAt |-> 0, expiresAt |-> 0, revoked |-> FALSE, epoch |-> 0]

Digest(t) == <<t.scope, t.issuedAt>>    \* computeDigest: fields that vary here

Receipt(type, w, val) == [type |-> type, worker |-> w, val |-> val]

Log(type, w, val) == ledger' = Append(ledger, Receipt(type, w, val))

LockFree == pending = NoWrite

Goto(w, p) == pc' = [pc EXCEPT ![w] = p]

Respond(w, r) == /\ resp' = [resp EXCEPT ![w] = r]
                 /\ Goto(w, "done")

\* NewRegistry: an empty name -> adapter map.
NewRegistry == {}

\* Registry.Register: a name already present is an error, the map unchanged.
Register(reg, name) == IF name \in reg THEN reg ELSE reg \cup {name}

\* Registry.Get: found, or "adapter not found".
GetAdapter(reg, name) == name \in reg

\* The driver's setup: NewSystemState's NewRegistry, then Register calls.
SetupRegistry == FSE!FoldSet(LAMBDA n, r : Register(r, n), NewRegistry, SetupAdapters)

-----------------------------------------------------------------------------
Init ==
    /\ integrity = "INTEGRITY_OK"
    /\ pending = NoWrite
    /\ sys \in [governance: InitGovernance, consents: InitConsents,
                posture: InitPostures, registry: {SetupRegistry}]
    /\ active = [d \in {} |-> NoWorker]
    /\ clock = 0
    /\ ledger = <<Receipt("genesis", NoWorker, 0)>>
    /\ pc = [w \in Workers |-> "idle"]
    /\ req = [w \in Workers |-> CHOOSE r \in Requests : TRUE]
    /\ dec = [w \in Workers |-> Deny("") @@ [during |-> {}]]
    /\ tok = [w \in Workers |-> NoToken]
    /\ effects = [w \in Workers |-> FALSE]
    /\ resp = [w \in Workers |-> "none"]
    /\ stops = 0
    /\ changes = 0

\* Values an unlocked read of IntegrityState can return (part_003 240).
IntegrityReads ==
    IF pending = NoWrite \/ pending = integrity THEN {integrity}
    ELSE {integrity, pending, TornRead}

\* Execute 222-251: Ingress, then the context built from unlocked reads of
\* SystemState, then cdi.Decide.  A failed ingress returns before any
\* decision or receipt.  The decision also keeps, for checking only, the
\* integrity values stored or being stored while it read.
IngressAndDecide(w) ==
    /\ pc[w] = "idle"
    /\ \E r \in Requests :
        /\ req' = [req EXCEPT ![w] = r]
        /\ IF ~IngressOk(r)
           THEN /\ Respond(w, "ingress_failed")
                /\ UNCHANGED dec
           ELSE \E seen \in IntegrityReads :
                  LET ctx == [integrity |-> seen, labels |-> DetectTaint(r),
                              posture |-> sys.posture, governance |-> sys.governance,
                              sensitivity |-> r.sensitivity, consents |-> sys.consents]
                  IN  /\ dec' = [dec EXCEPT ![w] = Decide(ctx) @@
                                   [during |-> {integrity} \cup (IF LockFree THEN {} ELSE {pending})]]
                      /\ Goto(w, "log_decision")
                      /\ UNCHANGED resp
    /\ UNCHANGED <<integrity, pending, sys, active, clock, ledger, tok, effects, stops, changes>>

\* Mutant: the DENY early return dropped.
LogDecisionNoDenyReturn(w) ==
    /\ pc[w] = "log_decision"
    /\ Log("cdi_decision", w, dec[w].decision)
    /\ Goto(w, "mint")
    /\ UNCHANGED <<integrity, pending, sys, active, clock, req, dec, tok, effects, resp, stops, changes>>

\* Execute 253-265: AppendCDIDecision for every decision; DENY then returns
\* with no token minted.
LogDecision(w) ==
    /\ pc[w] = "log_decision"
    /\ Log("cdi_decision", w, dec[w].decision)
    /\ IF dec[w].decision = "DENY"
       THEN Respond(w, "denied")
       ELSE /\ Goto(w, "mint")
            /\ UNCHANGED resp
    /\ UNCHANGED <<integrity, pending, sys, active, clock, req, dec, tok, effects, stops, changes>>

\* Mutant: the posture ceiling one past P4.
\* capabilities.Mint: IssuedAt now, ExpiresAt now + ttl, not revoked; the
\* epoch (STOPs so far) is the model's own bookkeeping.
Mint(scope, minPosture, maxPosture) ==
    [minted |-> TRUE, scope |-> scope, minPosture |-> minPosture,
     maxPosture |-> maxPosture, issuedAt |-> clock, expiresAt |-> clock + TokenTTL,
     revoked |-> FALSE, epoch |-> stops]

MintTokenCeilingP5(w) ==
    /\ pc[w] = "mint"
    /\ tok' = [tok EXCEPT ![w] =
                 Mint(IF dec[w].scope = {} THEN {"*"} ELSE dec[w].scope,
                      dec[w].requiredPosture, 5)]
    /\ Goto(w, "add")
    /\ UNCHANGED <<integrity, pending, sys, active, clock, ledger, req, dec, effects, resp, stops, changes>>

\* mintToken 333-363 with capabilities.Mint: an empty scope becomes {"*"},
\* posture bounds [RequiredPosture, 4], IssuedAt now, ExpiresAt now + TTL.
MintToken(w) ==
    /\ pc[w] = "mint"
    /\ tok' = [tok EXCEPT ![w] =
                 Mint(IF dec[w].scope = {} THEN {"*"} ELSE dec[w].scope,
                      dec[w].requiredPosture, 4)]
    /\ Goto(w, "add")
    /\ UNCHANGED <<integrity, pending, sys, active, clock, ledger, req, dec, effects, resp, stops, changes>>

\* AddToken 183-189: under state.mu, store the token under its digest
\* (replacing any token with the same digest) and AppendTokenMint.
AddToken(w) ==
    /\ pc[w] = "add"
    /\ LockFree
    /\ active' = [d \in DOMAIN active \cup {Digest(tok[w])} |->
                    IF d = Digest(tok[w]) THEN w ELSE active[d]]
    /\ Log("token_mint", w, tok[w].scope)
    /\ Goto(w, "check_stop")
    /\ UNCHANGED <<integrity, pending, sys, clock, req, dec, tok, effects, resp, stops, changes>>

\* Mutant: a revoked token waits for a valid one instead of returning.
CheckRevokedRetry(w) ==
    /\ pc[w] = "check_stop"
    /\ IF tok[w].revoked
       THEN UNCHANGED vars
       ELSE /\ Goto(w, "verify")
            /\ UNCHANGED <<integrity, pending, sys, active, clock, ledger, req, dec, tok, effects, resp, stops, changes>>

\* kernelExecute 369-371: a revoked token returns an error at once.
CheckRevoked(w) ==
    /\ pc[w] = "check_stop"
    /\ IF tok[w].revoked
       THEN Respond(w, "kernel_execute_failed")
       ELSE /\ Goto(w, "verify")
            /\ UNCHANGED resp
    /\ UNCHANGED <<integrity, pending, sys, active, clock, ledger, req, dec, tok, effects, stops, changes>>

\* Token.Verify 364-386 at the current second and posture.
TokenValid(t, now, posture) ==
    /\ ~t.revoked
    /\ ~(now > t.expiresAt)
    /\ posture >= t.minPosture
    /\ posture <= t.maxPosture

\* MockAdapter.VerifyToken 61-78: Verify, then the adapter's name or "*".
\* Token.HasScope: the operation is one of the token's scopes.
HasScope(t, operation) == operation \in t.scope

VerifyToken(t, now, posture) ==
    /\ TokenValid(t, now, posture)
    /\ HasScope(t, AdapterName) \/ HasScope(t, "*")

\* Registry.Invoke 81-90 up to verification, and kernelExecute 381-386 on
\* its error: Get fails for an unregistered adapter, VerifyToken rejects;
\* either way AppendAdapterAttempt(false) and Execute returns the error.
RegistryVerify(w) ==
    /\ pc[w] = "verify"
    /\ IF GetAdapter(sys.registry, AdapterName) /\ VerifyToken(tok[w], clock, sys.posture)
       THEN /\ Goto(w, "invoke")
            /\ UNCHANGED <<ledger, resp>>
       ELSE /\ Log("adapter_attempt", w, FALSE)
            /\ Respond(w, "kernel_execute_failed")
    /\ UNCHANGED <<integrity, pending, sys, active, clock, req, dec, tok, effects, stops, changes>>

\* Registry.Invoke 92-94, MockAdapter.Invoke 38-57: the side effect.
AdapterInvoke(w) ==
    /\ pc[w] = "invoke"
    /\ effects' = [effects EXCEPT ![w] = TRUE]
    /\ Goto(w, "finish")
    /\ UNCHANGED <<integrity, pending, sys, active, clock, ledger, req, dec, tok, resp, stops, changes>>

\* kernelExecute 388-398 and Execute 292-329: AppendAdapterAttempt(true),
\* then DecideOutput (DENY blocks egress) and Egress of the adapter's
\* message under the 10000-byte budget.
FinishExecute(w) ==
    /\ pc[w] = "finish"
    /\ Log("adapter_attempt", w, TRUE)
    /\ LET sens == req[w].sensitivity
           out  == Egress([content |-> OutputText, sensitivity |-> sens,
                           leakBudgetUsed |-> OutputText.len], sys.posture, LeakBudget)
       IN  Respond(w, IF DecideOutput(OutputText, sens, sys.posture).decision = "DENY"
                      THEN "output_blocked"
                      ELSE IF out.redacted THEN "delivered_redacted" ELSE "delivered")
    /\ UNCHANGED <<integrity, pending, sys, active, clock, req, dec, tok, effects, stops, changes>>

-----------------------------------------------------------------------------
(* The state's mutators, called by other goroutines.                       *)

\* RevokeAllTokens 170-180: under state.mu, revoke every token in the map
\* and AppendStopEvent with the map's size.
\* Token.Revoke: RevokedAt set, irreversibly.
Revoke(t) == [t EXCEPT !.revoked = TRUE]

RevokeAllTokens ==
    /\ stops < MaxStops
    /\ LockFree
    /\ LET swept == {active[d] : d \in DOMAIN active}
       IN  tok' = [w \in Workers |-> IF w \in swept
                                     THEN Revoke(tok[w]) ELSE tok[w]]
    /\ Log("stop_event", NoWorker, Cardinality(DOMAIN active))
    /\ stops' = stops + 1
    /\ UNCHANGED <<integrity, pending, sys, active, clock, pc, req, dec, effects, resp, changes>>

\* SetIntegrityState 152-159, first half: state.mu taken, the new value
\* being stored.
SetIntegrityBegin(s) ==
    /\ changes < MaxIntegrityChanges
    /\ LockFree
    /\ pending' = s
    /\ changes' = changes + 1
    /\ UNCHANGED <<integrity, sys, active, clock, ledger, pc, req, dec, tok, effects, resp, stops>>

\* Second half: the value stored, AppendIntegrityStateChange, unlock.
SetIntegrityEnd ==
    /\ ~LockFree
    /\ integrity' = pending
    /\ pending' = NoWrite
    /\ Log("integrity_state_change", NoWorker, pending)
    /\ UNCHANGED <<sys, active, clock, pc, req, dec, tok, effects, resp, stops, changes>>

Tick ==
    /\ clock < MaxClock
    /\ clock' = clock + 1
    /\ UNCHANGED <<integrity, pending, sys, active, ledger, pc, req, dec, tok, effects, resp, stops, changes>>

\* Every Execute has returned: the system stays put.
Terminated ==
    /\ \A w \in Workers : pc[w] = "done"
    /\ UNCHANGED vars

Step(w) ==
    \/ IngressAndDecide(w) \/ LogDecision(w) \/ MintToken(w) \/ AddToken(w)
    \/ CheckRevoked(w) \/ RegistryVerify(w) \/ AdapterInvoke(w) \/ FinishExecute(w)

Next ==
    \/ \E w \in Workers : Step(w)
    \/ RevokeAllTokens
    \/ \E s \in IntegrityStates : SetIntegrityBegin(s)
    \/ SetIntegrityEnd
    \/ Tick
    \/ Terminated

\* Each goroutine keeps running until Execute returns (no step blocks but
\* AddToken on state.mu), and a SetIntegrityState that holds state.mu
\* finishes.
Fairness ==
    /\ \A w \in Workers : WF_vars(Step(w))
    /\ WF_vars(SetIntegrityEnd)

Spec == Init /\ [][Next]_vars /\ Fairness

-----------------------------------------------------------------------------
(* Properties                                                              *)

Statuses == {"none", "ingress_failed", "denied", "kernel_execute_failed",
             "output_blocked", "delivered", "delivered_redacted"}

TypeOK ==
    /\ integrity \in IntegrityStates
    /\ pending \in IntegrityStates \cup {NoWrite}
    /\ DOMAIN active \subseteq {Digest(tok[w]) : w \in Workers}
    /\ \A d \in DOMAIN active : active[d] \in Workers
    /\ clock \in 0..MaxClock
    /\ pc \in [Workers -> {"idle", "log_decision", "mint", "add", "check_stop",
                           "verify", "invoke", "finish", "done"}]
    /\ req \in [Workers -> Requests]
    /\ \A w \in Workers : {tok[w].minPosture, tok[w].maxPosture} \subseteq 0..4
    /\ \A w \in Workers : dec[w].decision \in Decisions
    /\ effects \in [Workers -> BOOLEAN]
    /\ resp \in [Workers -> Statuses]
    /\ stops \in 0..MaxStops /\ changes \in 0..MaxIntegrityChanges

ReceiptsOf(w, type) == {i \in DOMAIN ledger : ledger[i].worker = w /\ ledger[i].type = type}

\* Judge before power, as the ledger shows it (Execute 253-289,
\* kernelExecute 381-389): each worker writes at most one decision, one
\* token_mint and one adapter_attempt receipt, in that order; a token_mint
\* follows a non-DENY decision; a side effect happens only after its
\* token_mint receipt, and by the time Execute returns every side effect has
\* a successful adapter_attempt receipt and every successful receipt a
\* side effect.
CorridorOrder ==
    \A w \in Workers :
        LET D == ReceiptsOf(w, "cdi_decision")
            M == ReceiptsOf(w, "token_mint")
            A == ReceiptsOf(w, "adapter_attempt")
        IN  /\ Cardinality(D) <= 1 /\ Cardinality(M) <= 1 /\ Cardinality(A) <= 1
            /\ \A m \in M : \E d \in D : d < m /\ ledger[d].val # "DENY"
            /\ \A a \in A : \E m \in M : m < a
            /\ effects[w] => M # {}
            /\ \A a \in A : ledger[a].val = TRUE => effects[w]
            /\ (pc[w] = "done" /\ effects[w]) => \E a \in A : ledger[a].val = TRUE

\* Every Execute returns: no step of the corridor waits forever or retries
\* (kernelExecute returns at once on a revoked token, Registry.Invoke on a
\* failed verification).
RequestsComplete == \A w \in Workers : <>(pc[w] = "done")

\* STOP dominance (design, concurrency section): once RevokeAllTokens has
\* returned, no adapter side effect may happen under a token minted before
\* it.  A step that performs a side effect uses a token minted after the
\* last completed sweep.
StopDominance ==
    [][\A w \in Workers : (~effects[w] /\ effects'[w]) => tok[w].epoch = stops]_vars

\* The STOP sweep is complete (design, testable property 5; the C7
\* conformance test): every token registered before a stop_event is
\* revoked, and the stop_event counts exactly the tokens registered before
\* it.
StopSweepComplete ==
    \A j \in DOMAIN ledger : ledger[j].type = "stop_event" =>
        /\ \A w \in Workers : (\E i \in ReceiptsOf(w, "token_mint") : i < j) => tok[w].revoked
        /\ ledger[j].val = Cardinality({i \in 1..j : ledger[i].type = "token_mint"})

\* Fail closed on missing governance (design, testable property 1): with no
\* governance rules configured no capability token is minted.
GovernanceFailClosed ==
    \A w \in Workers : tok[w].minted => sys.governance = "rules"

\* DEGRADED integrity grants at most a subset and VOID denies (design,
\* kernel section): a full ALLOW is only decided while the integrity state
\* stored, or being stored, is OK.
IntegrityRespected ==
    \A w \in Workers : dec[w].decision = "ALLOW" => "INTEGRITY_OK" \in dec[w].during
=============================================================================
