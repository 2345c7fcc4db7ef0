--------------------------- MODULE MinimalCorridor ---------------------------
(***************************************************************************)
(* The minimal corridor of the internal/ tier: Kernel.ExecuteCorridor     *)
(* (internal/kernel/kernel.go) with the stub CDI (unnamed/part_001),      *)
(* cif.Ingress/Egress, capabilities.Mint, the NoopModelAdapter and the     *)
(* audit.Ledger, run by cmd/kernel/main.go.                                *)
(*                                                                         *)
(* Nothing here runs concurrently: the caller runs ExecuteCorridor once    *)
(* per request, one after the other, on one kernel and one ledger.  The    *)
(* requests are 1..N, each with the SystemState and principal its caller   *)
(* passes (fixed at Init).  The only thing that moves under the corridor   *)
(* is the wall clock: every time.Now().UTC() strips Go's monotonic         *)
(* reading, so a clock step (NTP, an operator) between Mint and Verify is  *)
(* seen as is.  Time is counted in units of the token TTL's scale.         *)
(*                                                                         *)
(* A Receipt keeps EventType, Decision and TokenDigest; TimeUTC and        *)
(* PostureLevel are left out.  Its req field is a history field naming the *)
(* request that appended it; the code does not store it.  The digest is   *)
(* SHA-256 over issuer, subject, audience, namespace, principal and        *)
(* ExpiresAt, modelled as the tuple of the inputs that vary (issuer and    *)
(* audience are fixed; subject and principal are both PrincipalID, and the *)
(* namespace is folded into the principal).                                *)
(***************************************************************************)
EXTENDS Naturals, Sequences, SequencesExt

CONSTANTS N,           \* requests run through the corridor
          Principals,  \* PrincipalIDs callers pass
          TTL,         \* 30*time.Second
          MaxClock     \* last modelled wall-clock reading

ASSUME N \in Nat /\ TTL \in Nat /\ MaxClock \in Nat

Requests == 1..N

VARIABLES sstate,     \* sstate[r]: the SystemState passed with request r
          principal,  \* principal[r]: its PrincipalID
          cur,        \* the request ExecuteCorridor is running
          pc,         \* where in ExecuteCorridor it is
          now,        \* time.Now().UTC()
          token,      \* capability_token of the running call
          ledger,     \* l.receipts
          resp        \* resp[r]: the OIResponse returned for r

vars == <<sstate, principal, cur, pc, now, token, ledger, resp>>

NoToken == [digest |-> <<>>, expiresAt |-> 0, revoked |-> FALSE]
NoResp  == [denied |-> FALSE, reason |-> "none"]

\* An audit.Receipt literal; req is the history field.
Receipt(type, decision, digest) ==
    [type |-> type, decision |-> decision, digest |-> digest, req |-> cur]

\* Ledger.Append: an unsynchronised append to l.receipts.
AppendReceipt(rs) == ledger' = ledger \o rs

\* main: a new ledger and kernel; the first request's state is main's
\* {PostureLevel LOW, GovernanceCapsuleOK true}, the others any SystemState.
Init ==
    /\ sstate \in [Requests -> [gov: BOOLEAN, stop: BOOLEAN]]
    /\ N > 0 => sstate[1] = [gov |-> TRUE, stop |-> FALSE]
    /\ principal \in [Requests -> Principals]
    /\ cur = 1
    /\ pc = "ingress"
    /\ now \in 0..MaxClock
    /\ token = NoToken
    /\ ledger = <<>>
    /\ resp = [r \in Requests |-> NoResp]

-----------------------------------------------------------------------------
(* The stages                                                              *)

\* cif.Ingress: never fails; labels every request UNTRUSTED with an
\* UNKNOWN sensitivity.
CifIngress(r) == [request |-> r, taintLabels |-> {"UNTRUSTED"}, sensitivity |-> "UNKNOWN"]

\* cif.Egress: returns the output unchanged.
CifEgress(o) == o

\* Mutant: the STOP check dropped from DecideAction.
DecideActionNoStop(labeled, s) ==
    IF ~s.gov THEN [value |-> "DENY", reason |-> "MISSING_GOVERNANCE_CAPSULE"]
    ELSE [value |-> "ALLOW", reason |-> "ALLOW_LOW_RISK_DEFAULT"]

\* cdi.DecideAction: fail closed without a governance capsule, then STOP
\* dominance, then the stub's default ALLOW.  The labelled request is not
\* read.
DecideAction(labeled, s) ==
    IF ~s.gov THEN [value |-> "DENY", reason |-> "MISSING_GOVERNANCE_CAPSULE"]
    ELSE IF s.stop THEN [value |-> "DENY", reason |-> "STOP_DOMINANCE"]
    ELSE [value |-> "ALLOW", reason |-> "ALLOW_LOW_RISK_DEFAULT"]

\* cdi.DecideOutput: the stub always allows.
DecideOutput == [value |-> "ALLOW", reason |-> "ALLOW_OUTPUT_DEFAULT"]

\* capabilities.Mint at wall-clock time t: ExpiresAt = IssuedAt + ttl; the
\* digest covers the principal and ExpiresAt; RevokedAt is nil.
Mint(p, t) == [digest |-> <<p, t + TTL>>, expiresAt |-> t + TTL, revoked |-> FALSE]

\* CapabilityToken.IsExpired: now.After(ExpiresAt).
IsExpired(tok, t) == t > tok.expiresAt

\* CapabilityToken.IsRevoked: RevokedAt is set.
IsRevoked(tok) == tok.revoked

\* NoopModelAdapter.Verify: revoked, then expired; posture is not checked.
Verify(tok, t) ==
    IF IsRevoked(tok) THEN "TOKEN_REVOKED"
    ELSE IF IsExpired(tok, t) THEN "TOKEN_EXPIRED"
    ELSE "nil"

\* Return from ExecuteCorridor with response o; the caller runs the next.
Return(o) ==
    /\ resp' = [resp EXCEPT ![cur] = o]
    /\ cur' = cur + 1
    /\ pc' = "ingress"
    /\ token' = NoToken

\* Steps 1-2: cif.Ingress (its error return is dead) and cdi.DecideAction
\* with its CDI_ACTION receipt; a DENY returns.
Ingress ==
    /\ pc = "ingress" /\ cur \in Requests
    /\ LET d == DecideAction(CifIngress(cur), sstate[cur])
       IN  /\ AppendReceipt(<< Receipt("CDI_ACTION", d.value, <<>>) >>)
           /\ IF d.value = "DENY"
              THEN Return([denied |-> TRUE, reason |-> d.reason])
              ELSE /\ pc' = "mint"
                   /\ UNCHANGED <<cur, token, resp>>
    /\ UNCHANGED <<sstate, principal, now>>

\* Mutant: the TOKEN_MINT receipt not appended.
MintTokenUnlogged ==
    /\ pc = "mint"
    /\ token' = Mint(principal[cur], now)
    /\ pc' = "invoke"
    /\ UNCHANGED <<sstate, principal, cur, now, ledger, resp>>

\* Step 3: mint the token and append TOKEN_MINT with its digest.
MintToken ==
    /\ pc = "mint"
    /\ token' = Mint(principal[cur], now)
    /\ AppendReceipt(<< Receipt("TOKEN_MINT", "", token'.digest) >>)
    /\ pc' = "invoke"
    /\ UNCHANGED <<sstate, principal, cur, now, resp>>

\* NoopModelAdapter.InvokeModel: Verify's error, or nil and the input
\* unchanged (the no-op model call).
AdapterInvokeModel(tok, t) == Verify(tok, t)

\* Step 4: k.adapter.InvokeModel at the current wall clock; an error
\* appends ADAPTER_DENY and returns ADAPTER_DENIED, success (the model
\* call, the side effect) appends ADAPTER_OK.
InvokeModel ==
    /\ pc = "invoke"
    /\ IF AdapterInvokeModel(token, now) # "nil"
       THEN /\ AppendReceipt(<< Receipt("ADAPTER_DENY", "", token.digest) >>)
            /\ Return([denied |-> TRUE, reason |-> "ADAPTER_DENIED"])
       ELSE /\ AppendReceipt(<< Receipt("ADAPTER_OK", "", token.digest) >>)
            /\ pc' = "output"
            /\ UNCHANGED <<cur, token, resp>>
    /\ UNCHANGED <<sstate, principal, now>>

\* Steps 5-7: the output artifact, cdi.DecideOutput with its CDI_OUTPUT
\* receipt (a DENY would return), and cif.Egress, the identity.
Output ==
    /\ pc = "output"
    /\ LET d == DecideOutput
       IN  /\ AppendReceipt(<< Receipt("CDI_OUTPUT", d.value, <<>>) >>)
           /\ Return(IF d.value = "DENY" THEN [denied |-> TRUE, reason |-> d.reason]
                     ELSE CifEgress([denied |-> FALSE, reason |-> "none"]))
    /\ UNCHANGED <<sstate, principal, now>>

\* The wall clock moves, forward or back, by any step.
Tick ==
    /\ \E t \in 0..MaxClock \ {now} : now' = t
    /\ UNCHANGED <<sstate, principal, cur, pc, token, ledger, resp>>

Corridor == Ingress \/ MintToken \/ InvokeModel \/ Output

Next == Corridor \/ Tick

\* The calls run to completion: a Go function that is not blocked keeps
\* running, so the corridor's steps are weakly fair; the clock is not.
Spec == Init /\ [][Next]_vars /\ WF_vars(Corridor)

-----------------------------------------------------------------------------
(* Refinement: the corridor implements Corridor                            *)

\* A request before cur has returned and one after it has not started; the
\* running one is "new" until DecideAction allows it, "allowed" while its
\* token is minted and verified, and "acted" once ADAPTER_OK is appended.
PhaseOf(r) ==
    IF r < cur THEN "done"
    ELSE IF r > cur THEN "new"
    ELSE CASE pc = "ingress" -> "new"
           [] pc \in {"mint", "invoke"} -> "allowed"
           [] pc = "output" -> "acted"

\* The receipts a reader sees as judgements and effects.
Judged(x) == x.type \in {"CDI_ACTION", "ADAPTER_OK", "ADAPTER_DENY"}

AsEvent(x) ==
    [ev |-> CASE x.type = "CDI_ACTION" -> x.decision
              [] x.type = "ADAPTER_OK" -> "EFFECT"
              [] x.type = "ADAPTER_DENY" -> "REFUSE",
     r  |-> x.req]

EventLog ==
    LET js == SelectSeq(ledger, Judged)
    IN  [i \in 1..Len(js) |-> AsEvent(js[i])]

C == INSTANCE Corridor WITH
        phase     <- [r \in Requests |-> PhaseOf(r)],
        permitted <- [r \in Requests |-> sstate[r].gov /\ ~sstate[r].stop],
        log       <- EventLog

-----------------------------------------------------------------------------
(* Properties                                                              *)

\* ONE_PATH_LAW, FAIL_CLOSED and STOP_DOMINANCE as SPEC.md states them:
\* under any wall-clock steps, ExecuteCorridor's receipts show every
\* request judged by DecideAction before its adapter call, only a request
\* with a governance capsule and no STOP allowed, a DENY ending the
\* request, and every request answered (Corridor's Spec, fairness included).
CSpec == C!Spec

\* The receipt types of one request, in order.
TypesOf(r) == LET rs == SelectSeq(ledger, LAMBDA x : x.req = r)
              IN  [i \in 1..Len(rs) |-> rs[i].type]

Pipelines ==
    { <<"CDI_ACTION">>,
      <<"CDI_ACTION", "TOKEN_MINT", "ADAPTER_DENY">>,
      <<"CDI_ACTION", "TOKEN_MINT", "ADAPTER_OK", "CDI_OUTPUT">> }

\* TestPipelineOrder_ProducesReceipts, for every sequence of requests and
\* clock steps: the shared ledger is the requests' receipts one request
\* after another, a returned request left one whole pipeline, the running
\* one a prefix of one, and the adapter receipt cites the digest of the
\* TOKEN_MINT receipt of the same request.
PipelineReceipts ==
    /\ \A i, j \in 1..Len(ledger) : i < j => ledger[i].req <= ledger[j].req
    /\ \A r \in Requests :
          /\ r < cur => TypesOf(r) \in Pipelines
          /\ r = cur => \E p \in Pipelines : IsPrefix(TypesOf(r), p)
          /\ r > cur => TypesOf(r) = <<>>
    /\ \A i, j \in 1..Len(ledger) :
          /\ ledger[i].req = ledger[j].req
          /\ ledger[i].type = "TOKEN_MINT"
          /\ ledger[j].type \in {"ADAPTER_OK", "ADAPTER_DENY"}
          => ledger[j].digest = ledger[i].digest

=============================================================================
