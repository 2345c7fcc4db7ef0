------------------------------ MODULE Gateway ------------------------------
(***************************************************************************)
(* The standalone hardened gateway, src/flourish.java: the App's /v1/ask   *)
(* and /v1/tool/run handlers on a pool of worker threads, the dev mint     *)
(* endpoints, the hash-chained Audit file, the NonceCache, and the App     *)
(* constructor that runs again after a crash.                              *)
(*                                                                         *)
(* Data is abstracted: a hash is the number of the append that made it    *)
(* (SHA-256 treated as injective), a nonce is a model value, an action     *)
(* hash is the pair the handler canonicalises (<<"ask", prompt>> or        *)
(* <<"tool", tool>>), a signing key pair is the boot that generated it.    *)
(* The rate limiter and the 405 method check answer without touching any  *)
(* of this state and are left out.                                         *)
(***************************************************************************)
EXTENDS Integers, Sequences, FiniteSets, Functions

CONSTANTS Threads,      \* worker threads of the executor
          Nonces,       \* UUIDs dev consent mint can draw
          Prompts,      \* prompts of /v1/ask
          ToolNames,    \* tool names a client may send
          ConsentTtl,   \* cfg.consentTtlSeconds
          NonceTtl,     \* cfg.nonceTtlSeconds
          CapTtl,       \* cfg.capTtlSeconds
          EnableDevMint,\* cfg.enableDevMint
          MaxTime,      \* bound on the epoch-second clock
          MaxBoots,     \* bound on App constructions
          MaxLines,     \* bound on Audit.append calls
          MaxStall      \* seconds a worker may stall between its exp check
                        \* and checkAndStore

ASSUME NonceTtl >= ConsentTtl   \* "Replay cache TTL (>= consent TTL)"

AllowTools == {"echo", "time"}     \* cfg.allowTools
Genesis == 0                       \* the head "GENESIS"
Absent == -1                       \* a nonce not in NonceCache.seen
NoToken == [none |-> TRUE]         \* no consent_token / cap_token in the body

Acts == {<<"ask", p>> : p \in Prompts} \cup {<<"tool", tl>> : tl \in ToolNames}

VARIABLES now,        \* Instant.now().getEpochSecond()
          up,         \* the process is running
          boots,      \* App constructions so far
          keyEpoch,   \* the boot whose SigBox key pairs are in use
          exists,     \* audit.log exists
          disk,       \* audit.log, one record per line
          head,       \* Audit.head
          hashCount,  \* Audit.append calls so far (each makes a fresh hash)
          diskState,  \* "ok", "full" (0-byte writes succeed), "unwritable"
          seen,       \* NonceCache.seen: nonce -> second it was stored
          consents,   \* consent tokens minted (held by clients)
          caps,       \* capability tokens minted
          pc,         \* pc[t]: where worker t is in its handler
          stamp,      \* stamp[t]: the second worker t checked exp at
          req,        \* req[t]: the request worker t is serving
          effects,    \* tool runs, in order
          used,       \* nonces verifyConsent accepted, in order
          receipts    \* receipts returned to clients

vars == <<now, up, boots, keyEpoch, exists, disk, head, hashCount, diskState,
          seen, consents, caps, pc, stamp, req, effects, used, receipts>>

Busy == {t \in Threads : pc[t] # "idle"}

\* Every append a started handler will make still fits the line bound.
Room == hashCount + Cardinality(Busy) < MaxLines

\* Mutant: the last line's prev field (p[2]) taken for its hash (p[3]).
LastHashPrev(d) == IF d = <<>> THEN Genesis ELSE d[Len(d)].prev

\* readLastHash: the hash field of the last line, or null (GENESIS) if empty.
LastHash(d) == IF d = <<>> THEN Genesis ELSE d[Len(d)].hash

\* Audit.append: under the lock, head moves to the new hash before the
\* write; an IOException is swallowed and the hash returned regardless.
AuditAppendFrom(prev, kind) ==
    /\ hashCount' = hashCount + 1
    /\ head' = hashCount + 1
    /\ exists' = (exists \/ diskState # "unwritable")
    /\ disk' = IF diskState = "ok"
                 THEN Append(disk, [prev |-> prev, hash |-> hashCount + 1, kind |-> kind])
                 ELSE disk

AuditAppend(kind) == AuditAppendFrom(head, kind)

\* Audit.canPersist: opening for append and writing 0 bytes succeeds.
CanPersist == diskState # "unwritable"

Init ==
    /\ now = 0
    /\ up = FALSE
    /\ boots = 0
    /\ keyEpoch = 0
    /\ exists = FALSE
    /\ disk = <<>>
    /\ head = Genesis
    /\ hashCount = 0
    /\ diskState = "ok"
    /\ seen = [n \in Nonces |-> Absent]
    /\ consents = {}
    /\ caps = {}
    /\ pc = [t \in Threads |-> "idle"]
    /\ stamp = [t \in Threads |-> 0]
    /\ req = [t \in Threads |-> NoToken]
    /\ effects = <<>>
    /\ used = <<>>
    /\ receipts = {}

(***************************************************************************)
(* App construction (main): fresh SigBox key pairs, an empty NonceCache,   *)
(* and new Audit(path): head from readLastHash if the file exists, else a  *)
(* GENESIS line.                                                           *)
(***************************************************************************)
\* Mutant: key pairs loaded from a keystore survive the restart.
KeptKeyPair == keyEpoch

\* new SigBox(...): a fresh Ed25519 key pair, unknown to every earlier boot.
FreshKeyPair == boots + 1

Start ==
    /\ ~up /\ boots < MaxBoots
    /\ up' = TRUE /\ boots' = boots + 1
    /\ keyEpoch' = FreshKeyPair
    /\ seen' = [n \in Nonces |-> Absent]
    /\ IF exists
         THEN /\ head' = LastHash(disk)
              /\ UNCHANGED <<exists, disk, hashCount>>
         ELSE /\ hashCount < MaxLines
              /\ AuditAppendFrom(Genesis, "GENESIS")
    /\ UNCHANGED <<now, stamp, diskState, consents, caps, pc, req, effects, used, receipts>>

\* The process dies: in-flight handlers and all memory are lost; the file
\* keeps every line append had already written and synced.
Crash ==
    /\ up
    /\ up' = FALSE
    /\ pc' = [t \in Threads |-> "idle"]
    /\ stamp' = [t \in Threads |-> 0]
    /\ req' = [t \in Threads |-> NoToken]
    /\ UNCHANGED <<now, boots, keyEpoch, exists, disk, head, hashCount, diskState,
                   seen, consents, caps, effects, used, receipts>>

\* The wall clock advances one second; no worker stays more than MaxStall
\* seconds between its exp check and its checkAndStore.
Tick ==
    /\ now < MaxTime
    /\ \A t \in Threads : pc[t] = "nonce" => now + 1 - stamp[t] <= MaxStall
    /\ now' = now + 1
    /\ UNCHANGED <<up, stamp, boots, keyEpoch, exists, disk, head, hashCount, diskState,
                   seen, consents, caps, pc, req, effects, used, receipts>>

(***************************************************************************)
(* Dev mint endpoints: 404 unless enableDevMint; a rejected body appends   *)
(* a DENY line.                                                            *)
(***************************************************************************)
MintedNonces == {c.nonce : c \in consents}

\* devConsentMint: a fresh UUID nonce bound to the canonical action hash.
MintConsent(a) ==
    /\ up /\ EnableDevMint /\ Room
    /\ \E n \in Nonces \ MintedNonces :
          consents' = consents \cup
              {[nonce |-> n, act |-> a, exp |-> now + ConsentTtl, epoch |-> keyEpoch]}
    /\ AuditAppend("DEV_CONSENT_MINT")
    /\ UNCHANGED <<now, stamp, up, boots, keyEpoch, diskState, seen, caps, pc, req,
                   effects, used, receipts>>

\* devCapMint: a token for a non-empty list of scopes "tool:<name>".
MintCap(scopes) ==
    /\ up /\ EnableDevMint /\ Room
    /\ scopes # {}
    /\ caps' = caps \cup {[scopes |-> scopes, exp |-> now + CapTtl, epoch |-> keyEpoch]}
    /\ AuditAppend("DEV_CAP_MINT")
    /\ UNCHANGED <<now, stamp, up, boots, keyEpoch, diskState, seen, consents, pc, req,
                   effects, used, receipts>>

\* Either mint endpoint with a body CIF, the parser or the field checks reject.
MintDeny ==
    /\ up /\ EnableDevMint /\ Room
    /\ AuditAppend("DEV_MINT_DENY")
    /\ UNCHANGED <<now, stamp, up, boots, keyEpoch, diskState, seen, consents, caps, pc,
                   req, effects, used, receipts>>

(***************************************************************************)
(* ask() and toolRun(), one worker thread each.  Receive runs the handler  *)
(* up to verifyConsent: the fail-closed canPersist check, cif.readChecked  *)
(* and the JSON parse (cifOk), and for a tool cdi.checkToolAllowed.  Any   *)
(* exception goes to the catch block, which appends a DENY line.           *)
(***************************************************************************)
\* CDI.checkToolAllowed; the "net/" test never fires, as no allowed tool
\* starts with it.
ToolAllowed(tl) == tl \in AllowTools

Receive(t, a, c, k, cifOk) ==
    /\ up /\ pc[t] = "idle" /\ Room
    /\ req' = [req EXCEPT ![t] = [op |-> a[1], act |-> a, consent |-> c, cap |-> k]]
    /\ pc' = [pc EXCEPT ![t] =
                 IF CanPersist /\ cifOk /\ (a[1] = "tool" => ToolAllowed(a[2]))
                   THEN "consent" ELSE "deny"]
    /\ UNCHANGED <<now, stamp, up, boots, keyEpoch, exists, disk, head, hashCount, diskState,
                   seen, consents, caps, effects, used, receipts>>

\* NonceCache.cleanup(now): drop entries older than ttlSec.
Cleaned == [n \in Nonces |-> IF seen[n] # Absent /\ now - seen[n] > NonceTtl
                               THEN Absent ELSE seen[n]]

\* verifySignedToken: the signature (key pair of this boot) and exp.
SignedValid(tok) == tok # NoToken /\ tok.epoch = keyEpoch /\ now <= tok.exp

\* verifyCap: signature, exp, and "tool:" + tool among the scopes.
CapValid(k, tl) == SignedValid(k) /\ tl \in k.scopes

\* verifyConsent up to the signed payload: verifySignedToken checks the
\* signature and exp at this second; v and aud always match a minted token.
CheckToken(t) ==
    /\ up /\ pc[t] = "consent"
    /\ pc' = [pc EXCEPT ![t] = IF SignedValid(req[t].consent) THEN "nonce" ELSE "deny"]
    /\ stamp' = [stamp EXCEPT ![t] = now]
    /\ UNCHANGED <<now, up, boots, keyEpoch, exists, disk, head, hashCount, diskState,
                   seen, consents, caps, req, effects, used, receipts>>

\* The rest of verifyConsent, then verifyCap for a tool.  checkAndStore
\* reads the clock again, cleans the cache and stores the nonce with
\* putIfAbsent before act_hash is compared.
StoreNonce(t) ==
    LET r     == req[t]
        c     == r.consent
        fresh == Cleaned[c.nonce] = Absent
        ok    == fresh /\ c.act = r.act
    IN
    /\ up /\ pc[t] = "nonce"
    /\ seen' = [Cleaned EXCEPT ![c.nonce] = IF fresh THEN now ELSE @]
    /\ used' = IF ok THEN Append(used, c.nonce) ELSE used
    /\ pc' = [pc EXCEPT ![t] =
                 IF ok /\ (r.op = "tool" => CapValid(r.cap, r.act[2]))
                   THEN "run" ELSE "deny"]
    /\ stamp' = [stamp EXCEPT ![t] = 0]
    /\ UNCHANGED <<now, up, boots, keyEpoch, exists, disk, head, hashCount, diskState,
                   consents, caps, req, effects, receipts>>

\* tools.run for a tool ("MODEL_STUB" for ask), before any audit line.
Run(t) ==
    /\ up /\ pc[t] = "run"
    /\ effects' = IF req[t].op = "tool" THEN Append(effects, req[t].act) ELSE effects
    /\ pc' = [pc EXCEPT ![t] = "allow"]
    /\ UNCHANGED <<now, stamp, up, boots, keyEpoch, exists, disk, head, hashCount, diskState,
                   seen, consents, caps, req, used, receipts>>

\* audit.append("ASK_ALLOW" / "TOOL_OK") and the 200 with its audit_ref.
Allow(t) ==
    /\ up /\ pc[t] = "allow"
    /\ AuditAppend(IF req[t].op = "ask" THEN "ASK_ALLOW" ELSE "TOOL_OK")
    /\ receipts' = receipts \cup {[decision |-> "ALLOW", ref |-> hashCount + 1]}
    /\ pc' = [pc EXCEPT ![t] = "idle"]
    /\ req' = [req EXCEPT ![t] = NoToken]
    /\ UNCHANGED <<now, stamp, up, boots, keyEpoch, diskState, seen, consents, caps,
                   effects, used>>

\* The catch block: audit.append("ASK_DENY" / "TOOL_DENY") and a 4xx.
Deny(t) ==
    /\ up /\ pc[t] = "deny"
    /\ AuditAppend(IF req[t].op = "ask" THEN "ASK_DENY" ELSE "TOOL_DENY")
    /\ receipts' = receipts \cup {[decision |-> "DENY", ref |-> hashCount + 1]}
    /\ pc' = [pc EXCEPT ![t] = "idle"]
    /\ req' = [req EXCEPT ![t] = NoToken]
    /\ UNCHANGED <<now, stamp, up, boots, keyEpoch, diskState, seen, consents, caps,
                   effects, used>>

\* No handler is running; the bounds may leave nothing else to do.
Quiescent ==
    /\ \A t \in Threads : pc[t] = "idle"
    /\ UNCHANGED vars

Worker(t) == CheckToken(t) \/ StoreNonce(t) \/ Run(t) \/ Allow(t) \/ Deny(t)

Next ==
    \/ Start \/ Crash \/ Tick \/ MintDeny
    \/ \E a \in Acts : MintConsent(a)
    \/ \E sc \in SUBSET ToolNames : MintCap(sc)
    \/ \E t \in Threads, a \in Acts, c \in consents \cup {NoToken},
          k \in caps \cup {NoToken}, cifOk \in BOOLEAN :
          /\ (a[1] = "ask" => k = NoToken)
          /\ Receive(t, a, c, k, cifOk)
    \/ \E t \in Threads : Worker(t)
    \/ Quiescent

Spec == Init /\ [][Next]_vars

-----------------------------------------------------------------------------
(* The disk's failures: it fills up (canPersist's 0-byte write still      *)
(* succeeds, a line's write throws) or stops accepting opens, and comes   *)
(* back.                                                                   *)

DiskChange(st) ==
    /\ st # diskState
    /\ diskState' = st
    /\ UNCHANGED <<now, stamp, up, boots, keyEpoch, exists, disk, head, hashCount,
                   seen, consents, caps, pc, req, effects, used, receipts>>

FaultNext == Next \/ \E st \in {"ok", "full", "unwritable"} : DiskChange(st)

FaultSpec == Init /\ [][FaultNext]_vars

-----------------------------------------------------------------------------
(* Properties                                                              *)

\* A consent token authorises one action: verifyConsent never accepts the
\* same nonce twice, across concurrent handlers, NonceCache.cleanup and
\* process restarts that empty the cache.
NoReplay == IsInjective(used)

\* audit.log stays one hash chain across restarts: each line's prev is the
\* hash of the line before it, the first line's prev is GENESIS.
DiskChainLinked ==
    \A i \in DOMAIN disk :
        disk[i].prev = IF i = 1 THEN Genesis ELSE disk[i - 1].hash

\* Fail closed on audit (comment at Audit.append's catch): a receipt that
\* says ALLOW names an audit line that is in audit.log.
AllowAudited ==
    \A r \in receipts :
        r.decision = "ALLOW" => \E i \in DOMAIN disk : disk[i].hash = r.ref

=============================================================================
