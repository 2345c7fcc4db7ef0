---------------------------- MODULE AuditLedger ----------------------------
(***************************************************************************)
(* The hash-chained receipt ledger of the richer Go corridor               *)
(* (kernel-go/internal/audit/ledger_test.go 186-358): NewLedger, the      *)
(* mutex-serialised append behind every Append* method, Verify, and       *)
(* computeHash.                                                            *)
(*                                                                         *)
(* SHA-256 over "%d|%d|%s|%v|%s" is modelled as an injective function: a  *)
(* hash is the tuple of the fields it covers, so two receipts hash alike   *)
(* exactly when their hashed fields agree.  Event data is one of a small   *)
(* set of values.                                                          *)
(*                                                                         *)
(* Whoever holds the receipts slice (the test does so under l.mu at lines *)
(* 33-36) may tamper with it: Spec lets that party edit stored fields.     *)
(* Recomputing the unkeyed hash after an edit, or dropping the newest      *)
(* receipt, passes Verify; SPEC.md section 4 leaves anchoring and signing  *)
(* out of the stub, so that party is not modelled.                         *)
(***************************************************************************)
EXTENDS Naturals, Sequences, FiniteSets

CONSTANTS EventTypes,      \* receipt types the Append* methods write
          EventDatas,      \* abstract EventData maps
          MaxAppends,      \* appends after the genesis receipt
          MaxClock,        \* last modelled second of time.Now().Unix()
          MaxTampers       \* edits of the stored slice

ASSUME MaxAppends \in Nat /\ MaxClock \in Nat /\ MaxTampers \in Nat

VARIABLES receipts,   \* l.receipts
          sequence,   \* l.sequence
          clock,      \* time.Now().Unix()
          written,    \* history: the receipts exactly as append wrote them
          tampers     \* edits made so far

vars == <<receipts, sequence, clock, written, tampers>>

\* prevHash of the genesis receipt and of a first append to an empty slice.
ZeroHash == <<"0000000000000000">>

GenesisData == "audit ledger initialized"

\* computeHash: injective over Sequence, Timestamp, EventType, EventData
\* and PrevHash; CurrentHash is not hashed.
computeHash(r) == <<r.seq, r.ts, r.type, r.data, r.prev>>

\* A Receipt literal followed by receipt.CurrentHash = computeHash(receipt).
Receipt(seq, ts, type, data, prev) ==
    LET r == [seq |-> seq, ts |-> ts, type |-> type, data |-> data, prev |-> prev]
    IN  [seq |-> seq, ts |-> ts, type |-> type, data |-> data, prev |-> prev,
         cur |-> computeHash(r)]

\* NewLedger: the genesis receipt, sequence 0.
Init ==
    /\ clock \in 0..MaxClock
    /\ receipts = << Receipt(0, clock, "genesis", GenesisData, ZeroHash) >>
    /\ sequence = 0
    /\ written = receipts
    /\ tampers = 0

\* Mutant: CurrentHash computed before PrevHash is filled in.
appendHashBeforeLink(type, data) ==
    LET prev == IF Len(receipts) > 0 THEN receipts[Len(receipts)].cur ELSE ZeroHash
        r    == Receipt(sequence + 1, clock, type, data, ZeroHash)
    IN  /\ sequence' = sequence + 1
        /\ receipts' = Append(receipts, [r EXCEPT !.prev = prev])

\* Mutant: l.sequence bumped twice, once more by the caller.
appendDoubleIncrement(type, data) ==
    LET prev == IF Len(receipts) > 0 THEN receipts[Len(receipts)].cur ELSE ZeroHash
    IN  /\ sequence' = sequence + 2
        /\ receipts' = Append(receipts, Receipt(sequence + 2, clock, type, data, prev))

\* append, under l.mu: bump the sequence, link to the last stored
\* CurrentHash, hash, and store.
append(type, data) ==
    LET prev == IF Len(receipts) > 0 THEN receipts[Len(receipts)].cur ELSE ZeroHash
    IN  /\ sequence' = sequence + 1
        /\ receipts' = Append(receipts, Receipt(sequence + 1, clock, type, data, prev))

\* Any Append* method (AppendCDIDecision ... AppendPostureChange).
AppendEvent ==
    /\ sequence < MaxAppends
    /\ \E type \in EventTypes, data \in EventDatas :
          /\ append(type, data)
          /\ written' = Append(written, receipts'[Len(receipts')])
    /\ UNCHANGED <<clock, tampers>>

Tick ==
    /\ clock < MaxClock
    /\ clock' = clock + 1
    /\ UNCHANGED <<receipts, sequence, written, tampers>>

-----------------------------------------------------------------------------
(* Tampering with the stored slice                                         *)

\* The test's tampering: one hashed field of one receipt changed in place.
TamperField ==
    /\ tampers < MaxTampers
    /\ \E i \in 1..Len(receipts) :
       \/ \E d \in EventDatas \cup {GenesisData} :
             receipts' = [receipts EXCEPT ![i].data = d]
       \/ \E t \in EventTypes \cup {"genesis"} :
             receipts' = [receipts EXCEPT ![i].type = t]
       \/ \E s \in 0..MaxClock :
             receipts' = [receipts EXCEPT ![i].ts = s]
    /\ receipts' # receipts
    /\ tampers' = tampers + 1
    /\ UNCHANGED <<sequence, clock, written>>

Next ==
    \/ AppendEvent
    \/ Tick
    \/ TamperField

Spec == Init /\ [][Next]_vars

-----------------------------------------------------------------------------
(* Verify                                                                  *)

\* Mutant: the per-receipt hash check dropped, only linkage checked.
VerifyLinksOnly(rs) ==
    /\ Len(rs) > 0
    /\ \A i \in 2..Len(rs) : rs[i].prev = rs[i - 1].cur

\* Verify: false on an empty slice; otherwise every receipt's stored hash
\* must equal its recomputed hash and every receipt after the first must
\* link to its predecessor's stored hash.
Verify(rs) ==
    /\ Len(rs) > 0
    /\ \A i \in 1..Len(rs) :
          /\ rs[i].cur = computeHash(rs[i])
          /\ i > 1 => rs[i].prev = rs[i - 1].cur

-----------------------------------------------------------------------------
(* Properties                                                              *)

\* The stored fields keep their types; hashes are left abstract.
TypeOK ==
    /\ \A i \in 1..Len(receipts) :
          [receipts[i] EXCEPT !.prev = "h", !.cur = "h"]
             \in [seq: 0..MaxAppends, ts: 0..MaxClock,
                  type: EventTypes \cup {"genesis"},
                  data: EventDatas \cup {GenesisData},
                  prev: {"h"}, cur: {"h"}]
    /\ sequence \in 0..MaxAppends
    /\ tampers \in 0..MaxTampers

\* AU-2, the half Verify owns: Verify (ledger_test.go 314-339) accepts the
\* stored slice only if it is exactly what append wrote, whatever fields
\* of whatever receipts were edited in between.
ChainEvident == Verify(receipts) => receipts = written

\* An untouched chain always verifies: every receipt append stores links
\* to the hash Verify recomputes for its predecessor.
ChainAccepts == receipts = written => Verify(receipts)

=============================================================================
