------------------------------- MODULE Memory -------------------------------
(***************************************************************************)
(* The memory partition manager (kernel-go/internal/audit/ledger_test.go  *)
(* 361-607, package memory): NewManager's six partitions and policies,     *)
(* Write, Read and PromoteFromQuarantine.  Every method holds m.mu for its *)
(* whole body, so each is one atomic step.                                 *)
(*                                                                         *)
(* Entry.Metadata is a Go map, a reference: Write stores the caller's map  *)
(* itself and PromoteFromQuarantine writes into the quarantine entry's map *)
(* and shares it with the durable copy.  Maps are therefore heap objects:  *)
(* an entry holds a handle, and meta[handle] is the map's only key the    *)
(* code writes, "verification_record".  A caller passes either one of      *)
(* CallerMaps or nil; for nil, Write makes a fresh map, which the model    *)
(* names after the slot <<partition, id>> it is made for (no other entry   *)
(* can share it: only quarantine maps are copied, and quarantine is        *)
(* append-only).  ContentHash, Timestamp (always 0) and ID are functions   *)
(* of the modelled fields and left out.                                    *)
(***************************************************************************)
EXTENDS Naturals, FiniteSets

CONSTANTS Ids,         \* entry ids callers use
          Contents,    \* entry contents
          Records,     \* verificationRecord arguments, "" among them
          CallerMaps   \* metadata maps a caller owns and may pass to Write
                       \* (model values)

VARIABLES entries,  \* entries[p][id]: *Entry of partition p, or NoEntry
          meta      \* meta[h]: "verification_record" of map h, or NoRecord

vars == <<entries, meta>>

Nil == "nil"
NoEntry == [absent |-> TRUE]
NoRecord == "no verification_record"

Quarantine == "quarantine"
Durable    == "durable"

\* NewManager: the six partitions and their policies.
Policy ==
    LET P(w, r, c, a) == [allowWrite |-> w, allowRead |-> r,
                          requireCapability |-> c, appendOnly |-> a]
    IN  [ephemeral   |-> P(TRUE, TRUE,  FALSE, FALSE),
         durable     |-> P(TRUE, TRUE,  TRUE,  FALSE),
         commitments |-> P(TRUE, TRUE,  TRUE,  FALSE),
         provenance  |-> P(TRUE, TRUE,  FALSE, TRUE),
         quarantine  |-> P(TRUE, FALSE, FALSE, TRUE),
         evidence    |-> P(TRUE, TRUE,  TRUE,  TRUE)]

Partitions == DOMAIN Policy

MapHandles == CallerMaps \cup (Partitions \X Ids)

Entry == [content: Contents, meta: MapHandles, verified: BOOLEAN]

Init ==
    /\ entries = [p \in Partitions |-> [id \in Ids |-> NoEntry]]
    /\ meta = [h \in MapHandles |-> NoRecord]

WriteNilMetadata(p, id, c, m) ==
    /\ p \in Partitions
    /\ Policy[p].allowWrite
    /\ ~(Policy[p].appendOnly /\ entries[p][id] # NoEntry)
    /\ entries' = [entries EXCEPT ![p][id] = [content |-> c, meta |-> m, verified |-> FALSE]]
    /\ UNCHANGED meta

\* Write: the partition must exist and allow writes, and an append-only
\* partition must not hold the id yet; a nil metadata becomes a new map.
Write(p, id, c, m) ==
    LET h == IF m = Nil THEN <<p, id>> ELSE m
    IN  /\ p \in Partitions
        /\ Policy[p].allowWrite
        /\ ~(Policy[p].appendOnly /\ entries[p][id] # NoEntry)
        /\ entries' = [entries EXCEPT ![p][id] = [content |-> c, meta |-> h, verified |-> FALSE]]
        /\ meta' = IF m = Nil THEN [meta EXCEPT ![h] = NoRecord] ELSE meta

\* Read: the entry pointer, or an error for a missing partition, a
\* partition that does not allow reads, or a missing id.
Read(p, id) ==
    IF p \in Partitions /\ Policy[p].allowRead /\ entries[p][id] # NoEntry
    THEN entries[p][id] ELSE "error"

\* Mutant: the empty-record check dropped.
PromoteUnchecked(id, rec) ==
    LET q == entries[Quarantine][id]
    IN  /\ q # NoEntry
        /\ entries' = [entries EXCEPT ![Quarantine][id].verified = TRUE,
                                      ![Durable][id] = [q EXCEPT !.verified = TRUE]]
        /\ meta' = [meta EXCEPT ![q.meta] = rec]

\* PromoteFromQuarantine: the id must be in quarantine and the record
\* non-empty; the quarantine entry is marked verified, the record is
\* written into its metadata map, and a verified copy sharing that map
\* replaces whatever durable held under the id.
PromoteFromQuarantine(id, rec) ==
    LET q == entries[Quarantine][id]
    IN  /\ q # NoEntry
        /\ rec # ""
        /\ entries' = [entries EXCEPT ![Quarantine][id].verified = TRUE,
                                      ![Durable][id] = [q EXCEPT !.verified = TRUE]]
        /\ meta' = [meta EXCEPT ![q.meta] = rec]

Next ==
    \/ \E p \in Partitions, id \in Ids, c \in Contents, m \in CallerMaps \cup {Nil} :
          Write(p, id, c, m)
    \/ \E id \in Ids, rec \in Records : PromoteFromQuarantine(id, rec)

Spec == Init /\ [][Next]_vars

-----------------------------------------------------------------------------
(* Properties                                                              *)

TypeOK ==
    /\ entries \in [Partitions -> [Ids -> Entry \cup {NoEntry}]]
    /\ meta \in [MapHandles -> Records \cup {NoRecord}]

\* MI-3, quarantine non-truth: a durable entry marked verified holds
\* exactly the content of a verified quarantine entry of the same id, and
\* its metadata carries a non-empty verification record.
VerifiedMeansPromoted ==
    \A id \in Ids :
       LET d == entries[Durable][id]
           q == entries[Quarantine][id]
       IN  d # NoEntry /\ d.verified =>
              /\ q # NoEntry /\ q.verified
              /\ d.content = q.content
              /\ meta[d.meta] \notin {"", NoRecord}

=============================================================================
