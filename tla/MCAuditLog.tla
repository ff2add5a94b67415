----------------------------- MODULE MCAuditLog -----------------------------
(***************************************************************************)
(* An instance of the audit log for TLC: two threads, two sessions of up   *)
(* to three rows, two payloads, one failing read and one altered row.      *)
(***************************************************************************)
EXTENDS AuditLog, TLC

CONSTANTS t1, t2, s1, s2, p1, p2

MCBound ==
  [kind \in {"rows", "faults", "tampered"} |-> IF kind = "rows" THEN 3 ELSE 1]

Symmetry ==
  Permutations(Threads) \cup Permutations(Sessions) \cup Permutations(Payloads)

=============================================================================
