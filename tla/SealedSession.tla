--------------------------- MODULE SealedSession ---------------------------
(***************************************************************************)
(* What a session promises its driver: while it is open, records are       *)
(* captured and can be read back; once it is sealed nothing captured in it *)
(* can ever be read again, and sealing touches no other session.           *)
(***************************************************************************)
CONSTANTS Sessions, Records

VARIABLES
  phase,     \* "unborn", "open" or "sealed"
  readable   \* records of the session that can be read back

vars == <<phase, readable>>

TypeOK ==
  /\ phase \in [Sessions -> {"unborn", "open", "sealed"}]
  /\ readable \in [Sessions -> SUBSET Records]

Init ==
  /\ phase = [s \in Sessions |-> "unborn"]
  /\ readable = [s \in Sessions |-> {}]

Open(s) ==
  /\ phase[s] = "unborn"
  /\ phase' = [phase EXCEPT ![s] = "open"]
  /\ UNCHANGED readable

Capture(s, r) ==
  /\ phase[s] = "open"
  /\ readable' = [readable EXCEPT ![s] = @ \cup {r}]
  /\ UNCHANGED phase

Seal(s) ==
  /\ phase[s] = "open"
  /\ phase' = [phase EXCEPT ![s] = "sealed"]
  /\ readable' = [readable EXCEPT ![s] = {}]

Next == \E s \in Sessions :
          Open(s) \/ Seal(s) \/ \E r \in Records : Capture(s, r)

Spec == Init /\ [][Next]_vars

=============================================================================
