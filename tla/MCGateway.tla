----------------------------- MODULE MCGateway -----------------------------
(***************************************************************************)
(* Instances of the gateway for TLC.  One stakeholder has an endpoint, the *)
(* other does not.  The manifest names the first twice; its entries all    *)
(* declare records of one type, records of the other are for nobody.       *)
(***************************************************************************)
EXTENDS GatewayProperties, TLC

CONSTANTS t1, t2, s1, s2, r1, r2, r3, insurer, broker

MCEndpoints == {insurer}
MCDataTypes == {"speed", "contacts"}
MCTypeOf == [r \in Records |-> IF r = r3 THEN "contacts" ELSE "speed"]
ForSpeed(h) == [who |-> h, types |-> {"speed"}]
MCManifests == {<<ForSpeed(insurer), ForSpeed(broker), ForSpeed(insurer)>>}

Calls(end, revoke, fallback, fault) ==
  [kind \in {"end", "revoke", "fallback", "fault"} |->
     CASE kind = "end" -> end
       [] kind = "revoke" -> revoke
       [] kind = "fallback" -> fallback
       [] OTHER -> fault]

AllCalls == Calls(1, 1, 1, 0)
TwoEnds == Calls(2, 0, 0, 0)
TwoEndsOneFault == Calls(2, 0, 0, 1)

ThreadSymmetry == Permutations(Threads)
=============================================================================
