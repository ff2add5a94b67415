--------------------------- MODULE MCLocalGateway ---------------------------
(***************************************************************************)
(* One manifest with a category of each granularity, an allowlist that     *)
(* names an excluded field, an allowlist that is present and empty, and a  *)
(* stakeholder outside its jurisdictions.  The positions lie inside a cell *)
(* and on the edge of one, the speed half way between two roundings.       *)
(***************************************************************************)
EXTENDS Cli, TLC

Category(type, fields, listed, excluded, granularity) ==
  [type |-> type, fields |-> fields, listed |-> listed, excluded |-> excluded,
   granularity |-> granularity, jurisdictions |-> {"EU"}]

Declaration(id, endpoint, declared) ==
  [id |-> id, endpoint |-> endpoint, categories |-> declared]

DemoManifest == <<
  Declaration("tier1", "EU", <<
    Category("Position", {"driver_id"}, TRUE, {"driver_id"}, "Raw"),
    Category("Score", {}, TRUE, {}, "Aggregated")>>),
  Declaration("oem", "EU", <<
    Category("Position", {"latitude", "longitude", "speed_mps", "driver_id"}, TRUE, {},
             "Anonymised"),
    Category("Position", {}, FALSE, {}, "Raw"),
    Category("Score", {"score", "driver_id", "raw_speed_trace"}, TRUE, {"driver_id"},
             "Aggregated")>>),
  Declaration("insurer", "US", <<
    Category("Score", {}, FALSE, {"score"}, "PerTripScore")>>)>>

MCManifests == {DemoManifest}

MCRecords == {
  [type |-> "Position", fields |->
     [latitude |-> Number(515074), longitude |-> Number(-1278),
      speed_mps |-> Number(125000), driver_id |-> Opaque]],
  [type |-> "Position", fields |->
     [latitude |-> Number(515070), longitude |-> Number(0)]],
  [type |-> "Position", fields |->
     [latitude |-> Opaque, longitude |-> Number(0)]],
  [type |-> "Score", fields |->
     [score |-> Number(912500), raw_speed_trace |-> Opaque, driver_id |-> Opaque]]}

(* One record or two; one of them raises.                                  *)
MCAnalyses == {<<>>} \cup {<<r>> : r \in MCRecords} \cup {<<r, q>> : r, q \in MCRecords}

MCBatches == {<<r>> : r \in MCRecords} \cup
  {<<r, q>> : r \in {x \in MCRecords : x.type = "Score"}, q \in MCRecords}

LocalBound == [rows |-> 8, raised |-> 1]

(* A position at every step, a score at every second one but the first.    *)
MCSchedule ==
  LET scored == CHOOSE r \in MCRecords : r.type = "Score"
      placed == CHOOSE r \in MCRecords : \A k \in DOMAIN r.fields : IsNumber(r.fields[k])
  IN <<[record |-> placed, first |-> 0, every |-> 1],
       [record |-> scored, first |-> 2, every |-> 2]>>

VARIABLE process  \* what the process does: sessions, the analyser or a command

ProcessInit ==
  /\ process \in {"sessions", "residue", "cli"}
  /\ Init /\ AnalyserInit /\ CliInit
  /\ process # "cli" => program = "demo" /\ ~output

Sessionwise ==
  /\ process = "sessions" /\ Next /\ Len(audit') <= 5
  /\ UNCHANGED <<process, analyserVars, cliVars>>
Analyserwise ==
  process = "residue" /\ AnalyserNext /\ UNCHANGED <<process, localVars, cliVars>>
Commandwise == process = "cli" /\ CliNext /\ UNCHANGED process

ProcessSpec ==
  /\ ProcessInit
  /\ [][Sessionwise \/ Analyserwise \/ Commandwise]_<<process, localVars, analyserVars,
                                                      cliVars>>

(* The types of the gateway, of the analyser and of the commands.          *)
ProcessTypeOK == TypeOK /\ AnalyserTypeOK /\ CliTypeOK

Symmetry == Permutations(Sessions)
=============================================================================
