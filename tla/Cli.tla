-------------------------------- MODULE Cli --------------------------------
(***************************************************************************)
(* The commands of cli.py.  A command has a gateway of its own, reached    *)
(* through a client that passes every call on to it (gateway_client.py     *)
(* with a local gateway), awaits one call after the other and catches      *)
(* nothing: an exception ends it where it is, its session still open.      *)
(***************************************************************************)
EXTENDS DataResidue

CONSTANTS
  Fleet, Duration,  \* --vehicles and --duration of demo
  Schedule,         \* what demo generates: [record, first, every] in steps
  Batches,          \* the lists of records an adapter may hand over
  MaxBatches        \* bound: how many it does

(* An adapter calls on_records when there are some.                        *)
ASSUME CliAssumption ==
  /\ Fleet \in Nat /\ Duration \in Nat
  /\ Batches \subseteq Seq(Records) \ {<<>>}
  /\ Schedule \in Seq([record : Records, first : Nat, every : Nat \ {0}])

VARIABLES
  program,  \* the command
  output,   \* demo was given --output
  at,       \* what the command does next
  loaded,   \* its manifest
  mine,     \* session_id, None before there is one
  turn,     \* vehicles demo has generated for, or batches handed over
  batch,    \* records of the current callback or vehicle still to be sent
  handed,   \* all_records of demo, the records of residue; history elsewhere
  printed,  \* the summary printed with the receipt
  report    \* the residue report written

cliVars == <<program, output, at, loaded, mine, turn, batch, handed, printed, report>>

Unwritten == [records |-> -1]

CliInit ==
  /\ program \in {"sumo", "carla", "demo", "residue"} /\ output \in BOOLEAN
  /\ program # "demo" => ~output
  /\ at = "load" /\ loaded = NoManifest /\ mine = None /\ turn = 0
  /\ batch = <<>> /\ handed = <<>> /\ printed = Unwritten /\ report = Unwritten

Crash == at' = "crashed"

GatewayRests == UNCHANGED localVars
AnalyserRests == UNCHANGED analyserVars

-----------------------------------------------------------------------------
(* _load_manifest, and the records of residue.                             *)
Load ==
  /\ at = "load"
  /\ \/ /\ \E m \in Manifests : loaded' = m
        /\ handed' \in IF program = "residue" THEN Analyses ELSE {<<>>}
        /\ at' = CASE program = "residue" -> "analyse" [] program = "demo" -> "start"
                   [] OTHER -> "connect"
     \/ Crash /\ UNCHANGED <<loaded, handed>>
  /\ GatewayRests /\ AnalyserRests
  /\ UNCHANGED <<program, output, mine, turn, batch, printed, report>>

(* The calls of the adapter that may fail: connect, for carla also the     *)
(* setting up of vehicle and sensors once the gateway has a session.       *)
Adapter(from, to) ==
  /\ at = from
  /\ at' = to \/ Crash
  /\ GatewayRests /\ AnalyserRests
  /\ UNCHANGED <<program, output, loaded, mine, turn, batch, handed, printed, report>>

Connect == Adapter("connect", "start")
SetUp == Adapter("setup", "run")

Start ==
  /\ at = "start"
  /\ \E s \in Sessions : StartSession(s, loaded) /\ mine' = s
  /\ at' = IF program = "carla" THEN "setup" ELSE "run"
  /\ AnalyserRests
  /\ UNCHANGED <<program, output, loaded, turn, batch, handed, printed, report>>

-----------------------------------------------------------------------------
(* adapter.run calls on_records with what there is, if anything.           *)
Deliver ==
  /\ at = "run" /\ program # "demo" /\ turn < MaxBatches
  /\ batch' \in Batches
  /\ handed' = handed \o batch' /\ turn' = turn + 1 /\ at' = "send"
  /\ GatewayRests /\ AnalyserRests
  /\ UNCHANGED <<program, output, loaded, mine, printed, report>>

(* _generate_synthetic_records: values apart, what is due at a step, in    *)
(* the order of the schedule.                                              *)
Due(step) ==
  {i \in DOMAIN Schedule : step >= Schedule[i].first /\ step % Schedule[i].every = 0}

Generated(step) ==
  [n \in 1 .. Cardinality(Due(step)) |->
     Schedule[CHOOSE i \in Due(step) : Cardinality({j \in Due(step) : j <= i}) = n].record]

(* Mutant: the records of a vehicle replace those before.                  *)
Replaced(list, new) == new

Extended(list, new) == list \o new

Generate ==
  /\ at = "run" /\ program = "demo" /\ turn < Fleet * Duration
  /\ batch' = Generated(turn \div Fleet)
  /\ handed' = Extended(handed, batch')
  /\ turn' = turn + 1 /\ at' = IF batch' = <<>> THEN "run" ELSE "send"
  /\ GatewayRests /\ AnalyserRests
  /\ UNCHANGED <<program, output, loaded, mine, printed, report>>

(* send_record, for one record after the other.                            *)
Send ==
  /\ at = "send"
  /\ \/ ProcessRecord(mine, Head(batch)) /\ at' = IF Len(batch) = 1 THEN "run" ELSE "send"
     \/ ProcessRaises(mine, Head(batch)) /\ Crash
  /\ batch' = Tail(batch)
  /\ AnalyserRests
  /\ UNCHANGED <<program, output, loaded, mine, turn, handed, printed, report>>

RunEnds ==
  /\ program = "demo" => turn = Fleet * Duration
  /\ Adapter("run", "end")

(* end_session, then the summary of the ended session is printed.          *)
End ==
  /\ at = "end" /\ EndSession(mine)
  /\ at' = "summary" /\ AnalyserRests
  /\ UNCHANGED <<program, output, loaded, mine, turn, batch, handed, printed, report>>

Summarise ==
  /\ at = "summary"
  /\ printed' = [records |-> sessions[mine].generated, burned |-> RecordsBurned(mine),
                 transmitted |-> sessions[mine].transmitted,
                 blocked |-> sessions[mine].blocked, sentTo |-> sessions[mine].sentTo]
  /\ at' = IF output THEN "analyse" ELSE "done"
  /\ GatewayRests /\ AnalyserRests
  /\ UNCHANGED <<program, output, loaded, mine, turn, batch, handed, report>>

-----------------------------------------------------------------------------
(* A fresh analyser, and its report.                                       *)
Analyse ==
  /\ at = "analyse"
  /\ \/ RunChambers(handed, loaded) /\ at' = "report"
     \/ RunChambersRaises(handed, loaded) /\ Crash
  /\ GatewayRests
  /\ UNCHANGED <<program, output, loaded, mine, turn, batch, handed, printed, report>>

WriteReport ==
  /\ at = "report"
  /\ \/ /\ report' = [records |-> TotalRecords, total |-> TotalOf(filteredFor),
                      sentTo |-> [x \in Stakeholders |-> filteredFor[x].records]]
        /\ at' = "done"
     \/ Crash /\ UNCHANGED report
  /\ GatewayRests /\ AnalyserRests
  /\ UNCHANGED <<program, output, loaded, mine, turn, batch, handed, printed>>

CliNext ==
  \/ Load \/ Connect \/ SetUp \/ Start \/ Deliver \/ Generate \/ Send \/ RunEnds
  \/ End \/ Summarise \/ Analyse \/ WriteReport

-----------------------------------------------------------------------------
CliTypeOK ==
  /\ at \in {"load", "connect", "start", "setup", "run", "send", "end", "summary",
             "analyse", "report", "done", "crashed"}
  /\ loaded \in Manifests \cup {NoManifest} /\ mine \in Sessions \cup {None}
  /\ turn \in Nat /\ (at = "send" => batch # <<>>)

(* A command that prints a summary has burned its session, and every       *)
(* record handed to it was decided on for every stakeholder.  The analysis *)
(* demo runs on the records it kept, with a second gateway, never raises,  *)
(* and if a report is written it says what the first gateway sent to whom  *)
(* (cli.py: sumo, carla, demo; gateway_client.py: send_record).            *)
ReportMatchesRun ==
  /\ printed # Unwritten =>
       /\ sessions[mine].ended
       /\ printed.records = Len(handed) /\ printed.burned = Len(handed)
       /\ printed.transmitted + printed.blocked = Len(handed) * Len(loaded)
  /\ program = "demo" /\ at # "load" =>
       /\ calls = runs.analyses
       /\ report # Unwritten =>
            report.records = printed.records /\ report.sentTo = printed.sentTo
=============================================================================
