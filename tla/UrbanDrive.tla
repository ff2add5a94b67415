----------------------------- MODULE UrbanDrive -----------------------------
(***************************************************************************)
(* The urban driving scenario (scenarios/carla/urban_drive.py).  Sensor    *)
(* callbacks put readings into bounded queues on threads of the            *)
(* simulator's client; the main thread sets the scene, drains the queues   *)
(* once a second into records for the gateway, and cleans up.              *)
(***************************************************************************)
EXTENDS Integers, Sequences, SequencesExt, FiniteSets

CONSTANTS
  Ego,              \* the ego vehicle
  Sensors,          \* sensors of SENSOR_SUITE that records are made from
  SensorOrder,      \* the order build_chambers_records drains them in
  Collision,        \* the collision sensor
  Vehicles, Walkers,  \* traffic asked for; a walker's controller is <<w>>
  MaxSize,          \* maxsize of a queue
  GatewayInterval,  \* steps between two batches
  TotalSteps,       \* steps of the run
  MaxReadings       \* bound: sensor -> its readings

ASSUME UrbanAssumption ==
  /\ SensorOrder \in Seq(Sensors) /\ Collision \in Sensors
  /\ \A s \in Sensors : \E i \in DOMAIN SensorOrder : SensorOrder[i] = s
  /\ \A i, j \in DOMAIN SensorOrder : SensorOrder[i] = SensorOrder[j] => i = j
  /\ MaxSize \in Nat \ {0}
  /\ GatewayInterval \in Nat \ {0} /\ TotalSteps \in Nat
  /\ MaxReadings \in [Sensors -> Nat]

VARIABLES
  phase,     \* what the main thread does next
  alive,     \* actors the scenario has spawned and not destroyed
  actors,    \* all_actors, in order
  traffic,   \* npc_vehicle_ids, walker_ids and walker_ctrl_ids
  walking,   \* controllers started and not stopped
  sync,      \* the world is in synchronous mode
  handled,   \* the signal handlers are installed
  running,   \* the flag they clear
  step,      \* step of the main loop
  queues,    \* sensor -> readings in its queue, oldest first
  hand,      \* sensor -> the reading its callback holds, 0 between two
  stage,     \* sensor -> what its callback does next
  draining,  \* position in SensorOrder of the queue being drained
  latest,    \* get_latest's local: the newest reading taken so far
  batch,     \* sensor -> its reading in the batch being built, 0 for none
  counted,   \* collision_count
  made,      \* history: sensor -> readings put into its queue
  reported,  \* history: sensor -> the reading in its last record
  stopped,   \* history: ticks since a signal, -1 before one
  broken,    \* history: the phase an exception or an interrupt ended, "no" without
  refused    \* history: a part of the clean-up failed

sceneVars == <<alive, actors, traffic, walking, sync>>
signalVars == <<handled, running, stopped>>
callbackVars == <<hand, stage, made>>
drainVars == <<draining, latest, batch, counted, reported>>
urbanVars == <<phase, sceneVars, signalVars, step, queues, callbackVars, drainVars, broken,
               refused>>

Controllers == {<<w>> : w \in Walkers}

Init ==
  /\ phase = "connect" /\ step = 0
  /\ alive = {} /\ actors = <<>> /\ traffic = {} /\ walking = {} /\ sync = FALSE
  /\ handled = FALSE /\ running = TRUE /\ stopped = -1
  /\ queues = [s \in Sensors |-> <<>>]
  /\ hand = [s \in Sensors |-> 0] /\ stage = [s \in Sensors |-> "idle"]
  /\ made = [s \in Sensors |-> 0]
  /\ draining = 1 /\ latest = 0 /\ batch = [s \in Sensors |-> 0] /\ counted = 0
  /\ reported = [s \in Sensors |-> 0]
  /\ broken = "no" /\ refused = FALSE

-----------------------------------------------------------------------------
(* SensorDataBuffer.put, in the callback of sensor s: each call on the     *)
(* queue is atomic, the three together are not.                            *)
NewReading(s) ==
  /\ s \in alive /\ stage[s] = "idle" /\ made[s] < MaxReadings[s]
  /\ hand' = [hand EXCEPT ![s] = made[s] + 1]
  /\ stage' = [stage EXCEPT ![s] = IF Len(queues[s]) = MaxSize THEN "drop" ELSE "put"]
  /\ UNCHANGED <<phase, sceneVars, signalVars, step, queues, made, drainVars, broken, refused>>

DropOldest(s) ==
  /\ stage[s] = "drop"
  /\ queues' = [queues EXCEPT ![s] = IF @ = <<>> THEN @ ELSE Tail(@)]
  /\ stage' = [stage EXCEPT ![s] = "put"]
  /\ UNCHANGED <<phase, sceneVars, signalVars, step, hand, made, drainVars, broken, refused>>

PutReading(s) ==
  /\ stage[s] = "put"
  /\ IF Len(queues[s]) < MaxSize
       THEN /\ queues' = [queues EXCEPT ![s] = Append(@, hand[s])]
            /\ made' = [made EXCEPT ![s] = hand[s]]
       ELSE UNCHANGED <<queues, made>>
  /\ hand' = [hand EXCEPT ![s] = 0] /\ stage' = [stage EXCEPT ![s] = "idle"]
  /\ UNCHANGED <<phase, sceneVars, signalVars, step, drainVars, broken, refused>>

Callback == \E s \in Sensors : NewReading(s) \/ DropOldest(s) \/ PutReading(s)

-----------------------------------------------------------------------------
(* Setting the scene.  An exception or, as long as no handler is           *)
(* installed, an interrupt ends the run.                                   *)
Quiet == UNCHANGED <<signalVars, step, queues, callbackVars, drainVars, refused>>

Break == phase' = "stopTraffic" /\ broken' = phase

(* What this phase is to spawn.                                            *)
Wanted ==
  CASE phase = "ego" -> {Ego}
    [] phase = "sensors" -> Sensors
    [] phase = "vehicles" -> Vehicles
    [] phase = "walkers" -> Walkers
    [] phase = "controllers" -> {c \in Controllers : c[1] \in alive}
    [] OTHER -> {}

Walking == alive \cap Controllers

(* A part that fails may have got as far as it pleases, up to where what   *)
(* it has spawned would have been recorded.                                *)
Fail ==
  /\ phase \in {"connect", "ego", "sensors", "vehicles", "walkers", "controllers", "walk",
                "handlers"}
  /\ alive' \in {alive \cup some : some \in SUBSET Wanted}
  /\ walking' \in IF phase = "walk" THEN SUBSET Walking ELSE {walking}
  /\ sync' \in IF phase = "connect" THEN BOOLEAN ELSE {sync}
  /\ Break /\ Quiet /\ UNCHANGED <<actors, traffic>>

Connect ==
  /\ phase = "connect"
  /\ sync' = TRUE
  /\ phase' = "ego" /\ Quiet /\ UNCHANGED <<alive, actors, traffic, walking, broken>>

SpawnEgo ==
  /\ phase = "ego"
  /\ alive' = {Ego} /\ actors' = <<Ego>>
  /\ phase' = "sensors" /\ Quiet /\ UNCHANGED <<traffic, walking, sync, broken>>

(* attach_sensors returns the sensors, and only then are they recorded.    *)
AttachSensors ==
  /\ phase = "sensors"
  /\ \E s \in Sensors \ alive : alive' = alive \cup {s}
  /\ IF Sensors \subseteq alive'
       THEN actors' = actors \o SensorOrder /\ phase' = "vehicles"
       ELSE UNCHANGED <<actors, phase>>
  /\ Quiet /\ UNCHANGED <<traffic, walking, sync, broken>>

(* spawn_npc_traffic: three batches, any command of which may fail, then a *)
(* step of the world before the controllers are started.  The ids are      *)
(* recorded when it returns.                                               *)
SpawnBatch ==
  /\ phase \in {"vehicles", "walkers", "controllers"}
  /\ alive' \in {alive \cup some : some \in SUBSET Wanted}
  /\ phase' = CASE phase = "vehicles" -> "walkers"
                [] phase = "walkers" -> "controllers"
                [] OTHER -> "walk"
  /\ Quiet /\ UNCHANGED <<actors, traffic, walking, sync, broken>>

StartWalking ==
  /\ phase = "walk"
  /\ walking' = Walking
  /\ traffic' = alive \cap (Vehicles \cup Walkers \cup Controllers)
  /\ phase' = "handlers" /\ Quiet /\ UNCHANGED <<alive, actors, sync, broken>>

InstallHandlers ==
  /\ phase = "handlers"
  /\ handled' = TRUE /\ phase' = "loop"
  /\ UNCHANGED <<sceneVars, running, stopped, step, queues, callbackVars, drainVars, broken,
                 refused>>

-----------------------------------------------------------------------------
(* The main loop. *)
Signal ==
  /\ handled /\ running /\ phase # "done"
  /\ running' = FALSE /\ stopped' = 0
  /\ UNCHANGED <<phase, sceneVars, handled, step, queues, callbackVars, drainVars, broken,
                 refused>>

(* Mutant: the flag is not looked at.                                      *)
UntilTheEnd == step < TotalSteps

(* Mutant: one step too many.                                              *)
OneMore == running /\ step <= TotalSteps

GoesOn == running /\ step < TotalSteps

EnterStep ==
  /\ phase = "loop" /\ GoesOn
  /\ phase' = "tick"
  /\ Quiet /\ UNCHANGED <<sceneVars, broken>>

LeaveLoop ==
  /\ phase = "loop" /\ ~GoesOn
  /\ phase' = "stopTraffic"
  /\ Quiet /\ UNCHANGED <<sceneVars, broken>>

Tick ==
  /\ phase = "tick"
  /\ \/ /\ IF step % GatewayInterval = 0
             THEN phase' = "drain" /\ UNCHANGED step
             ELSE phase' = "loop" /\ step' = step + 1
        /\ stopped' = IF stopped >= 0 THEN stopped + 1 ELSE stopped
        /\ UNCHANGED broken
     \/ Break /\ UNCHANGED <<stopped, step>>
  /\ UNCHANGED <<sceneVars, handled, running, queues, callbackVars, drainVars, refused>>

(* Mutant: the oldest reading is kept.                                     *)
Oldest(kept, taken) == IF kept = 0 THEN taken ELSE kept

Newest(kept, taken) == taken

(* Mutant: a sensor without a reading is given the one before.             *)
Carried(kept) == kept

(* latest = None, for the next sensor.                                     *)
Forgotten(kept) == 0

(* get_latest takes one reading at a time and keeps the last; an empty     *)
(* queue ends it.                                                          *)
TakeReading ==
  LET s == SensorOrder[draining] IN
  /\ phase = "drain" /\ queues[s] # <<>>
  /\ latest' = Newest(latest, Head(queues[s])) /\ queues' = [queues EXCEPT ![s] = Tail(@)]
  /\ UNCHANGED <<phase, sceneVars, signalVars, step, callbackVars, draining, batch, counted,
                 reported, broken, refused>>

EndOfQueue ==
  LET s == SensorOrder[draining] IN
  /\ phase = "drain" /\ queues[s] = <<>>
  /\ batch' = [batch EXCEPT ![s] = latest] /\ latest' = Forgotten(latest)
  /\ IF draining < Len(SensorOrder)
       THEN draining' = draining + 1 /\ UNCHANGED phase
       ELSE draining' = 1 /\ phase' = "send"
  /\ UNCHANGED <<sceneVars, signalVars, step, queues, callbackVars, counted, reported, broken,
                 refused>>

(* A record for each reading found; send_to_gateway swallows every error,  *)
(* so a batch is counted whether it arrives or not.                        *)
SendBatch ==
  /\ phase = "send"
  /\ counted' = counted + (IF batch[Collision] # 0 THEN 1 ELSE 0)
  /\ reported' = [s \in Sensors |-> IF batch[s] # 0 THEN batch[s] ELSE reported[s]]
  /\ batch' = [s \in Sensors |-> 0]
  /\ step' = step + 1 /\ phase' = "loop"
  /\ UNCHANGED <<sceneVars, signalVars, queues, callbackVars, draining, latest, broken, refused>>

-----------------------------------------------------------------------------
(* The finally clause: one part that fails ends it.                        *)
CleanUpFails ==
  /\ phase \in {"stopTraffic", "destroyTraffic", "destroyActors", "restore"}
  /\ phase' = "done" /\ refused' = TRUE
  /\ UNCHANGED <<sceneVars, signalVars, step, queues, callbackVars, drainVars, broken>>

StopTraffic ==
  /\ phase = "stopTraffic"
  /\ walking' = walking \ traffic
  /\ phase' = "destroyTraffic" /\ Quiet /\ UNCHANGED <<alive, actors, traffic, sync, broken>>

DestroyTraffic ==
  /\ phase = "destroyTraffic"
  /\ alive' = alive \ traffic
  /\ phase' = "destroyActors" /\ Quiet /\ UNCHANGED <<actors, traffic, walking, sync, broken>>

DestroyActor ==
  /\ phase = "destroyActors"
  /\ IF actors # <<>>
       THEN alive' = alive \ {Last(actors)} /\ actors' = Front(actors) /\ UNCHANGED phase
       ELSE phase' = "restore" /\ UNCHANGED <<alive, actors>>
  /\ Quiet /\ UNCHANGED <<traffic, walking, sync, broken>>

Restore ==
  /\ phase = "restore"
  /\ sync' = FALSE
  /\ phase' = "done" /\ Quiet /\ UNCHANGED <<alive, actors, traffic, walking, broken>>

Main ==
  \/ Fail \/ Connect \/ SpawnEgo \/ AttachSensors
  \/ SpawnBatch \/ StartWalking \/ InstallHandlers
  \/ EnterStep \/ LeaveLoop \/ Tick \/ TakeReading \/ EndOfQueue \/ SendBatch
  \/ CleanUpFails \/ StopTraffic \/ DestroyTraffic \/ DestroyActor \/ Restore

Next == Main \/ Signal \/ Callback

Spec == Init /\ [][Next]_urbanVars /\ WF_urbanVars(Main)

-----------------------------------------------------------------------------
TypeOK ==
  /\ alive \subseteq {Ego} \cup Sensors \cup Vehicles \cup Walkers \cup Controllers
  /\ traffic \cup walking \subseteq Vehicles \cup Walkers \cup Controllers
  /\ {sync, handled, running, refused} \subseteq BOOLEAN
  /\ \A s \in Sensors :
       /\ queues[s] \in Seq(1 .. MaxReadings[s]) /\ Len(queues[s]) <= MaxSize
       /\ {hand[s], made[s], batch[s], reported[s]} \subseteq 0 .. MaxReadings[s]
       /\ stage[s] \in {"idle", "drop", "put"}
  /\ step \in 0 .. TotalSteps /\ draining \in DOMAIN SensorOrder
  /\ counted \in 0 .. TotalSteps /\ stopped \in -1 .. TotalSteps
  /\ broken \in {"no", "connect", "ego", "sensors", "vehicles", "walkers", "controllers",
                 "walk", "handlers", "tick"}

(* The newest reading of a sensor is in its queue, being drained, in the   *)
(* batch or in the last record sent, unless a still newer one is about to  *)
(* be put, whoever empties the queue between the three calls of put; and   *)
(* there is then room for it (urban_drive.py: SensorDataBuffer).           *)
NewestKept ==
  \A s \in Sensors :
    /\ \/ made[s] \in {0, batch[s], reported[s]}
       \/ s = SensorOrder[draining] /\ latest = made[s]
       \/ \E i \in DOMAIN queues[s] : queues[s][i] = made[s]
       \/ stage[s] = "put" /\ hand[s] > made[s]
    /\ stage[s] = "put" => Len(queues[s]) < MaxSize

(* A collision is counted and reported at most once, and never after a     *)
(* later one (urban_drive.py: build_chambers_records, run_scenario).       *)
CountedOnce ==
  [][/\ \A s \in Sensors : reported'[s] >= reported[s]
     /\ counted' # counted =>
          counted' = counted + 1 /\ reported'[Collision] > reported[Collision]]_urbanVars

(* A signal ends the scenario, after one more step at most and whatever    *)
(* readings are still queued; that they are bounded in number is assumed,  *)
(* as get_latest goes on for as long as a sensor outpaces it               *)
(* (urban_drive.py: _signal_handler, run_scenario).                        *)
SignalEnds == ~running ~> phase = "done" /\ stopped <= 1

(* What the spawning function had to return that a failure broke off.      *)
Unreturned(where) ==
  CASE where = "ego" -> {Ego}
    [] where = "sensors" -> Sensors
    [] where \in {"vehicles", "walkers", "controllers", "walk"} ->
         Vehicles \cup Walkers \cup Controllers
    [] OTHER -> {}

(* Unless the clean-up fails, the world's settings are back at the end and *)
(* the only actors left are those of the one spawning function that did    *)
(* not return: none when all did (urban_drive.py: run_scenario).           *)
UrbanRestores ==
  phase = "done" /\ ~refused =>
    ~sync /\ alive \subseteq Unreturned(broken) /\ (broken # "walk" => walking = {})

-----------------------------------------------------------------------------
(* A claim of the program the code does not keep.                          *)

(* urban_drive.py:804 logs, when no part of the clean-up failed: All       *)
(* actors destroyed. Scenario ended cleanly.                               *)
AllActorsDestroyed == phase = "done" /\ ~refused => alive = {}
=============================================================================
