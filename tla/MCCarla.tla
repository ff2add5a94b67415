------------------------------ MODULE MCCarla ------------------------------
(***************************************************************************)
(* The CARLA adapter under plans, which say how much happens in a run and  *)
(* whether callbacks overlap; for TLC, two sensors and a window of one     *)
(* second on either side of a collision.                                   *)
(***************************************************************************)
EXTENDS CarlaAdapter, TLC

CONSTANTS
  PlanOf,          \* the bounds of each plan
  c1, c2, gnss, imu

MCOrder == <<gnss, imu>>

Bounds(samples_, collisions_, time_, sessions_, flushes_, left_) ==
  [samples |-> samples_, collisions |-> collisions_, time |-> time_,
   sessions |-> sessions_, flushes |-> flushes_, left |-> left_]

CarlaBound == Bounds(4, 2, 3, 2, 2, 1)

(* The plans a run follows: the callbacks one after the other; two at a    *)
(* time, also with a sensor that could not be stopped and its successor;   *)
(* two at a time against the flushes of the event loop; and one sample for *)
(* the messages of two flushes.                                            *)
MCPlanOf == [capture |-> Bounds(4, 2, 3, 1, 0, 0), threads |-> Bounds(4, 1, 1, 1, 0, 0),
             left |-> Bounds(2, 1, 1, 2, 0, 1), flush |-> Bounds(2, 0, 0, 2, 2, 1),
             cams |-> Bounds(1, 0, 2, 1, 2, 0)]

VARIABLE plan

Within(bound) ==
  /\ Len(samples) <= bound["samples"] /\ collisions <= bound["collisions"]
  /\ clock <= bound["time"] /\ sessions <= bound["sessions"] /\ flushes <= bound["flushes"]
  /\ Cardinality(Left) <= bound["left"]
  /\ plan = "capture" => Cardinality({t \in Threads : ~At(t, "idle")}) <= 1

PlanInit == plan \in DOMAIN PlanOf /\ Init

PlanNext == Next /\ UNCHANGED plan /\ Within(PlanOf[plan])'

PlanSpec == PlanInit /\ [][PlanNext]_<<vars, plan>>

(* Whatever threads seal an event, its samples are in order; and callbacks *)
(* that run one after the other seal each collision once, with every       *)
(* sample of its window (SealedEventCapture.append, _finalize_event).      *)
CaptureSound ==
  EventOrdered /\ (plan = "capture" => OneEventPerCollision /\ WindowComplete)

ThreadSymmetry == Permutations(Threads)

=============================================================================
