---------------------------- MODULE MCAdapters ----------------------------
(***************************************************************************)
(* A process runs one program: the SUMO adapter, the ROS 2 adapter or the  *)
(* co-simulation script, the others staying as they were created.  For     *)
(* SUMO, up to three simulation steps in up to two runs and up to three    *)
(* calls of the application, together no more than four, and a behaviour   *)
(* record with every second sample; for ROS, two runs and two steps over   *)
(* two sessions, with more messages than the middleware keeps; for the     *)
(* script, messages at three steps with an interval of two steps.          *)
(***************************************************************************)
EXTENDS SumoAdapter, V2xCosim

CONSTANTS Depth, RosBound, a1, a2

SumoBound == [runs |-> 2, steps |-> 3, calls |-> 3]

SumoSamples == [v \in Vehicles |-> IF v = a1 THEN {"steady", "harsh"} ELSE {"steady"}]

MCRosBound == [messages |-> 2, sessions |-> 2, runs |-> 2, steps |-> 2, polls |-> 1,
               pairings |-> 1]

VARIABLES
  command,  \* which program the process runs
  ros, node, session, queue, running, loop, stepCount, phone, inbox, delivered,
  arrived, used

rosVars == <<ros, node, session, queue, running, loop, stepCount, phone, inbox,
             delivered, arrived, used>>

Ros == INSTANCE Ros2Adapter WITH Bound <- RosBound

ASSUME RosAssumption == Depth \in Nat /\ RosBound \in [Ros!Kinds -> Nat]

ProcessInit ==
  /\ command \in {"ros2", "sumo", "cosim"} /\ Ros!Init /\ CosimInit /\ Init
  /\ command # "ros2" => ~ros

RosTurn == command = "ros2" /\ Ros!Next /\ UNCHANGED <<command, sumoVars, v2xVars>>
SumoTurn ==
  /\ command = "sumo" /\ Next /\ Len(observed') + spent'["calls"] <= 4
  /\ UNCHANGED <<command, rosVars, v2xVars>>
CosimTurn == command = "cosim" /\ CosimNext /\ UNCHANGED <<command, rosVars, sumoVars>>

ProcessSpec ==
  /\ ProcessInit
  /\ [][RosTurn \/ SumoTurn \/ CosimTurn]_<<command, rosVars, sumoVars, v2xVars>>

-----------------------------------------------------------------------------
(* The types of all three programs.                                        *)
ProcessTypeOK == TypeOK /\ Ros!TypeOK /\ CosimTypeOK

(* What the ROS 2 adapter queues is handed out once and in its order, and  *)
(* the disconnected phone is queued once.                                  *)
QueueServed == Ros!HandedOutOnce /\ Ros!OneNotice

(* A run that was told to stop hands nothing more over.                    *)
StopsPromptly == Ros!StopsPromptly
=============================================================================
