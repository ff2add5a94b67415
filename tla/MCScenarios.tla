---------------------------- MODULE MCScenarios ----------------------------
(***************************************************************************)
(* A process runs one of the two CARLA scripts, the other one staying as   *)
(* it was created: the urban drive with a sensor that reports all the      *)
(* time, a collision sensor, one car and one walker; or the sealed event   *)
(* demonstration, its windows of five and two seconds scaled to two steps  *)
(* each.                                                                   *)
(***************************************************************************)
EXTENDS UrbanDrive

CONSTANTS gnss, collision, WindowBefore, WindowAfter, DemoSteps, MaxHits, DemoReadings

MCOrder == <<gnss, collision>>
MCReadings == [s \in Sensors |-> IF s = gnss THEN 3 ELSE 2]

VARIABLES
  command,  \* which script the process runs
  point, standing, listed, lockstep, frame, ring, reading, writing, collided, context, hitting,
  post, event, file, hits, seen, aborted, stuck

Demo == INSTANCE SealedEventDemo WITH TotalSteps <- DemoSteps, MaxReadings <- DemoReadings

(* The ring's five seconds hold the two that follow a collision.           *)
ASSUME DemoAssumption ==
  /\ WindowBefore \in Nat /\ WindowAfter \in 1 .. WindowBefore + 1
  /\ DemoSteps \in Nat /\ MaxHits \in Nat /\ DemoReadings \in Nat

demoVars == <<point, standing, listed, lockstep, frame, ring, reading, writing, collided, context,
              hitting, post, event, file, hits, seen, aborted, stuck>>

ProcessInit == command \in {"urban", "demo"} /\ Init /\ Demo!Init

UrbanNext == command = "urban" /\ Next /\ UNCHANGED <<command, demoVars>>
DemoNext == command = "demo" /\ Demo!Next /\ UNCHANGED <<command, urbanVars>>

ProcessSpec ==
  /\ ProcessInit
  /\ [][UrbanNext \/ DemoNext]_<<command, urbanVars, demoVars>>
  /\ WF_<<command, urbanVars, demoVars>>(command = "urban" /\ Main /\ UNCHANGED <<command, demoVars>>)
  /\ WF_<<command, urbanVars, demoVars>>(command = "demo" /\ Demo!Main /\ UNCHANGED <<command, urbanVars>>)

-----------------------------------------------------------------------------
(* The types of both scripts.                                              *)
ProcessTypeOK == TypeOK /\ Demo!TypeOK

(* A sealed event is whole and not about a collision after the one that    *)
(* triggered it.                                                           *)
SealedWhole == Demo!SealedWhole

(* A collision found in time is sealed.                                    *)
CollisionSealed == Demo!CollisionSealed

(* Whatever ended a script, unless its clean-up fails the world's settings *)
(* are back and every actor it had recorded is destroyed: what is left, if *)
(* anything, was being spawned when it broke off.                          *)
OnlyUnrecordedLeft == UrbanRestores /\ Demo!DemoRestores

(* The documented window of a sealed event.                                *)
FullWindow == Demo!FullWindow
=============================================================================
