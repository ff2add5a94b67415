------------------------------ MODULE V2xCosim ------------------------------
(***************************************************************************)
(* The co-simulation of scenarios/carla/v2x_cosim.py: it steps CARLA and   *)
(* SUMO, broadcasts an awareness message (CAM) for every vehicle at every  *)
(* CAM interval under a pseudonym of the vehicle, rotates the pseudonyms,  *)
(* and gives both simulators back when it ends.  Times are steps of 50 ms. *)
(* The script has one thread; an interrupt may come at any point of the    *)
(* loop and of the clean-up, and whatever the simulators are asked may     *)
(* fail.                                                                   *)
(***************************************************************************)
EXTENDS Integers, FiniteSets

CONSTANTS
  Traffic,           \* the ids SUMO gives its vehicles
  Ego,               \* the id of the vehicle in CARLA
  CamInterval,       \* steps between two broadcasts
  RotationInterval,  \* steps a pseudonym is used for
  TotalSteps         \* steps of the run; bounds the behaviours

Ids == Traffic \union {Ego}

(* The length of the run and the intervals are not negative.               *)
ASSUME CosimAssumption ==
  RotationInterval \in Nat /\ TotalSteps \in Nat /\ CamInterval \in Nat \ {0}

VARIABLES
  pc,           \* what the script does next
  step,         \* the step of the loop
  unserved,     \* the vehicles of this step's list still to come
  pseudonyms,   \* the state of each vehicle tracked
  issued,       \* pseudonyms generated so far; they are numbered
  cam,          \* the message built and not yet sent
  uses,         \* what was broadcast: pseudonym, vehicle and step
  stats,        \* the counters of the script
  synchronous,  \* CARLA waits for the script's ticks
  sumo,         \* the connection to SUMO
  ego,          \* the vehicle spawned in CARLA
  raised,       \* an exception leaves the loop or the clean-up for good
  refused,      \* what would not be given back
  interrupted   \* history: the user interrupted the clean-up

resources == <<synchronous, sumo, ego, refused, interrupted>>
v2x == <<pseudonyms, issued, cam, uses, stats>>
v2xVars == <<pc, step, unserved, v2x, resources, raised>>

CosimTypeOK ==
  /\ pc \in {"connect", "spawn", "tick", "ego", "list", "serve", "send", "destroy",
             "close", "restore", "returned", "raised"}
  /\ step \in 0..TotalSteps /\ unserved \subseteq Traffic /\ issued \in Nat
  /\ DOMAIN pseudonyms \subseteq Ids
  /\ \A v \in DOMAIN pseudonyms :
       pseudonyms[v] \in [current : 1..issued, createdAt : 0..step, rotations : 1..issued,
                          previous : SUBSET (1..issued)]
  /\ uses \subseteq [station : 1..issued, vehicle : Ids, at : 0..step]
  /\ stats \in [broadcast : Nat, rotations : Nat, destroyed : Nat, tracked : Nat]
  /\ synchronous \in BOOLEAN /\ raised \in BOOLEAN /\ interrupted \in BOOLEAN
  /\ sumo \in {"none", "open", "closed"} /\ ego \in {"none", "alive", "destroyed"}
  /\ refused \subseteq {"ego", "sumo", "world"}

NoCam == [station |-> 0]

CosimInit ==
  /\ pc = "connect" /\ step = 0 /\ unserved = {} /\ raised = FALSE
  /\ pseudonyms = [v \in {} |-> 0] /\ issued = 0 /\ cam = NoCam /\ uses = {}
  /\ stats = [broadcast |-> 0, rotations |-> 0, destroyed |-> 0, tracked |-> 0]
  /\ synchronous = FALSE /\ sumo = "none" /\ ego = "none" /\ refused = {}
  /\ interrupted = FALSE

-----------------------------------------------------------------------------
(* Connecting: the CARLA world, SUMO, synchronous mode.  What was reached  *)
(* when one of them raises stays.                                          *)
ConnectBoth ==
  /\ pc = "connect"
  /\ \/ sumo' = "open" /\ synchronous' = TRUE /\ pc' = "spawn"
     \/ sumo' \in {"none", "open"} /\ pc' = "raised" /\ UNCHANGED synchronous
  /\ UNCHANGED <<step, unserved, v2x, ego, refused, raised, interrupted>>

(* The ego is spawned outside the try block: an exception passes the       *)
(* clean-up by.                                                            *)
Spawn ==
  /\ pc = "spawn"
  /\ \/ ego' = "alive" /\ pc' = "tick"
     \/ ego' \in {"none", "alive"} /\ pc' = "raised"
  /\ UNCHANGED <<step, unserved, v2x, synchronous, sumo, refused, raised, interrupted>>

(* Both simulators advance; a message is due at every CAM interval.        *)
Tick ==
  /\ pc = "tick" /\ step < TotalSteps
  /\ IF step % CamInterval = 0 THEN pc' = "ego" /\ UNCHANGED step
                               ELSE step' = step + 1 /\ UNCHANGED pc
  /\ UNCHANGED <<unserved, v2x, resources, raised>>

LoopEnds ==
  /\ pc = "tick" /\ step = TotalSteps /\ pc' = "destroy"
  /\ UNCHANGED <<step, unserved, v2x, resources, raised>>

-----------------------------------------------------------------------------
(* Mutant: rotates only at the message at which the interval elapses.      *)
NeedsRotationJustThen(age) == {age = RotationInterval}

(* The answers needs_rotation may give: both times are products with 0.05, *)
(* and their difference may round to just below an interval that has       *)
(* elapsed exactly.                                                        *)
NeedsRotation(age) ==
  {due \in BOOLEAN : /\ age > RotationInterval => due
                     /\ age < RotationInterval => ~due}

(* A pseudonym nobody had before; it takes the place of the current one,   *)
(* which is only kept in the list of previous ones.                        *)
Rotate(state) ==
  [current |-> issued + 1, createdAt |-> step, rotations |-> state.rotations + 1,
   previous |-> state.previous \union ({state.current} \ {0})]

Unnamed == [current |-> 0, createdAt |-> 0, rotations |-> 0, previous |-> {}]

Named(v, state) ==
  [w \in DOMAIN pseudonyms \union {v} |-> IF w = v THEN state ELSE pseudonyms[w]]

(* A vehicle not tracked yet gets its first pseudonym, any other keeps its *)
(* own or rotates it; the message is built under the result.               *)
Build(v) ==
  /\ IF v \notin DOMAIN pseudonyms
       THEN /\ pseudonyms' = Named(v, Rotate(Unnamed)) /\ issued' = issued + 1
            /\ stats' = [stats EXCEPT !.tracked = @ + 1, !.rotations = @ + 1]
       ELSE \E due \in NeedsRotation(step - pseudonyms[v].createdAt) :
              IF due
                THEN /\ pseudonyms' = Named(v, Rotate(pseudonyms[v]))
                     /\ issued' = issued + 1
                     /\ stats' = [stats EXCEPT !.rotations = @ + 1, !.destroyed = @ + 1]
                ELSE UNCHANGED <<pseudonyms, issued, stats>>
  /\ cam' = [station |-> pseudonyms'[v].current, vehicle |-> v, at |-> step]
  /\ pc' = "send" /\ UNCHANGED uses

EgoCam ==
  /\ pc = "ego" /\ Build(Ego)
  /\ UNCHANGED <<step, unserved, resources, raised>>

(* SUMO lists the vehicles it has now.                                     *)
ListVehicles ==
  /\ pc = "list" /\ unserved' \in SUBSET Traffic /\ pc' = "serve"
  /\ UNCHANGED <<step, v2x, resources, raised>>

(* A vehicle that cannot be read is passed over before it is tracked.      *)
Serve(v) ==
  /\ pc = "serve" /\ v \in unserved /\ unserved' = unserved \ {v}
  /\ \/ Build(v)
     \/ UNCHANGED <<pc, v2x>>
  /\ UNCHANGED <<step, resources, raised>>

(* A gateway that does not answer is ignored, and the message counted.     *)
SendCam ==
  /\ pc = "send" /\ uses' = uses \union {cam} /\ cam' = NoCam
  /\ stats' = [stats EXCEPT !.broadcast = @ + 1]
  /\ pc' = IF cam.vehicle = Ego THEN "list" ELSE "serve"
  /\ UNCHANGED <<step, unserved, pseudonyms, issued, resources, raised>>

StepEnds ==
  /\ pc = "serve" /\ unserved = {} /\ pc' = "tick" /\ step' = step + 1
  /\ UNCHANGED <<unserved, v2x, resources, raised>>

-----------------------------------------------------------------------------
(* The user interrupts the loop; the interrupt goes no further, unless a   *)
(* second one comes while it is reported.                                  *)
Interrupt ==
  /\ pc \in {"tick", "ego", "list", "serve", "send"} /\ pc' = "destroy"
  /\ raised' \in BOOLEAN
  /\ UNCHANGED <<step, unserved, v2x, resources>>

(* Mutant: without the finally clause.                                     *)
RaiseUncleaned ==
  /\ pc \in {"tick", "ego", "list"} /\ pc' = "raised" /\ raised' = TRUE
  /\ UNCHANGED <<step, unserved, v2x, resources>>

(* A simulator fails; the exception goes on after the clean-up.            *)
Raise ==
  /\ pc \in {"tick", "ego", "list"} /\ pc' = "destroy" /\ raised' = TRUE
  /\ UNCHANGED <<step, unserved, v2x, resources>>

(* Destroying the ego may raise, which ends the clean-up with it.          *)
DestroyEgo ==
  /\ pc = "destroy"
  /\ \/ ego' = "destroyed" /\ pc' = "close" /\ UNCHANGED <<refused, raised>>
     \/ refused' = refused \union {"ego"} /\ pc' = "raised" /\ raised' = TRUE /\ UNCHANGED ego
  /\ UNCHANGED <<step, unserved, v2x, synchronous, sumo, interrupted>>

(* The failures of the other two are swallowed.                            *)
CloseSumo ==
  /\ pc = "close" /\ pc' = "restore"
  /\ \/ sumo' = "closed" /\ UNCHANGED refused
     \/ refused' = refused \union {"sumo"} /\ UNCHANGED sumo
  /\ UNCHANGED <<step, unserved, v2x, synchronous, ego, raised, interrupted>>

Restore ==
  /\ pc = "restore" /\ pc' = IF raised THEN "raised" ELSE "returned"
  /\ \/ synchronous' = FALSE /\ UNCHANGED refused
     \/ refused' = refused \union {"world"} /\ UNCHANGED synchronous
  /\ UNCHANGED <<step, unserved, v2x, sumo, ego, raised, interrupted>>

(* An interrupt in the clean-up is no Exception, and ends it there, after  *)
(* what was being done or before.                                          *)
InterruptCleanUp ==
  /\ pc \in {"destroy", "close", "restore"} /\ pc' = "raised"
  /\ ego' \in IF pc = "destroy" THEN {ego, "destroyed"} ELSE {ego}
  /\ sumo' \in IF pc = "close" THEN {sumo, "closed"} ELSE {sumo}
  /\ synchronous' \in IF pc = "restore" THEN {synchronous, FALSE} ELSE {synchronous}
  /\ raised' = TRUE /\ interrupted' = TRUE
  /\ UNCHANGED <<step, unserved, v2x, refused>>

-----------------------------------------------------------------------------
CosimNext ==
  \/ ConnectBoth \/ Spawn \/ Tick \/ LoopEnds
  \/ EgoCam \/ ListVehicles \/ (\E v \in Traffic : Serve(v)) \/ SendCam \/ StepEnds
  \/ Interrupt \/ Raise \/ DestroyEgo \/ CloseSumo \/ Restore
  \/ InterruptCleanUp

CosimSpec == CosimInit /\ [][CosimNext]_v2xVars

-----------------------------------------------------------------------------
(* Whoever collects the messages can follow a vehicle under one pseudonym  *)
(* for a rotation interval and no longer, and never meets two vehicles     *)
(* under the same one: also a vehicle that was away, or could not be read, *)
(* while its pseudonym grew old (PseudonymState, _get_or_create_pseudonym).*)
FollowedBriefly ==
  \A first, last \in uses :
    first.station = last.station =>
      first.vehicle = last.vehicle /\ last.at - first.at <= RotationInterval

(* What the script still holds and has not tried in vain to give back.     *)
Untried ==
  {r \in {"ego", "sumo", "world"} \ refused :
     \/ r = "ego" /\ ego = "alive"
     \/ r = "sumo" /\ sumo = "open"
     \/ r = "world" /\ synchronous}

(* A run that has reached its loop and returns has tried to give back all  *)
(* that it holds: the ego, SUMO and an asynchronous world.  One that       *)
(* raises has as well, whichever simulator failed and where the user       *)
(* interrupted the loop, with two exceptions: the ego could not be         *)
(* destroyed, or the user interrupted the clean-up.  Then what came after  *)
(* stays: CARLA waits for ticks if SUMO was not closed, and SUMO is open   *)
(* if the ego was not destroyed (run, _cleanup).                           *)
LeavesClean ==
  /\ pc = "returned" => Untried = {}
  /\ pc = "raised" /\ raised =>
       /\ Untried = {} \/ interrupted \/ "ego" \in refused
       /\ "ego" \in Untried => "sumo" \in Untried
       /\ "sumo" \in Untried => "world" \in Untried

=============================================================================
