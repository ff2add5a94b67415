--------------------------- MODULE AdaptersProofs ---------------------------
(***************************************************************************)
(* Proofs about the programs an adapter process runs, for any vehicles,    *)
(* intervals, bounds and length of a run.  The co-simulation: a pseudonym  *)
(* belongs to one vehicle for good and is only sent within an interval of  *)
(* its making, and whichever way the loop ends, the clean-up gives back    *)
(* what can be given back.  The ROS 2 adapter: its queue is handed out     *)
(* once and in order, and a run that was told to stop hands out nothing    *)
(* more.  SumoAdapterProofs has the proofs about the third program.        *)
(***************************************************************************)
EXTENDS MCAdapters, SumoAdapterProofs

-----------------------------------------------------------------------------
(* The co-simulation.                                                      *)

(* The pseudonyms a vehicle has had.                                       *)
Own(v) == pseudonyms[v].previous \union {pseudonyms[v].current}

(* A message is under a pseudonym of its vehicle; if the vehicle still has *)
(* it, the message is no older than it and no later than an interval.      *)
InWindow(use) ==
  /\ use.vehicle \in DOMAIN pseudonyms
  /\ use.station \in Own(use.vehicle)
  /\ use.station = pseudonyms[use.vehicle].current =>
       use.at - pseudonyms[use.vehicle].createdAt \in 0..RotationInterval

(* No pseudonym was ever given to two vehicles.                            *)
OwnersInv == \A v, w \in DOMAIN pseudonyms : Own(v) \cap Own(w) # {} => v = w

SentInv == \A use \in uses : InWindow(use)

(* The message about to be sent is new and under the current pseudonym.    *)
CamInv ==
  pc = "send" =>
    /\ cam \in [station : 1..issued, vehicle : Ids, at : 0..step]
    /\ InWindow(cam)
    /\ cam.station = pseudonyms[cam.vehicle].current

PseudonymInv == OwnersInv /\ SentInv /\ CamInv /\ FollowedBriefly

State(n, now) ==
  [current : 1..n, createdAt : 0..now, rotations : 1..n, previous : SUBSET (1..n)]

PseudonymsTyped(names, n, now) ==
  DOMAIN names \subseteq Ids /\ \A v \in DOMAIN names : names[v] \in State(n, now)

-----------------------------------------------------------------------------
(* A fresh pseudonym: what Rotate makes of a vehicle's state.              *)
LEMMA RotateState ==
  ASSUME issued \in Nat, step \in Nat,
         NEW state,
         state = Unnamed \/ state \in State(issued, step)
  PROVE  /\ Rotate(state) \in State(issued + 1, step)
         /\ Rotate(state).current = issued + 1 /\ Rotate(state).createdAt = step
         /\ Rotate(state).previous = state.previous \union ({state.current} \ {0})
         /\ Rotate(state).previous \subseteq 1..issued
<1>1. state.previous \subseteq 1..issued /\ state.current \in 0..issued
      /\ state.rotations \in 0..issued
  <2>1. CASE state = Unnamed
    BY <2>1 DEF Unnamed
  <2>2. CASE state \in State(issued, step)
    BY <2>2 DEF State
  <2> QED
    BY <2>1, <2>2
<1>2. Rotate(state).previous \subseteq 1..issued
  BY <1>1 DEF Rotate
<1> QED
  BY <1>1, <1>2 DEF Rotate, State

(* Whoever had pseudonyms keeps them, and an older state stays well typed. *)
LEMMA StateGrows ==
  ASSUME NEW n \in Nat, NEW now \in Nat, NEW state \in State(n, now)
  PROVE  state \in State(n + 1, now) /\ state \in State(n, now + 1)
BY DEF State

(* Build gives a vehicle a fresh pseudonym in the place of the current one, *)
(* or leaves all of them as they are because the current one is in time.    *)
Renamed(v, old) ==
  /\ pseudonyms' = Named(v, Rotate(old)) /\ issued' = issued + 1
  /\ \/ v \notin DOMAIN pseudonyms /\ old = Unnamed
     \/ v \in DOMAIN pseudonyms /\ old = pseudonyms[v]

InTime(v) ==
  /\ v \in DOMAIN pseudonyms
  /\ step - pseudonyms[v].createdAt <= RotationInterval
  /\ UNCHANGED <<pseudonyms, issued>>

LEMMA BuildCases ==
  ASSUME NEW v, Build(v), RotationInterval \in Nat, CosimTypeOK
  PROVE  Renamed(v, Unnamed) \/ Renamed(v, pseudonyms[v]) \/ InTime(v)
<1>1. CASE v \notin DOMAIN pseudonyms
  BY <1>1 DEF Build, Renamed
<1>2. CASE v \in DOMAIN pseudonyms
  <2>1. PICK due \in NeedsRotation(step - pseudonyms[v].createdAt) :
          IF due
            THEN /\ pseudonyms' = Named(v, Rotate(pseudonyms[v])) /\ issued' = issued + 1
                 /\ stats' = [stats EXCEPT !.rotations = @ + 1, !.destroyed = @ + 1]
            ELSE UNCHANGED <<pseudonyms, issued, stats>>
    BY <1>2 DEF Build
  <2>2. CASE due
    BY <1>2, <2>1, <2>2 DEF Renamed
  <2>3. CASE ~due
    <3>1. step \in Nat /\ pseudonyms[v].createdAt \in Nat
      BY <1>2 DEF CosimTypeOK
    <3>2. ~(step - pseudonyms[v].createdAt > RotationInterval)
      BY <2>1, <2>3 DEF NeedsRotation
    <3> QED
      BY <1>2, <2>1, <2>3, <3>1, <3>2 DEF InTime
  <2> QED
    BY <2>2, <2>3
<1> QED
  BY <1>1, <1>2

-----------------------------------------------------------------------------
(* What a fresh pseudonym does to the vehicles' states: the vehicle has    *)
(* what it had and one more, which is nobody else's.                       *)
LEMMA RenamedStates ==
  ASSUME CosimTypeOK, NEW v \in Ids, NEW old, Renamed(v, old)
  PROVE  /\ PseudonymsTyped(pseudonyms', issued', step)
         /\ DOMAIN pseudonyms' = DOMAIN pseudonyms \union {v}
         /\ \A w \in DOMAIN pseudonyms \ {v} : pseudonyms'[w] = pseudonyms[w]
         /\ pseudonyms'[v].current = issued + 1 /\ pseudonyms'[v].createdAt = step
         /\ pseudonyms'[v].previous \subseteq 1..issued
         /\ v \in DOMAIN pseudonyms => pseudonyms'[v].previous = Own(v) \ {0}
         /\ v \notin DOMAIN pseudonyms => pseudonyms'[v].previous = {}
<1>1. issued \in Nat /\ step \in Nat
  BY DEF CosimTypeOK
<1>2. \A w \in DOMAIN pseudonyms : pseudonyms[w] \in State(issued, step)
  BY DEF CosimTypeOK, State
<1>3. old = Unnamed \/ old \in State(issued, step)
  BY <1>2 DEF Renamed
<1>4. /\ Rotate(old) \in State(issued + 1, step)
      /\ Rotate(old).current = issued + 1 /\ Rotate(old).createdAt = step
      /\ Rotate(old).previous = old.previous \union ({old.current} \ {0})
      /\ Rotate(old).previous \subseteq 1..issued
  BY <1>1, <1>3, RotateState
<1>5. DOMAIN pseudonyms' = DOMAIN pseudonyms \union {v}
  BY DEF Renamed, Named
<1>6. \A w \in DOMAIN pseudonyms \ {v} : pseudonyms'[w] = pseudonyms[w]
  BY DEF Renamed, Named
<1>7. pseudonyms'[v] = Rotate(old)
  BY DEF Renamed, Named
<1>8. PseudonymsTyped(pseudonyms', issued', step)
  <2>1. \A w \in DOMAIN pseudonyms \ {v} : pseudonyms'[w] \in State(issued + 1, step)
    BY <1>1, <1>2, <1>6, StateGrows
  <2>2. DOMAIN pseudonyms \subseteq Ids
    BY DEF CosimTypeOK
  <2> QED
    BY <1>4, <1>5, <1>7, <2>1, <2>2 DEF PseudonymsTyped, Renamed
<1>9. v \in DOMAIN pseudonyms => pseudonyms'[v].previous = Own(v) \ {0}
  <2>1. ASSUME v \in DOMAIN pseudonyms
        PROVE  0 \notin pseudonyms[v].previous /\ old = pseudonyms[v]
    BY <1>1, <1>2, <2>1 DEF Renamed, State
  <2> QED
    BY <1>4, <1>7, <2>1 DEF Own
<1>10. v \notin DOMAIN pseudonyms => pseudonyms'[v].previous = {}
  BY <1>4, <1>7 DEF Renamed, Unnamed
<1> QED
  BY <1>4, <1>5, <1>6, <1>7, <1>8, <1>9, <1>10

(* The messages sent stay under their vehicle's pseudonyms, and no one of  *)
(* them is under the fresh one.                                            *)
LEMMA RenamedKeeps ==
  ASSUME CosimTypeOK, OwnersInv, SentInv, NEW v \in Ids, NEW old, Renamed(v, old),
         UNCHANGED uses
  PROVE  OwnersInv' /\ SentInv'
<1>1. issued \in Nat
  BY DEF CosimTypeOK
<1>2. \A w \in DOMAIN pseudonyms : Own(w) \subseteq 1..issued
  BY DEF CosimTypeOK, Own
<1>3. /\ DOMAIN pseudonyms' = DOMAIN pseudonyms \union {v}
      /\ \A w \in DOMAIN pseudonyms \ {v} : pseudonyms'[w] = pseudonyms[w]
      /\ pseudonyms'[v].current = issued + 1
      /\ v \in DOMAIN pseudonyms => pseudonyms'[v].previous = Own(v) \ {0}
      /\ v \notin DOMAIN pseudonyms => pseudonyms'[v].previous = {}
  BY RenamedStates
<1>4. \A w \in DOMAIN pseudonyms \ {v} : Own(w)' = Own(w)
  BY <1>3 DEF Own
<1>5. /\ v \in DOMAIN pseudonyms => Own(v)' = Own(v) \union {issued + 1}
      /\ v \notin DOMAIN pseudonyms => Own(v)' = {issued + 1}
  <2>1. v \in DOMAIN pseudonyms => 0 \notin Own(v)
    BY <1>1, <1>2
  <2>2. Own(v)' = pseudonyms'[v].previous \union {issued + 1}
    BY <1>3 DEF Own
  <2> QED
    BY <1>3, <2>1, <2>2
<1>6. issued + 1 \notin 1..issued
  BY <1>1
<1>7. OwnersInv'
  <2>1. ASSUME NEW w \in DOMAIN pseudonyms', NEW x \in DOMAIN pseudonyms',
               NEW n \in Own(w)', n \in Own(x)'
        PROVE  w = x
    <3>1. CASE w # v /\ x # v
      BY <1>3, <1>4, <2>1, <3>1 DEF OwnersInv
    <3>2. CASE w = v /\ x # v
      BY <1>2, <1>3, <1>4, <1>5, <1>6, <2>1, <3>2 DEF OwnersInv
    <3>3. CASE w # v /\ x = v
      BY <1>2, <1>3, <1>4, <1>5, <1>6, <2>1, <3>3 DEF OwnersInv
    <3> QED
      BY <3>1, <3>2, <3>3
  <2> QED
    BY <2>1 DEF OwnersInv
<1>8. SentInv'
  <2>1. SUFFICES ASSUME NEW use \in uses PROVE InWindow(use)'
    BY DEF SentInv
  <2>2. InWindow(use)
    BY DEF SentInv
  <2>3. CASE use.vehicle = v
    BY <1>2, <1>3, <1>5, <1>6, <2>2, <2>3 DEF InWindow
  <2>4. CASE use.vehicle # v
    BY <1>3, <1>4, <2>2, <2>4 DEF InWindow
  <2> QED
    BY <2>3, <2>4
<1> QED
  BY <1>7, <1>8

-----------------------------------------------------------------------------
(* Types, and the pseudonyms, over a step that builds a message.           *)
LEMMA BuildTypes ==
  ASSUME CosimAssumption, CosimTypeOK, NEW v \in Ids, Build(v),
         unserved' \subseteq Traffic, UNCHANGED <<step, resources, raised>>
  PROVE  CosimTypeOK'
<1>1. PseudonymsTyped(pseudonyms', issued', step) /\ issued' \in Nat
  <2>1. PseudonymsTyped(pseudonyms, issued, step) /\ issued \in Nat
    BY DEF CosimTypeOK, PseudonymsTyped, State
  <2>2. CASE InTime(v)
    BY <2>1, <2>2 DEF InTime
  <2>3. CASE Renamed(v, Unnamed) \/ Renamed(v, pseudonyms[v])
    <3>1. PseudonymsTyped(pseudonyms', issued', step)
      BY <2>3, RenamedStates
    <3>2. issued' = issued + 1
      BY <2>3 DEF Renamed
    <3> QED
      BY <2>1, <3>1, <3>2
  <2> QED
    BY <2>2, <2>3, BuildCases DEF CosimAssumption
<1>2. stats' \in [broadcast : Nat, rotations : Nat, destroyed : Nat, tracked : Nat]
  <2>1. stats \in [broadcast : Nat, rotations : Nat, destroyed : Nat, tracked : Nat]
    BY DEF CosimTypeOK
  <2>2. \/ stats' = [stats EXCEPT !.tracked = @ + 1, !.rotations = @ + 1]
        \/ stats' = [stats EXCEPT !.rotations = @ + 1, !.destroyed = @ + 1]
        \/ stats' = stats
    BY DEF Build
  <2>4. CASE stats' = [stats EXCEPT !.tracked = @ + 1, !.rotations = @ + 1]
    <3> DEFINE once == [stats EXCEPT !.tracked = @ + 1]
    <3>1. once \in [broadcast : Nat, rotations : Nat, destroyed : Nat, tracked : Nat]
      BY <2>1
    <3>2. stats' = [once EXCEPT !.rotations = @ + 1]
      BY <2>1, <2>4
    <3> HIDE DEF once
    <3> QED
      BY <3>1, <3>2
  <2>5. CASE stats' = [stats EXCEPT !.rotations = @ + 1, !.destroyed = @ + 1]
    <3> DEFINE once == [stats EXCEPT !.rotations = @ + 1]
    <3>1. once \in [broadcast : Nat, rotations : Nat, destroyed : Nat, tracked : Nat]
      BY <2>1
    <3>2. stats' = [once EXCEPT !.destroyed = @ + 1]
      BY <2>1, <2>5
    <3> HIDE DEF once
    <3> QED
      BY <3>1, <3>2
  <2> QED
    BY <2>1, <2>2, <2>4, <2>5
<1>3. uses \subseteq [station : 1..issued', vehicle : Ids, at : 0..step]
  <2>1. issued' = issued \/ issued' = issued + 1
    BY BuildCases DEF CosimAssumption, Renamed, InTime
  <2>2. 1..issued \subseteq 1..issued'
    BY <2>1 DEF CosimTypeOK
  <2> QED
    BY <2>2 DEF CosimTypeOK
<1> QED
  BY <1>1, <1>2, <1>3 DEF CosimTypeOK, Build, resources, PseudonymsTyped, State

LEMMA BuildNames ==
  ASSUME CosimAssumption, CosimTypeOK, PseudonymInv, NEW v \in Ids, Build(v), UNCHANGED step
  PROVE  PseudonymInv'
<1>1. uses' = uses /\ pc' = "send" /\ step' = step
      /\ cam' = [station |-> pseudonyms'[v].current, vehicle |-> v, at |-> step]
  BY DEF Build
<1>2. Renamed(v, Unnamed) \/ Renamed(v, pseudonyms[v]) \/ InTime(v)
  BY BuildCases DEF CosimAssumption
<1>3. OwnersInv' /\ SentInv'
  <2>1. CASE InTime(v)
    BY <1>1, <2>1 DEF InTime, PseudonymInv, OwnersInv, SentInv, InWindow, Own
  <2>2. CASE Renamed(v, Unnamed) \/ Renamed(v, pseudonyms[v])
    BY <1>1, <2>2, RenamedKeeps DEF PseudonymInv
  <2> QED
    BY <1>2, <2>1, <2>2
<1>4. /\ v \in DOMAIN pseudonyms' /\ pseudonyms'[v].current \in 1..issued'
      /\ step - pseudonyms'[v].createdAt \in 0..RotationInterval
  <2>1. CASE InTime(v)
    <3>1. pseudonyms[v].createdAt \in 0..step /\ pseudonyms[v].current \in 1..issued
      BY <2>1 DEF InTime, CosimTypeOK
    <3> HIDE DEF InTime
    <3>2. step - pseudonyms[v].createdAt <= RotationInterval
          /\ pseudonyms' = pseudonyms /\ issued' = issued /\ v \in DOMAIN pseudonyms
      BY <2>1 DEF InTime
    <3> QED
      BY <3>1, <3>2 DEF CosimTypeOK, CosimAssumption
  <2>2. CASE Renamed(v, Unnamed) \/ Renamed(v, pseudonyms[v])
    <3>1. /\ v \in DOMAIN pseudonyms'
          /\ pseudonyms'[v].current = issued + 1 /\ pseudonyms'[v].createdAt = step
      BY <2>2, RenamedStates
    <3>2. issued' = issued + 1
      BY <2>2 DEF Renamed
    <3> QED
      BY <3>1, <3>2 DEF CosimTypeOK, CosimAssumption
  <2> QED
    BY <1>2, <2>1, <2>2
<1>5. CamInv'
  BY <1>1, <1>4 DEF CamInv, InWindow, Own, CosimTypeOK
<1> QED
  BY <1>1, <1>3, <1>5 DEF PseudonymInv, FollowedBriefly

(* Sending keeps to the interval: any earlier message under the current    *)
(* pseudonym is this vehicle's and was sent within the same interval.      *)
LEMMA SendNames ==
  ASSUME CosimAssumption, CosimTypeOK, PseudonymInv, SendCam
  PROVE  PseudonymInv'
<1>1. /\ uses' = uses \union {cam} /\ pc' # "send"
      /\ pseudonyms' = pseudonyms /\ issued' = issued /\ step' = step
  BY DEF SendCam
<1>2. InWindow(cam) /\ cam.station = pseudonyms[cam.vehicle].current
      /\ cam.at \in 0..step
  BY DEF SendCam, PseudonymInv, CamInv
<1>3. \A v : Own(v)' = Own(v)
  BY <1>1 DEF Own
<1>4. OwnersInv'
  BY <1>1, <1>3 DEF PseudonymInv, OwnersInv
<1>5. \A use \in uses' : InWindow(use)
  BY <1>1, <1>2 DEF PseudonymInv, SentInv
<1>6. SentInv'
  BY <1>1, <1>3, <1>5 DEF SentInv, InWindow
<1>7. ASSUME NEW use \in uses, use.station = cam.station
      PROVE  /\ use.vehicle = cam.vehicle
             /\ use.at - pseudonyms[cam.vehicle].createdAt \in 0..RotationInterval
  <2>1. InWindow(use)
    BY DEF PseudonymInv, SentInv
  <2>2. use.vehicle = cam.vehicle
    BY <1>2, <1>7, <2>1 DEF InWindow, PseudonymInv, OwnersInv
  <2> QED
    BY <1>2, <1>7, <2>1, <2>2 DEF InWindow
<1>8. /\ cam.at - pseudonyms[cam.vehicle].createdAt \in 0..RotationInterval
      /\ pseudonyms[cam.vehicle].createdAt \in Nat /\ cam.at \in Nat
  BY <1>2 DEF InWindow, CosimTypeOK
<1>9. ASSUME NEW use \in uses, use.station = cam.station
      PROVE  /\ use.vehicle = cam.vehicle
             /\ use.at - cam.at <= RotationInterval /\ cam.at - use.at <= RotationInterval
  <2>1. use.at \in Nat
    BY DEF CosimTypeOK
  <2>2. use.at - pseudonyms[cam.vehicle].createdAt \in 0..RotationInterval
    BY <1>7, <1>9
  <2> QED
    BY <1>7, <1>8, <1>9, <2>1, <2>2 DEF CosimAssumption
<1>10. FollowedBriefly'
  <2>1. SUFFICES ASSUME NEW first \in uses', NEW last \in uses',
                        first.station = last.station
                 PROVE  first.vehicle = last.vehicle
                        /\ last.at - first.at <= RotationInterval
    BY DEF FollowedBriefly
  <2>2. CASE first \in uses /\ last \in uses
    BY <2>1, <2>2 DEF PseudonymInv, FollowedBriefly
  <2>3. CASE first = cam /\ last = cam
    BY <1>8, <2>3 DEF CosimAssumption
  <2>4. CASE first = cam /\ last \in uses
    BY <1>9, <2>1, <2>4
  <2>5. CASE first \in uses /\ last = cam
    BY <1>9, <2>1, <2>5
  <2> QED
    BY <1>1, <2>2, <2>3, <2>4, <2>5
<1> QED
  BY <1>1, <1>4, <1>6, <1>10 DEF PseudonymInv, CamInv

-----------------------------------------------------------------------------
(* The clean-up, step by step: what a later one of its steps finds done,   *)
(* and nobody raises before there is something to clean up.                *)
CleanInv ==
  /\ pc \in {"connect", "spawn"} => ~raised
  /\ pc \notin {"returned", "raised"} => ~interrupted
  /\ pc \notin {"restore", "returned", "raised"} => refused = {}
  /\ pc \notin {"connect", "restore", "returned", "raised"} => sumo = "open"
  /\ pc \notin {"connect", "returned", "raised"} => synchronous
  /\ pc \in {"close", "restore"} => ego = "destroyed"
  /\ pc = "restore" => refused \subseteq {"sumo"} /\ (sumo = "open" => "sumo" \in refused)
  /\ LeavesClean

(* A message is only built, sent or passed over before the last step.      *)
LoopInv == pc \in {"ego", "list", "serve", "send"} => step < TotalSteps

CosimInv == CosimTypeOK /\ LoopInv /\ PseudonymInv /\ CleanInv

(* The steps that touch no pseudonym.                                      *)
Quiet ==
  \/ ConnectBoth \/ Spawn \/ Tick \/ LoopEnds \/ ListVehicles \/ StepEnds
  \/ Interrupt \/ Raise \/ DestroyEgo \/ CloseSumo \/ Restore \/ InterruptCleanUp
  \/ pc = "serve" /\ unserved' \subseteq unserved /\ UNCHANGED <<pc, step, v2x, resources, raised>>
  \/ UNCHANGED v2xVars

LEMMA QuietSteps ==
  ASSUME CosimAssumption, CosimTypeOK, LoopInv, Quiet
  PROVE  /\ UNCHANGED v2x
         /\ step' \in 0..TotalSteps /\ 0..step \subseteq 0..step'
         /\ LoopInv'
<1>1. step \in 0..TotalSteps /\ TotalSteps \in Nat
  BY DEF CosimTypeOK, CosimAssumption
<1>2. CASE Tick
  BY <1>1, <1>2 DEF Tick, LoopInv
<1>3. CASE StepEnds
  BY <1>1, <1>3 DEF StepEnds, LoopInv
<1>4. CASE ListVehicles
  BY <1>1, <1>4 DEF ListVehicles, LoopInv
<1>5. CASE ConnectBoth \/ Spawn \/ LoopEnds \/ Interrupt \/ Raise
           \/ DestroyEgo \/ CloseSumo \/ Restore \/ InterruptCleanUp
  BY <1>1, <1>5 DEF ConnectBoth, Spawn, LoopEnds, Interrupt, Raise, DestroyEgo, CloseSumo,
                    Restore, InterruptCleanUp, LoopInv
<1>6. CASE pc = "serve" /\ UNCHANGED <<pc, step, v2x>>
  BY <1>1, <1>6 DEF LoopInv
<1>7. CASE UNCHANGED v2xVars
  BY <1>1, <1>7 DEF v2xVars, v2x, LoopInv
<1> QED
  BY <1>2, <1>3, <1>4, <1>5, <1>6, <1>7 DEF Quiet

LEMMA QuietTypes ==
  ASSUME CosimAssumption, CosimTypeOK, LoopInv, Quiet
  PROVE  CosimTypeOK'
<1>1. /\ UNCHANGED v2x /\ step' \in 0..TotalSteps /\ 0..step \subseteq 0..step'
  BY QuietSteps
<1>2. \A v \in DOMAIN pseudonyms :
        pseudonyms[v] \in [current : 1..issued, createdAt : 0..step', rotations : 1..issued,
                           previous : SUBSET (1..issued)]
  BY <1>1 DEF CosimTypeOK
<1>3. uses \subseteq [station : 1..issued, vehicle : Ids, at : 0..step']
  BY <1>1 DEF CosimTypeOK
<1>4. /\ pc' \in {"connect", "spawn", "tick", "ego", "list", "serve", "send", "destroy",
                  "close", "restore", "returned", "raised"}
      /\ unserved' \subseteq Traffic /\ raised' \in BOOLEAN
      /\ interrupted' \in BOOLEAN /\ synchronous' \in BOOLEAN /\ sumo' \in {"none", "open", "closed"}
      /\ ego' \in {"none", "alive", "destroyed"} /\ refused' \subseteq {"ego", "sumo", "world"}
  <2>1. CASE Tick \/ StepEnds \/ LoopEnds \/ ListVehicles \/ Interrupt \/ Raise
             \/ (unserved' \subseteq unserved /\ UNCHANGED <<pc, resources, raised>>)
    BY <2>1 DEF Tick, StepEnds, LoopEnds, ListVehicles, Interrupt, Raise, CosimTypeOK, resources
  <2>2. CASE ConnectBoth \/ Spawn \/ DestroyEgo
    BY <2>2 DEF ConnectBoth, Spawn, DestroyEgo, CosimTypeOK
  <2>3. CASE CloseSumo \/ Restore \/ InterruptCleanUp
    BY <2>3 DEF CloseSumo, Restore, InterruptCleanUp, CosimTypeOK
  <2>4. CASE UNCHANGED v2xVars
    BY <2>4 DEF v2xVars, resources, CosimTypeOK
  <2> QED
    BY <2>1, <2>2, <2>3, <2>4 DEF Quiet
<1> QED
  BY <1>1, <1>2, <1>3, <1>4 DEF CosimTypeOK, v2x

LEMMA QuietNames ==
  ASSUME CosimAssumption, CosimTypeOK, LoopInv, PseudonymInv, Quiet
  PROVE  PseudonymInv'
<1>1. UNCHANGED v2x
  BY QuietSteps
<1>2. OwnersInv' /\ SentInv' /\ FollowedBriefly'
  BY <1>1 DEF v2x, PseudonymInv, OwnersInv, SentInv, InWindow, Own, FollowedBriefly
<1>3. pc' # "send" \/ UNCHANGED v2xVars
  BY DEF Quiet, ConnectBoth, Spawn, Tick, LoopEnds, ListVehicles, StepEnds, Interrupt, Raise,
         DestroyEgo, CloseSumo, Restore, InterruptCleanUp
<1>4. CamInv'
  BY <1>1, <1>3 DEF v2x, v2xVars, PseudonymInv, CamInv, InWindow, Own
<1> QED
  BY <1>2, <1>4 DEF PseudonymInv

LEMMA SendTypes ==
  ASSUME CosimAssumption, CosimTypeOK, PseudonymInv, SendCam
  PROVE  CosimTypeOK'
<1>1. uses' \subseteq [station : 1..issued, vehicle : Ids, at : 0..step]
  BY DEF SendCam, PseudonymInv, CamInv, CosimTypeOK
<1>2. stats' \in [broadcast : Nat, rotations : Nat, destroyed : Nat, tracked : Nat]
  BY DEF SendCam, CosimTypeOK
<1> QED
  BY <1>1, <1>2 DEF SendCam, CosimTypeOK, resources

(* The loop reaches the clean-up or goes on; only the clean-up ends a run  *)
(* that has reached the loop.                                              *)
LEMMA NextClean ==
  ASSUME CleanInv, [CosimNext]_v2xVars
  PROVE  CleanInv'
<1>1. CASE ConnectBoth \/ Spawn
  BY <1>1 DEF ConnectBoth, Spawn, CleanInv, LeavesClean
<1>2. CASE Tick \/ LoopEnds \/ EgoCam \/ ListVehicles \/ SendCam \/ StepEnds \/ Interrupt \/ Raise
           \/ \E v \in Traffic : Serve(v)
  <2>1. pc' \notin {"connect", "spawn", "close", "restore", "returned", "raised"}
    BY <1>2 DEF Tick, LoopEnds, EgoCam, ListVehicles, SendCam, StepEnds, Interrupt, Raise,
                Serve, Build
  <2>2. pc \notin {"connect", "close", "restore", "returned", "raised"} /\ UNCHANGED resources
    BY <1>2 DEF Tick, LoopEnds, EgoCam, ListVehicles, SendCam, StepEnds, Interrupt, Raise,
                Serve, Build
  <2>3. UNCHANGED <<synchronous, sumo, ego, refused, interrupted>>
    BY <2>2 DEF resources
  <2> QED
    BY <2>1, <2>2, <2>3 DEF CleanInv, LeavesClean
<1>3. CASE DestroyEgo
  BY <1>3 DEF DestroyEgo, CleanInv, LeavesClean, Untried
<1>4. CASE CloseSumo
  BY <1>4 DEF CloseSumo, CleanInv, LeavesClean
<1>5. CASE Restore
  BY <1>5 DEF Restore, CleanInv, LeavesClean, Untried
<1>6. CASE InterruptCleanUp
  BY <1>6 DEF InterruptCleanUp, CleanInv, LeavesClean, Untried
<1>7. CASE UNCHANGED v2xVars
  BY <1>7 DEF v2xVars, resources, CleanInv, LeavesClean, Untried
<1> QED
  BY <1>1, <1>2, <1>3, <1>4, <1>5, <1>6, <1>7 DEF CosimNext

LEMMA NextCosim == CosimAssumption /\ CosimInv /\ [CosimNext]_v2xVars => CosimInv'
<1> SUFFICES ASSUME CosimAssumption, CosimInv, [CosimNext]_v2xVars PROVE CosimInv'
  OBVIOUS
<1> USE DEF CosimInv
<1>1. CleanInv'
  BY NextClean
<1>2. CASE Quiet
  BY <1>1, <1>2, QuietSteps, QuietTypes, QuietNames
<1>3. CASE SendCam
  <2>1. LoopInv'
    BY <1>3 DEF SendCam, LoopInv
  <2> QED
    BY <1>1, <1>3, <2>1, SendTypes, SendNames
<1>4. ASSUME NEW v \in Ids, Build(v), unserved' \subseteq Traffic,
             UNCHANGED <<step, resources, raised>>, pc \in {"ego", "serve"}
      PROVE  CosimInv'
  <2>1. LoopInv'
    BY <1>4 DEF Build, LoopInv
  <2>2. CosimTypeOK'
    BY <1>4, BuildTypes
  <2>3. PseudonymInv'
    BY <1>4, BuildNames
  <2> QED
    BY <1>1, <2>1, <2>2, <2>3
<1>5. CASE EgoCam
  <2>1. unserved' \subseteq Traffic
    BY <1>5 DEF EgoCam, CosimTypeOK
  <2> QED
    BY <1>4, <1>5, <2>1 DEF EgoCam, Ids
<1>6. ASSUME NEW v \in Traffic, Serve(v)
      PROVE  CosimInv'
  <2>1. unserved' \subseteq unserved /\ unserved \subseteq Traffic /\ v \in Ids
        /\ pc = "serve" /\ UNCHANGED <<step, resources, raised>>
    BY <1>6 DEF Serve, CosimTypeOK, Ids
  <2>2. CASE Build(v)
    BY <1>4, <2>1, <2>2
  <2>3. CASE UNCHANGED <<pc, v2x>>
    BY <1>2, <2>1, <2>3 DEF Quiet
  <2> QED
    BY <1>6, <2>2, <2>3 DEF Serve
<1> QED
  BY <1>2, <1>3, <1>5, <1>6 DEF CosimNext, Quiet

LEMMA InitCosim == CosimAssumption /\ CosimInit => CosimInv
<1> SUFFICES ASSUME CosimAssumption, CosimInit PROVE CosimInv
  OBVIOUS
<1>1. DOMAIN pseudonyms = {} /\ uses = {}
  BY DEF CosimInit
<1>2. CosimTypeOK
  <2>1. /\ step = 0 /\ issued = 0 /\ unserved = {} /\ pc = "connect" /\ raised = FALSE
        /\ synchronous = FALSE /\ sumo = "none" /\ ego = "none" /\ refused = {}
        /\ interrupted = FALSE
    BY DEF CosimInit
  <2>2. stats \in [broadcast : Nat, rotations : Nat, destroyed : Nat, tracked : Nat]
    BY DEF CosimInit
  <2>3. 0 \in 0..TotalSteps
    BY DEF CosimAssumption
  <2> QED
    BY <1>1, <2>1, <2>2, <2>3 DEF CosimTypeOK
<1>3. PseudonymInv
  BY <1>1 DEF CosimInit, PseudonymInv, OwnersInv, SentInv, CamInv, FollowedBriefly
<1>4. LoopInv /\ CleanInv
  BY DEF CosimInit, LoopInv, CleanInv, LeavesClean
<1> QED
  BY <1>2, <1>3, <1>4 DEF CosimInv

(* The types of the script, its pseudonyms and its clean-up, together.     *)
THEOREM CosimInvHolds == CosimSpec => []CosimInv
<1>1. CosimInit => CosimInv
  BY InitCosim, CosimAssumption
<1>2. CosimInv /\ [CosimNext]_v2xVars => CosimInv'
  BY NextCosim, CosimAssumption
<1> QED
  BY <1>1, <1>2, PTL DEF CosimSpec

(* The state of the script is of its types; the loop ends with the last    *)
(* step of the run.                                                        *)
THEOREM CosimTypeCorrect == CosimSpec => []CosimTypeOK
<1>1. CosimInv => CosimTypeOK
  BY DEF CosimInv
<1> QED
  BY <1>1, CosimInvHolds, PTL

(* Whoever collects the messages can follow a vehicle under one pseudonym  *)
(* for an interval at most and never meets two under the same one, also    *)
(* when vehicles come and go between the messages.                         *)
THEOREM FollowedForAnInterval == CosimSpec => []FollowedBriefly
<1>1. CosimInv => FollowedBriefly
  BY DEF CosimInv, PseudonymInv
<1> QED
  BY <1>1, CosimInvHolds, PTL

(* However the loop ends, the clean-up tries to give back all that is      *)
(* held; only an ego that cannot be destroyed and an interrupt of the      *)
(* clean-up end it early, and then what came after stays.                  *)
THEOREM RunsLeaveClean == CosimSpec => []LeavesClean
<1>1. CosimInv => LeavesClean
  BY DEF CosimInv, CleanInv
<1> QED
  BY <1>1, CosimInvHolds, PTL

-----------------------------------------------------------------------------
(* The ROS 2 adapter: its types, what became of the queue, and that a run  *)
(* which was told to stop does not go on.                                  *)
RosInv ==
  /\ Ros!TypeOK /\ Ros!HandedOutOnce /\ Ros!OneNotice
  /\ loop.stopped => ~running

(* Entries that are no notice are put behind what arrived: there are as    *)
(* many notices as before.                                                 *)
LEMMA NoticesKept ==
  ASSUME arrived \in Seq(Ros!Entries), NEW fresh \in Seq(Ros!Entries),
         \A i \in DOMAIN fresh : fresh[i].of # "phone", arrived' = arrived \o fresh
  PROVE  Ros!Notices' = Ros!Notices
<1>1. /\ Len(arrived) \in Nat /\ Len(fresh) \in Nat /\ Len(arrived') = Len(arrived) + Len(fresh)
      /\ DOMAIN arrived = 1 .. Len(arrived) /\ DOMAIN fresh = 1 .. Len(fresh)
      /\ DOMAIN arrived' = 1 .. Len(arrived')
      /\ \A i \in 1 .. Len(arrived) : arrived'[i] = arrived[i]
      /\ \A i \in 1 .. Len(arrived') : i > Len(arrived) =>
           arrived'[i] = fresh[i - Len(arrived)] /\ i - Len(arrived) \in 1 .. Len(fresh)
  OBVIOUS
<1> QED
  BY <1>1 DEF Ros!Notices

(* What a spin adds to the queue.                                          *)
LEMMA FreshEntries ==
  ASSUME Ros!TypeOK, NEW fresh \in Ros!Fresh
  PROVE  fresh \in Seq(Ros!Entries) /\ \A i \in DOMAIN fresh : fresh[i].of # "phone"
<1>1. CASE fresh = <<>>
  BY <1>1
<1>2. CASE fresh # <<>>
  <2>1. PICK i \in DOMAIN inbox : fresh = <<Ros!Message(inbox[i], session)>>
    BY <1>2 DEF Ros!Fresh
  <2>2. inbox[i] \in Nat
    BY DEF Ros!TypeOK
  <2>3. session \in Nat
    <3>1. RosBound["sessions"] \in Nat
      BY RosAssumption DEF Ros!Kinds
    <3> QED
      BY <3>1 DEF Ros!TypeOK
  <2>4. Ros!Message(inbox[i], session) \in Ros!Entries
        /\ Ros!Message(inbox[i], session).of = "ecu"
    BY <2>2, <2>3 DEF Ros!Message, Ros!Entries
  <2> QED
    BY <2>1, <2>4
<1> QED
  BY <1>1, <1>2

(* The queue and what a spin added to it are handed out.                   *)
LEMMA QueueTaken ==
  ASSUME RosInv, NEW fresh \in Ros!Fresh, queue' = <<>>, phone' = phone,
         delivered' = delivered \o queue \o fresh, arrived' = arrived \o fresh
  PROVE  /\ {queue', delivered', arrived'} \subseteq Seq(Ros!Entries)
         /\ Ros!HandedOutOnce' /\ Ros!OneNotice'
<1>1. /\ {queue, delivered, arrived} \subseteq Seq(Ros!Entries)
      /\ fresh \in Seq(Ros!Entries) /\ \A i \in DOMAIN fresh : fresh[i].of # "phone"
      /\ arrived = delivered \o queue
  BY FreshEntries DEF RosInv, Ros!TypeOK, Ros!HandedOutOnce
<1>2. {queue', delivered', arrived'} \subseteq Seq(Ros!Entries)
  <2>1. queue' \in Seq(Ros!Entries)
    OBVIOUS
  <2>2. delivered \o queue \in Seq(Ros!Entries)
    BY <1>1
  <2>3. delivered' \in Seq(Ros!Entries) /\ arrived' \in Seq(Ros!Entries)
    BY <1>1, <2>2
  <2> QED
    BY <2>1, <2>3
<1>3. Ros!HandedOutOnce'
  <2>1. delivered' = arrived'
    BY <1>1
  <2>2. delivered' \o <<>> = delivered'
    BY <1>2
  <2> QED
    BY <2>1, <2>2 DEF Ros!HandedOutOnce
<1>4. Ros!Notices' = Ros!Notices
  BY <1>1, NoticesKept
<1>5. \A i : Ros!Notices = {i} => i \in DOMAIN arrived'
  BY <1>4 DEF Ros!Notices
<1> QED
  BY <1>2, <1>3, <1>4, <1>5 DEF RosInv, Ros!OneNotice

(* The first session that ends puts the notice in the queue.               *)
LEMMA PhoneDisconnected ==
  ASSUME RosInv, Ros!DisconnectPhone, delivered' = delivered
  PROVE  /\ {queue', delivered', arrived'} \subseteq Seq(Ros!Entries)
         /\ phone' \in [connected : BOOLEAN, synced : Nat]
         /\ Ros!HandedOutOnce' /\ Ros!OneNotice'
<1> DEFINE e == Ros!Disconnected(phone.synced)
<1>1. /\ {queue, delivered, arrived} \subseteq Seq(Ros!Entries)
      /\ phone \in [connected : BOOLEAN, synced : Nat]
      /\ arrived = delivered \o queue
  BY DEF RosInv, Ros!TypeOK, Ros!HandedOutOnce
<1>2. phone' \in [connected : BOOLEAN, synced : Nat] /\ ~phone'.connected
  BY <1>1 DEF Ros!DisconnectPhone
<1>3. e \in Ros!Entries /\ e.of = "phone"
  BY <1>1 DEF Ros!Disconnected, Ros!Entries
<1> HIDE DEF e
<1>4. CASE ~phone.connected
  BY <1>1, <1>2, <1>4 DEF Ros!DisconnectPhone, RosInv, Ros!HandedOutOnce, Ros!OneNotice, Ros!Notices
<1>5. CASE phone.connected
  <2>1. queue' = Append(queue, e) /\ arrived' = Append(arrived, e)
    BY <1>5 DEF Ros!DisconnectPhone, e
  <2>2. {queue', delivered', arrived'} \subseteq Seq(Ros!Entries)
    BY <1>1, <1>3, <2>1
  <2>3. Ros!HandedOutOnce'
    <3>1. delivered \o Append(queue, e) = Append(delivered \o queue, e)
      BY <1>1, <1>3
    <3> QED
      BY <1>1, <2>1, <3>1 DEF Ros!HandedOutOnce
  <2>4. /\ Len(arrived) \in Nat /\ DOMAIN arrived = 1 .. Len(arrived)
        /\ DOMAIN arrived' = 1 .. Len(arrived) + 1
        /\ arrived'[Len(arrived) + 1] = e
        /\ \A i \in DOMAIN arrived : arrived'[i] = arrived[i]
    BY <1>1, <1>3, <2>1
  <2>5. \A i \in DOMAIN arrived : arrived[i].of # "phone"
    BY <1>5 DEF RosInv, Ros!OneNotice, Ros!Notices
  <2>6. Ros!Notices' = {Len(arrived) + 1} /\ Len(arrived) + 1 \in DOMAIN arrived'
    BY <1>3, <2>4, <2>5 DEF Ros!Notices
  <2> QED
    BY <1>2, <2>2, <2>3, <2>6 DEF Ros!OneNotice
<1> QED
  BY <1>4, <1>5

(* A step that leaves the queue and the phone alone.                       *)
LEMMA QueueKept ==
  ASSUME RosInv, UNCHANGED <<queue, delivered, arrived, phone>>
  PROVE  /\ {queue', delivered', arrived'} \subseteq Seq(Ros!Entries)
         /\ Ros!HandedOutOnce' /\ Ros!OneNotice'
BY ZenonT(30) DEF RosInv, Ros!TypeOK, Ros!HandedOutOnce, Ros!OneNotice, Ros!Notices

(* Everything else: the node, the session, the loop and the counters.      *)
Frame ==
  /\ ros \in BOOLEAN /\ running \in BOOLEAN /\ node \in {"none", "up", "destroyed"}
  /\ session \in 0 .. RosBound["sessions"] /\ stepCount \in Nat
  /\ loop \in [at : {"none", "step", "callback", "sleep"}, left : Nat, stopped : BOOLEAN]
  /\ inbox \in Seq(Nat) /\ Len(inbox) <= Depth
  /\ used \in [Ros!Kinds -> Nat]
  /\ loop.stopped => ~running

LEMMA UseFacts ==
  ASSUME used \in [Ros!Kinds -> Nat], NEW kind \in Ros!Kinds, Ros!Use(kind)
  PROVE  /\ used' \in [Ros!Kinds -> Nat]
         /\ used[kind] \in Nat /\ used[kind] + 1 \in 0 .. RosBound[kind]
<1>1. RosBound[kind] \in Nat /\ used[kind] \in Nat /\ used[kind] < RosBound[kind]
  BY RosAssumption DEF Ros!Use
<1>2. used' = [used EXCEPT ![kind] = used[kind] + 1]
  BY DEF Ros!Use
<1> QED
  BY <1>1, <1>2

LEMMA SpinInbox ==
  ASSUME inbox \in Seq(Nat), Len(inbox) <= Depth, NEW fresh,
         Ros!Spin(fresh) \/ Ros!SpinRaises \/ inbox' = inbox
  PROVE  inbox' \in Seq(Nat) /\ Len(inbox') <= Depth
<1>1. CASE inbox' = inbox
  BY <1>1
<1>2. CASE inbox # <<>> /\ inbox' = Tail(inbox)
  BY <1>2, RosAssumption
<1> QED
  BY <1>1, <1>2 DEF Ros!Spin, Ros!SpinRaises

LEMMA RosFrame == ASSUME RosInv, Ros!Next PROVE Frame'
<1> USE RosAssumption
<1>1. Frame
  BY DEF RosInv, Ros!TypeOK, Frame
<1>2. /\ "sessions" \in Ros!Kinds /\ "messages" \in Ros!Kinds /\ "polls" \in Ros!Kinds
      /\ "pairings" \in Ros!Kinds /\ "runs" \in Ros!Kinds /\ "steps" \in Ros!Kinds
  BY DEF Ros!Kinds
<1>3. CASE Ros!Publish
  <2>1. /\ used' \in [Ros!Kinds -> Nat] /\ used["messages"] + 1 \in Nat
    BY <1>1, <1>2, <1>3, UseFacts, SMTT(30) DEF Ros!Publish, Frame
  <2> DEFINE all == Append(inbox, used["messages"] + 1)
  <2>2. all \in Seq(Nat) /\ Len(all) = Len(inbox) + 1 /\ Len(inbox) \in Nat /\ Len(inbox) <= Depth
    BY <1>1, <2>1 DEF Frame
  <2>3. inbox' = (IF Len(all) > Depth THEN Tail(all) ELSE all)
    BY <1>3 DEF Ros!Publish
  <2> HIDE DEF all
  <2>4. inbox' \in Seq(Nat) /\ Len(inbox') <= Depth
    <3>1. CASE Len(all) > Depth
      <4>1. Tail(all) \in Seq(Nat) /\ Len(Tail(all)) = Len(all) - 1
        BY <2>2
      <4> QED
        BY <2>2, <2>3, <3>1, <4>1
    <3>2. CASE ~(Len(all) > Depth)
      BY <2>2, <2>3, <3>2
    <3> QED
      BY <3>1, <3>2
  <2> QED
    BY <1>1, <1>3, <2>1, <2>4 DEF Ros!Publish, Frame
<1>4. CASE Ros!StartSession
  <2>1. used' \in [Ros!Kinds -> Nat] /\ session' \in 0 .. RosBound["sessions"]
    BY <1>1, <1>2, <1>4, UseFacts DEF Ros!StartSession, Frame
  <2> QED
    BY <1>1, <1>4, <2>1 DEF Ros!StartSession, Frame
<1>5. CASE Ros!GetRecords
  <2>1. used' \in [Ros!Kinds -> Nat]
    BY <1>1, <1>2, <1>5, UseFacts DEF Ros!GetRecords, Frame
  <2>2. inbox' \in Seq(Nat) /\ Len(inbox') <= Depth
    BY <1>1, <1>5, SpinInbox DEF Ros!GetRecords, Frame
  <2> QED
    BY <1>1, <1>5, <2>1, <2>2 DEF Ros!GetRecords, Frame
<1>6. CASE Ros!GetRecordsRaises \/ Ros!Pair
  <2>1. used' \in [Ros!Kinds -> Nat]
    BY <1>1, <1>2, <1>6, UseFacts DEF Ros!GetRecordsRaises, Ros!Pair, Frame
  <2>2. inbox' \in Seq(Nat) /\ Len(inbox') <= Depth
    BY <1>1, <1>6, SpinInbox DEF Ros!GetRecordsRaises, Ros!Pair, Frame
  <2> QED
    BY <1>1, <1>6, <2>1, <2>2 DEF Ros!GetRecordsRaises, Ros!Pair, Frame
<1>7. CASE Ros!Connect \/ Ros!EndSessionRaises
  BY <1>1, <1>7 DEF Ros!Connect, Ros!EndSessionRaises, Frame
<1>8. CASE Ros!EndSession
  <2>1. inbox' \in Seq(Nat) /\ Len(inbox') <= Depth
    BY <1>1, <1>8 DEF Ros!EndSession, Frame
  <2>2. 0 \in 0 .. RosBound["sessions"]
    BY <1>2
  <2>3. node' \in {"none", "up", "destroyed"}
    BY <1>1, <1>8 DEF Ros!EndSession, Frame
  <2> QED
    BY <1>1, <1>8, <2>1, <2>2, <2>3 DEF Ros!EndSession, Frame
<1>9. CASE Ros!Run
  <2>1. PICK n \in 0 .. RosBound["steps"] - used["steps"] :
          /\ loop' = [at |-> "step", left |-> n, stopped |-> FALSE]
          /\ used' = [used EXCEPT !["runs"] = @ + 1, !["steps"] = @ + n]
    BY <1>9 DEF Ros!Run
  <2>2. n \in Nat /\ used["runs"] \in Nat /\ used["steps"] \in Nat
    BY <1>1, <1>2 DEF Frame
  <2>3. used' \in [Ros!Kinds -> Nat]
    <3> DEFINE more == [used EXCEPT !["runs"] = used["runs"] + 1]
           m == used["steps"] + n
    <3>1. more \in [Ros!Kinds -> Nat]
      <4>1. used \in [Ros!Kinds -> Nat] /\ used["runs"] + 1 \in Nat
        BY <1>1, <2>2, SMTT(30) DEF Frame
      <4> QED
        BY <4>1
    <3>2. used' = [more EXCEPT !["steps"] = m]
      BY <2>1
    <3>3. m \in Nat
      BY <2>2
    <3> HIDE DEF more, m
    <3> QED
      BY <3>1, <3>2, <3>3
  <2>4. loop' \in [at : {"none", "step", "callback", "sleep"}, left : Nat, stopped : BOOLEAN]
        /\ ~loop'.stopped
    BY <2>1, <2>2
  <2> QED
    BY <1>1, <1>9, <2>3, <2>4 DEF Ros!Run, Frame
<1>10. CASE Ros!Stop \/ Ros!RunRaises \/ Ros!CallbackReturns \/ Ros!Wake \/ Ros!RunEnds
  <2>1. /\ loop' \in [at : {"none", "step", "callback", "sleep"}, left : Nat, stopped : BOOLEAN]
        /\ running' \in BOOLEAN /\ (loop'.stopped => ~running')
    <3>1. CASE Ros!Stop
      <4>1. (loop.at # "none") \in BOOLEAN
        OBVIOUS
      <4> QED
        BY <1>1, <3>1, <4>1 DEF Ros!Stop, Frame
    <3>2. CASE Ros!RunRaises \/ Ros!CallbackReturns \/ Ros!Wake \/ Ros!RunEnds
      <4>1. PICK place \in {"none", "step", "callback", "sleep"} : loop' = [loop EXCEPT !.at = place]
        BY <3>2 DEF Ros!RunRaises, Ros!CallbackReturns, Ros!Wake, Ros!RunEnds
      <4>2. running' \in BOOLEAN /\ (~running => ~running')
        <5>1. CASE Ros!RunRaises \/ Ros!CallbackReturns \/ Ros!Wake
          <6>1. UNCHANGED running
            BY <5>1 DEF Ros!RunRaises, Ros!CallbackReturns, Ros!Wake
          <6> QED
            BY <1>1, <6>1 DEF Frame
        <5>2. CASE Ros!RunEnds
          BY <5>2 DEF Ros!RunEnds
        <5> QED
          BY <3>2, <5>1, <5>2
      <4>3. loop \in [at : {"none", "step", "callback", "sleep"}, left : Nat, stopped : BOOLEAN]
            /\ running \in BOOLEAN /\ (loop.stopped => ~running)
        BY <1>1 DEF Frame
      <4>4. loop' \in [at : {"none", "step", "callback", "sleep"}, left : Nat, stopped : BOOLEAN]
            /\ loop'.stopped = loop.stopped
        BY <4>1, <4>3
      <4> QED
        BY <4>2, <4>3, <4>4
    <3> QED
      BY <1>10, <3>1, <3>2
  <2>2. inbox' \in Seq(Nat) /\ Len(inbox') <= Depth
    BY <1>1, <1>10, SpinInbox
    DEF Ros!Stop, Ros!RunRaises, Ros!CallbackReturns, Ros!Wake, Ros!RunEnds, Frame
  <2> QED
    BY <1>1, <1>10, <2>1, <2>2
    DEF Ros!Stop, Ros!RunRaises, Ros!CallbackReturns, Ros!Wake, Ros!RunEnds, Frame
<1>11. CASE Ros!StepSpins \/ Ros!StepSynthesizes
  <2>1. loop' \in [at : {"none", "step", "callback", "sleep"}, left : Nat, stopped : BOOLEAN]
        /\ loop'.stopped = loop.stopped
    <3>1. PICK something : Ros!HandOver(something)
      BY <1>11 DEF Ros!StepSpins, Ros!StepSynthesizes
    <3>2. loop.left > 0
      BY <1>11 DEF Ros!StepSpins, Ros!StepSynthesizes, Ros!StepGoesOn
    <3>3. PICK place \in {"callback", "sleep"} :
            loop' = [loop EXCEPT !.at = place, !.left = loop.left - 1]
      BY <3>1 DEF Ros!HandOver
    <3>4. loop.left - 1 \in Nat
      BY <1>1, <3>2 DEF Frame
    <3> QED
      BY <1>1, <3>3, <3>4 DEF Frame
  <2>2. inbox' \in Seq(Nat) /\ Len(inbox') <= Depth
    BY <1>1, <1>11, SpinInbox DEF Ros!StepSpins, Ros!StepSynthesizes, Frame
  <2>3. UNCHANGED <<ros, node, session, running, used>> /\ stepCount' \in Nat
    <3>1. CASE Ros!StepSpins
      BY <1>1, <3>1 DEF Ros!StepSpins, Frame
    <3>2. CASE Ros!StepSynthesizes
      BY <1>1, <3>2 DEF Ros!StepSynthesizes, Frame
    <3> QED
      BY <1>11, <3>1, <3>2
  <2>4. loop'.stopped => ~running'
    BY <1>1, <2>1, <2>3 DEF Frame
  <2> QED
    BY <1>1, <2>1, <2>2, <2>3, <2>4 DEF Frame
<1> QED
  BY <1>3, <1>4, <1>5, <1>6, <1>7, <1>8, <1>9, <1>10, <1>11 DEF Ros!Next

LEMMA RosQueue ==
  ASSUME RosInv, Ros!Next
  PROVE  /\ {queue', delivered', arrived'} \subseteq Seq(Ros!Entries)
         /\ phone' \in [connected : BOOLEAN, synced : Nat]
         /\ Ros!HandedOutOnce' /\ Ros!OneNotice'
<1>1. phone \in [connected : BOOLEAN, synced : Nat]
  BY DEF RosInv, Ros!TypeOK
<1>2. CASE Ros!GetRecords \/ Ros!StepSpins
  <2>1. PICK fresh \in Ros!Fresh :
          /\ delivered' = delivered \o queue \o fresh /\ arrived' = arrived \o fresh
          /\ queue' = <<>>
    BY <1>2 DEF Ros!GetRecords, Ros!StepSpins
  <2>2. phone' = phone
    BY <1>2 DEF Ros!GetRecords, Ros!StepSpins
  <2> QED
    BY <1>1, <2>1, <2>2, QueueTaken
<1>3. CASE Ros!EndSession \/ Ros!EndSessionRaises
  BY <1>3, PhoneDisconnected DEF Ros!EndSession, Ros!EndSessionRaises
<1>4. CASE Ros!Pair
  <2>1. /\ UNCHANGED <<queue, delivered, arrived>>
        /\ phone' = [phone EXCEPT !.synced = phone.synced + 1]
    BY <1>4 DEF Ros!Pair
  <2>2. phone' \in [connected : BOOLEAN, synced : Nat] /\ phone'.connected = phone.connected
    BY <1>1, <2>1
  <2>3. {queue', delivered', arrived'} \subseteq Seq(Ros!Entries)
    BY <2>1 DEF RosInv, Ros!TypeOK
  <2>4. Ros!HandedOutOnce' /\ Ros!OneNotice'
    BY <2>1, <2>2 DEF RosInv, Ros!HandedOutOnce, Ros!OneNotice, Ros!Notices
  <2> QED
    BY <2>2, <2>3, <2>4
<1>5. CASE \/ Ros!Publish \/ Ros!Connect \/ Ros!StartSession \/ Ros!GetRecordsRaises \/ Ros!Run
           \/ Ros!Stop \/ Ros!StepSynthesizes \/ Ros!RunRaises \/ Ros!CallbackReturns
           \/ Ros!Wake \/ Ros!RunEnds
  <2>1. UNCHANGED <<queue, delivered, arrived, phone>>
    BY <1>5 DEF Ros!Publish, Ros!Connect, Ros!StartSession, Ros!GetRecordsRaises, Ros!Run,
                Ros!Stop, Ros!StepSynthesizes, Ros!RunRaises, Ros!CallbackReturns, Ros!Wake,
                Ros!RunEnds
  <2> QED
    BY <1>1, <2>1, QueueKept
<1> QED
  BY <1>2, <1>3, <1>4, <1>5 DEF Ros!Next

LEMMA NextRos == RosInv /\ [Ros!Next]_rosVars => RosInv'
<1>1. ASSUME RosInv, Ros!Next PROVE RosInv'
  BY <1>1, RosFrame, RosQueue DEF RosInv, Ros!TypeOK, Frame
<1>2. ASSUME RosInv, UNCHANGED rosVars PROVE RosInv'
  BY <1>2, ZenonT(30) DEF RosInv, rosVars, Ros!TypeOK, Ros!HandedOutOnce, Ros!OneNotice, Ros!Notices
<1> QED
  BY <1>1, <1>2

LEMMA InitRos == Ros!Init => RosInv
<1> SUFFICES ASSUME Ros!Init PROVE RosInv
  OBVIOUS
<1> USE RosAssumption
<1>1. /\ queue = <<>> /\ delivered = <<>> /\ arrived = <<>> /\ inbox = <<>>
      /\ phone = [connected |-> TRUE, synced |-> 0]
      /\ loop = [at |-> "none", left |-> 0, stopped |-> FALSE]
      /\ used = [k \in Ros!Kinds |-> 0]
  BY DEF Ros!Init
<1>2. {queue, delivered, arrived} \subseteq Seq(Ros!Entries) /\ inbox \in Seq(Nat)
      /\ Len(inbox) <= Depth
  BY <1>1
<1>3. 0 \in 0 .. RosBound["sessions"]
  BY DEF Ros!Kinds
<1>4. Ros!TypeOK
  <2>1. ros \in BOOLEAN /\ running \in BOOLEAN /\ node \in {"none", "up", "destroyed"}
        /\ session = 0 /\ stepCount = 0
    BY DEF Ros!Init
  <2>2. loop \in [at : {"none", "step", "callback", "sleep"}, left : Nat, stopped : BOOLEAN]
        /\ phone \in [connected : BOOLEAN, synced : Nat] /\ used \in [Ros!Kinds -> Nat]
    BY <1>1
  <2> QED
    BY <1>2, <1>3, <2>1, <2>2 DEF Ros!TypeOK
<1>5. Ros!HandedOutOnce /\ Ros!OneNotice
  BY <1>1 DEF Ros!HandedOutOnce, Ros!OneNotice, Ros!Notices
<1> QED
  BY <1>1, <1>4, <1>5 DEF RosInv

-----------------------------------------------------------------------------
(* The process: whichever program it runs, the other two stay as they were *)
(* created.                                                                *)
processVars == <<command, rosVars, sumoVars, v2xVars>>

LEMMA Turns ==
  ASSUME [RosTurn \/ SumoTurn \/ CosimTurn]_processVars
  PROVE  [Ros!Next]_rosVars /\ [Next]_sumoVars /\ [CosimNext]_v2xVars
BY DEF RosTurn, SumoTurn, CosimTurn, processVars

LEMMA ProcessInvariant == ProcessSpec => [](RosInv /\ SumoInv /\ CosimInv)
<1>1. ProcessInit => RosInv /\ SumoInv /\ CosimInv
  BY InitRos, InitInv, InitCosim, SumoAssumption, CosimAssumption DEF ProcessInit
<1>2. /\ RosInv /\ SumoInv /\ CosimInv
      /\ [RosTurn \/ SumoTurn \/ CosimTurn]_processVars
      => (RosInv /\ SumoInv /\ CosimInv)'
  BY Turns, NextRos, NextInv, NextCosim, SumoAssumption, CosimAssumption
<1> QED
  BY <1>1, <1>2, PTL DEF ProcessSpec, processVars

(* The state of each of the three programs is of its types, whichever one  *)
(* runs.                                                                   *)
THEOREM ProcessTypeCorrect == ProcessSpec => []ProcessTypeOK
<1>1. RosInv /\ SumoInv /\ CosimInv => ProcessTypeOK
  BY SumoTypes DEF RosInv, CosimInv, ProcessTypeOK
<1> QED
  BY <1>1, ProcessInvariant, PTL

(* What was put in the queue is handed out once and in its order, whether  *)
(* the run loop or get_records takes it and whatever ends or raises in     *)
(* between; of the disconnected phone there is one notice.                 *)
THEOREM QueueIsServed == ProcessSpec => []QueueServed
<1>1. RosInv => QueueServed
  BY DEF RosInv, QueueServed
<1> QED
  BY <1>1, ProcessInvariant, PTL

(* Once stop() was called on a run, the loop hands nothing more over,      *)
(* wherever it was waiting at that moment.                                 *)
THEOREM StopTakesEffect == ProcessSpec => StopsPromptly
<1>1. RosInv /\ [Ros!Next]_rosVars =>
        [loop.stopped => ~(loop.at = "step" /\ loop'.at \notin {"step", "none"})]_rosVars
  <2> SUFFICES ASSUME RosInv, Ros!Next, loop.stopped, loop.at = "step"
               PROVE  loop'.at \in {"step", "none"}
    OBVIOUS
  <2>1. ~running /\ loop \in [at : {"none", "step", "callback", "sleep"}, left : Nat,
                             stopped : BOOLEAN]
    BY DEF RosInv, Ros!TypeOK
  <2>2. ~Ros!StepGoesOn
    BY <2>1 DEF Ros!StepGoesOn
  <2>3. ~Ros!StepSpins /\ ~Ros!StepSynthesizes /\ ~Ros!CallbackReturns /\ ~Ros!Wake
        /\ ~Ros!RunRaises /\ ~Ros!Run
    BY <2>2 DEF Ros!StepSpins, Ros!StepSynthesizes, Ros!CallbackReturns, Ros!Wake, Ros!RunRaises,
                Ros!Run
  <2>4. CASE Ros!RunEnds
    BY <2>1, <2>4 DEF Ros!RunEnds
  <2>5. CASE Ros!Stop
    BY <2>1, <2>5 DEF Ros!Stop
  <2>6. CASE ~Ros!RunEnds /\ ~Ros!Stop
    <3>1. UNCHANGED loop
      BY <2>3, <2>6 DEF Ros!Next, Ros!Publish, Ros!Connect, Ros!StartSession, Ros!GetRecords,
                        Ros!GetRecordsRaises, Ros!EndSession, Ros!EndSessionRaises, Ros!Pair
    <3> QED
      BY <3>1
  <2> QED
    BY <2>4, <2>5, <2>6
<1>2. [RosTurn \/ SumoTurn \/ CosimTurn]_processVars => [Ros!Next]_rosVars
  BY Turns
<1> QED
  BY <1>1, <1>2, ProcessInvariant, PTL
  DEF ProcessSpec, processVars, StopsPromptly, Ros!StopsPromptly, rosVars, Ros!rosVars

=============================================================================
