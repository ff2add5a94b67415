-------------------------- MODULE SealedEventDemo --------------------------
(***************************************************************************)
(* The sealed event demonstration (scenarios/carla/sealed_event_demo.py).  *)
(* The main thread ticks the world, appends a snapshot to a ring and, once *)
(* a collision has been flagged, counts the steps to the sealing of the    *)
(* event.  The callbacks of the collision sensor and of the inertial one   *)
(* run on threads of the simulator's client and share variables with it.   *)
(***************************************************************************)
EXTENDS Integers, Sequences, SequencesExt

CONSTANTS
  WindowBefore, WindowAfter,  \* WINDOW_BEFORE and WINDOW_AFTER, in steps
  TotalSteps,                 \* max_duration, in steps
  MaxHits, MaxReadings        \* bounds: collisions, inertial readings

VARIABLES
  point,     \* what the main thread does next
  standing,  \* actors spawned and not destroyed
  listed,    \* all_actors, by how many of Cast it holds
  lockstep,  \* the world is in synchronous mode
  frame,     \* step of the main loop, from 0
  ring,      \* snapshots in the ring buffer, oldest first
  reading,   \* the parts of imu_data_latest, each the number of its sample
  writing,   \* parts of the newest sample written so far, 0 between samples
  collided,  \* collision_detected: the collision that set it, 0 for none
  context,   \* collision_data: the collision it describes, 0 while empty
  hitting,   \* the collision callback has set the flag and not the data
  post,      \* post_collision_counter
  event,     \* sealed_event
  file,      \* what sealed_event_output.json holds
  hits,      \* history: collisions
  seen,      \* history: the step that found the flag, -1 before it
  aborted,   \* history: an exception or an interrupt ended the run
  stuck      \* history: a part of the clean-up failed

loopVars == <<frame, ring, post, event, seen>>
callbackVars == <<reading, writing, collided, context, hitting, hits>>
worldVars == <<standing, listed, lockstep>>
demoVars == <<point, worldVars, loopVars, callbackVars, file, aborted, stuck>>

(* The order the actors are spawned in.                                    *)
Cast == <<"ego", "npc", "collision", "imu", "gnss">>

Recorded == {Cast[i] : i \in 1 .. listed}

(* The actor to be spawned next.                                           *)
NextUp == {Cast[i] : i \in {listed + 1} \cap DOMAIN Cast}

(* Mutant: a ring of the steps before the collision only.                  *)
ShortRing == WindowBefore

RingSize == WindowBefore + 1

Nothing == [kind |-> "none"]

Init ==
  /\ point = "connect" /\ standing = {} /\ listed = 0 /\ lockstep = FALSE
  /\ frame = 0 /\ ring = <<>> /\ post = -1 /\ event = Nothing /\ seen = -1
  /\ reading = <<0, 0, 0>> /\ writing = 0
  /\ collided = 0 /\ context = 0 /\ hitting = FALSE /\ hits = 0
  /\ file = Nothing /\ aborted = FALSE /\ stuck = FALSE

-----------------------------------------------------------------------------
(* The callbacks.  They run from the first tick on.                        *)
Listening(sensor) ==
  /\ sensor \in standing \cap Recorded
  /\ point \notin {"connect", "spawn"}

IsFirst == collided = 0

(* _on_collision: the flag of the first collision, then its data.          *)
OnCollision ==
  /\ Listening("collision") /\ ~hitting /\ hits < MaxHits
  /\ hits' = hits + 1
  /\ IF IsFirst THEN collided' = hits' /\ hitting' = TRUE
                     ELSE UNCHANGED <<collided, hitting>>
  /\ UNCHANGED <<point, worldVars, loopVars, reading, writing, context, file, aborted, stuck>>

StoreCollision ==
  /\ hitting
  /\ context' = collided /\ hitting' = FALSE
  /\ UNCHANGED <<point, worldVars, loopVars, reading, writing, collided, hits, file, aborted,
                 stuck>>

(* _on_imu writes accelerometer, gyroscope and compass one by one;         *)
(* _on_gnss does the same with its three.                                  *)
OnReading ==
  /\ Listening("imu")
  /\ writing = 0 => reading[1] < MaxReadings
  /\ reading' = [reading EXCEPT ![writing + 1] = IF writing = 0 THEN @ + 1 ELSE reading[1]]
  /\ writing' = (writing + 1) % Len(reading)
  /\ UNCHANGED <<point, worldVars, loopVars, collided, context, hitting, hits, file, aborted,
                 stuck>>

Callback == OnCollision \/ StoreCollision \/ OnReading

-----------------------------------------------------------------------------
(* Setting the scene. *)

(* An exception, or an interrupt, wherever the main thread is.             *)
Break == point' = "cleanup" /\ aborted' = TRUE

Connect ==
  /\ point = "connect"
  /\ \/ point' = "spawn" /\ lockstep' = TRUE /\ UNCHANGED aborted
     \/ Break /\ lockstep' \in BOOLEAN
  /\ UNCHANGED <<standing, listed, loopVars, callbackVars, file, stuck>>

(* An actor is recorded as soon as the call that spawns it has returned,   *)
(* before it is configured.  An interrupt, or a time-out of the call, may  *)
(* come between the two.                                                   *)
Spawn ==
  /\ point = "spawn"
  /\ \/ /\ standing' = standing \cup NextUp /\ listed' = listed + 1 /\ UNCHANGED aborted
        /\ point' = IF listed' = Len(Cast) THEN "tick" ELSE "spawn"
     \/ Break /\ standing' \in {standing, standing \cup NextUp} /\ UNCHANGED listed
  /\ UNCHANGED <<lockstep, loopVars, callbackVars, file, stuck>>

-----------------------------------------------------------------------------
(* create_sealed_event: the traces of the snapshots and their window; an   *)
(* empty inertial reading leaves no entry, and of the others the order and *)
(* the compass are left out.                                               *)
CreateSealedEvent(snapshots, trigger, kind, about) ==
  [kind |-> kind, trigger |-> trigger, about |-> about,
   speed |-> [i \in DOMAIN snapshots |-> snapshots[i].step],
   imu |-> {SubSeq(snapshots[i].reading, 1, 2) :
              i \in {j \in DOMAIN snapshots : snapshots[j].reading[1] # 0}},
   start |-> snapshots[1].step, end |-> Last(snapshots).step]

(* to_dict keeps the length of a trace and its first three entries.        *)
ToDict(e) ==
  [kind |-> e.kind, trigger |-> e.trigger, about |-> e.about, start |-> e.start,
   end |-> e.end, count |-> Len(e.speed),
   sample |-> SubSeq(e.speed, 1, IF Len(e.speed) < 3 THEN Len(e.speed) ELSE 3)]

LastOf(seq, n) == IF Len(seq) <= n THEN seq ELSE SubSeq(seq, Len(seq) - n + 1, Len(seq))

Tick ==
  /\ point = "tick"
  /\ \/ point' = (IF frame < TotalSteps THEN "snapshot" ELSE "report") /\ UNCHANGED aborted
     \/ Break
  /\ UNCHANGED <<worldVars, loopVars, callbackVars, file, stuck>>

Snapshot ==
  /\ point = "snapshot"
  /\ ring' = LastOf(Append(ring, [step |-> frame, reading |-> reading]), RingSize)
  /\ point' = "trigger"
  /\ UNCHANGED <<worldVars, frame, post, event, seen, callbackVars, file, aborted, stuck>>

(* Mutant: the counter is only raised by the step that finds the flag.     *)
CountOnce(found) == IF found THEN 1 ELSE post

(* The step that finds the flag is the first one counted.                  *)
Count(found) == IF found THEN 1 ELSE IF post >= 0 THEN post + 1 ELSE post

Trigger ==
  /\ point = "trigger"
  /\ LET found == collided # 0 /\ post < 0
         count == Count(found)
     IN /\ post' = count
        /\ seen' = IF found THEN frame ELSE seen
        /\ IF count >= WindowAfter
             THEN /\ event' = CreateSealedEvent(ring, frame - WindowAfter, "collision", context)
                  /\ point' = "report" /\ UNCHANGED frame
             ELSE frame' = frame + 1 /\ point' = "tick" /\ UNCHANGED event
  /\ UNCHANGED <<worldVars, ring, callbackVars, file, aborted, stuck>>

(* Without a sealed event one is made up from the last WindowBefore        *)
(* snapshots, also when a collision came too late to be sealed.            *)
Report ==
  /\ point = "report"
  /\ \/ /\ file' = IF event # Nothing THEN ToDict(event)
                   ELSE ToDict(CreateSealedEvent(LastOf(ring, WindowBefore), Last(ring).step,
                                                 "near_miss_simulated", 0))
        /\ point' = "cleanup" /\ UNCHANGED aborted
     \/ Break /\ UNCHANGED file
  /\ UNCHANGED <<worldVars, loopVars, callbackVars, stuck>>

-----------------------------------------------------------------------------
(* The finally clause destroys the recorded actors, the last one first;    *)
(* one that raises leaves the rest and the settings.  A failure to give    *)
(* the settings back is swallowed.                                         *)
LastUp(actor) ==
  \E i \in 1 .. listed : /\ Cast[i] = actor /\ actor \in standing
                         /\ \A j \in i + 1 .. listed : Cast[j] \notin standing

Destroy ==
  /\ point = "cleanup"
  /\ \E actor \in Recorded :
       /\ LastUp(actor)
       /\ \/ standing' = standing \ {actor} /\ UNCHANGED <<point, stuck>>
          \/ point' = "done" /\ stuck' = TRUE /\ UNCHANGED standing
  /\ UNCHANGED <<listed, lockstep, loopVars, callbackVars, file, aborted>>

(* Mutant: the settings are only given back after a whole run.             *)
RestoreUnbroken ==
  /\ point = "cleanup" /\ standing \cap Recorded = {}
  /\ lockstep' = (lockstep /\ aborted)
  /\ point' = "done"
  /\ UNCHANGED <<standing, listed, loopVars, callbackVars, file, aborted, stuck>>

Restore ==
  /\ point = "cleanup" /\ standing \cap Recorded = {}
  /\ \/ lockstep' = FALSE /\ UNCHANGED stuck
     \/ stuck' = TRUE /\ UNCHANGED lockstep
  /\ point' = "done"
  /\ UNCHANGED <<standing, listed, loopVars, callbackVars, file, aborted>>

Main ==
  Connect \/ Spawn \/ Tick \/ Snapshot \/ Trigger \/ Report \/ Destroy \/ Restore

Next == Main \/ Callback

(* The main thread waits for nothing but the simulator.                    *)
Spec == Init /\ [][Next]_demoVars /\ WF_demoVars(Main)

-----------------------------------------------------------------------------
TypeOK ==
  /\ point \in {"connect", "spawn", "tick", "snapshot", "trigger", "report", "cleanup", "done"}
  /\ standing \subseteq {Cast[i] : i \in DOMAIN Cast} /\ listed \in 0 .. Len(Cast)
  /\ {lockstep, hitting, aborted, stuck} \subseteq BOOLEAN
  /\ frame \in 0 .. TotalSteps /\ Len(ring) <= RingSize
  /\ post \in -1 .. WindowAfter /\ seen \in -1 .. TotalSteps
  /\ reading \in Seq(0 .. MaxReadings) /\ Len(reading) = 3 /\ writing \in 0 .. 2
  /\ {collided, context, hits} \subseteq 0 .. MaxHits
  /\ event.kind \in {"none", "collision"}
  /\ file.kind \in {"none", "collision", "near_miss_simulated"}

(* A sealed event holds every step from the oldest the ring still had to   *)
(* the last of the two seconds, the step of the collision among them, says *)
(* of no later collision that it triggered it, and puts beside an          *)
(* accelerometer reading the gyroscope reading of the same sample or of    *)
(* the one before (sealed_event_demo.py: run_demo, _on_collision,          *)
(* _on_imu).                                                               *)
SealedWhole ==
  event # Nothing =>
    LET newest == seen + WindowAfter - 1
        oldest == IF newest < WindowBefore THEN 0 ELSE newest - WindowBefore
    IN /\ event.speed = [i \in 1 .. newest - oldest + 1 |-> oldest + i - 1]
       /\ seen \in {event.speed[i] : i \in DOMAIN event.speed}
       /\ event.about \in {0, 1}
       /\ \A both \in event.imu : both[1] - both[2] \in {0, 1}

(* A collision found with two seconds of the run left is sealed, unless    *)
(* the run breaks off (sealed_event_demo.py: run_demo, main loop).         *)
CollisionSealed ==
  seen >= 0 /\ seen + WindowAfter <= TotalSteps ~> event # Nothing \/ aborted

(* Unless the clean-up fails, the world's settings are back at the end and *)
(* no actor is left but the one whose spawning broke off before it was     *)
(* recorded: none when all five were (sealed_event_demo.py: run_demo).     *)
DemoRestores == point = "done" /\ ~stuck => standing \subseteq NextUp /\ ~lockstep

-----------------------------------------------------------------------------
(* A claim of the documentation the code does not keep.                    *)

(* sealed_event_demo.py:8: the event is captured 5 seconds before and 2    *)
(* seconds after the collision.                                            *)
FullWindow ==
  event # Nothing =>
    \A s \in 0 .. TotalSteps :
      s >= seen - WindowBefore /\ s < seen + WindowAfter => event.start <= s /\ s <= event.end
=============================================================================
