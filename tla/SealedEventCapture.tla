------------------------- MODULE SealedEventCapture -------------------------
(***************************************************************************)
(* The sealed-event buffer of the CARLA adapter (SealedEventCapture in     *)
(* adapters/carla_adapter.py): a rolling window of sensor samples that a   *)
(* collision freezes and that is sealed once a sample of PostSeconds after *)
(* the collision arrives.                                                  *)
(*                                                                         *)
(* Sensor callbacks run on threads of the CARLA client and the class takes *)
(* no lock.  A step is what runs between two points at which CPython may   *)
(* switch threads: after a call returns and when a loop jumps back.        *)
(***************************************************************************)
EXTENDS Integers, Sequences, FiniteSets

CONSTANTS
  Sensors,      \* names under which samples are appended
  Threads,      \* threads on which callbacks run
  PreSeconds,   \* pre_seconds
  PostSeconds,  \* post_seconds
  None          \* no time, no sensor

ASSUME CaptureAssumption ==
  /\ IsFiniteSet(Sensors) /\ IsFiniteSet(Threads)
  /\ PreSeconds \in Nat /\ PostSeconds \in Nat
  /\ None \notin Nat \cup Sensors

VARIABLES
  buffer,       \* _buffer: the sensors with a deque, and their samples
  triggered,    \* _triggered
  triggerTime,  \* _trigger_time
  post,         \* _post_buffer
  postList,     \* which dictionary _post_buffer is: one more at each reset
  completed,    \* _completed_events, as positions in sealed
  clock,        \* time.time()
  samples,      \* history: all samples, their sensor, its session and the time
  collisions,   \* history: collisions that started a capture
  sealed,       \* history: every event ever completed
  pc, loc       \* program counter and locals of a callback

captureVars == <<buffer, triggered, triggerTime, post, postList, completed>>
historyVars == <<samples, collisions, sealed>>

NoSamples == [s \in {} |-> <<>>]

NoLocals == [sample |-> 0, data |-> 0, post |-> 0, time |-> 0, raced |-> FALSE,
             pre |-> [s \in Sensors |-> <<>>], tail |-> [s \in Sensors |-> <<>>]]

CaptureInit ==
  /\ buffer = NoSamples /\ post = NoSamples /\ postList = 0
  /\ triggered = FALSE /\ triggerTime = None
  /\ completed = <<>> /\ sealed = <<>>
  /\ samples = <<>> /\ collisions = 0 /\ clock = 0
  /\ pc = [t \in Threads |-> "idle"]
  /\ loc = [t \in Threads |-> NoLocals]

-----------------------------------------------------------------------------
At(t, label) == pc[t] = label

Goto(t, label) == pc' = [pc EXCEPT ![t] = label]

Return(t) ==
  /\ Goto(t, "idle")
  /\ loc' = [loc EXCEPT ![t] = NoLocals]

SampleOf(t) == samples[loc[t].sample]
SensorOf(t) == SampleOf(t).sensor

ListOf(dict, s) == IF s \in DOMAIN dict THEN dict[s] ELSE <<>>

(* dict[s] = list, adding the key when it is not there. *)
With(dict, s, list) ==
  [x \in DOMAIN dict \cup {s} |-> IF x = s THEN list ELSE dict[x]]

(* Threads in the middle of iterating over the buffers. *)
Reading == {t \in Threads : At(t, "read")}

(* A deque or a dictionary changes size while it is iterated over. *)
Race(t) == [u \in Threads |-> IF u \in Reading \ {t}
                                THEN [loc[u] EXCEPT !.raced = TRUE] ELSE loc[u]]

(* Samples at the front of a deque that are older than the cutoff. *)
Expired(list, cutoff) ==
  {i \in DOMAIN list : \A j \in 1 .. i : samples[list[j]].time < cutoff}

-----------------------------------------------------------------------------
(* append(): the time is read, then _triggered. *)
Stamp(t) ==
  /\ At(t, "stamp")
  /\ samples' = [samples EXCEPT ![loc[t].sample].time = clock]
  /\ Goto(t, "check")
  /\ UNCHANGED <<captureVars, clock, collisions, sealed, loc>>

AppendToBuffer(t) ==
  /\ At(t, "check") /\ ~triggered /\ SensorOf(t) \in DOMAIN buffer
  /\ buffer' = [buffer EXCEPT ![SensorOf(t)] = Append(@, loc[t].sample)]
  /\ Goto(t, "evict") /\ loc' = Race(t)
  /\ UNCHANGED <<triggered, triggerTime, post, postList, completed, clock,
                 historyVars>>

(* The first sample of a sensor: a deque is created for it first. *)
NeedDeque(t) ==
  /\ At(t, "check") /\ ~triggered /\ SensorOf(t) \notin DOMAIN buffer
  /\ Goto(t, "insert")
  /\ UNCHANGED <<captureVars, clock, historyVars, loc>>

InsertDeque(t) ==
  /\ At(t, "insert")
  /\ buffer' = With(buffer, SensorOf(t), <<loc[t].sample>>)
  /\ Goto(t, "evict") /\ loc' = Race(t)
  /\ UNCHANGED <<triggered, triggerTime, post, postList, completed, clock,
                 historyVars>>

(* Mutant: eviction drops a sample exactly pre_seconds old as well. *)
EvictEager(t) ==
  /\ At(t, "evict")
  /\ SensorOf(t) \in DOMAIN buffer
  /\ LET old == Expired(buffer[SensorOf(t)], SampleOf(t).time - PreSeconds + 1)
     IN buffer' = [buffer EXCEPT ![SensorOf(t)] =
                     SubSeq(@, 1 + Cardinality(old), Len(@))]
  /\ Return(t)
  /\ UNCHANGED <<triggered, triggerTime, post, postList, completed, clock,
                 historyVars>>

(* Eviction looks at the deque of the sensor that has just appended.  When *)
(* another thread has cleared the buffer the callback ends in a KeyError.  *)
Evict(t) ==
  /\ At(t, "evict")
  /\ LET s == SensorOf(t)
         old == Expired(ListOf(buffer, s), SampleOf(t).time - PreSeconds)
     IN /\ buffer' = IF s \notin DOMAIN buffer THEN buffer
                     ELSE [buffer EXCEPT ![s] =
                             SubSeq(@, 1 + Cardinality(old), Len(@))]
        /\ loc' = [(IF old = {} THEN loc ELSE Race(t)) EXCEPT ![t] = NoLocals]
  /\ Goto(t, "idle")
  /\ UNCHANGED <<triggered, triggerTime, post, postList, completed, clock,
                 historyVars>>

(* A capture is running: setdefault() finds or adds the sensor's list. *)
FindPostList(t) ==
  /\ At(t, "check") /\ triggered
  /\ post' = With(post, SensorOf(t), ListOf(post, SensorOf(t)))
  /\ loc' = [(IF SensorOf(t) \in DOMAIN post THEN loc ELSE Race(t))
               EXCEPT ![t].post = postList]
  /\ Goto(t, "appendPost")
  /\ UNCHANGED <<buffer, triggered, triggerTime, postList, completed, clock,
                 historyVars>>

(* The sample goes to the list found, which a reset may have detached. *)
AppendToPost(t) ==
  /\ At(t, "appendPost")
  /\ post' = IF loc[t].post = postList
               THEN [post EXCEPT ![SensorOf(t)] = Append(@, loc[t].sample)]
               ELSE post
  /\ Goto(t, "due")
  /\ UNCHANGED <<buffer, triggered, triggerTime, postList, completed, clock,
                 historyVars, loc>>

CaptureIsDue(t) ==
  triggerTime # None /\ SampleOf(t).time - triggerTime >= PostSeconds

FinalizeOrReturn(t) ==
  /\ At(t, "due")
  /\ IF CaptureIsDue(t) THEN Goto(t, "finalize") /\ UNCHANGED loc ELSE Return(t)
  /\ UNCHANGED <<captureVars, clock, historyVars>>

(* Mutant: no time is taken when another thread has ended the capture. *)
StartFinalizeUntimed(t) ==
  /\ At(t, "finalize")
  /\ loc' = [loc EXCEPT ![t].raced = FALSE, ![t].time = triggerTime]
  /\ Goto(t, "read")
  /\ UNCHANGED <<captureVars, clock, historyVars>>

(* _finalize_event(): the trigger time is read, the iteration begins. *)
StartFinalize(t) ==
  /\ At(t, "finalize")
  /\ loc' = [loc EXCEPT ![t].raced = FALSE,
               ![t].time = IF triggerTime = None THEN clock ELSE triggerTime]
  /\ Goto(t, "read")
  /\ UNCHANGED <<captureVars, clock, historyVars>>

(* Both buffers are copied.  One step: a copy begun earlier for one sensor *)
(* than for another differs only in which of the latest samples it holds.  *)
ReadBuffers(t) ==
  /\ At(t, "read")
  /\ loc' = [loc EXCEPT ![t].pre = [s \in Sensors |-> ListOf(buffer, s)],
                        ![t].tail = [s \in Sensors |-> ListOf(post, s)]]
  /\ Goto(t, "complete")
  /\ UNCHANGED <<captureVars, clock, historyVars>>

(* RuntimeError: a buffer changed during the iteration, the callback ends. *)
ReadFails(t) ==
  /\ At(t, "read") /\ loc[t].raced
  /\ Return(t)
  /\ UNCHANGED <<captureVars, clock, historyVars>>

Complete(t) ==
  /\ At(t, "complete")
  /\ sealed' = Append(sealed, [time |-> loc[t].time, pre |-> loc[t].pre,
                               tail |-> loc[t].tail])
  /\ completed' = Append(completed, Len(sealed) + 1)
  /\ Goto(t, "reset")
  /\ UNCHANGED <<buffer, triggered, triggerTime, post, postList, clock, samples,
                 collisions, loc>>

Reset(t) ==
  /\ At(t, "reset")
  /\ triggered' = FALSE /\ triggerTime' = None
  /\ post' = NoSamples /\ postList' = postList + 1
  /\ buffer' = NoSamples
  /\ loc' = [(IF buffer = NoSamples THEN loc ELSE Race(t)) EXCEPT ![t] = NoLocals]
  /\ Goto(t, "idle")
  /\ UNCHANGED <<completed, clock, historyVars>>

(* trigger(): _triggered is set and the time read. *)
Trigger(t) ==
  IF triggered
    THEN UNCHANGED <<captureVars, clock, historyVars, pc, loc>>
    ELSE /\ triggered' = TRUE
         /\ collisions' = collisions + 1
         /\ loc' = [loc EXCEPT ![t].time = clock]
         /\ Goto(t, "arm")
         /\ UNCHANGED <<buffer, triggerTime, post, postList, completed, clock,
                        samples, sealed>>

(* The time is stored and a new _post_buffer begins. *)
Arm(t) ==
  /\ At(t, "arm")
  /\ triggerTime' = loc[t].time
  /\ post' = NoSamples /\ postList' = postList + 1
  /\ Return(t)
  /\ UNCHANGED <<buffer, triggered, completed, clock, historyVars>>

CaptureStep(t) ==
  \/ Stamp(t) \/ AppendToBuffer(t) \/ NeedDeque(t) \/ InsertDeque(t) \/ Evict(t)
  \/ FindPostList(t) \/ AppendToPost(t) \/ FinalizeOrReturn(t)
  \/ StartFinalize(t) \/ ReadBuffers(t) \/ ReadFails(t) \/ Complete(t)
  \/ Reset(t) \/ Arm(t)
=============================================================================
