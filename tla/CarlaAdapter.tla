---------------------------- MODULE CarlaAdapter ----------------------------
(***************************************************************************)
(* The CARLA adapter (adapters/carla_adapter.py).  Sensor callbacks append *)
(* samples to per-sensor lists and to the sealed-event capture, on threads *)
(* of the CARLA client; the event loop turns what is buffered into records *)
(* (flush), one list after the other, and clears the lists at the end.     *)
(***************************************************************************)
EXTENDS SealedEventCapture

CONSTANTS
  SensorOrder,       \* the order in which flush reads the lists
  Gnss,              \* the sensor V2X messages are made from
  RotationInterval,  \* rotation_interval of the V2X manager
  Bound              \* bounds: samples, collisions, time, sessions, flushes,
                     \* and the sensors that could not be stopped

ASSUME AdapterAssumption ==
  /\ SensorOrder \in Seq(Sensors)
  /\ \A s \in Sensors : \E i \in DOMAIN SensorOrder : SensorOrder[i] = s
  /\ \A i, j \in DOMAIN SensorOrder : SensorOrder[i] = SensorOrder[j] => i = j
  /\ Gnss \in Sensors /\ "collision" \notin Sensors
  /\ RotationInterval \in Nat \ {0}
  /\ Bound \in [{"samples", "collisions", "time", "sessions", "flushes", "left"} -> Nat]

VARIABLES
  data,        \* _sensor_data
  dataList,    \* which lists _sensor_data holds: one more at each clear
  listening,   \* sensors attached and not stopped, each with its session
  session,     \* _session_id, 0 without one
  pseudonym,   \* pseudonym of the V2X manager
  rotated,     \* _last_rotation
  main,        \* what the event loop does next
  nextList,    \* position in SensorOrder of the list flush reads next
  popped,      \* events pop_events() has copied and not cleared yet
  sessions,    \* history: sessions started
  flushes,     \* history: flushes started
  reported,    \* history: samples handed to the callback as records
  returned,    \* history: sealed events handed to the callback
  cams         \* history: V2X messages

v2xVars == <<pseudonym, rotated, cams>>
flushVars == <<data, dataList, popped, flushes, reported, returned>>
sessionVars == <<listening, session, sessions>>
adapterVars == <<v2xVars, flushVars, sessionVars, main, nextList>>
vars == <<captureVars, clock, historyVars, pc, loc, adapterVars>>

MainLabels == {"out", "started", "running", "read", "pop", "clearEvents",
               "cam", "clearData"}

FlushLabels == {"read", "pop", "clearEvents", "cam", "clearData"}

Labels == {"idle", "store", "stamp", "check", "insert", "evict", "appendPost",
           "due", "finalize", "read", "complete", "reset", "arm"}

SampleIds == DOMAIN samples

(* Samples come from sensors under the names in Sensors; one more reports  *)
(* collisions.                                                             *)
Attachable == Sensors \cup {"collision"}

TypeOK ==
  /\ \A i \in SampleIds : samples[i] \in
       [sensor : Sensors, from : Nat, time : Nat \cup {None}, racing : BOOLEAN]
  /\ \A lists \in {buffer, post} :
       /\ DOMAIN lists \subseteq Sensors
       /\ \A s \in DOMAIN lists : lists[s] \in Seq(SampleIds)
  /\ data \in [Sensors -> Seq(SampleIds)]
  /\ triggered \in BOOLEAN /\ triggerTime \in Nat \cup {None}
  /\ \A k \in DOMAIN sealed : sealed[k].time \in Nat
  /\ completed \in Seq(DOMAIN sealed) /\ popped \in Seq(DOMAIN sealed)
  /\ {postList, dataList, clock, collisions, sessions, flushes, session,
      pseudonym, rotated} \subseteq Nat
  /\ pc \in [Threads -> Labels] /\ main \in MainLabels
  /\ nextList \in DOMAIN SensorOrder
  /\ listening \subseteq Attachable \X Nat
  /\ reported \subseteq [sample : SampleIds, session : Nat, flush : Nat]
  /\ returned \subseteq DOMAIN sealed
  /\ cams \subseteq [pseudonym : Nat, time : Nat, session : Nat]

Init ==
  /\ CaptureInit
  /\ data = [s \in Sensors |-> <<>>] /\ dataList = 0
  /\ listening = {} /\ session = 0 /\ sessions = 0
  /\ pseudonym = 0 /\ rotated = 0 /\ cams = {}
  /\ main = "out" /\ nextList = 1 /\ popped = <<>> /\ flushes = 0
  /\ reported = {} /\ returned = {}

-----------------------------------------------------------------------------
(* Sensor callbacks. *)

(* The callbacks of one sensor run one after the other; those of a sensor  *)
(* that was not stopped and of its successor under the same name need not. *)
Busy(s, k) ==
  \E t \in Threads : /\ ~At(t, "idle") /\ loc[t].sample # 0
                     /\ SensorOf(t) = s /\ SampleOf(t).from = k

Taken(s, k) == [sensor |-> s, from |-> k, time |-> None, racing |-> main \in FlushLabels]

(* _on_..._measurement of the sensor set up in session k: setdefault()     *)
(* finds or adds the list of its name.                                     *)
OnSample(t, s) ==
  /\ At(t, "idle")
  /\ Len(samples) < Bound["samples"]
  /\ \E k \in 1 .. sessions : /\ <<s, k>> \in listening /\ ~Busy(s, k)
                              /\ samples' = Append(samples, Taken(s, k))
  /\ loc' = [loc EXCEPT ![t].sample = Len(samples) + 1, ![t].data = dataList]
  /\ Goto(t, "store")
  /\ UNCHANGED <<captureVars, clock, collisions, sealed, adapterVars>>

(* The sample goes to the list found, which a flush may have detached. *)
Store(t) ==
  /\ At(t, "store")
  /\ data' = IF loc[t].data = dataList
               THEN [data EXCEPT ![SensorOf(t)] = Append(@, loc[t].sample)]
               ELSE data
  /\ Goto(t, "stamp")
  /\ UNCHANGED <<captureVars, clock, historyVars, loc, v2xVars, sessionVars,
                 main, nextList, dataList, popped, flushes, reported,
                 returned>>

(* _on_collision *)
OnCollision(t) ==
  /\ At(t, "idle") /\ \E k \in 1 .. sessions : <<"collision", k>> \in listening
  /\ ~\E u \in Threads : At(u, "arm")
  /\ collisions < Bound["collisions"]
  /\ Trigger(t)
  /\ UNCHANGED adapterVars

Callback(t) ==
  \/ \E s \in Sensors : OnSample(t, s)
  \/ Store(t)
  \/ OnCollision(t)
  \/ CaptureStep(t) /\ UNCHANGED adapterVars

-----------------------------------------------------------------------------
(* Sessions, driven from the event loop. *)
Elsewhere == <<captureVars, clock, historyVars, pc, loc, nextList>>

StartSession ==
  /\ main = "out" /\ sessions < Bound["sessions"]
  /\ sessions' = sessions + 1 /\ session' = sessions + 1
  /\ main' = "started"
  /\ UNCHANGED <<Elsewhere, v2xVars, flushVars, listening>>

(* setup_sensors(), after which run() may start. *)
SetupSensors ==
  /\ main = "started"
  /\ listening' = listening \cup Attachable \X {session} /\ main' = "running"
  /\ UNCHANGED <<Elsewhere, v2xVars, flushVars, session, sessions>>

Left == {a \in listening : a[2] # session}

(* end_session stops the sensors and forgets them.  One whose stop fails   *)
(* goes on listening, as those of earlier sessions do; and samples not     *)
(* flushed yet stay buffered.                                              *)
EndSession ==
  /\ main = "running"
  /\ \E stopped \in SUBSET (Attachable \X {session}) : listening' = listening \ stopped
  /\ session' = 0 /\ main' = "out"
  /\ Cardinality(Left') <= Bound["left"]
  /\ UNCHANGED <<Elsewhere, v2xVars, flushVars, sessions>>

-----------------------------------------------------------------------------
(* _flush_sensor_records, which run() calls every 20 steps. *)
StartFlush ==
  /\ main = "running" /\ flushes < Bound["flushes"]
  /\ flushes' = flushes + 1
  /\ main' = "read" /\ nextList' = 1
  /\ samples' = [i \in SampleIds |->
       [samples[i] EXCEPT !.racing = @ \/ \E t \in Threads : /\ At(t, "store")
                                                          /\ loc[t].sample = i]]
  /\ UNCHANGED <<captureVars, clock, collisions, sealed, pc, loc, v2xVars,
                 sessionVars, data, dataList, popped, reported, returned>>

SamplesIn(list) == {list[i] : i \in DOMAIN list}

FlushSensor ==
  /\ main = "read"
  /\ reported' = reported \cup
       {[sample |-> i, session |-> session, flush |-> flushes] :
          i \in SamplesIn(data[SensorOrder[nextList]])}
  /\ IF nextList < Len(SensorOrder)
       THEN nextList' = nextList + 1 /\ UNCHANGED main
       ELSE main' = "pop" /\ UNCHANGED nextList
  /\ UNCHANGED <<captureVars, clock, historyVars, pc, loc, v2xVars, sessionVars,
                 data, dataList, popped, flushes, returned>>

(* pop_events(): the list is copied, then cleared. *)
CopyEvents ==
  /\ main = "pop"
  /\ popped' = completed
  /\ main' = "clearEvents"
  /\ UNCHANGED <<Elsewhere, v2xVars, sessionVars, data, dataList, flushes,
                 reported, returned>>

ClearEvents ==
  /\ main = "clearEvents"
  /\ returned' = returned \cup SamplesIn(popped)
  /\ popped' = <<>> /\ completed' = <<>>
  /\ main' = "cam"
  /\ UNCHANGED <<buffer, triggered, triggerTime, post, postList, clock,
                 historyVars, pc, loc, v2xVars, sessionVars, data, dataList,
                 flushes, reported, nextList>>

(* get_cam_message(), when there is a position: the pseudonym is rotated   *)
(* when it is rotation_interval old.                                       *)
SendCam ==
  /\ main = "cam" /\ data[Gnss] # <<>>
  /\ LET due == clock - rotated >= RotationInterval IN
     /\ pseudonym' = IF due THEN pseudonym + 1 ELSE pseudonym
     /\ rotated' = IF due THEN clock ELSE rotated
     /\ cams' = cams \cup {[pseudonym |-> pseudonym', time |-> clock,
                            session |-> session]}
  /\ main' = "clearData"
  /\ UNCHANGED <<Elsewhere, flushVars, sessionVars>>

NoCam ==
  /\ main = "cam" /\ data[Gnss] = <<>>
  /\ main' = "clearData"
  /\ UNCHANGED <<Elsewhere, flushVars, sessionVars, v2xVars>>

(* Mutant: the lists are not cleared. *)
KeepData ==
  /\ main = "clearData" /\ main' = "running"
  /\ UNCHANGED <<Elsewhere, flushVars, sessionVars, v2xVars>>

ClearData ==
  /\ main = "clearData"
  /\ data' = [s \in Sensors |-> <<>>] /\ dataList' = dataList + 1
  /\ main' = "running"
  /\ UNCHANGED <<Elsewhere, v2xVars, sessionVars, popped, flushes, reported,
                 returned>>

EventLoop ==
  \/ StartSession \/ SetupSensors \/ EndSession \/ StartFlush \/ FlushSensor
  \/ CopyEvents \/ ClearEvents \/ SendCam \/ NoCam \/ ClearData

Tick ==
  /\ clock < Bound["time"]
  /\ clock' = clock + 1
  /\ UNCHANGED <<captureVars, historyVars, pc, loc, adapterVars>>

Next == (\E t \in Threads : Callback(t)) \/ EventLoop \/ Tick

Spec == Init /\ [][Next]_vars

-----------------------------------------------------------------------------
(* Samples in event e of sensor s, in order. *)
Window(e, s) == e.pre[s] \o e.tail[s]

Sealed(e) == UNION {SamplesIn(Window(e, s)) : s \in Sensors}

InFlight(i) == \E t \in Threads : ~At(t, "idle") /\ loc[t].sample = i

(* A collision is sealed at most once. *)
OneEventPerCollision == Len(sealed) <= collisions

(* No sample within pre_seconds before a collision or post_seconds after   *)
(* it is missing from the sealed event, unless an earlier event holds it.  *)
WindowComplete ==
  \A k \in DOMAIN sealed : \A i \in SampleIds :
    /\ samples[i].time # None
    /\ samples[i].time >= sealed[k].time - PreSeconds
    /\ samples[i].time < sealed[k].time + PostSeconds
    => InFlight(i) \/ \E j \in 1 .. k : i \in Sealed(sealed[j])

(* In an event the samples of a sensor are in the order they were taken in *)
(* and occur once, whichever threads finalize it and although a sensor of  *)
(* an earlier session that was not stopped goes on under its name.         *)
EventOrdered ==
  \A k \in DOMAIN sealed : \A s \in Sensors :
    LET window == Window(sealed[k], s) IN
      \A i, j \in DOMAIN window :
        i < j /\ samples[window[i]].from = samples[window[j]].from => window[i] < window[j]

(* A sample becomes a record at most once. *)
ReportedOnce ==
  \A x, y \in reported : x.sample = y.sample => x = y

(* A sample is never lost, unless its callback had it between the lookup   *)
(* of the list and the append while a flush was running.                   *)
QuietSamplesKept ==
  \A i \in SampleIds :
    \/ samples[i].racing
    \/ \E t \in Threads : At(t, "store") /\ loc[t].sample = i
    \/ \E s \in Sensors : i \in SamplesIn(data[s])
    \/ \E x \in reported : x.sample = i

(* Every sample becomes one record, or none when a flush overtook its      *)
(* callback (carla_adapter.py: _flush_sensor_records).                     *)
EachSampleReported == ReportedOnce /\ QuietSamplesKept

-----------------------------------------------------------------------------
(* A claim of a comment that the code does not keep. *)

(* carla_adapter.py:48: a rolling window of the last pre_seconds of all    *)
(* sensor data.                                                            *)
WindowBounded ==
  \A k \in DOMAIN sealed : \A i \in Sealed(sealed[k]) :
    samples[i].time >= sealed[k].time - PreSeconds
=============================================================================
