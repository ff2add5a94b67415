------------------------- MODULE CarlaAdapterProofs -------------------------
(***************************************************************************)
(* Proofs about the CARLA adapter and its sealed-event capture, for any    *)
(* sensors, threads, windows and bounds: a sample becomes one record, and  *)
(* is only lost where a flush and its callback met; the samples of a       *)
(* sealed event are in order, whichever threads took part in sealing it;   *)
(* and when no two callbacks overlap, an event has every sample of its     *)
(* window.                                                                 *)
(***************************************************************************)
EXTENDS MCCarla, FiniteSetTheorems, SequenceTheorems, TLAPS

Sample == [sensor : Sensors, from : Nat, time : Nat \cup {None}, racing : BOOLEAN]

Lists == [Sensors -> Seq(Nat)]

Event == [time : Nat, pre : Lists, tail : Lists]

Locals ==
  [sample : Nat, data : Nat, post : Nat, time : Nat, raced : BOOLEAN, pre : Lists, tail : Lists]

(* Sections in which a callback has a sample.                              *)
Sampling == Labels \ {"idle", "arm"}

Dict(lists) == DOMAIN lists \subseteq Sensors /\ \A s \in DOMAIN lists : lists[s] \in Seq(SampleIds)

HoldingInv ==
  /\ pc \in [Threads -> Labels] /\ loc \in [Threads -> Locals]
  /\ \A t \in Threads : IF pc[t] \in Sampling THEN loc[t].sample \in SampleIds
                                              ELSE loc[t].sample = 0

ListsInv == Dict(buffer) /\ Dict(post) /\ data \in [Sensors -> Seq(SampleIds)]

EventsInv ==
  /\ sealed \in Seq(Event)
  /\ completed \in Seq(1 .. Len(sealed)) /\ popped \in Seq(1 .. Len(sealed))
  /\ returned \subseteq 1 .. Len(sealed)

CountersInv ==
  /\ triggered \in BOOLEAN /\ triggerTime \in Nat \cup {None}
  /\ postList \in Nat /\ dataList \in Nat /\ clock \in Nat /\ collisions \in Nat
  /\ sessions \in Nat /\ flushes \in Nat /\ session \in Nat /\ pseudonym \in Nat
  /\ rotated \in Nat
  /\ main \in MainLabels /\ nextList \in 1 .. Len(SensorOrder)
  /\ listening \subseteq Attachable \X Nat

HistoryInv ==
  /\ reported \subseteq [sample : SampleIds, session : Nat, flush : Nat]
  /\ cams \subseteq [pseudonym : Nat, time : Nat, session : Nat]

TypeInv ==
  /\ samples \in Seq(Sample) /\ HoldingInv /\ ListsInv /\ EventsInv /\ CountersInv
  /\ HistoryInv

-----------------------------------------------------------------------------
(* Which steps touch what.                                                 *)
LEMMA StepCases ==
  ASSUME [Next]_vars
  PROVE  \/ EventLoop
         \/ \E t \in Threads : \/ Store(t)
                               \/ \E s \in Sensors : OnSample(t, s)
                               \/ OnCollision(t)
                               \/ CaptureStep(t) /\ UNCHANGED adapterVars
         \/ Tick
         \/ UNCHANGED vars
BY DEF Next, Callback

LEMMA TouchesSamples ==
  ASSUME [Next]_vars
  PROVE  \/ samples' = samples
         \/ StartFlush
         \/ \E t \in Threads : Stamp(t) \/ \E s \in Sensors : OnSample(t, s)
<1>1. CASE EventLoop
  BY <1>1 DEF EventLoop, StartSession, SetupSensors, EndSession, FlushSensor, CopyEvents,
              ClearEvents, SendCam, NoCam, ClearData, Elsewhere, historyVars
<1>2. CASE Tick \/ UNCHANGED vars
  BY <1>2 DEF Tick, vars, historyVars
<1>3. ASSUME NEW t \in Threads, Store(t) \/ OnCollision(t) \/ CaptureStep(t)
      PROVE  samples' = samples \/ Stamp(t)
  BY <1>3 DEF Store, OnCollision, Trigger, CaptureStep, AppendToBuffer, NeedDeque, InsertDeque,
              Evict, FindPostList, AppendToPost, FinalizeOrReturn, StartFinalize, ReadBuffers,
              ReadFails, Complete, Reset, Arm, historyVars
<1> QED
  BY <1>1, <1>2, <1>3, StepCases

LEMMA TouchesLists ==
  ASSUME [Next]_vars
  PROVE  /\ \/ UNCHANGED <<buffer, post>>
            \/ \E t \in Threads : \/ AppendToBuffer(t) \/ InsertDeque(t) \/ Evict(t)
                                  \/ FindPostList(t) \/ AppendToPost(t) \/ Reset(t) \/ Arm(t)
         /\ data' = data \/ ClearData \/ \E t \in Threads : Store(t)
<1>1. CASE EventLoop
  BY <1>1 DEF EventLoop, StartSession, SetupSensors, EndSession, StartFlush, FlushSensor,
              CopyEvents, ClearEvents, SendCam, NoCam, ClearData, Elsewhere, captureVars, flushVars
<1>2. CASE Tick \/ UNCHANGED vars
  BY <1>2 DEF Tick, vars, captureVars, adapterVars, flushVars
<1>3. ASSUME NEW t \in Threads,
             Store(t) \/ OnCollision(t) \/ \E s \in Sensors : OnSample(t, s)
      PROVE  UNCHANGED <<buffer, post>> /\ (data' = data \/ Store(t))
  BY <1>3 DEF Store, OnCollision, Trigger, OnSample, captureVars, adapterVars, flushVars
<1>4. ASSUME NEW t \in Threads, CaptureStep(t), UNCHANGED adapterVars
      PROVE  /\ \/ UNCHANGED <<buffer, post>>
                \/ AppendToBuffer(t) \/ InsertDeque(t) \/ Evict(t)
                \/ FindPostList(t) \/ AppendToPost(t) \/ Reset(t) \/ Arm(t)
             /\ data' = data
  BY <1>4 DEF CaptureStep, Stamp, NeedDeque, FinalizeOrReturn, StartFinalize, ReadBuffers,
              ReadFails, Complete, captureVars, adapterVars, flushVars
<1> QED
  BY <1>1, <1>2, <1>3, <1>4, StepCases

LEMMA TouchesEvents ==
  ASSUME [Next]_vars
  PROVE  \/ UNCHANGED <<sealed, completed, popped, returned>>
         \/ CopyEvents \/ ClearEvents
         \/ \E t \in Threads : Complete(t) /\ UNCHANGED <<popped, returned>>
<1>1. CASE EventLoop
  BY <1>1 DEF EventLoop, StartSession, SetupSensors, EndSession, StartFlush, FlushSensor,
              SendCam, NoCam, ClearData, Elsewhere, captureVars, historyVars, flushVars
<1>2. CASE Tick \/ UNCHANGED vars
  BY <1>2 DEF Tick, vars, captureVars, historyVars, adapterVars, flushVars
<1>3. ASSUME NEW t \in Threads,
             Store(t) \/ OnCollision(t) \/ \E s \in Sensors : OnSample(t, s)
      PROVE  UNCHANGED <<sealed, completed, popped, returned>>
  BY <1>3 DEF Store, OnCollision, Trigger, OnSample, captureVars, historyVars, adapterVars,
              flushVars
<1>4. ASSUME NEW t \in Threads, CaptureStep(t), UNCHANGED adapterVars
      PROVE  \/ UNCHANGED <<sealed, completed, popped, returned>>
             \/ Complete(t) /\ UNCHANGED <<popped, returned>>
  BY <1>4 DEF CaptureStep, Stamp, AppendToBuffer, NeedDeque, InsertDeque, Evict, FindPostList,
              AppendToPost, FinalizeOrReturn, StartFinalize, ReadBuffers, ReadFails, Reset, Arm,
              captureVars, historyVars, adapterVars, flushVars
<1> QED
  BY <1>1, <1>2, <1>3, <1>4, StepCases

-----------------------------------------------------------------------------
(* Types.  Samples are only added; of a sample that is there only the time *)
(* is set and the mark of a race.                                          *)
SamplesGrow ==
  /\ samples' \in Seq(Sample) /\ Len(samples) <= Len(samples')
  /\ \A i \in SampleIds : /\ samples'[i].sensor = samples[i].sensor
                          /\ samples'[i].from = samples[i].from
                          /\ samples[i].racing => samples'[i].racing

LEMMA SamplesFacts ==
  ASSUME samples \in Seq(Sample)
  PROVE  /\ Len(samples) \in Nat /\ SampleIds = 1 .. Len(samples)
         /\ \A i \in SampleIds : samples[i] \in Sample
BY DEF SampleIds

LEMMA SampleTaken ==
  ASSUME TypeInv, NEW t \in Threads, NEW s \in Sensors, OnSample(t, s)
  PROVE  \E k \in Nat : /\ samples' = Append(samples, Taken(s, k)) /\ Taken(s, k) \in Sample
                        /\ ~Busy(s, k)
<1>1. PICK k \in 1 .. sessions : samples' = Append(samples, Taken(s, k)) /\ ~Busy(s, k)
  BY DEF OnSample
<1>2. k \in Nat
  BY DEF TypeInv, CountersInv
<1>3. (main \in FlushLabels) \in BOOLEAN
  OBVIOUS
<1>4. Taken(s, k) \in Sample
  BY <1>2, <1>3 DEF Taken, Sample
<1> QED
  BY <1>1, <1>2, <1>4

LEMMA StepSamples ==
  ASSUME TypeInv, [Next]_vars
  PROVE  SamplesGrow
<1> USE DEF SamplesGrow
<1>1. samples \in Seq(Sample) /\ clock \in Nat /\ session \in Nat
  BY DEF TypeInv, CountersInv
<1>2. Len(samples) \in Nat /\ SampleIds = 1 .. Len(samples)
      /\ \A i \in SampleIds : samples[i] \in Sample
  BY <1>1, SamplesFacts
<1>3. CASE samples' = samples
  BY <1>1, <1>2, <1>3
<1>4. CASE StartFlush
  <2> DEFINE Met(i) == \E t \in Threads : At(t, "store") /\ loc[t].sample = i
             Marked(i) == [samples[i] EXCEPT !.racing = @ \/ Met(i)]
  <2>1. samples' = [i \in SampleIds |-> Marked(i)]
    BY <1>4 DEF StartFlush
  <2>2. \A i \in SampleIds : samples[i].racing \in BOOLEAN /\ Met(i) \in BOOLEAN
    BY <1>2 DEF Sample
  <2>3. \A i \in SampleIds : /\ Marked(i) \in Sample
                             /\ Marked(i).sensor = samples[i].sensor
                             /\ Marked(i).from = samples[i].from
                             /\ samples[i].racing => Marked(i).racing
    <3>1. SUFFICES ASSUME NEW i \in SampleIds
                   PROVE  /\ Marked(i) \in Sample
                          /\ Marked(i).sensor = samples[i].sensor
                          /\ Marked(i).from = samples[i].from
                          /\ samples[i].racing => Marked(i).racing
      OBVIOUS
    <3>2. samples[i] \in Sample
      BY <1>2
    <3>3. (samples[i].racing \/ Met(i)) \in BOOLEAN
      BY <2>2
    <3> HIDE DEF Met
    <3> QED
      BY <3>2, <3>3 DEF Sample
  <2> HIDE DEF Marked
  <2>4. samples' \in Seq(Sample) /\ Len(samples') = Len(samples)
    BY <1>2, <2>1, <2>3
  <2> QED
    BY <1>2, <2>1, <2>3, <2>4
<1>5. ASSUME NEW t \in Threads, Stamp(t)
      PROVE  SamplesGrow
  <2>1. loc[t].sample \in SampleIds
    BY <1>5 DEF TypeInv, HoldingInv, Stamp, At, Sampling, Labels
  <2>2. samples' = [samples EXCEPT ![loc[t].sample].time = clock]
    BY <1>5 DEF Stamp
  <2>3. [samples[loc[t].sample] EXCEPT !.time = clock] \in Sample
    BY <1>1, <1>2, <2>1 DEF Sample
  <2>4. samples' = [samples EXCEPT ![loc[t].sample] = [samples[loc[t].sample] EXCEPT !.time = clock]]
    BY <2>2
  <2>5. samples' \in Seq(Sample) /\ Len(samples') = Len(samples)
    BY <1>1, <2>1, <2>3, <2>4, <1>2
  <2>6. \A i \in SampleIds : /\ samples'[i].sensor = samples[i].sensor
                             /\ samples'[i].from = samples[i].from
                             /\ samples'[i].racing = samples[i].racing
    BY <1>1, <1>2, <2>1, <2>4 DEF Sample
  <2> QED
    BY <2>5, <2>6, <1>2
<1>6. ASSUME NEW t \in Threads, NEW s \in Sensors, OnSample(t, s)
      PROVE  SamplesGrow
  <2>1. PICK new \in Sample : samples' = Append(samples, new)
    BY <1>6, SampleTaken
  <2>3. /\ samples' \in Seq(Sample) /\ Len(samples') = Len(samples) + 1
        /\ \A i \in 1 .. Len(samples) : samples'[i] = samples[i]
    BY <1>1, <2>1, AppendProperties
  <2> QED
    BY <1>2, <2>3
<1> QED
  BY <1>3, <1>4, <1>5, <1>6, TouchesSamples

LEMMA IdsGrow ==
  ASSUME samples \in Seq(Sample), SamplesGrow
  PROVE  /\ SampleIds \subseteq SampleIds'
         /\ \A q \in Seq(SampleIds) : q \in Seq(SampleIds')
<1>1. SampleIds = 1 .. Len(samples) /\ Len(samples) \in Nat
  BY SamplesFacts
<1>2. SampleIds' = 1 .. Len(samples') /\ Len(samples') \in Nat /\ Len(samples) <= Len(samples')
  BY SamplesFacts DEF SamplesGrow, SampleIds
<1>3. SampleIds \subseteq SampleIds'
  BY <1>1, <1>2
<1> QED
  BY <1>3

(* What a callback does to the locals: those of another thread only learn  *)
(* of a race.                                                              *)
Same(k, l) ==
  /\ k.sample = l.sample /\ k.data = l.data /\ k.post = l.post
  /\ k.pre = l.pre /\ k.tail = l.tail

Others(f, t) ==
  f \in [Threads -> Locals] /\ \A u \in Threads \ {t} : Same(f[u], loc[u])

LEMMA ListTypes ==
  ASSUME TypeInv, NEW lists \in {buffer, post}, NEW s
  PROVE  ListOf(lists, s) \in Seq(SampleIds) /\ ListOf(lists, s) \in Seq(Nat)
<1>1. Dict(lists) /\ samples \in Seq(Sample)
  BY DEF TypeInv, ListsInv, Dict
<1>2. SampleIds \subseteq Nat
  BY <1>1, SamplesFacts
<1>3. ListOf(lists, s) \in Seq(SampleIds)
  BY <1>1 DEF Dict, ListOf
<1>4. ASSUME NEW q \in Seq(SampleIds) PROVE q \in Seq(Nat)
  <2>1. Len(q) \in Nat /\ q \in [1 .. Len(q) -> SampleIds]
    OBVIOUS
  <2> HIDE DEF SampleIds
  <2>2. q \in [1 .. Len(q) -> Nat]
    BY <1>2, <2>1
  <2> QED
    BY <2>1, <2>2
<1> QED
  BY <1>3, <1>4

LEMMA RaceFacts ==
  ASSUME loc \in [Threads -> Locals], NEW t \in Threads
  PROVE  Others(Race(t), t) /\ Race(t)[t] = loc[t]
<1>1. \A u \in Threads : loc[u] \in Locals
  OBVIOUS
<1>2. ASSUME NEW u \in Threads
      PROVE  Race(t)[u] \in Locals /\ Same(Race(t)[u], loc[u])
  <2>1. Race(t)[u] = [loc[u] EXCEPT !.raced = TRUE] \/ Race(t)[u] = loc[u]
    BY DEF Race
  <2> QED
    BY <1>1, <2>1 DEF Locals, Same
<1>3. DOMAIN Race(t) = Threads /\ Race(t) = [u \in Threads |-> Race(t)[u]]
  BY DEF Race
<1>4. Race(t)[t] = loc[t]
  BY DEF Race
<1> QED
  BY <1>2, <1>3, <1>4 DEF Others

LEMMA OthersFacts ==
  ASSUME loc \in [Threads -> Locals], NEW t \in Threads
  PROVE  /\ Others(loc, t)
         /\ \A f, l : Others(f, t) /\ l \in Locals =>
              Others([f EXCEPT ![t] = l], t) /\ [f EXCEPT ![t] = l][t] = l
<1>1. Others(loc, t)
  BY DEF Others, Same
<1>2. ASSUME NEW f, NEW l, Others(f, t), l \in Locals
      PROVE  Others([f EXCEPT ![t] = l], t) /\ [f EXCEPT ![t] = l][t] = l
  <2>1. f \in [Threads -> Locals] /\ \A u \in Threads \ {t} : Same(f[u], loc[u])
    BY <1>2 DEF Others
  <2>2. [f EXCEPT ![t] = l] \in [Threads -> Locals] /\ [f EXCEPT ![t] = l][t] = l
        /\ \A u \in Threads \ {t} : [f EXCEPT ![t] = l][u] = f[u]
    BY <1>2, <2>1
  <2> QED
    BY <2>1, <2>2 DEF Others
<1> QED
  BY <1>1, <1>2

LEMMA NoLocalsType == NoLocals \in Locals
<1>1. <<>> \in Seq(Nat) /\ [s \in Sensors |-> <<>>] \in Lists
  BY DEF Lists
<1> QED
  BY <1>1 DEF NoLocals, Locals

(* How a callback moves on: it returns, it takes or keeps a sample, or it  *)
(* has a collision to arm.                                                 *)
Moves(t) ==
  \/ pc'[t] = "idle" /\ loc'[t] = NoLocals
  \/ /\ pc[t] \in Sampling /\ pc'[t] \in Sampling /\ loc'[t].sample = loc[t].sample
     /\ pc'[t] # "store"
  \/ /\ pc[t] = "idle" /\ pc'[t] = "store" /\ loc'[t].data = dataList
     /\ loc'[t].sample = Len(samples) + 1 /\ loc'[t].sample \in SampleIds'
  \/ pc[t] = "idle" /\ pc'[t] = "arm" /\ loc'[t].sample = 0
  \/ pc' = pc /\ loc' = loc

OneThread(t) ==
  /\ pc' \in [Threads -> Labels] /\ \A u \in Threads \ {t} : pc'[u] = pc[u]
  /\ Others(loc', t) /\ Moves(t) /\ loc'[t].post \in {0, loc[t].post, postList}

LEMMA GotoFacts ==
  ASSUME pc \in [Threads -> Labels], NEW t \in Threads, NEW l \in Labels, Goto(t, l)
  PROVE  /\ pc' \in [Threads -> Labels] /\ pc'[t] = l
         /\ \A u \in Threads \ {t} : pc'[u] = pc[u]
BY DEF Goto

LEMMA CallbackMoves ==
  ASSUME TypeInv, NEW t \in Threads,
         Store(t) \/ (\E s \in Sensors : OnSample(t, s)) \/ OnCollision(t) \/ CaptureStep(t)
  PROVE  OneThread(t)
<1>1. /\ pc \in [Threads -> Labels] /\ loc \in [Threads -> Locals] /\ loc[t] \in Locals
      /\ pc[t] \notin Sampling => loc[t].sample = 0
      /\ dataList \in Nat /\ postList \in Nat /\ clock \in Nat
      /\ triggerTime \in Nat \cup {None} /\ Len(samples) \in Nat
  BY DEF TypeInv, HoldingInv, CountersInv
<1>2. /\ Others(loc, t) /\ Others(Race(t), t)
      /\ \A f, l : Others(f, t) /\ l \in Locals =>
           Others([f EXCEPT ![t] = l], t) /\ [f EXCEPT ![t] = l][t] = l
  BY <1>1, OthersFacts, RaceFacts
<1>3. \A l \in Labels : Goto(t, l) => /\ pc' \in [Threads -> Labels] /\ pc'[t] = l
                                      /\ \A u \in Threads \ {t} : pc'[u] = pc[u]
  BY <1>1, GotoFacts
<1>4. \A l \in Sampling : l \in Labels
  BY DEF Sampling
<1>5. ASSUME NEW a \in Sampling, NEW l \in Sampling, At(t, a), Goto(t, l), l # "store",
             NEW k \in Locals, Others(loc', t), loc'[t] = k, k.sample = loc[t].sample,
             k.post \in {loc[t].post, postList}
      PROVE  OneThread(t)
  BY <1>3, <1>4, <1>5 DEF OneThread, Moves, At
<1>6. ASSUME NEW f, Others(f, t), loc' = [f EXCEPT ![t] = NoLocals], Goto(t, "idle")
      PROVE  OneThread(t)
  <2>1. Others(loc', t) /\ loc'[t] = NoLocals
    BY <1>2, <1>6, NoLocalsType
  <2>2. /\ pc' \in [Threads -> Labels] /\ pc'[t] = "idle"
        /\ \A u \in Threads \ {t} : pc'[u] = pc[u]
    BY <1>3, <1>6 DEF Labels
  <2> QED
    BY <2>1, <2>2 DEF OneThread, Moves, NoLocals
<1>7. CASE Store(t) \/ Stamp(t) \/ NeedDeque(t) \/ AppendToPost(t) \/ Complete(t)
  <2>1. loc' = loc
    BY <1>7 DEF Store, Stamp, NeedDeque, AppendToPost, Complete
  <2>2. \E a, l \in Sampling : At(t, a) /\ Goto(t, l) /\ l # "store"
    BY <1>7 DEF Store, Stamp, NeedDeque, AppendToPost, Complete, Sampling, Labels
  <2> QED
    BY <1>1, <1>2, <1>5, <2>1, <2>2
<1>8. CASE AppendToBuffer(t) \/ InsertDeque(t)
  <2>1. loc' = Race(t) /\ Race(t)[t] = loc[t]
    BY <1>1, <1>8, RaceFacts DEF AppendToBuffer, InsertDeque
  <2>2. \E a, l \in Sampling : At(t, a) /\ Goto(t, l) /\ l # "store"
    BY <1>8 DEF AppendToBuffer, InsertDeque, Sampling, Labels
  <2> QED
    BY <1>1, <1>2, <1>5, <2>1, <2>2
<1>9. CASE Evict(t) \/ Reset(t)
  <2>1. Goto(t, "idle") /\ \/ loc' = [loc EXCEPT ![t] = NoLocals]
                           \/ loc' = [Race(t) EXCEPT ![t] = NoLocals]
    BY <1>9 DEF Evict, Reset
  <2> QED
    BY <1>2, <1>6, <2>1
<1>10. CASE ReadFails(t) \/ Arm(t)
  BY <1>2, <1>6, <1>10 DEF ReadFails, Arm, Return
<1>11. CASE FinalizeOrReturn(t)
  <2>1. CASE Return(t)
    BY <1>2, <1>6, <2>1 DEF Return
  <2>2. CASE Goto(t, "finalize") /\ UNCHANGED loc
    BY <1>1, <1>2, <1>5, <1>11, <2>2 DEF FinalizeOrReturn, Sampling, Labels
  <2> QED
    BY <1>11, <2>1, <2>2 DEF FinalizeOrReturn
<1>12. CASE FindPostList(t)
  <2>1. PICK f \in {loc, Race(t)} : loc' = [f EXCEPT ![t].post = postList]
    BY <1>12 DEF FindPostList
  <2>2. Others(f, t) /\ f[t] = loc[t]
    BY <1>1, <1>2, RaceFacts
  <2> DEFINE new == [loc[t] EXCEPT !.post = postList]
  <2>3. loc' = [f EXCEPT ![t] = new]
    BY <2>1, <2>2
  <2>4. new \in Locals /\ new.sample = loc[t].sample /\ new.post = postList
    BY <1>1 DEF Locals
  <2> HIDE DEF new
  <2> QED
    BY <1>2, <1>5, <1>12, <2>2, <2>3, <2>4 DEF FindPostList, Sampling, Labels
<1>13. CASE StartFinalize(t)
  <2> DEFINE when == IF triggerTime = None THEN clock ELSE triggerTime
             new == [loc[t] EXCEPT !.raced = FALSE, !.time = when]
  <2>1. loc' = [loc EXCEPT ![t] = new]
    BY <1>13 DEF StartFinalize
  <2>2. when \in Nat
    BY <1>1
  <2> HIDE DEF when
  <2>3. new \in Locals /\ new.sample = loc[t].sample /\ new.post = loc[t].post
    BY <1>1, <2>2 DEF Locals
  <2> HIDE DEF new
  <2> QED
    <3>1. Others(loc', t) /\ loc'[t] = new
      BY <1>2, <2>1, <2>3
    <3>2. At(t, "finalize") /\ Goto(t, "read") /\ {"finalize", "read"} \subseteq Sampling
      BY <1>13 DEF StartFinalize, Sampling, Labels
    <3>3. "read" # "store" /\ new.post \in {loc[t].post, postList}
      BY <2>3
    <3> QED
      BY <1>5, <2>3, <3>1, <3>2, <3>3
<1>14. CASE ReadBuffers(t)
  <2> DEFINE p == [s \in Sensors |-> ListOf(buffer, s)]
             q == [s \in Sensors |-> ListOf(post, s)]
             new == [loc[t] EXCEPT !.pre = p, !.tail = q]
  <2>1. loc' = [loc EXCEPT ![t] = new]
    BY <1>14 DEF ReadBuffers
  <2>2. p \in Lists /\ q \in Lists
    BY ListTypes DEF Lists
  <2> HIDE DEF p, q
  <2>3. new \in Locals /\ new.sample = loc[t].sample /\ new.post = loc[t].post
    BY <1>1, <2>2 DEF Locals
  <2> HIDE DEF new
  <2> QED
    <3>1. Others(loc', t) /\ loc'[t] = new
      BY <1>2, <2>1, <2>3
    <3>2. At(t, "read") /\ Goto(t, "complete") /\ {"read", "complete"} \subseteq Sampling
      BY <1>14 DEF ReadBuffers, Sampling, Labels
    <3>3. "complete" # "store" /\ new.post \in {loc[t].post, postList}
      BY <2>3
    <3> QED
      BY <1>5, <2>3, <3>1, <3>2, <3>3
<1>15. ASSUME NEW s \in Sensors, OnSample(t, s)
       PROVE  OneThread(t)
  <2> DEFINE n == Len(samples) + 1
             new == [loc[t] EXCEPT !.sample = n, !.data = dataList]
  <2>1. loc' = [loc EXCEPT ![t] = new]
    BY <1>15 DEF OnSample
  <2>2. n \in Nat /\ n = Len(samples) + 1
    BY <1>1
  <2> HIDE DEF n
  <2>3. new \in Locals /\ new.sample = Len(samples) + 1 /\ new.data = dataList
        /\ new.post = loc[t].post
    BY <1>1, <2>2 DEF Locals
  <2> HIDE DEF new
  <2>4. Others(loc', t) /\ loc'[t] = new
    BY <1>2, <2>1, <2>3
  <2>5. samples \in Seq(Sample) /\ \E new_ \in Sample : samples' = Append(samples, new_)
    BY <1>15, SampleTaken DEF TypeInv
  <2>6. n \in SampleIds'
    BY <2>2, <2>5, <1>1 DEF SampleIds
  <2> QED
    BY <1>3, <1>15, <2>3, <2>4, <2>6, <2>2 DEF OnSample, OneThread, Moves, At, Labels
<1>16. CASE OnCollision(t)
  <2>1. CASE triggered
    BY <1>1, <1>2, <1>16, <2>1 DEF OnCollision, Trigger, OneThread, Moves
  <2>2. CASE ~triggered
    <3> DEFINE new == [loc[t] EXCEPT !.time = clock]
    <3>1. loc' = [loc EXCEPT ![t] = new] /\ Goto(t, "arm") /\ At(t, "idle")
      BY <1>16, <2>2 DEF OnCollision, Trigger
    <3>2. new \in Locals /\ new.sample = 0 /\ new.post = loc[t].post
      BY <1>1, <3>1 DEF Locals, At, Sampling
    <3> HIDE DEF new
    <3>3. Others(loc', t) /\ loc'[t] = new
      BY <1>2, <3>1, <3>2
    <3> QED
      BY <1>3, <3>1, <3>2, <3>3 DEF OneThread, Moves, At, Labels
  <2> QED
    BY <2>1, <2>2
<1> QED
  BY <1>7, <1>8, <1>9, <1>10, <1>11, <1>12, <1>13, <1>14, <1>15, <1>16 DEF CaptureStep

LEMMA LoopKeeps ==
  ASSUME EventLoop \/ Tick \/ UNCHANGED vars
  PROVE  UNCHANGED <<pc, loc>>
BY DEF EventLoop, StartSession, SetupSensors, EndSession, StartFlush, FlushSensor, CopyEvents,
       ClearEvents, SendCam, NoCam, ClearData, Elsewhere, Tick, vars

LEMMA StepThreads ==
  ASSUME TypeInv, [Next]_vars
  PROVE  UNCHANGED <<pc, loc>> \/ \E t \in Threads : OneThread(t)
BY StepCases, LoopKeeps, CallbackMoves

LEMMA StepHolding ==
  ASSUME TypeInv, [Next]_vars
  PROVE  HoldingInv'
<1>1. /\ pc \in [Threads -> Labels] /\ loc \in [Threads -> Locals]
      /\ \A t \in Threads : IF pc[t] \in Sampling THEN loc[t].sample \in SampleIds
                                                  ELSE loc[t].sample = 0
  BY DEF TypeInv, HoldingInv
<1>2. SampleIds \subseteq SampleIds'
  BY StepSamples, IdsGrow DEF TypeInv
<1>3. "idle" \notin Sampling /\ "arm" \notin Sampling /\ "store" \in Sampling
  BY DEF Sampling, Labels
<1>4. CASE UNCHANGED <<pc, loc>>
  BY <1>1, <1>2, <1>4 DEF HoldingInv
<1>5. ASSUME NEW t \in Threads, OneThread(t)
      PROVE  HoldingInv'
  <2>1. pc' \in [Threads -> Labels] /\ loc' \in [Threads -> Locals]
    BY <1>5 DEF OneThread, Others
  <2>2. ASSUME NEW u \in Threads
        PROVE  IF pc'[u] \in Sampling THEN loc'[u].sample \in SampleIds'
                                      ELSE loc'[u].sample = 0
    <3>1. CASE u # t
      BY <1>1, <1>2, <1>5, <3>1 DEF OneThread, Others, Same
    <3>2. CASE u = t
      <4>1. Moves(t)
        BY <1>5 DEF OneThread
      <4> QED
        BY <1>1, <1>2, <1>3, <3>2, <4>1 DEF Moves, NoLocals
    <3> QED
      BY <3>1, <3>2
  <2> QED
    BY <2>1, <2>2 DEF HoldingInv
<1> QED
  BY <1>4, <1>5, StepThreads

LEMMA StepLists ==
  ASSUME TypeInv, [Next]_vars
  PROVE  ListsInv'
<1>1. /\ samples \in Seq(Sample) /\ Dict(buffer) /\ Dict(post) /\ HoldingInv
      /\ data \in [Sensors -> Seq(SampleIds)]
  BY DEF TypeInv, ListsInv
<1>2. SampleIds \subseteq SampleIds' /\ \A q \in Seq(SampleIds) : q \in Seq(SampleIds')
  BY StepSamples, IdsGrow DEF TypeInv
<1>3. ASSUME NEW t \in Threads, pc[t] \in Sampling
      PROVE  loc[t].sample \in SampleIds /\ SensorOf(t) \in Sensors
  <2>1. loc[t].sample \in SampleIds
    BY <1>1, <1>3 DEF HoldingInv
  <2> QED
    BY <1>1, <2>1, SamplesFacts DEF SensorOf, SampleOf, Sample
<1>4. \A q \in Seq(SampleIds), i \in SampleIds : Append(q, i) \in Seq(SampleIds)
  OBVIOUS
<1>5. Dict(NoSamples)
  BY DEF Dict, NoSamples
<1>6. ASSUME NEW dict \in {buffer, post}, NEW s \in Sensors, NEW list \in Seq(SampleIds)
      PROVE  /\ Dict(With(dict, s, list))
             /\ s \in DOMAIN dict => Dict([dict EXCEPT ![s] = list])
  <2>1. DOMAIN dict \subseteq Sensors /\ \A x \in DOMAIN dict : dict[x] \in Seq(SampleIds)
    BY <1>1 DEF Dict
  <2> QED
    BY <2>1 DEF Dict, With
<1>7. ASSUME NEW t \in Threads,
             \/ AppendToBuffer(t) \/ InsertDeque(t) \/ Evict(t)
             \/ FindPostList(t) \/ AppendToPost(t) \/ Reset(t) \/ Arm(t)
      PROVE  /\ Dict(buffer') /\ SampleIds' = SampleIds
             /\ Dict(post')
  <2> DEFINE s == SensorOf(t)
             i == loc[t].sample
  <2>1. pc[t] \in Sampling \/ Arm(t)
    BY <1>7 DEF AppendToBuffer, InsertDeque, Evict, FindPostList, AppendToPost, Reset, At,
                Sampling, Labels
  <2>2. SampleIds' = SampleIds
    BY <1>7 DEF AppendToBuffer, InsertDeque, Evict, FindPostList, AppendToPost, Reset, Arm,
                historyVars, SampleIds
  <2>3. CASE Reset(t) \/ Arm(t)
    BY <1>1, <1>5, <2>2, <2>3 DEF Reset, Arm
  <2>4. CASE AppendToBuffer(t)
    <3>1. s \in Sensors /\ i \in SampleIds /\ s \in DOMAIN buffer /\ post' = post
          /\ buffer' = [buffer EXCEPT ![s] = Append(buffer[s], i)]
      BY <1>3, <2>1, <2>4 DEF AppendToBuffer, Arm, At
    <3>2. Append(buffer[s], i) \in Seq(SampleIds)
      BY <1>1, <1>4, <3>1 DEF Dict
    <3> HIDE DEF s, i
    <3> QED
      BY <1>1, <1>6, <2>2, <3>1, <3>2
  <2>5. CASE InsertDeque(t)
    <3>1. s \in Sensors /\ i \in SampleIds /\ post' = post /\ buffer' = With(buffer, s, <<i>>)
      BY <1>3, <2>1, <2>5 DEF InsertDeque, Arm, At
    <3>2. <<i>> \in Seq(SampleIds)
      BY <3>1
    <3> HIDE DEF s, i
    <3> QED
      BY <1>1, <1>6, <2>2, <3>1, <3>2
  <2>6. CASE Evict(t)
    <3>1. PICK n : /\ post' = post /\ s \in Sensors
                   /\ buffer' = IF s \notin DOMAIN buffer THEN buffer
                                ELSE [buffer EXCEPT ![s] = SubSeq(@, 1 + n, Len(@))]
                   /\ n = Cardinality(Expired(ListOf(buffer, s),
                                              SampleOf(t).time - PreSeconds))
      BY <1>3, <2>1, <2>6 DEF Evict, Arm, At
    <3>2. CASE s \in DOMAIN buffer
      <4>1. buffer[s] \in Seq(SampleIds) /\ ListOf(buffer, s) = buffer[s]
        BY <1>1, <3>2 DEF Dict, ListOf
      <4>2. n \in Nat
        <5> DEFINE old == Expired(buffer[s], SampleOf(t).time - PreSeconds)
        <5>1. old \subseteq 1 .. Len(buffer[s])
          BY <4>1 DEF Expired
        <5>2. n = Cardinality(old)
          BY <3>1, <4>1
        <5> HIDE DEF old
        <5>3. IsFiniteSet(1 .. Len(buffer[s]))
          BY <4>1, FS_Interval
        <5>4. IsFiniteSet(old)
          BY <5>1, <5>3, FS_Subset
        <5> QED
          BY <5>2, <5>4, FS_CardinalityType
      <4>3. SubSeq(buffer[s], 1 + n, Len(buffer[s])) \in Seq(SampleIds)
        BY <4>1, <4>2, SubSeqProperties
      <4> HIDE DEF s
      <4> QED
        BY <1>1, <1>6, <2>2, <3>1, <3>2, <4>3
    <3> QED
      BY <1>1, <2>2, <3>1, <3>2
  <2>7. CASE FindPostList(t)
    <3>1. s \in Sensors /\ buffer' = buffer /\ post' = With(post, s, ListOf(post, s))
      BY <1>3, <2>1, <2>7 DEF FindPostList, Arm, At
    <3>2. ListOf(post, s) \in Seq(SampleIds)
      BY ListTypes
    <3> HIDE DEF s
    <3> QED
      BY <1>1, <1>6, <2>2, <3>1, <3>2
  <2>8. CASE AppendToPost(t)
    <3>1. s \in Sensors /\ i \in SampleIds /\ buffer' = buffer
          /\ (post' = post \/ post' = [post EXCEPT ![s] = Append(@, i)])
      BY <1>3, <2>1, <2>8 DEF AppendToPost, Arm, At
    <3> HIDE DEF s, i
    <3>2. CASE s \in DOMAIN post
      <4>1. Append(post[s], i) \in Seq(SampleIds)
        BY <1>1, <1>4, <3>1, <3>2 DEF Dict
      <4> QED
        BY <1>1, <1>6, <2>2, <3>1, <3>2, <4>1
    <3>3. CASE s \notin DOMAIN post
      <4>1. DOMAIN post' = DOMAIN post /\ \A x \in DOMAIN post : post'[x] = post[x]
        BY <3>1, <3>3
      <4> QED
        BY <1>1, <2>2, <3>1, <4>1 DEF Dict
    <3> QED
      BY <3>2, <3>3
  <2> QED
    BY <1>7, <2>2, <2>3, <2>4, <2>5, <2>6, <2>7, <2>8
<1>8. (Dict(buffer) /\ Dict(post))'
  <2>1. \A d : Dict(d) => DOMAIN d \subseteq Sensors /\ \A x \in DOMAIN d : d[x] \in Seq(SampleIds')
    BY <1>2 DEF Dict
  <2>2. Dict(buffer') /\ Dict(post')
    BY <1>1, <1>7, TouchesLists
  <2> QED
    BY <2>1, <2>2 DEF Dict
<1>9. data' \in [Sensors -> Seq(SampleIds')]
  <2>1. data \in [Sensors -> Seq(SampleIds')]
    BY <1>1, <1>2
  <2>2. CASE ClearData
    BY <2>2 DEF ClearData
  <2>3. ASSUME NEW t \in Threads, Store(t)
        PROVE  data' \in [Sensors -> Seq(SampleIds')]
    <3>1. loc[t].sample \in SampleIds /\ SensorOf(t) \in Sensors
      BY <1>3, <2>3 DEF Store, At, Sampling, Labels
    <3>2. data' = data \/ data' = [data EXCEPT ![SensorOf(t)] = Append(@, loc[t].sample)]
      BY <2>3 DEF Store
    <3>3. Append(data[SensorOf(t)], loc[t].sample) \in Seq(SampleIds')
      BY <1>1, <1>2, <1>4, <3>1
    <3> QED
      BY <2>1, <3>1, <3>2, <3>3
  <2> QED
    BY <2>1, <2>2, <2>3, TouchesLists
<1> QED
  BY <1>8, <1>9 DEF ListsInv

LEMMA StepEvents ==
  ASSUME TypeInv, [Next]_vars
  PROVE  EventsInv' /\ Len(sealed) <= Len(sealed')
<1>1. EventsInv /\ Len(sealed) \in Nat
  BY DEF TypeInv, EventsInv
<1>2. CASE UNCHANGED <<sealed, completed, popped, returned>>
  BY <1>1, <1>2 DEF EventsInv
<1>3. CASE CopyEvents
  <2>1. popped' = completed /\ UNCHANGED <<sealed, completed, returned>>
    BY <1>3 DEF CopyEvents, Elsewhere, captureVars, historyVars
  <2> QED
    BY <1>1, <2>1 DEF EventsInv
<1>4. CASE ClearEvents
  <2>1. /\ popped' = <<>> /\ completed' = <<>> /\ sealed' = sealed
        /\ returned' = returned \cup SamplesIn(popped)
    BY <1>4 DEF ClearEvents, historyVars
  <2>2. SamplesIn(popped) \subseteq 1 .. Len(sealed)
    BY <1>1 DEF EventsInv, SamplesIn
  <2>3. returned' \subseteq 1 .. Len(sealed)
    BY <1>1, <2>1, <2>2 DEF EventsInv
  <2>4. popped' \in Seq(1 .. Len(sealed)) /\ completed' \in Seq(1 .. Len(sealed))
    BY <2>1
  <2>5. sealed' \in Seq(Event)
    BY <1>1, <2>1 DEF EventsInv
  <2> QED
    BY <1>1, <2>1, <2>3, <2>4, <2>5 DEF EventsInv
<1>5. ASSUME NEW t \in Threads, Complete(t), UNCHANGED <<popped, returned>>
      PROVE  EventsInv' /\ Len(sealed) <= Len(sealed')
  <2> DEFINE e == [time |-> loc[t].time, pre |-> loc[t].pre, tail |-> loc[t].tail]
             n == Len(sealed)
  <2>1. e \in Event
    BY DEF TypeInv, HoldingInv, Locals, Event
  <2>2. sealed' = Append(sealed, e) /\ completed' = Append(completed, n + 1)
    BY <1>5 DEF Complete
  <2> HIDE DEF e
  <2>3. sealed' \in Seq(Event) /\ Len(sealed') = n + 1
    BY <1>1, <2>1, <2>2 DEF EventsInv
  <2> HIDE DEF n
  <2>4. n = Len(sealed) /\ n \in Nat
    BY <1>1 DEF n
  <2>5. 1 .. n \subseteq 1 .. (n + 1) /\ n + 1 \in 1 .. (n + 1)
    BY <2>4
  <2>6. completed \in Seq(1 .. (n + 1)) /\ popped \in Seq(1 .. (n + 1))
        /\ returned \subseteq 1 .. (n + 1)
    BY <1>1, <2>4, <2>5 DEF EventsInv
  <2>7. completed' \in Seq(1 .. (n + 1))
    BY <2>2, <2>5, <2>6
  <2> QED
    BY <1>5, <2>3, <2>4, <2>6, <2>7 DEF EventsInv
<1> QED
  BY <1>1, <1>2, <1>3, <1>4, <1>5, TouchesEvents

LEMMA StepCounters ==
  ASSUME TypeInv, [Next]_vars
  PROVE  CountersInv'
<1>1. CountersInv /\ \A t \in Threads : loc[t].time \in Nat
  BY DEF TypeInv, HoldingInv, Locals
<1>2. Len(SensorOrder) \in Nat /\ Len(SensorOrder) >= 1
  BY AdapterAssumption
<1> USE DEF CountersInv, captureVars, historyVars, adapterVars, v2xVars, sessionVars, flushVars,
            Elsewhere, MainLabels
<1>3. CASE StartSession
  BY <1>1, <1>3 DEF StartSession
<1>4. CASE SetupSensors
  BY <1>1, <1>4 DEF SetupSensors
<1>5. CASE EndSession
  BY <1>1, <1>5 DEF EndSession
<1>6. CASE StartFlush
  BY <1>1, <1>2, <1>6 DEF StartFlush
<1>7. CASE FlushSensor
  <2>1. nextList' \in 1 .. Len(SensorOrder)
    BY <1>1, <1>2, <1>7 DEF FlushSensor
  <2> QED
    BY <1>1, <1>7, <2>1 DEF FlushSensor
<1>8. CASE CopyEvents
  BY <1>1, <1>8 DEF CopyEvents
<1>9. CASE ClearEvents
  BY <1>1, <1>9 DEF ClearEvents
<1>10. CASE SendCam
  <2>1. pseudonym' \in Nat /\ rotated' \in Nat
    BY <1>1, <1>10 DEF SendCam
  <2> QED
    BY <1>1, <1>10, <2>1 DEF SendCam
<1>11. CASE NoCam
  BY <1>1, <1>11 DEF NoCam
<1>12. CASE ClearData
  BY <1>1, <1>12 DEF ClearData
<1>13. CASE Tick
  BY <1>1, <1>13 DEF Tick
<1>14. CASE UNCHANGED vars
  BY <1>1, <1>14 DEF vars
<1>15. ASSUME NEW t \in Threads,
              Store(t) \/ OnCollision(t) \/ (\E s \in Sensors : OnSample(t, s))
       PROVE  CountersInv'
  <2>1. CASE Store(t) \/ (\E s \in Sensors : OnSample(t, s))
    BY <1>1, <2>1 DEF Store, OnSample
  <2>2. CASE OnCollision(t)
    <3>1. CASE triggered
      BY <1>1, <2>2, <3>1 DEF OnCollision, Trigger
    <3>2. CASE ~triggered
      <4>1. triggered' = TRUE /\ collisions' = collisions + 1
        BY <2>2, <3>2 DEF OnCollision, Trigger
      <4> QED
        BY <1>1, <2>2, <3>2, <4>1 DEF OnCollision, Trigger
    <3> QED
      BY <3>1, <3>2
  <2> QED
    BY <1>15, <2>1, <2>2
<1>16. ASSUME NEW t \in Threads, CaptureStep(t), UNCHANGED adapterVars
       PROVE  CountersInv'
  <2>1. CASE Arm(t)
    BY <1>1, <1>16, <2>1 DEF Arm
  <2>2. CASE Reset(t)
    <3>1. /\ triggered' = FALSE /\ triggerTime' = None /\ postList' = postList + 1
          /\ UNCHANGED <<clock, collisions>>
      BY <2>2 DEF Reset
    <3>2. triggered' \in BOOLEAN /\ triggerTime' \in Nat \cup {None}
      BY <3>1
    <3>3. postList' \in Nat /\ clock' \in Nat /\ collisions' \in Nat
      BY <1>1, <3>1
    <3>4. UNCHANGED adapterVars
      BY <1>16
    <3> QED
      BY <1>1, <3>2, <3>3, <3>4
  <2>3. CASE ~(Arm(t) \/ Reset(t))
    <3>1. UNCHANGED <<triggered, triggerTime, postList, clock, collisions>>
      BY <1>16, <2>3 DEF CaptureStep, Stamp, AppendToBuffer, NeedDeque, InsertDeque, Evict,
         FindPostList, AppendToPost, FinalizeOrReturn, StartFinalize, ReadBuffers, ReadFails,
         Complete
    <3> QED
      BY <1>1, <1>16, <3>1
  <2> QED
    BY <2>1, <2>3, <2>2
<1> QED
  BY <1>3, <1>6, <1>7, <1>8, <1>10, <1>11, <1>13, <1>15, <1>16, <1>12, <1>14, <1>4, <1>5, <1>9,
     StepCases DEF EventLoop

LEMMA TouchesRecords ==
  ASSUME [Next]_vars
  PROVE  /\ reported' = reported \/ FlushSensor
         /\ cams' = cams \/ SendCam
<1>1. CASE EventLoop
  BY <1>1 DEF EventLoop, StartSession, SetupSensors, EndSession, StartFlush, CopyEvents,
              ClearEvents, FlushSensor, SendCam, NoCam, ClearData, v2xVars, flushVars
<1>2. CASE Tick \/ UNCHANGED vars
  BY <1>2 DEF Tick, vars, adapterVars, v2xVars, flushVars
<1>3. ASSUME NEW t \in Threads,
             \/ Store(t) \/ OnCollision(t) \/ (\E s \in Sensors : OnSample(t, s))
             \/ UNCHANGED adapterVars
      PROVE  UNCHANGED <<reported, cams>>
  BY <1>3 DEF Store, OnCollision, OnSample, adapterVars, v2xVars, flushVars
<1> QED
  BY <1>1, <1>2, <1>3, StepCases

LEMMA StepHistory ==
  ASSUME TypeInv, [Next]_vars
  PROVE  HistoryInv'
<1>1. HistoryInv /\ CountersInv /\ SampleIds \subseteq SampleIds'
  BY StepSamples, IdsGrow DEF TypeInv
<1> DEFINE Record == [sample : SampleIds, session : Nat, flush : Nat]
           Record1 == [sample : SampleIds', session : Nat, flush : Nat]
           Cam == [pseudonym : Nat, time : Nat, session : Nat]
<1>2. reported \subseteq Record1
  <2>1. \A x \in Record : x \in Record1
    BY <1>1
  <2> QED
    BY <1>1, <2>1 DEF HistoryInv
<1>3. ASSUME FlushSensor PROVE reported' \subseteq Record1
  <2>1. SensorOrder[nextList] \in Sensors
    BY <1>1, AdapterAssumption DEF CountersInv
  <2>2. SamplesIn(data[SensorOrder[nextList]]) \subseteq SampleIds
    BY <2>1 DEF TypeInv, ListsInv, SamplesIn
  <2>3. \A i \in SampleIds : [sample |-> i, session |-> session, flush |-> flushes] \in Record1
    BY <1>1 DEF CountersInv
  <2>4. reported' \subseteq Record1
    <3> HIDE DEF Record1
    <3> QED
      BY <1>2, <1>3, <2>2, <2>3 DEF FlushSensor
  <2> QED
    BY <2>4
<1>4. ASSUME SendCam PROVE cams' \subseteq Cam
  <2>1. pseudonym' \in Nat /\ cams' = cams \cup {[pseudonym |-> pseudonym', time |-> clock,
                                                  session |-> session]}
    BY <1>1, <1>4 DEF SendCam, CountersInv
  <2>2. [pseudonym |-> pseudonym', time |-> clock, session |-> session] \in Cam
    BY <1>1, <2>1 DEF CountersInv
  <2> HIDE DEF Cam
  <2>3. cams \subseteq Cam
    BY <1>1 DEF HistoryInv, Cam
  <2>4. cams' \subseteq Cam
    BY <2>1, <2>2, <2>3
  <2> QED
    BY <2>4 DEF Cam
<1>5. reported' \subseteq Record1
  BY <1>2, <1>3, TouchesRecords
<1>6. cams' \subseteq Cam
  BY <1>1, <1>4, TouchesRecords DEF HistoryInv
<1> QED
  BY <1>5, <1>6 DEF HistoryInv

LEMMA InitTypes ==
  ASSUME Init
  PROVE  TypeInv
<1>1. Len(SensorOrder) \in Nat /\ Len(SensorOrder) >= 1
  BY AdapterAssumption
<1>2. samples \in Seq(Sample)
  BY DEF Init, CaptureInit
<1>3. HoldingInv
  <2>1. "idle" \in Labels /\ "idle" \notin Sampling
    BY DEF Labels, Sampling
  <2>2. NoLocals.sample = 0
    BY DEF NoLocals
  <2> QED
    BY <2>1, <2>2, NoLocalsType DEF Init, CaptureInit, HoldingInv
<1>4. ListsInv
  <2>1. <<>> \in Seq(SampleIds)
    OBVIOUS
  <2> QED
    BY <2>1 DEF Init, CaptureInit, ListsInv, Dict, NoSamples
<1>5. EventsInv
  BY DEF Init, CaptureInit, EventsInv
<1>6. CountersInv
  <2>1. 1 \in 1 .. Len(SensorOrder)
    BY <1>1
  <2> QED
    BY <2>1 DEF Init, CaptureInit, CountersInv, MainLabels
<1>7. HistoryInv
  BY DEF Init, HistoryInv
<1> QED
  BY <1>2, <1>3, <1>4, <1>5, <1>6, <1>7 DEF TypeInv

LEMMA TypesGiveTypeOK ==
  ASSUME TypeInv
  PROVE  TypeOK
<1>1. /\ samples \in Seq(Sample) /\ pc \in [Threads -> Labels] /\ Dict(buffer) /\ Dict(post)
      /\ data \in [Sensors -> Seq(SampleIds)] /\ EventsInv /\ CountersInv
      /\ HistoryInv
  BY DEF TypeInv, HoldingInv, ListsInv
<1>2. \A i \in SampleIds : samples[i] \in Sample
  BY <1>1, SamplesFacts
<1>3. DOMAIN sealed = 1 .. Len(sealed) /\ \A k \in DOMAIN sealed : sealed[k].time \in Nat
  <2>1. sealed \in Seq(Event)
    BY <1>1 DEF EventsInv
  <2>2. DOMAIN sealed = 1 .. Len(sealed) /\ \A k \in DOMAIN sealed : sealed[k] \in Event
    BY <2>1
  <2> QED
    BY <2>2 DEF Event
<1>4. DOMAIN SensorOrder = 1 .. Len(SensorOrder)
  BY AdapterAssumption
<1>5. \A lists \in {buffer, post} : DOMAIN lists \subseteq Sensors
                                    /\ \A s \in DOMAIN lists : lists[s] \in Seq(SampleIds)
  BY <1>1 DEF Dict
<1> QED
  BY <1>1, <1>2, <1>3, <1>4, <1>5 DEF TypeOK, EventsInv, CountersInv, HistoryInv, Sample

(* The types of the adapter and of the capture hold in every state,        *)
(* whatever thread a callback is interrupted for.                          *)
THEOREM TypeCorrect == Spec => [](TypeInv /\ TypeOK)
<1>1. ASSUME TypeInv, [Next]_vars
      PROVE  TypeInv'
  BY <1>1, StepSamples, StepHolding, StepLists, StepEvents, StepCounters, StepHistory
     DEF TypeInv, SamplesGrow
<1> QED
  BY <1>1, InitTypes, TypesGiveTypeOK, PTL DEF Spec

-----------------------------------------------------------------------------
(* Reporting.                                                              *)
IsReported(i) == \E x \in reported : x.sample = i

(* The flush that runs, if one does, has not read the sensor's list yet.   *)
Unread(s) ==
  \/ main \notin FlushLabels
  \/ main = "read" /\ \E j \in nextList .. Len(SensorOrder) : SensorOrder[j] = s

(* A sample of a list is a record as soon as its list is read, and no      *)
(* earlier, unless its callback met the flush.                             *)
ListedInv ==
  \A s \in Sensors : \A i \in SamplesIn(data[s]) :
    /\ samples[i].sensor = s
    /\ IF Unread(s) THEN ~IsReported(i) ELSE IsReported(i) \/ samples[i].racing

(* A sample that is not in its list yet is in no list and no record; it    *)
(* counts as racing while a flush runs and when its list is detached.      *)
HeldInv ==
  \A t \in Threads : At(t, "store") =>
    /\ ~IsReported(loc[t].sample)
    /\ \A s \in Sensors : loc[t].sample \notin SamplesIn(data[s])
    /\ main \in FlushLabels \/ loc[t].data # dataList => samples[loc[t].sample].racing
    /\ \A u \in Threads \ {t} : At(u, "store") => loc[u].sample # loc[t].sample

ReportInv == ListedInv /\ HeldInv /\ ReportedOnce /\ QuietSamplesKept

ReportVars == <<data, dataList, reported>>

(* What the other steps keep of the reporting state.                       *)
KeepsHeld ==
  \A t \in Threads :
    /\ At(t, "store")' <=> At(t, "store")
    /\ At(t, "store") => loc'[t].sample = loc[t].sample /\ loc'[t].data = loc[t].data

KeepsSamples ==
  /\ SampleIds' = SampleIds
  /\ \A i \in SampleIds : /\ samples'[i].sensor = samples[i].sensor
                          /\ samples'[i].racing = samples[i].racing

Aside ==
  /\ UNCHANGED ReportVars /\ KeepsHeld /\ KeepsSamples
  /\ (main \in FlushLabels)' <=> main \in FlushLabels
  /\ \A s \in Sensors : Unread(s)' <=> Unread(s)

LEMMA ListedFacts ==
  ASSUME TypeInv
  PROVE  /\ \A s \in Sensors : SamplesIn(data[s]) \subseteq SampleIds
         /\ \A t \in Threads : At(t, "store") => /\ loc[t].sample \in SampleIds
                                                 /\ SensorOf(t) \in Sensors
         /\ \A i : IsReported(i) => i \in SampleIds
         /\ \A i \in SampleIds : samples[i] \in Sample
<1>1. \A i \in SampleIds : samples[i] \in Sample
  BY SamplesFacts DEF TypeInv
<1>2. \A s \in Sensors : SamplesIn(data[s]) \subseteq SampleIds
  BY DEF TypeInv, ListsInv, SamplesIn
<1>3. ASSUME NEW t \in Threads, At(t, "store")
      PROVE  loc[t].sample \in SampleIds /\ SensorOf(t) \in Sensors
  <2>1. loc[t].sample \in SampleIds
    BY <1>3 DEF TypeInv, HoldingInv, At, Sampling, Labels
  <2> QED
    BY <1>1, <2>1 DEF SensorOf, SampleOf, Sample
<1>4. \A i : IsReported(i) => i \in SampleIds
  BY DEF TypeInv, HistoryInv, IsReported
<1> QED
  BY <1>1, <1>2, <1>3, <1>4

LEMMA AppendIn ==
  ASSUME NEW S, NEW q \in Seq(S), NEW i \in S
  PROVE  SamplesIn(Append(q, i)) = SamplesIn(q) \cup {i}
<1>1. /\ Append(q, i) \in Seq(S) /\ Len(Append(q, i)) = Len(q) + 1 /\ Len(q) \in Nat
      /\ \A j \in 1 .. Len(q) : Append(q, i)[j] = q[j]
      /\ Append(q, i)[Len(q) + 1] = i
  BY AppendProperties
<1> DEFINE r == Append(q, i)
<1>2. r \in Seq(S) /\ Len(r) = Len(q) + 1 /\ r[Len(q) + 1] = i
      /\ \A j \in 1 .. Len(q) : r[j] = q[j]
  BY <1>1
<1> HIDE DEF r
<1>3. DOMAIN q = 1 .. Len(q) /\ DOMAIN r = 1 .. (Len(q) + 1) /\ Len(q) \in Nat
  BY <1>2
<1>4. ASSUME NEW x PROVE x \in SamplesIn(r) <=> x \in SamplesIn(q) \cup {i}
  BY <1>2, <1>3 DEF SamplesIn
<1>5. SamplesIn(r) = SamplesIn(q) \cup {i}
  BY <1>4
<1> QED
  BY <1>5 DEF r

LEMMA AsideReports ==
  ASSUME TypeInv, ReportInv, Aside
  PROVE  ReportInv'
<1>1. /\ \A s \in Sensors : SamplesIn(data[s]) \subseteq SampleIds
      /\ \A t \in Threads : At(t, "store") => loc[t].sample \in SampleIds
  BY ListedFacts
<1>2. /\ data' = data /\ dataList' = dataList /\ reported' = reported
      /\ \A i : IsReported(i)' <=> IsReported(i)
  BY DEF Aside, ReportVars, IsReported
<1>3. ListedInv'
  <2>1. ASSUME NEW s \in Sensors, NEW i \in SamplesIn(data[s])
        PROVE  /\ samples'[i].sensor = s
               /\ IF Unread(s)' THEN ~IsReported(i) ELSE IsReported(i) \/ samples'[i].racing
    <3>1. i \in SampleIds /\ samples'[i].sensor = samples[i].sensor
          /\ samples'[i].racing = samples[i].racing /\ (Unread(s)' <=> Unread(s))
      BY <1>1, <2>1 DEF Aside, KeepsSamples
    <3> QED
      BY <2>1, <3>1 DEF ReportInv, ListedInv
  <2> QED
    BY <1>2, <2>1 DEF ListedInv, SamplesIn
<1>4. HeldInv'
  <2>1. ASSUME NEW t \in Threads, At(t, "store")'
        PROVE  /\ ~IsReported(loc'[t].sample)
               /\ \A s \in Sensors : loc'[t].sample \notin SamplesIn(data[s])
               /\ main' \in FlushLabels \/ loc'[t].data # dataList
                    => samples'[loc'[t].sample].racing
               /\ \A u \in Threads \ {t} : At(u, "store")' => loc'[u].sample # loc'[t].sample
    <3>1. At(t, "store") /\ loc'[t].sample = loc[t].sample /\ loc'[t].data = loc[t].data
      BY <2>1 DEF Aside, KeepsHeld
    <3>2. samples'[loc[t].sample].racing = samples[loc[t].sample].racing
      BY <1>1, <3>1 DEF Aside, KeepsSamples
    <3>3. main' \in FlushLabels <=> main \in FlushLabels
      BY DEF Aside, FlushLabels
    <3>4. \A u \in Threads : At(u, "store")' => At(u, "store") /\ loc'[u].sample = loc[u].sample
      BY DEF Aside, KeepsHeld
    <3> QED
      BY <3>1, <3>2, <3>3, <3>4 DEF ReportInv, HeldInv
  <2> QED
    BY <1>2, <2>1 DEF HeldInv, SamplesIn, FlushLabels
<1>5. ReportedOnce'
  BY <1>2 DEF ReportInv, ReportedOnce
<1>6. QuietSamplesKept'
  <2>1. ASSUME NEW i \in SampleIds
        PROVE  \/ samples'[i].racing
               \/ \E t \in Threads : At(t, "store")' /\ loc'[t].sample = i
               \/ \E s \in Sensors : i \in SamplesIn(data[s])
               \/ \E x \in reported : x.sample = i
    BY <2>1 DEF ReportInv, QuietSamplesKept, Aside, KeepsHeld, KeepsSamples
  <2> QED
    BY <1>2, <2>1 DEF QuietSamplesKept, Aside, KeepsSamples, SamplesIn
<1> QED
  BY <1>3, <1>4, <1>5, <1>6 DEF ReportInv

LEMMA LoopAside ==
  ASSUME \/ StartSession \/ SetupSensors \/ EndSession \/ CopyEvents \/ ClearEvents
         \/ SendCam \/ NoCam \/ Tick \/ UNCHANGED vars
  PROVE  Aside
<1>1. UNCHANGED <<data, dataList, reported, samples, pc, loc, nextList>>
  BY DEF StartSession, SetupSensors, EndSession, CopyEvents, ClearEvents, SendCam, NoCam, Tick,
         vars, Elsewhere, adapterVars, flushVars, v2xVars, sessionVars, historyVars
<1>2. \/ main' = main
      \/ main \notin FlushLabels /\ main' \notin FlushLabels
      \/ main \in FlushLabels \ {"read"} /\ main' \in FlushLabels \ {"read"}
  BY DEF StartSession, SetupSensors, EndSession, CopyEvents, ClearEvents, SendCam, NoCam, Tick,
         vars, Elsewhere, adapterVars, FlushLabels
<1>3. KeepsHeld /\ KeepsSamples /\ UNCHANGED ReportVars
  BY <1>1 DEF KeepsHeld, KeepsSamples, ReportVars, At, SampleIds
<1>4. (main \in FlushLabels)' <=> main \in FlushLabels
  BY <1>2 DEF FlushLabels
<1>5. ASSUME NEW s PROVE Unread(s)' <=> Unread(s)
  BY <1>1, <1>2 DEF Unread, FlushLabels
<1> QED
  BY <1>3, <1>4, <1>5 DEF Aside

InCapture(t) == OnCollision(t) \/ (CaptureStep(t) /\ UNCHANGED adapterVars)

LEMMA CaptureAside ==
  ASSUME TypeInv, NEW t \in Threads, InCapture(t)
  PROVE  Aside
<1>1. OnCollision(t) \/ (CaptureStep(t) /\ UNCHANGED adapterVars)
  BY DEF InCapture
<1>2. /\ samples \in Seq(Sample) /\ pc \in [Threads -> Labels] /\ OneThread(t)
      /\ \A u \in Threads : At(u, "store") => loc[u].sample \in SampleIds
  BY <1>1, CallbackMoves, ListedFacts DEF TypeInv, HoldingInv
<1>3. UNCHANGED <<data, dataList, reported, main, nextList>>
  BY <1>1 DEF OnCollision, adapterVars, flushVars
<1>4. (main \in FlushLabels)' <=> main \in FlushLabels
  BY <1>3 DEF FlushLabels
<1>5. \A s \in Sensors : Unread(s)' <=> Unread(s)
  BY <1>3 DEF Unread, FlushLabels
<1>6. KeepsSamples
  <2>1. CASE Stamp(t)
    <3>1. loc[t].sample \in SampleIds
      BY <2>1 DEF TypeInv, HoldingInv, Stamp, At, Sampling, Labels
    <3>2. samples' = [samples EXCEPT ![loc[t].sample] =
                        [samples[loc[t].sample] EXCEPT !.time = clock]]
      BY <2>1 DEF Stamp
    <3>3. \A i \in SampleIds : samples[i] \in Sample
      BY <1>2, SamplesFacts
    <3>4. DOMAIN samples' = DOMAIN samples
      BY <3>2
    <3> QED
      BY <3>1, <3>2, <3>3, <3>4 DEF KeepsSamples, SampleIds, Sample
  <2>2. CASE ~Stamp(t)
    <3>1. samples' = samples
      BY <1>1, <2>2 DEF CaptureStep, AppendToBuffer, NeedDeque, InsertDeque, Evict, FindPostList,
                  AppendToPost, FinalizeOrReturn, StartFinalize, ReadBuffers, ReadFails,
                  Complete, Reset, Arm, OnCollision, Trigger, historyVars
    <3> QED
      BY <3>1 DEF KeepsSamples, SampleIds
  <2> QED
    BY <2>1, <2>2
<1>7. KeepsHeld
  <2>1. UNCHANGED <<pc, loc>> \/ (~At(t, "store") /\ ~At(t, "store")')
    <3>1. CASE OnCollision(t)
      BY <1>2, <3>1 DEF OnCollision, Trigger, Goto, At
    <3>2. CASE CaptureStep(t)
      BY <1>2, <3>2 DEF CaptureStep, Stamp, AppendToBuffer, NeedDeque, InsertDeque, Evict,
         FindPostList, AppendToPost, FinalizeOrReturn, StartFinalize, ReadBuffers, ReadFails,
         Complete, Reset, Arm, Return, Goto, At
    <3> QED
      BY <1>1, <3>1, <3>2
  <2>2. \A u \in Threads \ {t} : pc'[u] = pc[u] /\ Same(loc'[u], loc[u])
    BY <1>2 DEF OneThread, Others
  <2> QED
    BY <2>1, <2>2 DEF KeepsHeld, At, Same
<1> QED
  BY <1>3, <1>4, <1>5, <1>6, <1>7 DEF Aside, ReportVars

LEMMA SampleReports ==
  ASSUME TypeInv, ReportInv, NEW t \in Threads, NEW s \in Sensors, OnSample(t, s)
  PROVE  ReportInv'
<1> DEFINE n == Len(samples) + 1
<1>1. /\ \A r \in Sensors : SamplesIn(data[r]) \subseteq SampleIds
      /\ \A u \in Threads : At(u, "store") => loc[u].sample \in SampleIds
      /\ \A i : IsReported(i) => i \in SampleIds
  BY ListedFacts
<1>2. OneThread(t) /\ At(t, "idle") /\ pc'[t] = "store"
  BY CallbackMoves DEF OnSample, Goto, TypeInv, HoldingInv
<1>3. loc'[t].sample = n /\ loc'[t].data = dataList
  <2>1. loc[t] \in Locals /\ loc' = [loc EXCEPT ![t].sample = n, ![t].data = dataList]
    BY DEF OnSample, TypeInv, HoldingInv
  <2> HIDE DEF n
  <2> QED
    BY <2>1 DEF TypeInv, HoldingInv, Locals
<1>4. UNCHANGED <<data, dataList, reported, main, nextList>>
  BY DEF OnSample, adapterVars, flushVars
<1>5. samples \in Seq(Sample) /\ SampleIds = 1 .. Len(samples) /\ Len(samples) \in Nat
  BY SamplesFacts DEF TypeInv
<1>6. /\ SampleIds' = SampleIds \cup {n} /\ n \notin SampleIds
      /\ \A i \in SampleIds : samples'[i] = samples[i]
      /\ main \in FlushLabels => samples'[n].racing
  <2>1. PICK new \in Sample : samples' = Append(samples, new) /\ (main \in FlushLabels => new.racing)
    BY SampleTaken DEF Taken
  <2>3. /\ samples' \in Seq(Sample) /\ Len(samples') = n /\ samples'[n] = new
        /\ \A i \in 1 .. Len(samples) : samples'[i] = samples[i]
    BY <1>5, <2>1, AppendProperties
  <2>4. SampleIds' = 1 .. n
    BY <2>3 DEF SampleIds
  <2> QED
    BY <1>5, <2>1, <2>3, <2>4
<1> HIDE DEF n
<1>7. \A u \in Threads \ {t} : /\ At(u, "store")' <=> At(u, "store")
                               /\ loc'[u].sample = loc[u].sample /\ loc'[u].data = loc[u].data
  BY <1>2 DEF OneThread, Others, Same, At
<1>8. /\ \A i : IsReported(i)' <=> IsReported(i)
      /\ \A r : Unread(r)' <=> Unread(r)
  BY <1>4 DEF IsReported, Unread, FlushLabels
<1>9. ListedInv'
  <2>1. ASSUME NEW r \in Sensors, NEW i \in SamplesIn(data[r])
        PROVE  /\ samples'[i].sensor = r
               /\ IF Unread(r) THEN ~IsReported(i) ELSE IsReported(i) \/ samples'[i].racing
    <3>1. i \in SampleIds /\ samples'[i] = samples[i]
      BY <1>1, <1>6, <2>1
    <3> QED
      BY <2>1, <3>1 DEF ReportInv, ListedInv
  <2> QED
    BY <1>4, <1>8, <2>1 DEF ListedInv, SamplesIn
<1>10. HeldInv'
  <2>1. ASSUME NEW u \in Threads, At(u, "store")'
        PROVE  /\ ~IsReported(loc'[u].sample)
               /\ \A r \in Sensors : loc'[u].sample \notin SamplesIn(data[r])
               /\ main \in FlushLabels \/ loc'[u].data # dataList
                    => samples'[loc'[u].sample].racing
               /\ \A v \in Threads \ {u} : At(v, "store")' => loc'[v].sample # loc'[u].sample
    <3>1. CASE u = t
      BY <1>1, <1>3, <1>6, <1>7, <3>1
    <3>2. CASE u # t
      <4>1. At(u, "store") /\ loc'[u].sample = loc[u].sample /\ loc'[u].data = loc[u].data
            /\ loc[u].sample \in SampleIds /\ samples'[loc[u].sample] = samples[loc[u].sample]
        BY <1>1, <1>6, <1>7, <2>1, <3>2
      <4>2. loc'[t].sample # loc'[u].sample
        BY <1>3, <1>6, <4>1
      <4> QED
        BY <1>7, <2>1, <3>2, <4>1, <4>2 DEF ReportInv, HeldInv
    <3> QED
      BY <3>1, <3>2
  <2> QED
    BY <1>4, <1>8, <2>1 DEF HeldInv, SamplesIn, FlushLabels
<1>11. ReportedOnce'
  BY <1>4 DEF ReportInv, ReportedOnce
<1>12. QuietSamplesKept'
  <2>1. ASSUME NEW i \in SampleIds'
        PROVE  \/ samples'[i].racing
               \/ \E u \in Threads : At(u, "store")' /\ loc'[u].sample = i
               \/ \E r \in Sensors : i \in SamplesIn(data[r])
               \/ \E x \in reported : x.sample = i
    <3>1. CASE i = n
      BY <1>2, <1>3, <3>1 DEF At
    <3>2. CASE i \in SampleIds
      <4>1. \A u \in Threads : At(u, "store") => At(u, "store")' /\ loc'[u].sample = loc[u].sample
        BY <1>2, <1>7 DEF At
      <4> QED
        BY <1>6, <3>2, <4>1 DEF ReportInv, QuietSamplesKept
    <3> QED
      BY <1>6, <2>1, <3>1, <3>2
  <2> QED
    BY <1>4, <2>1 DEF QuietSamplesKept, SamplesIn
<1> QED
  BY <1>9, <1>10, <1>11, <1>12 DEF ReportInv

LEMMA StoreReports ==
  ASSUME TypeInv, ReportInv, NEW t \in Threads, Store(t)
  PROVE  ReportInv'
<1> DEFINE n == loc[t].sample
           to == SensorOf(t)
<1>1. n \in SampleIds /\ to \in Sensors /\ samples[n].sensor = to /\ At(t, "store")
  BY ListedFacts DEF Store, SensorOf, SampleOf
<1>2. /\ pc'[t] # "store" /\ loc' = loc /\ samples' = samples
      /\ \A u \in Threads \ {t} : pc'[u] = pc[u]
  BY DEF Store, Goto, TypeInv, HoldingInv, historyVars
<1>3. UNCHANGED <<dataList, reported, main, nextList>>
  BY DEF Store
<1>4. /\ \A s \in Sensors : data[s] \in Seq(SampleIds)
      /\ \A s \in Sensors \ {to} : data'[s] = data[s]
      /\ IF loc[t].data = dataList THEN data'[to] = Append(data[to], n) ELSE data' = data
  BY <1>1 DEF Store, TypeInv, ListsInv
<1> HIDE DEF n, to
<1>5. /\ ~IsReported(n)
      /\ main \in FlushLabels \/ loc[t].data # dataList => samples[n].racing
      /\ \A u \in Threads \ {t} : At(u, "store") => loc[u].sample # n
  BY <1>1 DEF n, ReportInv, HeldInv
<1>6. ASSUME NEW s \in Sensors
      PROVE  SamplesIn(data'[s]) = IF s = to /\ loc[t].data = dataList
                                     THEN SamplesIn(data[s]) \cup {n} ELSE SamplesIn(data[s])
  <2>1. CASE s = to /\ loc[t].data = dataList
    <3>1. SamplesIn(Append(data[to], n)) = SamplesIn(data[to]) \cup {n}
      BY <1>1, <1>4, AppendIn
    <3> QED
      BY <1>4, <2>1, <3>1
  <2>2. CASE ~(s = to /\ loc[t].data = dataList)
    BY <1>4, <2>2
  <2> QED
    BY <2>1, <2>2
<1>7. /\ \A i : IsReported(i)' <=> IsReported(i)
      /\ \A s : Unread(s)' <=> Unread(s)
  BY <1>3 DEF IsReported, Unread, FlushLabels
<1>8. ListedInv'
  <2>1. ASSUME NEW s \in Sensors, NEW i \in SamplesIn(data'[s])
        PROVE  /\ samples[i].sensor = s
               /\ IF Unread(s) THEN ~IsReported(i) ELSE IsReported(i) \/ samples[i].racing
    <3>1. CASE i \in SamplesIn(data[s])
      BY <3>1 DEF ReportInv, ListedInv
    <3>2. CASE i = n /\ s = to
      <4>1. ~Unread(s) => main \in FlushLabels
        BY DEF Unread
      <4> QED
        BY <1>1, <1>5, <3>2, <4>1
    <3> QED
      BY <1>6, <2>1, <3>1, <3>2
  <2>2. \A s : SamplesIn(data[s])' = SamplesIn(data'[s])
    BY DEF SamplesIn
  <2> QED
    BY <1>2, <1>7, <2>1, <2>2 DEF ListedInv
<1>9. HeldInv'
  <2>1. ASSUME NEW u \in Threads, At(u, "store")'
        PROVE  /\ ~IsReported(loc[u].sample)
               /\ \A s \in Sensors : loc[u].sample \notin SamplesIn(data'[s])
               /\ main \in FlushLabels \/ loc[u].data # dataList
                    => samples[loc[u].sample].racing
               /\ \A v \in Threads \ {u} : At(v, "store")' => loc[v].sample # loc[u].sample
    <3>1. u # t /\ At(u, "store") /\ \A v \in Threads : At(v, "store")' => At(v, "store")
      BY <1>1, <1>2, <2>1 DEF At
    <3> QED
      BY <1>5, <1>6, <3>1 DEF ReportInv, HeldInv
  <2>2. \A s : SamplesIn(data[s])' = SamplesIn(data'[s])
    BY DEF SamplesIn
  <2> QED
    BY <1>2, <1>3, <1>7, <2>1, <2>2 DEF HeldInv, FlushLabels
<1>10. ReportedOnce'
  BY <1>3 DEF ReportInv, ReportedOnce
<1>11. QuietSamplesKept'
  <2>1. ASSUME NEW i \in SampleIds
        PROVE  \/ samples[i].racing
               \/ \E u \in Threads : At(u, "store")' /\ loc[u].sample = i
               \/ \E s \in Sensors : i \in SamplesIn(data'[s])
               \/ \E x \in reported : x.sample = i
    <3>1. CASE i = n
      BY <1>1, <1>5, <1>6, <3>1
    <3>2. CASE i # n
      <4>1. \A u \in Threads : At(u, "store") /\ loc[u].sample = i => At(u, "store")'
        BY <1>2, <3>2 DEF At, n
      <4>2. \A s \in Sensors : i \in SamplesIn(data[s]) => i \in SamplesIn(data'[s])
        BY <1>6
      <4> QED
        BY <4>1, <4>2 DEF ReportInv, QuietSamplesKept
    <3> QED
      BY <3>1, <3>2
  <2>2. \A s : SamplesIn(data[s])' = SamplesIn(data'[s])
    BY DEF SamplesIn
  <2> QED
    BY <1>2, <1>3, <2>1, <2>2 DEF QuietSamplesKept, SampleIds
<1> QED
  BY <1>8, <1>9, <1>10, <1>11 DEF ReportInv

LEMMA StartReports ==
  ASSUME TypeInv, ReportInv, StartFlush
  PROVE  ReportInv'
<1>1. UNCHANGED <<pc, loc, data, dataList, reported>> /\ main \notin FlushLabels
      /\ main' = "read" /\ nextList' = 1
  BY DEF StartFlush, FlushLabels
<1>2. \A s \in Sensors : Unread(s) /\ Unread(s)'
  <2>1. \A s \in Sensors : \E j \in 1 .. Len(SensorOrder) : SensorOrder[j] = s
    BY AdapterAssumption
  <2> QED
    BY <1>1, <2>1 DEF Unread
<1>3. /\ SampleIds' = SampleIds
      /\ \A i \in SampleIds : /\ samples'[i].sensor = samples[i].sensor
                              /\ samples[i].racing => samples'[i].racing
                              /\ \A t \in Threads : At(t, "store") /\ loc[t].sample = i
                                                      => samples'[i].racing
  <2> DEFINE Met(i) == \E t \in Threads : At(t, "store") /\ loc[t].sample = i
  <2>1. samples' = [i \in SampleIds |-> [samples[i] EXCEPT !.racing = @ \/ Met(i)]]
    BY DEF StartFlush
  <2>2. \A i \in SampleIds : samples[i] \in Sample
    BY ListedFacts
  <2>3. \A i \in SampleIds, t \in Threads : At(t, "store") /\ loc[t].sample = i => Met(i)
    OBVIOUS
  <2>4. ASSUME NEW i \in SampleIds
        PROVE  /\ samples'[i].sensor = samples[i].sensor
               /\ samples[i].racing \/ Met(i) => samples'[i].racing
    <3>1. samples'[i] = [samples[i] EXCEPT !.racing = @ \/ Met(i)] /\ samples[i] \in Sample
      BY <2>1, <2>2
    <3> HIDE DEF Met
    <3> QED
      BY <3>1 DEF Sample
  <2>5. DOMAIN samples' = SampleIds
    BY <2>1
  <2> HIDE DEF Met
  <2> QED
    BY <2>3, <2>4, <2>5 DEF SampleIds
<1>4. /\ \A s \in Sensors : SamplesIn(data[s]) \subseteq SampleIds
      /\ \A t \in Threads : At(t, "store") => loc[t].sample \in SampleIds
  BY ListedFacts
<1>5. \A i : IsReported(i)' <=> IsReported(i)
  BY <1>1 DEF IsReported
<1>6. ListedInv'
  <2>1. ASSUME NEW s \in Sensors, NEW i \in SamplesIn(data[s])
        PROVE  samples'[i].sensor = s /\ ~IsReported(i)
    BY <1>2, <1>3, <1>4, <2>1 DEF ReportInv, ListedInv
  <2> QED
    BY <1>1, <1>2, <1>5, <2>1 DEF ListedInv, SamplesIn
<1>7. HeldInv'
  <2>1. ASSUME NEW t \in Threads, At(t, "store")
        PROVE  /\ ~IsReported(loc[t].sample)
               /\ \A s \in Sensors : loc[t].sample \notin SamplesIn(data[s])
               /\ samples'[loc[t].sample].racing
               /\ \A u \in Threads \ {t} : At(u, "store") => loc[u].sample # loc[t].sample
    BY <1>3, <1>4, <2>1 DEF ReportInv, HeldInv
  <2> QED
    BY <1>1, <1>5, <2>1 DEF HeldInv, SamplesIn, At
<1>8. ReportedOnce'
  BY <1>1 DEF ReportInv, ReportedOnce
<1>9. QuietSamplesKept'
  <2>1. ASSUME NEW i \in SampleIds
        PROVE  \/ samples'[i].racing
               \/ \E t \in Threads : At(t, "store") /\ loc[t].sample = i
               \/ \E s \in Sensors : i \in SamplesIn(data[s])
               \/ \E x \in reported : x.sample = i
    BY <1>3, <2>1 DEF ReportInv, QuietSamplesKept
  <2> QED
    BY <1>1, <1>3, <2>1 DEF QuietSamplesKept, SamplesIn, At
<1> QED
  BY <1>6, <1>7, <1>8, <1>9 DEF ReportInv

LEMMA FlushReports ==
  ASSUME TypeInv, ReportInv, FlushSensor
  PROVE  ReportInv'
<1>1. PICK r \in Sensors : r = SensorOrder[nextList]
  BY AdapterAssumption DEF TypeInv, CountersInv
<1> DEFINE Record(i) == [sample |-> i, session |-> session, flush |-> flushes]
<1>2. UNCHANGED <<pc, loc, data, dataList, samples>> /\ main = "read"
  BY DEF FlushSensor, historyVars
<1>3. nextList \in 1 .. Len(SensorOrder) /\ Len(SensorOrder) \in Nat
      /\ \A i, j \in 1 .. Len(SensorOrder) : SensorOrder[i] = SensorOrder[j] => i = j
  BY AdapterAssumption, SMTT(30) DEF TypeInv, CountersInv
<1>4. /\ main' \in {"read", "pop"}
      /\ IF nextList < Len(SensorOrder) THEN nextList' = nextList + 1 /\ main' = "read"
                                        ELSE main' = "pop"
  BY <1>2 DEF FlushSensor
<1>5. reported' = reported \cup {Record(i) : i \in SamplesIn(data[r])}
  BY <1>1 DEF FlushSensor
<1>6. ASSUME NEW s \in Sensors
      PROVE  /\ Unread(r) /\ ~Unread(r)'
             /\ s # r => (Unread(s)' <=> Unread(s))
  <2>1. Unread(r)
    BY <1>1, <1>2, <1>3 DEF Unread
  <2>2. \A j \in 1 .. Len(SensorOrder) : SensorOrder[j] = r => j = nextList
    BY <1>1, <1>3
  <2>3. CASE nextList < Len(SensorOrder)
    <3>1. main' = "read" /\ nextList' = nextList + 1
      BY <1>4, <2>3
    <3>2. \A j : j \in nextList .. Len(SensorOrder) <=>
                  j = nextList \/ j \in (nextList + 1) .. Len(SensorOrder)
      BY <1>3
    <3>3. \A j \in (nextList + 1) .. Len(SensorOrder) : SensorOrder[j] # r
      BY <1>3, <2>2
    <3>4. \A q \in Sensors : Unread(q)' <=>
             \E j \in (nextList + 1) .. Len(SensorOrder) : SensorOrder[j] = q
      BY <3>1 DEF Unread, FlushLabels
    <3>5. \A q \in Sensors : Unread(q) <=>
             \E j \in nextList .. Len(SensorOrder) : SensorOrder[j] = q
      BY <1>2 DEF Unread, FlushLabels
    <3> QED
      BY <1>1, <2>1, <3>2, <3>3, <3>4, <3>5
  <2>4. CASE ~(nextList < Len(SensorOrder))
    <3>1. nextList = Len(SensorOrder) /\ main' = "pop"
      BY <1>3, <1>4, <2>4
    <3>2. s # r => ~Unread(s)
      BY <1>1, <1>2, <1>3, <3>1 DEF Unread, FlushLabels
    <3>3. ~Unread(s)' /\ ~Unread(r)'
      BY <3>1 DEF Unread, FlushLabels
    <3> QED
      BY <2>1, <3>2, <3>3
  <2> QED
    BY <2>3, <2>4
<1>7. \A i : (\E x \in reported' : x.sample = i) <=> IsReported(i) \/ i \in SamplesIn(data[r])
  <2>1. \A i : Record(i).sample = i
    OBVIOUS
  <2> HIDE DEF Record
  <2> QED
    BY <1>5, <2>1 DEF IsReported
<1>8. \A i \in SamplesIn(data[r]) : ~IsReported(i) /\ samples[i].sensor = r
  BY <1>3, <1>6 DEF ReportInv, ListedInv
<1>9. (main \in FlushLabels)' /\ main \in FlushLabels
  BY <1>2, <1>4 DEF FlushLabels
<1>10. ListedInv'
  <2>1. ASSUME NEW s \in Sensors, NEW i \in SamplesIn(data[s])
        PROVE  /\ samples[i].sensor = s
               /\ IF Unread(s)' THEN ~IsReported(i)' ELSE IsReported(i)' \/ samples[i].racing
    <3>1. /\ samples[i].sensor = s
          /\ IF Unread(s) THEN ~IsReported(i) ELSE IsReported(i) \/ samples[i].racing
      BY <2>1 DEF ReportInv, ListedInv
    <3>2. IsReported(i)' <=> IsReported(i) \/ i \in SamplesIn(data[r])
      BY <1>7 DEF IsReported
    <3> QED
      BY <1>6, <1>8, <2>1, <3>1, <3>2
  <2> QED
    BY <1>2, <2>1 DEF ListedInv, SamplesIn
<1>11. HeldInv'
  <2>1. ASSUME NEW t \in Threads, At(t, "store")
        PROVE  /\ ~\E x \in reported' : x.sample = loc[t].sample
               /\ \A s \in Sensors : loc[t].sample \notin SamplesIn(data[s])
               /\ samples[loc[t].sample].racing
               /\ \A u \in Threads \ {t} : At(u, "store") => loc[u].sample # loc[t].sample
    BY <1>1, <1>7, <1>9, <2>1 DEF ReportInv, HeldInv
  <2> QED
    BY <1>2, <2>1 DEF HeldInv, SamplesIn, At, IsReported
<1>12. ReportedOnce'
  <2>1. ASSUME NEW x \in reported', NEW y \in reported', x.sample = y.sample
        PROVE  x = y
    <3>1. \A z \in reported : IsReported(z.sample)
      BY DEF IsReported
    <3>2. \A z \in reported' : \/ z \in reported
                               \/ z.sample \in SamplesIn(data[r]) /\ z = Record(z.sample)
      BY <1>5
    <3> HIDE DEF Record
    <3>3. CASE x \in reported /\ y \in reported
      BY <2>1, <3>3 DEF ReportInv, ReportedOnce
    <3> QED
      BY <1>8, <2>1, <3>1, <3>2, <3>3
  <2> QED
    BY <2>1 DEF ReportedOnce
<1>13. QuietSamplesKept'
  <2>1. reported \subseteq reported'
    BY <1>5
  <2>2. ASSUME NEW i \in SampleIds
        PROVE  \/ samples[i].racing
               \/ \E t \in Threads : At(t, "store") /\ loc[t].sample = i
               \/ \E s \in Sensors : i \in SamplesIn(data[s])
               \/ \E x \in reported' : x.sample = i
    BY <2>1, <2>2 DEF ReportInv, QuietSamplesKept
  <2> QED
    BY <1>2, <2>2 DEF QuietSamplesKept, SamplesIn, At, SampleIds
<1> QED
  BY <1>10, <1>11, <1>12, <1>13 DEF ReportInv

LEMMA ClearReports ==
  ASSUME TypeInv, ReportInv, ClearData
  PROVE  ReportInv'
<1>1. UNCHANGED <<pc, loc, reported, samples>> /\ main = "clearData"
      /\ dataList' = dataList + 1 /\ data' = [s \in Sensors |-> <<>>]
  BY DEF ClearData, Elsewhere, historyVars
<1>2. main \in FlushLabels /\ \A s : ~Unread(s)
  BY <1>1 DEF FlushLabels, Unread
<1>3. \A s \in Sensors : SamplesIn(data[s])' = {}
  BY <1>1 DEF SamplesIn
<1>4. ListedInv'
  BY <1>3 DEF ListedInv
<1>5. HeldInv'
  <2>1. ASSUME NEW t \in Threads, At(t, "store")
        PROVE  /\ ~IsReported(loc[t].sample)
               /\ samples[loc[t].sample].racing
               /\ \A u \in Threads \ {t} : At(u, "store") => loc[u].sample # loc[t].sample
    BY <1>2, <2>1 DEF ReportInv, HeldInv
  <2>2. \A s \in Sensors : SamplesIn(data'[s]) = {}
    BY <1>1 DEF SamplesIn
  <2> QED
    BY <1>1, <2>1, <2>2 DEF HeldInv, At, IsReported, SamplesIn
<1>6. ReportedOnce'
  BY <1>1 DEF ReportInv, ReportedOnce
<1>7. QuietSamplesKept'
  <2>1. ASSUME NEW i \in SampleIds
        PROVE  \/ samples[i].racing
               \/ \E t \in Threads : At(t, "store") /\ loc[t].sample = i
               \/ \E x \in reported : x.sample = i
    <3>1. \A s \in Sensors : i \in SamplesIn(data[s]) => IsReported(i) \/ samples[i].racing
      BY <1>2 DEF ReportInv, ListedInv
    <3> QED
      BY <2>1, <3>1 DEF ReportInv, QuietSamplesKept, IsReported
  <2> QED
    BY <1>1, <2>1 DEF QuietSamplesKept, At, SampleIds
<1> QED
  BY <1>4, <1>5, <1>6, <1>7 DEF ReportInv

(* A sample becomes one record at most, and is lost only when a flush      *)
(* passed its callback between the lookup of the list and the append       *)
(* (_flush_sensor_records).                                                *)
THEOREM SamplesReportedOnce == Spec => []EachSampleReported
<1>1. Init => ReportInv
  BY DEF Init, CaptureInit, ReportInv, ListedInv, HeldInv, ReportedOnce, QuietSamplesKept,
         SamplesIn, At, SampleIds
<1>2. ASSUME TypeInv, ReportInv, [Next]_vars
      PROVE  ReportInv'
  <2>1. CASE EventLoop \/ Tick \/ UNCHANGED vars
    BY <1>2, <2>1, LoopAside, AsideReports, StartReports, FlushReports, ClearReports
       DEF EventLoop
  <2>2. ASSUME NEW t \in Threads,
               Store(t) \/ (\E s \in Sensors : OnSample(t, s)) \/ InCapture(t)
        PROVE  ReportInv'
    <3>1. CASE InCapture(t)
      BY <1>2, <3>1, CaptureAside, AsideReports
    <3>2. CASE Store(t)
      BY <1>2, <3>2, StoreReports
    <3>3. CASE \E s \in Sensors : OnSample(t, s)
      BY <1>2, <3>3, SampleReports
    <3> QED
      BY <2>2, <3>1, <3>2, <3>3
  <2> QED
    BY <1>2, <2>1, <2>2, StepCases DEF InCapture
<1>3. ReportInv => EachSampleReported
  BY DEF ReportInv, EachSampleReported
<1>4. Spec => []TypeInv
  BY TypeCorrect, PTL
<1> QED
  BY <1>1, <1>2, <1>3, <1>4, PTL DEF Spec

-----------------------------------------------------------------------------
(* Order, among the samples of one origin.  o says of which session the    *)
(* sensor of a sample is.                                                  *)
Origins == [i \in SampleIds |-> samples[i].from]

Ordered(o, q) == \A i, j \in DOMAIN q : i < j /\ o[q[i]] = o[q[j]] => q[i] < q[j]
Before(o, p, q) == \A i \in DOMAIN p, j \in DOMAIN q : o[p[i]] = o[q[j]] => p[i] < q[j]
Below(o, q, n) == \A i \in DOMAIN q : o[q[i]] = o[n] => q[i] < n
Foreign(o, q, n) == \A i \in DOMAIN q : o[q[i]] # o[n]
Known(o, q) == \A i \in DOMAIN q : q[i] \in DOMAIN o

InOrder(o, p, q) ==
  Known(o, p) /\ Known(o, q) /\ Ordered(o, p) /\ Ordered(o, q) /\ Before(o, p, q)

(* Sections in which a sample is not in a buffer yet.                      *)
Pending == {"store", "stamp", "check", "insert", "appendPost"}

(* The callbacks of one sensor run one after the other.                    *)
BusyInv ==
  \A t, u \in Threads : t # u /\ pc[t] \in Sampling /\ pc[u] \in Sampling
                          => SensorOf(t) # SensorOf(u) \/ SampleOf(t).from # SampleOf(u).from

(* Outside of a capture the lists of _post_buffer are empty, and those a   *)
(* callback found before are detached.                                     *)
PostInv ==
  /\ \A t \in Threads : loc[t].post <= postList
  /\ ~triggered => /\ \A s \in Sensors : ListOf(post, s) = <<>>
                   /\ \A t \in Threads : At(t, "appendPost") => loc[t].post # postList

ListsInOrder == \A s \in Sensors : InOrder(Origins, ListOf(buffer, s), ListOf(post, s))

(* A sample on its way to a buffer comes after those of its origin that    *)
(* are in one.                                                             *)
Coming(o, b, p, n, inserting) ==
  Below(o, b, n) /\ Below(o, p, n) /\ (inserting => Foreign(o, p, n))

PendingInv ==
  \A t \in Threads : pc[t] \in Pending =>
    Coming(Origins, ListOf(buffer, SensorOf(t)), ListOf(post, SensorOf(t)), loc[t].sample,
           At(t, "insert"))

CopiesInOrder ==
  /\ \A t \in Threads : At(t, "complete") =>
       \A s \in Sensors : InOrder(Origins, loc[t].pre[s], loc[t].tail[s])
  /\ \A k \in DOMAIN sealed : \A s \in Sensors :
       InOrder(Origins, sealed[k].pre[s], sealed[k].tail[s])

OrderInv == BusyInv /\ PostInv /\ ListsInOrder /\ PendingInv /\ CopiesInOrder

(* Samples keep their origins.                                             *)
Extends(o, e) == DOMAIN o \subseteq DOMAIN e /\ \A i \in DOMAIN o : e[i] = o[i]

LEMMA OriginsStay ==
  ASSUME TypeInv, [Next]_vars
  PROVE  Extends(Origins, Origins')
<1>1. SamplesGrow /\ SampleIds \subseteq SampleIds'
  BY StepSamples, IdsGrow DEF TypeInv
<1> QED
  BY <1>1 DEF Extends, Origins, SamplesGrow

LEMMA OrderStays ==
  ASSUME NEW o, NEW e, Extends(o, e), NEW p, NEW q, InOrder(o, p, q)
  PROVE  InOrder(e, p, q)
<1>1. Known(e, p) /\ Known(e, q)
  BY DEF InOrder, Known, Extends
<1>2. Ordered(e, p) /\ Ordered(e, q) /\ Before(e, p, q)
  BY DEF InOrder, Known, Extends, Ordered, Before
<1> QED
  BY <1>1, <1>2 DEF InOrder

LEMMA ComingStays ==
  ASSUME NEW o, NEW e, Extends(o, e), NEW p, NEW q, Known(o, p), Known(o, q),
         NEW n \in DOMAIN o, NEW inserting, Coming(o, p, q, n, inserting)
  PROVE  Coming(e, p, q, n, inserting)
<1>1. Below(e, p, n) /\ Below(e, q, n)
  BY DEF Coming, Below, Known, Extends
<1>2. ASSUME inserting PROVE Foreign(e, q, n)
  BY <1>2 DEF Coming, Foreign, Known, Extends
<1> QED
  BY <1>1, <1>2 DEF Coming

LEMMA AppendOrder ==
  ASSUME NEW o, NEW p \in Seq(Nat), NEW q \in Seq(Nat), NEW n \in Nat, Below(o, q, n)
  PROVE  /\ Ordered(o, q) => Ordered(o, Append(q, n))
         /\ Before(o, p, q) /\ Below(o, p, n) => Before(o, p, Append(q, n))
         /\ Known(o, q) /\ n \in DOMAIN o => Known(o, Append(q, n))
<1> DEFINE r == Append(q, n)
<1>1. r \in Seq(Nat) /\ Len(r) = Len(q) + 1 /\ r[Len(q) + 1] = n
      /\ \A j \in 1 .. Len(q) : r[j] = q[j]
  BY AppendProperties
<1> HIDE DEF r
<1>2. DOMAIN q = 1 .. Len(q) /\ DOMAIN r = 1 .. (Len(q) + 1) /\ Len(q) \in Nat
  BY <1>1
<1>3. \A j \in DOMAIN q : o[q[j]] = o[n] => q[j] < n
  BY DEF Below
<1>4. Ordered(o, q) => Ordered(o, r)
  <2>1. ASSUME Ordered(o, q), NEW i \in DOMAIN r, NEW j \in DOMAIN r, i < j, o[r[i]] = o[r[j]]
        PROVE  r[i] < r[j]
    <3>1. i \in DOMAIN q /\ r[i] = q[i]
      BY <1>1, <1>2, <2>1
    <3>2. CASE j \in DOMAIN q
      BY <1>1, <1>2, <2>1, <3>1, <3>2 DEF Ordered
    <3>3. CASE j \notin DOMAIN q
      <4>1. r[j] = n
        BY <1>1, <1>2, <3>3
      <4> QED
        BY <1>3, <2>1, <3>1, <4>1
    <3> QED
      BY <3>2, <3>3
  <2> QED
    BY <2>1 DEF Ordered
<1>5. Before(o, p, q) /\ Below(o, p, n) => Before(o, p, r)
  <2>1. ASSUME Before(o, p, q), Below(o, p, n), NEW i \in DOMAIN p, NEW j \in DOMAIN r,
               o[p[i]] = o[r[j]]
        PROVE  p[i] < r[j]
    <3>1. CASE j \in DOMAIN q
      BY <1>1, <1>2, <2>1, <3>1 DEF Before
    <3>2. CASE j \notin DOMAIN q
      <4>1. r[j] = n
        BY <1>1, <1>2, <3>2
      <4> QED
        BY <2>1, <4>1 DEF Below
    <3> QED
      BY <3>1, <3>2
  <2> QED
    BY <2>1 DEF Before
<1>6. Known(o, q) /\ n \in DOMAIN o => Known(o, r)
  <2>1. ASSUME NEW j \in DOMAIN r PROVE r[j] = n \/ (j \in DOMAIN q /\ r[j] = q[j])
    BY <1>1, <1>2
  <2> QED
    BY <2>1 DEF Known
<1> QED
  BY <1>4, <1>5, <1>6 DEF r

LEMMA SubSeqElements ==
  ASSUME NEW q \in Seq(Nat), NEW k \in Nat
  PROVE  \A j \in DOMAIN SubSeq(q, 1 + k, Len(q)) :
           j \in Nat /\ j + k \in DOMAIN q /\ SubSeq(q, 1 + k, Len(q))[j] = q[j + k]
<1> DEFINE r == SubSeq(q, 1 + k, Len(q))
<1>1. Len(q) \in Nat /\ r \in Seq(Nat)
      /\ Len(r) = (IF 1 + k <= Len(q) THEN Len(q) - (1 + k) + 1 ELSE 0)
      /\ \A j \in 1 .. Len(r) : r[j] = q[(1 + k) + j - 1]
  BY SubSeqProperties
<1> HIDE DEF r
<1>2. DOMAIN r = 1 .. Len(r) /\ DOMAIN q = 1 .. Len(q) /\ r \in Seq(Nat)
  BY <1>1
<1>3. ASSUME NEW j \in DOMAIN r
      PROVE  j \in Nat /\ j + k \in DOMAIN q /\ r[j] = q[j + k]
  <2>1. j \in 1 .. Len(r) /\ Len(r) \in Nat
    BY <1>2
  <2>2. PICK n \in Nat, m \in Nat : n = Len(r) /\ m = Len(q)
    BY <1>1, <2>1
  <2>3. j \in 1 .. n /\ n = (IF 1 + k <= m THEN m - (1 + k) + 1 ELSE 0)
    BY <1>1, <2>1, <2>2
  <2>4. j \in Nat /\ (1 + k) + j - 1 = j + k /\ j + k \in 1 .. m
    BY <2>3
  <2>5. r[j] = q[(1 + k) + j - 1]
    BY <1>1, <2>1
  <2> QED
    BY <1>2, <2>2, <2>4, <2>5
<1> QED
  BY <1>3 DEF r

LEMMA SubSeqOrder ==
  ASSUME NEW o, NEW p \in Seq(Nat), NEW q \in Seq(Nat), NEW k \in Nat, InOrder(o, q, p)
  PROVE  InOrder(o, SubSeq(q, 1 + k, Len(q)), p)
<1> DEFINE r == SubSeq(q, 1 + k, Len(q))
<1>1. \A j \in DOMAIN r : j \in Nat /\ j + k \in DOMAIN q /\ r[j] = q[j + k]
  BY SubSeqElements
<1> HIDE DEF r
<1>2. Ordered(o, r)
  <2>1. ASSUME NEW i \in DOMAIN r, NEW j \in DOMAIN r, i < j, o[r[i]] = o[r[j]]
        PROVE  r[i] < r[j]
    <3>1. i + k < j + k
      BY <1>1, <2>1
    <3> QED
      BY <1>1, <2>1, <3>1 DEF Ordered, InOrder
  <2> QED
    BY <2>1 DEF Ordered
<1>3. Before(o, r, p) /\ Known(o, r)
  BY <1>1 DEF Before, Known, InOrder
<1>4. InOrder(o, r, p)
  BY <1>2, <1>3 DEF InOrder
<1> QED
  BY <1>4 DEF r

LEMMA ConcatOrder ==
  ASSUME NEW o, NEW p \in Seq(Nat), NEW q \in Seq(Nat), InOrder(o, p, q)
  PROVE  Ordered(o, p \o q) /\ Known(o, p \o q)
<1> DEFINE r == p \o q
<1>1. /\ r \in Seq(Nat) /\ Len(r) = Len(p) + Len(q)
      /\ \A i \in 1 .. Len(r) : r[i] = IF i <= Len(p) THEN p[i] ELSE q[i - Len(p)]
  BY ConcatProperties
<1> HIDE DEF r
<1>2. /\ DOMAIN p = 1 .. Len(p) /\ DOMAIN q = 1 .. Len(q) /\ DOMAIN r = 1 .. Len(r)
      /\ Len(p) \in Nat /\ Len(q) \in Nat
  BY <1>1
<1>3. ASSUME NEW i \in DOMAIN r
      PROVE  \/ i <= Len(p) /\ i \in DOMAIN p /\ r[i] = p[i]
             \/ i > Len(p) /\ i - Len(p) \in DOMAIN q /\ r[i] = q[i - Len(p)]
  <2>1. i \in 1 .. Len(r) /\ Len(r) = Len(p) + Len(q)
    BY <1>1, <1>2
  <2>2. CASE i <= Len(p)
    BY <1>1, <1>2, <2>1, <2>2
  <2>3. CASE ~(i <= Len(p))
    <3>1. i - Len(p) \in 1 .. Len(q) /\ i > Len(p)
      BY <1>2, <2>1, <2>3, SMTT(30)
    <3> QED
      BY <1>1, <1>2, <2>1, <2>3, <3>1
  <2> QED
    BY <2>2, <2>3
<1>4. ASSUME NEW i \in DOMAIN r, NEW j \in DOMAIN r, i < j, o[r[i]] = o[r[j]]
      PROVE  r[i] < r[j]
  <2>1. i \in Nat /\ j \in Nat
    BY <1>1, <1>2
  <2>2. CASE j <= Len(p)
    <3>1. i <= Len(p)
      BY <1>2, <1>4, <2>1, <2>2
    <3>2. i \in DOMAIN p /\ j \in DOMAIN p /\ r[i] = p[i] /\ r[j] = p[j]
      BY <1>2, <1>3, <2>1, <2>2, <3>1
    <3> QED
      BY <1>4, <3>2 DEF InOrder, Ordered
  <2>3. CASE i > Len(p)
    <3>1. j > Len(p)
      BY <1>2, <1>4, <2>1, <2>3
    <3>2. /\ i - Len(p) \in DOMAIN q /\ j - Len(p) \in DOMAIN q
          /\ r[i] = q[i - Len(p)] /\ r[j] = q[j - Len(p)]
      BY <1>2, <1>3, <2>1, <2>3, <3>1
    <3>3. i - Len(p) < j - Len(p)
      BY <1>2, <1>4, <2>1
    <3> QED
      BY <1>4, <3>2, <3>3 DEF InOrder, Ordered
  <2>4. CASE i <= Len(p) /\ j > Len(p)
    <3>1. i \in DOMAIN p /\ j - Len(p) \in DOMAIN q /\ r[i] = p[i] /\ r[j] = q[j - Len(p)]
      BY <1>2, <1>3, <2>1, <2>4
    <3> QED
      BY <1>4, <3>1 DEF InOrder, Before
  <2> QED
    BY <1>2, <2>1, <2>2, <2>3, <2>4
<1>5. Ordered(o, r)
  BY <1>4 DEF Ordered
<1>6. Known(o, r)
  BY <1>3 DEF InOrder, Known
<1> QED
  BY <1>5, <1>6 DEF r

LEMMA EmptyOrder ==
  ASSUME NEW o, NEW q, NEW n
  PROVE  /\ Below(o, <<>>, n) /\ Foreign(o, <<>>, n) /\ InOrder(o, <<>>, <<>>)
         /\ Ordered(o, q) /\ Known(o, q) => InOrder(o, q, <<>>)
         /\ /\ Ordered(o, q) /\ Known(o, q) /\ Foreign(o, q, n) /\ n \in DOMAIN o
            => InOrder(o, <<n>>, q)
<1>1. DOMAIN <<>> = {} /\ DOMAIN <<n>> = {1} /\ <<n>>[1] = n
  OBVIOUS
<1>2. Ordered(o, <<n>>) /\ Ordered(o, <<>>) /\ Known(o, <<>>) /\ (n \in DOMAIN o => Known(o, <<n>>))
  BY <1>1 DEF Ordered, Known
<1>3. Foreign(o, q, n) => Before(o, <<n>>, q)
  BY <1>1 DEF Foreign, Before
<1>4. Before(o, q, <<>>) /\ Before(o, <<>>, <<>>)
  BY <1>1 DEF Before
<1> QED
  BY <1>1, <1>2, <1>3, <1>4 DEF Below, Foreign, InOrder

(* What another callback of the same name appends, or evicts, is no matter *)
(* of a sample on its way.                                                 *)
LEMMA OthersAppend ==
  ASSUME NEW o, NEW q \in Seq(Nat), NEW m \in Nat, NEW k \in Nat, NEW n, o[m] # o[n]
  PROVE  /\ Below(o, q, n) => /\ Below(o, Append(q, m), n)
                              /\ Below(o, SubSeq(q, 1 + k, Len(q)), n)
         /\ Below(o, <<m>>, n)
         /\ Foreign(o, q, n) => Foreign(o, Append(q, m), n)
<1>1. ASSUME NEW j \in DOMAIN Append(q, m)
      PROVE  Append(q, m)[j] = m \/ (j \in DOMAIN q /\ Append(q, m)[j] = q[j])
  <2> DEFINE r == Append(q, m)
  <2>1. r \in Seq(Nat) /\ Len(r) = Len(q) + 1 /\ r[Len(q) + 1] = m /\ Len(q) \in Nat
        /\ \A i \in 1 .. Len(q) : r[i] = q[i]
    BY AppendProperties
  <2> HIDE DEF r
  <2>2. DOMAIN q = 1 .. Len(q) /\ DOMAIN r = 1 .. (Len(q) + 1) /\ j \in DOMAIN r
    BY <1>1, <2>1 DEF r
  <2>3. r[j] = m \/ (j \in DOMAIN q /\ r[j] = q[j])
    BY <2>1, <2>2
  <2> QED
    BY <2>3 DEF r
<1>2. DOMAIN <<m>> = {1} /\ <<m>>[1] = m
  OBVIOUS
<1>3. Below(o, q, n) => Below(o, Append(q, m), n)
  BY <1>1 DEF Below
<1>4. Below(o, q, n) => Below(o, SubSeq(q, 1 + k, Len(q)), n)
  BY SubSeqElements DEF Below
<1>5. Foreign(o, q, n) => Foreign(o, Append(q, m), n)
  BY <1>1 DEF Foreign
<1>6. Below(o, <<m>>, n)
  BY <1>2 DEF Below
<1> QED
  BY <1>3, <1>4, <1>5, <1>6

(* How the sections of a callback follow each other.                       *)
LEMMA CallbackSections ==
  ASSUME TypeInv, NEW t \in Threads, Store(t) \/ OnCollision(t) \/ CaptureStep(t)
  PROVE  /\ pc'[t] \in Sampling => pc[t] \in Sampling /\ loc'[t].sample = loc[t].sample
         /\ pc'[t] \in Pending => pc[t] \in Pending
         /\ pc'[t] = "insert" => ~triggered /\ UNCHANGED <<buffer, post>>
         /\ pc'[t] = "appendPost" => triggered
         /\ pc'[t] = "complete" => ReadBuffers(t)
<1>1. OneThread(t) /\ pc \in [Threads -> Labels]
  BY CallbackMoves DEF TypeInv, HoldingInv
<1>2. \A l : Goto(t, l) => pc'[t] = l
  BY <1>1 DEF Goto
<1>3. CASE Store(t) \/ Stamp(t) \/ NeedDeque(t) \/ FindPostList(t)
  <2>1. pc[t] \in Pending /\ pc[t] \in Sampling /\ pc'[t] \in Pending
        /\ (pc'[t] = "insert" => NeedDeque(t)) /\ (pc'[t] = "appendPost" => FindPostList(t))
        /\ pc'[t] \notin {"idle", "arm", "store", "complete"}
    BY <1>2, <1>3 DEF Store, Stamp, NeedDeque, FindPostList, At, Pending, Sampling, Labels
  <2>2. loc'[t].sample = loc[t].sample
    BY <1>1, <2>1 DEF OneThread, Moves, Pending, Sampling
  <2> QED
    BY <2>1, <2>2 DEF NeedDeque, FindPostList, captureVars
<1>4. CASE OnCollision(t)
  <2>1. pc'[t] \in {"idle", "arm"}
    BY <1>1, <1>2, <1>4 DEF OnCollision, Trigger, At
  <2> QED
    BY <2>1 DEF Sampling, Pending
<1>5. CASE Evict(t) \/ ReadFails(t) \/ Reset(t) \/ Arm(t)
  <2>1. pc'[t] = "idle"
    BY <1>2, <1>5 DEF Evict, ReadFails, Reset, Arm, Return
  <2> QED
    BY <2>1 DEF Sampling, Pending
<1>6. CASE \/ AppendToBuffer(t) \/ InsertDeque(t) \/ AppendToPost(t) \/ FinalizeOrReturn(t)
           \/ StartFinalize(t) \/ ReadBuffers(t) \/ Complete(t)
  <2>1. pc[t] \in Sampling /\ pc'[t] \in {"evict", "due", "finalize", "idle", "read",
                                          "complete", "reset"}
        /\ (pc'[t] = "complete" => ReadBuffers(t))
    BY <1>2, <1>6 DEF AppendToBuffer, InsertDeque, AppendToPost, FinalizeOrReturn, Return,
       StartFinalize, ReadBuffers, Complete, At, Sampling, Labels
  <2>2. pc'[t] \in Sampling => loc'[t].sample = loc[t].sample
    BY <1>1, <2>1 DEF OneThread, Moves, Sampling
  <2> QED
    BY <2>1, <2>2 DEF Pending
<1> QED
  BY <1>3, <1>4, <1>5, <1>6 DEF CaptureStep

SameLists(s) == ListOf(buffer', s) = ListOf(buffer, s) /\ ListOf(post', s) = ListOf(post, s)

(* What a callback does to the lists of its own sensor.                    *)
OwnLists(t) ==
  LET s == SensorOf(t)
      i == loc[t].sample
  IN \/ /\ At(t, "check") /\ ~triggered
        /\ ListOf(buffer', s) = Append(ListOf(buffer, s), i)
        /\ ListOf(post', s) = ListOf(post, s)
     \/ /\ At(t, "insert")
        /\ ListOf(buffer', s) = <<i>> /\ ListOf(post', s) = ListOf(post, s)
     \/ /\ \E k \in Nat : ListOf(buffer', s) =
                            SubSeq(ListOf(buffer, s), 1 + k, Len(ListOf(buffer, s)))
        /\ ListOf(post', s) = ListOf(post, s)
     \/ /\ At(t, "appendPost") /\ loc[t].post = postList
        /\ ListOf(buffer', s) = ListOf(buffer, s)
        /\ ListOf(post', s) = Append(ListOf(post, s), i)

ListsStep ==
  \/ (\A s \in Sensors : SameLists(s))
  \/ /\ \A s \in Sensors : ListOf(post', s) = <<>>
     /\ \A s \in Sensors : ListOf(buffer', s) \in {<<>>, ListOf(buffer, s)}
     /\ \E t \in Threads : (Reset(t) \/ Arm(t))
  \/ \E t \in Threads : /\ pc[t] \in Sampling /\ pc'[t] \notin Pending /\ CaptureStep(t)
                        /\ \A s \in Sensors \ {SensorOf(t)} : SameLists(s)
                        /\ OwnLists(t)

LEMMA OwnSteps ==
  ASSUME TypeInv, NEW t \in Threads,
         AppendToBuffer(t) \/ InsertDeque(t) \/ Evict(t) \/ AppendToPost(t)
  PROVE  \/ (\A s \in Sensors : SameLists(s))
         \/ /\ \A s \in Sensors \ {SensorOf(t)} : SameLists(s)
            /\ OwnLists(t)
<1> DEFINE r == SensorOf(t)
           i == loc[t].sample
<1>1. CASE AppendToBuffer(t)
  <2>1. r \in DOMAIN buffer /\ buffer' = [buffer EXCEPT ![r] = Append(@, i)] /\ post' = post
        /\ At(t, "check") /\ ~triggered
    BY <1>1 DEF AppendToBuffer
  <2> HIDE DEF r, i
  <2>2. ListOf(buffer', r) = Append(ListOf(buffer, r), i) /\ ListOf(post', r) = ListOf(post, r)
    BY <2>1 DEF ListOf
  <2>3. \A s \in Sensors \ {r} : SameLists(s)
    BY <2>1 DEF ListOf, SameLists
  <2> QED
    BY <2>1, <2>2, <2>3 DEF OwnLists, r, i
<1>2. CASE InsertDeque(t)
  <2>1. buffer' = With(buffer, r, <<i>>) /\ post' = post /\ At(t, "insert")
    BY <1>2 DEF InsertDeque
  <2> HIDE DEF r, i
  <2>2. ListOf(buffer', r) = <<i>> /\ ListOf(post', r) = ListOf(post, r)
    BY <2>1 DEF ListOf, With
  <2>3. \A s \in Sensors \ {r} : SameLists(s)
    BY <2>1 DEF ListOf, With, SameLists
  <2> QED
    BY <2>1, <2>2, <2>3 DEF OwnLists, r, i
<1>3. CASE Evict(t)
  <2> DEFINE old == Expired(ListOf(buffer, r), SampleOf(t).time - PreSeconds)
  <2>1. /\ post' = post
        /\ buffer' = IF r \notin DOMAIN buffer THEN buffer
                     ELSE [buffer EXCEPT ![r] = SubSeq(@, 1 + Cardinality(old), Len(@))]
    BY <1>3 DEF Evict
  <2>2. CASE r \notin DOMAIN buffer
    BY <2>1, <2>2 DEF SameLists
  <2>3. CASE r \in DOMAIN buffer
    <3>1. Cardinality(old) \in Nat
      <4>1. ListOf(buffer, r) \in Seq(Nat)
        BY ListTypes
      <4>2. old \subseteq 1 .. Len(ListOf(buffer, r)) /\ Len(ListOf(buffer, r)) \in Nat
        BY <4>1 DEF Expired
      <4> HIDE DEF old
      <4>3. IsFiniteSet(1 .. Len(ListOf(buffer, r)))
        BY <4>2, FS_Interval
      <4>4. IsFiniteSet(old)
        BY <4>2, <4>3, FS_Subset
      <4> QED
        BY <4>4, FS_CardinalityType
    <3> HIDE DEF old, r, i
    <3>2. ListOf(buffer', r) = SubSeq(ListOf(buffer, r), 1 + Cardinality(old),
                                      Len(ListOf(buffer, r)))
      BY <2>1, <2>3 DEF ListOf
    <3>3. ListOf(post', r) = ListOf(post, r) /\ \A s \in Sensors \ {r} : SameLists(s)
      BY <2>1, <2>3 DEF ListOf, SameLists
    <3> QED
      BY <3>1, <3>2, <3>3 DEF OwnLists, r, i
  <2> QED
    BY <2>2, <2>3
<1>4. CASE AppendToPost(t)
  <2>1. /\ buffer' = buffer /\ At(t, "appendPost")
        /\ post' = IF loc[t].post = postList THEN [post EXCEPT ![r] = Append(@, i)] ELSE post
    BY <1>4 DEF AppendToPost
  <2> HIDE DEF r, i
  <2>2. CASE ~(loc[t].post = postList /\ r \in DOMAIN post)
    <3>1. DOMAIN post' = DOMAIN post /\ \A s \in DOMAIN post : post'[s] = post[s]
      BY <2>1, <2>2
    <3> QED
      BY <2>1, <3>1 DEF SameLists, ListOf
  <2>3. CASE loc[t].post = postList /\ r \in DOMAIN post
    <3>1. ListOf(post', r) = Append(ListOf(post, r), i) /\ ListOf(buffer', r) = ListOf(buffer, r)
      BY <2>1, <2>3 DEF ListOf
    <3>2. \A s \in Sensors \ {r} : SameLists(s)
      BY <2>1, <2>3 DEF ListOf, SameLists
    <3> QED
      BY <2>1, <2>3, <3>1, <3>2 DEF OwnLists, r, i
  <2> QED
    BY <2>2, <2>3
<1> QED
  BY <1>1, <1>2, <1>3, <1>4

LEMMA StepOfLists ==
  ASSUME TypeInv, [Next]_vars
  PROVE  ListsStep
<1>1. CASE UNCHANGED <<buffer, post>>
  BY <1>1 DEF ListsStep, SameLists
<1>2. ASSUME NEW t \in Threads, Reset(t) \/ Arm(t)
      PROVE  ListsStep
  <2>1. post' = NoSamples /\ (buffer' = NoSamples \/ buffer' = buffer)
    BY <1>2 DEF Reset, Arm
  <2>2. \A s \in Sensors : ListOf(NoSamples, s) = <<>>
    BY DEF NoSamples, ListOf
  <2> QED
    BY <1>2, <2>1, <2>2 DEF ListsStep
<1>3. ASSUME NEW t \in Threads, FindPostList(t)
      PROVE  ListsStep
  <2>1. buffer' = buffer /\ post' = With(post, SensorOf(t), ListOf(post, SensorOf(t)))
    BY <1>3 DEF FindPostList
  <2>2. \A s \in Sensors : ListOf(post', s) = ListOf(post, s)
    BY <2>1 DEF ListOf, With
  <2> QED
    BY <2>1, <2>2 DEF ListsStep, SameLists
<1>4. ASSUME NEW t \in Threads,
             AppendToBuffer(t) \/ InsertDeque(t) \/ Evict(t) \/ AppendToPost(t)
      PROVE  ListsStep
  <2>1. pc[t] \in Sampling /\ CaptureStep(t)
    BY <1>4 DEF AppendToBuffer, InsertDeque, Evict, AppendToPost, CaptureStep, At, Sampling, Labels
  <2>2. pc'[t] \notin Pending
    BY <1>4 DEF AppendToBuffer, InsertDeque, Evict, AppendToPost, Goto, Pending, TypeInv, HoldingInv
  <2> QED
    BY <1>4, <2>1, <2>2, OwnSteps DEF ListsStep
<1> QED
  BY <1>1, <1>2, <1>3, <1>4, TouchesLists

LEMMA SensorKept ==
  ASSUME TypeInv, [Next]_vars, NEW t \in Threads, pc[t] \in Sampling,
         loc'[t].sample = loc[t].sample
  PROVE  /\ SensorOf(t)' = SensorOf(t) /\ SensorOf(t) \in Sensors
         /\ loc[t].sample \in SampleIds /\ SampleOf(t).from' = SampleOf(t).from
         /\ SampleOf(t).from = Origins[loc[t].sample]
<1>1. loc[t].sample \in SampleIds /\ samples \in Seq(Sample)
  BY DEF TypeInv, HoldingInv
<1>2. /\ samples'[loc[t].sample].sensor = samples[loc[t].sample].sensor
      /\ samples'[loc[t].sample].from = samples[loc[t].sample].from
  BY <1>1, StepSamples DEF SamplesGrow
<1>3. SampleOf(t).from = Origins[loc[t].sample]
  BY <1>1 DEF Origins, SampleOf
<1> QED
  BY <1>1, <1>2, <1>3, SamplesFacts DEF SensorOf, SampleOf, Sample

(* Which sample a thread has after a step: the one it had, or a new one.   *)
Carries(u) == pc[u] \in Sampling /\ loc'[u].sample = loc[u].sample

LEMMA StepCarries ==
  ASSUME TypeInv, [Next]_vars, NEW u \in Threads, pc'[u] \in Sampling
  PROVE  \/ Carries(u)
         \/ \E s \in Sensors : OnSample(u, s)
<1>1. CASE UNCHANGED <<pc, loc>>
  BY <1>1 DEF Carries
<1>2. ASSUME NEW t \in Threads, OneThread(t), u # t
      PROVE  Carries(u)
  BY <1>2 DEF OneThread, Others, Same, Carries
<1>3. ASSUME Store(u) \/ OnCollision(u) \/ CaptureStep(u)
      PROVE  Carries(u)
  BY <1>3, CallbackSections DEF Carries
<1>4. ASSUME NEW t \in Threads,
             \/ Store(t) \/ (\E s \in Sensors : OnSample(t, s)) \/ OnCollision(t)
             \/ CaptureStep(t)
      PROVE  Carries(u) \/ \E s \in Sensors : OnSample(u, s)
  <2>1. CASE t # u
    BY <1>2, <1>4, <2>1, CallbackMoves
  <2>2. CASE t = u
    BY <1>3, <1>4, <2>2
  <2> QED
    BY <2>1, <2>2
<1> QED
  BY <1>1, <1>4, StepCases, LoopKeeps

LEMMA NewSample ==
  ASSUME TypeInv, NEW t \in Threads, NEW s \in Sensors, OnSample(t, s)
  PROVE  /\ SensorOf(t)' = s /\ loc'[t].sample = Len(samples) + 1 /\ Len(samples) \in Nat
         /\ pc'[t] = "store" /\ pc[t] = "idle" /\ UNCHANGED <<buffer, post, postList, triggered>>
         /\ \A u \in Threads \ {t} : pc[u] \in Sampling =>
              SensorOf(u) # s \/ SampleOf(u).from # SampleOf(t).from'
<1>1. samples \in Seq(Sample) /\ Len(samples) \in Nat /\ OneThread(t) /\ pc'[t] = "store"
      /\ pc[t] = "idle"
  <2>1. OneThread(t)
    BY CallbackMoves
  <2> QED
    BY <2>1 DEF OnSample, TypeInv, HoldingInv, Goto, At
<1>2. loc'[t].sample = Len(samples) + 1
  BY <1>1 DEF OneThread, Moves, Sampling
<1>3. PICK k \in Nat : samples' = Append(samples, Taken(s, k)) /\ Taken(s, k) \in Sample
                       /\ ~Busy(s, k)
  BY SampleTaken
<1>4. SensorOf(t)' = s /\ SampleOf(t).from' = k
  <2>1. Taken(s, k).sensor = s /\ Taken(s, k).from = k
    BY DEF Taken
  <2>2. samples'[Len(samples) + 1] = Taken(s, k)
    BY <1>1, <1>3, AppendProperties
  <2> QED
    BY <1>2, <2>1, <2>2 DEF SensorOf, SampleOf
<1>5. \A u \in Threads \ {t} : pc[u] \in Sampling => SensorOf(u) # s \/ SampleOf(u).from # k
  <2>1. ASSUME NEW u \in Threads, pc[u] \in Sampling
        PROVE  ~At(u, "idle") /\ loc[u].sample # 0
    <3>1. loc[u].sample \in SampleIds
      BY <2>1 DEF TypeInv, HoldingInv
    <3> QED
      BY <1>1, <2>1, <3>1, SamplesFacts DEF At, Sampling
  <2> QED
    BY <1>3, <2>1 DEF Busy
<1>6. UNCHANGED <<buffer, post, postList, triggered>>
  BY DEF OnSample, captureVars
<1> QED
  BY <1>1, <1>2, <1>4, <1>5, <1>6

LEMMA StepBusy ==
  ASSUME TypeInv, BusyInv, [Next]_vars
  PROVE  BusyInv'
<1>1. SUFFICES ASSUME NEW t \in Threads, NEW u \in Threads, t # u, pc'[t] \in Sampling,
                      pc'[u] \in Sampling
               PROVE  SensorOf(t)' # SensorOf(u)' \/ SampleOf(t).from' # SampleOf(u).from'
  BY DEF BusyInv
<1>2. CASE Carries(t) /\ Carries(u)
  BY <1>1, <1>2, SensorKept DEF BusyInv, Carries
<1>3. ASSUME NEW x \in Threads, NEW y \in Threads, x # y, Carries(x),
             NEW s \in Sensors, OnSample(y, s)
      PROVE  SensorOf(x)' # SensorOf(y)' \/ SampleOf(x).from' # SampleOf(y).from'
  BY <1>3, NewSample, SensorKept DEF Carries
<1>4. ASSUME NEW r \in Sensors, OnSample(t, r), NEW s \in Sensors, OnSample(u, s)
      PROVE  FALSE
  <2>1. OneThread(t) /\ pc[u] = "idle" /\ pc'[u] = "store"
    BY <1>4, CallbackMoves, NewSample
  <2> QED
    BY <1>1, <2>1 DEF OneThread
<1> QED
  BY <1>1, <1>2, <1>3, <1>4, StepCarries

(* Of the numbers of the lists, only a reset and a trigger change one.     *)
LEMMA TouchesPost ==
  ASSUME [Next]_vars
  PROVE  \/ UNCHANGED postList /\ (UNCHANGED triggered \/ triggered')
         \/ \E t \in Threads : (Reset(t) \/ Arm(t)) /\ postList' = postList + 1
<1>1. CASE EventLoop
  BY <1>1 DEF EventLoop, StartSession, SetupSensors, EndSession, StartFlush, FlushSensor,
              CopyEvents, ClearEvents, SendCam, NoCam, ClearData, Elsewhere, captureVars
<1>2. CASE Tick \/ UNCHANGED vars
  BY <1>2 DEF Tick, vars, captureVars
<1>3. ASSUME NEW t \in Threads, Store(t) \/ \E s \in Sensors : OnSample(t, s)
      PROVE  UNCHANGED <<postList, triggered>>
  BY <1>3 DEF Store, OnSample, captureVars
<1>4. ASSUME NEW t \in Threads, OnCollision(t)
      PROVE  UNCHANGED postList /\ (UNCHANGED triggered \/ triggered')
  BY <1>4 DEF OnCollision, Trigger, captureVars
<1>5. ASSUME NEW t \in Threads, CaptureStep(t)
      PROVE  \/ UNCHANGED <<postList, triggered>>
             \/ (Reset(t) \/ Arm(t)) /\ postList' = postList + 1
  BY <1>5 DEF CaptureStep, Stamp, AppendToBuffer, NeedDeque, InsertDeque, Evict, FindPostList,
     AppendToPost, FinalizeOrReturn, StartFinalize, ReadBuffers, ReadFails, Complete, Reset, Arm,
     captureVars
<1> QED
  BY <1>1, <1>2, <1>3, <1>4, <1>5, StepCases

(* What a step does to a thread: another's step leaves its place alone.    *)
LEMMA StepPlaces ==
  ASSUME TypeInv, [Next]_vars, NEW u \in Threads
  PROVE  /\ loc'[u].post \in {0, loc[u].post, postList}
         /\ \/ pc'[u] = pc[u] /\ loc'[u].post = loc[u].post
               /\ loc'[u].pre = loc[u].pre /\ loc'[u].tail = loc[u].tail
            \/ Store(u) \/ OnCollision(u) \/ CaptureStep(u) \/ (\E s \in Sensors : OnSample(u, s))
<1>1. CASE UNCHANGED <<pc, loc>>
  BY <1>1
<1>2. ASSUME NEW t \in Threads, OneThread(t), u # t
      PROVE  pc'[u] = pc[u] /\ loc'[u].post = loc[u].post
             /\ loc'[u].pre = loc[u].pre /\ loc'[u].tail = loc[u].tail
  BY <1>2 DEF OneThread, Others, Same
<1>3. ASSUME NEW t \in Threads,
             \/ Store(t) \/ (\E s \in Sensors : OnSample(t, s)) \/ OnCollision(t)
             \/ CaptureStep(t)
      PROVE  /\ loc'[u].post \in {0, loc[u].post, postList}
             /\ \/ pc'[u] = pc[u] /\ loc'[u].post = loc[u].post
                   /\ loc'[u].pre = loc[u].pre /\ loc'[u].tail = loc[u].tail
                \/ Store(u) \/ OnCollision(u) \/ CaptureStep(u)
                   \/ (\E s \in Sensors : OnSample(u, s))
  <2>1. OneThread(t)
    BY <1>3, CallbackMoves
  <2>2. CASE t # u
    BY <1>2, <2>1, <2>2
  <2>3. CASE t = u
    BY <1>3, <2>1, <2>3 DEF OneThread
  <2> QED
    BY <2>2, <2>3
<1> QED
  BY <1>1, <1>3, StepCases, LoopKeeps

LEMMA StepPost ==
  ASSUME TypeInv, PostInv, [Next]_vars
  PROVE  PostInv'
<1>1. /\ postList \in Nat /\ loc \in [Threads -> Locals]
      /\ \A t \in Threads : loc[t].post <= postList /\ loc[t].post \in Nat
  BY DEF TypeInv, HoldingInv, CountersInv, PostInv, Locals
<1>2. \A u \in Threads : loc'[u].post <= postList /\ loc'[u].post \in Nat
  BY <1>1, StepPlaces
<1>3. ASSUME NEW t \in Threads, Reset(t) \/ Arm(t), postList' = postList + 1
      PROVE  PostInv'
  <2>1. \A u \in Threads : loc'[u].post <= postList' /\ loc'[u].post # postList'
    BY <1>1, <1>2, <1>3
  <2>2. \A s \in Sensors : ListOf(post', s) = <<>>
    BY <1>3 DEF Reset, Arm, NoSamples, ListOf
  <2> QED
    BY <2>1, <2>2 DEF PostInv, ListOf
<1>4. ASSUME UNCHANGED postList, UNCHANGED triggered \/ triggered'
      PROVE  PostInv'
  <2>1. CASE triggered'
    BY <1>2, <1>4, <2>1 DEF PostInv
  <2>2. CASE ~triggered'
    <3>1. ~triggered /\ (\A s \in Sensors : ListOf(post, s) = <<>>)
          /\ \A t \in Threads : At(t, "appendPost") => loc[t].post # postList
      BY <1>4, <2>2 DEF PostInv
    <3>2. \A s \in Sensors : ListOf(post', s) = <<>>
      <4>1. \A t \in Threads : OwnLists(t) => ListOf(post', SensorOf(t)) = ListOf(post, SensorOf(t))
        BY <3>1 DEF OwnLists
      <4> QED
        BY <3>1, <4>1, StepOfLists DEF ListsStep, SameLists
    <3>3. ASSUME NEW u \in Threads, pc'[u] = "appendPost"
          PROVE  loc'[u].post # postList
      <4>1. CASE pc'[u] = pc[u] /\ loc'[u].post = loc[u].post
        BY <3>1, <3>3, <4>1 DEF At
      <4>2. CASE Store(u) \/ OnCollision(u) \/ CaptureStep(u)
        BY <3>1, <3>3, <4>2, CallbackSections
      <4>3. ASSUME NEW s \in Sensors, OnSample(u, s)
            PROVE  FALSE
        BY <3>3, <4>3, NewSample
      <4> QED
        BY <4>1, <4>2, <4>3, StepPlaces
    <3> QED
      BY <1>2, <1>4, <3>2, <3>3 DEF PostInv, ListOf, At
  <2> QED
    BY <2>1, <2>2
<1> QED
  BY <1>3, <1>4, TouchesPost

LEMMA StepListsInOrder ==
  ASSUME TypeInv, BusyInv, PostInv, ListsInOrder, PendingInv, [Next]_vars
  PROVE  ListsInOrder'
<1>1. PICK o, e : o = Origins /\ e = Origins'
  OBVIOUS
<1>2. SUFFICES ASSUME NEW s \in Sensors
               PROVE  InOrder(e, ListOf(buffer', s), ListOf(post', s))
  BY <1>1 DEF ListsInOrder, ListOf
<1> DEFINE b == ListOf(buffer, s)
           p == ListOf(post, s)
<1>3. Extends(o, e) /\ InOrder(o, b, p)
  BY <1>1, OriginsStay DEF ListsInOrder
<1>4. b \in Seq(Nat) /\ p \in Seq(Nat) /\ InOrder(e, b, p)
  BY <1>3, ListTypes, OrderStays
<1>5. CASE SameLists(s)
  BY <1>4, <1>5 DEF SameLists
<1>6. CASE ListOf(post', s) = <<>> /\ ListOf(buffer', s) \in {<<>>, ListOf(buffer, s)}
  BY <1>4, <1>6, EmptyOrder DEF InOrder
<1>7. ASSUME NEW t \in Threads, pc[t] \in Sampling, SensorOf(t) = s, OwnLists(t)
      PROVE  InOrder(e, ListOf(buffer', s), ListOf(post', s))
  <2> DEFINE n == loc[t].sample
  <2>1. n \in Nat /\ n \in DOMAIN o /\ n \in DOMAIN e
    <3>1. n \in SampleIds /\ n \in Nat
      BY <1>7 DEF TypeInv, HoldingInv, Locals
    <3> QED
      BY <1>1, <1>3, <3>1 DEF Extends, Origins
  <2>2. pc[t] \in Pending => Coming(e, b, p, n, At(t, "insert"))
    <3>1. pc[t] \in Pending => Coming(o, b, p, n, At(t, "insert"))
      BY <1>1, <1>7 DEF PendingInv
    <3> HIDE DEF b, p, n
    <3> QED
      BY <1>3, <2>1, <3>1, ComingStays DEF InOrder
  <2>3. ~triggered => p = <<>>
    BY DEF PostInv
  <2> HIDE DEF b, p, n
  <2>4. CASE At(t, "check") /\ ~triggered /\ ListOf(buffer', s) = Append(b, n)
             /\ ListOf(post', s) = p
    <3>1. Below(e, b, n)
      BY <2>2, <2>4 DEF Coming, At, Pending
    <3>2. Ordered(e, Append(b, n)) /\ Known(e, Append(b, n))
      BY <1>4, <2>1, <3>1, AppendOrder DEF InOrder
    <3> QED
      BY <2>3, <2>4, <3>2, EmptyOrder
  <2>5. CASE At(t, "insert") /\ ListOf(buffer', s) = <<n>> /\ ListOf(post', s) = p
    <3>1. Foreign(e, p, n)
      BY <2>2, <2>5 DEF Coming, At, Pending
    <3> QED
      BY <1>4, <2>1, <2>5, <3>1, EmptyOrder DEF InOrder
  <2>6. CASE (\E k \in Nat : ListOf(buffer', s) = SubSeq(b, 1 + k, Len(b)))
             /\ ListOf(post', s) = p
    BY <1>4, <2>6, SubSeqOrder
  <2>7. CASE At(t, "appendPost") /\ ListOf(buffer', s) = b /\ ListOf(post', s) = Append(p, n)
    <3>1. Below(e, b, n) /\ Below(e, p, n)
      BY <2>2, <2>7 DEF Coming, At, Pending
    <3>2. Ordered(e, Append(p, n)) /\ Before(e, b, Append(p, n)) /\ Known(e, Append(p, n))
      BY <1>4, <2>1, <3>1, AppendOrder DEF InOrder
    <3> QED
      BY <1>4, <2>7, <3>2 DEF InOrder
  <2> QED
    BY <1>7, <2>4, <2>5, <2>6, <2>7 DEF OwnLists, b, p, n
<1> QED
  BY <1>5, <1>6, <1>7, StepOfLists DEF ListsStep

(* What a callback of another sensor of the same name does to the lists.   *)
LEMMA OthersComing ==
  ASSUME TypeInv, BusyInv, NEW o, Extends(Origins, o), NEW u \in Threads, NEW t \in Threads \ {u},
         pc[u] \in Sampling, pc[t] \in Sampling, SensorOf(t) = SensorOf(u), OwnLists(t),
         NEW inserting,
         Coming(o, ListOf(buffer, SensorOf(u)), ListOf(post, SensorOf(u)), loc[u].sample, inserting)
  PROVE  Coming(o, ListOf(buffer', SensorOf(u)), ListOf(post', SensorOf(u)), loc[u].sample,
                inserting)
<1> DEFINE s == SensorOf(u)
           b == ListOf(buffer, s)
           p == ListOf(post, s)
           n == loc[u].sample
           m == loc[t].sample
<1>1. b \in Seq(Nat) /\ p \in Seq(Nat) /\ n \in SampleIds /\ m \in SampleIds /\ m \in Nat
  BY ListTypes DEF TypeInv, HoldingInv, Locals, SensorOf, SampleOf
<1>2. o[m] # o[n]
  <2>1. SampleOf(t).from # SampleOf(u).from
    BY DEF BusyInv
  <2>2. Origins[m] # Origins[n] /\ DOMAIN Origins = SampleIds
    BY <1>1, <2>1 DEF Origins, SampleOf
  <2> HIDE DEF m, n
  <2> QED
    BY <1>1, <2>2 DEF Extends
<1>3. \/ ListOf(buffer', s) = Append(b, m) /\ ListOf(post', s) = p
      \/ ListOf(buffer', s) = <<m>> /\ ListOf(post', s) = p
      \/ /\ \E k \in Nat : ListOf(buffer', s) = SubSeq(b, 1 + k, Len(b))
         /\ ListOf(post', s) = p
      \/ ListOf(buffer', s) = b /\ ListOf(post', s) = Append(p, m)
  BY DEF OwnLists
<1>4. Coming(o, b, p, n, inserting)
  OBVIOUS
<1> HIDE DEF b, p, n, m
<1>5. Below(o, b, n) /\ Below(o, p, n) /\ (inserting => Foreign(o, p, n))
  BY <1>4, Zenon DEF Coming
<1>6. \A k \in Nat : Below(o, Append(b, m), n) /\ Below(o, SubSeq(b, 1 + k, Len(b)), n)
  BY <1>1, <1>2, <1>5, OthersAppend
<1>7. Below(o, <<m>>, n) /\ Below(o, Append(p, m), n)
      /\ (Foreign(o, p, n) => Foreign(o, Append(p, m), n))
  BY <1>1, <1>2, <1>5, OthersAppend
<1>8. Below(o, ListOf(buffer', s), n)
  BY <1>3, <1>5, <1>6, <1>7, Zenon
<1>9. Below(o, ListOf(post', s), n) /\ (inserting => Foreign(o, ListOf(post', s), n))
  BY <1>3, <1>5, <1>7, Zenon
<1> QED
  BY <1>8, <1>9, Zenon DEF Coming, n

LEMMA StepPending ==
  ASSUME TypeInv, BusyInv, PostInv, ListsInOrder, PendingInv, [Next]_vars
  PROVE  PendingInv'
<1>1. PICK e : e = Origins'
  OBVIOUS
<1>2. SUFFICES ASSUME NEW u \in Threads, pc'[u] \in Pending
               PROVE  Coming(e, ListOf(buffer', SensorOf(u)'), ListOf(post', SensorOf(u)'),
                             loc'[u].sample, pc'[u] = "insert")
  BY <1>1 DEF PendingInv, At, ListOf
<1>3. pc'[u] \in Sampling /\ Extends(Origins, e)
  BY <1>1, <1>2, OriginsStay DEF Pending, Sampling, Labels
<1>4. ASSUME NEW s \in Sensors, OnSample(u, s)
      PROVE  /\ Coming(e, ListOf(buffer', s), ListOf(post', s), loc'[u].sample, pc'[u] = "insert")
             /\ SensorOf(u)' = s
  <2>1. /\ SensorOf(u)' = s /\ loc'[u].sample = Len(samples) + 1 /\ Len(samples) \in Nat
        /\ pc'[u] = "store" /\ buffer' = buffer /\ post' = post
    BY <1>4, NewSample
  <2>2. ASSUME NEW lists \in {buffer, post}
        PROVE  Below(e, ListOf(lists, s), Len(samples) + 1)
    <3>1. ListOf(lists, s) \in Seq(SampleIds) /\ SampleIds = 1 .. Len(samples)
      BY ListTypes, SamplesFacts DEF TypeInv
    <3>2. \A i \in DOMAIN ListOf(lists, s) : ListOf(lists, s)[i] \in 1 .. Len(samples)
      BY <3>1
    <3> QED
      BY <2>1, <3>2 DEF Below
  <2> QED
    BY <2>1, <2>2 DEF Coming
<1>5. ASSUME Carries(u)
      PROVE  /\ Coming(e, ListOf(buffer', SensorOf(u)), ListOf(post', SensorOf(u)), loc[u].sample,
                       pc'[u] = "insert")
             /\ SensorOf(u)' = SensorOf(u) /\ loc'[u].sample = loc[u].sample
  <2> DEFINE s == SensorOf(u)
             n == loc[u].sample
  <2>1. /\ s \in Sensors /\ SensorOf(u)' = s /\ loc'[u].sample = n /\ pc[u] \in Sampling
        /\ n \in SampleIds
    BY <1>5, SensorKept DEF Carries
  <2>2. /\ pc[u] \in Pending
        /\ pc'[u] = "insert" => At(u, "insert") \/ ~triggered
    <3>1. CASE pc'[u] = pc[u]
      BY <1>2, <3>1 DEF At
    <3>2. CASE Store(u) \/ OnCollision(u) \/ CaptureStep(u)
      BY <1>2, <3>2, CallbackSections
    <3>3. ASSUME NEW r \in Sensors, OnSample(u, r)
          PROVE  FALSE
      BY <2>1, <3>3, NewSample DEF Sampling
    <3> QED
      BY <3>1, <3>2, <3>3, StepPlaces
  <2>3. Coming(Origins, ListOf(buffer, s), ListOf(post, s), n, pc'[u] = "insert")
    <3>1. Coming(Origins, ListOf(buffer, s), ListOf(post, s), n, At(u, "insert"))
      BY <2>1, <2>2 DEF PendingInv
    <3>2. CASE ~triggered
      <4>1. ListOf(post, s) = <<>>
        BY <2>1, <3>2 DEF PostInv
      <4> QED
        BY <3>1, <4>1, EmptyOrder DEF Coming
    <3>3. CASE pc'[u] = "insert" => At(u, "insert")
      BY <3>1, <3>3 DEF Coming
    <3> QED
      BY <2>2, <3>2, <3>3
  <2>4. Coming(e, ListOf(buffer, s), ListOf(post, s), n, pc'[u] = "insert")
    <3>1. InOrder(Origins, ListOf(buffer, s), ListOf(post, s)) /\ n \in DOMAIN Origins
      BY <2>1 DEF ListsInOrder, Origins
    <3> HIDE DEF s, n
    <3>2. PICK ins : ins = (pc'[u] = "insert")
      OBVIOUS
    <3>3. Coming(e, ListOf(buffer, s), ListOf(post, s), n, ins)
      BY <1>3, <2>3, <3>1, <3>2, ComingStays DEF InOrder
    <3> QED
      BY <3>2, <3>3
  <2>5. CASE SameLists(s)
    BY <2>1, <2>4, <2>5 DEF SameLists
  <2>6. CASE ListOf(post', s) = <<>> /\ ListOf(buffer', s) \in {<<>>, ListOf(buffer, s)}
    BY <2>1, <2>4, <2>6, EmptyOrder DEF Coming
  <2>7. ASSUME NEW t \in Threads, pc[t] \in Sampling, pc'[t] \notin Pending, OwnLists(t),
               SensorOf(t) = s
        PROVE  Coming(e, ListOf(buffer', s), ListOf(post', s), n, pc'[u] = "insert")
    <3>1. t \in Threads \ {u}
      BY <1>2, <2>7
    <3> QED
      BY <1>3, <2>1, <2>4, <2>7, <3>1, OthersComing
  <2> QED
    BY <2>1, <2>5, <2>6, <2>7, StepOfLists DEF ListsStep
<1> QED
  BY <1>3, <1>4, <1>5, StepCarries

LEMMA StepCopies ==
  ASSUME TypeInv, ListsInOrder, CopiesInOrder, [Next]_vars
  PROVE  CopiesInOrder'
<1>1. PICK o, e : o = Origins /\ e = Origins'
  OBVIOUS
<1>2. Extends(o, e)
  BY <1>1, OriginsStay
<1>3. ASSUME NEW u \in Threads, pc'[u] = "complete", NEW s \in Sensors
      PROVE  InOrder(e, loc'[u].pre[s], loc'[u].tail[s])
  <2>1. CASE pc'[u] = pc[u] /\ loc'[u].pre = loc[u].pre /\ loc'[u].tail = loc[u].tail
    <3>1. InOrder(o, loc[u].pre[s], loc[u].tail[s])
      BY <1>1, <1>3, <2>1 DEF CopiesInOrder, At
    <3> QED
      BY <1>2, <2>1, <3>1, OrderStays
  <2>2. CASE ReadBuffers(u)
    <3> DEFINE p == [r \in Sensors |-> ListOf(buffer, r)]
               q == [r \in Sensors |-> ListOf(post, r)]
    <3>1. loc' = [loc EXCEPT ![u] = [loc[u] EXCEPT !.pre = p, !.tail = q]]
      BY <2>2 DEF ReadBuffers
    <3>2. loc \in [Threads -> Locals] /\ loc[u] \in Locals
      BY DEF TypeInv, HoldingInv
    <3> HIDE DEF p, q
    <3>3. [loc[u] EXCEPT !.pre = p, !.tail = q].pre = p
          /\ [loc[u] EXCEPT !.pre = p, !.tail = q].tail = q
      BY <3>2 DEF Locals
    <3>4. loc'[u].pre = p /\ loc'[u].tail = q
      BY <3>1, <3>2, <3>3
    <3>5. InOrder(e, ListOf(buffer, s), ListOf(post, s))
      BY <1>1, <1>2, OrderStays DEF ListsInOrder
    <3> QED
      BY <3>4, <3>5 DEF p, q
  <2>3. CASE Store(u) \/ OnCollision(u) \/ CaptureStep(u)
    BY <1>3, <2>2, <2>3, CallbackSections
  <2>4. ASSUME NEW r \in Sensors, OnSample(u, r)
        PROVE  FALSE
    BY <1>3, <2>4, NewSample
  <2> QED
    BY <2>1, <2>3, <2>4, StepPlaces
<1>4. ASSUME NEW k \in DOMAIN sealed', NEW s \in Sensors
      PROVE  InOrder(e, sealed'[k].pre[s], sealed'[k].tail[s])
  <2>1. \A j \in DOMAIN sealed : InOrder(e, sealed[j].pre[s], sealed[j].tail[s])
    <3>1. \A j \in DOMAIN sealed : InOrder(o, sealed[j].pre[s], sealed[j].tail[s])
      BY <1>1 DEF CopiesInOrder
    <3> QED
      BY <1>2, <3>1, OrderStays
  <2>2. CASE sealed' = sealed
    BY <1>4, <2>1, <2>2
  <2>3. ASSUME NEW t \in Threads, Complete(t)
        PROVE  InOrder(e, sealed'[k].pre[s], sealed'[k].tail[s])
    <3> DEFINE c == [time |-> loc[t].time, pre |-> loc[t].pre, tail |-> loc[t].tail]
    <3>1. sealed' = Append(sealed, c) /\ At(t, "complete")
      BY <2>3 DEF Complete
    <3>2. c \in Event /\ sealed \in Seq(Event)
      BY DEF TypeInv, EventsInv, HoldingInv, Locals, Event
    <3>3. InOrder(e, c.pre[s], c.tail[s])
      <4>1. InOrder(o, loc[t].pre[s], loc[t].tail[s])
        BY <1>1, <3>1 DEF CopiesInOrder
      <4>2. InOrder(e, loc[t].pre[s], loc[t].tail[s])
        BY <1>2, <4>1, OrderStays
      <4> QED
        BY <4>2
    <3> HIDE DEF c
    <3>4. /\ sealed' \in Seq(Event) /\ Len(sealed') = Len(sealed) + 1 /\ Len(sealed) \in Nat
          /\ sealed'[Len(sealed) + 1] = c
          /\ \A j \in 1 .. Len(sealed) : sealed'[j] = sealed[j]
      BY <3>1, <3>2, AppendProperties
    <3>5. CASE k = Len(sealed) + 1
      BY <3>3, <3>4, <3>5
    <3>6. CASE k # Len(sealed) + 1
      <4>1. k \in DOMAIN sealed /\ sealed'[k] = sealed[k]
        BY <3>2, <3>4, <3>6
      <4> QED
        BY <2>1, <4>1
    <3> QED
      BY <3>5, <3>6
  <2>4. CASE CopyEvents \/ ClearEvents
    BY <2>2, <2>4 DEF CopyEvents, ClearEvents, Elsewhere, historyVars
  <2> QED
    BY <2>2, <2>3, <2>4, TouchesEvents
<1> QED
  BY <1>1, <1>3, <1>4 DEF CopiesInOrder, At

LEMMA OrderAlways == Spec => [](TypeInv /\ OrderInv)
<1>1. Init => OrderInv
  <2>1. SUFFICES ASSUME Init PROVE OrderInv
    OBVIOUS
  <2>2. /\ buffer = NoSamples /\ post = NoSamples /\ sealed = <<>> /\ postList = 0
        /\ \A t \in Threads : pc[t] = "idle" /\ loc[t] = NoLocals
    BY <2>1 DEF Init, CaptureInit
  <2>3. \A s \in Sensors : ListOf(NoSamples, s) = <<>>
    BY DEF NoSamples, ListOf
  <2>4. InOrder(Origins, <<>>, <<>>)
    BY EmptyOrder
  <2> QED
    BY <2>2, <2>3, <2>4 DEF OrderInv, BusyInv, PostInv, ListsInOrder, PendingInv, CopiesInOrder,
       NoLocals, At, Sampling, Pending
<1>2. ASSUME TypeInv, OrderInv, [Next]_vars
      PROVE  OrderInv'
  BY <1>2, StepBusy, StepPost, StepListsInOrder, StepPending, StepCopies DEF OrderInv
<1>3. Spec => []TypeInv
  BY TypeCorrect, PTL
<1> QED
  BY <1>1, <1>2, <1>3, PTL DEF Spec

(* In a sealed event the samples of a sensor are in the order they were    *)
(* taken in and occur once, whichever threads appended, finalized or reset *)
(* meanwhile, and although a sensor that could not be stopped goes on      *)
(* under the same name (SealedEventCapture.append, _finalize_event,        *)
(* end_session): the part of CaptureSound that no plan restricts.          *)
THEOREM EventsInOrder == Spec => []EventOrdered
<1>1. TypeInv /\ OrderInv => EventOrdered
  <2>1. SUFFICES ASSUME TypeInv, OrderInv, NEW k \in DOMAIN sealed, NEW s \in Sensors,
                        NEW i \in DOMAIN Window(sealed[k], s),
                        NEW j \in DOMAIN Window(sealed[k], s), i < j,
                        samples[Window(sealed[k], s)[i]].from = samples[Window(sealed[k], s)[j]].from
                 PROVE  Window(sealed[k], s)[i] < Window(sealed[k], s)[j]
    BY DEF EventOrdered
  <2>2. sealed[k] \in Event
    BY <2>1 DEF TypeInv, EventsInv
  <2>3. sealed[k].pre[s] \in Seq(Nat) /\ sealed[k].tail[s] \in Seq(Nat)
    BY <2>2 DEF Event, Lists
  <2>4. InOrder(Origins, sealed[k].pre[s], sealed[k].tail[s])
    BY <2>1 DEF OrderInv, CopiesInOrder
  <2>5. Ordered(Origins, Window(sealed[k], s)) /\ Known(Origins, Window(sealed[k], s))
    BY <2>3, <2>4, ConcatOrder DEF Window
  <2>6. Origins[Window(sealed[k], s)[i]] = Origins[Window(sealed[k], s)[j]]
    BY <2>1, <2>5 DEF Known, Origins
  <2> QED
    BY <2>1, <2>5, <2>6 DEF Ordered
<1> QED
  BY <1>1, OrderAlways, PTL


-----------------------------------------------------------------------------
(* Callbacks one after the other: a thread starts one when all others have *)
(* returned.                                                               *)
Alone == \A t, u \in Threads : t # u => At(t, "idle") \/ At(u, "idle")

Time(i) == samples[i].time

(* A sample has the time of its arrival unless its callback is yet to take *)
(* it.                                                                     *)
StampInv ==
  \A i \in SampleIds :
    IF Time(i) = None THEN \E t \in Threads : pc[t] \in {"store", "stamp"} /\ loc[t].sample = i
                      ELSE Time(i) <= clock

Ending == {"finalize", "read", "complete", "reset"}

(* What a callback knows of the capture in the section it is in.           *)
PhaseOf(t) ==
  /\ pc[t] \in {"insert", "evict"} => ~triggered
  /\ pc[t] = "insert" => SensorOf(t) \notin DOMAIN buffer
  /\ pc[t] \in {"appendPost", "due"} \cup Ending => triggerTime # None
  /\ pc[t] \in Ending => triggerTime + PostSeconds <= clock
  /\ pc[t] = "appendPost" => loc[t].post = postList /\ SensorOf(t) \in DOMAIN post
  /\ pc[t] \in {"read", "complete"} => loc[t].time = triggerTime
  /\ pc[t] = "arm" => /\ triggered /\ triggerTime = None
                      /\ loc[t].time \in Nat /\ loc[t].time <= clock
                      /\ \A s \in Sensors : ListOf(post, s) = <<>>

PhaseInv ==
  /\ triggerTime # None => triggered /\ triggerTime <= clock
  /\ triggered /\ triggerTime = None => \E t \in Threads : pc[t] = "arm"
  /\ \A t \in Threads : PhaseOf(t)

(* A running capture is one more collision than there are events.          *)
CountInv ==
  /\ Len(sealed) <= collisions
  /\ triggered /\ (\A t \in Threads : pc[t] # "reset") => Len(sealed) < collisions

Holds(e, s) == e.pre[s] = ListOf(buffer, s) /\ e.tail[s] = ListOf(post, s)

(* Nothing changes between the copy of the buffers and their clearing.     *)
CopyInv ==
  \A t \in Threads, s \in Sensors :
    /\ pc[t] = "complete" => Holds(loc[t], s)
    /\ pc[t] = "reset" => Len(sealed) > 0 /\ Holds(sealed[Len(sealed)], s)

Held(i) == \E t \in Threads : pc[t] \in Pending /\ loc[t].sample = i
Listed(i) ==
  \E s \in Sensors : i \in SamplesIn(ListOf(buffer, s)) \cup SamplesIn(ListOf(post, s))
InEvent(i) == \E k \in DOMAIN sealed : i \in Sealed(sealed[k])

(* Older than the window of the running capture, or of the next one.       *)
Old(i) ==
  /\ Time(i) # None
  /\ ~triggered => Time(i) < clock - PreSeconds
  /\ triggerTime # None => Time(i) < triggerTime - PreSeconds
  /\ \A t \in Threads : pc[t] = "arm" => Time(i) < loc[t].time - PreSeconds

KeptInv == \A i \in SampleIds : Held(i) \/ Listed(i) \/ InEvent(i) \/ Old(i)

WindowsInv ==
  \A k \in DOMAIN sealed :
    /\ sealed[k].time + PostSeconds <= clock
    /\ \A i \in SampleIds :
         /\ Time(i) # None
         /\ Time(i) >= sealed[k].time - PreSeconds
         /\ Time(i) < sealed[k].time + PostSeconds
         => \E j \in 1 .. k : i \in Sealed(sealed[j])

SerialInv == StampInv /\ PhaseInv /\ CountInv /\ CopyInv /\ KeptInv /\ WindowsInv

(* The event loop and the clock leave the callbacks alone, and a callback  *)
(* finds and leaves the other threads idle.                                *)
Quiet ==
  /\ UNCHANGED <<buffer, triggered, triggerTime, post, postList, collisions, sealed, pc, loc>>
  /\ clock <= clock'

Lone(t) == \A u \in Threads \ {t} : pc[u] = "idle" /\ pc'[u] = "idle"

TimesKept ==
  /\ SampleIds' = SampleIds
  /\ \A i \in SampleIds : Time(i)' = Time(i) /\ samples'[i].sensor = samples[i].sensor

Collides(t) == OnCollision(t) /\ ~triggered

LEMMA LoopQuiet ==
  ASSUME TypeInv, EventLoop \/ Tick \/ UNCHANGED vars
  PROVE  Quiet /\ TimesKept
<1>1. samples \in Seq(Sample) /\ clock \in Nat /\ SampleIds = 1 .. Len(samples)
      /\ Len(samples) \in Nat /\ \A i \in SampleIds : samples[i] \in Sample
  BY SamplesFacts DEF TypeInv, CountersInv
<1>2. CASE StartFlush
  <2>1. Quiet
    BY <1>1, <1>2 DEF StartFlush, Quiet, captureVars
  <2> DEFINE Met(i) == \E t \in Threads : At(t, "store") /\ loc[t].sample = i
             Marked(i) == [samples[i] EXCEPT !.racing = @ \/ Met(i)]
  <2>2. samples' = [i \in SampleIds |-> Marked(i)]
    BY <1>2 DEF StartFlush
  <2>3. \A i \in SampleIds : Marked(i).time = samples[i].time /\ Marked(i).sensor = samples[i].sensor
    BY <1>1 DEF Sample
  <2> HIDE DEF Marked
  <2>4. SampleIds' = SampleIds
    BY <2>2 DEF SampleIds
  <2> QED
    BY <2>1, <2>2, <2>3, <2>4 DEF TimesKept, Time
<1>3. CASE (EventLoop /\ ~StartFlush) \/ Tick \/ UNCHANGED vars
  <2>1. UNCHANGED <<samples, buffer, triggered, triggerTime, post, postList, collisions, sealed,
                    pc, loc>>
        /\ (clock' = clock \/ clock' = clock + 1)
    BY <1>3 DEF EventLoop, StartSession, SetupSensors, EndSession, FlushSensor, CopyEvents,
       ClearEvents, SendCam, NoCam, ClearData, Elsewhere, Tick, vars, captureVars, historyVars
  <2> QED
    BY <1>1, <2>1 DEF Quiet, TimesKept, Time, SampleIds
<1> QED
  BY <1>2, <1>3 DEF EventLoop

LEMMA SerialCases ==
  ASSUME TypeInv, Alone, Alone', [Next]_vars
  PROVE  \/ Quiet /\ TimesKept
         \/ \E t \in Threads : /\ Lone(t) /\ clock' = clock
                               /\ \/ Store(t) \/ Collides(t) \/ CaptureStep(t)
                                  \/ \E s \in Sensors : OnSample(t, s)
<1>1. ASSUME NEW t \in Threads,
             Store(t) \/ Collides(t) \/ CaptureStep(t) \/ \E s \in Sensors : OnSample(t, s)
      PROVE  Lone(t) /\ clock' = clock
  <2>1. OneThread(t) /\ pc \in [Threads -> Labels]
    BY <1>1, CallbackMoves DEF TypeInv, HoldingInv, Collides
  <2>2. pc[t] # "idle" \/ pc'[t] # "idle"
    BY <1>1, <2>1 DEF Store, Collides, OnCollision, Trigger, OnSample, CaptureStep, Stamp,
       AppendToBuffer, NeedDeque, InsertDeque, Evict, FindPostList, AppendToPost,
       FinalizeOrReturn, StartFinalize, ReadBuffers, ReadFails, Complete, Reset, Arm, At, Goto
  <2>3. \A u \in Threads \ {t} : pc'[u] = pc[u]
    BY <2>1 DEF OneThread
  <2>4. Lone(t)
    BY <2>2, <2>3 DEF Lone, Alone, At
  <2>5. clock' = clock
    BY <1>1 DEF Store, Collides, OnCollision, Trigger, OnSample, CaptureStep, Stamp,
       AppendToBuffer, NeedDeque, InsertDeque, Evict, FindPostList, AppendToPost,
       FinalizeOrReturn, StartFinalize, ReadBuffers, ReadFails, Complete, Reset, Arm
  <2> QED
    BY <2>4, <2>5
<1>2. ASSUME NEW t \in Threads, OnCollision(t)
      PROVE  Collides(t) \/ UNCHANGED vars
  BY <1>2 DEF OnCollision, Trigger, Collides, vars
<1> QED
  BY <1>1, <1>2, LoopQuiet, StepCases

(* The times of the samples: one is set by Stamp, and a new one is unset.  *)
LEMMA TimesOfStep ==
  ASSUME TypeInv, NEW t \in Threads,
         Store(t) \/ Collides(t) \/ CaptureStep(t) \/ \E s \in Sensors : OnSample(t, s)
  PROVE  /\ Stamp(t) =>
              /\ SampleIds' = SampleIds /\ loc[t].sample \in SampleIds
              /\ samples'[loc[t].sample].time = clock
              /\ \A i \in SampleIds \ {loc[t].sample} : samples'[i].time = Time(i)
         /\ (\E s \in Sensors : OnSample(t, s)) =>
              /\ pc[t] = "idle" /\ pc'[t] = "store"
              /\ SampleIds' = SampleIds \cup {loc'[t].sample}
              /\ samples'[loc'[t].sample].time = None
              /\ \A i \in SampleIds : samples'[i].time = Time(i)
         /\ (Store(t) \/ Collides(t) \/ CaptureStep(t)) /\ ~Stamp(t) =>
              samples' = samples /\ TimesKept
<1>1. samples \in Seq(Sample) /\ clock \in Nat /\ SampleIds = 1 .. Len(samples)
      /\ Len(samples) \in Nat /\ \A i \in SampleIds : samples[i] \in Sample
  BY SamplesFacts DEF TypeInv, CountersInv
<1>2. ASSUME Stamp(t)
      PROVE  /\ SampleIds' = SampleIds /\ loc[t].sample \in SampleIds
             /\ samples'[loc[t].sample].time = clock
             /\ \A i \in SampleIds \ {loc[t].sample} : samples'[i].time = Time(i)
  <2>1. loc[t].sample \in SampleIds
    BY <1>2 DEF TypeInv, HoldingInv, Stamp, At, Sampling, Labels
  <2>2. samples' = [samples EXCEPT ![loc[t].sample] = [samples[loc[t].sample] EXCEPT !.time = clock]]
    BY <1>2 DEF Stamp
  <2>3. [samples[loc[t].sample] EXCEPT !.time = clock].time = clock
    BY <1>1, <2>1 DEF Sample
  <2> DEFINE new == [samples[loc[t].sample] EXCEPT !.time = clock]
  <2> HIDE DEF new
  <2>4. samples'[loc[t].sample].time = clock /\ SampleIds' = SampleIds
        /\ \A i \in SampleIds \ {loc[t].sample} : samples'[i].time = Time(i)
    BY <1>1, <2>1, <2>2, <2>3 DEF new, Time, SampleIds
  <2> QED
    BY <1>2, <2>1, <2>4
<1>3. ASSUME NEW s \in Sensors, OnSample(t, s)
      PROVE  /\ pc[t] = "idle" /\ pc'[t] = "store"
             /\ SampleIds' = SampleIds \cup {loc'[t].sample}
             /\ samples'[loc'[t].sample].time = None
             /\ \A i \in SampleIds : samples'[i].time = Time(i)
  <2>1. loc'[t].sample = Len(samples) + 1 /\ pc'[t] = "store" /\ pc[t] = "idle"
    BY <1>3, NewSample
  <2>2. PICK new \in Sample : samples' = Append(samples, new) /\ new.time = None
    BY <1>3, SampleTaken DEF Taken
  <2>4. /\ samples' \in Seq(Sample) /\ Len(samples') = Len(samples) + 1
        /\ samples'[Len(samples) + 1] = new
        /\ \A i \in 1 .. Len(samples) : samples'[i] = samples[i]
    BY <1>1, <2>2, AppendProperties
  <2>5. SampleIds' = 1 .. Len(samples) + 1
    BY <1>1, <2>4 DEF SampleIds
  <2> QED
    BY <1>1, <2>1, <2>2, <2>4, <2>5 DEF Time
<1>4. ASSUME Store(t) \/ Collides(t) \/ CaptureStep(t), ~Stamp(t)
      PROVE  samples' = samples /\ TimesKept
  <2>1. samples' = samples
    BY <1>4 DEF Store, Collides, OnCollision, Trigger, CaptureStep, AppendToBuffer, NeedDeque,
       InsertDeque, Evict, FindPostList, AppendToPost, FinalizeOrReturn, StartFinalize,
       ReadBuffers, ReadFails, Complete, Reset, Arm, historyVars
  <2> QED
    BY <2>1 DEF TimesKept, Time, SampleIds
<1> QED
  BY <1>2, <1>3, <1>4

LEMMA StepStamp ==
  ASSUME TypeInv, StampInv, Alone, Alone', [Next]_vars
  PROVE  StampInv'
<1>1. clock \in Nat /\ None \notin Nat /\ pc \in [Threads -> Labels] /\ loc \in [Threads -> Locals]
  BY CaptureAssumption DEF TypeInv, CountersInv, HoldingInv
<1>2. \A i \in SampleIds : Time(i) \in Nat \cup {None}
  BY SamplesFacts DEF TypeInv, Sample, Time
<1>3. CASE Quiet /\ TimesKept
  <2>1. \A i \in SampleIds : Time(i)' = Time(i)
    BY <1>3 DEF TimesKept
  <2>2. SampleIds' = SampleIds /\ clock <= clock' /\ pc' = pc /\ loc' = loc
    BY <1>3 DEF Quiet, TimesKept
  <2>3. clock' \in Nat
    BY StepCounters DEF CountersInv
  <2> QED
    BY <1>1, <1>2, <2>1, <2>2, <2>3 DEF StampInv
<1>4. ASSUME NEW t \in Threads, Lone(t), clock' = clock,
             Store(t) \/ Collides(t) \/ CaptureStep(t) \/ \E s \in Sensors : OnSample(t, s)
      PROVE  StampInv'
  <2>1. \A i \in SampleIds : Time(i) # None \/ (pc[t] \in {"store", "stamp"} /\ loc[t].sample = i)
    BY <1>4 DEF StampInv, Lone
  <2>2. \A i \in SampleIds : Time(i) # None => Time(i) <= clock
    BY DEF StampInv
  <2>3. CASE Stamp(t)
    <3>1. /\ SampleIds' = SampleIds /\ samples'[loc[t].sample].time = clock
          /\ \A i \in SampleIds \ {loc[t].sample} : samples'[i].time = Time(i)
      BY <1>4, <2>3, TimesOfStep
    <3> QED
      BY <1>1, <1>4, <2>1, <2>2, <3>1 DEF StampInv, Time
  <2>4. ASSUME NEW s \in Sensors, OnSample(t, s)
        PROVE  StampInv'
    <3>1. /\ pc[t] = "idle" /\ pc'[t] = "store" /\ SampleIds' = SampleIds \cup {loc'[t].sample}
          /\ samples'[loc'[t].sample].time = None
          /\ \A i \in SampleIds : samples'[i].time = Time(i)
      BY <1>4, <2>4, TimesOfStep
    <3> QED
      BY <1>1, <1>4, <2>1, <2>2, <3>1 DEF StampInv, Time
  <2>5. CASE (Store(t) \/ Collides(t) \/ CaptureStep(t)) /\ ~Stamp(t)
    <3>1. SampleIds' = SampleIds /\ \A i \in SampleIds : Time(i)' = Time(i)
      BY <1>4, <2>5, TimesOfStep DEF TimesKept
    <3>2. pc[t] \in {"store", "stamp"} => pc'[t] = "stamp" /\ loc'[t].sample = loc[t].sample
      BY <1>1, <2>5 DEF Store, Collides, OnCollision, Trigger, CaptureStep, AppendToBuffer,
         NeedDeque, InsertDeque, Evict, FindPostList, AppendToPost, FinalizeOrReturn,
         StartFinalize, ReadBuffers, ReadFails, Complete, Reset, Arm, At, Goto, historyVars
    <3> QED
      BY <1>4, <2>1, <2>2, <3>1, <3>2 DEF StampInv
  <2> QED
    BY <1>4, <2>3, <2>4, <2>5
<1> QED
  BY <1>3, <1>4, SerialCases

LEMMA StepPhase ==
  ASSUME TypeInv, PostInv, StampInv, PhaseInv, Alone, Alone', [Next]_vars
  PROVE  PhaseInv'
<1>1. /\ clock \in Nat /\ None \notin Nat /\ pc \in [Threads -> Labels]
      /\ loc \in [Threads -> Locals] /\ triggered \in BOOLEAN /\ triggerTime \in Nat \cup {None}
      /\ PostSeconds \in Nat /\ samples \in Seq(Sample)
  BY CaptureAssumption DEF TypeInv, CountersInv, HoldingInv
<1>2. \A i \in SampleIds : Time(i) \in Nat \cup {None}
  BY SamplesFacts DEF TypeInv, Sample, Time
<1>3. CASE Quiet /\ TimesKept
  <2>1. clock <= clock' /\ clock' \in Nat
    BY <1>3, StepCounters DEF Quiet, CountersInv
  <2>2. ASSUME NEW u \in Threads
        PROVE  PhaseOf(u)'
    <3>1. PhaseOf(u)
      BY DEF PhaseInv
    <3>2. pc[u] \in {"insert", "appendPost"} => SensorOf(u)' = SensorOf(u)
      BY <1>3, SensorKept DEF Quiet, Sampling, Labels
    <3> QED
      BY <1>1, <1>3, <2>1, <3>1, <3>2 DEF PhaseOf, Quiet, Ending, Locals, ListOf
  <2> QED
    BY <1>1, <1>3, <2>1, <2>2 DEF PhaseInv, Quiet
<1>4. ASSUME NEW t \in Threads, Lone(t), clock' = clock,
             Store(t) \/ Collides(t) \/ CaptureStep(t) \/ \E s \in Sensors : OnSample(t, s)
      PROVE  PhaseInv'
  <2> DEFINE Armed == triggerTime' # None => triggered' /\ triggerTime' <= clock
             Arming == triggered' /\ triggerTime' = None => pc'[t] = "arm"
  <2>1. SUFFICES Armed /\ Arming /\ PhaseOf(t)'
    <3>1. \A u \in Threads \ {t} : PhaseOf(u)'
      BY <1>4 DEF Lone, PhaseOf, Ending
    <3> QED
      BY <1>4, <3>1 DEF PhaseInv
  <2>2. /\ loc[t] \in Locals /\ Race(t)[t] = loc[t] /\ DOMAIN pc = Threads
        /\ DOMAIN loc = Threads /\ DOMAIN Race(t) = Threads /\ PhaseOf(t)
    BY <1>1, RaceFacts DEF PhaseInv, Race
  <2>3. /\ triggerTime # None => triggered /\ triggerTime <= clock
        /\ triggered /\ triggerTime = None => pc[t] = "arm"
    BY <1>4 DEF PhaseInv, Lone
  <2>4. CASE Store(t) \/ Stamp(t) \/ \E s \in Sensors : OnSample(t, s)
    <3>1. UNCHANGED <<triggered, triggerTime>> /\ pc[t] # "arm" /\ pc'[t] \in {"store", "stamp", "check"}
      BY <2>2, <2>4 DEF Store, Stamp, OnSample, Goto, At, captureVars
    <3> QED
      BY <2>3, <3>1 DEF PhaseOf, Ending
  <2>5. CASE Collides(t)
    <3>1. /\ ~triggered /\ triggered' /\ UNCHANGED <<triggerTime, post>> /\ pc'[t] = "arm"
          /\ loc' = [loc EXCEPT ![t].time = clock]
      BY <2>2, <2>5 DEF Collides, OnCollision, Trigger, Goto
    <3>2. loc'[t].time = clock
      BY <2>2, <3>1 DEF Locals
    <3>3. triggerTime = None /\ \A s \in Sensors : ListOf(post, s) = <<>>
      BY <2>3, <3>1 DEF PostInv
    <3> QED
      BY <1>1, <1>4, <3>1, <3>2, <3>3 DEF PhaseOf, Ending, ListOf
  <2>6. CASE AppendToBuffer(t) \/ NeedDeque(t) \/ InsertDeque(t) \/ Evict(t)
    <3>1. UNCHANGED <<triggered, triggerTime>> /\ pc[t] # "arm" /\ ~triggered
          /\ pc'[t] \in {"insert", "evict", "idle"} /\ (pc'[t] = "insert" => NeedDeque(t))
      BY <2>2, <2>6 DEF AppendToBuffer, NeedDeque, InsertDeque, Evict, Goto, At, captureVars, PhaseOf
    <3>2. NeedDeque(t) => SensorOf(t)' = SensorOf(t) /\ SensorOf(t) \notin DOMAIN buffer'
      BY DEF NeedDeque, SensorOf, SampleOf, captureVars, historyVars
    <3> QED
      BY <2>3, <3>1, <3>2 DEF PhaseOf, Ending
  <2>7. CASE FindPostList(t)
    <3>1. /\ triggered /\ UNCHANGED <<triggered, triggerTime, postList, samples>> /\ pc[t] = "check"
          /\ pc'[t] = "appendPost" /\ post' = With(post, SensorOf(t), ListOf(post, SensorOf(t)))
      BY <2>2, <2>7 DEF FindPostList, Goto, At, historyVars
    <3>2. loc'[t] = [loc[t] EXCEPT !.post = postList]
      BY <2>2, <2>7 DEF FindPostList
    <3>3. loc'[t].post = postList /\ loc'[t].sample = loc[t].sample
      BY <2>2, <3>2 DEF Locals
    <3>4. SensorOf(t)' = SensorOf(t)
      BY <3>1, <3>3 DEF SensorOf, SampleOf
    <3>5. SensorOf(t)' \in DOMAIN post'
      BY <3>1, <3>4 DEF With
    <3> QED
      BY <2>3, <3>1, <3>3, <3>5 DEF PhaseOf, Ending
  <2>8. CASE AppendToPost(t)
    <3>1. UNCHANGED <<triggered, triggerTime>> /\ pc[t] = "appendPost" /\ pc'[t] = "due"
      BY <2>2, <2>8 DEF AppendToPost, Goto, At
    <3> QED
      BY <2>2, <2>3, <3>1 DEF PhaseOf, Ending
  <2>9. CASE FinalizeOrReturn(t)
    <3>1. UNCHANGED <<triggered, triggerTime>> /\ pc[t] = "due"
          /\ (pc'[t] = "idle" \/ (pc'[t] = "finalize" /\ CaptureIsDue(t)))
      BY <2>2, <2>9 DEF FinalizeOrReturn, Return, Goto, At, captureVars
    <3>2. CaptureIsDue(t) => triggerTime # None /\ triggerTime + PostSeconds <= clock
      <4>1. loc[t].sample \in SampleIds
        BY <3>1 DEF TypeInv, HoldingInv, Sampling, Labels
      <4>2. Time(loc[t].sample) # None /\ Time(loc[t].sample) <= clock
        BY <1>4, <3>1, <4>1 DEF StampInv, Lone
      <4>3. PICK n : n = Time(loc[t].sample)
        OBVIOUS
      <4>4. n \in Nat /\ n <= clock
        BY <1>2, <4>1, <4>2, <4>3
      <4>5. CaptureIsDue(t) => triggerTime # None /\ n - triggerTime >= PostSeconds
        BY <4>3 DEF CaptureIsDue, SampleOf, Time
      <4> QED
        BY <1>1, <4>4, <4>5
    <3> QED
      BY <1>4, <2>3, <3>1, <3>2 DEF PhaseOf, Ending
  <2>10. CASE StartFinalize(t)
    <3>1. UNCHANGED <<triggered, triggerTime>> /\ pc[t] = "finalize" /\ pc'[t] = "read"
      BY <2>2, <2>10 DEF StartFinalize, Goto, At, captureVars
    <3>2. triggerTime # None /\ triggerTime + PostSeconds <= clock
      BY <2>2, <3>1 DEF PhaseOf, Ending
    <3>3. loc'[t] = [loc[t] EXCEPT !.raced = FALSE, !.time = triggerTime]
      BY <2>2, <2>10, <3>2 DEF StartFinalize
    <3>4. loc'[t].time = triggerTime
      BY <2>2, <3>3 DEF Locals
    <3> QED
      BY <1>4, <2>3, <3>1, <3>2, <3>4 DEF PhaseOf, Ending
  <2>11. CASE ReadBuffers(t)
    <3> DEFINE p == [s \in Sensors |-> ListOf(buffer, s)]
               q == [s \in Sensors |-> ListOf(post, s)]
    <3>1. UNCHANGED <<triggered, triggerTime>> /\ pc[t] = "read" /\ pc'[t] = "complete"
      BY <2>2, <2>11 DEF ReadBuffers, Goto, At, captureVars
    <3>2. loc' = [loc EXCEPT ![t] = [loc[t] EXCEPT !.pre = p, !.tail = q]]
      BY <2>11 DEF ReadBuffers
    <3> HIDE DEF p, q
    <3>3. loc'[t].time = loc[t].time
      BY <2>2, <3>2 DEF Locals
    <3> QED
      BY <1>4, <2>2, <2>3, <3>1, <3>3 DEF PhaseOf, Ending
  <2>12. CASE Complete(t)
    <3>1. UNCHANGED <<triggered, triggerTime>> /\ pc[t] = "complete" /\ pc'[t] = "reset"
      BY <2>2, <2>12 DEF Complete, Goto, At
    <3> QED
      BY <1>4, <2>2, <2>3, <3>1 DEF PhaseOf, Ending
  <2>13. CASE ReadFails(t) \/ Reset(t)
    <3>1. pc'[t] = "idle" /\ pc[t] # "arm"
          /\ (UNCHANGED <<triggered, triggerTime>> \/ (triggered' = FALSE /\ triggerTime' = None))
      BY <2>2, <2>13 DEF ReadFails, Reset, Return, Goto, At, captureVars
    <3> QED
      BY <1>4, <2>3, <3>1 DEF PhaseOf, Ending
  <2>14. CASE Arm(t)
    <3>1. pc'[t] = "idle" /\ triggerTime' = loc[t].time /\ triggered' = triggered /\ pc[t] = "arm"
      BY <2>2, <2>14 DEF Arm, Return, Goto, At
    <3>2. triggered /\ loc[t].time \in Nat /\ loc[t].time <= clock
      BY <2>2, <3>1 DEF PhaseOf
    <3> QED
      BY <1>1, <1>4, <3>1, <3>2 DEF PhaseOf, Ending
  <2> QED
    BY <1>4, <2>4, <2>5, <2>6, <2>7, <2>8, <2>9, <2>10, <2>11, <2>12, <2>13, <2>14
       DEF CaptureStep
<1> QED
  BY <1>3, <1>4, SerialCases

LEMMA StepCount ==
  ASSUME TypeInv, PhaseInv, CountInv, Alone, Alone', [Next]_vars
  PROVE  CountInv'
<1>1. /\ sealed \in Seq(Event) /\ Len(sealed) \in Nat /\ collisions \in Nat
      /\ pc \in [Threads -> Labels] /\ triggered \in BOOLEAN
  BY DEF TypeInv, EventsInv, CountersInv, HoldingInv
<1>2. CASE Quiet /\ TimesKept
  BY <1>2 DEF Quiet, CountInv
<1>3. ASSUME NEW t \in Threads, Lone(t),
             Store(t) \/ Collides(t) \/ CaptureStep(t) \/ \E s \in Sensors : OnSample(t, s)
      PROVE  CountInv'
  <2>1. CASE Complete(t)
    <3>1. pc[t] = "complete" /\ pc'[t] = "reset" /\ collisions' = collisions
      BY <1>1, <2>1 DEF Complete, Goto, At
    <3>2. triggered /\ \A u \in Threads : pc[u] # "reset"
      BY <1>3, <3>1 DEF PhaseInv, PhaseOf, Ending, Lone
    <3>3. Len(sealed') = Len(sealed) + 1
      <4> DEFINE e == [time |-> loc[t].time, pre |-> loc[t].pre, tail |-> loc[t].tail]
      <4>1. sealed' = Append(sealed, e)
        BY <2>1 DEF Complete
      <4> HIDE DEF e
      <4> QED
        BY <1>1, <4>1
    <3> QED
      BY <1>1, <3>1, <3>2, <3>3 DEF CountInv
  <2>2. CASE Collides(t)
    <3>1. collisions' = collisions + 1 /\ sealed' = sealed
      BY <2>2 DEF Collides, OnCollision, Trigger
    <3> QED
      BY <1>1, <3>1 DEF CountInv
  <2>3. CASE Reset(t)
    <3>1. ~triggered' /\ UNCHANGED <<collisions, sealed>>
      BY <2>3 DEF Reset, historyVars
    <3> QED
      BY <3>1 DEF CountInv
  <2>4. CASE /\ (Store(t) \/ CaptureStep(t) \/ \E s \in Sensors : OnSample(t, s))
             /\ ~Complete(t) /\ ~Reset(t)
    <3>1. UNCHANGED <<collisions, sealed, triggered>> /\ pc[t] # "reset"
      BY <2>4 DEF Store, OnSample, CaptureStep, Stamp, AppendToBuffer, NeedDeque, InsertDeque,
         Evict, FindPostList, AppendToPost, FinalizeOrReturn, StartFinalize, ReadBuffers,
         ReadFails, Arm, At, captureVars, historyVars
    <3> QED
      BY <1>3, <3>1 DEF CountInv, Lone
  <2> QED
    BY <1>3, <2>1, <2>2, <2>3, <2>4
<1> QED
  BY <1>2, <1>3, SerialCases

LEMMA StepCopy ==
  ASSUME TypeInv, CopyInv, Alone, Alone', [Next]_vars
  PROVE  CopyInv'
<1>1. /\ sealed \in Seq(Event) /\ Len(sealed) \in Nat /\ pc \in [Threads -> Labels]
      /\ loc \in [Threads -> Locals]
  BY DEF TypeInv, EventsInv, HoldingInv
<1>2. CASE Quiet /\ TimesKept
  BY <1>2 DEF Quiet, CopyInv, Holds, ListOf
<1>3. ASSUME NEW t \in Threads, Lone(t),
             Store(t) \/ Collides(t) \/ CaptureStep(t) \/ \E s \in Sensors : OnSample(t, s)
      PROVE  CopyInv'
  <2>1. SUFFICES ASSUME NEW s \in Sensors
                 PROVE  /\ pc'[t] = "complete" => Holds(loc[t], s)'
                        /\ pc'[t] = "reset" => Len(sealed') > 0 /\ Holds(sealed[Len(sealed)], s)'
    BY <1>3 DEF CopyInv, Lone
  <2>2. CASE ReadBuffers(t)
    <3> DEFINE p == [r \in Sensors |-> ListOf(buffer, r)]
               q == [r \in Sensors |-> ListOf(post, r)]
    <3>1. loc' = [loc EXCEPT ![t] = [loc[t] EXCEPT !.pre = p, !.tail = q]]
          /\ buffer' = buffer /\ post' = post /\ pc'[t] = "complete"
      BY <1>1, <2>2 DEF ReadBuffers, captureVars, Goto
    <3> HIDE DEF p, q
    <3>2. loc'[t].pre = p /\ loc'[t].tail = q
      BY <1>1, <3>1 DEF Locals
    <3>3. p[s] = ListOf(buffer, s) /\ q[s] = ListOf(post, s)
      BY DEF p, q
    <3> QED
      BY <3>1, <3>2, <3>3 DEF Holds, ListOf
  <2>3. CASE Complete(t)
    <3> DEFINE e == [time |-> loc[t].time, pre |-> loc[t].pre, tail |-> loc[t].tail]
    <3>1. sealed' = Append(sealed, e) /\ buffer' = buffer /\ post' = post /\ pc[t] = "complete"
          /\ pc'[t] = "reset"
      BY <1>1, <2>3 DEF Complete, Goto, At
    <3>2. e \in Event /\ e.pre = loc[t].pre /\ e.tail = loc[t].tail
      BY <1>1 DEF Locals, Event
    <3> HIDE DEF e
    <3>3. Len(sealed') = Len(sealed) + 1 /\ sealed'[Len(sealed) + 1] = e
      BY <1>1, <3>1, <3>2, AppendProperties
    <3>4. Holds(loc[t], s)
      BY <3>1 DEF CopyInv
    <3> QED
      BY <1>1, <3>1, <3>2, <3>3, <3>4 DEF Holds, ListOf
  <2>4. CASE ~ReadBuffers(t) /\ ~Complete(t)
    <3>1. pc'[t] \notin {"complete", "reset"}
      BY <1>1, <1>3, <2>4 DEF Store, OnSample, Collides, OnCollision, Trigger, CaptureStep, Stamp,
         AppendToBuffer, NeedDeque, InsertDeque, Evict, FindPostList, AppendToPost,
         FinalizeOrReturn, StartFinalize, ReadFails, Reset, Arm, Return, Goto
    <3> QED
      BY <3>1
  <2> QED
    BY <2>2, <2>3, <2>4
<1> QED
  BY <1>2, <1>3, SerialCases

(* What the last steps are proved from: events stay, a sample copied is in *)
(* the event, and those evicted are a prefix of the deque.                 *)
LEMMA EventsGrow ==
  ASSUME TypeInv, [Next]_vars
  PROVE  /\ Len(sealed) \in Nat /\ Len(sealed') \in Nat /\ Len(sealed) <= Len(sealed')
         /\ DOMAIN sealed = 1 .. Len(sealed) /\ DOMAIN sealed' = 1 .. Len(sealed')
         /\ \A k \in DOMAIN sealed : sealed'[k] = sealed[k]
<1>1. sealed \in Seq(Event) /\ Len(sealed) \in Nat
  BY DEF TypeInv, EventsInv
<1>2. CASE sealed' = sealed
  BY <1>1, <1>2
<1>3. ASSUME NEW t \in Threads, Complete(t)
      PROVE  /\ Len(sealed') = Len(sealed) + 1 /\ sealed' \in Seq(Event)
             /\ \A k \in DOMAIN sealed : sealed'[k] = sealed[k]
  <2> DEFINE e == [time |-> loc[t].time, pre |-> loc[t].pre, tail |-> loc[t].tail]
  <2>1. sealed' = Append(sealed, e)
    BY <1>3 DEF Complete
  <2>2. e \in Event
    BY DEF TypeInv, HoldingInv, Locals, Event
  <2> HIDE DEF e
  <2> QED
    BY <1>1, <2>1, <2>2, AppendProperties
<1>4. sealed' = sealed \/ \E t \in Threads : Complete(t)
  BY TouchesEvents DEF CopyEvents, ClearEvents, Elsewhere, historyVars
<1> QED
  BY <1>1, <1>2, <1>3, <1>4

LEMMA InWindow ==
  ASSUME NEW e, NEW s \in Sensors, e.pre[s] \in Seq(Nat), e.tail[s] \in Seq(Nat),
         NEW i \in SamplesIn(e.pre[s]) \cup SamplesIn(e.tail[s])
  PROVE  i \in Sealed(e)
<1> DEFINE p == e.pre[s]
           q == e.tail[s]
           r == p \o q
<1>1. /\ r \in Seq(Nat) /\ Len(r) = Len(p) + Len(q)
      /\ \A j \in 1 .. Len(r) : r[j] = IF j <= Len(p) THEN p[j] ELSE q[j - Len(p)]
  BY ConcatProperties
<1>2. r = Window(e, s)
  BY DEF Window
<1> HIDE DEF p, q, r
<1>3. Len(p) \in Nat /\ Len(q) \in Nat /\ DOMAIN p = 1 .. Len(p) /\ DOMAIN q = 1 .. Len(q)
      /\ DOMAIN r = 1 .. Len(r)
  BY <1>1 DEF p, q
<1>4. i \in SamplesIn(p) \/ i \in SamplesIn(q)
  BY DEF p, q
<1>5. \E j \in DOMAIN r : r[j] = i
  <2>1. CASE i \in SamplesIn(p)
    <3>1. PICK j \in DOMAIN p : p[j] = i
      BY <2>1 DEF SamplesIn
    <3>2. j \in 1 .. Len(r) /\ j <= Len(p)
      BY <1>1, <1>3, <3>1
    <3>3. r[j] = p[j]
      BY <1>1, <3>2
    <3> QED
      BY <1>3, <3>1, <3>2, <3>3
  <2>2. CASE i \in SamplesIn(q)
    <3>1. PICK j \in DOMAIN q : q[j] = i
      BY <2>2 DEF SamplesIn
    <3>2. PICK k : k = Len(p) + j
      OBVIOUS
    <3>3. k \in 1 .. Len(r) /\ ~(k <= Len(p)) /\ k - Len(p) = j
      BY <1>1, <1>3, <3>1, <3>2
    <3> QED
      BY <1>1, <1>3, <3>1, <3>3
  <2> QED
    BY <1>4, <2>1, <2>2
<1> QED
  BY <1>2, <1>5 DEF Sealed, SamplesIn

LEMMA ExpiredPrefix ==
  ASSUME NEW q \in Seq(Nat), NEW cutoff, NEW old, old = Expired(q, cutoff)
  PROVE  /\ Cardinality(old) \in 0 .. Len(q)
         /\ \A j \in 1 .. Len(q) : j <= Cardinality(old) => Time(q[j]) < cutoff
<1>1. Len(q) \in Nat /\ DOMAIN q = 1 .. Len(q) /\ old \subseteq 1 .. Len(q)
  BY DEF Expired
<1>2. \A n \in Nat : IsFiniteSet(1 .. n) /\ Cardinality(1 .. n) = n
  <2>1. \A n \in Nat : 1 <= n + 1 /\ n - 1 + 1 = n
    OBVIOUS
  <2>2. ASSUME NEW n \in Nat
        PROVE  IsFiniteSet(1 .. n) /\ Cardinality(1 .. n) = n
    <3>1. /\ IsFiniteSet(1 .. n) /\ Cardinality(1 .. n) = IF 1 > n THEN 0 ELSE n - 1 + 1
      BY FS_Interval
    <3> QED
      BY <3>1
  <2> QED
    BY <2>2
<1>3. \A n \in Nat : old \subseteq 1 .. n => Cardinality(old) \in Nat /\ Cardinality(old) <= n
  BY <1>2, FS_Subset, FS_CardinalityType
<1>4. Cardinality(old) \in Nat /\ Cardinality(old) <= Len(q)
  BY <1>1, <1>3
<1>5. ASSUME NEW j \in 1 .. Len(q), j <= Cardinality(old)
      PROVE  j \in old
  <2>1. SUFFICES ASSUME j \notin old PROVE FALSE
    OBVIOUS
  <2>2. ASSUME NEW m \in old PROVE m \in 1 .. j - 1
    <3>1. m \in 1 .. Len(q) /\ \A x \in 1 .. m : samples[q[x]].time < cutoff
      BY <1>1, <2>2 DEF Expired
    <3>2. CASE m >= j
      <4>1. \A x \in 1 .. j : samples[q[x]].time < cutoff
        BY <1>1, <3>1, <3>2
      <4> QED
        BY <1>1, <2>1, <4>1 DEF Expired
    <3> QED
      BY <1>1, <3>1, <3>2
  <2>3. j - 1 \in Nat /\ old \subseteq 1 .. j - 1
    BY <1>1, <2>2
  <2>4. Cardinality(old) <= j - 1
    BY <1>3, <2>3
  <2> QED
    BY <1>1, <1>4, <1>5, <2>4
<1>6. \A j \in old : samples[q[j]].time < cutoff
  BY <1>1 DEF Expired
<1> QED
  BY <1>1, <1>4, <1>5, <1>6 DEF Time

(* An old sample stays old.                                                *)
LEMMA OldStays ==
  ASSUME TypeInv, PhaseInv, Alone, Alone', [Next]_vars,
         NEW i \in SampleIds, samples'[i].time = Time(i), Old(i)
  PROVE  Old(i)'
<1>1. /\ clock \in Nat /\ None \notin Nat /\ pc \in [Threads -> Labels] /\ PreSeconds \in Nat
      /\ loc \in [Threads -> Locals] /\ triggerTime \in Nat \cup {None}
  BY CaptureAssumption DEF TypeInv, CountersInv, HoldingInv
<1>2. Time(i) \in Nat /\ Time(i)' = Time(i)
  BY SamplesFacts DEF TypeInv, Sample, Time, Old
<1>3. CASE Quiet
  <2>1. clock' \in Nat
    BY StepCounters DEF CountersInv
  <2> QED
    BY <1>1, <1>2, <1>3, <2>1 DEF Quiet, Old
<1>4. ASSUME NEW t \in Threads, Lone(t), clock' = clock,
             Store(t) \/ Collides(t) \/ CaptureStep(t) \/ \E s \in Sensors : OnSample(t, s)
      PROVE  Old(i)'
  <2>1. PhaseOf(t) /\ (triggerTime # None => triggered /\ triggerTime <= clock)
    BY DEF PhaseInv
  <2>2. CASE Collides(t)
    <3>1. /\ ~triggered /\ triggered' /\ triggerTime' = triggerTime
          /\ loc' = [loc EXCEPT ![t] = [loc[t] EXCEPT !.time = clock]]
      BY <2>2 DEF Collides, OnCollision, Trigger
    <3>2. loc'[t].time = clock
      BY <1>1, <3>1 DEF Locals
    <3> QED
      BY <1>2, <1>4, <2>1, <3>1, <3>2 DEF Old, Lone
  <2>3. CASE Reset(t)
    <3>1. ~triggered' /\ triggerTime' = None /\ pc'[t] = "idle" /\ triggerTime # None
      BY <1>1, <2>1, <2>3 DEF Reset, Goto, At, PhaseOf, Ending
    <3> QED
      BY <1>1, <1>2, <1>4, <2>1, <3>1 DEF Old, Lone
  <2>4. CASE Arm(t)
    <3>1. triggered /\ triggered' = triggered /\ triggerTime' = loc[t].time /\ pc'[t] = "idle"
          /\ pc[t] = "arm"
      BY <1>1, <2>1, <2>4 DEF Arm, Return, Goto, At, PhaseOf
    <3> QED
      BY <1>2, <1>4, <3>1 DEF Old, Lone
  <2>5. CASE /\ (Store(t) \/ CaptureStep(t) \/ \E s \in Sensors : OnSample(t, s))
             /\ ~Reset(t) /\ ~Arm(t)
    <3>1. UNCHANGED <<triggered, triggerTime>> /\ pc'[t] # "arm"
      BY <1>1, <2>5 DEF Store, OnSample, CaptureStep, Stamp, AppendToBuffer, NeedDeque,
         InsertDeque, Evict, FindPostList, AppendToPost, FinalizeOrReturn, StartFinalize,
         ReadBuffers, ReadFails, Complete, Return, Goto, captureVars
    <3> QED
      BY <1>2, <1>4, <3>1 DEF Old, Lone
  <2> QED
    BY <1>4, <2>2, <2>3, <2>4, <2>5
<1> QED
  BY <1>3, <1>4, SerialCases

(* A sample that is carried by a callback stays so or gets into a list.    *)
LEMMA HeldStays ==
  ASSUME TypeInv, PhaseInv, NEW t \in Threads, pc[t] \in Pending, Store(t) \/ CaptureStep(t),
         NEW i, i = loc[t].sample
  PROVE  Held(i)' \/ Listed(i)'
<1> DEFINE s == SensorOf(t)
           n == loc[t].sample
<1>1. /\ pc \in [Threads -> Labels] /\ loc \in [Threads -> Locals] /\ Race(t)[t] = loc[t]
      /\ n \in SampleIds /\ s \in Sensors /\ PhaseOf(t) /\ SampleIds \subseteq Nat
  <2>1. n \in SampleIds /\ loc \in [Threads -> Locals] /\ pc \in [Threads -> Labels]
    BY DEF TypeInv, HoldingInv, Pending, Sampling, Labels
  <2> QED
    BY <2>1, SamplesFacts, RaceFacts DEF TypeInv, PhaseInv, Sample, SensorOf, SampleOf
<1>2. i = n
  OBVIOUS
<1>3. ASSUME pc'[t] \in Pending, loc'[t].sample = n
      PROVE  Held(i)'
  BY <1>2, <1>3 DEF Held
<1>4. CASE Store(t) \/ Stamp(t) \/ NeedDeque(t)
  <2>1. loc' = loc /\ pc'[t] \in {"stamp", "check", "insert"}
    BY <1>1, <1>4 DEF Store, Stamp, NeedDeque, Goto, historyVars
  <2> QED
    BY <1>2, <1>3, <2>1 DEF Pending
<1>5. CASE FindPostList(t)
  <2>1. pc'[t] = "appendPost" /\ loc'[t] = [loc[t] EXCEPT !.post = postList]
    BY <1>1, <1>5 DEF FindPostList, Goto, Race
  <2>2. loc'[t].sample = n
    BY <1>1, <2>1 DEF Locals
  <2> QED
    BY <1>2, <1>3, <2>1, <2>2 DEF Pending
<1>6. ListOf(buffer, s) \in Seq(SampleIds) /\ ListOf(post, s) \in Seq(SampleIds)
  BY ListTypes
<1> HIDE DEF s, n
<1>7. CASE AppendToBuffer(t)
  <2>1. s \in DOMAIN buffer /\ buffer' = [buffer EXCEPT ![s] = Append(@, n)]
    BY <1>7 DEF AppendToBuffer, s, n
  <2>2. ListOf(buffer', s) = Append(ListOf(buffer, s), n)
    BY <2>1 DEF ListOf
  <2>3. n \in SamplesIn(ListOf(buffer', s))
    BY <1>1, <1>6, <2>2, AppendIn
  <2> QED
    BY <1>1, <1>2, <2>3 DEF Listed, ListOf, n
<1>8. CASE InsertDeque(t)
  <2>1. buffer' = With(buffer, s, <<n>>)
    BY <1>8 DEF InsertDeque, s, n
  <2>2. ListOf(buffer', s) = <<n>>
    BY <2>1 DEF ListOf, With
  <2>3. n \in SamplesIn(ListOf(buffer', s))
    BY <2>2 DEF SamplesIn
  <2> QED
    BY <1>1, <1>2, <2>3 DEF Listed, ListOf, n
<1>9. CASE AppendToPost(t)
  <2>1. s \in DOMAIN post /\ post' = [post EXCEPT ![s] = Append(@, n)]
    BY <1>1, <1>9 DEF AppendToPost, At, PhaseOf, s, n
  <2>2. ListOf(post', s) = Append(ListOf(post, s), n)
    BY <2>1 DEF ListOf
  <2>3. n \in SamplesIn(ListOf(post', s))
    BY <1>1, <1>6, <2>2, AppendIn
  <2> QED
    BY <1>1, <1>2, <2>3 DEF Listed, ListOf, n
<1> QED
  BY <1>2, <1>4, <1>5, <1>7, <1>8, <1>9 DEF CaptureStep, n, Evict, FinalizeOrReturn,
     StartFinalize, ReadBuffers, ReadFails, Complete, Reset, Arm, At, Pending

(* What is evicted is older than the window of the next collision.         *)
LEMMA EvictDropsOld ==
  ASSUME TypeInv, StampInv, PhaseInv, NEW t \in Threads, Lone(t), Evict(t), NEW s,
         s = SensorOf(t), s \in DOMAIN buffer, NEW i \in SamplesIn(ListOf(buffer, s))
  PROVE  i \in SamplesIn(ListOf(buffer', s)) \/ Old(i)'
<1> DEFINE n == loc[t].sample
<1>1. /\ clock \in Nat /\ None \notin Nat /\ pc[t] = "evict" /\ pc'[t] = "idle"
      /\ UNCHANGED <<clock, triggered, triggerTime>> /\ ~triggered /\ triggerTime = None
      /\ PreSeconds \in Nat /\ n \in SampleIds
  <2>1. clock \in Nat /\ None \notin Nat /\ PreSeconds \in Nat /\ pc \in [Threads -> Labels]
    BY CaptureAssumption DEF TypeInv, CountersInv, HoldingInv
  <2>2. pc[t] = "evict" /\ pc'[t] = "idle" /\ UNCHANGED <<clock, triggered, triggerTime>>
    BY <2>1 DEF Evict, At, Goto
  <2>3. ~triggered /\ triggerTime = None
    BY <2>2 DEF PhaseInv, PhaseOf
  <2>4. n \in SampleIds
    BY <2>2 DEF TypeInv, HoldingInv, Sampling, Labels
  <2> QED
    BY <2>1, <2>2, <2>3, <2>4
<1>2. PICK q : q = ListOf(buffer, s)
  OBVIOUS
<1>3. q \in Seq(SampleIds) /\ q \in Seq(Nat)
  BY <1>2, ListTypes
<1>4. \A m \in SampleIds : Time(m) \in Nat /\ Time(m) <= clock
  <2>1. ASSUME NEW m \in SampleIds
        PROVE  Time(m) # None /\ Time(m) <= clock
    BY <1>1 DEF StampInv, Lone
  <2>2. \A m \in SampleIds : Time(m) \in Nat \cup {None}
    BY SamplesFacts DEF TypeInv, Sample, Time
  <2> QED
    BY <2>1, <2>2
<1>5. PICK cutoff : cutoff = Time(n) - PreSeconds
  OBVIOUS
<1>6. PICK old : old = Expired(q, cutoff)
  OBVIOUS
<1>7. buffer' = [buffer EXCEPT ![s] = SubSeq(@, 1 + Cardinality(old), Len(@))]
  BY <1>2, <1>5, <1>6 DEF Evict, SampleOf, Time
<1>8. q = buffer[s]
  BY <1>2 DEF ListOf
<1>9. ListOf(buffer', s) = SubSeq(q, 1 + Cardinality(old), Len(q))
  BY <1>7, <1>8 DEF ListOf
<1>10. /\ Cardinality(old) \in 0 .. Len(q)
       /\ \A j \in 1 .. Len(q) : j <= Cardinality(old) => Time(q[j]) < cutoff
  BY <1>3, <1>6, ExpiredPrefix
<1>11. PICK j \in DOMAIN q : q[j] = i
  BY <1>2 DEF SamplesIn
<1>12. PICK c, l : c = Cardinality(old) /\ l = Len(q)
  OBVIOUS
<1>13. l \in Nat /\ j \in 1 .. l /\ c \in 0 .. l /\ i \in SampleIds
  BY <1>3, <1>10, <1>11, <1>12
<1>14. CASE j <= c
  <2>1. Time(i) < cutoff
    BY <1>10, <1>11, <1>12, <1>13, <1>14
  <2>2. Time(n) \in Nat /\ Time(n) <= clock /\ Time(i) \in Nat
    BY <1>1, <1>4, <1>13
  <2>3. Time(i) < clock - PreSeconds
    BY <1>1, <1>5, <2>1, <2>2
  <2>4. Time(i)' = Time(i)
    BY DEF Evict, historyVars, Time
  <2>5. \A u \in Threads : pc'[u] = "idle"
    BY <1>1 DEF Lone
  <2> QED
    BY <1>1, <2>2, <2>3, <2>4, <2>5 DEF Old
<1>15. CASE ~(j <= c)
  <2>1. PICK r : r = SubSeq(q, 1 + c, l)
    OBVIOUS
  <2>2. 1 + c \in 1 .. l + 1 /\ 1 + c <= l /\ l - (1 + c) + 1 = l - c
    BY <1>13, <1>15
  <2>3. /\ r \in Seq(Nat) /\ Len(r) = l - c
        /\ \A m \in 1 .. l - c : r[m] = q[(1 + c) + m - 1]
    <3>1. 1 + c \in Int /\ l \in Int /\ \A m \in 1 + c .. l : q[m] \in Nat
      BY <1>3, <1>12, <1>13
    <3>2. /\ r \in Seq(Nat) /\ Len(r) = (IF 1 + c <= l THEN l - (1 + c) + 1 ELSE 0)
          /\ \A m \in 1 .. l - (1 + c) + 1 : r[m] = q[(1 + c) + m - 1]
      BY <2>1, <3>1, SubSeqProperties
    <3> QED
      BY <2>2, <3>2
  <2>4. j - c \in 1 .. l - c /\ (1 + c) + (j - c) - 1 = j
    BY <1>13, <1>15
  <2>5. r[j - c] = i /\ j - c \in DOMAIN r
    BY <1>11, <2>3, <2>4
  <2> QED
    BY <1>9, <1>12, <2>1, <2>5 DEF SamplesIn
<1> QED
  BY <1>13, <1>14, <1>15

(* A sample in a list stays in one, or is in an event, or is old.          *)
LEMMA ListedStays ==
  ASSUME TypeInv, StampInv, PhaseInv, CopyInv, NEW t \in Threads, Lone(t),
         Store(t) \/ Collides(t) \/ CaptureStep(t) \/ \E r \in Sensors : OnSample(t, r),
         NEW i, Listed(i)
  PROVE  Listed(i)' \/ InEvent(i)' \/ Old(i)'
<1> DEFINE r == SensorOf(t)
           n == loc[t].sample
<1>1. PICK s \in Sensors : i \in SamplesIn(ListOf(buffer, s)) \cup SamplesIn(ListOf(post, s))
  BY DEF Listed
<1>2. ASSUME i \in SamplesIn(ListOf(buffer', s)) \cup SamplesIn(ListOf(post', s))
      PROVE  Listed(i)'
  BY <1>2 DEF Listed, ListOf
<1>3. CASE SameLists(s)
  BY <1>1, <1>2, <1>3 DEF SameLists
<1>4. /\ ListOf(buffer, s) \in Seq(SampleIds) /\ ListOf(post, s) \in Seq(SampleIds)
      /\ ListOf(buffer, s) \in Seq(Nat) /\ ListOf(post, s) \in Seq(Nat)
      /\ pc \in [Threads -> Labels]
  BY ListTypes DEF TypeInv, HoldingInv
<1>5. SamplesIn(<<>>) = {}
  BY DEF SamplesIn
<1>6. CASE UNCHANGED <<buffer, post>>
  BY <1>3, <1>6 DEF SameLists
<1>7. CASE FindPostList(t)
  <2>1. buffer' = buffer /\ post' = With(post, SensorOf(t), ListOf(post, SensorOf(t)))
    BY <1>7 DEF FindPostList
  <2> QED
    BY <1>3, <2>1 DEF SameLists, ListOf, With
<1>8. n \in SampleIds \/ pc[t] \notin Sampling
  BY DEF TypeInv, HoldingInv
<1> HIDE DEF r, n
<1>9. CASE AppendToBuffer(t)
  <2>1. r \in DOMAIN buffer /\ buffer' = [buffer EXCEPT ![r] = Append(@, n)] /\ post' = post
        /\ pc[t] = "check"
    BY <1>9 DEF AppendToBuffer, At, r, n
  <2>2. ListOf(buffer', s) = IF s = r THEN Append(ListOf(buffer, s), n) ELSE ListOf(buffer, s)
    BY <2>1 DEF ListOf
  <2>3. n \in SampleIds
    BY <1>8, <2>1 DEF Sampling, Labels
  <2>4. SamplesIn(ListOf(buffer, s)) \subseteq SamplesIn(ListOf(buffer', s))
    BY <1>4, <2>2, <2>3, AppendIn
  <2> QED
    BY <1>1, <1>2, <2>1, <2>4
<1>10. CASE InsertDeque(t)
  <2>1. r \notin DOMAIN buffer /\ buffer' = With(buffer, r, <<n>>) /\ post' = post
    BY <1>10 DEF InsertDeque, At, PhaseInv, PhaseOf, r, n
  <2>2. CASE s = r
    BY <1>1, <1>2, <1>5, <2>1, <2>2 DEF ListOf
  <2>3. CASE s # r
    BY <1>3, <2>1, <2>3 DEF SameLists, ListOf, With
  <2> QED
    BY <2>2, <2>3
<1>11. CASE Evict(t)
  <2>1. post' = post /\ (r \notin DOMAIN buffer => buffer' = buffer)
        /\ (r \in DOMAIN buffer => \E q : buffer' = [buffer EXCEPT ![r] = q])
    BY <1>11 DEF Evict, r
  <2>2. CASE s = r /\ s \in DOMAIN buffer /\ i \in SamplesIn(ListOf(buffer, s))
    <3>1. s = SensorOf(t)
      BY <2>2 DEF r
    <3> QED
      BY <1>2, <1>11, <2>2, <3>1, EvictDropsOld
  <2>3. CASE i \in SamplesIn(ListOf(post, s))
    BY <1>2, <2>1, <2>3
  <2>4. CASE s # r \/ s \notin DOMAIN buffer
    BY <1>3, <2>1, <2>4 DEF SameLists, ListOf
  <2> QED
    BY <1>1, <2>2, <2>3, <2>4
<1>12. CASE AppendToPost(t)
  <2>1. /\ r \in DOMAIN post /\ post' = [post EXCEPT ![r] = Append(@, n)] /\ buffer' = buffer
        /\ pc[t] = "appendPost"
    BY <1>12 DEF AppendToPost, At, PhaseInv, PhaseOf, r, n
  <2>2. ListOf(post', s) = IF s = r THEN Append(ListOf(post, s), n) ELSE ListOf(post, s)
    BY <2>1 DEF ListOf
  <2>3. n \in SampleIds
    BY <1>8, <2>1 DEF Sampling, Labels
  <2>4. SamplesIn(ListOf(post, s)) \subseteq SamplesIn(ListOf(post', s))
    BY <1>4, <2>2, <2>3, AppendIn
  <2> QED
    BY <1>1, <1>2, <2>1, <2>4
<1>13. CASE Arm(t)
  <2>1. buffer' = buffer /\ pc[t] = "arm"
    BY <1>13 DEF Arm, At
  <2>2. ListOf(post, s) = <<>>
    BY <2>1 DEF PhaseInv, PhaseOf
  <2> QED
    BY <1>1, <1>2, <1>5, <2>1, <2>2
<1>14. CASE Reset(t)
  <2>1. pc[t] = "reset" /\ sealed' = sealed
    BY <1>14 DEF Reset, At, historyVars
  <2>2. Len(sealed) > 0 /\ Holds(sealed[Len(sealed)], s)
    BY <2>1 DEF CopyInv
  <2>3. PICK e : e = sealed[Len(sealed)]
    OBVIOUS
  <2>4. e.pre[s] = ListOf(buffer, s) /\ e.tail[s] = ListOf(post, s)
    BY <2>2, <2>3 DEF Holds
  <2>5. i \in Sealed(e)
    BY <1>1, <1>4, <2>4, InWindow
  <2>6. Len(sealed) \in DOMAIN sealed
    BY <2>2 DEF TypeInv, EventsInv
  <2>7. \E k \in DOMAIN sealed' : i \in Sealed(sealed'[k])
    BY <2>1, <2>3, <2>5, <2>6
  <2>8. InEvent(i)'
    BY <2>7 DEF InEvent, Sealed, Window, SamplesIn
  <2> QED
    BY <2>8
<1>15. CASE \/ Store(t) \/ Collides(t) \/ Stamp(t) \/ NeedDeque(t) \/ FinalizeOrReturn(t)
            \/ StartFinalize(t) \/ ReadBuffers(t) \/ ReadFails(t) \/ Complete(t)
            \/ \E q \in Sensors : OnSample(t, q)
  <2>1. UNCHANGED <<buffer, post>>
    BY <1>15 DEF Store, Collides, OnCollision, Trigger, Stamp, NeedDeque, FinalizeOrReturn,
       StartFinalize, ReadBuffers, ReadFails, Complete, OnSample, captureVars
  <2> QED
    BY <1>6, <2>1
<1> QED
  BY <1>7, <1>9, <1>10, <1>11, <1>12, <1>13, <1>14, <1>15 DEF CaptureStep

LEMMA InEventStays ==
  ASSUME TypeInv, [Next]_vars, NEW i, InEvent(i)
  PROVE  InEvent(i)'
<1>1. PICK k \in DOMAIN sealed : i \in Sealed(sealed[k])
  BY DEF InEvent
<1>2. k \in DOMAIN sealed' /\ sealed'[k] = sealed[k]
  BY EventsGrow
<1>3. \E j \in DOMAIN sealed' : i \in Sealed(sealed'[j])
  BY <1>1, <1>2
<1> QED
  BY <1>3 DEF InEvent, Sealed, Window, SamplesIn

LEMMA StepKept ==
  ASSUME TypeInv, StampInv, PhaseInv, CopyInv, KeptInv, Alone, Alone', [Next]_vars
  PROVE  KeptInv'
<1>1. CASE Quiet /\ TimesKept
  <2>1. SUFFICES ASSUME NEW i \in SampleIds
                 PROVE  Held(i)' \/ Listed(i)' \/ InEvent(i)' \/ Old(i)'
    BY <1>1 DEF KeptInv, TimesKept
  <2>2. Held(i) => Held(i)'
    BY <1>1 DEF Quiet, Held
  <2>3. Listed(i) => Listed(i)'
    BY <1>1 DEF Quiet, Listed, ListOf
  <2>4. samples'[i].time = Time(i)
    BY <1>1 DEF TimesKept, Time
  <2> QED
    BY <2>2, <2>3, <2>4, InEventStays, OldStays DEF KeptInv
<1>2. ASSUME NEW t \in Threads, Lone(t), clock' = clock,
             Store(t) \/ Collides(t) \/ CaptureStep(t) \/ \E s \in Sensors : OnSample(t, s)
      PROVE  KeptInv'
  <2>1. SUFFICES ASSUME NEW i \in SampleIds'
                 PROVE  Held(i)' \/ Listed(i)' \/ InEvent(i)' \/ Old(i)'
    BY DEF KeptInv
  <2>2. CASE i \notin SampleIds
    <3>1. \E s \in Sensors : OnSample(t, s)
      BY <1>2, <2>2, TimesOfStep DEF TimesKept
    <3>2. pc'[t] = "store" /\ i = loc'[t].sample
      BY <1>2, <2>2, <3>1, TimesOfStep
    <3> QED
      BY <3>2 DEF Held, Pending
  <2>3. CASE i \in SampleIds /\ Held(i)
    <3>1. pc[t] \in Pending /\ i = loc[t].sample
      BY <1>2, <2>3 DEF Held, Lone, Pending
    <3>2. Store(t) \/ CaptureStep(t)
      BY <1>2, <3>1 DEF Collides, OnCollision, OnSample, At, Pending
    <3> QED
      BY <3>1, <3>2, HeldStays
  <2>4. CASE i \in SampleIds /\ ~Held(i) /\ Old(i)
    <3>1. samples'[i].time = Time(i)
      <4>1. CASE Stamp(t)
        <5>1. i # loc[t].sample
          BY <2>4, <4>1 DEF Stamp, At, Held, Pending
        <5> QED
          BY <1>2, <2>4, <4>1, <5>1, TimesOfStep
      <4>2. CASE ~Stamp(t)
        BY <1>2, <2>4, <4>2, TimesOfStep DEF Time
      <4> QED
        BY <4>1, <4>2
    <3> QED
      BY <2>4, <3>1, OldStays
  <2> QED
    BY <1>2, <2>2, <2>3, <2>4, ListedStays, InEventStays DEF KeptInv
<1> QED
  BY <1>1, <1>2, SerialCases

(* A step takes a time only from the clock.                                *)
LEMMA TimesFromClock ==
  ASSUME TypeInv, Alone, Alone', [Next]_vars
  PROVE  /\ clock \in Nat /\ clock' \in Nat /\ clock <= clock'
         /\ \A i \in SampleIds' : \/ i \in SampleIds /\ samples'[i].time = Time(i)
                                  \/ samples'[i].time \in {None, clock}
<1>1. clock \in Nat /\ clock' \in Nat
  BY StepCounters DEF TypeInv, CountersInv
<1>2. CASE Quiet /\ TimesKept
  BY <1>1, <1>2 DEF Quiet, TimesKept, Time
<1>3. ASSUME NEW t \in Threads, clock' = clock,
             Store(t) \/ Collides(t) \/ CaptureStep(t) \/ \E s \in Sensors : OnSample(t, s)
      PROVE  \A i \in SampleIds' : \/ i \in SampleIds /\ samples'[i].time = Time(i)
                                   \/ samples'[i].time \in {None, clock}
  BY <1>3, TimesOfStep DEF TimesKept, Time
<1> QED
  BY <1>1, <1>2, <1>3, SerialCases

(* The event that is completed holds what is in the lists.                 *)
LEMMA CompleteEvent ==
  ASSUME TypeInv, CopyInv, NEW t \in Threads, Complete(t), NEW k \in DOMAIN sealed',
         k \notin DOMAIN sealed
  PROVE  /\ k = Len(sealed) + 1 /\ sealed'[k].time = loc[t].time
         /\ \A i : Listed(i) => i \in Sealed(sealed'[k])
<1> DEFINE e == [time |-> loc[t].time, pre |-> loc[t].pre, tail |-> loc[t].tail]
<1>1. sealed \in Seq(Event) /\ Len(sealed) \in Nat
  BY DEF TypeInv, EventsInv
<1>2. sealed' = Append(sealed, e) /\ pc[t] = "complete"
  BY DEF Complete, At
<1>3. /\ e \in Event /\ e.time = loc[t].time /\ e.pre = loc[t].pre
      /\ e.tail = loc[t].tail
  BY DEF TypeInv, HoldingInv, Locals, Event
<1> HIDE DEF e
<1>4. sealed' \in Seq(Event) /\ Len(sealed') = Len(sealed) + 1 /\ sealed'[Len(sealed) + 1] = e
  BY <1>1, <1>2, <1>3, AppendProperties
<1>5. k = Len(sealed) + 1
  BY <1>1, <1>4
<1>6. ASSUME NEW i, Listed(i)
      PROVE  i \in Sealed(e)
  <2>1. PICK s \in Sensors : i \in SamplesIn(ListOf(buffer, s)) \cup SamplesIn(ListOf(post, s))
    BY <1>6 DEF Listed
  <2>2. e.pre[s] = ListOf(buffer, s) /\ e.tail[s] = ListOf(post, s)
    BY <1>2, <1>3 DEF CopyInv, Holds
  <2>3. ListOf(buffer, s) \in Seq(Nat) /\ ListOf(post, s) \in Seq(Nat)
    BY ListTypes
  <2> QED
    BY <2>1, <2>2, <2>3, InWindow
<1> QED
  BY <1>3, <1>4, <1>5, <1>6

LEMMA StepWindows ==
  ASSUME TypeInv, StampInv, PhaseInv, CopyInv, KeptInv, WindowsInv, Alone, Alone', [Next]_vars
  PROVE  WindowsInv'
<1>1. /\ None \notin Nat /\ pc \in [Threads -> Labels] /\ PreSeconds \in Nat /\ PostSeconds \in Nat
      /\ clock \in Nat /\ clock' \in Nat /\ clock <= clock' /\ triggerTime \in Nat \cup {None}
  BY CaptureAssumption, TimesFromClock DEF TypeInv, CountersInv, HoldingInv
<1>2. \A i \in SampleIds : Time(i) \in Nat \cup {None}
  BY SamplesFacts DEF TypeInv, Sample, Time
<1>3. /\ Len(sealed) \in Nat /\ DOMAIN sealed = 1 .. Len(sealed)
      /\ \A j \in DOMAIN sealed : sealed'[j] = sealed[j]
  BY EventsGrow
<1>4. \A j \in DOMAIN sealed : sealed[j].time \in Nat
  <2>1. sealed \in Seq(Event) /\ \A e \in Event : e.time \in Nat
    BY DEF TypeInv, EventsInv, Event
  <2> QED
    BY <2>1
<1> DEFINE Inside(i, time) == /\ samples'[i].time # None
                              /\ samples'[i].time >= time - PreSeconds
                              /\ samples'[i].time < time + PostSeconds
<1>5. SUFFICES ASSUME NEW k \in DOMAIN sealed'
               PROVE  /\ sealed'[k].time + PostSeconds <= clock'
                      /\ \A i \in SampleIds' : Inside(i, sealed'[k].time) =>
                           \E j \in 1 .. k : i \in Sealed(sealed'[j])
  BY DEF WindowsInv, Time, Sealed, Window, SamplesIn
<1> HIDE DEF Inside
<1>6. CASE k \in DOMAIN sealed
  <2>1. PICK time : time = sealed[k].time
    OBVIOUS
  <2>2. time \in Nat /\ time + PostSeconds <= clock /\ sealed'[k].time = time
    BY <1>3, <1>4, <1>6, <2>1 DEF WindowsInv
  <2>3. ASSUME NEW i \in SampleIds', Inside(i, time)
        PROVE  \E j \in 1 .. k : i \in Sealed(sealed'[j])
    <3>1. i \in SampleIds /\ samples'[i].time = Time(i)
      BY <1>1, <2>2, <2>3, TimesFromClock DEF Inside
    <3>2. PICK j \in 1 .. k : i \in Sealed(sealed[j])
      BY <1>6, <2>1, <2>3, <3>1 DEF WindowsInv, Inside
    <3>3. j \in DOMAIN sealed
      BY <1>3, <1>6
    <3> QED
      BY <1>3, <3>2, <3>3
  <2> QED
    BY <1>1, <2>2, <2>3
<1>7. CASE k \notin DOMAIN sealed
  <2>1. PICK t \in Threads : Complete(t)
    <3>1. sealed' # sealed
      BY <1>7
    <3> QED
      BY <3>1, TouchesEvents DEF CopyEvents, ClearEvents, Elsewhere, historyVars
  <2>2. k = Len(sealed) + 1 /\ sealed'[k].time = loc[t].time
        /\ \A i : Listed(i) => i \in Sealed(sealed'[k])
    BY <1>7, <2>1, CompleteEvent
  <2>3. pc[t] = "complete" /\ samples' = samples /\ \A u \in Threads \ {t} : pc[u] = "idle"
    BY <2>1 DEF Complete, At, Alone
  <2>4. triggerTime \in Nat /\ loc[t].time = triggerTime /\ triggerTime + PostSeconds <= clock
    BY <1>1, <2>3 DEF PhaseInv, PhaseOf, Ending
  <2>5. ASSUME NEW i \in SampleIds', Inside(i, triggerTime)
        PROVE  \E j \in 1 .. k : i \in Sealed(sealed'[j])
    <3>1. i \in SampleIds /\ samples'[i].time = Time(i)
      BY <2>3 DEF SampleIds, Time
    <3>2. ~Held(i)
      BY <2>3 DEF Held, Pending
    <3>3. ~Old(i)
      BY <1>1, <1>2, <2>4, <2>5, <3>1 DEF Old, Inside
    <3>4. CASE Listed(i)
      BY <1>3, <2>2, <3>4
    <3>5. CASE InEvent(i)
      BY <1>3, <2>2, <3>5 DEF InEvent
    <3> QED
      BY <3>1, <3>2, <3>3, <3>4, <3>5 DEF KeptInv
  <2> QED
    BY <1>1, <2>2, <2>4, <2>5
<1> QED
  BY <1>6, <1>7

LEMMA SerialStarts == Init => Alone /\ SerialInv
<1>1. SUFFICES ASSUME Init PROVE Alone /\ SerialInv
  OBVIOUS
<1>2. /\ samples = <<>> /\ sealed = <<>> /\ collisions = 0 /\ clock = 0
      /\ triggered = FALSE /\ triggerTime = None /\ pc = [t \in Threads |-> "idle"]
  BY <1>1 DEF Init, CaptureInit
<1>3. SampleIds = {} /\ DOMAIN sealed = {} /\ Len(sealed) = 0 /\ \A t \in Threads : pc[t] = "idle"
  BY <1>2 DEF SampleIds
<1>4. StampInv /\ KeptInv /\ WindowsInv /\ CopyInv
  BY <1>3 DEF StampInv, KeptInv, WindowsInv, CopyInv
<1>5. PhaseInv
  BY <1>2, <1>3 DEF PhaseInv, PhaseOf, Ending
<1>6. CountInv
  BY <1>2, <1>3 DEF CountInv
<1>7. Alone
  BY <1>3 DEF Alone, At
<1> QED
  BY <1>4, <1>5, <1>6, <1>7 DEF SerialInv

LEMMA StepSerial ==
  ASSUME TypeInv, OrderInv, Alone, SerialInv, Alone', [Next]_vars
  PROVE  SerialInv'
<1>1. PostInv /\ StampInv /\ PhaseInv /\ CountInv /\ CopyInv /\ KeptInv /\ WindowsInv
  BY DEF OrderInv, SerialInv
<1>2. StampInv' /\ PhaseInv' /\ CountInv' /\ CopyInv' /\ KeptInv' /\ WindowsInv'
  BY <1>1, StepStamp, StepPhase, StepCount, StepCopy, StepKept, StepWindows
<1> QED
  BY <1>2 DEF SerialInv

(* The plan "capture" is the one in which callbacks do not overlap.        *)
LEMMA PlanIsSerial ==
  ASSUME plan' = "capture", Within(PlanOf[plan])'
  PROVE  Alone'
<1>1. SUFFICES ASSUME NEW t \in Threads, NEW u \in Threads, t # u, pc'[t] # "idle", pc'[u] # "idle"
               PROVE  FALSE
  BY DEF Alone, At
<1> DEFINE busy == {w \in Threads : pc'[w] # "idle"}
<1>2. Cardinality(busy) <= 1 /\ IsFiniteSet(busy) /\ {t, u} \subseteq busy
  <2>1. IsFiniteSet(busy)
    BY CaptureAssumption, FS_Subset
  <2> QED
    BY <1>1, <2>1 DEF Within, At
<1> HIDE DEF busy
<1>3. Cardinality({t, u}) <= Cardinality(busy) /\ Cardinality(busy) \in Nat
  BY <1>2, FS_Subset, FS_CardinalityType
<1>4. Cardinality({t, u}) = 2
  <2>1. IsFiniteSet({t}) /\ Cardinality({t}) = 1
    BY FS_Singleton
  <2>2. u \notin {t} /\ {t} \cup {u} = {t, u}
    BY <1>1
  <2> QED
    BY <2>1, <2>2, FS_AddElement
<1> QED
  BY <1>2, <1>3, <1>4

(* What the adapter does under a plan, its specification allows.           *)
LEMMA PlansAreRuns == PlanSpec => Spec
<1>1. PlanInit => Init
  BY DEF PlanInit
<1>2. [PlanNext]_<<vars, plan>> => [Next]_vars
  BY DEF PlanNext
<1> QED
  BY <1>1, <1>2, PTL DEF PlanSpec, Spec

(* An event that is sealed is in order, whichever threads take part; and   *)
(* when the callbacks run one after the other, each collision is sealed    *)
(* at most once and no sample of its window is missing from the event      *)
(* (SealedEventCapture.trigger, append and _finalize_event).               *)
THEOREM CapturesAreWhole == PlanSpec => []CaptureSound
<1> DEFINE Serial == plan = "capture" => Alone /\ SerialInv
<1>1. PlanInit => Serial
  BY SerialStarts DEF PlanInit
<1>2. ASSUME TypeInv, OrderInv, Serial, [PlanNext]_<<vars, plan>>
      PROVE  Serial'
  <2>1. SUFFICES ASSUME plan' = "capture" PROVE Alone' /\ SerialInv'
    OBVIOUS
  <2>2. plan = "capture" /\ [Next]_vars
    BY <1>2, <2>1 DEF PlanNext
  <2>3. Alone'
    <3>1. CASE PlanNext
      <4>1. Within(PlanOf[plan])'
        BY <3>1 DEF PlanNext
      <4> QED
        BY <2>1, <4>1, PlanIsSerial
    <3>2. CASE UNCHANGED <<vars, plan>>
      BY <1>2, <2>2, <3>2 DEF vars, Alone, At
    <3> QED
      BY <1>2, <3>1, <3>2
  <2> QED
    BY <1>2, <2>2, <2>3, StepSerial
<1>3. ASSUME EventOrdered, Serial
      PROVE  CaptureSound
  <2>1. SerialInv => OneEventPerCollision /\ WindowComplete
    <3>1. CountInv => OneEventPerCollision
      BY DEF CountInv, OneEventPerCollision
    <3>2. WindowsInv => WindowComplete
      BY DEF WindowsInv, WindowComplete, Time
    <3> QED
      BY <3>1, <3>2 DEF SerialInv
  <2> QED
    BY <1>3, <2>1 DEF CaptureSound
<1> HIDE DEF Serial
<1>4. PlanSpec => Spec
  BY PlansAreRuns
<1>5. PlanSpec => [](TypeInv /\ OrderInv)
  BY <1>4, OrderAlways, PTL
<1>6. PlanSpec => []EventOrdered
  BY <1>4, EventsInOrder, PTL
<1>7. PlanSpec => []Serial
  BY <1>1, <1>2, <1>5, PTL DEF PlanSpec
<1> QED
  BY <1>3, <1>6, <1>7, PTL
=============================================================================
