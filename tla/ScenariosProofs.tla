-------------------------- MODULE ScenariosProofs --------------------------
(***************************************************************************)
(* Proofs about the scenario scripts, for any sensors, traffic, sizes,     *)
(* intervals and bounds.  The urban drive never loses the newest reading   *)
(* of a sensor; that a reading is kept by whoever takes it out of a queue  *)
(* is not inductive: the last one of a queue must be known to be the       *)
(* newest, and a batch to have no entry yet for a queue still to be        *)
(* drained.  The sealed event demonstration seals what its ring must then  *)
(* hold.  Both leave nothing behind unless their clean-up fails.           *)
(***************************************************************************)
EXTENDS MCScenarios, SequenceTheorems, TLAPS

-----------------------------------------------------------------------------
(* The readings of the urban drive.                                        *)

QueueTypes ==
  /\ queues \in [Sensors -> Seq(Nat)]
  /\ hand \in [Sensors -> Nat] /\ made \in [Sensors -> Nat]
  /\ batch \in [Sensors -> Nat] /\ reported \in [Sensors -> Nat]
  /\ stage \in [Sensors -> {"idle", "drop", "put"}]
  /\ latest \in Nat /\ draining \in DOMAIN SensorOrder

(* Where the newest reading is, its queue being empty.                     *)
Elsewhere(s) ==
  \/ made[s] \in {0, batch[s]}
  \/ /\ made[s] = reported[s] /\ batch[s] = 0
     /\ s = SensorOrder[draining] => latest = 0
  \/ s = SensorOrder[draining] /\ latest = made[s]
  \/ stage[s] = "put"

QueueInv(s) ==
  /\ Len(queues[s]) <= MaxSize
  /\ stage[s] = "put" => Len(queues[s]) < MaxSize
  /\ stage[s] # "idle" => hand[s] = made[s] + 1
  /\ queues[s] # <<>> => queues[s][Len(queues[s])] = made[s]
  /\ queues[s] = <<>> => Elsewhere(s)

(* Nothing is half drained between two batches, and a batch has no entry   *)
(* for a sensor whose turn is still to come.                               *)
DrainInv ==
  /\ phase # "drain" => latest = 0 /\ draining = 1
  /\ phase # "send" =>
       \A i \in DOMAIN SensorOrder : i >= draining => batch[SensorOrder[i]] = 0

ReadingsInv == QueueTypes /\ DrainInv /\ \A s \in Sensors : QueueInv(s)

-----------------------------------------------------------------------------
LEMMA OrderFacts ==
  ASSUME UrbanAssumption
  PROVE  /\ Len(SensorOrder) \in Nat /\ DOMAIN SensorOrder = 1 .. Len(SensorOrder)
         /\ 1 \in DOMAIN SensorOrder
         /\ \A i \in DOMAIN SensorOrder : SensorOrder[i] \in Sensors
<1>1. SensorOrder \in Seq(Sensors) /\ \E i \in DOMAIN SensorOrder : SensorOrder[i] = Collision
  BY DEF UrbanAssumption
<1> QED BY <1>1

(* Taking the first reading out, and putting one in.                       *)
LEMMA TailFacts ==
  ASSUME NEW q \in Seq(Nat), q # <<>>
  PROVE  /\ Head(q) \in Nat /\ Tail(q) \in Seq(Nat)
         /\ Len(q) \in Nat \ {0} /\ Len(Tail(q)) = Len(q) - 1
         /\ Tail(q) # <<>> => Tail(q)[Len(Tail(q))] = q[Len(q)]
         /\ Tail(q) = <<>> => q[Len(q)] = Head(q)
<1>1. Head(q) = q[1] /\ Head(q) \in Nat /\ Tail(q) \in Seq(Nat)
  OBVIOUS
<1>2. Len(q) \in Nat \ {0} /\ Len(Tail(q)) = Len(q) - 1
  OBVIOUS
<1>3. ASSUME Tail(q) # <<>> PROVE Tail(q)[Len(Tail(q))] = q[Len(q)]
  <2>1. Len(Tail(q)) >= 1
    BY <1>1, <1>3
  <2>2. Tail(q)[Len(Tail(q))] = q[Len(Tail(q)) + 1]
    BY <1>2, <2>1
  <2>3. Len(Tail(q)) + 1 = Len(q)
    BY <1>2
  <2> QED BY <2>2, <2>3
<1>4. ASSUME Tail(q) = <<>> PROVE Len(q) = 1
  <2>1. Len(<<>>) = 0
    OBVIOUS
  <2>2. 0 = Len(q) - 1
    BY <1>2, <1>4, <2>1
  <2>3. \A n \in Nat : 0 = n - 1 => n = 1
    OBVIOUS
  <2>4. Len(q) \in Nat
    BY <1>2
  <2> QED BY <2>2, <2>3, <2>4
<1> QED BY <1>1, <1>2, <1>3, <1>4

LEMMA AppendFacts ==
  ASSUME NEW q \in Seq(Nat), NEW n \in Nat
  PROVE  /\ Append(q, n) \in Seq(Nat) /\ Len(Append(q, n)) = Len(q) + 1
         /\ Append(q, n) # <<>> /\ Append(q, n)[Len(Append(q, n))] = n
<1>1. Append(q, n) \in Seq(Nat) /\ Len(Append(q, n)) = Len(q) + 1 /\ Len(q) \in Nat
  OBVIOUS
<1>2. Append(q, n)[Len(q) + 1] = n
  OBVIOUS
<1> QED BY <1>1, <1>2

LEMMA InitReadings == UrbanAssumption /\ Init => ReadingsInv
<1> SUFFICES ASSUME UrbanAssumption, Init PROVE ReadingsInv
  OBVIOUS
<1>1. MaxSize \in Nat /\ MaxSize > 0
  BY DEF UrbanAssumption
<1>2. QueueTypes
  BY OrderFacts DEF Init, QueueTypes
<1>3. DrainInv
  BY OrderFacts DEF Init, DrainInv
<1>4. \A s \in Sensors : QueueInv(s)
  BY <1>1 DEF Init, QueueInv, Elsewhere
<1> QED BY <1>2, <1>3, <1>4 DEF ReadingsInv

(* The steps that only move the main thread, in or out of no batch.        *)
LEMMA FrameReadings ==
  ASSUME ReadingsInv, UNCHANGED <<queues, callbackVars, draining, latest, batch, reported>>,
         phase' # phase => phase \notin {"drain", "send"} /\ phase' # "send"
  PROVE  ReadingsInv'
<1>1. UNCHANGED <<queues, hand, stage, made, draining, latest, batch, reported>>
  BY DEF callbackVars
<1>2. QueueTypes'
  BY <1>1 DEF ReadingsInv, QueueTypes
<1>3. DrainInv'
  BY <1>1 DEF ReadingsInv, DrainInv
<1>4. ASSUME NEW s \in Sensors PROVE QueueInv(s)'
  BY <1>1 DEF ReadingsInv, QueueInv, Elsewhere
<1> QED BY <1>2, <1>3, <1>4 DEF ReadingsInv

-----------------------------------------------------------------------------
(* The callbacks. *)
LEMMA NewReadingInv ==
  ASSUME UrbanAssumption, ReadingsInv, NEW s \in Sensors, NewReading(s)
  PROVE  ReadingsInv'
<1> DEFINE next == IF Len(queues[s]) = MaxSize THEN "drop" ELSE "put"
<1>a. /\ hand' = [hand EXCEPT ![s] = made[s] + 1] /\ stage' = [stage EXCEPT ![s] = next]
      /\ UNCHANGED <<queues, made, batch, reported, latest, draining, phase>>
  BY DEF NewReading, drainVars
<1>b. made[s] + 1 \in Nat /\ next \in {"idle", "drop", "put"}
  <2>1. made[s] \in Nat
    BY DEF ReadingsInv, QueueTypes
  <2> QED BY <2>1
<1>1. QueueTypes'
  <2> HIDE DEF next
  <2> QED BY <1>a, <1>b DEF ReadingsInv, QueueTypes
<1>2. DrainInv'
  BY <1>a DEF ReadingsInv, DrainInv
<1>3. ASSUME NEW x \in Sensors PROVE QueueInv(x)'
  <2>1. QueueInv(x) /\ Len(queues[x]) \in Nat /\ MaxSize \in Nat /\ made[x] \in Nat
    BY DEF ReadingsInv, QueueTypes, UrbanAssumption
  <2>2. UNCHANGED <<queues, made, batch, reported, latest, draining>>
    BY DEF NewReading, drainVars
  <2>3. CASE x = s
    <3>1. hand'[s] = made[s] + 1 /\ stage[s] = "idle"
      BY DEF NewReading, ReadingsInv, QueueTypes
    <3>2. stage'[s] = IF Len(queues[s]) = MaxSize THEN "drop" ELSE "put"
      BY DEF NewReading, ReadingsInv, QueueTypes
    <3> QED BY <2>1, <2>2, <2>3, <3>1, <3>2 DEF QueueInv, Elsewhere
  <2>4. CASE x # s
    <3>1. hand'[x] = hand[x] /\ stage'[x] = stage[x]
      BY <2>4 DEF NewReading, ReadingsInv, QueueTypes
    <3> QED BY <2>1, <2>2, <3>1 DEF QueueInv, Elsewhere
  <2> QED BY <2>3, <2>4
<1> QED BY <1>1, <1>2, <1>3 DEF ReadingsInv

LEMMA DropOldestInv ==
  ASSUME UrbanAssumption, ReadingsInv, NEW s \in Sensors, DropOldest(s)
  PROVE  ReadingsInv'
<1> DEFINE rest == IF queues[s] = <<>> THEN queues[s] ELSE Tail(queues[s])
<1>1. queues' = [queues EXCEPT ![s] = rest] /\ stage' = [stage EXCEPT ![s] = "put"]
  BY DEF DropOldest
<1>2. queues[s] \in Seq(Nat)
  BY DEF ReadingsInv, QueueTypes
<1>3. /\ rest \in Seq(Nat)
      /\ queues[s] = <<>> => rest = <<>>
      /\ queues[s] # <<>> => Len(rest) = Len(queues[s]) - 1
      /\ rest # <<>> => rest[Len(rest)] = queues[s][Len(queues[s])]
  BY <1>2, TailFacts
<1>4. UNCHANGED <<hand, made, batch, reported, latest, draining, phase>> /\ stage[s] = "drop"
  BY DEF DropOldest, drainVars
<1> HIDE DEF rest
<1>5. QueueTypes'
  BY <1>1, <1>3, <1>4 DEF ReadingsInv, QueueTypes
<1>6. DrainInv'
  BY <1>4 DEF ReadingsInv, DrainInv
<1>7. ASSUME NEW x \in Sensors PROVE QueueInv(x)'
  <2>1. QueueInv(x) /\ Len(queues[x]) \in Nat /\ MaxSize \in Nat \ {0}
    BY DEF ReadingsInv, QueueTypes, UrbanAssumption
  <2>2. CASE x = s
    <3>1. queues'[s] = rest /\ stage'[s] = "put"
      BY <1>1 DEF ReadingsInv, QueueTypes
    <3>2. Len(<<>>) = 0
      OBVIOUS
    <3>3. hand[s] = made[s] + 1 /\ Len(rest) < MaxSize
      BY <1>3, <1>4, <2>1, <2>2, <3>2, SMTT(30) DEF QueueInv
    <3>4. rest # <<>> => rest[Len(rest)] = made[s]
      BY <1>3, <2>1, <2>2 DEF QueueInv
    <3>5. Len(rest) <= MaxSize
      BY <1>3, <2>1, <3>3
    <3> QED BY <1>4, <2>2, <3>1, <3>3, <3>4, <3>5 DEF QueueInv, Elsewhere
  <2>3. CASE x # s
    <3>1. queues'[x] = queues[x] /\ stage'[x] = stage[x]
      BY <1>1, <2>3 DEF ReadingsInv, QueueTypes
    <3> QED BY <1>4, <2>1, <3>1 DEF QueueInv, Elsewhere
  <2> QED BY <2>2, <2>3
<1> QED BY <1>5, <1>6, <1>7 DEF ReadingsInv

(* There is room, so the reading is put and is the newest.                 *)
LEMMA PutReadingInv ==
  ASSUME UrbanAssumption, ReadingsInv, NEW s \in Sensors, PutReading(s)
  PROVE  ReadingsInv'
<1>1. /\ queues[s] \in Seq(Nat) /\ hand[s] \in Nat /\ MaxSize \in Nat
      /\ stage[s] = "put" /\ Len(queues[s]) < MaxSize
  BY DEF ReadingsInv, QueueTypes, QueueInv, PutReading, UrbanAssumption
<1>2. /\ queues' = [queues EXCEPT ![s] = Append(@, hand[s])]
      /\ made' = [made EXCEPT ![s] = hand[s]]
      /\ hand' = [hand EXCEPT ![s] = 0] /\ stage' = [stage EXCEPT ![s] = "idle"]
      /\ UNCHANGED <<batch, reported, latest, draining, phase>>
  BY <1>1 DEF PutReading, drainVars
<1>3. QueueTypes'
  <2>1. Append(queues[s], hand[s]) \in Seq(Nat)
    BY <1>1, AppendFacts
  <2> QED BY <1>1, <1>2, <2>1 DEF ReadingsInv, QueueTypes
<1>4. DrainInv'
  BY <1>2 DEF ReadingsInv, DrainInv
<1>5. ASSUME NEW x \in Sensors PROVE QueueInv(x)'
  <2>1. QueueInv(x)
    BY DEF ReadingsInv
  <2>2. CASE x = s
    <3> DEFINE longer == Append(queues[s], hand[s])
    <3>1. queues'[s] = longer /\ made'[s] = hand[s] /\ stage'[s] = "idle"
      BY <1>2 DEF ReadingsInv, QueueTypes
    <3>2. /\ Len(longer) = Len(queues[s]) + 1 /\ longer # <<>>
          /\ longer[Len(longer)] = hand[s]
      BY <1>1, AppendFacts
    <3>3. Len(longer) <= MaxSize
      BY <1>1, <3>2
    <3> HIDE DEF longer
    <3> QED BY <2>2, <3>1, <3>2, <3>3 DEF QueueInv
  <2>3. CASE x # s
    <3>1. /\ queues'[x] = queues[x] /\ made'[x] = made[x] /\ hand'[x] = hand[x]
          /\ stage'[x] = stage[x]
      BY <1>2, <2>3 DEF ReadingsInv, QueueTypes
    <3> QED BY <1>2, <2>1, <3>1 DEF QueueInv, Elsewhere
  <2> QED BY <2>2, <2>3
<1> QED BY <1>3, <1>4, <1>5 DEF ReadingsInv

-----------------------------------------------------------------------------
(* The main thread. *)
LEMMA TakeReadingInv ==
  ASSUME UrbanAssumption, ReadingsInv, TakeReading
  PROVE  ReadingsInv'
<1> DEFINE s == SensorOrder[draining]
           rest == Tail(queues[s])
<1>1. s \in Sensors /\ queues[s] \in Seq(Nat) /\ queues[s] # <<>> /\ phase = "drain"
  BY OrderFacts DEF ReadingsInv, QueueTypes, TakeReading
<1>2. /\ latest' = Head(queues[s]) /\ queues' = [queues EXCEPT ![s] = rest]
      /\ UNCHANGED <<phase, hand, stage, made, draining, batch, reported>>
  BY DEF TakeReading, Newest, callbackVars
<1>3. /\ Head(queues[s]) \in Nat /\ rest \in Seq(Nat)
      /\ Len(queues[s]) \in Nat /\ Len(rest) = Len(queues[s]) - 1
      /\ rest # <<>> => rest[Len(rest)] = queues[s][Len(queues[s])]
      /\ rest = <<>> => queues[s][Len(queues[s])] = Head(queues[s])
  BY <1>1, TailFacts
<1>4. s = SensorOrder[draining]
  OBVIOUS
<1> HIDE DEF s, rest
<1>5. QueueTypes'
  BY <1>1, <1>2, <1>3 DEF ReadingsInv, QueueTypes
<1>6. DrainInv'
  BY <1>1, <1>2 DEF ReadingsInv, DrainInv
<1>7. ASSUME NEW x \in Sensors PROVE QueueInv(x)'
  <2>1. QueueInv(x) /\ MaxSize \in Nat
    BY DEF ReadingsInv, UrbanAssumption
  <2>2. CASE x = s
    <3>1. queues'[s] = rest
      BY <1>1, <1>2 DEF ReadingsInv, QueueTypes
    <3>2. queues[s][Len(queues[s])] = made[s]
      BY <1>1, <2>1, <2>2 DEF QueueInv
    <3>3. Len(rest) <= MaxSize /\ (stage[s] = "put" => Len(rest) < MaxSize)
      BY <1>3, <2>1, <2>2 DEF QueueInv
    <3>4. stage[s] # "idle" => hand[s] = made[s] + 1
      BY <2>1, <2>2 DEF QueueInv
    <3>5. rest = <<>> => latest' = made'[s] /\ s = SensorOrder[draining']
      BY <1>2, <1>3, <1>4, <3>2
    <3> QED BY <1>2, <1>3, <2>2, <3>1, <3>2, <3>3, <3>4, <3>5 DEF QueueInv, Elsewhere
  <2>3. CASE x # s
    <3>1. queues'[x] = queues[x]
      BY <1>2, <2>3 DEF ReadingsInv, QueueTypes
    <3> QED BY <1>2, <1>4, <2>1, <2>3, <3>1 DEF QueueInv, Elsewhere
  <2> QED BY <2>2, <2>3
<1> QED BY <1>5, <1>6, <1>7 DEF ReadingsInv

(* What was taken last goes into the batch, whose entry was still empty.   *)
LEMMA EndOfQueueInv ==
  ASSUME UrbanAssumption, ReadingsInv, EndOfQueue
  PROVE  ReadingsInv'
<1> DEFINE s == SensorOrder[draining]
<1>1. /\ s \in Sensors /\ draining \in 1 .. Len(SensorOrder) /\ Len(SensorOrder) \in Nat
      /\ latest \in Nat /\ phase = "drain" /\ queues[s] = <<>>
  BY OrderFacts, ZenonT(30) DEF ReadingsInv, QueueTypes, EndOfQueue
<1>2. /\ batch' = [batch EXCEPT ![s] = latest] /\ latest' = 0
      /\ UNCHANGED <<queues, hand, stage, made, reported>>
  BY DEF EndOfQueue, Forgotten, callbackVars
<1>3. \/ draining < Len(SensorOrder) /\ draining' = draining + 1 /\ phase' = "drain"
      \/ draining' = 1 /\ phase' = "send"
  BY <1>1 DEF EndOfQueue
<1>4. batch[s] = 0
  BY <1>1 DEF ReadingsInv, DrainInv
<1>5. QueueTypes'
  <2>1. draining' \in DOMAIN SensorOrder
    BY <1>1, <1>3, OrderFacts
  <2> QED BY <1>1, <1>2, <2>1 DEF ReadingsInv, QueueTypes
<1>6. DrainInv'
  <2>1. phase' # "drain" => latest' = 0 /\ draining' = 1
    BY <1>2, <1>3
  <2>2. ASSUME phase' # "send", NEW i \in DOMAIN SensorOrder, i >= draining'
        PROVE  batch'[SensorOrder[i]] = 0
    <3>1. draining' = draining + 1 /\ i \in Int /\ draining \in DOMAIN SensorOrder
      BY <1>1, <1>3, <2>2, OrderFacts, SMTT(30)
    <3>2. i # draining /\ i >= draining
      BY <1>1, <2>2, <3>1, SMTT(30)
    <3>3. SensorOrder[i] # s /\ SensorOrder[i] \in Sensors
      BY <3>1, <3>2, OrderFacts DEF UrbanAssumption
    <3>4. batch[SensorOrder[i]] = 0
      BY <1>1, <3>2 DEF ReadingsInv, DrainInv
    <3> HIDE DEF s
    <3> QED BY <1>2, <3>3, <3>4 DEF ReadingsInv, QueueTypes
  <2> QED BY <2>1, <2>2 DEF DrainInv
<1>7. ASSUME NEW x \in Sensors PROVE QueueInv(x)'
  <2>1. QueueInv(x)
    BY DEF ReadingsInv
  <2>2. /\ batch'[s] = latest
        /\ x # s => batch'[x] = batch[x]
    <3> HIDE DEF s
    <3> QED BY <1>1, <1>2 DEF ReadingsInv, QueueTypes
  <2>3. ASSUME queues[x] = <<>> PROVE Elsewhere(x)'
    <3>1. Elsewhere(x)
      BY <2>1, <2>3 DEF QueueInv
    <3>2. CASE x = s
      BY <1>2, <1>4, <2>2, <3>1, <3>2 DEF Elsewhere
    <3>3. CASE x # s
      BY <1>2, <2>2, <3>1, <3>3 DEF Elsewhere
    <3> QED BY <3>2, <3>3
  <2> QED BY <1>2, <2>1, <2>3 DEF QueueInv
<1> QED BY <1>5, <1>6, <1>7 DEF ReadingsInv

LEMMA SendBatchInv ==
  ASSUME UrbanAssumption, ReadingsInv, SendBatch
  PROVE  ReadingsInv'
<1>1. /\ phase = "send" /\ phase' = "loop"
      /\ reported' = [s \in Sensors |-> IF batch[s] # 0 THEN batch[s] ELSE reported[s]]
      /\ batch' = [s \in Sensors |-> 0]
      /\ UNCHANGED <<queues, hand, stage, made, draining, latest>>
  BY DEF SendBatch, callbackVars
<1>2. latest = 0 /\ draining = 1
  BY <1>1 DEF ReadingsInv, DrainInv
<1>3. QueueTypes'
  <2>1. \A s \in Sensors : (IF batch[s] # 0 THEN batch[s] ELSE reported[s]) \in Nat
    BY DEF ReadingsInv, QueueTypes
  <2> QED BY <1>1, <2>1 DEF ReadingsInv, QueueTypes
<1>4. DrainInv'
  BY <1>1, <1>2, OrderFacts DEF DrainInv
<1>5. ASSUME NEW x \in Sensors PROVE QueueInv(x)'
  <2>1. QueueInv(x)
    BY DEF ReadingsInv
  <2>2. /\ batch'[x] = 0
        /\ batch[x] # 0 => reported'[x] = batch[x]
        /\ batch[x] = 0 => reported'[x] = reported[x]
    BY <1>1
  <2>3. ASSUME queues[x] = <<>> PROVE Elsewhere(x)'
    <3>1. Elsewhere(x)
      BY <2>1, <2>3 DEF QueueInv
    <3> QED BY <1>1, <1>2, <2>2, <3>1 DEF Elsewhere
  <2> QED BY <1>1, <2>1, <2>3 DEF QueueInv
<1> QED BY <1>3, <1>4, <1>5 DEF ReadingsInv

(* The other steps leave the readings alone.                               *)
Aside ==
  /\ UNCHANGED <<queues, callbackVars, draining, latest, batch, reported, counted>>
  /\ phase' # phase => phase \notin {"drain", "send"} /\ phase' # "send"

LEMMA StepsAside ==
  ASSUME [Next]_urbanVars
  PROVE  Aside \/ Callback \/ TakeReading \/ EndOfQueue \/ SendBatch
<1>1. ASSUME Fail \/ Connect \/ SpawnEgo \/ AttachSensors \/ SpawnBatch \/ StartWalking
      PROVE  Aside
  BY <1>1 DEF Fail, Break, Connect, SpawnEgo, AttachSensors, SpawnBatch, StartWalking, Quiet,
              drainVars, Aside
<1>2. ASSUME InstallHandlers \/ EnterStep \/ LeaveLoop \/ Tick \/ Signal
      PROVE  Aside
  BY <1>2 DEF InstallHandlers, EnterStep, LeaveLoop, Tick, Break, Signal, Quiet, drainVars, Aside
<1>3. ASSUME CleanUpFails \/ StopTraffic \/ DestroyTraffic \/ DestroyActor \/ Restore
      PROVE  Aside
  BY <1>3 DEF CleanUpFails, StopTraffic, DestroyTraffic, DestroyActor, Restore, Quiet, drainVars,
              Aside
<1>4. ASSUME UNCHANGED urbanVars PROVE Aside
  BY <1>4 DEF urbanVars, drainVars, Aside
<1> QED BY <1>1, <1>2, <1>3, <1>4 DEF Next, Main

LEMMA CountedInBatches ==
  ASSUME [Next]_urbanVars
  PROVE  UNCHANGED <<reported, counted>> \/ SendBatch
<1>1. ASSUME Aside PROVE UNCHANGED <<reported, counted>>
  BY <1>1 DEF Aside
<1>2. ASSUME Callback \/ TakeReading \/ EndOfQueue PROVE UNCHANGED <<reported, counted>>
  BY <1>2 DEF Callback, NewReading, DropOldest, PutReading, TakeReading, EndOfQueue, drainVars
<1> QED BY <1>1, <1>2, StepsAside

LEMMA StepReadings ==
  ASSUME UrbanAssumption, ReadingsInv, [Next]_urbanVars
  PROVE  ReadingsInv'
<1>1. Aside => ReadingsInv'
  BY FrameReadings DEF Aside
<1>2. ASSUME Callback PROVE ReadingsInv'
  BY <1>2, NewReadingInv, DropOldestInv, PutReadingInv DEF Callback
<1>3. ASSUME TakeReading \/ EndOfQueue \/ SendBatch PROVE ReadingsInv'
  BY <1>3, TakeReadingInv, EndOfQueueInv, SendBatchInv
<1> QED BY <1>1, <1>2, <1>3, StepsAside

LEMMA ReadingsKept == UrbanAssumption /\ ReadingsInv => NewestKept
<1> SUFFICES ASSUME UrbanAssumption, ReadingsInv, NEW s \in Sensors
             PROVE  /\ \/ made[s] \in {0, batch[s], reported[s]}
                       \/ s = SensorOrder[draining] /\ latest = made[s]
                       \/ \E i \in DOMAIN queues[s] : queues[s][i] = made[s]
                       \/ stage[s] = "put" /\ hand[s] > made[s]
                    /\ stage[s] = "put" => Len(queues[s]) < MaxSize
  BY DEF NewestKept
<1>1. QueueInv(s) /\ queues[s] \in Seq(Nat) /\ made[s] \in Nat
  BY DEF ReadingsInv, QueueTypes
<1>2. CASE queues[s] # <<>>
  <2>1. Len(queues[s]) \in DOMAIN queues[s]
    BY <1>1, <1>2
  <2> QED BY <1>1, <1>2, <2>1 DEF QueueInv
<1>3. CASE queues[s] = <<>>
  <2>1. Elsewhere(s) /\ (stage[s] = "put" => hand[s] = made[s] + 1)
    BY <1>1, <1>3 DEF QueueInv
  <2>2. stage[s] = "put" => hand[s] > made[s]
    BY <1>1, <2>1
  <2> QED BY <1>1, <2>1, <2>2 DEF QueueInv, Elsewhere
<1> QED BY <1>2, <1>3

(* The newest reading of a sensor is never lost, whatever the sensors, the *)
(* size of their queues and the interval between two batches: it is in the *)
(* queue, in the hands of the thread that drains it, in the batch or in    *)
(* the last record, unless the callback is about to put a newer one, and   *)
(* then there is room for it (urban_drive.py: SensorDataBuffer).           *)
THEOREM NewestReadingKept == Spec => []NewestKept
<1>1. Init => ReadingsInv
  BY InitReadings, UrbanAssumption
<1>2. ReadingsInv /\ [Next]_urbanVars => ReadingsInv'
  BY StepReadings, UrbanAssumption
<1>3. ReadingsInv => NewestKept
  BY ReadingsKept, UrbanAssumption
<1> QED BY <1>1, <1>2, <1>3, PTL DEF Spec

-----------------------------------------------------------------------------
(* The readings of a sensor pass from its queue into the batch and from    *)
(* there into a record in the order they were made: q is the queue, r the  *)
(* reading reported, b the one in the batch, l the one just taken, m the   *)
(* newest.                                                                 *)
Chain(q, r, b, l, m) ==
  /\ \A i, j \in 1 .. Len(q) : i < j => q[i] < q[j]
  /\ \A i \in 1 .. Len(q) : r < q[i] /\ b < q[i] /\ l < q[i] /\ q[i] <= m
  /\ r <= m /\ b <= m /\ l <= m
  /\ b # 0 => r < b
  /\ l # 0 => r < l

Taken(s) == IF s = SensorOrder[draining] THEN latest ELSE 0

ChainOf(s) == Chain(queues[s], reported[s], batch[s], Taken(s), made[s])

ChainInv == ReadingsInv /\ counted \in Nat /\ \A s \in Sensors : ChainOf(s)

(* Taking a reading out keeps the order, also as the one just taken.       *)
LEMMA ChainTail ==
  ASSUME NEW q \in Seq(Nat), q # <<>>, NEW r \in Nat, NEW b \in Nat, NEW l \in Nat, NEW m \in Nat,
         Chain(q, r, b, l, m)
  PROVE  /\ Chain(Tail(q), r, b, l, m)
         /\ Chain(Tail(q), r, b, Head(q), m)
<1> DEFINE t == Tail(q)
           h == Head(q)
<1>1. /\ Len(q) \in Nat \ {0} /\ Len(t) = Len(q) - 1 /\ h = q[1] /\ h \in Nat
      /\ \A i \in 1 .. Len(q) : q[i] \in Nat
  BY TailFacts
<1>2. \A i \in 1 .. Len(t) : t[i] = q[i + 1]
  BY <1>1
<1>3. /\ 1 \in 1 .. Len(q)
      /\ \A i \in 1 .. Len(t) : i \in Nat /\ i + 1 \in 1 .. Len(q) /\ 1 < i + 1
  BY <1>1
<1> HIDE DEF t, h
<1>4. \A i, j \in 1 .. Len(t) : i < j => t[i] < t[j]
  BY <1>2, <1>3 DEF Chain
<1>5. \A i \in 1 .. Len(t) : r < t[i] /\ b < t[i] /\ l < t[i] /\ h < t[i] /\ t[i] <= m
  BY <1>1, <1>2, <1>3 DEF Chain
<1>6. r < h /\ h <= m
  BY <1>1, <1>3 DEF Chain
<1>7. Chain(t, r, b, l, m) /\ Chain(t, r, b, h, m)
  BY <1>4, <1>5, <1>6 DEF Chain
<1> QED BY <1>7 DEF t, h

LEMMA ChainAppend ==
  ASSUME NEW q \in Seq(Nat), NEW r \in Nat, NEW b \in Nat, NEW l \in Nat, NEW m \in Nat,
         Chain(q, r, b, l, m)
  PROVE  Chain(Append(q, m + 1), r, b, l, m + 1)
<1> DEFINE t == Append(q, m + 1)
           n == Len(q) + 1
<1>1. /\ Len(q) \in Nat /\ Len(t) = n /\ t[n] = m + 1
      /\ \A i \in 1 .. Len(q) : t[i] = q[i] /\ q[i] \in Nat
  OBVIOUS
<1>2. \A i \in 1 .. n : i \in 1 .. Len(q) \/ i = n
  BY <1>1
<1>3. \A i \in 1 .. Len(q) : i < n
  BY <1>1
<1> HIDE DEF t
<1>10. \A i \in 1 .. Len(q) : r < t[i] /\ b < t[i] /\ l < t[i] /\ t[i] <= m + 1
  BY <1>1, SMTT(30) DEF Chain
<1>11. r < t[n] /\ b < t[n] /\ l < t[n] /\ t[n] <= m + 1
  <2>1. r <= m /\ b <= m /\ l <= m
    BY DEF Chain
  <2> QED BY <1>1, <2>1
<1>4. \A i \in 1 .. n : r < t[i] /\ b < t[i] /\ l < t[i] /\ t[i] <= m + 1
  <2> HIDE DEF n
  <2> QED BY <1>2, <1>10, <1>11
<1>5. \A i \in 1 .. Len(q) : t[i] < t[n]
  BY <1>1, SMTT(30) DEF Chain
<1>6. \A i, j \in 1 .. n : i < j => i \in 1 .. Len(q)
  BY <1>1
<1> HIDE DEF n
<1>7. \A i, j \in 1 .. n : i < j => t[i] < t[j]
  BY <1>1, <1>2, <1>5, <1>6 DEF Chain
<1>8. r <= m + 1 /\ b <= m + 1 /\ l <= m + 1 /\ (b # 0 => r < b) /\ (l # 0 => r < l)
  BY DEF Chain
<1>9. Chain(t, r, b, l, m + 1)
  BY <1>1, <1>4, <1>7, <1>8 DEF Chain
<1> QED BY <1>9 DEF t

(* What was taken moves into the batch, the batch into the record.         *)
LEMMA ChainMoves ==
  ASSUME NEW q \in Seq(Nat), NEW r \in Nat, NEW b \in Nat, NEW l \in Nat, NEW m \in Nat,
         Chain(q, r, b, l, m)
  PROVE  /\ Chain(q, r, b, 0, m)
         /\ q = <<>> => Chain(q, r, l, 0, m)
         /\ Chain(q, IF b # 0 THEN b ELSE r, 0, 0, m)
<1>1. \A i \in 1 .. Len(q) : q[i] \in Nat
  OBVIOUS
<1>2. Chain(q, r, b, 0, m)
  BY <1>1 DEF Chain
<1>3. ASSUME q = <<>> PROVE Chain(q, r, l, 0, m)
  <2>1. 1 .. Len(q) = {}
    BY <1>3
  <2> QED BY <2>1 DEF Chain
<1>4. Chain(q, IF b # 0 THEN b ELSE r, 0, 0, m)
  BY <1>1 DEF Chain
<1> QED BY <1>2, <1>3, <1>4

LEMMA ChainTypes ==
  ASSUME ReadingsInv, NEW s \in Sensors
  PROVE  /\ queues[s] \in Seq(Nat) /\ reported[s] \in Nat /\ batch[s] \in Nat
         /\ Taken(s) \in Nat /\ made[s] \in Nat
BY DEF ReadingsInv, QueueTypes, Taken

LEMMA InitChain ==
  ASSUME UrbanAssumption, Init
  PROVE  ChainInv
<1>1. ReadingsInv
  BY InitReadings
<1>2. ASSUME NEW s \in Sensors PROVE ChainOf(s)
  <2>1. /\ queues[s] = <<>> /\ reported[s] = 0 /\ batch[s] = 0 /\ Taken(s) = 0 /\ made[s] = 0
    BY DEF Init, Taken
  <2>2. 1 .. Len(<<>>) = {}
    OBVIOUS
  <2> QED BY <2>1, <2>2 DEF ChainOf, Chain
<1>3. counted \in Nat
  BY DEF Init
<1> QED BY <1>1, <1>2, <1>3 DEF ChainInv

LEMMA CallbackChain ==
  ASSUME UrbanAssumption, ChainInv, NEW s \in Sensors,
         NewReading(s) \/ DropOldest(s) \/ PutReading(s),
         NEW x \in Sensors
  PROVE  ChainOf(x)'
<1>1. /\ UNCHANGED <<batch, reported, latest, draining>> /\ Taken(x)' = Taken(x)
      /\ ReadingsInv /\ ChainOf(x)
  BY DEF NewReading, DropOldest, PutReading, drainVars, Taken, ChainInv
<1>2. /\ queues[x] \in Seq(Nat) /\ reported[x] \in Nat /\ batch[x] \in Nat
      /\ Taken(x) \in Nat /\ made[x] \in Nat
  BY <1>1, ChainTypes
<1>3. queues \in [Sensors -> Seq(Nat)] /\ made \in [Sensors -> Nat]
  BY <1>1 DEF ReadingsInv, QueueTypes
<1>4. CASE queues'[x] = queues[x] /\ made'[x] = made[x]
  BY <1>1, <1>4 DEF ChainOf
<1>5. CASE DropOldest(s) /\ x = s /\ queues[s] # <<>>
  <2>1. queues'[x] = Tail(queues[x]) /\ made'[x] = made[x]
    BY <1>3, <1>5 DEF DropOldest
  <2>2. Chain(Tail(queues[x]), reported[x], batch[x], Taken(x), made[x])
    BY <1>1, <1>2, <1>5, ChainTail DEF ChainOf
  <2> QED BY <1>1, <2>1, <2>2 DEF ChainOf
<1>6. CASE PutReading(s) /\ x = s
  <2>1. Len(queues[s]) < MaxSize /\ hand[s] = made[s] + 1
    BY <1>1, <1>6 DEF PutReading, ReadingsInv, QueueInv
  <2>2. queues'[x] = Append(queues[x], made[x] + 1) /\ made'[x] = made[x] + 1
    BY <1>3, <1>6, <2>1 DEF PutReading
  <2>3. Chain(Append(queues[x], made[x] + 1), reported[x], batch[x], Taken(x), made[x] + 1)
    BY <1>1, <1>2, ChainAppend DEF ChainOf
  <2> QED BY <1>1, <2>2, <2>3 DEF ChainOf
<1>7. \/ queues'[x] = queues[x] /\ made'[x] = made[x]
      \/ DropOldest(s) /\ x = s /\ queues[s] # <<>>
      \/ PutReading(s) /\ x = s
  <2>1. CASE NewReading(s)
    BY <2>1 DEF NewReading
  <2>2. CASE DropOldest(s)
    <3>1. made' = made /\ \A y \in Sensors \ {s} : queues'[y] = queues[y]
      BY <1>3, <2>2 DEF DropOldest
    <3>2. queues[s] = <<>> => queues'[s] = queues[s]
      BY <1>3, <2>2 DEF DropOldest
    <3> QED BY <2>2, <3>1, <3>2
  <2>3. CASE PutReading(s)
    <3>1. \A y \in Sensors \ {s} : queues'[y] = queues[y] /\ made'[y] = made[y]
      <4>1. Len(queues[s]) < MaxSize
        BY <1>1, <2>3 DEF PutReading, ReadingsInv, QueueInv
      <4>2. /\ queues' = [queues EXCEPT ![s] = Append(@, hand[s])]
            /\ made' = [made EXCEPT ![s] = hand[s]]
        BY <2>3, <4>1 DEF PutReading
      <4> QED BY <1>3, <4>2
    <3> QED BY <2>3, <3>1
  <2> QED BY <2>1, <2>2, <2>3
<1> QED BY <1>4, <1>5, <1>6, <1>7

LEMMA TakeChain ==
  ASSUME UrbanAssumption, ChainInv, TakeReading, NEW x \in Sensors
  PROVE  ChainOf(x)'
<1> DEFINE s == SensorOrder[draining]
<1>1. /\ latest' = Head(queues[s]) /\ queues' = [queues EXCEPT ![s] = Tail(queues[s])]
      /\ queues[s] # <<>> /\ UNCHANGED <<made, draining, batch, reported>>
  BY DEF TakeReading, Newest, callbackVars
<1>2. /\ queues[x] \in Seq(Nat) /\ reported[x] \in Nat /\ batch[x] \in Nat
      /\ Taken(x) \in Nat /\ made[x] \in Nat /\ ChainOf(x)
      /\ queues \in [Sensors -> Seq(Nat)]
  BY ChainTypes DEF ChainInv, ReadingsInv, QueueTypes
<1>3. CASE x = s
  <2>1. queues'[x] = Tail(queues[x]) /\ Taken(x)' = Head(queues[x])
    BY <1>1, <1>2, <1>3 DEF Taken
  <2>2. Chain(Tail(queues[x]), reported[x], batch[x], Head(queues[x]), made[x])
    BY <1>1, <1>2, <1>3, ChainTail DEF ChainOf
  <2> QED BY <1>1, <2>1, <2>2 DEF ChainOf
<1>4. CASE x # s
  <2>1. queues'[x] = queues[x] /\ Taken(x)' = Taken(x)
    BY <1>1, <1>2, <1>4 DEF Taken
  <2> QED BY <1>1, <1>2, <2>1 DEF ChainOf
<1> QED BY <1>3, <1>4

LEMMA EndChain ==
  ASSUME UrbanAssumption, ChainInv, EndOfQueue, NEW x \in Sensors
  PROVE  ChainOf(x)'
<1> DEFINE s == SensorOrder[draining]
<1>1. /\ batch' = [batch EXCEPT ![s] = latest] /\ latest' = 0 /\ queues[s] = <<>>
      /\ UNCHANGED <<queues, made, reported>>
  BY DEF EndOfQueue, Forgotten, callbackVars
<1>2. /\ queues[x] \in Seq(Nat) /\ reported[x] \in Nat /\ batch[x] \in Nat
      /\ Taken(x) \in Nat /\ made[x] \in Nat /\ ChainOf(x)
      /\ batch \in [Sensors -> Nat]
  BY ChainTypes DEF ChainInv, ReadingsInv, QueueTypes
<1>3. Taken(x)' = 0
  BY <1>1 DEF Taken
<1>4. CASE x = s
  <2>1. batch'[x] = Taken(x) /\ queues[x] = <<>>
    BY <1>1, <1>2, <1>4 DEF Taken
  <2>2. Chain(queues[x], reported[x], Taken(x), 0, made[x])
    BY <1>2, <2>1, ChainMoves, ZenonT(40) DEF ChainOf
  <2> QED BY <1>1, <1>3, <2>1, <2>2 DEF ChainOf
<1>5. CASE x # s
  <2>1. batch'[x] = batch[x]
    BY <1>1, <1>2, <1>5
  <2>2. Chain(queues[x], reported[x], batch[x], 0, made[x])
    BY <1>2, ChainMoves DEF ChainOf
  <2> QED BY <1>1, <1>3, <2>1, <2>2 DEF ChainOf
<1> QED BY <1>4, <1>5

LEMMA SendChain ==
  ASSUME UrbanAssumption, ChainInv, SendBatch, NEW x \in Sensors
  PROVE  ChainOf(x)'
<1>1. /\ reported'[x] = (IF batch[x] # 0 THEN batch[x] ELSE reported[x]) /\ batch'[x] = 0
      /\ UNCHANGED <<queues, made, latest, draining>> /\ latest = 0
  BY DEF SendBatch, callbackVars, ChainInv, ReadingsInv, DrainInv
<1>2. /\ queues[x] \in Seq(Nat) /\ reported[x] \in Nat /\ batch[x] \in Nat
      /\ Taken(x) \in Nat /\ made[x] \in Nat /\ ChainOf(x)
  BY ChainTypes DEF ChainInv
<1>3. Taken(x)' = 0
  BY <1>1 DEF Taken
<1>4. Chain(queues[x], IF batch[x] # 0 THEN batch[x] ELSE reported[x], 0, 0, made[x])
  BY <1>2, ChainMoves, SMTT(30) DEF ChainOf
<1> QED BY <1>1, <1>3, <1>4 DEF ChainOf

LEMMA StepChain ==
  ASSUME UrbanAssumption, ChainInv, [Next]_urbanVars
  PROVE  ChainInv'
<1>1. ReadingsInv'
  BY StepReadings DEF ChainInv
<1>2. ASSUME Aside PROVE \A x \in Sensors : ChainOf(x)'
  BY <1>2 DEF ChainInv, ChainOf, Taken, callbackVars, Aside
<1>3. ASSUME Callback PROVE \A x \in Sensors : ChainOf(x)'
  BY <1>3, CallbackChain DEF Callback
<1>4. ASSUME TakeReading \/ EndOfQueue \/ SendBatch PROVE \A x \in Sensors : ChainOf(x)'
  BY <1>4, TakeChain, EndChain, SendChain
<1>5. counted' \in Nat
  <2>1. counted \in Nat
    BY DEF ChainInv
  <2>2. counted' = counted \/ counted' = counted + 1 \/ counted' = counted + 0
    BY CountedInBatches DEF SendBatch
  <2> QED BY <2>1, <2>2
<1> QED BY <1>1, <1>2, <1>3, <1>4, <1>5, StepsAside DEF ChainInv

(* A record never goes back to an older reading, and a collision counts    *)
(* only with a reading newer than the one it was last reported with        *)
(* (urban_drive.py: get_latest, build_chambers_records, run_scenario).     *)
THEOREM CollisionsCountOnce == Spec => CountedOnce
<1>1. Init => ChainInv
  BY InitChain, UrbanAssumption
<1>2. ChainInv /\ [Next]_urbanVars => ChainInv'
  BY StepChain, UrbanAssumption
<1> DEFINE Once ==
      /\ \A s \in Sensors : reported'[s] >= reported[s]
      /\ counted' # counted =>
           counted' = counted + 1 /\ reported'[Collision] > reported[Collision]
<1>3. ChainInv /\ [Next]_urbanVars => [Once]_urbanVars
  <2> SUFFICES ASSUME ChainInv, [Next]_urbanVars PROVE Once
    OBVIOUS
  <2>1. reported \in [Sensors -> Nat] /\ batch \in [Sensors -> Nat] /\ Collision \in Sensors
    BY UrbanAssumption DEF ChainInv, ReadingsInv, QueueTypes, UrbanAssumption
  <2>2. CASE UNCHANGED <<reported, counted>>
    BY <2>1, <2>2
  <2>3. CASE SendBatch
    <3>1. ASSUME NEW s \in Sensors
          PROVE  /\ reported'[s] = IF batch[s] # 0 THEN batch[s] ELSE reported[s]
                 /\ batch[s] # 0 => reported[s] < batch[s]
      BY <2>3 DEF SendBatch, ChainInv, ChainOf, Chain
    <3>2. ASSUME NEW s \in Sensors PROVE reported'[s] >= reported[s]
      BY <2>1, <3>1
    <3>3. counted' = counted + (IF batch[Collision] # 0 THEN 1 ELSE 0)
      BY <2>3 DEF SendBatch
    <3>4. ASSUME counted' # counted PROVE batch[Collision] # 0 /\ counted' = counted + 1
      <4>1. CASE batch[Collision] # 0
        BY <3>3, <4>1
      <4>2. CASE batch[Collision] = 0
        BY <3>3, <3>4, <4>2 DEF ChainInv
      <4> QED BY <4>1, <4>2
    <3> QED BY <2>1, <3>1, <3>2, <3>4
  <2>4. UNCHANGED <<reported, counted>> \/ SendBatch
    BY CountedInBatches
  <2> QED BY <2>2, <2>3, <2>4
<1> QED BY <1>1, <1>2, <1>3, PTL DEF Spec, CountedOnce

-----------------------------------------------------------------------------
(* The sealed event demonstration.                                         *)
Open == {"connect", "spawn", "tick", "snapshot", "trigger"}

Points == Open \cup {"report", "cleanup", "done"}

(* The parts of a sample are written one after the other, so a reading     *)
(* mixes the newest two samples at most.                                   *)
ReadingInv ==
  /\ reading \in Seq(0 .. DemoReadings) /\ Len(reading) = 3 /\ writing \in 0 .. 2
  /\ reading[1] = reading[2] + (IF writing = 1 THEN 1 ELSE 0)
  /\ reading[2] = reading[3] + (IF writing = 2 THEN 1 ELSE 0)

Mixed(both) == both \in Seq(Nat) /\ Len(both) = 3 /\ both[1] - both[2] \in {0, 1}

(* The flag names the first collision, and the data no other.              *)
HitsInv ==
  /\ hits \in 0 .. MaxHits /\ hitting \in BOOLEAN
  /\ collided = IF hits = 0 THEN 0 ELSE 1
  /\ context \in {0, collided}

Snap == [step : Nat, reading : Seq(Nat)]

(* The steps whose snapshots were taken.                                   *)
Past == IF point = "trigger" THEN frame + 1 ELSE frame

Kept(steps) == IF steps <= Demo!RingSize THEN steps ELSE Demo!RingSize

(* The ring holds the last of them, one after the other.                   *)
RingInv ==
  /\ ring \in Seq(Snap) /\ Len(ring) <= Demo!RingSize
  /\ point \in Open => Len(ring) = Kept(Past)
  /\ point \in Open => \A i \in 1 .. Len(ring) :
       ring[i].step = Past - Len(ring) + i - 1 /\ Mixed(ring[i].reading)

(* The counter has counted the steps since the one that found the flag.    *)
CountInv ==
  /\ frame \in 0 .. DemoSteps /\ (point \in {"snapshot", "trigger"} => frame < DemoSteps)
  /\ post \in -1 .. WindowAfter /\ seen \in -1 .. DemoSteps
  /\ point \in Open => /\ event = Demo!Nothing
                       /\ IF seen = -1 THEN post = -1
                          ELSE post = frame - seen /\ post \in 1 .. WindowAfter - 1

WorldInv ==
  /\ point \in Points /\ listed \in 0 .. Len(Demo!Cast)
  /\ standing \subseteq Demo!Recorded \cup Demo!NextUp
  /\ point = "spawn" => listed < Len(Demo!Cast) /\ standing \subseteq Demo!Recorded
  /\ point = "connect" => standing = {} /\ listed = 0
  /\ lockstep \in BOOLEAN /\ aborted \in BOOLEAN /\ stuck \in BOOLEAN
  /\ event.kind \in {"none", "collision"}
  /\ file.kind \in {"none", "collision", "near_miss_simulated"}

DemoInv ==
  /\ ReadingInv /\ HitsInv /\ RingInv /\ CountInv /\ WorldInv
  /\ Demo!SealedWhole /\ Demo!DemoRestores

LEMMA LastOfFacts ==
  ASSUME NEW S, NEW q \in Seq(S), NEW n \in Nat, NEW w, w = Demo!LastOf(q, n)
  PROVE  /\ w \in Seq(S) /\ Len(w) = IF Len(q) <= n THEN Len(q) ELSE n
         /\ \A i \in 1 .. Len(w) : w[i] = q[Len(q) - Len(w) + i]
<1>1. Len(q) \in Nat
  OBVIOUS
<1>2. CASE Len(q) <= n
  <2>1. w = q
    BY <1>2 DEF Demo!LastOf
  <2> QED
    BY <1>1, <1>2, <2>1
<1>3. CASE ~(Len(q) <= n)
  <2>1. w = SubSeq(q, Len(q) - n + 1, Len(q))
    BY <1>3 DEF Demo!LastOf
  <2>2. Len(q) - n + 1 \in 1 .. Len(q) + 1 /\ Len(q) \in 0 .. Len(q)
    BY <1>1, <1>3
  <2>3. /\ w \in Seq(S) /\ Len(w) = Len(q) - (Len(q) - n + 1) + 1
        /\ \A i \in 1 .. Len(q) - (Len(q) - n + 1) + 1 : w[i] = q[Len(q) - n + 1 + i - 1]
    BY <1>1, <1>3, <2>1, <2>2, SubSeqProperties
  <2> QED
    BY <1>1, <1>3, <2>3
<1> QED
  BY <1>2, <1>3

LEMMA Threes == ASSUME NEW S, NEW q \in Seq(S), Len(q) = 3 PROVE q[1] \in S /\ q[2] \in S /\ q[3] \in S
<1>1. 1 \in 1 .. Len(q) /\ 2 \in 1 .. Len(q) /\ 3 \in 1 .. Len(q)
  OBVIOUS
<1>2. q[1] \in S
  BY <1>1, ElementOfSeq
<1>3. q[2] \in S
  BY <1>1, ElementOfSeq
<1>4. q[3] \in S
  BY <1>1, ElementOfSeq
<1> QED
  BY <1>2, <1>3, <1>4

LEMMA WriteAt ==
  ASSUME NEW S, NEW q \in Seq(S), Len(q) = 3, NEW w \in 0 .. 2, NEW e \in S,
         NEW r, r = [q EXCEPT ![w + 1] = e]
  PROVE  /\ r \in Seq(S) /\ Len(r) = 3
         /\ r[1] = (IF w = 0 THEN e ELSE q[1])
         /\ r[2] = (IF w = 1 THEN e ELSE q[2])
         /\ r[3] = (IF w = 2 THEN e ELSE q[3])
<1>1. w + 1 \in 1 .. Len(q)
  OBVIOUS
<1>2. /\ r \in Seq(S) /\ Len(r) = Len(q)
      /\ \A j \in 1 .. Len(q) : r[j] = IF j = w + 1 THEN e ELSE q[j]
  BY <1>1, ExceptSeq, SMTT(30)
<1>3. /\ r[1] = (IF w = 0 THEN e ELSE q[1])
      /\ r[2] = (IF w = 1 THEN e ELSE q[2])
      /\ r[3] = (IF w = 2 THEN e ELSE q[3])
  <2>1. 1 \in 1 .. Len(q) /\ 2 \in 1 .. Len(q) /\ 3 \in 1 .. Len(q)
    OBVIOUS
  <2> QED
    BY <1>2, <2>1
<1> QED
  BY <1>2, <1>3

(* A step of the inertial sensor writes the next part.                     *)
LEMMA WrittenReading == ASSUME ReadingInv, DemoReadings \in Nat, Demo!OnReading PROVE ReadingInv'
<1>1. /\ reading \in Seq(0 .. DemoReadings) /\ Len(reading) = 3 /\ writing \in 0 .. 2
      /\ reading[1] \in 0 .. DemoReadings /\ reading[2] \in 0 .. DemoReadings
      /\ reading[3] \in 0 .. DemoReadings
  <2>1. reading \in Seq(0 .. DemoReadings) /\ Len(reading) = 3 /\ writing \in 0 .. 2
    BY DEF ReadingInv
  <2> QED
    BY <2>1, Threes
<1>2. PICK part : part = IF writing = 0 THEN reading[1] + 1 ELSE reading[1]
  OBVIOUS
<1>3. /\ writing = 0 => reading[1] < DemoReadings
      /\ reading' = [reading EXCEPT ![writing + 1] = part]
      /\ writing' = (writing + 1) % 3
  <2>1. writing = 0 => reading[writing + 1] = reading[1]
    OBVIOUS
  <2> QED
    BY <1>1, <1>2, <2>1 DEF Demo!OnReading
<1>4. part \in 0 .. DemoReadings
  BY <1>1, <1>2, <1>3
<1>5. /\ reading' \in Seq(0 .. DemoReadings) /\ Len(reading') = 3
      /\ reading'[1] = (IF writing = 0 THEN part ELSE reading[1])
      /\ reading'[2] = (IF writing = 1 THEN part ELSE reading[2])
      /\ reading'[3] = (IF writing = 2 THEN part ELSE reading[3])
  <2>1. PICK n : n = 0 .. DemoReadings
    OBVIOUS
  <2>2. reading \in Seq(n) /\ part \in n
    BY <1>1, <1>4, <2>1
  <2>3. reading' \in Seq(n) /\ Len(reading') = 3
        /\ reading'[1] = (IF writing = 0 THEN part ELSE reading[1])
        /\ reading'[2] = (IF writing = 1 THEN part ELSE reading[2])
        /\ reading'[3] = (IF writing = 2 THEN part ELSE reading[3])
    BY <1>1, <1>3, <2>2, WriteAt
  <2> QED
    BY <2>1, <2>3
<1>6. writing' = IF writing = 2 THEN 0 ELSE writing + 1
  BY <1>1, <1>3
<1>7. /\ reading'[1] = reading'[2] + (IF writing' = 1 THEN 1 ELSE 0)
      /\ reading'[2] = reading'[3] + (IF writing' = 2 THEN 1 ELSE 0)
  <2>1. CASE writing = 0
    BY <1>1, <1>2, <1>5, <1>6, <2>1 DEF ReadingInv
  <2>2. CASE writing = 1
    BY <1>1, <1>2, <1>5, <1>6, <2>2 DEF ReadingInv
  <2>3. CASE writing = 2
    BY <1>1, <1>2, <1>5, <1>6, <2>3 DEF ReadingInv
  <2> QED
    BY <1>1, <2>1, <2>2, <2>3
<1> QED
  BY <1>1, <1>5, <1>6, <1>7 DEF ReadingInv

(* The callbacks leave the loop and the world alone.                       *)
LEMMA CallbackDemo == ASSUME DemoAssumption, DemoInv, Demo!Callback PROVE DemoInv'
<1>1. /\ UNCHANGED <<point, standing, listed, lockstep, frame, ring, post, event, seen, file, aborted,
                     stuck>>
  BY DEF Demo!Callback, Demo!OnCollision, Demo!StoreCollision, Demo!OnReading, Demo!worldVars,
         Demo!loopVars
<1>2. ReadingInv'
  <2>1. CASE Demo!OnReading
    BY <2>1, WrittenReading DEF DemoInv, DemoAssumption
  <2>2. CASE Demo!OnCollision \/ Demo!StoreCollision
    BY <2>2 DEF DemoInv, ReadingInv, Demo!OnCollision, Demo!StoreCollision
  <2> QED
    BY <2>1, <2>2 DEF Demo!Callback
<1>3. HitsInv'
  <2>1. CASE Demo!OnCollision
    <3>1. /\ hits' = hits + 1 /\ hits < MaxHits /\ hits \in 0 .. MaxHits /\ MaxHits \in Nat
          /\ context' = context /\ context \in {0, collided} /\ hitting \in BOOLEAN
          /\ collided = IF hits = 0 THEN 0 ELSE 1
      BY <2>1 DEF DemoAssumption, DemoInv, HitsInv, Demo!OnCollision
    <3>2. CASE hits = 0
      BY <2>1, <3>1, <3>2 DEF HitsInv, Demo!OnCollision, Demo!IsFirst
    <3>3. CASE hits # 0
      BY <2>1, <3>1, <3>3 DEF HitsInv, Demo!OnCollision, Demo!IsFirst
    <3> QED
      BY <3>2, <3>3
  <2>2. CASE Demo!StoreCollision
    BY <2>2 DEF DemoInv, HitsInv, Demo!StoreCollision
  <2>3. CASE Demo!OnReading
    BY <2>3 DEF DemoInv, HitsInv, Demo!OnReading
  <2> QED
    BY <2>1, <2>2, <2>3 DEF Demo!Callback
<1>4. RingInv' /\ CountInv'
  BY <1>1 DEF DemoInv, RingInv, CountInv, Past, Kept
<1>5. WorldInv' /\ Demo!DemoRestores'
  BY <1>1 DEF DemoInv, WorldInv, Demo!DemoRestores, Demo!Recorded, Demo!NextUp
<1>6. Demo!SealedWhole'
  BY <1>1 DEF DemoInv, Demo!SealedWhole
<1> QED
  BY <1>2, <1>3, <1>4, <1>5, <1>6 DEF DemoInv

LEMMA InitDemo == ASSUME DemoAssumption, Demo!Init PROVE DemoInv
<1>1. ReadingInv /\ HitsInv
  <2>1. DemoReadings \in Nat /\ MaxHits \in Nat
    BY DEF DemoAssumption
  <2>2. reading = <<0, 0, 0>> /\ writing = 0 /\ 0 \in 0 .. DemoReadings
    BY <2>1 DEF Demo!Init
  <2>3. /\ reading \in Seq(0 .. DemoReadings) /\ Len(reading) = 3
        /\ reading[1] = 0 /\ reading[2] = 0 /\ reading[3] = 0
    BY <2>2
  <2>4. ReadingInv
    BY <2>2, <2>3 DEF ReadingInv
  <2>5. HitsInv
    <3>1. hits = 0 /\ collided = 0 /\ context = 0
      BY DEF Demo!Init
    <3>2. hitting \in BOOLEAN
      BY DEF Demo!Init
    <3> QED
      BY <2>1, <3>1, <3>2 DEF HitsInv
  <2> QED
    BY <2>4, <2>5
<1>2. RingInv
  <2>1. Kept(0) = 0
    BY DEF DemoAssumption, Kept, Demo!RingSize
  <2> QED
    BY <2>1 DEF DemoAssumption, Demo!Init, RingInv, Past, Demo!RingSize
<1>3. CountInv
  BY DEF DemoAssumption, Demo!Init, CountInv
<1>4. WorldInv
  <2>1. Len(Demo!Cast) = 5
    BY DEF Demo!Cast
  <2>2. event.kind = "none" /\ file.kind = "none"
    BY DEF Demo!Init, Demo!Nothing
  <2>3. point = "connect" /\ standing = {} /\ listed = 0
    BY DEF Demo!Init
  <2>4. lockstep \in BOOLEAN /\ aborted \in BOOLEAN /\ stuck \in BOOLEAN
    BY DEF Demo!Init
  <2> QED
    BY <2>1, <2>2, <2>3, <2>4 DEF WorldInv, Points, Open
<1>5. Demo!SealedWhole /\ Demo!DemoRestores
  BY DEF Demo!Init, Demo!SealedWhole, Demo!DemoRestores
<1> QED
  BY <1>1, <1>2, <1>3, <1>4, <1>5 DEF DemoInv

(* Setting the scene, entering a step, writing the file and cleaning up    *)
(* leave the ring, the counter and the callbacks alone.                    *)
Staging ==
  Demo!Connect \/ Demo!Spawn \/ Demo!Tick \/ Demo!Report \/ Demo!Destroy \/ Demo!Restore

LEMMA StagingMoves ==
  ASSUME DemoInv, Staging
  PROVE  /\ point' \in Open => point \in Open \ {"trigger"} /\ point' # "trigger"
         /\ point' = "snapshot" => frame < DemoSteps
         /\ UNCHANGED <<frame, ring, post, event, seen>>
         /\ UNCHANGED <<reading, writing, collided, context, hitting, hits>>
<1>1. point' \in Open => point \in Open \ {"trigger"} /\ point' # "trigger"
  BY DEF Staging, Demo!Connect, Demo!Spawn, Demo!Tick, Demo!Report, Demo!Destroy, Demo!Restore,
         Demo!Break, Open
<1>2. point' = "snapshot" => frame < DemoSteps
  BY DEF Staging, Demo!Connect, Demo!Spawn, Demo!Tick, Demo!Report, Demo!Destroy, Demo!Restore,
         Demo!Break
<1>3. UNCHANGED <<frame, ring, post, event, seen>>
  BY DEF Staging, Demo!Connect, Demo!Spawn, Demo!Tick, Demo!Report, Demo!Destroy, Demo!Restore,
         Demo!loopVars
<1>4. UNCHANGED <<reading, writing, collided, context, hitting, hits>>
  BY DEF Staging, Demo!Connect, Demo!Spawn, Demo!Tick, Demo!Report, Demo!Destroy, Demo!Restore,
         Demo!callbackVars
<1> QED
  BY <1>1, <1>2, <1>3, <1>4

LEMMA StagingWorld == ASSUME DemoInv, Staging PROVE WorldInv' /\ Demo!DemoRestores'
<1> USE DEF WorldInv, Points, Open
<1>1. /\ event' = event /\ WorldInv /\ Len(Demo!Cast) = 5 /\ listed \in 0 .. 5
      /\ standing \subseteq Demo!Recorded \cup Demo!NextUp /\ Demo!DemoRestores
  <2>1. Len(Demo!Cast) = 5
    BY DEF Demo!Cast
  <2> QED
    BY <2>1, StagingMoves DEF DemoInv
<1>2. CASE Demo!Connect
  <2>1. /\ point' \in {"spawn", "cleanup"} /\ lockstep' \in BOOLEAN /\ aborted' \in BOOLEAN
        /\ UNCHANGED <<standing, listed, file, stuck>> /\ standing = {} /\ listed = 0
    BY <1>1, <1>2 DEF Demo!Connect, Demo!Break
  <2> QED
    BY <1>1, <2>1 DEF Demo!DemoRestores
<1>3. CASE Demo!Spawn
  <2>1. point = "spawn" /\ listed < 5 /\ standing \subseteq Demo!Recorded
        /\ UNCHANGED <<lockstep, file, stuck>>
    BY <1>1, <1>3 DEF Demo!Spawn
  <2>2. /\ listed' \in 0 .. 5 /\ point' \in {"spawn", "tick", "cleanup"}
        /\ standing' \subseteq Demo!Recorded' \cup Demo!NextUp'
        /\ point' = "spawn" => listed' < 5 /\ standing' \subseteq Demo!Recorded'
    <3>1. CASE /\ standing' = standing \cup Demo!NextUp /\ listed' = listed + 1
               /\ point' = IF listed' = Len(Demo!Cast) THEN "tick" ELSE "spawn"
      <4>1. Demo!Recorded \cup Demo!NextUp \subseteq Demo!Recorded'
        BY <1>1, <2>1, <3>1 DEF Demo!Recorded, Demo!NextUp
      <4>2. listed' \in 0 .. 5 /\ point' \in {"spawn", "tick"} /\ (point' = "spawn" => listed' < 5)
        BY <1>1, <2>1, <3>1
      <4> QED
        BY <2>1, <3>1, <4>1, <4>2
    <3>2. CASE /\ point' = "cleanup" /\ listed' = listed
               /\ standing' \in {standing, standing \cup Demo!NextUp}
      <4>1. Demo!Recorded' = Demo!Recorded /\ Demo!NextUp' = Demo!NextUp
        BY <3>2 DEF Demo!Recorded, Demo!NextUp
      <4> QED
        BY <1>1, <2>1, <3>2, <4>1
    <3> QED
      BY <1>3, <3>1, <3>2 DEF Demo!Spawn, Demo!Break
  <2>3. aborted' \in BOOLEAN
    BY <1>1, <1>3 DEF Demo!Spawn, Demo!Break
  <2> QED
    BY <1>1, <2>1, <2>2, <2>3 DEF Demo!DemoRestores
<1>4. CASE Demo!Tick
  <2>1. /\ point' \in {"snapshot", "report", "cleanup"} /\ aborted' \in BOOLEAN
        /\ UNCHANGED <<standing, listed, lockstep, file, stuck>>
    BY <1>1, <1>4 DEF Demo!Tick, Demo!Break, Demo!worldVars
  <2>2. Demo!Recorded' = Demo!Recorded /\ Demo!NextUp' = Demo!NextUp
    BY <2>1 DEF Demo!Recorded, Demo!NextUp
  <2> QED
    BY <1>1, <2>1, <2>2 DEF Demo!DemoRestores
<1>5. CASE Demo!Report
  <2>1. file'.kind \in {"none", "collision", "near_miss_simulated"}
    BY <1>1, <1>5 DEF Demo!Report, Demo!ToDict, Demo!CreateSealedEvent
  <2>2. /\ point' = "cleanup" /\ aborted' \in BOOLEAN
        /\ UNCHANGED <<standing, listed, lockstep, stuck>>
    BY <1>1, <1>5 DEF Demo!Report, Demo!Break, Demo!worldVars
  <2>3. Demo!Recorded' = Demo!Recorded /\ Demo!NextUp' = Demo!NextUp
    BY <2>2 DEF Demo!Recorded, Demo!NextUp
  <2> QED
    BY <1>1, <2>1, <2>2, <2>3 DEF Demo!DemoRestores
<1>6. CASE Demo!Destroy
  <2>1. /\ point = "cleanup" /\ standing' \subseteq standing
        /\ UNCHANGED <<listed, lockstep, file, aborted>>
        /\ Demo!Recorded' = Demo!Recorded /\ Demo!NextUp' = Demo!NextUp
    BY <1>6 DEF Demo!Destroy, Demo!Recorded, Demo!NextUp
  <2>2. (point' = "cleanup" /\ stuck' = stuck) \/ (point' = "done" /\ stuck' = TRUE)
    BY <1>6, <2>1 DEF Demo!Destroy
  <2>3. CASE point' = "cleanup" /\ stuck' = stuck
    BY <1>1, <2>1, <2>3 DEF Demo!DemoRestores
  <2>4. CASE point' = "done" /\ stuck' = TRUE
    BY <1>1, <2>1, <2>4 DEF Demo!DemoRestores
  <2> QED
    BY <2>2, <2>3, <2>4
<1>7. CASE Demo!Restore
  <2>1. /\ point' = "done" /\ standing \cap Demo!Recorded = {}
        /\ UNCHANGED <<standing, listed, file, aborted>>
        /\ Demo!Recorded' = Demo!Recorded /\ Demo!NextUp' = Demo!NextUp
    BY <1>7 DEF Demo!Restore, Demo!Recorded, Demo!NextUp
  <2>2. (lockstep' = FALSE /\ stuck' = stuck) \/ (stuck' = TRUE /\ lockstep' = lockstep)
    BY <1>7 DEF Demo!Restore
  <2>3. CASE lockstep' = FALSE /\ stuck' = stuck
    BY <1>1, <2>1, <2>3 DEF Demo!DemoRestores
  <2>4. CASE stuck' = TRUE /\ lockstep' = lockstep
    BY <1>1, <2>1, <2>4 DEF Demo!DemoRestores
  <2> QED
    BY <2>2, <2>3, <2>4
<1> QED
  BY <1>2, <1>3, <1>4, <1>5, <1>6, <1>7 DEF Staging

LEMMA StagingDemo == ASSUME DemoInv, Staging PROVE DemoInv'
<1>1. ReadingInv' /\ HitsInv'
  BY StagingMoves DEF DemoInv, ReadingInv, HitsInv
<1>2. RingInv'
  <2>1. point' \in Open => Past' = Past /\ Kept(Past)' = Kept(Past)
    BY StagingMoves DEF Past, Kept
  <2>2. point' \in Open => point \in Open
    BY StagingMoves
  <2>3. ring' = ring /\ RingInv
    BY StagingMoves DEF DemoInv
  <2>4. CASE point' \in Open
    BY <2>1, <2>2, <2>3, <2>4 DEF RingInv
  <2>5. CASE point' \notin Open
    BY <2>3, <2>5 DEF RingInv
  <2> QED
    BY <2>4, <2>5
<1>3. CountInv'
  <2>1. /\ UNCHANGED <<frame, post, event, seen>> /\ CountInv
        /\ point' \in {"snapshot", "trigger"} => frame < DemoSteps
        /\ point' \in Open => point \in Open
    BY StagingMoves DEF DemoInv, Open
  <2>2. CASE point' \in Open
    BY <2>1, <2>2 DEF CountInv
  <2>3. CASE point' \notin Open
    BY <2>1, <2>3 DEF CountInv
  <2> QED
    BY <2>2, <2>3
<1>4. Demo!SealedWhole'
  BY StagingMoves DEF DemoInv, Demo!SealedWhole
<1> QED
  BY <1>1, <1>2, <1>3, <1>4, StagingWorld DEF DemoInv

(* A snapshot becomes the last of the ring.                                *)
LEMMA SnapshotRing == ASSUME DemoAssumption, DemoInv, Demo!Snapshot PROVE RingInv'
<1> DEFINE snap == [step |-> frame, reading |-> reading]
<1> DEFINE q == Append(ring, snap)
<1>1. /\ ring \in Seq(Snap) /\ frame \in Nat /\ point = "snapshot" /\ point' = "trigger"
      /\ frame' = frame /\ ring' = Demo!LastOf(q, Demo!RingSize) /\ Demo!RingSize \in Nat \ {0}
      /\ Len(ring) \in Nat /\ Len(ring) = Kept(frame)
      /\ \A i \in 1 .. Len(ring) :
           ring[i].step = frame - Len(ring) + i - 1 /\ Mixed(ring[i].reading)
  <2>1. point = "snapshot" /\ Past = frame /\ frame \in Nat /\ ring \in Seq(Snap)
    BY DEF DemoAssumption, Demo!Snapshot, DemoInv, CountInv, RingInv, Past
  <2>2. Len(ring) \in Nat
    BY <2>1
  <2>3. Demo!RingSize \in Nat \ {0}
    BY DEF DemoAssumption, Demo!RingSize
  <2> QED
    BY <2>1, <2>2, <2>3 DEF Demo!Snapshot, DemoInv, RingInv, Open
<1>2. Mixed(reading)
  <2>1. reading \in Seq(0 .. DemoReadings) /\ Len(reading) = 3 /\ 0 .. DemoReadings \subseteq Nat
    BY DEF DemoInv, ReadingInv
  <2>2. reading \in Seq(Nat)
    BY <2>1, SeqMonotonic
  <2>3. reading[1] \in Nat /\ reading[2] \in Nat
    BY <2>1, Threes
  <2>4. reading[1] - reading[2] \in {0, 1}
    BY <2>3 DEF DemoInv, ReadingInv
  <2> QED
    BY <2>1, <2>2, <2>4 DEF Mixed
<1>3. snap \in Snap /\ snap.step = frame /\ snap.reading = reading
  BY <1>1, <1>2 DEF Snap, Mixed
<1> HIDE DEF snap
<1>4. /\ q \in Seq(Snap) /\ Len(q) = Len(ring) + 1 /\ q[Len(ring) + 1] = snap
      /\ \A i \in 1 .. Len(ring) : q[i] = ring[i]
  BY <1>1, <1>3, AppendProperties
<1> HIDE DEF q
<1>5. PICK r \in Nat : r = Demo!RingSize
  BY <1>1
<1>6. /\ ring' \in Seq(Snap)
      /\ Len(ring') = IF Len(q) <= r THEN Len(q) ELSE r
      /\ \A i \in 1 .. Len(ring') : ring'[i] = q[Len(q) - Len(ring') + i]
  <2>1. PICK w, wider, kind : w = ring' /\ wider = q /\ kind = Snap
    OBVIOUS
  <2>2. wider \in Seq(kind) /\ w = Demo!LastOf(wider, r)
    BY <1>1, <1>4, <1>5, <2>1
  <2>3. /\ w \in Seq(kind) /\ Len(w) = IF Len(wider) <= r THEN Len(wider) ELSE r
        /\ \A i \in 1 .. Len(w) : w[i] = wider[Len(wider) - Len(w) + i]
    BY <2>2, LastOfFacts, SMTT(60)
  <2> QED
    BY <2>1, <2>3
<1>7. PICK l, m : l = Len(ring) /\ m = Len(ring')
  OBVIOUS
<1>8. l \in Nat /\ m \in Nat /\ Len(q) = l + 1 /\ r # 0 /\ l = (IF frame <= r THEN frame ELSE r)
      /\ m = IF l + 1 <= r THEN l + 1 ELSE r
  BY <1>1, <1>4, <1>5, <1>6, <1>7 DEF Kept
<1>9. m = (IF frame + 1 <= r THEN frame + 1 ELSE r) /\ m <= r /\ m <= l + 1
  BY <1>1, <1>5, <1>8
<1>10. ASSUME NEW i \in 1 .. m
       PROVE  ring'[i].step = frame + 1 - m + i - 1 /\ Mixed(ring'[i].reading)
  <2>1. ring'[i] = q[l + 1 - m + i] /\ l + 1 - m + i \in 1 .. l + 1
    BY <1>6, <1>7, <1>8, <1>9
  <2>2. CASE i = m
    <3>1. ring'[i] = snap
      BY <1>4, <1>7, <1>8, <2>1, <2>2
    <3> QED
      BY <1>1, <1>2, <1>3, <1>8, <2>2, <3>1
  <2>3. CASE i # m
    <3>1. PICK j : j = l + 1 - m + i
      OBVIOUS
    <3>2. j \in 1 .. l /\ j = l + 1 - m + i
      BY <1>8, <1>9, <2>1, <2>3, <3>1
    <3>3. ring'[i] = ring[j]
      BY <1>4, <1>7, <2>1, <3>1, <3>2
    <3>4. ring[j].step = frame - l + j - 1 /\ Mixed(ring[j].reading)
      BY <1>1, <1>7, <3>2
    <3> QED
      BY <1>1, <1>8, <3>2, <3>3, <3>4
  <2> QED
    BY <2>2, <2>3
<1>11. Past' = frame + 1
  BY <1>1 DEF Past
<1>12. Kept(Past)' = m
  BY <1>5, <1>9, <1>11 DEF Kept
<1>13. Len(ring') = m /\ m \in Nat /\ m <= Demo!RingSize /\ ring' \in Seq(Snap)
  BY <1>5, <1>6, <1>7, <1>8, <1>9
<1>14. \A i \in 1 .. Len(ring') : ring'[i].step = Past' - Len(ring') + i - 1 /\ Mixed(ring'[i].reading)
  <2> SUFFICES ASSUME NEW i \in 1 .. Len(ring')
               PROVE  ring'[i].step = Past' - Len(ring') + i - 1 /\ Mixed(ring'[i].reading)
    OBVIOUS
  <2>1. i \in 1 .. m
    BY <1>13
  <2>2. ring'[i].step = frame + 1 - m + i - 1 /\ Mixed(ring'[i].reading)
    BY <1>10, <2>1
  <2>3. PICK p, len : p = Past' /\ len = Len(ring')
    OBVIOUS
  <2>4. p = frame + 1 /\ len = m
    BY <1>11, <1>13, <2>3
  <2>5. ring'[i].step = p - len + i - 1
    BY <1>1, <1>8, <2>2, <2>4
  <2> QED
    BY <2>2, <2>3, <2>5
<1>15. Demo!RingSize' = Demo!RingSize
  BY DEF Demo!RingSize
<1> QED
  BY <1>12, <1>13, <1>14, <1>15 DEF RingInv, Mixed

LEMMA SnapshotDemo == ASSUME DemoAssumption, DemoInv, Demo!Snapshot PROVE DemoInv'
<1>1. /\ point = "snapshot" /\ point' = "trigger"
      /\ UNCHANGED <<standing, listed, lockstep, frame, post, event, seen, file, aborted, stuck>>
      /\ UNCHANGED <<reading, writing, collided, context, hitting, hits>>
  BY DEF Demo!Snapshot, Demo!worldVars, Demo!callbackVars
<1>2. ReadingInv' /\ HitsInv'
  BY <1>1 DEF DemoInv, ReadingInv, HitsInv
<1>3. CountInv'
  BY <1>1 DEF DemoInv, CountInv, Open
<1>4. WorldInv' /\ Demo!DemoRestores'
  BY <1>1 DEF DemoInv, WorldInv, Demo!DemoRestores, Demo!Recorded, Demo!NextUp, Points, Open
<1>5. Demo!SealedWhole'
  BY <1>1 DEF DemoInv, Demo!SealedWhole
<1> QED
  BY <1>2, <1>3, <1>4, <1>5, SnapshotRing DEF DemoInv

-----------------------------------------------------------------------------
(* The step that finds the flag starts the counter, and the one that is    *)
(* the last of the window seals the event.                                 *)
Found == collided # 0 /\ post < 0

Seals == Demo!Count(Found) >= WindowAfter

LEMMA TriggerMoves ==
  ASSUME DemoAssumption, DemoInv, Demo!Trigger
  PROVE  /\ point = "trigger" /\ frame \in 0 .. DemoSteps - 1 /\ post' = Demo!Count(Found)
         /\ seen' = (IF Found THEN frame ELSE seen)
         /\ post \in -1 .. WindowAfter /\ (post < 0 <=> seen = -1)
         /\ IF Seals
            THEN /\ event' = Demo!CreateSealedEvent(ring, frame - WindowAfter, "collision", context)
                 /\ point' = "report" /\ frame' = frame
            ELSE frame' = frame + 1 /\ point' = "tick" /\ event' = event
         /\ UNCHANGED <<standing, listed, lockstep, ring, file, aborted, stuck>>
         /\ UNCHANGED <<reading, writing, collided, context, hitting, hits>>
<1>1. /\ point = "trigger" /\ post' = Demo!Count(Found)
      /\ seen' = (IF Found THEN frame ELSE seen)
      /\ IF Seals
         THEN /\ event' = Demo!CreateSealedEvent(ring, frame - WindowAfter, "collision", context)
              /\ point' = "report" /\ frame' = frame
         ELSE frame' = frame + 1 /\ point' = "tick" /\ event' = event
      /\ UNCHANGED <<standing, listed, lockstep, ring, file, aborted, stuck>>
      /\ UNCHANGED <<reading, writing, collided, context, hitting, hits>>
  BY DEF Demo!Trigger, Found, Seals, Demo!worldVars, Demo!callbackVars
<1>2. frame \in 0 .. DemoSteps - 1 /\ DemoSteps \in Nat /\ WindowAfter \in Nat
  BY <1>1 DEF DemoAssumption, DemoInv, CountInv
<1>3. post \in -1 .. WindowAfter /\ (post < 0 <=> seen = -1)
  BY <1>1, <1>2 DEF DemoInv, CountInv, Open
<1> QED
  BY <1>1, <1>2, <1>3

LEMMA TriggerCount == ASSUME DemoAssumption, DemoInv, Demo!Trigger PROVE CountInv'
<1>1. /\ WindowAfter \in Nat \ {0} /\ DemoSteps \in Nat /\ frame \in 0 .. DemoSteps - 1
      /\ seen \in -1 .. DemoSteps /\ post \in -1 .. WindowAfter
      /\ IF seen = -1 THEN post = -1 ELSE post = frame - seen /\ post \in 1 .. WindowAfter - 1
      /\ event = Demo!Nothing
  BY TriggerMoves DEF DemoAssumption, DemoInv, CountInv, Open
<1>2. /\ post' = (IF Found THEN 1 ELSE IF post >= 0 THEN post + 1 ELSE post)
      /\ seen' = (IF Found THEN frame ELSE seen) /\ (Found => seen = -1)
  BY <1>1, TriggerMoves DEF Demo!Count, Found
<1>3. post' \in -1 .. WindowAfter /\ seen' \in -1 .. DemoSteps
  BY <1>1, <1>2
<1>4. CASE Seals
  BY <1>1, <1>3, <1>4, TriggerMoves DEF CountInv, Open
<1>5. CASE ~Seals
  <2>1. frame' = frame + 1 /\ point' = "tick" /\ event' = Demo!Nothing /\ post' < WindowAfter
    BY <1>1, <1>3, <1>5, TriggerMoves DEF Seals
  <2>2. IF seen' = -1 THEN post' = -1
        ELSE post' = frame' - seen' /\ post' \in 1 .. WindowAfter - 1
    BY <1>1, <1>2, <1>3, <2>1
  <2>3. frame' \in 0 .. DemoSteps /\ point' \notin {"snapshot", "trigger"}
    BY <1>1, <2>1
  <2> QED
    BY <1>3, <2>1, <2>2, <2>3 DEF CountInv
<1> QED
  BY <1>4, <1>5

LEMMA Within ==
  ASSUME NEW t \in Nat, NEW o \in Nat, NEW f \in Nat, o <= t, t <= f
  PROVE  /\ t - o + 1 \in 1 .. f - o + 1 /\ o + (t - o + 1) - 1 = t /\ f - o + 1 \in Nat
         /\ \A i \in 1 .. f - o + 1 : f + 1 - (f - o + 1) + i - 1 = o + i - 1
OBVIOUS

(* When it seals, the ring holds all the event is to hold.                 *)
LEMMA SealsWhole == ASSUME DemoAssumption, DemoInv, Demo!Trigger, Seals PROVE Demo!SealedWhole'
<1>1. PICK newest : newest = seen' + WindowAfter - 1
  OBVIOUS
<1>2. PICK oldest : oldest = IF newest < WindowBefore THEN 0 ELSE newest - WindowBefore
  OBVIOUS
<1>3. /\ WindowAfter \in 1 .. WindowBefore + 1 /\ WindowBefore \in Nat /\ frame \in Nat
      /\ seen \in -1 .. DemoSteps /\ DemoSteps \in Nat
      /\ IF seen = -1 THEN post = -1 ELSE post = frame - seen /\ post \in 1 .. WindowAfter - 1
  BY TriggerMoves DEF DemoAssumption, DemoInv, CountInv, Open
<1>4. /\ (IF Found THEN 1 ELSE IF post >= 0 THEN post + 1 ELSE post) >= WindowAfter
      /\ seen' = (IF Found THEN frame ELSE seen)
  BY TriggerMoves DEF Seals, Demo!Count
<1>5. newest = frame /\ seen' \in Nat /\ seen' = frame - WindowAfter + 1
  BY <1>1, <1>3, <1>4
<1>6. /\ oldest \in Nat /\ oldest <= seen' /\ seen' <= newest
      /\ newest - oldest + 1 = IF frame + 1 <= WindowBefore + 1 THEN frame + 1
                                                               ELSE WindowBefore + 1
  BY <1>2, <1>3, <1>5
<1>7. PICK n : n = newest - oldest + 1
  OBVIOUS
<1>8. /\ ring \in Seq(Snap) /\ Len(ring) = n /\ n \in Nat
      /\ \A i \in 1 .. n : ring[i].step = frame + 1 - n + i - 1 /\ Mixed(ring[i].reading)
  <2>0. n \in Nat
    BY <1>3, <1>5, <1>6, <1>7, Within
  <2>1. Past = frame + 1 /\ point \in Open
    BY TriggerMoves DEF Past, Open
  <2>2. Kept(frame + 1) = n
    BY <1>6, <1>7 DEF Kept, Demo!RingSize
  <2>3. ring \in Seq(Snap) /\ Len(ring) = n
    BY <2>1, <2>2 DEF DemoInv, RingInv
  <2>4. ASSUME NEW i \in 1 .. n
        PROVE  ring[i].step = frame + 1 - n + i - 1 /\ Mixed(ring[i].reading)
    <3>1. ring[i].step = Past - Len(ring) + i - 1 /\ Mixed(ring[i].reading)
      BY <2>1, <2>3 DEF DemoInv, RingInv
    <3> QED
      BY <1>3, <2>0, <2>1, <2>3, <3>1
  <2> QED
    BY <2>0, <2>3, <2>4
<1>9. /\ event'.speed = [i \in DOMAIN ring |-> ring[i].step] /\ event'.about = context
      /\ event'.imu = {SubSeq(ring[i].reading, 1, 2) :
                         i \in {j \in DOMAIN ring : ring[j].reading[1] # 0}}
  BY TriggerMoves DEF Demo!CreateSealedEvent
<1>10. DOMAIN ring = 1 .. n
  BY <1>8
<1>11. event'.speed = [i \in 1 .. n |-> oldest + i - 1]
  <2>1. ASSUME NEW i \in 1 .. n PROVE ring[i].step = oldest + i - 1
    BY <1>3, <1>5, <1>6, <1>7, <1>8
  <2> QED
    BY <1>9, <1>10, <2>1
<1>12. seen' \in {event'.speed[i] : i \in DOMAIN event'.speed}
  <2>1. PICK k : k = seen' - oldest + 1
    OBVIOUS
  <2>2. k \in 1 .. n /\ oldest + k - 1 = seen'
    BY <1>3, <1>5, <1>6, <1>7, <2>1, Within
  <2>3. DOMAIN event'.speed = 1 .. n /\ event'.speed[k] = seen'
    BY <1>11, <2>2
  <2> QED
    BY <2>2, <2>3
<1>13. event'.about \in {0, 1}
  BY <1>9 DEF DemoInv, HitsInv
<1>14. ASSUME NEW both \in event'.imu PROVE both[1] - both[2] \in {0, 1}
  <2>1. PICK i \in 1 .. n : both = SubSeq(ring[i].reading, 1, 2)
    BY <1>9, <1>10
  <2>2. PICK r : r = ring[i].reading
    OBVIOUS
  <2>3. r \in Seq(Nat) /\ Len(r) = 3 /\ r[1] - r[2] \in {0, 1} /\ both = SubSeq(r, 1, 2)
    BY <1>8, <2>1, <2>2 DEF Mixed
  <2>4. both[1] = r[1] /\ both[2] = r[2]
    BY <2>3
  <2> QED
    BY <2>3, <2>4
<1> QED
  BY <1>1, <1>2, <1>7, <1>11, <1>12, <1>13, <1>14 DEF Demo!SealedWhole

LEMMA TriggerDemo == ASSUME DemoAssumption, DemoInv, Demo!Trigger PROVE DemoInv'
<1>1. ReadingInv' /\ HitsInv'
  BY TriggerMoves DEF DemoInv, ReadingInv, HitsInv
<1>2. RingInv'
  <2>1. /\ ring' = ring /\ RingInv /\ point \in Open /\ Past = frame + 1
        /\ Demo!RingSize' = Demo!RingSize
    BY TriggerMoves DEF DemoInv, Open, Past, Demo!RingSize
  <2>2. CASE Seals
    BY <2>1, <2>2, TriggerMoves DEF RingInv, Open
  <2>3. CASE ~Seals
    <3>1. Past' = Past /\ Kept(Past)' = Kept(Past)
      BY <2>1, <2>3, TriggerMoves DEF Past, Kept
    <3> QED
      BY <2>1, <3>1 DEF RingInv
  <2> QED
    BY <2>2, <2>3
<1>3. WorldInv' /\ Demo!DemoRestores'
  <2>1. /\ point' \in {"report", "tick"} /\ UNCHANGED <<standing, listed, lockstep, file, aborted, stuck>>
        /\ WorldInv
    BY TriggerMoves DEF DemoInv
  <2>2. event'.kind \in {"none", "collision"}
    BY <2>1, TriggerMoves DEF WorldInv, Demo!CreateSealedEvent
  <2> QED
    BY <2>1, <2>2 DEF WorldInv, Demo!DemoRestores, Demo!Recorded, Demo!NextUp, Points, Open
<1>4. Demo!SealedWhole'
  <2>1. CASE ~Seals
    <3>1. event' = Demo!Nothing
      BY <2>1, TriggerMoves DEF DemoInv, CountInv, Open
    <3> QED
      BY <3>1 DEF Demo!SealedWhole, Demo!Nothing
  <2> QED
    BY <2>1, SealsWhole
<1> QED
  BY <1>1, <1>2, <1>3, <1>4, TriggerCount DEF DemoInv

LEMMA StepDemo == ASSUME DemoAssumption, DemoInv, [Demo!Next]_demoVars PROVE DemoInv'
<1>1. CASE UNCHANGED demoVars
  <2>1. /\ UNCHANGED <<point, standing, listed, lockstep, frame, ring, post, event, seen, file, aborted,
                       stuck>>
        /\ UNCHANGED <<reading, writing, collided, context, hitting, hits>>
    BY <1>1 DEF demoVars
  <2>2. ReadingInv' /\ HitsInv'
    BY <2>1 DEF DemoInv, ReadingInv, HitsInv
  <2>3. Past' = Past /\ Kept(Past)' = Kept(Past)
    BY <2>1 DEF Past, Kept
  <2>4. RingInv' /\ CountInv'
    BY <2>1, <2>3 DEF DemoInv, RingInv, CountInv
  <2>5. WorldInv' /\ Demo!DemoRestores'
    BY <2>1 DEF DemoInv, WorldInv, Demo!DemoRestores, Demo!Recorded, Demo!NextUp
  <2>6. Demo!SealedWhole'
    BY <2>1 DEF DemoInv, Demo!SealedWhole
  <2> QED
    BY <2>2, <2>4, <2>5, <2>6 DEF DemoInv
<1>2. CASE Demo!Next
  <2>1. Demo!Callback \/ Staging \/ Demo!Snapshot \/ Demo!Trigger
    BY <1>2 DEF Demo!Next, Demo!Main, Staging
  <2> QED
    BY <2>1, CallbackDemo, StagingDemo, SnapshotDemo, TriggerDemo
<1> QED
  BY <1>1, <1>2

LEMMA DemoTypes == ASSUME DemoAssumption, DemoInv PROVE Demo!TypeOK
<1>1. {lockstep, hitting, aborted, stuck} \subseteq BOOLEAN
  BY DEF DemoInv, WorldInv, HitsInv
<1>2. {collided, context, hits} \subseteq 0 .. MaxHits
  <2>1. MaxHits \in Nat /\ hits \in 0 .. MaxHits /\ collided = (IF hits = 0 THEN 0 ELSE 1)
        /\ context \in {0, collided}
    BY DEF DemoAssumption, DemoInv, HitsInv
  <2>2. collided \in 0 .. MaxHits
    BY <2>1
  <2> QED
    BY <2>1, <2>2
<1>3. standing \subseteq {Demo!Cast[i] : i \in DOMAIN Demo!Cast} /\ listed \in 0 .. Len(Demo!Cast)
  <2>1. Len(Demo!Cast) = 5 /\ DOMAIN Demo!Cast = 1 .. 5 /\ listed \in 0 .. 5
    BY DEF DemoInv, WorldInv, Demo!Cast
  <2>2. Demo!Recorded \cup Demo!NextUp \subseteq {Demo!Cast[i] : i \in DOMAIN Demo!Cast}
    BY <2>1 DEF Demo!Recorded, Demo!NextUp
  <2> QED
    BY <2>1, <2>2 DEF DemoInv, WorldInv
<1> QED
  BY <1>1, <1>2, <1>3 DEF DemoInv, ReadingInv, RingInv, CountInv, WorldInv, Demo!TypeOK, Points,
     Open

-----------------------------------------------------------------------------
(* What the urban drive has spawned, and where it is recorded.             *)
Roster == ToSet(actors)

Traffic == Vehicles \cup Walkers \cup Controllers

Spawning == {"vehicles", "walkers", "controllers", "walk"}

Driving == {"handlers", "loop", "tick", "drain", "send"}

Cleaning == {"stopTraffic", "destroyTraffic", "destroyActors", "restore", "done"}

(* Where an exception or an interrupt may end the run.                     *)
Breaks == {"no", "connect", "ego", "sensors", "vehicles", "walkers", "controllers", "walk",
           "handlers", "tick"}

SceneTypes ==
  /\ phase \in {"connect", "ego", "sensors"} \cup Spawning \cup Driving \cup Cleaning
  /\ alive \subseteq {Ego} \cup Sensors \cup Traffic
  /\ traffic \subseteq Traffic /\ walking \subseteq Traffic
  /\ actors \in Seq({Ego} \cup Sensors)
  /\ sync \in BOOLEAN /\ handled \in BOOLEAN /\ refused \in BOOLEAN
  /\ broken \in Breaks

(* Nothing is unrecorded from the return of spawn_npc_traffic on.          *)
Owned == alive \subseteq Roster \cup traffic /\ walking \subseteq traffic

SettingInv ==
  /\ phase \in {"connect", "ego"} => alive = {} /\ actors = <<>>
  /\ phase \in {"connect", "ego", "sensors"} \cup Spawning => walking = {}
  /\ phase \in {"sensors"} \cup Spawning => Ego \in Roster
  /\ phase = "sensors" => alive \subseteq {Ego} \cup Sensors
  /\ phase \in Spawning => alive \subseteq Roster \cup Traffic
  /\ phase \in Driving => Owned

(* What is left to clean up: what was recorded, and what a spawning        *)
(* function that did not return had spawned.                               *)
CleaningInv ==
  /\ phase = "restore" => actors = <<>>
  /\ phase \in {"stopTraffic", "destroyTraffic"} =>
       alive \subseteq Roster \cup traffic \cup Unreturned(broken)
  /\ phase \in {"destroyActors", "restore"} => alive \subseteq Roster \cup Unreturned(broken)
  /\ broken # "walk" =>
       /\ phase = "stopTraffic" => walking \subseteq traffic
       /\ phase \in {"destroyTraffic", "destroyActors", "restore"} => walking = {}

SceneInv == SceneTypes /\ SettingInv /\ CleaningInv /\ UrbanRestores

(* A signal is followed by the rest of one step at most.                   *)
LoopInv ==
  /\ step \in 0 .. TotalSteps /\ (phase \in {"tick", "drain", "send"} => step < TotalSteps)
  /\ counted \in 0 .. step
  /\ running \in BOOLEAN /\ stopped \in -1 .. 1
  /\ running => stopped = -1
  /\ phase = "tick" => stopped < 1
  /\ stopped = 1 => TotalSteps >= 1

BoundInv == \A s \in Sensors : made[s] <= MaxReadings[s] /\ hand[s] <= MaxReadings[s]

UrbanInv == ChainInv /\ SceneInv /\ LoopInv /\ BoundInv

LEMMA RosterJoin ==
  ASSUME NEW S, NEW q \in Seq(S), NEW t \in Seq(S)
  PROVE  ToSet(q \o t) = ToSet(q) \cup ToSet(t)
<1>1. Len(q) \in Nat /\ Len(t) \in Nat /\ DOMAIN q = 1 .. Len(q) /\ DOMAIN t = 1 .. Len(t)
  OBVIOUS
<1>2. /\ DOMAIN (q \o t) = 1 .. Len(q) + Len(t)
      /\ \A i \in 1 .. Len(q) + Len(t) :
           (q \o t)[i] = IF i <= Len(q) THEN q[i] ELSE t[i - Len(q)]
  BY <1>1, ConcatProperties
<1>3. ToSet(q \o t) \subseteq ToSet(q) \cup ToSet(t)
  <2> SUFFICES ASSUME NEW i \in 1 .. Len(q) + Len(t) PROVE (q \o t)[i] \in ToSet(q) \cup ToSet(t)
    BY <1>2 DEF ToSet
  <2>1. CASE i <= Len(q)
    BY <1>1, <1>2, <2>1 DEF ToSet
  <2>2. CASE ~(i <= Len(q))
    <3>1. i - Len(q) \in DOMAIN t
      BY <1>1, <2>2
    <3> QED
      BY <1>2, <2>2, <3>1 DEF ToSet
  <2> QED
    BY <2>1, <2>2
<1>4. ToSet(q) \subseteq ToSet(q \o t)
  <2> SUFFICES ASSUME NEW i \in 1 .. Len(q) PROVE q[i] \in ToSet(q \o t)
    BY <1>1 DEF ToSet
  <2>1. i \in DOMAIN (q \o t) /\ (q \o t)[i] = q[i]
    BY <1>1, <1>2
  <2> QED
    BY <2>1 DEF ToSet
<1>5. ToSet(t) \subseteq ToSet(q \o t)
  <2> SUFFICES ASSUME NEW i \in 1 .. Len(t) PROVE t[i] \in ToSet(q \o t)
    BY <1>1 DEF ToSet
  <2>1. PICK k \in 1 .. Len(q) + Len(t) : k = Len(q) + i /\ ~(k <= Len(q)) /\ k - Len(q) = i
    BY <1>1
  <2>2. k \in DOMAIN (q \o t) /\ (q \o t)[k] = t[i]
    BY <1>2, <2>1
  <2> QED
    BY <2>2 DEF ToSet
<1> QED
  BY <1>3, <1>4, <1>5

LEMMA RosterFront ==
  ASSUME NEW S, NEW q \in Seq(S), q # <<>>
  PROVE  Front(q) \in Seq(S) /\ ToSet(q) \ {Last(q)} \subseteq ToSet(Front(q))
<1>1. PICK n \in Nat : n = Len(q) /\ n >= 1
  <2>1. Len(q) \in Nat \ {0}
    OBVIOUS
  <2> QED
    BY <2>1
<1>2. /\ Front(q) \in Seq(S) /\ DOMAIN Front(q) = 1 .. n - 1
      /\ \A i \in 1 .. n - 1 : Front(q)[i] = q[i]
  BY <1>1 DEF Front
<1>3. Last(q) = q[n]
  BY <1>1 DEF Last
<1>4. ASSUME NEW i \in 1 .. n, q[i] # Last(q) PROVE q[i] \in ToSet(Front(q))
  <2>1. i \in 1 .. n - 1
    BY <1>1, <1>3, <1>4
  <2> QED
    BY <1>2, <2>1 DEF ToSet
<1>5. DOMAIN q = 1 .. n
  BY <1>1
<1> QED
  BY <1>2, <1>4, <1>5 DEF ToSet

LEMMA InitScene == Init => SceneInv
<1> SUFFICES ASSUME Init PROVE SceneInv
  OBVIOUS
<1>1. /\ phase = "connect" /\ alive = {} /\ actors = <<>> /\ traffic = {} /\ walking = {}
      /\ sync = FALSE /\ handled = FALSE /\ refused = FALSE /\ broken = "no"
  BY DEF Init
<1>2. SceneTypes
  <2>1. sync \in BOOLEAN /\ handled \in BOOLEAN /\ refused \in BOOLEAN
    BY <1>1
  <2>2. actors \in Seq({Ego} \cup Sensors)
    BY <1>1
  <2> QED
    BY <1>1, <2>1, <2>2 DEF SceneTypes, Breaks
<1>3. SettingInv /\ CleaningInv /\ UrbanRestores
  BY <1>1 DEF SettingInv, CleaningInv, UrbanRestores, Spawning, Driving
<1> QED
  BY <1>2, <1>3 DEF SceneInv

(* The steps that leave the scene alone.                                   *)
LEMMA StillScene ==
  ASSUME SceneInv, UNCHANGED sceneVars, handled' \in BOOLEAN,
         \/ UNCHANGED <<phase, broken, refused>>
         \/ /\ UNCHANGED <<broken, refused>> /\ {phase, phase'} \subseteq Driving
         \/ /\ phase = "loop" /\ phase' = "stopTraffic" /\ UNCHANGED <<broken, refused>>
         \/ /\ phase = "tick" /\ phase' = "stopTraffic" /\ broken' = "tick" /\ refused' = refused
         \/ /\ phase' = "done" /\ refused' = TRUE /\ broken' = broken
  PROVE  SceneInv'
<1>1. UNCHANGED <<alive, actors, traffic, walking, sync>> /\ Roster' = Roster
  BY DEF sceneVars, Roster
<1>2. Owned' = Owned /\ (broken' = broken => Unreturned(broken)' = Unreturned(broken))
  BY <1>1 DEF Owned, Unreturned, Controllers
<1> USE DEF Spawning, Driving, Cleaning
<1>3. CASE UNCHANGED <<phase, broken, refused>>
  BY <1>1, <1>2, <1>3 DEF SceneInv, SceneTypes, SettingInv, CleaningInv, UrbanRestores
<1>4. CASE UNCHANGED <<broken, refused>> /\ {phase, phase'} \subseteq Driving
  BY <1>1, <1>2, <1>4 DEF SceneInv, SceneTypes, SettingInv, CleaningInv, UrbanRestores
<1>5. CASE phase = "loop" /\ phase' = "stopTraffic" /\ UNCHANGED <<broken, refused>>
  BY <1>1, <1>2, <1>5 DEF SceneInv, Owned, SceneTypes, SettingInv, CleaningInv, UrbanRestores
<1>6. CASE phase = "tick" /\ phase' = "stopTraffic" /\ broken' = "tick" /\ refused' = refused
  BY <1>1, <1>2, <1>6 DEF SceneInv, Owned, Breaks, SceneTypes, SettingInv, CleaningInv, UrbanRestores
<1>7. CASE phase' = "done" /\ refused' = TRUE /\ broken' = broken
  BY <1>1, <1>2, <1>7 DEF SceneInv, SceneTypes, SettingInv, CleaningInv, UrbanRestores
<1> QED
  BY <1>3, <1>4, <1>5, <1>6, <1>7

(* A part of the setting up that fails.                                    *)
LEMMA FailScene == ASSUME SceneInv, Fail PROVE SceneInv'
<1>1. /\ phase' = "stopTraffic" /\ broken' = phase /\ UNCHANGED <<actors, traffic, handled, refused>>
      /\ Roster' = Roster /\ phase \in Breaks /\ Unreturned(broken)' = Unreturned(phase)
  BY DEF Fail, Break, Quiet, signalVars, Roster, Breaks, Unreturned, Controllers
<1>2. PICK some \in SUBSET Wanted : alive' = alive \cup some
  BY DEF Fail
<1>3. some \subseteq Unreturned(phase) /\ Unreturned(phase) \subseteq {Ego} \cup Sensors \cup Traffic
  BY <1>2 DEF Wanted, Unreturned, Traffic
<1>4. alive \subseteq Roster \cup traffic \cup Unreturned(phase)
  <2>1. CASE phase \in {"connect", "ego"}
    BY <2>1 DEF SceneInv, SettingInv
  <2>2. CASE phase = "sensors"
    BY <2>2 DEF SceneInv, SettingInv, Unreturned
  <2>3. CASE phase \in Spawning
    BY <2>3 DEF SceneInv, SettingInv, Unreturned, Spawning, Traffic
  <2>4. CASE phase = "handlers"
    BY <2>4 DEF SceneInv, SettingInv, Driving, Owned
  <2> QED
    BY <2>1, <2>2, <2>3, <2>4 DEF Fail, Spawning
<1>7. broken' # "walk" => walking' \subseteq traffic'
  <2>1. broken' # "walk" => walking' = walking /\ phase # "walk"
    BY <1>1 DEF Fail
  <2>2. phase # "walk" => walking \subseteq traffic
    BY DEF Fail, SceneInv, SettingInv, Spawning, Driving, Owned
  <2> QED
    BY <1>1, <2>1, <2>2
<1>5. walking' \subseteq Traffic /\ sync' \in BOOLEAN
  <2>1. walking' \subseteq Traffic
    BY DEF Fail, SceneInv, SceneTypes, Walking, Traffic
  <2>2. sync' \in BOOLEAN
    BY DEF Fail, SceneInv, SceneTypes
  <2> QED
    BY <2>1, <2>2
<1>6. SceneTypes'
  <2>1. handled' \in BOOLEAN /\ refused' \in BOOLEAN
    BY <1>1 DEF SceneInv, SceneTypes
  <2>2. actors' \in Seq({Ego} \cup Sensors) /\ traffic' \subseteq Traffic
    BY <1>1 DEF SceneInv, SceneTypes
  <2> QED
    BY <1>1, <1>2, <1>3, <1>5, <2>1, <2>2 DEF SceneInv, SceneTypes, Cleaning, Traffic
<1> QED
  BY <1>1, <1>2, <1>3, <1>4, <1>6, <1>7 DEF SceneInv, SettingInv, CleaningInv, UrbanRestores,
     Spawning, Driving

(* Setting the scene.                                                      *)
LEMMA SettingScene ==
  ASSUME UrbanAssumption, SceneInv,
         Connect \/ SpawnEgo \/ AttachSensors \/ SpawnBatch \/ StartWalking
  PROVE  SceneInv'
<1>1. handled' \in BOOLEAN /\ refused' \in BOOLEAN /\ broken' \in Breaks
      /\ sync' \in BOOLEAN
  <2>1. UNCHANGED <<handled, refused, broken>>
    BY DEF Connect, SpawnEgo, AttachSensors, SpawnBatch, StartWalking, Quiet, signalVars
  <2>2. sync' = sync \/ sync' = TRUE
    BY DEF Connect, SpawnEgo, AttachSensors, SpawnBatch, StartWalking
  <2> QED
    BY <2>1, <2>2 DEF SceneInv, SceneTypes
<1> USE DEF Spawning, Driving, Cleaning
<1>2. CASE Connect
  <2>1. /\ phase = "connect" /\ phase' = "ego" /\ UNCHANGED <<alive, actors, traffic, walking>>
        /\ Roster' = Roster
    BY <1>2 DEF Connect, Roster
  <2> QED
    BY <1>1, <2>1 DEF SceneInv, SceneTypes, SettingInv, CleaningInv, UrbanRestores, Traffic
<1>3. CASE SpawnEgo
  <2>1. /\ phase = "ego" /\ phase' = "sensors" /\ alive' = {Ego} /\ actors' = <<Ego>>
        /\ UNCHANGED <<traffic, walking>>
    BY <1>3 DEF SpawnEgo
  <2>2. actors' \in Seq({Ego} \cup Sensors) /\ Ego \in Roster'
    BY <2>1 DEF Roster, ToSet
  <2> QED
    BY <1>1, <2>1, <2>2 DEF SceneInv, SceneTypes, SettingInv, CleaningInv, UrbanRestores, Traffic
<1>4. CASE AttachSensors
  <2>1. /\ phase = "sensors" /\ UNCHANGED <<traffic, walking>>
        /\ alive' \subseteq {Ego} \cup Sensors /\ walking = {} /\ Ego \in Roster
    BY <1>4 DEF AttachSensors, SceneInv, SettingInv
  <2>2. /\ actors \in Seq({Ego} \cup Sensors) /\ SensorOrder \in Seq({Ego} \cup Sensors)
        /\ Sensors \subseteq ToSet(SensorOrder)
    <3>1. SensorOrder \in Seq(Sensors) /\ Sensors \subseteq {Ego} \cup Sensors
      BY DEF UrbanAssumption
    <3>2. SensorOrder \in Seq({Ego} \cup Sensors)
      BY <3>1, SeqMonotonic
    <3>3. Sensors \subseteq ToSet(SensorOrder)
      BY DEF UrbanAssumption, ToSet
    <3> QED
      BY <3>2, <3>3 DEF SceneInv, SceneTypes
  <2>3. CASE UNCHANGED <<actors, phase>>
    <3>1. Roster' = Roster
      BY <2>3 DEF Roster
    <3> QED
      BY <1>1, <2>1, <2>3, <3>1 DEF SceneInv, SceneTypes, SettingInv, CleaningInv, UrbanRestores,
                                    Traffic
  <2>4. CASE actors' = actors \o SensorOrder /\ phase' = "vehicles"
    <3>1. actors' \in Seq({Ego} \cup Sensors)
      BY <2>2, <2>4, ConcatProperties
    <3>2. Roster' = Roster \cup ToSet(SensorOrder)
      <4>1. PICK crew, team : crew = actors /\ team = {Ego} \cup Sensors
        OBVIOUS
      <4>2. crew \in Seq(team) /\ SensorOrder \in Seq(team)
        BY <2>2, <4>1
      <4>3. ToSet(crew \o SensorOrder) = ToSet(crew) \cup ToSet(SensorOrder)
        BY <4>2, RosterJoin
      <4> QED
        BY <2>4, <4>1, <4>3 DEF Roster
    <3>3. {Ego} \cup Sensors \subseteq Roster'
      BY <2>1, <2>2, <3>2
    <3> QED
      BY <1>1, <2>1, <2>4, <3>1, <3>3 DEF SceneInv, SceneTypes, SettingInv, CleaningInv,
                                          UrbanRestores, Traffic
  <2> QED
    BY <1>4, <2>3, <2>4 DEF AttachSensors
<1>5. CASE SpawnBatch
  <2>1. /\ phase \in {"vehicles", "walkers", "controllers"} /\ UNCHANGED <<actors, traffic, walking>>
        /\ phase' \in {"walkers", "controllers", "walk"} /\ Roster' = Roster
    BY <1>5 DEF SpawnBatch, Roster
  <2>2. PICK some \in SUBSET Wanted : alive' = alive \cup some
    BY <1>5 DEF SpawnBatch
  <2>3. some \subseteq Traffic
    BY <2>1 DEF Wanted, Traffic
  <2>4. alive' \subseteq Roster \cup Traffic /\ alive' \subseteq {Ego} \cup Sensors \cup Traffic
        /\ Ego \in Roster /\ walking = {}
    BY <2>1, <2>2, <2>3 DEF SceneInv, SceneTypes, SettingInv
  <2> QED
    BY <1>1, <2>1, <2>4 DEF SceneInv, SceneTypes, SettingInv, CleaningInv, UrbanRestores, Traffic
<1>6. CASE StartWalking
  <2>1. /\ phase = "walk" /\ phase' = "handlers" /\ UNCHANGED <<alive, actors>> /\ Roster' = Roster
        /\ walking' = alive \cap Controllers /\ traffic' = alive \cap Traffic
    BY <1>6 DEF StartWalking, Walking, Traffic, Roster
  <2>2. alive \subseteq Roster \cup Traffic /\ Ego \in Roster
    BY <2>1 DEF SceneInv, SettingInv
  <2>3. Owned' /\ traffic' \subseteq Traffic /\ walking' \subseteq Traffic
    BY <2>1, <2>2 DEF Owned, Traffic
  <2>4. Traffic' = Traffic
    BY DEF Traffic, Controllers
  <2> QED
    BY <1>1, <2>1, <2>2, <2>3, <2>4 DEF SceneInv, SceneTypes, SettingInv, CleaningInv, UrbanRestores
<1> QED
  BY <1>2, <1>3, <1>4, <1>5, <1>6

(* Cleaning up.                                                            *)
LEMMA CleaningScene ==
  ASSUME SceneInv, StopTraffic \/ DestroyTraffic \/ DestroyActor \/ Restore
  PROVE  SceneInv'
<1>1. /\ handled' \in BOOLEAN /\ refused' \in BOOLEAN /\ UNCHANGED <<broken, refused>>
      /\ sync' \in BOOLEAN /\ Traffic' = Traffic /\ Unreturned(broken)' = Unreturned(broken)
  <2>1. UNCHANGED <<handled, refused, broken>>
    BY DEF StopTraffic, DestroyTraffic, DestroyActor, Restore, Quiet, signalVars
  <2>2. sync' = sync \/ sync' = FALSE
    BY DEF StopTraffic, DestroyTraffic, DestroyActor, Restore
  <2> QED
    BY <2>1, <2>2 DEF SceneInv, SceneTypes, Traffic, Controllers, Unreturned
<1> USE DEF Spawning, Driving, Cleaning
<1>2. CASE StopTraffic
  <2>1. /\ phase = "stopTraffic" /\ phase' = "destroyTraffic" /\ UNCHANGED <<alive, actors, traffic>>
        /\ walking' = walking \ traffic /\ Roster' = Roster
    BY <1>2 DEF StopTraffic, Roster
  <2>2. /\ broken # "walk" => walking' = {}
        /\ alive' \subseteq Roster' \cup traffic' \cup Unreturned(broken)
    BY <2>1 DEF SceneInv, CleaningInv
  <2> QED
    BY <1>1, <2>1, <2>2 DEF SceneInv, SceneTypes, SettingInv, CleaningInv, UrbanRestores
<1>3. CASE DestroyTraffic
  <2>1. /\ phase = "destroyTraffic" /\ phase' = "destroyActors"
        /\ UNCHANGED <<walking, actors, traffic>> /\ alive' = alive \ traffic /\ Roster' = Roster
    BY <1>3 DEF DestroyTraffic, Roster
  <2>2. (broken # "walk" => walking' = {}) /\ alive' \subseteq Roster' \cup Unreturned(broken)
    BY <2>1 DEF SceneInv, CleaningInv
  <2> QED
    BY <1>1, <2>1, <2>2 DEF SceneInv, SceneTypes, SettingInv, CleaningInv, UrbanRestores
<1>4. CASE DestroyActor
  <2>1. phase = "destroyActors" /\ UNCHANGED <<walking, traffic>> /\ actors \in Seq({Ego} \cup Sensors)
    BY <1>4 DEF DestroyActor, SceneInv, SceneTypes
  <2>2. CASE actors # <<>>
    <3>1. alive' = alive \ {Last(actors)} /\ actors' = Front(actors) /\ phase' = phase
      BY <1>4, <2>2 DEF DestroyActor
    <3>2. actors' \in Seq({Ego} \cup Sensors) /\ Roster \ {Last(actors)} \subseteq Roster'
      BY <2>1, <2>2, <3>1, RosterFront DEF Roster
    <3>3. (broken # "walk" => walking' = {}) /\ alive' \subseteq Roster' \cup Unreturned(broken)
      BY <2>1, <3>1, <3>2 DEF SceneInv, CleaningInv
    <3> QED
      BY <1>1, <2>1, <3>1, <3>2, <3>3 DEF SceneInv, SceneTypes, SettingInv, CleaningInv,
                                                UrbanRestores
  <2>3. CASE actors = <<>>
    <3>1. phase' = "restore" /\ UNCHANGED <<alive, actors>> /\ Roster' = Roster
      BY <1>4, <2>3 DEF DestroyActor, Roster
    <3> QED
      BY <1>1, <2>1, <2>3, <3>1 DEF SceneInv, SceneTypes, SettingInv, CleaningInv, UrbanRestores
  <2> QED
    BY <2>2, <2>3
<1>5. CASE Restore
  <2>1. /\ phase = "restore" /\ phase' = "done" /\ sync' = FALSE
        /\ UNCHANGED <<alive, actors, traffic, walking>> /\ Roster' = Roster
    BY <1>5 DEF Restore, Roster
  <2>2. Roster = {}
    BY <2>1 DEF SceneInv, CleaningInv, Roster, ToSet
  <2>3. alive \subseteq Unreturned(broken) /\ (broken # "walk" => walking = {})
    BY <2>1, <2>2 DEF SceneInv, CleaningInv
  <2>4. UrbanRestores'
    BY <1>1, <2>1, <2>3 DEF UrbanRestores
  <2> QED
    BY <1>1, <2>1, <2>4 DEF SceneInv, SceneTypes, SettingInv, CleaningInv
<1> QED
  BY <1>2, <1>3, <1>4, <1>5

LEMMA StepScene ==
  ASSUME UrbanAssumption, SceneInv, [Next]_urbanVars
  PROVE  SceneInv'
<1>1. CASE Connect \/ SpawnEgo \/ AttachSensors \/ SpawnBatch \/ StartWalking
  BY <1>1, SettingScene
<1>2. CASE StopTraffic \/ DestroyTraffic \/ DestroyActor \/ Restore
  BY <1>2, CleaningScene
<1>3. CASE Fail
  BY <1>3, FailScene
<1>4. CASE InstallHandlers \/ EnterStep \/ LeaveLoop \/ Tick \/ EndOfQueue \/ SendBatch
  <2>1. handled' \in BOOLEAN
    <3>1. handled' = handled \/ handled' = TRUE
      BY <1>4 DEF InstallHandlers, EnterStep, LeaveLoop, Tick, EndOfQueue, SendBatch, Quiet,
                  signalVars
    <3> QED
      BY <3>1 DEF SceneInv, SceneTypes
  <2>2. /\ UNCHANGED sceneVars /\ refused' = refused
        /\ \/ UNCHANGED phase /\ UNCHANGED broken
           \/ UNCHANGED broken /\ {phase, phase'} \subseteq Driving
           \/ phase = "loop" /\ phase' = "stopTraffic" /\ UNCHANGED broken
           \/ phase = "tick" /\ phase' = "stopTraffic" /\ broken' = "tick"
    BY <1>4 DEF InstallHandlers, EnterStep, LeaveLoop, Tick, EndOfQueue, SendBatch, Quiet, Break,
                sceneVars, Driving
  <2> QED
    BY <2>1, <2>2, StillScene
<1>5. CASE CleanUpFails
  <2>1. /\ UNCHANGED sceneVars /\ handled' = handled /\ phase' = "done" /\ refused' = TRUE
        /\ broken' = broken
    BY <1>5 DEF CleanUpFails, signalVars
  <2> QED
    BY <2>1, StillScene DEF SceneInv, SceneTypes
<1>6. CASE Signal \/ Callback \/ TakeReading \/ UNCHANGED urbanVars
  <2>1. UNCHANGED <<sceneVars, phase, broken, refused, handled>>
    BY <1>6 DEF Signal, Callback, NewReading, DropOldest, PutReading, TakeReading, urbanVars,
                signalVars
  <2> QED
    BY <2>1, StillScene DEF SceneInv, SceneTypes
<1> QED
  BY <1>1, <1>2, <1>3, <1>4, <1>5, <1>6 DEF Next, Main

-----------------------------------------------------------------------------
(* The main loop and the bounds.                                           *)
LEMMA StepLoop ==
  ASSUME UrbanAssumption, LoopInv, [Next]_urbanVars
  PROVE  LoopInv'
<1>1. /\ step \in 0 .. TotalSteps /\ TotalSteps \in Nat /\ counted \in 0 .. step
      /\ running \in BOOLEAN /\ stopped \in -1 .. 1 /\ (running => stopped = -1)
      /\ (phase \in {"tick", "drain", "send"} => step < TotalSteps)
      /\ (phase = "tick" => stopped < 1) /\ (stopped = 1 => TotalSteps >= 1)
  BY DEF UrbanAssumption, LoopInv
<1>2. CASE UNCHANGED <<running, stopped, step, counted>>
           /\ (phase' \in {"tick", "drain", "send"} => phase \in {"tick", "drain", "send"})
           /\ (phase' = "tick" => phase = "tick")
  BY <1>1, <1>2 DEF LoopInv
<1>3. CASE Signal
  <2>1. running' = FALSE /\ stopped' = 0 /\ UNCHANGED <<phase, step, counted>>
    BY <1>3 DEF Signal, drainVars
  <2>2. running' \in BOOLEAN /\ (running' => stopped' = -1)
    BY <2>1
  <2>3. stopped' \in -1 .. 1 /\ stopped' # 1 /\ stopped' < 1
    BY <2>1
  <2> QED
    BY <1>1, <2>1, <2>2, <2>3 DEF LoopInv
<1>4. CASE EnterStep
  <2>1. /\ running /\ step < TotalSteps /\ phase' = "tick"
        /\ UNCHANGED <<running, stopped, step, counted>>
    BY <1>4 DEF EnterStep, GoesOn, Quiet, signalVars, drainVars
  <2> QED
    BY <1>1, <2>1 DEF LoopInv
<1>5. CASE Tick
  <2>1. phase = "tick" /\ UNCHANGED <<running, counted>> /\ phase' # "tick" /\ phase' # "send"
    BY <1>5 DEF Tick, Break, drainVars
  <2>2. stopped' = stopped \/ (stopped >= 0 /\ stopped' = stopped + 1)
    BY <1>5 DEF Tick
  <2>3. step' = step \/ (step' = step + 1 /\ phase' = "loop")
    BY <1>5 DEF Tick
  <2>4. /\ stopped' \in -1 .. 1 /\ (running => stopped' = -1) /\ (stopped' = 1 => TotalSteps >= 1)
        /\ step' \in 0 .. TotalSteps /\ counted \in 0 .. step'
        /\ (phase' \in {"tick", "drain", "send"} => step' < TotalSteps)
    BY <1>1, <2>1, <2>2, <2>3, SMTT(30)
  <2> QED
    BY <1>1, <2>1, <2>4 DEF LoopInv
<1>6. CASE SendBatch
  <2>1. /\ phase = "send" /\ phase' = "loop" /\ step' = step + 1 /\ UNCHANGED <<running, stopped>>
        /\ counted' = counted + (IF batch[Collision] # 0 THEN 1 ELSE 0)
    BY <1>6 DEF SendBatch, signalVars
  <2>2. step' \in 0 .. TotalSteps /\ counted' \in 0 .. step'
    BY <1>1, <2>1
  <2> QED
    BY <1>1, <2>1, <2>2 DEF LoopInv
<1>7. CASE Connect \/ SpawnEgo \/ AttachSensors \/ SpawnBatch \/ StartWalking \/ Fail
  BY <1>2, <1>7 DEF Connect, SpawnEgo, AttachSensors, SpawnBatch, StartWalking, Fail, Break, Quiet,
                    signalVars, drainVars
<1>8. CASE InstallHandlers \/ LeaveLoop \/ CleanUpFails \/ StopTraffic \/ DestroyTraffic
             \/ DestroyActor \/ Restore
  BY <1>2, <1>8 DEF InstallHandlers, LeaveLoop, CleanUpFails, StopTraffic, DestroyTraffic,
                    DestroyActor, Restore, Quiet, signalVars, drainVars
<1>9. CASE TakeReading \/ EndOfQueue \/ Callback \/ UNCHANGED urbanVars
  BY <1>2, <1>9 DEF TakeReading, EndOfQueue, Callback, NewReading, DropOldest, PutReading, urbanVars,
                    signalVars, drainVars
<1> QED
  BY <1>3, <1>4, <1>5, <1>6, <1>7, <1>8, <1>9 DEF Next, Main

LEMMA StepBound ==
  ASSUME UrbanAssumption, ChainInv, BoundInv, [Next]_urbanVars
  PROVE  BoundInv'
<1>1. /\ made \in [Sensors -> Nat] /\ hand \in [Sensors -> Nat]
      /\ \A s \in Sensors : MaxReadings[s] \in Nat /\ made[s] <= MaxReadings[s]
                                                   /\ hand[s] <= MaxReadings[s]
  BY DEF UrbanAssumption, ChainInv, ReadingsInv, QueueTypes, BoundInv
<1>2. CASE UNCHANGED <<made, hand>>
  BY <1>2 DEF BoundInv
<1>3. CASE Callback
  <2>1. PICK s \in Sensors : NewReading(s) \/ DropOldest(s) \/ PutReading(s)
    BY <1>3 DEF Callback
  <2>2. CASE NewReading(s)
    <3>1. made' = made /\ made[s] < MaxReadings[s] /\ hand' = [hand EXCEPT ![s] = made[s] + 1]
      BY <2>2 DEF NewReading
    <3>2. \A x \in Sensors : hand'[x] = IF x = s THEN made[s] + 1 ELSE hand[x]
      BY <1>1, <3>1
    <3>3. made[s] \in Nat /\ MaxReadings[s] \in Nat /\ made[s] + 1 <= MaxReadings[s]
      BY <1>1, <3>1
    <3> QED
      BY <1>1, <3>1, <3>2, <3>3 DEF BoundInv
  <2>3. CASE DropOldest(s)
    BY <1>2, <2>3 DEF DropOldest
  <2>4. CASE PutReading(s)
    <3>1. hand' = [hand EXCEPT ![s] = 0] /\ (made' = made \/ made' = [made EXCEPT ![s] = hand[s]])
      BY <2>4 DEF PutReading
    <3>2. ASSUME NEW x \in Sensors PROVE hand'[x] <= MaxReadings[x] /\ made'[x] <= MaxReadings[x]
      <4>1. /\ made[x] \in Nat /\ hand[x] \in Nat /\ MaxReadings[x] \in Nat
            /\ made[x] <= MaxReadings[x] /\ hand[x] <= MaxReadings[x]
        BY <1>1
      <4>2. hand'[x] = IF x = s THEN 0 ELSE hand[x]
        BY <1>1, <3>1
      <4>3. made'[x] = made[x] \/ made'[x] = hand[x]
        <5>1. CASE made' = [made EXCEPT ![s] = hand[s]]
          BY <1>1, <5>1
        <5> QED
          BY <3>1, <5>1
      <4> QED
        BY <4>1, <4>2, <4>3
    <3> QED
      BY <3>2 DEF BoundInv
  <2> QED
    BY <2>1, <2>2, <2>3, <2>4
<1>4. CASE TakeReading \/ EndOfQueue \/ SendBatch
  BY <1>2, <1>4 DEF TakeReading, EndOfQueue, SendBatch, callbackVars
<1> QED
  BY <1>2, <1>3, <1>4, StepsAside DEF Aside, callbackVars

LEMMA UrbanInvariant ==
  /\ Init => UrbanInv
  /\ UrbanInv /\ [Next]_urbanVars => UrbanInv'
<1>1. ASSUME Init PROVE UrbanInv
  <2>1. LoopInv
    BY <1>1, UrbanAssumption DEF Init, LoopInv, UrbanAssumption
  <2>2. BoundInv
    BY <1>1, UrbanAssumption DEF Init, BoundInv, UrbanAssumption
  <2> QED
    BY <1>1, <2>1, <2>2, InitChain, InitScene, UrbanAssumption DEF UrbanInv
<1>2. ASSUME UrbanInv, [Next]_urbanVars PROVE UrbanInv'
  BY <1>2, StepChain, StepScene, StepLoop, StepBound, UrbanAssumption DEF UrbanInv
<1> QED
  BY <1>1, <1>2

LEMMA QueueBound ==
  ASSUME NEW q \in Seq(Nat), NEW r \in Nat, NEW m \in Nat, NEW n \in Nat, m <= n,
         \A i \in 1 .. Len(q) : r < q[i] /\ q[i] <= m
  PROVE  q \in Seq(1 .. n)
<1>1. Len(q) \in Nat /\ q \in [1 .. Len(q) -> Nat]
  OBVIOUS
<1>2. ASSUME NEW i \in 1 .. Len(q) PROVE q[i] \in 1 .. n
  <2>1. q[i] \in Nat
    BY <1>1
  <2> QED
    BY <2>1
<1>3. PICK k, t : k = Len(q) /\ t = 1 .. n
  OBVIOUS
<1>4. k \in Nat /\ q \in [1 .. k -> t]
  BY <1>1, <1>2, <1>3
<1>5. q \in Seq(t)
  BY <1>4
<1> QED
  BY <1>3, <1>5

LEMMA UrbanTypes == ASSUME UrbanAssumption, UrbanInv PROVE TypeOK
<1>1. SceneTypes /\ LoopInv /\ TotalSteps \in Nat
  BY DEF UrbanAssumption, UrbanInv, SceneInv
<1>2. {sync, handled, running, refused} \subseteq BOOLEAN
  BY <1>1 DEF SceneTypes, LoopInv
<1>3. ASSUME NEW s \in Sensors
      PROVE  /\ queues[s] \in Seq(1 .. MaxReadings[s]) /\ Len(queues[s]) <= MaxSize
             /\ {hand[s], made[s], batch[s], reported[s]} \subseteq 0 .. MaxReadings[s]
             /\ stage[s] \in {"idle", "drop", "put"}
  <2>1. /\ queues[s] \in Seq(Nat) /\ made[s] \in Nat /\ batch[s] \in Nat /\ reported[s] \in Nat
        /\ hand[s] \in Nat /\ made[s] <= MaxReadings[s] /\ hand[s] <= MaxReadings[s]
        /\ MaxReadings[s] \in Nat /\ Len(queues[s]) <= MaxSize /\ stage[s] \in {"idle", "drop", "put"}
    BY DEF UrbanAssumption, UrbanInv, ChainInv, ReadingsInv, QueueTypes, QueueInv, BoundInv
  <2>2. /\ batch[s] <= made[s] /\ reported[s] <= made[s]
        /\ \A i \in 1 .. Len(queues[s]) : reported[s] < queues[s][i] /\ queues[s][i] <= made[s]
    BY <2>1 DEF UrbanInv, ChainInv, ChainOf, Chain
  <2>3. queues[s] \in Seq(1 .. MaxReadings[s])
    BY <2>1, <2>2, QueueBound
  <2> QED
    BY <2>1, <2>2, <2>3, SMTT(30)
<1>4. step \in 0 .. TotalSteps /\ counted \in 0 .. TotalSteps /\ stopped \in -1 .. TotalSteps
  <2>1. step \in 0 .. TotalSteps /\ counted \in 0 .. TotalSteps
    BY <1>1 DEF LoopInv
  <2>2. stopped \in -1 .. TotalSteps
    BY <1>1 DEF LoopInv
  <2> QED
    BY <2>1, <2>2
<1>5. draining \in DOMAIN SensorOrder
  BY DEF UrbanInv, ChainInv, ReadingsInv, QueueTypes
<1>6. /\ alive \subseteq {Ego} \cup Sensors \cup Vehicles \cup Walkers \cup Controllers
      /\ traffic \cup walking \subseteq Vehicles \cup Walkers \cup Controllers
      /\ broken \in {"no", "connect", "ego", "sensors", "vehicles", "walkers", "controllers",
                     "walk", "handlers", "tick"}
  BY <1>1 DEF SceneTypes, Traffic, Breaks
<1> QED
  BY <1>2, <1>3, <1>4, <1>5, <1>6 DEF TypeOK

-----------------------------------------------------------------------------
(* The process: whichever script it runs, the other one stays as it was    *)
(* created.                                                                *)
processVars == <<command, urbanVars, demoVars>>

LEMMA ProcessInvariant == ProcessSpec => [](UrbanInv /\ DemoInv)
<1>1. ProcessInit => UrbanInv /\ DemoInv
  BY UrbanInvariant, InitDemo, DemoAssumption DEF ProcessInit
<1>2. [UrbanNext \/ DemoNext]_processVars => [Next]_urbanVars /\ [Demo!Next]_demoVars
  BY DEF UrbanNext, DemoNext, processVars
<1>3. UrbanInv /\ DemoInv /\ [UrbanNext \/ DemoNext]_processVars => (UrbanInv /\ DemoInv)'
  BY <1>2, UrbanInvariant, StepDemo, DemoAssumption
<1> QED
  BY <1>1, <1>3, PTL DEF ProcessSpec, processVars

(* The state of both scripts is of its types, whichever one runs.          *)
THEOREM TypeCorrect == ProcessSpec => []ProcessTypeOK
<1>1. UrbanInv /\ DemoInv => ProcessTypeOK
  BY UrbanTypes, DemoTypes, UrbanAssumption, DemoAssumption DEF ProcessTypeOK
<1> QED
  BY <1>1, ProcessInvariant, PTL

(* An event is sealed with every step its ring can still hold, the one of  *)
(* the collision among them, about the collision that triggered it, and    *)
(* with readings whose parts are at most one sample apart: the ring holds  *)
(* the last steps without a gap, and is long enough for the steps counted  *)
(* since the collision (sealed_event_demo.py: run_demo, _on_collision,     *)
(* _on_imu).                                                               *)
THEOREM EventSealedWhole == ProcessSpec => []SealedWhole
<1>1. DemoInv => SealedWhole
  BY DEF DemoInv, SealedWhole
<1> QED
  BY <1>1, ProcessInvariant, PTL

(* Whatever ends a script, a failure of its clean-up apart, the world's    *)
(* settings are back and what it recorded is destroyed; what may be left   *)
(* was not recorded yet: for the urban drive what the one spawning         *)
(* function that did not return had spawned, for the demonstration the one *)
(* actor whose spawning broke off (urban_drive.py: run_scenario,           *)
(* spawn_ego_vehicle, attach_sensors, spawn_npc_traffic;                   *)
(* sealed_event_demo.py: run_demo).                                        *)
THEOREM RecordedAreDestroyed == ProcessSpec => []OnlyUnrecordedLeft
<1>1. UrbanInv /\ DemoInv => OnlyUnrecordedLeft
  BY DEF UrbanInv, SceneInv, DemoInv, OnlyUnrecordedLeft
<1> QED
  BY <1>1, ProcessInvariant, PTL

=============================================================================
