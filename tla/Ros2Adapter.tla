---------------------------- MODULE Ros2Adapter ----------------------------
(***************************************************************************)
(* The ROS 2 adapter (ros2_adapter.py).  One event loop runs the adapter's *)
(* run loop and the application, which take turns at the loop's awaits; a  *)
(* step is what happens between two of them.  The middleware is external:  *)
(* it keeps the newest Depth messages for the node, hands over one when    *)
(* the node is spun, and may refuse to spin a node that was destroyed.     *)
(***************************************************************************)
EXTENDS Integers, Sequences, FiniteSets

CONSTANTS
  Depth,  \* the middleware's history depth (qos_profile=10)
  Bound   \* bounds: messages, sessions, runs, steps of all runs, polls, pairings

VARIABLES
  ros,        \* ROS2_AVAILABLE: whether rclpy could be imported
  node,       \* "none", "up" or "destroyed"
  session,    \* the current session, 0 for none
  queue,      \* _message_queue
  running,    \* _running
  loop,       \* where the run loop is, the steps it has left and has made
  stepCount,  \* _step_count
  phone,      \* the paired phone: contacts synced and whether connected
  inbox,      \* external: messages waiting in the middleware
  delivered,  \* history: what was taken from the queue and handed out
  arrived,    \* history: what was put in the queue
  used        \* messages, sessions, runs, polls and pairings so far

rosVars == <<ros, node, session, queue, running, loop, stepCount, phone, inbox,
             delivered, arrived, used>>

Kinds == {"messages", "sessions", "runs", "steps", "polls", "pairings"}
Use(kind) == used[kind] < Bound[kind] /\ used' = [used EXCEPT ![kind] = @ + 1]

(* What is queued: a message of an ECU with the session it is stamped      *)
(* with, the notice that a phone with so much synced data was              *)
(* disconnected.                                                           *)
Message(n, s) == [of |-> "ecu", id |-> n, sess |-> s]
Disconnected(synced) == [of |-> "phone", id |-> synced, sess |-> 0]

Init ==
  /\ ros \in BOOLEAN
  /\ node = "none" /\ session = 0 /\ queue = <<>> /\ running = FALSE
  /\ loop = [at |-> "none", left |-> 0, stopped |-> FALSE]
  /\ stepCount = 0
  /\ phone = [connected |-> TRUE, synced |-> 0]
  /\ inbox = <<>> /\ delivered = <<>> /\ arrived = <<>>
  /\ used = [k \in Kinds |-> 0]

-----------------------------------------------------------------------------

(* External: an ECU publishes; the oldest message makes room.              *)
Publish ==
  /\ node = "up" /\ Use("messages")
  /\ LET all == Append(inbox, used["messages"] + 1)
     IN inbox' = IF Len(all) > Depth THEN Tail(all) ELSE all
  /\ UNCHANGED <<ros, node, session, queue, running, loop, stepCount, phone,
                 delivered, arrived>>

(* rclpy.spin_once on the node: nothing, or _on_message for the oldest     *)
(* message, which is stamped with the session of this moment.  fresh is    *)
(* what it adds to the queue.                                              *)
Spin(fresh) ==
  \/ fresh = <<>> /\ inbox' = inbox
  \/ /\ node = "up" /\ inbox # <<>>
     /\ fresh = <<Message(Head(inbox), session)>> /\ inbox' = Tail(inbox)

(* spin_once raises: the node was destroyed, or the message taken is JSON  *)
(* but no object, of which _on_message cannot make a record.               *)
SpinRaises ==
  \/ node = "destroyed" /\ inbox' = inbox
  \/ node = "up" /\ inbox # <<>> /\ inbox' = Tail(inbox)

Fresh == {<<>>} \cup {<<Message(n, session)>> : n \in {inbox[i] : i \in DOMAIN inbox}}

(* rclpy is used: it was imported and connect() has made a node.           *)
Spins == ros /\ node # "none"

(* connect() without rclpy has nothing to do; with a node it raises.       *)
Connect ==
  /\ ros /\ node # "up"
  /\ node' = "up"
  /\ UNCHANGED <<ros, session, queue, running, loop, stepCount, phone, inbox,
                 delivered, arrived, used>>

StartSession ==
  /\ Use("sessions")
  /\ session' = used["sessions"] + 1
  /\ UNCHANGED <<ros, node, queue, running, loop, stepCount, phone, inbox,
                 delivered, arrived>>

(* get_records: a spin where there is a node, then the queue is drained.   *)
GetRecords ==
  /\ Use("polls")
  /\ \E fresh \in Fresh :
       /\ IF Spins THEN Spin(fresh) ELSE fresh = <<>> /\ inbox' = inbox
       /\ delivered' = delivered \o queue \o fresh
       /\ arrived' = arrived \o fresh
       /\ queue' = <<>>
  /\ UNCHANGED <<ros, node, session, running, loop, stepCount, phone>>

(* The middleware may raise before the queue is looked at.                 *)
GetRecordsRaises ==
  /\ Spins /\ SpinRaises /\ Use("polls")
  /\ UNCHANGED <<ros, node, session, queue, running, loop, stepCount, phone,
                 delivered, arrived>>

(* end_session disconnects the phone, once: pairing does not reconnect it. *)
DisconnectPhone ==
  /\ phone' = [phone EXCEPT !.connected = FALSE]
  /\ queue' = IF phone.connected THEN Append(queue, Disconnected(phone.synced)) ELSE queue
  /\ arrived' = IF phone.connected THEN Append(arrived, Disconnected(phone.synced)) ELSE arrived

EndSession ==
  /\ node # "destroyed" \/ ~ros
  /\ DisconnectPhone
  /\ node' = IF Spins THEN "destroyed" ELSE node
  /\ inbox' = IF Spins THEN <<>> ELSE inbox
  /\ session' = 0
  /\ UNCHANGED <<ros, running, loop, stepCount, delivered, used>>

(* A second shutdown of the middleware raises; the session stays set.      *)
EndSessionRaises ==
  /\ ros /\ node = "destroyed" /\ session # 0
  /\ DisconnectPhone
  /\ UNCHANGED <<ros, node, session, running, loop, stepCount, inbox, delivered, used>>

(* The application pairs a phone or adds to what it has synced, and hands  *)
(* the records on itself.                                                  *)
Pair ==
  /\ Use("pairings")
  /\ phone' = [phone EXCEPT !.synced = @ + 1]
  /\ UNCHANGED <<ros, node, session, queue, running, loop, stepCount, inbox,
                 delivered, arrived>>

-----------------------------------------------------------------------------
(* The run loop.                                                           *)

(* The application starts one loop at a time.                              *)
Run ==
  /\ loop.at = "none" /\ used["runs"] < Bound["runs"]
  /\ running' = TRUE
  /\ \E n \in 0 .. Bound["steps"] - used["steps"] :
       /\ loop' = [at |-> "step", left |-> n, stopped |-> FALSE]
       /\ used' = [used EXCEPT !["runs"] = @ + 1, !["steps"] = @ + n]
  /\ UNCHANGED <<ros, node, session, queue, stepCount, phone, inbox, delivered, arrived>>

(* The callback is awaited if there is something to hand over.             *)
HandOver(something) ==
  loop' = [loop EXCEPT !.at = IF something THEN "callback" ELSE "sleep", !.left = @ - 1]

StepGoesOn == loop.at = "step" /\ loop.left > 0 /\ running

(* Mutant: the queue is drained only once the callback has returned.       *)
StepSpinsLate ==
  /\ StepGoesOn /\ Spins
  /\ \E fresh \in Fresh :
       /\ Spin(fresh)
       /\ HandOver(queue \o fresh # <<>>)
       /\ delivered' = delivered \o queue \o fresh
       /\ arrived' = arrived \o fresh
       /\ queue' = queue \o fresh
  /\ UNCHANGED <<ros, node, session, running, stepCount, phone, used>>

StepSpins ==
  /\ StepGoesOn /\ Spins
  /\ \E fresh \in Fresh :
       /\ Spin(fresh)
       /\ HandOver(queue \o fresh # <<>>)
       /\ delivered' = delivered \o queue \o fresh
       /\ arrived' = arrived \o fresh
       /\ queue' = <<>>
  /\ UNCHANGED <<ros, node, session, running, stepCount, phone, used>>

(* Without a node there are synthetic records, and the queue is not looked *)
(* at.                                                                     *)
StepSynthesizes ==
  /\ StepGoesOn /\ ~Spins
  /\ HandOver(TRUE)
  /\ stepCount' = stepCount + 1
  /\ UNCHANGED <<ros, node, session, queue, running, phone, inbox, delivered, arrived, used>>

(* The loop ends with an exception: of the middleware, or of the callback. *)
(* _running stays set.                                                     *)
RunRaises ==
  /\ \/ StepGoesOn /\ Spins /\ SpinRaises
     \/ loop.at = "callback" /\ inbox' = inbox
  /\ loop' = [loop EXCEPT !.at = "none"]
  /\ UNCHANGED <<ros, node, session, queue, running, stepCount, phone,
                 delivered, arrived, used>>

CallbackReturns ==
  /\ loop.at = "callback"
  /\ loop' = [loop EXCEPT !.at = "sleep"]
  /\ UNCHANGED <<ros, node, session, queue, running, stepCount, phone, inbox,
                 delivered, arrived, used>>

Wake ==
  /\ loop.at = "sleep"
  /\ loop' = [loop EXCEPT !.at = "step"]
  /\ UNCHANGED <<ros, node, session, queue, running, stepCount, phone, inbox,
                 delivered, arrived, used>>

RunEnds ==
  /\ loop.at = "step" /\ (loop.left = 0 \/ ~running)
  /\ running' = FALSE
  /\ loop' = [loop EXCEPT !.at = "none"]
  /\ UNCHANGED <<ros, node, session, queue, stepCount, phone, inbox, delivered,
                 arrived, used>>

(* Mutant: only a loop that sleeps is stopped.                             *)
StopAsleep ==
  /\ running' = (running /\ loop.at # "sleep")
  /\ loop' = [loop EXCEPT !.stopped = (loop.at # "none")]
  /\ UNCHANGED <<ros, node, session, queue, stepCount, phone, inbox, delivered,
                 arrived, used>>

(* stop(): without effect on a run that has not started.                   *)
Stop ==
  /\ running' = FALSE
  /\ loop' = [loop EXCEPT !.stopped = (loop.at # "none")]
  /\ UNCHANGED <<ros, node, session, queue, stepCount, phone, inbox, delivered,
                 arrived, used>>

Next ==
  \/ Publish \/ Connect \/ StartSession \/ GetRecords \/ GetRecordsRaises
  \/ EndSession \/ EndSessionRaises \/ Pair \/ Run \/ Stop
  \/ StepSpins \/ StepSynthesizes \/ RunRaises \/ CallbackReturns \/ Wake \/ RunEnds

Spec == Init /\ [][Next]_rosVars

-----------------------------------------------------------------------------
Entries == [of : {"ecu", "phone"}, id : Nat, sess : Nat]

TypeOK ==
  /\ ros \in BOOLEAN /\ running \in BOOLEAN
  /\ node \in {"none", "up", "destroyed"}
  /\ session \in 0 .. Bound["sessions"] /\ stepCount \in Nat
  /\ {queue, delivered, arrived} \subseteq Seq(Entries)
  /\ loop \in [at : {"none", "step", "callback", "sleep"}, left : Nat, stopped : BOOLEAN]
  /\ phone \in [connected : BOOLEAN, synced : Nat]
  /\ inbox \in Seq(Nat) /\ Len(inbox) <= Depth
  /\ used \in [Kinds -> Nat]

(* The run loop and get_records share the queue, and between them hand out *)
(* what was put in it once and in its order: nothing is lost or repeated   *)
(* however their turns interleave (ros2_adapter.py: get_records, run).     *)
HandedOutOnce == delivered \o queue = arrived

(* The application is told of a disconnected phone once, when the first    *)
(* session ends, whatever is paired, ended or raised after that, provided  *)
(* it does not disconnect the phone itself.                                *)
Notices == {i \in DOMAIN arrived : arrived[i].of = "phone"}

OneNotice == IF phone.connected THEN Notices = {} ELSE \E i \in DOMAIN arrived : Notices = {i}

(* A run that was told to stop hands nothing more to the callback,         *)
(* wherever the loop was waiting when stop() was called.                   *)
StopsPromptly == [][loop.stopped => ~(loop.at = "step" /\ loop'.at \notin {"step", "none"})]_rosVars
=============================================================================
