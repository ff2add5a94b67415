---------------------------- MODULE SumoAdapter ----------------------------
(***************************************************************************)
(* The SUMO adapter (sumo_adapter.py): a data session for each vehicle, as *)
(* long as it is in the simulation.  A step is what the event loop does    *)
(* between two awaits that may give way: a simulation step up to the       *)
(* callback, or a call of the adapter's interface by the application while *)
(* the callback is awaited or no run is under way.  The simulator is       *)
(* external: any vehicles may be present at a step, any of them may have   *)
(* no data, and its calls may fail.                                        *)
(***************************************************************************)
EXTENDS Integers, Sequences, FiniteSets

CONSTANTS
  Vehicles,
  Samples,  \* vehicle -> what it may report at a step
  Period,   \* samples between two behaviour records (30)
  Bound     \* bounds: runs, steps of all runs, calls by the application

ASSUME SumoAssumption ==
  /\ Period \in Nat \ {0}
  /\ Bound \in [{"runs", "steps", "calls"} -> Nat]

VARIABLES
  traci,      \* the connection to the simulator: "none", "up" or "closed"
  present,    \* external: the vehicles in the simulation
  sessions,   \* _vehicle_sessions: vehicle -> its session, NoSession for none
  known,      \* _known_vehicles
  run,        \* where the run is, and the steps it has left
  started,    \* sessions started so far, per vehicle: the last one's id
  records,    \* history: records given out, per vehicle
  observed,   \* history: of each step the vehicles that were there, whether the
              \* adapter got their list, and the number of the run
  spent        \* runs and calls so far

sumoVars == <<traci, present, sessions, known, run, started, records, observed,
              spent>>

NoSession == [id |-> 0, history |-> <<>>]
HaveSession == {v \in Vehicles : sessions[v] # NoSession}

Use(kind) == spent[kind] < Bound[kind] /\ spent' = [spent EXCEPT ![kind] = @ + 1]

Init ==
  /\ traci = "none" /\ present = {}
  /\ sessions = [v \in Vehicles |-> NoSession]
  /\ known = {}
  /\ run = [at |-> "none", left |-> 0]
  /\ started = [v \in Vehicles |-> 0]
  /\ records = [v \in Vehicles |-> <<>>]
  /\ observed = <<>>
  /\ spent = [k \in {"runs", "calls"} |-> 0]

-----------------------------------------------------------------------------
(* A record of a sample, or of the behaviour over a history, which its     *)
(* score is a function of.  Both tell how many samples the session has     *)
(* had, as uptime or as duration.                                          *)
Sampled(session, sample) ==
  [kind |-> "sample", sess |-> session.id, nth |-> Len(session.history), of |-> sample,
   over |-> <<>>, at |-> Len(observed')]
Behaviour(session, sample) ==
  [kind |-> "behaviour", sess |-> session.id, nth |-> Len(session.history), of |-> sample,
   over |-> session.history, at |-> Len(observed')]

(* The records get_records returns for a sample, once the session has it.  *)
Records(session, sample) ==
  LET grown == [session EXCEPT !.history = Append(@, sample)]
  IN <<Sampled(grown, sample)>> \o
     (IF Len(grown.history) % Period = 0 THEN <<Behaviour(grown, sample)>> ELSE <<>>)

(* get_records for those of the vehicles which have a session and data; in *)
(* holds the sessions they have by then.                                   *)
GetRecords(vehicles, in, data) ==
  LET sampled == {v \in vehicles : in[v] # NoSession}
  IN /\ sessions' = [v \in Vehicles |->
           IF v \in sampled THEN [in[v] EXCEPT !.history = Append(@, data[v])] ELSE in[v]]
     /\ records' = [v \in Vehicles |->
           IF v \in sampled THEN records[v] \o Records(in[v], data[v]) ELSE records[v]]

(* start_session replaces what the vehicle had.                            *)
Fresh(v) == [id |-> started[v] + 1, history |-> <<>>]

(* Mutant: a vehicle that comes back goes on with the session it had.      *)
FollowedKept(now) ==
  [v \in Vehicles |->
     IF v \in now \ known /\ sessions[v] = NoSession THEN Fresh(v) ELSE sessions[v]]

(* The sessions after those of new vehicles have been started and those of *)
(* departed vehicles ended.                                                *)
Followed(now) ==
  [v \in Vehicles |->
     IF v \in now \ known THEN Fresh(v)
     ELSE IF v \in known \ now THEN NoSession ELSE sessions[v]]

-----------------------------------------------------------------------------
(* connect: a simulator that was closed may be started again.              *)
Connect ==
  /\ traci # "up"
  /\ traci' = "up" /\ present' \in SUBSET Vehicles
  /\ UNCHANGED <<sessions, known, run, started, records, observed, spent>>

(* A simulation step after which these vehicles are there. *)
Stepped(now, listed) ==
  observed' = Append(observed, [there |-> now, listed |-> listed, run |-> spent["runs"]])

(* The application can get in where no step is being made.                 *)
Idle == run.at # "step"

(* Mutant: the next session of the vehicle gets the same id.               *)
StartSessionSameId(v) ==
  /\ Idle /\ Use("calls")
  /\ sessions' = [sessions EXCEPT ![v] = Fresh(v)]
  /\ UNCHANGED <<traci, present, known, run, started, records, observed>>

(* start_session called from outside.                                      *)
StartSession(v) ==
  /\ Idle /\ Use("calls")
  /\ sessions' = [sessions EXCEPT ![v] = Fresh(v)]
  /\ started' = [started EXCEPT ![v] = @ + 1]
  /\ UNCHANGED <<traci, present, known, run, records, observed>>

(* Mutant: the vehicle stays known.                                        *)
EndSessionKnown(v) ==
  /\ Idle /\ Use("calls")
  /\ sessions' = [sessions EXCEPT ![v] = NoSession]
  /\ UNCHANGED <<traci, present, known, run, started, records, observed>>

EndSession(v) ==
  /\ Idle /\ Use("calls")
  /\ sessions' = [sessions EXCEPT ![v] = NoSession]
  /\ known' = known \ {v}
  /\ UNCHANGED <<traci, present, run, started, records, observed>>

(* get_records called from outside takes a sample like a step does.        *)
Poll(v) ==
  /\ Idle /\ v \in present /\ sessions[v] # NoSession /\ Use("calls")
  /\ UNCHANGED <<traci, present, known, run, started, observed>>
  /\ \E sample \in Samples[v] : GetRecords({v}, sessions, [x \in {v} |-> sample])

(* The application runs the adapter once at a time.                        *)
Run ==
  /\ run.at = "none" /\ traci # "none" /\ Use("runs")
  /\ run' = [at |-> "step", left |-> Bound["steps"] - Len(observed)]
  /\ UNCHANGED <<traci, present, sessions, known, started, records, observed>>

(* A step of the run.  Whoever has data is sampled, and the callback is    *)
(* called if there is anything to hand over.                               *)
Step ==
  /\ run.at = "step" /\ run.left > 0 /\ traci = "up"
  /\ \E now \in SUBSET Vehicles : \E reporting \in SUBSET now :
       \E data \in [reporting -> UNION {Samples[v] : v \in Vehicles}] :
         /\ \A v \in reporting : data[v] \in Samples[v]
         /\ present' = now /\ Stepped(now, TRUE)
         /\ started' = [v \in Vehicles |->
              IF v \in now \ known THEN started[v] + 1 ELSE started[v]]
         /\ known' = now
         /\ GetRecords(reporting, Followed(now), data)
         /\ run' = [at |-> IF reporting = {} THEN "step" ELSE "callback",
                     left |-> run.left - 1]
  /\ UNCHANGED <<traci, spent>>

CallbackReturns ==
  /\ run.at = "callback"
  /\ run' = [run EXCEPT !.at = "step"]
  /\ UNCHANGED <<traci, present, sessions, known, started, records, observed, spent>>

Over == [at |-> "none", left |-> 0]

(* The callback, or the list of vehicles after a step, raises: nothing is  *)
(* cleaned up, and who left or came in that step goes unnoticed.           *)
RunRaises ==
  /\ \/ run.at = "callback" /\ UNCHANGED <<present, observed>>
     \/ /\ run.at = "step" /\ run.left > 0 /\ traci = "up"
        /\ present' \in SUBSET Vehicles /\ Stepped(present', FALSE)
  /\ run' = Over
  /\ UNCHANGED <<traci, sessions, known, started, records, spent>>

(* Mutant: the sessions of the vehicles last seen are ended.               *)
RunReturnsKnown ==
  /\ run.at = "step"
  /\ run' = Over
  /\ sessions' = [v \in Vehicles |-> IF v \in known THEN NoSession ELSE sessions[v]]
  /\ known' = {}
  /\ traci' = "closed" /\ present' = {}
  /\ UNCHANGED <<started, records, observed, spent>>

(* The steps are over, or the simulator made none: every session is ended. *)
RunReturns ==
  /\ run.at = "step"
  /\ run' = Over
  /\ sessions' = [v \in Vehicles |-> NoSession]
  /\ known' = known \ HaveSession
  /\ traci' = "closed" /\ present' = {}
  /\ UNCHANGED <<started, records, observed, spent>>

Next ==
  \/ Connect \/ Run \/ Step \/ CallbackReturns \/ RunRaises \/ RunReturns
  \/ \E v \in Vehicles : StartSession(v) \/ EndSession(v) \/ Poll(v)

Spec == Init /\ [][Next]_sumoVars

-----------------------------------------------------------------------------
TypeOK ==
  /\ traci \in {"none", "up", "closed"} /\ present \subseteq Vehicles
  /\ \A v \in Vehicles :
       /\ sessions[v].id \in 0 .. started[v]
       /\ \A i \in DOMAIN sessions[v].history : sessions[v].history[i] \in Samples[v]
  /\ known \subseteq Vehicles
  /\ run \in [at : {"none", "step", "callback"}, left : Nat]
  /\ \A t \in DOMAIN observed : observed[t].there \subseteq Vehicles

(* A vehicle the adapter knows has a session, or it would be taken for one *)
(* already being recorded and never get one (sumo_adapter.py: run), also   *)
(* after the application ended its session or a run broke off.             *)
KnownHaveSessions == known \subseteq HaveSession

(* The samples of the session of a vehicle the adapter knows are of one    *)
(* stay, as far as the runs got to see: since the first of them it was     *)
(* there at every step but those after which the list of vehicles failed.  *)
(* A vehicle that is away at just such a step goes on with its session.  A *)
(* session the application starts for a vehicle no run has seen is the     *)
(* application's to end, and may be polled on both sides of an absence.    *)
OneStay ==
  \A v \in known : \A i \in DOMAIN records[v] :
    records[v][i].sess = sessions[v].id
      => \A t \in records[v][i].at + 1 .. Len(observed) :
           v \in observed[t].there \/ ~observed[t].listed

(* No more than the last step of a run goes unseen.                        *)
UnseenLast ==
  \A t, u \in DOMAIN observed :
    t < u /\ ~observed[t].listed => observed[t].run # observed[u].run

(* The indices of a session's samples, up to an index.                     *)
SamplesOf(v, n, last) ==
  {i \in DOMAIN records[v] : /\ i <= last /\ records[v][i].sess = n
                             /\ records[v][i].kind = "sample"}

(* The samples of a session are numbered in order, without a gap.          *)
Numbered ==
  \A v \in Vehicles : \A j \in DOMAIN records[v] :
    LET b == records[v][j]
        earlier == SamplesOf(v, b.sess, j - 1)
    IN b.kind = "sample" =>
         /\ \A i \in earlier : records[v][i].nth < b.nth
         /\ \A k \in 1 .. b.nth - 1 : \E i \in earlier : records[v][i].nth = k

(* A behaviour record comes with every Period-th sample of a session and   *)
(* never else, over all of the session's samples and no other's, however   *)
(* runs and polls took turns.                                              *)
BehaviourCovers ==
  \A v \in Vehicles : \A j \in DOMAIN records[v] :
    LET b == records[v][j] IN
    /\ b.kind = "sample" /\ b.nth % Period = 0 =>
         /\ j + 1 \in DOMAIN records[v]
         /\ records[v][j + 1].kind = "behaviour" /\ records[v][j + 1].sess = b.sess
    /\ b.kind = "behaviour" =>
         /\ j - 1 \in SamplesOf(v, b.sess, j) /\ records[v][j - 1].nth = Len(b.over)
         /\ Len(b.over) % Period = 0
         /\ \A k \in DOMAIN b.over : \E i \in SamplesOf(v, b.sess, j) :
              records[v][i].nth = k /\ records[v][i].of = b.over[k]

(* A session records one stay of its vehicle, except for what a run missed *)
(* in the step it broke off at, in order, and its behaviour records cover  *)
(* exactly that (sumo_adapter.py: run, get_records).                       *)
StayRecorded == OneStay /\ UnseenLast /\ Numbered /\ BehaviourCovers

(* A run that returns leaves no session and no known vehicle behind, also  *)
(* not what the application started or an earlier run left when it broke   *)
(* off.                                                                    *)
ReturnLeavesNothing ==
  [][run.at = "step" /\ run'.at = "none" /\ traci' = "closed"
       => HaveSession' = {} /\ known' = {}]_sumoVars
=============================================================================
