------------------------- MODULE SumoAdapterProofs -------------------------
(***************************************************************************)
(* Proofs about the SUMO adapter, for any vehicles, samples and bounds.    *)
(* Whether a known vehicle has a session depends on what a session is, so  *)
(* the types, the ids and the known vehicles are one inductive invariant.  *)
(***************************************************************************)
EXTENDS SumoAdapter, SequenceTheorems, TLAPS

SessionOf(v) == [id : Nat, history : Seq(Samples[v])]

Seen == [there : SUBSET Vehicles, listed : BOOLEAN, run : Nat]

Spent == [{"runs", "calls"} -> Nat]

(* A session is none or has an id, which is the number of a session that   *)
(* was started; the steps made and left are never more than the bound.     *)
SumoInv ==
  /\ traci \in {"none", "up", "closed"} /\ present \subseteq Vehicles
  /\ run \in [at : {"none", "step", "callback"}, left : Nat]
  /\ observed \in Seq(Seen) /\ Len(observed) + run.left <= Bound["steps"]
  /\ spent \in Spent
  /\ started \in [Vehicles -> Nat]
  /\ DOMAIN sessions = Vehicles
  /\ \A v \in Vehicles :
       /\ sessions[v] \in SessionOf(v)
       /\ sessions[v].id <= started[v]
       /\ sessions[v].id = 0 => sessions[v] = NoSession
  /\ known \subseteq Vehicles
  /\ KnownHaveSessions

(* What a session becomes under an operation.                              *)
Proper(v, s, n) == s \in SessionOf(v) /\ s.id <= n /\ (s.id = 0 => s = NoSession)

LEMMA NoSessionProper ==
  ASSUME NEW v \in Vehicles, NEW n \in Nat
  PROVE  Proper(v, NoSession, n)
BY DEF Proper, NoSession, SessionOf

(* A session just started is one, and not none.                            *)
LEMMA FreshProper ==
  ASSUME NEW v \in Vehicles, started[v] \in Nat
  PROVE  Proper(v, Fresh(v), started[v] + 1) /\ Fresh(v) # NoSession
<1>1. Fresh(v).id = started[v] + 1 /\ Fresh(v).id # 0 /\ NoSession.id = 0
  BY DEF Fresh, NoSession
<1>2. Fresh(v) \in SessionOf(v)
  BY DEF Fresh, SessionOf
<1> QED BY <1>1, <1>2 DEF Proper

(* Neither is one that has got a sample.                                   *)
LEMMA SampledProper ==
  ASSUME NEW v \in Vehicles, NEW s, NEW n \in Nat, Proper(v, s, n), s # NoSession,
         NEW sample \in Samples[v]
  PROVE  LET t == [s EXCEPT !.history = Append(@, sample)]
         IN Proper(v, t, n) /\ t # NoSession
<1> DEFINE t == [s EXCEPT !.history = Append(@, sample)]
<1>1. s \in [id : Nat, history : Seq(Samples[v])] /\ s.id # 0 /\ s.id <= n
  BY DEF Proper, SessionOf
<1>2. Append(s.history, sample) \in Seq(Samples[v])
  BY <1>1
<1>3. t \in SessionOf(v) /\ t.id = s.id
  BY <1>1, <1>2 DEF SessionOf
<1>4. NoSession.id = 0
  BY DEF NoSession
<1> QED BY <1>1, <1>3, <1>4 DEF Proper

LEMMA InvIsProper ==
  ASSUME SumoInv, NEW v \in Vehicles
  PROVE  Proper(v, sessions[v], started[v]) /\ started[v] \in Nat
BY DEF SumoInv, Proper

(* What the steps that give vehicles samples do to a proper session table. *)
LEMMA GetRecordsFacts ==
  ASSUME NEW vehicles \in SUBSET Vehicles, NEW in, NEW data, NEW count \in [Vehicles -> Nat],
         \A v \in Vehicles : Proper(v, in[v], count[v]),
         \A v \in vehicles : data[v] \in Samples[v],
         GetRecords(vehicles, in, data)
  PROVE  /\ DOMAIN sessions' = Vehicles
         /\ \A v \in Vehicles : Proper(v, sessions'[v], count[v])
         /\ \A v \in Vehicles : in[v] # NoSession => sessions'[v] # NoSession
<1> DEFINE Grown(v) == [in[v] EXCEPT !.history = Append(@, data[v])]
           got == {v \in vehicles : in[v] # NoSession}
<1>1. sessions' = [v \in Vehicles |-> IF v \in got THEN Grown(v) ELSE in[v]]
  BY DEF GetRecords
<1>2. ASSUME NEW v \in got PROVE Proper(v, Grown(v), count[v]) /\ Grown(v) # NoSession
  <2>1. v \in Vehicles /\ count[v] \in Nat /\ data[v] \in Samples[v] /\ in[v] # NoSession
    OBVIOUS
  <2> QED BY <2>1, SampledProper
<1> HIDE DEF Grown, got
<1> QED BY <1>1, <1>2

-----------------------------------------------------------------------------
LEMMA InitInv == SumoAssumption /\ Init => SumoInv
<1> SUFFICES ASSUME SumoAssumption, Init PROVE SumoInv
  OBVIOUS
<1>1. Bound["steps"] \in Nat
  BY DEF SumoAssumption
<1>2. \A v \in Vehicles : Proper(v, sessions[v], started[v])
  BY NoSessionProper DEF Init
<1>3. spent \in Spent
  BY DEF Init, Spent
<1>4. observed = <<>> /\ observed \in Seq(Seen)
  BY DEF Init
<1> QED BY <1>1, <1>2, <1>3, <1>4 DEF Init, SumoInv, Proper, KnownHaveSessions

(* Runs and calls are counted.                                             *)
LEMMA SpentCounted == ASSUME SumoInv, [Next]_sumoVars PROVE spent' \in Spent
<1>1. spent \in Spent
  BY DEF SumoInv
<1>2. ASSUME NEW kind \in {"runs", "calls"}, Use(kind) PROVE spent' \in Spent
  BY <1>1, <1>2 DEF Use, Spent
<1>3. CASE UNCHANGED spent
  BY <1>1, <1>3
<1> QED BY <1>2, <1>3 DEF Next, Connect, Run, Step, CallbackReturns, RunRaises, RunReturns,
                         StartSession, EndSession, Poll, sumoVars

(* A simulation step is added to those observed.                           *)
LEMMA SteppedFacts ==
  ASSUME SumoInv, NEW now \in SUBSET Vehicles, NEW listed \in BOOLEAN, Stepped(now, listed)
  PROVE  /\ Len(observed) \in Nat /\ Len(observed') = Len(observed) + 1
         /\ Len(observed') \in Nat
         /\ observed' \in Seq(Seen)
         /\ \A t \in 1 .. Len(observed) : observed'[t] = observed[t]
         /\ observed'[Len(observed) + 1].there = now
         /\ observed'[Len(observed) + 1].listed = listed
         /\ observed'[Len(observed) + 1].run = spent["runs"]
<1> DEFINE new == [there |-> now, listed |-> listed, run |-> spent["runs"]]
<1>1. spent["runs"] \in Nat /\ observed \in Seq(Seen)
  BY DEF SumoInv, Spent
<1>2. new \in Seen
  BY <1>1 DEF Seen
<1>3. observed' = Append(observed, new)
  BY DEF Stepped
<1> HIDE DEF new
<1>4. /\ Append(observed, new) \in Seq(Seen) /\ Len(Append(observed, new)) = Len(observed) + 1
      /\ \A t \in 1 .. Len(observed) : Append(observed, new)[t] = observed[t]
      /\ Append(observed, new)[Len(observed) + 1] = new
  BY <1>1, <1>2, AppendProperties
<1>5. Len(observed) \in Nat
  BY <1>1, LenProperties
<1>6. new.there = now /\ new.listed = listed /\ new.run = spent["runs"]
  BY DEF new
<1> QED BY <1>3, <1>4, <1>5, <1>6

(* The steps that leave sessions and known vehicles alone.                 *)
LEMMA FrameInv ==
  ASSUME SumoInv, UNCHANGED <<sessions, known, started>>, spent' \in Spent,
         traci' \in {"none", "up", "closed"}, present' \subseteq Vehicles,
         run' \in [at : {"none", "step", "callback"}, left : Nat],
         observed' \in Seq(Seen), Len(observed') + run'.left <= Bound["steps"]
  PROVE  SumoInv'
BY DEF SumoInv, KnownHaveSessions, HaveSession, SessionOf, NoSession

(* The steps that change sessions or known vehicles: what must hold of     *)
(* them afterwards.                                                        *)
LEMMA SessionsInv ==
  ASSUME SumoInv, run' \in [at : {"none", "step", "callback"}, left : Nat],
         traci' \in {"none", "up", "closed"}, present' \subseteq Vehicles, spent' \in Spent,
         observed' \in Seq(Seen), Len(observed') + run'.left <= Bound["steps"],
         started' \in [Vehicles -> Nat], DOMAIN sessions' = Vehicles,
         \A v \in Vehicles : Proper(v, sessions'[v], started'[v]),
         known' \subseteq Vehicles, \A v \in known' : sessions'[v] # NoSession
  PROVE  SumoInv'
<1>1. known' \subseteq HaveSession'
  BY DEF HaveSession, NoSession
<1>2. \A v \in Vehicles : /\ sessions'[v] \in SessionOf(v)
                          /\ sessions'[v].id <= started'[v]
                          /\ sessions'[v].id = 0 => sessions'[v] = NoSession
  BY DEF Proper
<1> QED BY <1>1, <1>2 DEF SumoInv, KnownHaveSessions, SessionOf, NoSession

(* The sessions a step goes on with.                                       *)
LEMMA FollowedProper ==
  ASSUME SumoInv, NEW now \in SUBSET Vehicles, NEW v \in Vehicles, NEW n,
         n = IF v \in now \ known THEN started[v] + 1 ELSE started[v]
  PROVE  Proper(v, Followed(now)[v], n) /\ (v \in now => Followed(now)[v] # NoSession)
<1>1. Proper(v, sessions[v], started[v]) /\ started[v] \in Nat
  BY InvIsProper
<1>2. CASE v \in now \ known
  BY <1>1, <1>2, FreshProper DEF Followed
<1>3. CASE v \in known \ now
  BY <1>1, <1>3, NoSessionProper DEF Followed
<1>4. CASE v \in now \cap known
  <2>1. sessions[v] # NoSession
    BY <1>4 DEF SumoInv, KnownHaveSessions, HaveSession
  <2>2. Followed(now)[v] = sessions[v] /\ n = started[v]
    BY <1>4 DEF Followed
  <2> QED BY <1>1, <2>1, <2>2
<1>5. CASE v \notin now /\ v \notin known
  BY <1>1, <1>5 DEF Followed
<1> QED BY <1>2, <1>3, <1>4, <1>5

LEMMA StepInv == ASSUME SumoAssumption, SumoInv, Step PROVE SumoInv'
<1> PICK now \in SUBSET Vehicles, reporting \in SUBSET Vehicles :
           \E data \in [reporting -> UNION {Samples[v] : v \in Vehicles}] :
             /\ reporting \subseteq now
             /\ \A v \in reporting : data[v] \in Samples[v]
             /\ present' = now /\ Stepped(now, TRUE)
             /\ started' = [v \in Vehicles |->
                  IF v \in now \ known THEN started[v] + 1 ELSE started[v]]
             /\ known' = now
             /\ GetRecords(reporting, Followed(now), data)
             /\ run' = [at |-> IF reporting = {} THEN "step" ELSE "callback",
                        left |-> run.left - 1]
  BY DEF Step
<1> PICK data \in [reporting -> UNION {Samples[v] : v \in Vehicles}] :
           /\ \A v \in reporting : data[v] \in Samples[v]
           /\ present' = now /\ Stepped(now, TRUE)
           /\ started' = [v \in Vehicles |->
                IF v \in now \ known THEN started[v] + 1 ELSE started[v]]
           /\ known' = now
           /\ GetRecords(reporting, Followed(now), data)
           /\ run' = [at |-> IF reporting = {} THEN "step" ELSE "callback",
                      left |-> run.left - 1]
  OBVIOUS
<1>1. run.left > 0 /\ traci' = traci /\ Bound["steps"] \in Nat
  BY DEF Step, SumoAssumption
<1>2. run' \in [at : {"none", "step", "callback"}, left : Nat] /\ run'.left = run.left - 1
  BY <1>1 DEF SumoInv
<1>3. /\ observed' \in Seq(Seen)
      /\ Len(observed') + run'.left <= Bound["steps"]
  <2>1. observed' \in Seq(Seen) /\ Len(observed') = Len(observed) + 1 /\ Len(observed) \in Nat
    BY SteppedFacts
  <2>2. Len(observed) + run.left <= Bound["steps"] /\ run.left \in Nat
    BY DEF SumoInv
  <2> QED BY <1>1, <1>2, <2>1, <2>2
<1>4. started' \in [Vehicles -> Nat]
  BY SMTT(30) DEF SumoInv
<1>5. \A v \in Vehicles : /\ Proper(v, Followed(now)[v], started'[v])
                          /\ v \in now => Followed(now)[v] # NoSession
  BY FollowedProper
<1>6. /\ DOMAIN sessions' = Vehicles
      /\ \A v \in Vehicles : Proper(v, sessions'[v], started'[v])
      /\ \A v \in now : sessions'[v] # NoSession
  <2>1. \A v \in Vehicles : Proper(v, Followed(now)[v], started'[v])
    BY <1>5
  <2>2. /\ DOMAIN sessions' = Vehicles
        /\ \A v \in Vehicles : Proper(v, sessions'[v], started'[v])
        /\ \A v \in Vehicles : Followed(now)[v] # NoSession => sessions'[v] # NoSession
    BY <1>4, <2>1, GetRecordsFacts
  <2> QED BY <1>5, <2>2
<1>7. present' \subseteq Vehicles /\ known' \subseteq Vehicles
  OBVIOUS
<1>8. traci' \in {"none", "up", "closed"}
  BY <1>1 DEF SumoInv
<1>9. spent' \in Spent
  BY SpentCounted DEF Next
<1> QED BY <1>2, <1>3, <1>4, <1>6, <1>7, <1>8, <1>9, SessionsInv

LEMMA CallInv ==
  ASSUME SumoAssumption, SumoInv, NEW v \in Vehicles,
         StartSession(v) \/ EndSession(v) \/ Poll(v)
  PROVE  SumoInv'
<1>1. /\ run' = run /\ traci' = traci /\ present' = present /\ observed' = observed
      /\ run' \in [at : {"none", "step", "callback"}, left : Nat]
      /\ traci' \in {"none", "up", "closed"} /\ present' \subseteq Vehicles
      /\ observed' \in Seq(Seen) /\ Len(observed') + run'.left <= Bound["steps"]
  BY DEF StartSession, EndSession, Poll, SumoInv
<1>7. spent' \in Spent
  BY SpentCounted DEF Next
<1>2. \A w \in Vehicles : Proper(w, sessions[w], started[w]) /\ started[w] \in Nat
  BY InvIsProper
<1>3. /\ DOMAIN sessions = Vehicles /\ started \in [Vehicles -> Nat] /\ known \subseteq Vehicles
      /\ \A w \in known : sessions[w] # NoSession
  BY DEF SumoInv, KnownHaveSessions, HaveSession
<1>4. CASE StartSession(v)
  <2>1. /\ sessions' = [sessions EXCEPT ![v] = Fresh(v)]
        /\ started' = [started EXCEPT ![v] = @ + 1] /\ known' = known
    BY <1>4 DEF StartSession
  <2>2. Proper(v, Fresh(v), started[v] + 1) /\ Fresh(v) # NoSession
    BY <1>2, FreshProper
  <2>3. started' \in [Vehicles -> Nat] /\ DOMAIN sessions' = Vehicles /\ known' \subseteq Vehicles
    BY <1>3, <2>1
  <2>4. \A w \in Vehicles : Proper(w, sessions'[w], started'[w])
    BY <1>2, <1>3, <2>1, <2>2
  <2>5. \A w \in known' : sessions'[w] # NoSession
    BY <1>3, <2>1, <2>2
  <2> QED BY <1>1, <2>3, <2>4, <2>5, <1>7, SessionsInv
<1>5. CASE EndSession(v)
  <2>1. /\ sessions' = [sessions EXCEPT ![v] = NoSession]
        /\ started' = started /\ known' = known \ {v}
    BY <1>5 DEF EndSession
  <2>2. started' \in [Vehicles -> Nat] /\ DOMAIN sessions' = Vehicles /\ known' \subseteq Vehicles
    BY <1>3, <2>1
  <2>3. \A w \in Vehicles : Proper(w, sessions'[w], started'[w])
    BY <1>2, <1>3, <2>1, NoSessionProper
  <2>4. \A w \in known' : sessions'[w] # NoSession
    BY <1>3, <2>1
  <2> QED BY <1>1, <2>2, <2>3, <2>4, <1>7, SessionsInv
<1>6. CASE Poll(v)
  <2>1. PICK sample \in Samples[v] : GetRecords({v}, sessions, [x \in {v} |-> sample])
    BY <1>6 DEF Poll
  <2>2. started' = started /\ known' = known
    BY <1>6 DEF Poll
  <2>3. /\ DOMAIN sessions' = Vehicles
        /\ \A w \in Vehicles : Proper(w, sessions'[w], started[w])
        /\ \A w \in Vehicles : sessions[w] # NoSession => sessions'[w] # NoSession
    BY <1>2, <1>3, <2>1, GetRecordsFacts
  <2>4. \A w \in known' : sessions'[w] # NoSession
    BY <1>3, <2>2, <2>3
  <2> QED BY <1>1, <1>3, <2>2, <2>3, <2>4, <1>7, SessionsInv
<1> QED BY <1>4, <1>5, <1>6

LEMMA ReturnInv == ASSUME SumoAssumption, SumoInv, RunReturns PROVE SumoInv'
<1>1. /\ sessions' = [v \in Vehicles |-> NoSession] /\ run' = [at |-> "none", left |-> 0]
      /\ known' = known \ HaveSession /\ traci' = "closed" /\ present' = {}
      /\ started' = started /\ observed' = observed
  BY DEF RunReturns, Over
<1>2. known' = {}
  BY <1>1 DEF SumoInv, KnownHaveSessions
<1>3. run' \in [at : {"none", "step", "callback"}, left : Nat] /\ run'.left = 0
  BY <1>1
<1>4. /\ observed' \in Seq(Seen) /\ Len(observed') + run'.left <= Bound["steps"]
      /\ started' \in [Vehicles -> Nat]
  BY <1>1, <1>3 DEF SumoInv, SumoAssumption
<1>5. \A v \in Vehicles : Proper(v, sessions'[v], started'[v])
  BY <1>1, <1>4, NoSessionProper
<1>6. spent' \in Spent
  BY SpentCounted DEF Next
<1> QED BY <1>1, <1>2, <1>3, <1>4, <1>5, <1>6, SessionsInv

LEMMA NextInv == SumoAssumption /\ SumoInv /\ [Next]_sumoVars => SumoInv'
<1> SUFFICES ASSUME SumoAssumption, SumoInv, [Next]_sumoVars PROVE SumoInv'
  OBVIOUS
<1>0. Bound["steps"] \in Nat /\ spent' \in Spent
  BY SpentCounted DEF SumoAssumption
<1>1. CASE Connect
  <2>1. /\ UNCHANGED <<sessions, known, started, observed>> /\ run' = run
        /\ traci' = "up" /\ present' \subseteq Vehicles
    BY <1>1 DEF Connect
  <2>2. run' \in [at : {"none", "step", "callback"}, left : Nat]
        /\ observed' \in Seq(Seen) /\ Len(observed') + run'.left <= Bound["steps"]
    BY <2>1 DEF SumoInv
  <2> QED BY <1>0, <2>1, <2>2, FrameInv
<1>2. CASE Run
  <2>1. /\ UNCHANGED <<traci, present, sessions, known, started, observed>>
        /\ run' = [at |-> "step", left |-> Bound["steps"] - Len(observed)]
    BY <1>2 DEF Run
  <2>2. run' \in [at : {"none", "step", "callback"}, left : Nat]
        /\ observed' \in Seq(Seen) /\ Len(observed') + run'.left <= Bound["steps"]
    BY <1>0, <2>1 DEF SumoInv
  <2>3. traci' \in {"none", "up", "closed"} /\ present' \subseteq Vehicles
    BY <2>1 DEF SumoInv
  <2> QED BY <1>0, <2>1, <2>2, <2>3, FrameInv
<1>3. CASE CallbackReturns
  <2>1. /\ UNCHANGED <<traci, present, sessions, known, started, observed>>
        /\ run' = [run EXCEPT !.at = "step"]
    BY <1>3 DEF CallbackReturns
  <2>2. run' \in [at : {"none", "step", "callback"}, left : Nat]
        /\ observed' \in Seq(Seen) /\ Len(observed') + run'.left <= Bound["steps"]
    BY <2>1 DEF SumoInv
  <2>3. traci' \in {"none", "up", "closed"} /\ present' \subseteq Vehicles
    BY <2>1 DEF SumoInv
  <2> QED BY <1>0, <2>1, <2>2, <2>3, FrameInv
<1>4. CASE RunRaises
  <2>1. /\ UNCHANGED <<traci, sessions, known, started>>
        /\ run' = [at |-> "none", left |-> 0] /\ present' \subseteq Vehicles
        /\ traci' \in {"none", "up", "closed"}
    BY <1>4 DEF RunRaises, Over, SumoInv
  <2>2. run' \in [at : {"none", "step", "callback"}, left : Nat] /\ run'.left = 0
    BY <2>1
  <2>3. Len(observed) + run.left <= Bound["steps"] /\ run.left \in Nat /\ observed \in Seq(Seen)
    BY DEF SumoInv
  <2>4. observed' \in Seq(Seen) /\ Len(observed') <= Bound["steps"] /\ Len(observed') \in Nat
    <3>1. CASE observed' = observed
      BY <1>0, <2>3, <3>1
    <3>2. CASE run.left > 0 /\ Stepped(present', FALSE)
      <4>1. /\ observed' \in Seq(Seen) /\ Len(observed') = Len(observed) + 1
            /\ Len(observed) \in Nat
        BY <2>1, <3>2, SteppedFacts
      <4> QED BY <1>0, <2>3, <3>2, <4>1
    <3> QED BY <1>4, <3>1, <3>2 DEF RunRaises
  <2> QED BY <1>0, <2>1, <2>2, <2>4, FrameInv
<1>5. CASE UNCHANGED sumoVars
  BY <1>5 DEF sumoVars, SumoInv, KnownHaveSessions, HaveSession, SessionOf, NoSession
<1> QED BY <1>1, <1>2, <1>3, <1>4, <1>5, StepInv, CallInv, ReturnInv DEF Next

(* The invariant holds throughout.                                         *)
THEOREM SumoInvariant == Spec => []SumoInv
<1>1. Init => SumoInv
  BY InitInv, SumoAssumption
<1>2. SumoInv /\ [Next]_sumoVars => SumoInv'
  BY NextInv, SumoAssumption
<1> QED BY <1>1, <1>2, PTL DEF Spec

LEMMA SumoTypes == SumoInv => TypeOK
<1> SUFFICES ASSUME SumoInv PROVE TypeOK
  OBVIOUS
<1>1. ASSUME NEW v \in Vehicles
      PROVE  /\ sessions[v].id \in 0 .. started[v]
             /\ \A i \in DOMAIN sessions[v].history : sessions[v].history[i] \in Samples[v]
  BY DEF SumoInv, SessionOf
<1>2. ASSUME NEW t \in DOMAIN observed PROVE observed[t].there \subseteq Vehicles
  <2>1. observed[t] \in Seen
    BY DEF SumoInv
  <2> QED BY <2>1 DEF Seen
<1> QED BY <1>1, <1>2 DEF SumoInv, TypeOK

(* The adapter's state always has its types: in particular no vehicle's    *)
(* session was ever stamped with an id that was not given out.             *)
THEOREM TypeCorrect == Spec => []TypeOK
BY SumoTypes, SumoInvariant, PTL

(* A vehicle the adapter knows always has a session, whatever the          *)
(* application started or ended and however many runs broke off            *)
(* (sumo_adapter.py: run, end_session).                                    *)
THEOREM KnownAlwaysHaveSessions == Spec => []KnownHaveSessions
<1>1. SumoInv => KnownHaveSessions
  BY DEF SumoInv
<1> QED BY <1>1, SumoInvariant, PTL

(* A run that returns leaves neither a session nor a known vehicle behind. *)
THEOREM RunsReturnClean == Spec => ReturnLeavesNothing
<1>1. SumoInv /\ [Next]_sumoVars =>
        [run.at = "step" /\ run'.at = "none" /\ traci' = "closed"
           => HaveSession' = {} /\ known' = {}]_sumoVars
  <2> SUFFICES ASSUME SumoInv, Next, run.at = "step", run'.at = "none", traci' = "closed"
               PROVE  HaveSession' = {} /\ known' = {}
    OBVIOUS
  <2>1. CASE RunReturns
    BY <2>1 DEF RunReturns, SumoInv, KnownHaveSessions, HaveSession, NoSession
  <2>2. CASE RunRaises
    <3>1. traci = "up"
      BY <2>2 DEF RunRaises
    <3> QED BY <2>2, <3>1 DEF RunRaises
  <2>3. CASE Step
    BY <2>3 DEF Step
  <2> QED
    BY <2>1, <2>2, <2>3
    DEF Next, Connect, Run, CallbackReturns, StartSession, EndSession, Poll, Idle
<1> QED BY <1>1, SumoInvariant, PTL DEF Spec, ReturnLeavesNothing

-----------------------------------------------------------------------------
(* What a vehicle's records R say, S being its session and n the number of *)
(* sessions it has had: the samples of S are on record, one for each entry *)
(* of its history, so that the next one has its number and a behaviour     *)
(* record has them all before it.                                          *)
Rec(v) ==
  [kind : {"sample", "behaviour"}, sess : Nat, nth : Nat,
   of : Samples[v], over : Seq(Samples[v]), at : Nat]

IsSample(R, i, n) == R[i].kind = "sample" /\ R[i].sess = n

Taken(R, S) ==
  S # NoSession =>
    /\ \A k \in 1 .. Len(S.history) : \E i \in 1 .. Len(R) :
         IsSample(R, i, S.id) /\ R[i].nth = k /\ R[i].of = S.history[k]
    /\ \A i \in 1 .. Len(R) : IsSample(R, i, S.id) => R[i].nth <= Len(S.history)

NumberedAt(R, j) ==
  R[j].kind = "sample" =>
    /\ \A i \in 1 .. j - 1 : IsSample(R, i, R[j].sess) => R[i].nth < R[j].nth
    /\ \A k \in 1 .. R[j].nth - 1 : \E i \in 1 .. j - 1 :
         IsSample(R, i, R[j].sess) /\ R[i].nth = k

ReportedAt(R, j) ==
  R[j].kind = "sample" /\ R[j].nth % Period = 0 =>
    j + 1 \in 1 .. Len(R) /\ R[j + 1].kind = "behaviour" /\ R[j + 1].sess = R[j].sess

CoveredAt(R, j) ==
  R[j].kind = "behaviour" =>
    /\ j - 1 \in 1 .. Len(R) /\ IsSample(R, j - 1, R[j].sess)
    /\ R[j - 1].nth = Len(R[j].over) /\ Len(R[j].over) % Period = 0
    /\ \A k \in 1 .. Len(R[j].over) : \E i \in 1 .. j :
         IsSample(R, i, R[j].sess) /\ R[i].nth = k /\ R[i].of = R[j].over[k]

CarInv(v, R, S, n) ==
  /\ R \in Seq(Rec(v))
  /\ \A i \in 1 .. Len(R) : R[i].sess \in 1 .. n
  /\ Taken(R, S)
  /\ \A j \in 1 .. Len(R) : NumberedAt(R, j) /\ ReportedAt(R, j) /\ CoveredAt(R, j)

(* A vehicle may lose its session, or get a fresh one, at any time.        *)
LEMMA CarNone ==
  ASSUME NEW v \in Vehicles, NEW R, NEW S, NEW n \in Nat, CarInv(v, R, S, n)
  PROVE  CarInv(v, R, NoSession, n)
BY DEF CarInv, Taken

LEMMA CarFresh ==
  ASSUME NEW v \in Vehicles, NEW R, NEW S, started[v] \in Nat, CarInv(v, R, S, started[v])
  PROVE  CarInv(v, R, Fresh(v), started[v] + 1)
<1> DEFINE n == started[v]
<1>1. R \in Seq(Rec(v)) /\ \A i \in 1 .. Len(R) : R[i].sess \in 1 .. n /\ R[i].sess \in 1 .. n + 1
  BY DEF CarInv
<1>2. Fresh(v).id = n + 1 /\ Fresh(v).history = <<>>
  BY DEF Fresh
<1>3. \A i \in 1 .. Len(R) : R[i].sess # Fresh(v).id
  BY <1>1, <1>2
<1>4. Taken(R, Fresh(v))
  BY <1>2, <1>3 DEF Taken, IsSample
<1> QED BY <1>1, <1>4 DEF CarInv

(* The records a sample brings: its own, and at every Period-th sample one *)
(* over the whole history h.                                               *)
Brings(v, new, id, h, sample, at) ==
  /\ new \in Seq(Rec(v)) /\ Len(new) \in {1, 2}
  /\ new[1].kind = "sample" /\ new[1].sess = id /\ new[1].nth = Len(h)
  /\ new[1].of = sample /\ new[1].at = at
  /\ Len(h) % Period = 0 => Len(new) = 2
  /\ Len(new) = 2 =>
       /\ Len(h) % Period = 0
       /\ new[2].kind = "behaviour" /\ new[2].sess = id /\ new[2].over = h
       /\ new[2].at = at

LEMMA RecordsFacts ==
  ASSUME SumoAssumption, NEW v \in Vehicles, NEW S \in SessionOf(v), NEW sample \in Samples[v],
         Len(observed') \in Nat
  PROVE  Brings(v, Records(S, sample), S.id, Append(S.history, sample), sample, Len(observed'))
<1> DEFINE h == Append(S.history, sample)
           new == Records(S, sample)
           T == [S EXCEPT !.history = Append(@, sample)]
           a == Sampled(T, sample)
           b == Behaviour(T, sample)
<1>1. S.history \in Seq(Samples[v]) /\ S.id \in Nat
  BY DEF SessionOf
<1>2. T.id = S.id /\ T.history = h
  BY DEF SessionOf
<1>3. h \in Seq(Samples[v]) /\ Len(h) \in Nat
  <2>1. h \in Seq(Samples[v])
    BY <1>1, AppendProperties
  <2> QED BY <2>1, LenProperties
<1>5. /\ a \in Rec(v) /\ a.kind = "sample" /\ a.sess = S.id /\ a.nth = Len(h) /\ a.of = sample
      /\ a.at = Len(observed')
  <2>1. a = [kind |-> "sample", sess |-> S.id, nth |-> Len(h), of |-> sample,
             over |-> <<>>, at |-> Len(observed')]
    BY <1>2 DEF Sampled
  <2>2. <<>> \in Seq(Samples[v])
    OBVIOUS
  <2> HIDE DEF a, h, T
  <2> QED BY <1>1, <1>3, <2>1, <2>2 DEF Rec
<1>6. /\ b \in Rec(v) /\ b.kind = "behaviour" /\ b.sess = S.id /\ b.over = h
      /\ b.at = Len(observed')
  <2>1. b = [kind |-> "behaviour", sess |-> S.id, nth |-> Len(h), of |-> sample,
             over |-> h, at |-> Len(observed')]
    BY <1>2 DEF Behaviour
  <2> HIDE DEF b, h, T
  <2> QED BY <1>1, <1>3, <2>1 DEF Rec
<1>7. new = <<a>> \o (IF Len(h) % Period = 0 THEN <<b>> ELSE <<>>)
  BY <1>2 DEF Records
<1> SUFFICES Brings(v, new, S.id, h, sample, Len(observed'))
  OBVIOUS
<1> HIDE DEF h, new, T, a, b
<1>8. CASE Len(h) % Period = 0
  <2>1. new = <<a>> \o <<b>>
    BY <1>7, <1>8
  <2>2. /\ <<a>> \in Seq(Rec(v)) /\ Len(<<a>>) = 1 /\ <<a>>[1] = a
        /\ <<b>> \in Seq(Rec(v)) /\ Len(<<b>>) = 1 /\ <<b>>[1] = b
    BY <1>5, <1>6
  <2>3. LET two == <<a>> \o <<b>>
        IN two \in Seq(Rec(v)) /\ Len(two) = 2 /\ two[1] = a /\ two[2] = b
    BY <2>2, ConcatProperties
  <2>4. new \in Seq(Rec(v)) /\ Len(new) = 2 /\ new[1] = a /\ new[2] = b
    BY <2>1, <2>3
  <2>5. /\ new \in Seq(Rec(v)) /\ Len(new) \in {1, 2}
        /\ new[1].kind = "sample" /\ new[1].sess = S.id /\ new[1].nth = Len(h)
        /\ new[1].of = sample /\ new[1].at = Len(observed')
    BY <1>5, <2>4
  <2>6. /\ new[2].kind = "behaviour" /\ new[2].sess = S.id /\ new[2].over = h
        /\ new[2].at = Len(observed')
    BY <1>6, <2>4
  <2> QED BY <1>8, <2>4, <2>5, <2>6 DEF Brings
<1>9. CASE Len(h) % Period # 0
  <2>1. new = <<a>> \o <<>>
    BY <1>7, <1>9
  <2>2. <<a>> \o <<>> = <<a>>
    BY <1>5, ConcatEmptySeq
  <2>3. new = <<a>> /\ new \in Seq(Rec(v)) /\ Len(new) = 1 /\ new[1] = a
    BY <1>5, <2>1, <2>2
  <2>4. /\ new \in Seq(Rec(v)) /\ Len(new) \in {1, 2}
        /\ new[1].kind = "sample" /\ new[1].sess = S.id /\ new[1].nth = Len(h)
        /\ new[1].of = sample /\ new[1].at = Len(observed')
    BY <1>5, <2>3
  <2>5. Len(new) # 2
    BY <2>3
  <2> QED BY <1>9, <2>4, <2>5, Zenon DEF Brings
<1> QED BY <1>8, <1>9

(* A sample of a session keeps what the records say: S becomes T, and R is *)
(* a prefix of Q, the rest of which is taken now.                          *)
GrownInto(v, S, T, R, Q, n, at) ==
  /\ CarInv(v, Q, T, n) /\ T.id = S.id /\ Len(R) \in Nat
  /\ \A i \in 1 .. Len(Q) : IF i <= Len(R) THEN Q[i] = R[i] ELSE Q[i].at = at

LEMMA CarGrown ==
  ASSUME SumoAssumption, NEW v \in Vehicles, NEW S, NEW n \in Nat, Proper(v, S, n),
         S # NoSession, NEW R, CarInv(v, R, S, n), NEW sample \in Samples[v],
         Len(observed') \in Nat
  PROVE  GrownInto(v, S, [S EXCEPT !.history = Append(@, sample)],
                   R, R \o Records(S, sample), n, Len(observed'))
<1> DEFINE h == S.history
           g == Append(h, sample)
           T == [S EXCEPT !.history = Append(@, sample)]
           new == Records(S, sample)
           Q == R \o new
           L == Len(R)
           m == Len(h)
<1>1. S \in SessionOf(v) /\ S.id \in 1 .. n /\ h \in Seq(Samples[v]) /\ m \in Nat
  BY DEF Proper, SessionOf, NoSession
<1> HIDE DEF h
<1>2. /\ g \in Seq(Samples[v]) /\ Len(g) = m + 1 /\ g[m + 1] = sample
      /\ \A k \in 1 .. m : g[k] = h[k]
  <2>1. h \in Seq(Samples[v])
    BY <1>1
  <2>2. \A x \in Samples[v] :
          /\ Append(h, x) \in Seq(Samples[v]) /\ Len(Append(h, x)) = Len(h) + 1
          /\ Append(h, x)[Len(h) + 1] = x
          /\ \A k \in 1 .. Len(h) : Append(h, x)[k] = h[k]
    BY <2>1, AppendProperties
  <2> QED BY <2>2
<1>3. T.id = S.id /\ T.history = g
  BY <1>1 DEF SessionOf, h
<1>4. /\ new \in Seq(Rec(v)) /\ Len(new) \in {1, 2}
      /\ new[1].kind = "sample" /\ new[1].sess = S.id /\ new[1].nth = Len(g)
      /\ new[1].of = sample /\ new[1].at = Len(observed')
      /\ Len(g) % Period = 0 => Len(new) = 2
      /\ Len(new) = 2 =>
           /\ Len(g) % Period = 0
           /\ new[2].kind = "behaviour" /\ new[2].sess = S.id /\ new[2].over = g
           /\ new[2].at = Len(observed')
  <2>1. S \in SessionOf(v)
    BY <1>1
  <2>2. Brings(v, new, S.id, g, sample, Len(observed'))
    BY <2>1, RecordsFacts DEF h
  <2> HIDE DEF new, g
  <2> QED BY <2>2 DEF Brings
<1>5. /\ R \in Seq(Rec(v)) /\ L \in Nat
  BY LenProperties DEF CarInv
<1>5a. \A i \in 1 .. L : R[i] \in Rec(v) /\ R[i].sess \in 1 .. n
  BY <1>5 DEF CarInv
<1>5b. \A j \in 1 .. L : NumberedAt(R, j) /\ ReportedAt(R, j) /\ CoveredAt(R, j)
  BY DEF CarInv
<1>5c. Len(R) = L /\ Len(new) \in {1, 2}
  <2> HIDE DEF new
  <2> QED BY <1>4
<1>6. /\ \A k \in 1 .. m : \E i \in 1 .. L :
           IsSample(R, i, S.id) /\ R[i].nth = k /\ R[i].of = h[k]
      /\ \A i \in 1 .. L : IsSample(R, i, S.id) => R[i].nth <= m
  BY DEF CarInv, Taken, h
<1> HIDE DEF g, T, new, m
<1>7. /\ Q \in Seq(Rec(v)) /\ Len(Q) = L + Len(new) /\ Len(Q) \in {L + 1, L + 2}
      /\ \A i \in 1 .. L : Q[i] = R[i]
      /\ Q[L + 1] = new[1] /\ (Len(Q) = L + 2 => Q[L + 2] = new[2])
  <2>1. /\ Q \in Seq(Rec(v)) /\ Len(Q) = L + Len(new)
        /\ \A i \in 1 .. L + Len(new) : Q[i] = IF i <= L THEN R[i] ELSE new[i - L]
    BY <1>4, <1>5, ConcatProperties
  <2> HIDE DEF Q, L
  <2>2. Len(new) \in {1, 2}
    BY <1>5c
  <2>3. \A i \in 1 .. L : Q[i] = R[i]
    BY <1>5, <2>1, <2>2
  <2>4. Q[L + 1] = new[1]
    <3>0. \A x, y : x \in Nat /\ y \in {1, 2} =>
            x + 1 \in 1 .. x + y /\ ~ (x + 1 <= x) /\ (x + 1) - x = 1
      OBVIOUS
    <3>1. L + 1 \in 1 .. L + Len(new) /\ ~ (L + 1 <= L) /\ (L + 1) - L = 1
      BY <1>5, <2>2, <3>0
    <3> QED BY <2>1, <3>1
  <2>5. ASSUME Len(new) = 2 PROVE Q[L + 2] = new[2]
    <3>1. L + 2 \in 1 .. L + Len(new) /\ ~ (L + 2 <= L) /\ (L + 2) - L = 2
      BY <1>5, <2>5
    <3> QED BY <2>1, <3>1
  <2>6. \A x, y : x \in Nat /\ y \in {1, 2} =>
          x + y \in {x + 1, x + 2} /\ (x + y = x + 2 => y = 2)
    OBVIOUS
  <2>7. Len(Q) \in {L + 1, L + 2} /\ (Len(Q) = L + 2 => Len(new) = 2)
    BY <1>5, <2>1, <2>2, <2>6
  <2> QED BY <2>1, <2>3, <2>4, <2>5, <2>7, Zenon
<1> HIDE DEF Q, L
<1>7a. Len(Q) = L + 2 <=> Len(new) = 2
  <2>1. \A x, y : x \in Nat /\ y \in {1, 2} => (x + y = x + 2 <=> y = 2)
    OBVIOUS
  <2> QED BY <1>5, <1>5c, <1>7, <2>1, ZenonT(30)
<1>8. \A i \in 1 .. Len(Q) : i \in 1 .. L \/ i = L + 1 \/ (i = L + 2 /\ Len(Q) = L + 2)
  BY <1>5, <1>7
<1>9. IsSample(Q, L + 1, S.id) /\ Q[L + 1].nth = m + 1 /\ Q[L + 1].of = sample
      /\ Q[L + 1].sess = S.id /\ Q[L + 1].kind = "sample"
  BY <1>2, <1>4, <1>7 DEF IsSample
<1>10. Len(Q) = L + 2 => Q[L + 2].kind = "behaviour" /\ Q[L + 2].sess = S.id
                         /\ Q[L + 2].over = g /\ (m + 1) % Period = 0
  BY <1>2, <1>4, <1>7, <1>7a
<1>11. (m + 1) % Period = 0 => Len(Q) = L + 2
  BY <1>2, <1>4, <1>7a
<1>12. \A i \in 1 .. L : \A x : IsSample(Q, i, x) <=> IsSample(R, i, x)
  BY <1>7 DEF IsSample
<1>13. \A i \in 1 .. Len(Q) : Q[i].sess \in 1 .. n
  BY <1>1, <1>5a, <1>7, <1>8, <1>9, <1>10
<1>14. Taken(Q, T)
  <2>1. ASSUME NEW k \in 1 .. m + 1
        PROVE  \E i \in 1 .. L + 1 : IsSample(Q, i, S.id) /\ Q[i].nth = k /\ Q[i].of = g[k]
    <3>1. CASE k = m + 1
      BY <1>2, <1>5, <1>9, <3>1
    <3>2. CASE k # m + 1
      <4>1. k \in 1 .. m
        BY <1>1, <3>2
      <4>2. PICK i \in 1 .. L : IsSample(R, i, S.id) /\ R[i].nth = k /\ R[i].of = h[k]
        BY <1>6, <4>1
      <4>3. i \in 1 .. L + 1 /\ IsSample(Q, i, S.id) /\ Q[i].nth = k /\ Q[i].of = g[k]
        BY <1>2, <1>5, <1>7, <1>12, <4>1, <4>2, SMTT(30)
      <4> QED BY <4>3
    <3> QED BY <3>1, <3>2
  <2>2. ASSUME NEW i \in 1 .. Len(Q), IsSample(Q, i, S.id) PROVE Q[i].nth <= m + 1
    <3>1. CASE i \in 1 .. L
      <4>1. IsSample(R, i, S.id) /\ Q[i] = R[i] /\ R[i] \in Rec(v)
        BY <1>5a, <1>7, <1>12, <2>2, <3>1
      <4>2. R[i].nth \in Nat /\ R[i].nth <= m
        BY <1>6, <3>1, <4>1 DEF Rec
      <4> QED BY <1>1, <4>1, <4>2
    <3>2. CASE i = L + 1
      BY <1>1, <1>9, <3>2
    <3>3. CASE i = L + 2 /\ Len(Q) = L + 2
      BY <1>10, <2>2, <3>3 DEF IsSample
    <3> QED BY <1>8, <3>1, <3>2, <3>3
  <2>3. 1 .. L + 1 \subseteq 1 .. Len(Q)
    BY <1>5, <1>7
  <2> QED BY <1>2, <1>3, <2>1, <2>2, <2>3 DEF Taken
<1>15. ASSUME NEW j \in 1 .. Len(Q) PROVE NumberedAt(Q, j)
  <2>1. CASE j \in 1 .. L
    <3>1. Q[j] = R[j] /\ \A i \in 1 .. j - 1 : i \in 1 .. L /\ Q[i] = R[i]
      BY <1>5, <1>7, <2>1
    <3>2. NumberedAt(R, j)
      BY <1>5b, <2>1
    <3> QED BY <1>12, <3>1, <3>2 DEF NumberedAt
  <2>2. CASE j = L + 1
    <3>1. j - 1 = L
      BY <1>5, <2>2
    <3>2. ASSUME NEW i \in 1 .. L, IsSample(Q, i, S.id) PROVE Q[i].nth < m + 1
      <4>1. IsSample(R, i, S.id) /\ Q[i] = R[i] /\ R[i] \in Rec(v)
        BY <1>5a, <1>7, <1>12, <3>2
      <4>2. R[i].nth \in Nat /\ R[i].nth <= m
        BY <1>6, <4>1 DEF Rec
      <4> QED BY <1>1, <4>1, <4>2, SMTT(30)
    <3>3. ASSUME NEW k \in 1 .. m
          PROVE  \E i \in 1 .. L : IsSample(Q, i, S.id) /\ Q[i].nth = k
      BY <1>6, <1>7, <1>12, SMTT(30)
    <3>4. (m + 1) - 1 = m
      BY <1>1
    <3> QED BY <1>9, <2>2, <3>1, <3>2, <3>3, <3>4 DEF NumberedAt
  <2>3. CASE j = L + 2 /\ Len(Q) = L + 2
    BY <1>10, <2>3 DEF NumberedAt
  <2> QED BY <1>8, <2>1, <2>2, <2>3
<1>16. ASSUME NEW j \in 1 .. Len(Q) PROVE ReportedAt(Q, j)
  <2>1. CASE j \in 1 .. L
    <3>1. ReportedAt(R, j) /\ Q[j] = R[j]
      BY <1>5b, <1>7, <2>1
    <3>2. j + 1 \in 1 .. L => j + 1 \in 1 .. Len(Q) /\ Q[j + 1] = R[j + 1]
      BY <1>5, <1>7, <2>1, SMTT(30)
    <3> QED BY <1>5c, <3>1, <3>2 DEF ReportedAt
  <2>2. CASE j = L + 1
    <3>1. j + 1 = L + 2 /\ L + 2 \in 1 .. L + 2
      BY <1>5, <2>2
    <3> QED BY <1>9, <1>10, <1>11, <2>2, <3>1 DEF ReportedAt
  <2>3. CASE j = L + 2 /\ Len(Q) = L + 2
    BY <1>10, <2>3 DEF ReportedAt
  <2> QED BY <1>8, <2>1, <2>2, <2>3
<1>17. ASSUME NEW j \in 1 .. Len(Q) PROVE CoveredAt(Q, j)
  <2>1. CASE j \in 1 .. L
    <3>1. CoveredAt(R, j) /\ Q[j] = R[j]
      BY <1>5b, <1>7, <2>1
    <3>2. /\ j - 1 \in 1 .. L => j - 1 \in 1 .. Len(Q) /\ Q[j - 1] = R[j - 1]
          /\ \A i \in 1 .. j : i \in 1 .. L /\ Q[i] = R[i]
      BY <1>5, <1>7, <2>1
    <3> SUFFICES ASSUME R[j].kind = "behaviour" PROVE CoveredAt(Q, j)
      BY <3>1 DEF CoveredAt
    <3>3. /\ j - 1 \in 1 .. L /\ IsSample(R, j - 1, R[j].sess)
          /\ R[j - 1].nth = Len(R[j].over) /\ Len(R[j].over) % Period = 0
      BY <1>5c, <3>1 DEF CoveredAt
    <3>4. /\ j - 1 \in 1 .. Len(Q) /\ IsSample(Q, j - 1, Q[j].sess)
          /\ Q[j - 1].nth = Len(Q[j].over) /\ Len(Q[j].over) % Period = 0
      BY <1>12, <3>1, <3>2, <3>3
    <3>5. ASSUME NEW k \in 1 .. Len(R[j].over)
          PROVE  \E i \in 1 .. j :
                   IsSample(Q, i, Q[j].sess) /\ Q[i].nth = k /\ Q[i].of = Q[j].over[k]
      <4>1. PICK i \in 1 .. j :
              IsSample(R, i, R[j].sess) /\ R[i].nth = k /\ R[i].of = R[j].over[k]
        BY <3>1 DEF CoveredAt
      <4> QED BY <1>12, <3>1, <3>2, <4>1
    <3> QED BY <3>1, <3>4, <3>5 DEF CoveredAt
  <2>2. CASE j = L + 1
    BY <1>9, <2>2 DEF CoveredAt
  <2>3. CASE j = L + 2 /\ Len(Q) = L + 2
    <3>1. j - 1 = L + 1 /\ L + 1 \in 1 .. Len(Q) /\ 1 .. L + 1 \subseteq 1 .. j
      BY <1>5, <2>3
    <3>2. ASSUME NEW k \in 1 .. m + 1
          PROVE  \E i \in 1 .. j : IsSample(Q, i, S.id) /\ Q[i].nth = k /\ Q[i].of = g[k]
      <4>1. CASE k = m + 1
        BY <1>2, <1>5, <1>9, <3>1, <4>1
      <4>2. CASE k # m + 1
        <5>1. k \in 1 .. m
          BY <1>1, <4>2
        <5>2. PICK i \in 1 .. L : IsSample(R, i, S.id) /\ R[i].nth = k /\ R[i].of = h[k]
          BY <1>6, <5>1
        <5>3. i \in 1 .. j /\ IsSample(Q, i, S.id) /\ Q[i].nth = k /\ Q[i].of = g[k]
          BY <1>2, <1>5, <1>7, <1>12, <2>3, <5>1, <5>2, SMTT(30)
        <5> QED BY <5>3
      <4> QED BY <4>1, <4>2
    <3>3. Q[j].sess = S.id /\ Q[j].over = g
      BY <1>10, <2>3
    <3>4. /\ IsSample(Q, j - 1, Q[j].sess) /\ Q[j - 1].nth = Len(Q[j].over)
          /\ Len(Q[j].over) % Period = 0
      <4>1. Len(Q[j].over) = m + 1
        BY <1>2, <3>3
      <4>2. Q[j - 1] = Q[L + 1] /\ IsSample(Q, j - 1, S.id)
        BY <1>9, <3>1
      <4> QED BY <1>9, <1>10, <2>3, <3>3, <4>1, <4>2
    <3> QED BY <1>2, <3>1, <3>2, <3>3, <3>4 DEF CoveredAt
  <2> QED BY <1>8, <2>1, <2>2, <2>3
<1>18. \A i \in 1 .. Len(Q) : IF i <= L THEN Q[i] = R[i] ELSE Q[i].at = Len(observed')
  <2> SUFFICES ASSUME NEW i \in 1 .. Len(Q)
               PROVE  IF i <= L THEN Q[i] = R[i] ELSE Q[i].at = Len(observed')
    OBVIOUS
  <2>1. CASE i \in 1 .. L
    BY <1>5, <1>7, <2>1
  <2>2. CASE i = L + 1
    BY <1>4, <1>5, <1>7, <2>2
  <2>3. CASE i = L + 2 /\ Len(Q) = L + 2
    BY <1>4, <1>5, <1>7, <2>3
  <2> QED BY <1>8, <2>1, <2>2, <2>3
<1>19. CarInv(v, Q, T, n)
  BY <1>7, <1>13, <1>14, <1>15, <1>16, <1>17 DEF CarInv
<1>20. GrownInto(v, S, T, R, Q, n, Len(observed'))
  BY <1>3, <1>5, <1>5c, <1>18, <1>19 DEF GrownInto
<1> QED BY <1>20 DEF T, Q, new

-----------------------------------------------------------------------------
(* Every vehicle's records are in order, and what they say of the session  *)
(* it has now is of one stay.                                              *)
FiledInv ==
  /\ DOMAIN records = Vehicles
  /\ \A v \in Vehicles : CarInv(v, records[v], sessions[v], started[v])
  /\ OneStay

(* A record is an old one or taken now.                                    *)
OldOrNew(v) ==
  \A i \in 1 .. Len(records'[v]) :
    \/ i \in 1 .. Len(records[v]) /\ records'[v][i] = records[v][i]
    \/ records'[v][i].at = Len(observed')

LEMMA CarTypes ==
  ASSUME NEW v, NEW R, NEW S, NEW n, CarInv(v, R, S, n)
  PROVE  /\ Len(R) \in Nat /\ DOMAIN R = 1 .. Len(R)
         /\ \A i \in 1 .. Len(R) : R[i] \in Rec(v) /\ R[i].at \in Nat /\ R[i].nth \in Nat
                                   /\ R[i].over \in Seq(Samples[v])
<1>1. R \in Seq(Rec(v))
  BY DEF CarInv
<1>2. Len(R) \in Nat /\ DOMAIN R = 1 .. Len(R) /\ \A i \in 1 .. Len(R) : R[i] \in Rec(v)
  BY <1>1
<1> QED BY <1>2 DEF Rec

(* What the steps that give vehicles samples do to the records.            *)
LEMMA GetRecordsFiled ==
  ASSUME SumoAssumption, NEW vehicles \in SUBSET Vehicles, NEW in, NEW data,
         NEW count \in [Vehicles -> Nat], \A v \in Vehicles : Proper(v, in[v], count[v]),
         \A v \in vehicles : data[v] \in Samples[v], Len(observed') \in Nat,
         \A v \in Vehicles : CarInv(v, records[v], in[v], count[v]),
         GetRecords(vehicles, in, data)
  PROVE  /\ DOMAIN records' = Vehicles
         /\ \A v \in Vehicles : /\ CarInv(v, records'[v], sessions'[v], count[v])
                                /\ sessions'[v].id = in[v].id /\ OldOrNew(v)
<1> DEFINE Grown(v) == [in[v] EXCEPT !.history = Append(@, data[v])]
           got == {v \in vehicles : in[v] # NoSession}
<1>1. /\ sessions' = [v \in Vehicles |-> IF v \in got THEN Grown(v) ELSE in[v]]
      /\ records' = [v \in Vehicles |->
           IF v \in got THEN records[v] \o Records(in[v], data[v]) ELSE records[v]]
  BY DEF GetRecords
<1>2. ASSUME NEW v \in got
      PROVE  GrownInto(v, in[v], Grown(v), records[v],
                       records[v] \o Records(in[v], data[v]), count[v], Len(observed'))
  <2>1. /\ v \in Vehicles /\ count[v] \in Nat /\ data[v] \in Samples[v] /\ in[v] # NoSession
        /\ Proper(v, in[v], count[v]) /\ CarInv(v, records[v], in[v], count[v])
    OBVIOUS
  <2> QED BY <2>1, CarGrown
<1> HIDE DEF Grown, got
<1> SUFFICES ASSUME NEW v \in Vehicles
             PROVE  /\ CarInv(v, records'[v], sessions'[v], count[v])
                    /\ sessions'[v].id = in[v].id /\ OldOrNew(v)
  BY <1>1
<1>3. CASE v \in got
  <2> DEFINE Q == records[v] \o Records(in[v], data[v])
             L == Len(records[v])
  <2>1. /\ CarInv(v, Q, Grown(v), count[v]) /\ Grown(v).id = in[v].id /\ L \in Nat
        /\ \A i \in 1 .. Len(Q) : IF i <= L THEN Q[i] = records[v][i]
                                  ELSE Q[i].at = Len(observed')
    BY <1>2, <1>3 DEF GrownInto
  <2>2. records'[v] = Q /\ sessions'[v] = Grown(v)
    BY <1>1, <1>3
  <2> HIDE DEF Q, L
  <2>3. \A i \in 1 .. Len(Q) : \/ i \in 1 .. L /\ Q[i] = records[v][i]
                               \/ Q[i].at = Len(observed')
    <3> TAKE i \in 1 .. Len(Q)
    <3>1. Len(Q) \in Nat
      BY <2>1, CarTypes
    <3> QED BY <2>1, <3>1
  <2> QED BY <2>1, <2>2, <2>3 DEF OldOrNew, L
<1>4. CASE v \notin got
  <2>1. records'[v] = records[v] /\ sessions'[v] = in[v]
    BY <1>1, <1>4
  <2>2. CarInv(v, records[v], in[v], count[v])
    OBVIOUS
  <2> QED BY <2>1, <2>2 DEF OldOrNew
<1> QED BY <1>3, <1>4

(* It was there at a step, unless nobody saw.                              *)
NotMissed(v, step) == v \in step.there \/ ~step.listed

(* The records of a known vehicle's session stay records of one stay when  *)
(* no old one joins it and the vehicle was there at what was observed      *)
(* since.                                                                  *)
LEMMA StayKept ==
  ASSUME SumoInv, FiledInv, known' \subseteq Vehicles, Len(observed') \in Nat,
         \A v \in Vehicles : CarInv(v, records'[v], sessions'[v], started'[v]) /\ OldOrNew(v),
         \A v \in known' : \A i \in 1 .. Len(records[v]) :
           records[v][i].sess = sessions'[v].id => v \in known /\ sessions'[v].id = sessions[v].id,
         \A t \in 1 .. Len(observed) : observed'[t] = observed[t],
         \A v \in known' : \A t \in 1 .. Len(observed') :
           t \in 1 .. Len(observed) \/ NotMissed(v, observed'[t])
  PROVE  OneStay'
<1> SUFFICES ASSUME NEW v \in known', NEW i \in DOMAIN records'[v],
                    records'[v][i].sess = sessions'[v].id,
                    NEW t \in records'[v][i].at + 1 .. Len(observed')
             PROVE  NotMissed(v, observed'[t])
  BY DEF OneStay, NotMissed
<1>1. v \in Vehicles
  OBVIOUS
<1>2. i \in 1 .. Len(records'[v]) /\ records'[v][i].at \in Nat
  BY <1>1, CarTypes
<1>3. t \in 1 .. Len(observed')
  BY <1>2
<1>4. CASE i \in 1 .. Len(records[v]) /\ records'[v][i] = records[v][i]
  <2>1. v \in known /\ sessions'[v].id = sessions[v].id
    BY <1>4
  <2>2. i \in DOMAIN records[v]
    BY <1>1, <1>4, CarTypes DEF FiledInv
  <2>3. \A u \in records[v][i].at + 1 .. Len(observed) : NotMissed(v, observed[u])
    BY <1>4, <2>1, <2>2 DEF FiledInv, OneStay, NotMissed
  <2>4. CASE t \in 1 .. Len(observed)
    <3>1. t \in records[v][i].at + 1 .. Len(observed)
      BY <1>2, <1>4, <2>4
    <3> QED BY <2>3, <2>4, <3>1
  <2> QED BY <1>3, <2>4
<1>5. CASE records'[v][i].at = Len(observed')
  BY <1>2, <1>5
<1> QED BY <1>1, <1>2, <1>4, <1>5 DEF OldOrNew

(* Nothing of a vehicle's record is of a session not started yet.          *)
LEMMA FreshUnused ==
  ASSUME NEW v \in Vehicles, started[v] \in Nat, NEW R, NEW S, CarInv(v, R, S, started[v]),
         NEW i \in 1 .. Len(R)
  PROVE  R[i].sess # Fresh(v).id
BY DEF CarInv, Fresh

LEMMA InitFiled == Init => FiledInv
<1> SUFFICES ASSUME Init PROVE FiledInv
  OBVIOUS
<1>1. \A v \in Vehicles : /\ sessions[v] = NoSession /\ started[v] = 0
                          /\ records[v] = <<>> /\ Len(records[v]) = 0
  BY DEF Init
<1>2. known = {} /\ DOMAIN records = Vehicles
  BY DEF Init
<1>3. ASSUME NEW v \in Vehicles PROVE CarInv(v, records[v], sessions[v], started[v])
  <2>1. <<>> \in Seq(Rec(v)) /\ 1 .. 0 = {}
    OBVIOUS
  <2>2. records[v] \in Seq(Rec(v)) /\ 1 .. Len(records[v]) = {}
    BY <1>1, <2>1
  <2> QED BY <1>1, <2>2 DEF CarInv, Taken
<1> QED BY <1>2, <1>3 DEF FiledInv, OneStay

(* The steps that leave records alone and see nothing new.                 *)
LEMMA QuietFiled ==
  ASSUME SumoInv, FiledInv, UNCHANGED records, known' \subseteq known,
         Len(observed') \in Nat, \A t \in 1 .. Len(observed) : observed'[t] = observed[t],
         \A t \in 1 .. Len(observed') : t \in 1 .. Len(observed) \/ ~observed'[t].listed,
         \A v \in Vehicles :
           /\ CarInv(v, records[v], sessions'[v], started'[v])
           /\ v \in known' => \/ sessions'[v].id = sessions[v].id
                              \/ \A i \in 1 .. Len(records[v]) :
                                   records[v][i].sess # sessions'[v].id
  PROVE  FiledInv'
<1>1. \A v \in Vehicles : CarInv(v, records'[v], sessions'[v], started'[v]) /\ OldOrNew(v)
  BY DEF OldOrNew
<1>2. known' \subseteq Vehicles
  BY DEF SumoInv
<1>3. /\ \A v \in known' : \A i \in 1 .. Len(records[v]) :
           records[v][i].sess = sessions'[v].id => v \in known /\ sessions'[v].id = sessions[v].id
      /\ \A t \in 1 .. Len(observed) : observed'[t] = observed[t]
      /\ \A v \in known' : \A t \in 1 .. Len(observed') :
           t \in 1 .. Len(observed) \/ NotMissed(v, observed'[t])
  BY <1>2 DEF NotMissed
<1>4. OneStay'
  BY <1>1, <1>2, <1>3, StayKept
<1>5. DOMAIN records' = Vehicles
  BY DEF FiledInv
<1> QED BY <1>1, <1>4, <1>5 DEF FiledInv

LEMMA StepFiled == ASSUME SumoAssumption, SumoInv, FiledInv, Step PROVE FiledInv'
<1> PICK now \in SUBSET Vehicles, reporting \in SUBSET Vehicles :
           \E data \in [reporting -> UNION {Samples[v] : v \in Vehicles}] :
             /\ \A v \in reporting : data[v] \in Samples[v]
             /\ Stepped(now, TRUE)
             /\ started' = [v \in Vehicles |->
                  IF v \in now \ known THEN started[v] + 1 ELSE started[v]]
             /\ known' = now
             /\ GetRecords(reporting, Followed(now), data)
  BY DEF Step
<1> PICK data \in [reporting -> UNION {Samples[v] : v \in Vehicles}] :
           /\ \A v \in reporting : data[v] \in Samples[v]
           /\ Stepped(now, TRUE)
           /\ started' = [v \in Vehicles |->
                IF v \in now \ known THEN started[v] + 1 ELSE started[v]]
           /\ known' = now
           /\ GetRecords(reporting, Followed(now), data)
  OBVIOUS
<1>1. /\ Len(observed) \in Nat /\ Len(observed') = Len(observed) + 1 /\ Len(observed') \in Nat
      /\ \A t \in 1 .. Len(observed) : observed'[t] = observed[t]
      /\ observed'[Len(observed) + 1].there = now
  <2>1. Stepped(now, TRUE)
    OBVIOUS
  <2> QED BY <2>1, SteppedFacts, Zenon
<1>2. started' \in [Vehicles -> Nat]
  BY DEF SumoInv
<1>3. \A v \in Vehicles : Proper(v, Followed(now)[v], started'[v])
  BY FollowedProper
<1>4. ASSUME NEW v \in Vehicles
      PROVE  /\ CarInv(v, records[v], Followed(now)[v], started'[v])
             /\ v \in now => \A i \in 1 .. Len(records[v]) :
                  records[v][i].sess = Followed(now)[v].id
                    => v \in known /\ Followed(now)[v].id = sessions[v].id
  <2>1. CarInv(v, records[v], sessions[v], started[v]) /\ started[v] \in Nat
    BY DEF FiledInv, SumoInv
  <2>2. CASE v \in now \ known
    <3>1. Followed(now)[v] = Fresh(v) /\ started'[v] = started[v] + 1
      BY <2>2 DEF Followed
    <3> QED BY <2>1, <3>1, CarFresh, FreshUnused
  <2>3. CASE v \in known \ now
    <3>1. Followed(now)[v] = NoSession /\ started'[v] = started[v]
      BY <2>3 DEF Followed
    <3> QED BY <2>1, <2>3, <3>1, CarNone
  <2>4. CASE v \in now \cap known \/ (v \notin now /\ v \notin known)
    <3>1. Followed(now)[v] = sessions[v] /\ started'[v] = started[v]
      BY <2>4 DEF Followed
    <3> QED BY <2>1, <2>4, <3>1
  <2> QED BY <2>2, <2>3, <2>4
<1>5. /\ DOMAIN records' = Vehicles
      /\ \A v \in Vehicles : /\ CarInv(v, records'[v], sessions'[v], started'[v])
                             /\ sessions'[v].id = Followed(now)[v].id /\ OldOrNew(v)
  <2>1. \A v \in Vehicles : CarInv(v, records[v], Followed(now)[v], started'[v])
    BY <1>4
  <2>2. Len(observed') \in Nat
    BY <1>1
  <2> DEFINE in == Followed(now)
             count == started'
  <2>3. /\ count \in [Vehicles -> Nat] /\ GetRecords(reporting, in, data)
        /\ \A v \in reporting : data[v] \in Samples[v]
        /\ \A v \in Vehicles : Proper(v, in[v], count[v])
        /\ \A v \in Vehicles : CarInv(v, records[v], in[v], count[v])
    BY <1>2, <1>3, <2>1
  <2> HIDE DEF in, count
  <2>4. /\ DOMAIN records' = Vehicles
        /\ \A v \in Vehicles : /\ CarInv(v, records'[v], sessions'[v], count[v])
                               /\ sessions'[v].id = in[v].id /\ OldOrNew(v)
    BY <2>2, <2>3, GetRecordsFiled
  <2> QED BY <2>4 DEF in, count
<1>6. OneStay'
  <2>1. \A v \in known' : \A i \in 1 .. Len(records[v]) :
          records[v][i].sess = sessions'[v].id => v \in known /\ sessions'[v].id = sessions[v].id
    BY <1>4, <1>5
  <2>2. \A v \in known' : \A t \in 1 .. Len(observed') :
          t \in 1 .. Len(observed) \/ NotMissed(v, observed'[t])
    BY <1>1 DEF NotMissed
  <2> QED BY <1>1, <1>5, <2>1, <2>2, StayKept
<1> QED BY <1>5, <1>6 DEF FiledInv

LEMMA CallFiled ==
  ASSUME SumoAssumption, SumoInv, FiledInv, NEW v \in Vehicles,
         StartSession(v) \/ EndSession(v) \/ Poll(v)
  PROVE  FiledInv'
<1>1. \A w \in Vehicles : CarInv(w, records[w], sessions[w], started[w]) /\ started[w] \in Nat
  BY DEF FiledInv, SumoInv
<1>2. /\ DOMAIN sessions = Vehicles /\ started \in [Vehicles -> Nat] /\ known \subseteq Vehicles
      /\ Len(observed) \in Nat
  BY DEF SumoInv
<1>3. CASE StartSession(v)
  <2>1. /\ sessions' = [sessions EXCEPT ![v] = Fresh(v)]
        /\ started' = [started EXCEPT ![v] = @ + 1]
        /\ UNCHANGED <<known, records, observed>>
    BY <1>3 DEF StartSession
  <2>2. ASSUME NEW w \in Vehicles
        PROVE  /\ CarInv(w, records[w], sessions'[w], started'[w])
               /\ \/ sessions'[w].id = sessions[w].id
                  \/ \A i \in 1 .. Len(records[w]) : records[w][i].sess # sessions'[w].id
    <3>1. CASE w = v
      BY <1>1, <1>2, <2>1, <3>1, CarFresh, FreshUnused
    <3>2. CASE w # v
      BY <1>1, <1>2, <2>1, <3>2
    <3> QED BY <3>1, <3>2
  <2> QED BY <1>2, <2>1, <2>2, QuietFiled
<1>4. CASE EndSession(v)
  <2>1. /\ sessions' = [sessions EXCEPT ![v] = NoSession] /\ known' = known \ {v}
        /\ UNCHANGED <<started, records, observed>>
    BY <1>4 DEF EndSession
  <2>2. ASSUME NEW w \in Vehicles
        PROVE  /\ CarInv(w, records[w], sessions'[w], started'[w])
               /\ w \in known' => sessions'[w].id = sessions[w].id
    <3>1. CASE w = v
      BY <1>1, <1>2, <2>1, <3>1, CarNone
    <3>2. CASE w # v
      BY <1>1, <1>2, <2>1, <3>2
    <3> QED BY <3>1, <3>2
  <2> QED BY <1>2, <2>1, <2>2, QuietFiled
<1>5. CASE Poll(v)
  <2>1. PICK sample \in Samples[v] : GetRecords({v}, sessions, [x \in {v} |-> sample])
    BY <1>5 DEF Poll
  <2>2. UNCHANGED <<started, known, observed>> /\ Len(observed) \in Nat
    BY <1>5 DEF Poll, SumoInv
  <2>3. \A w \in Vehicles : Proper(w, sessions[w], started[w])
    BY InvIsProper
  <2>4. /\ DOMAIN records' = Vehicles
        /\ \A w \in Vehicles : /\ CarInv(w, records'[w], sessions'[w], started[w])
                               /\ sessions'[w].id = sessions[w].id /\ OldOrNew(w)
    BY <1>1, <1>2, <2>1, <2>2, <2>3, GetRecordsFiled
  <2>5. OneStay'
    BY <1>2, <2>2, <2>4, StayKept
  <2> QED BY <2>2, <2>4, <2>5 DEF FiledInv
<1> QED BY <1>3, <1>4, <1>5

LEMMA NextFiled == SumoAssumption /\ SumoInv /\ FiledInv /\ [Next]_sumoVars => FiledInv'
<1> SUFFICES ASSUME SumoAssumption, SumoInv, FiledInv, [Next]_sumoVars PROVE FiledInv'
  OBVIOUS
<1>1. /\ \A v \in Vehicles : CarInv(v, records[v], sessions[v], started[v]) /\ started[v] \in Nat
      /\ Len(observed) \in Nat
  BY DEF FiledInv, SumoInv
<1>2. CASE UNCHANGED <<sessions, known, started, records, observed>>
  BY <1>1, <1>2, QuietFiled
<1>3. CASE RunRaises
  <2>1. /\ UNCHANGED <<sessions, known, started, records>>
        /\ observed' = observed \/ (present' \in SUBSET Vehicles /\ Stepped(present', FALSE))
    BY <1>3 DEF RunRaises
  <2>2. ASSUME Stepped(present', FALSE), present' \in SUBSET Vehicles
        PROVE  /\ Len(observed') \in Nat
               /\ \A t \in 1 .. Len(observed) : observed'[t] = observed[t]
               /\ \A t \in 1 .. Len(observed') : t \in 1 .. Len(observed) \/ ~observed'[t].listed
    <3>1. /\ Len(observed') = Len(observed) + 1 /\ Len(observed) \in Nat
          /\ \A t \in 1 .. Len(observed) : observed'[t] = observed[t]
          /\ observed'[Len(observed) + 1].listed = FALSE
      BY <2>2, SteppedFacts, Zenon
    <3> QED BY <3>1
  <2> QED BY <1>1, <1>2, <2>1, <2>2, QuietFiled
<1>4. CASE RunReturns
  <2>1. /\ sessions' = [v \in Vehicles |-> NoSession] /\ known' = {}
        /\ UNCHANGED <<started, records, observed>>
    BY <1>4 DEF RunReturns, SumoInv, KnownHaveSessions
  <2> QED BY <1>1, <2>1, CarNone, QuietFiled
<1>5. CASE Connect \/ Run \/ CallbackReturns \/ UNCHANGED sumoVars
  BY <1>2, <1>5 DEF Connect, Run, CallbackReturns, sumoVars
<1> QED BY <1>3, <1>4, <1>5, StepFiled, CallFiled DEF Next

(* The steps a run does not see are the last of their runs: of the steps   *)
(* seen so far none is of a later run, and none of a run that goes on is   *)
(* unseen.                                                                 *)
UnseenInv ==
  /\ \A t \in 1 .. Len(observed) :
       /\ observed[t].run <= spent["runs"]
       /\ ~observed[t].listed /\ observed[t].run = spent["runs"] => run.at = "none"
  /\ \A t, u \in 1 .. Len(observed) :
       t < u /\ ~observed[t].listed => observed[t].run # observed[u].run

LEMMA UnseenStep ==
  ASSUME SumoInv, UnseenInv, run.at = "step", UNCHANGED spent, NEW now \in SUBSET Vehicles,
         NEW listed \in BOOLEAN, Stepped(now, listed), ~listed => run'.at = "none"
  PROVE  UnseenInv'
<1> DEFINE n == Len(observed)
           k == spent["runs"]
<1>1. /\ n \in Nat /\ Len(observed') = n + 1 /\ k \in Nat
      /\ \A t \in 1 .. n : observed'[t] = observed[t]
      /\ observed'[n + 1].listed = listed /\ observed'[n + 1].run = k
  <2>1. k \in Nat
    BY DEF SumoInv, Spent
  <2> QED BY <2>1, SteppedFacts, Zenon
<1>2. \A t \in 1 .. n : observed[t].run <= k /\ (~observed[t].listed => observed[t].run # k)
  BY DEF UnseenInv
<1> HIDE DEF k
<1>3. \A t \in 1 .. n + 1 : t \in 1 .. n \/ t = n + 1
  BY <1>1
<1>4. ASSUME NEW t \in 1 .. n + 1
      PROVE  /\ observed'[t].run <= k
             /\ ~observed'[t].listed /\ observed'[t].run = k => run'.at = "none"
  BY <1>1, <1>2, <1>3
<1>5. ASSUME NEW t \in 1 .. n + 1, NEW u \in 1 .. n + 1, t < u, ~observed'[t].listed
      PROVE  observed'[t].run # observed'[u].run
  <2>1. t \in 1 .. n
    BY <1>1, <1>5
  <2>2. CASE u \in 1 .. n
    BY <1>1, <1>5, <2>1, <2>2 DEF UnseenInv
  <2>3. CASE u = n + 1
    BY <1>1, <1>2, <1>5, <2>1, <2>3
  <2> QED BY <1>3, <2>2, <2>3
<1>6. spent'["runs"] = k
  BY DEF k
<1> QED BY <1>1, <1>4, <1>5, <1>6 DEF UnseenInv

LEMMA UnseenNext == ASSUME SumoInv, UnseenInv, [Next]_sumoVars PROVE UnseenInv'
<1>1. CASE Step
  <2>1. PICK now \in SUBSET Vehicles : Stepped(now, TRUE)
    BY <1>1 DEF Step
  <2>2. run.at = "step" /\ UNCHANGED spent
    BY <1>1 DEF Step
  <2> QED BY <2>1, <2>2, UnseenStep
<1>2. CASE RunRaises /\ run.at = "step"
  <2>1. /\ present' \in SUBSET Vehicles /\ Stepped(present', FALSE)
        /\ run'.at = "none" /\ UNCHANGED spent
    BY <1>2 DEF RunRaises, Over
  <2> QED BY <1>2, <2>1, UnseenStep
<1>3. CASE Run
  <2>1. /\ observed' = observed /\ spent' = [spent EXCEPT !["runs"] = @ + 1]
        /\ spent \in Spent
    BY <1>3 DEF Run, Use, SumoInv
  <2>2. spent'["runs"] = spent["runs"] + 1 /\ spent["runs"] \in Nat
    BY <2>1 DEF Spent
  <2>3. ASSUME NEW t \in 1 .. Len(observed) PROVE observed[t].run \in Nat
    <3>1. observed[t] \in Seen
      BY DEF SumoInv
    <3> QED BY <3>1 DEF Seen
  <2> QED BY <2>1, <2>2, <2>3 DEF UnseenInv
<1>4. CASE UNCHANGED <<observed, spent>> /\ (run.at = "none" => run'.at = "none")
  BY <1>4 DEF UnseenInv
<1>5. CASE \E v \in Vehicles : StartSession(v) \/ EndSession(v) \/ Poll(v)
  <2>1. /\ UNCHANGED <<observed, run>> /\ spent' = [spent EXCEPT !["calls"] = @ + 1]
        /\ spent \in Spent
    BY <1>5 DEF StartSession, EndSession, Poll, Use, SumoInv
  <2>2. spent'["runs"] = spent["runs"]
    BY <2>1 DEF Spent
  <2> QED BY <2>1, <2>2 DEF UnseenInv
<1>6. CASE \/ Connect \/ CallbackReturns \/ RunReturns \/ UNCHANGED sumoVars
           \/ RunRaises /\ run.at # "step"
  BY <1>4, <1>6 DEF Connect, CallbackReturns, RunReturns, RunRaises, Over, sumoVars
<1> QED BY <1>1, <1>2, <1>3, <1>5, <1>6 DEF Next

LEMMA FiledIsRecorded == SumoInv /\ FiledInv /\ UnseenInv => StayRecorded
<1> SUFFICES ASSUME FiledInv, NEW v \in Vehicles, NEW j \in DOMAIN records[v]
             PROVE  /\ LET b == records[v][j]
                           earlier == SamplesOf(v, b.sess, j - 1)
                       IN b.kind = "sample" =>
                            /\ \A i \in earlier : records[v][i].nth < b.nth
                            /\ \A k \in 1 .. b.nth - 1 : \E i \in earlier : records[v][i].nth = k
                    /\ LET b == records[v][j] IN
                       /\ b.kind = "sample" /\ b.nth % Period = 0 =>
                            /\ j + 1 \in DOMAIN records[v]
                            /\ records[v][j + 1].kind = "behaviour"
                            /\ records[v][j + 1].sess = b.sess
                       /\ b.kind = "behaviour" =>
                            /\ j - 1 \in SamplesOf(v, b.sess, j)
                            /\ records[v][j - 1].nth = Len(b.over)
                            /\ Len(b.over) % Period = 0
                            /\ \A k \in DOMAIN b.over : \E i \in SamplesOf(v, b.sess, j) :
                                 records[v][i].nth = k /\ records[v][i].of = b.over[k]
  <2>1. SumoInv /\ UnseenInv => UnseenLast
    BY DEF SumoInv, UnseenInv, UnseenLast
  <2> QED BY <2>1 DEF FiledInv, StayRecorded, Numbered, BehaviourCovers
<1> DEFINE R == records[v]
           b == R[j]
<1>1. CarInv(v, R, sessions[v], started[v])
  BY DEF FiledInv
<1>2. DOMAIN R = 1 .. Len(R) /\ Len(R) \in Nat /\ j \in 1 .. Len(R) /\ b.over \in Seq(Samples[v])
  BY <1>1, CarTypes
<1>3. NumberedAt(R, j) /\ ReportedAt(R, j) /\ CoveredAt(R, j)
  BY <1>1, <1>2 DEF CarInv
<1>4. \A n, last : SamplesOf(v, n, last) = {i \in 1 .. Len(R) : i <= last /\ IsSample(R, i, n)}
  BY <1>2 DEF SamplesOf, IsSample
<1> HIDE DEF R
<1>5. /\ \A n : SamplesOf(v, n, j - 1) = {i \in 1 .. j - 1 : IsSample(R, i, n)}
      /\ \A n : SamplesOf(v, n, j) = {i \in 1 .. j : IsSample(R, i, n)}
  BY <1>2, <1>4
<1>6. b.kind = "sample" =>
        /\ \A i \in SamplesOf(v, b.sess, j - 1) : R[i].nth < b.nth
        /\ \A k \in 1 .. b.nth - 1 : \E i \in SamplesOf(v, b.sess, j - 1) : R[i].nth = k
  BY <1>3, <1>5 DEF NumberedAt
<1>7. b.kind = "sample" /\ b.nth % Period = 0 =>
        j + 1 \in DOMAIN R /\ R[j + 1].kind = "behaviour" /\ R[j + 1].sess = b.sess
  BY <1>2, <1>3 DEF ReportedAt
<1>8. ASSUME b.kind = "behaviour"
      PROVE  /\ j - 1 \in SamplesOf(v, b.sess, j) /\ R[j - 1].nth = Len(b.over)
             /\ Len(b.over) % Period = 0
             /\ \A k \in DOMAIN b.over : \E i \in SamplesOf(v, b.sess, j) :
                  R[i].nth = k /\ R[i].of = b.over[k]
  <2>1. j - 1 \in SamplesOf(v, b.sess, j)
    <3>1. j - 1 \in 1 .. Len(R) /\ IsSample(R, j - 1, b.sess)
      BY <1>3, <1>8 DEF CoveredAt
    <3> QED BY <1>2, <1>4, <3>1
  <2>2. DOMAIN b.over = 1 .. Len(b.over)
    BY <1>2, LenProperties
  <2> QED BY <1>3, <1>5, <1>8, <2>1, <2>2 DEF CoveredAt
<1> QED BY <1>6, <1>7, <1>8 DEF R

(* A session of a vehicle the adapter follows is of one stay of it but for *)
(* the last step of a run whose list of vehicles failed, its samples are   *)
(* numbered without a gap, and a behaviour record comes with every         *)
(* Period-th of them, over all of them and no others, whoever polls in     *)
(* between and however many runs break off (sumo_adapter.py: run,          *)
(* get_records).                                                           *)
THEOREM StaysAreRecorded == Spec => []StayRecorded
<1>1. Init => FiledInv /\ UnseenInv
  BY InitFiled DEF Init, UnseenInv
<1>2. SumoInv /\ FiledInv /\ UnseenInv /\ [Next]_sumoVars => FiledInv' /\ UnseenInv'
  BY NextFiled, UnseenNext, SumoAssumption
<1> QED BY <1>1, <1>2, FiledIsRecorded, SumoInvariant, PTL DEF Spec

=============================================================================
