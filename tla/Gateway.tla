------------------------------ MODULE Gateway ------------------------------
(***************************************************************************)
(* The gateway (chambers-gateway/src/gateway/mod.rs) with the burn engine  *)
(* (burn/mod.rs) it drives, over the HSM and the blob store.               *)
(*                                                                         *)
(* Every method takes &self and all state sits behind mutexes, so any      *)
(* number of threads may be inside the gateway at once.  A step of the     *)
(* model is one critical section: what a method does between taking a lock *)
(* and releasing it, together with the local work up to the next lock.     *)
(* pc[t] names the section that thread t executes next.                    *)
(***************************************************************************)
EXTENDS Hsm, SessionDataStore, Sequences, FiniteSets

CONSTANTS
  Threads,       \* threads calling the gateway
  Stakeholders,  \* everyone a manifest may name
  Endpoints,     \* stakeholders with an endpoint in the gateway's table
  DataTypes,     \* data types of records
  TypeOf,        \* the data type of each record
  Manifests,     \* manifests a session may be started with: their entries,
                 \* in order; nothing keeps two from naming one stakeholder
  Budget,        \* bound: calls of each kind, and failures, in a behaviour
  None           \* no session, record, stakeholder or manifest

(* An entry of a manifest: a stakeholder, and the data types of which it   *)
(* gets a view, those whose first category lists its own jurisdiction.     *)
ManifestEntry == [who: Stakeholders, types: SUBSET DataTypes]

ASSUME GatewayAssumption ==
  /\ IsFiniteSet(Threads) /\ Threads # {}
  /\ Endpoints \subseteq Stakeholders
  /\ TypeOf \in [Records -> DataTypes]
  /\ Manifests \subseteq Seq(ManifestEntry)
  /\ Budget \in [{"end", "revoke", "fallback", "fault"} -> Nat]
  /\ None \notin Sessions \cup Records \cup Stakeholders \cup Manifests

VARIABLES
  \* burn engine
  sessionKeys,     \* session -> key handle, NoHandle when there is no mapping
  \* gateway
  activeSessions,  \* sessions with a SessionState
  keyHandle,       \* key_handle of the SessionState (kept when it is removed)
  fallbackMode,    \* fallback_mode of the SessionState
  evaluators,      \* session -> manifest of its evaluator, None without one
  revocations,     \* stakeholders revoked in the session's evaluator
  metrics,
  auditLog,        \* session -> its rows in the audit log, in order
  \* callers
  pc,              \* the critical section a thread is about to enter
  call,            \* locals of the call a thread is making
  \* environment and history
  issued,          \* session ids drawn so far
  known,           \* session ids start_session has returned
  outcome,         \* what the caller of process_record got for a record
  results,         \* what the evaluator returned for a record
  budget           \* calls and failures still allowed

dataVars == <<keys, nextHandle, store, sessionKeys>>
sessionVars == <<activeSessions, keyHandle, fallbackMode, evaluators,
                 revocations>>
envVars == <<issued, known, outcome, results, budget>>
vars == <<dataVars, sessionVars, metrics, auditLog, pc, call, envVars>>

-----------------------------------------------------------------------------
EventTypes == {"SessionStart", "ManifestLoaded", "DataGenerated",
               "DataTransmitted", "DataBlocked", "ConsentRevoked",
               "HsmFallback", "BurnStarted", "BurnCompleted", "SessionEnd"}

(* A row of the audit log.  rec ties a row to the record it is about, and  *)
(* entry to the manifest entry it is a decision for; both are kept for the *)
(* properties, the code's payload holds the record's data type.            *)
LogEntry == [event: EventTypes, rec: Records \cup {None}, entry: Nat,
             who: Stakeholders \cup {None}, ok: BOOLEAN]

Entry(event) ==
  [event |-> event, rec |-> None, entry |-> 0, who |-> None, ok |-> TRUE]

StartLabels == {"register", "insertSession", "insertEvaluator", "countStart",
                "logSessionStart", "logManifestLoaded"}
RecordLabels == {"readKey", "storeBlob", "logGenerated", "evaluate",
                 "logUndeclared", "route", "countRecord"}
EndLabels == {"logBurnStarted", "layer1", "layer2", "layer3", "layer4",
              "layer5keys", "layer5data", "layer6hsm", "layer6store",
              "layer6keys", "logBurnCompleted", "logSessionEnd",
              "removeSession", "removeEvaluator", "countEnd"}
OtherLabels == {"revoke", "logRevoked", "logFallback"}
Labels == {"idle"} \cup StartLabels \cup RecordLabels \cup EndLabels
            \cup OtherLabels

(* The sections that append to the audit log. *)
LogLabels == {"logSessionStart", "logManifestLoaded", "logGenerated",
              "logUndeclared", "route", "logBurnStarted", "logBurnCompleted",
              "logSessionEnd", "logRevoked", "logFallback"}

Call == [sess: Sessions \cup {None}, key: Nat, rec: Records \cup {None},
         manifest: Manifests \cup {None}, who: Stakeholders \cup {None},
         views: Seq(Stakeholders \cup {None}), todo: SUBSET Nat,
         sent: Nat, blocked: Nat, ok: BOOLEAN]

NoCall == [sess |-> None, key |-> NoHandle, rec |-> None, manifest |-> None,
           who |-> None, views |-> <<>>, todo |-> {}, sent |-> 0, blocked |-> 0,
           ok |-> TRUE]

Metrics == [processed: Nat, transmitted: Nat, blocked: Nat, burned: Nat,
            active: Nat]

Outcomes == {"new", "pending", "done", "fallback", "error"}

DataTypeOK ==
  /\ HsmTypeOK
  /\ StoreTypeOK
  /\ sessionKeys \in [Sessions -> Nat]

SessionTypeOK ==
  /\ activeSessions \subseteq Sessions
  /\ keyHandle \in [Sessions -> Nat]
  /\ fallbackMode \in [Sessions -> BOOLEAN]
  /\ evaluators \in [Sessions -> Manifests \cup {None}]
  /\ revocations \in [Sessions -> SUBSET Stakeholders]

LogTypeOK == auditLog \in [Sessions -> Seq(LogEntry)]

CallTypeOK ==
  /\ pc \in [Threads -> Labels]
  /\ call \in [Threads -> Call]
  /\ \A t \in Threads :
       /\ pc[t] # "idle" => call[t].sess \in Sessions
       /\ pc[t] \in StartLabels => call[t].sess \in issued
       /\ pc[t] \in RecordLabels => call[t].rec \in Records
       /\ pc[t] = "route" => call[t].todo \subseteq DOMAIN call[t].views

EnvTypeOK ==
  /\ issued \subseteq Sessions
  /\ known \subseteq issued
  /\ outcome \in [Records -> Outcomes]
  /\ results \in [Records -> Seq(Stakeholders \cup {None})]
  /\ budget \in [{"end", "revoke", "fallback", "fault"} -> Nat]

TypeOK ==
  /\ DataTypeOK /\ SessionTypeOK /\ metrics \in Metrics /\ LogTypeOK
  /\ CallTypeOK /\ EnvTypeOK

Init ==
  /\ HsmInit
  /\ StoreInit
  /\ sessionKeys = [s \in Sessions |-> NoHandle]
  /\ activeSessions = {}
  /\ keyHandle = [s \in Sessions |-> NoHandle]
  /\ fallbackMode = [s \in Sessions |-> FALSE]
  /\ evaluators = [s \in Sessions |-> None]
  /\ revocations = [s \in Sessions |-> {}]
  /\ metrics = [processed |-> 0, transmitted |-> 0, blocked |-> 0,
                burned |-> 0, active |-> 0]
  /\ auditLog = [s \in Sessions |-> <<>>]
  /\ pc = [t \in Threads |-> "idle"]
  /\ call = [t \in Threads |-> NoCall]
  /\ issued = {}
  /\ known = {}
  /\ outcome = [r \in Records |-> "new"]
  /\ results = [r \in Records |-> <<>>]
  /\ budget = Budget

-----------------------------------------------------------------------------
At(t, label) == pc[t] = label
Goto(t, label) == pc' = [pc EXCEPT ![t] = label]

(* The call returns, with Ok or with Err: its locals are dropped. *)
Return(t) ==
  /\ pc' = [pc EXCEPT ![t] = "idle"]
  /\ call' = [call EXCEPT ![t] = NoCall]

(* A thread enters a method with the arguments and locals in c. *)
Enter(t, c, label) ==
  /\ call' = [call EXCEPT ![t] = c]
  /\ Goto(t, label)

(* log_event: one more row for the session of the call. *)
LogEvent(t, e) == auditLog' = [auditLog EXCEPT ![call[t].sess] = Append(@, e)]

(* A section that only writes an audit row. *)
LogThen(t, from, e, to) ==
  /\ At(t, from)
  /\ LogEvent(t, e)
  /\ Goto(t, to)
  /\ UNCHANGED <<dataVars, sessionVars, metrics, call, envVars>>

Spend(kind) ==
  /\ budget[kind] > 0
  /\ budget' = [budget EXCEPT ![kind] = @ - 1]

SetOutcome(r, o) == outcome' = [outcome EXCEPT ![r] = o]

-----------------------------------------------------------------------------
(* start_session *)

StartGenerateKey(t) ==
  /\ At(t, "idle")
  /\ \E s \in Sessions \ issued, m \in Manifests :
       /\ issued' = issued \cup {s}
       /\ Enter(t, [NoCall EXCEPT !.sess = s, !.key = nextHandle,
                                  !.manifest = m], "register")
  /\ GenerateKey
  /\ UNCHANGED <<store, sessionKeys, sessionVars, metrics, auditLog, known,
                 outcome, results, budget>>

StartRegister(t) ==
  /\ At(t, "register")
  /\ sessionKeys' = [sessionKeys EXCEPT ![call[t].sess] = call[t].key]
  /\ Goto(t, "insertSession")
  /\ UNCHANGED <<hsmVars, store, sessionVars, metrics, auditLog, call, envVars>>

StartInsertSession(t) ==
  /\ At(t, "insertSession")
  /\ activeSessions' = activeSessions \cup {call[t].sess}
  /\ keyHandle' = [keyHandle EXCEPT ![call[t].sess] = call[t].key]
  /\ fallbackMode' = [fallbackMode EXCEPT ![call[t].sess] = FALSE]
  /\ Goto(t, "insertEvaluator")
  /\ UNCHANGED <<dataVars, evaluators, revocations, metrics, auditLog, call,
                 envVars>>

StartInsertEvaluator(t) ==
  /\ At(t, "insertEvaluator")
  /\ evaluators' = [evaluators EXCEPT ![call[t].sess] = call[t].manifest]
  /\ revocations' = [revocations EXCEPT ![call[t].sess] = {}]
  /\ Goto(t, "countStart")
  /\ UNCHANGED <<dataVars, activeSessions, keyHandle, fallbackMode, metrics,
                 auditLog, call, envVars>>

StartCount(t) ==
  /\ At(t, "countStart")
  /\ metrics' = [metrics EXCEPT !.active = @ + 1]
  /\ Goto(t, "logSessionStart")
  /\ UNCHANGED <<dataVars, sessionVars, auditLog, call, envVars>>

StartLogSession(t) ==
  LogThen(t, "logSessionStart", Entry("SessionStart"), "logManifestLoaded")

(* The id reaches a caller only here, when the last audit row is written. *)
StartLogManifest(t) ==
  /\ At(t, "logManifestLoaded")
  /\ LogEvent(t, Entry("ManifestLoaded"))
  /\ known' = known \cup {call[t].sess}
  /\ Return(t)
  /\ UNCHANGED <<dataVars, sessionVars, metrics, issued, outcome, results,
                 budget>>

-----------------------------------------------------------------------------
(* process_record *)

(* The first section: an unknown session is an error, and in fallback mode *)
(* the call returns before it stores, logs or counts anything.             *)
RecordLookup(t, s, r) ==
  /\ At(t, "idle")
  /\ s \in known /\ outcome[r] = "new"
  /\ \/ /\ s \notin activeSessions
        /\ SetOutcome(r, "error")
        /\ UNCHANGED <<pc, call>>
     \/ /\ s \in activeSessions /\ fallbackMode[s]
        /\ SetOutcome(r, "fallback")
        /\ UNCHANGED <<pc, call>>
     \/ /\ s \in activeSessions /\ ~fallbackMode[s]
        /\ SetOutcome(r, "pending")
        /\ Enter(t, [NoCall EXCEPT !.sess = s, !.key = keyHandle[s],
                                   !.rec = r], "readKey")
  /\ UNCHANGED <<dataVars, sessionVars, metrics, auditLog, issued, known,
                 results, budget>>

RecordFails(t) ==
  /\ SetOutcome(call[t].rec, "error")
  /\ Return(t)
  /\ UNCHANGED <<dataVars, sessionVars, metrics, auditLog, issued, known,
                 results, budget>>

(* encrypt() copies the key under the HSM's lock and seals after releasing *)
(* it; only the copy needs the key to be alive.                            *)
RecordReadKey(t) ==
  /\ At(t, "readKey")
  /\ IsKeyActive(call[t].key)
  /\ Goto(t, "storeBlob")
  /\ UNCHANGED <<dataVars, sessionVars, metrics, auditLog, call, envVars>>

RecordKeyDestroyed(t) ==
  /\ At(t, "readKey")
  /\ ~IsKeyActive(call[t].key)
  /\ RecordFails(t)

RecordStoreBlob(t) ==
  /\ At(t, "storeBlob")
  /\ StoreBlob(call[t].sess, call[t].rec, call[t].key)
  /\ Goto(t, "logGenerated")
  /\ UNCHANGED <<hsmVars, sessionKeys, sessionVars, metrics, auditLog, call,
                 envVars>>

RecordLogGenerated(t) ==
  LogThen(t, "logGenerated",
          [Entry("DataGenerated") EXCEPT !.rec = call[t].rec], "evaluate")

(* Mutant: the evaluator does not consult the revocations. *)
EvaluateRevoked(s, r) ==
  [k \in 1 .. Len(evaluators[s]) |->
     LET e == evaluators[s][k] IN IF TypeOf[r] \in e.types THEN e.who ELSE None]

(* The list evaluate() returns, over the entries of the manifest in their  *)
(* order: whose view of the record an entry gives, None where it gives     *)
(* none because it does not declare the type or its stakeholder is revoked. *)
Evaluate(s, r) ==
  [k \in 1 .. Len(evaluators[s]) |->
     LET e == evaluators[s][k]
     IN IF e.who \notin revocations[s] /\ TypeOf[r] \in e.types
        THEN e.who ELSE None]

(* The entries that give somebody a view of the record. *)
Served(views) == {k \in DOMAIN views : views[k] # None}

RecordEvaluate(t) ==
  LET r == call[t].rec
      views == Evaluate(call[t].sess, r)
  IN /\ At(t, "evaluate")
     /\ evaluators[call[t].sess] # None
     /\ results' = [results EXCEPT ![r] = views]
     /\ Enter(t, [call[t] EXCEPT !.views = views, !.todo = Served(views)],
              IF Served(views) = {} THEN "logUndeclared" ELSE "route")
     /\ UNCHANGED <<dataVars, sessionVars, metrics, auditLog, issued, known,
                    outcome, budget>>

RecordNoEvaluator(t) ==
  /\ At(t, "evaluate")
  /\ evaluators[call[t].sess] = None
  /\ RecordFails(t)

RecordLogUndeclared(t) ==
  /\ At(t, "logUndeclared")
  /\ LogEvent(t, [Entry("DataBlocked") EXCEPT !.rec = call[t].rec])
  /\ Enter(t, [call[t] EXCEPT !.blocked = @ + 1], "countRecord")
  /\ UNCHANGED <<dataVars, sessionVars, metrics, envVars>>

(* Mutant: a view nobody can be sent is passed over without an audit row. *)
RecordRouteKnown(t) ==
  /\ At(t, "route")
  /\ \E k \in call[t].todo :
       LET h == call[t].views[k]
           sends == h \in Endpoints
           rest == call[t].todo \ {k}
       IN /\ \A j \in rest : k < j
          /\ IF sends
             THEN LogEvent(t, [Entry("DataTransmitted") EXCEPT !.rec = call[t].rec,
                                                              !.entry = k, !.who = h])
             ELSE UNCHANGED auditLog
          /\ Enter(t, [call[t] EXCEPT !.todo = rest,
                                     !.sent = IF sends THEN @ + 1 ELSE @,
                                     !.blocked = IF sends THEN @ ELSE @ + 1],
                   IF rest = {} THEN "countRecord" ELSE "route")
  /\ UNCHANGED <<dataVars, sessionVars, metrics, envVars>>

(* One turn of the loop over the evaluator's results: the first of those   *)
(* that are left.                                                          *)
RecordRoute(t) ==
  /\ At(t, "route")
  /\ \E k \in call[t].todo :
       LET h == call[t].views[k]
           sends == h \in Endpoints
           rest == call[t].todo \ {k}
           event == IF sends THEN "DataTransmitted" ELSE "DataBlocked"
       IN /\ \A j \in rest : k < j
          /\ LogEvent(t, [Entry(event) EXCEPT !.rec = call[t].rec, !.entry = k,
                                              !.who = h])
          /\ Enter(t, [call[t] EXCEPT !.todo = rest,
                                     !.sent = IF sends THEN @ + 1 ELSE @,
                                     !.blocked = IF sends THEN @ ELSE @ + 1],
                   IF rest = {} THEN "countRecord" ELSE "route")
  /\ UNCHANGED <<dataVars, sessionVars, metrics, envVars>>

(* Mutant: blocked records are not added to the metrics. *)
RecordCountSentOnly(t) ==
  /\ At(t, "countRecord")
  /\ metrics' = [metrics EXCEPT !.processed = @ + 1,
                                !.transmitted = @ + call[t].sent]
  /\ SetOutcome(call[t].rec, "done")
  /\ Return(t)
  /\ UNCHANGED <<dataVars, sessionVars, auditLog, issued, known, results,
                 budget>>

RecordCount(t) ==
  /\ At(t, "countRecord")
  /\ metrics' = [metrics EXCEPT !.processed = @ + 1,
                                !.transmitted = @ + call[t].sent,
                                !.blocked = @ + call[t].blocked]
  /\ SetOutcome(call[t].rec, "done")
  /\ Return(t)
  /\ UNCHANGED <<dataVars, sessionVars, auditLog, issued, known, results,
                 budget>>

-----------------------------------------------------------------------------
(* end_session, with the six layers of BurnEngine::burn_session *)

(* Mutant: end_session takes the session out of the table as it looks it   *)
(* up, and the burn comes after.                                           *)
EndLookupTakes(t, s) ==
  /\ At(t, "idle")
  /\ s \in known
  /\ Spend("end")
  /\ \/ s \notin activeSessions /\ UNCHANGED <<pc, call>>
     \/ /\ s \in activeSessions
        /\ Enter(t, [NoCall EXCEPT !.sess = s, !.key = keyHandle[s]],
                 "logBurnStarted")
  /\ activeSessions' = activeSessions \ {s}
  /\ UNCHANGED <<dataVars, keyHandle, fallbackMode, evaluators, revocations,
                 metrics, auditLog, issued, known, outcome, results>>

EndLookup(t, s) ==
  /\ At(t, "idle")
  /\ s \in known
  /\ Spend("end")
  /\ \/ s \notin activeSessions /\ UNCHANGED <<pc, call>>
     \/ /\ s \in activeSessions
        /\ Enter(t, [NoCall EXCEPT !.sess = s, !.key = keyHandle[s]],
                 "logBurnStarted")
  /\ UNCHANGED <<dataVars, sessionVars, metrics, auditLog, issued, known,
                 outcome, results>>

(* Mutant: the burn starts without being logged. *)
EndBurnUnlogged(t) ==
  /\ At(t, "logBurnStarted")
  /\ Goto(t, "layer1")
  /\ UNCHANGED <<dataVars, sessionVars, metrics, auditLog, call, envVars>>

EndLogBurnStarted(t) ==
  LogThen(t, "logBurnStarted", Entry("BurnStarted"), "layer1")

(* Layers 1, 3, 4 and the second half of 5 are one operation on the store. *)
BurnStore(t, from, to) ==
  /\ At(t, from)
  /\ Goto(t, to)
  /\ UNCHANGED <<hsmVars, sessionKeys, sessionVars, metrics, auditLog, call,
                 envVars>>

(* Mutant: the burn skips its key layer. *)
BurnLogicalOnly(t) == BurnStore(t, "layer1", "layer3") /\ MarkDeleted(call[t].sess)

BurnLogical(t) == BurnStore(t, "layer1", "layer2") /\ MarkDeleted(call[t].sess)

(* Mutant: an error of destroy_key does not fail the layer. *)
BurnDestroyKeyUnchecked(t) ==
  /\ At(t, "layer2")
  /\ DestroyKey(call[t].key)
  /\ Goto(t, "layer3")
  /\ UNCHANGED <<store, sessionKeys, sessionVars, metrics, auditLog, call, envVars>>

(* The layer fails when the key is not there to destroy; the burn goes on. *)
BurnDestroyKey(t) ==
  /\ At(t, "layer2")
  /\ DestroyKey(call[t].key)
  /\ Enter(t, [call[t] EXCEPT !.ok = IsKeyActive(call[t].key)], "layer3")
  /\ UNCHANGED <<store, sessionKeys, sessionVars, metrics, auditLog, envVars>>

BurnOverwrite(t) ==
  BurnStore(t, "layer3", "layer4") /\ OverwriteWithRandom(call[t].sess)

BurnZero(t) == BurnStore(t, "layer4", "layer5keys") /\ ZeroMemory(call[t].sess)

BurnForgetKey(t) ==
  /\ At(t, "layer5keys")
  /\ sessionKeys' = [sessionKeys EXCEPT ![call[t].sess] = NoHandle]
  /\ Goto(t, "layer5data")
  /\ UNCHANGED <<hsmVars, store, sessionVars, metrics, auditLog, call, envVars>>

BurnForgetData(t) ==
  BurnStore(t, "layer5data", "layer6hsm") /\ RemoveSession(call[t].sess)

(* Layer 6 takes three locks one after the other; it fails when an earlier *)
(* layer failed or one of its own checks does.                             *)
BurnVerify(t, from, passed, to) ==
  /\ At(t, from)
  /\ Enter(t, [call[t] EXCEPT !.ok = @ /\ passed], to)
  /\ UNCHANGED <<dataVars, sessionVars, metrics, auditLog, envVars>>

BurnVerifyHsm(t) ==
  BurnVerify(t, "layer6hsm", ~IsKeyActive(call[t].key), "layer6store")

BurnVerifyStore(t) ==
  BurnVerify(t, "layer6store", ~HasSession(call[t].sess), "layer6keys")

BurnVerifyKeys(t) ==
  BurnVerify(t, "layer6keys", sessionKeys[call[t].sess] = NoHandle,
             "logBurnCompleted")

EndLogBurnCompleted(t) ==
  LogThen(t, "logBurnCompleted",
          [Entry("BurnCompleted") EXCEPT !.ok = call[t].ok], "logSessionEnd")

EndLogSessionEnd(t) ==
  LogThen(t, "logSessionEnd",
          [Entry("SessionEnd") EXCEPT !.ok = call[t].ok], "removeSession")

EndRemoveSession(t) ==
  /\ At(t, "removeSession")
  /\ activeSessions' = activeSessions \ {call[t].sess}
  /\ Goto(t, "removeEvaluator")
  /\ UNCHANGED <<dataVars, keyHandle, fallbackMode, evaluators, revocations,
                 metrics, auditLog, call, envVars>>

EndRemoveEvaluator(t) ==
  /\ At(t, "removeEvaluator")
  /\ evaluators' = [evaluators EXCEPT ![call[t].sess] = None]
  /\ Goto(t, "countEnd")
  /\ UNCHANGED <<dataVars, activeSessions, keyHandle, fallbackMode,
                 revocations, metrics, auditLog, call, envVars>>

(* Mutant: the gauge is decremented without saturation. *)
EndCountBelowZero(t) ==
  /\ At(t, "countEnd")
  /\ metrics' = [metrics EXCEPT !.active = @ - 1, !.burned = @ + 1]
  /\ Return(t)
  /\ UNCHANGED <<dataVars, sessionVars, auditLog, envVars>>

EndCount(t) ==
  /\ At(t, "countEnd")
  /\ metrics' = [metrics EXCEPT !.active = IF @ > 0 THEN @ - 1 ELSE 0,
                                !.burned = @ + 1]
  /\ Return(t)
  /\ UNCHANGED <<dataVars, sessionVars, auditLog, envVars>>

-----------------------------------------------------------------------------
(* revoke_consent and enter_fallback_mode; both return an error for a      *)
(* session that is not active, which changes nothing.                      *)

RevokeLookup(t, s, h) ==
  /\ At(t, "idle")
  /\ s \in known \cap activeSessions
  /\ Spend("revoke")
  /\ Enter(t, [NoCall EXCEPT !.sess = s, !.who = h], "revoke")
  /\ UNCHANGED <<dataVars, sessionVars, metrics, auditLog, issued, known,
                 outcome, results>>

CanRevoke(s, h) ==
  /\ evaluators[s] # None
  /\ \E k \in DOMAIN evaluators[s] : evaluators[s][k].who = h

Revoke(t) ==
  LET s == call[t].sess
      h == call[t].who
  IN /\ At(t, "revoke")
     /\ \/ /\ CanRevoke(s, h)
           /\ revocations' = [revocations EXCEPT ![s] = @ \cup {h}]
           /\ Enter(t, call[t], "logRevoked")
        \/ /\ ~CanRevoke(s, h)
           /\ Return(t)
           /\ UNCHANGED revocations
     /\ UNCHANGED <<dataVars, activeSessions, keyHandle, fallbackMode,
                    evaluators, metrics, auditLog, envVars>>

RevokeLog(t) ==
  /\ At(t, "logRevoked")
  /\ LogEvent(t, [Entry("ConsentRevoked") EXCEPT !.who = call[t].who])
  /\ Return(t)
  /\ UNCHANGED <<dataVars, sessionVars, metrics, envVars>>

FallbackEnter(t, s) ==
  /\ At(t, "idle")
  /\ s \in known \cap activeSessions
  /\ Spend("fallback")
  /\ fallbackMode' = [fallbackMode EXCEPT ![s] = TRUE]
  /\ Enter(t, [NoCall EXCEPT !.sess = s], "logFallback")
  /\ UNCHANGED <<dataVars, activeSessions, keyHandle, evaluators, revocations,
                 metrics, auditLog, issued, known, outcome, results>>

FallbackLog(t) ==
  /\ At(t, "logFallback")
  /\ LogEvent(t, Entry("HsmFallback"))
  /\ Return(t)
  /\ UNCHANGED <<dataVars, sessionVars, metrics, envVars>>

-----------------------------------------------------------------------------
(* The insert of an audit row, or the random generator inside encrypt(),   *)
(* fails: the ? operator returns the error and what was done stays done.   *)
CallFails(t) ==
  /\ pc[t] \in LogLabels \cup {"readKey"}
  /\ Spend("fault")
  /\ outcome' = [r \in Records |->
                   IF r = call[t].rec THEN "error" ELSE outcome[r]]
  /\ Return(t)
  /\ UNCHANGED <<dataVars, sessionVars, metrics, auditLog, issued, known,
                 results>>

(* Calls, made by the environment at will. *)
Begin(t) ==
  \/ StartGenerateKey(t)
  \/ \E s \in Sessions :
       \/ \E r \in Records : RecordLookup(t, s, r)
       \/ \E h \in Stakeholders : RevokeLookup(t, s, h)
       \/ EndLookup(t, s)
       \/ FallbackEnter(t, s)

StartStep(t) ==
  \/ StartRegister(t) \/ StartInsertSession(t) \/ StartInsertEvaluator(t)
  \/ StartCount(t) \/ StartLogSession(t) \/ StartLogManifest(t)

RecordStep(t) ==
  \/ RecordReadKey(t) \/ RecordKeyDestroyed(t) \/ RecordStoreBlob(t)
  \/ RecordLogGenerated(t) \/ RecordEvaluate(t) \/ RecordNoEvaluator(t)
  \/ RecordLogUndeclared(t) \/ RecordRoute(t) \/ RecordCount(t)

EndStep(t) ==
  \/ EndLogBurnStarted(t) \/ BurnLogical(t) \/ BurnDestroyKey(t)
  \/ BurnOverwrite(t) \/ BurnZero(t) \/ BurnForgetKey(t) \/ BurnForgetData(t)
  \/ BurnVerifyHsm(t) \/ BurnVerifyStore(t) \/ BurnVerifyKeys(t)
  \/ EndLogBurnCompleted(t) \/ EndLogSessionEnd(t)
  \/ EndRemoveSession(t) \/ EndRemoveEvaluator(t) \/ EndCount(t)

(* The steps a thread takes inside a call. *)
Continue(t) ==
  \/ StartStep(t) \/ RecordStep(t) \/ EndStep(t)
  \/ Revoke(t) \/ RevokeLog(t) \/ FallbackLog(t)

Next == \E t \in Threads : Begin(t) \/ Continue(t) \/ CallFails(t)

Spec == Init /\ [][Next]_vars

(* A call that has begun is carried on; nobody is obliged to make one. *)
FairSpec == Spec /\ \A t \in Threads : WF_vars(Continue(t))
=============================================================================
