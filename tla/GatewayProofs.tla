---------------------------- MODULE GatewayProofs ----------------------------
(***************************************************************************)
(* Theorems about the gateway, for any number of threads, sessions,        *)
(* records, stakeholders and manifests, and any budget of calls: types,    *)
(* what keeps an ended session sealed, and what a burn promises.           *)
(***************************************************************************)
EXTENDS GatewayProperties, FiniteSetTheorems, TLAPS

-----------------------------------------------------------------------------
(* Type correctness.  The five parts of TypeOK are preserved one by one.   *)

(* A freshly created gateway is well typed.                                *)
LEMMA InitTypeOK == Init => TypeOK
<1> SUFFICES ASSUME Init PROVE TypeOK
  OBVIOUS
<1> USE DEF Init, HsmInit, StoreInit
<1>1. DataTypeOK
  BY DEF DataTypeOK, HsmTypeOK, StoreTypeOK, NoHandle
<1>2. SessionTypeOK
  BY DEF SessionTypeOK, NoHandle
<1>3. metrics \in Metrics
  BY DEF Metrics
<1>4. CallTypeOK
  BY DEF CallTypeOK, NoCall, Call, NoHandle, Labels, StartLabels, RecordLabels
<1>5. LogTypeOK
  BY DEF LogTypeOK
<1>6. EnvTypeOK
  BY GatewayAssumption DEF EnvTypeOK, Outcomes
<1> QED
  BY <1>1, <1>2, <1>3, <1>4, <1>5, <1>6 DEF TypeOK

(* The empty call of a thread outside the gateway is a call.               *)
LEMMA NoCallType == NoCall \in Call
BY DEF NoCall, Call, NoHandle

(* Entering a step of a method with well-typed locals keeps them well typed. *)
LEMMA EnterTypeOK ==
  ASSUME CallTypeOK, NEW t \in Threads, NEW c \in Call, NEW label \in Labels,
         Enter(t, c, label), issued \subseteq issued',
         label # "idle" => c.sess \in Sessions,
         label \in StartLabels => c.sess \in issued',
         label \in RecordLabels => c.rec \in Records,
         label = "route" => c.todo \subseteq DOMAIN c.views
  PROVE  CallTypeOK'
BY DEF CallTypeOK, Enter, Goto

(* Going on to another step of the same method keeps the locals well typed. *)
LEMMA GotoTypeOK ==
  ASSUME CallTypeOK, NEW t \in Threads, NEW label \in Labels,
         Goto(t, label), UNCHANGED call, issued \subseteq issued',
         label # "idle" => call[t].sess \in Sessions,
         label \in StartLabels => call[t].sess \in issued',
         label \in RecordLabels => call[t].rec \in Records, label # "route"
  PROVE  CallTypeOK'
BY DEF CallTypeOK, Goto

(* Returning to the caller clears the locals.                              *)
LEMMA ReturnTypeOK ==
  ASSUME CallTypeOK, NEW t \in Threads, Return(t), issued \subseteq issued'
  PROVE  CallTypeOK'
BY NoCallType DEF CallTypeOK, Return, Labels, StartLabels, RecordLabels

(* Every step of start_session keeps the locals well typed.                *)
LEMMA StartCallTypeOK ==
  ASSUME TypeOK, NEW t \in Threads, StartGenerateKey(t) \/ StartStep(t)
  PROVE  CallTypeOK'
<1> USE DEF TypeOK, CallTypeOK, At, Labels, StartLabels, RecordLabels, envVars
<1>0. CASE StartGenerateKey(t)
  <2> PICK s \in Sessions \ issued, m \in Manifests :
        /\ issued' = issued \cup {s}
        /\ Enter(t, [NoCall EXCEPT !.sess = s, !.key = nextHandle,
                                   !.manifest = m], "register")
    BY <1>0 DEF StartGenerateKey
  <2> DEFINE c == [NoCall EXCEPT !.sess = s, !.key = nextHandle,
                                 !.manifest = m]
  <2>1. c \in Call /\ c.sess = s
    BY NoCallType DEF Call, DataTypeOK, HsmTypeOK
  <2>2. Enter(t, c, "register")
    OBVIOUS
  <2> HIDE DEF c
  <2> QED
    BY <2>1, <2>2, EnterTypeOK
<1>1. CASE StartRegister(t)
  BY <1>1, GotoTypeOK DEF StartRegister
<1>2. CASE StartInsertSession(t)
  BY <1>2, GotoTypeOK DEF StartInsertSession
<1>3. CASE StartInsertEvaluator(t)
  BY <1>3, GotoTypeOK DEF StartInsertEvaluator
<1>4. CASE StartCount(t)
  BY <1>4, GotoTypeOK DEF StartCount
<1>5. CASE StartLogSession(t)
  BY <1>5, GotoTypeOK DEF StartLogSession, LogThen
<1>6. CASE StartLogManifest(t)
  BY <1>6, ReturnTypeOK DEF StartLogManifest
<1> QED
  BY <1>0, <1>1, <1>2, <1>3, <1>4, <1>5, <1>6 DEF StartStep

(* A manifest is a list of entries, and evaluate() answers entry by entry. *)
LEMMA EvaluateType ==
  ASSUME SessionTypeOK, NEW s \in Sessions, NEW r, evaluators[s] # None
  PROVE  /\ Evaluate(s, r) \in Seq(Stakeholders \cup {None})
         /\ DOMAIN Evaluate(s, r) = 1 .. Len(evaluators[s])
         /\ evaluators[s] \in Seq(ManifestEntry)
<1>1. evaluators[s] \in Seq(ManifestEntry)
  BY GatewayAssumption DEF SessionTypeOK
<1>2. ASSUME NEW k \in 1 .. Len(evaluators[s])
      PROVE  evaluators[s][k].who \in Stakeholders
  <2>1. evaluators[s][k] \in ManifestEntry
    BY <1>1
  <2> QED
    BY <2>1 DEF ManifestEntry
<1>3. Len(evaluators[s]) \in Nat
  BY <1>1
<1>4. \A k \in 1 .. Len(evaluators[s]) : Evaluate(s, r)[k] \in Stakeholders \cup {None}
  BY <1>2 DEF Evaluate
<1>5. Evaluate(s, r) = [k \in 1 .. Len(evaluators[s]) |-> Evaluate(s, r)[k]]
  BY DEF Evaluate
<1>6. DOMAIN Evaluate(s, r) = 1 .. Len(evaluators[s])
  BY DEF Evaluate
<1> HIDE DEF Evaluate
<1>7. Evaluate(s, r) \in [1 .. Len(evaluators[s]) -> Stakeholders \cup {None}]
  BY <1>4, <1>5
<1> QED
  BY <1>1, <1>3, <1>6, <1>7

LEMMA ServedType ==
  ASSUME NEW views \in Seq(Stakeholders \cup {None})
  PROVE  /\ Served(views) \subseteq Nat
         /\ \A k \in Served(views) : k # 0 /\ views[k] \in Stakeholders
BY DEF Served

(* Every step of process_record keeps the locals well typed.               *)
LEMMA RecordCallTypeOK ==
  ASSUME TypeOK, NEW t \in Threads,
         \/ \E s \in Sessions, r \in Records : RecordLookup(t, s, r)
         \/ RecordStep(t)
  PROVE  CallTypeOK'
<1> USE DEF TypeOK, CallTypeOK, At, Labels, StartLabels, RecordLabels, envVars
<1>0. CASE \E s \in Sessions, r \in Records : RecordLookup(t, s, r)
  <2>0. PICK s \in Sessions, r \in Records : RecordLookup(t, s, r)
    BY <1>0
  <2> DEFINE c == [NoCall EXCEPT !.sess = s, !.key = keyHandle[s], !.rec = r]
  <2>1. c \in Call /\ c.sess = s /\ c.rec = r
    BY NoCallType DEF Call, SessionTypeOK
  <2>2. UNCHANGED <<pc, call, issued>> \/ Enter(t, c, "readKey")
    BY <2>0 DEF RecordLookup
  <2>3. UNCHANGED issued
    BY <2>0 DEF RecordLookup
  <2> QED
    BY <2>1, <2>2, <2>3, EnterTypeOK
<1>1. CASE RecordReadKey(t)
  BY <1>1, GotoTypeOK DEF RecordReadKey
<1>2. CASE RecordKeyDestroyed(t)
  BY <1>2, ReturnTypeOK DEF RecordKeyDestroyed, RecordFails
<1>3. CASE RecordStoreBlob(t)
  BY <1>3, GotoTypeOK DEF RecordStoreBlob
<1>4. CASE RecordLogGenerated(t)
  BY <1>4, GotoTypeOK DEF RecordLogGenerated, LogThen
<1>5. CASE RecordEvaluate(t)
  <2> DEFINE views == Evaluate(call[t].sess, call[t].rec)
             served == Served(views)
             c == [call[t] EXCEPT !.views = views, !.todo = served]
  <2>1. views \in Seq(Stakeholders \cup {None})
    BY <1>5, EvaluateType DEF RecordEvaluate
  <2>4. served \subseteq Nat /\ served \subseteq DOMAIN views
    <3> HIDE DEF views
    <3> QED
      BY <2>1, ServedType DEF Served
  <2>2. c \in Call /\ c.sess = call[t].sess /\ c.rec = call[t].rec /\ c.todo \subseteq DOMAIN c.views
    <3> HIDE DEF views, served
    <3> QED
      BY <2>1, <2>4 DEF Call
  <2>3. Enter(t, c, IF served = {} THEN "logUndeclared" ELSE "route")
    BY <1>5 DEF RecordEvaluate
  <2> HIDE DEF views, served, c
  <2> QED
    BY <1>5, <2>2, <2>3, EnterTypeOK DEF RecordEvaluate
<1>6. CASE RecordNoEvaluator(t)
  BY <1>6, ReturnTypeOK DEF RecordNoEvaluator, RecordFails
<1>7. CASE RecordLogUndeclared(t)
  <2> DEFINE n == call[t].blocked + 1
             c == [call[t] EXCEPT !.blocked = n]
  <2>0. n \in Nat
    BY DEF Call
  <2>1. c \in Call /\ c.sess = call[t].sess /\ c.rec = call[t].rec
    <3> HIDE DEF n
    <3> QED
      BY <2>0 DEF Call
  <2>2. Enter(t, c, "countRecord")
    BY <1>7 DEF RecordLogUndeclared
  <2> HIDE DEF c
  <2> QED
    BY <1>7, <2>1, <2>2, EnterTypeOK DEF RecordLogUndeclared
<1>8. CASE RecordRoute(t)
  <2> PICK k \in call[t].todo, sends \in BOOLEAN :
        LET rest == call[t].todo \ {k}
        IN Enter(t, [call[t] EXCEPT !.todo = rest,
                                    !.sent = IF sends THEN @ + 1 ELSE @,
                                    !.blocked = IF sends THEN @ ELSE @ + 1],
                 IF rest = {} THEN "countRecord" ELSE "route")
    BY <1>8 DEF RecordRoute
  <2> DEFINE sent == IF sends THEN call[t].sent + 1 ELSE call[t].sent
             blocked == IF sends THEN call[t].blocked
                        ELSE call[t].blocked + 1
             c == [call[t] EXCEPT !.todo = @ \ {k}, !.sent = sent,
                                  !.blocked = blocked]
  <2>0. sent \in Nat /\ blocked \in Nat
    BY DEF Call
  <2>1. c \in Call /\ c.sess = call[t].sess /\ c.rec = call[t].rec
        /\ c.todo \subseteq DOMAIN c.views
    <3>1. call[t].todo \subseteq DOMAIN call[t].views /\ call[t] \in Call
      BY <1>8 DEF RecordRoute
    <3> HIDE DEF sent, blocked
    <3> QED
      BY <2>0, <3>1 DEF Call
  <2>2. PICK label \in {"countRecord", "route"} : Enter(t, c, label)
    OBVIOUS
  <2>3. UNCHANGED issued
    BY <1>8 DEF RecordRoute
  <2>4. call[t].sess \in Sessions /\ call[t].rec \in Records
    BY <1>8 DEF RecordRoute
  <2>5. label \in Labels /\ label # "idle" /\ label \notin StartLabels
    OBVIOUS
  <2> HIDE DEF c
  <2> QED
    BY <2>1, <2>2, <2>3, <2>4, <2>5, EnterTypeOK
<1>9. CASE RecordCount(t)
  BY <1>9, ReturnTypeOK DEF RecordCount
<1> QED
  BY <1>0, <1>1, <1>2, <1>3, <1>4, <1>5, <1>6, <1>7, <1>8, <1>9 DEF RecordStep

(* Every step of end_session keeps the locals well typed.                  *)
LEMMA EndCallTypeOK ==
  ASSUME TypeOK, NEW t \in Threads,
         (\E s \in Sessions : EndLookup(t, s)) \/ EndStep(t)
  PROVE  CallTypeOK'
<1> USE DEF TypeOK, CallTypeOK, At, Labels, StartLabels, RecordLabels,
            EndLabels, envVars
<1>a. CASE \E s \in Sessions : EndLookup(t, s)
  <2>0. PICK s \in Sessions : EndLookup(t, s)
    BY <1>a
  <2> DEFINE c == [NoCall EXCEPT !.sess = s, !.key = keyHandle[s]]
  <2>1. c \in Call /\ c.sess = s
    BY NoCallType DEF Call, SessionTypeOK
  <2>2. UNCHANGED <<pc, call>> \/ Enter(t, c, "logBurnStarted")
    BY <2>0 DEF EndLookup
  <2>3. UNCHANGED issued
    BY <2>0 DEF EndLookup
  <2> HIDE DEF c
  <2> QED
    BY <2>1, <2>2, <2>3, EnterTypeOK
<1>b. ASSUME NEW ok \in BOOLEAN
      PROVE  /\ [call[t] EXCEPT !.ok = ok] \in Call
             /\ [call[t] EXCEPT !.ok = ok].sess = call[t].sess
  BY DEF Call
<1>1. CASE EndLogBurnStarted(t)
  BY <1>1, GotoTypeOK DEF EndLogBurnStarted, LogThen
<1>2. CASE BurnLogical(t)
  BY <1>2, GotoTypeOK DEF BurnLogical, BurnStore
<1>3. CASE BurnDestroyKey(t)
  <2>1. PICK ok \in BOOLEAN : Enter(t, [call[t] EXCEPT !.ok = ok], "layer3")
    BY <1>3 DEF BurnDestroyKey, IsKeyActive
  <2> QED
    BY <1>3, <1>b, <2>1, EnterTypeOK DEF BurnDestroyKey
<1>4. CASE BurnOverwrite(t)
  BY <1>4, GotoTypeOK DEF BurnOverwrite, BurnStore
<1>5. CASE BurnZero(t)
  BY <1>5, GotoTypeOK DEF BurnZero, BurnStore
<1>6. CASE BurnForgetKey(t)
  BY <1>6, GotoTypeOK DEF BurnForgetKey
<1>7. CASE BurnForgetData(t)
  BY <1>7, GotoTypeOK DEF BurnForgetData, BurnStore
<1>c. ASSUME NEW from \in EndLabels, NEW to \in EndLabels,
             NEW passed \in BOOLEAN, BurnVerify(t, from, passed, to)
      PROVE  CallTypeOK'
  <2>1. PICK ok \in BOOLEAN : Enter(t, [call[t] EXCEPT !.ok = ok], to)
    BY <1>c DEF BurnVerify, Call
  <2> DEFINE c == [call[t] EXCEPT !.ok = ok]
  <2>2. c \in Call /\ c.sess = call[t].sess
    BY <1>b
  <2>3. to \in Labels \ {"idle"} /\ to \notin StartLabels \cup RecordLabels
    OBVIOUS
  <2>4. call[t].sess \in Sessions /\ UNCHANGED issued
    BY <1>c DEF BurnVerify
  <2>5. Enter(t, c, to)
    BY <2>1
  <2> HIDE DEF c
  <2> QED
    BY <2>2, <2>3, <2>4, <2>5, EnterTypeOK
<1>8. CASE BurnVerifyHsm(t)
  BY <1>8, <1>c DEF BurnVerifyHsm, IsKeyActive
<1>9. CASE BurnVerifyStore(t)
  BY <1>9, <1>c DEF BurnVerifyStore, HasSession
<1>10. CASE BurnVerifyKeys(t)
  BY <1>10, <1>c DEF BurnVerifyKeys
<1>11. CASE EndLogBurnCompleted(t)
  BY <1>11, GotoTypeOK DEF EndLogBurnCompleted, LogThen
<1>12. CASE EndLogSessionEnd(t)
  BY <1>12, GotoTypeOK DEF EndLogSessionEnd, LogThen
<1>13. CASE EndRemoveSession(t)
  BY <1>13, GotoTypeOK DEF EndRemoveSession
<1>14. CASE EndRemoveEvaluator(t)
  BY <1>14, GotoTypeOK DEF EndRemoveEvaluator
<1>15. CASE EndCount(t)
  BY <1>15, ReturnTypeOK DEF EndCount
<1> QED
  BY <1>a, <1>1, <1>2, <1>3, <1>4, <1>5, <1>6, <1>7, <1>8, <1>9, <1>10,
     <1>11, <1>12, <1>13, <1>14, <1>15 DEF EndStep

(* So do revoke_consent, entering fallback mode and a call that fails.     *)
LEMMA OtherCallTypeOK ==
  ASSUME TypeOK, NEW t \in Threads,
         \/ \E s \in Sessions, h \in Stakeholders : RevokeLookup(t, s, h)
         \/ \E s \in Sessions : FallbackEnter(t, s)
         \/ Revoke(t) \/ RevokeLog(t) \/ FallbackLog(t) \/ CallFails(t)
  PROVE  CallTypeOK'
<1> USE DEF TypeOK, CallTypeOK, At, Labels, StartLabels, RecordLabels,
            OtherLabels, envVars
<1>1. CASE \E s \in Sessions, h \in Stakeholders : RevokeLookup(t, s, h)
  <2>0. PICK s \in Sessions, h \in Stakeholders : RevokeLookup(t, s, h)
    BY <1>1
  <2> DEFINE c == [NoCall EXCEPT !.sess = s, !.who = h]
  <2>1. c \in Call /\ c.sess = s
    BY NoCallType DEF Call
  <2>2. Enter(t, c, "revoke") /\ UNCHANGED issued
    BY <2>0 DEF RevokeLookup
  <2> HIDE DEF c
  <2> QED
    BY <2>1, <2>2, EnterTypeOK
<1>2. CASE Revoke(t)
  <2>1. Enter(t, call[t], "logRevoked") \/ Return(t)
    BY <1>2 DEF Revoke
  <2> QED
    BY <1>2, <2>1, EnterTypeOK, ReturnTypeOK DEF Revoke
<1>3. CASE RevokeLog(t)
  BY <1>3, ReturnTypeOK DEF RevokeLog
<1>4. CASE \E s \in Sessions : FallbackEnter(t, s)
  <2>0. PICK s \in Sessions : FallbackEnter(t, s)
    BY <1>4
  <2> DEFINE c == [NoCall EXCEPT !.sess = s]
  <2>1. c \in Call /\ c.sess = s
    BY NoCallType DEF Call
  <2>2. Enter(t, c, "logFallback") /\ UNCHANGED issued
    BY <2>0 DEF FallbackEnter
  <2> HIDE DEF c
  <2> QED
    BY <2>1, <2>2, EnterTypeOK
<1>5. CASE FallbackLog(t)
  BY <1>5, ReturnTypeOK DEF FallbackLog
<1>6. CASE CallFails(t)
  BY <1>6, ReturnTypeOK DEF CallFails
<1> QED
  BY <1>1, <1>2, <1>3, <1>4, <1>5, <1>6

(* What the steps of each method leave alone. *)

(* A first step changes none of the listed variables, creates a key or an  *)
(* id in start_session only, and touches sessions in fallback mode only.   *)
LEMMA BeginFrame ==
  ASSUME NEW t \in Threads, Begin(t)
  PROVE  /\ UNCHANGED <<store, sessionKeys, metrics, auditLog, activeSessions,
                        keyHandle, known>>
         /\ StartGenerateKey(t) \/ UNCHANGED <<hsmVars, issued>>
         /\ \/ \E s \in Sessions : FallbackEnter(t, s)
            \/ UNCHANGED sessionVars
<1>1. CASE StartGenerateKey(t)
  BY <1>1 DEF StartGenerateKey, sessionVars
<1>2. CASE \E s \in Sessions, r \in Records : RecordLookup(t, s, r)
  BY <1>2 DEF RecordLookup, sessionVars, dataVars, hsmVars
<1>3. CASE \E s \in Sessions, h \in Stakeholders : RevokeLookup(t, s, h)
  BY <1>3 DEF RevokeLookup, sessionVars, dataVars, hsmVars
<1>4. CASE \E s \in Sessions : EndLookup(t, s)
  BY <1>4 DEF EndLookup, sessionVars, dataVars, hsmVars
<1>5. CASE \E s \in Sessions : FallbackEnter(t, s)
  BY <1>5 DEF FallbackEnter, dataVars, hsmVars
<1> QED
  BY <1>1, <1>2, <1>3, <1>4, <1>5 DEF Begin

(* process_record destroys no key and touches no session table.            *)
LEMMA RecordFrame ==
  ASSUME NEW t \in Threads, RecordStep(t)
  PROVE  /\ UNCHANGED <<hsmVars, sessionKeys, sessionVars, issued, known, budget>>
         /\ RecordStoreBlob(t) \/ UNCHANGED store
BY DEF RecordStep, RecordReadKey, RecordKeyDestroyed,
       RecordStoreBlob, RecordLogGenerated, RecordEvaluate, RecordNoEvaluator,
       RecordLogUndeclared, RecordRoute, RecordCount, RecordFails, LogThen,
       hsmVars, dataVars, envVars

(* A later step of start_session registers its key, inserts its session,   *)
(* its evaluator or its manifest, and changes no other data.               *)
LEMMA StartFrame ==
  ASSUME NEW t \in Threads, StartStep(t)
  PROVE  /\ UNCHANGED <<hsmVars, store, issued, outcome, results, budget>>
         /\ StartRegister(t) \/ UNCHANGED sessionKeys
         /\ \/ StartInsertSession(t) \/ StartInsertEvaluator(t)
            \/ UNCHANGED sessionVars
         /\ StartLogManifest(t) \/ UNCHANGED known
BY DEF StartStep, StartRegister, StartInsertSession, StartInsertEvaluator,
       StartCount, StartLogSession, StartLogManifest, LogThen, hsmVars,
       dataVars, sessionVars, envVars

(* A step of end_session leaves ids, outcomes and budget alone, and changes *)
(* a key, the key map, the store or the session table in its own layer only. *)
LEMMA EndFrame ==
  ASSUME NEW t \in Threads, EndStep(t)
  PROVE  /\ UNCHANGED envVars
         /\ BurnDestroyKey(t) \/ UNCHANGED hsmVars
         /\ BurnForgetKey(t) \/ UNCHANGED sessionKeys
         /\ \/ BurnLogical(t) \/ BurnOverwrite(t) \/ BurnZero(t)
            \/ BurnForgetData(t) \/ UNCHANGED store
         /\ EndRemoveSession(t) \/ EndRemoveEvaluator(t) \/ UNCHANGED sessionVars
BY DEF EndStep, EndLogBurnStarted, BurnLogical, BurnDestroyKey, BurnOverwrite,
       BurnZero, BurnForgetKey, BurnForgetData, BurnVerifyHsm,
       BurnVerifyStore, BurnVerifyKeys, EndLogBurnCompleted, EndLogSessionEnd,
       EndRemoveSession, EndRemoveEvaluator, EndCount, BurnStore, BurnVerify,
       LogThen, hsmVars, dataVars, sessionVars, envVars

(* revoke_consent, fallback mode and failing calls leave keys and blobs alone. *)
LEMMA OtherFrame ==
  ASSUME NEW t \in Threads, Revoke(t) \/ RevokeLog(t) \/ FallbackLog(t) \/ CallFails(t)
  PROVE  /\ UNCHANGED <<dataVars, activeSessions, keyHandle, issued, known>>
         /\ Revoke(t) \/ UNCHANGED sessionVars
BY DEF Revoke, RevokeLog, FallbackLog, CallFails, dataVars, sessionVars, envVars

(* The burn operations on the blob store keep its entries well typed.      *)
LEMMA StoreStepType ==
  ASSUME StoreTypeOK, NEW s \in Sessions,
         MarkDeleted(s) \/ OverwriteWithRandom(s) \/ ZeroMemory(s)
           \/ RemoveSession(s)
  PROVE  StoreTypeOK'
<1> DEFINE marked == {[e EXCEPT !.deleted = TRUE] : e \in store[s]}
           noise == {[e EXCEPT !.content = "noise"] : e \in store[s]}
           zeros == {[e EXCEPT !.content = "zeros"] : e \in store[s]}
<1>1. \A e \in DataEntry : /\ [e EXCEPT !.deleted = TRUE] \in DataEntry
                          /\ [e EXCEPT !.content = "noise"] \in DataEntry
                          /\ [e EXCEPT !.content = "zeros"] \in DataEntry
  BY DEF DataEntry, Contents
<1>2. /\ marked \in SUBSET DataEntry
      /\ noise \in SUBSET DataEntry
      /\ zeros \in SUBSET DataEntry
  BY <1>1 DEF StoreTypeOK
<1>3. \E d \in {marked, noise, zeros, {}} : store' = [store EXCEPT ![s] = d]
  BY DEF MarkDeleted, OverwriteWithRandom, ZeroMemory, RemoveSession
<1> HIDE DEF marked, noise, zeros
<1> QED
  BY <1>2, <1>3 DEF StoreTypeOK

(* store() of a freshly sealed blob keeps the store well typed.            *)
LEMMA StoreBlobType ==
  ASSUME StoreTypeOK, NEW s \in Sessions, NEW r \in Records, NEW h \in Nat,
         StoreBlob(s, r, h)
  PROVE  StoreTypeOK'
<1>1. [rec |-> r, key |-> h, content |-> "sealed", deleted |-> FALSE] \in DataEntry
  BY DEF DataEntry, Contents
<1> QED
  BY <1>1 DEF StoreTypeOK, StoreBlob

(* generate_key and destroy_key keep the key table well typed.             *)
LEMMA HsmStepType ==
  ASSUME HsmTypeOK, NEW h, GenerateKey \/ DestroyKey(h)
  PROVE  HsmTypeOK'
BY DEF HsmTypeOK, GenerateKey, DestroyKey, IsKeyActive, KeyStates

(* Every step keeps the keys and the blobs well typed.                     *)
LEMMA NextDataTypeOK ==
  ASSUME TypeOK, NEW t \in Threads, Begin(t) \/ Continue(t) \/ CallFails(t)
  PROVE  DataTypeOK'
<1> USE DEF TypeOK, DataTypeOK
<1>a. ASSUME UNCHANGED dataVars PROVE DataTypeOK'
  BY <1>a DEF dataVars, HsmTypeOK, StoreTypeOK
<1>b. ASSUME UNCHANGED hsmVars PROVE HsmTypeOK'
  BY <1>b DEF hsmVars, HsmTypeOK
<1>c. ASSUME UNCHANGED store PROVE StoreTypeOK'
  BY <1>c DEF StoreTypeOK
<1>d. ~At(t, "idle") => call[t].sess \in Sessions /\ call[t].key \in Nat
  BY DEF CallTypeOK, Call, At
<1>1. CASE StartGenerateKey(t)
  BY <1>1, <1>c, HsmStepType DEF StartGenerateKey
<1>2. CASE StartRegister(t)
  BY <1>2, <1>b, <1>c, <1>d DEF StartRegister, At
<1>3. CASE RecordStoreBlob(t)
  <2>1. call[t].rec \in Records
    BY <1>3 DEF RecordStoreBlob, CallTypeOK, At, RecordLabels
  <2> QED
    BY <1>3, <2>1, <1>b, <1>d, StoreBlobType DEF RecordStoreBlob, At
<1>4. CASE BurnLogical(t) \/ BurnOverwrite(t) \/ BurnZero(t) \/ BurnForgetData(t)
  BY <1>4, <1>b, <1>d, StoreStepType
  DEF BurnLogical, BurnOverwrite, BurnZero, BurnForgetData, BurnStore, At
<1>5. CASE BurnDestroyKey(t)
  BY <1>5, <1>c, HsmStepType DEF BurnDestroyKey
<1>6. CASE BurnForgetKey(t)
  BY <1>6, <1>b, <1>c, <1>d DEF BurnForgetKey, NoHandle
<1>7. CASE UNCHANGED dataVars
  BY <1>7, <1>a
<1> QED
  BY <1>1, <1>2, <1>3, <1>4, <1>5, <1>6, <1>7, BeginFrame, StartFrame,
     RecordFrame, EndFrame, OtherFrame
  DEF Continue, dataVars, hsmVars

(* Every step keeps the session table and the evaluators well typed.       *)
LEMMA NextSessionTypeOK ==
  ASSUME TypeOK, NEW t \in Threads, Begin(t) \/ Continue(t) \/ CallFails(t)
  PROVE  SessionTypeOK'
<1> USE DEF TypeOK, SessionTypeOK
<1>a. ~At(t, "idle") =>
        /\ call[t].sess \in Sessions
        /\ call[t].key \in Nat
        /\ call[t].manifest \in Manifests \cup {None}
  BY DEF CallTypeOK, Call, At
<1>1. CASE StartInsertSession(t)
  BY <1>1, <1>a DEF StartInsertSession, At
<1>2. CASE StartInsertEvaluator(t)
  BY <1>2, <1>a DEF StartInsertEvaluator, At
<1>3. CASE EndRemoveSession(t)
  BY <1>3, <1>a DEF EndRemoveSession, At
<1>4. CASE EndRemoveEvaluator(t)
  BY <1>4, <1>a DEF EndRemoveEvaluator, At
<1>5. CASE Revoke(t)
  <2>1. CanRevoke(call[t].sess, call[t].who) => call[t].who \in Stakeholders
    <3>1. SUFFICES ASSUME CanRevoke(call[t].sess, call[t].who)
                   PROVE  call[t].who \in Stakeholders
      OBVIOUS
    <3>2. call[t].sess \in Sessions /\ evaluators[call[t].sess] # None
      BY <1>5, <1>a, <3>1 DEF Revoke, CanRevoke, At
    <3>3. evaluators[call[t].sess] \in Seq(ManifestEntry)
      BY <3>2, EvaluateType
    <3>4. PICK k \in DOMAIN evaluators[call[t].sess] : evaluators[call[t].sess][k].who = call[t].who
      BY <3>1 DEF CanRevoke
    <3>5. evaluators[call[t].sess][k] \in ManifestEntry
      BY <3>3
    <3> QED
      BY <3>4, <3>5 DEF ManifestEntry
  <2> QED
    BY <1>5, <1>a, <2>1 DEF Revoke, At
<1>6. ASSUME NEW s \in Sessions, FallbackEnter(t, s)
      PROVE  SessionTypeOK'
  BY <1>6 DEF FallbackEnter
<1>7. CASE UNCHANGED sessionVars
  BY <1>7 DEF sessionVars
<1>8. \/ StartInsertSession(t) \/ StartInsertEvaluator(t)
      \/ EndRemoveSession(t) \/ EndRemoveEvaluator(t) \/ Revoke(t)
      \/ \E s \in Sessions : FallbackEnter(t, s)
      \/ UNCHANGED sessionVars
  BY BeginFrame, StartFrame, RecordFrame, EndFrame, OtherFrame DEF Continue
<1> QED
  BY <1>1, <1>2, <1>3, <1>4, <1>5, <1>6, <1>7, <1>8

(* A row built from the locals of a call is an audit entry.                *)
LEMMA EntryType ==
  ASSUME NEW event \in EventTypes, NEW r \in Records \cup {None},
         NEW h \in Stakeholders \cup {None}, NEW k \in Nat, NEW ok \in BOOLEAN
  PROVE  /\ Entry(event) \in LogEntry
         /\ [Entry(event) EXCEPT !.rec = r] \in LogEntry
         /\ [Entry(event) EXCEPT !.who = h] \in LogEntry
         /\ [Entry(event) EXCEPT !.rec = r, !.entry = k, !.who = h] \in LogEntry
         /\ [Entry(event) EXCEPT !.ok = ok] \in LogEntry
BY DEF Entry, LogEntry

(* log_event, which appends a row or fails, keeps the audit log well typed.*)
LEMMA LogEventType ==
  ASSUME TypeOK, NEW t \in Threads, ~At(t, "idle"), NEW e \in LogEntry,
         LogEvent(t, e)
  PROVE  LogTypeOK'
BY DEF TypeOK, CallTypeOK, LogTypeOK, LogEvent, At

(* Every step keeps the audit log well typed.                              *)
LEMMA NextLogTypeOK ==
  ASSUME TypeOK, NEW t \in Threads, Begin(t) \/ Continue(t) \/ CallFails(t)
  PROVE  LogTypeOK'
<1>a. ~At(t, "idle") =>
        /\ call[t].rec \in Records \cup {None}
        /\ call[t].who \in Stakeholders \cup {None}
        /\ call[t].ok \in BOOLEAN
        /\ call[t].todo \subseteq Nat
  BY DEF TypeOK, CallTypeOK, Call
<1>b. UNCHANGED auditLog => LogTypeOK'
  BY DEF TypeOK, LogTypeOK
<1> USE DEF EventTypes
<1>1. CASE Begin(t)
  BY <1>1, <1>b, BeginFrame
<1>2. CASE StartStep(t)
  BY <1>2, <1>b, EntryType, LogEventType
  DEF StartStep, StartRegister, StartInsertSession, StartInsertEvaluator,
      StartCount, StartLogSession, StartLogManifest, LogThen, At
<1>3. CASE RecordStep(t)
  <2>1. CASE RecordLogGenerated(t)
    BY <2>1, <1>a, EntryType, LogEventType DEF RecordLogGenerated, LogThen, At
  <2>2. CASE RecordLogUndeclared(t)
    BY <2>2, <1>a, EntryType, LogEventType DEF RecordLogUndeclared, At
  <2>3. CASE RecordRoute(t)
    <3>1. ~At(t, "idle")
      BY <2>3 DEF RecordRoute, At
    <3>2. PICK k \in call[t].todo, event \in {"DataTransmitted", "DataBlocked"} :
            LogEvent(t, [Entry(event) EXCEPT !.rec = call[t].rec, !.entry = k,
                                             !.who = call[t].views[k]])
      BY <2>3 DEF RecordRoute
    <3> PICK h : h = call[t].views[k]
      OBVIOUS
    <3>3. call[t].views \in Seq(Stakeholders \cup {None}) /\ k \in DOMAIN call[t].views
      BY <2>3 DEF RecordRoute, At, TypeOK, CallTypeOK, Call
    <3>4. h \in Stakeholders \cup {None} /\ k \in Nat
      BY <3>2, <3>3, <1>a
    <3>5. LogEvent(t, [Entry(event) EXCEPT !.rec = call[t].rec, !.entry = k, !.who = h])
      BY <3>2
    <3>6. [Entry(event) EXCEPT !.rec = call[t].rec, !.entry = k, !.who = h] \in LogEntry
      BY <3>1, <3>4, <1>a, EntryType
    <3> QED
      BY <3>1, <3>5, <3>6, LogEventType
  <2> QED
    BY <1>3, <2>1, <2>2, <2>3, <1>b
    DEF RecordStep, RecordReadKey, RecordKeyDestroyed, RecordStoreBlob,
        RecordEvaluate, RecordNoEvaluator, RecordCount, RecordFails
<1>4. CASE EndStep(t)
  BY <1>4, <1>a, <1>b, EntryType, LogEventType
  DEF EndStep, EndLogBurnStarted, BurnLogical, BurnDestroyKey, BurnOverwrite,
      BurnZero, BurnForgetKey, BurnForgetData, BurnVerifyHsm,
      BurnVerifyStore, BurnVerifyKeys, EndLogBurnCompleted, EndLogSessionEnd,
      EndRemoveSession, EndRemoveEvaluator, EndCount, BurnStore, BurnVerify,
      LogThen, At
<1>5. CASE Revoke(t) \/ RevokeLog(t) \/ FallbackLog(t) \/ CallFails(t)
  BY <1>5, <1>a, <1>b, EntryType, LogEventType
  DEF Revoke, RevokeLog, FallbackLog, CallFails, At, LogLabels
<1> QED
  BY <1>1, <1>2, <1>3, <1>4, <1>5 DEF Continue

(* Every step keeps the counters natural numbers.                          *)
LEMMA NextMetricsTypeOK ==
  ASSUME TypeOK, NEW t \in Threads, Begin(t) \/ Continue(t) \/ CallFails(t)
  PROVE  metrics' \in Metrics
<1>a. metrics \in Metrics /\ call[t].sent \in Nat /\ call[t].blocked \in Nat
  BY DEF TypeOK, CallTypeOK, Call
<1>b. ASSUME NEW p \in Nat, NEW x \in Nat, NEW b \in Nat, NEW d \in Nat, NEW a \in Nat
      PROVE  /\ [metrics EXCEPT !.active = a] \in Metrics
             /\ [metrics EXCEPT !.active = a, !.burned = d] \in Metrics
             /\ [metrics EXCEPT !.processed = p, !.transmitted = x,
                               !.blocked = b] \in Metrics
  BY <1>a DEF Metrics
<1>c. /\ metrics.processed \in Nat /\ metrics.transmitted \in Nat
      /\ metrics.blocked \in Nat /\ metrics.burned \in Nat
      /\ metrics.active \in Nat
  BY <1>a DEF Metrics
<1>1. CASE StartCount(t)
  <2>1. metrics.active + 1 \in Nat
    BY <1>c
  <2>2. metrics' = [metrics EXCEPT !.active = metrics.active + 1]
    BY <1>1 DEF StartCount
  <2> QED
    BY <2>1, <2>2, <1>b
<1>2. CASE RecordCount(t)
  <2>1. /\ metrics.processed + 1 \in Nat
        /\ metrics.transmitted + call[t].sent \in Nat
        /\ metrics.blocked + call[t].blocked \in Nat
    BY <1>a, <1>c
  <2> QED
    BY <1>2, <2>1, <1>b DEF RecordCount
<1>3. CASE EndCount(t)
  <2> DEFINE active == IF metrics.active > 0 THEN metrics.active - 1 ELSE 0
  <2>1. active \in Nat /\ metrics.burned + 1 \in Nat
    BY <1>c
  <2>2. metrics' = [metrics EXCEPT !.active = active,
                                   !.burned = metrics.burned + 1]
    BY <1>3 DEF EndCount
  <2> HIDE DEF active
  <2> QED
    BY <2>1, <2>2, <1>b
<1>4. CASE UNCHANGED metrics
  BY <1>4, <1>a
<1>5. StartStep(t) => StartCount(t) \/ UNCHANGED metrics
  BY DEF StartStep, StartRegister, StartInsertSession, StartInsertEvaluator,
         StartLogSession, StartLogManifest, LogThen
<1>6. RecordStep(t) => RecordCount(t) \/ UNCHANGED metrics
  BY DEF RecordStep, RecordReadKey, RecordKeyDestroyed, RecordStoreBlob,
         RecordLogGenerated, RecordEvaluate, RecordNoEvaluator,
         RecordLogUndeclared, RecordRoute, RecordFails, LogThen
<1>7. EndStep(t) => EndCount(t) \/ UNCHANGED metrics
  BY DEF EndStep, EndLogBurnStarted, BurnLogical, BurnDestroyKey,
         BurnOverwrite, BurnZero, BurnForgetKey, BurnForgetData,
         BurnVerifyHsm, BurnVerifyStore, BurnVerifyKeys, EndLogBurnCompleted,
         EndLogSessionEnd, EndRemoveSession, EndRemoveEvaluator, BurnStore,
         BurnVerify, LogThen
<1>8. Revoke(t) \/ RevokeLog(t) \/ FallbackLog(t) \/ CallFails(t)
        => UNCHANGED metrics
  BY DEF Revoke, RevokeLog, FallbackLog, CallFails
<1> QED
  BY <1>1, <1>2, <1>3, <1>4, <1>5, <1>6, <1>7, <1>8, BeginFrame DEF Continue

(* Every step keeps outcomes, issued ids and the budget well typed.        *)
LEMMA NextEnvTypeOK ==
  ASSUME TypeOK, NEW t \in Threads, Begin(t) \/ Continue(t) \/ CallFails(t)
  PROVE  EnvTypeOK'
<1> USE DEF TypeOK, EnvTypeOK
<1>a. ASSUME NEW kind \in {"end", "revoke", "fallback", "fault"}, Spend(kind)
      PROVE  budget' \in [{"end", "revoke", "fallback", "fault"} -> Nat]
  BY <1>a DEF Spend
<1>b. ASSUME NEW r, NEW o \in Outcomes, SetOutcome(r, o)
      PROVE  outcome' \in [Records -> Outcomes]
  BY <1>b DEF SetOutcome
<1> USE DEF Outcomes
<1>1. CASE Begin(t)
  <2>1. CASE StartGenerateKey(t)
    BY <2>1 DEF StartGenerateKey
  <2>2. ASSUME NEW s \in Sessions, NEW r \in Records, RecordLookup(t, s, r)
        PROVE  EnvTypeOK'
    BY <2>2, <1>b DEF RecordLookup
  <2>3. ASSUME NEW s \in Sessions, NEW h \in Stakeholders, RevokeLookup(t, s, h)
        PROVE  EnvTypeOK'
    BY <2>3, <1>a DEF RevokeLookup
  <2>4. ASSUME NEW s \in Sessions, EndLookup(t, s)
        PROVE  EnvTypeOK'
    BY <2>4, <1>a DEF EndLookup
  <2>5. ASSUME NEW s \in Sessions, FallbackEnter(t, s)
        PROVE  EnvTypeOK'
    BY <2>5, <1>a DEF FallbackEnter
  <2> QED
    BY <1>1, <2>1, <2>2, <2>3, <2>4, <2>5 DEF Begin
<1>2. CASE StartStep(t)
  <2>1. CASE StartLogManifest(t)
    BY <2>1 DEF StartLogManifest, CallTypeOK, At, StartLabels
  <2> QED
    BY <1>2, <2>1, StartFrame
<1>3. CASE RecordStep(t)
  <2>1. CASE RecordCount(t) \/ RecordFails(t)
    BY <2>1, <1>b DEF RecordCount, RecordFails
  <2>2. CASE RecordEvaluate(t)
    <3>1. Evaluate(call[t].sess, call[t].rec) \in Seq(Stakeholders \cup {None})
      BY <2>2, EvaluateType DEF RecordEvaluate, CallTypeOK, At, RecordLabels
    <3> HIDE DEF Evaluate
    <3> QED
      BY <2>2, <3>1 DEF RecordEvaluate
  <2> QED
    BY <1>3, <2>1, <2>2
    DEF RecordStep, RecordReadKey, RecordKeyDestroyed, RecordStoreBlob,
        RecordLogGenerated, RecordEvaluate, RecordNoEvaluator,
        RecordLogUndeclared, RecordRoute, LogThen, envVars
<1>4. CASE EndStep(t)
  BY <1>4, EndFrame DEF envVars
<1>5. CASE Revoke(t) \/ RevokeLog(t) \/ FallbackLog(t)
  BY <1>5 DEF Revoke, RevokeLog, FallbackLog, envVars
<1>6. CASE CallFails(t)
  BY <1>6, <1>a DEF CallFails
<1> QED
  BY <1>1, <1>2, <1>3, <1>4, <1>5, <1>6 DEF Continue

(* Every step of every thread preserves type correctness.                  *)
LEMMA NextTypeOK == TypeOK /\ [Next]_vars => TypeOK'
<1> SUFFICES ASSUME TypeOK, [Next]_vars PROVE TypeOK'
  OBVIOUS
<1>1. ASSUME NEW t \in Threads, Begin(t) \/ Continue(t) \/ CallFails(t)
      PROVE  TypeOK'
  <2>1. CallTypeOK'
    BY <1>1, StartCallTypeOK, RecordCallTypeOK, EndCallTypeOK, OtherCallTypeOK
    DEF Begin, Continue
  <2> QED
    BY <1>1, <2>1, NextDataTypeOK, NextSessionTypeOK, NextMetricsTypeOK,
       NextLogTypeOK, NextEnvTypeOK DEF TypeOK
<1>2. CASE UNCHANGED vars
  BY <1>2 DEF vars, dataVars, sessionVars, envVars, TypeOK, DataTypeOK,
    HsmTypeOK, StoreTypeOK, SessionTypeOK, LogTypeOK, CallTypeOK, EnvTypeOK
<1> QED
  BY <1>1, <1>2 DEF Next

(* In every reachable state the gateway's tables, its locals, the log and  *)
(* the counters have the types their Rust declarations give them; a thread *)
(* inside start_session works on an id already drawn, and one inside       *)
(* process_record on a record.                                             *)
THEOREM TypeCorrect == Spec => []TypeOK
BY InitTypeOK, NextTypeOK, PTL DEF Spec

-----------------------------------------------------------------------------
(* The inductive invariant. *)

(* Before the first call there is no session, no key and no blob.          *)
LEMMA InitSealInv == Init => SealInv
BY DEF Init, HsmInit, StoreInit, SealInv, TableInv, StoreInv, CallInv, ThreadInv, Ended,
       NoHandle, RecordLabels, EndLabels, AfterKeyLayer, BeforeInsert

(* A thread moves on inside its call, or its call returns. *)
LEMMA MoveCallInv ==
  ASSUME TypeOK, CallInv, NEW t \in Threads, NEW c \in Call, NEW label \in Labels,
         UNCHANGED <<keys, keyHandle>>, Enter(t, c, label),
         \/ c.sess = call[t].sess /\ c.key = call[t].key
         \/ label \notin RecordLabels \cup EndLabels \cup BeforeInsert,
         label \in RecordLabels \cup EndLabels =>
           pc[t] \in RecordLabels \cup EndLabels,
         label \in AfterKeyLayer => pc[t] \in AfterKeyLayer,
         label \in BeforeInsert => pc[t] \in BeforeInsert
  PROVE  CallInv'
BY DEF TypeOK, CallTypeOK, CallInv, ThreadInv, Enter, Goto, IsKeyActive, AfterKeyLayer

(* A step that keeps keys, handles and the locals of the call keeps CallInv. *)
LEMMA GotoCallInv ==
  ASSUME TypeOK, CallInv, NEW t \in Threads, NEW label \in Labels,
         UNCHANGED <<keys, keyHandle, call>>, Goto(t, label),
         label \in RecordLabels \cup EndLabels =>
           pc[t] \in RecordLabels \cup EndLabels,
         label \in AfterKeyLayer => pc[t] \in AfterKeyLayer,
         label \in BeforeInsert => pc[t] \in BeforeInsert
  PROVE  CallInv'
BY DEF TypeOK, CallTypeOK, CallInv, ThreadInv, Goto, IsKeyActive

(* A thread that returns is bound to no session and no key.                *)
LEMMA ReturnCallInv ==
  ASSUME TypeOK, CallInv, NEW t \in Threads, UNCHANGED <<keys, keyHandle>>,
         Return(t)
  PROVE  CallInv'
BY DEF TypeOK, CallTypeOK, CallInv, ThreadInv, Return, IsKeyActive, RecordLabels,
       EndLabels, AfterKeyLayer, BeforeInsert

(* generate_key adds one live key under a handle never used before.        *)
LEMMA GenerateKeyEffect ==
  ASSUME HsmTypeOK, GenerateKey
  PROVE  /\ nextHandle \in Nat \ {0} /\ nextHandle' = nextHandle + 1
         /\ nextHandle \notin DOMAIN keys
         /\ DOMAIN keys' = DOMAIN keys \cup {nextHandle}
         /\ keys'[nextHandle] = "Active"
         /\ \A h \in DOMAIN keys : keys'[h] = keys[h]
BY DEF HsmTypeOK, GenerateKey

(* A step that leaves keys and session table alone keeps TableInv.         *)
LEMMA TableFrame ==
  ASSUME TableInv, UNCHANGED <<keys, nextHandle, activeSessions, keyHandle, issued>>
  PROVE  TableInv'
BY DEF TableInv, Ended, IsKeyActive

(* A step that leaves the blobs alone keeps StoreInv.                      *)
LEMMA StoreFrame ==
  ASSUME StoreInv, UNCHANGED <<store, keyHandle>>
  PROVE  StoreInv'
BY DEF StoreInv

(* start_session keeps SealInv: its key is new and in nobody else's hands. *)
LEMMA StartSealInv ==
  ASSUME TypeOK, SealInv, NEW t \in Threads, StartGenerateKey(t) \/ StartStep(t)
  PROVE  SealInv'
<1> USE DEF SealInv
<1>0. CASE StartGenerateKey(t)
  <2> PICK s \in Sessions \ issued, m \in Manifests :
        /\ issued' = issued \cup {s}
        /\ Enter(t, [NoCall EXCEPT !.sess = s, !.key = nextHandle,
                                   !.manifest = m], "register")
    BY <1>0 DEF StartGenerateKey
  <2>1. /\ call'[t].sess = s /\ call'[t].key = nextHandle
        /\ \A u \in Threads \ {t} : call'[u] = call[u] /\ pc'[u] = pc[u]
        /\ pc'[t] = "register"
    BY DEF Enter, Goto, NoCall, TypeOK, CallTypeOK
  <2>2. UNCHANGED <<store, activeSessions, keyHandle>>
    BY <1>0 DEF StartGenerateKey, sessionVars
  <2>3. /\ nextHandle \in Nat \ {0} /\ nextHandle' = nextHandle + 1
        /\ nextHandle \notin DOMAIN keys
        /\ DOMAIN keys' = DOMAIN keys \cup {nextHandle}
        /\ keys'[nextHandle] = "Active"
        /\ \A h \in DOMAIN keys : keys'[h] = keys[h]
    BY <1>0, GenerateKeyEffect DEF StartGenerateKey, TypeOK, DataTypeOK
  <2>4. \A x \in Sessions : keyHandle[x] \in Nat /\ keyHandle[x] < nextHandle
    BY DEF TypeOK, SessionTypeOK, TableInv
  <2>5. TableInv'
    BY <2>2, <2>3, <2>4 DEF TableInv, Ended, IsKeyActive
  <2>6. StoreInv'
    BY <2>2 DEF StoreInv
  <2>7. \A u \in Threads : pc[u] # "idle" => call[u].sess \in Sessions
    BY DEF TypeOK, CallTypeOK
  <2>8. \A u \in Threads : pc[u] \in BeforeInsert => call[u].sess # s
    BY DEF TypeOK, CallTypeOK, BeforeInsert, StartLabels
  <2>9. ASSUME NEW u \in Threads \ {t} PROVE ThreadInv(u)'
    <3>1. ThreadInv(u) /\ pc'[u] = pc[u] /\ call'[u] = call[u]
      BY <2>1 DEF CallInv
    <3>2. pc[u] \in RecordLabels \cup EndLabels =>
            call[u].key # nextHandle /\ call[u].sess \in Sessions
      BY <2>4, <2>7, <3>1 DEF ThreadInv, RecordLabels, EndLabels
    <3>3. pc[u] \in BeforeInsert => call[u].key # nextHandle
      BY <2>3, <3>1 DEF ThreadInv, IsKeyActive
    <3> QED
      BY <2>1, <2>2, <2>3, <2>8, <3>1, <3>2, <3>3
      DEF ThreadInv, IsKeyActive, AfterKeyLayer
  <2>10. ThreadInv(t)'
    <3>1. keyHandle[s] = NoHandle
      BY DEF TableInv
    <3>2. \A u \in Threads \ {t} :
            pc[u] \in BeforeInsert => call[u].key # nextHandle
      BY <2>3 DEF CallInv, ThreadInv, IsKeyActive
    <3>3. \A x \in Sessions : keyHandle[x] # nextHandle
      BY <2>3, <2>4
    <3> QED
      BY <2>1, <2>2, <2>3, <2>8, <3>1, <3>2, <3>3
      DEF ThreadInv, IsKeyActive, RecordLabels, EndLabels, AfterKeyLayer,
          BeforeInsert
  <2> QED
    BY <2>5, <2>6, <2>9, <2>10 DEF CallInv
<1>1. CASE StartRegister(t)
  <2>1. UNCHANGED <<keys, nextHandle, store, activeSessions, keyHandle, issued, call>>
    BY <1>1 DEF StartRegister, hsmVars, sessionVars, envVars
  <2>2. CallInv'
    BY <1>1, <2>1, GotoCallInv
    DEF StartRegister, At, BeforeInsert, Labels, StartLabels, RecordLabels,
        EndLabels, AfterKeyLayer
  <2> QED
    BY <2>1, <2>2, TableFrame, StoreFrame
<1>2. CASE StartInsertSession(t)
  <2> DEFINE s == call[t].sess
             k == call[t].key
  <2>1. /\ s \in Sessions /\ s \in issued /\ keyHandle[s] = NoHandle
        /\ IsKeyActive(k) /\ \A x \in Sessions : keyHandle[x] # k
        /\ k # NoHandle /\ k < nextHandle
    BY <1>2 DEF StartInsertSession, At, CallInv, ThreadInv, BeforeInsert, TypeOK,
                CallTypeOK, StartLabels, IsKeyActive, NoHandle, DataTypeOK,
                HsmTypeOK
  <2>2. /\ UNCHANGED <<keys, nextHandle, store, issued, call>>
        /\ activeSessions' = activeSessions \cup {s}
        /\ keyHandle' = [keyHandle EXCEPT ![s] = k]
        /\ pc' = [pc EXCEPT ![t] = "insertEvaluator"]
        /\ pc[t] = "insertSession"
    BY <1>2 DEF StartInsertSession, Goto, At, dataVars, hsmVars, envVars
  <2>3. /\ keyHandle'[s] = k
        /\ \A x \in Sessions \ {s} : keyHandle'[x] = keyHandle[x]
        /\ \A h : IsKeyActive(h)' <=> IsKeyActive(h)
        /\ \A u \in Threads \ {t} : pc'[u] = pc[u]
        /\ pc'[t] = "insertEvaluator"
    BY <2>1, <2>2 DEF TypeOK, SessionTypeOK, CallTypeOK, IsKeyActive
  <2>4. TableInv'
    BY <2>1, <2>2, <2>3 DEF TableInv, Ended
  <2>5. StoreInv'
    BY <2>1, <2>2, <2>3 DEF StoreInv
  <2>6. \A u \in Threads \ {t} :
          /\ pc[u] \in RecordLabels \cup EndLabels => call[u].sess # s
          /\ pc[u] \in BeforeInsert => call[u].sess # s /\ call[u].key # k
          /\ pc[u] # "idle" => call[u].sess \in Sessions
    BY <2>1, <2>2 DEF CallInv, ThreadInv, BeforeInsert, TypeOK, CallTypeOK
  <2>7. CallInv'
    <3> HIDE DEF s, k
    <3> QED
      BY <2>1, <2>2, <2>3, <2>6
      DEF CallInv, ThreadInv, BeforeInsert, RecordLabels, EndLabels, AfterKeyLayer
  <2> QED
    BY <2>4, <2>5, <2>7
<1>3. CASE \/ StartInsertEvaluator(t) \/ StartCount(t) \/ StartLogSession(t)
           \/ StartLogManifest(t)
  <2>1. UNCHANGED <<keys, nextHandle, store, activeSessions, keyHandle, issued>>
    BY <1>3 DEF StartInsertEvaluator, StartCount, StartLogSession,
      StartLogManifest, LogThen, dataVars, hsmVars, sessionVars, envVars
  <2>2. \/ Return(t)
        \/ /\ UNCHANGED call
           /\ \E label \in {"countStart", "logSessionStart", "logManifestLoaded"} :
                Goto(t, label)
    BY <1>3 DEF StartInsertEvaluator, StartCount, StartLogSession,
      StartLogManifest, LogThen
  <2>3. CallInv'
    BY <2>1, <2>2, GotoCallInv, ReturnCallInv
    DEF Labels, StartLabels, RecordLabels, EndLabels, AfterKeyLayer,
        BeforeInsert
  <2> QED
    BY <2>1, <2>3, TableFrame, StoreFrame
<1> QED
  BY <1>0, <1>1, <1>2, <1>3 DEF StartStep

(* process_record keeps SealInv: it seals only under its session's own key. *)
LEMMA RecordSealInv ==
  ASSUME TypeOK, SealInv, NEW t \in Threads,
         \/ \E s \in Sessions, r \in Records : RecordLookup(t, s, r)
         \/ RecordStep(t)
  PROVE  SealInv'
<1> USE DEF SealInv
<1>a. UNCHANGED <<hsmVars, activeSessions, keyHandle, issued>>
  BY RecordFrame DEF RecordLookup, dataVars, hsmVars, sessionVars
<1>b. TableInv'
  BY <1>a, TableFrame DEF hsmVars
<1>0. CASE \E s \in Sessions, r \in Records : RecordLookup(t, s, r)
  <2> PICK s \in Sessions, r \in Records : RecordLookup(t, s, r)
    BY <1>0
  <2>1. StoreInv'
    BY <1>a, StoreFrame DEF RecordLookup, dataVars
  <2>2. CASE UNCHANGED <<pc, call>>
    <3>1. CallInv'
      BY <2>2, <1>a DEF CallInv, ThreadInv, IsKeyActive, hsmVars
    <3> QED
      BY <1>b, <2>1, <3>1
  <2>3. CASE /\ s \in activeSessions
             /\ Enter(t, [NoCall EXCEPT !.sess = s, !.key = keyHandle[s],
                                        !.rec = r], "readKey")
    <3>1. /\ call'[t].sess = s /\ call'[t].key = keyHandle[s]
          /\ \A u \in Threads \ {t} : call'[u] = call[u] /\ pc'[u] = pc[u]
          /\ pc'[t] = "readKey"
      BY <2>3 DEF Enter, Goto, NoCall, TypeOK, CallTypeOK
    <3>2. keyHandle[s] # NoHandle
      BY <2>3 DEF TableInv
    <3>3. ASSUME NEW u \in Threads PROVE ThreadInv(u)'
      BY <1>a, <3>1, <3>2
      DEF CallInv, ThreadInv, IsKeyActive, hsmVars, RecordLabels, EndLabels,
          AfterKeyLayer, BeforeInsert
    <3> QED
      BY <1>b, <2>1, <3>3 DEF CallInv
  <2> QED
    BY <2>2, <2>3 DEF RecordLookup
<1>1. CASE RecordStoreBlob(t)
  <2> DEFINE s == call[t].sess
             k == call[t].key
  <2>1. s \in Sessions /\ k = keyHandle[s] /\ k # NoHandle
    BY <1>1 DEF RecordStoreBlob, At, CallInv, ThreadInv, RecordLabels, TypeOK,
                CallTypeOK
  <2>2. /\ \A x \in Sessions \ {s} : store'[x] = store[x]
        /\ \A e \in store'[s] : e \in store[s] \/ e.key = k
    BY <1>1, <2>1 DEF RecordStoreBlob, StoreBlob, TypeOK, DataTypeOK, StoreTypeOK
  <2>3. StoreInv'
    BY <1>a, <2>1, <2>2 DEF StoreInv
  <2>4. CallInv'
    BY <1>1, <1>a, GotoCallInv
    DEF RecordStoreBlob, At, hsmVars, Labels, RecordLabels, EndLabels,
        AfterKeyLayer, BeforeInsert
  <2> QED
    BY <1>b, <2>3, <2>4
<1>2. CASE RecordStep(t) /\ ~RecordStoreBlob(t)
  <2>1. StoreInv'
    BY <1>a, <1>2, RecordFrame, StoreFrame
  <2>2. \/ Return(t)
        \/ /\ UNCHANGED call
           /\ \E label \in RecordLabels : Goto(t, label)
           /\ pc[t] \in RecordLabels
        \/ /\ \E label \in RecordLabels, c \in Call :
                /\ Enter(t, c, label)
                /\ c.sess = call[t].sess
                /\ c.key = call[t].key
           /\ pc[t] \in RecordLabels
    <3>1. CASE RecordReadKey(t) \/ RecordLogGenerated(t)
      BY <3>1 DEF RecordReadKey, RecordLogGenerated, LogThen, At, RecordLabels
    <3>2. CASE RecordKeyDestroyed(t) \/ RecordNoEvaluator(t) \/ RecordCount(t)
      BY <3>2 DEF RecordKeyDestroyed, RecordNoEvaluator, RecordCount, RecordFails
    <3>3. call[t] \in Call /\ call' \in [Threads -> Call]
      BY RecordCallTypeOK DEF TypeOK, CallTypeOK
    <3>4. CASE RecordEvaluate(t) \/ RecordLogUndeclared(t) \/ RecordRoute(t)
      <4>1. \E label \in RecordLabels : pc' = [pc EXCEPT ![t] = label]
        BY <3>4 DEF RecordEvaluate, RecordLogUndeclared, RecordRoute, Enter,
                    Goto, RecordLabels
      <4>2. /\ call' = [call EXCEPT ![t] = call'[t]]
            /\ call'[t].sess = call[t].sess /\ call'[t].key = call[t].key
        BY <3>4, <3>3, ZenonT(40) DEF RecordEvaluate, RecordLogUndeclared, RecordRoute, Enter,
                    TypeOK, CallTypeOK, Call
      <4>3. pc[t] \in RecordLabels
        BY <3>4 DEF RecordEvaluate, RecordLogUndeclared, RecordRoute, At,
                    RecordLabels
      <4> QED
        BY <3>3, <4>1, <4>2, <4>3 DEF Enter, Goto
    <3> QED
      BY <1>2, <3>1, <3>2, <3>4 DEF RecordStep
  <2>3. CallInv'
    BY <2>2, <1>a, GotoCallInv, ReturnCallInv, MoveCallInv
    DEF hsmVars, Labels, RecordLabels, EndLabels, AfterKeyLayer, BeforeInsert
  <2> QED
    BY <1>b, <2>1, <2>3
<1> QED
  BY <1>0, <1>1, <1>2

(* Overwriting and removing blobs brings no foreign key into the store.    *)
LEMMA StoreStepInv ==
  ASSUME TypeOK, StoreInv, NEW s \in Sessions, UNCHANGED keyHandle,
         MarkDeleted(s) \/ OverwriteWithRandom(s) \/ ZeroMemory(s)
           \/ RemoveSession(s)
  PROVE  StoreInv'
<1>1. \A x \in Sessions \ {s} : store'[x] = store[x]
  BY DEF MarkDeleted, OverwriteWithRandom, ZeroMemory, RemoveSession, TypeOK,
         DataTypeOK, StoreTypeOK
<1>2. ASSUME NEW d \in store'[s] PROVE \E e \in store[s] : d.key = e.key
  <2>1. store[s] \subseteq DataEntry
    BY DEF TypeOK, DataTypeOK, StoreTypeOK
  <2>2. CASE MarkDeleted(s)
    BY <1>2, <2>1, <2>2 DEF MarkDeleted, TypeOK, DataTypeOK, StoreTypeOK, DataEntry
  <2>3. CASE OverwriteWithRandom(s)
    BY <1>2, <2>1, <2>3 DEF OverwriteWithRandom, TypeOK, DataTypeOK, StoreTypeOK,
       DataEntry
  <2>4. CASE ZeroMemory(s)
    BY <1>2, <2>1, <2>4 DEF ZeroMemory, TypeOK, DataTypeOK, StoreTypeOK, DataEntry
  <2>5. CASE RemoveSession(s)
    BY <1>2, <2>5 DEF RemoveSession, TypeOK, DataTypeOK, StoreTypeOK
  <2> QED
    BY <2>2, <2>3, <2>4, <2>5
<1> QED
  BY <1>1, <1>2 DEF StoreInv

(* end_session keeps SealInv: it removes the session after layer 2 only.   *)
LEMMA EndSealInv ==
  ASSUME TypeOK, SealInv, NEW t \in Threads,
         (\E s \in Sessions : EndLookup(t, s)) \/ EndStep(t)
  PROVE  SealInv'
<1> USE DEF SealInv
<1>a. UNCHANGED <<keyHandle, issued>>
  BY EndFrame DEF EndLookup, EndRemoveSession, EndRemoveEvaluator, sessionVars,
                  envVars
<1>b. ~At(t, "idle") => call[t].sess \in Sessions /\ call[t] \in Call
  BY DEF TypeOK, CallTypeOK, At
<1>0. CASE \E s \in Sessions : EndLookup(t, s)
  <2> PICK s \in Sessions : EndLookup(t, s)
    BY <1>0
  <2>1. UNCHANGED <<keys, nextHandle, store, activeSessions>>
    BY DEF EndLookup, dataVars, hsmVars, sessionVars
  <2>2. TableInv' /\ StoreInv'
    BY <1>a, <2>1, TableFrame, StoreFrame
  <2>3. CASE UNCHANGED <<pc, call>>
    <3>1. CallInv'
      BY <2>1, <2>3, <1>a DEF CallInv, ThreadInv, IsKeyActive
    <3> QED
      BY <2>2, <3>1
  <2>4. CASE /\ s \in activeSessions
             /\ Enter(t, [NoCall EXCEPT !.sess = s, !.key = keyHandle[s]],
                      "logBurnStarted")
    <3>1. /\ call'[t].sess = s /\ call'[t].key = keyHandle[s]
          /\ \A u \in Threads \ {t} : call'[u] = call[u] /\ pc'[u] = pc[u]
          /\ pc'[t] = "logBurnStarted"
      BY <2>4 DEF Enter, Goto, NoCall, TypeOK, CallTypeOK
    <3>2. keyHandle[s] # NoHandle
      BY <2>4 DEF TableInv
    <3>3. ASSUME NEW u \in Threads PROVE ThreadInv(u)'
      BY <1>a, <2>1, <3>1, <3>2
      DEF CallInv, ThreadInv, IsKeyActive, RecordLabels, EndLabels,
          AfterKeyLayer, BeforeInsert
    <3> QED
      BY <2>2, <3>3 DEF CallInv
  <2> QED
    BY <2>3, <2>4 DEF EndLookup
<1>1. CASE BurnDestroyKey(t)
  <2> DEFINE k == call[t].key
  <2>1. /\ UNCHANGED <<nextHandle, store, activeSessions>>
        /\ At(t, "layer2") /\ DestroyKey(k)
        /\ Enter(t, [call[t] EXCEPT !.ok = IsKeyActive(k)], "layer3")
    BY <1>1 DEF BurnDestroyKey, DestroyKey, sessionVars
  <2>2. /\ DOMAIN keys' = DOMAIN keys
        /\ \A h \in DOMAIN keys : keys'[h] = IF h = k THEN "Destroyed" ELSE keys[h]
    BY <2>1 DEF DestroyKey, IsKeyActive, TypeOK, DataTypeOK, HsmTypeOK, KeyStates
  <2>3. \A h : IsKeyActive(h) /\ h # k => h \in DOMAIN keys' /\ keys'[h] = "Active"
    BY <2>2 DEF IsKeyActive
  <2>4. TableInv' /\ StoreInv'
    BY <1>a, <2>1, <2>2, StoreFrame DEF TableInv, Ended, IsKeyActive
  <2>5. /\ call'[t].sess = call[t].sess /\ call'[t].key = k
        /\ \A u \in Threads \ {t} : call'[u] = call[u] /\ pc'[u] = pc[u]
        /\ pc'[t] = "layer3" /\ pc[t] = "layer2"
    BY <2>1, <1>b DEF Enter, Goto, TypeOK, CallTypeOK, Call, At
  <2>6. k = keyHandle[call[t].sess] /\ k # NoHandle /\ call[t].sess \in Sessions
    BY <2>5, <1>b DEF CallInv, ThreadInv, EndLabels, At
  <2>7. ThreadInv(t)'
    BY <1>a, <2>2, <2>5, <2>6
    DEF ThreadInv, IsKeyActive, EndLabels, BeforeInsert
  <2>8. ASSUME NEW u \in Threads \ {t} PROVE ThreadInv(u)'
    <3>1. ThreadInv(u)
      BY DEF CallInv
    <3>2. pc[u] \in BeforeInsert => call[u].key # k
      BY <2>6, <3>1 DEF ThreadInv
    <3> QED
      BY <1>a, <2>2, <2>3, <2>5, <3>1, <3>2
      DEF ThreadInv, IsKeyActive, BeforeInsert
  <2> QED
    BY <2>4, <2>7, <2>8 DEF CallInv
<1>2. CASE EndRemoveSession(t)
  <2>1. /\ UNCHANGED <<keys, nextHandle, store, call>>
        /\ activeSessions' = activeSessions \ {call[t].sess}
        /\ pc[t] = "removeSession" /\ Goto(t, "removeEvaluator")
    BY <1>2 DEF EndRemoveSession, At, dataVars, hsmVars
  <2>2. ~IsKeyActive(keyHandle[call[t].sess])
    BY <2>1 DEF CallInv, ThreadInv, AfterKeyLayer, EndLabels
  <2>3. TableInv' /\ StoreInv'
    BY <1>a, <2>1, <2>2, StoreFrame DEF TableInv, Ended, IsKeyActive
  <2>4. CallInv'
    BY <1>a, <2>1, GotoCallInv
    DEF Labels, RecordLabels, EndLabels, AfterKeyLayer, BeforeInsert
  <2> QED
    BY <2>3, <2>4
<1>3. CASE EndStep(t) /\ ~BurnDestroyKey(t) /\ ~EndRemoveSession(t)
  <2>1. UNCHANGED <<keys, nextHandle, activeSessions>>
    BY <1>3, EndFrame DEF EndRemoveEvaluator, hsmVars, sessionVars
  <2>2. TableInv'
    BY <1>a, <2>1, TableFrame
  <2>3. StoreInv'
    BY <1>a, <1>b, <1>3, EndFrame, StoreFrame, StoreStepInv
    DEF BurnLogical, BurnOverwrite, BurnZero, BurnForgetData, BurnStore, At
  <2>4. CallInv'
    <3> USE DEF At, Labels, EndLabels, RecordLabels, AfterKeyLayer, BeforeInsert
    <3>1. CASE \/ EndLogBurnStarted(t) \/ BurnLogical(t) \/ BurnOverwrite(t)
               \/ BurnZero(t) \/ BurnForgetKey(t) \/ BurnForgetData(t)
      BY <3>1, <1>a, <2>1, GotoCallInv
      DEF EndLogBurnStarted, BurnLogical, BurnOverwrite, BurnZero,
          BurnForgetKey, BurnForgetData, BurnStore, LogThen
    <3>2. CASE \/ EndLogBurnCompleted(t) \/ EndLogSessionEnd(t)
               \/ EndRemoveEvaluator(t)
      BY <3>2, <1>a, <2>1, GotoCallInv
      DEF EndLogBurnCompleted, EndLogSessionEnd, EndRemoveEvaluator, LogThen
    <3>3. CASE EndCount(t)
      BY <3>3, <1>a, <2>1, ReturnCallInv DEF EndCount
    <3>4. CASE BurnVerifyHsm(t) \/ BurnVerifyStore(t) \/ BurnVerifyKeys(t)
      <4>1. PICK ok \in BOOLEAN, label \in {"layer6store", "layer6keys", "logBurnCompleted"} :
              Enter(t, [call[t] EXCEPT !.ok = ok], label)
        BY <3>4, <1>b DEF BurnVerifyHsm, BurnVerifyStore, BurnVerifyKeys,
           BurnVerify, Call
      <4> DEFINE c == [call[t] EXCEPT !.ok = ok]
      <4>2. pc[t] \in AfterKeyLayer
        BY <3>4 DEF BurnVerifyHsm, BurnVerifyStore, BurnVerifyKeys, BurnVerify
      <4>3. c \in Call /\ c.sess = call[t].sess /\ c.key = call[t].key
        BY <1>b, <4>2 DEF Call
      <4>4. Enter(t, c, label)
        BY <4>1
      <4> HIDE DEF c
      <4> QED
        BY <1>a, <2>1, <4>2, <4>3, <4>4, MoveCallInv
    <3> QED
      BY <1>3, <3>1, <3>2, <3>3, <3>4 DEF EndStep
  <2> QED
    BY <2>2, <2>3, <2>4
<1> QED
  BY <1>0, <1>1, <1>2, <1>3

(* revoke_consent, fallback mode and failing calls keep SealInv.           *)
LEMMA OtherSealInv ==
  ASSUME TypeOK, SealInv, NEW t \in Threads,
         \/ \E s \in Sessions, h \in Stakeholders : RevokeLookup(t, s, h)
         \/ \E s \in Sessions : FallbackEnter(t, s)
         \/ Revoke(t) \/ RevokeLog(t) \/ FallbackLog(t) \/ CallFails(t)
  PROVE  SealInv'
<1>1. UNCHANGED <<keys, nextHandle, store, activeSessions, keyHandle, issued>>
  BY OtherFrame DEF RevokeLookup, FallbackEnter, dataVars, hsmVars, sessionVars
<1>2. \/ Return(t)
      \/ \E c : \E label \in OtherLabels : Enter(t, c, label)
  BY DEF RevokeLookup, FallbackEnter, Revoke, RevokeLog, FallbackLog, CallFails,
         OtherLabels
<1>3. CallInv'
  <2>1. CASE Return(t)
    BY <1>1, <2>1, ReturnCallInv DEF SealInv
  <2>2. ASSUME NEW c, NEW label \in OtherLabels, Enter(t, c, label)
        PROVE  CallInv'
    <3>1. /\ \A u \in Threads \ {t} : call'[u] = call[u] /\ pc'[u] = pc[u]
          /\ pc'[t] = label
      BY <2>2 DEF Enter, Goto, TypeOK, CallTypeOK
    <3>2. label \notin RecordLabels \cup EndLabels \cup BeforeInsert
      BY DEF OtherLabels, RecordLabels, EndLabels, BeforeInsert
    <3>3. ASSUME NEW u \in Threads PROVE ThreadInv(u)'
      BY <1>1, <3>1, <3>2
      DEF SealInv, CallInv, ThreadInv, IsKeyActive, AfterKeyLayer
    <3> QED
      BY <3>3 DEF CallInv
  <2> QED
    BY <1>2, <2>1, <2>2
<1> QED
  BY <1>1, <1>3, TableFrame, StoreFrame DEF SealInv

(* SealInv is inductive.                                                   *)
LEMMA NextSealInv == TypeOK /\ SealInv /\ [Next]_vars => SealInv'
<1> SUFFICES ASSUME TypeOK, SealInv, [Next]_vars PROVE SealInv'
  OBVIOUS
<1>1. ASSUME NEW t \in Threads, Begin(t) \/ Continue(t) \/ CallFails(t)
      PROVE  SealInv'
  BY <1>1, StartSealInv, RecordSealInv, EndSealInv, OtherSealInv
  DEF Begin, Continue
<1>2. CASE UNCHANGED vars
  BY <1>2 DEF vars, dataVars, sessionVars, envVars, SealInv, TableInv,
    StoreInv, CallInv, ThreadInv, Ended, IsKeyActive
<1> QED
  BY <1>1, <1>2 DEF Next

(* The sealing invariant holds throughout: an ended session's key is dead, *)
(* a thread past the key layer leaves a dead key, the store holds nothing  *)
(* under a foreign key and no key is shared.                               *)
THEOREM SealInvHolds == Spec => []SealInv
<1>1. TypeOK /\ SealInv /\ [Next]_vars => (TypeOK /\ SealInv)'
  BY NextTypeOK, NextSealInv
<1> QED
  BY <1>1, InitTypeOK, InitSealInv, PTL DEF Spec

(* Nothing stored for an ended session can be decrypted, for any number of *)
(* threads still inside process_record or end_session when it ends, and    *)
(* whatever the receipt of its burn reports.                               *)
THEOREM SealedAfterEndHolds == Spec => []SealedAfterEnd
<1>1. SealInv => SealedAfterEnd
  BY DEF SealInv, TableInv, StoreInv, SealedAfterEnd, Readable
<1> QED
  BY <1>1, SealInvHolds, PTL

-----------------------------------------------------------------------------
(* What a burn promises: the gateway implements sealed sessions, a         *)
(* certificate is true and given once, no key dies unannounced, and none   *)
(* is out of reach unless a start failed.  All of it rests on the sealing  *)
(* invariant above.                                                        *)

(* How a step moves its thread, and what it appends to the audit log.      *)

Entered == {"register", "readKey", "logBurnStarted", "revoke", "logFallback"}

Flow ==
  {<<"register", "insertSession">>, <<"insertSession", "insertEvaluator">>,
   <<"insertEvaluator", "countStart">>, <<"countStart", "logSessionStart">>,
   <<"logSessionStart", "logManifestLoaded">>,
   <<"readKey", "storeBlob">>, <<"storeBlob", "logGenerated">>,
   <<"logGenerated", "evaluate">>, <<"evaluate", "logUndeclared">>,
   <<"evaluate", "route">>, <<"route", "route">>,
   <<"logUndeclared", "countRecord">>, <<"route", "countRecord">>,
   <<"logBurnStarted", "layer1">>, <<"layer1", "layer2">>, <<"layer2", "layer3">>,
   <<"layer3", "layer4">>, <<"layer4", "layer5keys">>, <<"layer5keys", "layer5data">>,
   <<"layer5data", "layer6hsm">>, <<"layer6hsm", "layer6store">>,
   <<"layer6store", "layer6keys">>, <<"layer6keys", "logBurnCompleted">>,
   <<"logBurnCompleted", "logSessionEnd">>, <<"logSessionEnd", "removeSession">>,
   <<"removeSession", "removeEvaluator">>, <<"removeEvaluator", "countEnd">>,
   <<"revoke", "logRevoked">>}

OthersStay(t) == \A u \in Threads \ {t} : pc'[u] = pc[u] /\ call'[u] = call[u]

SameCall(t) ==
  /\ call'[t].sess = call[t].sess /\ call'[t].key = call[t].key
  /\ call'[t].rec = call[t].rec /\ call'[t].who = call[t].who

Moves(t) ==
  /\ OthersStay(t)
  /\ \/ pc'[t] = "idle"
     \/ pc[t] = "idle" /\ pc'[t] \in Entered
     \/ <<pc[t], pc'[t]>> \in Flow /\ SameCall(t)

LEMMA GotoMoves ==
  ASSUME TypeOK, NEW t \in Threads, NEW label, Goto(t, label), UNCHANGED call,
         label = "idle" \/ <<pc[t], label>> \in Flow
  PROVE  Moves(t)
BY DEF TypeOK, CallTypeOK, Goto, Moves, OthersStay, SameCall

LEMMA EnterMoves ==
  ASSUME TypeOK, NEW t \in Threads, NEW label, NEW c, Enter(t, c, label),
         \/ pc[t] = "idle" /\ label \in Entered
         \/ /\ <<pc[t], label>> \in Flow
            /\ c.sess = call[t].sess /\ c.key = call[t].key
            /\ c.rec = call[t].rec /\ c.who = call[t].who
  PROVE  Moves(t) /\ call'[t] = c /\ pc'[t] = label
BY DEF TypeOK, CallTypeOK, Enter, Goto, Moves, OthersStay, SameCall

LEMMA ReturnMoves ==
  ASSUME TypeOK, NEW t \in Threads, Return(t)
  PROVE  Moves(t)
BY DEF TypeOK, CallTypeOK, Return, Moves, OthersStay

LEMMA StayMoves ==
  ASSUME NEW t \in Threads, UNCHANGED <<pc, call>>, At(t, "idle")
  PROVE  Moves(t)
BY DEF Moves, OthersStay, At

LEMMA StepMoves ==
  ASSUME TypeOK, NEW t \in Threads, Begin(t) \/ Continue(t) \/ CallFails(t)
  PROVE  Moves(t)
<1>1. CASE Begin(t)
  <2>1. CASE UNCHANGED <<pc, call>> /\ At(t, "idle")
    BY <2>1, StayMoves
  <2>2. ASSUME NEW c, NEW label \in Entered, Enter(t, c, label), At(t, "idle")
        PROVE  Moves(t)
    BY <2>2, EnterMoves DEF At
  <2>3. At(t, "idle") /\ (UNCHANGED <<pc, call>> \/ \E c : \E label \in Entered : Enter(t, c, label))
    <3>1. CASE StartGenerateKey(t)
      BY <3>1 DEF StartGenerateKey, Entered
    <3>2. ASSUME NEW s \in Sessions, NEW r \in Records, RecordLookup(t, s, r)
          PROVE  At(t, "idle") /\ (UNCHANGED <<pc, call>> \/ \E c : Enter(t, c, "readKey"))
      BY <3>2 DEF RecordLookup
    <3>3. ASSUME NEW s \in Sessions, NEW h \in Stakeholders, RevokeLookup(t, s, h)
          PROVE  At(t, "idle") /\ \E c : Enter(t, c, "revoke")
      BY <3>3 DEF RevokeLookup
    <3>4. ASSUME NEW s \in Sessions, EndLookup(t, s)
          PROVE  At(t, "idle") /\ (UNCHANGED <<pc, call>> \/ \E c : Enter(t, c, "logBurnStarted"))
      BY <3>4 DEF EndLookup
    <3>5. ASSUME NEW s \in Sessions, FallbackEnter(t, s)
          PROVE  At(t, "idle") /\ \E c : Enter(t, c, "logFallback")
      BY <3>5 DEF FallbackEnter
    <3> QED
      BY <1>1, <3>1, <3>2, <3>3, <3>4, <3>5 DEF Begin, Entered
  <2> QED
    BY <2>1, <2>2, <2>3
<1>2. CASE StartStep(t)
  BY <1>2, GotoMoves, ReturnMoves
  DEF StartStep, StartRegister, StartInsertSession, StartInsertEvaluator, StartCount,
      StartLogSession, StartLogManifest, LogThen, At, Flow, envVars
<1>a. ~At(t, "idle") => call[t] \in Call
  BY DEF TypeOK, CallTypeOK
<1>3. CASE RecordStep(t)
  <2>1. CASE RecordReadKey(t) \/ RecordStoreBlob(t) \/ RecordLogGenerated(t)
    BY <2>1, GotoMoves DEF RecordReadKey, RecordStoreBlob, RecordLogGenerated, LogThen, At, Flow
  <2>2. CASE RecordKeyDestroyed(t) \/ RecordNoEvaluator(t) \/ RecordCount(t)
    BY <2>2, ReturnMoves DEF RecordKeyDestroyed, RecordNoEvaluator, RecordCount, RecordFails
  <2>3. CASE RecordEvaluate(t) \/ RecordLogUndeclared(t) \/ RecordRoute(t)
    <3>1. PICK label : /\ pc' = [pc EXCEPT ![t] = label] /\ <<pc[t], label>> \in Flow
      BY <2>3 DEF RecordEvaluate, RecordLogUndeclared, RecordRoute, Enter, Goto, At, Flow
    <3>2. call[t] \in Call
      BY DEF TypeOK, CallTypeOK
    <3>3. /\ call' = [call EXCEPT ![t] = call'[t]]
          /\ SameCall(t)
      BY <2>3, <3>2, ZenonT(40) DEF RecordEvaluate, RecordLogUndeclared, RecordRoute, Enter, SameCall,
                        TypeOK, CallTypeOK, Call
    <3> QED
      BY <3>1, <3>3, EnterMoves DEF Enter, Goto, SameCall
  <2> QED
    BY <1>3, <2>1, <2>2, <2>3 DEF RecordStep
<1>4. CASE EndStep(t)
  <2>1. CASE \/ EndLogBurnStarted(t) \/ BurnLogical(t) \/ BurnOverwrite(t) \/ BurnZero(t)
             \/ BurnForgetKey(t) \/ BurnForgetData(t)
    BY <2>1, GotoMoves
    DEF EndLogBurnStarted, BurnLogical, BurnOverwrite, BurnZero, BurnForgetKey,
        BurnForgetData, BurnStore, LogThen, At, Flow
  <2>2. CASE \/ EndLogBurnCompleted(t) \/ EndLogSessionEnd(t) \/ EndRemoveSession(t)
             \/ EndRemoveEvaluator(t)
    BY <2>2, GotoMoves
    DEF EndLogBurnCompleted, EndLogSessionEnd, EndRemoveSession, EndRemoveEvaluator, LogThen,
        At, Flow
  <2>3. CASE EndCount(t)
    BY <2>3, ReturnMoves DEF EndCount
  <2>4. CASE BurnDestroyKey(t) \/ BurnVerifyHsm(t) \/ BurnVerifyStore(t) \/ BurnVerifyKeys(t)
    <3>1. PICK label, ok : /\ Enter(t, [call[t] EXCEPT !.ok = ok], label)
                           /\ <<pc[t], label>> \in Flow
      BY <2>4, ZenonT(40) DEF BurnDestroyKey, BurnVerifyHsm, BurnVerifyStore, BurnVerifyKeys, BurnVerify,
                  At, Flow
    <3> DEFINE c == [call[t] EXCEPT !.ok = ok]
    <3>2. /\ c.sess = call[t].sess /\ c.key = call[t].key
          /\ c.rec = call[t].rec /\ c.who = call[t].who
      BY DEF TypeOK, CallTypeOK, Call
    <3>3. Enter(t, c, label)
      BY <3>1
    <3> HIDE DEF c
    <3> QED
      BY <3>1, <3>2, <3>3, EnterMoves
  <2> QED
    BY <1>4, <2>1, <2>2, <2>3, <2>4 DEF EndStep
<1>5. CASE Revoke(t) \/ RevokeLog(t) \/ FallbackLog(t) \/ CallFails(t)
  BY <1>5, EnterMoves, ReturnMoves DEF Revoke, RevokeLog, FallbackLog, CallFails, At, Flow
<1> QED
  BY <1>1, <1>2, <1>3, <1>4, <1>5 DEF Continue

(* The section a thread stands at is the one it executes; where it writes  *)
(* a row or asks the random generator, the call may fail instead.          *)
AtSection(t) ==
  /\ pc[t] = "idle" => Begin(t)
  /\ pc[t] = "register" => StartRegister(t)
  /\ pc[t] = "insertSession" => StartInsertSession(t)
  /\ pc[t] = "logManifestLoaded" => StartLogManifest(t) \/ CallFails(t)
  /\ pc[t] = "readKey" => RecordReadKey(t) \/ RecordKeyDestroyed(t) \/ CallFails(t)
  /\ pc[t] = "storeBlob" => RecordStoreBlob(t)
  /\ pc[t] = "logGenerated" => RecordLogGenerated(t) \/ CallFails(t)
  /\ pc[t] = "evaluate" => RecordEvaluate(t) \/ RecordNoEvaluator(t)
  /\ pc[t] = "logUndeclared" => RecordLogUndeclared(t) \/ CallFails(t)
  /\ pc[t] = "route" => RecordRoute(t) \/ CallFails(t)
  /\ pc[t] = "countRecord" => RecordCount(t)
  /\ pc[t] = "layer2" => BurnDestroyKey(t)
  /\ pc[t] = "layer5keys" => BurnForgetKey(t)
  /\ pc[t] = "layer5data" => BurnForgetData(t)
  /\ pc[t] = "layer6hsm" => BurnVerifyHsm(t)
  /\ pc[t] = "layer6store" => BurnVerifyStore(t)
  /\ pc[t] = "layer6keys" => BurnVerifyKeys(t)
  /\ pc[t] = "logBurnCompleted" => EndLogBurnCompleted(t) \/ CallFails(t)
  /\ pc[t] = "logSessionEnd" => EndLogSessionEnd(t) \/ CallFails(t)
  /\ pc[t] = "removeSession" => EndRemoveSession(t)
  /\ pc[t] = "removeEvaluator" => EndRemoveEvaluator(t)
  /\ pc[t] = "countEnd" => EndCount(t)
  /\ pc[t] = "revoke" => Revoke(t)
  /\ pc[t] = "logRevoked" => RevokeLog(t) \/ CallFails(t)

LEMMA StepAtSection ==
  ASSUME NEW t \in Threads, Begin(t) \/ Continue(t) \/ CallFails(t)
  PROVE  AtSection(t)
<1> USE DEF AtSection, At
<1>1. CASE Begin(t)
  BY <1>1 DEF Begin, StartGenerateKey, RecordLookup, RevokeLookup, EndLookup, FallbackEnter
<1>2. CASE StartStep(t)
  BY <1>2
  DEF StartStep, StartRegister, StartInsertSession, StartInsertEvaluator, StartCount,
      StartLogSession, StartLogManifest, LogThen
<1>3. CASE RecordStep(t)
  BY <1>3
  DEF RecordStep, RecordReadKey, RecordKeyDestroyed, RecordStoreBlob, RecordLogGenerated,
      RecordEvaluate, RecordNoEvaluator, RecordLogUndeclared, RecordRoute, RecordCount,
      LogThen
<1>4. CASE EndStep(t)
  BY <1>4
  DEF EndStep, EndLogBurnStarted, BurnLogical, BurnDestroyKey, BurnOverwrite, BurnZero,
      BurnForgetKey, BurnForgetData, BurnVerifyHsm, BurnVerifyStore, BurnVerifyKeys,
      BurnVerify, BurnStore, EndLogBurnCompleted, EndLogSessionEnd, EndRemoveSession,
      EndRemoveEvaluator, EndCount, LogThen
<1>5. CASE Revoke(t) \/ RevokeLog(t) \/ FallbackLog(t)
  BY <1>5 DEF Revoke, RevokeLog, FallbackLog
<1>6. CASE CallFails(t)
  BY <1>6 DEF CallFails, LogLabels
<1> QED
  BY <1>1, <1>2, <1>3, <1>4, <1>5, <1>6 DEF Continue

(* The rows a section may write, and what a step of thread t writes.       *)
Writes ==
  {<<"logSessionStart", "SessionStart">>, <<"logManifestLoaded", "ManifestLoaded">>,
   <<"logGenerated", "DataGenerated">>, <<"logUndeclared", "DataBlocked">>,
   <<"route", "DataTransmitted">>, <<"route", "DataBlocked">>,
   <<"logBurnStarted", "BurnStarted">>, <<"logBurnCompleted", "BurnCompleted">>,
   <<"logSessionEnd", "SessionEnd">>, <<"logRevoked", "ConsentRevoked">>,
   <<"logFallback", "HsmFallback">>}

Wrote(t, e) ==
  /\ LogEvent(t, e) /\ <<pc[t], e.event>> \in Writes
  /\ e.rec = IF pc[t] \in RecordLabels THEN call[t].rec ELSE None
  /\ pc[t] = "logBurnCompleted" => e.ok = call[t].ok
  /\ pc[t] = "logRevoked" => e.who = call[t].who

Logs(t) ==
  \/ UNCHANGED auditLog /\ (pc[t] \in LogLabels => pc'[t] = "idle")
  \/ \E e : Wrote(t, e)

LEMMA StepLogs ==
  ASSUME TypeOK, NEW t \in Threads, Begin(t) \/ Continue(t) \/ CallFails(t)
  PROVE  Logs(t)
<1> USE DEF Logs, Wrote, Writes
<1>1. CASE Begin(t)
  <2>1. pc[t] = "idle"
    BY <1>1 DEF Begin, StartGenerateKey, RecordLookup, RevokeLookup, EndLookup, FallbackEnter, At
  <2> QED
    BY <1>1, <2>1, BeginFrame DEF LogLabels
<1>2. CASE StartStep(t)
  BY <1>2
  DEF StartStep, StartRegister, StartInsertSession, StartInsertEvaluator, StartCount,
      StartLogSession, StartLogManifest, LogThen, Entry, At, LogLabels, RecordLabels
<1>3. CASE RecordStep(t)
  <2>1. CASE RecordLogGenerated(t)
    BY <2>1 DEF RecordLogGenerated, LogThen, Entry, At, RecordLabels
  <2>2. CASE RecordLogUndeclared(t)
    BY <2>2 DEF RecordLogUndeclared, Entry, At, RecordLabels
  <2>3. CASE RecordRoute(t)
    <3>1. PICK k \in call[t].todo, event \in {"DataTransmitted", "DataBlocked"} :
            LogEvent(t, [Entry(event) EXCEPT !.rec = call[t].rec, !.entry = k,
                                             !.who = call[t].views[k]])
      BY <2>3 DEF RecordRoute
    <3> DEFINE e == [Entry(event) EXCEPT !.rec = call[t].rec, !.entry = k,
                                         !.who = call[t].views[k]]
    <3>2. e.event = event /\ e.rec = call[t].rec
      BY DEF Entry
    <3>3. pc[t] = "route" /\ LogEvent(t, e)
      BY <2>3, <3>1 DEF RecordRoute, At
    <3> HIDE DEF e
    <3> QED
      BY <3>2, <3>3 DEF RecordLabels
  <2>4. CASE ~RecordLogGenerated(t) /\ ~RecordLogUndeclared(t) /\ ~RecordRoute(t)
    BY <1>3, <2>4
    DEF RecordStep, RecordReadKey, RecordKeyDestroyed, RecordStoreBlob, RecordEvaluate,
        RecordNoEvaluator, RecordCount, RecordFails, At, LogLabels
  <2> QED
    BY <2>1, <2>2, <2>3, <2>4
<1>4. CASE EndStep(t)
  <2>1. CASE EndLogBurnStarted(t) \/ EndLogBurnCompleted(t) \/ EndLogSessionEnd(t)
    BY <2>1 DEF EndLogBurnStarted, EndLogBurnCompleted, EndLogSessionEnd, LogThen, Entry, At,
                RecordLabels
  <2>2. CASE ~EndLogBurnStarted(t) /\ ~EndLogBurnCompleted(t) /\ ~EndLogSessionEnd(t)
    BY <1>4, <2>2
    DEF EndStep, BurnLogical, BurnDestroyKey, BurnOverwrite, BurnZero, BurnForgetKey,
        BurnForgetData, BurnVerifyHsm, BurnVerifyStore, BurnVerifyKeys, EndRemoveSession,
        EndRemoveEvaluator, EndCount, BurnStore, BurnVerify, At, LogLabels
  <2> QED
    BY <2>1, <2>2
<1>5. CASE Revoke(t) \/ RevokeLog(t) \/ FallbackLog(t)
  BY <1>5 DEF Revoke, RevokeLog, FallbackLog, Entry, At, LogLabels, RecordLabels
<1>6. CASE CallFails(t)
  BY <1>6 DEF CallFails, Return, TypeOK, CallTypeOK
<1> QED
  BY <1>1, <1>2, <1>3, <1>4, <1>5, <1>6 DEF Continue

(* One more row, after the others, in the log of one session.              *)
LEMMA RowAdded ==
  ASSUME LogTypeOK, NEW s \in Sessions, NEW e,
         auditLog' = [auditLog EXCEPT ![s] = Append(@, e)]
  PROVE  /\ \A x \in Sessions \ {s} : auditLog'[x] = auditLog[x]
         /\ Len(auditLog[s]) \in Nat /\ Rows(s) = 1 .. Len(auditLog[s])
         /\ Rows(s)' = 1 .. (Len(auditLog[s]) + 1)
         /\ auditLog'[s][Len(auditLog[s]) + 1] = e
         /\ \A i \in Rows(s) : auditLog'[s][i] = auditLog[s][i]
<1>1. auditLog[s] \in Seq(LogEntry)
  BY DEF LogTypeOK
<1>2. auditLog'[s] = Append(auditLog[s], e) /\ \A x \in Sessions \ {s} : auditLog'[x] = auditLog[x]
  BY DEF LogTypeOK
<1> DEFINE q == auditLog[s]
           p == Append(q, e)
<1>3. /\ Len(q) \in Nat /\ DOMAIN q = 1 .. Len(q)
      /\ DOMAIN p = 1 .. (Len(q) + 1) /\ p[Len(q) + 1] = e
      /\ \A i \in 1 .. Len(q) : p[i] = q[i]
  <2> HIDE DEF q
  <2>1. q \in Seq(LogEntry)
    BY <1>1 DEF q
  <2>2. q \in Seq(LogEntry \cup {e})
    BY <2>1
  <2> QED
    BY <2>2
<1>4. p = auditLog'[s]
  BY <1>2
<1> QED
  BY <1>2, <1>3, <1>4 DEF Rows

(* Nobody writes to the log of a session but the threads working on it.    *)
LEMMA RowWritten ==
  ASSUME TypeOK, NEW t \in Threads, NEW e, Wrote(t, e), NEW s, s = call[t].sess
  PROVE  /\ s \in Sessions /\ pc[t] \in LogLabels
         /\ \A x \in Sessions \ {s} : auditLog'[x] = auditLog[x]
         /\ Len(auditLog[s]) \in Nat /\ Rows(s) = 1 .. Len(auditLog[s])
         /\ Rows(s)' = 1 .. (Len(auditLog[s]) + 1)
         /\ auditLog'[s][Len(auditLog[s]) + 1] = e
         /\ \A i \in Rows(s) : auditLog'[s][i] = auditLog[s][i]
<1>1. pc[t] \in LogLabels
  BY DEF Wrote, Writes, LogLabels
<1>2. s \in Sessions
  BY <1>1 DEF LogLabels, TypeOK, CallTypeOK
<1>3. auditLog' = [auditLog EXCEPT ![s] = Append(@, e)]
  BY DEF Wrote, LogEvent
<1>4. LogTypeOK
  BY DEF TypeOK
<1>5. /\ \A x \in Sessions \ {s} : auditLog'[x] = auditLog[x]
      /\ Len(auditLog[s]) \in Nat /\ Rows(s) = 1 .. Len(auditLog[s])
      /\ Rows(s)' = 1 .. (Len(auditLog[s]) + 1)
      /\ auditLog'[s][Len(auditLog[s]) + 1] = e
      /\ \A i \in Rows(s) : auditLog'[s][i] = auditLog[s][i]
  BY <1>2, <1>3, <1>4, RowAdded
<1> QED
  BY <1>1, <1>2, <1>5

(* A step writes one row at most.                                          *)
LEMMA WroteOnce ==
  ASSUME TypeOK, NEW t \in Threads, NEW e, Wrote(t, e)
  PROVE  ~UNCHANGED auditLog /\ \A f : Wrote(t, f) => f = e
<1> PICK s : s = call[t].sess
  OBVIOUS
<1> PICK n : n = Len(auditLog[s]) + 1
  OBVIOUS
<1>1. auditLog'[s][n] = e
  BY RowWritten
<1>2. \A f : Wrote(t, f) => auditLog'[s][n] = f
  BY RowWritten
<1>3. Len(auditLog[s]) \in Nat /\ Rows(s) = 1 .. Len(auditLog[s])
  BY RowWritten
<1>4. Rows(s)' = 1 .. (Len(auditLog[s]) + 1)
  BY RowWritten
<1>5. n \in Rows(s)' /\ n \notin Rows(s)
  BY <1>3, <1>4
<1>6. UNCHANGED auditLog => Rows(s)' = Rows(s)
  BY DEF Rows
<1> QED
  BY <1>1, <1>2, <1>5, <1>6

(* A turn of the routing loop decides about the first entry that is left.  *)
LEMMA RouteStep ==
  ASSUME TypeOK, NEW t \in Threads, RecordRoute(t), NEW e, Wrote(t, e)
  PROVE  /\ e.entry \in call[t].todo /\ \A j \in call[t].todo \ {e.entry} : e.entry < j
         /\ e.who = call[t].views[e.entry] /\ e.rec = call[t].rec
         /\ e.event = IF e.who \in Endpoints THEN "DataTransmitted" ELSE "DataBlocked"
         /\ call'[t].todo = call[t].todo \ {e.entry} /\ call'[t].sess = call[t].sess
         /\ call'[t].rec = call[t].rec /\ call'[t].views = call[t].views /\ UNCHANGED results
         /\ pc'[t] = IF call'[t].todo = {} THEN "countRecord" ELSE "route"
<1>1. call[t] \in Call
  BY DEF TypeOK, CallTypeOK
<1>2. PICK k \in call[t].todo, event \in {"DataTransmitted", "DataBlocked"},
           n \in {call[t].sent, call[t].sent + 1},
           b \in {call[t].blocked, call[t].blocked + 1} :
        /\ \A j \in call[t].todo \ {k} : k < j
        /\ event = IF call[t].views[k] \in Endpoints THEN "DataTransmitted" ELSE "DataBlocked"
        /\ LogEvent(t, [Entry(event) EXCEPT !.rec = call[t].rec, !.entry = k,
                                            !.who = call[t].views[k]])
        /\ Enter(t, [call[t] EXCEPT !.todo = call[t].todo \ {k}, !.sent = n, !.blocked = b],
                 IF call[t].todo \ {k} = {} THEN "countRecord" ELSE "route")
  BY DEF RecordRoute
<1> PICK h : h = call[t].views[k]
  OBVIOUS
<1> DEFINE f == [Entry(event) EXCEPT !.rec = call[t].rec, !.entry = k, !.who = h]
           c == [call[t] EXCEPT !.todo = call[t].todo \ {k}, !.sent = n, !.blocked = b]
<1>3. f.who = h /\ f.event = event /\ f.rec = call[t].rec /\ f.entry = k /\ LogEvent(t, f)
  BY <1>2 DEF Entry
<1>4. /\ c.todo = call[t].todo \ {k} /\ c.sess = call[t].sess /\ c.rec = call[t].rec
      /\ c.views = call[t].views
  BY <1>1 DEF Call
<1>5. Enter(t, c, IF c.todo = {} THEN "countRecord" ELSE "route")
  BY <1>2, <1>4
<1> HIDE DEF c, f
<1>6. pc[t] = "route" /\ UNCHANGED results
  BY DEF RecordRoute, At, envVars
<1>7. Wrote(t, f)
  BY <1>2, <1>3, <1>6 DEF Wrote, Writes, RecordLabels
<1>8. f = e
  BY <1>7, WroteOnce
<1>9. call'[t] = c /\ pc'[t] = IF c.todo = {} THEN "countRecord" ELSE "route"
  BY <1>5 DEF Enter, Goto, TypeOK, CallTypeOK
<1> QED
  BY <1>2, <1>3, <1>4, <1>6, <1>8, <1>9

(* Rows stay where they are.                                               *)
LEMMA RowsStay ==
  ASSUME TypeOK, [Next]_vars, NEW s \in Sessions, NEW i \in Rows(s)
  PROVE  i \in Rows(s)' /\ auditLog'[s][i] = auditLog[s][i]
<1>1. CASE UNCHANGED auditLog
  BY <1>1 DEF Rows
<1>2. ASSUME NEW t \in Threads, NEW e, Wrote(t, e)
      PROVE  i \in Rows(s)' /\ auditLog'[s][i] = auditLog[s][i]
  <2>1. CASE s = call[t].sess
    <3>1. /\ Len(auditLog[s]) \in Nat /\ Rows(s) = 1 .. Len(auditLog[s])
          /\ Rows(s)' = 1 .. (Len(auditLog[s]) + 1)
          /\ \A j \in Rows(s) : auditLog'[s][j] = auditLog[s][j]
      BY <1>2, <2>1, RowWritten, ZenonT(40)
    <3> QED
      BY <3>1
  <2>2. CASE s # call[t].sess
    <3>1. auditLog'[s] = auditLog[s]
      BY <1>2, <2>2, RowWritten
    <3> QED
      BY <3>1 DEF Rows
  <2> QED
    BY <2>1, <2>2
<1>3. UNCHANGED auditLog \/ \E t \in Threads : \E e : Wrote(t, e)
  BY StepLogs DEF Next, Logs, vars
<1> QED
  BY <1>1, <1>2, <1>3

-----------------------------------------------------------------------------
(* The refinement of SealedSession.                                        *)

Held(s) == {e.rec : e \in Readable(s)}

SealedRecords(s) == {e.rec : e \in {d \in store[s] : d.content = "sealed"}}

(* What can be read back is what lies sealed while the key lives.          *)
HeldIs ==
  \A s \in Sessions :
    Held(s) = IF IsKeyActive(keyHandle[s]) THEN SealedRecords(s) ELSE {}

LEMMA HeldNow == SealInv => HeldIs
<1> SUFFICES ASSUME SealInv, NEW s \in Sessions
             PROVE  Held(s) = IF IsKeyActive(keyHandle[s]) THEN SealedRecords(s) ELSE {}
  BY DEF HeldIs
<1>1. \A e \in store[s] : e.key = keyHandle[s]
  BY DEF SealInv, StoreInv
<1>2. CASE IsKeyActive(keyHandle[s])
  <2>1. Readable(s) = {d \in store[s] : d.content = "sealed"}
    BY <1>1, <1>2 DEF Readable
  <2> QED
    BY <1>2, <2>1 DEF Held, SealedRecords
<1>3. CASE ~IsKeyActive(keyHandle[s])
  <2>1. Readable(s) = {}
    BY <1>1, <1>3 DEF Readable
  <2> QED
    BY <1>3, <2>1 DEF Held
<1> QED
  BY <1>2, <1>3

LEMMA HeldThen == SealInv' => HeldIs'
BY HeldNow, PTL

(* A step the driver of a session does not see.                            *)
LEMMA ViewKept ==
  ASSUME SealInv, SealInv', UNCHANGED keyHandle,
         \A s \in Sessions :
           /\ IsKeyActive(keyHandle[s])' <=> IsKeyActive(keyHandle[s])
           /\ IsKeyActive(keyHandle[s]) => SealedRecords(s)' = SealedRecords(s)
  PROVE  UNCHANGED SealedView!vars
<1>1. ASSUME NEW s \in Sessions PROVE PhaseOf(s)' = PhaseOf(s) /\ Held(s)' = Held(s)
  <2>1. Held(s) = IF IsKeyActive(keyHandle[s]) THEN SealedRecords(s) ELSE {}
    BY HeldNow DEF HeldIs
  <2>2. Held(s)' = IF IsKeyActive(keyHandle[s])' THEN SealedRecords(s)' ELSE {}
    BY HeldThen DEF HeldIs
  <2> QED
    BY <2>1, <2>2 DEF PhaseOf
<1> QED
  BY <1>1 DEF SealedView!vars, Held

(* Steps that change neither keys nor table nor blobs.                     *)
LEMMA ViewFrame ==
  ASSUME SealInv, SealInv', UNCHANGED <<keys, keyHandle, store>>
  PROVE  UNCHANGED SealedView!vars
BY ViewKept DEF IsKeyActive, SealedRecords

LEMMA OpenView ==
  ASSUME TypeOK, SealInv, SealInv', NEW t \in Threads, StartInsertSession(t),
         NEW s, s = call[t].sess
  PROVE  SealedView!Open(s)
<1>1. /\ s \in Sessions /\ keyHandle[s] = NoHandle /\ IsKeyActive(call[t].key)
      /\ call[t].key # NoHandle
  BY DEF StartInsertSession, At, SealInv, CallInv, ThreadInv, BeforeInsert, TypeOK,
         CallTypeOK, IsKeyActive, NoHandle, DataTypeOK, HsmTypeOK
<1>2. /\ keyHandle' = [keyHandle EXCEPT ![s] = call[t].key] /\ UNCHANGED <<keys, store>>
  BY DEF StartInsertSession, dataVars, hsmVars
<1>3. keyHandle'[s] = call[t].key /\ \A x \in Sessions \ {s} : keyHandle'[x] = keyHandle[x]
  BY <1>1, <1>2 DEF TypeOK, SessionTypeOK
<1>4. PhaseOf(s) = "unborn" /\ PhaseOf(s)' = "open"
  BY <1>1, <1>2, <1>3 DEF PhaseOf, IsKeyActive
<1>5. \A x \in Sessions \ {s} : PhaseOf(x)' = PhaseOf(x)
  BY <1>2, <1>3 DEF PhaseOf, IsKeyActive
<1>6. \A x \in Sessions : {e.rec : e \in Readable(x)}' = {e.rec : e \in Readable(x)}
  BY <1>2 DEF Readable, IsKeyActive
<1> QED
  BY <1>1, <1>4, <1>5, <1>6 DEF SealedView!Open

LEMMA CaptureView ==
  ASSUME TypeOK, SealInv, SealInv', NEW t \in Threads, RecordStoreBlob(t),
         NEW s, s = call[t].sess, NEW r, r = call[t].rec
  PROVE  SealedView!Capture(s, r) \/ UNCHANGED SealedView!vars
<1> DEFINE k == call[t].key
<1>1. s \in Sessions /\ r \in Records /\ k = keyHandle[s] /\ k # NoHandle
  BY DEF RecordStoreBlob, At, SealInv, CallInv, ThreadInv, RecordLabels, TypeOK, CallTypeOK
<1>2. UNCHANGED <<keys, keyHandle>> /\ StoreBlob(s, r, k)
  BY DEF RecordStoreBlob, hsmVars, sessionVars
<1>3. /\ \A x \in Sessions \ {s} : store'[x] = store[x]
      /\ store'[s] = store[s] \cup
           {[rec |-> r, key |-> k, content |-> "sealed", deleted |-> FALSE]}
  BY <1>1, <1>2 DEF StoreBlob, TypeOK, DataTypeOK, StoreTypeOK
<1> HIDE DEF k
<1>4. CASE ~IsKeyActive(keyHandle[s])
  BY <1>2, <1>3, <1>4, ViewKept DEF IsKeyActive, SealedRecords
<1>5. CASE IsKeyActive(keyHandle[s])
  <2>1. \A x \in Sessions : PhaseOf(x)' = PhaseOf(x)
    BY <1>2 DEF PhaseOf, IsKeyActive
  <2>2. PhaseOf(s) = "open"
    BY <1>1, <1>5 DEF PhaseOf
  <2>3. \A x \in Sessions \ {s} : Held(x)' = Held(x)
    BY <1>2, <1>3 DEF Held, Readable, IsKeyActive
  <2>4. Held(s) = SealedRecords(s) /\ Held(s)' = SealedRecords(s)'
    BY <1>1, <1>2, <1>5, HeldNow, HeldThen DEF HeldIs, IsKeyActive
  <2>5. SealedRecords(s)' = SealedRecords(s) \cup {r}
    <3> DEFINE b == [rec |-> r, key |-> k, content |-> "sealed", deleted |-> FALSE]
    <3>1. b.rec = r /\ b.content = "sealed" /\ store'[s] = store[s] \cup {b}
      BY <1>3
    <3> HIDE DEF b
    <3>2. {d \in store'[s] : d.content = "sealed"} =
            {d \in store[s] : d.content = "sealed"} \cup {b}
      BY <3>1
    <3> QED
      BY <3>1, <3>2 DEF SealedRecords
  <2> QED
    BY <1>1, <2>1, <2>2, <2>3, <2>4, <2>5 DEF SealedView!Capture, Held
<1> QED
  BY <1>4, <1>5

(* destroy_key changes the state of one key at most.                       *)
LEMMA DestroyKeyEffect ==
  ASSUME HsmTypeOK, NEW k, DestroyKey(k)
  PROVE  /\ \A h : h # k => (IsKeyActive(h)' <=> IsKeyActive(h))
         /\ ~IsKeyActive(k)' /\ UNCHANGED nextHandle
         /\ ~IsKeyActive(k) => UNCHANGED keys
BY DEF HsmTypeOK, DestroyKey, IsKeyActive, KeyStates

LEMMA SealView ==
  ASSUME TypeOK, SealInv, SealInv', NEW t \in Threads, BurnDestroyKey(t),
         NEW s, s = call[t].sess, NEW k, k = call[t].key
  PROVE  SealedView!Seal(s) \/ UNCHANGED SealedView!vars
<1>1. s \in Sessions /\ k = keyHandle[s] /\ k # NoHandle
  BY DEF BurnDestroyKey, At, SealInv, CallInv, ThreadInv, EndLabels, TypeOK, CallTypeOK
<1>2. UNCHANGED <<store, keyHandle>> /\ DestroyKey(k)
  BY DEF BurnDestroyKey, sessionVars
<1>3. CASE ~IsKeyActive(k)
  BY <1>2, <1>3, DestroyKeyEffect, ViewFrame DEF TypeOK, DataTypeOK
<1>4. CASE IsKeyActive(k)
  <2>1. \A x \in Sessions \ {s} : keyHandle[x] # k
    BY <1>1 DEF SealInv, TableInv
  <2>2. /\ \A x \in Sessions \ {s} : IsKeyActive(keyHandle[x])' <=> IsKeyActive(keyHandle[x])
        /\ ~IsKeyActive(keyHandle[s])'
    BY <1>1, <1>2, <2>1, DestroyKeyEffect DEF TypeOK, DataTypeOK
  <2>3. PhaseOf(s) = "open" /\ PhaseOf(s)' = "sealed"
    BY <1>1, <1>2, <1>4, <2>2 DEF PhaseOf
  <2>4. \A x \in Sessions \ {s} : PhaseOf(x)' = PhaseOf(x)
    BY <1>2, <2>2 DEF PhaseOf
  <2>5. Held(s)' = {}
    BY <1>1, <2>2, HeldThen DEF HeldIs
  <2>6. ASSUME NEW x \in Sessions \ {s} PROVE Held(x)' = Held(x)
    <3>1. SealedRecords(x)' = SealedRecords(x)
      BY <1>2 DEF SealedRecords
    <3> QED
      BY <2>2, <3>1, HeldNow, HeldThen DEF HeldIs
  <2> QED
    BY <1>1, <2>3, <2>4, <2>5, <2>6 DEF SealedView!Seal, Held
<1> QED
  BY <1>3, <1>4

LEMMA NextView ==
  ASSUME TypeOK, SealInv, SealInv', [Next]_vars
  PROVE  [SealedView!Next]_(SealedView!vars)
<1>1. ASSUME NEW t \in Threads, Begin(t) PROVE UNCHANGED SealedView!vars
  <2>1. UNCHANGED <<store, keyHandle>>
    BY <1>1, BeginFrame
  <2>2. CASE UNCHANGED hsmVars
    BY <2>1, <2>2, ViewFrame DEF hsmVars
  <2>3. CASE StartGenerateKey(t)
    <3>1. \A h : h < nextHandle => (IsKeyActive(h)' <=> IsKeyActive(h))
      BY <2>3, GenerateKeyEffect DEF StartGenerateKey, IsKeyActive, TypeOK, DataTypeOK
    <3>2. \A s \in Sessions : keyHandle[s] < nextHandle
      BY DEF SealInv, TableInv
    <3> QED
      BY <2>1, <3>1, <3>2, ViewKept DEF SealedRecords
  <2> QED
    BY <1>1, <2>2, <2>3, BeginFrame
<1>2. ASSUME NEW t \in Threads, StartStep(t)
      PROVE  SealedView!Next \/ UNCHANGED SealedView!vars
  <2>1. CASE StartInsertSession(t)
    <3>1. call[t].sess \in Sessions
      BY <2>1 DEF StartInsertSession, At, TypeOK, CallTypeOK
    <3> QED
      BY <2>1, <3>1, OpenView DEF SealedView!Next
  <2>2. CASE ~StartInsertSession(t)
    <3>1. UNCHANGED <<keys, keyHandle, store>>
      BY <1>2, <2>2, StartFrame DEF hsmVars, sessionVars, StartInsertEvaluator
    <3> QED
      BY <3>1, ViewFrame
  <2> QED
    BY <2>1, <2>2
<1>3. ASSUME NEW t \in Threads, RecordStep(t)
      PROVE  SealedView!Next \/ UNCHANGED SealedView!vars
  <2>1. CASE RecordStoreBlob(t)
    <3>1. call[t].sess \in Sessions /\ call[t].rec \in Records
      BY <2>1 DEF RecordStoreBlob, At, TypeOK, CallTypeOK, RecordLabels
    <3> QED
      BY <2>1, <3>1, CaptureView DEF SealedView!Next
  <2>2. CASE ~RecordStoreBlob(t)
    <3>1. UNCHANGED <<keys, keyHandle, store>>
      BY <1>3, <2>2, RecordFrame DEF hsmVars, sessionVars
    <3> QED
      BY <3>1, ViewFrame
  <2> QED
    BY <2>1, <2>2
<1>4. ASSUME NEW t \in Threads, EndStep(t)
      PROVE  SealedView!Next \/ UNCHANGED SealedView!vars
  <2>1. CASE BurnDestroyKey(t)
    <3>1. call[t].sess \in Sessions
      BY <2>1 DEF BurnDestroyKey, At, TypeOK, CallTypeOK
    <3> QED
      BY <2>1, <3>1, SealView DEF SealedView!Next
  <2>2. CASE BurnLogical(t)
    <3> PICK s : s = call[t].sess
      OBVIOUS
    <3>1. s \in Sessions /\ UNCHANGED <<keys, keyHandle>> /\ MarkDeleted(s)
      BY <2>2 DEF BurnLogical, BurnStore, At, TypeOK, CallTypeOK, hsmVars, sessionVars
    <3>2. /\ \A x \in Sessions \ {s} : store'[x] = store[x]
          /\ store'[s] = {[e EXCEPT !.deleted = TRUE] : e \in store[s]}
          /\ store[s] \subseteq DataEntry
      BY <3>1 DEF MarkDeleted, TypeOK, DataTypeOK, StoreTypeOK
    <3>3. \A e \in DataEntry : /\ [e EXCEPT !.deleted = TRUE].content = e.content
                              /\ [e EXCEPT !.deleted = TRUE].rec = e.rec
      BY DEF DataEntry
    <3>4. SealedRecords(s)' = SealedRecords(s)
      <4>1. ASSUME NEW x \in SealedRecords(s) PROVE x \in SealedRecords(s)'
        <5>1. PICK e \in store[s] : e.content = "sealed" /\ x = e.rec
          BY <4>1 DEF SealedRecords
        <5>2. /\ [e EXCEPT !.deleted = TRUE] \in store'[s]
              /\ [e EXCEPT !.deleted = TRUE].content = "sealed"
              /\ x = [e EXCEPT !.deleted = TRUE].rec
          BY <3>2, <3>3, <5>1
        <5> QED
          BY <5>2 DEF SealedRecords
      <4>2. ASSUME NEW x \in SealedRecords(s)' PROVE x \in SealedRecords(s)
        <5>1. PICK d \in store'[s] : d.content = "sealed" /\ x = d.rec
          BY <4>2 DEF SealedRecords
        <5>2. PICK e \in store[s] : d = [e EXCEPT !.deleted = TRUE]
          BY <3>2, <5>1
        <5>3. e.content = "sealed" /\ x = e.rec
          BY <3>2, <3>3, <5>1, <5>2
        <5> QED
          BY <5>3 DEF SealedRecords
      <4> QED
        BY <4>1, <4>2
    <3>5. \A x \in Sessions : SealedRecords(x)' = SealedRecords(x)
      BY <3>2, <3>4 DEF SealedRecords
    <3> QED
      BY <3>1, <3>5, ViewKept DEF IsKeyActive
  <2>3. CASE BurnOverwrite(t) \/ BurnZero(t) \/ BurnForgetData(t)
    <3> DEFINE s == call[t].sess
    <3>1. /\ s \in Sessions /\ UNCHANGED <<keys, keyHandle>> /\ pc[t] \in AfterKeyLayer
          /\ OverwriteWithRandom(s) \/ ZeroMemory(s) \/ RemoveSession(s)
      BY <2>3 DEF BurnOverwrite, BurnZero, BurnForgetData, BurnStore, At, TypeOK,
                  CallTypeOK, hsmVars, sessionVars, AfterKeyLayer, EndLabels
    <3>2. ~IsKeyActive(keyHandle[s])
      BY <3>1 DEF SealInv, CallInv, ThreadInv, AfterKeyLayer
    <3>3. \A x \in Sessions \ {s} : store'[x] = store[x]
      BY <3>1 DEF OverwriteWithRandom, ZeroMemory, RemoveSession, TypeOK, DataTypeOK,
                  StoreTypeOK
    <3> QED
      BY <3>1, <3>2, <3>3, ViewKept DEF IsKeyActive, SealedRecords
  <2>4. CASE /\ ~BurnDestroyKey(t) /\ ~BurnLogical(t) /\ ~BurnOverwrite(t)
             /\ ~BurnZero(t) /\ ~BurnForgetData(t)
    <3>1. UNCHANGED <<keys, keyHandle, store>>
      BY <1>4, <2>4, EndFrame
      DEF hsmVars, sessionVars, EndRemoveSession, EndRemoveEvaluator
    <3> QED
      BY <3>1, ViewFrame
  <2> QED
    BY <2>1, <2>2, <2>3, <2>4
<1>5. ASSUME NEW t \in Threads, Revoke(t) \/ RevokeLog(t) \/ FallbackLog(t) \/ CallFails(t)
      PROVE  UNCHANGED SealedView!vars
  BY <1>5, OtherFrame, ViewFrame DEF dataVars, hsmVars
<1>6. CASE UNCHANGED vars
  BY <1>6, ViewFrame DEF vars, dataVars, hsmVars, sessionVars
<1> QED
  BY <1>1, <1>2, <1>3, <1>4, <1>5, <1>6 DEF Next, Continue

(* The gateway implements sealed sessions: whatever the threads do, a      *)
(* session opens once, captures records while it is open, is sealed by the *)
(* key layer of a burn, and nothing can be read back from then on          *)
(* (gateway/mod.rs and burn/mod.rs against SealedSession).                 *)
THEOREM GatewaySealsSessions == Spec => SealedSessionSpec
<1>1. Init => SealedView!Init
  BY DEF Init, StoreInit, SealedView!Init, PhaseOf, Readable
<1>2. Spec => [](TypeOK /\ SealInv)
  BY TypeCorrect, SealInvHolds, PTL
<1>3. TypeOK /\ SealInv /\ SealInv' /\ [Next]_vars => [SealedView!Next]_(SealedView!vars)
  BY NextView
<1> QED
  BY <1>1, <1>2, <1>3, PTL DEF Spec, SealedSessionSpec, SealedView!Spec

-----------------------------------------------------------------------------
(* Announced burns, keys that can be found, and certificates.              *)

(* A thread past the first section of end_session has announced the burn.  *)
AnnounceInv ==
  /\ \A t \in Threads :
       pc[t] \in EndLabels \ {"logBurnStarted"} => HasRow(call[t].sess, "BurnStarted")
  /\ DestructionIsAudited

(* Sections in which ok tells whether this call destroyed the key itself.  *)
AfterDestroy == {"layer3", "layer4", "layer5keys", "layer5data", "layer6hsm",
                 "layer6store", "layer6keys", "logBurnCompleted"}
AfterForget == {"layer5data", "layer6hsm", "layer6store", "layer6keys", "logBurnCompleted"}

(* Thread t may still write a certificate for session s.                   *)
Vouches(t, s) == pc[t] \in AfterDestroy /\ call[t].sess = s /\ call[t].ok

CertInv(s) ==
  /\ \A t, u \in Threads : Vouches(t, s) /\ Vouches(u, s) => t = u
  /\ \A t \in Threads : Vouches(t, s) => Certificates(s) = {}
  /\ \A i, j \in Certificates(s) : i = j
  /\ Certificates(s) # {} =>
       keyHandle[s] # NoHandle /\ ~IsKeyActive(keyHandle[s]) /\ sessionKeys[s] = NoHandle
  /\ \A t \in Threads :
       pc[t] \in AfterForget /\ call[t].sess = s => sessionKeys[s] = NoHandle

(* What a step does to the key of a session and to the burn engine's map.  *)
HandleStep(t, s) ==
  \/ keyHandle'[s] = keyHandle[s]
  \/ /\ StartInsertSession(t) /\ s = call[t].sess
     /\ keyHandle[s] = NoHandle /\ keyHandle'[s] = call[t].key /\ IsKeyActive(call[t].key)'

KeyStep(t, s) ==
  keyHandle[s] # NoHandle =>
    /\ keyHandle'[s] = keyHandle[s]
    /\ \/ IsKeyActive(keyHandle[s])' <=> IsKeyActive(keyHandle[s])
       \/ BurnDestroyKey(t) /\ s = call[t].sess /\ ~IsKeyActive(keyHandle[s])'

MapStep(t, s) ==
  \/ sessionKeys'[s] = sessionKeys[s]
  \/ StartRegister(t) /\ s = call[t].sess /\ sessionKeys'[s] = call[t].key
  \/ BurnForgetKey(t) /\ s = call[t].sess /\ sessionKeys'[s] = NoHandle

LEMMA StepKeys ==
  ASSUME TypeOK, SealInv, NEW t \in Threads, Begin(t) \/ Continue(t) \/ CallFails(t),
         NEW s \in Sessions
  PROVE  HandleStep(t, s) /\ KeyStep(t, s)
<1>1. CASE StartInsertSession(t)
  <2>1. /\ call[t].sess \in Sessions /\ keyHandle[call[t].sess] = NoHandle
        /\ IsKeyActive(call[t].key) /\ UNCHANGED keys
        /\ keyHandle' = [keyHandle EXCEPT ![call[t].sess] = call[t].key]
    BY <1>1 DEF StartInsertSession, At, TypeOK, CallTypeOK, SealInv, CallInv, ThreadInv,
                BeforeInsert, dataVars, hsmVars
  <2>2. IsKeyActive(call[t].key)'
    BY <1>1, <2>1 DEF IsKeyActive, StartInsertSession
  <2>3. keyHandle[s] # NoHandle => keyHandle'[s] = keyHandle[s]
    BY <2>1 DEF TypeOK, SessionTypeOK
  <2>4. IsKeyActive(keyHandle[s]) /\ keyHandle'[s] = keyHandle[s] => IsKeyActive(keyHandle[s])'
    BY <2>1 DEF IsKeyActive
  <2>5. IsKeyActive(keyHandle[s])' /\ keyHandle'[s] = keyHandle[s] => IsKeyActive(keyHandle[s])
    BY <2>1 DEF IsKeyActive
  <2>6. keyHandle'[s] = keyHandle[s] \/ (s = call[t].sess /\ keyHandle'[s] = call[t].key)
    BY <2>1 DEF TypeOK, SessionTypeOK
  <2> QED
    BY <1>1, <2>1, <2>2, <2>3, <2>4, <2>5, <2>6 DEF HandleStep, KeyStep
<1>2. CASE BurnDestroyKey(t)
  <2>1. /\ DestroyKey(call[t].key) /\ UNCHANGED keyHandle /\ call[t].sess \in Sessions
        /\ call[t].key = keyHandle[call[t].sess] /\ call[t].key # NoHandle
    BY <1>2 DEF BurnDestroyKey, At, SealInv, CallInv, ThreadInv, EndLabels, TypeOK,
                CallTypeOK, sessionVars
  <2>2. s # call[t].sess /\ keyHandle[s] # NoHandle => keyHandle[s] # call[t].key
    BY <2>1 DEF SealInv, TableInv
  <2> PICK k : k = call[t].key
    OBVIOUS
  <2>3. /\ ~IsKeyActive(k)'
        /\ keyHandle[s] # k => (IsKeyActive(keyHandle[s])' <=> IsKeyActive(keyHandle[s]))
    BY <2>1, DestroyKeyEffect DEF TypeOK, DataTypeOK
  <2> QED
    BY <1>2, <2>1, <2>2, <2>3 DEF HandleStep, KeyStep
<1>3. CASE StartGenerateKey(t)
  <2>1. UNCHANGED keyHandle /\ keyHandle[s] < nextHandle
    BY <1>3 DEF StartGenerateKey, sessionVars, SealInv, TableInv
  <2>2. IsKeyActive(keyHandle[s])' <=> IsKeyActive(keyHandle[s])
    BY <1>3, <2>1, GenerateKeyEffect DEF StartGenerateKey, IsKeyActive, TypeOK, DataTypeOK
  <2> QED
    BY <2>1, <2>2 DEF HandleStep, KeyStep
<1>4. CASE UNCHANGED <<keys, keyHandle>>
  BY <1>4 DEF HandleStep, KeyStep, IsKeyActive
<1>5. \/ StartInsertSession(t) \/ BurnDestroyKey(t) \/ StartGenerateKey(t)
      \/ UNCHANGED <<keys, keyHandle>>
  BY BeginFrame, StartFrame, RecordFrame, EndFrame, OtherFrame
  DEF Continue, hsmVars, dataVars, sessionVars, StartInsertEvaluator, EndRemoveSession,
      EndRemoveEvaluator
<1> QED
  BY <1>1, <1>2, <1>3, <1>4, <1>5

LEMMA StepMaps ==
  ASSUME TypeOK, NEW t \in Threads, Begin(t) \/ Continue(t) \/ CallFails(t), NEW s \in Sessions
  PROVE  MapStep(t, s)
<1>1. CASE StartRegister(t) \/ BurnForgetKey(t)
  BY <1>1 DEF StartRegister, BurnForgetKey, MapStep, TypeOK, DataTypeOK
<1>2. CASE UNCHANGED sessionKeys
  BY <1>2 DEF MapStep
<1>3. StartRegister(t) \/ BurnForgetKey(t) \/ UNCHANGED sessionKeys
  BY BeginFrame, StartFrame, RecordFrame, EndFrame, OtherFrame DEF Continue, dataVars
<1> QED
  BY <1>1, <1>2, <1>3

LEMMA RowKept ==
  ASSUME TypeOK, [Next]_vars, NEW s \in Sessions, NEW event, HasRow(s, event)
  PROVE  HasRow(s, event)'
<1>1. PICK i \in Rows(s) : auditLog[s][i].event = event
  BY DEF HasRow
<1>2. i \in Rows(s)' /\ auditLog'[s][i] = auditLog[s][i]
  BY RowsStay
<1> QED
  BY <1>1, <1>2 DEF HasRow

LEMMA StepAnnounce ==
  ASSUME TypeOK, SealInv, AnnounceInv, NEW t \in Threads,
         Begin(t) \/ Continue(t) \/ CallFails(t)
  PROVE  AnnounceInv'
<1>0. [Next]_vars
  BY DEF Next
<1>1. ASSUME NEW u \in Threads, pc'[u] \in EndLabels \ {"logBurnStarted"}
      PROVE  HasRow(call[u].sess, "BurnStarted")'
  <2>0. call[u].sess \in Sessions \/ pc[u] = "idle"
    BY DEF TypeOK, CallTypeOK
  <2>1. CASE pc[u] \in EndLabels \ {"logBurnStarted"} /\ call'[u].sess = call[u].sess
    <3>1. PICK s : s = call[u].sess
      OBVIOUS
    <3>2. s \in Sessions /\ HasRow(s, "BurnStarted") /\ call'[u].sess = s
      BY <2>0, <2>1, <3>1 DEF AnnounceInv, EndLabels
    <3>3. HasRow(s, "BurnStarted")'
      BY <1>0, <3>2, RowKept
    <3> QED
      BY <3>2, <3>3 DEF HasRow, Rows
  <2>2. CASE u = t /\ pc[t] = "logBurnStarted" /\ pc'[t] = "layer1" /\ call'[t].sess = call[t].sess
    <3>1. PICK e : Wrote(t, e)
      BY <2>2, StepLogs DEF Logs, LogLabels
    <3>2. e.event = "BurnStarted"
      BY <2>2, <3>1 DEF Wrote, Writes
    <3>3. PICK s : s = call[t].sess
      OBVIOUS
    <3>4. /\ Len(auditLog[s]) \in Nat /\ Rows(s)' = 1 .. (Len(auditLog[s]) + 1)
          /\ auditLog'[s][Len(auditLog[s]) + 1] = e
      BY <3>1, <3>3, RowWritten
    <3>5. HasRow(s, "BurnStarted")'
      BY <3>2, <3>4 DEF HasRow
    <3> QED
      BY <2>2, <3>3, <3>5 DEF HasRow, Rows
  <2>3. Moves(t)
    BY StepMoves
  <2>4. u # t => pc'[u] = pc[u] /\ call'[u] = call[u]
    BY <2>3 DEF Moves, OthersStay
  <2>5. u = t => /\ pc[t] \in EndLabels /\ call'[t].sess = call[t].sess
                 /\ pc[t] = "logBurnStarted" => pc'[t] = "layer1"
    BY <1>1, <2>3 DEF Moves, Flow, Entered, EndLabels, SameCall
  <2> QED
    BY <1>1, <2>1, <2>2, <2>4, <2>5
<1>2. ASSUME NEW s \in Sessions, keyHandle'[s] # NoHandle, ~IsKeyActive(keyHandle[s])'
      PROVE  HasRow(s, "BurnStarted")'
  <2>1. HandleStep(t, s) /\ KeyStep(t, s)
    BY StepKeys
  <2>2. CASE keyHandle[s] # NoHandle /\ ~IsKeyActive(keyHandle[s])
    BY <1>0, <2>2, RowKept DEF AnnounceInv, DestructionIsAudited
  <2>3. CASE BurnDestroyKey(t) /\ s = call[t].sess
    <3>1. HasRow(s, "BurnStarted")
      BY <2>3 DEF BurnDestroyKey, At, AnnounceInv, EndLabels
    <3> QED
      BY <1>0, <3>1, RowKept
  <2>4. keyHandle[s] # NoHandle
    <3>1. keyHandle'[s] = call[t].key /\ IsKeyActive(call[t].key)' /\ UNCHANGED call
            => IsKeyActive(keyHandle[s])'
      BY DEF IsKeyActive
    <3> QED
      BY <1>2, <2>1, <3>1 DEF HandleStep, StartInsertSession
  <2> QED
    BY <1>2, <2>1, <2>2, <2>3, <2>4 DEF KeyStep
<1> QED
  BY <1>1, <1>2 DEF AnnounceInv, DestructionIsAudited

LEMMA NextAnnounce == TypeOK /\ SealInv /\ AnnounceInv /\ [Next]_vars => AnnounceInv'
<1> SUFFICES ASSUME TypeOK, SealInv, AnnounceInv, [Next]_vars PROVE AnnounceInv'
  OBVIOUS
<1>1. CASE UNCHANGED vars
  BY <1>1 DEF vars, dataVars, hsmVars, sessionVars, AnnounceInv, DestructionIsAudited, HasRow,
              Rows, IsKeyActive
<1> QED
  BY <1>1, StepAnnounce DEF Next

(* No key is destroyed without a BurnStarted row that accounts for it,     *)
(* whichever call fails on the way (gateway/mod.rs: end_session).          *)
THEOREM DestructionAlwaysAudited == Spec => []DestructionIsAudited
<1>1. Init => AnnounceInv
  BY DEF Init, AnnounceInv, DestructionIsAudited, EndLabels, NoHandle
<1>2. Spec => [](TypeOK /\ SealInv)
  BY TypeCorrect, SealInvHolds, PTL
<1>3. AnnounceInv => DestructionIsAudited
  BY DEF AnnounceInv
<1> QED
  BY <1>1, <1>2, <1>3, NextAnnounce, PTL DEF Spec

-----------------------------------------------------------------------------
(* A session is known once its start is over, and every other call is made *)
(* to a known one.                                                         *)
KnownInv ==
  /\ \A t \in Threads : pc[t] \in StartLabels => call[t].sess \notin known
  /\ \A t \in Threads : pc[t] \notin StartLabels \cup {"idle"} => call[t].sess \in known
  /\ \A t, u \in Threads :
       pc[t] \in StartLabels /\ pc[u] \in StartLabels /\ call[t].sess = call[u].sess => t = u
  /\ \A s \in Sessions : \A i \in Rows(s) :
       auditLog[s][i].event \in {"SessionStart", "ManifestLoaded"} \/ s \in known

(* Which sessions calls are made to.                                       *)

LEMMA StepEnters ==
  ASSUME TypeOK, NEW t \in Threads, Begin(t) \/ Continue(t) \/ CallFails(t),
         pc[t] = "idle", pc'[t] # "idle"
  PROVE  \/ pc'[t] = "register" /\ call'[t].sess \in Sessions \ issued
         \/ pc'[t] \in Entered \ {"register"} /\ call'[t].sess \in known
<1>1. Begin(t)
  BY StepAtSection DEF AtSection
<1>2. CASE StartGenerateKey(t)
  BY <1>2 DEF StartGenerateKey, Enter, Goto, NoCall, TypeOK, CallTypeOK
<1>3. ASSUME NEW s \in Sessions, NEW c, NEW label \in Entered \ {"register"}, s \in known,
             c.sess = s, Enter(t, c, label)
      PROVE  pc'[t] \in Entered \ {"register"} /\ call'[t].sess \in known
  BY <1>3 DEF Enter, Goto, TypeOK, CallTypeOK
<1>4. ASSUME NEW s \in Sessions, NEW r \in Records, RecordLookup(t, s, r)
      PROVE  pc'[t] \in Entered \ {"register"} /\ call'[t].sess \in known
  <2> DEFINE c == [NoCall EXCEPT !.sess = s, !.key = keyHandle[s], !.rec = r]
  <2>1. s \in known /\ Enter(t, c, "readKey")
    BY <1>4 DEF RecordLookup
  <2>2. c.sess = s
    BY DEF NoCall
  <2> HIDE DEF c
  <2> QED
    BY <1>3, <2>1, <2>2 DEF Entered
<1>5. ASSUME NEW s \in Sessions, NEW h \in Stakeholders, RevokeLookup(t, s, h)
      PROVE  pc'[t] \in Entered \ {"register"} /\ call'[t].sess \in known
  <2> DEFINE c == [NoCall EXCEPT !.sess = s, !.who = h]
  <2>1. s \in known /\ Enter(t, c, "revoke")
    BY <1>5 DEF RevokeLookup
  <2>2. c.sess = s
    BY DEF NoCall
  <2> HIDE DEF c
  <2> QED
    BY <1>3, <2>1, <2>2 DEF Entered
<1>6. ASSUME NEW s \in Sessions, EndLookup(t, s)
      PROVE  pc'[t] \in Entered \ {"register"} /\ call'[t].sess \in known
  <2> DEFINE c == [NoCall EXCEPT !.sess = s, !.key = keyHandle[s]]
  <2>1. s \in known /\ Enter(t, c, "logBurnStarted")
    BY <1>6 DEF EndLookup
  <2>2. c.sess = s
    BY DEF NoCall
  <2> HIDE DEF c
  <2> QED
    BY <1>3, <2>1, <2>2 DEF Entered
<1>7. ASSUME NEW s \in Sessions, FallbackEnter(t, s)
      PROVE  pc'[t] \in Entered \ {"register"} /\ call'[t].sess \in known
  <2> DEFINE c == [NoCall EXCEPT !.sess = s]
  <2>1. s \in known /\ Enter(t, c, "logFallback")
    BY <1>7 DEF FallbackEnter
  <2>2. c.sess = s
    BY DEF NoCall
  <2> HIDE DEF c
  <2> QED
    BY <1>3, <2>1, <2>2 DEF Entered
<1> QED
  BY <1>1, <1>2, <1>4, <1>5, <1>6, <1>7 DEF Begin

LEMMA StepKnown ==
  ASSUME TypeOK, KnownInv, NEW t \in Threads, Begin(t) \/ Continue(t) \/ CallFails(t)
  PROVE  KnownInv' /\ known \subseteq known'
<1>0. Moves(t) /\ AtSection(t)
  BY StepMoves, StepAtSection
<1>a. \A u \in Threads \ {t} : pc'[u] = pc[u] /\ call'[u] = call[u]
  BY <1>0 DEF Moves, OthersStay
<1>b. \/ known' = known
      \/ pc[t] = "logManifestLoaded" /\ pc'[t] = "idle" /\ known' = known \cup {call[t].sess}
  <2>1. StartLogManifest(t) => /\ pc[t] = "logManifestLoaded" /\ pc'[t] = "idle"
                               /\ known' = known \cup {call[t].sess}
    BY DEF StartLogManifest, At, Return, TypeOK, CallTypeOK
  <2> QED
    BY <2>1, BeginFrame, StartFrame, RecordFrame, EndFrame, OtherFrame DEF Continue, envVars
<1>c. /\ known \subseteq issued
      /\ \A u \in Threads : /\ pc[u] # "idle" => call[u].sess \in Sessions
                            /\ pc[u] \in StartLabels => call[u].sess \in issued
  BY DEF TypeOK, EnvTypeOK, CallTypeOK
<1>d. ASSUME pc'[t] # "idle"
      PROVE  \/ pc'[t] = "register" /\ call'[t].sess \in Sessions \ issued
             \/ /\ pc'[t] \notin StartLabels /\ call'[t].sess \in known
             \/ /\ pc'[t] \in StartLabels /\ pc[t] \in StartLabels
                /\ call'[t].sess = call[t].sess
  <2>1. CASE pc[t] = "idle"
    BY <1>d, <2>1, StepEnters DEF Entered, StartLabels
  <2>2. CASE pc[t] # "idle"
    <3>1. <<pc[t], pc'[t]>> \in Flow /\ call'[t].sess = call[t].sess
      BY <1>0, <1>d, <2>2 DEF Moves, SameCall
    <3>2. pc[t] \in StartLabels <=> pc'[t] \in StartLabels
      BY <3>1 DEF Flow, StartLabels
    <3> QED
      BY <2>2, <3>1, <3>2 DEF KnownInv
  <2> QED
    BY <2>1, <2>2
<1>e. "idle" \notin StartLabels /\ "register" \in StartLabels /\ "logManifestLoaded" \in StartLabels
  BY DEF StartLabels
<1>1. ASSUME NEW u \in Threads, pc'[u] \in StartLabels PROVE call'[u].sess \notin known'
  BY <1>1, <1>a, <1>b, <1>c, <1>d, <1>e DEF KnownInv
<1>2. ASSUME NEW u \in Threads, pc'[u] \notin StartLabels \cup {"idle"}
      PROVE  call'[u].sess \in known'
  BY <1>2, <1>a, <1>b, <1>d, <1>e DEF KnownInv
<1>3. ASSUME NEW u \in Threads, NEW v \in Threads, pc'[u] \in StartLabels,
             pc'[v] \in StartLabels, call'[u].sess = call'[v].sess
      PROVE  u = v
  BY <1>3, <1>a, <1>c, <1>d, <1>e DEF KnownInv
<1>4. ASSUME NEW s \in Sessions, NEW i \in Rows(s)'
      PROVE  auditLog'[s][i].event \in {"SessionStart", "ManifestLoaded"} \/ s \in known'
  <2>1. CASE auditLog'[s] = auditLog[s]
    BY <1>4, <1>b, <2>1 DEF Rows, KnownInv
  <2>2. ASSUME NEW e, Wrote(t, e), s = call[t].sess
        PROVE  auditLog'[s][i].event \in {"SessionStart", "ManifestLoaded"} \/ s \in known'
    <3>1. Len(auditLog[s]) \in Nat /\ Rows(s) = 1 .. Len(auditLog[s])
      BY <2>2, RowWritten
    <3>2. Rows(s)' = 1 .. (Len(auditLog[s]) + 1)
      BY <2>2, RowWritten
    <3>3. auditLog'[s][Len(auditLog[s]) + 1] = e
      BY <2>2, RowWritten
    <3>4. \A j \in Rows(s) : auditLog'[s][j] = auditLog[s][j]
      BY <2>2, RowWritten
    <3>5. CASE i \in Rows(s)
      BY <1>b, <3>4, <3>5 DEF KnownInv
    <3>6. CASE i = Len(auditLog[s]) + 1
      <4>1. e.event \in {"SessionStart", "ManifestLoaded"} \/ pc[t] \notin StartLabels \cup {"idle"}
        BY <2>2 DEF Wrote, Writes, StartLabels
      <4> QED
        BY <1>b, <2>2, <3>3, <3>6, <4>1 DEF KnownInv
    <3> QED
      BY <1>4, <3>1, <3>2, <3>5, <3>6
  <2>3. ASSUME NEW e, Wrote(t, e), s # call[t].sess PROVE auditLog'[s] = auditLog[s]
    BY <2>3, RowWritten
  <2> QED
    BY <2>1, <2>2, <2>3, StepLogs DEF Logs
<1> QED
  BY <1>1, <1>2, <1>3, <1>4, <1>b DEF KnownInv

(* A start that has reached the table holds the key of its session, which  *)
(* is in the table and which nobody knows yet.                             *)
StartedInv ==
  \A t \in Threads :
    pc[t] \in StartLabels \ BeforeInsert =>
      call[t].sess \in activeSessions /\ keyHandle[call[t].sess] = call[t].key

LeakInv == StartedInv /\ IsFiniteSet(LeakedKeys) /\ OnlyFailedStartsLeak

LEMMA StepStarted ==
  ASSUME TypeOK, SealInv, KnownInv, StartedInv, NEW t \in Threads,
         Begin(t) \/ Continue(t) \/ CallFails(t)
  PROVE  StartedInv'
<1>0. Moves(t) /\ AtSection(t)
  BY StepMoves, StepAtSection
<1> SUFFICES ASSUME NEW u \in Threads, pc'[u] \in StartLabels \ BeforeInsert
             PROVE  call'[u].sess \in activeSessions' /\ keyHandle'[call'[u].sess] = call'[u].key
  BY DEF StartedInv
<1>1. CASE u = t
  <2>1. <<pc[t], pc'[t]>> \in Flow /\ SameCall(t) /\ pc[t] \in StartLabels
    BY <1>0, <1>1 DEF Moves, Flow, Entered, StartLabels, BeforeInsert
  <2>2. call[t].sess \in Sessions
    BY <2>1 DEF TypeOK, CallTypeOK, StartLabels
  <2>3. CASE pc[t] = "insertSession"
    <3>1. StartInsertSession(t)
      BY <1>0, <2>3 DEF AtSection
    <3>2. call[t].sess \in activeSessions' /\ keyHandle'[call[t].sess] = call[t].key
      BY <2>2, <3>1 DEF StartInsertSession, TypeOK, SessionTypeOK
    <3> QED
      BY <1>1, <2>1, <3>2 DEF SameCall
  <2>4. CASE pc[t] # "insertSession"
    <3>1. pc[t] \in StartLabels \ BeforeInsert
      BY <1>1, <2>1, <2>4 DEF Flow, BeforeInsert, StartLabels
    <3>2. UNCHANGED <<activeSessions, keyHandle>>
      <4>1. StartStep(t) \/ CallFails(t)
        BY <2>1
        DEF StartLabels, Continue, Begin, StartGenerateKey, RecordLookup, RevokeLookup, EndLookup,
            FallbackEnter, RecordStep, RecordReadKey, RecordKeyDestroyed, RecordStoreBlob,
            RecordLogGenerated, RecordEvaluate, RecordNoEvaluator, RecordLogUndeclared,
            RecordRoute, RecordCount, LogThen, EndStep, EndLogBurnStarted, BurnLogical,
            BurnDestroyKey, BurnOverwrite, BurnZero, BurnForgetKey, BurnForgetData,
            BurnVerifyHsm, BurnVerifyStore, BurnVerifyKeys, BurnVerify, BurnStore,
            EndLogBurnCompleted, EndLogSessionEnd, EndRemoveSession, EndRemoveEvaluator,
            EndCount, Revoke, RevokeLog, FallbackLog, At
      <4> QED
        BY <2>4, <4>1, StartFrame, OtherFrame
        DEF StartInsertSession, StartInsertEvaluator, At, sessionVars
    <3> QED
      BY <1>1, <2>1, <3>1, <3>2 DEF SameCall, StartedInv
  <2> QED
    BY <2>3, <2>4
<1>2. CASE u # t
  <2> PICK s : s = call[u].sess
    OBVIOUS
  <2>1. pc'[u] = pc[u] /\ call'[u] = call[u]
    BY <1>0, <1>2 DEF Moves, OthersStay
  <2>2. s \in Sessions /\ s \in activeSessions /\ keyHandle[s] = call[u].key /\ s \notin known
    BY <2>1 DEF StartedInv, KnownInv, TypeOK, CallTypeOK, StartLabels
  <2>3. keyHandle'[s] = keyHandle[s]
    <3>1. keyHandle[s] # NoHandle
      BY <2>2 DEF SealInv, TableInv
    <3> QED
      BY <2>2, <3>1, StepKeys DEF KeyStep
  <2>4. s \in activeSessions'
    <3>1. CASE EndRemoveSession(t)
      <4>1. call[t].sess \in known
        BY <3>1 DEF EndRemoveSession, At, KnownInv, StartLabels
      <4> QED
        BY <2>2, <3>1, <4>1 DEF EndRemoveSession
    <3>2. CASE StartInsertSession(t)
      BY <2>2, <3>2 DEF StartInsertSession
    <3>3. EndRemoveSession(t) \/ StartInsertSession(t) \/ UNCHANGED activeSessions
      BY BeginFrame, StartFrame, RecordFrame, EndFrame, OtherFrame
      DEF Continue, sessionVars, StartInsertEvaluator, EndRemoveEvaluator
    <3> QED
      BY <2>2, <3>1, <3>2, <3>3
  <2> QED
    BY <2>1, <2>2, <2>3, <2>4
<1> QED
  BY <1>1, <1>2

(* Only a failing call spends from the budget of failures. *)
LEMMA StepFaults ==
  ASSUME TypeOK, NEW t \in Threads, Begin(t) \/ Continue(t) \/ CallFails(t)
  PROVE  /\ FaultsSpent \in Int
         /\ FaultsSpent' = IF CallFails(t) THEN FaultsSpent + 1 ELSE FaultsSpent
<1>0. Budget["fault"] \in Nat /\ budget \in [{"end", "revoke", "fallback", "fault"} -> Nat]
  BY GatewayAssumption DEF TypeOK, EnvTypeOK
<1>1. CASE CallFails(t)
  <2>1. budget'["fault"] = budget["fault"] - 1
    BY <1>0, <1>1 DEF CallFails, Spend
  <2> QED
    BY <1>0, <1>1, <2>1 DEF FaultsSpent
<1>2. ASSUME ~CallFails(t) PROVE budget'["fault"] = budget["fault"]
  <2>1. CASE Begin(t)
    BY <1>0, <2>1
    DEF Begin, StartGenerateKey, RecordLookup, RevokeLookup, EndLookup, FallbackEnter, Spend
  <2>2. CASE Revoke(t) \/ RevokeLog(t) \/ FallbackLog(t)
    BY <2>2 DEF Revoke, RevokeLog, FallbackLog, envVars
  <2> QED
    BY <1>2, <2>1, <2>2, StartFrame, RecordFrame, EndFrame DEF Continue, envVars
<1> QED
  BY <1>0, <1>1, <1>2 DEF FaultsSpent

(* A live key that leaks with a step is that of a start the step breaks    *)
(* off.                                                                    *)
LEMMA StepLeaks ==
  ASSUME TypeOK, SealInv, KnownInv, StartedInv, NEW t \in Threads,
         Begin(t) \/ Continue(t) \/ CallFails(t), NEW h \in LeakedKeys'
  PROVE  \/ h \in LeakedKeys
         \/ CallFails(t) /\ pc[t] \in StartLabels /\ h = call[t].key
<1>0. Moves(t) /\ AtSection(t)
  BY StepMoves, StepAtSection
<1>a. h \in DOMAIN keys' /\ keys'[h] = "Active" /\ ~Burnable(h)' /\ ~BeingStarted(h)'
  BY DEF LeakedKeys
<1>1. CASE h \in DOMAIN keys /\ keys[h] = "Active"
  <2>0. h # NoHandle
    BY <1>1 DEF TypeOK, DataTypeOK, HsmTypeOK, NoHandle
  <2>1. ~Burnable(h)
    <3>1. SUFFICES ASSUME NEW s \in known \cap activeSessions, keyHandle[s] = h PROVE FALSE
      BY DEF Burnable
    <3>2. s \in Sessions /\ s \in known'
      BY StepKnown DEF TypeOK, EnvTypeOK
    <3>3. keyHandle'[s] = h
      BY <2>0, <3>1, <3>2, StepKeys DEF KeyStep
    <3>4. CASE EndRemoveSession(t) /\ s = call[t].sess
      <4>1. pc[t] = "removeSession"
        BY <3>4 DEF EndRemoveSession, At
      <4>2. call[t].key = keyHandle[s] /\ ~IsKeyActive(call[t].key)
        BY <3>4, <4>1 DEF SealInv, CallInv, ThreadInv, AfterKeyLayer, EndLabels
      <4> QED
        BY <1>1, <3>1, <4>2 DEF IsKeyActive
    <3>5. CASE ~(EndRemoveSession(t) /\ s = call[t].sess)
      <4>1. EndRemoveSession(t) \/ StartInsertSession(t) \/ UNCHANGED activeSessions
        BY BeginFrame, StartFrame, RecordFrame, EndFrame, OtherFrame
        DEF Continue, sessionVars, StartInsertEvaluator, EndRemoveEvaluator
      <4>2. s \in activeSessions'
        BY <3>1, <3>5, <4>1 DEF EndRemoveSession, StartInsertSession
      <4> QED
        BY <1>a, <3>2, <3>3, <4>2 DEF Burnable
    <3> QED
      BY <3>4, <3>5
  <2>2. ASSUME BeingStarted(h)
        PROVE  CallFails(t) /\ pc[t] \in StartLabels /\ h = call[t].key
    <3>1. PICK u \in Threads : pc[u] \in StartLabels /\ call[u].key = h
      BY <2>2 DEF BeingStarted
    <3>2. CASE u # t
      BY <1>0, <1>a, <3>1, <3>2 DEF Moves, OthersStay, BeingStarted
    <3>3. CASE u = t
      <4>1. pc'[t] \notin StartLabels \/ ~SameCall(t)
        BY <1>a, <3>1, <3>3 DEF BeingStarted, SameCall
      <4>2. pc'[t] = "idle"
        BY <1>0, <3>1, <3>3, <4>1 DEF Moves, Flow, StartLabels
      <4>3. CASE CallFails(t)
        BY <3>1, <3>3, <4>3
      <4>4. CASE StartLogManifest(t)
        <5> PICK s : s = call[t].sess
          OBVIOUS
        <5>1. pc[t] = "logManifestLoaded" /\ known' = known \cup {s}
              /\ UNCHANGED <<activeSessions, keyHandle>>
          BY <4>4 DEF StartLogManifest, At, sessionVars
        <5>2. s \in activeSessions /\ keyHandle[s] = h
          BY <3>1, <3>3, <5>1 DEF StartedInv, StartLabels, BeforeInsert
        <5> QED
          BY <1>a, <5>1, <5>2 DEF Burnable
      <4>5. CallFails(t) \/ StartLogManifest(t)
        <5>1. pc[t] # "idle" /\ ~Begin(t)
          BY <3>1, <3>3
          DEF StartLabels, Begin, StartGenerateKey, RecordLookup, RevokeLookup, EndLookup,
              FallbackEnter, At
        <5>2. StartStep(t) \/ CallFails(t)
          BY <3>1, <3>3, <5>1
          DEF StartLabels, Continue, RecordStep, RecordReadKey, RecordKeyDestroyed,
              RecordStoreBlob, RecordLogGenerated, RecordEvaluate, RecordNoEvaluator,
              RecordLogUndeclared, RecordRoute, RecordCount, LogThen, EndStep,
              EndLogBurnStarted, BurnLogical, BurnDestroyKey, BurnOverwrite, BurnZero,
              BurnForgetKey, BurnForgetData, BurnVerifyHsm, BurnVerifyStore, BurnVerifyKeys,
              BurnVerify, BurnStore, EndLogBurnCompleted, EndLogSessionEnd, EndRemoveSession,
              EndRemoveEvaluator, EndCount, Revoke, RevokeLog, FallbackLog, At
        <5> QED
          BY <4>2, <5>2
          DEF StartStep, StartRegister, StartInsertSession, StartInsertEvaluator, StartCount,
              StartLogSession, LogThen, Goto, At, TypeOK, CallTypeOK
      <4> QED
        BY <4>3, <4>4, <4>5
    <3> QED
      BY <3>2, <3>3
  <2> QED
    BY <1>1, <2>1, <2>2 DEF LeakedKeys
<1>2. CASE ~(h \in DOMAIN keys /\ keys[h] = "Active")
  <2>1. StartGenerateKey(t)
    <3>1. UNCHANGED keys => FALSE
      BY <1>a, <1>2
    <3>2. BurnDestroyKey(t) => FALSE
      <4>1. SUFFICES ASSUME BurnDestroyKey(t) PROVE FALSE
        OBVIOUS
      <4>2. PICK k : DestroyKey(k)
        BY <4>1 DEF BurnDestroyKey
      <4>3. IsKeyActive(h)' => IsKeyActive(h)
        BY <4>2, DestroyKeyEffect DEF TypeOK, DataTypeOK
      <4> QED
        BY <1>a, <1>2, <4>3 DEF IsKeyActive
    <3> QED
      BY <3>1, <3>2, BeginFrame, StartFrame, RecordFrame, EndFrame, OtherFrame
      DEF Continue, hsmVars, dataVars
  <2>2. h = nextHandle
    BY <1>a, <1>2, <2>1, GenerateKeyEffect DEF StartGenerateKey, TypeOK, DataTypeOK
  <2>3. pc'[t] = "register" /\ call'[t].key = nextHandle
    BY <2>1 DEF StartGenerateKey, Enter, Goto, NoCall, TypeOK, CallTypeOK
  <2> QED
    BY <1>a, <2>2, <2>3 DEF BeingStarted, StartLabels
<1> QED
  BY <1>1, <1>2

(* It is the key of a session that stays in the table, unknown.            *)
LEMMA StepLeakedSessions ==
  ASSUME TypeOK, SealInv, KnownInv, StartedInv, OnlyFailedStartsLeak, NEW t \in Threads,
         Begin(t) \/ Continue(t) \/ CallFails(t), NEW h \in LeakedKeys'
  PROVE  \E s \in activeSessions' \ known' : keyHandle'[s] = h
<1>1. CASE h \in LeakedKeys
  <2>1. PICK s \in activeSessions \ known : keyHandle[s] = h
    BY <1>1 DEF OnlyFailedStartsLeak
  <2>2. s \in Sessions /\ h # NoHandle
    BY <2>1 DEF TypeOK, SessionTypeOK, SealInv, TableInv
  <2>3. keyHandle'[s] = h
    BY <2>1, <2>2, StepKeys DEF KeyStep
  <2>4. s \in activeSessions'
    <3>1. EndRemoveSession(t) => call[t].sess \in known
      BY DEF EndRemoveSession, At, KnownInv, StartLabels
    <3>2. EndRemoveSession(t) \/ StartInsertSession(t) \/ UNCHANGED activeSessions
      BY BeginFrame, StartFrame, RecordFrame, EndFrame, OtherFrame
      DEF Continue, sessionVars, StartInsertEvaluator, EndRemoveEvaluator
    <3> QED
      BY <2>1, <3>1, <3>2 DEF EndRemoveSession, StartInsertSession
  <2>5. s \notin known'
    <3>1. CASE StartLogManifest(t)
      <4>1. pc[t] = "logManifestLoaded" /\ known' = known \cup {call[t].sess}
        BY <3>1 DEF StartLogManifest, At
      <4>2. keyHandle[call[t].sess] = call[t].key /\ ~BeingStarted(h)
        BY <1>1, <4>1 DEF StartedInv, StartLabels, BeforeInsert, LeakedKeys
      <4>3. call[t].key # h
        BY <4>1, <4>2 DEF BeingStarted, StartLabels
      <4> QED
        BY <2>1, <4>1, <4>2, <4>3
    <3>2. StartLogManifest(t) \/ UNCHANGED known
      BY BeginFrame, StartFrame, RecordFrame, EndFrame, OtherFrame DEF Continue, envVars
    <3> QED
      BY <2>1, <3>1, <3>2
  <2> QED
    BY <2>3, <2>4, <2>5
<1>2. CASE CallFails(t) /\ pc[t] \in StartLabels /\ h = call[t].key
  <2>1. pc[t] \in StartLabels \ BeforeInsert
    BY <1>2 DEF CallFails, LogLabels, StartLabels, BeforeInsert
  <2>2. /\ call[t].sess \in activeSessions \ known /\ keyHandle[call[t].sess] = h
        /\ UNCHANGED <<activeSessions, keyHandle, known>>
    BY <1>2, <2>1 DEF StartedInv, KnownInv, CallFails, sessionVars
  <2> QED
    BY <2>2
<1> QED
  BY <1>1, <1>2, StepLeaks

(* Each failure adds one key at most to those that leak.                   *)
LEMMA StepLeakInv ==
  ASSUME TypeOK, SealInv, KnownInv, LeakInv, NEW t \in Threads,
         Begin(t) \/ Continue(t) \/ CallFails(t)
  PROVE  LeakInv'
<1> USE DEF LeakInv
<1>1. StartedInv'
  BY StepStarted
<1>2. LeakedKeys' \subseteq {keyHandle'[s] : s \in activeSessions' \ known'}
  BY StepLeakedSessions
<1>3. PICK L : L = LeakedKeys
  OBVIOUS
<1>4. IsFiniteSet(L) /\ Cardinality(L) \in Nat /\ Cardinality(L) <= FaultsSpent
  BY <1>3, FS_CardinalityType DEF OnlyFailedStartsLeak
<1>5. CASE LeakedKeys' \subseteq L
  <2>1. IsFiniteSet(LeakedKeys') /\ Cardinality(LeakedKeys') <= Cardinality(L)
    BY <1>4, <1>5, FS_Subset
  <2>2. /\ Cardinality(LeakedKeys') \in Nat /\ FaultsSpent \in Int /\ FaultsSpent' \in Int
        /\ FaultsSpent' >= FaultsSpent
    BY <2>1, FS_CardinalityType, StepFaults
  <2> QED
    <3>1. Cardinality(LeakedKeys') <= FaultsSpent'
      BY <1>4, <2>1, <2>2
    <3> QED
      BY <1>1, <1>2, <2>1, <3>1, Zenon DEF OnlyFailedStartsLeak
<1>6. CASE CallFails(t)
  <2> PICK k : k = call[t].key
    OBVIOUS
  <2>1. LeakedKeys' \subseteq L \cup {k}
    BY <1>3, StepLeaks
  <2>2. /\ IsFiniteSet(L \cup {k}) /\ Cardinality(L \cup {k}) \in Nat
        /\ Cardinality(L \cup {k}) <= Cardinality(L) + 1
    <3>1. /\ IsFiniteSet(L \cup {k})
          /\ Cardinality(L \cup {k}) = IF k \in L THEN Cardinality(L) ELSE Cardinality(L) + 1
      BY <1>4, FS_AddElement, Zenon
    <3> QED
      BY <1>4, <3>1
  <2>3. IsFiniteSet(LeakedKeys') /\ Cardinality(LeakedKeys') <= Cardinality(L \cup {k})
    BY <2>1, <2>2, FS_Subset
  <2>4. /\ Cardinality(LeakedKeys') \in Nat /\ FaultsSpent \in Int
        /\ FaultsSpent' = FaultsSpent + 1
    BY <1>6, <2>3, FS_CardinalityType, StepFaults
  <2> QED
    <3>1. Cardinality(LeakedKeys') <= FaultsSpent'
      BY <1>4, <2>2, <2>3, <2>4
    <3> QED
      BY <1>1, <1>2, <2>3, <3>1, Zenon DEF OnlyFailedStartsLeak
<1> QED
  BY <1>3, <1>5, <1>6, StepLeaks

(* Every step keeps what is known of the keys that leak.                   *)
LEMMA NextLeakInv ==
  TypeOK /\ SealInv /\ KnownInv /\ LeakInv /\ [Next]_vars => KnownInv' /\ LeakInv'
<1> SUFFICES ASSUME TypeOK, SealInv, KnownInv, LeakInv, [Next]_vars PROVE KnownInv' /\ LeakInv'
  OBVIOUS
<1>1. CASE UNCHANGED vars
  <2>1. KnownInv' /\ StartedInv'
    BY <1>1 DEF vars, sessionVars, envVars, KnownInv, LeakInv, StartedInv, Rows
  <2>2. LeakedKeys' = LeakedKeys /\ FaultsSpent' = FaultsSpent
    BY <1>1 DEF vars, dataVars, hsmVars, sessionVars, envVars, LeakedKeys, Burnable,
                BeingStarted, FaultsSpent
  <2>3. UNCHANGED <<keyHandle, activeSessions, known>>
    BY <1>1 DEF vars, sessionVars, envVars
  <2> QED
    BY <2>1, <2>2, <2>3 DEF LeakInv, OnlyFailedStartsLeak
<1> QED
  BY <1>1, StepKnown, StepLeakInv DEF Next

(* A live key belongs to a session whose caller can end it, or to a start  *)
(* under way, or to one of the starts that failed, each of which leaks one *)
(* key at most, whatever calls overlap (gateway/mod.rs: start_session,     *)
(* end_session).                                                           *)
THEOREM OnlyFailedStartsLeakHolds == Spec => []OnlyFailedStartsLeak
<1>1. Init => KnownInv /\ LeakInv
  <2> SUFFICES ASSUME Init PROVE KnownInv /\ LeakInv
    OBVIOUS
  <2>1. KnownInv /\ StartedInv
    BY DEF Init, KnownInv, StartedInv, Rows, StartLabels
  <2>2. LeakedKeys = {} /\ FaultsSpent = 0
    BY GatewayAssumption DEF Init, HsmInit, LeakedKeys, FaultsSpent
  <2>3. IsFiniteSet({}) /\ Cardinality({}) = 0
    BY FS_EmptySet
  <2> QED
    BY <2>1, <2>2, <2>3 DEF LeakInv, OnlyFailedStartsLeak
<1>2. Spec => [](TypeOK /\ SealInv)
  BY TypeCorrect, SealInvHolds, PTL
<1>3. LeakInv => OnlyFailedStartsLeak
  BY DEF LeakInv
<1> QED
  BY <1>1, <1>2, <1>3, NextLeakInv, PTL DEF Spec

-----------------------------------------------------------------------------
(* How a step changes who may certify a burn, and which certificates there *)
(* are.                                                                    *)
LEMMA StepVouches ==
  ASSUME TypeOK, NEW t \in Threads, Begin(t) \/ Continue(t) \/ CallFails(t),
         NEW s \in Sessions, NEW u \in Threads, Vouches(u, s)'
  PROVE  \/ Vouches(u, s) /\ ~(u = t /\ pc[t] = "logBurnCompleted")
         \/ u = t /\ BurnDestroyKey(t) /\ call[t].sess = s /\ IsKeyActive(call[t].key)
<1>1. Moves(t) /\ AtSection(t)
  BY StepMoves, StepAtSection
<1>2. CASE u # t
  BY <1>1, <1>2 DEF Moves, OthersStay, Vouches
<1>3. CASE u = t
  <2>1. /\ pc[t] \in {"layer2", "layer3", "layer4", "layer5keys", "layer5data", "layer6hsm",
                      "layer6store", "layer6keys"}
        /\ call'[t].sess = call[t].sess /\ call'[t].sess = s
    BY <1>1, <1>3 DEF Moves, Flow, Entered, SameCall, Vouches, AfterDestroy
  <2>2. call[t] \in Call
    BY DEF TypeOK, CallTypeOK
  <2>3. CASE pc[t] = "layer2"
    <3>1. BurnDestroyKey(t)
      BY <1>1, <2>3 DEF AtSection
    <3>2. call'[t].ok = IsKeyActive(call[t].key)
      BY <2>2, <3>1 DEF BurnDestroyKey, Enter, TypeOK, CallTypeOK, Call
    <3> QED
      BY <1>3, <2>1, <3>1, <3>2 DEF Vouches
  <2>4. CASE pc[t] # "layer2"
    <3>1. ~Begin(t) /\ ~StartStep(t) /\ ~RecordStep(t) /\ ~CallFails(t)
      BY <2>1
      DEF Begin, StartGenerateKey, RecordLookup, RevokeLookup, EndLookup, FallbackEnter,
          StartStep, StartRegister, StartInsertSession, StartInsertEvaluator, StartCount,
          StartLogSession, StartLogManifest, LogThen, RecordStep, RecordReadKey,
          RecordKeyDestroyed, RecordStoreBlob, RecordLogGenerated, RecordEvaluate,
          RecordNoEvaluator, RecordLogUndeclared, RecordRoute, RecordCount, CallFails,
          LogLabels, At
    <3>2. ~Revoke(t) /\ ~RevokeLog(t) /\ ~FallbackLog(t)
      BY <2>1 DEF Revoke, RevokeLog, FallbackLog, At
    <3>3. EndStep(t)
      BY <3>1, <3>2 DEF Continue
    <3>4. CASE BurnVerifyHsm(t) \/ BurnVerifyStore(t) \/ BurnVerifyKeys(t)
      <4>1. PICK passed, to : Enter(t, [call[t] EXCEPT !.ok = @ /\ passed], to)
        BY <3>4 DEF BurnVerifyHsm, BurnVerifyStore, BurnVerifyKeys, BurnVerify
      <4>2. call'[t].ok = (call[t].ok /\ passed)
        BY <2>2, <4>1 DEF Enter, TypeOK, CallTypeOK, Call
      <4> QED
        BY <1>3, <2>1, <2>4, <4>2 DEF Vouches, AfterDestroy
    <3>5. CASE UNCHANGED call
      BY <1>3, <2>1, <2>4, <3>5 DEF Vouches, AfterDestroy
    <3>6. BurnVerifyHsm(t) \/ BurnVerifyStore(t) \/ BurnVerifyKeys(t) \/ UNCHANGED call
      BY <2>1, <2>4, <3>3
      DEF EndStep, EndLogBurnStarted, BurnLogical, BurnDestroyKey, BurnOverwrite, BurnZero,
          BurnForgetKey, BurnForgetData, BurnStore, EndLogBurnCompleted, EndLogSessionEnd,
          EndRemoveSession, EndRemoveEvaluator, EndCount, LogThen, At
    <3> QED
      BY <3>4, <3>5, <3>6
  <2> QED
    BY <2>3, <2>4
<1> QED
  BY <1>2, <1>3

LEMMA StepCertificates ==
  ASSUME TypeOK, NEW t \in Threads, Begin(t) \/ Continue(t) \/ CallFails(t),
         NEW s \in Sessions
  PROVE  \/ Certificates(s)' = Certificates(s)
         \/ /\ pc[t] = "logBurnCompleted" /\ Vouches(t, s)
            /\ \E n : Certificates(s)' = Certificates(s) \cup {n}
<1>1. CASE auditLog'[s] = auditLog[s]
  BY <1>1 DEF Certificates, Rows
<1>2. ASSUME NEW e, Wrote(t, e), s = call[t].sess
      PROVE  \/ Certificates(s)' = Certificates(s)
             \/ /\ pc[t] = "logBurnCompleted" /\ Vouches(t, s)
                /\ \E n : Certificates(s)' = Certificates(s) \cup {n}
  <2>1. /\ Len(auditLog[s]) \in Nat /\ Rows(s) = 1 .. Len(auditLog[s])
        /\ Rows(s)' = 1 .. (Len(auditLog[s]) + 1)
        /\ auditLog'[s][Len(auditLog[s]) + 1] = e
        /\ \A i \in Rows(s) : auditLog'[s][i] = auditLog[s][i]
    <3>1. Len(auditLog[s]) \in Nat /\ Rows(s) = 1 .. Len(auditLog[s])
      BY <1>2, RowWritten
    <3>2. Rows(s)' = 1 .. (Len(auditLog[s]) + 1)
      BY <1>2, RowWritten
    <3>3. auditLog'[s][Len(auditLog[s]) + 1] = e
      BY <1>2, RowWritten
    <3>4. \A i \in Rows(s) : auditLog'[s][i] = auditLog[s][i]
      BY <1>2, RowWritten
    <3> QED
      BY <3>1, <3>2, <3>3, <3>4
  <2>2. Certificates(s)' = {i \in Rows(s)' : auditLog'[s][i].event = "BurnCompleted"
                                              /\ auditLog'[s][i].ok}
    BY DEF Certificates
  <2>3. CASE e.event = "BurnCompleted" /\ e.ok
    <3>1. Certificates(s)' = Certificates(s) \cup {Len(auditLog[s]) + 1}
      <4>1. Certificates(s)' \subseteq Certificates(s) \cup {Len(auditLog[s]) + 1}
        BY <2>1, <2>2 DEF Certificates
      <4>2. Certificates(s) \cup {Len(auditLog[s]) + 1} \subseteq Certificates(s)'
        BY <2>1, <2>2, <2>3 DEF Certificates
      <4> QED
        BY <4>1, <4>2
    <3>2. pc[t] = "logBurnCompleted" /\ e.ok = call[t].ok
      BY <1>2, <2>3 DEF Wrote, Writes
    <3>3. Vouches(t, s)
      BY <1>2, <2>3, <3>2 DEF Vouches, AfterDestroy
    <3> QED
      BY <3>1, <3>2, <3>3
  <2>4. CASE ~(e.event = "BurnCompleted" /\ e.ok)
    <3>1. Certificates(s)' \subseteq Certificates(s)
      BY <2>1, <2>2, <2>4 DEF Certificates
    <3>2. Certificates(s) \subseteq Certificates(s)'
      BY <2>1, <2>2 DEF Certificates
    <3> QED
      BY <3>1, <3>2
  <2> QED
    BY <2>3, <2>4
<1>3. ASSUME NEW e, Wrote(t, e), s # call[t].sess
      PROVE  auditLog'[s] = auditLog[s]
  BY <1>3, RowWritten
<1> QED
  BY <1>1, <1>2, <1>3, StepLogs DEF Logs

LEMMA StepCertInv ==
  ASSUME TypeOK, SealInv, NEW t \in Threads, Begin(t) \/ Continue(t) \/ CallFails(t),
         NEW s \in Sessions, CertInv(s)
  PROVE  CertInv(s)'
<1> DEFINE Sealed == keyHandle[s] # NoHandle /\ ~IsKeyActive(keyHandle[s])
<1>a. HandleStep(t, s) /\ KeyStep(t, s) /\ MapStep(t, s)
  BY StepKeys, StepMaps
<1>b. Moves(t) /\ AtSection(t)
  BY StepMoves, StepAtSection
<1>c. \A u \in Threads : Vouches(u, s) => Sealed
  BY DEF Vouches, AfterDestroy, SealInv, CallInv, ThreadInv, AfterKeyLayer, EndLabels
<1>d. Sealed => keyHandle'[s] # NoHandle /\ ~IsKeyActive(keyHandle[s])'
  <2>1. SUFFICES ASSUME Sealed, BurnDestroyKey(t) \/ UNCHANGED keyHandle[s]
                 PROVE  keyHandle'[s] # NoHandle /\ ~IsKeyActive(keyHandle[s])'
    BY <1>a DEF KeyStep
  <2> QED
    BY <1>a, <2>1 DEF KeyStep
<1>e. /\ BurnDestroyKey(t) /\ call[t].sess = s /\ IsKeyActive(call[t].key) => ~Sealed
      /\ BurnDestroyKey(t) => pc[t] = "layer2"
  BY DEF BurnDestroyKey, At, SealInv, CallInv, ThreadInv, EndLabels
<1>f. keyHandle[s] # NoHandle /\ sessionKeys[s] = NoHandle => sessionKeys'[s] = NoHandle
  BY <1>a DEF MapStep, StartRegister, At, SealInv, CallInv, ThreadInv, BeforeInsert
<1>g. Certificates(s)' = Certificates(s) \/ (pc[t] = "logBurnCompleted" /\ Vouches(t, s))
  BY StepCertificates
<1>h. \A u \in Threads :
        Vouches(u, s)' =>
          \/ Vouches(u, s) /\ ~(u = t /\ pc[t] = "logBurnCompleted")
          \/ u = t /\ BurnDestroyKey(t) /\ call[t].sess = s /\ IsKeyActive(call[t].key)
  BY StepVouches
<1>i. Certificates(s) # {} => Sealed /\ sessionKeys[s] = NoHandle
  BY DEF CertInv
<1> HIDE DEF Sealed
<1>1. \A u, v \in Threads : Vouches(u, s)' /\ Vouches(v, s)' => u = v
  BY <1>c, <1>e, <1>h DEF CertInv
<1>2. ASSUME NEW u \in Threads, Vouches(u, s)' PROVE Certificates(s)' = {}
  <2>1. CASE Vouches(u, s) /\ ~(u = t /\ pc[t] = "logBurnCompleted")
    BY <1>g, <2>1 DEF CertInv
  <2>2. CASE u = t /\ BurnDestroyKey(t) /\ call[t].sess = s /\ IsKeyActive(call[t].key)
    BY <1>e, <1>g, <1>i, <2>2
  <2> QED
    BY <1>2, <1>h, <2>1, <2>2
<1>3. \A i, j \in Certificates(s)' : i = j
  <2>1. CASE Certificates(s)' = Certificates(s)
    BY <2>1 DEF CertInv
  <2>2. ASSUME Vouches(t, s), NEW n, Certificates(s)' = Certificates(s) \cup {n}
        PROVE  \A i, j \in Certificates(s)' : i = j
    BY <2>2 DEF CertInv
  <2> QED
    BY <2>1, <2>2, StepCertificates
<1>4. ASSUME Certificates(s)' # {}
      PROVE  keyHandle'[s] # NoHandle /\ ~IsKeyActive(keyHandle[s])' /\ sessionKeys'[s] = NoHandle
  <2>1. Sealed /\ sessionKeys[s] = NoHandle
    <3>1. CASE Certificates(s) # {}
      BY <1>i, <3>1
    <3>2. CASE pc[t] = "logBurnCompleted" /\ Vouches(t, s)
      BY <1>c, <3>2 DEF CertInv, Vouches, AfterForget
    <3> QED
      BY <1>4, <1>g, <3>1, <3>2
  <2> QED
    BY <1>d, <1>f, <2>1 DEF Sealed
<1>5. ASSUME NEW u \in Threads, pc'[u] \in AfterForget, call'[u].sess = s
      PROVE  sessionKeys'[s] = NoHandle
  <2>1. CASE pc[u] \in AfterForget /\ call[u].sess = s
    <3>1. keyHandle[s] # NoHandle
      BY <2>1 DEF AfterForget, EndLabels, SealInv, CallInv, ThreadInv
    <3> QED
      BY <1>f, <2>1, <3>1 DEF CertInv
  <2>2. CASE u = t /\ pc[t] = "layer5keys" /\ call[t].sess = s
    BY <1>b, <2>2 DEF AtSection, BurnForgetKey, TypeOK, DataTypeOK
  <2> QED
    BY <1>5, <1>b, <2>1, <2>2 DEF Moves, OthersStay, Flow, Entered, SameCall, AfterForget
<1>6. CertInv(s)' <=>
        /\ \A u, v \in Threads : Vouches(u, s)' /\ Vouches(v, s)' => u = v
        /\ \A u \in Threads : Vouches(u, s)' => Certificates(s)' = {}
        /\ \A i, j \in Certificates(s)' : i = j
        /\ Certificates(s)' # {} =>
             keyHandle'[s] # NoHandle /\ ~IsKeyActive(keyHandle[s])' /\ sessionKeys'[s] = NoHandle
        /\ \A u \in Threads :
             pc'[u] \in AfterForget /\ call'[u].sess = s => sessionKeys'[s] = NoHandle
  BY DEF CertInv
<1> QED
  BY <1>1, <1>2, <1>3, <1>4, <1>5, <1>6

Certified == \A s \in Sessions : CertInv(s)

LEMMA NextCertified == TypeOK /\ SealInv /\ Certified /\ [Next]_vars => Certified'
<1> SUFFICES ASSUME TypeOK, SealInv, Certified, [Next]_vars PROVE Certified'
  OBVIOUS
<1>1. CASE UNCHANGED vars
  BY <1>1 DEF vars, dataVars, hsmVars, sessionVars, Certified, CertInv, Certificates, Rows,
              Vouches, IsKeyActive
<1>2. ASSUME NEW t \in Threads, Begin(t) \/ Continue(t) \/ CallFails(t),
             NEW s \in Sessions
      PROVE  CertInv(s)'
  BY <1>2, StepCertInv DEF Certified
<1> QED
  BY <1>1, <1>2 DEF Next, Certified

(* A session gets at most one certificate, and the certificate is true:    *)
(* key destroyed, mapping gone, nothing readable left (burn/mod.rs:        *)
(* burn_session; gateway/mod.rs: end_session, called by any threads).      *)
THEOREM CertificateHolds == Spec => []OneTrueCertificate
<1>1. Init => Certified
  BY DEF Init, Certified, CertInv, Certificates, Rows, Vouches, AfterDestroy, AfterForget
<1>2. Spec => [](TypeOK /\ SealInv)
  BY TypeCorrect, SealInvHolds, PTL
<1>3. SealInv /\ Certified => OneTrueCertificate
  <2> SUFFICES ASSUME SealInv, Certified, NEW s \in Sessions
               PROVE  /\ Cardinality(Certificates(s)) <= 1
                      /\ Certificates(s) # {} => /\ ~IsKeyActive(keyHandle[s])
                                                 /\ sessionKeys[s] = NoHandle
                                                 /\ Readable(s) = {}
    BY DEF OneTrueCertificate
  <2>1. Cardinality(Certificates(s)) <= 1
    <3>1. CASE Certificates(s) = {}
      BY <3>1, FS_EmptySet
    <3>2. ASSUME NEW i \in Certificates(s) PROVE Cardinality(Certificates(s)) <= 1
      <4>1. Certificates(s) = {i}
        BY <3>2 DEF Certified, CertInv
      <4>2. Cardinality({i}) = 1
        BY FS_Singleton
      <4> QED
        BY <4>1, <4>2
    <3> QED
      BY <3>1, <3>2
  <2>2. Certificates(s) # {} => ~IsKeyActive(keyHandle[s]) /\ sessionKeys[s] = NoHandle
    BY DEF Certified, CertInv
  <2>3. ~IsKeyActive(keyHandle[s]) => Readable(s) = {}
    BY DEF SealInv, StoreInv, Readable
  <2> QED
    BY <2>1, <2>2, <2>3
<1> QED
  BY <1>1, <1>2, <1>3, NextCertified, PTL DEF Spec

=============================================================================
