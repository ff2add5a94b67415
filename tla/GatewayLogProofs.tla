-------------------------- MODULE GatewayLogProofs --------------------------
(***************************************************************************)
(* The audit log tells what happened: every record reported as processed   *)
(* has its rows, and between calls the counters agree with the log.  The   *)
(* rows of a record are written by the one thread that carries it, so each *)
(* section of process_record fixes what they are.  And it bounds what can  *)
(* still be late when a session is ended, a stakeholder revoked or the     *)
(* fallback entered.                                                       *)
(***************************************************************************)
EXTENDS GatewayProofs

-----------------------------------------------------------------------------
(* The rows about one record, section by section.                          *)

(* The decisions so far are those about the entries no longer in todo,     *)
(* which come before those that are.                                       *)
DecidedSoFar(s, r, todo) ==
  LET served == Served(results[r])
  IN /\ todo # {} /\ todo \subseteq served
     /\ \A i \in Decisions(s, r) : auditLog[s][i].entry \in served \ todo
     /\ \A k \in served \ todo : \E i \in Decisions(s, r) : auditLog[s][i].entry = k
     /\ \A k \in served \ todo : \A j \in todo : k < j

(* What the log holds of the record thread t carries. *)
Logged(t, s, r) ==
  /\ \A x \in Sessions \ {s} : RecordRows(x, r) = {}
  /\ pc[t] \in {"readKey", "storeBlob", "logGenerated"} => RecordRows(s, r) = {}
  /\ pc[t] \in {"evaluate", "logUndeclared", "route"} => Announcements(s, r) # {}
  /\ pc[t] \in {"evaluate", "logUndeclared"} => Decisions(s, r) = {}
  /\ pc[t] = "logUndeclared" => Served(results[r]) = {}
  /\ pc[t] = "route" => call[t].views = results[r] /\ DecidedSoFar(s, r, call[t].todo)
  /\ pc[t] = "countRecord" => DecidedInFull(s, r)

(* A pending record is carried by one thread, and only its calls are about *)
(* a record.                                                               *)
CarryInv ==
  /\ \A t \in Threads : pc[t] \notin RecordLabels => call[t].rec = None
  /\ \A t \in Threads : pc[t] \in RecordLabels => outcome[call[t].rec] = "pending"
  /\ \A t, u \in Threads :
       pc[t] \in RecordLabels /\ call[u].rec = call[t].rec => u = t

RowsInv ==
  /\ \A r \in Records : outcome[r] = "new" => \A s \in Sessions : RecordRows(s, r) = {}
  /\ \A r \in Records : outcome[r] = "done" => \E s \in Sessions : DecidedInFull(s, r)
  /\ \A t \in Threads, s \in Sessions, r \in Records :
       pc[t] \in RecordLabels /\ call[t].sess = s /\ call[t].rec = r => Logged(t, s, r)
  /\ \A r \in Records, s \in Sessions : DecidedInOrder(s, r)

-----------------------------------------------------------------------------
(* What a step does to the outcomes and to the record its thread carries.  *)

Accepts(t, r) ==
  /\ pc[t] = "idle" /\ pc'[t] = "readKey" /\ call'[t].rec = r
  /\ outcome[r] = "new" /\ outcome' = [outcome EXCEPT ![r] = "pending"]

Refuses(t, r) ==
  /\ pc[t] = "idle" /\ UNCHANGED <<pc, call>> /\ outcome[r] = "new"
  /\ \E o \in {"error", "fallback"} : outcome' = [outcome EXCEPT ![r] = o]

Carries(t) ==
  /\ UNCHANGED outcome /\ call'[t].rec = call[t].rec
  /\ pc'[t] \in RecordLabels <=> pc[t] \in RecordLabels

Drops(t) ==
  /\ pc[t] \in RecordLabels /\ pc'[t] = "idle" /\ call'[t].rec = None
  /\ \E o \in {"error", "done"} :
       /\ o = "done" => pc[t] = "countRecord"
       /\ outcome' = [outcome EXCEPT ![call[t].rec] = o]

LEMMA StepOutcome ==
  ASSUME TypeOK, CarryInv, NEW t \in Threads, Begin(t) \/ Continue(t) \/ CallFails(t)
  PROVE  \/ Carries(t) \/ Drops(t)
         \/ \E r \in Records : Accepts(t, r) \/ Refuses(t, r)
<1>0. /\ Moves(t)
      /\ pc[t] \notin RecordLabels => call[t].rec = None
      /\ "idle" \notin RecordLabels
      /\ Entered \cap RecordLabels = {"readKey"}
  BY StepMoves DEF CarryInv, RecordLabels, Entered
<1>a. ASSUME Return(t) PROVE pc'[t] = "idle" /\ call'[t].rec = None
  BY <1>a DEF Return, NoCall, TypeOK, CallTypeOK
<1>b. ASSUME UNCHANGED outcome, <<pc[t], pc'[t]>> \in Flow, SameCall(t) PROVE Carries(t)
  BY <1>b DEF Carries, Flow, SameCall, RecordLabels
<1>c. ASSUME UNCHANGED outcome, pc[t] \notin RecordLabels, pc'[t] \notin RecordLabels,
             call'[t].rec = None
      PROVE  Carries(t)
  BY <1>0, <1>c DEF Carries
<1>1. CASE Begin(t)
  <2>1. ASSUME NEW s \in Sessions, NEW r \in Records, RecordLookup(t, s, r)
        PROVE  Accepts(t, r) \/ Refuses(t, r)
    <3>1. CASE UNCHANGED <<pc, call>>
      BY <2>1, <3>1 DEF RecordLookup, SetOutcome, Refuses, Enter, Goto, At, TypeOK, CallTypeOK
    <3>2. CASE SetOutcome(r, "pending")
      <4> DEFINE c == [NoCall EXCEPT !.sess = s, !.key = keyHandle[s], !.rec = r]
      <4>1. c.rec = r
        BY DEF NoCall
      <4>2. At(t, "idle") /\ outcome[r] = "new" /\ Enter(t, c, "readKey")
        BY <2>1, <3>2 DEF RecordLookup, SetOutcome, TypeOK, EnvTypeOK
      <4> HIDE DEF c
      <4> QED
        BY <3>2, <4>1, <4>2 DEF Accepts, SetOutcome, Enter, Goto, At, TypeOK, CallTypeOK
    <3> QED
      BY <2>1, <3>1, <3>2 DEF RecordLookup
  <2>2. CASE \A s \in Sessions : \A r \in Records : ~RecordLookup(t, s, r)
    <3>1. UNCHANGED outcome /\ pc[t] = "idle"
      BY <1>1, <2>2 DEF Begin, StartGenerateKey, EndLookup, RevokeLookup, FallbackEnter, At
    <3>2. CASE UNCHANGED <<pc, call>>
      BY <3>1, <3>2 DEF Carries
    <3>3. CASE \E c : \E label \in Entered \ {"readKey"} : c.rec = None /\ Enter(t, c, label)
      <4>1. pc'[t] \in Entered \ {"readKey"} /\ call'[t].rec = None
        BY <3>3 DEF Enter, Goto, TypeOK, CallTypeOK
      <4> QED
        BY <1>0, <1>c, <3>1, <4>1
    <3>4. ASSUME ~UNCHANGED <<pc, call>>
          PROVE  \E c : \E label \in Entered \ {"readKey"} : c.rec = None /\ Enter(t, c, label)
      <4> USE DEF Entered, NoCall
      <4>1. CASE StartGenerateKey(t)
        <5>1. PICK s, m : Enter(t, [NoCall EXCEPT !.sess = s, !.key = nextHandle,
                                                  !.manifest = m], "register")
          BY <4>1 DEF StartGenerateKey
        <5> DEFINE c == [NoCall EXCEPT !.sess = s, !.key = nextHandle, !.manifest = m]
        <5>2. c.rec = None
          OBVIOUS
        <5>3. Enter(t, c, "register")
          BY <5>1
        <5> HIDE DEF c
        <5> QED
          BY <5>2, <5>3
      <4>2. ASSUME NEW s \in Sessions, NEW h \in Stakeholders, RevokeLookup(t, s, h)
            PROVE  \E c : c.rec = None /\ Enter(t, c, "revoke")
        <5> DEFINE c == [NoCall EXCEPT !.sess = s, !.who = h]
        <5>1. c.rec = None /\ Enter(t, c, "revoke")
          BY <4>2 DEF RevokeLookup
        <5> QED
          BY <5>1
      <4>3. ASSUME NEW s \in Sessions, EndLookup(t, s)
            PROVE  \E c : c.rec = None /\ Enter(t, c, "logBurnStarted")
        <5> DEFINE c == [NoCall EXCEPT !.sess = s, !.key = keyHandle[s]]
        <5>1. c.rec = None /\ Enter(t, c, "logBurnStarted")
          BY <3>4, <4>3 DEF EndLookup
        <5> QED
          BY <5>1
      <4>4. ASSUME NEW s \in Sessions, FallbackEnter(t, s)
            PROVE  \E c : c.rec = None /\ Enter(t, c, "logFallback")
        <5> DEFINE c == [NoCall EXCEPT !.sess = s]
        <5>1. c.rec = None /\ Enter(t, c, "logFallback")
          BY <4>4 DEF FallbackEnter
        <5> QED
          BY <5>1
      <4> QED
        BY <1>1, <2>2, <4>1, <4>2, <4>3, <4>4 DEF Begin
    <3> QED
      BY <3>2, <3>3, <3>4
  <2> QED
    BY <2>1, <2>2
<1>2. ASSUME NEW o \in {"error", "done"}, pc[t] \in RecordLabels, Return(t),
             o = "done" => pc[t] = "countRecord", SetOutcome(call[t].rec, o)
      PROVE  Drops(t)
  BY <1>2, <1>a DEF Drops, SetOutcome
<1>3. CASE RecordStep(t)
  <2>1. CASE RecordKeyDestroyed(t) \/ RecordNoEvaluator(t)
    BY <1>2, <2>1 DEF RecordKeyDestroyed, RecordNoEvaluator, RecordFails, At, RecordLabels
  <2>2. CASE RecordCount(t)
    BY <1>2, <2>2 DEF RecordCount, At, RecordLabels
  <2>3. CASE /\ ~RecordKeyDestroyed(t) /\ ~RecordNoEvaluator(t) /\ ~RecordCount(t)
    <3>1. UNCHANGED outcome /\ pc[t] \in RecordLabels /\ pc'[t] \in RecordLabels
      BY <1>3, <2>3
      DEF RecordStep, RecordReadKey, RecordStoreBlob, RecordLogGenerated, RecordEvaluate,
          RecordLogUndeclared, RecordRoute, LogThen, Enter, Goto, At, envVars, TypeOK,
          CallTypeOK, RecordLabels
    <3> QED
      BY <1>0, <1>b, <3>1 DEF Moves
  <2> QED
    BY <2>1, <2>2, <2>3
<1>4. CASE StartStep(t) \/ EndStep(t) \/ Revoke(t) \/ RevokeLog(t) \/ FallbackLog(t)
  <2>1. UNCHANGED outcome /\ pc[t] \notin RecordLabels /\ pc[t] # "idle"
    BY <1>4, StartFrame, EndFrame, OtherFrame
    DEF StartStep, StartRegister, StartInsertSession, StartInsertEvaluator, StartCount,
        StartLogSession, StartLogManifest, LogThen, EndStep, EndLogBurnStarted, BurnLogical,
        BurnDestroyKey, BurnOverwrite, BurnZero, BurnForgetKey, BurnForgetData,
        BurnVerifyHsm, BurnVerifyStore, BurnVerifyKeys, BurnVerify, BurnStore,
        EndLogBurnCompleted, EndLogSessionEnd, EndRemoveSession, EndRemoveEvaluator,
        EndCount, Revoke, RevokeLog, FallbackLog, At, RecordLabels, envVars
  <2>2. CASE <<pc[t], pc'[t]>> \in Flow /\ SameCall(t)
    BY <1>b, <2>1, <2>2
  <2>3. CASE Return(t)
    BY <1>0, <1>a, <1>c, <2>1, <2>3
  <2>4. pc'[t] = "idle" => Return(t)
    BY <1>4
    DEF StartStep, StartRegister, StartInsertSession, StartInsertEvaluator, StartCount,
        StartLogSession, StartLogManifest, LogThen, EndStep, EndLogBurnStarted, BurnLogical,
        BurnDestroyKey, BurnOverwrite, BurnZero, BurnForgetKey, BurnForgetData,
        BurnVerifyHsm, BurnVerifyStore, BurnVerifyKeys, BurnVerify, BurnStore,
        EndLogBurnCompleted, EndLogSessionEnd, EndRemoveSession, EndRemoveEvaluator,
        EndCount, Revoke, RevokeLog, FallbackLog, Enter, Goto, TypeOK, CallTypeOK
  <2> QED
    BY <1>0, <2>1, <2>2, <2>3, <2>4 DEF Moves
<1>5. CASE CallFails(t)
  <2>1. CASE pc[t] \in RecordLabels
    <3>1. call[t].rec \in Records /\ outcome' = [outcome EXCEPT ![call[t].rec] = "error"]
      BY <1>5, <2>1 DEF CallFails, TypeOK, CallTypeOK, EnvTypeOK
    <3> QED
      BY <1>2, <1>5, <2>1, <3>1 DEF CallFails, SetOutcome
  <2>2. CASE pc[t] \notin RecordLabels
    <3>1. UNCHANGED outcome
      BY <1>0, <1>5, <2>2, GatewayAssumption DEF CallFails, TypeOK, EnvTypeOK
    <3> QED
      BY <1>0, <1>a, <1>c, <1>5, <2>2, <3>1 DEF CallFails
  <2> QED
    BY <2>1, <2>2
<1> QED
  BY <1>1, <1>3, <1>4, <1>5 DEF Continue

LEMMA StepCarry ==
  ASSUME TypeOK, CarryInv, NEW t \in Threads, Begin(t) \/ Continue(t) \/ CallFails(t)
  PROVE  CarryInv'
<1>1. \A u \in Threads \ {t} : pc'[u] = pc[u] /\ call'[u].rec = call[u].rec
  BY StepMoves DEF Moves, OthersStay
<1>2. \A u \in Threads : pc[u] \in RecordLabels => call[u].rec \in Records
  BY DEF TypeOK, CallTypeOK
<1>3. outcome \in [Records -> Outcomes] /\ None \notin Records
  BY GatewayAssumption DEF TypeOK, EnvTypeOK
<1>4. CASE Carries(t)
  BY <1>1, <1>4 DEF Carries, CarryInv
<1>5. CASE Drops(t)
  BY <1>1, <1>2, <1>3, <1>5 DEF Drops, CarryInv, RecordLabels
<1>6. ASSUME NEW r \in Records, Accepts(t, r)
      PROVE  CarryInv'
  <2>1. \A u \in Threads : call[u].rec # r
    BY <1>3, <1>6 DEF Accepts, CarryInv
  <2> QED
    BY <1>1, <1>2, <1>3, <1>6, <2>1 DEF Accepts, CarryInv, RecordLabels
<1>7. ASSUME NEW r \in Records, Refuses(t, r)
      PROVE  CarryInv'
  BY <1>2, <1>3, <1>7 DEF Refuses, CarryInv
<1> QED
  BY <1>4, <1>5, <1>6, <1>7, StepOutcome

-----------------------------------------------------------------------------
(* What a step does to the rows of one record.                             *)

AddsRow(s, r, e) ==
  /\ RecordRows(s, r)' = RecordRows(s, r) \cup {Len(auditLog[s]) + 1}
  /\ auditLog'[s][Len(auditLog[s]) + 1] = e
  /\ Len(auditLog[s]) \in Nat /\ RecordRows(s, r) \subseteq 1 .. Len(auditLog[s])

KeepsRows(s, r) == \A i \in RecordRows(s, r) : auditLog'[s][i] = auditLog[s][i]

LEMMA StepRecordRows ==
  ASSUME TypeOK, CarryInv, NEW t \in Threads, Begin(t) \/ Continue(t) \/ CallFails(t),
         NEW s \in Sessions, NEW r \in Records
  PROVE  /\ KeepsRows(s, r)
         /\ \/ /\ RecordRows(s, r)' = RecordRows(s, r)
               /\ pc[t] \in LogLabels /\ pc'[t] # "idle" =>
                    ~(pc[t] \in RecordLabels /\ s = call[t].sess /\ r = call[t].rec)
            \/ \E e : /\ Wrote(t, e) /\ AddsRow(s, r, e) /\ pc[t] \in RecordLabels
                      /\ s = call[t].sess /\ r = call[t].rec
<1>0. RecordRows(s, r)' = {i \in Rows(s)' : auditLog'[s][i].rec = r}
  BY DEF RecordRows
<1>1. ASSUME auditLog'[s] = auditLog[s]
      PROVE  KeepsRows(s, r) /\ RecordRows(s, r)' = RecordRows(s, r)
  BY <1>1 DEF RecordRows, Rows, KeepsRows
<1>2. ASSUME NEW e, Wrote(t, e), s = call[t].sess
      PROVE  /\ KeepsRows(s, r)
             /\ \/ /\ RecordRows(s, r)' = RecordRows(s, r)
                   /\ ~(pc[t] \in RecordLabels /\ r = call[t].rec)
                \/ AddsRow(s, r, e) /\ pc[t] \in RecordLabels /\ r = call[t].rec
  <2>1. Len(auditLog[s]) \in Nat /\ Rows(s) = 1 .. Len(auditLog[s])
    BY <1>2, RowWritten
  <2>2. Rows(s)' = 1 .. (Len(auditLog[s]) + 1)
    BY <1>2, RowWritten
  <2>3. auditLog'[s][Len(auditLog[s]) + 1] = e
    BY <1>2, RowWritten
  <2>4. \A i \in Rows(s) : auditLog'[s][i] = auditLog[s][i]
    BY <1>2, RowWritten
  <2>5. e.rec = IF pc[t] \in RecordLabels THEN call[t].rec ELSE None
    BY <1>2 DEF Wrote
  <2>6. CASE e.rec = r
    <3>1. pc[t] \in RecordLabels /\ r = call[t].rec
      BY <2>5, <2>6, GatewayAssumption
    <3>2. RecordRows(s, r)' \subseteq RecordRows(s, r) \cup {Len(auditLog[s]) + 1}
      BY <1>0, <2>1, <2>2, <2>4 DEF RecordRows
    <3>3. RecordRows(s, r) \cup {Len(auditLog[s]) + 1} \subseteq RecordRows(s, r)'
      BY <1>0, <2>1, <2>2, <2>3, <2>4, <2>6 DEF RecordRows
    <3> QED
      BY <2>1, <2>3, <2>4, <3>1, <3>2, <3>3 DEF AddsRow, RecordRows, KeepsRows
  <2>7. CASE e.rec # r
    <3>1. RecordRows(s, r)' \subseteq RecordRows(s, r)
      BY <1>0, <2>1, <2>2, <2>3, <2>4, <2>7 DEF RecordRows
    <3>2. RecordRows(s, r) \subseteq RecordRows(s, r)'
      BY <1>0, <2>1, <2>2, <2>4 DEF RecordRows
    <3> QED
      BY <2>4, <2>5, <2>7, <3>1, <3>2 DEF RecordRows, KeepsRows
  <2> QED
    BY <2>6, <2>7
<1>3. ASSUME NEW e, Wrote(t, e), s # call[t].sess
      PROVE  auditLog'[s] = auditLog[s]
  BY <1>3, RowWritten
<1> QED
  BY <1>1, <1>2, <1>3, StepLogs DEF Logs

(* Only its evaluate() changes what the evaluator returned for a record.   *)
LEMMA StepResults ==
  ASSUME TypeOK, NEW t \in Threads, Begin(t) \/ Continue(t) \/ CallFails(t), NEW r \in Records
  PROVE  results'[r] = results[r] \/ (RecordEvaluate(t) /\ r = call[t].rec)
<1>1. CASE RecordStep(t)
  <2>1. CASE RecordEvaluate(t)
    BY <2>1 DEF RecordEvaluate, TypeOK, EnvTypeOK
  <2> QED
    BY <1>1, <2>1
    DEF RecordStep, RecordReadKey, RecordKeyDestroyed, RecordStoreBlob, RecordLogGenerated,
        RecordNoEvaluator, RecordFails, RecordLogUndeclared, RecordRoute, RecordCount,
        LogThen, envVars
<1>2. CASE Begin(t) \/ CallFails(t)
  BY <1>2 DEF Begin, StartGenerateKey, RecordLookup, RevokeLookup, EndLookup, FallbackEnter,
              CallFails
<1> QED
  BY <1>1, <1>2, StartFrame, EndFrame DEF Continue, Revoke, RevokeLog, FallbackLog, envVars

(* Rows that stay say what they said.                                      *)
LEMMA RowsStand ==
  ASSUME NEW s \in Sessions, NEW r \in Records, RecordRows(s, r)' = RecordRows(s, r),
         KeepsRows(s, r)
  PROVE  Announcements(s, r)' = Announcements(s, r) /\ Decisions(s, r)' = Decisions(s, r)
<1>1. Announcements(s, r)' = Announcements(s, r)
  BY DEF Announcements, KeepsRows
<1> QED
  BY <1>1 DEF Decisions

LEMMA DecisionsStay ==
  ASSUME NEW s \in Sessions, NEW r \in Records, RecordRows(s, r)' = RecordRows(s, r),
         KeepsRows(s, r), results'[r] = results[r]
  PROVE  /\ DecidedInOrder(s, r) => DecidedInOrder(s, r)'
         /\ DecidedInFull(s, r) => DecidedInFull(s, r)'
         /\ \A todo : DecidedSoFar(s, r, todo) => DecidedSoFar(s, r, todo)'
<1>1. /\ Announcements(s, r)' = Announcements(s, r) /\ Decisions(s, r)' = Decisions(s, r)
      /\ \A i \in Decisions(s, r) : auditLog'[s][i] = auditLog[s][i]
      /\ Decisions(s, r)' = Decisions(s, r)
  BY RowsStand DEF KeepsRows, Decisions
<1>2. Served(results'[r]) = Served(results[r])
  OBVIOUS
<1>3. DecidedInFull(s, r) => DecidedInFull(s, r)'
  BY <1>1, <1>2 DEF DecidedInFull
<1>4. \A todo : DecidedSoFar(s, r, todo) => DecidedSoFar(s, r, todo)'
  BY <1>1, <1>2 DEF DecidedSoFar
<1>5. DecidedInOrder(s, r) => DecidedInOrder(s, r)'
  BY <1>1, <1>2 DEF DecidedInOrder, DecidesEntry, DecidesNobody
<1> QED
  BY <1>3, <1>4, <1>5

LEMMA LoggedStays ==
  ASSUME NEW u \in Threads, NEW s \in Sessions, NEW r \in Records,
         \A x \in Sessions : KeepsRows(x, r) /\ RecordRows(x, r)' = RecordRows(x, r),
         results'[r] = results[r], pc'[u] = pc[u], call'[u] = call[u], Logged(u, s, r)
  PROVE  Logged(u, s, r)'
<1>1. Announcements(s, r)' = Announcements(s, r) /\ Decisions(s, r)' = Decisions(s, r)
  BY RowsStand
<1>2. \A x \in Sessions \ {s} : RecordRows(x, r)' = {}
  BY DEF Logged
<1>3. pc'[u] = "countRecord" => DecidedInFull(s, r)'
  BY DecisionsStay DEF Logged
<1> PICK todo : todo = call[u].todo
  OBVIOUS
<1>4. pc'[u] = "route" => call'[u].views = results'[r] /\ DecidedSoFar(s, r, todo)'
  BY DecisionsStay DEF Logged
<1>5. DecidedSoFar(s, r, todo)' => DecidedSoFar(s, r, call[u].todo)'
  BY DEF DecidedSoFar
<1> QED
  BY <1>1, <1>2, <1>3, <1>4, <1>5 DEF Logged

(* A new row is the last; it announces its record or decides about it.     *)
LEMMA RecordRowAdded ==
  ASSUME NEW s \in Sessions, NEW r \in Records, NEW e, AddsRow(s, r, e), KeepsRows(s, r)
  PROVE  \E n \in Nat :
           /\ auditLog'[s][n] = e
           /\ \A i \in RecordRows(s, r) : i \in Nat /\ i < n /\ auditLog'[s][i] = auditLog[s][i]
           /\ IF e.event = "DataGenerated"
              THEN /\ Announcements(s, r)' = Announcements(s, r) \cup {n}
                   /\ Decisions(s, r)' = Decisions(s, r)
              ELSE /\ Announcements(s, r)' = Announcements(s, r)
                   /\ Decisions(s, r)' = Decisions(s, r) \cup {n}
<1> PICK n : n = Len(auditLog[s]) + 1
  OBVIOUS
<1>1. /\ n \in Nat /\ auditLog'[s][n] = e /\ RecordRows(s, r)' = RecordRows(s, r) \cup {n}
      /\ \A i \in RecordRows(s, r) : i \in Nat /\ i < n
  BY DEF AddsRow
<1>2. \A i \in RecordRows(s, r) : auditLog'[s][i] = auditLog[s][i] /\ i # n
  BY <1>1 DEF KeepsRows
<1>3. CASE e.event = "DataGenerated"
  <2>1. Announcements(s, r)' = Announcements(s, r) \cup {n}
    BY <1>1, <1>2, <1>3 DEF Announcements
  <2>2. Decisions(s, r)' = Decisions(s, r)
    BY <1>1, <1>2, <2>1 DEF Decisions, Announcements
  <2> QED
    BY <1>1, <1>2, <1>3, <2>1, <2>2
<1>4. CASE e.event # "DataGenerated"
  <2>1. Announcements(s, r)' = Announcements(s, r)
    BY <1>1, <1>2, <1>4 DEF Announcements
  <2>2. Decisions(s, r)' = Decisions(s, r) \cup {n}
    BY <1>1, <1>2, <2>1 DEF Decisions, Announcements
  <2> QED
    BY <1>1, <1>2, <1>4, <2>1, <2>2
<1> QED
  BY <1>3, <1>4

(* A record nobody is served is blocked by one row that names no one.      *)
LEMMA UndeclaredStep ==
  ASSUME TypeOK, NEW t \in Threads, RecordLogUndeclared(t), NEW e, Wrote(t, e)
  PROVE  DecidesNobody(e) /\ UNCHANGED results
<1> DEFINE f == [Entry("DataBlocked") EXCEPT !.rec = call[t].rec]
<1>1. f.event = "DataBlocked" /\ f.rec = call[t].rec /\ f.entry = 0 /\ f.who = None
  BY DEF Entry
<1>2. LogEvent(t, f) /\ pc[t] = "logUndeclared" /\ UNCHANGED results
  BY DEF RecordLogUndeclared, At, envVars
<1> HIDE DEF f
<1>3. Wrote(t, f)
  BY <1>1, <1>2 DEF Wrote, Writes, RecordLabels
<1>4. f = e
  BY <1>3, WroteOnce
<1> QED
  BY <1>1, <1>2, <1>4 DEF DecidesNobody

(* One more decision, about the first entry that is left, keeps the order. *)
LEMMA StepRoute ==
  ASSUME TypeOK, NEW t \in Threads, NEW s \in Sessions, NEW r \in Records,
         NEW e, Wrote(t, e), AddsRow(s, r, e), KeepsRows(s, r), RecordRoute(t),
         r = call[t].rec, Announcements(s, r) # {}, DecidedInOrder(s, r),
         call[t].views = results[r], DecidedSoFar(s, r, call[t].todo)
  PROVE  /\ DecidedInOrder(s, r)'
         /\ Announcements(s, r)' # {}
         /\ IF call'[t].todo = {} THEN DecidedInFull(s, r)'
            ELSE call'[t].views = results'[r] /\ DecidedSoFar(s, r, call[t].todo)'
<1> PICK served : served = Served(results[r])
  OBVIOUS
<1> PICK k : k = e.entry
  OBVIOUS
<1> PICK todo : todo = call[t].todo
  OBVIOUS
<1>1. /\ k \in todo /\ \A j \in todo \ {k} : k < j
      /\ call'[t].todo = todo \ {k} /\ UNCHANGED results /\ call'[t].views = call[t].views
      /\ e.who = results[r][k]
      /\ e.event = IF e.who \in Endpoints THEN "DataTransmitted" ELSE "DataBlocked"
  BY RouteStep
<1>2. DecidesEntry(e, r, k) /\ DecidesEntry(e, r, k)' /\ e.event # "DataGenerated"
  BY <1>1 DEF DecidesEntry
<1>3. served \subseteq Nat
  BY ServedType DEF TypeOK, EnvTypeOK
<1>4. /\ todo \subseteq served
      /\ \A i \in Decisions(s, r) : auditLog[s][i].entry \in served \ todo
      /\ \A x \in served \ todo : \E i \in Decisions(s, r) : auditLog[s][i].entry = x
      /\ \A x \in served \ todo : \A j \in todo : x < j
  BY DEF DecidedSoFar
<1>5. PICK n \in Nat :
        /\ auditLog'[s][n] = e
        /\ \A i \in RecordRows(s, r) : i \in Nat /\ i < n /\ auditLog'[s][i] = auditLog[s][i]
        /\ Announcements(s, r)' = Announcements(s, r)
        /\ Decisions(s, r)' = Decisions(s, r) \cup {n}
  BY <1>2, RecordRowAdded
<1>6. Decisions(s, r) \subseteq RecordRows(s, r) /\ Announcements(s, r) \subseteq RecordRows(s, r)
  BY DEF Decisions, Announcements
<1>7. Served(results'[r]) = served
  BY <1>1
<1>8. ASSUME NEW i \in Decisions(s, r)
      PROVE  /\ \E g \in Announcements(s, r) : g < i
             /\ \E x \in served : DecidesEntry(auditLog[s][i], r, x)
             /\ \A j \in Decisions(s, r) :
                  i < j => auditLog[s][i].entry < auditLog[s][j].entry
             /\ \A x \in served :
                  x < auditLog[s][i].entry =>
                    \E j \in Decisions(s, r) : auditLog[s][j].entry = x
  BY <1>1, <1>4 DEF DecidedInOrder
<1>9. \A i, j \in Announcements(s, r) : i = j
  BY DEF DecidedInOrder
<1>10. DecidedInOrder(s, r)'
  <2>1. ASSUME NEW i \in Decisions(s, r)
        PROVE  /\ \E g \in Announcements(s, r) : g < i
               /\ \E x \in served : DecidesEntry(auditLog[s][i], r, x)'
               /\ \A j \in Decisions(s, r)' :
                    i < j => auditLog'[s][i].entry < auditLog'[s][j].entry
               /\ \A x \in served :
                    x < auditLog'[s][i].entry =>
                      \E j \in Decisions(s, r)' : auditLog'[s][j].entry = x
    <3>1. auditLog'[s][i] = auditLog[s][i] /\ auditLog[s][i].entry < k
      BY <1>1, <1>4, <1>5, <1>6
    <3>2. \E x \in served : DecidesEntry(auditLog[s][i], r, x)'
      BY <1>1, <1>8, <3>1 DEF DecidesEntry
    <3>3. \A j \in Decisions(s, r)' : i < j => auditLog'[s][i].entry < auditLog'[s][j].entry
      BY <1>5, <1>6, <1>8, <3>1
    <3>4. \A x \in served :
            x < auditLog'[s][i].entry =>
              \E j \in Decisions(s, r)' : auditLog'[s][j].entry = x
      BY <1>5, <1>6, <1>8, <3>1
    <3> QED
      BY <1>8, <3>2, <3>3, <3>4
  <2>2. /\ \E g \in Announcements(s, r) : g < n
        /\ \E x \in served : DecidesEntry(auditLog[s][n], r, x)'
        /\ \A j \in Decisions(s, r)' : ~(n < j)
        /\ \A x \in served :
             x < auditLog'[s][n].entry =>
               \E j \in Decisions(s, r)' : auditLog'[s][j].entry = x
    <3>1. \E g \in Announcements(s, r) : g < n
      BY <1>5, <1>6
    <3>2. \E x \in served : DecidesEntry(auditLog[s][n], r, x)'
      BY <1>1, <1>2, <1>4, <1>5
    <3>3. \A j \in Decisions(s, r)' : ~(n < j)
      BY <1>5, <1>6
    <3>4. ASSUME NEW x \in served, x < k
          PROVE  \E j \in Decisions(s, r)' : auditLog'[s][j].entry = x
      <4>1. x \notin todo
        BY <1>1, <1>3, <1>4, <3>4
      <4> QED
        BY <1>4, <1>5, <1>6, <4>1
    <3> QED
      BY <1>5, <3>1, <3>2, <3>3, <3>4
  <2>3. Served(results'[r]) # {}
    BY <1>1, <1>4, <1>7
  <2>4. ASSUME NEW i \in Decisions(s, r)'
        PROVE  /\ \E g \in Announcements(s, r)' : g < i
               /\ \E x \in Served(results'[r]) : DecidesEntry(auditLog[s][i], r, x)'
               /\ \A j \in Decisions(s, r)' :
                    i < j => auditLog'[s][i].entry < auditLog'[s][j].entry
               /\ \A x \in Served(results'[r]) :
                    x < auditLog'[s][i].entry =>
                      \E j \in Decisions(s, r)' : auditLog'[s][j].entry = x
    BY <1>5, <1>7, <2>1, <2>2
  <2>5. \A i, j \in Announcements(s, r)' : i = j
    BY <1>5, <1>9
  <2> QED
    BY <2>3, <2>4, <2>5 DEF DecidedInOrder
<1>11. /\ \A i \in Decisions(s, r)' : auditLog'[s][i].entry \in served \ (todo \ {k})
       /\ \A x \in served \ (todo \ {k}) : \E i \in Decisions(s, r)' : auditLog'[s][i].entry = x
       /\ \A x \in served \ (todo \ {k}) : \A j \in todo \ {k} : x < j
  <2>1. \A i \in Decisions(s, r)' : auditLog'[s][i].entry \in served \ (todo \ {k})
    BY <1>1, <1>4, <1>5, <1>6
  <2>2. ASSUME NEW x \in served \ (todo \ {k})
        PROVE  \E i \in Decisions(s, r)' : auditLog'[s][i].entry = x
    BY <1>4, <1>5, <1>6
  <2>3. \A x \in served \ (todo \ {k}) : \A j \in todo \ {k} : x < j
    BY <1>1, <1>4
  <2> QED
    BY <2>1, <2>2, <2>3
<1>12. Announcements(s, r)' # {} /\ Decisions(s, r)' # {}
  BY <1>5
<1>13. CASE call'[t].todo = {}
  BY <1>1, <1>7, <1>10, <1>11, <1>12, <1>13 DEF DecidedInFull
<1>14. CASE call'[t].todo # {}
  <2>1. call'[t].todo \subseteq served
    BY <1>1, <1>4
  <2>2. DecidedSoFar(s, r, call[t].todo)'
    BY <1>1, <1>7, <1>11, <1>14, <2>1 DEF DecidedSoFar
  <2> QED
    BY <1>1, <1>10, <1>12, <1>14, <2>2
<1> QED
  BY <1>13, <1>14

(* Each section leaves its record with the rows the next one expects.      *)
LEMMA StepLogged ==
  ASSUME TypeOK, CarryInv, RowsInv, NEW t \in Threads,
         Begin(t) \/ Continue(t) \/ CallFails(t),
         pc'[t] \in RecordLabels, NEW s \in Sessions, NEW r \in Records,
         s = call'[t].sess, r = call'[t].rec
  PROVE  Logged(t, s, r)' /\ DecidedInOrder(s, r)'
<1>0. Moves(t) /\ AtSection(t) /\ DecidedInOrder(s, r)
  BY StepMoves, StepAtSection DEF RowsInv
<1>a. /\ KeepsRows(s, r)
      /\ \/ /\ RecordRows(s, r)' = RecordRows(s, r)
            /\ pc[t] \in LogLabels /\ pc'[t] # "idle" =>
                 ~(pc[t] \in RecordLabels /\ s = call[t].sess /\ r = call[t].rec)
         \/ \E e : /\ Wrote(t, e) /\ AddsRow(s, r, e) /\ pc[t] \in RecordLabels
                   /\ s = call[t].sess /\ r = call[t].rec
  BY StepRecordRows
<1>b. pc'[t] # "idle" /\ "idle" \notin RecordLabels
  BY DEF RecordLabels
<1>1. CASE pc[t] = "idle"
  <2>1. pc'[t] = "readKey" /\ outcome[r] = "new"
    BY <1>1, <1>b, StepOutcome DEF Carries, Drops, Accepts, Refuses
  <2>2. \A x \in Sessions : RecordRows(x, r) = {} /\ RecordRows(x, r)' = RecordRows(x, r)
    BY <1>1, <1>b, <2>1, StepRecordRows DEF RowsInv
  <2>3. Decisions(s, r)' = {} /\ Announcements(s, r)' = {}
    BY <2>2 DEF Decisions, Announcements
  <2>4. DecidedInOrder(s, r)'
    BY <2>3 DEF DecidedInOrder
  <2> QED
    BY <2>1, <2>2, <2>4 DEF Logged
<1>2. CASE pc[t] # "idle"
  <2>1. <<pc[t], pc'[t]>> \in Flow /\ s = call[t].sess /\ r = call[t].rec
    BY <1>0, <1>2, <1>b DEF Moves, SameCall
  <2>2. pc[t] \in RecordLabels
    BY <2>1 DEF Flow, RecordLabels
  <2>3. Logged(t, s, r)
    BY <2>1, <2>2 DEF RowsInv
  <2>a. \A x \in Sessions \ {s} : RecordRows(x, r)' = {}
    BY <2>1, <2>3, StepRecordRows DEF Logged
  <2>4. CASE pc[t] \notin LogLabels
    <3>1. RecordRows(s, r)' = RecordRows(s, r)
      BY <1>a, <2>4 DEF Wrote, Writes, LogLabels
    <3>a. Announcements(s, r)' = Announcements(s, r) /\ Decisions(s, r)' = Decisions(s, r)
      BY <1>a, <3>1, RowsStand
    <3>2. CASE pc[t] \in {"readKey", "storeBlob"}
      <4>1. pc'[t] \in {"storeBlob", "logGenerated"}
        BY <2>1, <3>2 DEF Flow
      <4>2. RecordRows(s, r)' = {}
        BY <2>3, <3>1, <3>2 DEF Logged
      <4>3. DecidedInOrder(s, r)'
        BY <4>2 DEF DecidedInOrder, Decisions, Announcements
      <4> QED
        BY <2>a, <4>1, <4>2, <4>3 DEF Logged
    <3>3. CASE pc[t] = "evaluate"
      <4>1. RecordEvaluate(t)
        BY <1>0, <1>b, <3>3 DEF AtSection, RecordNoEvaluator, RecordFails, Return, TypeOK,
                                CallTypeOK
      <4> PICK views : views = Evaluate(s, r)
        OBVIOUS
      <4>2. /\ results'[r] = views /\ call'[t].views = views /\ call'[t].todo = Served(views)
            /\ pc'[t] = IF Served(views) = {} THEN "logUndeclared" ELSE "route"
        <5> PICK served : served = Served(views)
          OBVIOUS
        <5> DEFINE c == [call[t] EXCEPT !.views = views, !.todo = served]
        <5>1. Enter(t, c, IF served = {} THEN "logUndeclared" ELSE "route")
          BY <2>1, <4>1 DEF RecordEvaluate
        <5>4. c.views = views /\ c.todo = served
          BY DEF TypeOK, CallTypeOK, Call
        <5> HIDE DEF c
        <5>5. call'[t] = c /\ pc'[t] = IF served = {} THEN "logUndeclared" ELSE "route"
          BY <5>1 DEF Enter, Goto, TypeOK, CallTypeOK
        <5>2. results' = [results EXCEPT ![r] = views]
          BY <2>1, <4>1 DEF RecordEvaluate
        <5>3. results'[r] = views
          BY <5>2 DEF TypeOK, EnvTypeOK
        <5> QED
          BY <5>3, <5>4, <5>5
      <4>3. Announcements(s, r)' # {} /\ Decisions(s, r)' = {}
        BY <2>3, <3>3, <3>a DEF Logged
      <4>4. \A i, j \in Announcements(s, r)' : i = j
        BY <1>0, <3>a DEF DecidedInOrder
      <4>5. DecidedInOrder(s, r)'
        BY <4>3, <4>4 DEF DecidedInOrder
      <4>6. pc'[t] = "route" => DecidedSoFar(s, r, call[t].todo)'
        BY <4>2, <4>3 DEF DecidedSoFar
      <4> QED
        BY <2>a, <4>2, <4>3, <4>5, <4>6 DEF Logged
    <3>4. pc[t] # "countRecord"
      BY <2>1, <2>2 DEF Flow
    <3> QED
      BY <2>2, <2>4, <3>2, <3>3, <3>4 DEF RecordLabels, LogLabels
  <2>5. CASE pc[t] \in LogLabels
    <3>1. PICK e : Wrote(t, e) /\ AddsRow(s, r, e)
      BY <1>a, <1>b, <2>1, <2>2, <2>5
    <3>3. CASE pc[t] = "logGenerated"
      <4>1. pc'[t] = "evaluate" /\ e.event = "DataGenerated" /\ RecordRows(s, r) = {}
        BY <2>1, <2>3, <3>1, <3>3 DEF Wrote, Writes, Logged, Flow
      <4>2. Announcements(s, r) = {} /\ Decisions(s, r) = {}
        BY <4>1 DEF Announcements, Decisions
      <4>3. PICK n \in Nat : /\ Announcements(s, r)' = Announcements(s, r) \cup {n}
                            /\ Decisions(s, r)' = Decisions(s, r)
        BY <1>a, <3>1, <4>1, RecordRowAdded
      <4>4. DecidedInOrder(s, r)'
        BY <4>2, <4>3 DEF DecidedInOrder
      <4> QED
        BY <2>a, <4>1, <4>2, <4>3, <4>4 DEF Logged
    <3>4. CASE pc[t] = "logUndeclared"
      <4>0. RecordLogUndeclared(t)
        BY <1>0, <1>b, <3>4 DEF AtSection, CallFails, Return, TypeOK, CallTypeOK
      <4>1. pc'[t] = "countRecord" /\ DecidesNobody(e) /\ UNCHANGED results
        BY <2>1, <3>1, <3>4, <4>0, UndeclaredStep DEF Flow
      <4>2. Announcements(s, r) # {} /\ Decisions(s, r) = {} /\ Served(results[r]) = {}
        BY <2>3, <3>4 DEF Logged
      <4>3. PICK n \in Nat :
              /\ auditLog'[s][n] = e
              /\ \A i \in RecordRows(s, r) : i \in Nat /\ i < n
              /\ Announcements(s, r)' = Announcements(s, r) /\ Decisions(s, r)' = {n}
        <5>1. e.event # "DataGenerated"
          BY <4>1 DEF DecidesNobody
        <5> QED
          BY <1>a, <3>1, <4>2, <5>1, RecordRowAdded
      <4>4. Served(results'[r]) = {}
        BY <4>1, <4>2
      <4>5. \A g \in Announcements(s, r) : g < n
        BY <4>3 DEF Announcements
      <4>6. \A i, j \in Announcements(s, r) : i = j
        BY <1>0 DEF DecidedInOrder
      <4>7. DecidedInOrder(s, r)'
        <5>1. ASSUME NEW i \in Decisions(s, r)'
              PROVE  /\ \E g \in Announcements(s, r)' : g < i
                     /\ DecidesNobody(auditLog'[s][i])
                     /\ \A j \in Decisions(s, r)' : ~(i < j)
          BY <4>1, <4>2, <4>3, <4>5
        <5>2. \A i, j \in Announcements(s, r)' : i = j
          BY <4>3, <4>6
        <5> QED
          BY <4>4, <5>1, <5>2 DEF DecidedInOrder, DecidesNobody
      <4>8. DecidedInFull(s, r)'
        BY <4>2, <4>3, <4>4 DEF DecidedInFull
      <4> QED
        BY <2>a, <4>1, <4>7, <4>8 DEF Logged
    <3>5. CASE pc[t] = "route"
      <4>1. RecordRoute(t)
        BY <1>0, <1>b, <3>5 DEF AtSection, CallFails, Return, TypeOK, CallTypeOK
      <4>2. pc'[t] = IF call'[t].todo = {} THEN "countRecord" ELSE "route"
        BY <3>1, <4>1, RouteStep
      <4>3. /\ Announcements(s, r) # {} /\ call[t].views = results[r]
            /\ DecidedSoFar(s, r, call[t].todo)
        BY <2>3, <3>5 DEF Logged
      <4>4. /\ DecidedInOrder(s, r)'
            /\ Announcements(s, r)' # {}
            /\ IF call'[t].todo = {} THEN DecidedInFull(s, r)'
               ELSE call'[t].views = results'[r] /\ DecidedSoFar(s, r, call[t].todo)'
        BY <1>0, <1>a, <2>1, <3>1, <4>1, <4>3, StepRoute
      <4> QED
        BY <2>a, <4>2, <4>4 DEF Logged
    <3> QED
      BY <2>2, <2>5, <3>3, <3>4, <3>5 DEF RecordLabels, LogLabels
  <2> QED
    BY <2>4, <2>5
<1> QED
  BY <1>1, <1>2

(* Every step keeps the rows of every record in order.                     *)
LEMMA StepRows ==
  ASSUME TypeOK, CarryInv, RowsInv, NEW t \in Threads,
         Begin(t) \/ Continue(t) \/ CallFails(t)
  PROVE  RowsInv'
<1>0. CarryInv'
  BY StepCarry
<1>a. outcome \in [Records -> Outcomes]
  BY DEF TypeOK, EnvTypeOK
<1>b. Carries(t) \/ Drops(t) \/ \E r \in Records : Accepts(t, r) \/ Refuses(t, r)
  BY StepOutcome
<1>c. ASSUME NEW r \in Records, pc[t] \notin RecordLabels \/ r # call[t].rec
      PROVE  /\ \A s \in Sessions : KeepsRows(s, r) /\ RecordRows(s, r)' = RecordRows(s, r)
             /\ results'[r] = results[r]
  <2>1. RecordEvaluate(t) => pc[t] \in RecordLabels
    BY DEF RecordEvaluate, At, RecordLabels
  <2> QED
    BY <1>c, <2>1, StepRecordRows, StepResults
<1>d. \A u \in Threads : pc[u] \in RecordLabels =>
        call[u].sess \in Sessions /\ call[u].rec \in Records /\ outcome[call[u].rec] = "pending"
  BY DEF CarryInv, TypeOK, CallTypeOK, RecordLabels
<1>1. ASSUME NEW r \in Records, outcome'[r] = "new", NEW s \in Sessions
      PROVE  RecordRows(s, r)' = {}
  <2>1. outcome[r] = "new"
    BY <1>1, <1>a, <1>b, <1>d DEF Carries, Drops, Accepts, Refuses
  <2> QED
    BY <1>c, <1>d, <2>1 DEF RowsInv
<1>2. ASSUME NEW r \in Records, outcome'[r] = "done"
      PROVE  \E s \in Sessions : DecidedInFull(s, r)'
  <2>1. CASE outcome[r] = "done"
    <3>1. PICK s \in Sessions : DecidedInFull(s, r)
      BY <2>1 DEF RowsInv
    <3>2. KeepsRows(s, r) /\ RecordRows(s, r)' = RecordRows(s, r) /\ results'[r] = results[r]
      BY <1>c, <1>d, <2>1
    <3> QED
      BY <3>1, <3>2, DecisionsStay
  <2>2. CASE pc[t] = "countRecord" /\ r = call[t].rec
    <3> PICK s : s = call[t].sess
      OBVIOUS
    <3>1. s \in Sessions /\ DecidedInFull(s, r)
      BY <1>d, <2>2 DEF RowsInv, Logged, RecordLabels
    <3>2. KeepsRows(s, r) /\ RecordRows(s, r)' = RecordRows(s, r)
      BY <2>2, <3>1, StepRecordRows DEF Wrote, Writes
    <3>3. results'[r] = results[r]
      BY <2>2, StepResults DEF RecordEvaluate, At
    <3> QED
      BY <3>1, <3>2, <3>3, DecisionsStay
  <2> QED
    BY <1>2, <1>a, <1>b, <1>d, <2>1, <2>2 DEF Carries, Drops, Accepts, Refuses
<1>3. ASSUME NEW u \in Threads, NEW s \in Sessions, NEW r \in Records,
             pc'[u] \in RecordLabels, call'[u].sess = s, call'[u].rec = r
      PROVE  Logged(u, s, r)'
  <2>1. CASE u = t
    BY <1>3, <2>1, StepLogged
  <2>2. CASE u # t
    <3>1. pc'[u] = pc[u] /\ call'[u] = call[u]
      BY <2>2, StepMoves DEF Moves, OthersStay
    <3>2. s \in Sessions /\ r \in Records /\ Logged(u, s, r)
      BY <1>3, <1>d, <3>1 DEF RowsInv
    <3>3. pc[t] \notin RecordLabels \/ r # call[t].rec
      BY <1>3, <2>2, <3>1 DEF CarryInv
    <3> QED
      BY <1>c, <3>1, <3>2, <3>3, LoggedStays
  <2> QED
    BY <2>1, <2>2
<1>4. ASSUME NEW r \in Records, NEW s \in Sessions
      PROVE  DecidedInOrder(s, r)'
  <2>0. DecidedInOrder(s, r)
    BY DEF RowsInv
  <2>1. CASE pc[t] \notin RecordLabels \/ r # call[t].rec
    BY <1>c, <2>0, <2>1, DecisionsStay
  <2>2. CASE pc[t] \in RecordLabels /\ r = call[t].rec
    <3>0. Logged(t, call[t].sess, r) /\ call[t].sess \in Sessions
      BY <1>d, <2>2 DEF RowsInv
    <3>1. CASE s # call[t].sess
      <4>1. RecordRows(s, r)' = {}
        BY <2>2, <3>0, <3>1, StepRecordRows DEF Logged
      <4> QED
        BY <4>1 DEF DecidedInOrder, Decisions, Announcements
    <3>2. CASE s = call[t].sess /\ pc'[t] \in RecordLabels
      <4>1. call'[t].sess = s /\ call'[t].rec = r
        <5>1. pc[t] # "idle" /\ pc'[t] # "idle"
          BY <2>2, <3>2 DEF RecordLabels
        <5> QED
          BY <2>2, <3>2, <5>1, StepMoves DEF Moves, SameCall
      <4> QED
        BY <3>2, <4>1, StepLogged
    <3>3. CASE s = call[t].sess /\ pc'[t] \notin RecordLabels
      <4>1. Drops(t)
        BY <1>b, <2>2, <3>3 DEF Carries, Accepts, Refuses, RecordLabels
      <4>2. UNCHANGED auditLog
        <5>1. pc'[t] = "idle"
          BY <4>1 DEF Drops
        <5> QED
          BY <2>2, <5>1, StepAtSection
          DEF AtSection, RecordLabels, RecordReadKey, RecordKeyDestroyed, RecordFails,
              RecordStoreBlob, RecordLogGenerated, LogThen, RecordEvaluate, RecordNoEvaluator,
              RecordLogUndeclared, RecordRoute, RecordCount, CallFails, Enter, Goto, TypeOK,
              CallTypeOK
      <4>3. KeepsRows(s, r) /\ RecordRows(s, r)' = RecordRows(s, r)
        BY <4>2 DEF KeepsRows, RecordRows, Rows
      <4>4. results'[r] = results[r]
        <5>1. RecordEvaluate(t) => pc'[t] \in RecordLabels
          BY DEF RecordEvaluate, Enter, Goto, RecordLabels, TypeOK, CallTypeOK
        <5> QED
          BY <3>3, <5>1, StepResults
      <4> QED
        BY <2>0, <4>3, <4>4, DecisionsStay
    <3> QED
      BY <3>1, <3>2, <3>3
  <2> QED
    BY <2>1, <2>2
<1> QED
  BY <1>1, <1>2, <1>3, <1>4 DEF RowsInv

LogInv == CarryInv /\ RowsInv

LEMMA NextLogInv == TypeOK /\ LogInv /\ [Next]_vars => LogInv'
<1> SUFFICES ASSUME TypeOK, LogInv, [Next]_vars PROVE LogInv'
  OBVIOUS
<1>1. CASE UNCHANGED vars
  <2> USE <1>1 DEF vars, envVars
  <2>1. CarryInv'
    BY DEF LogInv, CarryInv
  <2>2. RowsInv'
    <3>1. \A s \in Sessions, r \in Records :
            KeepsRows(s, r) /\ RecordRows(s, r)' = RecordRows(s, r)
      BY DEF KeepsRows, RecordRows, Rows
    <3> QED
      BY <3>1, DecisionsStay, LoggedStays DEF LogInv, RowsInv
  <2> QED
    BY <2>1, <2>2 DEF LogInv
<1> QED
  BY <1>1, StepCarry, StepRows DEF Next, LogInv

LEMMA LogInvHolds == Spec => []LogInv
<1>1. Init => LogInv
  <2> SUFFICES ASSUME Init PROVE LogInv
    OBVIOUS
  <2>1. \A s \in Sessions, r \in Records : RecordRows(s, r) = {}
    BY DEF Init, RecordRows, Rows
  <2>2. \A s \in Sessions, r \in Records : DecidedInOrder(s, r)
    BY <2>1 DEF DecidedInOrder, Decisions, Announcements
  <2> QED
    BY <2>1, <2>2 DEF Init, LogInv, CarryInv, RowsInv, RecordLabels, NoCall
<1> QED
  BY <1>1, NextLogInv, TypeCorrect, PTL DEF Spec

(* No decision about a record is missing before one that is in the log,    *)
(* whatever fails on the way, and a record process_record reports as       *)
(* processed has the decision of every entry that gives a view of it, in   *)
(* their order (gateway/mod.rs:252-340).                                   *)
THEOREM ProcessedAlwaysAudited == Spec => []ProcessedIsAudited
<1>1. LogInv => ProcessedIsAudited
  BY DEF LogInv, RowsInv, ProcessedIsAudited
<1> QED
  BY <1>1, LogInvHolds, PTL

-----------------------------------------------------------------------------
(* The counters and the log.  Rows are counted per record: a record that   *)
(* is done has added its decisions to the counters, a pending one has them *)
(* in the locals of the thread that carries it.                            *)

DecisionEvents == {"DataTransmitted", "DataBlocked"}

RowAt(p) == auditLog[p[1]][p[2]]

EventRows(event) ==
  {p \in UNION {{s} \X Rows(s) : s \in Sessions} : RowAt(p).event = event}

RowsAbout(event, r) == {p \in EventRows(event) : RowAt(p).rec = r}

CountedRows(event) == {p \in EventRows(event) : outcome[RowAt(p).rec] = "done"}

Total(event) ==
  IF event = "DataTransmitted" THEN metrics.transmitted ELSE metrics.blocked

Count(t, event) == IF event = "DataTransmitted" THEN call[t].sent ELSE call[t].blocked

Tally(event) ==
  /\ IsFiniteSet(EventRows(event))
  /\ \A p \in EventRows(event) : RowAt(p).rec \in Records
  /\ Total(event) = Cardinality(CountedRows(event))
  /\ \A t \in Threads, r \in Records :
       pc[t] \in RecordLabels /\ call[t].rec = r =>
         Count(t, event) = Cardinality(RowsAbout(event, r))
  /\ \A t \in Threads :
       pc[t] \in RecordLabels \ {"route", "countRecord"} => Count(t, event) = 0
  /\ NoFaults => \A p \in EventRows(event) : outcome[RowAt(p).rec] \in {"pending", "done"}

(* A pending record is carried, and failures are only ever spent.          *)
PendingInv ==
  /\ \A r \in Records :
       outcome[r] = "pending" => \E t \in Threads : pc[t] \in RecordLabels /\ call[t].rec = r
  /\ budget["fault"] <= Budget["fault"]

(* Sections between the SessionEnd row and the counter of burns.           *)
Ending == {t \in Threads : pc[t] \in {"removeSession", "removeEvaluator", "countEnd"}}

BurnTally ==
  /\ IsFiniteSet(EventRows("SessionEnd"))
  /\ metrics.burned + Cardinality(Ending) = Cardinality(EventRows("SessionEnd"))

TallyInv == (\A event \in DecisionEvents : Tally(event)) /\ PendingInv /\ BurnTally

-----------------------------------------------------------------------------
(* What a step does to the rows of one event.                              *)

Silent(t, event) == \A e : Wrote(t, e) => e.event # event

LEMMA EventRowsAre ==
  \A event, p : p \in EventRows(event) <=>
    \E s \in Sessions : \E i \in Rows(s) : p = <<s, i>> /\ auditLog[s][i].event = event
BY DEF EventRows, RowAt

LEMMA StepEventRows ==
  ASSUME TypeOK, NEW t \in Threads, Begin(t) \/ Continue(t) \/ CallFails(t), NEW event
  PROVE  /\ \A p \in EventRows(event) : RowAt(p)' = RowAt(p)
         /\ Silent(t, event) => EventRows(event)' = EventRows(event)
         /\ \A e : Wrote(t, e) /\ e.event = event =>
              \E q : /\ q \notin EventRows(event) /\ RowAt(q)' = e
                     /\ EventRows(event)' = EventRows(event) \cup {q}
<1>0. \A p : p \in EventRows(event)' <=>
        \E s \in Sessions : \E i \in Rows(s)' : p = <<s, i>> /\ auditLog'[s][i].event = event
  BY DEF EventRows, RowAt
<1>1. ASSUME NEW p \in EventRows(event)
      PROVE  RowAt(p)' = RowAt(p) /\ p \in EventRows(event)'
  <2>1. PICK s \in Sessions : \E i \in Rows(s) : p = <<s, i>> /\ auditLog[s][i].event = event
    BY EventRowsAre
  <2>2. PICK i \in Rows(s) : p = <<s, i>> /\ auditLog[s][i].event = event
    BY <2>1
  <2>3. i \in Rows(s)' /\ auditLog'[s][i] = auditLog[s][i]
    BY RowsStay DEF Next
  <2> QED
    BY <1>0, <2>2, <2>3 DEF RowAt
<1>2. CASE UNCHANGED auditLog
  <2>1. EventRows(event)' = EventRows(event)
    BY <1>2 DEF EventRows, RowAt, Rows
  <2> QED
    BY <1>1, <1>2, <2>1, WroteOnce
<1>3. ASSUME NEW e, Wrote(t, e)
      PROVE  /\ e.event # event => EventRows(event)' = EventRows(event)
             /\ e.event = event =>
                  \E q : /\ q \notin EventRows(event) /\ RowAt(q)' = e
                         /\ EventRows(event)' = EventRows(event) \cup {q}
  <2> PICK s : s = call[t].sess
    OBVIOUS
  <2> PICK n : n = Len(auditLog[s]) + 1
    OBVIOUS
  <2>1. s \in Sessions /\ \A x \in Sessions \ {s} : auditLog'[x] = auditLog[x]
    BY <1>3, RowWritten
  <2>2. Len(auditLog[s]) \in Nat /\ Rows(s) = 1 .. Len(auditLog[s])
    BY <1>3, RowWritten
  <2>3. Rows(s)' = 1 .. (Len(auditLog[s]) + 1)
    BY <1>3, RowWritten
  <2>4. auditLog'[s][n] = e
    BY <1>3, RowWritten
  <2>5. \A i \in Rows(s) : auditLog'[s][i] = auditLog[s][i]
    BY <1>3, RowWritten
  <2>6. Rows(s)' = Rows(s) \cup {n} /\ n \notin Rows(s)
    BY <2>2, <2>3
  <2>7. ASSUME NEW p \in EventRows(event)', p # <<s, n>>
        PROVE  p \in EventRows(event)
    <3>1. PICK x \in Sessions : \E i \in Rows(x)' : p = <<x, i>> /\ auditLog'[x][i].event = event
      BY <1>0, <2>7
    <3>2. PICK i \in Rows(x)' : p = <<x, i>> /\ auditLog'[x][i].event = event
      BY <3>1
    <3>3. CASE x = s
      <4>1. i \in Rows(s)
        BY <2>6, <2>7, <3>2, <3>3
      <4> QED
        BY <2>5, <3>2, <3>3, <4>1, EventRowsAre
    <3>4. CASE x # s
      <4>1. i \in Rows(x) /\ auditLog'[x] = auditLog[x]
        BY <2>1, <3>2, <3>4 DEF Rows
      <4> QED
        BY <3>2, <4>1, EventRowsAre
    <3> QED
      BY <3>3, <3>4
  <2>8. <<s, n>> \notin EventRows(event)
    BY <2>6, EventRowsAre
  <2>9. <<s, n>> \in EventRows(event)' <=> e.event = event
    BY <1>0, <2>1, <2>4, <2>6
  <2>10. RowAt(<<s, n>>)' = e
    BY <2>4 DEF RowAt
  <2> QED
    BY <1>1, <2>7, <2>8, <2>9, <2>10
<1>4. UNCHANGED auditLog \/ \E e : Wrote(t, e)
  BY StepLogs DEF Logs
<1> QED
  BY <1>1, <1>2, <1>3, <1>4, WroteOnce DEF Silent

LEMMA StepCounts ==
  ASSUME TypeOK, NEW t \in Threads, Begin(t) \/ Continue(t) \/ CallFails(t),
         NEW event \in DecisionEvents
  PROVE  /\ ~RecordCount(t) => Total(event)' = Total(event)
         /\ RecordCount(t) => Total(event)' = Total(event) + Count(t, event)
         /\ pc[t] = "idle" /\ pc'[t] = "readKey" => Count(t, event)' = 0
         /\ pc[t] \in RecordLabels /\ pc'[t] \in RecordLabels =>
              \/ Count(t, event)' = Count(t, event) /\ Silent(t, event)
              \/ /\ Count(t, event)' = Count(t, event) + 1
                 /\ pc'[t] \in {"route", "countRecord"}
                 /\ \E e : Wrote(t, e) /\ e.event = event
         /\ pc[t] \in RecordLabels /\ pc'[t] = "idle" => UNCHANGED auditLog
<1>a. call[t] \in Call /\ metrics \in Metrics
  BY DEF TypeOK, CallTypeOK
<1>b. AtSection(t) /\ Moves(t) /\ Logs(t)
  BY StepAtSection, StepMoves, StepLogs
<1>1. ~RecordCount(t) => Total(event)' = Total(event)
  <2>1. CASE StartCount(t)
    <3>1. /\ metrics'.transmitted = metrics.transmitted
          /\ metrics'.blocked = metrics.blocked
      BY <1>a, <2>1 DEF StartCount, Metrics
    <3> QED
      BY <3>1 DEF Total
  <2>2. CASE EndCount(t)
    <3> PICK active : active = IF metrics.active > 0 THEN metrics.active - 1 ELSE 0
      OBVIOUS
    <3>1. metrics' = [metrics EXCEPT !.active = active, !.burned = @ + 1]
      BY <2>2 DEF EndCount
    <3>2. /\ metrics'.transmitted = metrics.transmitted
          /\ metrics'.blocked = metrics.blocked
      BY <1>a, <3>1 DEF Metrics
    <3> QED
      BY <3>2 DEF Total
  <2>3. CASE UNCHANGED metrics
    BY <2>3 DEF Total
  <2>4. ~RecordCount(t) => StartCount(t) \/ EndCount(t) \/ UNCHANGED metrics
    BY BeginFrame
    DEF Continue, StartStep, StartRegister, StartInsertSession, StartInsertEvaluator,
        StartLogSession, StartLogManifest, LogThen, RecordStep, RecordReadKey,
        RecordKeyDestroyed, RecordStoreBlob, RecordLogGenerated, RecordEvaluate,
        RecordNoEvaluator, RecordLogUndeclared, RecordRoute, RecordFails, EndStep,
        EndLogBurnStarted, BurnLogical, BurnDestroyKey, BurnOverwrite, BurnZero,
        BurnForgetKey, BurnForgetData, BurnVerifyHsm, BurnVerifyStore, BurnVerifyKeys,
        EndLogBurnCompleted, EndLogSessionEnd, EndRemoveSession, EndRemoveEvaluator,
        BurnStore, BurnVerify, Revoke, RevokeLog, FallbackLog, CallFails
  <2> QED
    BY <2>1, <2>2, <2>3, <2>4
<1>2. RecordCount(t) => Total(event)' = Total(event) + Count(t, event)
  <2> SUFFICES ASSUME RecordCount(t) PROVE Total(event)' = Total(event) + Count(t, event)
    OBVIOUS
  <2>1. /\ metrics'.transmitted = metrics.transmitted + call[t].sent
        /\ metrics'.blocked = metrics.blocked + call[t].blocked
    BY <1>a DEF RecordCount, Metrics
  <2> QED
    BY <2>1 DEF Total, Count
<1>3. pc[t] = "idle" /\ pc'[t] = "readKey" => Count(t, event)' = 0
  <2> SUFFICES ASSUME pc[t] = "idle", pc'[t] = "readKey" PROVE Count(t, event)' = 0
    OBVIOUS
  <2>1. Begin(t)
    BY <1>b DEF AtSection
  <2>2. PICK s \in Sessions, r \in Records : RecordLookup(t, s, r)
    BY <2>1 DEF Begin, StartGenerateKey, RevokeLookup, EndLookup, FallbackEnter, Enter, Goto,
                TypeOK, CallTypeOK
  <2> DEFINE c == [NoCall EXCEPT !.sess = s, !.key = keyHandle[s], !.rec = r]
  <2>3. Enter(t, c, "readKey")
    BY <2>2 DEF RecordLookup
  <2>4. c.sent = 0 /\ c.blocked = 0
    BY DEF NoCall
  <2> HIDE DEF c
  <2> QED
    BY <2>3, <2>4 DEF Enter, Count, TypeOK, CallTypeOK
<1>4. ASSUME pc[t] \in RecordLabels, pc'[t] \in RecordLabels
      PROVE  \/ Count(t, event)' = Count(t, event) /\ Silent(t, event)
             \/ /\ Count(t, event)' = Count(t, event) + 1
                /\ pc'[t] \in {"route", "countRecord"}
                /\ \E e : Wrote(t, e) /\ e.event = event
  <2>0. "idle" \notin RecordLabels /\ \A u \in Threads : Return(u) => pc'[u] = "idle"
    BY DEF RecordLabels, Return, TypeOK, CallTypeOK
  <2>1. CASE pc[t] \in {"readKey", "storeBlob", "logGenerated"}
    <3>1. UNCHANGED call
      BY <1>4, <1>b, <2>0, <2>1
      DEF AtSection, RecordReadKey, RecordKeyDestroyed, RecordFails, RecordStoreBlob,
          RecordLogGenerated, LogThen, CallFails
    <3>2. Silent(t, event)
      BY <2>1 DEF Silent, Wrote, Writes, DecisionEvents
    <3> QED
      BY <3>1, <3>2 DEF Count
  <2>2. CASE pc[t] = "evaluate"
    <3>1. PICK views, served, label :
            Enter(t, [call[t] EXCEPT !.views = views, !.todo = served], label)
      BY <1>4, <1>b, <2>0, <2>2 DEF AtSection, RecordEvaluate, RecordNoEvaluator, RecordFails
    <3> DEFINE c == [call[t] EXCEPT !.views = views, !.todo = served]
    <3>2. c.sent = call[t].sent /\ c.blocked = call[t].blocked /\ Enter(t, c, label)
      BY <1>a, <3>1 DEF Call
    <3> HIDE DEF c
    <3>3. Silent(t, event)
      BY <2>2 DEF Silent, Wrote, Writes
    <3> QED
      BY <3>2, <3>3 DEF Enter, Count, TypeOK, CallTypeOK
  <2>3. ASSUME NEW f, NEW c, NEW label, LogEvent(t, f), Enter(t, c, label),
               label \in {"route", "countRecord"},
               <<pc[t], f.event>> \in Writes, f.rec = call[t].rec,
               \/ /\ f.event = "DataTransmitted"
                  /\ c.sent = call[t].sent + 1 /\ c.blocked = call[t].blocked
               \/ /\ f.event = "DataBlocked"
                  /\ c.sent = call[t].sent /\ c.blocked = call[t].blocked + 1
        PROVE  \/ Count(t, event)' = Count(t, event) /\ Silent(t, event)
               \/ /\ Count(t, event)' = Count(t, event) + 1
                  /\ pc'[t] \in {"route", "countRecord"}
                  /\ \E e : Wrote(t, e) /\ e.event = event
    <3>1. call'[t] = c /\ pc'[t] = label
      BY <2>3 DEF Enter, Goto, TypeOK, CallTypeOK
    <3>2. CASE pc[t] \in {"logUndeclared", "route"}
      <4>1. Wrote(t, f)
        BY <1>4, <2>3, <3>2 DEF Wrote
      <4>2. \A e : Wrote(t, e) => e = f
        BY <4>1, WroteOnce
      <4> QED
        BY <2>3, <3>1, <4>1, <4>2 DEF Count, Silent, DecisionEvents
    <3> QED
      BY <1>4, <2>3, <3>2 DEF Writes, RecordLabels
  <2>4. CASE pc[t] = "logUndeclared"
    <3>1. RecordLogUndeclared(t)
      BY <1>4, <1>b, <2>0, <2>4 DEF AtSection, CallFails
    <3> DEFINE f == [Entry("DataBlocked") EXCEPT !.rec = call[t].rec]
               c == [call[t] EXCEPT !.blocked = @ + 1]
    <3>2. /\ LogEvent(t, f) /\ Enter(t, c, "countRecord")
          /\ f.event = "DataBlocked" /\ f.rec = call[t].rec
          /\ c.sent = call[t].sent /\ c.blocked = call[t].blocked + 1
      BY <1>a, <3>1 DEF RecordLogUndeclared, Entry, Call
    <3>3. <<pc[t], "DataBlocked">> \in Writes
      BY <2>4 DEF Writes
    <3> HIDE DEF f, c
    <3> QED
      BY <2>3, <3>2, <3>3
  <2>5. CASE pc[t] = "route"
    <3>1. RecordRoute(t)
      BY <1>4, <1>b, <2>0, <2>5 DEF AtSection, CallFails
    <3>2. PICK k \in call[t].todo, sends \in BOOLEAN, label \in {"route", "countRecord"} :
            /\ LogEvent(t, [Entry(IF sends THEN "DataTransmitted" ELSE "DataBlocked")
                              EXCEPT !.rec = call[t].rec, !.entry = k, !.who = call[t].views[k]])
            /\ Enter(t, [call[t] EXCEPT !.todo = call[t].todo \ {k},
                                        !.sent = IF sends THEN @ + 1 ELSE @,
                                        !.blocked = IF sends THEN @ ELSE @ + 1], label)
      <4>1. PICK k \in call[t].todo :
              LET h == call[t].views[k]
                  sends == h \in Endpoints
                  rest == call[t].todo \ {k}
                  name == IF sends THEN "DataTransmitted" ELSE "DataBlocked"
              IN /\ LogEvent(t, [Entry(name) EXCEPT !.rec = call[t].rec, !.entry = k, !.who = h])
                 /\ Enter(t, [call[t] EXCEPT !.todo = rest,
                                             !.sent = IF sends THEN @ + 1 ELSE @,
                                             !.blocked = IF sends THEN @ ELSE @ + 1],
                          IF rest = {} THEN "countRecord" ELSE "route")
        BY <3>1 DEF RecordRoute
      <4>2. CASE call[t].views[k] \in Endpoints
        BY <4>1, <4>2
      <4>3. CASE call[t].views[k] \notin Endpoints
        BY <4>1, <4>3
      <4> QED
        BY <4>2, <4>3
    <3> DEFINE f == [Entry(IF sends THEN "DataTransmitted" ELSE "DataBlocked")
                       EXCEPT !.rec = call[t].rec, !.entry = k, !.who = call[t].views[k]]
               c == [call[t] EXCEPT !.todo = call[t].todo \ {k},
                                    !.sent = IF sends THEN @ + 1 ELSE @,
                                    !.blocked = IF sends THEN @ ELSE @ + 1]
    <3>3. f.event = (IF sends THEN "DataTransmitted" ELSE "DataBlocked") /\ f.rec = call[t].rec
      BY DEF Entry
    <3>4. /\ c.sent = (IF sends THEN call[t].sent + 1 ELSE call[t].sent)
          /\ c.blocked = (IF sends THEN call[t].blocked ELSE call[t].blocked + 1)
      BY <1>a DEF Call
    <3>5. LogEvent(t, f) /\ Enter(t, c, label)
      BY <3>2
    <3>6. <<pc[t], IF sends THEN "DataTransmitted" ELSE "DataBlocked">> \in Writes
      BY <2>5 DEF Writes
    <3> HIDE DEF f, c
    <3> QED
      BY <2>3, <3>3, <3>4, <3>5, <3>6
  <2>6. pc[t] # "countRecord"
    BY <1>4, <1>b, <2>0 DEF AtSection, RecordCount
  <2> QED
    BY <1>4, <2>1, <2>2, <2>4, <2>5, <2>6 DEF RecordLabels
<1>5. ASSUME pc[t] \in RecordLabels, pc'[t] = "idle" PROVE UNCHANGED auditLog
  BY <1>5, <1>b
  DEF AtSection, RecordLabels, RecordReadKey, RecordKeyDestroyed, RecordFails, RecordStoreBlob,
      RecordLogGenerated, LogThen, RecordEvaluate, RecordNoEvaluator, RecordLogUndeclared,
      RecordRoute, RecordCount, CallFails, Enter, Goto, TypeOK, CallTypeOK
<1> QED
  BY <1>1, <1>2, <1>3, <1>4, <1>5

LEMMA StepPending ==
  ASSUME TypeOK, CarryInv, PendingInv, NEW t \in Threads,
         Begin(t) \/ Continue(t) \/ CallFails(t)
  PROVE  /\ PendingInv'
         /\ NoFaults' => NoFaults /\ ~CallFails(t)
<1>0. outcome \in [Records -> Outcomes] /\ budget \in [{"end", "revoke", "fallback", "fault"} -> Nat]
  BY DEF TypeOK, EnvTypeOK
<1>1. \A u \in Threads \ {t} : pc'[u] = pc[u] /\ call'[u].rec = call[u].rec
  BY StepMoves DEF Moves, OthersStay
<1>2. \A r \in Records :
        outcome'[r] = "pending" =>
          \E u \in Threads : pc'[u] \in RecordLabels /\ call'[u].rec = r
  <2>1. CASE Carries(t)
    BY <1>1, <2>1 DEF Carries, PendingInv
  <2>2. CASE Drops(t)
    BY <1>0, <1>1, <2>2 DEF Drops, PendingInv
  <2>3. ASSUME NEW r \in Records, Accepts(t, r) \/ Refuses(t, r)
        PROVE  \A x \in Records :
                 outcome'[x] = "pending" =>
                   \E u \in Threads : pc'[u] \in RecordLabels /\ call'[u].rec = x
    <3>1. CASE Accepts(t, r)
      <4>1. pc'[t] \in RecordLabels /\ call'[t].rec = r /\ pc[t] \notin RecordLabels
        BY <3>1 DEF Accepts, RecordLabels
      <4>2. \A x \in Records : x # r => outcome'[x] = outcome[x]
        BY <1>0, <3>1 DEF Accepts
      <4> QED
        BY <1>1, <4>1, <4>2 DEF PendingInv
    <3>2. CASE Refuses(t, r)
      <4>1. \A x \in Records : outcome'[x] = "pending" => outcome[x] = "pending"
        BY <1>0, <3>2 DEF Refuses
      <4> QED
        BY <3>2, <4>1 DEF Refuses, PendingInv
    <3> QED
      BY <2>3, <3>1, <3>2
  <2> QED
    BY <2>1, <2>2, <2>3, StepOutcome
<1>3. /\ CallFails(t) => budget'["fault"] < budget["fault"]
      /\ ~CallFails(t) => budget'["fault"] = budget["fault"]
  <2>1. CASE CallFails(t)
    BY <1>0, <2>1 DEF CallFails, Spend
  <2>2. CASE Begin(t) /\ ~CallFails(t)
    BY <1>0, <2>2 DEF Begin, StartGenerateKey, RecordLookup, RevokeLookup, EndLookup,
                      FallbackEnter, Spend
  <2>3. CASE Continue(t) /\ ~CallFails(t)
    <3>1. UNCHANGED budget
      BY <2>3, StartFrame, RecordFrame, EndFrame
      DEF Continue, Revoke, RevokeLog, FallbackLog, envVars
    <3> QED
      BY <2>3, <3>1
  <2> QED
    BY <2>1, <2>2, <2>3
<1>4. budget["fault"] \in Nat /\ budget'["fault"] \in Nat /\ Budget["fault"] \in Nat
  <2>1. TypeOK'
    BY NextTypeOK DEF Next
  <2> QED
    BY <1>0, <2>1, GatewayAssumption DEF TypeOK, EnvTypeOK
<1> QED
  BY <1>2, <1>3, <1>4 DEF PendingInv, NoFaults

(* A record nobody has accepted yet has no rows.                           *)
LEMMA NewHasNoRows ==
  ASSUME RowsInv, NEW r \in Records, outcome[r] = "new", NEW event
  PROVE  RowsAbout(event, r) = {}
<1> SUFFICES ASSUME NEW p \in EventRows(event), RowAt(p).rec = r PROVE FALSE
  BY DEF RowsAbout
<1>1. PICK s \in Sessions : \E i \in Rows(s) : p = <<s, i>> /\ auditLog[s][i].event = event
  BY EventRowsAre
<1>2. PICK i \in Rows(s) : p = <<s, i>> /\ auditLog[s][i].event = event
  BY <1>1
<1>3. i \in RecordRows(s, r)
  BY <1>2 DEF RecordRows, RowAt
<1> QED
  BY <1>3 DEF RowsInv

LEMMA StepTally ==
  ASSUME TypeOK, LogInv, PendingInv, NEW event \in DecisionEvents, Tally(event), NEW t \in Threads,
         Begin(t) \/ Continue(t) \/ CallFails(t)
  PROVE  Tally(event)'
<1> DEFINE R(r) == RowsAbout(event, r)
           E == EventRows(event)
           C == CountedRows(event)
<1>a. /\ CarryInv /\ RowsInv /\ CarryInv'
      /\ outcome \in [Records -> Outcomes] /\ None \notin Records
  BY StepCarry, GatewayAssumption DEF LogInv, TypeOK, EnvTypeOK
<1>b. /\ IsFiniteSet(E) /\ \A p \in E : RowAt(p).rec \in Records
      /\ Total(event) = Cardinality(C)
      /\ \A u \in Threads, r \in Records :
           pc[u] \in RecordLabels /\ call[u].rec = r => Count(u, event) = Cardinality(R(r))
      /\ NoFaults => \A p \in E : outcome[RowAt(p).rec] \in {"pending", "done"}
  BY DEF Tally
<1>c. \A u \in Threads \ {t} : pc'[u] = pc[u] /\ call'[u] = call[u]
  BY StepMoves DEF Moves, OthersStay
<1>d. NoFaults' => NoFaults /\ ~CallFails(t)
  BY <1>a, StepPending
<1>e. \A p \in E : RowAt(p)' = RowAt(p)
  BY StepEventRows
<1>f. C \subseteq E /\ \A r \in Records : R(r) \subseteq E
  BY DEF CountedRows, RowsAbout
<1>g. \A u \in Threads : pc[u] \in RecordLabels =>
        call[u].rec \in Records /\ outcome[call[u].rec] = "pending"
  BY <1>a DEF CarryInv, TypeOK, CallTypeOK
<1>h. Total(event)' \in Nat /\ Total(event) \in Nat /\ \A u \in Threads : Count(u, event) \in Nat
  <2>1. TypeOK'
    BY NextTypeOK DEF Next
  <2> QED
    BY <2>1 DEF TypeOK, CallTypeOK, Metrics, Call, Total, Count
<1>i. E' = EventRows(event)' /\ C' = {p \in E' : outcome'[RowAt(p)'.rec] = "done"}
      /\ \A r : R(r)' = {p \in E' : RowAt(p)'.rec = r}
  BY DEF CountedRows, RowsAbout
<1>z. Tally(event)' <=>
        /\ IsFiniteSet(E') /\ \A p \in E' : RowAt(p)'.rec \in Records
        /\ Total(event)' = Cardinality(C')
        /\ \A u \in Threads, r \in Records :
             pc'[u] \in RecordLabels /\ call'[u].rec = r =>
               Count(u, event)' = Cardinality(R(r)')
        /\ \A u \in Threads :
             pc'[u] \in RecordLabels \ {"route", "countRecord"} => Count(u, event)' = 0
        /\ NoFaults' => \A p \in E' : outcome'[RowAt(p)'.rec] \in {"pending", "done"}
  BY DEF Tally
<1>1. CASE Silent(t, event)
  <2>1. E' = E /\ \A r \in Records : R(r)' = R(r)
    <3>1. E' = E
      BY <1>1, StepEventRows
    <3> QED
      BY <1>e, <1>i, <3>1 DEF RowsAbout
  <2>2. ASSUME NEW u \in Threads, u # t, NEW r \in Records,
               pc'[u] \in RecordLabels, call'[u].rec = r
        PROVE  Count(u, event)' = Cardinality(R(r)')
    BY <1>b, <1>c, <2>1, <2>2 DEF Count
  <2>3. ASSUME NEW u \in Threads, u # t, pc'[u] \in RecordLabels \ {"route", "countRecord"}
        PROVE  Count(u, event)' = 0
    BY <1>c, <2>3 DEF Count, Tally
  <2>4. /\ IsFiniteSet(E') /\ \A p \in E' : RowAt(p)'.rec \in Records
        /\ C' = {p \in E : outcome'[RowAt(p).rec] = "done"}
        /\ C = {p \in E : outcome[RowAt(p).rec] = "done"}
    BY <1>b, <1>e, <1>i, <2>1 DEF CountedRows
  <2>5. CASE Carries(t)
    <3>1. C' = C /\ Total(event)' = Total(event)
      <4>1. ~RecordCount(t)
        BY <2>5 DEF Carries, RecordCount, At, Return, RecordLabels, TypeOK, CallTypeOK
      <4> QED
        BY <2>4, <2>5, <4>1, StepCounts DEF Carries
    <3>2. NoFaults' => \A p \in E' : outcome'[RowAt(p)'.rec] \in {"pending", "done"}
      BY <1>b, <1>d, <1>e, <2>1, <2>5 DEF Carries
    <3>3. pc'[t] \in RecordLabels => pc[t] \in RecordLabels /\ Count(t, event)' = Count(t, event)
      BY <1>1, <2>5, StepCounts DEF Carries, Silent
    <3>4. ASSUME NEW r \in Records, pc'[t] \in RecordLabels, call'[t].rec = r
          PROVE  Count(t, event)' = Cardinality(R(r)')
      BY <1>b, <2>1, <2>5, <3>3, <3>4 DEF Carries
    <3>5. ASSUME pc'[t] \in RecordLabels \ {"route", "countRecord"} PROVE Count(t, event)' = 0
      <4>1. pc[t] \in RecordLabels \ {"route", "countRecord"}
        BY <3>3, <3>5, StepMoves DEF Moves, Flow, RecordLabels, Entered
      <4> QED
        BY <3>3, <3>5, <4>1 DEF Tally
    <3> QED
      BY <1>b, <1>z, <2>2, <2>3, <2>4, <3>1, <3>2, <3>4, <3>5
  <2>6. CASE Drops(t)
    <3> PICK r : r = call[t].rec
      OBVIOUS
    <3>0. r \in Records /\ outcome[r] = "pending" /\ pc[t] \in RecordLabels /\ pc'[t] = "idle"
      BY <1>g, <2>6 DEF Drops
    <3>1. pc'[t] \notin RecordLabels
      BY <3>0 DEF RecordLabels
    <3>2. PICK o \in {"error", "done"} : /\ o = "done" => pc[t] = "countRecord"
                                         /\ outcome' = [outcome EXCEPT ![r] = o]
      BY <2>6 DEF Drops
    <3>3. CASE o = "done"
      <4>1. RecordCount(t)
        BY <3>2, <3>3, StepAtSection DEF AtSection
      <4>2. C' = C \cup R(r)
        BY <1>a, <1>b, <2>4, <3>0, <3>2, <3>3 DEF RowsAbout
      <4>3. C \cap R(r) = {}
        BY <2>4, <3>0 DEF RowsAbout
      <4>4. IsFiniteSet(C) /\ IsFiniteSet(R(r))
        BY <1>b, <1>f, <3>0, FS_Subset
      <4>5. Cardinality(C') = Cardinality(C) + Cardinality(R(r))
        <5>1. Cardinality(C \cup R(r)) =
                Cardinality(C) + Cardinality(R(r)) - Cardinality(C \cap R(r))
          BY <4>4, FS_Union
        <5>2. Cardinality({}) = 0
          BY FS_EmptySet
        <5>3. Cardinality(C) \in Nat /\ Cardinality(R(r)) \in Nat
          BY <4>4, FS_CardinalityType
        <5>4. /\ Cardinality(C') = Cardinality(C \cup R(r))
              /\ Cardinality(C \cap R(r)) = 0
          BY <4>2, <4>3, <5>2
        <5> HIDE DEF C, R
        <5> QED
          BY <5>1, <5>3, <5>4
      <4>6. Total(event)' = Cardinality(C')
        BY <1>b, <3>0, <4>1, <4>5, StepCounts
      <4>7. NoFaults' => \A p \in E' : outcome'[RowAt(p)'.rec] \in {"pending", "done"}
        BY <1>a, <1>b, <1>d, <1>e, <2>1, <3>0, <3>2, <3>3
      <4> QED
        BY <1>b, <1>z, <2>2, <2>3, <2>4, <3>1, <4>6, <4>7
    <3>4. CASE o = "error"
      <4>1. C' = C
        BY <1>a, <1>b, <2>4, <3>0, <3>2, <3>4
      <4>2. Total(event)' = Cardinality(C')
        <5>1. ~RecordCount(t)
          BY <1>a, <3>0, <3>2, <3>4 DEF RecordCount, SetOutcome
        <5> QED
          BY <1>b, <4>1, <5>1, StepCounts
      <4>3. ASSUME NoFaults'
            PROVE  \A p \in E' : outcome'[RowAt(p)'.rec] \in {"pending", "done"}
        <5>1. RecordKeyDestroyed(t) \/ RecordNoEvaluator(t)
          <6>1. AtSection(t) /\ ~CallFails(t)
            BY <1>d, <4>3, StepAtSection
          <6>2. ~RecordCount(t)
            BY <1>a, <3>0, <3>2, <3>4 DEF RecordCount, SetOutcome
          <6> QED
            BY <3>0, <6>1, <6>2
            DEF AtSection, RecordLabels, RecordReadKey, RecordStoreBlob, RecordLogGenerated,
                LogThen, RecordEvaluate, RecordLogUndeclared, RecordRoute, Enter, Goto,
                TypeOK, CallTypeOK
        <5>2. Count(t, event) = 0
          BY <5>1 DEF RecordKeyDestroyed, RecordNoEvaluator, At, Tally, RecordLabels
        <5>3. R(r) = {}
          <6>1. Cardinality(R(r)) = 0 /\ IsFiniteSet(R(r))
            BY <1>b, <1>f, <3>0, <5>2, FS_Subset
          <6> QED
            BY <6>1, FS_EmptySet
        <5>4. \A p \in E : RowAt(p).rec # r
          BY <5>3 DEF RowsAbout
        <5> QED
          BY <1>a, <1>b, <1>d, <1>e, <2>1, <3>2, <4>3, <5>4
      <4> QED
        BY <1>b, <1>z, <2>2, <2>3, <2>4, <3>1, <4>2, <4>3
    <3> QED
      BY <3>2, <3>3, <3>4
  <2>7. ASSUME NEW r \in Records, Accepts(t, r) \/ Refuses(t, r)
        PROVE  Tally(event)'
    <3>0. outcome[r] = "new" /\ R(r) = {} /\ pc[t] = "idle" /\ "idle" \notin RecordLabels
      BY <1>a, <2>7, NewHasNoRows DEF Accepts, Refuses, RecordLabels
    <3>1. \A p \in E : RowAt(p).rec # r
      BY <3>0 DEF RowsAbout
    <3>2. \A p \in E : outcome'[RowAt(p).rec] = outcome[RowAt(p).rec]
      BY <1>a, <1>b, <2>7, <3>1 DEF Accepts, Refuses
    <3>3. C' = C
      BY <2>4, <3>2
    <3>4. Total(event)' = Cardinality(C')
      <4>1. ~RecordCount(t)
        BY <3>0 DEF RecordCount, At
      <4> QED
        BY <1>b, <3>3, <4>1, StepCounts
    <3>5. NoFaults' => \A p \in E' : outcome'[RowAt(p)'.rec] \in {"pending", "done"}
      BY <1>b, <1>d, <1>e, <2>1, <3>2
    <3>6. pc'[t] \in RecordLabels => call'[t].rec = r /\ Count(t, event)' = 0
      <4>1. pc'[t] \in RecordLabels => Accepts(t, r)
        BY <2>7, <3>0 DEF Refuses
      <4> QED
        BY <3>0, <4>1, StepCounts DEF Accepts
    <3>7. Cardinality(R(r)') = 0
      BY <2>1, <3>0, FS_EmptySet
    <3> QED
      BY <1>b, <1>z, <2>2, <2>3, <2>4, <3>4, <3>5, <3>6, <3>7
  <2> QED
    BY <1>a, <2>5, <2>6, <2>7, StepOutcome
<1>2. ASSUME NEW e, Wrote(t, e), e.event = event
      PROVE  Tally(event)'
  <2> PICK r : r = call[t].rec
    OBVIOUS
  <2>1. pc[t] \in {"logUndeclared", "route"} /\ pc[t] \in RecordLabels /\ e.rec = r
    BY <1>2 DEF Wrote, Writes, DecisionEvents, RecordLabels
  <2>2. r \in Records /\ outcome[r] = "pending"
    BY <1>g, <2>1
  <2>3. pc'[t] \in RecordLabels
    <3>1. pc'[t] # "idle"
      BY <1>2, <2>1, StepCounts, WroteOnce
    <3> QED
      BY <2>1, <3>1, StepMoves DEF Moves, Flow, RecordLabels
  <2>4. Carries(t)
    BY <1>a, <2>1, <2>3, StepOutcome DEF Drops, Accepts, Refuses, RecordLabels
  <2>5. PICK q : /\ q \notin E /\ RowAt(q)' = e /\ E' = E \cup {q}
    BY <1>2, StepEventRows
  <2>6. IsFiniteSet(E') /\ \A p \in E' : RowAt(p)'.rec \in Records
    <3>1. IsFiniteSet(E')
      BY <1>b, <2>5, FS_AddElement
    <3>2. \A p \in E' : RowAt(p)'.rec \in Records
      BY <1>b, <1>e, <2>1, <2>2, <2>5
    <3> QED
      BY <3>1, <3>2
  <2>7. C' = C
    BY <1>e, <1>i, <2>1, <2>2, <2>4, <2>5 DEF CountedRows, Carries
  <2>8. Total(event)' = Cardinality(C')
    <3>1. ~RecordCount(t)
      BY <2>1 DEF RecordCount, At
    <3> QED
      BY <1>b, <2>7, <3>1, StepCounts
  <2>9. R(r)' = R(r) \cup {q} /\ \A x \in Records \ {r} : R(x)' = R(x)
    BY <1>e, <1>i, <2>1, <2>5 DEF RowsAbout
  <2>10. Cardinality(R(r)') = Cardinality(R(r)) + 1
    <3>1. IsFiniteSet(R(r)) /\ q \notin R(r)
      BY <1>b, <1>f, <2>2, <2>5, FS_Subset
    <3> HIDE DEF R
    <3> QED
      BY <2>9, <3>1, FS_AddElement
  <2>11. /\ Count(t, event)' = Count(t, event) + 1
         /\ pc'[t] \in {"route", "countRecord"}
    BY <1>2, <2>1, <2>3, StepCounts DEF Silent
  <2>12. ASSUME NEW u \in Threads, NEW x \in Records, pc'[u] \in RecordLabels, call'[u].rec = x
         PROVE  Count(u, event)' = Cardinality(R(x)')
    <3>1. CASE u = t
      <4>1. x = r /\ Count(t, event) = Cardinality(R(r))
        BY <1>b, <2>1, <2>2, <2>4, <2>12, <3>1 DEF Carries
      <4> QED
        BY <2>10, <2>11, <3>1, <4>1
    <3>2. CASE u # t
      <4>1. pc[u] \in RecordLabels /\ call[u].rec = x /\ Count(u, event)' = Count(u, event)
        BY <1>c, <2>12, <3>2 DEF Count
      <4>2. x # r
        BY <1>a, <2>1, <3>2, <4>1 DEF CarryInv
      <4> QED
        BY <1>b, <2>9, <4>1, <4>2
    <3> QED
      BY <3>1, <3>2
  <2>13. ASSUME NEW u \in Threads, pc'[u] \in RecordLabels \ {"route", "countRecord"}
         PROVE  Count(u, event)' = 0
    BY <1>c, <2>11, <2>13 DEF Count, Tally
  <2>14. NoFaults' => \A p \in E' : outcome'[RowAt(p)'.rec] \in {"pending", "done"}
    BY <1>b, <1>d, <1>e, <2>1, <2>2, <2>4, <2>5 DEF Carries
  <2> QED
    BY <1>z, <2>6, <2>8, <2>12, <2>13, <2>14
<1> QED
  BY <1>1, <1>2 DEF Silent

LEMMA StepBurnTally ==
  ASSUME TypeOK, BurnTally, NEW t \in Threads, Begin(t) \/ Continue(t) \/ CallFails(t)
  PROVE  BurnTally'
<1> DEFINE E == EventRows("SessionEnd")
           Late == {"removeSession", "removeEvaluator", "countEnd"}
<1>a. IsFiniteSet(E) /\ metrics.burned + Cardinality(Ending) = Cardinality(E)
  BY DEF BurnTally
<1>b. /\ IsFiniteSet(Ending) /\ Ending = {u \in Threads : pc[u] \in Late}
      /\ Ending' = {u \in Threads : pc'[u] \in Late}
  <2>1. Ending \subseteq Threads
    BY DEF Ending
  <2>2. IsFiniteSet(Ending)
    BY <2>1, GatewayAssumption, FS_Subset
  <2> QED
    BY <2>2 DEF Ending
<1>c. /\ Moves(t) /\ AtSection(t) /\ metrics \in Metrics /\ metrics.burned \in Nat
      /\ \A u \in Threads \ {t} : pc'[u] = pc[u]
  BY StepMoves, StepAtSection DEF Moves, OthersStay, TypeOK, Metrics
<1>d. Cardinality(Ending) \in Nat /\ Cardinality(E) \in Nat
  BY <1>a, <1>b, FS_CardinalityType
<1>e. BurnTally' <=> IsFiniteSet(E') /\ metrics'.burned + Cardinality(Ending') = Cardinality(E')
  BY DEF BurnTally
<1>1. CASE pc[t] = "logSessionEnd" /\ pc'[t] # "idle"
  <2>1. EndLogSessionEnd(t)
    BY <1>1, <1>c DEF AtSection, CallFails, Return, TypeOK, CallTypeOK
  <2>2. pc'[t] = "removeSession" /\ metrics' = metrics
    BY <2>1 DEF EndLogSessionEnd, LogThen, Goto, TypeOK, CallTypeOK
  <2>3. Ending' = Ending \cup {t} /\ t \notin Ending
    BY <1>1, <1>b, <1>c, <2>2
  <2>4. PICK e : Wrote(t, e) /\ e.event = "SessionEnd"
    <3>1. PICK e : Wrote(t, e)
      BY <1>1, StepLogs DEF Logs, LogLabels
    <3> QED
      BY <1>1, <3>1 DEF Wrote, Writes
  <2>5. PICK q : q \notin E /\ E' = E \cup {q}
    BY <2>4, StepEventRows
  <2>6. IsFiniteSet(E') /\ Cardinality(E') = Cardinality(E) + 1
    BY <1>a, <2>5, FS_AddElement
  <2>7. Cardinality(Ending') = Cardinality(Ending) + 1
    BY <1>b, <2>3, FS_AddElement
  <2> QED
    BY <1>a, <1>c, <1>d, <1>e, <2>2, <2>6, <2>7
<1>2. CASE ~(pc[t] = "logSessionEnd" /\ pc'[t] # "idle")
  <2>1. E' = E
    <3>1. CASE pc[t] = "logSessionEnd"
      <4>1. UNCHANGED auditLog
        BY <1>2, <1>c, <3>1
        DEF AtSection, EndLogSessionEnd, LogThen, Goto, CallFails, TypeOK, CallTypeOK
      <4> QED
        BY <4>1, WroteOnce, StepEventRows DEF Silent
    <3>2. CASE pc[t] # "logSessionEnd"
      <4>1. Silent(t, "SessionEnd")
        BY <3>2 DEF Silent, Wrote, Writes
      <4> QED
        BY <4>1, StepEventRows
    <3> QED
      BY <3>1, <3>2
  <2>2. CASE EndCount(t)
    <3>1. pc[t] = "countEnd" /\ pc'[t] = "idle"
      BY <2>2 DEF EndCount, At, Return, TypeOK, CallTypeOK
    <3>2. metrics'.burned = metrics.burned + 1
      <4> PICK active : active = IF metrics.active > 0 THEN metrics.active - 1 ELSE 0
        OBVIOUS
      <4>1. metrics' = [metrics EXCEPT !.active = active, !.burned = metrics.burned + 1]
        BY <2>2 DEF EndCount
      <4> QED
        BY <1>c, <4>1 DEF Metrics
    <3>3. Ending' = Ending \ {t} /\ t \in Ending
      BY <1>b, <1>c, <3>1
    <3>4. Cardinality(Ending') = Cardinality(Ending) - 1
      BY <1>b, <3>3, FS_RemoveElement
    <3> QED
      BY <1>a, <1>c, <1>d, <1>e, <2>1, <3>2, <3>4
  <2>3. CASE ~EndCount(t)
    <3>1. metrics'.burned = metrics.burned
      <4>1. CASE StartCount(t) \/ RecordCount(t)
        BY <1>c, <4>1 DEF StartCount, RecordCount, Metrics
      <4>2. StartCount(t) \/ RecordCount(t) \/ UNCHANGED metrics
        BY <2>3, BeginFrame
        DEF Continue, StartStep, StartRegister, StartInsertSession, StartInsertEvaluator,
            StartLogSession, StartLogManifest, LogThen, RecordStep, RecordReadKey,
            RecordKeyDestroyed, RecordStoreBlob, RecordLogGenerated, RecordEvaluate,
            RecordNoEvaluator, RecordLogUndeclared, RecordRoute, RecordFails, EndStep,
            EndLogBurnStarted, BurnLogical, BurnDestroyKey, BurnOverwrite, BurnZero,
            BurnForgetKey, BurnForgetData, BurnVerifyHsm, BurnVerifyStore, BurnVerifyKeys,
            EndLogBurnCompleted, EndLogSessionEnd, EndRemoveSession, EndRemoveEvaluator,
            BurnStore, BurnVerify, Revoke, RevokeLog, FallbackLog, CallFails
      <4> QED
        BY <4>1, <4>2
    <3>2. pc[t] # "countEnd" /\ (pc[t] \in Late => pc'[t] # "idle")
      BY <1>c, <2>3
      DEF AtSection, EndRemoveSession, EndRemoveEvaluator, Goto, TypeOK, CallTypeOK
    <3>3. pc'[t] \in Late <=> pc[t] \in Late
      BY <1>2, <1>c, <3>2 DEF Moves, Flow, Entered
    <3>4. Ending' = Ending
      BY <1>b, <1>c, <3>3
    <3> QED
      BY <1>a, <1>e, <2>1, <3>1, <3>4
  <2> QED
    BY <2>2, <2>3
<1> QED
  BY <1>1, <1>2

LEMMA NextTally == TypeOK /\ LogInv /\ TallyInv /\ [Next]_vars => TallyInv'
<1> SUFFICES ASSUME TypeOK, LogInv, TallyInv, [Next]_vars PROVE TallyInv'
  OBVIOUS
<1>1. CASE UNCHANGED vars
  <2> USE <1>1 DEF vars, envVars, TallyInv
  <2>1. \A event : EventRows(event)' = EventRows(event)
    BY DEF EventRows, Rows, RowAt
  <2>2. /\ PendingInv' /\ Ending' = Ending
    BY DEF PendingInv, Ending
  <2>3. BurnTally'
    BY <2>1, <2>2 DEF BurnTally
  <2>4. ASSUME NEW event \in DecisionEvents PROVE Tally(event)'
    <3>1. /\ CountedRows(event)' = CountedRows(event)
          /\ \A r : RowsAbout(event, r)' = RowsAbout(event, r)
      BY <2>1 DEF CountedRows, RowsAbout, RowAt
    <3> QED
      BY <2>1, <3>1 DEF Tally, Total, Count, NoFaults, RowAt
  <2> QED
    BY <2>2, <2>3, <2>4
<1>2. ASSUME NEW t \in Threads, Begin(t) \/ Continue(t) \/ CallFails(t)
      PROVE  TallyInv'
  BY <1>2, StepTally, StepPending, StepBurnTally DEF TallyInv, LogInv
<1> QED
  BY <1>1, <1>2 DEF Next

(* Between calls, and as long as no call has failed, the counters of       *)
(* transmitted and blocked records and of burned sessions are the numbers  *)
(* of their rows in the audit log (gateway/mod.rs: the metrics updates of  *)
(* process_record and end_session).                                        *)
THEOREM CountersAlwaysMatch == Spec => []CountersMatchLog
<1>1. Init => TallyInv
  <2> SUFFICES ASSUME Init PROVE TallyInv
    OBVIOUS
  <2>1. \A event : EventRows(event) = {}
    BY DEF Init, EventRows, Rows
  <2>2. IsFiniteSet({}) /\ Cardinality({}) = 0
    BY FS_EmptySet
  <2>3. ASSUME NEW event \in DecisionEvents PROVE Tally(event)
    <3>1. CountedRows(event) = {} /\ \A t \in Threads : pc[t] \notin RecordLabels
      BY <2>1 DEF Init, CountedRows, RecordLabels
    <3> QED
      BY <2>1, <2>2, <3>1 DEF Init, Tally, Total
  <2>4. PendingInv
    BY GatewayAssumption DEF Init, PendingInv
  <2>5. BurnTally
    <3>1. Ending = {}
      BY DEF Init, Ending
    <3>2. metrics.burned = 0
      BY DEF Init
    <3>3. /\ IsFiniteSet(EventRows("SessionEnd"))
          /\ Cardinality(EventRows("SessionEnd")) = 0 /\ Cardinality(Ending) = 0
      BY <2>1, <2>2, <3>1
    <3> QED
      BY <3>2, <3>3 DEF BurnTally
  <2> QED
    BY <2>3, <2>4, <2>5 DEF TallyInv
<1>2. TypeOK /\ TallyInv => CountersMatchLog
  <2> SUFFICES ASSUME TypeOK, TallyInv, Quiescent, NoFaults
               PROVE  /\ metrics.transmitted = RowCount({"DataTransmitted"})
                      /\ metrics.blocked = RowCount({"DataBlocked"})
                      /\ metrics.burned = RowCount({"SessionEnd"})
    BY DEF CountersMatchLog
  <2>1. ASSUME NEW event PROVE RowCount({event}) = Cardinality(EventRows(event))
    <3>1. EventRows(event) = UNION {{<<s, i>> : i \in {j \in Rows(s) :
                                       auditLog[s][j].event \in {event}}} : s \in Sessions}
      <4> DEFINE U == UNION {{<<s, i>> : i \in {j \in Rows(s) :
                                auditLog[s][j].event \in {event}}} : s \in Sessions}
      <4>1. ASSUME NEW p \in U PROVE p \in EventRows(event)
        <5>1. PICK s \in Sessions : \E i \in Rows(s) : p = <<s, i>> /\ auditLog[s][i].event = event
          BY <4>1
        <5> QED
          BY <5>1, EventRowsAre
      <4>2. ASSUME NEW p \in EventRows(event) PROVE p \in U
        <5>1. PICK s \in Sessions : \E i \in Rows(s) : p = <<s, i>> /\ auditLog[s][i].event = event
          BY <4>2, EventRowsAre
        <5>2. PICK i \in Rows(s) : p = <<s, i>> /\ auditLog[s][i].event = event
          BY <5>1
        <5> QED
          BY <5>2
      <4> QED
        BY <4>1, <4>2
    <3> QED
      BY <3>1 DEF RowCount
  <2>2. ASSUME NEW event \in DecisionEvents PROVE Total(event) = Cardinality(EventRows(event))
    <3>1. Tally(event)
      BY DEF TallyInv
    <3>2. \A r \in Records : outcome[r] # "pending"
      BY DEF TallyInv, PendingInv, Quiescent, At, RecordLabels
    <3>3. CountedRows(event) = EventRows(event)
      BY <3>1, <3>2 DEF Tally, CountedRows
    <3> QED
      BY <3>1, <3>3 DEF Tally
  <2>3. metrics.burned = Cardinality(EventRows("SessionEnd"))
    <3>1. Ending = {} /\ metrics.burned \in Nat
      BY DEF Quiescent, At, Ending, TypeOK, Metrics
    <3> QED
      BY <3>1, FS_EmptySet DEF TallyInv, BurnTally
  <2> QED
    BY <2>1, <2>2, <2>3 DEF Total, DecisionEvents
<1> QED
  BY <1>1, <1>2, NextTally, LogInvHolds, TypeCorrect, PTL DEF Spec

-----------------------------------------------------------------------------
(* What may still happen after a revocation, the entry into fallback mode  *)
(* or a burn: one record for each other thread.  The late records there    *)
(* are and the threads that may yet add one, together, are fewer than the  *)
(* threads, because the call that wrote the mark is none of them and no    *)
(* thread joins them once the session is closed to new ones.               *)

(* The calls that close a session: to one stakeholder, to records whose    *)
(* key can be read, to records altogether.                                 *)
Causes == ({"revoke"} \X Stakeholders) \cup {<<"fallback", None>>, <<"burn", None>>}

(* The row that marks it, and the rows that come late after it. *)
IsMark(k, e) ==
  \/ k[1] = "revoke" /\ e.event = "ConsentRevoked" /\ e.who = k[2]
  \/ k[1] = "fallback" /\ e.event = "HsmFallback"
  \/ k[1] = "burn" /\ e.event = "BurnCompleted"

IsLate(k, e) ==
  \/ k[1] = "revoke" /\ e.event = "DataTransmitted" /\ e.who = k[2]
  \/ k[1] \in {"fallback", "burn"} /\ e.event = "DataGenerated"

Marked(s, k) == \E i \in Rows(s) : IsMark(k, auditLog[s][i])

LateRows(s, k) ==
  {j \in Rows(s) : /\ IsLate(k, auditLog[s][j])
                   /\ \E i \in 1 .. (j - 1) : IsMark(k, auditLog[s][i])}

LateRecords(s, k) == RecordsOf(s, LateRows(s, k))

(* Where a thread may still write a late row. *)
Flies(t, s, k) ==
  /\ call[t].sess = s
  /\ \/ k[1] = "revoke" /\ pc[t] = "route" /\ \E x \in call[t].todo : call[t].views[x] = k[2]
     \/ k[1] = "fallback" /\ pc[t] \in {"readKey", "storeBlob", "logGenerated"}
     \/ k[1] = "burn" /\ pc[t] \in {"storeBlob", "logGenerated"}

(* Threads that may still write the first late row of their record. *)
InFlight(s, k) == {t \in Threads : Flies(t, s, k) /\ call[t].rec \notin LateRecords(s, k)}

(* No thread can join them. *)
Closed(s, k) ==
  \/ k[1] = "revoke" /\ k[2] \in revocations[s]
  \/ k[1] = "fallback" /\ fallbackMode[s]
  \/ k[1] = "burn" /\ keyHandle[s] # NoHandle /\ ~IsKeyActive(keyHandle[s])

Bounded(late, flying) ==
  IsFiniteSet(late) /\ Cardinality(late) + Cardinality(flying) <= OtherThreads

LateInv(s, k) ==
  Marked(s, k) => Closed(s, k) /\ Bounded(LateRecords(s, k), InFlight(s, k))

(* What a call has closed stays closed until it says so.                   *)
ClosingInv ==
  \A t \in Threads :
    /\ pc[t] = "logRevoked" => call[t].who \in revocations[call[t].sess]
    /\ pc[t] = "logFallback" => fallbackMode[call[t].sess]

(* The store of a session that a burn has emptied, or that has ended, gets *)
(* what was read before the key was destroyed.                             *)
AfterEmpty == {"layer6hsm", "layer6store", "layer6keys", "logBurnCompleted", "logSessionEnd",
               "removeSession", "removeEvaluator", "countEnd"}

Emptied(s) == Ended(s) \/ \E t \in Threads : pc[t] \in AfterEmpty /\ call[t].sess = s

Storing(s) == {t \in Threads : pc[t] = "storeBlob" /\ call[t].sess = s}

StoredInv == \A s \in Sessions : Emptied(s) => Bounded(store[s], Storing(s))

LateCallInv ==
  /\ KnownInv /\ ClosingInv /\ StoredInv
  /\ \A s \in Sessions, k \in Causes : LateInv(s, k)

-----------------------------------------------------------------------------
(* Bounds that a step keeps: a thread lands or hands its place to a row.   *)

LEMMA InFlightFinite ==
  /\ \A s, k : InFlight(s, k) \in SUBSET Threads /\ IsFiniteSet(InFlight(s, k))
  /\ \A s : Storing(s) \in SUBSET Threads /\ IsFiniteSet(Storing(s))
<1>1. IsFiniteSet(Threads)
  BY GatewayAssumption
<1>2. ASSUME NEW F \in SUBSET Threads PROVE IsFiniteSet(F)
  BY <1>1, FS_Subset
<1>3. \A s, k : InFlight(s, k) \in SUBSET Threads
  BY DEF InFlight
<1>4. \A s : Storing(s) \in SUBSET Threads
  BY DEF Storing
<1> QED
  BY <1>2, <1>3, <1>4

LEMMA BoundShrinks ==
  ASSUME NEW L, NEW F, IsFiniteSet(F), Bounded(L, F), NEW F2 \in SUBSET F
  PROVE  Bounded(L, F2)
<1>1. IsFiniteSet(F2) /\ Cardinality(F2) <= Cardinality(F)
  BY FS_Subset
<1>2. /\ Cardinality(F2) \in Nat /\ Cardinality(F) \in Nat /\ Cardinality(L) \in Nat
      /\ Cardinality(Threads) \in Nat
  BY <1>1, GatewayAssumption, FS_CardinalityType DEF Bounded
<1> QED
  BY <1>1, <1>2 DEF Bounded, OtherThreads

LEMMA BoundPasses ==
  ASSUME NEW L, NEW F, IsFiniteSet(F), Bounded(L, F), NEW t \in F,
         NEW F2 \in SUBSET (F \ {t}), NEW q
  PROVE  Bounded(L \cup {q}, F2)
<1>1. IsFiniteSet(F \ {t}) /\ Cardinality(F \ {t}) = Cardinality(F) - 1
  BY FS_RemoveElement
<1>2. IsFiniteSet(F2) /\ Cardinality(F2) <= Cardinality(F \ {t})
  BY <1>1, FS_Subset
<1>3. /\ IsFiniteSet(L \cup {q}) /\ Cardinality(L) \in Nat
      /\ Cardinality(L \cup {q}) = Cardinality(L)
           \/ Cardinality(L \cup {q}) = Cardinality(L) + 1
  BY FS_AddElement, FS_CardinalityType DEF Bounded
<1>4. /\ Cardinality(F2) \in Nat /\ Cardinality(F) \in Nat /\ Cardinality(Threads) \in Nat
  BY <1>2, GatewayAssumption, FS_CardinalityType
<1> QED
  BY <1>1, <1>2, <1>3, <1>4 DEF Bounded, OtherThreads

LEMMA BoundStarts ==
  ASSUME NEW t \in Threads, NEW F \in SUBSET (Threads \ {t})
  PROVE  Bounded({}, F)
<1>1. /\ IsFiniteSet(Threads \ {t})
      /\ Cardinality(Threads \ {t}) = Cardinality(Threads) - 1
  BY GatewayAssumption, FS_RemoveElement
<1>2. IsFiniteSet(F) /\ Cardinality(F) <= Cardinality(Threads \ {t})
  BY <1>1, FS_Subset
<1>3. IsFiniteSet({}) /\ Cardinality({}) = 0
  BY FS_EmptySet
<1>4. Cardinality(F) \in Nat /\ Cardinality(Threads) \in Nat
  BY <1>2, GatewayAssumption, FS_CardinalityType
<1> QED
  BY <1>1, <1>2, <1>3, <1>4 DEF Bounded, OtherThreads

-----------------------------------------------------------------------------
(* What is closed stays closed, and nobody enters.                         *)

LEMMA StepFlags ==
  ASSUME TypeOK, KnownInv, NEW t \in Threads, Begin(t) \/ Continue(t) \/ CallFails(t),
         NEW s \in known
  PROVE  revocations[s] \subseteq revocations'[s] /\ (fallbackMode[s] => fallbackMode'[s])
<1>0. s \in Sessions /\ revocations \in [Sessions -> SUBSET Stakeholders]
      /\ fallbackMode \in [Sessions -> BOOLEAN]
  BY DEF TypeOK, EnvTypeOK, SessionTypeOK
<1>1. CASE StartInsertSession(t) \/ StartInsertEvaluator(t)
  <2>1. call[t].sess # s
    BY <1>1 DEF StartInsertSession, StartInsertEvaluator, At, StartLabels, KnownInv
  <2> QED
    BY <1>0, <1>1, <2>1 DEF StartInsertSession, StartInsertEvaluator
<1>2. CASE Revoke(t)
  BY <1>0, <1>2 DEF Revoke
<1>3. CASE \E x \in Sessions : FallbackEnter(t, x)
  BY <1>0, <1>3 DEF FallbackEnter
<1>4. CASE UNCHANGED <<revocations, fallbackMode>>
  BY <1>4
<1>5. \/ StartInsertSession(t) \/ StartInsertEvaluator(t) \/ Revoke(t)
      \/ \E x \in Sessions : FallbackEnter(t, x)
      \/ UNCHANGED <<revocations, fallbackMode>>
  BY BeginFrame, StartFrame, RecordFrame, EndFrame, OtherFrame
  DEF Continue, sessionVars, EndRemoveSession, EndRemoveEvaluator
<1> QED
  BY <1>1, <1>2, <1>3, <1>4, <1>5

LEMMA StepClosed ==
  ASSUME TypeOK, SealInv, KnownInv, NEW t \in Threads,
         Begin(t) \/ Continue(t) \/ CallFails(t), NEW s \in known, NEW k, Closed(s, k)
  PROVE  Closed(s, k)'
<1>1. s \in Sessions
  BY DEF TypeOK, EnvTypeOK
<1>2. KeyStep(t, s)
  BY <1>1, StepKeys
<1>3. revocations[s] \subseteq revocations'[s] /\ (fallbackMode[s] => fallbackMode'[s])
  BY StepFlags
<1>4. CASE k[1] = "burn" /\ keyHandle[s] # NoHandle /\ ~IsKeyActive(keyHandle[s])
  <2>1. keyHandle'[s] = keyHandle[s] /\ ~IsKeyActive(keyHandle[s])'
    BY <1>2, <1>4 DEF KeyStep
  <2> QED
    BY <1>4, <2>1 DEF Closed
<1>5. CASE \/ k[1] = "revoke" /\ k[2] \in revocations[s]
           \/ k[1] = "fallback" /\ fallbackMode[s]
  BY <1>3, <1>5 DEF Closed
<1> QED
  BY <1>4, <1>5 DEF Closed

LEMMA StepClosing ==
  ASSUME TypeOK, KnownInv, ClosingInv, NEW t \in Threads,
         Begin(t) \/ Continue(t) \/ CallFails(t)
  PROVE  ClosingInv'
<1>0. Moves(t) /\ AtSection(t)
  BY StepMoves, StepAtSection
<1>1. ASSUME NEW u \in Threads \ {t}, pc[u] \in {"logRevoked", "logFallback"}
      PROVE  /\ pc'[u] = "logRevoked" => call'[u].who \in revocations'[call'[u].sess]
             /\ pc'[u] = "logFallback" => fallbackMode'[call'[u].sess]
  <2> PICK s : s = call[u].sess
    OBVIOUS
  <2>1. s \in known
    BY <1>1 DEF KnownInv, StartLabels
  <2>2. revocations[s] \subseteq revocations'[s] /\ (fallbackMode[s] => fallbackMode'[s])
    BY <2>1, StepFlags
  <2>3. pc'[u] = pc[u] /\ call'[u] = call[u]
    BY <1>0 DEF Moves, OthersStay
  <2> QED
    BY <2>2, <2>3 DEF ClosingInv
<1>2. ASSUME pc'[t] = "logRevoked" PROVE call'[t].who \in revocations'[call'[t].sess]
  <2>1. pc[t] = "revoke"
    BY <1>0, <1>2 DEF Moves, Flow, Entered
  <2>2. Revoke(t) /\ call[t].sess \in Sessions /\ call[t].who \in Stakeholders \cup {None}
    BY <1>0, <2>1 DEF AtSection, TypeOK, CallTypeOK, Call
  <2>3. revocations' = [revocations EXCEPT ![call[t].sess] = @ \cup {call[t].who}]
        /\ call'[t] = call[t]
    BY <1>2, <2>2 DEF Revoke, Enter, Return, TypeOK, CallTypeOK
  <2> QED
    BY <2>2, <2>3 DEF TypeOK, SessionTypeOK
<1>3. ASSUME pc'[t] = "logFallback" PROVE fallbackMode'[call'[t].sess]
  <2>1. pc[t] = "idle" /\ Begin(t)
    BY <1>0, <1>3 DEF Moves, Flow, AtSection
  <2>2. PICK s \in Sessions : FallbackEnter(t, s)
    BY <1>3, <2>1 DEF Begin, StartGenerateKey, RecordLookup, RevokeLookup, EndLookup, Enter,
                      Goto, At, TypeOK, CallTypeOK
  <2>3. call'[t].sess = s /\ fallbackMode'[s]
    BY <2>2 DEF FallbackEnter, Enter, NoCall, TypeOK, CallTypeOK, SessionTypeOK
  <2> QED
    BY <2>3
<1>4. ASSUME NEW u \in Threads \ {t} PROVE pc'[u] = pc[u]
  BY <1>0 DEF Moves, OthersStay
<1> QED
  BY <1>1, <1>2, <1>3, <1>4 DEF ClosingInv

LEMMA StepFlies ==
  ASSUME TypeOK, SealInv, NEW t \in Threads, Begin(t) \/ Continue(t) \/ CallFails(t),
         NEW s \in Sessions, NEW k \in Causes, Closed(s, k),
         NEW u \in Threads, Flies(u, s, k)'
  PROVE  Flies(u, s, k) /\ call'[u].rec = call[u].rec
<1>0. Moves(t) /\ AtSection(t) /\ Logs(t)
  BY StepMoves, StepAtSection, StepLogs
<1>1. CASE u # t
  BY <1>0, <1>1 DEF Moves, OthersStay, Flies
<1>2. CASE u = t /\ k[1] = "revoke"
  <2>1. call'[t].sess = s /\ pc'[t] = "route"
        /\ \E x \in call'[t].todo : call'[t].views[x] = k[2]
    BY <1>2 DEF Flies
  <2>2. /\ pc[t] \in {"evaluate", "route"} /\ call[t].sess = s
        /\ call'[t].rec = call[t].rec
    BY <1>0, <2>1 DEF Moves, Flow, Entered, SameCall
  <2>3. CASE pc[t] = "evaluate"
    <3>1. RecordEvaluate(t)
      BY <1>0, <2>1, <2>3 DEF AtSection, RecordNoEvaluator, RecordFails, Return, TypeOK,
                              CallTypeOK
    <3> PICK views : views = Evaluate(s, call[t].rec)
      OBVIOUS
    <3> PICK served : served = Served(views)
      OBVIOUS
    <3> DEFINE c == [call[t] EXCEPT !.views = views, !.todo = served]
    <3>2. call'[t] = c
      BY <2>2, <3>1 DEF RecordEvaluate, Enter, TypeOK, CallTypeOK
    <3>3. c.todo = served /\ c.views = views
      BY DEF TypeOK, CallTypeOK, Call
    <3> HIDE DEF c
    <3>4. PICK x \in served : views[x] = k[2]
      BY <2>1, <3>2, <3>3
    <3>5. x \in DOMAIN views /\ views[x] # None
      BY <3>4 DEF Served
    <3>6. k[2] \notin revocations[s]
      BY <3>4, <3>5 DEF Evaluate
    <3> QED
      BY <1>2, <3>6 DEF Closed
  <2>4. CASE pc[t] = "route"
    <3>1. PICK e : Wrote(t, e)
      BY <1>0, <2>1, <2>4 DEF Logs, LogLabels
    <3>2. RecordRoute(t)
      BY <1>0, <2>4, <3>1, WroteOnce DEF AtSection, CallFails
    <3>3. call'[t].todo = call[t].todo \ {e.entry} /\ call'[t].views = call[t].views
      BY <3>1, <3>2, RouteStep
    <3> QED
      BY <1>2, <2>1, <2>2, <2>4, <3>3 DEF Flies
  <2> QED
    BY <2>2, <2>3, <2>4
<1>3. CASE u = t /\ k[1] # "revoke"
  <2>1. call'[t].sess = s /\ pc'[t] \in {"readKey", "storeBlob", "logGenerated"}
        /\ (k[1] = "burn" => pc'[t] # "readKey") /\ k[1] \in {"fallback", "burn"}
    BY <1>3 DEF Flies
  <2>2. CASE pc[t] = "idle"
    <3>1. pc'[t] = "readKey" /\ Begin(t)
      BY <1>0, <2>1, <2>2 DEF Moves, Flow, Entered, AtSection
    <3>2. PICK x \in Sessions, r \in Records : RecordLookup(t, x, r)
      BY <2>2, <3>1 DEF Begin, StartGenerateKey, FallbackEnter, RevokeLookup, EndLookup, Enter,
                      Goto, At, TypeOK, CallTypeOK
    <3>3. ~fallbackMode[x] /\ Enter(t, [NoCall EXCEPT !.sess = x, !.key = keyHandle[x],
                                                      !.rec = r], "readKey")
      BY <2>2, <3>1, <3>2 DEF RecordLookup
    <3>4. call'[t].sess = x
      BY <3>3 DEF Enter, NoCall, TypeOK, CallTypeOK
    <3> QED
      BY <2>1, <3>1, <3>3, <3>4 DEF Closed
  <2>3. CASE pc[t] = "readKey"
    <3>1. RecordReadKey(t) /\ call[t].sess = s /\ call'[t].rec = call[t].rec
      BY <1>0, <2>1, <2>3 DEF Moves, Flow, Entered, SameCall, AtSection, RecordKeyDestroyed,
                              RecordFails, CallFails, Return, TypeOK, CallTypeOK
    <3>2. IsKeyActive(keyHandle[s])
      BY <2>3, <3>1 DEF RecordReadKey, SealInv, CallInv, ThreadInv, RecordLabels
    <3> QED
      BY <1>3, <2>1, <2>3, <3>1, <3>2 DEF Closed, Flies
  <2>4. CASE pc[t] \notin {"idle", "readKey"}
    <3>1. pc[t] = "storeBlob" /\ call[t].sess = s /\ call'[t].rec = call[t].rec
      BY <1>0, <2>1, <2>4 DEF Moves, Flow, Entered, SameCall
    <3> QED
      BY <1>3, <2>1, <3>1 DEF Flies
  <2> QED
    BY <2>2, <2>3, <2>4
<1> QED
  BY <1>1, <1>2, <1>3

LEMMA StepFlight ==
  ASSUME TypeOK, SealInv, NEW t \in Threads, Begin(t) \/ Continue(t) \/ CallFails(t),
         NEW s \in Sessions, NEW k \in Causes, Closed(s, k),
         LateRecords(s, k) \subseteq LateRecords(s, k)'
  PROVE  InFlight(s, k)' \subseteq InFlight(s, k)
<1> SUFFICES ASSUME NEW u \in InFlight(s, k)' PROVE u \in InFlight(s, k)
  OBVIOUS
<1>1. u \in Threads /\ Flies(u, s, k)' /\ call'[u].rec \notin LateRecords(s, k)'
  BY DEF InFlight
<1>2. Flies(u, s, k) /\ call'[u].rec = call[u].rec
  BY <1>1, StepFlies
<1> QED
  BY <1>1, <1>2 DEF InFlight

(* Who writes a late row flew, and flies on, if at all, with the record it *)
(* wrote it about; who writes the mark has closed the session and does not *)
(* fly.                                                                    *)
LEMMA LateWriter ==
  ASSUME TypeOK, NEW t \in Threads, Begin(t) \/ Continue(t) \/ CallFails(t),
         NEW k \in Causes, NEW e, Wrote(t, e), IsLate(k, e), NEW s, s = call[t].sess
  PROVE  /\ Flies(t, s, k) /\ e.rec = call[t].rec
         /\ Flies(t, s, k)' => call'[t].rec = e.rec
<1>0. AtSection(t)
  BY StepAtSection
<1>1. CASE k[1] = "revoke"
  <2>1. pc[t] = "route" /\ e.who = k[2]
    BY <1>1 DEF IsLate, Wrote, Writes
  <2>2. RecordRoute(t)
    BY <1>0, <2>1, WroteOnce DEF AtSection, CallFails
  <2>3. /\ e.entry \in call[t].todo /\ e.who = call[t].views[e.entry]
        /\ e.rec = call[t].rec /\ call'[t].rec = call[t].rec
    BY <2>2, RouteStep
  <2> QED
    BY <1>1, <2>1, <2>3 DEF Flies
<1>2. CASE k[1] # "revoke"
  <2>1. pc[t] = "logGenerated"
    BY <1>2 DEF IsLate, Wrote, Writes
  <2>2. RecordLogGenerated(t)
    BY <1>0, <2>1, WroteOnce DEF AtSection, CallFails
  <2>3. pc'[t] = "evaluate"
    BY <2>2 DEF RecordLogGenerated, LogThen, Goto, TypeOK, CallTypeOK
  <2>4. e.rec = call[t].rec
    BY <2>1 DEF Wrote, RecordLabels
  <2> QED
    BY <1>2, <2>1, <2>3, <2>4 DEF Flies, IsLate
<1> QED
  BY <1>1, <1>2

LEMMA MarkWriter ==
  ASSUME TypeOK, SealInv, KnownInv, ClosingInv, NEW t \in Threads,
         NEW k \in Causes, NEW e, Wrote(t, e), IsMark(k, e), NEW s, s = call[t].sess
  PROVE  s \in known /\ Closed(s, k) /\ ~Flies(t, s, k)
<1>1. /\ pc[t] \in {"logRevoked", "logFallback", "logBurnCompleted"}
      /\ k[1] = "revoke" => pc[t] = "logRevoked" /\ k[2] = call[t].who
      /\ k[1] = "fallback" => pc[t] = "logFallback"
      /\ k[1] = "burn" => pc[t] = "logBurnCompleted"
  BY DEF IsMark, Wrote, Writes
<1>2. s \in known /\ ~Flies(t, s, k)
  BY <1>1 DEF KnownInv, StartLabels, Flies
<1>3. CASE k[1] = "burn"
  <2>1. call[t].key = keyHandle[s] /\ call[t].key # NoHandle /\ ~IsKeyActive(call[t].key)
    BY <1>1, <1>3 DEF SealInv, CallInv, ThreadInv, EndLabels, AfterKeyLayer
  <2> QED
    BY <1>2, <1>3, <2>1 DEF Closed
<1>4. CASE k[1] # "burn"
  BY <1>1, <1>2, <1>4 DEF Closed, ClosingInv, IsMark
<1> QED
  BY <1>3, <1>4

-----------------------------------------------------------------------------
(* The late rows of a session.                                             *)

LEMMA LateRowsKept ==
  ASSUME NEW s \in Sessions, NEW k, auditLog'[s] = auditLog[s]
  PROVE  LateRows(s, k)' = LateRows(s, k) /\ (Marked(s, k)' <=> Marked(s, k))
BY DEF LateRows, Marked, Rows, IsMark, IsLate

(* The row a step adds is a late one when a mark stands before it.         *)
LEMMA LateRowsGrow ==
  ASSUME TypeOK, NEW t \in Threads, NEW e, Wrote(t, e), NEW s, s = call[t].sess, NEW k
  PROVE  /\ Marked(s, k)' => Marked(s, k) \/ IsMark(k, e)
         /\ Marked(s, k) => LateRows(s, k)' = IF IsLate(k, e)
                                              THEN LateRows(s, k) \cup {Len(auditLog[s]) + 1}
                                              ELSE LateRows(s, k)
         /\ ~Marked(s, k) => LateRows(s, k)' = {}
<1> PICK n : n = Len(auditLog[s])
  OBVIOUS
<1>1. n \in Nat /\ Rows(s) = 1 .. n
  BY RowWritten
<1>2. Rows(s)' = 1 .. (n + 1)
  BY RowWritten
<1>3. auditLog'[s][n + 1] = e
  BY RowWritten
<1>4. \A i \in Rows(s) : auditLog'[s][i] = auditLog[s][i]
  BY RowWritten
<1>5. \A i \in 1 .. (n + 1) : i \in 1 .. n \/ i = n + 1
  BY <1>1
<1>6. \A i \in 1 .. n : IsMark(k, auditLog[s][i])' <=> IsMark(k, auditLog[s][i])
  BY <1>1, <1>4 DEF IsMark
<1>7. \A i \in 1 .. n : IsLate(k, auditLog[s][i])' <=> IsLate(k, auditLog[s][i])
  BY <1>1, <1>4 DEF IsLate
<1>8. /\ IsMark(k, auditLog[s][n + 1])' <=> IsMark(k, e)
      /\ IsLate(k, auditLog[s][n + 1])' <=> IsLate(k, e)
  BY <1>3 DEF IsMark, IsLate
<1>9. Marked(s, k)' => Marked(s, k) \/ IsMark(k, e)
  BY <1>1, <1>2, <1>5, <1>6, <1>8 DEF Marked
<1>10. ASSUME NEW j \in 1 .. (n + 1)
       PROVE  (\E i \in 1 .. (j - 1) : IsMark(k, auditLog[s][i])')
                <=> \E i \in 1 .. (j - 1) : IsMark(k, auditLog[s][i])
  <2>1. \A i \in 1 .. (j - 1) : i \in 1 .. n
    BY <1>1
  <2> QED
    BY <1>6, <2>1
<1>11. ASSUME NEW j
       PROVE  j \in LateRows(s, k)' <=>
                \/ j \in LateRows(s, k)
                \/ j = n + 1 /\ IsLate(k, e) /\ Marked(s, k)
  <2>1. CASE j \in 1 .. n
    <3>1. j # n + 1 /\ j \in 1 .. (n + 1)
      BY <1>1, <2>1
    <3>2. IsLate(k, auditLog[s][j])' <=> IsLate(k, auditLog[s][j])
      BY <1>7, <2>1
    <3> QED
      BY <1>1, <1>2, <1>10, <2>1, <3>1, <3>2 DEF LateRows
  <2>2. CASE j = n + 1
    <3>1. j \notin 1 .. n /\ j \in 1 .. (n + 1) /\ 1 .. (j - 1) = 1 .. n
      BY <1>1, <2>2
    <3> QED
      BY <1>1, <1>2, <1>8, <1>10, <2>2, <3>1 DEF LateRows, Marked
  <2>3. CASE j \notin 1 .. (n + 1)
    <3>1. j \notin 1 .. n /\ j # n + 1
      BY <1>1, <2>3
    <3> QED
      BY <1>1, <1>2, <2>3, <3>1 DEF LateRows
  <2> QED
    BY <1>5, <2>1, <2>2, <2>3
<1>12. ~Marked(s, k) => LateRows(s, k) = {}
  <2>1. \A j \in 1 .. n : \A i \in 1 .. (j - 1) : i \in 1 .. n
    BY <1>1
  <2> QED
    BY <1>1, <2>1 DEF LateRows, Marked
<1>13. ~Marked(s, k) => LateRows(s, k)' = {}
  BY <1>11, <1>12
<1>14. Marked(s, k) /\ IsLate(k, e) => LateRows(s, k)' = LateRows(s, k) \cup {n + 1}
  BY <1>11
<1>15. Marked(s, k) /\ ~IsLate(k, e) => LateRows(s, k)' = LateRows(s, k)
  BY <1>11
<1> QED
  BY <1>9, <1>13, <1>14, <1>15

(* With the row, its record is a late one.                                 *)
LEMMA LateRecordsGrow ==
  ASSUME TypeOK, NEW t \in Threads, NEW e, Wrote(t, e), NEW s, s = call[t].sess, NEW k
  PROVE  /\ Marked(s, k) => LateRecords(s, k)' = IF IsLate(k, e)
                                                 THEN LateRecords(s, k) \cup {e.rec}
                                                 ELSE LateRecords(s, k)
         /\ ~Marked(s, k) => LateRecords(s, k) = {} /\ LateRecords(s, k)' = {}
<1> PICK n : n = Len(auditLog[s])
  OBVIOUS
<1>1. n \in Nat /\ Rows(s) = 1 .. n
  BY RowWritten
<1>2. auditLog'[s][n + 1] = e
  BY RowWritten
<1>3. \A i \in Rows(s) : auditLog'[s][i] = auditLog[s][i]
  BY RowWritten
<1>4. /\ LateRecords(s, k) = {auditLog[s][j].rec : j \in LateRows(s, k)}
      /\ LateRecords(s, k)' = {auditLog'[s][j].rec : j \in LateRows(s, k)'}
      /\ LateRows(s, k) \subseteq Rows(s)
  BY DEF LateRecords, RecordsOf, LateRows
<1>5. CASE Marked(s, k) /\ IsLate(k, e)
  <2>1. LateRows(s, k)' = LateRows(s, k) \cup {n + 1}
    BY <1>5, LateRowsGrow
  <2>2. LateRecords(s, k)' = LateRecords(s, k) \cup {e.rec}
    BY <1>2, <1>3, <1>4, <2>1
  <2> QED
    BY <1>5, <2>2
<1>6. CASE Marked(s, k) /\ ~IsLate(k, e)
  <2>1. LateRows(s, k)' = LateRows(s, k)
    BY <1>6, LateRowsGrow
  <2>2. LateRecords(s, k)' = LateRecords(s, k)
    BY <1>3, <1>4, <2>1
  <2> QED
    BY <1>6, <2>2
<1>7. CASE ~Marked(s, k)
  <2>1. LateRows(s, k)' = {}
    BY <1>7, LateRowsGrow
  <2>2. LateRows(s, k) = {}
    <3>1. \A j \in 1 .. n : \A i \in 1 .. (j - 1) : i \in 1 .. n
      BY <1>1
    <3> QED
      BY <1>1, <1>7, <3>1 DEF LateRows, Marked
  <2> QED
    BY <1>4, <1>7, <2>1, <2>2
<1> QED
  BY <1>5, <1>6, <1>7

(* A session with a mark is known: start_session writes none.              *)
LEMMA MarkedKnown ==
  ASSUME KnownInv, NEW s \in Sessions, NEW k, Marked(s, k)
  PROVE  s \in known
BY DEF KnownInv, Marked, IsMark

LEMMA StepLate ==
  ASSUME TypeOK, SealInv, KnownInv, ClosingInv, NEW t \in Threads,
         Begin(t) \/ Continue(t) \/ CallFails(t), NEW s \in Sessions, NEW k \in Causes,
         LateInv(s, k)
  PROVE  LateInv(s, k)'
<1> DEFINE F == InFlight(s, k)
           G == InFlight(s, k)'
           L == LateRecords(s, k)
           M == LateRecords(s, k)'
<1>0. IsFiniteSet(F) /\ F \subseteq Threads /\ G \subseteq Threads
  BY InFlightFinite DEF InFlight
<1>1. ASSUME Closed(s, k), s \in known, L \subseteq M PROVE Closed(s, k)' /\ G \subseteq F
  BY <1>1, StepClosed, StepFlight
<1>2. ASSUME Marked(s, k) PROVE s \in known /\ Closed(s, k) /\ Bounded(L, F)
  BY <1>2, MarkedKnown DEF LateInv
<1>a. Bounded(M, G) /\ Closed(s, k)' => LateInv(s, k)'
  BY DEF LateInv, Bounded
<1>3. CASE auditLog'[s] = auditLog[s]
  <2>1. M = L /\ (Marked(s, k)' => Marked(s, k))
    BY <1>3, LateRowsKept DEF LateRecords, RecordsOf
  <2>2. ASSUME Marked(s, k) PROVE Closed(s, k)' /\ Bounded(M, G)
    <3>1. G \subseteq F /\ Closed(s, k)' /\ Bounded(L, F)
      BY <1>1, <1>2, <2>1, <2>2
    <3> HIDE DEF F, G, L, M
    <3> QED
      BY <1>0, <2>1, <3>1, BoundShrinks
  <2>3. ~Marked(s, k)' => LateInv(s, k)'
    BY DEF LateInv
  <2> QED
    BY <1>a, <2>1, <2>2, <2>3
<1>4. ASSUME NEW e, Wrote(t, e), s = call[t].sess PROVE LateInv(s, k)'
  <2>1. Marked(s, k)' => Marked(s, k) \/ IsMark(k, e)
    BY <1>4, LateRowsGrow
  <2>2. CASE Marked(s, k) /\ IsLate(k, e)
    <3>1. M = L \cup {e.rec}
      BY <1>4, <2>2, LateRecordsGrow
    <3>2. Flies(t, s, k) /\ e.rec = call[t].rec /\ (Flies(t, s, k)' => call'[t].rec = e.rec)
      BY <1>4, <2>2, LateWriter
    <3>3. G \subseteq F /\ Closed(s, k)' /\ Bounded(L, F)
      BY <1>1, <1>2, <2>2, <3>1
    <3>4. t \notin G
      BY <3>1, <3>2 DEF InFlight
    <3>5. e.rec \notin L => t \in F
      BY <3>2 DEF InFlight
    <3>6. Bounded(M, G)
      <4> HIDE DEF F, G, L, M
      <4>1. CASE e.rec \in L
        <5>1. M = L
          BY <3>1, <4>1
        <5> QED
          BY <1>0, <3>3, <5>1, BoundShrinks
      <4>2. CASE e.rec \notin L
        <5>1. t \in F /\ G \in SUBSET (F \ {t})
          BY <3>3, <3>4, <3>5, <4>2
        <5> QED
          BY <1>0, <3>1, <3>3, <5>1, BoundPasses
      <4> QED
        BY <4>1, <4>2
    <3> QED
      BY <1>a, <3>3, <3>6
  <2>3. CASE Marked(s, k) /\ ~IsLate(k, e)
    <3>1. M = L
      BY <1>4, <2>3, LateRecordsGrow
    <3>2. G \subseteq F /\ Closed(s, k)' /\ Bounded(L, F)
      BY <1>1, <1>2, <2>3, <3>1
    <3>3. Bounded(M, G)
      <4> HIDE DEF F, G, L, M
      <4> QED
        BY <1>0, <3>1, <3>2, BoundShrinks
    <3> QED
      BY <1>a, <3>2, <3>3
  <2>4. CASE ~Marked(s, k) /\ IsMark(k, e)
    <3>1. L = {} /\ M = {}
      BY <1>4, <2>4, LateRecordsGrow
    <3>2. s \in known /\ Closed(s, k) /\ ~Flies(t, s, k)
      BY <1>4, <2>4, MarkWriter
    <3>3. G \subseteq F /\ Closed(s, k)'
      BY <1>1, <3>1, <3>2
    <3>4. t \notin F
      BY <3>2 DEF InFlight
    <3>5. Bounded(M, G)
      <4> HIDE DEF F, G, L, M
      <4>1. G \in SUBSET (Threads \ {t})
        BY <1>0, <3>3, <3>4
      <4> QED
        BY <3>1, <4>1, BoundStarts
    <3> QED
      BY <1>a, <3>3, <3>5
  <2>5. ~Marked(s, k)' => LateInv(s, k)'
    BY DEF LateInv
  <2> QED
    BY <2>1, <2>2, <2>3, <2>4, <2>5
<1>5. ASSUME NEW e, Wrote(t, e), s # call[t].sess PROVE auditLog'[s] = auditLog[s]
  BY <1>5, RowWritten
<1> QED
  BY <1>3, <1>4, <1>5, StepLogs DEF Logs

-----------------------------------------------------------------------------
(* The store of a session that a burn has emptied.                         *)

LEMMA BoundImage ==
  ASSUME NEW L, NEW F, Bounded(L, F), IsFiniteSet(F), NEW M,
         M = {} \/ \E f : f \in Surjection(L, M)
  PROVE  Bounded(M, F)
<1>1. /\ Cardinality(L) \in Nat /\ Cardinality(F) \in Nat /\ Cardinality(Threads) \in Nat
      /\ IsFiniteSet(L) /\ Cardinality(L) + Cardinality(F) <= OtherThreads
  BY GatewayAssumption, FS_CardinalityType DEF Bounded
<1>2. IsFiniteSet(M) /\ Cardinality(M) \in Nat /\ Cardinality(M) <= Cardinality(L)
  <2>1. CASE M = {}
    BY <1>1, <2>1, FS_EmptySet
  <2>2. ASSUME NEW f, f \in Surjection(L, M)
        PROVE  IsFiniteSet(M) /\ Cardinality(M) \in Nat /\ Cardinality(M) <= Cardinality(L)
    <3>1. IsFiniteSet(M) /\ Cardinality(M) <= Cardinality(L)
      BY <1>1, <2>2, FS_Surjection
    <3> QED
      BY <3>1, FS_CardinalityType
  <2> QED
    BY <2>1, <2>2
<1> QED
  BY <1>1, <1>2 DEF Bounded, OtherThreads

(* A layer of the burn rewrites the entries of a session or drops them.    *)
LEMMA LayerImage ==
  ASSUME StoreTypeOK, NEW s \in Sessions,
         MarkDeleted(s) \/ OverwriteWithRandom(s) \/ ZeroMemory(s) \/ RemoveSession(s)
  PROVE  /\ store'[s] = {} \/ \E f : f \in Surjection(store[s], store'[s])
         /\ \A x \in Sessions \ {s} : store'[x] = store[x]
<1> PICK old : old = store[s]
  OBVIOUS
<1>1. /\ StoreTypeOK
      /\ \/ store' = [store EXCEPT ![s] = {}]
         \/ store' = [store EXCEPT ![s] = {[e EXCEPT !.deleted = TRUE] : e \in old}]
         \/ store' = [store EXCEPT ![s] = {[e EXCEPT !.content = "noise"] : e \in old}]
         \/ store' = [store EXCEPT ![s] = {[e EXCEPT !.content = "zeros"] : e \in old}]
  BY DEF MarkDeleted, OverwriteWithRandom, ZeroMemory, RemoveSession, StoreTypeOK
<1>2. ASSUME NEW new, store' = [store EXCEPT ![s] = new]
      PROVE  store'[s] = new /\ \A x \in Sessions \ {s} : store'[x] = store[x]
  BY <1>1, <1>2 DEF StoreTypeOK
<1>3. ASSUME NEW f, f = [e \in old |-> f[e]], NEW new, new = {f[e] : e \in old}
      PROVE  f \in Surjection(old, new)
  BY <1>3 DEF Surjection
<1>4. CASE store' = [store EXCEPT ![s] = {[e EXCEPT !.deleted = TRUE] : e \in old}]
  <2> DEFINE f == [e \in old |-> [e EXCEPT !.deleted = TRUE]]
             new == {[e EXCEPT !.deleted = TRUE] : e \in old}
  <2>1. f = [e \in old |-> f[e]] /\ new = {f[e] : e \in old}
    OBVIOUS
  <2>2. store' = [store EXCEPT ![s] = new]
    BY <1>4
  <2> HIDE DEF f, new
  <2>3. f \in Surjection(old, new)
    BY <1>3, <2>1
  <2>4. store'[s] = new /\ \A x \in Sessions \ {s} : store'[x] = store[x]
    BY <1>2, <2>2
  <2> QED
    BY <2>3, <2>4
<1>5. CASE store' = [store EXCEPT ![s] = {[e EXCEPT !.content = "noise"] : e \in old}]
  <2> DEFINE f == [e \in old |-> [e EXCEPT !.content = "noise"]]
             new == {[e EXCEPT !.content = "noise"] : e \in old}
  <2>1. f = [e \in old |-> f[e]] /\ new = {f[e] : e \in old}
    OBVIOUS
  <2>2. store' = [store EXCEPT ![s] = new]
    BY <1>5
  <2> HIDE DEF f, new
  <2>3. f \in Surjection(old, new)
    BY <1>3, <2>1
  <2>4. store'[s] = new /\ \A x \in Sessions \ {s} : store'[x] = store[x]
    BY <1>2, <2>2
  <2> QED
    BY <2>3, <2>4
<1>6. CASE store' = [store EXCEPT ![s] = {[e EXCEPT !.content = "zeros"] : e \in old}]
  <2> DEFINE f == [e \in old |-> [e EXCEPT !.content = "zeros"]]
             new == {[e EXCEPT !.content = "zeros"] : e \in old}
  <2>1. f = [e \in old |-> f[e]] /\ new = {f[e] : e \in old}
    OBVIOUS
  <2>2. store' = [store EXCEPT ![s] = new]
    BY <1>6
  <2> HIDE DEF f, new
  <2>3. f \in Surjection(old, new)
    BY <1>3, <2>1
  <2>4. store'[s] = new /\ \A x \in Sessions \ {s} : store'[x] = store[x]
    BY <1>2, <2>2
  <2> QED
    BY <2>3, <2>4
<1> QED
  BY <1>1, <1>2, <1>4, <1>5, <1>6

LEMMA StepStore ==
  ASSUME TypeOK, NEW t \in Threads, Begin(t) \/ Continue(t) \/ CallFails(t), NEW s \in Sessions
  PROVE  \/ store'[s] = store[s]
         \/ store'[s] = {} \/ \E f : f \in Surjection(store[s], store'[s])
         \/ /\ RecordStoreBlob(t) /\ call[t].sess = s
            /\ \E q : store'[s] = store[s] \cup {q}
<1>0. StoreTypeOK
  BY DEF TypeOK, DataTypeOK
<1>1. CASE RecordStoreBlob(t)
  <2>1. call[t].sess \in Sessions /\ StoreBlob(call[t].sess, call[t].rec, call[t].key)
    BY <1>1 DEF RecordStoreBlob, At, TypeOK, CallTypeOK
  <2> QED
    BY <1>0, <1>1, <2>1 DEF StoreBlob, StoreTypeOK
<1>2. CASE BurnLogical(t) \/ BurnOverwrite(t) \/ BurnZero(t) \/ BurnForgetData(t)
  <2>1. call[t].sess \in Sessions
    BY <1>2 DEF BurnLogical, BurnOverwrite, BurnZero, BurnForgetData, BurnStore, At, TypeOK,
                CallTypeOK
  <2>2. \/ MarkDeleted(call[t].sess) \/ OverwriteWithRandom(call[t].sess)
        \/ ZeroMemory(call[t].sess) \/ RemoveSession(call[t].sess)
    BY <1>2 DEF BurnLogical, BurnOverwrite, BurnZero, BurnForgetData
  <2>3. /\ store'[call[t].sess] = {}
             \/ \E f : f \in Surjection(store[call[t].sess], store'[call[t].sess])
        /\ \A x \in Sessions \ {call[t].sess} : store'[x] = store[x]
    BY <1>0, <2>1, <2>2, LayerImage
  <2> QED
    BY <2>3
<1>3. CASE UNCHANGED store
  BY <1>3
<1>4. \/ RecordStoreBlob(t) \/ UNCHANGED store
      \/ BurnLogical(t) \/ BurnOverwrite(t) \/ BurnZero(t) \/ BurnForgetData(t)
  BY BeginFrame, StartFrame, RecordFrame, EndFrame, OtherFrame DEF Continue, dataVars
<1> QED
  BY <1>1, <1>2, <1>3, <1>4

(* The layer that empties the store is the only way to an emptied session, *)
(* and an emptied session has lost its key.                                *)
LEMMA StepEmptied ==
  ASSUME TypeOK, SealInv, NEW t \in Threads, Begin(t) \/ Continue(t) \/ CallFails(t),
         NEW s \in Sessions, Emptied(s)'
  PROVE  Emptied(s) \/ (BurnForgetData(t) /\ s = call[t].sess)
<1>0. Moves(t) /\ AtSection(t)
  BY StepMoves, StepAtSection
<1>1. ASSUME NEW u \in Threads, pc'[u] \in AfterEmpty, call'[u].sess = s
      PROVE  Emptied(s) \/ (BurnForgetData(t) /\ s = call[t].sess)
  <2>1. CASE u # t
    <3>1. pc[u] \in AfterEmpty /\ call[u].sess = s
      BY <1>0, <1>1, <2>1 DEF Moves, OthersStay
    <3> QED
      BY <3>1 DEF Emptied
  <2>2. CASE u = t
    <3>1. pc[t] \in AfterEmpty \cup {"layer5data"} /\ call[t].sess = s
      BY <1>0, <1>1, <2>2 DEF Moves, Flow, Entered, AfterEmpty, SameCall
    <3> QED
      BY <1>0, <3>1 DEF AtSection, Emptied
  <2> QED
    BY <2>1, <2>2
<1>2. ASSUME Ended(s)' PROVE Emptied(s)
  <2>1. CASE EndRemoveSession(t) /\ s = call[t].sess
    BY <2>1 DEF EndRemoveSession, At, Emptied, AfterEmpty
  <2>2. CASE StartInsertSession(t)
    <3>1. s # call[t].sess /\ s \notin activeSessions
      BY <1>2, <2>2 DEF Ended, StartInsertSession
    <3>2. keyHandle'[s] = keyHandle[s]
      BY <2>2, <3>1 DEF StartInsertSession, TypeOK, SessionTypeOK
    <3> QED
      BY <1>2, <3>1, <3>2 DEF Ended, Emptied
  <2>3. CASE ~StartInsertSession(t) /\ ~(EndRemoveSession(t) /\ s = call[t].sess)
    <3>1. keyHandle'[s] = keyHandle[s]
      BY <2>3, StepKeys DEF HandleStep
    <3>2. s \notin activeSessions
      <4>1. UNCHANGED activeSessions \/ EndRemoveSession(t)
        BY <2>3, BeginFrame, StartFrame, RecordFrame, EndFrame, OtherFrame
        DEF Continue, sessionVars, StartInsertEvaluator, EndRemoveEvaluator
      <4> QED
        BY <1>2, <2>3, <4>1 DEF Ended, EndRemoveSession
    <3> QED
      BY <1>2, <3>1, <3>2 DEF Ended, Emptied
  <2> QED
    BY <2>1, <2>2, <2>3
<1>3. Ended(s)' \/ \E u \in Threads : pc'[u] \in AfterEmpty /\ call'[u].sess = s
  BY DEF Emptied
<1> QED
  BY <1>1, <1>2, <1>3

LEMMA EmptiedClosed ==
  ASSUME SealInv, NEW s \in Sessions, Emptied(s)
  PROVE  Closed(s, <<"burn", None>>)
<1>1. CASE Ended(s)
  BY <1>1 DEF Ended, SealInv, TableInv, Closed
<1>2. CASE ~Ended(s)
  BY <1>2 DEF Emptied, SealInv, CallInv, ThreadInv, Closed, AfterEmpty, AfterKeyLayer, EndLabels
<1> QED
  BY <1>1, <1>2

LEMMA StepStoring ==
  ASSUME TypeOK, SealInv, NEW t \in Threads, Begin(t) \/ Continue(t) \/ CallFails(t),
         NEW s \in Sessions, Closed(s, <<"burn", None>>)
  PROVE  Storing(s)' \subseteq Storing(s)
<1> SUFFICES ASSUME NEW u \in Storing(s)' PROVE u \in Storing(s)
  OBVIOUS
<1>0. Moves(t) /\ AtSection(t)
  BY StepMoves, StepAtSection
<1>1. CASE u # t
  BY <1>0, <1>1 DEF Moves, OthersStay, Storing
<1>2. CASE u = t
  <2>1. pc[t] = "readKey" /\ call[t].sess = s /\ pc'[t] = "storeBlob"
    BY <1>0, <1>2 DEF Moves, Flow, Entered, SameCall, Storing
  <2>2. RecordReadKey(t)
    BY <1>0, <2>1 DEF AtSection, RecordKeyDestroyed, RecordFails, CallFails, Return, TypeOK,
                      CallTypeOK
  <2>3. IsKeyActive(keyHandle[s])
    BY <2>1, <2>2 DEF RecordReadKey, SealInv, CallInv, ThreadInv, RecordLabels
  <2> QED
    BY <2>3 DEF Closed
<1> QED
  BY <1>1, <1>2

LEMMA StepStored ==
  ASSUME TypeOK, SealInv, StoredInv, NEW t \in Threads,
         Begin(t) \/ Continue(t) \/ CallFails(t)
  PROVE  StoredInv'
<1> SUFFICES ASSUME NEW s \in Sessions, Emptied(s)' PROVE Bounded(store'[s], Storing(s)')
  BY DEF StoredInv, Bounded
<1> DEFINE F == Storing(s)
           G == Storing(s)'
<1>0. IsFiniteSet(F) /\ F \subseteq Threads /\ G \subseteq Threads
  <2>1. \A u \in G : u \in Threads
    BY DEF Storing
  <2> QED
    BY <2>1, InFlightFinite
<1>1. ASSUME BurnForgetData(t), s = call[t].sess PROVE Bounded(store'[s], G)
  <2>1. store'[s] = {} /\ pc'[t] = "layer6hsm"
    BY <1>1 DEF BurnForgetData, BurnStore, RemoveSession, Goto, TypeOK, CallTypeOK, DataTypeOK,
                StoreTypeOK
  <2>2. t \notin G
    BY <2>1 DEF Storing
  <2> HIDE DEF F, G
  <2> QED
    BY <1>0, <2>1, <2>2, BoundStarts
<1>2. ASSUME Emptied(s) PROVE Bounded(store'[s], G)
  <2>1. G \subseteq F /\ Bounded(store[s], F)
    BY <1>2, EmptiedClosed, StepStoring DEF StoredInv
  <2>2. CASE store'[s] = store[s]
    <3> HIDE DEF F, G
    <3> QED
      BY <1>0, <2>1, <2>2, BoundShrinks
  <2>3. CASE store'[s] = {} \/ \E f : f \in Surjection(store[s], store'[s])
    <3> HIDE DEF F, G
    <3>1. Bounded(store[s], G) /\ IsFiniteSet(G)
      BY <1>0, <2>1, BoundShrinks, FS_Subset
    <3> QED
      BY <2>3, <3>1, BoundImage
  <2>4. ASSUME RecordStoreBlob(t), call[t].sess = s, NEW q, store'[s] = store[s] \cup {q}
        PROVE  Bounded(store'[s], G)
    <3>1. t \in F /\ t \notin G
      BY <2>4 DEF Storing, RecordStoreBlob, At, Goto, TypeOK, CallTypeOK
    <3> HIDE DEF F, G
    <3>2. G \in SUBSET (F \ {t}) /\ IsFiniteSet(F) /\ Bounded(store[s], F)
      BY <1>0, <2>1, <3>1
    <3>3. Bounded(store[s] \cup {q}, G)
      BY <3>1, <3>2, BoundPasses
    <3> QED
      BY <2>4, <3>3
  <2> QED
    BY <2>2, <2>3, <2>4, StepStore
<1> QED
  BY <1>1, <1>2, StepEmptied

-----------------------------------------------------------------------------
(* The invariant, and the bound it gives.                                  *)

LEMMA NextLateCall == TypeOK /\ SealInv /\ LateCallInv /\ [Next]_vars => LateCallInv'
<1> SUFFICES ASSUME TypeOK, SealInv, LateCallInv, [Next]_vars PROVE LateCallInv'
  OBVIOUS
<1>1. CASE UNCHANGED vars
  <2> USE <1>1 DEF vars, dataVars, hsmVars, sessionVars, envVars
  <2>1. KnownInv' /\ ClosingInv'
    BY DEF LateCallInv, KnownInv, ClosingInv, Rows
  <2>2. ASSUME NEW s \in Sessions, Emptied(s)' PROVE Bounded(store[s], Storing(s))'
    <3>1. Emptied(s) /\ Storing(s)' = Storing(s)
      BY <2>2 DEF Emptied, Ended, Storing
    <3> QED
      BY <3>1 DEF LateCallInv, StoredInv, Bounded
  <2>3. ASSUME NEW s \in Sessions, NEW k \in Causes PROVE LateInv(s, k)'
    <3>1. LateRecords(s, k)' = LateRecords(s, k) /\ (Marked(s, k)' <=> Marked(s, k))
      BY LateRowsKept DEF LateRecords, RecordsOf
    <3>2. InFlight(s, k)' = InFlight(s, k)
      BY <3>1 DEF InFlight, Flies
    <3>3. Closed(s, k)' <=> Closed(s, k)
      BY DEF Closed, IsKeyActive
    <3> QED
      BY <3>1, <3>2, <3>3 DEF LateCallInv, LateInv, Bounded
  <2> QED
    BY <2>1, <2>2, <2>3 DEF LateCallInv, StoredInv
<1>2. ASSUME NEW t \in Threads, Begin(t) \/ Continue(t) \/ CallFails(t) PROVE LateCallInv'
  <2>1. KnownInv'
    BY <1>2, StepKnown DEF LateCallInv
  <2>2. ClosingInv'
    BY <1>2, StepClosing DEF LateCallInv
  <2>3. StoredInv'
    BY <1>2, StepStored DEF LateCallInv
  <2>4. ASSUME NEW s \in Sessions, NEW k \in Causes PROVE LateInv(s, k)'
    BY <1>2, StepLate DEF LateCallInv
  <2>5. Causes' = Causes
    OBVIOUS
  <2> QED
    BY <2>1, <2>2, <2>3, <2>4, <2>5 DEF LateCallInv
<1> QED
  BY <1>1, <1>2 DEF Next

LEMMA InitLateCall == Init => LateCallInv
<1> SUFFICES ASSUME Init PROVE LateCallInv
  OBVIOUS
<1>1. KnownInv /\ ClosingInv
  BY DEF Init, KnownInv, ClosingInv, Rows, StartLabels
<1>2. StoredInv
  BY DEF Init, StoredInv, Emptied, Ended, AfterEmpty
<1>3. \A s \in Sessions, k \in Causes : LateInv(s, k)
  BY DEF Init, LateInv, Marked, Rows
<1> QED
  BY <1>1, <1>2, <1>3 DEF LateCallInv

LEMMA BoundHolds ==
  ASSUME NEW L, NEW F, IsFiniteSet(F), Bounded(L, F)
  PROVE  Cardinality(L) <= OtherThreads
<1>1. Cardinality(F) \in Nat /\ Cardinality(L) \in Nat /\ Cardinality(Threads) \in Nat
  BY GatewayAssumption, FS_CardinalityType DEF Bounded
<1> QED
  BY <1>1 DEF Bounded, OtherThreads

LEMMA LateBound ==
  ASSUME TypeOK, NEW s \in Sessions, NEW k \in Causes, LateInv(s, k)
  PROVE  Cardinality(LateRecords(s, k)) <= OtherThreads
<1>1. CASE Marked(s, k)
  BY <1>1, BoundHolds, InFlightFinite DEF LateInv
<1>2. CASE ~Marked(s, k)
  <2>1. auditLog[s] \in Seq(LogEntry)
    BY DEF TypeOK, LogTypeOK
  <2>2. Len(auditLog[s]) \in Nat /\ Rows(s) = 1 .. Len(auditLog[s])
    BY <2>1 DEF Rows
  <2>3. \A j \in Rows(s) : \A i \in 1 .. (j - 1) : i \in Rows(s)
    BY <2>2
  <2>4. LateRecords(s, k) = {}
    BY <1>2, <2>3 DEF LateRecords, RecordsOf, LateRows, Marked
  <2>5. PICK t : t \in Threads
    BY GatewayAssumption
  <2>6. Bounded({}, {})
    BY <2>5, BoundStarts
  <2>7. Cardinality({}) <= OtherThreads
    BY <2>6, BoundHolds, FS_EmptySet
  <2> QED
    BY <2>4, <2>7
<1> QED
  BY <1>1, <1>2

LEMMA LateCallBounds ==
  ASSUME TypeOK, LateCallInv
  PROVE  OneLateCallEach
<1>1. ASSUME NEW s \in Sessions, NEW k \in Causes
      PROVE  Cardinality(LateRecords(s, k)) <= OtherThreads
  BY LateBound DEF LateCallInv
<1>2. RevocationBound
  <2> SUFFICES ASSUME NEW s \in Sessions, NEW h \in Stakeholders
               PROVE  Cardinality(RecordsOf(s, {j \in Rows(s) :
                        /\ auditLog[s][j].event = "DataTransmitted"
                        /\ auditLog[s][j].who = h
                        /\ \E i \in 1 .. (j - 1) : /\ auditLog[s][i].event = "ConsentRevoked"
                                                   /\ auditLog[s][i].who = h})) <= OtherThreads
    BY DEF RevocationBound
  <2>1. <<"revoke", h>> \in Causes
    BY DEF Causes
  <2>2. LateRows(s, <<"revoke", h>>) =
          {j \in Rows(s) :
             /\ auditLog[s][j].event = "DataTransmitted"
             /\ auditLog[s][j].who = h
             /\ \E i \in 1 .. (j - 1) : /\ auditLog[s][i].event = "ConsentRevoked"
                                        /\ auditLog[s][i].who = h}
    BY DEF LateRows, IsLate, IsMark
  <2> QED
    BY <1>1, <2>1, <2>2 DEF LateRecords
<1>3. FallbackBound
  <2> SUFFICES ASSUME NEW s \in Sessions
               PROVE  Cardinality(RecordsOf(s, {j \in RowsAfter(s, "HsmFallback") :
                                    auditLog[s][j].event = "DataGenerated"})) <= OtherThreads
    BY DEF FallbackBound
  <2>1. <<"fallback", None>> \in Causes
    BY DEF Causes
  <2>2. LateRows(s, <<"fallback", None>>) =
          {j \in RowsAfter(s, "HsmFallback") : auditLog[s][j].event = "DataGenerated"}
    BY DEF LateRows, IsLate, IsMark, RowsAfter
  <2> QED
    BY <1>1, <2>1, <2>2 DEF LateRecords
<1>4. LateRecordBound
  <2> SUFFICES ASSUME NEW s \in Sessions
               PROVE  /\ Cardinality(RecordsOf(s, {j \in RowsAfter(s, "BurnCompleted") :
                                       auditLog[s][j].event = "DataGenerated"})) <= OtherThreads
                      /\ Ended(s) => Cardinality(store[s]) <= OtherThreads
    BY DEF LateRecordBound
  <2>1. <<"burn", None>> \in Causes
    BY DEF Causes
  <2>2. LateRows(s, <<"burn", None>>) =
          {j \in RowsAfter(s, "BurnCompleted") : auditLog[s][j].event = "DataGenerated"}
    BY DEF LateRows, IsLate, IsMark, RowsAfter
  <2>3. Ended(s) => Cardinality(store[s]) <= OtherThreads
    BY BoundHolds, InFlightFinite DEF LateCallInv, StoredInv, Emptied
  <2> QED
    BY <1>1, <2>1, <2>2, <2>3 DEF LateRecords
<1> QED
  BY <1>2, <1>3, <1>4 DEF OneLateCallEach

(* After a ConsentRevoked, an HsmFallback or a BurnCompleted row each      *)
(* other thread still delivers or logs one record at most, and leaves one  *)
(* entry at most in the store of an ended session (gateway/mod.rs:         *)
(* process_record against revoke_consent, enter_fallback_mode,             *)
(* end_session).                                                           *)
THEOREM LateCallsAreFew == Spec => []OneLateCallEach
<1>1. Spec => [](TypeOK /\ SealInv)
  BY TypeCorrect, SealInvHolds, PTL
<1>2. Spec => []LateCallInv
  BY <1>1, InitLateCall, NextLateCall, PTL DEF Spec
<1>3. TypeOK /\ LateCallInv => OneLateCallEach
  BY LateCallBounds
<1> QED
  BY <1>1, <1>2, <1>3, PTL
=============================================================================
