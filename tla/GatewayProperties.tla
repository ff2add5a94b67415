------------------------- MODULE GatewayProperties -------------------------
(***************************************************************************)
(* What the gateway promises, stated over the states and steps of Gateway. *)
(***************************************************************************)
EXTENDS Gateway

Rows(s) == DOMAIN auditLog[s]

HasRow(s, event) == \E i \in Rows(s) : auditLog[s][i].event = event

(* Rows of session s written after some row of the given event. *)
RowsAfter(s, event) ==
  {j \in Rows(s) : \E i \in 1 .. (j - 1) : auditLog[s][i].event = event}

(* The session has been entered in the table and taken out of it again. *)
Ended(s) == keyHandle[s] # NoHandle /\ s \notin activeSessions

(* Entries that decrypt() would still open: sealed bytes under a live key. *)
Readable(s) == {e \in store[s] : e.content = "sealed" /\ IsKeyActive(e.key)}

(* The session as its driver sees it. *)
PhaseOf(s) ==
  IF keyHandle[s] = NoHandle THEN "unborn"
  ELSE IF IsKeyActive(keyHandle[s]) THEN "open" ELSE "sealed"

SealedView == INSTANCE SealedSession
  WITH phase <- [s \in Sessions |-> PhaseOf(s)],
       readable <- [s \in Sessions |-> {e.rec : e \in Readable(s)}]

Certificates(s) ==
  {i \in Rows(s) : auditLog[s][i].event = "BurnCompleted" /\ auditLog[s][i].ok}

(* No thread is inside the gateway. *)
Quiescent == \A t \in Threads : At(t, "idle")

(* Every failure the budget allows is still unspent. *)
NoFaults == budget["fault"] = Budget["fault"]

OtherThreads == Cardinality(Threads) - 1

RowCount(events) ==
  Cardinality(UNION {{<<s, i>> : i \in {j \in Rows(s) :
                                   auditLog[s][j].event \in events}} :
                       s \in Sessions})

-----------------------------------------------------------------------------
(* Nothing stored for an ended session can be decrypted, whatever threads  *)
(* were still inside process_record when end_session ran, and although     *)
(* end_session removes the session without looking at the receipt.         *)
SealedAfterEnd == \A s \in Sessions : Ended(s) => Readable(s) = {}

(* Why SealedAfterEnd holds: the invariant the proofs of GatewayProofs are  *)
(* by induction over.  A thread that has passed layer 2 leaves a dead key  *)
(* behind it, a thread that looked the session up holds that session's own *)
(* key, the store holds nothing sealed under another, and a start_session  *)
(* that has not reached the table is the only one with its id and its key. *)
BeforeInsert == {"register", "insertSession"}
AfterKeyLayer == EndLabels \ {"logBurnStarted", "layer1", "layer2"}

TableInv ==
  \A s \in Sessions :
    /\ keyHandle[s] < nextHandle
    /\ s \in activeSessions => keyHandle[s] # NoHandle
    /\ Ended(s) => ~IsKeyActive(keyHandle[s])
    /\ s \notin issued => keyHandle[s] = NoHandle
    /\ \A u \in Sessions \ {s} :
         keyHandle[s] = keyHandle[u] => keyHandle[s] = NoHandle

StoreInv ==
  \A s \in Sessions : \A e \in store[s] : e.key = keyHandle[s] /\ e.key # NoHandle

ThreadInv(t) ==
  /\ pc[t] \in RecordLabels \cup EndLabels =>
       /\ call[t].key = keyHandle[call[t].sess]
       /\ call[t].key # NoHandle
  /\ pc[t] \in AfterKeyLayer => ~IsKeyActive(call[t].key)
  /\ pc[t] \in BeforeInsert =>
       /\ keyHandle[call[t].sess] = NoHandle
       /\ IsKeyActive(call[t].key)
       /\ \A s \in Sessions : keyHandle[s] # call[t].key
       /\ \A u \in Threads \ {t} :
            pc[u] \in BeforeInsert => /\ call[u].sess # call[t].sess
                                     /\ call[u].key # call[t].key

CallInv == \A t \in Threads : ThreadInv(t)

SealInv == TableInv /\ StoreInv /\ CallInv

(* A session gets at most one receipt that reports success, and one that   *)
(* does is true from then on: the key is destroyed, the burn engine's      *)
(* mapping is gone and nothing stored for the session can be decrypted.    *)
OneTrueCertificate ==
  \A s \in Sessions :
    /\ Cardinality(Certificates(s)) <= 1
    /\ Certificates(s) # {} => /\ ~IsKeyActive(keyHandle[s])
                               /\ sessionKeys[s] = NoHandle
                               /\ Readable(s) = {}

(* A key that end_session, called by somebody who was given the id of its  *)
(* session, still reaches; and one whose start_session is under way.       *)
Burnable(h) == \E s \in known \cap activeSessions : keyHandle[s] = h

BeingStarted(h) == \E t \in Threads : pc[t] \in StartLabels /\ call[t].key = h

(* A live key that is neither: no call will ever destroy it. *)
LeakedKeys ==
  {h \in DOMAIN keys :
     keys[h] = "Active" /\ ~Burnable(h) /\ ~BeingStarted(h)}

FaultsSpent == Budget["fault"] - budget["fault"]

(* Keys leak by one way only, and each time it is taken one of them does:  *)
(* start_session fails to write an audit row (gateway/mod.rs:190) and its  *)
(* session stays in the table under an id nobody was given.  Every other   *)
(* live key is that of a session its caller can end, or is about to be.    *)
OnlyFailedStartsLeak ==
  /\ LeakedKeys \subseteq {keyHandle[s] : s \in activeSessions \ known}
  /\ Cardinality(LeakedKeys) <= FaultsSpent

(* No key is destroyed without a BurnStarted row to account for it, also   *)
(* when an audit insert fails along the way.                               *)
DestructionIsAudited ==
  \A s \in Sessions :
    keyHandle[s] # NoHandle /\ ~IsKeyActive(keyHandle[s])
      => HasRow(s, "BurnStarted")

(* The gateway implements sealed sessions: a session opens when it enters  *)
(* the table and is sealed by the key layer of a burn, and no late store,  *)
(* repeated burn or failed call brings anything back.                      *)
SealedSessionSpec == SealedView!Spec

RecordRows(s, r) == {i \in Rows(s) : auditLog[s][i].rec = r}

Announcements(s, r) ==
  {i \in RecordRows(s, r) : auditLog[s][i].event = "DataGenerated"}

Decisions(s, r) == RecordRows(s, r) \ Announcements(s, r)

(* A row that decides about the k-th entry of what the evaluator returned. *)
DecidesEntry(row, r, k) ==
  LET h == results[r][k]
  IN /\ row.entry = k
     /\ row.who = h
     /\ row.event = IF h \in Endpoints THEN "DataTransmitted" ELSE "DataBlocked"

DecidesNobody(row) ==
  row.entry = 0 /\ row.who = None /\ row.event = "DataBlocked"

(* The decisions the log holds of a record follow its announcement and are *)
(* the first of those the evaluator's list calls for, in the order of the  *)
(* list: one for each entry that gives a view, a stakeholder named twice   *)
(* included, or a single block when no entry does.                         *)
DecidedInOrder(s, r) ==
  LET row(i) == auditLog[s][i]
  IN /\ \A i, j \in Announcements(s, r) : i = j
     /\ \A i \in Decisions(s, r) :
          /\ \E g \in Announcements(s, r) : g < i
          /\ IF Served(results[r]) = {}
             THEN DecidesNobody(row(i))
             ELSE \E k \in Served(results[r]) : DecidesEntry(row(i), r, k)
          /\ \A j \in Decisions(s, r) : i < j => row(i).entry < row(j).entry
          /\ \A k \in Served(results[r]) :
               k < row(i).entry => \E j \in Decisions(s, r) : row(j).entry = k

DecidedInFull(s, r) ==
  /\ Announcements(s, r) # {}
  /\ Decisions(s, r) # {}
  /\ \A k \in Served(results[r]) :
       \E i \in Decisions(s, r) : auditLog[s][i].entry = k

(* Whatever fails, no decision about a record is missing before one that   *)
(* is in the log; and once process_record has returned its result all of   *)
(* them are there (gateway/mod.rs:252-340).                                *)
ProcessedIsAudited ==
  \A r \in Records :
    /\ \A s \in Sessions : DecidedInOrder(s, r)
    /\ outcome[r] = "done" => \E s \in Sessions : DecidedInFull(s, r)

(* The records some rows of session s are about. *)
RecordsOf(s, rows) == {auditLog[s][j].rec : j \in rows}

(* After a ConsentRevoked row at most one record per other thread still    *)
(* goes to the stakeholder: the one evaluated before the revocation.       *)
RevocationBound ==
  \A s \in Sessions, h \in Stakeholders :
    LET late == {j \in Rows(s) :
                   /\ auditLog[s][j].event = "DataTransmitted"
                   /\ auditLog[s][j].who = h
                   /\ \E i \in 1 .. (j - 1) :
                        /\ auditLog[s][i].event = "ConsentRevoked"
                        /\ auditLog[s][i].who = h}
    IN Cardinality(RecordsOf(s, late)) <= OtherThreads

(* After an HsmFallback row at most one record per other thread is still   *)
(* accepted: the one that was past the check of the flag.                  *)
FallbackBound ==
  \A s \in Sessions :
    LET late == {j \in RowsAfter(s, "HsmFallback") :
                   auditLog[s][j].event = "DataGenerated"}
    IN Cardinality(RecordsOf(s, late)) <= OtherThreads

(* After a BurnCompleted row at most one record per other thread is still  *)
(* logged, and no more entries than that are ever left in the store of an  *)
(* ended session.                                                          *)
LateRecordBound ==
  \A s \in Sessions :
    /\ LET late == {j \in RowsAfter(s, "BurnCompleted") :
                      auditLog[s][j].event = "DataGenerated"}
       IN Cardinality(RecordsOf(s, late)) <= OtherThreads
    /\ Ended(s) => Cardinality(store[s]) <= OtherThreads

(* What is in flight when a session is ended, a stakeholder revoked or the *)
(* fallback entered is one record per other thread at most                 *)
(* (gateway/mod.rs: process_record against the three other calls).         *)
OneLateCallEach == RevocationBound /\ FallbackBound /\ LateRecordBound

(* Between calls, and while no call has failed, the counters agree with    *)
(* the audit log.                                                          *)
CountersMatchLog ==
  Quiescent /\ NoFaults =>
    /\ metrics.transmitted = RowCount({"DataTransmitted"})
    /\ metrics.blocked = RowCount({"DataBlocked"})
    /\ metrics.burned = RowCount({"SessionEnd"})

-----------------------------------------------------------------------------

(* Once a burn has been announced in the audit log the key is destroyed,   *)
(* whatever fails afterwards.                                              *)
BurnReachesKey ==
  \A s \in Sessions :
    HasRow(s, "BurnStarted") ~> ~IsKeyActive(keyHandle[s])

-----------------------------------------------------------------------------
(* Claims of the documentation that the code does not keep. *)

(* docs/architecture/data_flow.md:436: after the burn the encrypted data   *)
(* has been overwritten, then zeroed.                                      *)
CertifiedBurnLeavesNoCiphertext ==
  \A s \in Sessions :
    Certificates(s) # {} => \A e \in store[s] : e.content # "sealed"
=============================================================================
