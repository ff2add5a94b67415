---------------------------- MODULE LocalGateway ----------------------------
(***************************************************************************)
(* The in-process gateway of the simulation commands (local_gateway.py).   *)
(* Its methods never await, so a call is one step, even one that raises:   *)
(* a record whose fields a transformation cannot handle is counted for the *)
(* stakeholders before the one it raises for, and then forgotten.          *)
(***************************************************************************)
EXTENDS FieldViews

CONSTANTS
  Sessions,   \* session ids
  Manifests,  \* sequences of [id, endpoint, categories]; a category is
              \* [type, fields, listed, excluded, granularity, jurisdictions]
  Records,    \* [type, fields]
  Bound       \* bounds: rows of the audit log, records that raise

Values == [kind : {"number", "opaque"}, n : Int]

(* What is not listed restricts nothing, and a granularity is one of the   *)
(* enumeration.                                                            *)
IsCategory(c) ==
  /\ c.granularity \in {"Raw", "Aggregated", "Anonymised", "PerTripScore"}
  /\ c.listed \/ c.fields = {}

ASSUME LocalAssumption ==
  /\ Bound \in [{"rows", "raised"} -> Nat]
  /\ \A m \in Manifests :
       /\ Len(m) \in Nat /\ DOMAIN m = 1 .. Len(m)
       /\ \A i \in DOMAIN m :
            /\ DOMAIN m[i].categories \subseteq Nat
            /\ \A n \in DOMAIN m[i].categories : IsCategory(m[i].categories[n])
  /\ \A r \in Records : \A k \in DOMAIN r.fields : r.fields[k] \in Values

VARIABLES
  sessions,  \* session -> its SessionState, None before it starts
  audit,     \* the audit log, oldest first
  answer,    \* the result of the last record handed in, with its request and,
             \* as history, who was revoked then; no views when it raised
  raised     \* history: records that raised, per session

localVars == <<sessions, audit, answer, raised>>

Stakeholders == UNION {{m[i].id : i \in DOMAIN m} : m \in Manifests}

None == [started |-> FALSE]

NewState(m) ==
  [started |-> TRUE, ended |-> FALSE, manifest |-> m, revoked |-> {},
   generated |-> 0, transmitted |-> 0, blocked |-> 0,
   sentTo |-> [x \in Stakeholders |-> 0], blockedFor |-> [x \in Stakeholders |-> 0]]

NoAnswer == [sess |-> "none"]

Row(event, s) == [event |-> event, sess |-> s, who |-> "all",
                  sent |-> {}, withheld |-> {}]

Init ==
  /\ sessions = [s \in Sessions |-> None]
  /\ audit = <<>>
  /\ answer = NoAnswer
  /\ raised = [s \in Sessions |-> 0]

-----------------------------------------------------------------------------
(* The first category of a declaration for a type of data, as a set of at  *)
(* most one.                                                               *)
Matching(declaration, type) ==
  LET all == {n \in DOMAIN declaration.categories : declaration.categories[n].type = type}
  IN {declaration.categories[n] : n \in {k \in all : \A j \in all : k <= j}}

(* Mutant: a revocation withholds a record from everybody.                 *)
WithheldOnRevocation(state, record) ==
  {i \in DOMAIN state.manifest :
     \/ state.revoked # {}
     \/ Matching(state.manifest[i], record.type) = {}}

(* Mutant: a stakeholder who has been sent something is not looked up.     *)
WithheldUnlessServed(state, record) ==
  {i \in DOMAIN state.manifest :
     \/ state.manifest[i].id \in state.revoked /\ state.sentTo[state.manifest[i].id] = 0
     \/ Matching(state.manifest[i], record.type) = {}}

(* The stakeholders of a manifest, by position, a record is withheld from. *)
Withheld(state, record) ==
  {i \in DOMAIN state.manifest :
     \/ state.manifest[i].id \in state.revoked
     \/ Matching(state.manifest[i], record.type) = {}}

CategoryOf(state, i, record) == CHOOSE c \in Matching(state.manifest[i], record.type) : TRUE

(* The positions whose view raises.                                        *)
RaisesAt(state, record) ==
  {i \in DOMAIN state.manifest \ Withheld(state, record) :
     LET c == CategoryOf(state, i, record)
     IN LocalRaises(LocalFilter(record.fields, c), c.granularity)}

(* The views a stakeholder may be given.                                   *)
ViewsOf(state, i, record) ==
  LET c == CategoryOf(state, i, record)
  IN LocalGranularity(LocalFilter(record.fields, c), c.granularity)

(* The count of each stakeholder goes up by the number of these positions  *)
(* of the manifest it is at.                                               *)
CountFor(counts, m, positions) ==
  [x \in Stakeholders |-> counts[x] + Cardinality({i \in positions : m[i].id = x})]

(* The Rust gateway's evaluator on the same record: the first category of  *)
(* a declaration for its type decides, and whoever is not revoked and      *)
(* resides in one of that category's jurisdictions gets a view.            *)
RustCategory(declaration, type) ==
  {n \in DOMAIN declaration.categories :
     /\ declaration.categories[n].type = type
     /\ \A j \in DOMAIN declaration.categories :
          j < n => declaration.categories[j].type # type}

RustAudience(m, revoked, record) ==
  {i \in DOMAIN m :
     /\ m[i].id \notin revoked
     /\ \E n \in RustCategory(m[i], record.type) :
          m[i].endpoint \in m[i].categories[n].jurisdictions}

RustViews(c, record) == RustGranularity(RustFilter(record.fields, c), c.granularity)

-----------------------------------------------------------------------------
Room(n) == Len(audit) + n <= Bound["rows"]

StartSession(s, m) ==
  /\ ~sessions[s].started /\ Room(1)
  /\ sessions' = [sessions EXCEPT ![s] = NewState(m)]
  /\ audit' = Append(audit, Row("session_start", s))
  /\ UNCHANGED <<answer, raised>>

Active(s) == sessions[s].started /\ ~sessions[s].ended

(* process_record, when every view can be computed.                        *)
ProcessRecord(s, r) ==
  /\ Active(s) /\ Room(1)
  /\ LET state    == sessions[s]
         withheld == Withheld(state, r)
         sent     == DOMAIN state.manifest \ withheld
     IN /\ RaisesAt(state, r) = {}
        /\ \E views \in Replacements([i \in sent |-> ViewsOf(state, i, r)]) :
             answer' = [sess |-> s, record |-> r, revoked |-> state.revoked,
                        views |-> views]
        /\ audit' = Append(audit, [Row("record_processed", s) EXCEPT
                                     !.sent = sent, !.withheld = withheld])
        /\ sessions' = [sessions EXCEPT
             ![s].generated = @ + 1,
             ![s].transmitted = @ + Cardinality(sent),
             ![s].blocked = @ + Cardinality(withheld),
             ![s].sentTo = CountFor(@, state.manifest, sent),
             ![s].blockedFor = CountFor(@, state.manifest, withheld)]
  /\ UNCHANGED raised

(* Mutant: the totals are kept as the stakeholders are counted.            *)
ProcessRaisesInTotal(s, r) ==
  /\ Active(s) /\ raised[s] < Bound["raised"]
  /\ LET state   == sessions[s]
         at      == RaisesAt(state, r)
         reached == {i \in DOMAIN state.manifest : \A j \in at : i < j}
         before  == reached \cap Withheld(state, r)
     IN /\ at # {}
        /\ sessions' = [sessions EXCEPT
             ![s].generated = @ + 1,
             ![s].transmitted = @ + Cardinality(reached \ before),
             ![s].sentTo = CountFor(@, state.manifest, reached \ before),
             ![s].blockedFor = CountFor(@, state.manifest, before)]
        /\ answer' = [sess |-> s, record |-> r, revoked |-> state.revoked,
                      views |-> <<>>]
  /\ raised' = [raised EXCEPT ![s] = @ + 1]
  /\ UNCHANGED audit

(* process_record, when a view raises: the stakeholders before it have     *)
(* been counted, nothing has been logged and nobody gets anything.         *)
ProcessRaises(s, r) ==
  /\ Active(s) /\ raised[s] < Bound["raised"]
  /\ LET state   == sessions[s]
         at      == RaisesAt(state, r)
         reached == {i \in DOMAIN state.manifest : \A j \in at : i < j}
         before  == reached \cap Withheld(state, r)
     IN /\ at # {}
        /\ sessions' = [sessions EXCEPT
             ![s].generated = @ + 1,
             ![s].sentTo = CountFor(@, state.manifest, reached \ before),
             ![s].blockedFor = CountFor(@, state.manifest, before)]
        /\ answer' = [sess |-> s, record |-> r, revoked |-> state.revoked,
                      views |-> <<>>]
  /\ raised' = [raised EXCEPT ![s] = @ + 1]
  /\ UNCHANGED audit

(* Mutant: the state of a session is dropped with it.                      *)
EndSessionForgets(s) ==
  /\ sessions[s].started /\ Room(2)
  /\ sessions' = [sessions EXCEPT ![s] = None]
  /\ audit' = audit \o <<Row("session_end", s), Row("burn_complete", s)>>
  /\ UNCHANGED <<answer, raised>>

(* end_session may be called again; it logs and answers the same.          *)
EndSession(s) ==
  /\ sessions[s].started /\ Room(2)
  /\ sessions' = [sessions EXCEPT ![s].ended = TRUE]
  /\ audit' = audit \o <<Row("session_end", s), Row("burn_complete", s)>>
  /\ UNCHANGED <<answer, raised>>

(* revoke_consent checks neither that the stakeholder is in the manifest   *)
(* nor that the session is still running.                                  *)
RevokeConsent(s, x) ==
  /\ sessions[s].started /\ Room(1)
  /\ sessions' = [sessions EXCEPT ![s].revoked = @ \cup {x}]
  /\ audit' = Append(audit, [Row("consent_revoked", s) EXCEPT !.who = x])
  /\ UNCHANGED <<answer, raised>>

(* get_session_summary *)
RecordsBurned(s) == IF sessions[s].ended THEN sessions[s].generated ELSE 0

Next ==
  \E s \in Sessions :
    \/ \E m \in Manifests : StartSession(s, m)
    \/ \E r \in Records : ProcessRecord(s, r) \/ ProcessRaises(s, r)
    \/ EndSession(s)
    \/ \E x \in Stakeholders : RevokeConsent(s, x)

Spec == Init /\ [][Next]_localVars

-----------------------------------------------------------------------------
TypeOK ==
  /\ \A s \in Sessions : sessions[s].started =>
       /\ sessions[s].manifest \in Manifests
       /\ sessions[s].revoked \subseteq Stakeholders
       /\ \A count \in {"generated", "transmitted", "blocked"} : sessions[s][count] \in Nat
       /\ \A x \in Stakeholders :
            sessions[s].sentTo[x] \in Nat /\ sessions[s].blockedFor[x] \in Nat
  /\ \A i \in DOMAIN audit : audit[i].sess \in Sessions /\ sessions[audit[i].sess].started
  /\ raised \in [Sessions -> Nat]
  /\ answer # NoAnswer =>
       \A i \in DOMAIN answer.views : \A k \in DOMAIN answer.views[i] :
         answer.views[i][k] \in Values

Processed(s) ==
  {i \in DOMAIN audit : audit[i].event = "record_processed" /\ audit[i].sess = s}

(* The rows of a session's records, each with the positions it lists.      *)
SentRows(s) == UNION {{i} \X audit[i].sent : i \in Processed(s)}
WithheldRows(s) == UNION {{i} \X audit[i].withheld : i \in Processed(s)}

(* The totals of a session are those of its audit rows, and every record   *)
(* handed to it is burned in the end, also those that raised               *)
(* (local_gateway.py: process_record, get_session_summary).                *)
AuditAccounts ==
  \A s \in Sessions : sessions[s].started =>
    /\ sessions[s].transmitted = Cardinality(SentRows(s))
    /\ sessions[s].blocked = Cardinality(WithheldRows(s))
    /\ sessions[s].ended => RecordsBurned(s) = Cardinality(Processed(s)) + raised[s]

(* Nothing is sent to a stakeholder after the row of its revocation, nor   *)
(* to anyone after the row of the session's end.                           *)
SilentAfterwards ==
  \A i, j \in DOMAIN audit :
    i < j /\ audit[i].sess = audit[j].sess /\ audit[j].event = "record_processed" =>
      LET m == sessions[audit[j].sess].manifest IN
      /\ audit[i].event = "consent_revoked" =>
           \A n \in audit[j].sent : m[n].id # audit[i].who
      /\ audit[i].event # "session_end"

(* An anonymised position is within half a cell of the true one, so it is  *)
(* the centre of a cell the true one lies in.                              *)
PositionsBlurred ==
  answer # NoAnswer =>
    \A i \in DOMAIN answer.views :
      LET c == CategoryOf(sessions[answer.sess], i, answer.record)
          v == answer.views[i]
      IN c.granularity = "Anonymised" =>
           \A k \in DOMAIN v \cap Position :
             /\ v[k].n % Cell = Cell \div 2
             /\ Distance(v[k].n, answer.record.fields[k].n) <= Cell \div 2

(* A record with a position or a speed that is no number, of a type that   *)
(* is to be anonymised for some stakeholder.                               *)
Unblurrable(m, record) ==
  /\ \E i \in DOMAIN m : \E n \in RustCategory(m[i], record.type) :
       m[i].categories[n].granularity = "Anonymised"
  /\ \E k \in DOMAIN record.fields \cap (Position \cup {"speed_mps"}) :
       ~IsNumber(record.fields[k])

(* The two views of one category: Rust's has no field more but a score of  *)
(* its own and the raw traces, which only the local gateway drops, raw     *)
(* fields are the same, and positions are no further apart than the two    *)
(* blurs add up to.                                                        *)
Agree(c, local, rust) ==
  /\ DOMAIN rust \subseteq DOMAIN local \cup {"trip_score"} \cup Traces
  /\ \A k \in DOMAIN rust \cap DOMAIN local :
       /\ c.granularity = "Raw" => rust[k] = local[k]
       /\ c.granularity = "Anonymised" /\ k \in Position =>
            Distance(rust[k].n, local[k].n) <= Cell \div 2 + One \div 200

(* Whoever the Rust gateway serves a record (manifest/mod.rs: evaluate)    *)
(* the local one serves too (local_gateway.py: process_record), in a view  *)
(* that agrees with Rust's; but a record that cannot be blurred for one    *)
(* stakeholder is served to none of them.  Whoever only the local one      *)
(* serves resides outside the jurisdictions of the category: nothing else  *)
(* is a reason for Rust to serve fewer.                                    *)
CoversRust ==
  answer # NoAnswer =>
    LET m        == sessions[answer.sess].manifest
        type     == answer.record.type
        audience == RustAudience(m, answer.revoked, answer.record)
        served   == DOMAIN answer.views
    IN /\ audience \subseteq served \/ (served = {} /\ Unblurrable(m, answer.record))
       /\ \A i \in served \ audience : \E n \in RustCategory(m[i], type) :
            m[i].endpoint \notin m[i].categories[n].jurisdictions
       /\ \A i \in served \cap audience : \A n \in RustCategory(m[i], type) :
            LET c == m[i].categories[n]
            IN \A w \in RustViews(c, answer.record) : Agree(c, answer.views[i], w)
=============================================================================
