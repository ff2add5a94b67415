------------------------- MODULE LocalGatewayProofs -------------------------
(***************************************************************************)
(* Proofs about the local gateway and the programs that use it, for any    *)
(* sessions, manifests and records of their shape.                         *)
(*                                                                         *)
(* The gateway: what a row of the audit log says about its session stays   *)
(* true of the session, the counters count the rows, and the views given   *)
(* away are those of FieldViews.                                           *)
(* Sums: the folds of the community modules, over finite sets.             *)
(* The programs: a command, the analyser and plain sessions use the        *)
(* gateway by its operations.                                              *)
(* The analyser: what it counts by type and by recipient are the same      *)
(* sums.                                                                   *)
(* The commands: what a session has counted are the records handed over.   *)
(***************************************************************************)
EXTENDS MCLocalGateway, FiniteSetTheorems, SequenceTheorems, TLAPS

State ==
  [started : {TRUE}, ended : BOOLEAN, manifest : Manifests, revoked : SUBSET Stakeholders,
   generated : Nat, transmitted : Nat, blocked : Nat,
   sentTo : [Stakeholders -> Nat], blockedFor : [Stakeholders -> Nat]]

Rows ==
  [event : {"session_start", "record_processed", "session_end", "burn_complete",
            "consent_revoked"},
   sess : Sessions, who : Stakeholders \cup {"all"}, sent : SUBSET Nat, withheld : SUBSET Nat]

TypeInv ==
  /\ sessions \in [Sessions -> State \cup {None}]
  /\ audit \in Seq(Rows)
  /\ raised \in [Sessions -> Nat]

(* What a row still says of the session it is about.                       *)
RowHolds(row, state) ==
  /\ state \in State
  /\ row.event = "consent_revoked" => row.who \in state.revoked
  /\ row.event = "session_end" => state.ended = TRUE

RowsHold == \A i \in 1 .. Len(audit) : RowHolds(audit[i], sessions[audit[i].sess])

(* The counters of a session count the records it logged and those that    *)
(* raised, whether or not it has ended.                                    *)
Counted(s) ==
  /\ IsFiniteSet(Processed(s)) /\ IsFiniteSet(SentRows(s)) /\ IsFiniteSet(WithheldRows(s))
  /\ sessions[s] \in State =>
       /\ sessions[s].transmitted = Cardinality(SentRows(s))
       /\ sessions[s].blocked = Cardinality(WithheldRows(s))
       /\ sessions[s].generated = Cardinality(Processed(s)) + raised[s]
  /\ sessions[s] \notin State => raised[s] = 0

LogInv == TypeInv /\ RowsHold /\ \A s \in Sessions : Counted(s)

-----------------------------------------------------------------------------
(* A session that has started is one with all of its counters.             *)
LEMMA StartedIsState ==
  ASSUME NEW x \in State \cup {None}
  PROVE  /\ x.started => x \in State
         /\ x \in State => x.started
<1>1. None.started = FALSE
  BY DEF None
<1>2. \A y \in State : y.started = TRUE
  BY DEF State
<1>3. x.started => x \in State
  BY <1>1
<1>4. x \in State => x.started
  BY <1>2
<1> QED BY <1>3, <1>4

LEMMA StateCounts ==
  ASSUME NEW x \in State
  PROVE  /\ x.generated \in Nat /\ x.transmitted \in Nat /\ x.blocked \in Nat
         /\ x.generated = x.generated + 0
         /\ x.manifest \in Manifests /\ x.revoked \subseteq Stakeholders
         /\ x.sentTo \in [Stakeholders -> Nat] /\ x.blockedFor \in [Stakeholders -> Nat]
<1>1. /\ x.generated \in Nat /\ x.transmitted \in Nat /\ x.blocked \in Nat
      /\ x.manifest \in Manifests /\ x.revoked \subseteq Stakeholders
      /\ x.sentTo \in [Stakeholders -> Nat] /\ x.blockedFor \in [Stakeholders -> Nat]
  BY DEF State
<1> QED BY <1>1

LEMMA RevokedState ==
  ASSUME NEW x \in State, NEW who \in Stakeholders, NEW y,
         y = [x EXCEPT !.revoked = @ \cup {who}]
  PROVE  /\ y \in State /\ y.manifest = x.manifest /\ y.ended = x.ended
         /\ y.revoked = x.revoked \cup {who}
         /\ y.transmitted = x.transmitted /\ y.blocked = x.blocked
         /\ y.generated = x.generated
BY DEF State

LEMMA EndedState ==
  ASSUME NEW x \in State, NEW y, y = [x EXCEPT !.ended = TRUE]
  PROVE  /\ y \in State /\ y.manifest = x.manifest /\ y.ended = TRUE
         /\ y.revoked = x.revoked
         /\ y.transmitted = x.transmitted /\ y.blocked = x.blocked
         /\ y.generated = x.generated
BY DEF State

LEMMA NewStateOK == ASSUME NEW m \in Manifests PROVE NewState(m) \in State
BY DEF NewState, State

(* Positions of a manifest are numbers, and finitely many.                 *)
LEMMA PositionsFinite ==
  ASSUME LocalAssumption, NEW m \in Manifests, NEW P, P \subseteq DOMAIN m
  PROVE  IsFiniteSet(P) /\ P \subseteq Nat /\ Cardinality(P) \in Nat
<1>1. Len(m) \in Nat /\ DOMAIN m = 1 .. Len(m)
  BY DEF LocalAssumption
<1>2. 1 \in Int /\ Len(m) \in Int
  BY <1>1
<1>3. IsFiniteSet(1 .. Len(m))
  BY <1>2, FS_Interval, Zenon
<1>4. P \subseteq 1 .. Len(m)
  BY <1>1
<1>5. IsFiniteSet(P)
  BY <1>3, <1>4, FS_Subset, Zenon
<1> QED BY <1>1, <1>4, <1>5, FS_CardinalityType

(* The counts per stakeholder stay counts.                                 *)
LEMMA CountForOK ==
  ASSUME LocalAssumption, NEW m \in Manifests, NEW P, P \subseteq DOMAIN m,
         NEW counts \in [Stakeholders -> Nat]
  PROVE  CountFor(counts, m, P) \in [Stakeholders -> Nat]
<1>1. ASSUME NEW x \in Stakeholders PROVE Cardinality({i \in P : m[i].id = x}) \in Nat
  <2>1. {i \in P : m[i].id = x} \subseteq DOMAIN m
    OBVIOUS
  <2> QED BY <2>1, PositionsFinite
<1> QED BY <1>1 DEF CountFor

(* One more row lists as many pairs as its set has members.                *)
LEMMA PairsGrow ==
  ASSUME NEW P, IsFiniteSet(P), NEW S, IsFiniteSet(S), NEW n,
         \A p \in P : p[1] # n
  PROVE  /\ IsFiniteSet(P \cup ({n} \X S))
         /\ Cardinality(P \cup ({n} \X S)) = Cardinality(P) + Cardinality(S)
<1>1. IsFiniteSet({n}) /\ Cardinality({n}) = 1
  BY FS_Singleton
<1>2. /\ IsFiniteSet({n} \X S)
      /\ Cardinality({n} \X S) = 1 * Cardinality(S)
  BY <1>1, FS_Product
<1>3. P \cap ({n} \X S) = {}
  <2>1. \A p \in {n} \X S : p[1] = n
    OBVIOUS
  <2> QED BY <2>1
<1>4. /\ Cardinality({}) = 0 /\ Cardinality(P) \in Nat /\ Cardinality(S) \in Nat
  BY FS_EmptySet, FS_CardinalityType
<1>5. /\ IsFiniteSet(P \cup ({n} \X S))
      /\ Cardinality(P \cup ({n} \X S)) =
           Cardinality(P) + Cardinality({n} \X S) - Cardinality(P \cap ({n} \X S))
  BY <1>2, FS_Union
<1> DEFINE X == {n} \X S
<1> HIDE DEF X
<1>6. /\ IsFiniteSet(P \cup X) /\ P \cap X = {}
      /\ Cardinality(P \cup X) = Cardinality(P) + Cardinality(X) - Cardinality(P \cap X)
      /\ Cardinality(X) = Cardinality(S)
  BY <1>2, <1>3, <1>4, <1>5 DEF X
<1>7. Cardinality(P \cup X) = Cardinality(P) + Cardinality(S)
  <2>1. Cardinality(P \cap X) = 0
    BY <1>4, <1>6
  <2>2. \A x, y, z : x \in Nat /\ y \in Nat /\ z = 0 => x + y - z = x + y
    OBVIOUS
  <2> QED BY <1>4, <1>6, <2>1, <2>2
<1> QED BY <1>6, <1>7 DEF X

-----------------------------------------------------------------------------
(* The log only grows at its end.                                          *)
Extends ==
  /\ Len(audit') \in Nat /\ Len(audit) <= Len(audit')
  /\ \A i \in 1 .. Len(audit) : audit'[i] = audit[i]

LEMMA LogTypes ==
  ASSUME TypeInv
  PROVE  /\ Len(audit) \in Nat /\ DOMAIN audit = 1 .. Len(audit)
         /\ \A i \in 1 .. Len(audit) : audit[i] \in Rows
BY DEF TypeInv

LEMMA AppendExtends ==
  ASSUME TypeInv, NEW row \in Rows, audit' = Append(audit, row)
  PROVE  /\ audit' \in Seq(Rows) /\ Extends
         /\ Len(audit') = Len(audit) + 1 /\ audit'[Len(audit) + 1] = row
<1>1. audit \in Seq(Rows)
  BY DEF TypeInv
<1>2. /\ Append(audit, row) \in Seq(Rows) /\ Len(Append(audit, row)) = Len(audit) + 1
      /\ \A i \in 1 .. Len(audit) : Append(audit, row)[i] = audit[i]
      /\ Append(audit, row)[Len(audit) + 1] = row
  BY <1>1, AppendProperties
<1>3. Len(audit) \in Nat
  BY LogTypes
<1> QED BY <1>2, <1>3 DEF Extends

(* Rows that log no record leave the sets of logged records alone.         *)
LEMMA QuietRows ==
  ASSUME TypeInv, TypeInv', Extends, NEW s,
         \A i \in 1 .. Len(audit') : i \in 1 .. Len(audit)
                                     \/ audit'[i].event # "record_processed" \/ audit'[i].sess # s
  PROVE  /\ Processed(s)' = Processed(s) /\ SentRows(s)' = SentRows(s)
         /\ WithheldRows(s)' = WithheldRows(s)
<1>1. DOMAIN audit = 1 .. Len(audit) /\ DOMAIN audit' = 1 .. Len(audit')
      /\ Len(audit) \in Nat /\ Len(audit') \in Nat
  BY DEF TypeInv
<1>2. Processed(s)' = Processed(s)
  <2>1. ASSUME NEW i \in Processed(s)' PROVE i \in Processed(s)
    BY <1>1, <2>1 DEF Processed, Extends
  <2>2. ASSUME NEW i \in Processed(s) PROVE i \in Processed(s)'
    BY <1>1, <2>2 DEF Processed, Extends
  <2> QED BY <2>1, <2>2
<1>3. \A i \in Processed(s) : audit'[i] = audit[i]
  BY <1>1 DEF Processed, Extends
<1>4. SentRows(s)' = SentRows(s)
  BY <1>2, <1>3 DEF SentRows
<1>5. WithheldRows(s)' = WithheldRows(s)
  BY <1>2, <1>3 DEF WithheldRows
<1> QED BY <1>2, <1>4, <1>5

(* A row that logs a record adds itself, with what it lists.               *)
LEMMA LoggedRow ==
  ASSUME TypeInv, TypeInv', NEW row \in Rows, audit' = Append(audit, row),
         row.event = "record_processed", NEW s, row.sess = s,
         IsFiniteSet(row.sent), IsFiniteSet(row.withheld),
         IsFiniteSet(Processed(s)), IsFiniteSet(SentRows(s)), IsFiniteSet(WithheldRows(s))
  PROVE  /\ IsFiniteSet(Processed(s)') /\ IsFiniteSet(SentRows(s)') /\ IsFiniteSet(WithheldRows(s)')
         /\ Cardinality(Processed(s)') = Cardinality(Processed(s)) + 1
         /\ Cardinality(SentRows(s)') = Cardinality(SentRows(s)) + Cardinality(row.sent)
         /\ Cardinality(WithheldRows(s)') =
              Cardinality(WithheldRows(s)) + Cardinality(row.withheld)
<1> DEFINE n == Len(audit) + 1
<1>1. /\ DOMAIN audit = 1 .. Len(audit) /\ DOMAIN audit' = 1 .. n /\ Len(audit) \in Nat
      /\ \A i \in 1 .. Len(audit) : audit'[i] = audit[i]
      /\ audit'[n] = row
  <2>1. Extends /\ Len(audit') = n /\ audit'[n] = row
    BY AppendExtends
  <2> QED BY <2>1, LogTypes DEF Extends, TypeInv
<1> HIDE DEF n
<1>2. n \notin 1 .. Len(audit) /\ n \in 1 .. n /\ 1 .. n = (1 .. Len(audit)) \cup {n}
  BY <1>1 DEF n
<1>3. n \notin Processed(s)
  BY <1>1, <1>2 DEF Processed
<1>4. Processed(s)' = Processed(s) \cup {n}
  <2>1. ASSUME NEW i \in Processed(s)' PROVE i \in Processed(s) \cup {n}
    BY <1>1, <1>2, <2>1 DEF Processed
  <2>2. ASSUME NEW i \in Processed(s) PROVE i \in Processed(s)'
    BY <1>1, <1>2, <2>2 DEF Processed
  <2>3. n \in Processed(s)'
    BY <1>1, <1>2 DEF Processed
  <2> QED BY <2>1, <2>2, <2>3
<1>5. \A i \in Processed(s) : audit'[i] = audit[i]
  BY <1>1 DEF Processed
<1>6. SentRows(s)' = SentRows(s) \cup ({n} \X row.sent)
  <2> DEFINE S == Processed(s)
  <2>1. SentRows(s)' = UNION {{i} \X audit'[i].sent : i \in S \cup {n}}
    BY <1>4 DEF SentRows
  <2>2. SentRows(s) = UNION {{i} \X audit'[i].sent : i \in S}
    BY <1>5 DEF SentRows
  <2> HIDE DEF S
  <2>3. ASSUME NEW p
        PROVE  p \in SentRows(s)' <=> p \in SentRows(s) \cup ({n} \X row.sent)
    BY <1>1, <2>1, <2>2
  <2> QED BY <2>3
<1>7. WithheldRows(s)' = WithheldRows(s) \cup ({n} \X row.withheld)
  <2> DEFINE S == Processed(s)
  <2>1. WithheldRows(s)' = UNION {{i} \X audit'[i].withheld : i \in S \cup {n}}
    BY <1>4 DEF WithheldRows
  <2>2. WithheldRows(s) = UNION {{i} \X audit'[i].withheld : i \in S}
    BY <1>5 DEF WithheldRows
  <2> HIDE DEF S
  <2>3. ASSUME NEW p
        PROVE  p \in WithheldRows(s)' <=> p \in WithheldRows(s) \cup ({n} \X row.withheld)
    BY <1>1, <2>1, <2>2, ZenonT(40)
  <2> QED BY <2>3
<1>8. /\ \A p \in SentRows(s) : p[1] # n
      /\ \A p \in WithheldRows(s) : p[1] # n
  BY <1>3 DEF SentRows, WithheldRows
<1>9. /\ IsFiniteSet(Processed(s) \cup {n})
      /\ Cardinality(Processed(s) \cup {n}) = Cardinality(Processed(s)) + 1
  BY <1>3, FS_AddElement
<1>10. /\ IsFiniteSet(SentRows(s) \cup ({n} \X row.sent))
       /\ Cardinality(SentRows(s) \cup ({n} \X row.sent)) =
            Cardinality(SentRows(s)) + Cardinality(row.sent)
  BY <1>8, PairsGrow
<1>11. /\ IsFiniteSet(WithheldRows(s) \cup ({n} \X row.withheld))
       /\ Cardinality(WithheldRows(s) \cup ({n} \X row.withheld)) =
            Cardinality(WithheldRows(s)) + Cardinality(row.withheld)
  BY <1>8, PairsGrow
<1> QED BY <1>4, <1>6, <1>7, <1>9, <1>10, <1>11

-----------------------------------------------------------------------------
(* What every step does: the log grows by rows that hold, sessions change  *)
(* so that the old rows still hold, and the counters follow.               *)
Persists(old, new) ==
  old \in State =>
    /\ new \in State /\ new.manifest = old.manifest
    /\ old.revoked \subseteq new.revoked /\ (old.ended = TRUE => new.ended = TRUE)

LEMMA RowsHoldNext ==
  ASSUME TypeInv, RowsHold, Extends,
         \A s \in Sessions : Persists(sessions[s], sessions'[s]),
         \A i \in 1 .. Len(audit') :
           i \in 1 .. Len(audit) \/ RowHolds(audit'[i], sessions'[audit'[i].sess])
  PROVE  RowsHold'
<1> SUFFICES ASSUME NEW i \in 1 .. Len(audit)
             PROVE  RowHolds(audit'[i], sessions'[audit'[i].sess])
  BY DEF RowsHold
<1> DEFINE row == audit[i]
           old == sessions[row.sess]
           new == sessions'[row.sess]
<1>1. row \in Rows /\ RowHolds(row, old) /\ audit'[i] = row
  BY LogTypes DEF RowsHold, Extends
<1>2. row.sess \in Sessions
  BY <1>1 DEF Rows
<1>3. Persists(old, new)
  BY <1>2
<1> HIDE DEF row, old, new
<1>4. RowHolds(row, new)
  BY <1>1, <1>3, Zenon DEF RowHolds, Persists
<1> QED BY <1>1, <1>4 DEF new

(* A new row that logs a record is the first new one, of a running session *)
(* and of stakeholders not revoked by then.                                *)
NewRowsQuiet ==
  \A j \in 1 .. Len(audit') : j \in 1 .. Len(audit) \/
    (audit'[j].event = "record_processed" =>
       /\ j = Len(audit) + 1
       /\ LET state == sessions[audit'[j].sess] IN
          /\ state \in State /\ state.ended # TRUE
          /\ \A n \in audit'[j].sent : state.manifest[n].id \notin state.revoked)

LEMMA SilentNext ==
  ASSUME TypeInv, RowsHold, SilentAfterwards, TypeInv', Extends, NewRowsQuiet,
         \A s \in Sessions : Persists(sessions[s], sessions'[s])
  PROVE  SilentAfterwards'
<1>1. /\ Len(audit) \in Nat /\ Len(audit') \in Nat
      /\ DOMAIN audit = 1 .. Len(audit) /\ DOMAIN audit' = 1 .. Len(audit')
      /\ \A i \in 1 .. Len(audit) : audit'[i] = audit[i] /\ audit[i] \in Rows
      /\ \A i \in 1 .. Len(audit') : audit'[i] \in Rows
  BY DEF TypeInv, Extends
<1> SUFFICES ASSUME NEW i \in 1 .. Len(audit'), NEW j \in 1 .. Len(audit'), i < j,
                    audit'[i].sess = audit'[j].sess, audit'[j].event = "record_processed"
             PROVE  /\ audit'[i].event = "consent_revoked" =>
                         \A n \in audit'[j].sent :
                           sessions'[audit'[j].sess].manifest[n].id # audit'[i].who
                    /\ audit'[i].event # "session_end"
  BY <1>1 DEF SilentAfterwards
<1> DEFINE s == audit'[j].sess
           old == sessions[s]
           new == sessions'[s]
<1>2. s \in Sessions
  BY <1>1 DEF Rows
<1>3. Persists(old, new)
  BY <1>2
<1>4. CASE j \in 1 .. Len(audit)
  <2>1. i \in 1 .. Len(audit) /\ audit'[i] = audit[i] /\ audit'[j] = audit[j]
    BY <1>1, <1>4
  <2>2. /\ audit[i].event = "consent_revoked" =>
             \A n \in audit[j].sent : old.manifest[n].id # audit[i].who
        /\ audit[i].event # "session_end"
    BY <1>1, <1>4, <2>1 DEF SilentAfterwards
  <2>3. old \in State
    BY <1>4, <2>1 DEF RowsHold, RowHolds
  <2>4. new.manifest = old.manifest
    BY <1>3, <2>3 DEF Persists
  <2> HIDE DEF s, old, new
  <2>5. sessions'[audit'[j].sess].manifest = old.manifest
    BY <2>4 DEF new, s
  <2> QED BY <2>1, <2>2, <2>5
<1>5. CASE j \notin 1 .. Len(audit)
  <2>1. /\ j = Len(audit) + 1 /\ old \in State /\ old.ended # TRUE
        /\ \A n \in audit'[j].sent : old.manifest[n].id \notin old.revoked
    BY <1>5 DEF NewRowsQuiet
  <2>2. i \in 1 .. Len(audit) /\ audit'[i] = audit[i]
    BY <1>1, <2>1
  <2>3. RowHolds(audit[i], sessions[audit[i].sess])
    BY <2>2 DEF RowsHold
  <2>4. RowHolds(audit'[i], old)
    BY <2>2, <2>3
  <2>5. new.manifest = old.manifest
    BY <1>3, <2>1 DEF Persists
  <2> HIDE DEF s, old, new
  <2>6. sessions'[audit'[j].sess].manifest = old.manifest
    BY <2>5 DEF new, s
  <2> QED BY <2>1, <2>4, <2>6 DEF RowHolds
<1> QED BY <1>4, <1>5

(* Nothing has been logged of a session that has not started.              *)
LEMMA NothingLogged ==
  ASSUME TypeInv, RowsHold, NEW s, sessions[s] \notin State
  PROVE  Processed(s) = {} /\ SentRows(s) = {} /\ WithheldRows(s) = {}
<1>1. DOMAIN audit = 1 .. Len(audit)
  BY LogTypes
<1>2. Processed(s) = {}
  BY <1>1 DEF Processed, RowsHold, RowHolds
<1> QED BY <1>2 DEF SentRows, WithheldRows

(* The counters keep up when no record is logged: d records have raised.   *)
LEMMA CountedQuiet ==
  ASSUME TypeInv, TypeInv', RowsHold, Extends, NEW s \in Sessions, Counted(s),
         \A i \in 1 .. Len(audit') : i \in 1 .. Len(audit)
                                     \/ audit'[i].event # "record_processed" \/ audit'[i].sess # s,
         NEW d \in Nat, raised'[s] = raised[s] + d,
         sessions[s] \in State => /\ sessions'[s].transmitted = sessions[s].transmitted
                                  /\ sessions'[s].blocked = sessions[s].blocked
                                  /\ sessions'[s].generated = sessions[s].generated + d,
         sessions[s] \notin State /\ sessions'[s] \in State =>
           /\ sessions'[s].transmitted = 0 /\ sessions'[s].blocked = 0
           /\ sessions'[s].generated = 0 /\ d = 0,
         sessions'[s] \notin State => sessions[s] \notin State /\ d = 0
  PROVE  Counted(s)'
<1>1. /\ Processed(s)' = Processed(s) /\ SentRows(s)' = SentRows(s)
      /\ WithheldRows(s)' = WithheldRows(s)
  BY QuietRows
<1>2. IsFiniteSet(Processed(s)) /\ IsFiniteSet(SentRows(s)) /\ IsFiniteSet(WithheldRows(s))
  BY DEF Counted
<1>3. /\ Cardinality(Processed(s)) \in Nat /\ raised[s] \in Nat
      /\ sessions[s] \in State => sessions[s].generated \in Nat
  BY <1>2, FS_CardinalityType DEF TypeInv, State
<1>4. ASSUME sessions'[s] \in State
      PROVE  /\ sessions'[s].transmitted = Cardinality(SentRows(s))
             /\ sessions'[s].blocked = Cardinality(WithheldRows(s))
             /\ sessions'[s].generated = Cardinality(Processed(s)) + raised'[s]
  <2>1. CASE sessions[s] \in State
    <3>1. /\ sessions[s].transmitted = Cardinality(SentRows(s))
          /\ sessions[s].blocked = Cardinality(WithheldRows(s))
          /\ sessions[s].generated = Cardinality(Processed(s)) + raised[s]
      BY <2>1 DEF Counted
    <3>2. (Cardinality(Processed(s)) + raised[s]) + d = Cardinality(Processed(s)) + (raised[s] + d)
      BY <1>3
    <3> QED BY <2>1, <3>1, <3>2
  <2>2. CASE sessions[s] \notin State
    <3>1. Processed(s) = {} /\ SentRows(s) = {} /\ WithheldRows(s) = {}
      BY <2>2, NothingLogged
    <3>2. Cardinality(Processed(s)) = 0 /\ Cardinality(SentRows(s)) = 0
          /\ Cardinality(WithheldRows(s)) = 0
      BY <3>1, FS_EmptySet
    <3>3. raised[s] = 0 /\ raised'[s] = 0
      BY <1>4, <2>2 DEF Counted
    <3> QED BY <1>4, <2>2, <3>2, <3>3
  <2> QED BY <2>1, <2>2
<1>5. ASSUME sessions'[s] \notin State PROVE raised'[s] = 0
  BY <1>3, <1>5 DEF Counted
<1> QED BY <1>1, <1>2, <1>4, <1>5 DEF Counted

-----------------------------------------------------------------------------
(* What an operation on the session s must do to keep what is logged: the  *)
(* others stay, s gets a state that goes on where the old one was.         *)
SessionChanges(s, new) ==
  /\ sessions' = [sessions EXCEPT ![s] = new]
  /\ new \in State /\ Persists(sessions[s], new)

LEMMA SessionsTyped ==
  ASSUME TypeInv, NEW s \in Sessions, NEW new, SessionChanges(s, new)
  PROVE  /\ sessions' \in [Sessions -> State \cup {None}]
         /\ sessions'[s] = new /\ new \in State
         /\ \A z \in Sessions : Persists(sessions[z], sessions'[z])
         /\ \A z \in Sessions \ {s} : sessions'[z] = sessions[z]
<1>1. sessions \in [Sessions -> State \cup {None}]
  BY DEF TypeInv
<1>2. /\ sessions' = [sessions EXCEPT ![s] = new] /\ new \in State /\ Persists(sessions[s], new)
  BY DEF SessionChanges
<1>3. sessions' \in [Sessions -> State \cup {None}] /\ sessions'[s] = new
      /\ \A z \in Sessions \ {s} : sessions'[z] = sessions[z]
  BY <1>1, <1>2
<1>4. \A z \in Sessions \ {s} : Persists(sessions[z], sessions'[z])
  BY <1>3 DEF Persists
<1> QED BY <1>2, <1>3, <1>4

(* The sessions an operation is not about keep their counts.               *)
LEMMA OthersCounted ==
  ASSUME TypeInv, TypeInv', RowsHold, Extends, NEW s \in Sessions,
         \A z \in Sessions : Counted(z),
         \A z \in Sessions \ {s} : sessions'[z] = sessions[z] /\ raised'[z] = raised[z],
         \A i \in 1 .. Len(audit') : i \in 1 .. Len(audit)
                                     \/ audit'[i].event # "record_processed" \/ audit'[i].sess = s
  PROVE  \A z \in Sessions \ {s} : Counted(z)'
<1> SUFFICES ASSUME NEW z \in Sessions \ {s} PROVE Counted(z)'
  OBVIOUS
<1>1. \A i \in 1 .. Len(audit') : i \in 1 .. Len(audit)
                                  \/ audit'[i].event # "record_processed" \/ audit'[i].sess # z
  OBVIOUS
<1>2. 0 \in Nat /\ raised'[z] = raised[z] + 0
  BY DEF TypeInv
<1>3. sessions[z] \in State => sessions[z].generated = sessions[z].generated + 0
  BY StateCounts
<1>4. sessions'[z] = sessions[z] /\ Counted(z)
  OBVIOUS
<1> QED BY <1>1, <1>2, <1>3, <1>4, CountedQuiet

LEMMA RowTyped ==
  ASSUME NEW e \in {"session_start", "session_end", "burn_complete"}, NEW s \in Sessions
  PROVE  Row(e, s) \in Rows /\ Row(e, s).event = e /\ Row(e, s).sess = s
BY DEF Row, Rows

LogNext == LogInv' /\ SilentAfterwards'

(* The operations that log no record.                                      *)
LEMMA QuietNext ==
  ASSUME LogInv, SilentAfterwards, NEW s \in Sessions, NEW new, SessionChanges(s, new),
         raised' \in [Sessions -> Nat], \A z \in Sessions \ {s} : raised'[z] = raised[z],
         NEW d \in Nat, raised'[s] = raised[s] + d,
         audit' \in Seq(Rows), Extends,
         \A i \in 1 .. Len(audit') : i \in 1 .. Len(audit)
           \/ /\ audit'[i].event # "record_processed" /\ audit'[i].sess = s
              /\ RowHolds(audit'[i], new),
         sessions[s] \in State => /\ new.transmitted = sessions[s].transmitted
                                  /\ new.blocked = sessions[s].blocked
                                  /\ new.generated = sessions[s].generated + d,
         sessions[s] \notin State =>
           new.transmitted = 0 /\ new.blocked = 0 /\ new.generated = 0 /\ d = 0
  PROVE  LogNext
<1>1. TypeInv /\ RowsHold /\ (\A z \in Sessions : Counted(z)) /\ sessions[s] \in State \cup {None}
  BY DEF LogInv, TypeInv
<1>2. /\ sessions' \in [Sessions -> State \cup {None}] /\ sessions'[s] = new /\ new \in State
      /\ \A z \in Sessions : Persists(sessions[z], sessions'[z])
      /\ \A z \in Sessions \ {s} : sessions'[z] = sessions[z]
  BY <1>1, SessionsTyped
<1>3. TypeInv'
  BY <1>2 DEF TypeInv
<1>4. RowsHold'
  <2>1. \A i \in 1 .. Len(audit') :
          i \in 1 .. Len(audit) \/ RowHolds(audit'[i], sessions'[audit'[i].sess])
    BY <1>2
  <2> QED BY <1>1, <1>2, <2>1, RowsHoldNext
<1>5. SilentAfterwards'
  <2>1. NewRowsQuiet
    BY DEF NewRowsQuiet
  <2> QED BY <1>1, <1>2, <1>3, <2>1, SilentNext
<1>6. Counted(s)'
  BY <1>1, <1>2, <1>3, CountedQuiet
<1>7. \A z \in Sessions \ {s} : Counted(z)'
  BY <1>1, <1>2, <1>3, OthersCounted
<1> QED BY <1>3, <1>4, <1>5, <1>6, <1>7 DEF LogNext, LogInv

LEMMA StartNext ==
  ASSUME LocalAssumption, LogInv, SilentAfterwards, NEW s \in Sessions, NEW m \in Manifests,
         StartSession(s, m)
  PROVE  LogNext
<1>1. /\ sessions' = [sessions EXCEPT ![s] = NewState(m)] /\ raised' = raised
      /\ audit' = Append(audit, Row("session_start", s)) /\ ~sessions[s].started
  BY DEF StartSession
<1>2. TypeInv /\ sessions[s] \in State \cup {None} /\ raised \in [Sessions -> Nat]
  BY DEF LogInv, TypeInv
<1>3. sessions[s] \notin State
  BY <1>1, <1>2, StartedIsState
<1>4. SessionChanges(s, NewState(m))
  BY <1>1, <1>3, NewStateOK DEF SessionChanges, Persists
<1>5. /\ Row("session_start", s) \in Rows /\ Row("session_start", s).event = "session_start"
      /\ Row("session_start", s).sess = s
  BY RowTyped
<1>6. /\ audit' \in Seq(Rows) /\ Extends /\ Len(audit') = Len(audit) + 1
      /\ audit'[Len(audit) + 1] = Row("session_start", s) /\ Len(audit) \in Nat
  BY <1>1, <1>2, <1>5, AppendExtends, LogTypes
<1>7. \A i \in 1 .. Len(audit') : i \in 1 .. Len(audit)
        \/ /\ audit'[i].event # "record_processed" /\ audit'[i].sess = s
           /\ RowHolds(audit'[i], NewState(m))
  <2>1. RowHolds(Row("session_start", s), NewState(m))
    BY <1>5, NewStateOK DEF RowHolds
  <2>2. \A i \in 1 .. Len(audit') : i \in 1 .. Len(audit) \/ i = Len(audit) + 1
    BY <1>6
  <2> QED BY <1>5, <1>6, <2>1, <2>2
<1>8. NewState(m).transmitted = 0 /\ NewState(m).blocked = 0 /\ NewState(m).generated = 0
  BY DEF NewState
<1>9. 0 \in Nat /\ raised'[s] = raised[s] + 0
  BY <1>1, <1>2
<1> QED BY <1>1, <1>2, <1>3, <1>4, <1>6, <1>7, <1>8, <1>9, QuietNext

LEMMA RevokeNext ==
  ASSUME LocalAssumption, LogInv, SilentAfterwards, NEW s \in Sessions,
         NEW x \in Stakeholders, RevokeConsent(s, x)
  PROVE  LogNext
<1> DEFINE new == [sessions[s] EXCEPT !.revoked = @ \cup {x}]
           row == [Row("consent_revoked", s) EXCEPT !.who = x]
<1>1. /\ sessions' = [sessions EXCEPT ![s] = new] /\ raised' = raised
      /\ audit' = Append(audit, row) /\ sessions[s].started
  BY DEF RevokeConsent
<1>2. TypeInv /\ sessions[s] \in State \cup {None} /\ raised \in [Sessions -> Nat]
  BY DEF LogInv, TypeInv
<1>3. sessions[s] \in State
  BY <1>1, <1>2, StartedIsState
<1>4. /\ new \in State /\ new.manifest = sessions[s].manifest /\ new.ended = sessions[s].ended
      /\ new.revoked = sessions[s].revoked \cup {x}
      /\ new.transmitted = sessions[s].transmitted /\ new.blocked = sessions[s].blocked
      /\ new.generated = sessions[s].generated + 0
  BY <1>3, StateCounts, RevokedState
<1>5. /\ row \in Rows /\ row.event = "consent_revoked" /\ row.sess = s /\ row.who = x
  BY DEF Row, Rows
<1> HIDE DEF new, row
<1>6. SessionChanges(s, new)
  BY <1>1, <1>4 DEF SessionChanges, Persists
<1>7. /\ audit' \in Seq(Rows) /\ Extends /\ Len(audit') = Len(audit) + 1
      /\ audit'[Len(audit) + 1] = row /\ Len(audit) \in Nat
  BY <1>1, <1>2, <1>5, AppendExtends, LogTypes
<1>8. \A i \in 1 .. Len(audit') : i \in 1 .. Len(audit)
        \/ /\ audit'[i].event # "record_processed" /\ audit'[i].sess = s
           /\ RowHolds(audit'[i], new)
  <2>1. RowHolds(row, new)
    BY <1>4, <1>5 DEF RowHolds
  <2>2. \A i \in 1 .. Len(audit') : i \in 1 .. Len(audit) \/ i = Len(audit) + 1
    BY <1>7
  <2> QED BY <1>5, <1>7, <2>1, <2>2
<1>9. 0 \in Nat /\ raised'[s] = raised[s] + 0
  BY <1>1, <1>2
<1>10. /\ raised' \in [Sessions -> Nat] /\ \A z \in Sessions \ {s} : raised'[z] = raised[z]
       /\ audit' \in Seq(Rows) /\ Extends
  BY <1>1, <1>2, <1>7
<1>11. /\ new.transmitted = sessions[s].transmitted /\ new.blocked = sessions[s].blocked
       /\ new.generated = sessions[s].generated + 0
  BY <1>4
<1> QED BY <1>3, <1>6, <1>8, <1>9, <1>10, <1>11, QuietNext

LEMMA EndNext ==
  ASSUME LocalAssumption, LogInv, SilentAfterwards, NEW s \in Sessions, EndSession(s)
  PROVE  LogNext
<1> DEFINE new == [sessions[s] EXCEPT !.ended = TRUE]
           a == Row("session_end", s)
           b == Row("burn_complete", s)
<1>1. /\ sessions' = [sessions EXCEPT ![s] = new] /\ raised' = raised
      /\ audit' = audit \o <<a, b>> /\ sessions[s].started
  BY DEF EndSession
<1>2. TypeInv /\ sessions[s] \in State \cup {None} /\ raised \in [Sessions -> Nat]
      /\ audit \in Seq(Rows) /\ Len(audit) \in Nat
  BY LogTypes DEF LogInv, TypeInv
<1>3. sessions[s] \in State
  BY <1>1, <1>2, StartedIsState
<1>4. /\ new \in State /\ new.manifest = sessions[s].manifest /\ new.ended = TRUE
      /\ new.revoked = sessions[s].revoked
      /\ new.transmitted = sessions[s].transmitted /\ new.blocked = sessions[s].blocked
      /\ new.generated = sessions[s].generated + 0
  BY <1>3, StateCounts, EndedState
<1>5. /\ a \in Rows /\ a.event = "session_end" /\ a.sess = s
      /\ b \in Rows /\ b.event = "burn_complete" /\ b.sess = s
  BY RowTyped
<1> HIDE DEF new, a, b
<1>6. SessionChanges(s, new)
  BY <1>1, <1>4 DEF SessionChanges, Persists
<1>7. /\ audit' \in Seq(Rows) /\ Len(audit') = Len(audit) + 2
      /\ \A i \in 1 .. Len(audit) : audit'[i] = audit[i]
      /\ audit'[Len(audit) + 1] = a /\ audit'[Len(audit) + 2] = b
  <2>1. <<a, b>> \in Seq(Rows) /\ Len(<<a, b>>) = 2 /\ <<a, b>>[1] = a /\ <<a, b>>[2] = b
    BY <1>5
  <2>2. /\ audit' \in Seq(Rows) /\ Len(audit') = Len(audit) + 2
        /\ \A i \in 1 .. Len(audit) + 2 :
             audit'[i] = IF i <= Len(audit) THEN audit[i] ELSE <<a, b>>[i - Len(audit)]
    BY <1>1, <1>2, <2>1, ConcatProperties
  <2>3. \A n \in Nat : /\ n + 1 \in 1 .. n + 2 /\ n + 2 \in 1 .. n + 2
                       /\ ~ (n + 1 <= n) /\ ~ (n + 2 <= n)
                       /\ (n + 1) - n = 1 /\ (n + 2) - n = 2
                       /\ \A i \in 1 .. n : i \in 1 .. n + 2 /\ i <= n
    OBVIOUS
  <2> QED BY <1>2, <2>1, <2>2, <2>3
<1>8. Extends
  BY <1>2, <1>7 DEF Extends
<1>9. \A i \in 1 .. Len(audit') : i \in 1 .. Len(audit)
        \/ /\ audit'[i].event # "record_processed" /\ audit'[i].sess = s
           /\ RowHolds(audit'[i], new)
  <2>1. RowHolds(a, new) /\ RowHolds(b, new)
    BY <1>4, <1>5 DEF RowHolds
  <2>2. \A i \in 1 .. Len(audit') :
          i \in 1 .. Len(audit) \/ i = Len(audit) + 1 \/ i = Len(audit) + 2
    BY <1>2, <1>7
  <2> QED BY <1>5, <1>7, <2>1, <2>2
<1>10. 0 \in Nat /\ raised'[s] = raised[s] + 0
  BY <1>1, <1>2
<1>11. /\ raised' \in [Sessions -> Nat] /\ \A z \in Sessions \ {s} : raised'[z] = raised[z]
       /\ audit' \in Seq(Rows)
  BY <1>1, <1>2, <1>7
<1>12. /\ new.transmitted = sessions[s].transmitted /\ new.blocked = sessions[s].blocked
       /\ new.generated = sessions[s].generated + 0
  BY <1>4
<1> QED BY <1>3, <1>6, <1>8, <1>9, <1>10, <1>11, <1>12, QuietNext

(* The counters after a record is logged, and after one has raised.        *)
WithCounts(x, g, t, b, to, for) ==
  [x EXCEPT !.generated = g, !.transmitted = t, !.blocked = b, !.sentTo = to,
            !.blockedFor = for]

LEMMA CountsState ==
  ASSUME NEW x \in State, NEW g, NEW t, NEW b, {g, t, b} \subseteq Nat,
         NEW to \in [Stakeholders -> Nat], NEW for \in [Stakeholders -> Nat]
  PROVE  WithCounts(x, g, t, b, to, for) \in State
<1> DEFINE y == [x EXCEPT !.generated = g, !.transmitted = t, !.blocked = b]
           z == [y EXCEPT !.sentTo = to, !.blockedFor = for]
<1>1. y \in State
  BY DEF State
<1>2. z = WithCounts(x, g, t, b, to, for)
  BY DEF WithCounts
<1> HIDE DEF y
<1>3. z \in State
  BY <1>1 DEF State
<1> QED BY <1>2, <1>3

LEMMA RaisesNext ==
  ASSUME LocalAssumption, LogInv, SilentAfterwards, NEW s \in Sessions, NEW r \in Records,
         ProcessRaises(s, r)
  PROVE  LogNext
<1> DEFINE x == sessions[s]
           reached == {i \in DOMAIN x.manifest : \A j \in RaisesAt(x, r) : i < j}
           before == reached \cap Withheld(x, r)
           new == [x EXCEPT !.generated = @ + 1,
                            !.sentTo = CountFor(@, x.manifest, reached \ before),
                            !.blockedFor = CountFor(@, x.manifest, before)]
<1>1. /\ sessions' = [sessions EXCEPT ![s] = new] /\ raised' = [raised EXCEPT ![s] = @ + 1]
      /\ audit' = audit /\ x.started
  BY DEF ProcessRaises, Active
<1>2. TypeInv /\ x \in State \cup {None} /\ raised \in [Sessions -> Nat]
      /\ audit \in Seq(Rows) /\ Len(audit) \in Nat
  BY LogTypes DEF LogInv, TypeInv
<1>3. x \in State
  BY <1>1, <1>2, StartedIsState
<1>4. reached \ before \subseteq DOMAIN x.manifest /\ before \subseteq DOMAIN x.manifest
  OBVIOUS
<1> HIDE DEF reached, before, x
<1>5. /\ new \in State /\ new.manifest = x.manifest /\ new.ended = x.ended
      /\ new.revoked = x.revoked
      /\ new.transmitted = x.transmitted /\ new.blocked = x.blocked
      /\ new.generated = x.generated + 1
  <2> DEFINE to == CountFor(x.sentTo, x.manifest, reached \ before)
             for == CountFor(x.blockedFor, x.manifest, before)
  <2>1. /\ x.generated + 1 \in Nat /\ x.transmitted \in Nat /\ x.blocked \in Nat
    BY <1>3, StateCounts
  <2>2. to \in [Stakeholders -> Nat] /\ for \in [Stakeholders -> Nat]
    BY <1>3, <1>4, StateCounts, CountForOK
  <2>3. new = WithCounts(x, x.generated + 1, x.transmitted, x.blocked, to, for)
    BY <1>3 DEF WithCounts, State
  <2> DEFINE g == x.generated + 1
             y == WithCounts(x, g, x.transmitted, x.blocked, to, for)
  <2>5. {g, x.transmitted, x.blocked} \subseteq Nat
    BY <2>1
  <2> HIDE DEF to, for, new, g
  <2>4. y \in State
    BY <1>3, <2>5, <2>2, CountsState
  <2>6. /\ y.manifest = x.manifest /\ y.ended = x.ended /\ y.revoked = x.revoked
        /\ y.transmitted = x.transmitted /\ y.blocked = x.blocked /\ y.generated = g
    BY <1>3 DEF WithCounts, State
  <2> HIDE DEF y
  <2> QED BY <2>3, <2>4, <2>6 DEF y, g
<1> HIDE DEF new
<1>6. SessionChanges(s, new)
  BY <1>1, <1>5 DEF SessionChanges, Persists, x
<1> DEFINE one == 1
<1>7. /\ audit' \in Seq(Rows) /\ Extends /\ one \in Nat
      /\ raised' \in [Sessions -> Nat] /\ raised'[s] = raised[s] + one
      /\ \A z \in Sessions \ {s} : raised'[z] = raised[z]
  BY <1>1, <1>2 DEF Extends
<1>8. \A i \in 1 .. Len(audit') :
        \/ i \in 1 .. Len(audit)
        \/ audit'[i].event # "record_processed" /\ audit'[i].sess = s /\ RowHolds(audit'[i], new)
  BY <1>1
<1>9. sessions[s] \in State =>
        /\ new.transmitted = sessions[s].transmitted /\ new.blocked = sessions[s].blocked
        /\ new.generated = sessions[s].generated + one
  BY <1>5 DEF x
<1>10. sessions[s] \notin State =>
         new.transmitted = 0 /\ new.blocked = 0 /\ new.generated = 0 /\ one = 0
  BY <1>3 DEF x
<1> HIDE DEF one
<1> QED BY <1>6, <1>7, <1>8, <1>9, <1>10, QuietNext

LEMMA RecordNext ==
  ASSUME LocalAssumption, LogInv, SilentAfterwards, NEW s \in Sessions, NEW r \in Records,
         ProcessRecord(s, r)
  PROVE  LogNext
<1> DEFINE x == sessions[s]
           held == Withheld(x, r)
           sent == DOMAIN x.manifest \ held
           new == [x EXCEPT !.generated = @ + 1,
                            !.transmitted = @ + Cardinality(sent),
                            !.blocked = @ + Cardinality(held),
                            !.sentTo = CountFor(@, x.manifest, sent),
                            !.blockedFor = CountFor(@, x.manifest, held)]
           row == [Row("record_processed", s) EXCEPT !.sent = sent, !.withheld = held]
<1>1. /\ sessions' = [sessions EXCEPT ![s] = new] /\ raised' = raised
      /\ audit' = Append(audit, row) /\ x.started /\ ~x.ended
  BY DEF ProcessRecord, Active
<1>2. /\ TypeInv /\ x \in State \cup {None} /\ raised \in [Sessions -> Nat]
      /\ Len(audit) \in Nat /\ RowsHold /\ \A z \in Sessions : Counted(z)
  BY LogTypes DEF LogInv, TypeInv
<1>3. x \in State /\ x.manifest \in Manifests
  BY <1>1, <1>2, StartedIsState, StateCounts
<1>4. sent \subseteq DOMAIN x.manifest /\ held \subseteq DOMAIN x.manifest
      /\ \A n \in sent : x.manifest[n].id \notin x.revoked
  BY DEF Withheld
<1> HIDE DEF sent, held, x
<1>5. /\ new \in State /\ new.manifest = x.manifest /\ new.ended = x.ended
      /\ new.revoked = x.revoked
      /\ new.transmitted = x.transmitted + Cardinality(sent)
      /\ new.blocked = x.blocked + Cardinality(held)
      /\ new.generated = x.generated + 1
  <2> DEFINE to == CountFor(x.sentTo, x.manifest, sent)
             for == CountFor(x.blockedFor, x.manifest, held)
             t == x.transmitted + Cardinality(sent)
             b == x.blocked + Cardinality(held)
  <2>1. Cardinality(sent) \in Nat /\ Cardinality(held) \in Nat
    BY <1>3, <1>4, PositionsFinite
  <2>2. x.generated + 1 \in Nat /\ t \in Nat /\ b \in Nat
    BY <1>3, <2>1, StateCounts
  <2>3. to \in [Stakeholders -> Nat] /\ for \in [Stakeholders -> Nat]
    BY <1>3, <1>4, StateCounts, CountForOK
  <2>4. new = WithCounts(x, x.generated + 1, t, b, to, for)
    BY <1>3 DEF WithCounts
  <2>5. t = x.transmitted + Cardinality(sent) /\ b = x.blocked + Cardinality(held)
    OBVIOUS
  <2> DEFINE g == x.generated + 1
             y == WithCounts(x, g, t, b, to, for)
  <2>8. {g, t, b} \subseteq Nat
    BY <2>2
  <2> HIDE DEF to, for, t, b, g, new
  <2>6. y \in State
    BY <1>3, <2>8, <2>3, CountsState
  <2>9. /\ y.manifest = x.manifest /\ y.ended = x.ended /\ y.revoked = x.revoked
        /\ y.transmitted = t /\ y.blocked = b /\ y.generated = g
    BY <1>3 DEF WithCounts, State
  <2>7. new = y
    BY <2>4 DEF g
  <2> HIDE DEF y
  <2> QED BY <2>5, <2>6, <2>7, <2>9 DEF g
<1>6. /\ IsFiniteSet(sent) /\ sent \subseteq Nat /\ Cardinality(sent) \in Nat
      /\ IsFiniteSet(held) /\ held \subseteq Nat /\ Cardinality(held) \in Nat
  BY <1>3, <1>4, PositionsFinite
<1>7. /\ row \in Rows /\ row.event = "record_processed" /\ row.sess = s
      /\ row.sent = sent /\ row.withheld = held
  BY <1>6 DEF Row, Rows
<1> HIDE DEF new, row
<1>8. SessionChanges(s, new)
  BY <1>1, <1>5 DEF SessionChanges, Persists, x
<1>9. /\ sessions' \in [Sessions -> State \cup {None}] /\ sessions'[s] = new
      /\ \A z \in Sessions : Persists(sessions[z], sessions'[z])
      /\ \A z \in Sessions \ {s} : sessions'[z] = sessions[z]
  BY <1>2, <1>8, SessionsTyped
<1>10. /\ audit' \in Seq(Rows) /\ Extends /\ Len(audit') = Len(audit) + 1
       /\ audit'[Len(audit) + 1] = row
  BY <1>1, <1>2, <1>7, AppendExtends
<1>11. TypeInv'
  BY <1>1, <1>2, <1>9, <1>10 DEF TypeInv
<1>12. \A i \in 1 .. Len(audit') : i \in 1 .. Len(audit) \/ (i = Len(audit) + 1 /\ audit'[i] = row)
  BY <1>2, <1>10
<1>13. RowsHold'
  <2>1. RowHolds(row, new)
    BY <1>5, <1>7 DEF RowHolds
  <2>2. \A i \in 1 .. Len(audit') :
          i \in 1 .. Len(audit) \/ RowHolds(audit'[i], sessions'[audit'[i].sess])
    BY <1>7, <1>9, <1>12, <2>1
  <2> QED BY <1>2, <1>9, <1>10, <2>2, RowsHoldNext
<1>14. SilentAfterwards'
  <2>1. /\ x \in State /\ x.ended # TRUE /\ x = sessions[row.sess]
        /\ \A n \in row.sent : x.manifest[n].id \notin x.revoked
    BY <1>1, <1>3, <1>4, <1>7 DEF x
  <2>2. NewRowsQuiet
    BY <1>12, <2>1 DEF NewRowsQuiet
  <2> QED BY <1>2, <1>9, <1>10, <1>11, <2>2, SilentNext
<1>15. Counted(s)'
  <2>1. /\ IsFiniteSet(Processed(s)) /\ IsFiniteSet(SentRows(s)) /\ IsFiniteSet(WithheldRows(s))
        /\ x.transmitted = Cardinality(SentRows(s))
        /\ x.blocked = Cardinality(WithheldRows(s))
        /\ x.generated = Cardinality(Processed(s)) + raised[s]
    BY <1>2, <1>3 DEF Counted, x
  <2>2. /\ IsFiniteSet(Processed(s)') /\ IsFiniteSet(SentRows(s)') /\ IsFiniteSet(WithheldRows(s)')
        /\ Cardinality(Processed(s)') = Cardinality(Processed(s)) + 1
        /\ Cardinality(SentRows(s)') = Cardinality(SentRows(s)) + Cardinality(sent)
        /\ Cardinality(WithheldRows(s)') = Cardinality(WithheldRows(s)) + Cardinality(held)
    BY <1>1, <1>2, <1>6, <1>7, <1>11, <2>1, LoggedRow
  <2>3. Cardinality(Processed(s)) \in Nat /\ raised[s] \in Nat
    BY <1>2, <2>1, FS_CardinalityType
  <2>4. \A a, b \in Nat : (a + b) + 1 = (a + 1) + b
    OBVIOUS
  <2>5. /\ new.transmitted = Cardinality(SentRows(s)')
        /\ new.blocked = Cardinality(WithheldRows(s)')
        /\ new.generated = Cardinality(Processed(s)') + raised'[s]
    BY <1>1, <1>5, <2>1, <2>2, <2>3, <2>4
  <2>6. sessions'[s] = new /\ new \in State
    BY <1>5, <1>9
  <2> QED BY <2>2, <2>5, <2>6 DEF Counted
<1>16. \A z \in Sessions \ {s} : Counted(z)'
  <2>1. \A i \in 1 .. Len(audit') : i \in 1 .. Len(audit)
          \/ audit'[i].event # "record_processed" \/ audit'[i].sess = s
    BY <1>7, <1>12
  <2> QED BY <1>1, <1>2, <1>9, <1>10, <1>11, <2>1, OthersCounted
<1> QED BY <1>11, <1>13, <1>14, <1>15, <1>16 DEF LogNext, LogInv

LEMMA InitLog == Init => LogInv /\ SilentAfterwards
<1> SUFFICES ASSUME Init PROVE LogInv /\ SilentAfterwards
  OBVIOUS
<1>1. /\ sessions = [s \in Sessions |-> None] /\ audit = <<>> /\ raised = [s \in Sessions |-> 0]
  BY DEF Init
<1>2. audit \in Seq(Rows) /\ Len(audit) = 0 /\ DOMAIN audit = {}
  <2>1. <<>> \in Seq(Rows) /\ Len(<<>>) = 0 /\ 1 .. 0 = {}
    OBVIOUS
  <2> QED BY <1>1, <2>1
<1>3. None \notin State
  <2>1. None.started = FALSE /\ \A y \in State : y.started = TRUE
    BY DEF None, State
  <2> QED BY <2>1
<1>4. TypeInv
  BY <1>1, <1>2 DEF TypeInv
<1>5. RowsHold
  BY <1>2 DEF RowsHold
<1>6. ASSUME NEW s \in Sessions PROVE Counted(s)
  <2>1. sessions[s] = None /\ raised[s] = 0
    BY <1>1
  <2>2. Processed(s) = {} /\ SentRows(s) = {} /\ WithheldRows(s) = {}
    BY <1>3, <1>4, <1>5, <2>1, NothingLogged
  <2>3. IsFiniteSet({})
    BY FS_EmptySet
  <2> QED BY <1>3, <2>1, <2>2, <2>3 DEF Counted
<1>7. SilentAfterwards
  BY <1>2 DEF SilentAfterwards
<1> QED BY <1>4, <1>5, <1>6, <1>7 DEF LogInv

LEMMA NextLog == LocalAssumption /\ LogInv /\ SilentAfterwards /\ [Next]_localVars
                   => LogInv' /\ SilentAfterwards'
<1> SUFFICES ASSUME LocalAssumption, LogInv, SilentAfterwards, [Next]_localVars PROVE LogNext
  BY DEF LogNext
<1>1. CASE UNCHANGED localVars
  <2>1. sessions' = sessions /\ audit' = audit /\ raised' = raised
    BY <1>1 DEF localVars
  <2>2. TypeInv' /\ RowsHold'
    BY <2>1 DEF LogInv, TypeInv, RowsHold
  <2>3. SilentAfterwards'
    BY <2>1 DEF SilentAfterwards
  <2>4. ASSUME NEW s \in Sessions PROVE Counted(s)'
    <3>1. Processed(s)' = Processed(s)
      BY <2>1 DEF Processed
    <3>2. SentRows(s)' = SentRows(s) /\ WithheldRows(s)' = WithheldRows(s)
      BY <2>1, <3>1 DEF SentRows, WithheldRows
    <3>3. Counted(s)
      BY DEF LogInv
    <3> QED BY <2>1, <3>1, <3>2, <3>3 DEF Counted
  <2> QED BY <2>2, <2>3, <2>4 DEF LogNext, LogInv
<1>2. CASE Next
  BY <1>2, StartNext, RecordNext, RaisesNext, EndNext, RevokeNext DEF Next
<1> QED BY <1>1, <1>2

THEOREM LogInvariant == Spec => [](LogInv /\ SilentAfterwards)
<1>1. Init => LogInv /\ SilentAfterwards
  BY InitLog
<1>2. LogInv /\ SilentAfterwards /\ [Next]_localVars => LogInv' /\ SilentAfterwards'
  BY NextLog, LocalAssumption
<1> QED BY <1>1, <1>2, PTL DEF Spec

(* Nothing goes to a stakeholder after the row that says its consent was   *)
(* revoked, nor to anyone after the row that says the session has ended    *)
(* (local_gateway.py: process_record, revoke_consent, end_session).        *)
THEOREM RevokedStaySilent == Spec => []SilentAfterwards
BY LogInvariant, PTL

(* The totals a summary reports are those of the session's rows, whatever  *)
(* records raised in between (local_gateway.py: get_session_summary).      *)
THEOREM LogAccounts == Spec => []AuditAccounts
<1>1. LogInv => AuditAccounts
  <2> SUFFICES ASSUME LogInv, NEW s \in Sessions, sessions[s].started
               PROVE  /\ sessions[s].transmitted = Cardinality(SentRows(s))
                      /\ sessions[s].blocked = Cardinality(WithheldRows(s))
                      /\ sessions[s].ended =>
                           RecordsBurned(s) = Cardinality(Processed(s)) + raised[s]
    BY DEF AuditAccounts
  <2>1. sessions[s] \in State
    BY StartedIsState DEF LogInv, TypeInv
  <2>2. /\ sessions[s].transmitted = Cardinality(SentRows(s))
        /\ sessions[s].blocked = Cardinality(WithheldRows(s))
        /\ sessions[s].generated = Cardinality(Processed(s)) + raised[s]
    BY <2>1 DEF LogInv, Counted
  <2>3. sessions[s].ended => RecordsBurned(s) = sessions[s].generated
    BY DEF RecordsBurned
  <2> QED BY <2>2, <2>3
<1> QED BY <1>1, LogInvariant, PTL

-----------------------------------------------------------------------------
(* The views.  Replacing values leaves the names alone.                    *)
LEMMA ReplacementsKeep ==
  ASSUME NEW to, NEW f \in Replacements(to)
  PROVE  DOMAIN f = DOMAIN to /\ \A k \in DOMAIN to : f[k] \in to[k]
BY DEF Replacements

LEMMA OnlyKeeps ==
  ASSUME NEW fields, NEW names
  PROVE  /\ DOMAIN Only(fields, names) = DOMAIN fields \cap names
         /\ \A k \in DOMAIN fields \cap names : Only(fields, names)[k] = fields[k]
BY DEF Only

(* Every field the Rust gateway lets through the local one does too, and   *)
(* neither changes a value.                                                *)
LEMMA FiltersAgree ==
  ASSUME NEW fields, NEW c, IsCategory(c)
  PROVE  /\ DOMAIN RustFilter(fields, c) \subseteq DOMAIN LocalFilter(fields, c)
         /\ DOMAIN LocalFilter(fields, c) \subseteq DOMAIN fields
         /\ \A k \in DOMAIN LocalFilter(fields, c) : LocalFilter(fields, c)[k] = fields[k]
         /\ \A k \in DOMAIN RustFilter(fields, c) : RustFilter(fields, c)[k] = fields[k]
<1> DEFINE here == (IF c.fields = {} THEN DOMAIN fields ELSE c.fields) \ c.excluded
           there == (IF c.listed THEN c.fields ELSE DOMAIN fields) \ c.excluded
<1>1. DOMAIN fields \cap there \subseteq DOMAIN fields \cap here
  <2>1. c.listed \/ c.fields = {}
    BY DEF IsCategory
  <2> QED BY <2>1
<1> HIDE DEF here, there
<1>2. LocalFilter(fields, c) = Only(fields, here) /\ RustFilter(fields, c) = Only(fields, there)
  BY DEF LocalFilter, RustFilter, here, there
<1>3. /\ DOMAIN LocalFilter(fields, c) = DOMAIN fields \cap here
      /\ \A k \in DOMAIN fields \cap here : LocalFilter(fields, c)[k] = fields[k]
  BY <1>2 DEF Only
<1>4. /\ DOMAIN RustFilter(fields, c) = DOMAIN fields \cap there
      /\ \A k \in DOMAIN fields \cap there : RustFilter(fields, c)[k] = fields[k]
  BY <1>2 DEF Only
<1> QED BY <1>1, <1>3, <1>4

(* A cell's centre is the remainder 45, at most 45 from what is in it.     *)
LEMMA CentreNear ==
  ASSUME NEW n \in Int, NEW m \in CellCentres(n)
  PROVE  m \in Int /\ m % Cell = Cell \div 2 /\ Distance(m, n) <= Cell \div 2
<1>1. n = 90 * (n \div 90) + (n % 90) /\ n \div 90 \in Int /\ n % 90 \in 0 .. 89
  OBVIOUS
<1>2. \/ m = (n \div 90) * 90 + 45
      \/ n % 90 = 0 /\ m = n - 45
  BY DEF CellCentres, Cell
<1> DEFINE q == n \div 90
           d == n % 90
<1>3. n = 90 * q + d /\ q \in Int /\ d \in 0 .. 89
  BY <1>1
<1>4. m = 90 * q + 45 \/ (d = 0 /\ m = n - 45)
  BY <1>2, <1>3
<1> HIDE DEF q, d
<1>5. m \in Int /\ m % 90 = 45 /\ Distance(m, n) <= 45
  BY <1>3, <1>4 DEF Distance
<1> QED BY <1>5 DEF Cell

LEMMA HalfStepNear ==
  ASSUME NEW n \in Int, NEW m \in NearestMean(n, 1, One \div 100)
  PROVE  m \in Int /\ Distance(m, n) <= One \div 200
<1>1. One \div 100 = 100 /\ One \div 200 = 50
  BY DEF One
<1>2. m \in Int /\ 2 * Distance(m * 1, n) <= 100 * 1
  BY <1>1 DEF NearestMean
<1>3. m * 1 = m
  BY <1>2
<1>4. Distance(m, n) \in Int
  BY <1>2 DEF Distance
<1> QED BY <1>1, <1>2, <1>3, <1>4

Centres(n) == {Number(m) : m \in CellCentres(n)}

(* What the local gateway gives of the fields a category lets through.     *)
LEMMA LocalViewFacts ==
  ASSUME NEW fields, NEW g \in {"Raw", "Aggregated", "Anonymised", "PerTripScore"},
         NEW v \in LocalGranularity(fields, g)
  PROVE  /\ g = "Raw" => v = fields
         /\ g \in {"Aggregated", "Anonymised"} => DOMAIN v = DOMAIN fields \ Traces
         /\ g = "Anonymised" => \A k \in DOMAIN v \cap Position :
              v[k] \in Centres(fields[k].n)
<1> DEFINE kept == Only(fields, DOMAIN fields \ Traces)
<1>1. /\ DOMAIN kept = DOMAIN fields \ Traces
      /\ \A k \in DOMAIN kept : kept[k] = fields[k]
  <2>1. DOMAIN fields \cap (DOMAIN fields \ Traces) = DOMAIN fields \ Traces
    OBVIOUS
  <2> QED BY <2>1, OnlyKeeps
<1> HIDE DEF kept
<1>2. CASE g = "Raw"
  BY <1>2 DEF LocalGranularity
<1>3. CASE g = "Aggregated"
  <2> DEFINE to == [k \in DOMAIN kept |-> Rounded(kept[k], One \div 10)]
  <2>1. v \in Replacements(to)
    BY <1>3 DEF LocalGranularity, kept
  <2>2. DOMAIN v = DOMAIN kept
    BY <2>1, ReplacementsKeep
  <2> QED BY <1>1, <1>3, <2>2
<1>4. CASE g = "Anonymised"
  <2> DEFINE to == [k \in DOMAIN kept |-> LocalAnonymised(k, kept[k])]
  <2>1. v \in Replacements(to)
    BY <1>4 DEF LocalGranularity, kept
  <2>2. DOMAIN v = DOMAIN kept /\ \A k \in DOMAIN kept : v[k] \in LocalAnonymised(k, kept[k])
    BY <2>1, ReplacementsKeep
  <2>3. ASSUME NEW k \in DOMAIN v \cap Position
        PROVE  v[k] \in Centres(fields[k].n)
    <3>1. v[k] \in LocalAnonymised(k, fields[k])
      BY <1>1, <2>2
    <3>2. LocalAnonymised(k, fields[k]) = Centres(fields[k].n)
      BY DEF LocalAnonymised, Position, Centres
    <3> QED BY <3>1, <3>2
  <2> QED BY <1>1, <1>4, <2>2, <2>3
<1>5. CASE g = "PerTripScore"
  BY <1>5
<1> QED BY <1>2, <1>3, <1>4, <1>5

(* What the Rust gateway gives of the fields it lets through.              *)
LEMMA RustViewFacts ==
  ASSUME NEW fields, NEW g \in {"Raw", "Aggregated", "Anonymised", "PerTripScore"},
         NEW w \in RustGranularity(fields, g)
  PROVE  /\ g = "Raw" => w = fields
         /\ g \in {"Aggregated", "Anonymised"} => DOMAIN w \subseteq DOMAIN fields
         /\ g = "Anonymised" => \A k \in DOMAIN w \cap Position :
              w[k] \in Rounded(fields[k], One \div 100)
         /\ g = "PerTripScore" => DOMAIN w = {"trip_score"}
<1> DEFINE people == Only(fields, DOMAIN fields \ Identity)
           devices == Only(people, DOMAIN people \ DeviceIdentity)
<1>1. /\ DOMAIN people \subseteq DOMAIN fields
      /\ \A k \in DOMAIN people : people[k] = fields[k]
  BY OnlyKeeps
<1> HIDE DEF people
<1>2. /\ DOMAIN devices \subseteq DOMAIN people
      /\ \A k \in DOMAIN devices : devices[k] = people[k]
  BY OnlyKeeps
<1> HIDE DEF devices
<1>3. CASE g = "Raw"
  BY <1>3 DEF RustGranularity
<1>4. CASE g = "Aggregated"
  <2> DEFINE to == [k \in DOMAIN people |-> Rounded(people[k], One \div 10)]
  <2>1. w \in Replacements(to)
    BY <1>4 DEF RustGranularity, people
  <2>2. DOMAIN w = DOMAIN people
    BY <2>1, ReplacementsKeep
  <2> QED BY <1>1, <1>4, <2>2
<1>5. CASE g = "Anonymised"
  <2> DEFINE to == [k \in DOMAIN devices |->
                      Rounded(devices[k], IF k \in Position THEN One \div 100 ELSE One)]
  <2>1. w \in Replacements(to)
    BY <1>5 DEF RustGranularity, people, devices
  <2>2. /\ DOMAIN w = DOMAIN devices
        /\ \A k \in DOMAIN devices :
             w[k] \in Rounded(devices[k], IF k \in Position THEN One \div 100 ELSE One)
    BY <2>1, ReplacementsKeep
  <2>3. \A k \in DOMAIN w \cap Position : w[k] \in Rounded(fields[k], One \div 100)
    BY <1>1, <1>2, <2>2
  <2> QED BY <1>1, <1>2, <1>5, <2>2, <2>3
<1>6. CASE g = "PerTripScore"
  <2>1. \E m \in TripScores(fields) : w = [k \in {"trip_score"} |-> Number(m)]
    BY <1>6 DEF RustGranularity
  <2>2. DOMAIN w = {"trip_score"}
    BY <2>1
  <2> QED BY <1>6, <2>2
<1> QED BY <1>3, <1>4, <1>5, <1>6

-----------------------------------------------------------------------------
(* The last answer.  Each view in it is one the local gateway computes,    *)
(* without raising, for the category the manifest has at that position.    *)
CategoryIn(m, i, r) == CHOOSE c \in Matching(m[i], r.type) : TRUE

Served(m, i, r, v) ==
  /\ i \in DOMAIN m /\ Matching(m[i], r.type) # {}
  /\ LET c == CategoryIn(m, i, r) IN
     /\ ~LocalRaises(LocalFilter(r.fields, c), c.granularity)
     /\ v \in LocalGranularity(LocalFilter(r.fields, c), c.granularity)

(* Everybody who may be served is, or nobody when a view raised.           *)
Entitled(m, gone, r) ==
  {i \in DOMAIN m : m[i].id \notin gone /\ Matching(m[i], r.type) # {}}

AnswerHolds(a, state) ==
  /\ a.record \in Records /\ state \in State
  /\ \A i \in DOMAIN a.views : Served(state.manifest, i, a.record, a.views[i])
  /\ \/ DOMAIN a.views = Entitled(state.manifest, a.revoked, a.record)
     \/ DOMAIN a.views = {} /\ Unblurrable(state.manifest, a.record)

AnswerInv ==
  answer # NoAnswer =>
    answer.sess \in Sessions /\ AnswerHolds(answer, sessions[answer.sess])

(* A category of a manifest is one of those the assumption is about.       *)
LEMMA CategoryFacts ==
  ASSUME LocalAssumption, NEW m \in Manifests, NEW i \in DOMAIN m, NEW r,
         Matching(m[i], r.type) # {}
  PROVE  IsCategory(CategoryIn(m, i, r))
<1>1. CategoryIn(m, i, r) \in Matching(m[i], r.type)
  BY DEF CategoryIn
<1>2. \A c \in Matching(m[i], r.type) : \E n \in DOMAIN m[i].categories : c = m[i].categories[n]
  BY DEF Matching
<1>3. \A n \in DOMAIN m[i].categories : IsCategory(m[i].categories[n])
  BY DEF LocalAssumption
<1> QED BY <1>1, <1>2, <1>3

(* Both gateways take the first category of a type.                        *)
LEMMA MatchingIsRusts ==
  ASSUME LocalAssumption, NEW m \in Manifests, NEW i \in DOMAIN m, NEW type
  PROVE  /\ \A n \in RustCategory(m[i], type) : Matching(m[i], type) = {m[i].categories[n]}
         /\ Matching(m[i], type) # {} => RustCategory(m[i], type) # {}
<1> DEFINE d == m[i].categories
           all == {n \in DOMAIN d : d[n].type = type}
<1>1. DOMAIN d \subseteq Nat
  BY DEF LocalAssumption
<1>2. RustCategory(m[i], type) = {k \in all : \A j \in all : k <= j}
  BY <1>1 DEF RustCategory
<1>3. Matching(m[i], type) = {d[n] : n \in {k \in all : \A j \in all : k <= j}}
  BY DEF Matching
<1>4. \A n \in all, k \in all : n <= k /\ k <= n => n = k
  BY <1>1
<1> HIDE DEF all, d
<1>5. Matching(m[i], type) = {d[n] : n \in RustCategory(m[i], type)}
  BY <1>2, <1>3
<1>6. \A n, k \in RustCategory(m[i], type) : n = k
  BY <1>2, <1>4
<1> HIDE DEF RustCategory
<1> QED BY <1>5, <1>6, Zenon DEF d

(* What raises cannot be blurred.                                          *)
LEMMA RaisesUnblurred ==
  ASSUME LocalAssumption, NEW m \in Manifests, NEW i \in DOMAIN m, NEW r \in Records,
         Matching(m[i], r.type) # {},
         LocalRaises(LocalFilter(r.fields, CategoryIn(m, i, r)), CategoryIn(m, i, r).granularity)
  PROVE  Unblurrable(m, r)
<1> DEFINE c == CategoryIn(m, i, r)
           lf == LocalFilter(r.fields, c)
<1>1. PICK n \in RustCategory(m[i], r.type) : Matching(m[i], r.type) = {m[i].categories[n]}
  BY MatchingIsRusts
<1>2. c = m[i].categories[n]
  BY <1>1 DEF CategoryIn
<1>3. IsCategory(c)
  BY CategoryFacts
<1>4. LocalRaises(lf, c.granularity)
  OBVIOUS
<1> HIDE DEF c
<1>5. /\ DOMAIN lf \subseteq DOMAIN r.fields
      /\ \A k \in DOMAIN lf : lf[k] = r.fields[k]
  BY <1>3, FiltersAgree
<1> HIDE DEF lf
<1>6. c.granularity = "Anonymised"
  BY <1>4 DEF LocalRaises
<1>7. \E k \in DOMAIN r.fields \cap (Position \cup {"speed_mps"}) : ~IsNumber(r.fields[k])
  BY <1>4, <1>5 DEF LocalRaises
<1> QED BY <1>1, <1>2, <1>6, <1>7 DEF Unblurrable

(* A step leaves the manifest of a running session alone.                  *)
LEMMA ManifestStays ==
  ASSUME LogInv, LogInv', [Next]_localVars, NEW z \in Sessions, sessions[z] \in State
  PROVE  sessions'[z] \in State /\ sessions'[z].manifest = sessions[z].manifest
<1>1. sessions \in [Sessions -> State \cup {None}] /\ sessions'[z] \in State \cup {None}
  BY DEF LogInv, TypeInv
<1>2. sessions[z].started
  BY <1>1, StartedIsState
<1> SUFFICES sessions'[z].started /\ sessions'[z].manifest = sessions[z].manifest
  BY <1>1, StartedIsState
<1>3. CASE UNCHANGED localVars
  BY <1>2, <1>3 DEF localVars
<1>4. ASSUME NEW s \in Sessions, NEW m \in Manifests, StartSession(s, m)
      PROVE  sessions'[z].started /\ sessions'[z].manifest = sessions[z].manifest
  BY <1>1, <1>2, <1>4 DEF StartSession
<1>5. ASSUME NEW s \in Sessions, NEW r \in Records, ProcessRecord(s, r)
      PROVE  sessions'[z].started /\ sessions'[z].manifest = sessions[z].manifest
  <2> DEFINE x == sessions[s]
             held == Withheld(x, r)
             sent == DOMAIN x.manifest \ held
             new == [x EXCEPT !.generated = @ + 1,
                              !.transmitted = @ + Cardinality(sent),
                              !.blocked = @ + Cardinality(held),
                              !.sentTo = CountFor(@, x.manifest, sent),
                              !.blockedFor = CountFor(@, x.manifest, held)]
  <2>1. sessions' = [sessions EXCEPT ![s] = new] /\ x.started
    BY <1>5 DEF ProcessRecord, Active
  <2>2. x \in State
    BY <1>1, <2>1, StartedIsState
  <2> HIDE DEF x, held, sent
  <2>3. new.started = x.started /\ new.manifest = x.manifest
    BY <2>2 DEF State
  <2> HIDE DEF new
  <2> QED BY <1>1, <1>2, <2>1, <2>3 DEF x
<1>6. ASSUME NEW s \in Sessions, NEW r \in Records, ProcessRaises(s, r)
      PROVE  sessions'[z].started /\ sessions'[z].manifest = sessions[z].manifest
  <2>1. \E g, to, for :
          sessions' = [sessions EXCEPT ![s].generated = g, ![s].sentTo = to, ![s].blockedFor = for]
    BY <1>1, <1>6 DEF ProcessRaises
  <2> QED BY <1>1, <1>2, <2>1 DEF State
<1>7. ASSUME NEW s \in Sessions, EndSession(s)
      PROVE  sessions'[z].started /\ sessions'[z].manifest = sessions[z].manifest
  BY <1>1, <1>2, <1>7 DEF EndSession, State
<1>8. ASSUME NEW s \in Sessions, NEW x \in Stakeholders, RevokeConsent(s, x)
      PROVE  sessions'[z].started /\ sessions'[z].manifest = sessions[z].manifest
  BY <1>1, <1>2, <1>8 DEF RevokeConsent, State
<1>9. CASE Next
  BY <1>4, <1>5, <1>6, <1>7, <1>8, <1>9 DEF Next
<1> QED BY <1>3, <1>9

LEMMA ServedNow ==
  ASSUME LogInv, NEW s \in Sessions, NEW r \in Records, ProcessRecord(s, r)
  PROVE  /\ answer'.sess = s /\ answer'.record = r
         /\ DOMAIN answer'.views = Entitled(sessions[s].manifest, answer'.revoked, r)
         /\ \A i \in DOMAIN answer'.views : Served(sessions[s].manifest, i, r, answer'.views[i])
<1> DEFINE state == sessions[s]
           sent == DOMAIN state.manifest \ Withheld(state, r)
           to == [i \in sent |-> ViewsOf(state, i, r)]
<1>1. /\ RaisesAt(state, r) = {}
      /\ \E views \in Replacements(to) :
           answer' = [sess |-> s, record |-> r, revoked |-> state.revoked, views |-> views]
  BY DEF ProcessRecord
<1>2. /\ answer'.sess = s /\ answer'.record = r /\ answer'.revoked = state.revoked
      /\ answer'.views \in Replacements(to)
  BY <1>1
<1>3. DOMAIN answer'.views = sent /\ \A i \in sent : answer'.views[i] \in ViewsOf(state, i, r)
  BY <1>2, ReplacementsKeep
<1>4. ASSUME NEW i \in sent PROVE Served(state.manifest, i, r, answer'.views[i])
  <2>1. i \in DOMAIN state.manifest /\ Matching(state.manifest[i], r.type) # {}
    BY DEF Withheld
  <2>2. CategoryOf(state, i, r) = CategoryIn(state.manifest, i, r)
    BY DEF CategoryOf, CategoryIn
  <2>3. ~LocalRaises(LocalFilter(r.fields, CategoryOf(state, i, r)),
                     CategoryOf(state, i, r).granularity)
    BY <1>1 DEF RaisesAt
  <2>4. answer'.views[i] \in LocalGranularity(LocalFilter(r.fields, CategoryOf(state, i, r)),
                                              CategoryOf(state, i, r).granularity)
    BY <1>3 DEF ViewsOf
  <2> QED BY <2>1, <2>2, <2>3, <2>4 DEF Served
<1>5. sent = Entitled(state.manifest, state.revoked, r)
  BY DEF Withheld, Entitled
<1> QED BY <1>2, <1>3, <1>4, <1>5

(* Nobody is served when a view raises.                                    *)
LEMMA NobodyServed ==
  ASSUME LocalAssumption, LogInv, NEW s \in Sessions, NEW r \in Records, ProcessRaises(s, r)
  PROVE  /\ answer'.sess = s /\ answer'.record = r /\ DOMAIN answer'.views = {}
         /\ Unblurrable(sessions[s].manifest, r)
<1> DEFINE state == sessions[s]
<1>1. /\ RaisesAt(state, r) # {} /\ state.started
      /\ answer' = [sess |-> s, record |-> r, revoked |-> state.revoked, views |-> <<>>]
  BY DEF ProcessRaises, Active
<1>2. answer'.sess = s /\ answer'.record = r /\ answer'.views = <<>>
  BY <1>1
<1>3. state \in State \cup {None}
  BY DEF LogInv, TypeInv
<1>4. state.manifest \in Manifests
  BY <1>1, <1>3, StartedIsState, StateCounts
<1>5. PICK i \in RaisesAt(state, r) : TRUE
  BY <1>1
<1>6. i \in DOMAIN state.manifest /\ Matching(state.manifest[i], r.type) # {}
  BY <1>5 DEF RaisesAt, Withheld
<1>7. CategoryOf(state, i, r) = CategoryIn(state.manifest, i, r)
  BY DEF CategoryOf, CategoryIn
<1>8. LocalRaises(LocalFilter(r.fields, CategoryOf(state, i, r)),
                  CategoryOf(state, i, r).granularity)
  BY <1>5 DEF RaisesAt
<1>9. Unblurrable(state.manifest, r)
  BY <1>4, <1>6, <1>7, <1>8, RaisesUnblurred
<1> QED BY <1>2, <1>9

LEMMA AnswerNext ==
  ASSUME LocalAssumption, LogInv, LogInv', AnswerInv, [Next]_localVars
  PROVE  AnswerInv'
<1>1. ASSUME answer' = answer PROVE AnswerInv'
  <2> SUFFICES ASSUME answer # NoAnswer
               PROVE  answer.sess \in Sessions /\ AnswerHolds(answer, sessions'[answer.sess])
    BY <1>1 DEF AnswerInv
  <2> DEFINE old == sessions[answer.sess]
             new == sessions'[answer.sess]
  <2>1. answer.sess \in Sessions /\ AnswerHolds(answer, old)
    BY DEF AnswerInv
  <2>2. new \in State /\ new.manifest = old.manifest
    BY <2>1, ManifestStays DEF AnswerHolds
  <2> HIDE DEF old, new
  <2>3. AnswerHolds(answer, new)
    BY <2>1, <2>2 DEF AnswerHolds
  <2> QED BY <2>1, <2>3 DEF new
<1>2. ASSUME NEW s \in Sessions, NEW r \in Records, ProcessRecord(s, r) \/ ProcessRaises(s, r)
      PROVE  AnswerInv'
  <2> DEFINE old == sessions[s]
             new == sessions'[s]
             a == answer'
  <2>1. old \in State
    <3>1. old \in State \cup {None} /\ old.started
      BY <1>2 DEF LogInv, TypeInv, ProcessRecord, ProcessRaises, Active
    <3> QED BY <3>1, StartedIsState
  <2>2. new \in State /\ new.manifest = old.manifest
    BY <2>1, ManifestStays
  <2>3. /\ a.sess = s /\ a.record = r
        /\ \A i \in DOMAIN a.views : Served(old.manifest, i, r, a.views[i])
        /\ \/ DOMAIN a.views = Entitled(old.manifest, a.revoked, r)
           \/ DOMAIN a.views = {} /\ Unblurrable(old.manifest, r)
    <3>1. CASE ProcessRecord(s, r)
      BY <3>1, ServedNow
    <3>2. CASE ProcessRaises(s, r)
      BY <3>2, NobodyServed
    <3> QED BY <1>2, <3>1, <3>2
  <2> HIDE DEF old, new, a
  <2>4. AnswerHolds(a, new)
    BY <2>2, <2>3 DEF AnswerHolds
  <2> QED BY <2>3, <2>4 DEF AnswerInv, a, new
<1>3. \/ answer' = answer
      \/ \E s \in Sessions : \E r \in Records : ProcessRecord(s, r) \/ ProcessRaises(s, r)
  BY DEF Next, localVars, StartSession, EndSession, RevokeConsent
<1> QED BY <1>1, <1>2, <1>3

LEMMA AnswerInvariant == Spec => [](LogInv /\ AnswerInv)
<1>1. Init => AnswerInv
  BY DEF Init, AnswerInv
<1>2. LogInv /\ LogInv' /\ AnswerInv /\ [Next]_localVars => AnswerInv'
  BY AnswerNext, LocalAssumption
<1> QED BY <1>1, <1>2, LogInvariant, PTL DEF Spec

(* A position shown to a stakeholder whose category is anonymised is the   *)
(* centre of the cell, half a cell from the true one at most               *)
(* (local_gateway.py: _anonymise_fields).                                  *)
THEOREM AnonymisedIsBlurred == Spec => []PositionsBlurred
<1>1. LogInv /\ AnswerInv => PositionsBlurred
  <2> SUFFICES ASSUME LogInv, AnswerInv, answer # NoAnswer, NEW i \in DOMAIN answer.views,
                      CategoryOf(sessions[answer.sess], i, answer.record).granularity
                        = "Anonymised",
                      NEW k \in DOMAIN answer.views[i] \cap Position
               PROVE  /\ answer.views[i][k].n % Cell = Cell \div 2
                      /\ Distance(answer.views[i][k].n, answer.record.fields[k].n) <= Cell \div 2
    BY DEF PositionsBlurred
  <2> DEFINE state == sessions[answer.sess]
             r == answer.record
             v == answer.views[i]
             c == CategoryOf(state, i, r)
             lf == LocalFilter(r.fields, c)
  <2>1. /\ r \in Records /\ state \in State /\ Served(state.manifest, i, r, v)
    BY DEF AnswerInv, AnswerHolds
  <2>2. c = CategoryIn(state.manifest, i, r)
    BY DEF CategoryOf, CategoryIn
  <2>3. state.manifest \in Manifests
    BY <2>1, StateCounts
  <2> HIDE DEF state, r, v
  <2>4. /\ IsCategory(c) /\ c.granularity = "Anonymised"
        /\ v \in LocalGranularity(lf, "Anonymised") /\ k \in DOMAIN v \cap Position
    <3>1. IsCategory(c)
      <4>1. i \in DOMAIN state.manifest /\ Matching(state.manifest[i], r.type) # {}
        BY <2>1 DEF Served
      <4>2. IsCategory(CategoryIn(state.manifest, i, r))
        BY <2>3, <4>1, CategoryFacts, LocalAssumption, Zenon
      <4> QED BY <2>2, <4>2
    <3>2. c.granularity = "Anonymised" /\ k \in DOMAIN v \cap Position
      BY DEF state, r, v
    <3>3. v \in LocalGranularity(lf, c.granularity)
      BY <2>1, <2>2 DEF Served
    <3> QED BY <3>1, <3>2, <3>3
  <2> HIDE DEF c
  <2>5. \A j \in DOMAIN lf : lf[j] = r.fields[j] /\ j \in DOMAIN r.fields
    BY <2>4, FiltersAgree
  <2> HIDE DEF lf
  <2>6. /\ DOMAIN v = DOMAIN lf \ Traces
        /\ v[k] \in Centres(lf[k].n)
    BY <2>4, LocalViewFacts
  <2>7. lf[k] = r.fields[k] /\ r.fields[k] \in Values
    BY <2>1, <2>4, <2>5, <2>6, LocalAssumption DEF LocalAssumption
  <2>8. PICK m \in CellCentres(r.fields[k].n) : v[k] = Number(m)
    BY <2>6, <2>7 DEF Centres
  <2>9. r.fields[k].n \in Int
    BY <2>7 DEF Values
  <2>10. m % Cell = Cell \div 2 /\ Distance(m, r.fields[k].n) <= Cell \div 2
    BY <2>9, CentreNear
  <2>11. v[k].n = m
    BY <2>8 DEF Number
  <2> QED BY <2>10, <2>11 DEF v, r
<1> QED BY <1>1, AnswerInvariant, PTL

(* Two numbers near a third are near each other.                           *)
LEMMA DistanceAdds ==
  ASSUME NEW n \in Int, NEW a \in Int, NEW b \in Int,
         Distance(a, n) <= Cell \div 2, Distance(b, n) <= One \div 200
  PROVE  Distance(b, a) <= Cell \div 2 + One \div 200
<1>1. Cell \div 2 = 45 /\ One \div 200 = 50
  BY DEF Cell, One
<1> QED BY <1>1 DEF Distance

(* The two gateways on one record and one category.                        *)
LEMMA ViewsAgree ==
  ASSUME NEW fields, NEW c, IsCategory(c),
         \A k \in DOMAIN fields : fields[k] \in Values,
         ~LocalRaises(LocalFilter(fields, c), c.granularity),
         NEW v \in LocalGranularity(LocalFilter(fields, c), c.granularity),
         NEW w \in RustGranularity(RustFilter(fields, c), c.granularity)
  PROVE  Agree(c, v, w)
<1> DEFINE lf == LocalFilter(fields, c)
           rf == RustFilter(fields, c)
           g == c.granularity
<1>1. /\ DOMAIN rf \subseteq DOMAIN lf /\ DOMAIN lf \subseteq DOMAIN fields
      /\ \A k \in DOMAIN lf : lf[k] = fields[k]
      /\ \A k \in DOMAIN rf : rf[k] = fields[k]
  BY FiltersAgree
<1>2. g \in {"Raw", "Aggregated", "Anonymised", "PerTripScore"}
  BY DEF IsCategory
<1>3. ~LocalRaises(lf, g) /\ v \in LocalGranularity(lf, g) /\ w \in RustGranularity(rf, g)
  OBVIOUS
<1> HIDE DEF lf, rf, g
<1>4. /\ g = "Raw" => v = lf
      /\ g \in {"Aggregated", "Anonymised"} => DOMAIN v = DOMAIN lf \ Traces
      /\ g = "Anonymised" => \A k \in DOMAIN v \cap Position :
           v[k] \in Centres(lf[k].n)
  BY <1>2, <1>3, LocalViewFacts
<1>5. /\ g = "Raw" => w = rf
      /\ g \in {"Aggregated", "Anonymised"} => DOMAIN w \subseteq DOMAIN rf
      /\ g = "Anonymised" => \A k \in DOMAIN w \cap Position :
           w[k] \in Rounded(rf[k], One \div 100)
      /\ g = "PerTripScore" => DOMAIN w = {"trip_score"}
  BY <1>2, <1>3, RustViewFacts
<1>6. DOMAIN w \subseteq DOMAIN v \cup {"trip_score"} \cup Traces
  BY <1>1, <1>2, <1>4, <1>5
<1>7. ASSUME NEW k \in DOMAIN w \cap DOMAIN v, g = "Raw"
      PROVE  w[k] = v[k]
  BY <1>1, <1>4, <1>5, <1>7
<1>8. ASSUME NEW k \in DOMAIN w \cap DOMAIN v, g = "Anonymised", k \in Position
      PROVE  Distance(w[k].n, v[k].n) <= Cell \div 2 + One \div 200
  <2>1. k \in DOMAIN lf /\ k \in DOMAIN rf /\ fields[k] \in Values
        /\ lf[k] = fields[k] /\ rf[k] = fields[k]
    BY <1>1, <1>4, <1>5, <1>8
  <2>2. IsNumber(fields[k])
    BY <1>3, <1>8, <2>1 DEF LocalRaises
  <2> DEFINE n == fields[k].n
  <2>3. n \in Int
    BY <2>1 DEF Values
  <2>4. PICK a \in CellCentres(n) : v[k] = Number(a)
    BY <1>4, <1>8, <2>1 DEF Centres
  <2>5. w[k] \in Rounded(fields[k], One \div 100)
    BY <1>5, <1>8, <2>1
  <2>6. PICK b \in NearestMean(n, 1, One \div 100) : w[k] = Number(b)
    BY <2>2, <2>5 DEF Rounded
  <2>7. v[k].n = a /\ w[k].n = b
    BY <2>4, <2>6 DEF Number
  <2> HIDE DEF n
  <2>8. a \in Int /\ Distance(a, n) <= Cell \div 2
    BY <2>3, <2>4, CentreNear
  <2>9. b \in Int /\ Distance(b, n) <= One \div 200
    BY <2>3, <2>6, HalfStepNear
  <2>10. Distance(b, a) <= Cell \div 2 + One \div 200
    BY <2>3, <2>8, <2>9, DistanceAdds
  <2> QED BY <2>7, <2>10
<1> QED BY <1>6, <1>7, <1>8 DEF Agree, g

(* Whoever the Rust gateway would serve is served by the local one, in a   *)
(* view that agrees with Rust's, unless the record cannot be blurred for   *)
(* somebody, when nobody is; and only those outside the jurisdictions are  *)
(* served by the local one alone (local_gateway.py: process_record,        *)
(* against manifest/mod.rs: evaluate).                                     *)
THEOREM LocalCoversRust == Spec => []CoversRust
<1>1. LogInv /\ AnswerInv => CoversRust
  <2> SUFFICES ASSUME LogInv, AnswerInv, answer # NoAnswer PROVE CoversRust
    BY DEF CoversRust
  <2> DEFINE m == sessions[answer.sess].manifest
             r == answer.record
             gone == answer.revoked
             views == answer.views
             served == DOMAIN views
             audience == RustAudience(m, gone, r)
  <2>1. /\ r \in Records /\ m \in Manifests
        /\ \A i \in served : Served(m, i, r, views[i])
        /\ served = Entitled(m, gone, r) \/ (served = {} /\ Unblurrable(m, r))
    BY StateCounts DEF AnswerInv, AnswerHolds
  <2> HIDE DEF m, r, gone, views
  <2>2. ASSUME NEW i \in DOMAIN m
        PROVE  /\ \A n \in RustCategory(m[i], r.type) :
                    /\ Matching(m[i], r.type) = {m[i].categories[n]}
                    /\ CategoryIn(m, i, r) = m[i].categories[n]
               /\ Matching(m[i], r.type) # {} => RustCategory(m[i], r.type) # {}
    <3>1. /\ \A n \in RustCategory(m[i], r.type) : Matching(m[i], r.type) = {m[i].categories[n]}
          /\ Matching(m[i], r.type) # {} => RustCategory(m[i], r.type) # {}
      BY <2>1, MatchingIsRusts, LocalAssumption
    <3> QED BY <3>1 DEF CategoryIn
  <2>3. audience \subseteq Entitled(m, gone, r)
    BY <2>2 DEF RustAudience, Entitled
  <2>4. ASSUME NEW i \in served \ audience
        PROVE  \E n \in RustCategory(m[i], r.type) :
                 m[i].endpoint \notin m[i].categories[n].jurisdictions
    <3>1. i \in Entitled(m, gone, r)
      BY <2>1
    <3>2. i \in DOMAIN m /\ m[i].id \notin gone /\ RustCategory(m[i], r.type) # {}
      BY <2>2, <3>1 DEF Entitled
    <3> QED BY <3>2 DEF RustAudience
  <2>5. ASSUME NEW i \in served \cap audience, NEW n \in RustCategory(m[i], r.type),
               NEW w \in RustViews(m[i].categories[n], r)
        PROVE  Agree(m[i].categories[n], views[i], w)
    <3> DEFINE c == m[i].categories[n]
               v == views[i]
    <3>1. Served(m, i, r, v)
      BY <2>1
    <3>2. i \in DOMAIN m /\ c = CategoryIn(m, i, r)
      BY <2>2, <3>1 DEF Served
    <3>3. w \in RustGranularity(RustFilter(r.fields, c), c.granularity)
      BY DEF RustViews
    <3> HIDE DEF c, v
    <3>4. /\ IsCategory(c) /\ ~LocalRaises(LocalFilter(r.fields, c), c.granularity)
          /\ v \in LocalGranularity(LocalFilter(r.fields, c), c.granularity)
      BY <2>1, <3>1, <3>2, CategoryFacts, LocalAssumption DEF Served
    <3>5. \A k \in DOMAIN r.fields : r.fields[k] \in Values
      BY <2>1, LocalAssumption DEF LocalAssumption
    <3>6. Agree(c, v, w)
      BY <3>3, <3>4, <3>5, ViewsAgree
    <3> QED BY <3>6 DEF c, v
  <2>6. audience \subseteq served \/ (served = {} /\ Unblurrable(m, r))
    BY <2>1, <2>3
  <2> HIDE DEF served, audience
  <2> QED BY <2>4, <2>5, <2>6 DEF CoversRust, served, audience, m, r, gone, views
<1> QED BY <1>1, AnswerInvariant, PTL

-----------------------------------------------------------------------------
(* A family of sets that has a set whenever it has those below it has      *)
(* every finite one; and so has one that grows element by element.         *)
LEMMA FiniteDescent ==
  ASSUME NEW S, IsFiniteSet(S), NEW Good,
         \A A \in SUBSET S : (\A B \in SUBSET A : B # A => B \in Good) => A \in Good
  PROVE  S \in Good
<1> SUFFICES ASSUME S \notin Good PROVE FALSE
  OBVIOUS
<1> DEFINE Bad == {A \in SUBSET S : A \notin Good}
<1>1. Bad \subseteq FiniteSubsetsOf(S) /\ Bad # {}
  BY FS_Subset DEF FiniteSubsetsOf
<1>2. PICK A \in Bad : \A B \in Bad : <<B, A>> \notin StrictSubsetOrdering(S)
  <2> HIDE DEF Bad
  <2> QED BY <1>1, WFMin, FS_StrictSubsetOrderingWellFounded
<1>3. PICK B \in SUBSET A : B # A /\ B \notin Good
  BY <1>2
<1>4. <<B, A>> \in StrictSubsetOrdering(S)
  BY <1>2, <1>3 DEF StrictSubsetOrdering
<1> QED BY <1>2, <1>3, <1>4

LEMMA FiniteGrowth ==
  ASSUME NEW S, IsFiniteSet(S), NEW Good, {} \in Good,
         \A A \in SUBSET S : \A a \in S \ A : A \in Good => A \cup {a} \in Good
  PROVE  S \in Good
<1>1. ASSUME NEW A \in SUBSET S, \A B \in SUBSET A : B # A => B \in Good, A # {}
      PROVE  A \in Good
  <2>1. PICK a \in A : TRUE
    BY <1>1
  <2>2. A \ {a} \in Good /\ a \in S \ (A \ {a}) /\ (A \ {a}) \cup {a} = A
    BY <1>1, <2>1
  <2> QED BY <2>2
<1>2. \A A \in SUBSET S : (\A B \in SUBSET A : B # A => B \in Good) => A \in Good
  BY <1>1
<1> QED BY <1>2, FiniteDescent

-----------------------------------------------------------------------------
(* A sum counts pairs: of each member as many as its term.                 *)
Pairs(f, A) == UNION {{x} \X (1 .. f[x]) : x \in A}

LEMMA PairsEmpty ==
  ASSUME NEW f
  PROVE  Pairs(f, {}) = {} /\ IsFiniteSet(Pairs(f, {})) /\ Cardinality(Pairs(f, {})) = 0
<1>1. Pairs(f, {}) = {}
  BY DEF Pairs
<1> QED BY <1>1, FS_EmptySet

(* One column of pairs has as many as its height.                          *)
LEMMA ColumnSize ==
  ASSUME NEW x, NEW k \in Nat
  PROVE  IsFiniteSet({x} \X (1 .. k)) /\ Cardinality({x} \X (1 .. k)) = k
<1>1. IsFiniteSet(1 .. k) /\ Cardinality(1 .. k) = k
  BY FS_Interval
<1> DEFINE f == [i \in 1 .. k |-> <<x, i>>]
           C == {x} \X (1 .. k)
<1>2. f \in Bijection(1 .. k, C)
  <2>1. f \in [1 .. k -> C]
    OBVIOUS
  <2>2. \A i, j \in 1 .. k : f[i] = f[j] => i = j
    OBVIOUS
  <2>3. \A c \in C : \E i \in 1 .. k : f[i] = c
    OBVIOUS
  <2> HIDE DEF f, C
  <2> QED BY <2>1, <2>2, <2>3 DEF Bijection, Injection, Surjection, IsInjective
<1> HIDE DEF f, C
<1>3. ExistsBijection(1 .. k, C)
  BY <1>2 DEF ExistsBijection
<1> QED BY <1>1, <1>3, FS_Bijection DEF C

LEMMA PairsAdd ==
  ASSUME NEW f, NEW A, NEW a, a \notin A, f[a] \in Nat, IsFiniteSet(Pairs(f, A))
  PROVE  /\ IsFiniteSet(Pairs(f, A \cup {a}))
         /\ Cardinality(Pairs(f, A)) \in Nat
         /\ Cardinality(Pairs(f, A \cup {a})) = Cardinality(Pairs(f, A)) + f[a]
<1> DEFINE C == {a} \X (1 .. f[a])
           P == Pairs(f, A)
<1>1. Pairs(f, A \cup {a}) = P \cup C
  BY DEF Pairs
<1>2. P \cap C = {}
  BY DEF Pairs
<1>3. IsFiniteSet(C) /\ Cardinality(C) = f[a]
  BY ColumnSize
<1> HIDE DEF P, C
<1>4. IsFiniteSet(P \cup C)
      /\ Cardinality(P \cup C) = Cardinality(P) + Cardinality(C) - Cardinality(P \cap C)
  BY <1>3, FS_Union DEF P
<1>5. Cardinality(P \cap C) = 0 /\ Cardinality(P) \in Nat
  BY <1>2, FS_EmptySet, FS_CardinalityType DEF P
<1>6. Cardinality(P \cup C) = Cardinality(P) + f[a]
  BY <1>3, <1>4, <1>5
<1> QED BY <1>1, <1>4, <1>5, <1>6 DEF P

LEMMA PairsFinite ==
  ASSUME NEW S, IsFiniteSet(S), NEW f, \A x \in S : f[x] \in Nat, NEW A \in SUBSET S
  PROVE  IsFiniteSet(Pairs(f, A)) /\ Cardinality(Pairs(f, A)) \in Nat
<1> DEFINE Good == {B \in SUBSET S : IsFiniteSet(Pairs(f, B))}
<1>1. {} \in Good
  BY PairsEmpty
<1>2. ASSUME NEW B \in SUBSET S, NEW a \in S \ B, B \in Good PROVE B \cup {a} \in Good
  BY <1>2, PairsAdd
<1>3. S \in Good
  <2> HIDE DEF Good
  <2> QED BY <1>1, <1>2, FiniteGrowth
<1>4. Pairs(f, A) \subseteq Pairs(f, S)
  BY DEF Pairs
<1> QED BY <1>3, <1>4, FS_Subset, FS_CardinalityType

-----------------------------------------------------------------------------
Step(f, s, h) ==
  IF s = {} THEN 0 ELSE f[CHOOSE x \in s : TRUE] + h[s \ {CHOOSE x \in s : TRUE}]

Sums(f, S, h) == h = [s \in SUBSET S |-> Step(f, s, h)]

LEMMA SumUnfold ==
  ASSUME NEW f, NEW S
  PROVE  SumFunctionOnSet(f, S) = (CHOOSE h : Sums(f, S, h))[S]
BY Zenon DEF SumFunctionOnSet, FoldFunctionOnSet, MapThenFoldSet, Sums, Step

(* The sum of a function over a finite set is the number of its pairs.     *)
LEMMA SumIsPairs ==
  ASSUME NEW S, IsFiniteSet(S), NEW f, \A x \in S : f[x] \in Nat
  PROVE  SumFunctionOnSet(f, S) = Cardinality(Pairs(f, S))
<1> DEFINE size(s) == Cardinality(Pairs(f, s))
<1>1. ASSUME NEW s \in SUBSET S, NEW x \in s
      PROVE  size(s) = f[x] + size(s \ {x})
  <2>1. f[x] \in Nat /\ x \notin s \ {x} /\ s = (s \ {x}) \cup {x}
    BY <1>1
  <2>2. IsFiniteSet(Pairs(f, s \ {x})) /\ size(s \ {x}) \in Nat
    BY PairsFinite
  <2>3. size((s \ {x}) \cup {x}) = size(s \ {x}) + f[x]
    BY <2>1, <2>2, PairsAdd
  <2> DEFINE B == s \ {x}
  <2>4. B \cup {x} = s
    BY <2>1
  <2>5. size(B) \in Nat /\ size(B \cup {x}) = size(B) + f[x]
    BY <2>2, <2>3
  <2> HIDE DEF size, B
  <2>6. size(s) = size(B) + f[x]
    BY <2>4, <2>5, Zenon
  <2>7. size(s) = f[x] + size(B)
    BY <2>1, <2>5, <2>6
  <2> QED BY <2>7 DEF B
<1>2. size({}) = 0
  BY PairsEmpty
<1> HIDE DEF size
<1>3. \E h : Sums(f, S, h)
  <2> DEFINE g == [s \in SUBSET S |-> size(s)]
  <2>1. ASSUME NEW s \in SUBSET S PROVE g[s] = Step(f, s, g)
    <3>1. CASE s = {}
      BY <1>2, <3>1 DEF Step
    <3>2. CASE s # {}
      <4> DEFINE x == CHOOSE y \in s : TRUE
      <4>1. x \in s
        BY <3>2
      <4> HIDE DEF x
      <4>2. g[s] = size(s) /\ g[s \ {x}] = size(s \ {x})
        OBVIOUS
      <4> HIDE DEF g
      <4>3. g[s] = f[x] + g[s \ {x}]
        BY <1>1, <4>1, <4>2
      <4> QED BY <3>2, <4>3 DEF Step, x
    <3> QED BY <3>1, <3>2
  <2>2. g = [s \in SUBSET S |-> Step(f, s, g)]
    <3>1. DOMAIN g = SUBSET S /\ g = [s \in DOMAIN g |-> g[s]]
      OBVIOUS
    <3> HIDE DEF g
    <3> QED BY <2>1, <3>1
  <2> HIDE DEF g
  <2> QED BY <2>2 DEF Sums
<1> DEFINE h == CHOOSE k : Sums(f, S, k)
<1>4. Sums(f, S, h)
  BY <1>3
<1>5. SumFunctionOnSet(f, S) = h[S]
  BY SumUnfold
<1> HIDE DEF h
<1>6. \A s \in SUBSET S : h[s] = Step(f, s, h)
  BY <1>4 DEF Sums
<1> DEFINE Good == {A \in SUBSET S : h[A] = size(A)}
<1>7. ASSUME NEW A \in SUBSET S, \A B \in SUBSET A : B # A => B \in Good
      PROVE  A \in Good
  <2>1. CASE A = {}
    BY <1>2, <1>6, <2>1 DEF Step
  <2>2. CASE A # {}
    <3> DEFINE x == CHOOSE y \in A : TRUE
    <3>1. x \in A
      BY <2>2
    <3>2. h[A] = f[x] + h[A \ {x}]
      BY <1>6, <2>2 DEF Step
    <3> HIDE DEF x
    <3>3. A \ {x} \in Good
      BY <1>7, <3>1
    <3> QED BY <1>1, <3>1, <3>2, <3>3
  <2> QED BY <2>1, <2>2
<1>8. S \in Good
  <2> HIDE DEF Good
  <2> QED BY <1>7, FiniteDescent
<1> QED BY <1>5, <1>8 DEF size
-----------------------------------------------------------------------------
(* What sums of naturals over finite sets obey.                            *)
LEMMA SumNat ==
  ASSUME NEW S, IsFiniteSet(S), NEW f, \A x \in S : f[x] \in Nat, NEW A \in SUBSET S
  PROVE  IsFiniteSet(A) /\ SumFunctionOnSet(f, A) \in Nat
<1>1. IsFiniteSet(A) /\ \A x \in A : f[x] \in Nat
  BY FS_Subset
<1> QED BY <1>1, SumIsPairs, PairsFinite

LEMMA SumEmpty ==
  ASSUME NEW f
  PROVE  SumFunctionOnSet(f, {}) = 0
BY SumIsPairs, PairsEmpty, FS_EmptySet

LEMMA SumAdd ==
  ASSUME NEW A, NEW a, IsFiniteSet(A), a \notin A, NEW f, \A x \in A \cup {a} : f[x] \in Nat
  PROVE  SumFunctionOnSet(f, A \cup {a}) = SumFunctionOnSet(f, A) + f[a]
<1>1. IsFiniteSet(A \cup {a})
  BY FS_AddElement
<1>2. /\ SumFunctionOnSet(f, A) = Cardinality(Pairs(f, A))
      /\ SumFunctionOnSet(f, A \cup {a}) = Cardinality(Pairs(f, A \cup {a}))
  BY <1>1, SumIsPairs
<1>3. Cardinality(Pairs(f, A \cup {a})) = Cardinality(Pairs(f, A)) + f[a]
  BY PairsFinite, PairsAdd
<1> QED BY <1>2, <1>3

LEMMA SumGrow ==
  ASSUME NEW S, IsFiniteSet(S), NEW f, \A x \in S : f[x] \in Nat, NEW A \in SUBSET S,
         NEW a \in S \ A
  PROVE  /\ SumFunctionOnSet(f, A) \in Nat
         /\ SumFunctionOnSet(f, A \cup {a}) = SumFunctionOnSet(f, A) + f[a]
<1>1. IsFiniteSet(A) /\ a \notin A /\ SumFunctionOnSet(f, A) \in Nat
  BY SumNat
<1>2. \A x \in A \cup {a} : f[x] \in Nat
  OBVIOUS
<1> QED BY <1>1, <1>2, SumAdd

(* Terms that agree have the same sum, and terms that are 0 add nothing.   *)
LEMMA SumSame ==
  ASSUME NEW S, IsFiniteSet(S), NEW A \in SUBSET S, NEW f, NEW g,
         \A x \in S : f[x] \in Nat /\ g[x] = (IF x \in A THEN f[x] ELSE 0)
  PROVE  SumFunctionOnSet(f, A) = SumFunctionOnSet(g, S)
<1>1. IsFiniteSet(A)
  BY FS_Subset
<1>2. \A x \in S : g[x] \in Nat
  OBVIOUS
<1>3. Pairs(f, A) = Pairs(g, S)
  BY DEF Pairs
<1> QED BY <1>1, <1>2, <1>3, SumIsPairs

LEMMA SumPlus ==
  ASSUME NEW S, IsFiniteSet(S), NEW f, NEW g, NEW h,
         \A x \in S : f[x] \in Nat /\ g[x] \in Nat /\ h[x] = f[x] + g[x]
  PROVE  SumFunctionOnSet(h, S) = SumFunctionOnSet(f, S) + SumFunctionOnSet(g, S)
<1> DEFINE F(A) == SumFunctionOnSet(f, A)
           G(A) == SumFunctionOnSet(g, A)
           H(A) == SumFunctionOnSet(h, A)
           Good == {A \in SUBSET S : H(A) = F(A) + G(A)}
<1>1. {} \in Good
  BY SumEmpty
<1>2. ASSUME NEW A \in SUBSET S, NEW a \in S \ A, A \in Good PROVE A \cup {a} \in Good
  <2>1. /\ \A x \in A \cup {a} : f[x] \in Nat /\ g[x] \in Nat /\ h[x] \in Nat
        /\ h[a] = f[a] + g[a] /\ a \notin A
    OBVIOUS
  <2>2. IsFiniteSet(A) /\ F(A) \in Nat /\ G(A) \in Nat
    BY SumNat
  <2>3. /\ F(A \cup {a}) = F(A) + f[a] /\ G(A \cup {a}) = G(A) + g[a]
        /\ H(A \cup {a}) = H(A) + h[a]
    BY <2>1, <2>2, SumAdd
  <2>4. H(A) = F(A) + G(A)
    BY <1>2
  <2> HIDE DEF F, G, H
  <2> QED BY <2>1, <2>2, <2>3, <2>4
<1> HIDE DEF Good
<1>3. S \in Good
  BY <1>1, <1>2, FiniteGrowth
<1> QED BY <1>3 DEF Good

LEMMA SumBound ==
  ASSUME NEW S, IsFiniteSet(S), NEW f, NEW c \in Nat,
         \A x \in S : f[x] \in Nat /\ f[x] <= c
  PROVE  SumFunctionOnSet(f, S) <= Cardinality(S) * c
<1> DEFINE F(A) == SumFunctionOnSet(f, A)
           Good == {A \in SUBSET S : F(A) <= Cardinality(A) * c}
<1>1. {} \in Good
  BY SumEmpty, FS_EmptySet
<1>2. ASSUME NEW A \in SUBSET S, NEW a \in S \ A, A \in Good PROVE A \cup {a} \in Good
  <2>1. (\A x \in A \cup {a} : f[x] \in Nat) /\ f[a] \in Nat /\ f[a] <= c /\ a \notin A
    OBVIOUS
  <2>2. IsFiniteSet(A) /\ F(A) \in Nat
    BY SumNat
  <2>3. F(A \cup {a}) = F(A) + f[a]
    BY <2>1, <2>2, SumAdd
  <2>4. Cardinality(A) \in Nat /\ Cardinality(A \cup {a}) = Cardinality(A) + 1
    BY <2>1, <2>2, FS_AddElement, FS_CardinalityType
  <2>5. F(A) <= Cardinality(A) * c
    BY <1>2
  <2>6. \A p \in Nat : (p + 1) * c = p * c + c /\ p * c \in Nat
    OBVIOUS
  <2> HIDE DEF F
  <2>7. F(A \cup {a}) <= Cardinality(A \cup {a}) * c
    BY <2>1, <2>2, <2>3, <2>4, <2>5, <2>6
  <2> QED BY <2>7 DEF F
<1> HIDE DEF Good
<1>3. S \in Good
  BY <1>1, <1>2, FiniteGrowth
<1> QED BY <1>3 DEF Good
LEMMA SumUnion ==
  ASSUME NEW A, NEW B, IsFiniteSet(A), IsFiniteSet(B), A \cap B = {},
         NEW f, \A x \in A \cup B : f[x] \in Nat
  PROVE  SumFunctionOnSet(f, A \cup B) = SumFunctionOnSet(f, A) + SumFunctionOnSet(f, B)
<1> DEFINE S == A \cup B
           g == [x \in S |-> IF x \in A THEN f[x] ELSE 0]
           h == [x \in S |-> IF x \in B THEN f[x] ELSE 0]
<1>1. IsFiniteSet(S) /\ A \in SUBSET S /\ B \in SUBSET S
  BY FS_Union
<1>2. \A x \in S : /\ f[x] \in Nat /\ g[x] \in Nat /\ h[x] \in Nat /\ f[x] = g[x] + h[x]
                   /\ g[x] = (IF x \in A THEN f[x] ELSE 0)
                   /\ h[x] = (IF x \in B THEN f[x] ELSE 0)
  OBVIOUS
<1> HIDE DEF S, g, h
<1>3. SumFunctionOnSet(f, A) = SumFunctionOnSet(g, S)
  BY <1>1, <1>2, SumSame
<1>4. SumFunctionOnSet(f, B) = SumFunctionOnSet(h, S)
  BY <1>1, <1>2, SumSame
<1>5. SumFunctionOnSet(f, S) = SumFunctionOnSet(g, S) + SumFunctionOnSet(h, S)
  BY <1>1, <1>2, SumPlus
<1> QED BY <1>3, <1>4, <1>5 DEF S

LEMMA SumOnes ==
  ASSUME NEW S, IsFiniteSet(S), NEW f, \A x \in S : f[x] = 1
  PROVE  SumFunctionOnSet(f, S) = Cardinality(S)
<1> DEFINE Good == {A \in SUBSET S : SumFunctionOnSet(f, A) = Cardinality(A)}
<1>1. {} \in Good
  BY SumEmpty, FS_EmptySet
<1>2. ASSUME NEW A \in SUBSET S, NEW a \in S \ A, A \in Good PROVE A \cup {a} \in Good
  <2>1. (\A x \in A \cup {a} : f[x] \in Nat) /\ f[a] = 1 /\ a \notin A
    OBVIOUS
  <2>2. IsFiniteSet(A)
    BY FS_Subset
  <2> QED BY <1>2, <2>1, <2>2, SumAdd, FS_AddElement
<1> HIDE DEF Good
<1>3. S \in Good
  BY <1>1, <1>2, FiniteGrowth
<1> QED BY <1>3 DEF Good

(* A sum may be taken key by key.                                          *)
ByKey(f, S, key, g, T) == \A t \in T : g[t] = SumFunctionOnSet(f, {x \in S : key[x] = t})

LEMMA SumByKey ==
  ASSUME NEW S, IsFiniteSet(S), NEW T, IsFiniteSet(T),
         NEW f, \A x \in S : f[x] \in Nat, NEW key, \A x \in S : key[x] \in T,
         NEW g, ByKey(f, S, key, g, T)
  PROVE  SumFunctionOnSet(g, T) = SumFunctionOnSet(f, S)
<1> DEFINE under(A) == {x \in S : key[x] \in A}
           having(t) == {x \in S : key[x] = t}
           Good == {A \in SUBSET T : SumFunctionOnSet(g, A) = SumFunctionOnSet(f, under(A))}
<1>1. {} \in Good
  <2>1. under({}) = {}
    OBVIOUS
  <2> QED BY <2>1, SumEmpty
<1>2. \A t \in T : having(t) \in SUBSET S /\ IsFiniteSet(having(t)) /\ g[t] \in Nat
                  /\ g[t] = SumFunctionOnSet(f, having(t))
  BY SumNat DEF ByKey
<1>3. ASSUME NEW A \in SUBSET T, NEW a \in T \ A, A \in Good PROVE A \cup {a} \in Good
  <2>1. under(A \cup {a}) = under(A) \cup having(a) /\ under(A) \cap having(a) = {}
    OBVIOUS
  <2>2. /\ IsFiniteSet(under(A)) /\ IsFiniteSet(having(a)) /\ IsFiniteSet(A)
        /\ \A x \in under(A) \cup having(a) : f[x] \in Nat
    BY <1>2, FS_Subset
  <2>3. (\A x \in A \cup {a} : g[x] \in Nat) /\ a \notin A
    BY <1>2
  <2>4. SumFunctionOnSet(g, A) = SumFunctionOnSet(f, under(A))
    BY <1>3
  <2>5. SumFunctionOnSet(g, A \cup {a}) = SumFunctionOnSet(g, A) + g[a]
    BY <2>2, <2>3, SumAdd
  <2>6. g[a] = SumFunctionOnSet(f, having(a))
    BY <1>2
  <2> HIDE DEF under, having
  <2>7. SumFunctionOnSet(f, under(A) \cup having(a))
          = SumFunctionOnSet(f, under(A)) + SumFunctionOnSet(f, having(a))
    BY <2>1, <2>2, SumUnion
  <2>8. SumFunctionOnSet(g, A \cup {a}) = SumFunctionOnSet(f, under(A \cup {a}))
    BY <2>1, <2>4, <2>5, <2>6, <2>7
  <2> QED BY <2>8
<1> HIDE DEF Good
<1>4. T \in Good
  BY <1>1, <1>3, FiniteGrowth
<1>5. under(T) = S
  OBVIOUS
<1> QED BY <1>4, <1>5 DEF Good

(* Rows first or columns first.                                            *)
RowSums(g, rows, S, T) == \A x \in S : g[x] = SumFunctionOnSet(rows[x], T)

LEMMA SumSwap ==
  ASSUME NEW S, IsFiniteSet(S), NEW T, IsFiniteSet(T),
         NEW row, NEW column,
         \A x \in S : \A y \in T : row[x][y] \in Nat /\ column[y][x] = row[x][y],
         NEW g, RowSums(g, row, S, T), NEW h, RowSums(h, column, T, S)
  PROVE  SumFunctionOnSet(g, S) = SumFunctionOnSet(h, T)
<1> DEFINE part(A) == [y \in T |-> SumFunctionOnSet(column[y], A)]
           Good == {A \in SUBSET S : SumFunctionOnSet(g, A) = SumFunctionOnSet(part(A), T)}
<1>0. \A x \in S : g[x] \in Nat
  BY SumNat DEF RowSums
<1>1. {} \in Good
  <2> DEFINE p == part({})
  <2>1. \A y \in T : p[y] = 0
    BY SumEmpty
  <2> HIDE DEF p
  <2>2. SumFunctionOnSet(p, T) = 0
    <3>1. {} \in SUBSET T
      OBVIOUS
    <3>2. SumFunctionOnSet(p, {}) = SumFunctionOnSet(p, T)
      <4>1. \A y \in T : p[y] \in Nat /\ p[y] = (IF y \in {} THEN p[y] ELSE 0)
        BY <2>1
      <4> QED BY <3>1, <4>1, SumSame
    <3> QED BY <3>2, SumEmpty
  <2> QED BY <2>2, SumEmpty DEF p
<1>2. ASSUME NEW A \in SUBSET S, NEW a \in S \ A, A \in Good PROVE A \cup {a} \in Good
  <2>2. SumFunctionOnSet(g, A \cup {a}) = SumFunctionOnSet(g, A) + g[a]
    BY <1>0, SumGrow
  <2> DEFINE p == part(A)
             q == part(A \cup {a})
             r == row[a]
  <2>3. ASSUME NEW y \in T PROVE p[y] \in Nat /\ r[y] \in Nat /\ q[y] = p[y] + r[y]
    <3> DEFINE c == column[y]
    <3>1. \A x \in S : c[x] \in Nat
      OBVIOUS
    <3> HIDE DEF c
    <3>2. /\ SumFunctionOnSet(c, A) \in Nat
          /\ SumFunctionOnSet(c, A \cup {a}) = SumFunctionOnSet(c, A) + c[a]
      BY <3>1, SumGrow
    <3>4. c[a] = r[y]
      BY DEF c
    <3> QED BY <3>1, <3>2, <3>4 DEF c
  <2>4. SumFunctionOnSet(g, A) = SumFunctionOnSet(p, T) /\ g[a] = SumFunctionOnSet(r, T)
    BY <1>2 DEF RowSums
  <2> HIDE DEF p, q, r
  <2>5. SumFunctionOnSet(q, T) = SumFunctionOnSet(p, T) + SumFunctionOnSet(r, T)
    BY <2>3, SumPlus
  <2>6. SumFunctionOnSet(g, A \cup {a}) = SumFunctionOnSet(q, T)
    BY <2>2, <2>4, <2>5
  <2> QED BY <2>6 DEF q
<1> HIDE DEF Good
<1>3. S \in Good
  BY <1>1, <1>2, FiniteGrowth
<1> DEFINE p == part(S)
<1>4. \A y \in T : h[y] = p[y] /\ h[y] \in Nat
  BY SumNat DEF RowSums
<1>5. SumFunctionOnSet(g, S) = SumFunctionOnSet(p, T)
  BY <1>3 DEF Good
<1> HIDE DEF p
<1>6. SumFunctionOnSet(h, T) = SumFunctionOnSet(p, T)
  <2>1. \A y \in T : h[y] \in Nat /\ p[y] = (IF y \in T THEN h[y] ELSE 0)
    BY <1>4
  <2> QED BY <2>1, SumSame
<1> QED BY <1>5, <1>6

-----------------------------------------------------------------------------
(* The three programs.  Whatever a command does to the gateway, it does by *)
(* the gateway's operations, on its session and its records.               *)
processVars == <<process, localVars, analyserVars, cliVars>>

ProcessNext == Sessionwise \/ Analyserwise \/ Commandwise

ControlInv ==
  /\ at \in {"load", "connect", "start", "setup", "run", "send", "end", "summary",
             "analyse", "report", "done", "crashed"}
  /\ loaded \in Manifests \cup {NoManifest}
  /\ at \notin {"load", "crashed"} => loaded \in Manifests
  /\ mine \in Sessions \cup {None}
  /\ at \in {"setup", "run", "send", "end", "summary"} => mine \in Sessions
  /\ turn \in Nat /\ batch \in Seq(Records) /\ handed \in Seq(Records)
  /\ at = "send" => batch # <<>>

(* The n-th of what is due exists, so a vehicle's records are a list.      *)
LEMMA GeneratedOK ==
  ASSUME NEW step
  PROVE  Generated(step) \in Seq(Records)
<1> DEFINE D == Due(step)
           upto(i) == {j \in D : j <= i}
           rank == [i \in D |-> Cardinality(upto(i))]
           N == Cardinality(D)
<1>1. Len(Schedule) \in Nat /\ D \subseteq 1 .. Len(Schedule)
  BY CliAssumption DEF Due
<1>3. \A i \in D : Schedule[i].record \in Records
  <2> DEFINE E == [record : Records, first : Nat, every : Nat \ {0}]
  <2>0. Schedule \in Seq(E)
    BY CliAssumption
  <2>2. \A e \in E : e.record \in Records
    OBVIOUS
  <2> HIDE DEF E
  <2>1. \A i \in 1 .. Len(Schedule) : Schedule[i] \in E
    BY <2>0, ElementOfSeq
  <2> QED BY <1>1, <2>1, <2>2
<1>2. IsFiniteSet(D)
  <2>1. IsFiniteSet(1 .. Len(Schedule))
    BY <1>1, FS_Interval
  <2> QED BY <1>1, <2>1, FS_Subset
<1> HIDE DEF D
<1>4. N \in Nat
  BY <1>2, FS_CardinalityType
<1>5. \A i \in D : IsFiniteSet(upto(i)) /\ Cardinality(upto(i)) \in 1 .. N
  <2> SUFFICES ASSUME NEW i \in D PROVE IsFiniteSet(upto(i)) /\ Cardinality(upto(i)) \in 1 .. N
    OBVIOUS
  <2>1. i <= i /\ i \in upto(i)
    BY <1>1
  <2>2. upto(i) \subseteq D
    OBVIOUS
  <2> HIDE DEF upto
  <2>3. IsFiniteSet(upto(i)) /\ Cardinality(upto(i)) <= N
    BY <1>2, <2>2, FS_Subset
  <2>4. Cardinality(upto(i)) \in Nat /\ Cardinality(upto(i)) # 0
    BY <2>1, <2>3, FS_CardinalityType, FS_EmptySet
  <2> QED BY <1>4, <2>3, <2>4
<1>6. \A i, j \in D : i < j => Cardinality(upto(i)) # Cardinality(upto(j))
  <2> SUFFICES ASSUME NEW i \in D, NEW j \in D, i < j
               PROVE  Cardinality(upto(i)) # Cardinality(upto(j))
    OBVIOUS
  <2>0. D \subseteq Int /\ i \in Int /\ j \in Int
    BY <1>1
  <2>1. j \in upto(j) /\ j \notin upto(i) /\ upto(i) \subseteq upto(j)
    <3>1. j <= j /\ ~(j <= i) /\ \A k \in D : k <= i => k <= j
      BY <2>0
    <3> QED BY <3>1
  <2>2. IsFiniteSet(upto(j))
    BY <1>5
  <2> HIDE DEF upto
  <2>3. Cardinality(upto(i)) = Cardinality(upto(j)) => upto(i) = upto(j)
    BY <2>1, <2>2, FS_Subset
  <2> QED BY <2>1, <2>3
<1>7. rank \in Injection(D, 1 .. N)
  <2>1. rank \in [D -> 1 .. N]
    BY <1>5
  <2>2. \A i, j \in D : rank[i] = rank[j] => i = j
    <3> SUFFICES ASSUME NEW i \in D, NEW j \in D, rank[i] = rank[j] PROVE i = j
      OBVIOUS
    <3>1. i \in Int /\ j \in Int /\ ~(i < j) /\ ~(j < i)
      BY <1>1, <1>6
    <3> QED BY <3>1
  <2>3. DOMAIN rank = D
    OBVIOUS
  <2> HIDE DEF rank
  <2> QED BY <2>1, <2>2, <2>3 DEF Injection, IsInjective
<1>8. IsFiniteSet(1 .. N) /\ Cardinality(1 .. N) = N
  BY <1>4, FS_Interval
<1>9. rank \in Surjection(D, 1 .. N)
  <2> HIDE DEF rank
  <2> QED BY <1>2, <1>7, <1>8, FS_Injection
<1>10. \A n \in 1 .. N : \E i \in D : Cardinality(upto(i)) = n
  <2>1. \A n \in 1 .. N : \E i \in D : rank[i] = n
    <3> HIDE DEF rank
    <3> QED BY <1>9 DEF Surjection
  <2> QED BY <2>1
<1>11. \A n \in 1 .. N : (CHOOSE i \in D : Cardinality(upto(i)) = n) \in D
  BY <1>10
<1>12. Generated(step) =
         [n \in 1 .. N |-> Schedule[CHOOSE i \in D : Cardinality(upto(i)) = n].record]
  BY DEF Generated, D
<1> DEFINE nth(n) == CHOOSE i \in D : Cardinality(upto(i)) = n
           list == [n \in 1 .. N |-> Schedule[nth(n)].record]
<1>13. \A n \in 1 .. N : nth(n) \in D
  BY <1>11
<1> HIDE DEF upto, N, nth
<1>14. list \in [1 .. N -> Records]
  BY <1>3, <1>13
<1>15. list \in Seq(Records)
  <2> HIDE DEF list
  <2> QED BY <1>4, <1>14, SeqDef
<1> QED BY <1>12, <1>15 DEF nth

LEMMA RestOfBatch ==
  ASSUME NEW b \in Seq(Records), b # <<>>
  PROVE  /\ Head(b) \in Records /\ Tail(b) \in Seq(Records) /\ Len(b) \in Nat
         /\ Len(Tail(b)) = Len(b) - 1 /\ Len(b) > 0 /\ Head(b) = b[1]
         /\ \A i \in 1 .. Len(Tail(b)) : Tail(b)[i] = b[i + 1]
         /\ Len(b) # 1 => Tail(b) # <<>>
         /\ Len(b) = 1 => Tail(b) = <<>>
<1>1. /\ Len(b) \in Nat /\ Len(b) # 0 /\ Head(b) = b[1]
      /\ Tail(b) \in Seq(Records) /\ Len(Tail(b)) = Len(b) - 1
      /\ \A i \in 1 .. Len(Tail(b)) : Tail(b)[i] = b[i + 1]
  BY EmptySeq
<1>2. 1 \in 1 .. Len(b)
  BY <1>1
<1>3. b[1] \in Records
  BY <1>2, ElementOfSeq
<1>4. Tail(b) = <<>> <=> Len(Tail(b)) = 0
  BY <1>1, EmptySeq
<1> QED BY <1>1, <1>3, <1>4

LEMMA ControlNext ==
  ASSUME ControlInv, [ProcessNext]_processVars
  PROVE  ControlInv'
<1> USE DEF ControlInv
<1>1. ASSUME UNCHANGED cliVars PROVE ControlInv'
  BY <1>1 DEF cliVars
<1>2. CASE Load
  <2>1. handed' \in Seq(Records)
    <3>1. handed' = handed \/ handed' \in Analyses \/ handed' = <<>>
      BY <1>2 DEF Load
    <3>2. Analyses \subseteq Seq(Records) /\ <<>> \in Seq(Records)
      BY ResidueAssumption
    <3> QED BY <3>1, <3>2
  <2> QED BY <1>2, <2>1 DEF Load, Crash
<1>3. CASE Connect
  BY <1>3 DEF Connect, Adapter, Crash
<1>4. CASE SetUp
  BY <1>4 DEF SetUp, Adapter, Crash
<1>5. CASE Start
  BY <1>5 DEF Start
<1>6. CASE Deliver
  <2>1. batch' \in Seq(Records) /\ batch' # <<>>
    BY <1>6, CliAssumption DEF Deliver
  <2>2. handed' \in Seq(Records)
    BY <1>6, <2>1 DEF Deliver
  <2> QED BY <1>6, <2>1, <2>2 DEF Deliver
<1>7. CASE Generate
  <2>1. batch' \in Seq(Records)
    BY <1>7, GeneratedOK DEF Generate
  <2>2. handed' \in Seq(Records)
    BY <1>7, <2>1 DEF Generate, Extended
  <2> QED BY <1>7, <2>1, <2>2 DEF Generate
<1>8. CASE Send
  <2>1. Tail(batch) \in Seq(Records) /\ (Len(batch) # 1 => Tail(batch) # <<>>)
    BY <1>8, RestOfBatch DEF Send
  <2>2. /\ at' \in {"run", "send", "crashed"} /\ (at' = "send" => Len(batch) # 1)
        /\ batch' = Tail(batch)
        /\ UNCHANGED <<loaded, mine, turn, handed>> /\ at = "send"
    BY <1>8 DEF Send, Crash
  <2> QED BY <2>1, <2>2
<1>9. CASE RunEnds
  BY <1>9 DEF RunEnds, Adapter, Crash
<1>10. CASE End
  BY <1>10 DEF End
<1>11. CASE Summarise
  BY <1>11 DEF Summarise
<1>12. CASE Analyse
  BY <1>12 DEF Analyse, Crash
<1>13. CASE WriteReport
  BY <1>13 DEF WriteReport, Crash
<1>14. \/ UNCHANGED cliVars \/ CliNext
  BY DEF ProcessNext, processVars, Sessionwise, Analyserwise, Commandwise
<1> QED BY <1>1, <1>2, <1>3, <1>4, <1>5, <1>6, <1>7, <1>8, <1>9, <1>10, <1>11, <1>12, <1>13,
           <1>14 DEF CliNext

LEMMA ControlInit == ProcessInit => ControlInv
BY DEF ProcessInit, CliInit, ControlInv

LEMMA ControlHolds == ProcessSpec => []ControlInv
<1>1. ControlInv /\ [ProcessNext]_processVars => ControlInv'
  BY ControlNext
<1>2. ProcessSpec => ProcessInit /\ [][ProcessNext]_processVars
  BY PTL DEF ProcessSpec, ProcessNext, processVars
<1> QED BY <1>1, <1>2, ControlInit, PTL

LEMMA StepOfGateway ==
  ASSUME ControlInv, [ProcessNext]_processVars
  PROVE  [Next]_localVars
<1>1. CASE Start
  <2>1. loaded \in Manifests /\ \E s \in Sessions : StartSession(s, loaded)
    BY <1>1 DEF Start, ControlInv
  <2> QED BY <2>1 DEF Next
<1>2. CASE Send
  <2>1. mine \in Sessions /\ Head(batch) \in Records
    BY <1>2, RestOfBatch DEF Send, ControlInv
  <2>2. ProcessRecord(mine, Head(batch)) \/ ProcessRaises(mine, Head(batch))
    BY <1>2 DEF Send
  <2> QED BY <2>1, <2>2 DEF Next
<1>3. CASE End
  BY <1>3 DEF End, ControlInv, Next
<1>4. ASSUME CliNext, ~Start, ~Send, ~End PROVE UNCHANGED localVars
  BY <1>4 DEF CliNext, Load, Connect, SetUp, Adapter, Deliver, Generate, RunEnds, Summarise,
              Analyse, WriteReport, GatewayRests
<1> QED BY <1>1, <1>2, <1>3, <1>4
        DEF ProcessNext, processVars, Sessionwise, Analyserwise, Commandwise

(* The commands, the analyser and the sessions use the gateway only as its *)
(* specification says, so what is proved of it holds in all of them        *)
(* (cli.py, gateway_client.py, data_residue.py).                           *)
THEOREM ProgramsDriveGateway == ProcessSpec => Spec
<1>1. ProcessInit => Init
  BY DEF ProcessInit
<1>2. ControlInv /\ [ProcessNext]_processVars => [Next]_localVars
  BY StepOfGateway
<1>3. ProcessSpec => ProcessInit /\ [][ProcessNext]_processVars
  BY PTL DEF ProcessSpec, ProcessNext, processVars
<1> QED BY <1>1, <1>2, <1>3, ControlHolds, PTL DEF Spec

-----------------------------------------------------------------------------
(* The views again: there is one wherever computing it does not raise, and *)
(* it has values for the fields of the record, or for a score.             *)
LEMMA NearestExists ==
  ASSUME NEW n \in Int, NEW step \in {One \div 10, 5 * One}
  PROVE  NearestMean(n, 1, step) # {} /\ NearestMean(n, 1, step) \subseteq Int
<1>1. step \in Nat /\ step > 0
  BY DEF One
<1> DEFINE q == (n \div 1) \div step
           p == q * step
<1>2. n \div 1 = n
  OBVIOUS
<1>3. q \in Int /\ p \in Int /\ n - p >= 0 /\ n - p <= step
  <2>1. step = 1000 \/ step = 50000
    BY DEF One
  <2>2. CASE step = 1000
    <3>1. /\ n = 1000 * (n \div 1000) + (n % 1000)
          /\ n \div 1000 \in Int /\ n % 1000 >= 0 /\ n % 1000 < 1000
      OBVIOUS
    <3>2. q = n \div 1000 /\ p = (n \div 1000) * 1000
      BY <1>2, <2>2
    <3> HIDE DEF q, p
    <3> QED BY <2>2, <3>1, <3>2
  <2>3. CASE step = 50000
    <3>1. /\ n = 50000 * (n \div 50000) + (n % 50000)
          /\ n \div 50000 \in Int /\ n % 50000 >= 0 /\ n % 50000 < 50000
      OBVIOUS
    <3>2. q = n \div 50000 /\ p = (n \div 50000) * 50000
      BY <1>2, <2>3
    <3> HIDE DEF q, p
    <3> QED BY <2>3, <3>1, <3>2
  <2> QED BY <2>1, <2>2, <2>3
<1>4. NearestMean(n, 1, step) = {m \in {p, p + step} : 2 * Distance(m * 1, n) <= step * 1}
  BY DEF NearestMean
<1> HIDE DEF q, p
<1>5. 2 * Distance(p * 1, n) <= step * 1 \/ 2 * Distance((p + step) * 1, n) <= step * 1
  BY <1>1, <1>3 DEF Distance
<1>6. p \in NearestMean(n, 1, step) \/ p + step \in NearestMean(n, 1, step)
  BY <1>4, <1>5
<1>7. NearestMean(n, 1, step) \subseteq {p, p + step} /\ p + step \in Int
  BY <1>1, <1>3, <1>4
<1> QED BY <1>3, <1>6, <1>7

LEMMA RoundedOK ==
  ASSUME NEW v \in Values, NEW step \in {One \div 10, 5 * One}
  PROVE  Rounded(v, step) # {} /\ Rounded(v, step) \subseteq Values
<1>1. v.n \in Int
  BY DEF Values
<1>2. NearestMean(v.n, 1, step) # {} /\ NearestMean(v.n, 1, step) \subseteq Int
  BY <1>1, NearestExists
<1>3. \A m \in Int : Number(m) \in Values
  BY DEF Number, Values
<1> QED BY <1>2, <1>3 DEF Rounded

LEMMA AnonymisedOK ==
  ASSUME NEW v \in Values, NEW k
  PROVE  LocalAnonymised(k, v) # {} /\ LocalAnonymised(k, v) \subseteq Values
<1>1. v.n \in Int
  BY DEF Values
<1>2. \A m \in Int : Number(m) \in Values
  BY DEF Number, Values
<1>3. CellCentres(v.n) # {} /\ CellCentres(v.n) \subseteq Int
  <2>1. CellCentres(v.n) \subseteq Int
    BY <1>1, CentreNear
  <2> QED BY <2>1 DEF CellCentres
<1>4. CASE k \in Position
  <2>1. LocalAnonymised(k, v) = Centres(v.n)
    BY <1>4 DEF LocalAnonymised, Position, Centres
  <2> QED BY <1>2, <1>3, <2>1 DEF Centres
<1>5. CASE k \notin Position /\ k = "speed_mps"
  <2>1. LocalAnonymised(k, v) = Rounded(v, 5 * One)
    BY <1>5 DEF LocalAnonymised
  <2> QED BY <2>1, RoundedOK
<1>6. CASE k \notin Position /\ k # "speed_mps"
  <2>1. LocalAnonymised(k, v) = {v}
    BY <1>6 DEF LocalAnonymised
  <2> QED BY <2>1
<1> QED BY <1>4, <1>5, <1>6

LEMMA ReplacementsOK ==
  ASSUME NEW to, NEW V, \A k \in DOMAIN to : to[k] # {} /\ to[k] \subseteq V
  PROVE  /\ Replacements(to) # {}
         /\ \A f \in Replacements(to) :
              DOMAIN f = DOMAIN to /\ \A k \in DOMAIN f : f[k] \in V
<1> DEFINE pick == [k \in DOMAIN to |-> CHOOSE x \in to[k] : TRUE]
<1>1. \A k \in DOMAIN to : pick[k] \in to[k]
  OBVIOUS
<1>2. pick \in [DOMAIN to -> UNION {to[k] : k \in DOMAIN to}]
  BY <1>1
<1>3. pick \in Replacements(to)
  BY <1>1, <1>2 DEF Replacements
<1> QED BY <1>3, ReplacementsKeep

LEMMA LocalViewsOK ==
  ASSUME NEW fields, \A k \in DOMAIN fields : fields[k] \in Values,
         NEW g \in {"Raw", "Aggregated", "Anonymised", "PerTripScore"}
  PROVE  /\ LocalGranularity(fields, g) # {}
         /\ \A v \in LocalGranularity(fields, g) :
              /\ DOMAIN v \subseteq DOMAIN fields \cup {"score"}
              /\ \A k \in DOMAIN v : v[k] \in Values
<1> DEFINE names == DOMAIN fields \ Traces
           kept == Only(fields, names)
<1>1. /\ DOMAIN kept \subseteq DOMAIN fields
      /\ \A k \in DOMAIN kept : kept[k] \in Values
  <2> HIDE DEF names
  <2>1. /\ DOMAIN kept = DOMAIN fields \cap names
        /\ \A k \in DOMAIN fields \cap names : kept[k] = fields[k]
    BY DEF Only
  <2> HIDE DEF kept
  <2> QED BY <2>1
<1> HIDE DEF kept
<1>2. CASE g = "Raw"
  BY <1>2 DEF LocalGranularity
<1>3. CASE g = "Aggregated"
  <2> DEFINE to == [k \in DOMAIN kept |-> Rounded(kept[k], One \div 10)]
  <2>1. LocalGranularity(fields, g) = Replacements(to)
    BY <1>3 DEF LocalGranularity, kept
  <2>2. DOMAIN to = DOMAIN kept /\ \A k \in DOMAIN to : to[k] # {} /\ to[k] \subseteq Values
    BY <1>1, RoundedOK
  <2> HIDE DEF to
  <2> QED BY <1>1, <2>1, <2>2, ReplacementsOK
<1>4. CASE g = "Anonymised"
  <2> DEFINE to == [k \in DOMAIN kept |-> LocalAnonymised(k, kept[k])]
  <2>1. LocalGranularity(fields, g) = Replacements(to)
    BY <1>4 DEF LocalGranularity, kept
  <2>2. DOMAIN to = DOMAIN kept /\ \A k \in DOMAIN to : to[k] # {} /\ to[k] \subseteq Values
    BY <1>1, AnonymisedOK
  <2> HIDE DEF to
  <2> QED BY <1>1, <2>1, <2>2, ReplacementsOK
<1>5. CASE g = "PerTripScore"
  <2> DEFINE w == [k \in (DOMAIN fields \cap ScoreFields) \cup {"score"} |->
                     IF k \in DOMAIN fields THEN fields[k] ELSE Number(0)]
  <2>1. LocalGranularity(fields, g) = {w}
    BY <1>5 DEF LocalGranularity
  <2>2. Number(0) \in Values
    BY DEF Number, Values
  <2>3. DOMAIN w \subseteq DOMAIN fields \cup {"score"} /\ \A k \in DOMAIN w : w[k] \in Values
    BY <2>2
  <2> HIDE DEF w
  <2> QED BY <2>1, <2>3
<1> QED BY <1>2, <1>3, <1>4, <1>5

(* Types of the gateway: what it keeps of a session and what it answers.   *)
LEMMA ServedIsTyped ==
  ASSUME NEW m \in Manifests, NEW i, NEW r \in Records, NEW v, Served(m, i, r, v)
  PROVE  DOMAIN v \subseteq DOMAIN r.fields \cup {"score"} /\ \A k \in DOMAIN v : v[k] \in Values
<1> DEFINE c == CategoryIn(m, i, r)
           f == LocalFilter(r.fields, c)
           g == c.granularity
<1>1. IsCategory(c)
  BY LocalAssumption, CategoryFacts DEF Served
<1>2. v \in LocalGranularity(f, g)
  BY DEF Served
<1> HIDE DEF c
<1>3. DOMAIN f \subseteq DOMAIN r.fields /\ \A k \in DOMAIN f : f[k] = r.fields[k]
  BY <1>1, FiltersAgree
<1>4. \A k \in DOMAIN r.fields : r.fields[k] \in Values
  BY LocalAssumption
<1>5. g \in {"Raw", "Aggregated", "Anonymised", "PerTripScore"}
  BY <1>1 DEF IsCategory
<1> HIDE DEF f, g
<1>6. \A k \in DOMAIN f : f[k] \in Values
  BY <1>3, <1>4
<1>7. DOMAIN v \subseteq DOMAIN f \cup {"score"} /\ \A k \in DOMAIN v : v[k] \in Values
  BY <1>2, <1>5, <1>6, LocalViewsOK
<1> QED BY <1>3, <1>7

LEMMA GatewayTyped ==
  ASSUME LogInv, AnswerInv
  PROVE  TypeOK
<1>1. sessions \in [Sessions -> State \cup {None}] /\ audit \in Seq(Rows)
      /\ raised \in [Sessions -> Nat] /\ RowsHold
  BY DEF LogInv, TypeInv
<1>2. ASSUME NEW s \in Sessions, sessions[s].started
      PROVE  /\ sessions[s].manifest \in Manifests
             /\ sessions[s].revoked \subseteq Stakeholders
             /\ \A count \in {"generated", "transmitted", "blocked"} : sessions[s][count] \in Nat
             /\ \A x \in Stakeholders :
                  sessions[s].sentTo[x] \in Nat /\ sessions[s].blockedFor[x] \in Nat
  <2>1. sessions[s] \in State
    BY <1>1, <1>2, StartedIsState
  <2> DEFINE x == sessions[s]
  <2> HIDE DEF x
  <2>2. x \in State
    BY <2>1 DEF x
  <2>3. /\ x.generated \in Nat /\ x.transmitted \in Nat /\ x.blocked \in Nat
        /\ x.manifest \in Manifests /\ x.revoked \subseteq Stakeholders
        /\ x.sentTo \in [Stakeholders -> Nat] /\ x.blockedFor \in [Stakeholders -> Nat]
    BY <2>2, StateCounts
  <2>4. \A count \in {"generated", "transmitted", "blocked"} : x[count] \in Nat
    BY <2>3
  <2> QED BY <2>3, <2>4 DEF x
<1>3. \A i \in DOMAIN audit : audit[i].sess \in Sessions /\ sessions[audit[i].sess].started
  <2> SUFFICES ASSUME NEW i \in 1 .. Len(audit)
               PROVE  audit[i].sess \in Sessions /\ sessions[audit[i].sess].started
    BY <1>1
  <2>1. audit[i] \in Rows
    BY <1>1, ElementOfSeq
  <2>2. audit[i].sess \in Sessions
    <3>1. \A row \in Rows : row.sess \in Sessions
      BY DEF Rows
    <3> QED BY <2>1, <3>1
  <2>3. sessions[audit[i].sess] \in State
    BY <1>1 DEF RowsHold, RowHolds
  <2> QED BY <2>2, <2>3, StartedIsState
<1>4. ASSUME answer # NoAnswer, NEW i \in DOMAIN answer.views
      PROVE  \A k \in DOMAIN answer.views[i] : answer.views[i][k] \in Values
  <2> DEFINE state == sessions[answer.sess]
  <2>1. answer.record \in Records /\ state \in State
        /\ Served(state.manifest, i, answer.record, answer.views[i])
    BY <1>4 DEF AnswerInv, AnswerHolds
  <2> HIDE DEF state
  <2>2. state.manifest \in Manifests
    BY <2>1, StateCounts
  <2> QED BY <2>1, <2>2, ServedIsTyped
<1> QED BY <1>1, <1>2, <1>3, <1>4 DEF TypeOK

-----------------------------------------------------------------------------
(* The analyser.  What it counts are sums over the records of a list, over *)
(* the recipients and over the types.                                      *)
LEMMA SumFunctionIs ==
  ASSUME NEW S, NEW f, DOMAIN f = S
  PROVE  SumFunction(f) = SumFunctionOnSet(f, S)
BY DEF SumFunction

LEMMA SumCongruent ==
  ASSUME NEW S, IsFiniteSet(S), NEW f, NEW g, \A x \in S : f[x] \in Nat /\ g[x] = f[x]
  PROVE  SumFunctionOnSet(f, S) = SumFunctionOnSet(g, S)
<1>1. S \in SUBSET S /\ \A x \in S : f[x] \in Nat /\ g[x] = (IF x \in S THEN f[x] ELSE 0)
  OBVIOUS
<1> QED BY <1>1, SumSame

LEMMA ListFacts ==
  ASSUME NEW list \in Seq(Records)
  PROVE  /\ Len(list) \in Nat /\ DOMAIN list = 1 .. Len(list)
         /\ IsFiniteSet(DOMAIN list) /\ Cardinality(DOMAIN list) = Len(list)
         /\ \A n \in DOMAIN list :
              list[n] \in Records /\ list[n].type \in Types /\ Size(list[n].fields) \in Nat
<1>1. Len(list) \in Nat /\ DOMAIN list = 1 .. Len(list)
  OBVIOUS
<1>2. \A n \in DOMAIN list : list[n] \in Records
  BY <1>1, ElementOfSeq
<1>3. \A r \in Records : r.type \in Types /\ Size(r.fields) \in Nat
  BY ResidueAssumption, FS_CardinalityType DEF Types, Size
<1>4. IsFiniteSet(1 .. Len(list)) /\ Cardinality(1 .. Len(list)) = Len(list)
  BY <1>1, FS_Interval
<1> QED BY <1>1, <1>2, <1>3, <1>4

LEMMA SizesOK ==
  ASSUME NEW list \in Seq(Records), NEW A \in SUBSET DOMAIN list
  PROVE  SizeOf(list, A) \in Nat
<1> DEFINE f == [n \in DOMAIN list |-> Size(list[n].fields)]
<1>1. IsFiniteSet(DOMAIN list) /\ \A n \in DOMAIN list : f[n] \in Nat
  BY ListFacts
<1>2. SizeOf(list, A) = SumFunctionOnSet(f, A)
  BY DEF SizeOf
<1> HIDE DEF f
<1> QED BY <1>1, <1>2, SumNat

(* The records of a list by type are all of them.                          *)
LEMMA CountsByType ==
  ASSUME NEW list \in Seq(Records),
         NEW g, \A t \in Types : g[t] = Cardinality(OfType(list, t))
  PROVE  /\ \A t \in Types : Cardinality(OfType(list, t)) \in Nat
         /\ SumFunctionOnSet(g, Types) = Len(list)
<1> DEFINE f == [n \in DOMAIN list |-> 1]
           key == [n \in DOMAIN list |-> list[n].type]
           S == DOMAIN list
<1>1. /\ IsFiniteSet(S) /\ Cardinality(S) = Len(list)
      /\ \A n \in S : f[n] \in Nat /\ f[n] = 1
      /\ \A n \in S : key[n] \in Types
  BY ListFacts
<1>2. IsFiniteSet(Types)
  BY ResidueAssumption
<1>3. ASSUME NEW t \in Types
      PROVE  /\ OfType(list, t) = {n \in S : key[n] = t}
             /\ IsFiniteSet(OfType(list, t)) /\ Cardinality(OfType(list, t)) \in Nat
             /\ \A n \in OfType(list, t) : f[n] = 1
  <2>1. OfType(list, t) = {n \in S : key[n] = t} /\ OfType(list, t) \in SUBSET S
    BY DEF OfType
  <2> HIDE DEF S, f, key
  <2> QED BY <1>1, <2>1, FS_Subset, FS_CardinalityType
<1> HIDE DEF f, key, S
<1>4. ByKey(f, S, key, g, Types)
  <2> SUFFICES ASSUME NEW t \in Types
               PROVE  g[t] = SumFunctionOnSet(f, {n \in S : key[n] = t})
    BY DEF ByKey
  <2>1. SumFunctionOnSet(f, OfType(list, t)) = Cardinality(OfType(list, t))
    BY <1>3, SumOnes
  <2> QED BY <1>3, <2>1
<1>5. SumFunctionOnSet(g, Types) = SumFunctionOnSet(f, S)
  BY <1>1, <1>2, <1>4, SumByKey
<1>6. SumFunctionOnSet(f, S) = Len(list)
  BY <1>1, SumOnes
<1> QED BY <1>3, <1>5, <1>6

(* Every entry of a manifest is one recipient's.                           *)
LEMMA CopiesOK ==
  ASSUME NEW m \in Manifests \cup {NoManifest}
  PROVE  /\ IsFiniteSet(DOMAIN m) /\ Len(m) \in Nat /\ Cardinality(DOMAIN m) = Len(m)
         /\ \A x \in Receivers : Copies(m, x) \in Nat
<1>1. Len(m) \in Nat /\ DOMAIN m = 1 .. Len(m)
  BY LocalAssumption DEF LocalAssumption, NoManifest
<1>2. IsFiniteSet(1 .. Len(m)) /\ Cardinality(1 .. Len(m)) = Len(m)
  <2>1. \A k \in Nat : IsFiniteSet(1 .. k) /\ Cardinality(1 .. k) = k
    BY FS_Interval
  <2> QED BY <1>1, <2>1
<1>3. \A x : {i \in DOMAIN m : m[i].id = x} \in SUBSET DOMAIN m
  OBVIOUS
<1> QED BY <1>1, <1>2, <1>3, FS_Subset, FS_CardinalityType DEF Copies

LEMMA IdsAreReceivers ==
  ASSUME NEW m \in Manifests, NEW i \in DOMAIN m
  PROVE  m[i].id \in Stakeholders /\ m[i].id \in Receivers
<1>1. m[i].id \in {m[j].id : j \in DOMAIN m}
  OBVIOUS
<1>2. m[i].id \in Stakeholders
  BY <1>1 DEF Stakeholders
<1> QED BY <1>2 DEF Receivers

(* What is sent of a record that does not raise: a finite set of           *)
(* positions, each with a view of some size.                               *)
LEMMA SentSizes ==
  ASSUME NEW m \in Manifests, NEW r \in Records, RaisesAt(NewState(m), r) = {}
  PROVE  /\ IsFiniteSet(SentTo(m, r)) /\ SentTo(m, r) \in SUBSET DOMAIN m
         /\ \A i \in SentTo(m, r) : SizeAt(m, i, r) \in Nat
<1> DEFINE state == NewState(m)
<1>1. SentTo(m, r) \in SUBSET DOMAIN m /\ state.manifest = m
  BY DEF SentTo, NewState
<1>2. IsFiniteSet(SentTo(m, r))
  BY <1>1, CopiesOK, FS_Subset
<1>3. ASSUME NEW i \in SentTo(m, r) PROVE SizeAt(m, i, r) \in Nat
  <2> DEFINE c == CategoryIn(m, i, r)
             f == LocalFilter(r.fields, c)
             g == c.granularity
             v == CHOOSE w \in ViewsOf(state, i, r) : TRUE
  <2> HIDE DEF state
  <2>1. i \in DOMAIN m /\ i \notin Withheld(state, r) /\ RaisesAt(state, r) = {}
    BY <1>3 DEF SentTo, state
  <2>2. Matching(m[i], r.type) # {}
    BY <1>1, <2>1 DEF Withheld
  <2>3. CategoryOf(state, i, r) = c
    BY <1>1 DEF CategoryOf, CategoryIn
  <2>4. ~LocalRaises(f, g) /\ ViewsOf(state, i, r) = LocalGranularity(f, g)
    BY <1>1, <2>1, <2>3 DEF RaisesAt, ViewsOf
  <2>5. IsCategory(c)
    BY <2>1, <2>2, LocalAssumption, CategoryFacts
  <2>6. g \in {"Raw", "Aggregated", "Anonymised", "PerTripScore"}
    BY <2>5 DEF IsCategory
  <2>7. \A k \in DOMAIN f : f[k] \in Values
    <3> HIDE DEF c
    <3>1. DOMAIN f \subseteq DOMAIN r.fields /\ \A k \in DOMAIN f : f[k] = r.fields[k]
      BY <2>5, FiltersAgree
    <3> HIDE DEF f
    <3> QED BY <3>1, LocalAssumption
  <2> HIDE DEF f, g
  <2>8. v \in LocalGranularity(f, g)
    BY <2>4, <2>6, <2>7, LocalViewsOK
  <2> HIDE DEF c, v
  <2>9. Served(m, i, r, v)
    BY <2>1, <2>2, <2>4, <2>8 DEF Served, f, g, c
  <2>10. DOMAIN v \subseteq DOMAIN r.fields \cup {"score"}
    BY <2>9, ServedIsTyped
  <2>11. IsFiniteSet(DOMAIN r.fields \cup {"score"})
    BY ResidueAssumption, FS_AddElement
  <2>12. Cardinality(DOMAIN v) \in Nat
    BY <2>10, <2>11, FS_Subset, FS_CardinalityType
  <2> QED BY <2>12 DEF SizeAt, Size, v, state
<1> QED BY <1>1, <1>2, <1>3

LEMMA SizeAllOK ==
  ASSUME NEW m \in Manifests, NEW r \in Records, RaisesAt(NewState(m), r) = {},
         NEW P \in SUBSET SentTo(m, r), NEW z, z = [i \in SentTo(m, r) |-> SizeAt(m, i, r)]
  PROVE  SizeAll(m, r, P) = SumFunctionOnSet(z, P) /\ SizeAll(m, r, P) \in Nat
<1> DEFINE y == [i \in P |-> SizeAt(m, i, r)]
           S == SentTo(m, r)
<1>1. IsFiniteSet(S) /\ \A i \in S : z[i] \in Nat
  BY SentSizes
<1>2. IsFiniteSet(P) /\ SumFunctionOnSet(z, P) \in Nat
  <2> HIDE DEF S
  <2>1. P \in SUBSET S
    BY DEF S
  <2> QED BY <1>1, <2>1, SumNat
<1>3. \A i \in P : z[i] \in Nat /\ y[i] = z[i]
  BY <1>1
<1>4. SizeAll(m, r, P) = SumFunctionOnSet(y, P)
  <2>1. DOMAIN y = P /\ SizeAll(m, r, P) = SumFunction(y)
    BY DEF SizeAll
  <2> HIDE DEF y
  <2> QED BY <2>1, SumFunctionIs
<1> HIDE DEF y, S
<1>5. SumFunctionOnSet(z, P) = SumFunctionOnSet(y, P)
  BY <1>2, <1>3, SumCongruent
<1> QED BY <1>2, <1>4, <1>5

LEMMA SentByReceiver ==
  ASSUME NEW m \in Manifests, NEW r \in Records, RaisesAt(NewState(m), r) = {},
         NEW g, \A x \in Receivers : g[x] = SizeAll(m, r, PositionsOf(m, x, r))
  PROVE  SumFunctionOnSet(g, Receivers) = SizeAll(m, r, SentTo(m, r))
<1> DEFINE S == SentTo(m, r)
           z == [i \in SentTo(m, r) |-> SizeAt(m, i, r)]
           key == [i \in S |-> m[i].id]
<1>1. /\ IsFiniteSet(S) /\ \A i \in S : z[i] \in Nat
      /\ \A i \in S : key[i] \in Receivers
  BY SentSizes, IdsAreReceivers
<1>2. IsFiniteSet(Receivers)
  BY ResidueAssumption
<1>3. \A P \in SUBSET S : SizeAll(m, r, P) = SumFunctionOnSet(z, P)
  BY SizeAllOK
<1>4. ByKey(z, S, key, g, Receivers)
  <2> SUFFICES ASSUME NEW x \in Receivers
               PROVE  g[x] = SumFunctionOnSet(z, {i \in S : key[i] = x})
    BY DEF ByKey
  <2>1. {i \in S : key[i] = x} = PositionsOf(m, x, r) /\ PositionsOf(m, x, r) \in SUBSET S
    BY DEF PositionsOf
  <2> HIDE DEF S, z, key
  <2> QED BY <1>3, <2>1
<1>5. S \in SUBSET S /\ S = SentTo(m, r)
  OBVIOUS
<1> HIDE DEF S, z, key
<1>6. SumFunctionOnSet(g, Receivers) = SumFunctionOnSet(z, S)
  BY <1>1, <1>2, <1>4, SumByKey
<1> QED BY <1>3, <1>5, <1>6

(* What an analysis with the gateway adds, by type and by recipient.       *)
Gain(list, m, t) ==
  SumFunction([n \in OfType(list, t) \cap BeforeRaise(list, m) |->
                 SizeAll(m, list[n], SentTo(m, list[n]))])
GainFor(list, m, x) ==
  SumFunction([n \in BeforeRaise(list, m) |-> SizeAll(m, list[n], PositionsOf(m, x, list[n]))])
Reaches(list, m, x) ==
  SumFunction([n \in BeforeRaise(list, m) |-> Cardinality(PositionsOf(m, x, list[n]))])

LEMMA DoneFacts ==
  ASSUME NEW list \in Seq(Records), NEW m \in Manifests
  PROVE  /\ BeforeRaise(list, m) \in SUBSET DOMAIN list /\ IsFiniteSet(BeforeRaise(list, m))
         /\ \A n \in BeforeRaise(list, m) :
              list[n] \in Records /\ RaisesAt(NewState(m), list[n]) = {}
<1>1. BeforeRaise(list, m) \in SUBSET DOMAIN list
  BY DEF BeforeRaise
<1>2. ASSUME NEW n \in BeforeRaise(list, m)
      PROVE  list[n] \in Records /\ RaisesAt(NewState(m), list[n]) = {}
  <2>1. n \in DOMAIN list /\ \A k \in 1 .. n : RaisesAt(NewState(m), list[k]) = {}
    BY DEF BeforeRaise
  <2>2. n \in 1 .. n
    BY <2>1, ListFacts
  <2> QED BY <2>1, <2>2, ListFacts
<1> QED BY <1>1, <1>2, ListFacts, FS_Subset

LEMMA SentOK ==
  ASSUME NEW list \in Seq(Records), NEW m \in Manifests, NEW n \in BeforeRaise(list, m)
  PROVE  /\ SizeAll(m, list[n], SentTo(m, list[n])) \in Nat
         /\ \A x : /\ SizeAll(m, list[n], PositionsOf(m, x, list[n])) \in Nat
                   /\ Cardinality(PositionsOf(m, x, list[n])) \in Nat
                   /\ Cardinality(PositionsOf(m, x, list[n])) <= Copies(m, x)
<1> DEFINE r == list[n]
           S == SentTo(m, r)
<1>1. r \in Records /\ RaisesAt(NewState(m), r) = {}
  BY DoneFacts
<1> HIDE DEF r
<1>2. \A P \in SUBSET S : SizeAll(m, r, P) \in Nat
  BY <1>1, SizeAllOK
<1>3. S \in SUBSET S /\ \A x : PositionsOf(m, x, r) \in SUBSET S
  BY DEF PositionsOf
<1>4. ASSUME NEW x
      PROVE  /\ Cardinality(PositionsOf(m, x, r)) \in Nat
             /\ Cardinality(PositionsOf(m, x, r)) <= Copies(m, x)
  <2> DEFINE C == {i \in DOMAIN m : m[i].id = x}
  <2>1. PositionsOf(m, x, r) \in SUBSET C /\ C \in SUBSET DOMAIN m
    BY DEF PositionsOf, SentTo
  <2>2. Copies(m, x) = Cardinality(C)
    BY DEF Copies
  <2> HIDE DEF C
  <2>3. IsFiniteSet(C)
    BY <2>1, CopiesOK, FS_Subset
  <2> QED BY <2>1, <2>2, <2>3, FS_Subset, FS_CardinalityType
<1>5. /\ SizeAll(m, r, S) \in Nat
      /\ \A x : SizeAll(m, r, PositionsOf(m, x, r)) \in Nat
  BY <1>2, <1>3
<1> HIDE DEF S
<1> QED BY <1>4, <1>5 DEF r, S

LEMMA GainsTyped ==
  ASSUME NEW list \in Seq(Records), NEW m \in Manifests
  PROVE  /\ \A t \in Types : Gain(list, m, t) \in Nat
         /\ \A x \in Receivers : /\ GainFor(list, m, x) \in Nat /\ Reaches(list, m, x) \in Nat
                                 /\ Reaches(list, m, x) <= Len(list) * Copies(m, x)
<1> DEFINE D == BeforeRaise(list, m)
<1>1. D \in SUBSET DOMAIN list /\ IsFiniteSet(D) /\ D \in SUBSET D
  BY DoneFacts
<1>2. ASSUME NEW t \in Types PROVE Gain(list, m, t) \in Nat
  <2> DEFINE A == OfType(list, t) \cap D
             f == [n \in A |-> SizeAll(m, list[n], SentTo(m, list[n]))]
  <2>1. \A n \in A : f[n] \in Nat
    BY SentOK
  <2>2. IsFiniteSet(A) /\ A \in SUBSET A /\ DOMAIN f = A
    BY <1>1, FS_Subset
  <2>3. Gain(list, m, t) = SumFunction(f)
    BY DEF Gain
  <2> HIDE DEF A, f
  <2>4. SumFunctionOnSet(f, A) \in Nat
    BY <2>1, <2>2, SumNat
  <2> QED BY <2>2, <2>3, <2>4, SumFunctionIs
<1>3. ASSUME NEW x \in Receivers PROVE GainFor(list, m, x) \in Nat
  <2> DEFINE f == [n \in D |-> SizeAll(m, list[n], PositionsOf(m, x, list[n]))]
  <2>1. \A n \in D : f[n] \in Nat
    BY SentOK
  <2>2. DOMAIN f = D
    OBVIOUS
  <2>3. GainFor(list, m, x) = SumFunction(f)
    BY DEF GainFor
  <2> HIDE DEF D, f
  <2>4. SumFunctionOnSet(f, D) \in Nat
    BY <1>1, <2>1, SumNat
  <2> QED BY <2>2, <2>3, <2>4, SumFunctionIs
<1>4. ASSUME NEW x \in Receivers
      PROVE  Reaches(list, m, x) \in Nat /\ Reaches(list, m, x) <= Len(list) * Copies(m, x)
  <2> DEFINE f == [n \in D |-> Cardinality(PositionsOf(m, x, list[n]))]
             L == DOMAIN list
             g == [n \in L |-> IF n \in D THEN f[n] ELSE 0]
             c == Copies(m, x)
  <2>1. \A n \in D : f[n] \in Nat /\ f[n] <= c
    BY SentOK
  <2>2. DOMAIN f = D /\ c \in Nat
    BY CopiesOK
  <2>3. Reaches(list, m, x) = SumFunction(f)
    BY DEF Reaches
  <2>4. IsFiniteSet(L) /\ Cardinality(L) = Len(list) /\ D \in SUBSET L
    BY <1>1, ListFacts
  <2> HIDE DEF D, f, c
  <2>5. \A n \in L : g[n] \in Nat /\ g[n] <= c /\ g[n] = (IF n \in D THEN f[n] ELSE 0)
    BY <2>1, <2>2
  <2> HIDE DEF g, L
  <2>6. SumFunctionOnSet(f, D) \in Nat
    BY <1>1, <2>1, SumNat
  <2>7. SumFunctionOnSet(g, L) <= Cardinality(L) * c
    BY <2>2, <2>4, <2>5, SumBound
  <2>8. SumFunctionOnSet(f, D) = SumFunctionOnSet(g, L)
    <3> DEFINE h == [n \in L |-> IF n \in D THEN f[n] ELSE 0]
    <3>1. \A n \in L : h[n] \in Nat /\ g[n] = (IF n \in D THEN h[n] ELSE 0)
      BY <2>1, <2>5
    <3>2. \A n \in D : f[n] \in Nat /\ h[n] = f[n]
      BY <2>1, <2>4
    <3> HIDE DEF h
    <3>3. SumFunctionOnSet(h, D) = SumFunctionOnSet(g, L)
      BY <2>4, <3>1, SumSame
    <3>4. SumFunctionOnSet(f, D) = SumFunctionOnSet(h, D)
      BY <1>1, <3>2, SumCongruent
    <3> QED BY <3>3, <3>4
  <2>9. SumFunction(f) = SumFunctionOnSet(f, D)
    BY <2>2, SumFunctionIs
  <2> QED BY <2>3, <2>4, <2>6, <2>7, <2>8, <2>9 DEF c
<1> QED BY <1>2, <1>3, <1>4

LEMMA GainElsewhere ==
  ASSUME NEW list \in Seq(Records), NEW m \in Manifests, NEW t,
         t \notin {list[n].type : n \in DOMAIN list}
  PROVE  Gain(list, m, t) = 0
<1> DEFINE A == OfType(list, t) \cap BeforeRaise(list, m)
           f == [n \in A |-> SizeAll(m, list[n], SentTo(m, list[n]))]
<1>1. A = {} /\ DOMAIN f = A
  BY DEF OfType
<1>2. Gain(list, m, t) = SumFunction(f)
  BY DEF Gain
<1> HIDE DEF f, A
<1> QED BY <1>1, <1>2, SumFunctionIs, SumEmpty

(* By type or by recipient, what an analysis adds is the same in all.      *)
LEMMA GainsByType ==
  ASSUME NEW list \in Seq(Records), NEW m \in Manifests,
         NEW F, F = [n \in BeforeRaise(list, m) |-> SizeAll(m, list[n], SentTo(m, list[n]))],
         NEW g, \A t \in Types : g[t] = Gain(list, m, t)
  PROVE  SumFunctionOnSet(g, Types) = SumFunctionOnSet(F, BeforeRaise(list, m))
<1> DEFINE D == BeforeRaise(list, m)
           key == [n \in D |-> list[n].type]
<1>1. IsFiniteSet(D) /\ \A n \in D : F[n] \in Nat
  BY DoneFacts, SentOK
<1>2. \A n \in D : key[n] \in Types
  BY DoneFacts, ListFacts
<1>3. IsFiniteSet(Types)
  BY ResidueAssumption
<1>4. ByKey(F, D, key, g, Types)
  <2> SUFFICES ASSUME NEW t \in Types
               PROVE  g[t] = SumFunctionOnSet(F, {n \in D : key[n] = t})
    BY DEF ByKey
  <2> DEFINE A == {n \in D : key[n] = t}
             f == [n \in OfType(list, t) \cap D |-> SizeAll(m, list[n], SentTo(m, list[n]))]
  <2>1. A = OfType(list, t) \cap D /\ A \in SUBSET D /\ DOMAIN f = OfType(list, t) \cap D
    BY DoneFacts DEF OfType
  <2>2. \A n \in A : F[n] \in Nat /\ f[n] = F[n]
    BY <1>1, <2>1
  <2>3. Gain(list, m, t) = SumFunction(f) /\ g[t] = Gain(list, m, t)
    BY DEF Gain
  <2> HIDE DEF D, f, A
  <2>4. IsFiniteSet(A)
    BY <1>1, <2>1, FS_Subset
  <2>5. SumFunctionOnSet(F, A) = SumFunctionOnSet(f, A)
    BY <2>2, <2>4, SumCongruent
  <2>6. SumFunction(f) = SumFunctionOnSet(f, A)
    BY <2>1, SumFunctionIs
  <2> QED BY <2>3, <2>5, <2>6 DEF A
<1> HIDE DEF D, key
<1>5. SumFunctionOnSet(g, Types) = SumFunctionOnSet(F, D)
  BY <1>1, <1>2, <1>3, <1>4, SumByKey
<1> QED BY <1>5 DEF D

(* The columns of a table are its rows, transposed.                        *)
Transposed(row, column, S, T) ==
  \A x \in S : \A y \in T : row[x][y] \in Nat /\ column[y][x] = row[x][y]

LEMMA SwapTransposed ==
  ASSUME NEW S, NEW T, IsFiniteSet(S), IsFiniteSet(T), NEW row, NEW column, NEW f, NEW g,
         Transposed(row, column, S, T), RowSums(f, row, S, T), RowSums(g, column, T, S)
  PROVE  SumFunctionOnSet(f, S) = SumFunctionOnSet(g, T)
<1>1. \A x \in S : \A y \in T : row[x][y] \in Nat /\ column[y][x] = row[x][y]
  BY DEF Transposed
<1> QED BY <1>1, SumSwap

LEMMA GainsByReceiver ==
  ASSUME NEW list \in Seq(Records), NEW m \in Manifests,
         NEW F, F = [n \in BeforeRaise(list, m) |-> SizeAll(m, list[n], SentTo(m, list[n]))],
         NEW h, \A x \in Receivers : h[x] = GainFor(list, m, x)
  PROVE  SumFunctionOnSet(h, Receivers) = SumFunctionOnSet(F, BeforeRaise(list, m))
<1> DEFINE D == BeforeRaise(list, m)
           row == [n \in D |->
                     [x \in Receivers |-> SizeAll(m, list[n], PositionsOf(m, x, list[n]))]]
           column == [x \in Receivers |->
                        [n \in D |-> SizeAll(m, list[n], PositionsOf(m, x, list[n]))]]
<1>1. IsFiniteSet(D) /\ IsFiniteSet(Receivers)
  BY DoneFacts, ResidueAssumption
<1>2. Transposed(row, column, D, Receivers)
  BY SentOK DEF Transposed
<1>3. RowSums(F, row, D, Receivers)
  <2> SUFFICES ASSUME NEW n \in D PROVE F[n] = SumFunctionOnSet(row[n], Receivers)
    BY DEF RowSums
  <2>1. F[n] = SizeAll(m, list[n], SentTo(m, list[n]))
    OBVIOUS
  <2>2. list[n] \in Records /\ RaisesAt(NewState(m), list[n]) = {}
    BY DoneFacts
  <2>3. \A x \in Receivers : row[n][x] = SizeAll(m, list[n], PositionsOf(m, x, list[n]))
    OBVIOUS
  <2> HIDE DEF row, D
  <2> QED BY <2>1, <2>2, <2>3, SentByReceiver
<1>4. RowSums(h, column, Receivers, D)
  <2> SUFFICES ASSUME NEW x \in Receivers PROVE h[x] = SumFunctionOnSet(column[x], D)
    BY DEF RowSums
  <2> DEFINE f == [n \in D |-> SizeAll(m, list[n], PositionsOf(m, x, list[n]))]
  <2>1. DOMAIN f = D /\ column[x] = f
    OBVIOUS
  <2>2. h[x] = SumFunction(f)
    BY DEF GainFor
  <2> HIDE DEF column, D, f
  <2> QED BY <2>1, <2>2, SumFunctionIs
<1> HIDE DEF row, column, D
<1>5. SumFunctionOnSet(F, D) = SumFunctionOnSet(h, Receivers)
  BY <1>1, <1>2, <1>3, <1>4, SwapTransposed
<1> QED BY <1>5 DEF D

(* What a step of the analyser adds to what it has counted.                *)
LEMMA BaselineCounted ==
  ASSUME AnalyserTypeOK, NEW list \in Seq(Records), NEW m \in Manifests \cup {NoManifest},
         CountBaseline(list, m)
  PROVE  /\ categories' = categories \cup {list[n].type : n \in DOMAIN list}
         /\ categories' \subseteq Types
         /\ baseline' \in [Types -> Nat] /\ counted' \in [Types -> Nat]
         /\ baselineFor' \in [Receivers -> [records : Nat, size : Nat]]
         /\ \A t \in Types : counted'[t] = counted[t] + Cardinality(OfType(list, t))
         /\ \A x \in Receivers :
              /\ baselineFor'[x].records = baselineFor[x].records + Copies(m, x) * Len(list)
              /\ baselineFor'[x].size
                   = baselineFor[x].size + Copies(m, x) * SizeOf(list, DOMAIN list)
<1> DEFINE z == SizeOf(list, DOMAIN list)
<1>1. z \in Nat /\ Len(list) \in Nat
  BY SizesOK, ListFacts
<1>2. \A n \in DOMAIN list : list[n].type \in Types
  BY ListFacts
<1>3. \A t \in Types : SizeOf(list, OfType(list, t)) \in Nat
  <2> SUFFICES ASSUME NEW t \in Types PROVE SizeOf(list, OfType(list, t)) \in Nat
    OBVIOUS
  <2>1. OfType(list, t) \in SUBSET DOMAIN list
    BY DEF OfType
  <2> QED BY <2>1, SizesOK
<1>4. \A x \in Receivers : Copies(m, x) \in Nat
  BY CopiesOK
<1>5. /\ baseline \in [Types -> Nat] /\ counted \in [Types -> Nat] /\ categories \subseteq Types
      /\ baselineFor \in [Receivers -> [records : Nat, size : Nat]]
  BY DEF AnalyserTypeOK
<1>6. /\ categories' = categories \cup {list[n].type : n \in DOMAIN list}
      /\ counted' = [t \in Types |-> counted[t] + Cardinality(OfType(list, t))]
      /\ baseline' = [t \in Types |-> baseline[t] + SizeOf(list, OfType(list, t))]
      /\ baselineFor' = [x \in Receivers |->
           [records |-> baselineFor[x].records + Copies(m, x) * Len(list),
            size    |-> baselineFor[x].size + Copies(m, x) * z]]
  BY DEF CountBaseline
<1> HIDE DEF z
<1>7. \A x \in Receivers :
        /\ baselineFor[x].records + Copies(m, x) * Len(list) \in Nat
        /\ baselineFor[x].size + Copies(m, x) * z \in Nat
  <2> SUFFICES ASSUME NEW x \in Receivers
               PROVE  /\ baselineFor[x].records + Copies(m, x) * Len(list) \in Nat
                      /\ baselineFor[x].size + Copies(m, x) * z \in Nat
    OBVIOUS
  <2>1. baselineFor[x].records \in Nat /\ baselineFor[x].size \in Nat
    BY <1>5
  <2>2. Copies(m, x) * Len(list) \in Nat /\ Copies(m, x) * z \in Nat
    BY <1>1, <1>4
  <2> QED BY <2>1, <2>2
<1>8. \A t \in Types : baseline[t] + SizeOf(list, OfType(list, t)) \in Nat
  BY <1>3, <1>5
<1>9. categories' \subseteq Types
  BY <1>2, <1>5, <1>6
<1>10. baseline' \in [Types -> Nat]
  BY <1>6, <1>8
<1>13. counted' \in [Types -> Nat]
       /\ \A t \in Types : counted'[t] = counted[t] + Cardinality(OfType(list, t))
  <2> DEFINE g == [t \in Types |-> Cardinality(OfType(list, t))]
  <2>1. \A t \in Types : Cardinality(OfType(list, t)) \in Nat
    <3>1. \A t \in Types : g[t] = Cardinality(OfType(list, t))
      OBVIOUS
    <3> HIDE DEF g
    <3> QED BY <3>1, CountsByType
  <2> QED BY <1>5, <1>6, <2>1
<1>11. baselineFor' \in [Receivers -> [records : Nat, size : Nat]]
  BY <1>6, <1>7
<1>12. \A x \in Receivers :
         /\ baselineFor'[x].records = baselineFor[x].records + Copies(m, x) * Len(list)
         /\ baselineFor'[x].size = baselineFor[x].size + Copies(m, x) * z
  BY <1>6
<1> QED BY <1>6, <1>9, <1>10, <1>11, <1>12, <1>13 DEF z

LEMMA FilteredCounted ==
  ASSUME AnalyserTypeOK, NEW list \in Seq(Records), NEW m \in Manifests,
         CountFiltered(list, m)
  PROVE  /\ filtered' \in [Types -> Nat]
         /\ filteredFor' \in [Receivers -> [records : Nat, size : Nat]]
         /\ \A t \in Types : filtered'[t] = filtered[t] + Gain(list, m, t)
         /\ \A x \in Receivers :
              /\ filteredFor'[x].records = filteredFor[x].records + Reaches(list, m, x)
              /\ filteredFor'[x].size = filteredFor[x].size + GainFor(list, m, x)
<1>1. /\ \A t \in Types : Gain(list, m, t) \in Nat
      /\ \A x \in Receivers : GainFor(list, m, x) \in Nat /\ Reaches(list, m, x) \in Nat
  BY GainsTyped
<1>2. /\ filtered \in [Types -> Nat]
      /\ filteredFor \in [Receivers -> [records : Nat, size : Nat]]
  BY DEF AnalyserTypeOK
<1>3. /\ filtered' = [t \in Types |-> filtered[t] + Gain(list, m, t)]
      /\ filteredFor' = [x \in Receivers |->
           [records |-> filteredFor[x].records + Reaches(list, m, x),
            size |-> filteredFor[x].size + GainFor(list, m, x)]]
  BY Zenon DEF CountFiltered, Gain, GainFor, Reaches
<1>4. \A x \in Receivers : /\ filteredFor[x].records + Reaches(list, m, x) \in Nat
                           /\ filteredFor[x].size + GainFor(list, m, x) \in Nat
  BY <1>1, <1>2
<1>5. \A t \in Types : filtered[t] + Gain(list, m, t) \in Nat
  BY <1>1, <1>2
<1>6. filtered' \in [Types -> Nat]
      /\ \A t \in Types : filtered'[t] = filtered[t] + Gain(list, m, t)
  BY <1>3, <1>5
<1>7. filteredFor' \in [Receivers -> [records : Nat, size : Nat]]
  BY <1>3, <1>4
<1>8. \A x \in Receivers :
        /\ filteredFor'[x].records = filteredFor[x].records + Reaches(list, m, x)
        /\ filteredFor'[x].size = filteredFor[x].size + GainFor(list, m, x)
  BY <1>3
<1> QED BY <1>6, <1>7, <1>8

-----------------------------------------------------------------------------
(* What an analyser used for one list and one manifest has counted: the    *)
(* baseline so often with and without the manifest, and the analyses.      *)
TimesHeld(set, unset, m, x) == set * Copies(m, x) + unset * Copies(NoManifest, x)

BaselineLike(to, by, set, unset, list, m) ==
  /\ \A x \in Receivers :
       /\ to[x].records = TimesHeld(set, unset, m, x) * Len(list)
       /\ to[x].size = TimesHeld(set, unset, m, x) * SizeOf(list, DOMAIN list)
  /\ SumFunctionOnSet(by, Types) = (set + unset) * Len(list)

FilteredLike(to, by, met, analyses, list, m) ==
  /\ \A x \in Receivers : to[x].records <= analyses * (Copies(m, x) * Len(list))
  /\ \A t \in Types \ met : by[t] = 0
  /\ SumFunctionOnSet(by, Types) = TotalOf(to)

TypesOf(list) == {list[n].type : n \in DOMAIN list}

Alike ==
  /\ BaselineLike(baselineFor, counted, runs.set, runs.unset, lastRecords, manifest)
  /\ FilteredLike(filteredFor, filtered, categories, runs.analyses, lastRecords, manifest)
  /\ manifest = NoManifest => runs.set = 0 /\ runs.analyses = 0
  /\ calls # 0 => TypesOf(lastRecords) \subseteq categories

Uncounted ==
  /\ manifest = NoManifest /\ categories = {}
  /\ runs.set = 0 /\ runs.unset = 0 /\ runs.analyses = 0
  /\ \A t \in Types : counted[t] = 0 /\ filtered[t] = 0
  /\ \A x \in Receivers :
       /\ baselineFor[x].records = 0 /\ baselineFor[x].size = 0
       /\ filteredFor[x].records = 0 /\ filteredFor[x].size = 0

AnalyserInv ==
  /\ AnalyserTypeOK
  /\ calls = 0 => Uncounted
  /\ same => Alike

LEMMA TotalIs ==
  ASSUME NEW counts, NEW h, \A x \in Receivers : h[x] = counts[x].size,
         \A x \in Receivers : counts[x].size \in Nat
  PROVE  TotalOf(counts) = SumFunctionOnSet(h, Receivers)
<1> DEFINE f == [x \in Receivers |-> counts[x].size]
<1>1. TotalOf(counts) = SumFunction(f)
  BY DEF TotalOf
<1>2. DOMAIN f = Receivers /\ \A x \in Receivers : f[x] \in Nat /\ h[x] = f[x]
  OBVIOUS
<1>3. IsFiniteSet(Receivers)
  BY ResidueAssumption
<1> HIDE DEF f
<1>4. SumFunction(f) = SumFunctionOnSet(f, Receivers)
  BY <1>2, SumFunctionIs
<1>5. SumFunctionOnSet(f, Receivers) = SumFunctionOnSet(h, Receivers)
  BY <1>2, <1>3, SumCongruent
<1> QED BY <1>1, <1>4, <1>5

LEMMA SumZeros ==
  ASSUME NEW S, IsFiniteSet(S), NEW f, \A x \in S : f[x] = 0
  PROVE  SumFunctionOnSet(f, S) = 0
<1>1. {} \in SUBSET S /\ \A x \in S : f[x] \in Nat /\ f[x] = (IF x \in {} THEN f[x] ELSE 0)
  OBVIOUS
<1>2. SumFunctionOnSet(f, {}) = SumFunctionOnSet(f, S)
  BY <1>1, SumSame
<1> QED BY <1>2, SumEmpty

(* An analyser that has counted nothing is like any list and manifest.     *)
LEMMA UncountedLike ==
  ASSUME Uncounted, NEW list \in Seq(Records), NEW m \in Manifests \cup {NoManifest}
  PROVE  /\ BaselineLike(baselineFor, counted, 0, 0, list, m)
         /\ FilteredLike(filteredFor, filtered, categories, 0, list, m)
<1>1. IsFiniteSet(Types) /\ IsFiniteSet(Receivers)
  BY ResidueAssumption
<1>2. Len(list) \in Nat /\ SizeOf(list, DOMAIN list) \in Nat
  BY ListFacts, SizesOK
<1>3. \A x \in Receivers : Copies(m, x) \in Nat /\ Copies(NoManifest, x) \in Nat
  BY CopiesOK
<1>4. \A x \in Receivers : TimesHeld(0, 0, m, x) = 0
  BY <1>3 DEF TimesHeld
<1>5. SumFunctionOnSet(counted, Types) = 0 /\ SumFunctionOnSet(filtered, Types) = 0
  BY <1>1, SumZeros DEF Uncounted
<1>6. TotalOf(filteredFor) = 0
  <2> DEFINE h == [x \in Receivers |-> 0]
  <2>1. \A x \in Receivers : h[x] = 0 /\ h[x] = filteredFor[x].size /\ filteredFor[x].size \in Nat
    BY DEF Uncounted
  <2> HIDE DEF h
  <2>2. TotalOf(filteredFor) = SumFunctionOnSet(h, Receivers)
    BY <2>1, TotalIs
  <2> QED BY <1>1, <2>1, <2>2, SumZeros
<1>7. \A x \in Receivers : 0 * (Copies(m, x) * Len(list)) = 0
  <2>1. \A p, q \in Nat : 0 * (p * q) = 0
    OBVIOUS
  <2> QED BY <1>2, <1>3, <2>1
<1>8. \A k \in Nat : 0 * k = 0 /\ (0 + 0) * k = 0
  OBVIOUS
<1>9. BaselineLike(baselineFor, counted, 0, 0, list, m)
  BY <1>2, <1>4, <1>5, <1>8 DEF BaselineLike, Uncounted
<1>10. FilteredLike(filteredFor, filtered, categories, 0, list, m)
  BY <1>5, <1>6, <1>7 DEF FilteredLike, Uncounted
<1> QED BY <1>9, <1>10

(* A call that keeps everything the same finds what has been counted like  *)
(* its own list and manifest.                                              *)
LEMMA CallLike ==
  ASSUME AnalyserInv, NEW list \in Seq(Records), NEW m \in Manifests \cup {NoManifest},
         Called(list, m), same'
  PROVE  /\ BaselineLike(baselineFor, counted, runs.set, runs.unset, list, m)
         /\ FilteredLike(filteredFor, filtered, categories, runs.analyses, list, m)
         /\ categories # {} => TypesOf(list) \subseteq categories
         /\ m = NoManifest => runs.set = 0 /\ runs.analyses = 0
<1>1. /\ same /\ (calls # 0 => list = lastRecords) /\ (manifest # NoManifest => m = manifest)
  BY DEF Called
<1>2. Alike /\ AnalyserTypeOK
  BY <1>1 DEF AnalyserInv
<1>3. CASE calls = 0
  <2>1. Uncounted
    BY <1>3 DEF AnalyserInv
  <2>2. runs.set = 0 /\ runs.unset = 0 /\ runs.analyses = 0 /\ categories = {}
    BY <2>1 DEF Uncounted
  <2> QED BY <2>1, <2>2, UncountedLike
<1>4. CASE calls # 0 /\ m = manifest
  <2>1. list = lastRecords
    BY <1>1, <1>4
  <2> QED BY <1>2, <1>4, <2>1 DEF Alike
<1>5. CASE calls # 0 /\ m # manifest
  <2>1. list = lastRecords /\ manifest = NoManifest
    BY <1>1, <1>5
  <2>2. runs.set = 0 /\ runs.analyses = 0 /\ runs.unset \in Nat
    BY <1>2, <2>1 DEF Alike, AnalyserTypeOK
  <2>3. \A x \in Receivers : Copies(m, x) \in Nat /\ Copies(NoManifest, x) \in Nat
    BY CopiesOK
  <2>4. \A p, q \in Nat : 0 * p + q = q /\ 0 * (p * q) = 0
    OBVIOUS
  <2>5. \A x \in Receivers : TimesHeld(0, runs.unset, m, x) = TimesHeld(0, runs.unset, manifest, x)
    BY <2>1, <2>2, <2>3, <2>4 DEF TimesHeld
  <2>6. Len(list) \in Nat
    BY ListFacts
  <2>7. BaselineLike(baselineFor, counted, runs.set, runs.unset, list, m)
    BY <1>2, <2>1, <2>2, <2>5 DEF Alike, BaselineLike
  <2>8. \A x \in Receivers : 0 * (Copies(m, x) * Len(list)) = 0 * (Copies(manifest, x) * Len(list))
    BY <2>1, <2>3, <2>4, <2>6
  <2>9. FilteredLike(filteredFor, filtered, categories, runs.analyses, list, m)
    BY <1>2, <2>1, <2>2, <2>8 DEF Alike, FilteredLike
  <2> QED BY <1>2, <1>5, <2>1, <2>2, <2>7, <2>9 DEF Alike
<1> QED BY <1>3, <1>4, <1>5

(* One more baseline of the list, for the manifest or before it is set.    *)
LEMMA BaselineGrows ==
  ASSUME NEW list \in Seq(Records), NEW m \in Manifests \cup {NoManifest},
         NEW k \in {m, NoManifest}, NEW set \in Nat, NEW unset \in Nat,
         NEW to, NEW by, BaselineLike(to, by, set, unset, list, m), \A t \in Types : by[t] \in Nat,
         NEW to2, \A x \in Receivers :
           /\ to2[x].records = to[x].records + Copies(k, x) * Len(list)
           /\ to2[x].size = to[x].size + Copies(k, x) * SizeOf(list, DOMAIN list),
         NEW by2, \A t \in Types : by2[t] = by[t] + Cardinality(OfType(list, t))
  PROVE  /\ k = m => BaselineLike(to2, by2, set + 1, unset, list, m)
         /\ k = NoManifest => BaselineLike(to2, by2, set, unset + 1, list, m)
<1> DEFINE z == SizeOf(list, DOMAIN list)
           held(x) == TimesHeld(set, unset, m, x)
<1>1. Len(list) \in Nat /\ z \in Nat
  BY ListFacts, SizesOK
<1>2. \A x \in Receivers :
        Copies(m, x) \in Nat /\ Copies(NoManifest, x) \in Nat /\ Copies(k, x) \in Nat
  BY CopiesOK
<1>3. \A x \in Receivers : held(x) \in Nat
  BY <1>2 DEF TimesHeld
<1>4. \A p, q, c \in Nat : p * c + q * c = (p + q) * c
  OBVIOUS
<1>5. \A x \in Receivers : /\ to[x].records = held(x) * Len(list) /\ to[x].size = held(x) * z
  BY DEF BaselineLike
<1>6. \A x \in Receivers : /\ to2[x].records = (held(x) + Copies(k, x)) * Len(list)
                           /\ to2[x].size = (held(x) + Copies(k, x)) * z
  <2> SUFFICES ASSUME NEW x \in Receivers
               PROVE  /\ to2[x].records = (held(x) + Copies(k, x)) * Len(list)
                      /\ to2[x].size = (held(x) + Copies(k, x)) * z
    OBVIOUS
  <2> DEFINE p == held(x)
             q == Copies(k, x)
  <2>1. p \in Nat /\ q \in Nat
    BY <1>2, <1>3
  <2>2. /\ to2[x].records = p * Len(list) + q * Len(list)
        /\ to2[x].size = p * z + q * z
    BY <1>5
  <2> HIDE DEF p, q, z
  <2> QED BY <1>1, <1>4, <2>1, <2>2 DEF p, q
<1>7. SumFunctionOnSet(by2, Types) = (set + unset) * Len(list) + Len(list)
  <2> DEFINE g == [t \in Types |-> Cardinality(OfType(list, t))]
  <2>1. \A t \in Types : g[t] = Cardinality(OfType(list, t))
    OBVIOUS
  <2> HIDE DEF g
  <2>2. /\ \A t \in Types : g[t] \in Nat /\ by2[t] = by[t] + g[t]
        /\ SumFunctionOnSet(g, Types) = Len(list)
    BY <2>1, CountsByType
  <2>3. IsFiniteSet(Types)
    BY ResidueAssumption
  <2>4. SumFunctionOnSet(by2, Types) = SumFunctionOnSet(by, Types) + SumFunctionOnSet(g, Types)
    BY <2>2, <2>3, SumPlus
  <2>5. SumFunctionOnSet(by, Types) = (set + unset) * Len(list)
    BY DEF BaselineLike
  <2> QED BY <2>2, <2>4, <2>5
<1>8. (set + unset) * Len(list) + Len(list) = (set + unset + 1) * Len(list)
  BY <1>1
<1>9. set + unset + 1 = (set + 1) + unset /\ set + unset + 1 = set + (unset + 1)
  OBVIOUS
<1>10. ASSUME k = m PROVE BaselineLike(to2, by2, set + 1, unset, list, m)
  <2>1. \A x \in Receivers : TimesHeld(set + 1, unset, m, x) = held(x) + Copies(k, x)
    <3> SUFFICES ASSUME NEW x \in Receivers
                 PROVE  TimesHeld(set + 1, unset, m, x) = held(x) + Copies(k, x)
      OBVIOUS
    <3> DEFINE p == Copies(m, x)
               q == Copies(NoManifest, x)
    <3>1. p \in Nat /\ q \in Nat
      BY <1>2
    <3>2. \A a, b \in Nat : (set + 1) * a + unset * b = (set * a + unset * b) + a
      OBVIOUS
    <3>3. /\ TimesHeld(set + 1, unset, m, x) = (set + 1) * p + unset * q
          /\ held(x) = set * p + unset * q /\ Copies(k, x) = p
      BY <1>10 DEF TimesHeld
    <3> HIDE DEF p, q, held
    <3> QED BY <3>1, <3>2, <3>3
  <2> HIDE DEF held
  <2> QED BY <1>6, <1>7, <1>8, <1>9, <2>1 DEF BaselineLike, z
<1>11. ASSUME k = NoManifest PROVE BaselineLike(to2, by2, set, unset + 1, list, m)
  <2>1. \A x \in Receivers : TimesHeld(set, unset + 1, m, x) = held(x) + Copies(k, x)
    <3> SUFFICES ASSUME NEW x \in Receivers
                 PROVE  TimesHeld(set, unset + 1, m, x) = held(x) + Copies(k, x)
      OBVIOUS
    <3> DEFINE p == Copies(m, x)
               q == Copies(NoManifest, x)
    <3>1. p \in Nat /\ q \in Nat
      BY <1>2
    <3>2. \A a, b \in Nat : set * a + (unset + 1) * b = (set * a + unset * b) + b
      OBVIOUS
    <3>3. /\ TimesHeld(set, unset + 1, m, x) = set * p + (unset + 1) * q
          /\ held(x) = set * p + unset * q /\ Copies(k, x) = q
      BY <1>11 DEF TimesHeld
    <3> HIDE DEF p, q, held
    <3> QED BY <3>1, <3>2, <3>3
  <2> HIDE DEF held
  <2> QED BY <1>6, <1>7, <1>8, <1>9, <2>1 DEF BaselineLike, z
<1> QED BY <1>10, <1>11

(* One more analysis: by type or by recipient, it adds the same.           *)
LEMMA FilteredGrows ==
  ASSUME NEW list \in Seq(Records), NEW m \in Manifests, NEW analyses \in Nat,
         NEW to \in [Receivers -> [records : Nat, size : Nat]], NEW by \in [Types -> Nat],
         NEW met, FilteredLike(to, by, met, analyses, list, m),
         NEW to2, \A x \in Receivers :
           /\ to2[x].records = to[x].records + Reaches(list, m, x)
           /\ to2[x].size = to[x].size + GainFor(list, m, x),
         NEW by2, \A t \in Types : by2[t] = by[t] + Gain(list, m, t),
         NEW met2, met \subseteq met2, TypesOf(list) \subseteq met2
  PROVE  FilteredLike(to2, by2, met2, analyses + 1, list, m)
<1>1. /\ \A t \in Types : Gain(list, m, t) \in Nat
      /\ \A x \in Receivers : /\ GainFor(list, m, x) \in Nat /\ Reaches(list, m, x) \in Nat
                              /\ Reaches(list, m, x) <= Len(list) * Copies(m, x)
  BY GainsTyped
<1>2. Len(list) \in Nat /\ \A x \in Receivers : Copies(m, x) \in Nat
  BY ListFacts, CopiesOK
<1>3. IsFiniteSet(Types) /\ IsFiniteSet(Receivers)
  BY ResidueAssumption
<1>4. ASSUME NEW x \in Receivers
      PROVE  to2[x].records <= (analyses + 1) * (Copies(m, x) * Len(list))
  <2> DEFINE c == Copies(m, x) * Len(list)
             old == to[x].records
             new == Reaches(list, m, x)
  <2>1. c \in Nat /\ Len(list) * Copies(m, x) = c
    BY <1>2
  <2>2. old \in Nat /\ new \in Nat /\ new <= c /\ old <= analyses * c
    BY <1>1, <2>1 DEF FilteredLike
  <2>3. to2[x].records = old + new
    OBVIOUS
  <2> HIDE DEF c, old, new
  <2>4. (analyses + 1) * c = analyses * c + c /\ analyses * c \in Nat
    BY <2>1
  <2>5. old + new <= analyses * c + c
    BY <2>1, <2>2, <2>4
  <2>6. to2[x].records <= (analyses + 1) * c
    BY <2>3, <2>4, <2>5
  <2> QED BY <2>6 DEF c
<1>5. ASSUME NEW t \in Types \ met2 PROVE by2[t] = 0
  <2>1. t \notin TypesOf(list) /\ by[t] = 0
    BY DEF FilteredLike
  <2>2. Gain(list, m, t) = 0
    BY <2>1, GainElsewhere DEF TypesOf
  <2>3. by2[t] = by[t] + Gain(list, m, t)
    BY Zenon
  <2>4. by2[t] = 0 + 0
    BY <2>1, <2>2, <2>3, Zenon
  <2>5. 0 + 0 = 0
    OBVIOUS
  <2> QED BY <2>4, <2>5, Zenon
<1>6. SumFunctionOnSet(by2, Types) = TotalOf(to2)
  <2> DEFINE D == BeforeRaise(list, m)
             F == [n \in D |-> SizeAll(m, list[n], SentTo(m, list[n]))]
             g == [t \in Types |-> Gain(list, m, t)]
             h == [x \in Receivers |-> GainFor(list, m, x)]
             s == [x \in Receivers |-> to[x].size]
             s2 == [x \in Receivers |-> to2[x].size]
  <2>1. /\ \A t \in Types : g[t] = Gain(list, m, t)
        /\ \A x \in Receivers : h[x] = GainFor(list, m, x)
    OBVIOUS
  <2>2. /\ \A t \in Types : by[t] \in Nat /\ g[t] \in Nat /\ by2[t] = by[t] + g[t]
        /\ \A x \in Receivers : s[x] \in Nat /\ h[x] \in Nat /\ s2[x] = s[x] + h[x]
        /\ \A x \in Receivers : s[x] = to[x].size /\ to[x].size \in Nat
        /\ \A x \in Receivers : s2[x] = to2[x].size /\ to2[x].size \in Nat
    BY <1>1
  <2> HIDE DEF g, h, s, s2
  <2>3. SumFunctionOnSet(g, Types) = SumFunctionOnSet(F, D)
    BY <2>1, GainsByType
  <2>4. SumFunctionOnSet(h, Receivers) = SumFunctionOnSet(F, D)
    BY <2>1, GainsByReceiver
  <2> HIDE DEF D, F
  <2>5. SumFunctionOnSet(by2, Types) = SumFunctionOnSet(by, Types) + SumFunctionOnSet(g, Types)
    BY <1>3, <2>2, SumPlus
  <2>6. SumFunctionOnSet(s2, Receivers)
          = SumFunctionOnSet(s, Receivers) + SumFunctionOnSet(h, Receivers)
    BY <1>3, <2>2, SumPlus
  <2>7. /\ TotalOf(to) = SumFunctionOnSet(s, Receivers)
        /\ TotalOf(to2) = SumFunctionOnSet(s2, Receivers)
    BY <2>2, TotalIs
  <2>8. SumFunctionOnSet(by, Types) = TotalOf(to)
    BY DEF FilteredLike
  <2> QED BY <2>3, <2>4, <2>5, <2>6, <2>7, <2>8
<1> QED BY <1>4, <1>5, <1>6 DEF FilteredLike

LEMMA ComparedLike ==
  ASSUME AnalyserInv
  PROVE  LikeWithLike
<1> SUFFICES ASSUME same
             PROVE  /\ \A x \in Receivers :
                         /\ baselineFor[x].records = Held(x) * TotalRecords
                         /\ baselineFor[x].size
                              = Held(x) * SizeOf(lastRecords, DOMAIN lastRecords)
                         /\ filteredFor[x].records
                              <= runs.analyses * (Copies(manifest, x) * TotalRecords)
                    /\ SumFunction(counted) = (runs.set + runs.unset) * TotalRecords
                    /\ Listed = TotalOf(filteredFor)
  BY DEF LikeWithLike
<1>1. Alike /\ AnalyserTypeOK
  BY DEF AnalyserInv
<1>2. IsFiniteSet(Types)
  BY ResidueAssumption
<1>3. Listed = TotalOf(filteredFor)
  <2>1. /\ categories \in SUBSET Types
        /\ \A t \in Types : filtered[t] \in Nat
                            /\ filtered[t] = (IF t \in categories THEN filtered[t] ELSE 0)
    BY <1>1 DEF Alike, FilteredLike, AnalyserTypeOK
  <2>2. SumFunctionOnSet(filtered, categories) = SumFunctionOnSet(filtered, Types)
    BY <1>2, <2>1, SumSame
  <2> QED BY <1>1, <2>2 DEF Listed, Alike, FilteredLike
<1>4. SumFunction(counted) = SumFunctionOnSet(counted, Types)
  <2>1. DOMAIN counted = Types
    BY <1>1 DEF AnalyserTypeOK
  <2> QED BY <2>1, SumFunctionIs
<1>5. \A x \in Receivers : Held(x) = TimesHeld(runs.set, runs.unset, manifest, x)
  BY DEF Held, TimesHeld
<1> QED BY <1>1, <1>3, <1>4, <1>5 DEF Alike, BaselineLike, FilteredLike, TotalRecords

(* A call is one more, with its records and manifest.                      *)
LEMMA CallMade ==
  ASSUME AnalyserTypeOK, NEW list \in Seq(Records), NEW m \in Manifests \cup {NoManifest},
         Called(list, m)
  PROVE  /\ calls' \in Nat /\ calls' # 0 /\ same' \in BOOLEAN
         /\ lastRecords' = list /\ lastRecords' \in Seq(Records)
         /\ manifest' = m /\ manifest' \in Manifests \cup {NoManifest}
<1>1. calls \in Nat /\ calls' = calls + 1
  BY DEF AnalyserTypeOK, Called
<1>2. same' \in BOOLEAN
  BY Zenon DEF Called
<1>3. lastRecords' = list /\ manifest' = m
  BY DEF Called
<1> QED BY <1>1, <1>2, <1>3

LEMMA BaselineNext ==
  ASSUME AnalyserInv, NEW list \in Seq(Records), RunBaseline(list)
  PROVE  AnalyserInv'
<1> DEFINE known == manifest # NoManifest
<1>1. /\ Called(list, manifest) /\ CountBaseline(list, manifest)
      /\ runs' = IF ~known THEN [runs EXCEPT !.unset = @ + 1] ELSE [runs EXCEPT !.set = @ + 1]
      /\ filtered' = filtered /\ filteredFor' = filteredFor
  BY DEF RunBaseline, filteredVars
<1>2. AnalyserTypeOK /\ manifest \in Manifests \cup {NoManifest}
  BY DEF AnalyserInv, AnalyserTypeOK
<1>3. /\ categories' = categories \cup TypesOf(list)
      /\ categories' \subseteq Types
      /\ baseline' \in [Types -> Nat] /\ counted' \in [Types -> Nat]
      /\ baselineFor' \in [Receivers -> [records : Nat, size : Nat]]
      /\ \A t \in Types : counted'[t] = counted[t] + Cardinality(OfType(list, t))
      /\ \A x \in Receivers :
           /\ baselineFor'[x].records = baselineFor[x].records + Copies(manifest, x) * Len(list)
           /\ baselineFor'[x].size
                = baselineFor[x].size + Copies(manifest, x) * SizeOf(list, DOMAIN list)
  BY <1>1, <1>2, BaselineCounted DEF TypesOf
<1>4. /\ calls' \in Nat /\ calls' # 0 /\ same' \in BOOLEAN
      /\ lastRecords' = list /\ lastRecords' \in Seq(Records)
      /\ manifest' = manifest
  BY <1>1, <1>2, CallMade
<1>5. /\ runs \in [unset : Nat, set : Nat, analyses : Nat]
      /\ \A t \in Types : counted[t] \in Nat
  BY <1>2 DEF AnalyserTypeOK
<1>6. /\ runs' \in [unset : Nat, set : Nat, analyses : Nat] /\ runs'.analyses = runs.analyses
      /\ known => runs'.set = runs.set + 1 /\ runs'.unset = runs.unset
      /\ ~known => runs'.set = runs.set /\ runs'.unset = runs.unset + 1
  BY <1>1, <1>5
<1>7. AnalyserTypeOK'
  BY <1>1, <1>2, <1>3, <1>4, <1>6 DEF AnalyserTypeOK
<1>8. ASSUME same' PROVE Alike'
  <2>1. /\ BaselineLike(baselineFor, counted, runs.set, runs.unset, list, manifest)
        /\ FilteredLike(filteredFor, filtered, categories, runs.analyses, list, manifest)
        /\ manifest = NoManifest => runs.set = 0 /\ runs.analyses = 0
    BY <1>1, <1>2, <1>8, CallLike
  <2>2. runs.set \in Nat /\ runs.unset \in Nat
    BY <1>5
  <2> DEFINE to2 == baselineFor'
             by2 == counted'
  <2>3. /\ \A x \in Receivers :
             /\ to2[x].records = baselineFor[x].records + Copies(manifest, x) * Len(list)
             /\ to2[x].size
                  = baselineFor[x].size + Copies(manifest, x) * SizeOf(list, DOMAIN list)
        /\ \A t \in Types : by2[t] = counted[t] + Cardinality(OfType(list, t))
    BY <1>3
  <2> HIDE DEF to2, by2
  <2>4. /\ BaselineLike(to2, by2, runs.set + 1, runs.unset, list, manifest)
        /\ manifest = NoManifest =>
             BaselineLike(to2, by2, runs.set, runs.unset + 1, list, manifest)
    BY <1>2, <1>5, <2>1, <2>2, <2>3, BaselineGrows
  <2>5. BaselineLike(to2, by2, runs'.set, runs'.unset, list, manifest)
    BY <1>6, <2>4
  <2>6. FilteredLike(filteredFor, filtered, categories', runs.analyses, list, manifest)
    BY <1>3, <2>1 DEF FilteredLike
  <2>7. BaselineLike(baselineFor, counted, runs.set, runs.unset, lastRecords, manifest)'
    BY <1>4, <2>5, Zenon DEF to2, by2
  <2>8. FilteredLike(filteredFor, filtered, categories, runs.analyses, lastRecords, manifest)'
    BY <1>1, <1>4, <1>6, <2>6, Zenon
  <2>9. manifest' = NoManifest => runs'.set = 0 /\ runs'.analyses = 0
    BY <1>4, <1>6, <2>1
  <2>10. TypesOf(lastRecords') \subseteq categories'
    BY <1>3, <1>4
  <2> QED BY <2>7, <2>8, <2>9, <2>10 DEF Alike
<1> QED BY <1>4, <1>7, <1>8 DEF AnalyserInv

LEMMA ChambersNext ==
  ASSUME AnalyserInv, NEW list \in Seq(Records), NEW m \in Manifests, RunChambers(list, m)
  PROVE  AnalyserInv'
<1>1. /\ Called(list, m) /\ CountFiltered(list, m)
      /\ \/ /\ categories = {} /\ CountBaseline(list, m)
            /\ runs' = [runs EXCEPT !.analyses = @ + 1, !.set = @ + 1]
         \/ /\ categories # {} /\ runs' = [runs EXCEPT !.analyses = @ + 1]
            /\ UNCHANGED <<categories, counted, baseline, baselineFor>>
  BY DEF RunChambers, baselineVars
<1>2. AnalyserTypeOK
  BY DEF AnalyserInv
<1>3. /\ filtered \in [Types -> Nat] /\ filtered' \in [Types -> Nat]
      /\ filteredFor \in [Receivers -> [records : Nat, size : Nat]]
      /\ filteredFor' \in [Receivers -> [records : Nat, size : Nat]]
      /\ \A t \in Types : filtered'[t] = filtered[t] + Gain(list, m, t)
      /\ \A x \in Receivers :
           /\ filteredFor'[x].records = filteredFor[x].records + Reaches(list, m, x)
           /\ filteredFor'[x].size = filteredFor[x].size + GainFor(list, m, x)
  BY <1>1, <1>2, FilteredCounted DEF AnalyserTypeOK
<1>4. /\ categories' \subseteq Types /\ categories \subseteq categories'
      /\ baseline' \in [Types -> Nat] /\ counted' \in [Types -> Nat]
      /\ baselineFor' \in [Receivers -> [records : Nat, size : Nat]]
  <2>1. CASE categories = {} /\ CountBaseline(list, m)
    BY <1>2, <2>1, BaselineCounted
  <2>2. CASE UNCHANGED <<categories, counted, baseline, baselineFor>>
    BY <1>2, <2>2 DEF AnalyserTypeOK
  <2> QED BY <1>1, <2>1, <2>2
<1>5. /\ runs \in [unset : Nat, set : Nat, analyses : Nat]
      /\ \A t \in Types : counted[t] \in Nat
  BY <1>2 DEF AnalyserTypeOK
<1>6. /\ runs' \in [unset : Nat, set : Nat, analyses : Nat]
      /\ runs'.analyses = runs.analyses + 1 /\ runs'.unset = runs.unset
      /\ \/ /\ categories = {} /\ CountBaseline(list, m) /\ runs'.set = runs.set + 1
         \/ /\ categories # {} /\ UNCHANGED <<categories, counted, baseline, baselineFor>>
            /\ runs'.set = runs.set
  <2>1. CASE /\ categories = {} /\ CountBaseline(list, m)
             /\ runs' = [runs EXCEPT !.analyses = @ + 1, !.set = @ + 1]
    <3>1. /\ runs' \in [unset : Nat, set : Nat, analyses : Nat]
          /\ runs'.analyses = runs.analyses + 1 /\ runs'.unset = runs.unset
          /\ runs'.set = runs.set + 1
      <4> DEFINE once == [runs EXCEPT !.analyses = @ + 1]
      <4>1. runs' = [once EXCEPT !.set = runs.set + 1]
        BY <2>1
      <4>2. /\ once \in [unset : Nat, set : Nat, analyses : Nat]
            /\ once.analyses = runs.analyses + 1 /\ once.unset = runs.unset
        BY <1>5
      <4>3. runs.set + 1 \in Nat
        BY <1>5
      <4> HIDE DEF once
      <4> QED BY <4>1, <4>2, <4>3
    <3> QED BY <2>1, <3>1
  <2>2. CASE /\ categories # {} /\ runs' = [runs EXCEPT !.analyses = @ + 1]
             /\ UNCHANGED <<categories, counted, baseline, baselineFor>>
    BY <1>5, <2>2
  <2> QED BY <1>1, <2>1, <2>2
<1>7. /\ calls' \in Nat /\ calls' # 0 /\ same' \in BOOLEAN
      /\ lastRecords' = list /\ lastRecords' \in Seq(Records)
      /\ manifest' = m /\ m # NoManifest
  BY <1>1, <1>2, CallMade, ResidueAssumption
<1>8. AnalyserTypeOK'
  BY <1>3, <1>4, <1>6, <1>7 DEF AnalyserTypeOK
<1>9. ASSUME same' PROVE Alike'
  <2>1. /\ BaselineLike(baselineFor, counted, runs.set, runs.unset, list, m)
        /\ FilteredLike(filteredFor, filtered, categories, runs.analyses, list, m)
        /\ categories # {} => TypesOf(list) \subseteq categories
    BY <1>1, <1>9, CallLike
  <2>2. runs.set \in Nat /\ runs.unset \in Nat /\ runs.analyses \in Nat
    BY <1>5
  <2>3. /\ TypesOf(list) \subseteq categories'
        /\ BaselineLike(baselineFor', counted', runs'.set, runs'.unset, list, m)
    <3>1. CASE categories = {} /\ CountBaseline(list, m) /\ runs'.set = runs.set + 1
      <4> DEFINE to2 == baselineFor'
                 by2 == counted'
      <4>1. /\ categories' = categories \cup TypesOf(list)
            /\ \A x \in Receivers :
                 /\ to2[x].records = baselineFor[x].records + Copies(m, x) * Len(list)
                 /\ to2[x].size
                      = baselineFor[x].size + Copies(m, x) * SizeOf(list, DOMAIN list)
            /\ \A t \in Types : by2[t] = counted[t] + Cardinality(OfType(list, t))
        BY <1>2, <3>1, BaselineCounted DEF TypesOf
      <4> HIDE DEF to2, by2
      <4>2. BaselineLike(to2, by2, runs.set + 1, runs.unset, list, m)
        BY <1>5, <2>1, <2>2, <4>1, BaselineGrows
      <4> QED BY <1>6, <3>1, <4>1, <4>2 DEF to2, by2
    <3>2. CASE /\ categories # {} /\ UNCHANGED <<categories, counted, baseline, baselineFor>>
               /\ runs'.set = runs.set
      BY <1>6, <2>1, <3>2
    <3> QED BY <1>6, <3>1, <3>2
  <2>4. FilteredLike(filteredFor', filtered', categories', runs'.analyses, list, m)
    <3> DEFINE to2 == filteredFor'
               by2 == filtered'
               met2 == categories'
    <3>1. /\ \A t \in Types : by2[t] = filtered[t] + Gain(list, m, t)
          /\ \A x \in Receivers :
               /\ to2[x].records = filteredFor[x].records + Reaches(list, m, x)
               /\ to2[x].size = filteredFor[x].size + GainFor(list, m, x)
          /\ categories \subseteq met2 /\ TypesOf(list) \subseteq met2
      BY <1>3, <1>4, <2>3
    <3>2. /\ filtered \in [Types -> Nat]
          /\ filteredFor \in [Receivers -> [records : Nat, size : Nat]]
      BY <1>3
    <3> HIDE DEF to2, by2, met2
    <3>3. FilteredLike(to2, by2, met2, runs.analyses + 1, list, m)
      BY <2>1, <2>2, <3>1, <3>2, FilteredGrows
    <3> QED BY <1>6, <3>3 DEF to2, by2, met2
  <2>5. BaselineLike(baselineFor, counted, runs.set, runs.unset, lastRecords, manifest)'
    BY <1>7, <2>3, Zenon
  <2>6. FilteredLike(filteredFor, filtered, categories, runs.analyses, lastRecords, manifest)'
    BY <1>7, <2>4, Zenon
  <2>7. TypesOf(lastRecords') \subseteq categories' /\ manifest' # NoManifest
    BY <1>7, <2>3
  <2> QED BY <2>5, <2>6, <2>7 DEF Alike
<1> QED BY <1>7, <1>8, <1>9 DEF AnalyserInv

LEMMA RaisedNext ==
  ASSUME AnalyserInv, NEW list \in Seq(Records), NEW m \in Manifests,
         RunChambersRaises(list, m)
  PROVE  AnalyserInv'
<1>1. /\ calls' = calls + 1 /\ lastRecords' = list /\ manifest' = m /\ same' = FALSE
      /\ CountFiltered(list, m) /\ UNCHANGED <<runs, categories, counted, baseline, baselineFor>>
  BY DEF RunChambersRaises, baselineVars
<1>2. AnalyserTypeOK
  BY DEF AnalyserInv
<1>3. /\ filtered' \in [Types -> Nat]
      /\ filteredFor' \in [Receivers -> [records : Nat, size : Nat]]
  BY <1>1, <1>2, FilteredCounted
<1>4. lastRecords' \in Seq(Records) /\ manifest' \in Manifests \cup {NoManifest}
  BY <1>1
<1>5. calls' \in Nat /\ calls' # 0
  BY <1>1, <1>2 DEF AnalyserTypeOK
<1>6. same' \in BOOLEAN
  BY <1>1
<1>7. /\ categories' \subseteq Types /\ runs' \in [unset : Nat, set : Nat, analyses : Nat]
      /\ counted' \in [Types -> Nat] /\ baseline' \in [Types -> Nat]
      /\ baselineFor' \in [Receivers -> [records : Nat, size : Nat]]
  BY <1>1, <1>2 DEF AnalyserTypeOK
<1>8. AnalyserTypeOK'
  BY <1>3, <1>4, <1>5, <1>6, <1>7 DEF AnalyserTypeOK
<1> QED BY <1>1, <1>5, <1>8 DEF AnalyserInv

LEMMA AnalyserStep ==
  ASSUME AnalyserInv, ControlInv, [ProcessNext]_processVars
  PROVE  AnalyserInv'
<1>1. CASE Analyserwise
  <2>1. PICK list \in Analyses :
          \/ RunBaseline(list)
          \/ \E m \in Manifests : RunChambers(list, m) \/ RunChambersRaises(list, m)
    BY <1>1 DEF Analyserwise, AnalyserNext
  <2>2. list \in Seq(Records)
    BY ResidueAssumption
  <2> QED BY <2>1, <2>2, BaselineNext, ChambersNext, RaisedNext
<1>2. CASE Analyse
  <2>1. handed \in Seq(Records) /\ loaded \in Manifests
    BY <1>2 DEF Analyse, ControlInv
  <2>2. RunChambers(handed, loaded) \/ RunChambersRaises(handed, loaded)
    BY <1>2 DEF Analyse
  <2> QED BY <2>1, <2>2, ChambersNext, RaisedNext
<1>3. ASSUME UNCHANGED analyserVars PROVE AnalyserInv'
  <2>1. /\ UNCHANGED <<lastRecords, manifest, categories, counted, baseline, baselineFor>>
        /\ UNCHANGED <<filtered, filteredFor, calls, runs, same>>
    BY <1>3 DEF analyserVars, baselineVars, filteredVars
  <2>2. AnalyserTypeOK' = AnalyserTypeOK /\ Uncounted' = Uncounted
    BY <2>1 DEF AnalyserTypeOK, Uncounted
  <2>3. Alike' = Alike
    BY <2>1 DEF Alike
  <2> QED BY <2>1, <2>2, <2>3 DEF AnalyserInv
<1>4. ASSUME CliNext, ~Analyse PROVE UNCHANGED analyserVars
  BY <1>4 DEF CliNext, Load, Connect, SetUp, Adapter, Start, Deliver, Generate, Send, RunEnds,
              End, Summarise, WriteReport, AnalyserRests
<1> QED BY <1>1, <1>2, <1>3, <1>4
        DEF ProcessNext, processVars, Sessionwise, Commandwise

LEMMA AnalyserFresh ==
  ASSUME AnalyserInit
  PROVE  AnalyserInv
<1>1. /\ lastRecords = <<>> /\ manifest = NoManifest /\ categories = {} /\ calls = 0
      /\ runs = [unset |-> 0, set |-> 0, analyses |-> 0] /\ same = TRUE
      /\ counted = [t \in Types |-> 0]
      /\ baseline = [t \in Types |-> 0] /\ filtered = [t \in Types |-> 0]
      /\ baselineFor = [x \in Receivers |-> [records |-> 0, size |-> 0]]
      /\ filteredFor = [x \in Receivers |-> [records |-> 0, size |-> 0]]
  BY DEF AnalyserInit
<1>2. AnalyserTypeOK
  BY <1>1 DEF AnalyserTypeOK
<1>3. Uncounted
  BY <1>1 DEF Uncounted
<1>4. /\ runs.set = 0 /\ runs.unset = 0 /\ runs.analyses = 0
      /\ lastRecords \in Seq(Records) /\ manifest \in Manifests \cup {NoManifest}
  BY <1>1
<1>5. /\ BaselineLike(baselineFor, counted, 0, 0, lastRecords, manifest)
      /\ FilteredLike(filteredFor, filtered, categories, 0, lastRecords, manifest)
  BY <1>3, <1>4, UncountedLike
<1>6. Alike
  BY <1>1, <1>4, <1>5 DEF Alike
<1> QED BY <1>2, <1>3, <1>6 DEF AnalyserInv

LEMMA AnalyserHolds == ProcessSpec => []AnalyserInv
<1>1. ProcessInit => AnalyserInv
  BY AnalyserFresh DEF ProcessInit
<1>2. AnalyserInv /\ ControlInv /\ [ProcessNext]_processVars => AnalyserInv'
  BY AnalyserStep
<1>3. ProcessSpec => ProcessInit /\ [][ProcessNext]_processVars
  BY PTL DEF ProcessSpec, ProcessNext, processVars
<1> QED BY <1>1, <1>2, <1>3, ControlHolds, PTL

(* What the report of an analyser used for one list and one manifest       *)
(* compares: every recipient against the records reported, once for each   *)
(* baseline run, with no more than that many sent to it for each analysis, *)
(* and categories that add up, for any list and any manifest and in any    *)
(* order of the calls (data_residue.py: run_chambers, run_baseline,        *)
(* compare).                                                               *)
THEOREM ComparesLikeWithLike == ProcessSpec => []LikeWithLike
<1>1. AnalyserInv => LikeWithLike
  BY ComparedLike
<1> QED BY <1>1, AnalyserHolds, PTL

(* The types of the gateway, of the analyser and of the commands, in all   *)
(* programs (sim_gateway.py, data_residue.py, cli.py).                     *)
THEOREM ProgramsTyped == ProcessSpec => []ProcessTypeOK
<1>1. LogInv /\ AnswerInv => TypeOK
  BY GatewayTyped
<1>2. AnalyserInv => AnalyserTypeOK
  BY DEF AnalyserInv
<1>3. ControlInv => CliTypeOK
  BY DEF ControlInv, CliTypeOK
<1>4. LogInv /\ AnswerInv /\ AnalyserInv /\ ControlInv => ProcessTypeOK
  BY <1>1, <1>2, <1>3 DEF ProcessTypeOK
<1> QED BY <1>4, ProgramsDriveGateway, AnswerInvariant, AnalyserHolds, ControlHolds, PTL

-----------------------------------------------------------------------------
(* The reports.  A running command has sent its gateway the records handed *)
(* to it so far, in their order, but for the rest of the current batch;    *)
(* the session's counters are those of these records, and none of them has *)
(* raised.  The residue report of demo counts the same records.            *)
Counts(m, list, x) == [n \in DOMAIN list |-> Cardinality(PositionsOf(m, x, list[n]))]

Unraised(m, list, k) == \A n \in 1 .. k : RaisesAt(NewState(m), list[n]) = {}

Accounted(state, m, list, k) ==
  /\ state \in State /\ state.manifest = m /\ state.revoked = {}
  /\ state.generated = k /\ state.transmitted + state.blocked = k * Len(m)
  /\ \A x \in Stakeholders :
       state.sentTo[x] = SumFunctionOnSet(Counts(m, list, x), 1 .. k)
  /\ Unraised(m, list, k)

Sent == Len(handed) - Len(batch)

Running ==
  /\ program # "residue" /\ printed = Unwritten /\ report = Unwritten
  /\ Sent \in Nat /\ \A i \in 1 .. Len(batch) : batch[i] = handed[Sent + i]
  /\ Accounted(sessions[mine], loaded, handed, Sent)
  /\ at # "send" => batch = <<>>
  /\ at = "summary" => sessions[mine].ended

Summed ==
  /\ mine \in Sessions /\ loaded \in Manifests
  /\ sessions[mine].ended
  /\ Accounted(sessions[mine], loaded, handed, Len(handed))
  /\ printed.records = Len(handed) /\ printed.burned = Len(handed)
  /\ printed.transmitted + printed.blocked = Len(handed) * Len(loaded)
  /\ printed.sentTo = sessions[mine].sentTo

Idle == calls = 0 /\ runs.analyses = 0

Analysed ==
  program = "demo" =>
    /\ calls = runs.analyses
    /\ at = "report" =>
         /\ lastRecords = handed
         /\ \A x \in Stakeholders : filteredFor[x].records
              = SumFunctionOnSet(Counts(loaded, handed, x), DOMAIN handed)
    /\ report # Unwritten =>
         /\ report.records = Len(handed)
         /\ report.sentTo = [x \in Stakeholders |->
              SumFunctionOnSet(Counts(loaded, handed, x), DOMAIN handed)]

CommandInv ==
  /\ at \in {"load", "connect", "start"} =>
       /\ batch = <<>> /\ handed = <<>> /\ printed = Unwritten /\ report = Unwritten
       /\ at # "load" => program # "residue"
  /\ at \in {"setup", "run", "send", "end", "summary"} => Running
  /\ (\/ printed # Unwritten
      \/ program # "residue" /\ at \in {"analyse", "report", "done"}) => Summed
  /\ at \notin {"report", "done", "crashed"} => Idle
  /\ report # Unwritten => at = "done"
  /\ Analysed

ReportInv ==
  IF process = "cli" THEN CommandInv
  ELSE at = "load" /\ printed = Unwritten /\ report = Unwritten

(* Before anything is revoked, a session treats records as a new one.      *)
LEMMA UnrevokedIsNew ==
  ASSUME NEW state, NEW m, state.manifest = m, state.revoked = {}, NEW r
  PROVE  Withheld(state, r) = Withheld(NewState(m), r)
      /\ RaisesAt(state, r) = RaisesAt(NewState(m), r)
<1> DEFINE new == NewState(m)
<1>1. new.manifest = m /\ new.revoked = {}
  BY DEF NewState
<1> HIDE DEF new
<1>2. Withheld(state, r) = Withheld(new, r)
  BY <1>1 DEF Withheld
<1>3. RaisesAt(state, r) = RaisesAt(new, r)
  BY <1>1, <1>2 DEF RaisesAt, CategoryOf
<1> QED BY <1>2, <1>3 DEF new

LEMMA PositionsOK ==
  ASSUME NEW m \in Manifests, NEW x, NEW r
  PROVE  Cardinality(PositionsOf(m, x, r)) \in Nat
<1>1. PositionsOf(m, x, r) \subseteq DOMAIN m
  BY DEF PositionsOf, SentTo
<1> QED BY <1>1, PositionsFinite, LocalAssumption

(* No record has been sent yet.                                            *)
LEMMA AccountedNone ==
  ASSUME NEW m \in Manifests, NEW list
  PROVE  Accounted(NewState(m), m, list, 0)
<1> DEFINE new == NewState(m)
<1>1. /\ new.manifest = m /\ new.revoked = {} /\ new.generated = 0
      /\ new.transmitted = 0 /\ new.blocked = 0
      /\ \A x \in Stakeholders : new.sentTo[x] = 0
  BY DEF NewState
<1>2. new \in State
  BY NewStateOK
<1>3. Len(m) \in Nat
  BY LocalAssumption
<1>4. \A x \in Stakeholders : SumFunctionOnSet(Counts(m, list, x), 1 .. 0) = 0
  <2>1. 1 .. 0 = {}
    OBVIOUS
  <2> QED BY <2>1, SumEmpty
<1>5. Unraised(m, list, 0)
  BY DEF Unraised
<1>6. 0 + 0 = 0 * Len(m)
  BY <1>3
<1> HIDE DEF new
<1>7. Accounted(new, m, list, 0)
  BY <1>1, <1>2, <1>4, <1>5, <1>6 DEF Accounted
<1> QED BY <1>7 DEF new

(* More records have been handed over.                                     *)
LEMMA AccountedLonger ==
  ASSUME NEW m \in Manifests, NEW list \in Seq(Records), NEW more \in Seq(Records),
         NEW k \in Nat, k <= Len(list), NEW state, Accounted(state, m, list, k)
  PROVE  Accounted(state, m, list \o more, k)
<1> DEFINE long == list \o more
<1>1. \A n \in 1 .. k : long[n] = list[n] /\ n \in DOMAIN list /\ n \in DOMAIN long
  OBVIOUS
<1>2. IsFiniteSet(1 .. k)
  BY FS_Interval
<1> HIDE DEF long
<1>3. ASSUME NEW x \in Stakeholders
      PROVE  SumFunctionOnSet(Counts(m, list, x), 1 .. k)
               = SumFunctionOnSet(Counts(m, long, x), 1 .. k)
  <2> DEFINE f == Counts(m, list, x)
             g == Counts(m, long, x)
  <2>1. \A n \in 1 .. k : f[n] = Cardinality(PositionsOf(m, x, list[n])) /\ g[n] = f[n]
    BY <1>1 DEF Counts
  <2>2. \A n \in 1 .. k : f[n] \in Nat /\ g[n] = f[n]
    BY <2>1, PositionsOK
  <2> HIDE DEF f, g
  <2>3. SumFunctionOnSet(f, 1 .. k) = SumFunctionOnSet(g, 1 .. k)
    BY <1>2, <2>2, SumCongruent
  <2> QED BY <2>3 DEF f, g
<1>4. Unraised(m, long, k)
  BY <1>1 DEF Unraised, Accounted
<1>5. Accounted(state, m, long, k)
  BY <1>3, <1>4 DEF Accounted
<1> QED BY <1>5 DEF long

(* One more record has been sent: it is counted once for every entry of    *)
(* the manifest, as sent or as withheld.                                   *)
LEMMA SendSplits ==
  ASSUME NEW m \in Manifests, NEW P, P \subseteq DOMAIN m
  PROVE  Cardinality(DOMAIN m \ P) + Cardinality(P) = Len(m)
<1>1. Len(m) \in Nat /\ DOMAIN m = 1 .. Len(m)
  BY LocalAssumption
<1>2. IsFiniteSet(DOMAIN m) /\ Cardinality(DOMAIN m) = Len(m)
  <2>1. IsFiniteSet(1 .. Len(m)) /\ Cardinality(1 .. Len(m)) = Len(m)
    BY <1>1, FS_Interval
  <2> QED BY <1>1, <2>1
<1>3. IsFiniteSet(P) /\ Cardinality(P) \in Nat /\ Cardinality(DOMAIN m \ P) \in Nat
  BY PositionsFinite, LocalAssumption
<1> DEFINE d == DOMAIN m
           a == Cardinality(d \ P)
           b == Cardinality(P)
<1>4. d \cap P = P
  OBVIOUS
<1> HIDE DEF d
<1>5. a = Cardinality(d) - Cardinality(d \cap P)
  BY <1>2, FS_Difference DEF d
<1>6. Cardinality(d \cap P) = b
  BY <1>4, Zenon
<1>7. a \in Nat /\ b \in Nat /\ Cardinality(d) = Len(m)
  BY <1>2, <1>3 DEF d
<1> HIDE DEF a, b
<1>8. a + b = Len(m)
  BY <1>1, <1>5, <1>6, <1>7
<1> QED BY <1>8 DEF a, b, d

LEMMA AccountedNext ==
  ASSUME NEW m \in Manifests, NEW list \in Seq(Records), NEW k \in Nat, k < Len(list),
         NEW state, Accounted(state, m, list, k),
         NEW r, r = list[k + 1], RaisesAt(state, r) = {},
         NEW new, new \in State, new.manifest = m, new.revoked = {},
         new.generated = state.generated + 1,
         new.transmitted = state.transmitted + Cardinality(DOMAIN m \ Withheld(state, r)),
         new.blocked = state.blocked + Cardinality(Withheld(state, r)),
         new.sentTo = CountFor(state.sentTo, m, DOMAIN m \ Withheld(state, r))
  PROVE  Accounted(new, m, list, k + 1)
<1> DEFINE held == Withheld(state, r)
<1>1. /\ state \in State /\ state.manifest = m /\ state.revoked = {} /\ state.generated = k
      /\ state.transmitted + state.blocked = k * Len(m) /\ Unraised(m, list, k)
      /\ \A x \in Stakeholders :
           state.sentTo[x] = SumFunctionOnSet(Counts(m, list, x), 1 .. k)
  BY DEF Accounted
<1>2. held \subseteq DOMAIN m /\ held = Withheld(NewState(m), r)
      /\ RaisesAt(NewState(m), r) = {}
  <2>1. held \subseteq DOMAIN m
    BY <1>1 DEF Withheld
  <2> QED BY <1>1, <2>1, UnrevokedIsNew
<1>3. Unraised(m, list, k + 1)
  <2>1. \A n \in 1 .. k + 1 : n \in 1 .. k \/ n = k + 1
    OBVIOUS
  <2>2. \A n \in 1 .. k : RaisesAt(NewState(m), list[n]) = {}
    BY <1>1 DEF Unraised
  <2>3. RaisesAt(NewState(m), list[k + 1]) = {}
    BY <1>2
  <2> QED BY <2>1, <2>2, <2>3, Zenon DEF Unraised
<1>4. new.transmitted + new.blocked = (k + 1) * Len(m)
  <2> DEFINE a == Cardinality(DOMAIN m \ held)
             b == Cardinality(held)
  <2>1. a \in Nat /\ b \in Nat
    BY <1>2, PositionsFinite, LocalAssumption
  <2>2. a + b = Len(m) /\ Len(m) \in Nat
    BY <1>2, SendSplits, LocalAssumption
  <2>3. state.transmitted \in Nat /\ state.blocked \in Nat
    BY <1>1, StateCounts
  <2>4. new.transmitted = state.transmitted + a /\ new.blocked = state.blocked + b
    OBVIOUS
  <2> HIDE DEF a, b, held
  <2>5. new.transmitted + new.blocked = (state.transmitted + state.blocked) + (a + b)
    BY <2>1, <2>3, <2>4
  <2>6. k * Len(m) + Len(m) = (k + 1) * Len(m)
    BY <2>2
  <2> QED BY <1>1, <2>2, <2>5, <2>6
<1>5. ASSUME NEW x \in Stakeholders
      PROVE  new.sentTo[x] = SumFunctionOnSet(Counts(m, list, x), 1 .. k + 1)
  <2> DEFINE f == Counts(m, list, x)
             S == 1 .. k + 1
             c == Cardinality(PositionsOf(m, x, r))
  <2>1. {i \in DOMAIN m \ held : m[i].id = x} = PositionsOf(m, x, r)
    BY <1>2 DEF PositionsOf, SentTo
  <2>2. new.sentTo[x] = state.sentTo[x] + c
    BY <2>1 DEF CountFor
  <2>3. \A n \in S : n \in DOMAIN list
    OBVIOUS
  <2>4. \A n \in S : f[n] = Cardinality(PositionsOf(m, x, list[n]))
    BY <2>3 DEF Counts
  <2>5. \A n \in S : f[n] \in Nat
    BY <2>4, PositionsOK
  <2>6. k + 1 \in S /\ f[k + 1] = c
    BY <2>4
  <2> DEFINE A == 1 .. k
  <2>7. A \in SUBSET S /\ k + 1 \in S \ A /\ S = A \cup {k + 1}
    OBVIOUS
  <2>8. IsFiniteSet(S)
    <3>1. k + 1 \in Int /\ 1 \in Int
      OBVIOUS
    <3> QED BY <3>1, FS_Interval
  <2>9. state.sentTo[x] = SumFunctionOnSet(f, A)
    BY <1>1
  <2> HIDE DEF f, S, c, A
  <2>10. SumFunctionOnSet(f, A \cup {k + 1}) = SumFunctionOnSet(f, A) + f[k + 1]
    BY <2>5, <2>7, <2>8, SumGrow
  <2>11. SumFunctionOnSet(f, S) = SumFunctionOnSet(f, A \cup {k + 1})
    BY <2>7, Zenon
  <2>12. new.sentTo[x] = SumFunctionOnSet(f, S)
    BY <2>2, <2>6, <2>9, <2>10, <2>11
  <2> QED BY <2>12 DEF f, S
<1>6. new.generated = k + 1
  BY <1>1
<1> QED BY <1>3, <1>4, <1>5, <1>6 DEF Accounted

LEMMA AccountedEnd ==
  ASSUME NEW m, NEW list, NEW k, NEW state, Accounted(state, m, list, k)
  PROVE  Accounted([state EXCEPT !.ended = TRUE], m, list, k)
<1> DEFINE new == [state EXCEPT !.ended = TRUE]
<1>1. state \in State
  BY DEF Accounted
<1>2. /\ new \in State /\ new.manifest = state.manifest /\ new.revoked = state.revoked
      /\ new.generated = state.generated /\ new.transmitted = state.transmitted
      /\ new.blocked = state.blocked /\ new.sentTo = state.sentTo
  BY <1>1 DEF State
<1> HIDE DEF new
<1>3. Accounted(new, m, list, k)
  BY <1>2 DEF Accounted
<1> QED BY <1>3 DEF new

(* Records that a session got through are got through again by the second  *)
(* gateway, which sends them to the same stakeholders.                     *)
LEMMA NoneRaisesAgain ==
  ASSUME NEW m \in Manifests, NEW list \in Seq(Records), Unraised(m, list, Len(list))
  PROVE  /\ BeforeRaise(list, m) = DOMAIN list
         /\ \A x : Reaches(list, m, x) = SumFunctionOnSet(Counts(m, list, x), DOMAIN list)
<1>1. BeforeRaise(list, m) = DOMAIN list
  <2>1. \A n \in DOMAIN list : \A k \in 1 .. n : k \in 1 .. Len(list)
    OBVIOUS
  <2>2. \A n \in DOMAIN list : \A k \in 1 .. n : RaisesAt(NewState(m), list[k]) = {}
    BY <2>1 DEF Unraised
  <2> QED BY <2>2 DEF BeforeRaise
<1>2. ASSUME NEW x
      PROVE  Reaches(list, m, x) = SumFunctionOnSet(Counts(m, list, x), DOMAIN list)
  <2> DEFINE f == Counts(m, list, x)
  <2>1. Reaches(list, m, x) = SumFunction(f) /\ DOMAIN f = DOMAIN list
    BY <1>1 DEF Reaches, Counts
  <2> HIDE DEF f
  <2>2. SumFunction(f) = SumFunctionOnSet(f, DOMAIN list)
    BY <2>1, SumFunctionIs
  <2> QED BY <2>1, <2>2 DEF f
<1> QED BY <1>1, <1>2

(* What a command relies on stays so while its session and records do.     *)
LEMMA SummedStays ==
  ASSUME Summed, UNCHANGED <<sessions, mine, loaded, handed, printed>>
  PROVE  Summed'
BY DEF Summed

LEMMA RunningStays ==
  ASSUME Running, UNCHANGED <<program, printed, report, sessions, mine, loaded, handed, batch>>,
         at \in {"setup", "run"}, at' \in {"run", "end"}
  PROVE  Running'
BY DEF Running, Sent

(* The records handed over come after those already sent.                  *)
LEMMA HandedOver ==
  ASSUME ControlInv, Running, at = "run", batch' \in Seq(Records), handed' = handed \o batch',
         at' \in {"run", "send"}, at' = "run" => batch' = <<>>,
         UNCHANGED <<program, printed, report, sessions, mine, loaded>>
  PROVE  Running'
<1>1. /\ handed \in Seq(Records) /\ batch = <<>> /\ loaded \in Manifests
      /\ Accounted(sessions[mine], loaded, handed, Sent)
  BY DEF ControlInv, Running
<1>2. Sent = Len(handed) /\ Len(handed) \in Nat
  BY <1>1 DEF Sent
<1>3. Sent' = Len(handed) /\ \A i \in 1 .. Len(batch') : batch'[i] = handed'[Len(handed) + i]
  BY <1>1 DEF Sent
<1>4. Accounted(sessions[mine], loaded, handed \o batch', Len(handed))
  <2> DEFINE more == batch'
             k == Len(handed)
             state == sessions[mine]
  <2>1. more \in Seq(Records) /\ k \in Nat /\ k <= Len(handed)
        /\ Accounted(state, loaded, handed, k)
    BY <1>1, <1>2
  <2> HIDE DEF more, k, state
  <2>2. Accounted(state, loaded, handed \o more, k)
    BY <1>1, <2>1, AccountedLonger
  <2> QED BY <2>2 DEF more, k, state
<1> QED BY <1>2, <1>3, <1>4 DEF Running

(* The state of a session after a record none of whose views raises.       *)
CountedOnce(state, r, new) ==
  /\ RaisesAt(state, r) = {}
  /\ new \in State /\ new.manifest = state.manifest /\ new.revoked = state.revoked
  /\ new.generated = state.generated + 1
  /\ new.transmitted
       = state.transmitted + Cardinality(DOMAIN state.manifest \ Withheld(state, r))
  /\ new.blocked = state.blocked + Cardinality(Withheld(state, r))
  /\ new.sentTo = CountFor(state.sentTo, state.manifest,
                           DOMAIN state.manifest \ Withheld(state, r))

LEMMA RecordCounted ==
  ASSUME TypeInv, NEW s \in Sessions, NEW r, ProcessRecord(s, r),
         NEW state, state = sessions[s], state \in State, NEW new, new = sessions'[s]
  PROVE  CountedOnce(state, r, new)
<1> DEFINE m == state.manifest
           held == Withheld(state, r)
           sent == DOMAIN m \ held
           g == state.generated + 1
           t == state.transmitted + Cardinality(sent)
           b == state.blocked + Cardinality(held)
           to == CountFor(state.sentTo, m, sent)
           for == CountFor(state.blockedFor, m, held)
           y == WithCounts(state, g, t, b, to, for)
<1>1. RaisesAt(state, r) = {}
      /\ sessions' = [sessions EXCEPT
           ![s].generated = @ + 1,
           ![s].transmitted = @ + Cardinality(sent),
           ![s].blocked = @ + Cardinality(held),
           ![s].sentTo = CountFor(@, m, sent),
           ![s].blockedFor = CountFor(@, m, held)]
  BY DEF ProcessRecord
<1>2. sessions \in [Sessions -> State \cup {None}]
  BY DEF TypeInv
<1>3. m \in Manifests /\ sent \subseteq DOMAIN m /\ held \subseteq DOMAIN m
  BY StateCounts DEF Withheld
<1>4. new = y
  <2> HIDE DEF held, sent
  <2> QED BY <1>1, <1>2, Zenon DEF WithCounts
<1>5. Cardinality(sent) \in Nat /\ Cardinality(held) \in Nat
  BY <1>3, PositionsFinite, LocalAssumption
<1>6. {g, t, b} \subseteq Nat
  BY <1>5, StateCounts
<1>7. to \in [Stakeholders -> Nat] /\ for \in [Stakeholders -> Nat]
  BY <1>3, StateCounts, CountForOK, LocalAssumption
<1> HIDE DEF g, t, b, to, for
<1>8. y \in State
  BY <1>6, <1>7, CountsState
<1>9. /\ y.manifest = m /\ y.revoked = state.revoked /\ y.generated = g
      /\ y.transmitted = t /\ y.blocked = b /\ y.sentTo = to
  BY DEF WithCounts, State
<1> HIDE DEF y
<1> QED BY <1>1, <1>4, <1>8, <1>9 DEF g, t, b, to, CountedOnce

LEMMA RecordSent ==
  ASSUME TypeInv, ControlInv, Running, at = "send", ProcessRecord(mine, Head(batch)),
         batch' = Tail(batch), at' = (IF Len(batch) = 1 THEN "run" ELSE "send"),
         UNCHANGED <<program, printed, report, mine, loaded, handed>>
  PROVE  Running'
<1> DEFINE k == Sent
           m == loaded
           state == sessions[mine]
           new == sessions'[mine]
           r == Head(batch)
<1>1. /\ handed \in Seq(Records) /\ batch \in Seq(Records) /\ batch # <<>>
      /\ mine \in Sessions /\ loaded \in Manifests
  BY DEF ControlInv
<1>2. k \in Nat /\ \A i \in 1 .. Len(batch) : batch[i] = handed[k + i]
  BY DEF Running
<1>3. Len(batch) \in Nat /\ Len(batch) # 0 /\ k = Len(handed) - Len(batch) /\ Len(handed) \in Nat
  BY <1>1, EmptySeq DEF Sent
<1>4. r = handed[k + 1] /\ k < Len(handed)
  BY <1>1, <1>2, <1>3
<1>5. Len(Tail(batch)) = Len(batch) - 1
      /\ \A i \in 1 .. Len(Tail(batch)) : Tail(batch)[i] = batch[i + 1]
  BY <1>1, <1>3
<1>6. Sent' = k + 1
  BY <1>3, <1>5 DEF Sent
<1>7. \A i \in 1 .. Len(batch') : batch'[i] = handed'[Sent' + i]
  <2> SUFFICES ASSUME NEW i \in 1 .. Len(batch') PROVE batch'[i] = handed'[Sent' + i]
    OBVIOUS
  <2>1. i + 1 \in 1 .. Len(batch) /\ batch'[i] = batch[i + 1]
    BY <1>3, <1>5
  <2>2. batch[i + 1] = handed[k + (i + 1)]
    BY <1>2, <2>1
  <2>3. k + (i + 1) = (k + 1) + i
    BY <1>2
  <2> QED BY <1>6, <2>1, <2>2, <2>3
<1>8. Accounted(state, m, handed, k)
  BY DEF Running
<1>9. state \in State /\ state.manifest = m /\ state.revoked = {}
  BY <1>8 DEF Accounted
<1>10. Accounted(new, m, handed, k + 1)
  <2>1. ProcessRecord(mine, r)
    OBVIOUS
  <2> HIDE DEF k, state, new, r
  <2>2. state = sessions[mine] /\ new = sessions'[mine]
    BY DEF state, new
  <2>3. /\ RaisesAt(state, r) = {}
        /\ new \in State /\ new.manifest = state.manifest /\ new.revoked = state.revoked
        /\ new.generated = state.generated + 1
        /\ new.transmitted
             = state.transmitted + Cardinality(DOMAIN state.manifest \ Withheld(state, r))
        /\ new.blocked = state.blocked + Cardinality(Withheld(state, r))
        /\ new.sentTo = CountFor(state.sentTo, state.manifest,
                                 DOMAIN state.manifest \ Withheld(state, r))
    <3>1. CountedOnce(state, r, new)
      BY <1>1, <1>9, <2>1, <2>2, RecordCounted
    <3> QED BY <3>1 DEF CountedOnce
  <2>4. k \in Nat
    BY <1>2
  <2> QED BY <1>1, <1>4, <1>8, <1>9, <2>3, <2>4, AccountedNext
<1>11. at' # "send" => batch' = <<>>
  <2>1. ASSUME at' # "send" PROVE batch' = <<>>
    <3>1. Len(Tail(batch)) = 0
      BY <1>3, <1>5, <2>1
    <3>2. Tail(batch) \in Seq(Records)
      BY <1>1, <1>3
    <3> QED BY <3>1, <3>2, EmptySeq
  <2> QED BY <2>1
<1>12. at' # "summary"
  OBVIOUS
<1>13. Accounted(sessions[mine], loaded, handed, Sent)'
  BY <1>6, <1>10
<1> QED BY <1>2, <1>6, <1>7, <1>11, <1>12, <1>13 DEF Running

LEMMA SessionStarted ==
  ASSUME TypeInv, ControlInv, CommandInv, Start
  PROVE  Running'
<1>1. /\ at = "start" /\ loaded \in Manifests
      /\ batch = <<>> /\ handed = <<>> /\ printed = Unwritten /\ report = Unwritten
      /\ program # "residue"
  BY DEF Start, ControlInv, CommandInv
<1>2. /\ \E s \in Sessions : StartSession(s, loaded) /\ mine' = s
      /\ at' \in {"setup", "run"}
      /\ UNCHANGED <<program, output, loaded, turn, batch, handed, printed, report>>
  BY DEF Start
<1>3. PICK s \in Sessions : StartSession(s, loaded) /\ mine' = s
  BY <1>2
<1>4. sessions'[mine'] = NewState(loaded)
  BY <1>3 DEF StartSession, TypeInv
<1>5. Accounted(NewState(loaded), loaded, handed, 0)
  BY <1>1, AccountedNone
<1>6. Sent' = 0 /\ Len(batch') = 0
  BY <1>1, <1>2 DEF Sent
<1>7. Accounted(sessions[mine], loaded, handed, Sent)'
  BY <1>2, <1>4, <1>5, <1>6
<1>8. \A i \in 1 .. Len(batch') : batch'[i] = handed'[Sent' + i]
  BY <1>6
<1> QED BY <1>1, <1>2, <1>6, <1>7, <1>8 DEF Running

LEMMA SessionEnded ==
  ASSUME TypeInv, ControlInv, Running, End
  PROVE  Running'
<1> DEFINE x == sessions[mine]
           new == [x EXCEPT !.ended = TRUE]
<1>1. /\ at = "end" /\ at' = "summary" /\ mine \in Sessions
      /\ UNCHANGED <<program, output, loaded, mine, turn, batch, handed, printed, report>>
      /\ sessions' = [sessions EXCEPT ![mine].ended = TRUE]
  BY DEF End, EndSession, ControlInv
<1>2. Accounted(x, loaded, handed, Sent) /\ Sent \in Nat /\ batch = <<>>
      /\ \A i \in 1 .. Len(batch) : batch[i] = handed[Sent + i]
  BY <1>1 DEF Running
<1>3. sessions'[mine] = new
  BY <1>1 DEF TypeInv
<1>4. new.ended
  BY <1>2 DEF Accounted, State
<1>5. Accounted(new, loaded, handed, Sent)
  <2> HIDE DEF x
  <2> QED BY <1>2, AccountedEnd
<1> HIDE DEF new, x
<1>6. Sent' = Sent /\ mine' = mine
  BY <1>1 DEF Sent
<1>7. Accounted(sessions[mine], loaded, handed, Sent)'
  BY <1>1, <1>3, <1>5, <1>6
<1>8. sessions'[mine'].ended
  BY <1>3, <1>4, <1>6
<1> QED BY <1>1, <1>2, <1>6, <1>7, <1>8 DEF Running

LEMMA SummaryPrinted ==
  ASSUME ControlInv, Running, Summarise
  PROVE  Summed'
<1>1. /\ at = "summary" /\ mine \in Sessions /\ loaded \in Manifests
      /\ printed' = [records |-> sessions[mine].generated, burned |-> RecordsBurned(mine),
                     transmitted |-> sessions[mine].transmitted,
                     blocked |-> sessions[mine].blocked, sentTo |-> sessions[mine].sentTo]
      /\ UNCHANGED <<loaded, mine, handed, sessions>>
  BY DEF Summarise, ControlInv, GatewayRests, localVars
<1>2. /\ batch = <<>> /\ sessions[mine].ended
      /\ Accounted(sessions[mine], loaded, handed, Sent)
  BY <1>1 DEF Running
<1>3. Sent = Len(handed)
  BY <1>2 DEF Sent, ControlInv
<1>4. /\ sessions[mine].generated = Len(handed)
      /\ sessions[mine].transmitted + sessions[mine].blocked = Len(handed) * Len(loaded)
      /\ RecordsBurned(mine) = Len(handed)
  BY <1>2, <1>3 DEF Accounted, RecordsBurned
<1>5. Accounted(sessions[mine], loaded, handed, Len(handed))'
  BY <1>1, <1>2, <1>3
<1> QED BY <1>1, <1>2, <1>4, <1>5 DEF Summed

(* The records of demo do not raise in the analysis, and what it counts is *)
(* what the session counted.                                               *)
LEMMA DemoAnalysed ==
  ASSUME ControlInv, AnalyserInv, Summed, Idle, Analyse
  PROVE  /\ at' = "report" /\ calls' = runs'.analyses /\ lastRecords' = handed
         /\ \A x \in Stakeholders :
              filteredFor'[x].records
                = SumFunctionOnSet(Counts(loaded, handed, x), DOMAIN handed)
<1>1. handed \in Seq(Records) /\ loaded \in Manifests /\ Unraised(loaded, handed, Len(handed))
  BY DEF ControlInv, Summed, Accounted
<1>2. /\ BeforeRaise(handed, loaded) = DOMAIN handed
      /\ \A x : Reaches(handed, loaded, x)
                  = SumFunctionOnSet(Counts(loaded, handed, x), DOMAIN handed)
  BY <1>1, NoneRaisesAgain
<1>3. RunChambers(handed, loaded) /\ at' = "report"
  BY <1>2 DEF Analyse, RunChambersRaises
<1>4. /\ calls' = calls + 1 /\ lastRecords' = handed /\ CountFiltered(handed, loaded)
      /\ \/ runs' = [runs EXCEPT !.analyses = @ + 1, !.set = @ + 1]
         \/ runs' = [runs EXCEPT !.analyses = @ + 1]
  BY <1>3 DEF RunChambers, Called
<1>8. calls' = runs'.analyses
  <2>1. runs \in [unset : Nat, set : Nat, analyses : Nat]
    BY DEF AnalyserInv, AnalyserTypeOK
  <2>2. runs'.analyses = runs.analyses + 1
    BY <1>4, <2>1
  <2> QED BY <1>4, <2>2 DEF Idle
<1>5. \A x \in Receivers :
        filteredFor'[x].records = filteredFor[x].records + Reaches(handed, loaded, x)
  BY <1>1, <1>4, FilteredCounted DEF AnalyserInv
<1>6. \A x \in Receivers : filteredFor[x].records = 0 /\ Reaches(handed, loaded, x) \in Nat
  BY <1>1, GainsTyped DEF AnalyserInv, Uncounted, Idle
<1>7. \A x \in Stakeholders : filteredFor'[x].records = Reaches(handed, loaded, x)
  BY <1>5, <1>6 DEF Receivers
<1> QED BY <1>2, <1>3, <1>4, <1>7, <1>8

(* Before the analysis there is nothing of one.                            *)
LEMMA NothingAnalysed ==
  ASSUME Idle, UNCHANGED <<calls, runs>>, report' = Unwritten, at' # "report"
  PROVE  Idle' /\ Analysed'
BY DEF Idle, Analysed

(* A step of a command that leaves its session open or its summary as it   *)
(* is, and does not touch the analyser.                                    *)
LEMMA StepBefore ==
  ASSUME UNCHANGED <<calls, runs, report, printed>>, report = Unwritten,
         printed = Unwritten, at' \notin {"load", "connect", "start", "analyse", "report", "done"},
         Idle, at' \in {"setup", "run", "send", "end", "summary"} => Running'
  PROVE  CommandInv'
BY NothingAnalysed DEF CommandInv

LEMMA RunningFacts ==
  ASSUME CommandInv, at \in {"setup", "run", "send", "end", "summary"}
  PROVE  Running /\ Idle /\ report = Unwritten /\ printed = Unwritten
BY DEF CommandInv, Running

LEMMA CommandNext ==
  ASSUME CommandInv, ControlInv, ControlInv', TypeInv, AnalyserInv, CliNext
  PROVE  CommandInv'
<1>1. CASE Load
  <2>1. /\ at = "load" /\ program' = program /\ UNCHANGED <<calls, runs, batch, printed, report>>
        /\ handed' = <<>> \/ at' = "analyse"
        /\ \/ at' = "analyse" /\ program = "residue"
           \/ at' \in {"start", "connect"} /\ program # "residue"
           \/ at' = "crashed"
    <3>1. handed = <<>>
      BY <1>1 DEF Load, CommandInv
    <3>2. /\ at = "load" /\ program' = program /\ UNCHANGED <<calls, runs, batch, printed, report>>
          /\ \/ /\ handed' \in IF program = "residue" THEN Analyses ELSE {<<>>}
                /\ at' = CASE program = "residue" -> "analyse" [] program = "demo" -> "start"
                           [] OTHER -> "connect"
             \/ at' = "crashed" /\ handed' = handed
      BY <1>1 DEF Load, AnalyserRests, analyserVars, Crash
    <3>3. CASE program = "residue"
      BY <3>1, <3>2, <3>3
    <3>4. CASE program # "residue"
      BY <3>1, <3>2, <3>4
    <3> QED BY <3>3, <3>4
  <2>2. batch = <<>> /\ printed = Unwritten /\ report = Unwritten /\ Idle
    BY <2>1 DEF CommandInv
  <2>3. Idle' /\ Analysed'
    BY <2>1, <2>2, NothingAnalysed
  <2> QED BY <2>1, <2>2, <2>3 DEF CommandInv
<1>2. CASE Connect
  <2>1. /\ at = "connect" /\ at' \in {"start", "crashed"}
        /\ UNCHANGED <<program, calls, runs, batch, handed, printed, report>>
    BY <1>2 DEF Connect, Adapter, AnalyserRests, analyserVars, Crash
  <2>2. /\ batch = <<>> /\ handed = <<>> /\ printed = Unwritten /\ report = Unwritten
        /\ Idle /\ program # "residue"
    BY <2>1 DEF CommandInv
  <2>3. Idle' /\ Analysed'
    BY <2>1, <2>2, NothingAnalysed
  <2> QED BY <2>1, <2>2, <2>3 DEF CommandInv
<1>3. CASE SetUp \/ RunEnds
  <2>1. /\ at \in {"setup", "run"} /\ at' \in {"run", "end", "crashed"}
        /\ UNCHANGED <<program, printed, report, calls, runs>>
        /\ UNCHANGED <<sessions, mine, loaded, handed, batch>>
    BY <1>3 DEF SetUp, RunEnds, Adapter, AnalyserRests, analyserVars, GatewayRests, localVars,
                Crash
  <2>2. Running /\ Idle /\ report = Unwritten /\ printed = Unwritten
    BY <2>1, RunningFacts
  <2>3. at' # "crashed" => Running'
    BY <2>1, <2>2, RunningStays
  <2> QED BY <2>1, <2>2, <2>3, StepBefore
<1>4. CASE Start
  <2>1. Running'
    BY <1>4, SessionStarted
  <2>2. at' \in {"setup", "run"} /\ UNCHANGED <<calls, runs, printed, report>>
    BY <1>4 DEF Start, AnalyserRests, analyserVars
  <2>3. Idle /\ report = Unwritten /\ printed = Unwritten
    BY <1>4 DEF Start, CommandInv
  <2> QED BY <2>1, <2>2, <2>3, StepBefore
<1>5. CASE Deliver \/ Generate
  <2>1. /\ at = "run" /\ at' \in {"run", "send"} /\ (at' = "run" => batch' = <<>>)
        /\ handed' = handed \o batch'
        /\ UNCHANGED <<program, printed, report, sessions, mine, loaded, calls, runs>>
    BY <1>5 DEF Deliver, Generate, Extended, AnalyserRests, analyserVars, GatewayRests, localVars
  <2>2. Running /\ Idle /\ report = Unwritten /\ printed = Unwritten
    BY <2>1, RunningFacts
  <2>3. batch' \in Seq(Records)
    BY DEF ControlInv
  <2>4. Running'
    BY <2>1, <2>2, <2>3, HandedOver
  <2> QED BY <2>1, <2>2, <2>4, StepBefore
<1>6. CASE Send
  <2>1. /\ at = "send" /\ batch' = Tail(batch)
        /\ \/ /\ ProcessRecord(mine, Head(batch))
              /\ at' = IF Len(batch) = 1 THEN "run" ELSE "send"
           \/ at' = "crashed"
        /\ UNCHANGED <<program, printed, report, mine, loaded, handed, calls, runs>>
    BY <1>6 DEF Send, AnalyserRests, analyserVars, Crash
  <2>2. Running /\ Idle /\ report = Unwritten /\ printed = Unwritten
    BY <2>1, RunningFacts
  <2>3. at' # "crashed" => Running'
    BY <2>1, <2>2, RecordSent
  <2>4. at' \in {"run", "send", "crashed"}
    BY <2>1
  <2> QED BY <2>1, <2>2, <2>3, <2>4, StepBefore
<1>7. CASE End
  <2>1. at = "end" /\ at' = "summary" /\ UNCHANGED <<calls, runs, printed, report>>
    BY <1>7 DEF End, AnalyserRests, analyserVars
  <2>2. Running /\ Idle /\ report = Unwritten /\ printed = Unwritten
    BY <2>1, RunningFacts
  <2>3. Running'
    BY <1>7, <2>2, SessionEnded
  <2> QED BY <2>1, <2>2, <2>3, StepBefore
<1>8. CASE Summarise
  <2>1. /\ at = "summary" /\ at' \in {"analyse", "done"}
        /\ UNCHANGED <<program, calls, runs, report>>
    BY <1>8 DEF Summarise, AnalyserRests, analyserVars
  <2>2. Running /\ Idle /\ report = Unwritten
    BY <2>1, RunningFacts
  <2>3. Summed'
    BY <1>8, <2>2, SummaryPrinted
  <2>4. Idle' /\ Analysed'
    BY <2>1, <2>2, NothingAnalysed
  <2> QED BY <2>1, <2>2, <2>3, <2>4 DEF CommandInv
<1>9. CASE Analyse
  <2>1. /\ at = "analyse" /\ at' \in {"report", "crashed"}
        /\ UNCHANGED <<sessions, mine, loaded, handed, printed, program, report>>
    BY <1>9 DEF Analyse, Crash, GatewayRests, localVars
  <2>2. Idle /\ report = Unwritten
    BY <2>1 DEF CommandInv
  <2>3. (\/ printed' # Unwritten
         \/ program' # "residue" /\ at' \in {"analyse", "report", "done"}) => Summed'
    BY <2>1, SummedStays DEF CommandInv
  <2>4. program = "demo" =>
          /\ at' = "report" /\ calls' = runs'.analyses /\ lastRecords' = handed
          /\ \A x \in Stakeholders :
               filteredFor'[x].records
                 = SumFunctionOnSet(Counts(loaded, handed, x), DOMAIN handed)
    <3>1. program = "demo" => Summed
      BY <2>1 DEF CommandInv
    <3> QED BY <1>9, <2>2, <3>1, DemoAnalysed
  <2>5. program' = "demo" =>
          /\ calls' = runs'.analyses /\ lastRecords' = handed'
          /\ \A x \in Stakeholders :
               filteredFor'[x].records
                 = SumFunctionOnSet(Counts(loaded', handed', x), DOMAIN handed')
    BY <2>1, <2>4
  <2>6. Analysed'
    BY <2>1, <2>2, <2>5 DEF Analysed
  <2> QED BY <2>1, <2>2, <2>3, <2>6 DEF CommandInv
<1>10. CASE WriteReport
  <2>1. /\ at = "report"
        /\ \/ /\ report' = [records |-> TotalRecords, total |-> TotalOf(filteredFor),
                            sentTo |-> [x \in Stakeholders |-> filteredFor[x].records]]
              /\ at' = "done"
           \/ at' = "crashed" /\ report' = report
        /\ UNCHANGED <<sessions, mine, loaded, handed, printed, program, calls, runs>>
    BY <1>10 DEF WriteReport, Crash, GatewayRests, localVars, AnalyserRests, analyserVars
  <2>2. report = Unwritten
    BY <2>1 DEF CommandInv
  <2>3. (\/ printed' # Unwritten
         \/ program' # "residue" /\ at' \in {"analyse", "report", "done"}) => Summed'
    BY <2>1, SummedStays DEF CommandInv
  <2>4. report' # Unwritten => at' = "done"
    BY <2>1, <2>2
  <2>5. ASSUME program' = "demo"
        PROVE  /\ calls' = runs'.analyses
               /\ report' # Unwritten =>
                    /\ report'.records = Len(handed')
                    /\ report'.sentTo = [x \in Stakeholders |->
                         SumFunctionOnSet(Counts(loaded', handed', x), DOMAIN handed')]
    <3>1. /\ calls = runs.analyses /\ lastRecords = handed
          /\ \A x \in Stakeholders :
               filteredFor[x].records
                 = SumFunctionOnSet(Counts(loaded, handed, x), DOMAIN handed)
      BY <2>1, <2>5 DEF CommandInv, Analysed
    <3>2. [x \in Stakeholders |-> filteredFor[x].records]
            = [x \in Stakeholders |->
                 SumFunctionOnSet(Counts(loaded, handed, x), DOMAIN handed)]
      BY <3>1
    <3>3. report' # Unwritten =>
            /\ report'.records = Len(handed)
            /\ report'.sentTo = [x \in Stakeholders |->
                 SumFunctionOnSet(Counts(loaded, handed, x), DOMAIN handed)]
      BY <2>1, <2>2, <3>1, <3>2 DEF TotalRecords
    <3> QED BY <2>1, <3>1, <3>3
  <2>6. at' \in {"done", "crashed"}
    BY <2>1
  <2>7. Analysed'
    BY <2>5, <2>6 DEF Analysed
  <2> QED BY <2>3, <2>4, <2>6, <2>7 DEF CommandInv
<1> QED BY <1>1, <1>2, <1>3, <1>4, <1>5, <1>6, <1>7, <1>8, <1>9, <1>10 DEF CliNext

LEMMA ReportNext ==
  ASSUME ReportInv, ControlInv, ControlInv', TypeInv, AnalyserInv, [ProcessNext]_processVars
  PROVE  ReportInv'
<1>1. CASE Commandwise
  <2>1. process = "cli" /\ process' = "cli" /\ CliNext
    BY <1>1 DEF Commandwise
  <2>2. CommandInv'
    BY <2>1, CommandNext DEF ReportInv
  <2> QED BY <2>1, <2>2 DEF ReportInv
<1>2. CASE Sessionwise \/ Analyserwise
  <2>1. process # "cli" /\ process' = process /\ UNCHANGED <<at, printed, report>>
    BY <1>2 DEF Sessionwise, Analyserwise, cliVars
  <2> QED BY <2>1 DEF ReportInv
<1>3. CASE UNCHANGED processVars
  <2>1. /\ UNCHANGED <<process, sessions, lastRecords, filteredFor, calls, runs>>
        /\ UNCHANGED <<program, at, loaded, mine, batch, handed, printed, report>>
    BY <1>3 DEF processVars, localVars, analyserVars, filteredVars, cliVars
  <2>2. Running => Running'
    BY <2>1 DEF Running, Sent
  <2>3. Summed => Summed'
    BY <2>1, SummedStays
  <2>4. Analysed => Analysed'
    BY <2>1 DEF Analysed
  <2>5. Idle => Idle'
    BY <2>1 DEF Idle
  <2>6. CommandInv => CommandInv'
    BY <2>1, <2>2, <2>3, <2>4, <2>5 DEF CommandInv
  <2> QED BY <2>1, <2>6 DEF ReportInv
<1> QED BY <1>1, <1>2, <1>3 DEF ProcessNext

LEMMA ReportInit ==
  ASSUME ProcessInit
  PROVE  ReportInv
<1>1. /\ at = "load" /\ batch = <<>> /\ handed = <<>> /\ printed = Unwritten
      /\ report = Unwritten
  BY DEF ProcessInit, CliInit
<1>2. Idle
  BY DEF ProcessInit, AnalyserInit, Idle
<1>3. Analysed
  BY <1>1, <1>2 DEF Analysed, Idle
<1> QED BY <1>1, <1>2, <1>3 DEF ReportInv, CommandInv

LEMMA ReportHolds == ProcessSpec => []ReportInv
<1>1. ProcessInit => ReportInv
  BY ReportInit
<1>2. ReportInv /\ ControlInv /\ ControlInv' /\ LogInv /\ AnalyserInv
        /\ [ProcessNext]_processVars => ReportInv'
  BY ReportNext DEF LogInv
<1>3. ProcessSpec => ProcessInit /\ [][ProcessNext]_processVars
  BY PTL DEF ProcessSpec, ProcessNext, processVars
<1> QED BY <1>1, <1>2, <1>3, ControlHolds, AnalyserHolds, ProgramsDriveGateway, LogInvariant, PTL

(* A command that prints a summary has burned its session and accounted    *)
(* for every record handed to it and every stakeholder; the analysis of    *)
(* demo never raises, and the report written of it says the same, whatever *)
(* the manifest, the fleet, the schedule and the batches of the adapters   *)
(* (cli.py: sumo, carla, demo; gateway_client.py: send_record).            *)
THEOREM ReportsMatchRuns == ProcessSpec => []ReportMatchesRun
<1>1. ASSUME ReportInv, ControlInv PROVE ReportMatchesRun
  <2>1. CASE process # "cli"
    BY <1>1, <2>1 DEF ReportInv, ReportMatchesRun
  <2>2. CASE process = "cli"
    <3>1. CommandInv
      BY <1>1, <2>2 DEF ReportInv
    <3>2. printed # Unwritten =>
            /\ sessions[mine].ended
            /\ printed.records = Len(handed) /\ printed.burned = Len(handed)
            /\ printed.transmitted + printed.blocked = Len(handed) * Len(loaded)
      BY <3>1 DEF CommandInv, Summed
    <3>3. ASSUME program = "demo", report # Unwritten
          PROVE  report.records = printed.records /\ report.sentTo = printed.sentTo
      <4>1. Summed
        BY <3>1, <3>3 DEF CommandInv
      <4>2. /\ report.records = Len(handed)
            /\ report.sentTo = [x \in Stakeholders |->
                 SumFunctionOnSet(Counts(loaded, handed, x), DOMAIN handed)]
        BY <3>1, <3>3 DEF CommandInv, Analysed
      <4>3. /\ printed.records = Len(handed) /\ printed.sentTo = sessions[mine].sentTo
            /\ Accounted(sessions[mine], loaded, handed, Len(handed))
        BY <4>1 DEF Summed
      <4>4. DOMAIN handed = 1 .. Len(handed)
        BY <1>1 DEF ControlInv
      <4>5. sessions[mine].sentTo \in [Stakeholders -> Nat]
        BY <4>3, StateCounts DEF Accounted
      <4>6. \A x \in Stakeholders :
              sessions[mine].sentTo[x]
                = SumFunctionOnSet(Counts(loaded, handed, x), DOMAIN handed)
        BY <4>3, <4>4 DEF Accounted
      <4> QED BY <4>2, <4>3, <4>5, <4>6
    <3>4. program = "demo" => calls = runs.analyses
      BY <3>1 DEF CommandInv, Analysed
    <3> QED BY <3>2, <3>3, <3>4 DEF ReportMatchesRun
  <2> QED BY <2>1, <2>2
<1> QED BY <1>1, ReportHolds, ControlHolds, PTL
=============================================================================
