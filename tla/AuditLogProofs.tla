--------------------------- MODULE AuditLogProofs ---------------------------
(***************************************************************************)
(* Theorems about the audit log, for any number of threads, sessions and   *)
(* payloads and any number of failing reads and altered rows.              *)
(***************************************************************************)
EXTENDS AuditLog, FiniteSetTheorems, TLAPS

-----------------------------------------------------------------------------
(* Tags and rows.                                                          *)

(* A tag is never genesis, and tells two payloads signed after the same    *)
(* predecessor apart.                                                      *)
LEMMA SignFacts ==
  ASSUME NEW p \in Tags, NEW a \in Payloads, NEW b \in Payloads
  PROVE  /\ Sign(p, a) \in Tags
         /\ Sign(p, a) # Genesis
         /\ Sign(p, a) = Sign(p, b) => a = b
<1>1. /\ Append(p, a)[Len(p) + 1] = a
      /\ Append(p, b)[Len(p) + 1] = b
      /\ Len(Append(p, a)) = Len(p) + 1
      /\ Append(p, a) \in Seq(Payloads)
  BY DEF Tags
<1>2. Len(<<>>) = 0 /\ Len(p) \in Nat
  BY DEF Tags
<1> QED
  BY <1>1, <1>2 DEF Sign, Genesis, Tags

(* A new row chained to a tag is a row, and consistent in itself.          *)
LEMMA NewRowFacts ==
  ASSUME NEW e \in EventTypes, NEW p \in Payloads, NEW tag \in Tags
  PROVE  /\ NewRow(e, p, tag) \in Row
         /\ NewRow(e, p, tag).hmac = Sign(tag, p)
         /\ NewRow(e, p, tag).previous = tag
         /\ NewRow(e, p, tag).payload = p
BY SignFacts DEF NewRow, Row

(* The tag a row is chained to exists.                                     *)
LEMMA LastHmacType ==
  ASSUME NEW rows \in Seq(Row)
  PROVE  LastHmac(rows) \in Tags
<1>1. CASE rows = <<>>
  BY <1>1 DEF LastHmac, Genesis, Tags
<1>2. CASE rows # <<>>
  <2>1. rows[Len(rows)] \in Row
    BY <1>2
  <2> QED
    BY <1>2, <2>1 DEF LastHmac, Row
<1> QED
  BY <1>1, <1>2

(* Every way to read the rows of a session returns a prefix of them.       *)
LEMMA ReadIsPrefix ==
  ASSUME TypeOK, NEW s \in Sessions, NEW read \in Reads(s)
  PROVE  /\ read.rows \in Seq(Row)
         /\ Len(read.rows) \in Nat
         /\ Len(read.rows) <= Len(log[s])
         /\ \A i \in 1 .. Len(read.rows) : read.rows[i] = log[s][i]
         /\ read.failed \in BOOLEAN
<1> DEFINE l == log[s]
<1>1. l \in Seq(Row) /\ Len(l) \in Nat
  BY DEF TypeOK
<1>2. CASE read = FullRead(s)
  BY <1>1, <1>2 DEF FullRead
<1>3. CASE read # FullRead(s)
  <2>1. PICK n \in 0 .. Len(l) - 1 : read = [rows |-> SubSeq(l, 1, n), failed |-> TRUE]
    BY <1>3 DEF Reads
  <2>2. SubSeq(l, 1, n) \in Seq(Row) /\ Len(SubSeq(l, 1, n)) = n
        /\ \A i \in 1 .. n : SubSeq(l, 1, n)[i] = l[i]
    BY <1>1, <2>1
  <2> QED
    BY <1>1, <2>1, <2>2
<1> QED
  BY <1>2, <1>3

-----------------------------------------------------------------------------
(* The steps.                                                              *)

(* Steps that only answer a question leave the table alone.                *)
Answering(t) ==
  \/ \E s \in Sessions : VerifyChain(t, s) \/ ExportSession(t, s) \/ SummaryCount(t, s)
  \/ SummaryVerify(t)

LEMMA AnsweringFrame ==
  ASSUME NEW t \in Threads, Answering(t)
  PROVE  UNCHANGED <<log, logged, restarts>>
BY DEF Answering, VerifyChain, ExportSession, SummaryCount, SummaryVerify

(* Spending from the budget keeps it a count.                              *)
LEMMA SpendType ==
  ASSUME spent \in [Budgets -> Nat], NEW k \in Budgets, NEW yes \in BOOLEAN,
         Spend(k, yes)
  PROVE  spent' \in [Budgets -> Nat]
BY DEF Spend

(* Logging adds one well-typed row at the end of its session.              *)
LEMMA LogEventFacts ==
  ASSUME TypeOK, NEW t \in Threads, NEW s \in Sessions, NEW e \in EventTypes,
         NEW p \in Payloads, LogEvent(t, s, e, p)
  PROVE  \E previous \in Tags :
           /\ log' = [log EXCEPT ![s] = Append(log[s], NewRow(e, p, previous))]
           /\ logged' = [logged EXCEPT ![s] = Append(logged[s], p)]
           /\ \/ previous = LastHmac(log[s]) /\ restarts' = restarts
              \/ previous = Genesis /\ log[s] = <<>> /\ restarts' = restarts
              \/ /\ previous = Genesis /\ log[s] # <<>>
                 /\ restarts' = [restarts EXCEPT ![s] = restarts[s] \cup {Len(log[s]) + 1}]
           /\ thread' = [thread EXCEPT ![t] = Idle]
           /\ spent' \in [Budgets -> Nat]
<1>1. PICK failed \in BOOLEAN :
        /\ Spend("faults", failed)
        /\ log' = [log EXCEPT ![s] = Append(@,
                     NewRow(e, p, IF failed THEN Genesis ELSE LastHmac(log[s])))]
        /\ restarts' = IF failed /\ log[s] # <<>>
                         THEN [restarts EXCEPT ![s] = @ \cup {Len(log[s]) + 1}]
                         ELSE restarts
  BY DEF LogEvent
<1>2. LastHmac(log[s]) \in Tags /\ Genesis \in Tags
  BY LastHmacType DEF TypeOK, Genesis, Tags
<1>3. spent' \in [Budgets -> Nat]
  BY <1>1, SpendType DEF TypeOK, Budgets
<1>4. logged' = [logged EXCEPT ![s] = Append(logged[s], p)]
      /\ thread' = [thread EXCEPT ![t] = Idle]
  BY DEF LogEvent
<1>5. CASE failed
  <2> Genesis \in Tags
    BY <1>2
  <2> WITNESS Genesis \in Tags
  <2> QED
    BY <1>1, <1>2, <1>3, <1>4, <1>5
<1>6. CASE ~failed
  <2> LastHmac(log[s]) \in Tags
    BY <1>2
  <2> WITNESS LastHmac(log[s]) \in Tags
  <2> QED
    BY <1>1, <1>2, <1>3, <1>4, <1>6
<1> QED
  BY <1>2, <1>5, <1>6

(* Altering a row changes its payload and nothing else.                    *)
LEMMA TamperFacts ==
  ASSUME TypeOK, NEW s \in Sessions, NEW i \in 1 .. Bound["rows"],
         NEW p \in Payloads, TamperEntry(s, i, p)
  PROVE  /\ i \in 1 .. Len(log[s])
         /\ log' = [log EXCEPT ![s] = [log[s] EXCEPT ![i] =
                      [log[s][i] EXCEPT !.payload = p]]]
         /\ log'[s] \in Seq(Row) /\ Len(log'[s]) = Len(log[s])
         /\ UNCHANGED <<thread, logged, restarts>>
         /\ spent' \in [Budgets -> Nat]
<1> DEFINE l == log[s]
           m == [l EXCEPT ![i] = [l[i] EXCEPT !.payload = p]]
<1>1. l \in Seq(Row) /\ i \in 1 .. Len(l)
  BY DEF TypeOK, TamperEntry
<1>2. l[i] \in Row
  BY <1>1
<1>3. [l[i] EXCEPT !.payload = p] \in Row
  BY <1>2 DEF Row
<1>4. m \in Seq(Row) /\ Len(m) = Len(l)
  BY <1>1, <1>3
<1>5. log' = [log EXCEPT ![s] = m]
  BY DEF TamperEntry
<1>6. log'[s] = m
  BY <1>5 DEF TypeOK
<1>7. spent' \in [Budgets -> Nat]
  BY SpendType DEF TamperEntry, Budgets, TypeOK
<1> QED
  BY <1>1, <1>4, <1>5, <1>6, <1>7 DEF TamperEntry

-----------------------------------------------------------------------------
(* Type correctness.                                                       *)

(* A thread with an answer is well typed.                                  *)
LEMMA DoneType ==
  ASSUME thread \in [Threads -> ThreadStates], NEW t \in Threads,
         NEW s \in Sessions, NEW answer \in Answers, Done(t, s, answer)
  PROVE  thread' \in [Threads -> ThreadStates]
BY DEF Done, ThreadStates

(* What the answering steps answer is well typed.                          *)
LEMMA AnsweringType ==
  ASSUME TypeOK, NEW t \in Threads, Answering(t)
  PROVE  /\ thread' \in [Threads -> ThreadStates]
         /\ spent' \in [Budgets -> Nat]
<1> thread \in [Threads -> ThreadStates] /\ spent \in [Budgets -> Nat]
  BY DEF TypeOK
<1> "faults" \in Budgets
  BY DEF Budgets
<1>1. ASSUME NEW s \in Sessions, NEW read \in Reads(s), NEW n \in Nat,
             NEW b \in BOOLEAN
      PROVE  Verdict(s, read, n, b) \in Answers
  <2>1. Verifies(read.rows) \in BOOLEAN
    BY DEF Verifies
  <2>2. read.rows \in Seq(Row) /\ Len(read.rows) \in Nat
    BY ReadIsPrefix
  <2>3. AlteredIn(s, read.rows) \in SUBSET Nat
    BY <2>2 DEF AlteredIn
  <2> QED
    BY <2>1, <2>2, <2>3 DEF Verdict, Answers
<1>2. ASSUME NEW s \in Sessions, VerifyChain(t, s) \/ ExportSession(t, s)
      PROVE  \E read \in Reads(s) :
               /\ Spend("faults", read.failed)
               /\ \/ Done(t, s, Verdict(s, read, 0, read.failed))
                  \/ Done(t, s, Verdict(s, read, Len(read.rows), read.failed))
  BY <1>2 DEF VerifyChain, ExportSession
<1>3. ASSUME NEW s \in Sessions, VerifyChain(t, s) \/ ExportSession(t, s)
      PROVE  /\ thread' \in [Threads -> ThreadStates]
             /\ spent' \in [Budgets -> Nat]
  <2>1. PICK read \in Reads(s) :
               /\ Spend("faults", read.failed)
               /\ \/ Done(t, s, Verdict(s, read, 0, read.failed))
                  \/ Done(t, s, Verdict(s, read, Len(read.rows), read.failed))
    BY <1>2, <1>3
  <2>2. read.failed \in BOOLEAN /\ Len(read.rows) \in Nat /\ 0 \in Nat
    BY ReadIsPrefix
  <2>3. spent' \in [Budgets -> Nat]
    BY <2>1, <2>2, SpendType
  <2>4. /\ Verdict(s, read, 0, read.failed) \in Answers
        /\ Verdict(s, read, Len(read.rows), read.failed) \in Answers
    BY <1>1, <2>2
  <2>5. thread' \in [Threads -> ThreadStates]
    BY <2>1, <2>4, DoneType
  <2> QED
    BY <2>3, <2>5
<1>4. ASSUME NEW s \in Sessions, SummaryCount(t, s)
      PROVE  /\ thread' \in [Threads -> ThreadStates]
             /\ spent' \in [Budgets -> Nat]
  <2>1. PICK lost \in SUBSET {log[s][i].type : i \in DOMAIN log[s]} :
       /\ Spend("faults", lost # {})
       /\ thread' = [thread EXCEPT ![t] =
            [call |-> "summary", sess |-> s,
             answer |-> [NoAnswer EXCEPT
               !.failed = lost # {},
               !.total = Cardinality({i \in DOMAIN log[s] :
                                        log[s][i].type \notin lost})]]]
    BY <1>4 DEF SummaryCount
  <2> DEFINE counted == {i \in DOMAIN log[s] : log[s][i].type \notin lost}
  <2>2. Cardinality(counted) \in Nat
    <3>1. Len(log[s]) \in Nat /\ DOMAIN log[s] = 1 .. Len(log[s])
      BY DEF TypeOK
    <3>2. IsFiniteSet(DOMAIN log[s])
      BY <3>1, FS_Interval
    <3> QED
      BY <3>2, FS_Subset, FS_CardinalityType
  <2>3. (lost # {}) \in BOOLEAN
    OBVIOUS
  <2>4. spent' \in [Budgets -> Nat]
    BY <2>1, <2>3, SpendType
  <2> HIDE DEF counted
  <2>5. [NoAnswer EXCEPT !.failed = lost # {}, !.total = Cardinality(counted)]
          \in Answers
    BY <2>2, <2>3 DEF NoAnswer, Answers
  <2> QED
    BY <2>1, <2>4, <2>5 DEF ThreadStates, counted
<1>5. ASSUME SummaryVerify(t)
      PROVE  /\ thread' \in [Threads -> ThreadStates]
             /\ spent' \in [Budgets -> Nat]
  <2> DEFINE s == thread[t].sess
             counted == thread[t].answer
  <2>1. /\ s \in Sessions
        /\ counted.total \in Nat /\ counted.failed \in BOOLEAN
    <3>1. thread[t].call = "summary" /\ thread[t] \in ThreadStates
      BY <1>5 DEF SummaryVerify
    <3>2. thread[t] # Idle
      BY <3>1 DEF Idle
    <3> QED
      BY <3>1, <3>2 DEF ThreadStates, Answers
  <2>2. PICK read \in Reads(s) :
          /\ Spend("faults", read.failed)
          /\ Done(t, s, Verdict(s, read, counted.total, read.failed \/ counted.failed))
    BY <1>5 DEF SummaryVerify
  <2>3. read.failed \in BOOLEAN /\ (read.failed \/ counted.failed) \in BOOLEAN
    BY <2>1, ReadIsPrefix
  <2>4. spent' \in [Budgets -> Nat]
    BY <2>2, <2>3, SpendType
  <2>5. Verdict(s, read, counted.total, read.failed \/ counted.failed) \in Answers
    BY <1>1, <2>1, <2>3
  <2> QED
    BY <2>1, <2>2, <2>4, <2>5, DoneType
<1> QED
  BY <1>3, <1>4, <1>5 DEF Answering

(* The table starts well typed.                                            *)
LEMMA InitType == Init => TypeOK
<1> SUFFICES ASSUME Init PROVE TypeOK
  OBVIOUS
<1>1. Len(<<>>) = 0 /\ <<>> \in Seq(Row) /\ <<>> \in Seq(Payloads)
  OBVIOUS
<1>2. \A s \in Sessions : log[s] = <<>> /\ logged[s] = <<>> /\ restarts[s] = {}
  BY DEF Init
<1>3. Idle \in ThreadStates
  BY DEF ThreadStates
<1> QED
  BY <1>1, <1>2, <1>3 DEF Init, TypeOK

(* Logging keeps the table well typed.                                     *)
LEMMA LogEventType ==
  ASSUME TypeOK, NEW t \in Threads, NEW s \in Sessions, NEW e \in EventTypes,
         NEW p \in Payloads, LogEvent(t, s, e, p)
  PROVE  TypeOK'
<1>1. PICK previous \in Tags :
           /\ log' = [log EXCEPT ![s] = Append(log[s], NewRow(e, p, previous))]
           /\ logged' = [logged EXCEPT ![s] = Append(logged[s], p)]
           /\ \/ restarts' = restarts
              \/ /\ log[s] # <<>>
                 /\ restarts' = [restarts EXCEPT ![s] = restarts[s] \cup {Len(log[s]) + 1}]
           /\ thread' = [thread EXCEPT ![t] = Idle]
           /\ spent' \in [Budgets -> Nat]
  BY LogEventFacts
<1> DEFINE row == NewRow(e, p, previous)
<1>2. row \in Row
  BY NewRowFacts
<1> HIDE DEF row
<1>3. log[s] \in Seq(Row) /\ logged[s] \in Seq(Payloads) /\ restarts[s] \subseteq Nat
  BY DEF TypeOK
<1>4. /\ Append(log[s], row) \in Seq(Row)
      /\ Len(Append(log[s], row)) = Len(log[s]) + 1
      /\ Append(logged[s], p) \in Seq(Payloads)
      /\ Len(Append(logged[s], p)) = Len(logged[s]) + 1
      /\ Len(log[s]) \in Nat
      /\ log[s] # <<>> => Len(log[s]) # 0
  BY <1>2, <1>3
<1>5. log' \in [Sessions -> Seq(Row)] /\ logged' \in [Sessions -> Seq(Payloads)]
  BY <1>1, <1>4 DEF TypeOK, row
<1>6. restarts' \in [Sessions -> SUBSET Nat]
  <2>1. restarts[s] \cup {Len(log[s]) + 1} \in SUBSET Nat
    BY <1>3, <1>4
  <2> QED
    BY <1>1, <2>1 DEF TypeOK
<1>7. thread' \in [Threads -> ThreadStates]
  BY <1>1 DEF TypeOK, ThreadStates
<1>8. ASSUME NEW x \in Sessions
      PROVE  Len(logged'[x]) = Len(log'[x]) /\ restarts'[x] \subseteq 2 .. Len(log'[x])
  <2>1. CASE x # s
    <3>1. log'[x] = log[x] /\ logged'[x] = logged[x] /\ restarts'[x] = restarts[x]
      BY <1>1, <2>1 DEF TypeOK
    <3> QED
      BY <3>1 DEF TypeOK
  <2>2. CASE x = s
    <3>1. log'[s] = Append(log[s], row) /\ logged'[s] = Append(logged[s], p)
      BY <1>1 DEF TypeOK, row
    <3>2. Len(logged[s]) = Len(log[s]) /\ restarts[s] \subseteq 2 .. Len(log[s])
      BY DEF TypeOK
    <3>3. \/ restarts'[s] = restarts[s]
          \/ log[s] # <<>> /\ restarts'[s] = restarts[s] \cup {Len(log[s]) + 1}
      BY <1>1 DEF TypeOK
    <3>4. restarts'[s] \subseteq 2 .. Len(log[s]) + 1
      BY <1>4, <3>2, <3>3
    <3> QED
      BY <1>4, <2>2, <3>1, <3>2, <3>4
  <2> QED
    BY <2>1, <2>2
<1> QED
  BY <1>1, <1>5, <1>6, <1>7, <1>8 DEF TypeOK

(* Altering a row keeps the table well typed.                              *)
LEMMA TamperType ==
  ASSUME TypeOK, NEW s \in Sessions, NEW i \in 1 .. Bound["rows"],
         NEW p \in Payloads, TamperEntry(s, i, p)
  PROVE  TypeOK'
<1> DEFINE m == [log[s] EXCEPT ![i] = [log[s][i] EXCEPT !.payload = p]]
<1>1. /\ log' = [log EXCEPT ![s] = m]
      /\ log'[s] \in Seq(Row) /\ Len(log'[s]) = Len(log[s])
      /\ UNCHANGED <<thread, logged, restarts>>
      /\ spent' \in [Budgets -> Nat]
  BY TamperFacts
<1> HIDE DEF m
<1>2. log'[s] = m
  BY <1>1 DEF TypeOK
<1>3. log' \in [Sessions -> Seq(Row)]
  BY <1>1, <1>2 DEF TypeOK
<1>4. \A x \in Sessions : Len(log'[x]) = Len(log[x])
  BY <1>1 DEF TypeOK
<1> QED
  BY <1>1, <1>3, <1>4 DEF TypeOK

(* What a step of the system is, for the theorems below.                   *)
LEMMA NextCases ==
  ASSUME [Next]_auditVars
  PROVE  \/ \E t \in Threads, s \in Sessions, e \in EventTypes, p \in Payloads :
              LogEvent(t, s, e, p)
         \/ \E t \in Threads : Answering(t)
         \/ \E s \in Sessions, i \in 1 .. Bound["rows"], p \in Payloads :
              TamperEntry(s, i, p)
         \/ UNCHANGED auditVars
BY DEF Next, Answering

LEMMA NextTypeOK == TypeOK /\ [Next]_auditVars => TypeOK'
<1> SUFFICES ASSUME TypeOK, [Next]_auditVars PROVE TypeOK'
  OBVIOUS
<1>1. ASSUME NEW t \in Threads, NEW s \in Sessions, NEW e \in EventTypes,
             NEW p \in Payloads, LogEvent(t, s, e, p)
      PROVE  TypeOK'
  BY <1>1, LogEventType
<1>2. ASSUME NEW t \in Threads, Answering(t)
      PROVE  TypeOK'
  BY <1>2, AnsweringFrame, AnsweringType DEF TypeOK
<1>3. ASSUME NEW s \in Sessions, NEW i \in 1 .. Bound["rows"],
             NEW p \in Payloads, TamperEntry(s, i, p)
      PROVE  TypeOK'
  BY <1>3, TamperType
<1>4. CASE UNCHANGED auditVars
  BY <1>4 DEF auditVars, TypeOK
<1> QED
  BY <1>1, <1>2, <1>3, <1>4, NextCases

(* The state of the log is well typed: every session has as many rows as   *)
(* events were logged for it (audit/mod.rs: log_event), whatever reads     *)
(* failed.                                                                 *)
THEOREM TypeCorrect == Spec => []TypeOK
BY InitType, NextTypeOK, PTL DEF Spec

-----------------------------------------------------------------------------
(* The chain.                                                              *)

(* The inductive invariant: every row is signed over what was logged, and  *)
(* follows the row before it, or genesis where a lookup failed.            *)
RowChained(s, i) ==
  /\ log[s][i].hmac = Sign(log[s][i].previous, logged[s][i])
  /\ log[s][i].previous = IF i = 1 \/ i \in restarts[s]
                            THEN Genesis ELSE log[s][i - 1].hmac

ChainInv == \A s \in Sessions : \A i \in 1 .. Len(log[s]) : RowChained(s, i)

(* Rows and payloads of a session, and what the invariant says of the tag  *)
(* before a restart.                                                       *)
LEMMA ChainFacts ==
  ASSUME TypeOK, ChainInv, NEW s \in Sessions, NEW i \in 1 .. Len(log[s])
  PROVE  /\ log[s][i] \in Row /\ logged[s][i] \in Payloads
         /\ log[s][i].hmac # Genesis
         /\ HmacOK(log[s][i]) <=> log[s][i].payload = logged[s][i]
         /\ LinkOK(log[s], i) <=> i \notin restarts[s]
<1>1. \A j \in 1 .. Len(log[s]) : log[s][j] \in Row /\ logged[s][j] \in Payloads
  BY DEF TypeOK
<1>2. \A j \in 1 .. Len(log[s]) : log[s][j].hmac # Genesis
  BY <1>1, SignFacts DEF ChainInv, RowChained, Row
<1>3. HmacOK(log[s][i]) <=> log[s][i].payload = logged[s][i]
  <2>1. /\ log[s][i].previous \in Tags /\ log[s][i].payload \in Payloads
        /\ logged[s][i] \in Payloads
    BY <1>1 DEF Row
  <2>2. log[s][i].hmac = Sign(log[s][i].previous, logged[s][i])
    BY DEF ChainInv, RowChained
  <2> QED
    BY <2>1, <2>2, SignFacts DEF HmacOK
<1>4. LinkOK(log[s], i) <=> i \notin restarts[s]
  <2>1. Len(log[s]) \in Nat /\ restarts[s] \subseteq 2 .. Len(log[s])
    BY DEF TypeOK
  <2>2. RowChained(s, i)
    BY DEF ChainInv
  <2>3. CASE i = 1
    BY <2>1, <2>2, <2>3 DEF LinkOK, RowChained
  <2>4. CASE i # 1
    <3>1. i - 1 \in 1 .. Len(log[s])
      BY <2>1, <2>4
    <3>2. log[s][i - 1].hmac # Genesis
      BY <1>2, <3>1
    <3> QED
      BY <2>2, <2>4, <3>2 DEF LinkOK, RowChained
  <2> QED
    BY <2>3, <2>4
<1> QED
  BY <1>1, <1>2, <1>3, <1>4

(* Logging extends the chain.                                              *)
LEMMA LogEventChain ==
  ASSUME TypeOK, ChainInv, NEW t \in Threads, NEW s \in Sessions,
         NEW e \in EventTypes, NEW p \in Payloads, LogEvent(t, s, e, p)
  PROVE  ChainInv'
<1>1. PICK previous \in Tags :
           /\ log' = [log EXCEPT ![s] = Append(log[s], NewRow(e, p, previous))]
           /\ logged' = [logged EXCEPT ![s] = Append(logged[s], p)]
           /\ \/ previous = LastHmac(log[s]) /\ restarts' = restarts
              \/ previous = Genesis /\ log[s] = <<>> /\ restarts' = restarts
              \/ /\ previous = Genesis /\ log[s] # <<>>
                 /\ restarts' = [restarts EXCEPT ![s] = restarts[s] \cup {Len(log[s]) + 1}]
  BY LogEventFacts
<1>0. PICK n \in Nat : n = Len(log[s])
  BY DEF TypeOK
<1> DEFINE row == NewRow(e, p, previous)
<1>2. row \in Row /\ row.hmac = Sign(previous, p) /\ row.previous = previous
  BY NewRowFacts
<1> HIDE DEF row
<1>3. /\ log[s] \in Seq(Row) /\ logged[s] \in Seq(Payloads)
      /\ n \in Nat /\ Len(log[s]) = n /\ Len(logged[s]) = n
      /\ restarts[s] \subseteq 2 .. n
  BY <1>0 DEF TypeOK
<1>4. log'[s] = Append(log[s], row) /\ logged'[s] = Append(logged[s], p)
  BY <1>1 DEF TypeOK, row
<1>5. /\ Len(log'[s]) = n + 1
      /\ log'[s][n + 1] = row /\ logged'[s][n + 1] = p
      /\ \A i \in 1 .. n : log'[s][i] = log[s][i] /\ logged'[s][i] = logged[s][i]
  BY <1>2, <1>3, <1>4
<1>6. \A i \in 1 .. n : i \in restarts'[s] <=> i \in restarts[s]
  BY <1>0, <1>1, <1>3 DEF TypeOK
<1>7. ASSUME NEW i \in 1 .. n
      PROVE  RowChained(s, i)'
  <2>1. RowChained(s, i)
    BY <1>0 DEF ChainInv
  <2>2. i # 1 => i - 1 \in 1 .. n
    BY <1>3
  <2> QED
    BY <1>5, <1>6, <2>1, <2>2 DEF RowChained
<1>8. RowChained(s, n + 1)'
  <2>1. row.previous = IF n + 1 = 1 \/ n + 1 \in restarts'[s]
                         THEN Genesis ELSE log[s][n].hmac
    <3>1. log[s] = <<>> <=> n = 0
      BY <1>3
    <3>2. n + 1 \notin restarts[s]
      BY <1>3
    <3>3. \/ previous = LastHmac(log[s]) /\ restarts'[s] = restarts[s]
          \/ previous = Genesis /\ n = 0
          \/ previous = Genesis /\ n + 1 \in restarts'[s]
      BY <1>0, <1>1, <3>1 DEF TypeOK
    <3> QED
      BY <1>2, <1>3, <3>1, <3>2, <3>3 DEF LastHmac
  <2>2. n + 1 # 1 => n \in 1 .. n /\ (n + 1) - 1 = n
    BY <1>3
  <2> QED
    BY <1>2, <1>5, <2>1, <2>2 DEF RowChained
<1>9. ASSUME NEW x \in Sessions, x # s, NEW i \in 1 .. Len(log'[x])
      PROVE  RowChained(x, i)'
  <2>1. log'[x] = log[x] /\ logged'[x] = logged[x] /\ restarts'[x] = restarts[x]
    BY <1>1, <1>9 DEF TypeOK
  <2>2. RowChained(x, i)
    BY <2>1 DEF ChainInv
  <2> QED
    BY <2>1, <2>2 DEF RowChained
<1>10. ASSUME NEW i \in 1 .. Len(log'[s])
       PROVE  RowChained(s, i)'
  <2>1. i \in 1 .. n \/ i = n + 1
    BY <1>3, <1>5
  <2> QED
    BY <1>7, <1>8, <2>1
<1> QED
  BY <1>9, <1>10 DEF ChainInv

(* Altering a payload leaves the tags of the chain as they are.            *)
LEMMA TamperChain ==
  ASSUME TypeOK, ChainInv, NEW s \in Sessions, NEW i \in 1 .. Bound["rows"],
         NEW p \in Payloads, TamperEntry(s, i, p)
  PROVE  ChainInv'
<1> DEFINE m == [log[s] EXCEPT ![i] = [log[s][i] EXCEPT !.payload = p]]
<1>1. /\ i \in 1 .. Len(log[s])
      /\ log' = [log EXCEPT ![s] = m]
      /\ Len(log'[s]) = Len(log[s])
      /\ UNCHANGED <<logged, restarts>>
  BY TamperFacts
<1>2. log'[s] = m
  BY <1>1 DEF TypeOK
<1>3. \A j \in 1 .. Len(log[s]) : /\ log'[s][j].hmac = log[s][j].hmac
                                  /\ log'[s][j].previous = log[s][j].previous
  <2>1. log[s] \in Seq(Row) /\ log[s][i] \in Row
    BY <1>1 DEF TypeOK
  <2> QED
    BY <1>2, <2>1 DEF Row
<1> HIDE DEF m
<1>4. ASSUME NEW x \in Sessions, NEW j \in 1 .. Len(log'[x])
      PROVE  RowChained(x, j)'
  <2>1. /\ Len(log'[x]) = Len(log[x])
        /\ \A k \in 1 .. Len(log[x]) : /\ log'[x][k].hmac = log[x][k].hmac
                                       /\ log'[x][k].previous = log[x][k].previous
    BY <1>1, <1>3 DEF TypeOK
  <2>2. RowChained(x, j) /\ Len(log[x]) \in Nat
    BY <2>1 DEF ChainInv, TypeOK
  <2>3. j # 1 => j - 1 \in 1 .. Len(log[x])
    BY <2>1, <2>2
  <2> QED
    BY <1>1, <2>1, <2>2, <2>3 DEF RowChained
<1> QED
  BY <1>4 DEF ChainInv

(* Every row of the log is chained as the invariant says.                  *)
THEOREM ChainAlways == Spec => []ChainInv
<1>1. Init => ChainInv
  <2> SUFFICES ASSUME Init PROVE ChainInv
    OBVIOUS
  <2>1. Len(<<>>) = 0
    OBVIOUS
  <2> QED
    BY <2>1 DEF Init, ChainInv
<1>2. TypeOK /\ ChainInv /\ [Next]_auditVars => ChainInv'
  <2> SUFFICES ASSUME TypeOK, ChainInv, [Next]_auditVars PROVE ChainInv'
    OBVIOUS
  <2>1. ASSUME NEW t \in Threads, NEW s \in Sessions, NEW e \in EventTypes,
               NEW p \in Payloads, LogEvent(t, s, e, p)
        PROVE  ChainInv'
    BY <2>1, LogEventChain
  <2>2. ASSUME NEW t \in Threads, Answering(t)
        PROVE  ChainInv'
    BY <2>2, AnsweringFrame DEF ChainInv, RowChained
  <2>3. ASSUME NEW s \in Sessions, NEW i \in 1 .. Bound["rows"],
               NEW p \in Payloads, TamperEntry(s, i, p)
        PROVE  ChainInv'
    BY <2>3, TamperChain
  <2>4. CASE UNCHANGED auditVars
    BY <2>4 DEF auditVars, ChainInv, RowChained
  <2> QED
    BY <2>1, <2>2, <2>3, <2>4, NextCases
<1> QED
  BY TypeCorrect, <1>1, <1>2, PTL DEF Spec

(* The chain of a session verifies (audit/mod.rs: verify_chain) exactly    *)
(* when no row was altered and no lookup of a previous HMAC failed for it. *)
THEOREM VerificationIsExact == Spec => []VerifyExact
<1>1. TypeOK /\ ChainInv => VerifyExact
  <2> SUFFICES ASSUME TypeOK, ChainInv, NEW s \in Sessions
               PROVE  Verifies(log[s]) <=> restarts[s] = {} /\ AlteredIn(s, log[s]) = {}
    BY DEF VerifyExact
  <2>1. DOMAIN log[s] = 1 .. Len(log[s]) /\ restarts[s] \subseteq 1 .. Len(log[s])
    BY DEF TypeOK
  <2>2. Verifies(log[s]) <=> \A i \in 1 .. Len(log[s]) :
          i \notin restarts[s] /\ log[s][i].payload = logged[s][i]
    BY <2>1, ChainFacts DEF Verifies
  <2> QED
    BY <2>1, <2>2 DEF AlteredIn
<1> QED
  BY TypeCorrect, ChainAlways, <1>1, PTL

-----------------------------------------------------------------------------
(* The verdicts.                                                           *)

(* The inductive invariant: a verdict is about rows the session has, and   *)
(* says exactly whether none of them was altered when it was read and none *)
(* is a restart.                                                           *)
Stands(s, answer) ==
  /\ answer.rows \in 0 .. Len(log[s])
  /\ answer.intact <=> /\ answer.altered = {}
                       /\ \A i \in restarts[s] : i > answer.rows

VerdictInv ==
  \A t \in Threads : thread[t].call = "done" => Stands(thread[t].sess, thread[t].answer)

(* An answer judges what a read returned.                                  *)
Judges(s, read, answer) ==
  /\ answer.rows = Len(read.rows)
  /\ answer.intact <=> Verifies(read.rows)
  /\ answer.altered = AlteredIn(s, read.rows)

LEMMA VerdictJudges ==
  ASSUME NEW s, NEW read, NEW total, NEW failed
  PROVE  Judges(s, read, Verdict(s, read, total, failed))
BY DEF Judges, Verdict

(* What a read returned verifies exactly when none of the rows was altered *)
(* and none is a restart, whether or not the read failed.                  *)
LEMMA ReadVerifies ==
  ASSUME TypeOK, ChainInv, NEW s \in Sessions, NEW read \in Reads(s)
  PROVE  Verifies(read.rows) <=> /\ AlteredIn(s, read.rows) = {}
                                 /\ \A i \in restarts[s] : i > Len(read.rows)
<1>1. /\ read.rows \in Seq(Row) /\ Len(read.rows) \in 0 .. Len(log[s])
      /\ \A i \in 1 .. Len(read.rows) : read.rows[i] = log[s][i]
  BY ReadIsPrefix
<1>2. Len(log[s]) \in Nat /\ DOMAIN read.rows = 1 .. Len(read.rows)
      /\ restarts[s] \subseteq 2 .. Len(log[s])
  BY <1>1 DEF TypeOK
<1>3. ASSUME NEW i \in 1 .. Len(read.rows)
      PROVE  /\ LinkOK(read.rows, i) <=> i \notin restarts[s]
             /\ HmacOK(read.rows[i]) <=> read.rows[i].payload = logged[s][i]
  <2>1. i \in 1 .. Len(log[s]) /\ (i # 1 => i - 1 \in 1 .. Len(read.rows))
    BY <1>1, <1>2
  <2>2. LinkOK(read.rows, i) <=> LinkOK(log[s], i)
    BY <1>1, <2>1 DEF LinkOK
  <2>3. read.rows[i] = log[s][i]
    BY <1>1
  <2> QED
    BY <2>1, <2>2, <2>3, ChainFacts
<1>4. Verifies(read.rows) <=> \A i \in 1 .. Len(read.rows) :
        i \notin restarts[s] /\ read.rows[i].payload = logged[s][i]
  BY <1>2, <1>3 DEF Verifies
<1>5. (\A i \in 1 .. Len(read.rows) : i \notin restarts[s])
        <=> \A i \in restarts[s] : i > Len(read.rows)
  BY <1>1, <1>2
<1>6. (\A i \in 1 .. Len(read.rows) : read.rows[i].payload = logged[s][i])
        <=> AlteredIn(s, read.rows) = {}
  BY <1>2 DEF AlteredIn
<1> QED
  BY <1>4, <1>5, <1>6

(* The verdict about what a read returned stands when it is given.         *)
LEMMA VerdictStands ==
  ASSUME TypeOK, ChainInv, NEW s \in Sessions, NEW read \in Reads(s), NEW answer,
         Judges(s, read, answer)
  PROVE  Stands(s, answer)
<1>1. Len(read.rows) \in 0 .. Len(log[s])
  BY ReadIsPrefix DEF TypeOK
<1> QED
  BY <1>1, ReadVerifies DEF Stands, Judges

(* A verdict that stands stands for ever: rows are only added at the end,  *)
(* and only a new row is a restart.                                        *)
LEMMA StandsOn ==
  ASSUME TypeOK, [Next]_auditVars, NEW s \in Sessions, NEW answer, Stands(s, answer)
  PROVE  Stands(s, answer)'
<1>0. Len(log[s]) \in Nat
  BY DEF TypeOK
<1>1. ASSUME NEW t \in Threads, NEW x \in Sessions, NEW e \in EventTypes,
             NEW p \in Payloads, LogEvent(t, x, e, p)
      PROVE  /\ Len(log'[s]) \in {Len(log[s]), Len(log[s]) + 1}
             /\ restarts'[s] \in {restarts[s], restarts[s] \cup {Len(log[s]) + 1}}
  <2>1. PICK previous \in Tags :
           /\ log' = [log EXCEPT ![x] = Append(log[x], NewRow(e, p, previous))]
           /\ \/ restarts' = restarts
              \/ restarts' = [restarts EXCEPT ![x] = restarts[x] \cup {Len(log[x]) + 1}]
    BY <1>1, LogEventFacts
  <2>2. log[x] \in Seq(Row) /\ NewRow(e, p, previous) \in Row
    BY NewRowFacts DEF TypeOK
  <2>3. Len(Append(log[x], NewRow(e, p, previous))) = Len(log[x]) + 1
    BY <2>2
  <2> QED
    BY <2>1, <2>3 DEF TypeOK
<1>2. ASSUME NEW t \in Threads, Answering(t)
      PROVE  log' = log /\ restarts' = restarts
  BY <1>2, AnsweringFrame
<1>3. ASSUME NEW x \in Sessions, NEW i \in 1 .. Bound["rows"], NEW p \in Payloads,
             TamperEntry(x, i, p)
      PROVE  Len(log'[s]) = Len(log[s]) /\ restarts' = restarts
  <2>1. /\ log' = [log EXCEPT ![x] = [log[x] EXCEPT ![i] =
                      [log[x][i] EXCEPT !.payload = p]]]
        /\ Len(log'[x]) = Len(log[x]) /\ restarts' = restarts
    BY <1>3, TamperFacts
  <2> QED
    BY <2>1 DEF TypeOK
<1>4. CASE UNCHANGED auditVars
  BY <1>4 DEF auditVars, Stands
<1>5. ASSUME Len(log'[s]) \in {Len(log[s]), Len(log[s]) + 1},
             restarts'[s] \in {restarts[s], restarts[s] \cup {Len(log[s]) + 1}}
      PROVE  Stands(s, answer)'
  <2>1. answer.rows \in 0 .. Len(log'[s])
    BY <1>0, <1>5 DEF Stands
  <2>2. Len(log[s]) + 1 > answer.rows
    BY <1>0 DEF Stands
  <2>3. (\A i \in restarts'[s] : i > answer.rows)
          <=> \A i \in restarts[s] : i > answer.rows
    BY <1>5, <2>2
  <2> QED
    BY <2>1, <2>3 DEF Stands
<1> QED
  BY <1>1, <1>2, <1>3, <1>4, <1>5, NextCases

(* A step answers at most one thread, and its verdict is about the rows of *)
(* a read.                                                                 *)
LEMMA DoneMeans ==
  ASSUME TypeOK, [Next]_auditVars, NEW t \in Threads, thread'[t].call = "done"
  PROVE  \/ thread[t].call = "done" /\ thread'[t] = thread[t]
         \/ /\ thread'[t].sess \in Sessions
            /\ UNCHANGED <<log, restarts>>
            /\ \E read \in Reads(thread'[t].sess) :
                 Judges(thread'[t].sess, read, thread'[t].answer)
<1> thread \in [Threads -> ThreadStates]
  BY DEF TypeOK
<1>1. ASSUME NEW u \in Threads, NEW s \in Sessions, NEW answer, Done(u, s, answer)
      PROVE  \/ u # t /\ thread'[t] = thread[t]
             \/ u = t /\ thread'[t].sess = s /\ thread'[t].answer = answer
  BY <1>1 DEF Done
<1>2. ASSUME NEW u \in Threads, NEW s \in Sessions, VerifyChain(u, s) \/ ExportSession(u, s)
      PROVE  \/ u # t /\ thread'[t] = thread[t]
             \/ /\ thread'[t].sess = s
                /\ \E read \in Reads(s) :
                     Judges(thread'[t].sess, read, thread'[t].answer)
  <2>1. PICK read \in Reads(s) :
               \/ Done(u, s, Verdict(s, read, 0, read.failed))
               \/ Done(u, s, Verdict(s, read, Len(read.rows), read.failed))
    BY <1>2 DEF VerifyChain, ExportSession
  <2>2. /\ Judges(s, read, Verdict(s, read, 0, read.failed))
        /\ Judges(s, read, Verdict(s, read, Len(read.rows), read.failed))
    BY VerdictJudges
  <2> QED
    BY <1>1, <2>1, <2>2
<1>3. ASSUME NEW u \in Threads, NEW s \in Sessions, SummaryCount(u, s)
      PROVE  thread'[t] = thread[t]
  BY <1>3 DEF SummaryCount
<1>4. ASSUME NEW u \in Threads, SummaryVerify(u)
      PROVE  \/ u # t /\ thread'[t] = thread[t]
             \/ /\ thread'[t].sess \in Sessions
                /\ \E read \in Reads(thread'[t].sess) :
                     Judges(thread'[t].sess, read, thread'[t].answer)
  <2>1. PICK s \in Sessions : s = thread[u].sess
    <3>1. thread[u].call = "summary" /\ thread[u] \in ThreadStates
      BY <1>4 DEF SummaryVerify
    <3>2. thread[u] # Idle
      BY <3>1 DEF Idle
    <3> QED
      BY <3>1, <3>2 DEF ThreadStates
  <2>2. PICK read \in Reads(s) :
          Done(u, s, Verdict(s, read, thread[u].answer.total,
                             read.failed \/ thread[u].answer.failed))
    BY <1>4, <2>1 DEF SummaryVerify
  <2> QED
    BY <1>1, <2>2, VerdictJudges
<1>5. ASSUME NEW u \in Threads, Answering(u)
      PROVE  UNCHANGED <<log, restarts>>
  BY <1>5, AnsweringFrame
<1>6. ASSUME NEW u \in Threads, NEW s \in Sessions, NEW e \in EventTypes,
             NEW p \in Payloads, LogEvent(u, s, e, p)
      PROVE  thread'[t] = thread[t]
  <2>1. thread' = [thread EXCEPT ![u] = Idle]
    BY <1>6 DEF LogEvent
  <2> QED
    BY <2>1 DEF Idle
<1>7. ASSUME NEW s \in Sessions, NEW i \in 1 .. Bound["rows"], NEW p \in Payloads,
             TamperEntry(s, i, p)
      PROVE  thread'[t] = thread[t]
  BY <1>7, TamperFacts
<1>8. CASE UNCHANGED auditVars
  BY <1>8 DEF auditVars
<1>9. ASSUME NEW u \in Threads, Answering(u)
      PROVE  \/ thread'[t] = thread[t]
             \/ /\ thread'[t].sess \in Sessions
                /\ \E read \in Reads(thread'[t].sess) :
                     Judges(thread'[t].sess, read, thread'[t].answer)
  BY <1>2, <1>3, <1>4, <1>9 DEF Answering
<1> QED
  BY <1>5, <1>6, <1>7, <1>8, <1>9, NextCases

(* Every verdict given stands.                                             *)
THEOREM VerdictsStand == Spec => []VerdictInv
<1>1. Init => VerdictInv
  BY DEF Init, VerdictInv, Idle
<1>2. TypeOK /\ ChainInv /\ VerdictInv /\ [Next]_auditVars => VerdictInv'
  <2> SUFFICES ASSUME TypeOK, ChainInv, VerdictInv, [Next]_auditVars,
                      NEW t \in Threads, thread'[t].call = "done"
               PROVE  Stands(thread[t].sess, thread[t].answer)'
    BY DEF VerdictInv
  <2>1. CASE thread[t].call = "done" /\ thread'[t] = thread[t]
    <3>1. PICK s \in Sessions, answer \in Answers :
            thread[t].sess = s /\ thread[t].answer = answer
      BY <2>1 DEF TypeOK, ThreadStates, Idle
    <3>2. Stands(s, answer)'
      BY <2>1, <3>1, StandsOn DEF VerdictInv
    <3> QED
      BY <2>1, <3>1, <3>2 DEF Stands
  <2>2. CASE /\ thread'[t].sess \in Sessions
             /\ UNCHANGED <<log, restarts>>
             /\ \E read \in Reads(thread'[t].sess) :
                  Judges(thread'[t].sess, read, thread'[t].answer)
    <3>1. Stands(thread'[t].sess, thread'[t].answer)
      BY <2>2, VerdictStands
    <3> QED
      BY <2>2, <3>1 DEF Stands
  <2> QED
    BY <2>1, <2>2, DoneMeans
<1> QED
  BY TypeCorrect, ChainAlways, <1>1, <1>2, PTL DEF Spec

(* A verdict about a chain says exactly whether a row it is about was      *)
(* altered when it was read or chained after a failed lookup, also when    *)
(* the read behind it failed half way and the error was dropped            *)
(* (audit/mod.rs: filter_map(|r| r.ok())), and nothing logged later puts   *)
(* a failed lookup among those rows.                                       *)
THEOREM VerdictsAreExact == Spec => []VerdictExact
<1>1. VerdictInv => VerdictExact
  BY DEF VerdictInv, Stands, VerdictExact
<1> QED
  BY VerdictsStand, <1>1, PTL

-----------------------------------------------------------------------------
(* The summary, made in two holdings of the mutex.                         *)

(* The inductive invariant: what was counted without a failing read is     *)
(* still in the table when the second holding reads it.                    *)
Covered(t) ==
  /\ thread[t].call = "summary" /\ ~thread[t].answer.failed
       => thread[t].answer.total <= Len(log[thread[t].sess])
  /\ thread[t].call = "done" /\ ~thread[t].answer.failed
       => thread[t].answer.total <= thread[t].answer.rows

CoveredInv == \A t \in Threads : Covered(t)

(* No row is ever taken out of the table.                                  *)
LEMMA RowsOnlyGrow ==
  ASSUME TypeOK, [Next]_auditVars, NEW s \in Sessions
  PROVE  Len(log[s]) <= Len(log'[s]) /\ Len(log[s]) \in Nat /\ Len(log'[s]) \in Nat
<1>1. Len(log[s]) \in Nat
  BY DEF TypeOK
<1>2. PICK answer : answer = [rows |-> Len(log[s]), intact |-> FALSE, altered |-> {1}]
  OBVIOUS
<1>3. Stands(s, answer)
  BY <1>1, <1>2 DEF Stands
<1>4. Stands(s, answer)'
  BY <1>3, StandsOn
<1>5. TypeOK'
  BY NextTypeOK
<1>6. Len(log'[s]) \in Nat
  BY <1>5 DEF TypeOK
<1> QED
  BY <1>1, <1>2, <1>4, <1>6 DEF Stands

(* A count without a failing read is that of all rows.                     *)
LEMMA CountIsAll ==
  ASSUME TypeOK, NEW s \in Sessions
  PROVE  Cardinality({i \in DOMAIN log[s] : log[s][i].type \notin {}}) = Len(log[s])
<1>1. Len(log[s]) \in Nat /\ DOMAIN log[s] = 1 .. Len(log[s])
  BY DEF TypeOK
<1>2. {i \in DOMAIN log[s] : log[s][i].type \notin {}} = 1 .. Len(log[s])
  BY <1>1
<1>3. Cardinality(1 .. Len(log[s])) = Len(log[s])
  BY <1>1, FS_Interval
<1> QED
  BY <1>2, <1>3

(* What a thread is doing after a step is what it did, or follows from     *)
(* what the step read under the mutex.                                     *)
LEMMA StepCovered ==
  ASSUME TypeOK, CoveredInv, [Next]_auditVars, NEW t \in Threads
  PROVE  Covered(t)'
<1> thread \in [Threads -> ThreadStates] /\ Covered(t)
  BY DEF TypeOK, CoveredInv
<1>1. CASE thread'[t] = thread[t]
  <2>1. CASE thread[t].call = "summary"
    <3>1. PICK s \in Sessions : s = thread[t].sess /\ thread[t].answer.total \in Nat
      BY <2>1 DEF ThreadStates, Idle, Answers
    <3> QED
      BY <1>1, <2>1, <3>1, RowsOnlyGrow DEF Covered
  <2>2. CASE thread[t].call # "summary"
    BY <1>1, <2>2 DEF Covered
  <2> QED
    BY <2>1, <2>2
<1>2. CASE thread'[t] = Idle
  BY <1>2 DEF Idle, Covered
<1>3. ASSUME NEW s \in Sessions, NEW answer, Done(t, s, answer),
             ~answer.failed => answer.total <= answer.rows
      PROVE  Covered(t)'
  <2>1. thread'[t] = [call |-> "done", sess |-> s, answer |-> answer]
    BY <1>3 DEF Done
  <2> QED
    BY <1>3, <2>1 DEF Covered
<1>4. ASSUME NEW s \in Sessions, VerifyChain(t, s) \/ ExportSession(t, s)
      PROVE  Covered(t)'
  <2>1. PICK read \in Reads(s) :
               \/ Done(t, s, Verdict(s, read, 0, read.failed))
               \/ Done(t, s, Verdict(s, read, Len(read.rows), read.failed))
    BY <1>4 DEF VerifyChain, ExportSession
  <2>2. Len(read.rows) \in Nat
    BY ReadIsPrefix
  <2>3. ASSUME NEW n
        PROVE  /\ Verdict(s, read, n, read.failed).total = n
               /\ Verdict(s, read, n, read.failed).rows = Len(read.rows)
    BY DEF Verdict
  <2>4. CASE Done(t, s, Verdict(s, read, 0, read.failed))
    BY <1>3, <2>2, <2>3, <2>4
  <2>5. CASE Done(t, s, Verdict(s, read, Len(read.rows), read.failed))
    BY <1>3, <2>2, <2>3, <2>5
  <2> QED
    BY <2>1, <2>4, <2>5
<1>5. ASSUME NEW s \in Sessions, SummaryCount(t, s) PROVE Covered(t)'
  <2>1. PICK lost \in SUBSET {log[s][i].type : i \in DOMAIN log[s]} :
          thread' = [thread EXCEPT ![t] =
            [call |-> "summary", sess |-> s,
             answer |-> [NoAnswer EXCEPT
               !.failed = lost # {},
               !.total = Cardinality({i \in DOMAIN log[s] : log[s][i].type \notin lost})]]]
    BY <1>5 DEF SummaryCount
  <2> DEFINE n == Cardinality({i \in DOMAIN log[s] : log[s][i].type \notin lost})
             answer == [NoAnswer EXCEPT !.failed = lost # {}, !.total = n]
  <2>2. UNCHANGED log /\ Len(log[s]) \in Nat
    BY <1>5 DEF SummaryCount, TypeOK
  <2>3. lost = {} => n = Len(log[s])
    BY CountIsAll
  <2>4. thread' = [thread EXCEPT ![t] = [call |-> "summary", sess |-> s, answer |-> answer]]
    BY <2>1
  <2> HIDE DEF n
  <2>5. answer.total = n /\ (lost # {} => answer.failed)
    <3>1. answer.total = n /\ answer.failed = (lost # {})
      BY DEF NoAnswer
    <3> HIDE DEF answer
    <3>2. lost # {} => (lost # {}) = TRUE
      OBVIOUS
    <3>3. lost # {} => answer.failed = TRUE
      BY <3>1, <3>2, Zenon
    <3> QED
      BY <3>1, <3>3
  <2> HIDE DEF answer
  <2>6. thread'[t] = [call |-> "summary", sess |-> s, answer |-> answer]
    BY <2>4
  <2>7. /\ thread'[t].call = "summary" /\ thread'[t].sess = s
        /\ thread'[t].answer.total = n
        /\ ~thread'[t].answer.failed => lost = {}
    <3>1. /\ thread'[t].call = "summary" /\ thread'[t].sess = s
          /\ thread'[t].answer = answer
      BY <2>6
    <3> QED
      BY <2>5, <3>1
  <2>8. ~thread'[t].answer.failed
          => thread'[t].answer.total <= Len(log'[thread'[t].sess])
    <3>1. log'[s] = log[s]
      BY <2>2
    <3>2. ~thread'[t].answer.failed => n = Len(log[s])
      BY <2>3, <2>7
    <3> QED
      BY <2>2, <2>7, <3>1, <3>2
  <2>9. thread'[t].call # "done"
    BY <2>7
  <2> QED
    BY <2>8, <2>9 DEF Covered
<1>6. CASE SummaryVerify(t)
  <2>1. PICK s \in Sessions : s = thread[t].sess /\ thread[t].call = "summary"
    <3>1. thread[t].call = "summary" /\ thread[t] \in ThreadStates
      BY <1>6 DEF SummaryVerify
    <3>2. thread[t] # Idle
      BY <3>1 DEF Idle
    <3> QED
      BY <3>1, <3>2 DEF ThreadStates
  <2>2. PICK read \in Reads(s) :
          Done(t, s, Verdict(s, read, thread[t].answer.total,
                             read.failed \/ thread[t].answer.failed))
    BY <1>6, <2>1 DEF SummaryVerify
  <2>3. ~read.failed => read.rows = log[s]
    BY DEF Reads, FullRead
  <2>4. ~thread[t].answer.failed => thread[t].answer.total <= Len(log[s])
    BY <2>1 DEF Covered
  <2> DEFINE answer == Verdict(s, read, thread[t].answer.total,
                               read.failed \/ thread[t].answer.failed)
  <2>5. /\ answer.failed = (read.failed \/ thread[t].answer.failed)
        /\ answer.total = thread[t].answer.total
        /\ answer.rows = Len(read.rows)
    BY DEF Verdict
  <2>6. Done(t, s, answer)
    BY <2>2
  <2> HIDE DEF answer
  <2>7. ~answer.failed => ~read.failed /\ ~thread[t].answer.failed
    BY <2>5, Zenon
  <2>8. ~answer.failed => answer.total <= answer.rows
    BY <2>3, <2>4, <2>5, <2>7
  <2> QED
    BY <1>3, <2>6, <2>8
<1>7. ASSUME NEW u \in Threads, u # t, Answering(u) PROVE thread'[t] = thread[t]
  BY <1>7 DEF Answering, VerifyChain, ExportSession, SummaryCount, SummaryVerify, Done
<1>8. ASSUME NEW u \in Threads, NEW s \in Sessions, NEW e \in EventTypes,
             NEW p \in Payloads, LogEvent(u, s, e, p)
      PROVE  thread'[t] = thread[t] \/ thread'[t] = Idle
  <2>1. thread' = [thread EXCEPT ![u] = Idle]
    BY <1>8 DEF LogEvent
  <2> QED
    BY <2>1
<1>9. ASSUME NEW s \in Sessions, NEW i \in 1 .. Bound["rows"], NEW p \in Payloads,
             TamperEntry(s, i, p)
      PROVE  thread'[t] = thread[t]
  BY <1>9, TamperFacts
<1>10. CASE UNCHANGED auditVars
  BY <1>1, <1>10 DEF auditVars
<1>11. CASE Answering(t)
  BY <1>4, <1>5, <1>6, <1>11 DEF Answering
<1> QED
  BY <1>1, <1>2, <1>7, <1>8, <1>9, <1>10, <1>11, NextCases

(* A summary whose reads did not fail is covered by its own verdict, with  *)
(* any number of threads logging between its two holdings                  *)
(* (audit/mod.rs: get_session_summary).                                    *)
THEOREM SummariesAreCovered == Spec => []SummaryCovered
<1>1. Init => CoveredInv
  BY DEF Init, CoveredInv, Covered, Idle
<1>2. TypeOK /\ CoveredInv /\ [Next]_auditVars => CoveredInv'
  <2> SUFFICES ASSUME TypeOK, CoveredInv, [Next]_auditVars, NEW t \in Threads
               PROVE  Covered(t)'
    BY DEF CoveredInv
  <2> QED
    BY StepCovered
<1>3. CoveredInv => SummaryCovered
  BY DEF CoveredInv, Covered, SummaryCovered
<1> QED
  BY TypeCorrect, <1>1, <1>2, <1>3, PTL DEF Spec

=============================================================================
