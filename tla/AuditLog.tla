------------------------------ MODULE AuditLog ------------------------------
(***************************************************************************)
(* The HMAC-chained audit log (audit/mod.rs): one SQLite table behind a    *)
(* mutex, rows chained per session.  A step is one holding of the mutex.   *)
(* A query that fails half way yields the rows read so far: the code drops *)
(* the error (filter_map(|r| r.ok())), as it drops the error of the lookup *)
(* a new row is chained by.                                                *)
(***************************************************************************)
EXTENDS Integers, Sequences, FiniteSets

CONSTANTS
  Threads,     \* threads that share the log
  Sessions,    \* sessions with rows
  EventTypes,  \* EventType
  Payloads,    \* payloads, serialised
  Bound        \* bounds: rows of a session, failing reads, altered rows

ASSUME AuditAssumption ==
  /\ IsFiniteSet(EventTypes) /\ IsFiniteSet(Payloads)
  /\ Bound \in [{"rows", "faults", "tampered"} -> Nat]

VARIABLES
  log,       \* the rows of each session, in the order of their id
  thread,    \* what each thread does and the last answer it got
  logged,    \* history: the payloads as they were logged
  restarts,  \* history: the rows whose lookup failed on a session with rows
  spent      \* failing reads and altered rows so far

auditVars == <<log, thread, logged, restarts, spent>>

Budgets == {"faults", "tampered"}

-----------------------------------------------------------------------------
(* hmac::sign, taken to be injective: a tag is what it was computed from,  *)
(* the payloads of the chain up to it.                                     *)
Tags == Seq(Payloads)
Genesis == <<>>
Sign(previous, payload) == Append(previous, payload)

Row == [type : EventTypes, payload : Payloads, hmac : Tags, previous : Tags]

NewRow(type, payload, previous) ==
  [type |-> type, payload |-> payload, hmac |-> Sign(previous, payload),
   previous |-> previous]

LastHmac(entries) ==
  IF entries = <<>> THEN Genesis ELSE entries[Len(entries)].hmac

(* The entry before entry i is the one it names. *)
LinkOK(entries, i) ==
  entries[i].previous = IF i = 1 THEN Genesis ELSE entries[i - 1].hmac

HmacOK(entry) == entry.hmac = Sign(entry.previous, entry.payload)

(* Mutant: the tag of an entry is not computed again. *)
VerifiesLinks(entries) == \A i \in DOMAIN entries : LinkOK(entries, i)

(* verify_chain, verify_chain_internal: no entry breaks the chain. *)
Verifies(entries) ==
  \A i \in DOMAIN entries : LinkOK(entries, i) /\ HmacOK(entries[i])

(* What a query for all rows of a session may return, and whether a read   *)
(* failed: all of them, or those before the failure.                       *)
FullRead(s) == [rows |-> log[s], failed |-> FALSE]
Reads(s) ==
  {FullRead(s)} \cup
  {[rows |-> SubSeq(log[s], 1, n), failed |-> TRUE] : n \in 0 .. Len(log[s]) - 1}

Spend(kind, yes) ==
  /\ yes => spent[kind] < Bound[kind]
  /\ spent' = [spent EXCEPT ![kind] = IF yes THEN @ + 1 ELSE @]

-----------------------------------------------------------------------------
(* The answer of a call: the number of events it counts, the verdict, and  *)
(* as history the number of rows the verdict is about, those of them that  *)
(* were altered when they were read, and whether a read failed.            *)
NoAnswer ==
  [total |-> 0, intact |-> FALSE, rows |-> 0, altered |-> {}, failed |-> FALSE]

Idle == [call |-> "none", sess |-> "none", answer |-> NoAnswer]

Init ==
  /\ log = [s \in Sessions |-> <<>>]
  /\ logged = [s \in Sessions |-> <<>>]
  /\ restarts = [s \in Sessions |-> {}]
  /\ thread = [t \in Threads |-> Idle]
  /\ spent = [k \in Budgets |-> 0]

CanCall(t) == thread[t].call \in {"none", "done"}

Done(t, s, answer) ==
  thread' = [thread EXCEPT ![t] = [call |-> "done", sess |-> s, answer |-> answer]]

(* Mutant: a row is chained to the newest row of any session. *)
LogEventAcross(t, s, type, payload) ==
  /\ CanCall(t) /\ Len(log[s]) < Bound["rows"]
  /\ \E other \in Sessions :
       log' = [log EXCEPT ![s] =
                 Append(@, NewRow(type, payload, LastHmac(log[other])))]
  /\ logged' = [logged EXCEPT ![s] = Append(@, payload)]
  /\ UNCHANGED <<thread, restarts, spent>>

(* Mutant: when the lookup fails the event is dropped. *)
LogEventDropped(t, s, type, payload) ==
  /\ CanCall(t) /\ Len(log[s]) < Bound["rows"]
  /\ \E failed \in BOOLEAN :
       /\ Spend("faults", failed)
       /\ log' = IF failed THEN log ELSE
            [log EXCEPT ![s] = Append(@, NewRow(type, payload, LastHmac(log[s])))]
  /\ logged' = [logged EXCEPT ![s] = Append(@, payload)]
  /\ thread' = [thread EXCEPT ![t] = Idle]
  /\ UNCHANGED restarts

(* log_event: a failing lookup of the previous HMAC counts as none found.  *)
(* A failing insert changes nothing.                                       *)
LogEvent(t, s, type, payload) ==
  /\ CanCall(t) /\ Len(log[s]) < Bound["rows"]
  /\ \E failed \in BOOLEAN :
       /\ Spend("faults", failed)
       /\ LET previous == IF failed THEN Genesis ELSE LastHmac(log[s])
          IN log' = [log EXCEPT ![s] = Append(@, NewRow(type, payload, previous))]
       /\ restarts' = IF failed /\ log[s] # <<>>
                        THEN [restarts EXCEPT ![s] = @ \cup {Len(log[s]) + 1}]
                        ELSE restarts
  /\ logged' = [logged EXCEPT ![s] = Append(@, payload)]
  /\ thread' = [thread EXCEPT ![t] = Idle]

(* The rows, of those read, that have not the payload they were logged     *)
(* with.                                                                   *)
AlteredIn(s, rows) == {i \in DOMAIN rows : rows[i].payload # logged[s][i]}

(* The answer that counts a total and judges the rows a read returned. *)
Verdict(s, read, total, failed) ==
  [total |-> total, intact |-> Verifies(read.rows), rows |-> Len(read.rows),
   altered |-> AlteredIn(s, read.rows), failed |-> failed]

VerifyChain(t, s) ==
  /\ CanCall(t)
  /\ \E read \in Reads(s) :
       Spend("faults", read.failed) /\ Done(t, s, Verdict(s, read, 0, read.failed))
  /\ UNCHANGED <<log, logged, restarts>>

(* export_session reads once and verifies what it has read. *)
ExportSession(t, s) ==
  /\ CanCall(t)
  /\ \E read \in Reads(s) :
       /\ Spend("faults", read.failed)
       /\ Done(t, s, Verdict(s, read, Len(read.rows), read.failed))
  /\ UNCHANGED <<log, logged, restarts>>

(* get_session_summary, first holding: the rows are counted type by type,  *)
(* and the types that come after a failing read are not counted.           *)
SummaryCount(t, s) ==
  /\ CanCall(t)
  /\ \E lost \in SUBSET {log[s][i].type : i \in DOMAIN log[s]} :
       /\ Spend("faults", lost # {})
       /\ thread' = [thread EXCEPT ![t] =
            [call |-> "summary", sess |-> s,
             answer |-> [NoAnswer EXCEPT
               !.failed = lost # {},
               !.total = Cardinality({i \in DOMAIN log[s] :
                                        log[s][i].type \notin lost})]]]
  /\ UNCHANGED <<log, logged, restarts>>

(* Mutant: the rows are counted after they have been verified. *)
SummaryCountLast(t) ==
  /\ thread[t].call = "summary"
  /\ LET s == thread[t].sess
         verified == SubSeq(log[s], 1, thread[t].answer.total)
     IN Done(t, s, Verdict(s, [rows |-> verified], Len(log[s]),
                           thread[t].answer.failed))
  /\ UNCHANGED <<log, logged, restarts, spent>>

(* Second holding: the chain is verified as it is now. *)
SummaryVerify(t) ==
  /\ thread[t].call = "summary"
  /\ LET s == thread[t].sess
         counted == thread[t].answer
     IN \E read \in Reads(s) :
          /\ Spend("faults", read.failed)
          /\ Done(t, s, Verdict(s, read, counted.total,
                               read.failed \/ counted.failed))
  /\ UNCHANGED <<log, logged, restarts>>

(* tamper_entry, which the tests use: a row gets another payload and keeps *)
(* its tag.                                                                *)
TamperEntry(s, i, payload) ==
  /\ i \in DOMAIN log[s] /\ payload # log[s][i].payload
  /\ Spend("tampered", TRUE)
  /\ log' = [log EXCEPT ![s][i].payload = payload]
  /\ UNCHANGED <<thread, logged, restarts>>

Next ==
  \/ \E t \in Threads, s \in Sessions :
       \/ \E e \in EventTypes, p \in Payloads : LogEvent(t, s, e, p)
       \/ VerifyChain(t, s) \/ ExportSession(t, s) \/ SummaryCount(t, s)
  \/ \E t \in Threads : SummaryVerify(t)
  \/ \E s \in Sessions, i \in 1 .. Bound["rows"], p \in Payloads :
       TamperEntry(s, i, p)

Spec == Init /\ [][Next]_auditVars

-----------------------------------------------------------------------------
Answers ==
  [total : Nat, intact : BOOLEAN, rows : Nat, altered : SUBSET Nat, failed : BOOLEAN]

ThreadStates ==
  {Idle} \cup [call : {"summary", "done"}, sess : Sessions, answer : Answers]

TypeOK ==
  /\ log \in [Sessions -> Seq(Row)]
  /\ logged \in [Sessions -> Seq(Payloads)]
  /\ restarts \in [Sessions -> SUBSET Nat]
  /\ thread \in [Threads -> ThreadStates]
  /\ spent \in [Budgets -> Nat]
  /\ \A s \in Sessions : /\ Len(logged[s]) = Len(log[s])
                          /\ restarts[s] \subseteq 2 .. Len(log[s])

(* The chain of a session verifies exactly when no row was altered and no  *)
(* lookup of a previous HMAC ever failed for it, however the rows of       *)
(* different sessions and threads interleave in the table.                 *)
VerifyExact ==
  \A s \in Sessions :
    Verifies(log[s]) <=> restarts[s] = {} /\ AlteredIn(s, log[s]) = {}

(* Whoever was told that a chain is intact, also after a read that failed  *)
(* half way, was told so of rows none of which was altered when they were  *)
(* read, and none of which was chained after a failed lookup; and whoever  *)
(* was told that it is broken was told of such a row.  What is logged      *)
(* later puts no such lookup among the rows of a verdict already given.    *)
VerdictExact ==
  \A t \in Threads :
    thread[t].call = "done" =>
      LET answer == thread[t].answer
      IN answer.intact <=>
           /\ answer.altered = {}
           /\ \A i \in restarts[thread[t].sess] : i > answer.rows

(* A summary whose reads did not fail counts no event that its verdict     *)
(* about the chain does not cover, although it is made in two holdings.    *)
SummaryCovered ==
  \A t \in Threads :
    thread[t].call = "done" /\ ~thread[t].answer.failed
      => thread[t].answer.total <= thread[t].answer.rows

=============================================================================
