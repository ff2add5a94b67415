---------------------------- MODULE DataResidue ----------------------------
(***************************************************************************)
(* The analyser of data_residue.py: how much every stakeholder would have  *)
(* been sent without the gateway (the baseline) and with it.  Its methods  *)
(* never await, so a call is one step.  They may be called in any order    *)
(* and again; what they count accumulates.  The gateway of an analysis is  *)
(* one of its own, so this module takes over the operators of LocalGateway *)
(* and leaves its variables alone.  A size counts the fields of a record.  *)
(***************************************************************************)
EXTENDS LocalGateway, Functions

CONSTANTS
  Analyses,  \* the lists of records that may be analysed
  MaxCalls   \* bound: calls of the analyser

VARIABLES
  lastRecords,   \* the records of the last call
  manifest,      \* of the last analysis with the gateway, if any
  categories,    \* the types of data the baseline has met
  counted,       \* records counted without the gateway, by type
  baseline,      \* size counted without the gateway, by type
  filtered,      \* size counted with the gateway, by type
  baselineFor,   \* [records, size] without the gateway, by recipient
  filteredFor,   \* [records, size] with the gateway, by recipient
  calls,         \* history: the number of calls made
  runs,          \* history: the baselines run before and after a manifest was
                 \* set, and the analyses that went through
  same           \* history: all calls had the same records and manifest, and
                 \* none raised

baselineVars == <<categories, counted, baseline, baselineFor>>
filteredVars == <<filtered, filteredFor>>
analyserVars == <<lastRecords, manifest, baselineVars, filteredVars, calls, runs, same>>

Types == {r.type : r \in Records}

(* "all_stakeholders" stands in for the stakeholders while no manifest is  *)
(* set; it is one recipient.                                               *)
Receivers == Stakeholders \cup {"all_stakeholders"}

NoManifest == <<[id |-> "all_stakeholders"]>>

(* Lists of recipients and of types are finite, and so is a record.        *)
ASSUME ResidueAssumption ==
  /\ NoManifest \notin Manifests
  /\ IsFiniteSet(Receivers) /\ IsFiniteSet(Types)
  /\ Analyses \subseteq Seq(Records)
  /\ \A r \in Records : IsFiniteSet(DOMAIN r.fields)

AnalyserInit ==
  /\ lastRecords = <<>> /\ manifest = NoManifest /\ categories = {}
  /\ calls = 0 /\ runs = [unset |-> 0, set |-> 0, analyses |-> 0]
  /\ same = TRUE
  /\ counted = [t \in Types |-> 0]
  /\ baseline = [t \in Types |-> 0] /\ filtered = [t \in Types |-> 0]
  /\ baselineFor = [x \in Receivers |-> [records |-> 0, size |-> 0]]
  /\ filteredFor = [x \in Receivers |-> [records |-> 0, size |-> 0]]

-----------------------------------------------------------------------------
(* _estimate_bytes *)
Size(fields) == Cardinality(DOMAIN fields)

OfType(list, t) == {n \in DOMAIN list : list[n].type = t}

(* Every entry of a manifest is a recipient, also of a stakeholder's       *)
(* second declaration.                                                     *)
Copies(m, x) == Cardinality({i \in DOMAIN m : m[i].id = x})

(* The size of these records of a list.                                    *)
SizeOf(list, records) ==
  SumFunctionOnSet([n \in DOMAIN list |-> Size(list[n].fields)], records)

(* What the baseline adds: every record in full to every recipient.        *)
CountBaseline(list, m) ==
  LET size == SizeOf(list, DOMAIN list) IN
  /\ categories' = categories \cup {list[n].type : n \in DOMAIN list}
  /\ counted' = [t \in Types |-> counted[t] + Cardinality(OfType(list, t))]
  /\ baseline' = [t \in Types |-> baseline[t] + SizeOf(list, OfType(list, t))]
  /\ baselineFor' = [x \in Receivers |->
       [records |-> baselineFor[x].records + Copies(m, x) * Len(list),
        size    |-> baselineFor[x].size + Copies(m, x) * size]]

(* The records the gateway processes before one raises.                    *)
BeforeRaise(list, m) ==
  {n \in DOMAIN list : \A k \in 1..n : RaisesAt(NewState(m), list[k]) = {}}

(* The positions a record is sent to, and the size of what is sent there.  *)
SentTo(m, record) == DOMAIN m \ Withheld(NewState(m), record)

SizeAt(m, i, record) == Size(CHOOSE v \in ViewsOf(NewState(m), i, record) : TRUE)

SizeAll(m, record, positions) ==
  SumFunction([i \in positions |-> SizeAt(m, i, record)])

(* The positions of a recipient among those a record is sent to.           *)
PositionsOf(m, x, record) == {i \in SentTo(m, record) : m[i].id = x}

(* What an analysis with the gateway adds.                                 *)
CountFiltered(list, m) ==
  LET done == BeforeRaise(list, m) IN
  /\ filtered' = [t \in Types |->
       filtered[t] + SumFunction([n \in OfType(list, t) \cap done |->
                                    SizeAll(m, list[n], SentTo(m, list[n]))])]
  /\ filteredFor' = [x \in Receivers |->
       [records |-> filteredFor[x].records
          + SumFunction([n \in done |-> Cardinality(PositionsOf(m, x, list[n]))]),
        size |-> filteredFor[x].size
          + SumFunction([n \in done |-> SizeAll(m, list[n], PositionsOf(m, x, list[n]))])]]

(* A call with these records and for this manifest. *)
Called(list, m) ==
  /\ calls < MaxCalls /\ calls' = calls + 1
  /\ lastRecords' = list /\ manifest' = m
  /\ same' = (same /\ (calls # 0 => list = lastRecords)
                   /\ (manifest # NoManifest => m = manifest))

(* run_baseline counts for the manifest of the last analysis, if any.      *)
RunBaseline(list) ==
  /\ Called(list, manifest) /\ CountBaseline(list, manifest)
  /\ runs' = IF manifest = NoManifest THEN [runs EXCEPT !.unset = @ + 1]
                                      ELSE [runs EXCEPT !.set = @ + 1]
  /\ UNCHANGED filteredVars

(* Mutant: the baseline is run before the manifest is set.                 *)
RunChambersUnset(list, m) ==
  /\ BeforeRaise(list, m) = DOMAIN list
  /\ Called(list, m) /\ CountFiltered(list, m)
  /\ IF categories = {}
     THEN /\ CountBaseline(list, manifest)
          /\ runs' = [runs EXCEPT !.analyses = @ + 1, !.set = @ + 1]
     ELSE runs' = [runs EXCEPT !.analyses = @ + 1] /\ UNCHANGED baselineVars

(* run_chambers, when no record raises: the baseline is run as well, with  *)
(* the manifest just set, unless it has met a record before.               *)
RunChambers(list, m) ==
  /\ BeforeRaise(list, m) = DOMAIN list
  /\ Called(list, m) /\ CountFiltered(list, m)
  /\ IF categories = {}
     THEN /\ CountBaseline(list, m)
          /\ runs' = [runs EXCEPT !.analyses = @ + 1, !.set = @ + 1]
     ELSE runs' = [runs EXCEPT !.analyses = @ + 1] /\ UNCHANGED baselineVars

(* run_chambers, when a record raises: what was counted stays counted.     *)
RunChambersRaises(list, m) ==
  /\ BeforeRaise(list, m) # DOMAIN list
  /\ calls < MaxCalls /\ calls' = calls + 1
  /\ lastRecords' = list /\ manifest' = m /\ same' = FALSE
  /\ CountFiltered(list, m)
  /\ UNCHANGED <<runs, baselineVars>>

AnalyserNext ==
  \E list \in Analyses :
    \/ RunBaseline(list)
    \/ \E m \in Manifests : RunChambers(list, m) \/ RunChambersRaises(list, m)

-----------------------------------------------------------------------------
(* compare: the records of the last call are counted as the total, sizes   *)
(* are totalled over the recipients, and the list of categories has those  *)
(* the baseline has met.                                                   *)
TotalRecords == Len(lastRecords)

TotalOf(counts) == SumFunction([x \in Receivers |-> counts[x].size])

Listed == SumFunctionOnSet(filtered, categories)

AnalyserTypeOK ==
  /\ lastRecords \in Seq(Records)
  /\ manifest \in Manifests \cup {NoManifest} /\ categories \subseteq Types
  /\ calls \in Nat /\ runs \in [unset : Nat, set : Nat, analyses : Nat]
  /\ same \in BOOLEAN
  /\ counted \in [Types -> Nat]
  /\ baseline \in [Types -> Nat] /\ filtered \in [Types -> Nat]
  /\ baselineFor \in [Receivers -> [records : Nat, size : Nat]]
  /\ filteredFor \in [Receivers -> [records : Nat, size : Nat]]

(* How often a recipient is held against the records of the report.        *)
Held(x) == runs.set * Copies(manifest, x) + runs.unset * Copies(NoManifest, x)

(* What the report of an analyser used for one list of records and one     *)
(* manifest compares, in whatever order it was called: each recipient is   *)
(* held against the records reported as the total once for every baseline  *)
(* run since the manifest was set, and has been sent at most that many for *)
(* every analysis.  So like is compared with like if these are equally     *)
(* many, as after a single analysis; a baseline run before it counts for   *)
(* one recipient that is nobody, and one more run after it doubles what    *)
(* the stakeholders are held against.  The categories listed add up to the *)
(* totals (data_residue.py: run_baseline, run_chambers, compare).          *)
LikeWithLike ==
  same =>
    /\ \A x \in Receivers :
         /\ baselineFor[x].records = Held(x) * TotalRecords
         /\ baselineFor[x].size = Held(x) * SizeOf(lastRecords, DOMAIN lastRecords)
         /\ filteredFor[x].records <= runs.analyses * (Copies(manifest, x) * TotalRecords)
    /\ SumFunction(counted) = (runs.set + runs.unset) * TotalRecords
    /\ Listed = TotalOf(filteredFor)
=============================================================================
