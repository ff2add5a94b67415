# Verification of the Chambers gateway and testbed

TLA+ models, TLC runs and TLAPS proofs for the data-sovereignty testbed in
`src/`. A vehicle's records pass through a gateway that encrypts them under a
per-session key, shows each stakeholder only what the manifest declares, logs
every decision, and destroys the key and the data when the session ends. Simulator
adapters produce the records. The project asks what of all that survives threads,
failing calls, retries and vehicles that come and go.

## 1. Inventory

| Component | Source | State | Operations | Hard part | What makes it correct |
|---|---|---|---|---|---|
| Software HSM | `chambers-gateway/src/hsm/mod.rs` | key table, next handle, behind one mutex | generate, encrypt, decrypt, destroy, is-active | `encrypt` copies the key under the lock and seals outside it | a handle is issued once; a destroyed key never comes back |
| Blob store and burn engine | `burn/mod.rs` | session → blobs; session → key handle | register, store, six burn layers, verification | every layer takes its own locks; a failed layer does not stop the burn | after a burn nothing is readable; other sessions are untouched; a receipt is true |
| Gateway | `gateway/mod.rs` | active sessions, evaluators, metrics, endpoints | `start_session`, `process_record`, `end_session`, `revoke_consent`, `enter_fallback_mode` | several mutexes taken one after the other; `?` leaves work half done | sealed after end; every processed record decided and logged; revocation and fallback take effect |
| Manifest evaluator | `manifest/mod.rs` | manifest, revocation list | evaluate, filter, granularity, revoke | first matching category, allowlist against exclusions, rounding | no undeclared field leaves; no revoked or out-of-jurisdiction view |
| Audit log | `audit/mod.rs` | SQLite rows, HMAC key | log, verify, summary, export | the chain restarts at `genesis` on any lookup error; failing reads are cut short; the summary is made in two sections | an untouched log verifies, an altered one does not; a verdict is true of what it is about |
| Local gateway (Python) | `chambers-sim/.../utils/local_gateway.py` | sessions, audit list | start, process, end, revoke, summary | a transformation may raise half way; end is repeatable, revocation unchecked | counters agree with the audit list; views agree with the Rust gateway's |
| CARLA adapter | `.../adapters/carla_adapter.py` | sensor lists, rolling capture, pseudonyms | sensor callbacks, trigger, flush, end | callbacks race the flush and each other; finalisation needs a later sample | a collision yields one complete sealed event while callbacks do not overlap; a sample is reported once |
| SUMO adapter | `.../adapters/sumo_adapter.py` | vehicle sessions, known vehicles | run, start, end, get records | vehicles enter and leave between steps; two tables to keep in step; runs that break off | a session is one stay, as far as its runs saw; no vehicle the adapter knows is without one |
| ROS 2 adapter | `.../adapters/ros2_adapter.py` | queue, node, session, pairing | connect, run, stop, get records, end | two consumers of one queue; a queue that outlives its session; a node destroyed under the loop | records are handed out once, in order; a stop takes effect |
| Residue analyser | `.../utils/data_residue.py` | totals by category and stakeholder | baseline, chambers, compare | repeated analyses accumulate on one side only; the order of calls | the report compares like with like |
| Command line, gateway client, models | `cli.py`, `.../utils/gateway_client.py`, `models/` | the session of a command, the records it keeps | `sumo`, `carla`, `demo`, `residue` | nothing is caught: an exception ends a command where it is; the report of `demo` is made by a second gateway | what is printed and reported is what the gateway did |
| Mock stakeholders | `mock-stakeholders/app` | payload lists, one lock | endpoints, reset, stats | – | – |
| Co-simulation script | `scenarios/carla/v2x_cosim.py` | pseudonyms, counters, CARLA's mode, the SUMO connection | connect, broadcast, rotate, clean up | interrupts and failing simulators anywhere; rotation by rounded times | nobody can be followed beyond an interval; the simulators are given back |
| Sealed event demonstration | `scenarios/carla/sealed_event_demo.py` | ring of snapshots, collision flag and data, newest readings, counter, sealed event | sensor callbacks, tick, snapshot, trigger, report, clean up | callbacks between the steps of the main loop; the size of the ring | a sealed event is whole, about no later collision, and comes about |
| Urban drive | `scenarios/carla/urban_drive.py` | bounded queues, spawned actors, the running flag | spawn, sensor callbacks, drain and send, signal, clean up | `put` against the drain; ids recorded late; a clean-up that stops at its first failure | the newest reading is never lost; a signal ends it; what was recorded is destroyed, the settings are given back |
| Generators, launch script | `scenarios/sumo`, `scenarios/gazebo` | – | write XML, start processes | – | – |

Interaction: the gateway owns one HSM, one burn engine, one store and one audit
log and calls them synchronously; the burn engine shares the HSM and the store
with the gateway. All of it sits behind `Arc<Mutex<..>>` and every method takes
`&self` (the HSM states "Thread-safe via Arc<Mutex>", `hsm/mod.rs:54`), the
documentation plans for concurrent vehicle sessions (`ISSUES.md:169`,
`Chambers_Intelligent_Cars_v2.md:548`), while today's command line demo and tests
call it from one thread. The Python commands use the local gateway in the same
process; each runs one adapter, whose callback hands every record to one gateway
session.

The hazards, each at its line with the properties that cover it, are in
`PROJECT.json`. For some the code has no answer (a forgotten stop, a late collision, a lost
event): the models contain them, no property covers them, and a note says what does hold.

## 2. Plan

1. **Done**: `Hsm`, `SessionDataStore`, `Gateway` composing them, `SealedSession` as
   the abstract promise, `GatewayProperties`, `MCGateway`; `GatewayProofs` (types,
   sealing, the refinement, keys and certificates), `GatewayLogProofs` (the rows, the counters,
   what is late).
2. **Done**: `AuditLog`, `MCAuditLog`, `AuditLogProofs`.
3. **Done**: `FieldViews` (filters and granularities of both gateways) and
   `LocalGateway`, compared with the Rust evaluator; `MCLocalGateway`, `LocalGatewayProofs`.
4. **Done**: `SealedEventCapture`, `CarlaAdapter`, `MCCarla`, `CarlaAdapterProofs`.
5. **Done**: `SumoAdapter`, `Ros2Adapter`, `V2xCosim`, `MCAdapters`, `SumoAdapterProofs`,
   `AdaptersProofs`.
6. **Done**: `DataResidue` on the operators of `LocalGateway`; `Cli`, which composes the
   commands with both; their theorems are in `LocalGatewayProofs`.
7. **Done**: `SealedEventDemo`, `UrbanDrive`, `MCScenarios`, `ScenariosProofs`.
8. Left: composition, `AuditLog` as the log of `Gateway` (an abstract log with a
   reference definition of an intact chain, both implementing it). Today `Gateway` has a log
   of its own that stands for the rows and not for their tags.

## 3. Modules

| Module | Models |
|---|---|
| `Hsm` | `SoftwareHsm`: `keys`, `nextHandle`; `GenerateKey`, `DestroyKey`, `IsKeyActive` |
| `SessionDataStore` | the burn engine's store: entries with their key, content (`sealed`, `noise`, `zeros`) and deletion mark |
| `Gateway` | the gateway and the burn engine over both, as steps of `Threads` |
| `SealedSession` | abstract: a session opens, captures, seals once, and nothing captured is readable afterwards |
| `GatewayProperties` | the properties, the refinement mapping, the inductive invariant |
| `AuditLog` | the chained table under threads, failing reads and `tamper_entry` |
| `FieldViews` | field filtering and granularity, Rust's and Python's, as pure operators |
| `LocalGateway` | the in-process Python gateway, and the views Rust would have given |
| `SealedEventCapture` | the rolling buffer with its trigger, step by step under callback threads |
| `CarlaAdapter` | sensor callbacks, sessions, the flush and the pseudonyms over the capture |
| `SumoAdapter` | sessions that follow vehicles, the behaviour score, runs that break off |
| `Ros2Adapter` | the message queue between run loop, polls and sessions |
| `V2xCosim` | the co-simulation script: pseudonyms of vehicles that come and go, and the clean-up |
| `DataResidue` | the analyser's totals over calls in any order |
| `Cli` | the four commands over the local gateway, the client and the analyser (it extends `DataResidue`, which extends `LocalGateway`) |
| `SealedEventDemo` | the ring, the callbacks and the sealing of an event, from spawn to clean-up |
| `UrbanDrive` | sensor queues between callbacks and the main thread, the scene, signals, clean-up |
| `MC...` | values of the constants for TLC |
| `GatewayProofs` | theorems: the gateway's types and the sealing invariant; sealed sessions are implemented; keys, certificates and announcements |
| `GatewayLogProofs` | theorems: what the audit log tells of records, counters and late calls |
| `AuditLogProofs`, `LocalGatewayProofs`, `CarlaAdapterProofs`, `SumoAdapterProofs` | theorems about the modules they are named for |
| `AdaptersProofs` | theorems about `V2xCosim` and `Ros2Adapter`, and the types of all that `MCAdapters` runs |
| `ScenariosProofs` | theorems about `UrbanDrive` and `SealedEventDemo` |

### What a step is

* **Gateway, audit log (Rust).** One critical section: from taking a lock to
  releasing it, with the local work up to the next lock. `pc[t]` names the section
  thread `t` enters next and `call[t]` holds the call's locals. `evaluate` and
  `revoke_consent` of the evaluator run while the gateway holds its lock on the
  evaluators, so they are one step. `start_session` is eight sections,
  `process_record` six and one per view, `end_session` fifteen. The audit log has one
  mutex, so each of its methods is one step, the summary two.
* **Local gateway, SUMO and ROS 2 adapters (Python, one event loop).** What happens
  between two awaits that can give way. The local gateway never awaits: a call is a
  step. Awaiting a coroutine that does not itself wait does not give way either, so
  a SUMO step runs from the simulation step to the callback.
  The residue analyser never awaits either. A command awaits one call after the other,
  and nothing else runs in its event loop: its steps are those calls. The co-simulation
  script has one thread; its steps end where a simulator is asked something or an
  interrupt matters.
* **Sealed event demonstration, urban drive (Python, main thread and callbacks).** Cut
  where the main thread and a callback touch the same variable: `put` of the urban
  drive's queues is three atomic calls on a queue, `get_latest` one step per reading; a
  callback of the demonstration is a step per variable or dictionary key it writes, and the
  main loop's tick, snapshot and test of the flag are a step each. Both run in
  the simulator's synchronous mode, but nothing makes `tick` wait for the callbacks.
* **CARLA adapter (Python, threads of the simulator's client).** The interpreter
  may switch threads between any two operations, so the capture is cut wherever it reads
  or writes an attribute or a container shared with another thread. Single
  container operations (append, popleft, clear, dict lookup) are atomic, as CPython makes
  them.

### Abstractions

* *Failure.* `CallFails` is the `?` operator in `Gateway`: the insert of an audit row, or
  the random generator inside `encrypt`, fails, the call returns the error, and what
  it did stays done. In `AuditLog` a query may stop half way, which the code takes
  for its end. `ProcessRaises`, `RunRaises`, `GetRecordsRaises` and `EndSessionRaises`
  are the exceptions of the Python parts, with what was done before them; a ROS message that is
  JSON and no object raises out of the spin (`SpinRaises`) and is gone. An interrupt of a
  script may come in its clean-up too, and between the spawning of an actor and its being put on
  a list (`InterruptCleanUp`, `Fail`, `Spawn`). A CARLA sensor that `end_session` could not stop
  goes on listening next to its successor of the same name.
* *HMAC.* `Sign` is injective: a tag is what it was computed from.
* *History variables* record what the code does not keep and a property needs; their comments
  say "history". So `results` holds what `evaluate` returned for each record, `answer.revoked` who
  was revoked then, `observed` which vehicles were there after each SUMO step and whether the adapter
  got their list, `runs` which calls of the analyser were made.
* *Numbers* in `FieldViews` are counted in ten-thousandths. A rounding may go to either
  neighbour in a tie, because Rust rounds ties away from zero, Python to even, and
  the binary fraction is not the decimal one; a coordinate on the edge of a
  grid cell may fall to either side. `NeedsRotation` may answer either way for a pseudonym
  exactly one interval old, since both times are binary fractions times 0.05 (of 3000
  rotation times tried, 88 come one message late). `DataResidue` counts fields where the
  code counts bytes of JSON text.
* *Environment.* `known` in `Gateway` holds the ids `start_session` has returned: nobody
  calls a method with another id (they are random UUIDs). ROS middleware, SUMO
  and the CARLA client are external: they deliver, drop (beyond the history depth) and
  fail as the code allows for.
* *Left out.* Payloads, timestamps and durations where no property is about them;
  `records_processed` of the session state, which nothing reads; the nonce, which the
  gateway does not store (a blob under a live key counts as readable although the
  gateway itself could not decrypt it: the stronger reading); poisoned mutexes, since no
  section panics; `update_manifest`, which the gateway never calls. A view is its
  position in the list `evaluate` returns: a stakeholder a manifest names twice has two.

## 4. Runs

| Run | Instance | Shows |
|---|---|---|
| `calls` | 2 threads, 1 session, 2 records, 1 end, 1 revocation, 1 fallback | `SealedAfterEnd`; `OneLateCallEach`: what is in flight when an end, a revocation or the fallback takes effect, one call per other thread, is all that still happens; `CountersMatchLog` |
| `sessions` | 2 threads, 2 sessions, 1 undeclared record, 2 ends | `TypeOK`, `SealInv`, `OneTrueCertificate`, and `SealedSessionSpec`: the gateway implements `SealedSession` |
| `faults` | 2 fair threads, 1 session, 1 record, 2 ends, 1 failure; a manifest that names one stakeholder twice and one without an endpoint | `OnlyFailedStartsLeak`, `ProcessedIsAudited`, `DestructionIsAudited`; `BurnReachesKey` |
| `audit` | 2 threads, 2 sessions of up to 3 rows, 1 failing read, 1 altered row | `TypeOK`, `VerifyExact`, `VerdictExact`, `SummaryCovered` |
| `local` | sessions: 2, with 3 stakeholders, a category of every granularity, 4 records of which one cannot be blurred, 5 audit rows; analyser: 2 calls, lists of up to 2 of the records; commands: 2 batches of up to 2 records for `sumo` and `carla`, 1 vehicle for 3 steps in `demo`, failures anywhere | `AuditAccounts`, `SilentAfterwards`; `PositionsBlurred`, `CoversRust`; `LikeWithLike`; `ReportMatchesRun`; the types of all three (`ProcessTypeOK`) |
| `carla` | five plans: 1 callback thread at a time, 2 sensors, 2 collisions, 4 samples, 3 seconds; 2 callback threads, 1 collision, 4 samples; 2 callback threads, 2 sessions, 2 samples and a sensor the first session could not stop; 2 callback threads and the event loop, 2 sessions, 2 flushes, 2 samples, a sensor not stopped; V2X messages at 2 flushes | `TypeOK`; `CaptureSound`: an event's samples are in order in all plans, and in the first each collision is sealed once with its whole window; `EachSampleReported` |
| `adapters` | SUMO: 2 vehicles, up to 3 steps in up to 2 runs and up to 3 calls by the application, together at most 4; ROS 2: 2 sessions, 2 runs, 2 messages for a queue of 1, 1 poll; co-simulation: 2 vehicles and the ego, 5 steps, messages at 3 of them | `KnownHaveSessions`, `StayRecorded`, `ReturnLeavesNothing`; `QueueServed`, `StopsPromptly`; `FollowedBriefly`, `LeavesClean`; the types of all three (`ProcessTypeOK`) |
| `scenarios` | urban drive: 2 sensors with queues of 2 and up to 3 readings, 1 car, 1 walker, 3 steps, a batch at every second; demonstration: windows of 2 steps, 5 steps, 2 collisions, 2 inertial readings; failures anywhere in both | `NewestKept`, `CountedOnce`, `SignalEnds`; `SealedWhole`, `CollisionSealed`; `OnlyUnrecordedLeft`; the types of both (`ProcessTypeOK`) |

**Bounds.** Two threads interleave any two calls, and the bounds on late work are
stated as "one per other thread", so an instance with two threads can exceed them
(the mutants do). `Budget` and `Bound` limit calls and failures; ids, records and
rows are otherwise unlimited. Three rows let a chain restart in its middle and go on.
The window of the capture is one second on either side; four samples and two collisions
let a capture begin inside the window of the one before. One sensor left behind by an ended session
is enough to have two callbacks of one name at a time. A behaviour record comes with every
second sample instead of every 30th, so that the third sample is the first of the next. Three
steps let a vehicle be away at one the adapter does not see and be back in the next run. The first vehicle
may brake, the second only makes the run have company: what the code does to a vehicle
depends on others only through whether the callback is called. The co-simulation sends messages when a
pseudonym is new, exactly one interval old, and over, and a vehicle may be away at any of
them. Queues of two fill up within three readings, so that `put` meets a full queue while the
main thread drains it; a ring of three steps and a demonstration of five let a collision come
before the ring is full, after it, and too late to be sealed. In `local` a command runs to its end
whatever rows it needs (at most eight), while free calls stop at five, enough for a session that
starts, is served twice, revoked and ended. A process runs one program, so `adapters`, `local`
and `scenarios` start in any of theirs and are the sum of them, not their product; so are
the plans of `carla`.

**Deadlock.** Calls, rows, samples and runs are bounded, so every run stops in states
where nothing is left to do, and `CHECK_DEADLOCK` is off.

**Symmetry** of threads, sessions or payloads is used where a run has no temporal
property.

**Fairness.** `FairSpec` of `Gateway` is weak fairness of `Continue(t)` for each thread: a
thread inside a call is eventually scheduled again. Every section is
finite, none waits for anything but its mutexes, and nested locks are always taken in
the order evaluators, manifest, revocations. Nothing is assumed of `Begin`: nobody has
to make a call, and a failure never has to happen. The main thread of each CARLA script is
weakly fair (in `MCScenarios`): it waits for nothing but the simulator's answers, each
of which comes or fails within the client's timeout. Nothing is assumed of callbacks, signals or
collisions. `SignalEnds` also rests on readings being bounded in number: `get_latest` goes on
for as long as a sensor fills its queue faster than it is emptied, which no sensor of the
suite does (its fastest ticks every 0.05 s, the world's own step). No other run needs fairness.

### Claims the code does not keep

Four runs find counterexamples to what the repository says:

| Run | Claim | What the code does |
|---|---|---|
| `v_ciphertext` | after the burn the data has been overwritten, then zeroed (`data_flow.md:436`) | a late store leaves a sealed blob for good; `SealedAfterEnd` is what holds, because its key is gone |
| `carla_v_window` | a rolling window of the last seconds of all sensor data (`carla_adapter.py:48`) | a sensor that falls silent contributes samples of any age; `WindowComplete` (in `CaptureSound`) is what holds |
| `v_demo_window` | the event is captured 5 seconds before and 2 after the collision (`sealed_event_demo.py:8`) | the ring holds 5 seconds in all and is packaged 2 seconds after the collision, so about 3 seconds before it are left; `SealedWhole` says exactly which steps are |
| `v_urban_clean` | "All actors destroyed. Scenario ended cleanly." (`urban_drive.py:804`) | actors are handed over when a spawning function returns, so a failure inside one leaves the ego, sensors or traffic standing; `OnlyUnrecordedLeft` is what holds |

The models show more behaviour worth knowing of; where a bound is what
remains true, the property states it:

* a record evaluated before a revocation is sent after it (`RevocationBound`, in
  `OneLateCallEach`); a record refused in fallback mode leaves no audit row
  (`gateway/mod.rs:224`), although `ISSUES.md:142` wants every message transmitted or blocked
  with one;
* two concurrent ends of one session decrement the gauge twice; an end
  retried after a failed insert logs only a failing receipt for an erased session;
* a failed lookup of the previous HMAC restarts the chain in mid-session
  (`audit/mod.rs:146`), and a table read cut short verifies as far as it got;
* two callback threads that both find the capture due seal one collision twice; a
  sample or an event that arrives between the copy and the clear of a flush is lost
  (`QuietSamplesKept`, in `EachSampleReported`, says that no other sample is); samples left over when a session ends
  are reported under the next one (`carla_adapter.py:532`);
* a `start_session` whose audit insert fails leaves a live key, a session and an evaluator behind an
  id nobody was given, so no `end_session` reaches them (`gateway/mod.rs:190`); `OnlyFailedStartsLeak`
  says that this is the only way a key gets out of reach, and that each failure costs one at most;
* a `process_record` that fails on the way leaves a stored blob and the first of its decisions
  (`gateway/mod.rs:252`); `ProcessedIsAudited` says that no decision is missing before one that is in
  the log, and that all are there once the result is returned;
* the local gateway checks no jurisdiction although its text says so
  (`local_gateway.py:71-72`), takes an empty allowlist for "every field" where Rust takes it for
  "none", adds a score even where it was excluded, and accepts revocations of ended
  sessions and unknown stakeholders. A position that is no number makes it raise for everybody where
  Rust serves the record. `CoversRust` is the relation that does hold: but for such a record whoever
  Rust serves it serves, whoever else it serves resides outside the jurisdictions, and it never shows
  less than Rust, but for the raw traces, which `Aggregated` and `Anonymised` of Rust keep
  and only the local one drops;
* a record a transformation cannot handle is counted as generated and for the
  stakeholders before the one it fails for, and is in no audit row (`AuditAccounts`);
* a SUMO run whose list of vehicles fails leaves its sessions open for the
  next run, which goes on with them, also for a vehicle that was away at just that step (`StayRecorded`
  allows for the last step of such a run and no other); a `stop()` before `run()` has begun is forgotten;
  a phone is reported as disconnected once per process; the notice
  is handed out in whatever session drains the queue next;
* a pseudonym's rotation is said to destroy the linkage to the old one
  (`v2x_cosim.py:65`), and the old one stays in `previous_pseudonyms` under the
  vehicle's id (`Rotate`); the interval may be exceeded by one message through
  rounding (`FollowedBriefly` has the bound); a failed spawn leaves CARLA waiting for ticks and
  SUMO open, because it comes before the `try`; a failing `destroy` of the ego ends the clean-up before
  SUMO and CARLA are given back, and so does an interrupt of the clean-up, whose handlers catch
  `Exception` only (`LeavesClean` is about runs that reached the loop, and names both);
* a second analysis of one analyser adds to the filtered side only, a baseline run after an analysis
  doubles what the stakeholders are held against, one run before any
  manifest is set counts one recipient where its comment assumes four
  (`data_residue.py:111-117`), an analysis that raises leaves no baseline, and the report states the
  records of the last call only. `LikeWithLike` says how many times the reported total each side
  holds after any calls: like is compared with like if the baselines run since the manifest was set
  and the analyses are equally many, which is what the commands make of it (`ReportMatchesRun`);
* a record with a coordinate that is no number ends `sumo` or `carla` with the session open and nothing
  burned (`cli.py:83`, `:131`);
* a collision flagged less than two seconds before the end of the demonstration is counted and then
  reported as no collision, with a made-up event in its place (`CollisionSealed` has the
  condition); an event sealed before the callback has stored its data is about an
  unknown actor; an actor that cannot be destroyed leaves CARLA waiting for ticks in both
  scripts, and an interrupt between a spawn and the line that records it leaves the actor in the world (`OnlyUnrecordedLeft`
  says that no other is left when the clean-up does not fail).

## 5. Proofs

Every theorem holds for all values of the constants its module's assumption allows.

`GatewayProofs` (`GatewayAssumption`: finitely many threads and at least one, manifests that
permit only stakeholders they name, `None` outside the other sets):

* `TypeCorrect`: `Spec => []TypeOK`. The parts of `TypeOK` are preserved one by one; "frame"
  lemmas say what the steps of each method leave alone.
* `SealInvHolds`: `Spec => []SealInv`. `SealedAfterEnd` is not inductive: a thread in
  `process_record` may store a blob long after the session is gone, and a thread in
  `end_session` removes a session without looking at its burn. `SealInv` adds why
  neither hurts: a thread that looked a session up holds that session's key
  (`CallInv`), one past layer 2 leaves it dead, blobs lie under their session's own
  key (`StoreInv`), and keys are not shared (`TableInv`), which needs the id and the key
  of a `start_session` that has not reached the table yet to be its own.
* `SealedAfterEndHolds`: `Spec => []SealedAfterEnd`, from `SealInv`.

The rest of the module begins with a summary of every step: which section a thread may go to
(`StepMoves`, `Flow`) and which row it may write where (`StepLogs`). The later proofs use
those in place of the thirty-odd actions.

* `GatewaySealsSessions`: `Spec => SealedSessionSpec`. Each section maps to opening, capturing,
  sealing or stuttering. Two are not what they look like: a store under a dead key captures
  nothing, because the mapping only sees what can be decrypted, and the second of two
  concurrent burns stutters. That a blob lies under its own session's key (`SealInv`) is
  why a burn seals one session and leaves the others' views alone.
* `DestructionAlwaysAudited`: `AnnounceInv` adds that a thread beyond the first section of
  `end_session` has left its `BurnStarted` row; rows are never taken out.
* `OnlyFailedStartsLeakHolds`: `KnownInv` says that the session of a `start_session` under way is
  known to nobody and every other call is made to a known one, and `StartedInv` whose key it
  holds. So a key stops being reachable only in a step that ends a start by failing, which spends one
  failure and leaks one key at most: the burn of any other session destroys the key before
  the session is taken out.
* `CertificateHolds`: `CertInv` counts who may still certify: only the thread whose layer 2
  destroyed the key goes on with `ok`, keys die once, and so there is one such thread at most and
  no certificate yet while there is one.

`GatewayLogProofs` (on the same assumption):

* `ProcessedAlwaysAudited`: a record is carried by one thread (`CarryInv`), which alone
  writes rows about it. `RowsInv` fixes for each section which rows there are by then:
  none, the announcing one, one per entry of the evaluator's list done, in its order.
* `CountersAlwaysMatch`: the counters lag behind the rows. `TallyInv` states the difference:
  a total is the number of rows about records reported as done, a thread's locals count the rows
  of the one it carries, and sessions are counted as burned up to three sections after their row.
* `LateCallsAreFew`: the bounds are no invariant by themselves. `LateCallInv` adds a potential:
  the late rows there are and the threads that may yet write one are together fewer than the
  threads. The thread that closed the session is none of them, none joins after the
  closing (`Closed`), and a thread that writes its late row leaves. The bound on what is left in
  the store is the same argument with blobs for rows (`StoredInv`).

`AuditLogProofs` (`AuditAssumption`: finite sets of types and payloads, natural bounds):

* `TypeCorrect`; `ChainAlways`: every row is signed over what was logged for it and names
  the row before it, or genesis exactly where a lookup failed (`ChainInv`).
* `VerificationIsExact`: `Spec => []VerifyExact`, from `ChainInv`: a tag is never
  genesis, so a restart is seen, and `Sign` is injective, so an altered payload is.
* `VerdictsStand`, `VerdictsAreExact`: an answer remembers which of the rows it is about were altered
  when it was read, since `tamper_entry` may alter a row that was verified. `VerdictExact` is not
  inductive by itself; `VerdictInv` adds that a verdict is about rows the session has, so that a
  restart, which always is a new row, comes after them.
* `SummariesAreCovered`: `CoveredInv` adds that between the two sections of a summary
  the count made in the first is no more than the rows there are, which only grow.

`LocalGatewayProofs` (`LocalAssumption`: manifests are finite sequences whose categories have the
shape of the model's; field values of the four kinds; `ResidueAssumption`: finitely many
stakeholders and types, the lists analysed are sequences of records, a record has finitely many
fields; `CliAssumption`: a natural fleet and duration, a schedule that is a sequence with
natural beginnings and positive periods, and batches that are sequences of records and not empty,
since the adapters call back only when there are records):

* `LogInvariant` is the inductive one. What a row says of its session stays true of it
  (`RowsHold`: a revoked stakeholder stays revoked, an ended session ended), and the
  counters are the numbers of pairs of row and position (`Counted`).
* `RevokedStaySilent` (`SilentAfterwards`): from `RowsHold`, since a new row serves nobody its
  session has revoked. `LogAccounts` (`AuditAccounts`): from `Counted`.
* `AnonymisedIsBlurred`, `LocalCoversRust`: `AnswerInv` adds that the last answer has views at exactly
  the positions not withheld, each one the local gateway computes for the category the manifest has
  there, or none at all if one of them raises, and that a session's manifest never changes.
  The Rust side is computed from the manifest and who was revoked, by Rust's own rules
  (`RustCategory`, `RustAudience`, `RustViews`); that both pick the same category is `MatchingIsRusts`,
  that only a record that cannot be blurred raises `RaisesUnblurred`. The rest are lemmas about the
  operators of `FieldViews`, for any fields: the two filters agree on what both keep
  (`FiltersAgree`), the centre of a cell is within half a cell (`CentreNear`), a rounding within half a
  step (`HalfStepNear`), and the distances add up (`ViewsAgree`).
* `ProgramsDriveGateway`: the program of `MCLocalGateway` implements the gateway's `Spec`, since
  a command only calls it on its own session and with records it was handed (`ControlInv`). So
  all of the above holds in the commands as well.
* `ProgramsTyped` (`ProcessTypeOK`): a view is computed for exactly the positions that do not
  raise, and there is one (`LocalViewsOK`), so every value given away is a value and every size
  a number (`SizeAllOK`, `GainsTyped`).
* `ComparesLikeWithLike` (`LikeWithLike`): `AnalyserInv` says of the totals after any calls with one list
  and one manifest how many baselines and analyses they are the sum of (`Alike`): a recipient's
  baseline is the sum by type, once for each of its entries and each baseline, and what is filtered
  sums to the same by type and by recipient. It rests on lemmas about sums: the terms may be
  regrouped by a key (`SumByKey`: records by type, positions by recipient), and summed by rows or
  by columns (`SumSwap`: records and recipients).
* `ReportsMatchRuns` (`ReportMatchesRun`): `ReportInv` says of a running command that the session
  has counted exactly the first records handed to it, up to the rest of the current batch
  (`Accounted`, `Running`), and that none of these raises. At the end these are all of them, so the
  second gateway of `demo`'s analysis raises on none of them either (`NoneRaisesAgain`: every analysis
  begun has gone through) and its sums are those of the first (`DemoAnalysed`). Writing the report may
  still fail; the theorem is about the analysis, and about the report if it is written.

The sums are folds of the community modules, defined by recursion on sets. `FiniteDescent` and
`FiniteGrowth` replace the induction theorems of the library, whose operator parameter the
provers cannot instantiate: a set of subsets that contains a set whenever it contains its proper
subsets contains them all, because inclusion among the subsets of a finite set is well-founded.
From these `SumIsPairs` shows that a sum is the cardinality of a set of pairs, and `SumAdd` the
recursion equation.

`CarlaAdapterProofs` (`CaptureAssumption`, `AdapterAssumption`: the flush reads every sensor's list
once; any threads, windows and rotation interval):

* `TypeCorrect`: `TypeInv` adds that a callback has a sample exactly in the sections between
  taking it and returning. A callback's step leaves the locals of the others alone but for the
  mark of a race (`OneThread`), which is all the later proofs need to know of most steps.
* `SamplesReportedOnce` (`EachSampleReported`): `ReportInv` says of a sample in a list that it is a
  record exactly when the running flush has read that list (`Unread`), and of one on its way to
  a list that it is in no list and no record, and is racing while a flush runs or once its
  list is detached. The clearing of the lists then loses only samples that are records or racing.
* `EventsInOrder` (`EventOrdered`, in `CaptureSound`): the buffer and the post buffer of a sensor are in order
  one after the other (`ListsInOrder`). That is why nothing may be appended to the buffer while the post
  buffer has samples: outside of a capture it is empty, and a list found before the last
  reset is detached (`PostInv`). The order is that of the samples of one sensor actor (`Origins`):
  one that could not be stopped and its successor share a list and report into it in any order. The one callback of an actor that
  runs (`BusyInv`) comes after all its samples in the buffers (`PendingInv`), also one that
  was told to make a deque before another thread triggered.
* `CapturesAreWhole` (`CaptureSound`), under any plan whose bounds are `PlanOf`: in the plan "capture" no two
  callbacks overlap (`Alone`), and a step is the loop's or the clock's (`Quiet`) or of the one
  callback that runs. `SerialInv` follows each sample from its callback to its event. It is held by
  a callback, in a list, in an event, or too old for the window of the running capture and of any
  to come (`KeptInv`). Only eviction makes a sample old, and it compares with the sample just
  appended, whose time is no later than the clock (`StampInv`) and so no later than the next collision;
  only the reset empties the lists, and what they hold is then in the last event, because nothing
  changed since they were copied (`CopyInv`). When the event is completed the window is over
  (`PhaseInv`), so later samples, stamped by the clock, are outside of it (`WindowsInv`). That a collision
  is sealed once counts a running capture as one more collision than there are events
  (`CountInv`).

`SumoAdapterProofs` (`SumoAssumption`: a positive period, integer samples, natural bounds):

* `TypeCorrect`, `KnownAlwaysHaveSessions`, `RunsReturnClean` from one inductive
  invariant `SumoInv`: a session is none exactly if its id is zero, ids are of sessions
  started, the steps made and left stay within the bound, and known vehicles have
  sessions. `RunsReturnClean` needs the last: the clean-up forgets only the vehicles whose
  sessions it ends.
* `StaysAreRecorded`: `FiledInv` adds to `StayRecorded` how the records of a vehicle and the
  history of its session belong together (`CarInv`): sample k of the running session is the
  k-th of its history, and no record is of a session not yet started. `UnseenInv` adds that a step
  whose list of vehicles failed is the last of its run.

  Trying to prove it showed that a first version of `OneStay`, about every session, is false: the
  application may start a session for a vehicle no run has seen and poll it across an absence.
  It now speaks of vehicles the adapter knows, and the run has three calls so that the case occurs.

`ScenariosProofs` (`UrbanAssumption`: queues of at least one, every sensor drained once in
each batch; `DemoAssumption`: natural bounds, and a window after the collision that
fits in the ring):

* `TypeCorrect` (`ProcessTypeOK`): the types of both scripts, from the invariants below.
* `NewestReadingKept`: `Spec => []NewestKept`. Whoever takes a reading keeps it only if it
  was the newest, so `ReadingsInv` adds that the last reading of a queue is the newest one
  made (`QueueInv`), and that the batch has no entry yet for a sensor whose turn is to come
  and nothing is half drained between two batches (`DrainInv`); else an older reading in
  the batch could displace the newest in the last record.
* `CollisionsCountOnce`: `Spec => CountedOnce`, an action property. `ChainInv` adds that readings
  go from the queue through the hand that drains it and the batch to the record in
  the order they were made, also while `put` drops the oldest, so what is reported next is newer
  than what was.
* `EventSealedWhole` (`SealedWhole`), for the demonstration: the ring holds the last steps without a gap, as many as fit
  (`RingInv`); the counter has counted the steps since the one that found the flag, and the event is made when
  it reaches the window (`CountInv`); so the oldest step of the event is what the ring's
  size leaves. A reading's parts are written one after the other, and a snapshot copies them in
  between, so its ends differ by one sample at most (`ReadingInv`). The flag stays that of the
  first collision, and the data of no other (`HitsInv`).
* `RecordedAreDestroyed` (`OnlyUnrecordedLeft`): for the urban drive what stands is on a list or was being
  spawned by the function that broke off, and from the return of the last of them on all of it is on a
  list (`SettingInv`); the phases of the clean-up then empty one list after the other
  (`CleaningInv`). For the demonstration an actor that stands is recorded or the next to be (`WorldInv`),
  and the clean-up destroys all that are recorded before it gives the settings back. That an actor
  the simulator was told to destroy, without an error, is destroyed is assumed.

`AdaptersProofs` (`CosimAssumption`: the length of the run and the intervals are not negative;
`RosAssumption`: a natural queue depth and bounds; `SumoAssumption`):

* `ProcessTypeCorrect` (`ProcessTypeOK`): the types of the three programs of `MCAdapters`.
* `QueueIsServed` (`QueueServed`): `RosInv` says that what was handed out and what is queued are
  together what arrived, in its order (`HandedOutOnce`), whoever takes it and whatever a session's
  end leaves in the queue; and that the phone's one notice was put there when it was found
  disconnected.
* `StopTakesEffect` (`StopsPromptly`), an action property: it needs that a loop told to stop is
  never seen running again (the last conjunct of `RosInv`), whatever call comes while it
  waits.
* `CosimInvHolds`: the inductive invariant of the script. `CosimTypeCorrect` needs from it that messages
  are only made before the last step (`LoopInv`).
* `FollowedForAnInterval`: `FollowedBriefly` relates two messages however far apart;
  `PseudonymInv` adds that a pseudonym once given stays its vehicle's (`OwnersInv`) and that a
  message under a current one is within an interval of its making (`InWindow`). A vehicle
  that comes back is asked about its age before anything is sent.
* `RunsLeaveClean`: `CleanInv` adds what each step of the clean-up finds done, and that only a clean-up
  that was interrupted or could not destroy the ego leaves its later steps untried.

The properties of the theorems above are checked by TLC as well, in the runs section 4 names.
Every invariant, every action property and the refinement of the passing runs is proved; only
model-checked are `BurnReachesKey`, `SignalEnds` and `CollisionSealed`, liveness under fairness,
which with `ENABLED` is out of the prover's reach.

## 6. Not modelled

* *Core types, data models, adapter base class*: enumerations, data classes and an abstract
  interface; they appear as the constants of the other modules.
* *Mock stakeholder service*: handlers that validate a payload and append it under a lock to
  a store created at import; no handler reads what another wrote except to count it, and nothing
  under `src/` posts to them.
* *Gateway client over HTTP*: the requests of `gateway_client.py` have no server in the
  repository; the branch for a local gateway is in `Cli`.
* *Network and route generators, launch script*: pure functions of random numbers that write
  XML, and a script that starts external processes.
* *Gateway demo (`main.rs`)*: a linear script over the gateway.
* *ROS 2 adapter*: the diagnostic and hotspot helpers, which build records from their arguments;
  only synthetic steps call them. *Manifest*: `update_manifest`, which the gateway never calls.
* Everywhere: wording, layout, charts, logging, coordinates and times no property is about.
