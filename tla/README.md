# Undolith in TLA+

Undolith puts a gateway between an agent and its tools. Every call goes through
a pipeline that classifies it, asks a policy, simulates it, perhaps asks a
person, takes a snapshot, runs it and compares the outcome with the prediction;
each step leaves a signed entry in an append-only ledger, and from the ledger an
action, a session or everything after a checkpoint can be undone.

The specifications here model that system: the policy engine, the lifecycle of an
action, the gateway's pipeline as several threads, processes and operators
run it at once, with failing hooks, crashes, outside writers and the kill
switch; the ledger on disk with its locks, transactions, cut writes and
power losses; the home directory with its key and its blobs, and the proofs built
from it; the adapters, whose hooks act on the world; and the part that turns a recorded
session into tests and shrinks what fails. TLC checks them on small instances; TLAPS
proves, for every value of the constants, the type invariants, the policy's properties,
the safety properties of the pipeline (write-ahead, sanction and consent, deviations, the
kill switch, the limit on destructive actions, the lifecycle, what an undo may replace, what a rollback reports
and what it puts back), those of the ledger on disk and its refinement of an append-only log, that one key signs
everything and no reference dangles, that honest proofs are accepted and accepted ones are true, what
the adapters' hooks keep in any world (predictions, undos, rollbacks, replays), and what a generated
suite decides and minimising returns.

## 1. The system and its parts

| Component | State | Operations | Model |
|---|---|---|---|
| Policy engine (`policy.py`, `model.py`) | none; reads the session's counters | `Rule.matches`, `decide` | `Policy`, `PolicySession` |
| Lifecycle (`lifecycle.py`) | none; folds ledger entries | `first`, `last`, `summarize` | `Lifecycle` |
| Gateway (`core.py`, `ops.py`, `approvers.py`) | counters and checkpoint in memory, `KILL` file | `call`, `release`, `discard`, `undo`, `rollback`, `batch`, `kill`, `resume`, `replay` | `Gateway`; `replay` in `Adapters` |
| Ledger and stores (`ledger.py`, `store.py`) | entries; blobs | `append`, `entries`, `verify_chain`, `put`, `get` | `LedgerStore`, `AppendOnlyLog`; blobs in `Home`; in `Gateway` an atomic sequence |
| Proofs (`proof.py`) | none | `build_proof`, `verify_proof` | `Proof`, `Home` |
| Signing, canonical form (`signing.py`, `ed25519.py`, `_canon.py`) | key file | create, load; sign, verify, hash | key file in `Home`; cryptography is assumed |
| Classification (`classify.py`) | none | `classify_name`, SQL and shell | not modelled: word lists; what the adapters classify is in their modules |
| Adapters (`adapters/`) | the guarded resources | run, simulate, snapshot, undo, observe | `FileSystem`, `SQLiteDB`, `HTTP`, `Shell`, `Email`, composed in `Adapters` |
| Integrations (`integrations/`) | none | tool call to `guard.call` | not modelled: thin wrappers |
| CLI, web console (`cli.py`, `ui.py`) | none | call the gateway | the commands of an operator |
| Test generation (`testgen/`) | none | import, judge, generate, run, minimise | `Traces`, `TestCases`, `Testgen`, `Minimize`, `TestgenCli` |

How they interact. An agent's thread runs `Session.call` -> `Undolith._execute`:
it looks at the kill switch (file, then the session's marks in the ledger), asks
`Policy.decide` with the counters of its `Session` object, calls hooks of the
`Operation`, and appends to the ledger. An operator runs `release`, `discard`,
`undo`, `rollback`, `kill`, `resume` from a command line, the web console or
another thread. `asyncio` calls run in worker threads. They share the ledger
(one SQLite file), the home directory with the `KILL` file, the counters of a
session when threads share it, and the world. No lock is held across two of
these accesses: a ledger append is the only atomic step. `Ledger.append` hands
the store a `build` function that makes the next entry from the last one; the
store calls it under its lock (one per process) and, with SQLite, inside a
transaction that has the write lock.

What makes this hard, and what the properties are for:

- every check (status, kill switch, counters, observed state) is made in one step
  and acted on in a later one;
- hooks raise before or after they had their effect, and so may what stands behind them outside any `try`;
- a crash leaves the ledger and the world and takes the rest;
- undoing depends on order, and on nobody having written since;
- an inverse restores what its snapshot holds, into a world that has moved on;
- processes that start at once create the key, or store a blob, at once;
- a proof is read in three steps while others append, and is then out of the
  author's hands;
- a test is made from one run and must decide others: greedy matching, queues of
  recorded answers, and a bisection over something that need not be monotone.

## 2. Modules

| Module | What it is |
|---|---|
| `Policy` | `Policy.decide` as operators: rules, defaults, limits, escalation |
| `PolicySession` | a policy, an operation and counters that grow; the policy's properties |
| `MCPolicy` | the policies TLC enumerates |
| `Lifecycle` | status and authority of an action from a log |
| `Gateway` | the pipeline as a state machine of several processes |
| `GatewayProperties` | `TypeOK`, safety, action and liveness properties |
| `GatewayTurns` | the gateway with a memory of who came between whom; what an undo may replace, why rollback goes newest first |
| `MCGateway` | operations, policies, budgets and roles for TLC |
| `MCGatewayTurns` | two threads that edit one resource |
| `Lemmas` | facts about logs, positions and the policy's operators |
| `PolicyProofs` | theorems of `PolicySession` |
| `GatewayProofs` | the inductive type invariant; write-ahead; the table of steps; the kill switch |
| `GatewaySafety` | sanction, consent, authority, deviations, the limit, lifecycle, what a rollback reports and puts back, what an undo replaces |
| `LedgerStore` | `SQLiteStore` and `JsonlStore` as a state machine of threads |
| `AppendOnlyLog` | what a store promises: the log that `Gateway` is written with |
| `LedgerStoreProperties` | properties of the store, and the mapping to `AppendOnlyLog` |
| `MCLedgerStore` | two processes, three threads |
| `LedgerStoreProofs` | chain, types, what is kept and answered, tampering; the store implements `AppendOnlyLog` |
| `FileSystem`, `SQLiteDB`, `HTTP`, `Shell`, `Email` | the hooks of each adapter, as operators on its world |
| `Adapters` | a session through one adapter: calls, undos, rollback, replay, changes of others |
| `MCAdapters` | worlds and calls for each adapter |
| `AdaptersProofs` | what hooks do to any world; predictions, undos, rollbacks, replays |
| `Proof` | `build_proof` and `verify_proof` as operators |
| `Home` | processes that start, store blobs and append; an auditor; an editor of the proof |
| `MCHome` | two processes with the same snapshot |
| `HomeProofs` | one key; no dangling reference; what `verify_proof` accepts |
| `Traces` | ledger entries as traces; the judges |
| `TestCases` | tests from judged traces; matchers; the failures of a run |
| `Testgen` | recorded session, suite, an agent that may do anything, verdict |
| `Minimize` | ddmin and the search for the shortest failing prefix |
| `TestgenCli` | the command line: generate and run, or minimise |
| `MCTestgen` | recorded sessions |
| `TestgenProofs` | what minimising returns; greedy search, served answers, the verdict on a recording, tests for trouble |

### Gateway: state and code

`ledger` is the store's sequence of entries; `killFile` says whether
`<home>/KILL` exists; `world` gives the state of each resource; `stats` the
counters of the live `Session` object of each session; `used` the action ids
handed out; `frame` the method each process is in.

A frame is a program counter and the local variables of the method: `act`,
`verdict`, `predicted` (the preview), `reg` (the snapshot or the observed
state), `seen` (how much of the ledger `undo` has loaded), `todo` and `report`
(the loop of `rollback`), `batch` and `cp` (the `batch()` block around the
command). An action of the model is the code between two accesses to shared
state. So `_execute` and `_commit` become

    Call, EnsureRunning, DecideVerdict, Read | Propose, DenyByPolicy | Simulate,
    EscalateToApproval, Approve | Reject | ApproverRaises | Hold, TakeSnapshot,
    Prepare, Run, LogFailed | Observe, Commit, Account, Deviate, HaltOnDeviation

and `release`, `discard`, `undo`, `rollback`, `batch`, `kill` and `resume` are cut the
same way; each action's comment names its code, and the map in PROJECT.json has
the lines. An exception (`Raise`) leaves an enclosing batch, whose handler rolls
back to the checkpoint. `Crash` empties the frames and the counters. `Interrupted` is the exception that
the step does not catch, at any label but `idle`: a `KeyboardInterrupt` or a `CancelledError`, which
`except Exception` lets pass (`core.py:340`, `345`, `445`), and what raises outside any `try`, above all `put_json`, `digest`
and the `committed` append after the effect (`core.py:349-352`). The method ends there, its caller
lives on, and the action stays as it is; around an undo, `rollback` files it under failed if it is an `Exception`.

`GatewayTurns` adds three variables that only watch. `left` has the states that the runs of each
action left; `disturbed` the actions whose resource somebody else changed between their run and its
observation, or between the check of their undo and its inverse; `overlapped` the
resources on which two processes were at work at once. The two promises about undo in the repository's README and
SPEC are unconditional, the code keeps them outside of these windows, and the properties say exactly that.

A checkpoint of `Rollback` is 0 or the position of a `prepared` entry: any other selects the
same actions as the one before it.

What is abstracted:

- an operation with its arguments is a record of its hooks: what a run may leave
  (`effects`), what the simulator predicts, what the inverse leaves without a
  snapshot. A resource has one observable value, so a prediction has one key
  and one mismatch is a deviation (the threshold is below 1);
- a rule's glob, argument patterns and predicate are the set of names it selects;
- redaction, reasons, timestamps, blobs, hashes and signatures are left out, and
  so are the `started` and `finished` entries, which no method reads back;
- `is_halted` looks at the file a second time right after `_ensure_running` did;
  the second look and the read of the marks are one step;
- a process finishes a command before it begins the next, a `batch` block is left
  by the first exception inside it, and batches are not nested;
- a session has one `Session` object, whose threads share its counters, and a
  `+=` on a counter is atomic. `stats.actions` is never read and left out.

### LedgerStore: state and code

`disk` is the file's lines (the table's rows), `ended` whether it ends in a
newline, `synced` how much of it survives a power loss; `lock` is the `RLock` of each
process, `writer` the thread whose transaction has SQLite's write lock; `thread`
holds what a method has in hand. `backend` is chosen at the start, so one
specification covers both classes:

    CallAppend, TakeLock, BeginImmediate | BusyTimeout, Build, Insert, Commit | Rollback, Return
    CallAppend, TakeLock, Build, WriteSome, WriteRest, Fsync, Return
    CallEntries, TakeLock, Fetch;   ProcessCrash, PowerLoss

An interrupt may come right after `BEGIN IMMEDIATE` succeeded and before the `try` (`store.py:78-79`): the
method raises and the transaction stays open, with the write lock (`BeginImmediate`). Another may come
after `COMMIT`. A line is written in two steps. A write that is cut short leaves `Garbage` (a line
`json.loads` refuses) or the line without its newline; the next line is then
written behind it. A hash is the sequence of what it commits to, so it is
injective; a signature is the hash it signs. Payloads stand for all fields of an
entry but `seq` and `prev`. JSONL has a single writing process, as the module says of
itself; its readers may be anywhere. SQLite is taken to do what it documents for WAL
with `synchronous=FULL`. Left out: the filters of `entries`, the triggers, which nothing in
the package provokes, and the blob check of `verify_chain`.

`AppendOnlyLog` is the promise: payloads are added one at a time at the end, a
confirmed one stays, and a store that is broken adds nothing. The mapping takes the
payloads of the entries in front of a damaged last line; a line that a live thread is
still writing does not count as damage.

### Adapters: state and code

`world` is what the adapter works on: the tree under its root, the rows of a
database, the resources of a server, a git repository, the messages sent. `log` has the
session's actions with what the ledger and the blobs keep of each: prediction, snapshot,
result, observation, and, for the properties, the world before and after. `start` and
`orderly` are history. The operators for hooks take the adapter as an argument; what an observer
saw is a set, empty where it saw nothing.

A call is one step and so is an undo: how they interleave is the subject of `Gateway`, whose
`OpType` leaves open what hooks do; what the real ones do is the subject here. `Call` runs the
hooks in the order of `_execute` and `_commit`, `Undo` has the conditions of
`undo` (status, snapshot of a failed action, conflict), `Rollback` goes through the log
from its end (`Left`), `ReplayOf` and `Again` are `replay` into a sandbox. `Other` is somebody who does not
use the guard. `PathsApart` says that no path is used for a file and for a directory; it and the absence
of a failed `move` are what `RollbackRestores` and `ReplayReproduces` need (section 3 says what
happens without them). A deviation is recorded and left to the operator. Left out:
`force`, diffs and summaries; reads of the file system other than `exists`, which
are alike; shell commands other than git's, which the adapter cannot undo. File contents
are the sequence of pieces written, a digest is what it digests, a database is its set of
rows and its size is their number. The server of `HTTP` is external: resources that are
made, replaced and removed.

### Home and Proof: state and code

`keyfile` is the key file (absent, empty, or the key of the process that made it); `path`
and `tmp` lead from a blob's two names to an inode, since `os.replace` moves a name while
another process still writes into the file; `proc` is each process with the step it is
at, the key it loaded, the entry it is about to append and the inode it has open. `audit` and
`proof` are the document being built and afterwards edited.

    LookForKey, ReadKey | CreateKey, WriteKey;   Put, OpenTmp, WriteTmp, Replace, AppendEntry
    ReadEntries, ReadHead, BuildProof;   Edit;   Crash

Each process takes one action of its own through `proposed`, `prepared` (with its
snapshot), `committed` and `undone`; appending is one step, as `LedgerStore` shows. An entry's
hash is its place in the chain; its number is its place in the ledger, so a segment is a stretch of
it. `genuine` says that content, hash and signature fit
each other, which nobody without the key can bring about. Once the proof is
there, the processes rest (they would only lengthen the ledger), and `Edit` makes one
change: entries left out, altered or replaced by others of the ledger, in the list, the
segment or the head, or another action id; the claims go along or do not. Power loss is
left out of `Home`: nothing of a blob or a key is synced (see below).

### Testgen and Minimize: state and code

`session` is what was recorded: calls, their entries, the answer and how it ended. `Generate` is
import, judge and generate (`TraceOf`, `Judgements`, `generate`); `StartTest` takes one test and
its own `ReplayTools`, whose queues are `tools`; then the agent makes any calls
(`AgentCalls`), answers or raises, and `Failures` is the verdict of `run_test`. A language
model as a judge is silent or confirms one failure, at any step or none. A call is an
operation with a directory, a file and other data, because a matcher generalises exactly
that. A queue of recorded answers is the set of their positions, taken from the least, of which the
last one stays; the greedy search of the runner is `Hits`, `Searched` and `Missing`. Sessions may be any
whose actions keep the lifecycle's diagram (`SessionsAssumption`), which `RecordingsKeepDiagram`
proves of what `Gateway` records. Left out: `generate`'s and the runner's options that are off by default, foreign
formats, saving, merging and exporting suites.

`Minimize` has one action for each run of the agent. A sub-list of a cassette is a set of
positions, and `fails` is the set of sub-lists with which the failure shows: *any* set, since all
the code may rely on is that the agent answers the same way twice. `items`, `n` and
`chunk` are ddmin's variables, `lo` and `hi` those of the bisection. `TestgenCli` is the command
that does one or the other.

### Bounds

In `Gateway`, `Budget` bounds how many commands of each kind, faults, uncaught exceptions, outside writes
and crashes occur; `May` gives each process its commands. Each action id is given
to one call, so the ledger is finite. In `LedgerStore`, each payload is appended once, and
`Budget` bounds reads, faults, interrupts, process crashes and power losses. In `Adapters`, `MaxCalls` and
`MaxOthers` bound the calls of the session and of others; in `Home`, `CrashMax` and
`EditMax` the processes killed and the edits of a proof; in `Testgen`, `CallMax` the calls
an agent makes in one run.

## 3. Runs

Runs of `MCGateway`, `MCGatewayTurns`, `MCPolicy`, `MCLedgerStore`, `MCAdapters`, `MCHome` and `MCTestgen`. All of
them allow a process to be idle forever (no deadlock check): a system whose
calls and budget are used up has stopped rightly.

| Run | Instance | Properties |
|---|---|---|
| `turns` | two threads of a session, each with an edit of one resource; one rolls back, the other undoes; a fault, an outside write; the two edits are mirror images (symmetry) | `NoSilentOverwrite`, `OrderKeepsPrecondition` |
| `crash` | one process, three actions (unobservable edit, unpredictable delete, read), a batch with or without its rollback, a forced undo or rollback, a crash, a fault | `TypeOK`, `EffectsAreLogged`; `LifecycleRespected`, `RollbackRestores`, `RollbackAccountsForAll` |
| `agents` | two threads, an operator, three destructive calls, limit 1, a kill and a resume | `HaltBoundsLeak`, `BlastRadiusBounded` |
| `outbox` | a caller and an operator, an approver, a push, an edit that must be simulated, a denied read, release, discard, kill, fault | `Sanctioned`, `HappenedAuthorized`, `ConsentForIrreversible`, `NoSilentDeviation` |
| `liveness` | a caller and an operator, a delete that deviates, a post, undo, fault, uncaught exception, outside write | `EveryCommandEnds`, `EveryRunSettles`, `DeviationHalts` |
| `policy` | every list of at most two of 24 rules, limits 0, 1 or none, all flags, two operations of every risk, two commits | `FirstMatchWins`, `LimitIsEnforced`; `NeverLaxer` |
| `store` | two processes, three threads, three payloads, either backend, one read, one I/O error, one interrupt, one process crash, one power loss | `ChainNeverForks`, `DamageIsLast`, `NoSilentLoss`, `ReadsStay`, `TamperingShows`; `ImplementsLog`, `LocksComeBack` |
| `adapters` | five adapters, three calls, one change by somebody else, any undos and rollbacks | `PredictionHolds`, `ReplayReproduces`; `UndoKeepsNewer`, `RollbackRestores` |
| `home` | two processes, one blob, one kill, an auditor, one edit of the proof, Ed25519 | `OneKey`, `RefsResolve`, `HonestProofAccepted`, `AcceptedIsHistory` |
| `testgen` | sessions of two actions with any history, and of three alike; both judges; an agent with three calls; ddmin on every set of failing sub-lists of four | `ExpectedIffEmbedded`, `DecidesItsRecording`, `ServedAsRecorded`, `TroubleIsTested`, `Minimized`; `MinimizeEnds` |

Why the bounds are enough to be worth something: in `Gateway` each property speaks of at most
two actions and two processes at a time. Three actions (`agents`, `outbox`) allow one action to be
overtaken by a second while a third is parked; one fault, exception or crash can
fall on every step of every command. In `turns` each of two processes has an edit of the
same resource, and an undo or a rollback that may fall between any two steps of the other, as may the outside
write: the smallest instance with both windows of an undo, an undo of a failed action, and a
`prepared` order that is not the commit order. A second fault would
add only combinations of independent recoveries. To a run of one process an uncaught exception is
no more than a crash, so `crash` has only the one; `liveness` has the other. `LifecycleRespected` is checked with one
process, since two that overlap break it; the theorem has several. In `LedgerStore` two threads of one process
show the lock and the shared connection, a third in another process the write lock; three
payloads allow a damaged line between two others if the code let that happen. In `Adapters` three
calls are one, one that overwrites it and one in the way of undoing either; a directory, a
file in it and a file beside it have every relation paths can have. In `Home` two
processes share a key file and a `.tmp` file; a third would be a third party to the same
two races, and the theorems cover it. In `testgen` two actions can be the same call, two calls of one
directory or unrelated, and the third makes the loop; four entries are the first number at
which ddmin refines, reduces to a complement and starts over.

The properties that carry the most:

- `HaltBoundsLeak`. The kill switch does not stop what is past its check. What it
  does guarantee is that after a halt each process starts at most one more action.
- `BlastRadiusBounded`. Overlapping callers can exceed the limit, but only by one
  action for each further caller.
- `NoSilentOverwrite`. What an undo may replace: what a run of that action has left, and nothing newer, but for
  a change that comes between `op.run` and `op.observe`, or between the check and the inverse.
  Forced undos, those of actions nobody observed, and those of failed actions make no check and are outside of it.
- `OrderKeepsPrecondition`. Why the newest action goes first: without failing hooks and intruders a rollback meets
  no conflict, except on a resource on which two processes were at work at once.
- `RollbackRestores`, `RollbackAccountsForAll`. What a clean report means, and that nothing undoable is missing
  from a report.
- `EveryRunSettles`. Whatever fails, a prepared action gets an outcome in the ledger; what stays `in_flight` behind a
  live process is at most one action for each exception that nothing catches.
- `LocksComeBack`. A thread that has the lock of its process, or SQLite's write lock, gives it back, whatever fails; the
  one exception is the interrupt between `BEGIN IMMEDIATE` and the `try`.
- `EffectsAreLogged`. Every value in the world comes from outside or from an action
  whose `prepared` entry is in the ledger.
- `Sanctioned`, `HappenedAuthorized`, `ConsentForIrreversible`. Along
  every path through approver, escalation, outbox and release; a held action needs its
  release.
- `NoSilentLoss`, `ReadsStay`, `ImplementsLog`. What append and entries told somebody is
  on disk and stays there, or the ledger says loudly that it is damaged.

- `RollbackRestores` (of `Adapters`). With the adapters' own inverses and snapshots the rollback of
  an undisturbed session ends where it started, up to empty directories.
- `UndoKeepsNewer`. By the observation alone an undo notices whatever it would overwrite.
- `ReplayReproduces`. Order of first entries, undone at once: enough to end in the same state.
- `AcceptedIsHistory`. What a verifier may conclude from an accepted proof, and no more.
- `RefsResolve`. A blob is stored, whole, before the entry that refers to it.
- `DecidesItsRecording`, `TroubleIsTested`. A suite accepts the good run and rejects the bad one it
  was made from, and has a test for everything that went wrong.
- `Minimized`. ddmin's restart rules lose neither the failure nor minimality.

### Fairness

`FairSpec` asks weak fairness of `Continue(p)` for each process: a thread in the
middle of a method is scheduled again, which is what the operating system and
Python's thread switching give. No command has to be issued, no fault to
happen, and no particular choice among the outcomes of a hook is assumed. A hook
that never returns, an approver that waits forever and a crashed host are
outside this assumption; `EveryRunSettles` and `DeviationHalts` exempt crashes, and count or exempt uncaught
exceptions, which end a method rather than delay it. `FairSpec` of
`LedgerStore` is the same for its threads; a thread that waits for a lock is served
because the calls that compete for it are finite in number. `CliSpec` of `TestgenCli` asks weak
fairness of the minimising command: each run of the agent, and each question to the judge,
ends. Nothing is asked of the agent under test in `Testgen`, of `Adapters` or of `Home`.

### Where the code and its documentation part

Two runs are expected to find a violation.

| Run | Claim | What happens |
|---|---|---|
| `release_race` | "is not held" (`core.py:532`, `551`) | `release` and `discard` check, then append: two operators resolve one held action twice |
| `failed_move` | "Undo restores the pre-state of what an action touched" (`README.md:229`) | moving a file that is not there fails; its undo (`adapters/fs.py:173`, not checked for conflicts: `core.py:437`) moves the file at the destination away |

More of the same kind is visible in the models and has no run of its own; the
properties above name these cases where they exempt them.

Gateway and ledger:

- Two undos that overlap both read the action as committed and both run the inverse
  ("Undo is idempotent", `SPEC.md:260`).
- An exception that nothing in `_commit` catches leaves an action `in_flight` in a live process, although it has
  taken effect: a result that `put_json` or `digest` refuses, a `committed` entry that cannot be written
  (`core.py:349-352`), a `KeyboardInterrupt` in `op.run` (`core.py:345`). It can be undone, without a check.
- An interrupt between `BEGIN IMMEDIATE` and the `try` leaves the transaction open: nobody appends again until the process
  ends (`store.py:78-79`).
- A change between the check of an undo and its inverse is overwritten (`core.py:438-444`), and one between
  a run and its observation passes for the action's own (`README.md:229`, "an undo never silently overwrites newer changes").
- A failed action is undone without a conflict check, and replaces what another action has
  committed since (`core.py:437`; `README.md:229`). With SQLite that is the whole database,
  with git a reset.
- Two calls are decided on the same counters before either commits (`SPEC.md:112`): the
  limit is exceeded, by as much as `BlastRadiusBounded` says.
- A JSONL write that fails just before its newline is followed by a confirmed append, and
  neither line can be read (`store.py:35`, `146`). `NoSilentLoss` shows that this is loud.
- An action whose call is still running is `in_flight` and can be undone under it; it
  then commits after its undo (`core.py:427`).
- Rollback sorts by the `prepared` entry, where `SPEC.md:274` says reverse commit order (`core.py:466`): with two threads on
  one resource it may meet a conflict that the reverse commit order would not.
- A released action counts in a `Session` object that is thrown away, so it never counts
  against its session's limit (`core.py:535`).
- A ledger that is cut at its end verifies, where `ledger.py:3` says "deleting ... anything
  breaks the chain"; `TamperingShows` leaves the last entry out of deletion. The README of
  the repository asks to publish the head for that reason.

Adapters:

- Moving a file onto itself is predicted to remove it, and so deviates.
- Undoing leaves directories that were made on the way; undoing `mkdir` leaves
  a directory that is not empty without saying so. Such a directory may stand in the way of a
  file later. `Same` sets directories and nothing apart from the rest for that reason.
- A rollback may not restore where a path is a file at one time and a directory at another: the undo of
  a `rmdir` makes its directory, also when the `rmdir` failed (`fs.py:213`), so a deleted file whose
  path is then given to a failing `rmdir` finds a directory in its place. `PathsApart` excludes it.
- The HTTP adapter observes the response only, so an undo cannot notice newer changes.
- `PUT` of a resource that was not there, and a first commit, are called reversible and have
  nothing to go back to.
- `db.query` runs any statement and passes for a read; so do `PRAGMA` and `WITH ... REPLACE`
  (`sqlite.py:33`; "no side effects", `model.py:13`).
- A replay undoes each undone request at once, and the next one then may not have what it needs.

Home and proofs:

- Nothing syncs a blob or the key file, so a power loss may take a snapshot whose `prepared` entry
  was synced (`core.py:341`).
- Two processes that store one blob at once share its `.tmp` file: one fails, or the blob is
  there before it is whole.
- An HMAC signer that starts while another creates the key may read the empty file and sign
  with it. An Ed25519 signer refuses it.
- `verify_proof` accepts a proof whose segment has entries of the action that the proof leaves
  out (`proof.py:126`).

Test generation:

- A test for a failure that is only a label, or one the model does not place, may pass whatever
  the agent does again; a directory with glob characters in its name does not match the glob
  made of it (`Toothless`).
- A failed action that was rolled back with its session is imported as `rolled_back` and gets
  no test (`importers.py:63`).
- A judge that flags a prefix but not every longer one makes `minimize_trace` return one that
  is not the shortest (`SPEC.md` 12.5).

## 4. Proofs

Assumed is what the modules declare about their constants (each `ASSUME` has a name ending in
`Assumption`), which TLC evaluates in the runs:

- types: `NoLimitAssumption`, `PolicySessionAssumption`, `GatewayAssumption`, `StoreAssumption`,
  `SizeAssumption`, `HomeAssumption`, `SlackAssumption`, `NoneAssumption`;
- finitely many processes (`ProcAssumption`: two bounds count them);
- what the worlds and calls of each adapter look like: `ToolsAssumption`, `StartsAssumption`,
  `FsAssumption`, `DbAssumption`, `HttpAssumption`, `ShAssumption`;
- a loop is at least three calls (`LoopAssumption`), and recorded sessions keep the lifecycle's diagram
  (`SessionsAssumption`), which is a theorem about what the gateway records.

Sessions, actions, resources, rules, payloads, blobs, paths, rows, the length of a recorded session
and the budgets may be any number.

- `PolicyProofs`. `LimitHolds`, `DecisionsNeverLaxer` and `RulesInOrder`. The type
  invariant of `PolicySession` is inductive, and the three properties follow from
  it: counters only grow, so a reason to escalate that holds stays, and escalation
  is monotone in the rank. `RulesInOrder` is about the least index of a matching
  rule: the least of the tail, one further, when the head does not match.
- `GatewayProofs`. `TypeCorrect`: `Spec => []TypeOK`. `TypeOK` is not inductive. `undo`
  writes into the world what it reads from a `prepared` entry, and `release` takes its
  preview from a `simulated` one, so the invariant `TypeInv` adds what those entries
  hold; that a frame in the middle of a command has an action in hand; that
  the snapshot register holds a state when `prepared` is about to be logged; and that
  what `undo` has loaded is a prefix of the ledger. There is one lemma per action.

  `WriteAhead`: `Spec => []EffectsAreLogged`. Not inductive either: an
  inverse puts back what a `prepared` entry holds, which was read from the world
  earlier. `LoggedInv` says that the value in an entry, and the snapshot a frame
  is about to log, are accounted for, that a frame between `prepared` and the
  outcome has its entry, and that a committed action was prepared. Actions that do
  not touch the world are covered by one lemma (`QuietStep`): the ledger only grows,
  and what it accounts for stays accounted for. The eight that matter have one each.

  `KillSwitch`: `Spec => []HaltBoundsLeak`. Here what a step does to the ledger, the frame and
  the counters is first written as a table of edges (`Step`; the lemma `Steps` says that every
  action of a process is in it), so an invariant has to be checked once for each row, not
  for each action. `HaltInv` counts, for each standing halt, the actions started since
  and the processes that are past their last look at the kill switch: the sum is never more than the
  processes that may start actions, since whoever starts one was past the look and is not any more.
- `GatewaySafety`. One invariant for each property, over the same table; each relates a frame to
  the entries of the action it has in hand.
  - `PreparedIsSanctioned`, `IrreversibleIsConsented` (`AuthInv`). An action that no entry names yet
    belongs to one call (`GivenOut`), so its entries are those the call's label tells (`SoFar`), and a
    frame that is about to prepare has its consent, and its release, behind it in the ledger.
  - `HappenedIsAuthorized` (`WordInv`). The last word on a held action is its
    release, if no second operator discards it meanwhile; hence the premise `OneOperator`, which
    is about the constant `May`: a single process works the outbox. Run `release_race` shows what two
    do.
  - `DeviationsShow` (`PreviewInv`). A preview is logged once, and the outcome that
    `committed` holds is in the register of a frame until the deviation is logged; a crash
    or an uncaught exception in between spends the budget that the property looks at.
  - `BlastRadius` (`BlastInv`). What a session has finished is in its counter, and the calls on their
    way without consent are one per caller: the first was decided with the counter below the limit, so
    the sum is at most the limit and the other callers. The premise is that somebody may call at all
    (`Callers # {}`): with nobody the bound would be one below the limit.
  - `NewerIsSpared` (`TurnInv`). `TurnsSpec => NoSilentOverwrite`, for any operations. A state goes from the world into a
    register, from there into the `committed` entry, and is looked for in the world by the check. `FrameOwn` and
    `EntryOwn` say at each of these places that a run of the action left it, or that somebody came
    between while it was in the world only (`disturbed`); a register and an entry nobody disturbs.
  - `LifecycleKept`, `HeldIsResolvedOnce` (`StatusInv`). While a method has an action in hand, its label
    tells the action's status. This is false once two methods are in the middle of the same
    action, because each checks the status once and appends later; so the premise is that it does not
    happen (`[]OneHand`), and the overlaps listed in section 3 are the *only* ways out of
    the lifecycle: crashes, failing hooks, halts, escalation and outside writes are none.
  - `NothingIsForgotten` (`TodoInv`). What can still be undone is on the work list, in hand or in
    the report, as long as nobody else has an action of that session in hand (`[]Undisturbed`): a
    rollback reads the ledger once, and would not know of an action that is prepared after it has.
  - `RecordingsKeepDiagram` (`CommittedInv`, `DiagramInv`). The entries of each action, as a recording has
    them, are a path of the lifecycle's diagram, with a deviation only after the commit it is about. It is
    what `Testgen` assumes of its sessions, so the two models meet here.
  - `RollbackPutsBack` (`BackInv`). A rollback that reports nothing failed leaves each resource with
    the snapshot of the oldest action it undid there. The work list is older than the action in hand, which
    is older than those undone; and on each resource the snapshot of the oldest undone one is in
    place. It needs that an action is prepared once (`OnceInv`) and that the entry holds what the snapshot
    hook returned (`SnapshotInv`). Premises are `[]OneHand` and `WorldLeftAlone`: while a process
    rolls back, only its own steps change the world. Neither the conflict check nor the absence of `force`
    is used: order and snapshots are enough.

- `LedgerStoreProofs`. `ChainHolds`, `DamageStaysLast`, `StoreTyped`. The invariant `ChainInv` says which
  locks a thread holds at each step (`Holding`) and that the entry it has in hand
  follows what is on disk (`InHand`). Two threads with an entry in hand are the same
  (`OneAtATime`), so a step that changes the file disturbs nobody (`ThreadStep`); then one lemma
  per action, and `LineAdded`, `PartIsChain` for what a write or a power loss leaves.
  `NothingLost` and `AnswersStay` come from `KeptInv`: a payload whose append returned is
  on a line that is synced and ended, or the file's last line is damaged and synced, so that nothing is
  appended any more (`Spoiled`); what `entries` answered is the beginning of the file, but for
  a last line whose newline is missing (`Answered`). `TamperingIsSeen` is about chains of any length: a
  changed, deleted or swapped entry breaks the link of the next one. `StoreIsLog` maps every step: a
  line that becomes readable is `Persist`, a return is `Confirm`, a damaged last line is the
  log's `broken`, and a crash, a cut write or a power loss is `Lose`; every other step
  stutters.

- `TestgenProofs`. `MinimizedStillFails`, `MinimizedIsMinimal`, `MinimizedIsShortest` and, together,
  `MinimizedKeepsItsPromise`. `Dividing` says that what is left fails, and that every chunk in front of the one in
  hand, and its complement, were tried without luck (`Tried`); when the search ends there
  are as many chunks as items, so each chunk is a single item (`ChunksOfOne`, `TriedAll`). With two
  chunks a complement is the other chunk, which is why the code may skip it. `Searching` is
  the bisection's invariant: `hi` fails, and nothing shorter than `lo` does if the judge is
  monotone.

  `ExpectedIsEmbedded`, `RecordedIsServed`, `RecordingIsDecided`, `EveryTroubleIsTested`: for sessions of any
  length and any agent. `TInv` says what a run in hand is (`Shape`), and that, as long as the agent repeats the recording,
  a queue holds exactly the recorded answers still ahead (`InStep`). The
  greedy search of the runner finds the expected calls in order iff they can be found at all
  (`PassFindsEmbedding`: it is never behind any other embedding). An agent that repeats the recording gets the
  recorded answers, so a good recording passes its own tests, a bad
  one fails one of them, and what was blocked, failed, undone or deviated has a test that forbids it.
- `AdaptersProofs`. `PredictionsHold`, `UndosKeepNewer`, `RollbacksRestore`, `ReplaysReproduce`, for any
  world, any paths, rows and resources, and a session of any length. One lemma for each hook says what it
  leaves of any world, and `AInv` what the log says of this one: each entry is what `_execute`
  and `_commit` keep of a call (`IsEntry`), and, as long as nobody else writes and the session is `Calm` (paths apart,
  no failed move), the standing entries are `Chained`: each was taken in the world that the last standing one before it
  left, up to directories (`Core`), and the world is what the last one left. An undo
  that goes newest first takes the last link off the chain; a rollback takes all of them, by induction on the number of
  entries left, and a replay walks it forwards.
- `HomeProofs`. `OneKeyForAll` and `BlobsFirst`, for any number of processes, blobs and crashes. `Keyed`: at most
  one process is ever about to write the key file, and nobody signs before it is
  written. `Stored`: a `.tmp` name has its inode to itself, a process finds there its own
  inode, none, or one that was shared, and what is under a blob's own name is whole or was
  shared. `Referred`: what an entry in hand, or in the ledger, refers to has a name.
  `HonestIsAccepted` and `AcceptedIsTrue` add that an entry's number is its place (`Numbered`) and that
  a document, however often it was edited, is made of pages: entries that are the ledger's or are
  not genuine (`Page`, `Document`); so `check_entry` leaves only the ledger's. While a proof is read
  (`Reading`), the head is no older than the entries, and the ledger that grows meanwhile keeps both. The
  loops of `verify_proof` compare neighbours; that the whole segment counts up and all entries are in
  order is by the least counterexample (`CountsUp`, `AllInOrder`). That nobody without the key makes a
  genuine entry is what `Forged` assumes of the cryptography.

Only model-checked:

- all liveness properties: they need fairness and `ENABLED`;
- `OrderKeepsPrecondition`. It is not true of all constants: a rollback meets no conflict only if each operation has a
  snapshot and an observer, and an inverse that leaves what the snapshot holds. The run's operations
  have all three; as a theorem it would need them as premises;
- the properties the two runs refute, and of those `ResolvedWhileHeld` is proved with the premise
  that its counterexample breaks (`HeldIsResolvedOnce`).

## 5. Not modelled, and what is left

Not modelled:

- cryptography and canonical encodings (`ed25519.py`, `_canon.py`, most of `signing.py`): pure
  functions on numbers and strings, assumed to do what they promise;
- `cli.py`, `ui.py`, `integrations/`: parsing, printing, HTML and wrappers around methods that
  are modelled;
- `classify.py` and the loading, printing and fingerprints of policies: word lists and formats;
- importers of foreign formats, saving, merging and exporting suites: conversions without state;
- the bridge between asyncio and threads (`ops.py`, `resolve`): which thread an asyncio program calls
  from is not in this code;
- filters of `entries()`, blob checks of `verify_chain`, the lists `held()` and `actions()`.

Worth doing next, in this order:

1. `OrderKeepsPrecondition` as a theorem, with premises about the operations (snapshots, observers).
2. An abstract undoable action (run once, undone at most once) and `Gateway` shown to
   implement it under `OneHand`.
3. Undos and calls of `Adapters` cut into the steps of `Gateway`, with two sessions on one world.
4. Power loss in `Home`.
