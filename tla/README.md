# A TLA+ model of libherd

libherd is the C++ client library of HERD, a system that computes on data
encrypted with fully homomorphic encryption: a program creates a *session* at a
server, uploads *keys* and encrypted *data frames*, and *schedules* jobs over
them.  This directory holds TLA+ modules that model the parts of the library
that are concurrent, distributed or stateful, the TLC configurations that check
them, and proofs for TLAPS.  Paths are relative to the repository's root.

Contents: [the system](#the-system), [modules](#modules-and-code),
[runs](#runs), [fairness](#fairness), [proofs](#proofs),
[findings](#findings), [what is left out](#what-is-left-out), [plan](#plan).

## The system

```
  the program (one thread)
     |  create_session          |  schedule, list_jobs   | import_from_csv, data_frames
     v                          v                        v
  Context ----------------> Session --owns--> Executor   DataStorage
     |  owns                 |  owns           jobs_      data_frames_
     v                       v                   |          |
  RemoteBackend          Keyring, cryptos        |          |
     |  owns                                     v          v
     v                                RemoteBackendConnectionImpl  --gRPC-->  server
  ThreadPool  <------- execute(upload task) -----+
     |  runs
     v
  upload task: writes blocks to a stream, steps a ProgressFuture
```

Every public call runs on the program's thread and returns after its RPCs,
except the two uploads (`add_key`, `create_data_frame`), which queue a packaged
task in the backend's `ThreadPool` and return a `ProgressFuture`.  So there are
three sources of concurrency: the pool's threads against the program's thread,
the gRPC streams of several uploads, and the server, which has other clients.

### Inventory

Each component: its state, its operations, what is hard about it, and what
makes it correct.

**Thread pool** (`include/herd/utils/thread_pool.hpp`, `src/utils/thread_pool.cpp`).
State: `queue_`, the vector `threads_` (each thread with `ended_`), `closed_`, a
mutex and a condition variable.  Operations: `execute`, which removes ended
threads, pushes, and either spawns or notifies; `thread_body`, which waits with
a timeout, takes and runs; the destructor, which closes, notifies all and joins
without the mutex.  Hard: notification outside the mutex, timeouts that race
with pushes, spurious wake-ups, `jthread` creation that fails after the push,
removing threads from a vector while others run, shutting down with work left.
Correct when no task is lost, duplicated or overtaken, no wake-up is lost, a
thread ends only when nothing needs it, and the destructor leaves nothing.

**Uploads** (`src/backend/remote/detail/remote_backend_connection_impl.cpp`,
`include/herd/utils/progress_future.hpp`).  State of an upload: its stream, its
loop counter, the atomic step counters, its future.  Operations: opening on the
caller's thread, the block loop on a pool thread, `Finish`.  Hard: a stream may
break at any point and the results of `Read`, `Write` and `Finish` are dropped;
a row may fail in the middle; the last block is short.  Correct when what the
server holds is always a prefix of the upload in the intended order and every
future becomes ready, with a value only when the upload is complete.

**Data storage, remote** (`src/storage/data_storage.cpp`,
`src/storage/remote/detail/data_storage.cpp`).  State: `data_frames_`, a map
from names to frames with an `alive_` flag.  Operations: `import_from_csv`,
`data_frames`, `data_frame_by_name`, `sync_cache`.  Hard: the answer to a list
is stale when it is used, other clients create and drop frames, names clash,
and entries are never removed.  Correct when `alive` tells the truth of the
answer, a name always gives the same frame, and what the server has is listed.

**Executor, remote** (`src/executor/remote/detail/executor.cpp`,
`src/executor/job.cpp`).  State: `jobs_`, from UUIDs to jobs with a status.
Operations: `schedule`, `list_jobs`, `sync_cache` with one RPC for every unknown
job.  Hard: a synchronisation is many RPCs and may stop half-way, statuses are
older than the descriptions they are stored with, `schedule` may throw after the
server took the job.  Correct when no job is shown ahead of the server or goes
back, a listing is what the server answered, and no job is lost.

**Session, keyring, context** (`src/session/session.cpp`,
`src/crypto/keyring.cpp`, `src/context/context.cpp`).  State: the session's id
and `auto_destroy_`, `destroyed_`, the keyring, the cached cryptos, the shared
`context_`.  Operations: `create_session`, `add_key`, `crypto`, `destroy`,
destruction.  Hard: an upload in the pool holds a reference to the session's
crypto; members are destroyed in an order; the last handle on the context,
whichever that is, runs the pool's destructor; `insert` ignores a second keyset
of a schema.  Correct when nothing is used after it is freed, the key at the
server is the one that encrypts, and the upload of a frame begins after its key's.
The destroy RPC may overtake uploads: the library leaves that to the program.

**Progress future, promise and bar** (`include/herd/utils/progress_future.hpp`,
`src/utils/progress_bar.cpp`).  Two atomic counters that the pool's thread
steps, `progress()`, which reads them one after the other on the program's
thread, and a bar that turns the quotient into symbols and a percentage.  Hard:
the two reads are of two moments, `max_step` is 0 before the task begins and for
an empty frame, keys count to one byte less than they send.  Correct when the
bar is never further ahead of what was sent than the rows in hand, never goes
back, and ends full.

**CSV reader and mappers** (`src/utils/csv_reader.cpp`), **local storage**
(`src/storage/local/`), **data frame encryption** (`src/storage/data_frame.cpp`).
Sequential code over a stream and over column pools.  Hard: empty cells and
trailing newlines, a row count that starts from the beginning of the stream
while reading starts from where it is, integer widths.  Correct when the rows of
an import are the lines of the text, and an import that cannot have all of them
does not complete as if it had.

**Source analyzer** (`src/translator/xlscc/detail/source_analyzer.cpp`).  Finds
the entry function by line arithmetic, the function two lines below the end of
the line before its pragma, and lists the widths of its structs' fields.  Hard:
functions on the first lines, templates, several functions and pragmas.  Correct
when the function described is the one that is compiled.

**Compiler driver and temporary files** (`translator.cpp`,
`src/utils/temp_storage.cpp`).  Three external tools in a row, each reading what
the one before wrote.  Hard: neither an exit status nor a file's state is looked
at, so any stage may pass on part of its output.  Correct when such a run never
yields a program that nobody wrote.

**IR parser** (`ir_parser.cpp`, `src/utils/string_utils.cpp`) and **transpiler**
(`ir_transpiler.cpp`).  From the text of a boolean program to a circuit: the
parser searches the top function, its header and its statements by marks; the
transpiler visits the statements with three maps from ids (to tuple elements, to
the bits of a result, to nodes).  Hard: other functions and blank lines around
the top function, ids without nodes, operands of several kinds, the order of
fields and bits, which a compiler outside the repository chooses.  Correct when
what is parsed is what was written and the circuit computes what it says.

**Connection set-up** (`RemoteBackendConnectionImpl::authenticate`,
`src/context/context_builder.cpp`).  One RPC before any other; its failure leaves
the builder with a backend that has a pool and no connection.

**Paths** (`path.cpp`), **BinFHE crypto** (`src/crypto/binfhe/`), **RPC
pass-through** (`remote_backend.cpp`), **callable wrappers**
(`movable_function.hpp`, `pimpl.hpp`).  Wrappers and ownership helpers: not
modelled, see [below](#what-is-left-out).

## Modules and code

| Module | Models | State and its counterpart in the code |
| --- | --- | --- |
| `WorkQueue` | what the pool promises its users | `pending`, `running`, `finished`, `open`, `halted` |
| `ThreadPool` | the pool itself, down to the critical sections | `queue` = `queue_`, `threads` = `threads_`, `worker` = where each thread's `thread_body` is, `dtor` = `closed_` and the destructor's progress |
| `Upload` (extends `WorkQueue`) | both uploads over a pool, and a program that watches one with a `ProgressBar` | `stream`, `sent` = the loop counter, `block` = the block in hand, `currentStep` = `current_step_`, `maxStep` = `max_step_`, `future`, `wire` and `server` for gRPC and the server; `watched`, `reading` = where the program is in `progress()`, `bar` = what is drawn |
| `RemoteStorage` | `DataStorageImpl` and the frames of the server | `cache` = `data_frames_`, `dead` = `alive_ = false`, `call` = the call in progress with the answer it holds |
| `RemoteExecutor` | `Executor` and the jobs of the server | `jobs` = `jobs_`, `running` = the call in progress with what is left to apply, `atServer` = the jobs of the server |
| `SessionLifecycle` (extends `WorkQueue`) | connecting, sessions, keys, uploads and destruction over a pool | `backend` = whether the Context is built, connected or gone, `phase`, `holders` = the owners of `context_`, `keyring`, `cryptos`, `upload` = what a queued task refers to |
| `CsvImport` | `CSVReader` and both imports over one stream | `stream` = position, eofbit and failbit of the `std::istream`, `import` = the import in progress and its rows, `lines` and `text` = the table and how it is written |
| `IrText` | one line of IR as XLS writes it and as `ir_parser.cpp` reads it: headers, statements and their arguments, as operators | |
| `Compiler` (extends `IrText`) | `Compiler::translate` up to the parsed program: `SourceAnalyzer`, the three tools, `parse_ir`, `parse_function` | `stage`, `source`, `metadata`, `output` = how much of the tool's output there is, `text` = `temp_code`, `at`, `begin`, `finish` = the parser's iterators, `definition`; `written` = what the tools meant |
| `IrTranspiler` | `transpile_ir_program` | `indirectInput`, `indirectOutput`, `idNode`, `graph` as in the code, `program` = the statements visited |
| `MC*` | instances for TLC: sizes and symmetry only | |
| `ThreadPoolProofs`, `UploadProofs`, `SessionLifecycleProofs`, `CsvImportProofs`, `IrTranspilerProofs`, `CompilerProofs` | the theorems about the module each is named after | |
| `RemoteProofs` | the theorems about `RemoteStorage` and `RemoteExecutor`, which it extends both | |
| `DataLemmas` | facts about numbers and sequences that several proofs cite | |

`WorkQueue` is the hinge of the composition.  `ThreadPool` is shown to implement
it (`ThreadPool!ImplementsQueue`, an `INSTANCE` with a refinement mapping), and
the modules that use a pool, `Upload` and `SessionLifecycle`, extend it, so they
are checked against the promise and not against one more copy of the pool.

### The grain of an action

* `ThreadPool`: one action is one critical section of `pool_mutex_`, or a call
  made outside it (`notify_one`, `notify_all`, the task, `join`).  `execute()`
  is housekeeping, push, and spawn or not, in one action; the notification is
  another one, because the code unlocks before it.  A call after `closed_`
  throws and changes nothing, so it has no action.  Tasks are submitted in an
  order of their names (`IsNext`): nothing depends on which task a call brings.
* `ThreadPool` names a thread after the task whose `execute()` created it: one
  call creates at most one.
* `Upload`: two actions per block, because another thread reads the step counter
  between them.  A frame's task encrypts the rows of a block and steps the counter
  (`TakeRows`) before it writes them and its loop counts them (`WriteRows`); a
  key's writes and counts (`WriteBytes`) before it steps (`StepBytes`).  `block` is
  what is in hand in between.  One action per read of an atomic by `progress()`;
  the bar is drawn in the step of the second read.
* `RemoteStorage`, `RemoteExecutor`: a call is several actions: the request, the
  server's step, and the use of the answer; `RemoteExecutor` applies an answer
  one job at a time because each unknown job costs an RPC that may fail.  A list
  RPC that fails throws and changes nothing, so it has no action.
* `CsvImport`: one action per row that is read, per beginning and per end of an
  import.  The two stages of a remote import, the call that counts and the task
  that reads, are separate, as in the code.
* `Compiler`: one action for the analysis, one per tool and one for a tool that
  cannot be run, one per line that the parser looks at.
* `IrTranspiler`: one action per statement, the `visit_` function of its kind.
* `SessionLifecycle`: one action per public call, one per stage of a destructor,
  one per end of a task.

### Abstractions worth knowing

* A task, a frame, a job, a session and a keyset are model values.  A frame's
  rows and a key's bytes are numbers, so that order, gaps and repetitions show.
  `next_row` inserts at the beginning of its buffer, so a frame's block arrives
  with its rows last to first; `Upload!Arrival` says so.
* The server is not in this repository.  It is modelled by what the client can
  see: it takes what it is sent while the stream lives, has other clients, lists
  what it has at one instant, and moves jobs up.  Whether it keeps the names of
  frames apart is a constant, `Namesakes`; both values are used.  Jobs are never
  forgotten by it: nothing in `src/` asks it to.
* `UUID` is herd-common's.  Made of the empty string of an unanswered `Read`, it
  throws, or gives an id no frame has: `Nil`, a second constant of
  `RemoteStorage`, and a choice in `Upload`.
* Of the job statuses the code names three; `"executing"` stands for the others
  herd-common may have.
* The pool in `Upload` and `SessionLifecycle` does not die of the housekeeping
  fault; that is `ThreadPool`'s own question.
* A `SessionLifecycle!Careful` session is one the program keeps until its
  futures are ready, as the repository's examples do; the others are dropped at
  any time.  Properties about borrowed cryptos are stated of the careful ones,
  the others show that the distinction matters.
* The quotients of the progress bar are real: the code's are floats, whose
  rounding moves a symbol by at most one place.  A conversion of NaN or infinity
  to an integer is undefined; `Undefined` is the one picture that stands for all,
  and no property looks into it but to say that it does not come back.
* The IR is a sequence of lines and a line one of tokens: words, numbers and
  marks.  The parser searches for single characters, all of them marks, and
  converts the number that stands behind, so tokens keep its control.  Blank lines
  are kept, because `trim()` makes a view of negative length of them and the
  parser then reads the line behind: `Compiler!Trimmed`.
* A tool's output is whole, part of it, or nothing, cut between lines (a tool
  writes lines, and the pipe's end is the end of what it flushed).  `xlscc` wants
  exactly one function below its pragma and types it knows; with two it writes
  nothing.  No blank lines stand inside a function.
* An operation the parser has no mapping for is `"rejected"`: an assertion or the
  exception of `at()`, by build.
* A CSV text is a sequence of commas, newlines and cells, a cell being its number
  (one that does not fit its column stands also for text that is no number).  The
  table a text was written from is kept, so that the rows of an import have
  something to be compared with that is not the reader's own idea of a line.
* The XLS compiler is outside: `IrTranspiler` knows of it that parameters are
  taken apart bit by bit, that a result is made of one concat per field, highest
  bit first, and that tuples have the last field first (`Reversed`, which the
  program and the IR in the repository's tests show).  `Meaning` is the meaning
  of a statement, the set of inputs for which it is 1; it does not use the
  transpiler's maps.
* Undefined behaviour ends the behaviour modelled: `ThreadPool!ExecuteFaults`
  (a join through a null pointer), an import whose status is `"faulted"` (a value
  beyond the row's values), `SessionLifecycle!UploadDangles` (a freed
  crypto), and the two ways to throw out of a destructor.

## Runs

Deadlock is checked in every run.  Times are those of two TLC workers.

| Run | Instance | Checks | States |
| --- | --- | --- | --- |
| `threadpool` | 4 tasks, 2 clients, up to 3 threads, spawning may fail, fair | `QueuedTaskHasThread`, `NoLostWakeup`, `IdleThreadsAreWoken`, `BacklogBound`, `DrainedWhenGone`, `AcceptedTaskCompletes`, `DestructorReturns`, `ImplementsQueue` | 39,142 |
| `threadpool_housekeeping` | 3 tasks, 1 client, 2 threads | `HousekeepingIsSafe`, violated | |
| `upload` | 2 frames (3 rows, 0 rows), 1 key (3 bytes), blocks of 2, 2 threads, a bar of 3 symbols, fair | `ServerHoldsPrefix`, `ServerSeesOutcome`, `ProgressIsHonest`, `BarNeverGoesBack`, `UploadEnds` | 307,628 |
| `upload_ready` | the same | `ReadyMeansUploaded`, violated | |
| `remote_storage` | 3 frames, 3 names of which 2 are automatic, namesakes | `DeadMeansGone`, `AutoNamedStays`, `SyncShowsAnswer`, `BindingsAreFinal` | 144,888 |
| `remote_storage_lists` | 2 frames, no namesakes | `ListsRemoteFrames`, violated | |
| `remote_executor` | 3 jobs | `NeverAhead`, `NeverBack`, `ListingIsComplete` | 272,952 |
| `session` | 2 sessions (one careful), 2 keysets of one schema, 3 uploads, 2 threads | `CryptoMatchesServer`, `BorrowedCryptoLives`, `PoolOutlivesUsers`, `KeyGoesFirst` | 175,297 |
| `csv_import` | texts of up to 3 lines of 10 kinds, 2 columns (a bit, a signed integer of 3 bits) | `RowsAreLines`, `CompleteImportIsWhole`, `GoodTextsNeverFault` | 64,911 |
| `compiler` | sources of up to 5 lines with 1 or 2 functions, functions of up to 2 statements and a return, three preambles and postambles | `MetadataMatchesHeader`, `ParsedIsWritten`, `WholeRunsNeverFault` | 59,176 |
| `ir_transpiler` | 2 parameters of one field (2 bits, 1 bit), 2 results of 2 bits, up to 2 logical statements | `NodesComputeStatements`, `CircuitComputesSource` | 385,292 |
| `ir_transpiler_fields` | 1 parameter of two one-bit fields, 1 result | `CircuitComputesSource`, violated | |

Every module has one type invariant, `TypeOK` or `ExecutorTypeOK`, checked in its
passing run.

### What they show, and why the bounds are enough

**threadpool.**  With three threads a vector can hold an ended, an idle and a
running thread at once; with four tasks three threads can be busy while one task
is queued; two clients make a second `execute()` fall between another's push and
its notification.  No symmetry: TLC's liveness checking is unsound with it.  The
interesting interleavings are all there: a worker that timed out while a task was
pushed finds it (`QueuedTaskHasThread`, `NoLostWakeup`), a notification that
reaches nobody was not needed, and the growth rule keeps up whatever ends in
between (`BacklogBound`).  `IdleThreadsAreWoken` is stronger: no task waits behind
a running one while another thread sleeps.  It is stated for pools whose threads
all started: one that could not be started stays in the vector and keeps the pool
from growing.  `ImplementsQueue` checks the abstract queue, with its fairness as
long as every thread started, so what `Upload` and `SessionLifecycle` assume of a
pool is what the pool gives, its death included.  `AcceptedTaskCompletes` covers
failed starts, too: the task is run unless no thread of the vector ever started,
and then it does stay queued for ever, which the code does not promise to avoid.

**threadpool_housekeeping, upload_ready, remote_storage_lists,
ir_transpiler_fields** are the
[findings](#findings).

**upload.**  The sizes cover a full and a partial last block, an empty frame,
and a key of one full block and a byte; two threads run while one upload is
queued.  Streams break at every point and rows fail in every block.  The real
block sizes, 64 rows and 512 bytes, differ from 2 only in how many equal steps
there are.  The program watches one future of its choice, looks whenever it likes
and reads the counters in either order with the task in between.  Three symbols
give a bar whose half symbol matters.  `ProgressIsHonest` says how far the bar can be
from what was written, and the two tasks differ: a key's never shows more than
its loop has written, measured against the one byte less that it counts to, so
it may show 100% with a byte to go; a frame's steps first, so its bar may be ahead
of what was written by the rows in hand, and by no more.

**remote_storage.**  Three frames are the smallest number with one imported, one
of another client and a namesake of either, and the stale answers between them.
Three names: two automatic ones, so that the second is chosen when the first is
taken, and one that is not.  There is no bound on calls; frames are never
reused, so their number bounds the behaviour.  Automatic names end at
`Len(Auto)`, the code's go on.

**remote_executor.**  With three jobs one answer can have a known job, one of
another client and one whose `schedule()` threw, each in front of or behind a
describe RPC that fails.  No bound on calls.

**session.**  Two sessions share one context, so the order of their releases
and the program's matters; two keysets of one schema compete; three uploads with
two threads leave one queued while two run.  Sessions and uploads are not
reused: a program that goes on creates new ones.  `KeyGoesFirst` relates three
things that change apart, which keyset of a schema the keyring kept, which one
the cached crypto was made of, and the order in which the pool starts: a second
keyset uploads the first one's cloud key once more, and a frame may be queued when
its key waits, runs or has ended.  It says *begins*: with two threads the server
may still read the frame before the key.  `Destroy` and `DropSession` come at any
time, so the destroy RPC may overtake uploads of its session; no property says
otherwise, because the library gives no such order (see the hazards).

**compiler.**  Five lines are enough for a function on each side of the
analyzer's arithmetic (lines 1, 2, 3 and later), for two functions of which
either, both or none has the pragma, and for a template or a function that is
not supported before the marked one.  The functions' structs have different
widths, so that one taken for another shows.  The preambles have one or two blank
lines and a helper function before the top one, the postambles the same behind
it.  Each of the statements' formats occurs, one that the parser does not know
included; two before the return are enough to see an order.  `ParsedIsWritten`
holds with any tool passing on a part: a text cut anywhere has no closing brace at
the beginning of a line, and the parser ends in `SearchFails`, an assertion or,
without assertions, a view between iterators that were never set.

**csv_import.**  Three lines make a first, a middle and a last one, with and
without a newline behind it; the ten kinds of lines have too few cells, empty
ones before, between and after the others, more than there are columns, both
ends of the signed column's range and values beyond either column's.  Calls come
in any order, without a bound: the stream only moves forward.  The runs in which
a value beyond a row is used end there; `GoodTextsNeverFault` says which texts
never lead to that.  A local import of a text that ends with a newline always
does, and so does any import that starts behind the beginning and announces rows;
what `CompleteImportIsWhole` excludes is that one of them completes in silence.
A line with an empty cell gives its later values to the wrong columns: that is
in the model, and no text of the repository says whether it should be.

**ir_transpiler.**  With two logical statements a gate has an operand that is
itself a gate, and ids of tuple elements, bits, gates and concats alternate with
the numbers of nodes.  Two parameters of different widths and two results of two
bits tell structs, fields and bits apart.  The circuit is compared as a function,
for all eight inputs.  Parameters have one field each, because of finding 4, and
are taken apart in order: the order of those statements does not matter to the
maps, and leaving it free only multiplies states.

## Fairness

Two specifications have fairness, each conjunct for a reason in the code or in
what it runs on:

* `ThreadPool!FairSpec`: weak fairness of each worker's own steps (the scheduler
  and the mutex are fair, and tasks terminate), of each client's notification
  (it is the next statement of `execute()`), and of a destructor that has begun.
  Not of `execute()`, of starting the destructor, of a timeout or of a spurious
  wake-up: nothing relies on a wait timing out.
* `Upload!FairSpec`: weak fairness of starting what is queued and of running
  tasks, which is what `ThreadPool` gives, and of the server's reading.  The
  last one is an assumption about the outside: no RPC of the code has a
  deadline, so a server that stops reading on a live connection stops the upload
  and holds a thread of the pool.  Breaking is not fair: a stream may live.

The other specifications have no liveness property and no fairness.

## Proofs

TLAPS proves these for every value of the constants that meets the named
assumption, so for any number of tasks, clients, threads, jobs, frames and names,
for rows and blocks of any number, texts and programs of any length.

`ThreadPoolProofs`, from `PoolAssumption` (at least one thread, `None` is no
task):

| Theorem | Statement |
| --- | --- |
| `TypeCorrect` | `Spec => [](TypeOK /\ WorkersAccepted)` |
| `FirstInFirstOut` | `Spec => []TasksInOrder` |
| `QueuedTasksAreServed` | `Spec => []QueuedTaskHasThread` |
| `NoWakeupIsLost` | `Spec => []NoLostWakeup` |
| `BacklogIsBounded` | `Spec => []BacklogBound` |
| `ClosedPoolIsFinal` | `Spec => ClosedIsFinal` |
| `DestructorDrains` | `Spec => []DrainedWhenGone` |
| `IdleThreadsWake` | `Spec => []IdleThreadsAreWoken` |
| `PoolImplementsQueue` | `Spec => Abstract!QueueSafety` |

The types need `WorkersAccepted`, that a thread exists only for a task that was
accepted: otherwise `ExecuteSpawn` might reuse a thread's name and disturb `fun`.
`QueuedTaskHasThread` is not inductive: it says nothing of where a live thread
is.  `KeptInv` adds `WorkersKept`: a thread that has not exited is in the vector,
because housekeeping only drops a suffix of exited ones.  With it, a thread that
ends while a task is queued is impossible, because it tested the queue in the
same critical section.  `NoLostWakeup` and `BacklogBound` are then inductive
relative to `KeptInv`.  `DrainedWhenGone` rests on `TasksInOrder` and on
`StartedAccounted`, that what was started is what is done and what the workers
hold: a queue that is empty and workers that have exited leave nothing.
`FirstInFirstOut` and `ClosedPoolIsFinal` are not properties of the run, where
`ImplementsQueue` says as much.

The last two count.  `IdleThreadsAreWoken` is inductive once the sets
it counts are known to be finite: workers because they are in the vector, clients
because they come one at a time.  For the refinement `RefinementInv` adds that no
task is accepted twice and that no two workers hold one, so that a task's end
takes exactly it out of the abstract `running`; that fewer than `MaxThreads` tasks
run when one is taken follows from the vector's bound, the taker being in it.

`SessionLifecycleProofs`, from `SessionAssumption` (careful sessions are sessions,
keysets have schemas, `None` is no keyset or upload, the program is no session):

| Theorem | Statement |
| --- | --- |
| `TypeCorrect` | `Spec => []TypeOK` |
| `CryptosMatch` | `Spec => []CryptoMatchesServer` |
| `BorrowedCryptosLive` | `Spec => []BorrowedCryptoLives` |
| `PoolOutlives` | `Spec => []PoolOutlivesUsers` |
| `KeysGoFirst` | `Spec => []KeyGoesFirst` |

None of the last four is inductive: each speaks of cryptos, servers or the pool
where the reason lies with another part.  `IInv` names the reasons: a task is in one
place of the queue at a time (`QueueInv`), the pool is open exactly while somebody
holds the Context (`Handles`), every task the pool knows is some upload
(`UploadsKnown`), all that a live session has, its cryptos, its uploads and its
keys at the server, is of the keysets of its keyring (`KeysAgree`), and a careful
session lives as long as the pool has its uploads (`CarefulStay`).  There is one
lemma per action.

`KeyGoesFirst` speaks of tasks that began, the reason lies with those that wait.
On top of `IInv`, `KeysInOrder` says that for every keyset in a live keyring some
task of the pool uploads its key (`KeysSent`), and that every frame's key is known
to the pool and either began or is queued before the frame (`FramesFollow`).
Queueing at the end and starting from the beginning keep that order
(`SubmitOrder`, `StartOrder`), and what has begun then had its key begin.

`RemoteProofs`, of `RemoteExecutor`, from `ExecutorAssumption` (`Absent` is no job
or status):

| Theorem | Statement |
| --- | --- |
| `ExecutorTypeCorrect` | `ExecutorSpec => []ExecutorTypeOK` |
| `JobsNeverAhead` | `ExecutorSpec => []NeverAhead` |
| `ListingsAreAnswers` | `ExecutorSpec => []ListingIsComplete` |
| `StatusesNeverGoBack` | `ExecutorSpec => NeverBack` |

`NeverBack` is about two answers, the one a status came from and a later one.
The inductive invariant `ExecutorIInv` therefore relates three things: `jobs_` is
at or behind the answer in use (`SyncKept`), the answer is at or behind the server
(`AnswerHeld`), and what has been taken out of `todo` is as the answer says.  A
status being set is then never behind the one it replaces.  The server's part is
one lemma, `RemoteOnlyMovesUp`, that no step takes a job back at the server.

`RemoteProofs`, of `RemoteStorage`, from `StorageAssumption` (`Nil` is no frame,
automatic names are distinct):

| Theorem | Statement |
| --- | --- |
| `TypeCorrect` | `Spec => []TypeOK` |
| `DeadFramesAreGone` | `Spec => []DeadMeansGone` |
| `AutomaticNamesStay` | `Spec => []AutoNamedStays` |
| `NamesAreFinal` | `Spec => BindingsAreFinal` |
| `SyncIsTrue` | `Spec => SyncShowsAnswer` |

`IInv` adds three facts about the call in progress: a cached frame that the
answer in use lacks is not at the server (a frame is listed at most once in its
life, and only an import caches it while no answer is in use), a dead entry's
frame is not in the answer, and the name an automatic import is about to use is
free.

`UploadProofs`, from `UploadAssumption` (frames are uploads, every upload has a
size and a key's is not 0, blocks and threads are positive, the bar has a width):

| Theorem | Statement |
| --- | --- |
| `TypeCorrect` | `Spec => []TypeOK` |
| `PrefixHeld` | `Spec => []ServerHoldsPrefix` |
| `OutcomeSeen` | `Spec => []ServerSeesOutcome` |
| `BarIsHonest` | `Spec => []ProgressIsHonest` |
| `BarKeepsGoing` | `Spec => BarNeverGoesBack` |

`IInv` has a part for the pool, one for each upload and one for the watcher.  The
pool has each upload in one place (`QueueInv`), and the future says in which
(`FutureFollowsTask`).  What was taken of an upload is whole blocks unless it is
all of it (`Counting`), without which the block after it would not be where
`Arrival`, which turns each block around, has its rows: that is `BlockIsPiece`,
whose arithmetic is division.  `InHand` relates the two counters: a frame's steps
are ahead of what was written by the block in hand, a key's behind it.  `Streaming` says what `ServerHoldsPrefix` leaves
open, where the messages under way belong: each is the piece of the upload
between two cuts, the first of which is where the server is and the last where
the task is (`Pieces`).  Delivering the first or appending one more keeps that,
and the server's prefix with it.

The watcher reads two counters at two moments.  What it has read is not ahead of
what is there, and equal to it when the future was ready before the reading began
(`ReadingBehind`); the bar shows a step the upload has passed and the next
drawing does not fall behind (`BarShows`).  That a bar drawn later shows no less
is then monotony of the two divisions (`ShareGrows`, `DrawnGrows`), and that it
is full when the upload is ready needs `Completed`.

`CsvImportProofs`, from `ImportAssumption` (at least one column, every column has
a width, every line a cell, comma, newline and the empty cell are three things
and none is a number):

| Theorem | Statement |
| --- | --- |
| `TypeCorrect` | `Spec => []TypeOK` |
| `RowsAreRight` | `Spec => []RowsAreLines` |
| `CompleteIsWhole` | `Spec => []CompleteImportIsWhole` |
| `GoodTextsAreSafe` | `Spec => []GoodTextsNeverFault` |

The properties compare rows with a table, the reader sees a text.  `IInv` says
what joins them: there is a `Layout`, a place in the text for the end of every
line, and the stream stands at the place of the lines taken (`Placed`).  Rows
are then counted by lines (`Progress`), and the text is at its end only when
every line was taken (`StreamEnds`).  The rest is lemmas without state, and they
are most of the module: every text a table is written as has such a layout
(`TextIsLaidOut`), its newlines are at the ends of lines and nowhere else
(`NewlinesAre`), so that `getline` ends where the line does (`EndOfLine`,
`LineIsRead`) and `row_count` finds as many lines as there are
(`LinesAreCounted`); the values between the commas of a line are its cells that
are not empty (`WithoutConcat`, `WrittenIs`); and the bits a column stores give
the value back, for every width, signed or not (`BitsAreTheValue`).

`IrTranspilerProofs`, from `TranspilerAssumption` (fields have positive widths):

| Theorem | Statement |
| --- | --- |
| `TypeCorrect` | `Spec => []TypeOK` |
| `GraphComputesProgram` | `InputsInPlace` implies `Spec => []NodesComputeStatements` |
| `CircuitComputesProgram` | `InputsInPlace`, `OutputsInPlace` imply `Spec => []CircuitComputesSource` |

`IInv` keeps what each statement left behind: `StatementDone` of an id says what
its map and its node hold, `ReturnDone` which output nodes there are and where
their edges come from.  A step changes none of what is there (`Keeps`) and adds
its own.  That the node of a statement computes the statement is induction over
ids: operands have smaller ones (`NodeComputes`, `NodesCompute`), and `Meaning`
and `Computed` are recursive functions that read only those (`MeaningIs`,
`ComputedIs`).

The two hypotheses are about the constants, and they are finding 4 turned round:
the transpiler takes element i of a tuple for field i of the header, which it is
when the compiler does not reverse tuples or the struct has one field, and it
counts a result's fields down, which is right when the compiler reverses or there
is one field.  The run `ir_transpiler` has an instance in which both hold (tuples
reversed, parameters of one field, two results), `ir_transpiler_fields` one in
which `InputsInPlace` does not and the circuit is wrong.  No hypothesis is needed
for `TypeCorrect`.

`CompilerProofs`, from `CompilerAssumption` (what clang tells of a line of a
source and of a type, and the kinds of operand the compiler writes: a tuple's name
and an index, three numbers of a slice, one of a literal, any number of the others):

| Theorem | Statement |
| --- | --- |
| `TypeCorrect` | `Spec => []TypeOK` |
| `WholeRunsAreSafe` | `Spec => []WholeRunsNeverFault` |
| `ParsedAsWritten` | `Spec => []ParsedIsWritten` |
| `HeaderMatchesMetadata` | `Spec => []MetadataMatchesHeader` |

TLC parses a few functions of at most two statements; the theorems are about every
source the analyzer accepts, with any number of parameters and fields, and every
function the tools may write for it.  `IInv` says where the parser is in the text:
`Placed` has a line k at which the function of the metadata stands (`InText`, for as
much of the text as there is), the search is before its ends (`Searched`), and what
was read so far is its header and its first statements (`Read`).  `SameFunction` adds
that the analyzer and the compiler mean one function, `Unread` that nothing is read
before the last tool wrote.

That a step keeps `Placed` is a few lines; that the parser reads what was written is
the module.  It has four layers.

* Tokens: in a list that is written with commas (`Listed`), each item stands at its
  place (`ListedIs`, `ListedItem`), and `find` from a place finds the first mark behind
  it (`FoundAt`, `FoundNowhere`).
* A header: `parse_function_header` is a machine over the tokens, one step each
  (`StepColon` to `StepEnd`); it stays as it is inside a parameter's type and adds its
  widths behind it (`ParamIsRead`), so by induction over the parameters
  (`ParamsAreRead`) it ends with all of them (`HeaderIsParsed`).
* A statement: the marks are where the writer put them and nowhere before (`LineIsRead`,
  `ThreesLack`), so each of the argument parsers returns the operands and the id
  (`OperandsAreRead`), the operation is found by its name and no other operation's
  (`StatementIsParsed`).
* A file: in a package the first line that starts a function starts the top one
  (`FunctionInPackage`), every line before its end is one of its statements, and a file
  that was cut holds a first part of it (`FunctionInPart`).

`DataLemmas` holds what these share.  The library's induction theorems take an
operator as parameter, which the provers cannot instantiate; `SetInduction` is
derived from well-founded induction for a *set* of numbers instead, and what is
to be shown of every n becomes membership in one.  `Recursion` is the same for
the functions that a recursion over numbers defines.  With these, what the folds of
the models compute is proved for every length: `FlattenSeqIs` and
`FlattenSeqParts` of joined sequences, `WithoutIs` of filtered ones, `PowerIs`
of powers of two.  `DivIs` and its companions stand where a solver would have to
do non-linear arithmetic.

Left to TLC: the liveness properties and the fairness half of `ImplementsQueue`
(fairness and `ENABLED` are out of the prover's reach), and the four properties
that are violated.  Every other property of a run is a theorem.  No module uses
RECURSIVE operators, with which the prover cannot work.

## Findings

1. **A join through a null pointer** (`threadpool_housekeeping`).
   `housekeeping()` (`src/src/utils/thread_pool.cpp:26-38`) calls `remove_if`
   and then `join()` on what lies behind its result.  When an ended thread
   precedes a live one in the vector, the live one's `unique_ptr` is moved down
   and a null is left, which is dereferenced.  Two threads, a timeout of the
   first while the second runs, and one more `execute()` show it.
2. **Ready does not mean uploaded** (`upload_ready`).  The examples print
   `DataFrame uploaded` when the future is ready.  Both loops drop the results
   of `Write` and `Finish`, so a broken stream ends in a ready value.
3. **A frame of the server that is not listed** (`remote_storage_lists`).
   `sync_cache()` never removes an entry, so a frame that takes the name of one
   that is gone is never shown, although the example prints the list as the
   available frames after synchronising.

4. **Fields of a parameter are swapped** (`ir_transpiler_fields`).  The compiler's
   tuples have the last field first: the tests show a program
   (`src/test/translator/xlscc/translator_test.cpp:23`) and its IR
   (`ir_parser_test.cpp:368-370`).  `visit_return` undoes that for the output;
   `visit_tuple_index` and the header check do not for the inputs.  With fields of
   one width the circuit computes with the wrong ones; with others the check
   throws an internal error.  The repository's examples and tests have parameters
   of one field only.

## What is left out

### Not modelled

* `RemoteBackend`'s pass-through methods: no state but the pool and connection.
* Certificates, channel options and the token's value in the connection's set-up.
* BinFHE and OpenFHE: encryption is a step that may fail.
* The front end of clang: what the analyzer asks of it is in `Compiler`.
* Paths, the names of temporary files and the search of the tools: pure I/O.
* `Pimpl`, `MovableFunction`: ownership without control of its own.
* Moving a `Session` or a `Context`: a moved-from session is not used.
* Integer widths of the sizes sent to the server (32 bits): they matter for
  frames of 2^32 rows only, and for what the server makes of them; listed as a
  hazard.
* Two uploads from one stream, and a caller that uses a stream before the future
  is ready: data races, to which the code gives no meaning.

## Plan

What is left, in order of what would matter most:

1. `Compiler` and `IrTranspiler` composed, so that the circuit is compared with
   the text; each is checked and proved on its own today, the statements being the
   interface.
2. The characters of a line of IR: names with dots or marks in them, numbers
   beyond their types.
