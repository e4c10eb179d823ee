# A TLA+ verification of toad

toad is a SOCKS5 server on C++20 coroutines and io_uring. This directory holds
TLA+ models of its concurrent core, of the server and of the network interface beside
it, the TLC configurations that check them on small instances, and TLAPS proofs of what
matters most for every instance.
Paths below are relative to the repository (`src/` of `PROJECT.json`).

## The system and its parts

| Part | Source | State | Operations | Who calls them | Model |
|---|---|---|---|---|---|
| Executor | `include/concurrency/executor.hpp` | task queue, mutex, condition variable, `is_done` | `spawn`, `worker_thread`, `suspend()`, destructor | main thread, coroutine bodies on workers, event loop | `Executor`, `TaskPool` |
| Task | `include/concurrency/task.hpp` | coroutine frame, owning handle, promise with correlation ids and a `Notify` | create, resume, `done`, `leak`, destroy, final suspend | executor, JoinSet | `Executor`, `JoinSet` |
| Notify | `include/concurrency/notify.hpp` | `fired_`, lock-free list `head_` of `Awaiter`s | `co_await`, `notify_all`, `wait_blocking` | coroutines, final suspend, tests | `Notify`, `WaitList` |
| Future | `include/concurrency/future.hpp` | shared state: value, `is_ready`, continuation, mutex | `co_await`, drop, `set_value` | coroutine, event loop | `Future`, `OneShot` |
| JoinSet | `include/concurrency/join.hpp` | `awaiting_`, `notify`, `cv_` | `spawn`, `co_await`, `wait_blocking`, destructor | a parent coroutine | `JoinSet` |
| IOContext | `include/concurrency/iocontext.hpp`, `pending.hpp` | the io_uring, one `PendingVariant` per operation | `submit_*`, `_handle_pending`, `event_loop` | workers submit, main loops | `IOContext`, `Flight` |
| SOCKS5 server | `include/socks5/server.hpp` | per-connection buffer and sockets | handshake, two forwarding loops | executor | `Socks5` |
| `main()` | `src/main.cpp` | an Executor, then an IOContext | wiring, event loop, destruction in reverse order | | `Runtime` |
| Byte streams, Buffer | `include/bytes/` | cursor, limits, sticky error | reads and writes | SOCKS5, packets | `ByteStream`, reads also in `Socks5` |
| Checksum, packets | `include/nic/` | header fields, accumulator | encode, decode, sum, respond | nothing in `main()` | `Packets`, `Nic` |
| TAP device | `include/nic/device.hpp` | descriptor, MTU, own address | `try_new`, `read_next_eth`, `write_eth` | nothing in `main()` | `Nic` |
| Socket, Listener | `include/net/` | owned descriptor | move, close | SOCKS5, IOContext | close in `Socks5` |
| Ring, prng, defs, scripts | `include/concurrency/ring.hpp`, `include/prng.hpp`, `include/defs.hpp`, `scripts/` | | queue, aliases, drivers, a prototype | | see "Not modelled" |

How they interact: a coroutine runs on a worker until it awaits a `Future` or a
`Notify`, which keeps its handle; the worker then gives the handle up
(`Task::leak`). The event loop completes an operation, calls `set_value`, and
that calls `spawn` with the handle, so a worker picks the coroutine up again.
A `JoinSet` chains two Notifies: the one in each child's promise, fired by the
final suspend, and its own.

## Modules

**`Executor`**. Threads are `Workers` and `Main`, the constructing thread, which
also runs the event loop and the destructor. A critical section of `_mutex` is
one action (`Enqueue` in `spawn`; `Sleep`, `Exit`, `Pop` in `worker_thread`);
what happens outside it is an action of its own: `NotifyOne`, `Resume`, the end
of a resume (`Park`, `Reschedule`, `Finish`), the later reads of `done()`
(`Leak`, `Own`) and `~Task()` (`Destroy`). The sleepers in the condition variable
are the workers at `"wait"`; spurious wakeups happen. `parked` holds the
handles kept by some awaitable, whatever its kind. `Coros` are the addresses of frames:
a freed one may be allocated to a new coroutine (`SpawnNew`, at most `MaxReuses` times),
while a worker still holds the old handle. `done()` of a freed frame
returns anything (`DoneReads`). A `~Task()` on a frame that is not at its final suspend
point, because it was freed or belongs to a new coroutine by then, ends the behaviour
with the `outcome` `"bad_destroy"`. The early return of `spawn` for a finished
coroutine is not an action because `OneHandle` shows it is never taken, and
neither is the `continue` of the worker loop, which the wait's predicate rules
out.

**`TaskPool`**. What the executor promises: each coroutine is new, ready, active,
asleep or done, at most as many are active as there are workers, and a ready one
is started; the place of a finished one may go to a new one. `Executor!ImplementsPool` is `TaskPool`'s specification under the
mapping `PoolState`.

**`WaitList`**, **`OneShot`**, **`Flight`**. The same for the other parts. `WaitList`: the
list of a Notify is a set to which a coroutine is added, and from which a `notify_all`
takes everything, in one step each (`Notify!ImplementsWaitList`). `OneShot`: a future is
awaited, then set, then taken, once each, or dropped (`Future!ImplementsOneShot`).
`Flight`: an operation is entered, given to the kernel with all that were entered,
completed and handled (`IOContext!ImplementsFlight`, as long as no accesses to the ring
overlap; it also says that a future is answered only in the step that handles its
operation).

**`Notify`**. Each atomic access of `push_awaiter_` and `notify_all` is an action.
An `Awaiter` lives in the coroutine's frame, so once the coroutine has gone past
its `co_await` a read of its `next` field may yield a wild pointer (`NextReads`);
the notifier is then `"wild"` and its later behaviour is not modelled.

**`Future`**. One shared state, a consumer that awaits it or drops it, and any
number of producers with a copy of the handle. `set_value` is taken apart because
`await_ready` and `await_resume` read the state without the mutex; `owners` are
the `shared_ptr`s, and the last one to go runs `~FutureState`.

**`JoinSet`**. A parent, and a proc and a child per spawn. Awaiting an event is two
steps, the test and the push, because `Notify` shows that the gap matters;
`notify_all` is one step. A step that touches a dead object (the child's
promise, the lambda's closure, the JoinSet itself) either goes on with the old
memory or ends the run with that `outcome`, and so does a failed `ASSERT`.
`AwaitProofs` extends both `Future` and `JoinSet`, which share no state, so the names that
would be in both begin with `Join` here (`JoinInit`, `JoinNext`, `JoinSpec`).

**`IOContext`**. Operations go through `submit_*` (three steps: read the ring's
tail, store it, write the entry), the kernel, and the event loop (`Submit`,
`Wait`, `Peek`, `Seen`, `Handle`; `WaitFails` ends it). liburing and the kernel are modelled
from their use: a submission queue with an ordinary, unsynchronised tail, and a
completion queue whose slots may be reused once marked as seen. `raced` records
that two accesses overlapped; a `fault` ends the run. Positions do not wrap at
2^32; slots are positions modulo the queue's size. The `Answer` of a completion
is what `_handle_pending` passes to `set_value`.

**`Socks5`**, with the clients' byte streams in `MCSocks5`. One connection; others
share nothing with it. `pc` is the `co_await` at which `handle_client_handshake`
waits; an action is a read's completion and the code up to the next `co_await`
(`Greeting`, `Methods`, `Request`, `Address`, `Port`, `Connect`, and `Forward` for a
round of `forward_connection_data_`). A read returns any number of the bytes that
are there, or an error, which takes bytes off the vector and passes the length
checks because its result is unsigned (`Cut`), or ends the process when there are
not that many (`ResizeThrows`). After a reset, or when the operation completes before its
future is awaited, the coroutine is not resumed and stays `"suspended"`, which may also
happen to the accept (`HandshakeLost`). `ByteIStream` is its cursor: a read past the end leaves the
output, an uninitialised variable, as it was (`Bytes`, `Garbage`). `inflight` holds the
writes the kernel has not carried out, which it does in any order (`Written`); how much
of one it wrote, nobody looks at.

**`Runtime`**. The composition `main()` makes: coroutines on a `TaskPool` (what `Executor`
is shown to implement) submit operations, await a future of their own for each, and
the main thread submits, handles completions and wakes. `st` is the pool's state and
changes only by the pool's actions. `Submit`, `await_ready`, `await_suspend`,
`await_resume` are the body's steps, so that a completion may fall between any two;
`Handle` is `_handle_pending` with `set_value`, `HandleReset` the early return for a
reset, `HandleThrows` a failed read whose `resize` throws. When the wait fails (`LeaveLoop`) `main()` returns: the IOContext, declared
last, is destroyed first, and `Join` is `~Executor`. The ring's own hazards are left to
`IOContext`: here it is used without overlap. A submission after `io_uring_queue_exit()`
reads unmapped memory and ends the behaviour (`SubmitDead`, `outcome` `"dead_ring"`), as
a throwing `resize` does (`"bad_resize"`). `Stage` and `Phase` say how far an operation and its future have
come; `ImplementsParts` is that they do what `Flight` and `OneShot` allow, and that a
future is set only in the step that handles its operation.

**`ByteStream`**, **`Packets`**, **`Nic`**, with the requests in `MCNic`. `ByteStream` has the
reads and writes as operators on a buffer, a cursor and `errc`: a field that does not
fit sets `errc`, changes nothing else, and does not stop the next one. `Packets` has
each format as a record and as the list of fields `try_to_stream` writes, the sizes,
one turn of the checksum's loop, and the answers. `Nic` is the machine: `try_new` with
every system call that can end it (`OpenTun` to `GetMtu`), an answer built layer by
layer with a step for each field (`WriteField`) and each word of a checksum
(`AddWord`), `write_eth`, whose `write` the device may refuse (`WireWritten`), and `try_from_stream` field by field on what a receiver got
of the frame. `total`, the plain sum, and `asked`, what a stream was given, are history
variables. No part of the program calls this code yet; `EchoAnswer` and `ArpAnswer`
call its functions in the only order their types allow.

**`ExecutorProofs`, `NotifyProofs`, `AwaitProofs` (Future and JoinSet), `IOContextProofs`,
`RuntimeProofs`, `NicProofs`, `ChecksumProofs`, `Socks5Proofs`**. The theorems, below.

## Runs

Passing runs, one per component, check safety and liveness together under the
fair specification.

| Run | Instance | Shows | States |
|---|---|---|---|
| `executor` | 3 workers, 2 coroutines, 1 suspension each, 1 freed address used again | `OneHandle`, `WorkConserving`, `DrainedAtJoin`, `FinishedIsOwned`, `QueuedIsPopped`, `ShutdownCompletes`, `ImplementsPool` | 93,374 |
| `notify` | 3 awaiters, 2 notifiers | `ListsPartition`, `SpawnedOnce`, `EarlyAwaiterResumes` | 92,113 |
| `future` | 1 consumer, 3 producers | `MutexOutlived`, `ReadsConstructed`, `SpawnedSuspended`, `SetAfterAwaitResumes` | 1,104 |
| `joinset` | 3 children | `DestroyedAfterAll`, `SomeProcFires`, `JoinReturns` | 87,965 |
| `iocontext` | 3 operations, queues of 2 | `OnePlace`, `PendingAlive`, `ImplementsFlight`, `SubmittedIsHandled` | 108,267 |
| `runtime` | 3 coroutines, 2 workers, 2 operations each | `OwnResults`, `Radioactive`, `AsleepAwaits`, `AwaitedReturns`, `MainReturns` | 143,624 |
| `nic` | 59 requests, 2 MTUs, 7 lengths for a decoder | `StreamExact`, `SumCongruent`, `EchoAccepted`, `BitFieldsSurvive`, `FrameWholeOrBare`, `AnswersSender`, `ArpReadBack`, `FdsAccounted`, `AnswerSent` | 82,332 |
| `socks5` | 10 client streams, read in any pieces | `ConnectsAsAsked`, `OnlyTrusted`, `HandedOver`, `HandshakeEnds` | 21,384 |

Socks5 also checks its `TypeOK`, which is proved as well; that of the other modules is only
proved, for every instance. `ImplementsWaitList`, `ImplementsOneShot` and `ImplementsParts`
are theorems; TLC agrees with them on the instances above, but no run is kept for
that. Three liveness properties name what stops them. `JoinReturns` holds for either way of
joining unless the parent or a proc misses a wakeup (`Missed`, `Stranded`), an `ASSERT`
fails or a dead object is used; `HandshakeEnds` holds as long as no future of the
handshake is lost. `MainReturns` holds unless a coroutine submits to the freed ring.
Each property has a mutant of the code
(an operator next to the one it replaces, marked "Mutant") that breaks it.

Violated claims: what a comment, a document or a test says, against what the
code does.

| Run | Claim | What happens |
|---|---|---|
| `executor_destroy` | `executor.hpp:100`, a finished coroutine is simply owned and destroyed | a coroutine on worker A is rescheduled; B resumes and finishes it before A reads `done()`; both see it done and both destroy it, the second time freed memory or the coroutine allocated there since |
| `notify_lost` | `tests/tasks.hpp:24`, `NotifyAllUnblocksWorkers` | the awaiter tests `fired_`, the notifier fires and takes the empty list, the awaiter pushes and sleeps for ever |
| `future_lost` | `concurrency.md:41`, each operation is resolved | the value arrives before `await_suspend` has stored the continuation and is thrown away |
| `iocontext_datarace` | `iocontext.hpp:230`, there is no data race | two workers read one tail and get one entry |

### Further deviations seen in the models

These were met while modelling, reached by TLC with the formula given as an
invariant, and are not kept as runs.

- `tests/tasks.hpp:40`: `wait_blocking()` returns when `fired_` is set, before the
  awaiters have been spawned (`Notify`: `returned => \A a : apc[a] = "past"` fails).
- `notify.hpp:43`: `current->next` is read after its coroutine was spawned
  (`Notify`: a notifier reaches `"wild"`, and the awaiters behind are lost).
- `join.hpp:23`: the first child ends before the second is spawned, and `spawn`
  aborts (`JoinSet`: `outcome = "spawn assert"` is reachable).
- `join.hpp:52`, "JoinSet did not await all coroutines": the event fires between the
  `ASSERT` and the count of a second `spawn`; the join returns at once and the destructor
  aborts (`outcome = "destructor assert"` is reachable).
- `join.hpp:34`: the last proc uses `cv_` of a JoinSet the parent has destroyed
  (`outcome = "dead join set"` is reachable).
- `join.hpp:30`: a proc pushes itself onto its child's event after it has fired, or
  reads the promise of a destroyed child, or the closure of the lambda that is gone
  (`Stranded`, `outcome = "dead promise"` and `"dead closure"` are reachable).
- `join.hpp:43`: the signal of `cv_` falls between the predicate and the sleep, or
  `notify_all` between the parent's test and its push (`Missed` is reachable).
- `iocontext.hpp:237`: an entry is submitted before its `user_data` is written
  (`IOContext`: `fault = "dead pending"` is reachable with one operation).
- `iocontext.hpp:76`: a full queue gives a null entry (`fault = "null sqe"`);
  `concurrency.md:47` says a batch is submitted when N requests have piled up.
- `iocontext.hpp:263`: a completion is marked as seen before it is read, and the
  kernel may reuse its slot (`cqTail > Head(batch) + CQSize` at `"handle"`).
- `iocontext.hpp:184`: a failed read into a `Buffer` yields one of wrapped size
  (`answer = "wrapped"`).
- `iocontext.hpp:197`: a read that ends in `-ECONNRESET` returns without `set_value`,
  against `concurrency.md:41` (`pending[o] = "deleted"` with `answer[o] = "none"`).
- `future.hpp:29`: the test in `~FutureState` is inverted, so exactly a value never
  set is destroyed, against the comment at line 16 (`misdestroyed` is reachable).
- `server.hpp:96`: a domain name is "not supported yet", but the server goes on and
  connects to the default address (`Socks5`: `target.addr = Garbage` at the relay).
- `server.hpp:106`: a port that arrives in two pieces is never read, and the server
  connects to an uninitialised one (`target.port = Garbage` at the relay).
- `server.hpp:138`: neither forwarding loop ends, also when both peers have closed, so
  "Transmission over!" is not reached; `Socks5` has no step out of the relay.
- `server.hpp:155`: a forwarding loop appends every read to one vector and sends all of
  it, so the second round repeats the first; `path-of-a-packet.md:46` shows the remote
  receiving the client's data (`Socks5`: two writes in `inflight["remote"]` begin with the
  same byte; `HandedOver` says that it is the first one behind the request).
- `main.cpp:20`: the IOContext is destroyed while workers still run coroutines that
  submit to its ring (`Runtime`: `outcome = "dead_ring"` is reachable).
- `device.hpp:138`: the buffer of a frame has MTU bytes, where `read_next_eth` adds 14 for
  the header; a payload of more than MTU - 14 bytes leaves as a header alone (`Nic`:
  `wire # <<>> => Whole` fails; `FrameWholeOrBare` says what does hold).
- `device.hpp:97`: when `SIOCGIFMTU` fails the descriptor of `/dev/net/tun` is not closed
  (`pc = "none" => fds = {}` fails).
- `ethernet.hpp:67`, `mac.hpp:22`: with no hardware address the frame's source is an
  uninitialised value (`SubSeq(wire, 7, 12) = HwAddr` fails).
- `bytestream.hpp:88`: `read_buffer` asserts false, so decoding anything but ARP aborts,
  `read_next_eth` included (`FinishDecode`).
- `ipv4.hpp:136`, `ipv4.hpp:124`: the header's checksum is summed over the payload too, and
  `total_length` is the request's. Neither does harm for an echo, whose message sums to
  0 modulo 65535 and is as long as the request; `EchoAccepted` shows it, and says
  nothing of other payloads.

## Bounds

- Executor: 3 workers and 2 coroutines. Two sleepers and a third thread that
  notifies is what a misdirected wakeup needs; two coroutines make a queue of
  length 2 and a spawn by a spawned one. `MaxSuspends` bounds how often a
  coroutine suspends, since every suspension is like the first, and `MaxReuses` how
  often an address is allocated again: one new coroutine under an old handle is
  what a late `~Task()` needs. The safety
  properties are proved for all sizes.
- Notify: 3 awaiters make a list with a middle; 2 notifiers make two walks and a
  second exchange. Each notifies once; a third adds no new overlap of two.
- Future: producers only meet through the mutex and `is_ready`; 3 include one that
  fails, one that succeeds and one that is late. Safety is proved for all sizes.
- JoinSet: 3 children make a count that reaches 0 and rises again.
- IOContext: three operations on queues of two entries: the submission queue fills,
  the completion queue fills and its slots are reused, and batches of two occur.
  By default the completion queue is twice `batch_size`; the run takes it smaller,
  so that three operations fill it as 129 would with the default of 64.
- Runtime: three coroutines on two workers make one wait for a worker; two operations
  each make a result that could be taken for the other's (`MaxOps`). Safety is proved
  for all sizes.
- Nic: bytes at 0, 1 and 255, payloads of even and odd length, one that fills the
  smaller MTU of 68 exactly and one that is a byte longer; all-ones words make every
  addition carry. Field widths are the real ones. All safety properties are proved for
  packets of any length.
- Socks5: ten streams, one for each way the handshake can go. The first has data the
  client did not wait to send, which an over-long read would swallow. One has three
  methods, so that a failing read can cut the vector below the cursor without
  throwing. Two rounds of the client's forwarding loop (`MaxRounds`) show a read
  after a write; one of the remote's, whose loop is the same code. `Errnos` is
  `{5}` and `Bytes`, what an uninitialised byte holds, the two values that let a cut
  request go on.

## Fairness

- Executor: weak fairness of each worker and of `NotifyOne`, `NotifyAll` and `Join`
  on Main: the operating system runs every thread. A coroutine body reaches its
  next suspension. Main is not required to spawn, to wake or to shut down, and
  spurious wakeups are not required to happen.
- Notify: weak fairness of each coroutine and notifier, and strong fairness of a
  successful `compare_exchange_weak`, whose spurious failures do not go on for ever.
- Future: weak fairness of both sides, and strong fairness where `std::mutex` is
  taken. `set_value` is called: the operation completes.
- JoinSet: weak fairness of the parent (but not of spurious wakeups), of procs and
  of children, which are assumed to end.
- IOContext: weak fairness of the event loop. The kernel is not assumed to complete
  anything, as peers need not answer; `SubmittedIsHandled` speaks of what it did
  complete.
- Runtime: weak fairness of the main thread and of each coroutine on its worker. No
  operation is made to complete, nothing has to fail, nobody has to spawn.
- Nic: weak fairness of the loops over fields and words (`Working`), a single thread
  that runs. No system call is made to succeed.
- Socks5: weak fairness of the handshake's steps without failing reads, from the
  executor and the event loop; no client is made to send or to close.

Deadlock checking is off in Notify, Future, JoinSet, IOContext, Runtime, Nic and Socks5,
which end when their operations are over or a bound is reached; in Executor it is on,
with `Terminated` after the join.

## Proofs

TLAPS checks, for every finite set of workers, every set of coroutines and every
bound on suspensions and reuses:

- `TypeCorrect`: `Spec => []TypeOK`, from `TypeInv`, which adds that a worker past
  `Pop` holds a coroutine (`HoldsTask`).
- `OneHandleHolds`: `Spec => []OneHandle`. `OneHandle` says in one invariant where a
  handle is, that positions in the queue are distinct and what state the frame is
  in. Given the types it is inductive, because a late `~Task()` on another coroutine
  ends the behaviour; up to there it is true also of reused addresses.
- `FinishedIsOwnedHolds`: `Spec => []FinishedIsOwned`, inductive given the types. A
  coroutine finishes on a worker that then reads `done()` of it, cannot read false
  while the frame is there, and goes on to destroy it. That other workers may do the same
  is why `DestroyedOnce` fails; that none would is what this excludes.
- `WorkConservingHolds`: `Spec => []WorkConserving`. It is inductive given the types:
  a push adds a notifier, a notify turns a notifier into a thread about to look at
  the queue, a pop removes one of each, and a worker goes to sleep only on an empty
  queue. The steps are bookkeeping of cardinalities.
- `DrainedAtJoinHolds`: from `Accounted` (every unfinished coroutine is queued, held
  or parked) and `ShutdownInv` (a worker exits only after `is_done` is set, the queue
  is empty once all have exited, and the join returns only then).
- `ImplementsPoolSafety`: `Spec => PoolSafety`, `TaskPool`'s initial states
  and steps under the mapping `PoolState`. From the types, `OneHandle` and `Accounted`:
  only `SpawnNew`, `SpawnParked`, `Pop`, `Park`, `Reschedule`, `Finish` and `Destroy` move a
  coroutine in the pool, each as the action of the same meaning; every other step leaves
  the pool alone.

Future, for every set of producers: `FutureTypeCorrect`, `MutexOutlivedHolds`,
`ReadsConstructedHolds` and `SpawnedSuspendedHolds`, all from `FutureInv`: the types,
that a producer inside the critical section holds the mutex and a `shared_ptr`
(`Holds`), and how value, `is_ready`, continuation and the consumer's
position hang together at each of `set_value`'s steps (`HandOver`).

Notify, for all awaiters and notifiers: `NotifyTypeCorrect`, `SpawnedOnceHolds` and
`ListsPartitionHolds`. The invariant asserts that there are sets `H` (the Notify's list)
and `T[n]` (what notifier `n` has taken) that are disjoint, closed under `next`, hold only
suspended coroutines not yet spawned, and in which no entry has two predecessors; `head_`
and each notifier's `current` point at entries nobody points to. `SpawnCurrent` then takes
an entry of `T[n]` and removes it. For the partition it must also say that these sets hold
nothing else. A walk along `next` would need induction over data, so `Notify` defines a
list as the least set that holds its first entry and is closed under `next` (`List`), and
the invariant says that `H` and `T[n]` are least as well (`Spans`): a push puts one entry
in front of such a set and a walk takes the first one off, and both keep that true. TLC
confirmed the invariant on the run's instance.

The same sets give the refinement, `NotifyImplementsWaitList`. The invariant determines
them (`ListsAre`: `H` is what one reads along `next` from `head_`, `T[n]` what notifier `n`
has before it), so the lemma about each action says what it does to `H` and `T`: the
successful compare-and-exchange adds one coroutine to `H`, `head_.exchange` moves `H` to
`T[n]`, `spawn` takes one out of `T[n]`, and everything else, the failed attempts of
`push_awaiter_` included, changes neither. Only the read of `next` in a dead `Awaiter` may
lose a batch, and then the reader's own.

JoinSet, for all finite sets of children: `JoinSetTypeCorrect`, `DestroyedAfterAllHolds`,
`SomeProcFiresHolds`. The invariant says that `awaiting_` is the number of procs before
their `fetch_sub` (`Counting`), that a proc past its `co_await` has an ended child
(`Ended`), that no proc counts once the JoinSet is gone without an abort (`Closed`), and
that an empty count after a spawn means the event has fired or is about to (`Firing`).

IOContext, for all operations and sizes of the two queues: `IOContextTypeCorrect`,
`PendingAliveHolds`, `OnePlaceHolds`. At all times the batch is a run of posted
completions (`Batched`) and `user_data` is written last (`Written`). As long as no
accesses have overlapped and nothing has faulted (`Calm`), one `submit_*` is under way at
a time, the entries between `khead` and `sqe_tail` are of different live operations
(`Entered`), and what the kernel has consumed and nobody has handled is in the kernel or
in the completion queue, once, with the queue not lapping the completion in hand
(`Flying`). The arithmetic is one lemma: positions less than a queue's size apart have
different slots. TLC confirmed the invariant on the run's instance.

`IOContextImplementsFlight`: as long as the step ends without overlap and fault, each step
moves one operation one stage on, gives all entries to the kernel, or moves none. An
operation's stage is the place it is in, which `OnePlaceHolds` makes unique; the proof
reads it off the operation's own fields instead (`PlacesAre`, `Reached`), where one sees
what a step changes. An answer changes only in the step that handles its operation.

Runtime, for all coroutines, workers and numbers of operations: `RuntimeTypeCorrect`,
`OwnResultsHolds`, `RadioactiveHolds`, `AsleepAwaitsHolds`, from where a coroutine can be
relative to its operation and its future (`Placed`) and what it has been given (`Own`).
From the same invariant, `WakesOnlySleepers`: `set_value()` finds a continuation only of a
coroutine that is asleep.

### The parts and the whole

Runtime does not repeat the inside of its parts, and the proofs say why it need not. Each
part is shown to implement a small abstract specification, and Runtime is written with
those or shown to do no more than they allow:

| Part | promises | proved | used by Runtime |
|---|---|---|---|
| `Executor` | `TaskPool` | `ImplementsPoolSafety` | by construction: `st` changes only by the pool's actions |
| `IOContext` | `Flight` | `IOContextImplementsFlight`, without overlapping accesses | `RuntimeImplementsParts` |
| `Future` | `OneShot` | `FutureImplementsOneShot` | `RuntimeImplementsParts` |
| `Notify` | `WaitList` | `NotifyImplementsWaitList` | not used: `main()`'s coroutines await futures |

`RuntimeImplementsParts` also ties two of them together: a future is set only in the step in
which its operation goes from completed to handled. The condition in the second row is the
one `iocontext_datarace` shows to fail: the composition is right for a ring whose users do
not overlap. The tie is by the shared abstract specifications, not by a single
specification that contains all the detailed ones.

Nic, for all requests, MTUs and lengths: `NicTypeCorrect`, `StreamExactHolds`,
`SumCongruentHolds`, `FdsAccountedHolds`. The invariant joins the types of packets,
fields and streams (`Typed`), which packet is built at which step (`Layered`), the stream's
content against `asked` (`Filling`), the accumulator against `total` modulo 65535
(`Summing`) and the descriptors (`Opened`).

A second invariant, `WInv`, is about what those bytes mean: `FrameWholeOrBareHolds`,
`AnswersSenderHolds`, `BitFieldsSurviveHolds`, `ArpReadBackHolds`. `Starts` gives the place
of each field of a packet, and `Holds(b, p, m)` says that `b` is the first `m` fields of `p`,
each in its place. While a packet is written, `asked` holds the fields written so far
(`Writing`) and the buffer has room, except for the payload of a frame that exceeds the MTU
(`Room`); each packet answers the request, and a finished one is the payload of the next
(`Answering`, `Carries`); so the wire holds the frame or its header (`OnWire`), and the
decoder's fields are slices of it (`Reading`). One lemma, `Layout`, ties `Starts` to the
lengths of the fields, and one, `FieldAt`, cuts a field out of what holds it. The shared
bytes come apart again by arithmetic on the widths of the fields (`BitFieldsApart`,
`OffsetApart`). TLC confirmed the invariant on the run's instance.

`EchoAcceptedHolds`, in `ChecksumProofs`, says that a receiver accepts an echo answer of any
length. Its reference sum is a recursive function over bytes, so the facts about it need
induction; the prover takes no theorem with an operator parameter, but the
well-foundedness of `<` is a statement about sets, and `LeastNatural` and `Induction` get
it from there. On them rest that the sum exists and is unique (`SumIs`), that setting one
word changes it by that word (`SumPatched`), and that the sum of two strings, the first
of even length, is the sum of the sums (`SumJoined`). The invariant `SInv` adds to `WInv`
that a buffer to be summed has room for its packet (`Roomy`), that `total` is the sum of the
bytes passed, with the checksum's field zero (`Adding`), and which packets verify already
(`Checking`). The header of the Ip verifies although its loop sums the payload too: the
payload is an Icmp that verifies, so its sum is 0 modulo 65535.

Socks5, for all streams of bytes, cut into any pieces, and all errors a read can report:
`Socks5TypeCorrect`, `OnlyTrustedHolds`, `ConnectsAsAskedHolds`, `HandedOverHolds`. The
invariant has the types (`Typed`); for each place where the handshake waits, how much of
the stream is in the buffer, where the cursor is and what the client has to have sent to
get that far (`Stages`), in full only until a read fails; and that the relay's vector goes
on where the buffer ends (`Continues`). A second one, `Writes`, is about what waits to be
written: nothing until the client is trusted (`Answered`), and to the remote only what
begins behind the request (`Relayed`). `OnlyTrusted` holds even with failing reads:
before the two checks the vector is shorter than any error, so that resizing it throws
and ends the program.

The assumptions are the modules' `ASSUME`s: names are distinct; the workers and the
children are finite sets; requests have the fields' types and addresses their sizes; an
echo request's datagram holds its Icmp message and nothing more; an MTU
leaves room for an Ethernet header (Linux accepts none below 68 for a TAP device); streams
are of bytes; and a failing read reports no error below `EINTR`, 4.

Only model-checked: the liveness properties (`QueuedIsPopped`, `ShutdownCompletes`,
`EarlyAwaiterResumes`, `SetAfterAwaitResumes`, `JoinReturns`, `SubmittedIsHandled`,
`HandshakeEnds`, `AnswerSent`, `AwaitedReturns`, `MainReturns`) and the fairness part of
`ImplementsPool`: the prover does not reason about `ENABLED` and fairness. Every other
property of a passing run has a theorem.

## Not modelled, and why

- `unhandled_exception` terminates the process; bodies do not throw in the models.
- `new_listener`: a sequence of system calls at start-up. The ioctls of `try_new` that
  only log a failure are left out of `Nic`; `~Device` does nothing.
- `Ring`: nothing uses it, and each operation is one critical section on a deque.
- `read_vector`, `write_vector` and `checksum::operator+` have no caller; `Buffer`'s
  `slice` only shortens what a read answers with.
- `scripts/prototype/`, the Lilypad prototype: it registers no message handler and its
  `main()` sends nothing, so there is no protocol to model yet.
- The descriptor of a failed connect (`iocontext.hpp:163` never closes it): `Socks5`
  counts no descriptors.
- Logging, the correlation ids and their formatter, `prng.hpp`, `defs.hpp`: no property
  depends on them; what `ASSERT` does, an abort, is in each model.
- `scripts/sock5_runner.py`: a driver for manual tests.
- Memory orders: the models are sequentially consistent. The acquire/release pairs
  in Notify and Future publish what the models assume they do; the relaxed load in
  `push_awaiter_` is only compared.
