# A TLA+ model of Mordor

Mordor is a C++ library for I/O-bound programs written as cooperatively
scheduled fibers.  This directory holds TLA+ modules that model the library from
its source, the TLC configurations that check them, and TLAPS proofs.
`PROJECT.json` lists the components, runs, mutants, the correspondence of every
definition with source lines, findings, hazards and theorems.

Run from here, for example:

    tlc -workers 2 -config FiberMutex.cfg FiberMutex
    tlc -workers 2 -config Connections.cfg Connections
    tlapm FiberMutexProofs.tla

Paths below are relative to `src/mordor/`.

## 1. Inventory

### The parts and how they interact

A **fiber** (`fiber.cpp`) is a stack with a state INIT, HOLD, EXEC, EXCEPT or
TERM.  A **scheduler** (`scheduler.cpp`) owns threads and a queue of (fiber,
thread) entries.  Each thread repeats `run()`: take a batch out of the queue
under `m_mutex`, switch to each fiber of the batch, and call the virtual
`idle()` when there is nothing to do.  `schedule()` appends an entry and may
call the virtual `tickle()` to end somebody's `idle()`.  **WorkerPool** sleeps
on a counting semaphore; **IOManager** sleeps in `epoll_wait`, where events of
descriptors, a tickle pipe and the first **timer** wake it.

A fiber blocks by leaving a pointer to itself somewhere under a mutex, releasing
it, and calling `Scheduler::yieldTo()`; whoever finds the pointer calls
`schedule()`.  Everything else is built on that pattern: the **fiber
synchronization** primitives (`fibersynchronization.cpp`), **Future** with
`waitAll` and `waitAny` (`future.h`), `parallel_do`, **pipes**, **timeouts**,
**sockets** and **TLS**, the **HTTP** client and server connections, the cache of
connections and the brokers above them, and the **PostgreSQL** connections with
their pool.  Between them and the application are **streams**: buffers, filters,
compressors, message bodies, a remote entity as a seekable stream, zip archives.

| Component | State | What is hard | What makes it correct |
|---|---|---|---|
| FiberMutex, FiberCondition | owner, two FIFO lists | `signal()` has two critical sections; a fiber is scheduled before it has switched away | a blocked fiber is in one place; calls return to the owner; FIFO |
| RecursiveFiberMutex, FiberSemaphore, FiberEvent | owner and depth; count; flag; lists | hand-over without counting; `set()` schedules outside its lock | what is handed over is neither lost nor made up |
| Future | a word changed by compare-and-swap | signals during the cancellation loop | right result, no stray wake-up left |
| Scheduler | queue, counts of active and idle threads, stop flag, locals of each thread | batches, fibers still executing elsewhere, tickle chains, stop, restart and resizing at any time | every schedule leads to one resumption; no fiber on two threads; stop drains and returns |
| Scheduler on its caller's thread | the fiber it will return to, two stop flags | who ends `run()`, exceptions through it | calls return, work is done |
| WorkerPool, IOManager | semaphore; registrations, pending count, pipe | lost wake-ups; event against cancel | work runs; exact count; one wake-up per registration |
| TimerManager | ordered set, `m_tickled`, `m_previousTime` | time read outside the lock; clock set back | consistent set; never early; never overslept; cancelled never runs |
| Fiber, Coroutine | state word, outer fiber, exception | who sets which state across a switch | the word tells where the fiber is |
| parallel_do, parallel_foreach | counter, exception, iterator | the last worker wakes the caller whose stack it uses | the caller goes on alone |
| PipeStream | two buffers, parked fibers, close flags | close, cancel and destruction in the window before `yieldTo()` | no parked fiber forgotten; `flush()` means read |
| TimeoutStream, Socket | timers, event, flags | timer, event and cancellation race | one wake-up; every wait can end |
| SSLStream | two BIOs, two buffers | both sides wait for input | everything written arrives |
| HTTP client and server connection | pending requests, wait lists | pipelining order, failure, destruction | order kept, all waiters woken |
| ConnectionCache, ConnectionPool | connections per key, condition | counting while unlocked | bound kept, waiters served |
| Brokers | retries, visited URIs, a second fiber on the caller's frame | each way out of the frame | nothing left behind |
| PQ Connection, Transaction, COPY, statements | results to fetch, open transaction, pointers | errors on the way, destructors | no open transaction on a good connection; values arrive |
| Buffer, BufferedStream, positioned and filter streams | segments, positions | sharing, short and failing parents | equals a byte string |
| Zip, compressors | headers, offsets, pending output | sizes known too late, exceptions | read back as written |
| Message bodies, parser driver | framing, mark | pieces of any size | framing does not depend on pieces |
| HTTPStream, respondStream | position, ETag, ranges | an entity that changes; `~0ull` | right bytes for right ranges |
| ServletDispatcher | maps by host and path | shortening, wildcards, dot segments | most specific servlet |

### What is not modelled

`ThrottleStream` (arithmetic on the clock in a single call), the Ragel grammars
(generated tables; their driver is modelled), header formatting and
authentication schemes, `multipart.cpp`, logging, configuration, statistics,
process control and utilities, and the kqueue and IOCP variants of the
IOManager, which are other platforms' versions of the one that is.  Examples,
tests and `deps/` are not part of the library.  Of components that are modelled
in part, `PROJECT.json` says what is left out; in short:

* Scheduler: a hijacked caller beside spawned threads.  A fiber that throws is
  modelled on the caller's thread only: on a spawned one it ends the process.
* IOManager: events with a callback, `unregisterEvent`, the table of contexts.
  Timers inside `idle()` are modelled in `Timer`, with the loop around them.
* Future: callbacks, and `reset()` for another round outside `HTTPStream`.
* HTTPClient: `cancel()` without abort, which reads a response to its end.
* Fiber: `reset()` of a Coroutine that runs or is inside a `call()`, which the assertion of
  `Fiber::reset()` excludes.  SSLStream: a peer that closes the stream under TLS without
  a `close_notify` is an error of the stream below, not an end of file of `wantRead()`.
* Timer: a thread that is held up between `nextTimer()` and `epoll_wait()`; the two are one
  step, and the timeout counts from it.
* HTTPStream: `truncate()`, and `close()` of a stream whose announced size is 0.
* PipeStream: `onRemoteClose()`.  BufferedStream: `close()` and `size()`.
* Streams over handles of the operating system, and filters that only forward.

## 2. Modules

In every module a critical section is one action, and what happens between two
critical sections (I/O, a switch, a callback) separates actions.  Names are the
code's.  Outside parties (peers, servers, the operating system, libraries, the
application) choose freely among what they may do.

### Synchronization

`Monitor` is the abstract specification of a mutex with one condition: a
holder, a FIFO queue, a set of sleepers.

`FiberMutex` models FiberMutex and one FiberCondition on it.  `m_owner`,
`m_waiters` and `c_waiters` are the fields (the last is the condition's
`m_waiters`), `next[f]` the local of a `signal()` call of f between its two
critical sections, `call[f]` the blocking call f is in, `state[f]` and
`scheduled[f]` what the scheduler sees.  `YieldTo` is the switch that follows a
critical section and `Resume` a thread taking the entry.  `SignalHoldsMutex`
says whether clients signal only as owners; `FALSE`, the more general case, is
what the code allows.  `OrderSpec` adds two history variables for the
FIFO claim about the condition: in which order fibers called `wait()`, and
whether some `signal()` was overtaken in its gap.  `FiberMutexProofs` holds the
proofs.

`FiberBlocking` is the common part of `FiberSemaphore`, `RecursiveFiberMutex` and
`FiberEvent`, which have their fields as variables.  `Future` is one fiber in
`waitAll` or `waitAny` over N futures, each with its own signaller; `m_fiber` is
represented by its two facts, `waiting` and `signalled`, and a compare-and-swap
is one step.  `Parallel` has the workers of `parallel_do` and `parallel_foreach`
and the caller, whose frame they share, through several rounds.  `Fiber` has the
fibers of one thread: a step goes from one `switchContext()` to the next, as the
fiber that is switched to gives the one that left its next state; `Coroutine` is
part of it.

`FiberPrimitives` composes these and `CallerScheduler` under one specification:
`use` says which of them a behaviour is about, and the properties are those of
the modules.

### Schedulers and timers

`Scheduler` models `run()` with its locals and leaves `idle()` and `tickle()`
open; `WorkerPool` and `IOManager` extend it with theirs.  `Take` is the whole
critical section at the top of `run()`.  What a fiber does between switches is
the client's choice among scheduling another fiber, waiting, yielding, moving to
a thread, registering for or cancelling an event, and returning.  `wakers` and
`owed` are the client's bookkeeping: how many `schedule()` calls a waiting fiber
was promised and how many resumptions it needs.  `ThreadCount` resizes the pool
(`Sizes` are the sizes asked for), `Kill` is the way out of a superfluous
thread, `Start` is `start()` after `stop()`.  `Careful` says that the pool is
enlarged only when no thread is left over from shrinking it, and that `start()`
waits for `stop()`; without it the properties fail (section 4).

`CallerScheduler` is the constructor's default, a pool on the thread of its
caller only: `Main` is that thread's fiber, `Root` the fiber of `run()`, begun
by whoever yields to the scheduler and begun again after it ended.  `dispatch()`,
`stop()` from any fiber, `yield`, `yieldTo`, fibers that throw and another thread
that schedules are its actions; `PutBack` is what `run()` does with the rest of
its batch when an exception goes through it.

`Timer` models Timer and TimerManager with the loop that drives them.  The set is
kept by the key an entry was inserted with, so changing `m_next` of a timer inside
the set would show.  Reading the clock before the critical section and the tickle
after it are separate steps.  It assumes that the mutex excludes, which
`TimerMutex`, about the mutex itself, shows is not guaranteed; `Timer` is about
the protocol the lock was meant to protect, and the same reading applies to
`IOManager::m_mutex` and to the lock of `HTTPClient`.  The timeout of `epoll_wait()` is
what `iomanager_epoll.cpp:389` makes of it: a quotient that is cut to the width of an int,
plus one, and without end if that is negative (`Milliseconds`, `FitsInt`, `SleepUntil`;
`Milli` stands for 1000 and `Ints` for 2^32).

### Connections

| Module | Models | Remarks |
|---|---|---|
| `PipeStream` | `streams/pipe.cpp` | a reader and a writer on each end; a pass through the loop of a call is a step; `Expire` (last reference gone) and `Destruct` are two |
| `TimeoutStream` | `streams/timeout.cpp` | timers expire and call back on other threads, possibly after they were cancelled |
| `Socket` | `socket.cpp` | one direction: the fiber in a call, the event, the timer, the cancellers, and the registration for remote close |
| `SSLStream` | `streams/ssl.cpp` | two of them over a pair of streams; the engine exchanges flights, then records, then close_notify |
| `HTTPClient` | `http/client.cpp` | requests are their numbers; each has a sending and a reading fiber; `conn` is what `m_mutex` protects; a request gets its number when it is put at the end of the list, so the list is the set of its requests in the order of their numbers |
| `HTTPServer` | `http/server.cpp` | a fiber per request and a handler that does what it likes; the list is a set, as in the client |
| `ConnectionCache` | `http/broker.cpp` | placeholders, the condition per end point, candidate proxies, `closeIdleConnections()`, `abortConnections()` |
| `RequestBroker` | `http/broker.cpp`, `http/auth.cpp` | one request through retry, redirect, auth and base broker, with the body's fiber |
| `PQConnection` | `pq/connection.cpp`, `transaction.cpp`, `copy.cpp`, execution of statements; `pq/connectionpool.cpp` | what libpq still has to deliver is a variable; in the pool everything holds the mutex, so a call is one step up to its wait and one after it |

`Connections` composes them, each under its `use`; `ConnectionsProofs` and, for the two
ends of an HTTP connection, `HTTPProofs` hold the proofs.

### Data

| Module | Models | Reference it is compared with |
|---|---|---|
| `Buffer` | `streams/buffer.cpp` | a byte string; arrays are kept apart from the segments that share them |
| `BufferedStream` | `streams/buffered.cpp` | a file and two positions |
| `PositionedStreams` | `memory.cpp`, `cat.cpp`, `limited.cpp`; `transfer.cpp` | contents at a position; a prefix of the source |
| `CompressStream` | `streams/zlib.cpp`, `lzma2.cpp` | what was written |
| `Zip` | `zip.cpp` | the files that were added; positions count blocks |
| `MessageBody` | `http/connection.cpp`, `chunked.cpp`, `notify.h` | the body sent and the message after it |
| `RagelParser` | `ragel.cpp` | the tokens of the whole text |
| `HTTPStream` | `streams/http.cpp` | one version of the entity |
| `RangeResponse` | `http/server.cpp` | the ranges asked for, in arithmetic of a word |
| `Servlet` | `http/servlet.cpp`, `uri.rl` | the best of all registered paths, on the path resolved by a stack |
| `PQStatement` | `pq/preparedstatement.cpp`, `result.cpp` | the values bound |

`DataStreams` composes them.  `Connections` and `DataStreams` end with the values
that a configuration cannot write.

## 3. Runs

| Run | Shows |
|---|---|
| `fiber_mutex` | four fibers, every order of all operations of FiberMutex and FiberCondition: the inductive invariant, a blocked fiber in exactly one place, calls return to the owner, no barging, condition FIFO unless a `signal()` was overtaken, refinement of `Monitor`, every `lock()` and every signalled `wait()` returns |
| `fiber_primitives` | semaphore, recursive mutex, both kinds of event, waits on three futures, parallel calls, a scheduler on its caller's thread, and the switches themselves: a blocked fiber is in one place, what is handed over or scheduled is neither lost nor made up, waits return with what they should and leave nothing behind, the state word is right, whoever can go on returns |
| `worker_pool_safety` | scheduler over a semaphore, resized, stopped and restarted: no fiber in two batches or on two threads, exact count of active threads, every promised wake-up delivered, stop drains |
| `worker_pool_live` | queued work runs and `stop()` returns, on a pool of two threads; deadlock is checked |
| `iomanager_safety` | scheduler over epoll: exact pending count, no lost wake-up of an event, stop drains |
| `timer_safety` | timers with a clock that may be set back once: the set agrees with the timers, a cancelled timer never runs, no timer early, and the threads never all sleep past the first timer, unless they went to sleep for one so far away that its timeout overflowed |
| `connections` | the parts of `Connections`: whoever waits is where its waker looks, pipelines keep their order, the cache counts its attempts and keeps its limit, calls and objects leave no mess, `flush()` of a pipe means read, and waits end |
| `data_streams` | the modules of `DataStreams`, each against its reference |

Each property of the composed runs is a conjunction of properties of the
components, stated with a comment in the component's module.  The deepest ones:

* `PipeStream.NoForgottenFiber`, `CallLeftAlone`: a parked fiber is parked where
  the other end's calls find it, and once the other end is gone every call ends.
* `HTTPClient.invariant` (the code's own `invariant()` and more),
  `NobodyForgotten`, `RequestWaits`; `HTTPServer.ResponsesInOrder`.
* `ConnectionCache.PlaceholdersMatch`: blank connections are exactly the attempts
  in progress, unless `abortConnections()` threw the list away.
* `RequestBroker.BrokerReturns`: when the call has returned, no fiber works on its
  frame, no socket is pending, the request's URI is the caller's or where it has
  permanently moved to, and an exception of the caller's callback was neither
  swallowed nor answered with another request.
* `PQConnection.NotLeftInTransaction`: whichever command failed, once the
  Transaction object is gone the session is in no transaction or `status()` is bad.
* `Buffer.SegmentsConsistent`, `ReadsAsString`: counters, iterator and segments
  agree (the part of `Buffer::invariant()` that holds; the rest is in section 4), and the
  buffer reads as the string, though arrays are shared.
* `Zip.ZipReadsBack`: entries are read in any order and as often as one likes; what is
  read is the file that was asked for, or nothing for the current file when a stream was
  accessed since `getNextEntry()` already (section 4).
* `RangeResponse.RangesAnswered`, `HTTPStream.ReadsEntity`: every byte is the one
  at its position, in one version of the entity.
* `Servlet.DispatchesMostSpecific`: of all registered paths that match, the one with the
  precedence that `servlet.h:55-64` gives it; between two wildcard paths it is stated with
  the order of the map, of which the comment's rule is a special case (section 4).

Runs that are expected to fail document a disagreement between the code and what
its comments, assertions or tests say:

| Run | Finding |
|---|---|
| `worker_pool_wait_all` | two wake-ups of one fiber, as `waitAll` needs, let two threads switch to it |
| `iomanager_lost_tickle` | a tickle between a thread's last look at the queue and its idle count is dropped |
| `future_four` | `waitAny` can return the index of an unsignalled future; three futures are too few for it, so `fiber_primitives` holds |
| `timer_mutex` | `m_mutex.unlock()` under a `lock_guard` unlocks twice |

Deadlock checking is off where the system may really stop: all fibers asleep with
nobody left to signal, a bounded clock that ended, a call that returned, a pool
shrunk to a thread that has gone, or the lost tickle above.

### Bounds

* Two threads are enough for every race in `run()` over who takes an entry, plus a
  third actor (client, stopper); three fibers let one batch of two leave work
  behind.  In `worker_pool_safety` a pool of one or two threads is resized to one
  or two at any time.
* Four fibers give a mutex an owner, a signaller in its gap and two queued ones,
  the least that can be reordered.  `SignalHoldsMutex = FALSE` includes the
  behaviours of `TRUE`; the proofs cover both.  Three fibers and `MaxDepth` 2 give
  the recursive mutex an owner at two depths and a list of two.
* Three jobs with `parallelism` 2 let one worker wait for another; two rounds show
  what a first leaves.  Two scheduled fibers and a batch of two give the hijacked
  scheduler a rest of a batch to put back; `MaxCalls` bounds calls of the client.
* `MaxYields`, `MaxPosts`, `MaxNotifies`, `MaxSets`, `MaxWakeups`, `MaxBacks`,
  `MaxTickles`, `MaxOps` and their like cap otherwise unbounded counters and are
  large enough that each limit is reached after the cases of interest.
* Two timers and two sleeping threads with delays of one and four ticks let a new
  timer come before, with or after the first.  With `Milli` 2 and `Ints` 6 a timeout of
  one or two milliseconds fits, and four ticks overflow.  The clock starts above the
  rollover threshold, as on a machine that is up for more than five seconds.
  `Tick` assumes that no thread is held up between reading the clock and taking
  the lock for longer than the threshold.  `Width` and `Word` stand for the range
  of an unsigned word.
* A pipe with one byte of room and two bytes to carry makes every write wait; three
  pipelined requests have one that is first, one in the middle and one that is
  last, on the server's side.  On the client's there are four, of which the second and
  the fourth may be destroyed at any time, so that a gap may open before, in and at the end
  of the list; up to three of them are used by two fibers each at once, and the first two may have
  a body.  Three callers of the cache are one that connects, one
  that waits and one that comes late.  Three clients of a pool of one or two
  connections make one or two wait.
* Buffers have up to three segments over two arrays of up to four bytes, so that
  `reserve()`, which asks for twice its argument, runs and several segments have room;
  buffered streams have a buffer of two bytes over a file of four, with calls for one byte
  and for three, less and more than the buffer; bodies, texts and archives
  are long enough for a boundary before, in and after a piece.  Zip lengths of 9
  with `Max32` 8 stand for sizes past 32 bits.  Servlets have wildcards that compete at one
  length (`/*/a`, `/a/*`, `/!/*`), with a segment that sorts before `*` and one after it;
  `Word` 16 lets a suffix of `size - 1` bytes make `~0ull` of a length.

### Fairness

The operating system runs every thread, a thread that is not in `idle()` scans its
whole queue, and a scheduled fiber is resumed: weak fairness of the steps of
threads, of the switch and of resumption.  A `set()` and a `signal()` that have
begun go on to their `schedule()`, as nothing in them blocks.  Of client code it
is only assumed that an owner unlocks in the end (for the recursive mutex at each
depth, with strong fairness, as the unlock is disabled while the owner waits
elsewhere), that a fiber's code returns, and that stop's steps continue.  In
`Connections` timers expire, peers answer or fail when the code waits under a
timeout, and fibers go on; where the bounds make behaviours finite it is enough
that somebody goes on while anybody can, so one weak fairness condition stands for
all of them; in pipes and in the cache every fiber has its own.  No signal, set,
notify, event, signalled future, cancellation or new call is assumed.

### Mutants

Every property of a passing run has one or more mutated definitions, placed before
the definition they replace, under which TLC finds the property violated; the
composed properties have one for most of their conjuncts.

## 4. Observations that no run carries

Modelling showed more differences between comments and code.  The models behave
as the code does; the checked properties are stated with the condition under which
they hold.  Where a property is named, it is defined in the module, no run checks
it, and TLC refutes it.

Fibers and schedulers:

* `FiberCondition` and `FiberEvent` are called "strictly FIFO"
  (`fibersynchronization.h:169`, `:203`); a `signal()` made without the mutex can be
  overtaken in its gap (`fibersynchronization.cpp:246`), and two `set()` calls
  schedule after they released the lock (`:326`).
* Resizing (`Scheduler.KilledCleanly`): a superfluous thread whose idle fiber never
  began, or has ended, does not get through `scheduler.cpp:265-273`.  A tickle
  taken by a thread that then kills itself off is lost, so work may stay queued
  while others sleep (`WorkRuns` with `Sizes = {1}`); after a shrink `stop()` may
  not return, and enlarging the pool before the left-over thread is gone replaces
  its `Thread` object, so that `stop()` does not join it (`StopDrains` with
  `Careful = FALSE`).  `IOStopDrains` fails after a shrink as well.
* `start()` while `stop()` joins resurrects a thread, and `stop()` never returns, as
  the TODO at `scheduler.cpp:61` fears (`Careful = FALSE`).
* A scheduler on its caller's thread: `stop()` called by a scheduled fiber does not
  always "return immediately" (`CallerScheduler.StopReturnsAtOnce`): while Main is
  in `stop()` itself, `m_callingFiber` is null and the fiber enters the loop of
  `scheduler.cpp:109`.  An exception through `run()` destroys an idle fiber that is
  not at its end (`NeverCrashes`, `fiber.cpp:152`) and leaves `m_autoStop` set.
  `m_stopping` stays set after `dispatch()`, so a later wait of Main can end without
  its wake-up, which a later `dispatch()` takes for its own (`GoesOnWhenScheduled`).
* The rollover threshold is described as ">= this amount" (`timer.cpp:36`) and
  tested with `<` (`:254`), in an unsigned subtraction that wraps around while the
  clock is below the threshold: timers then expire early.  A clock set back by less
  than the time since the last `processTimers()` is not noticed.
* `(int)(nextTimeout / 1000) + 1` (`iomanager_epoll.cpp:389`) is negative for a first timer
  some 24.8 days away, and `epoll_wait()` then waits until something else happens: "never
  all asleep past the first timer" fails without the exception for such a timer
  (`SleepsForFirst`).

Connections:

* Pipe: between the last reference to an end and its destructor the other end is
  told "broken pipe"; `close()` does not wake its own end.
* Socket: `doIO()` does not look at the cancellation flag after it registered its
  event, as `connect()` and `accept()` do (`IOCancelledEnds`); a late timer of one
  operation may time out the next (`OwnTimeout`); a `connect()` that succeeds at
  once never sets `m_isConnected` (`RegisteredWhenConnected`).
* TimeoutStream: a callback that comes late aborts the next operation
  (`TimesOutOnOwnTimer`).
* HTTP client: if requests are destroyed at any time, or sent from several fibers
  while they are cancelled, `m_currentRequest` may leave the request that is being
  sent (`CurrentIsSending`), a response may be read for another request
  (`ResponseIsOwn`), and the idle timer may run while a request is sent
  (`IdleMeansIdle`).
* HTTP client: the code's own `invariant()` asserts at `http/client.cpp:401` that the numbers in
  the list are consecutive before a failed or closed response (`NumbersConsecutive`).  This
  fails within the bounds of the run: destroying the second of four requests
  sets `m_priorResponseFailed` to 2, destroying the fourth overwrites it with 4
  (`:748` takes no minimum, as the failure of a response does at `:1174`), and the third
  then follows the first with a number below it.  What `PipelineInOrder` says instead, and
  what is proved, is that whatever is missing in the list failed or was cancelled.
* HTTP server: `cancel()` of a request "aborts this request, and any subsequent
  requests or responses"; it can cancel the stream under an earlier response that
  is being written (`PriorResponsesGoOn`).
* ConnectionCache: a waiter may be told that a prior connection failed although none did
  while it waited (`FailsOnlyForFailure`); with a choice of proxies
  the next one is tried after a failure whatever it has already, and a caller that waited
  for the second looks at the first no more (`HostLimit`, `http/broker.h:176`).
* RetryRequestBroker "retries connection error and PriorRequestFailed errors"
  (`http/broker.h:384`), but not all of them (`RetriesPriorFailure`).
* PostgreSQL: `pq/copy.cpp:268` has `continue` in a `do ... while (false)`, so a read
  without data yet looks like the end (`CopyOutNoFalseEof`); an asynchronous
  `prepare()` or `putCopyEnd()` that throws leaves results to fetch; in the pool a
  woken fiber whose `connect()` throws passes the wake-up on to nobody, and resizing
  signals nobody.

Data:

* `Buffer::invariant()` asserts "We should keep segments optimally merged together"
  (`streams/buffer.cpp:967-982`); `copyIn()` of a buffer compares with the first segment
  only (`:591`), and bytes written into room that `truncate()` split off stay apart
  (`OptimallyMerged`).
* `Buffer::find()` of a string can miss an occurrence after a partial match
  (`FindsFirst`): a multipart body that ends in "\r" hides the boundary.
* `BufferedStream::seek()` can consume more than is buffered (`SeekWithinBuffer`);
  `truncate()` drops read-ahead without seeking back, so that the caller's position moves
  forward and a pending write, which is kept if the new size is above it, lands in another
  place (`reference.lost`; the property excludes what follows it).  MemoryStream's read buffer is not rebuilt after
  every write (`ReadBufferAtOffset`).
* ZlibStream: `write()` throws although the compressor took the bytes
  (`ThrowMeansNotWritten`), `flush()` leaves bytes in the compressor
  (`FlushMeansWritten`), a second `close()` after a failure loses the tail.
* Zip: `getNextEntry()` does not list all files of every archive that was written to
  a stream that cannot seek (`ListsAllFiles`, `zip.cpp:417-423`, `:610`); Zip64 fields are read two bytes early
  (`zip.cpp:226-256`).  `stream()` of the current entry hands out whatever stream was made last
  (`:683-686`): after `stream()` of another entry it is that one's, at its end, and
  a second call for the same entry gives nothing more (`ReadsWhenAsked`, `zip.h:50-52`, `:87-93`).
* A chunk of length 0 ends a chunked body; a connection that ends early looks like
  the end of a body (`PrematureEndNoticed`).  NotifyStream notifies at every read at the end
  and again at `close()` (`streams/notify.h:34`, `:49`), so that `BodyIntact` counts one
  notification for a receiver that stops at its first 0 only.
* HTTPStream: a failed request leaves `m_readRequested` set, and the next read sees
  an end (`NoFalseEof`); `close()` may find no write request (`WriteRequestThere`);
  a changed entity is not always announced (`ToldOfChange`).  The `MORDOR_VERIFY` of `start()`
  (`streams/http.cpp:87`) fails when a server has sent more than was asked for
  (`FinishedWhenRead`), and a 206 without an instance length makes the length of the part
  the size.
* Ranges: a suffix range among several never gets its `last` (`EveryPartRight`): the part
  is cut short by an end of file, or, if the suffix is one byte shorter than the
  entity, its length is `~0ull`, which `transferStream()` takes for "until the end"
  (`streams/transfer.cpp:56`), and it succeeds under a Content-Range that ends at `~0ull`.
  "-0" is answered with an empty 206.
* Servlets: "wildcard path with right-most postion of the left-most '*'" takes precedence
  (`http/servlet.h:62-64`), but the map orders segments as strings, and one that sorts
  before `*` loses (`RightmostStarWins`).  "/.." normalizes to a path that `uri.h:121` calls
  invalid (`PathStaysValid`).  Statements: Null does not always stay Null
  (`NullStaysNull`).

## 5. Proofs

A theorem holds for every value of the constants that satisfies the named
assumptions of its module.  These say that sets are finite where they are counted,
that null pointers are not objects, that counters start as natural numbers, that the
jobs of `Parallel` are numbered and the fibers of `Fiber` share one thread; for
`Connections` that a TLS handshake has flights, every caller of the cache has an end
point to try, a host may have a connection and the pool's destructor is none of its
clients, and that there is a request to serve; and for
`Timer` that the clock does not reach the end of its word and the machine is up for
longer than the rollover threshold.  Other hypotheses stand in the theorem.
Each inductive invariant was checked with TLC on a small instance before it was
proved.  A theorem of the form `Spec => []P` says of every number of fibers,
threads and calls what the run says of its few.

### FiberMutexProofs

For any set of fibers, and for both values of `SignalHoldsMutex`:

* `Invariance`: `Spec => []IInv`.
* `NoFiberLost`: a fiber inside `lock()` or `wait()` is in exactly one of the
  mutex's list, the condition's list, the local of a `signal()`, or the scheduler's
  queue.
* `HandOverComplete`: the mutex is not free while fibers queue, and only the owner
  is ever scheduled.
* `PostCondition`: `lock()` and `wait()` return to the owner only.
* `FifoHandOver`: whoever becomes the owner is the oldest queued fiber.
* `ImplementsMonitor`: the specification implements `Monitor`.
* `ConditionIsFIFO`: who is given the mutex after `wait()` has waited longest, unless
  some `signal()` was overtaken in its gap; `ConditionStrictlyFIFO`: with
  `SignalHoldsMutex` none is, and the comment's "strictly FIFO" is true.

None of the properties is inductive alone: that a woken fiber owns the mutex needs
that it is in no list, and that it is in no list needs that lists hold nobody twice
and that the fiber in a `signal()` gap is nowhere else.  `IInv` is their conjunction
with the type invariant: `ListsDistinct`, `PlacesExclusive`, `BlockedSomewhere`,
`SignallersRun`, `ScheduledOwns`, `NoIdleWaiters`.  There is one lemma per action;
they rest on lemmas about which elements `Append`, `Tail` and `\o` leave in a list
and how often, and on what `unlockNoLock` does.  `OrderInv` adds, for the history
variables, that the fibers in `wait()` stand in the order condition's list, gap,
mutex's list, scheduled, each list in the order of the calls.

### FiberPrimitivesProofs

One inductive invariant for each component of `FiberPrimitives` but `Future`, and
from them four of the properties of the `fiber_primitives` run:

* `WaitersInOnePlace`, `HandedOverExactlyOnce`: for semaphore, recursive mutex and
  both kinds of event.  `SemInv` counts: free concurrency, calls that returned and
  fibers on their way back sum up to what was given.  `RecInv` adds to it that the
  scheduled fiber owns the mutex at depth 0 with `m_recursion` 1 already.  `EventInv`
  counts for every fiber the locals of `set()` calls that hold it, so that nobody is
  scheduled by two of them; `AutoInv` counts calls of `set()` against fibers let go.
  The second theorem also covers the scheduler on its caller's thread: `CallerInv`
  says what the queue, the batch and the promises owe to each fiber, and what
  `run()` has in hand by where it is (`InHand`), which is what an exception through
  `run()` puts back.
* `CallerIsAloneAfterwards`: `ParInv` says that the counter counts who counted
  (`Counting`), that what has been done or begun is what workers did (`WorkDone`), and
  that at most one worker is on its way to schedule the caller, after all have
  counted (`Telling`).
* `StateTellsContext`: `SwitchInv` adds that the fibers waiting in `call()` are a
  chain (nobody is the outer fiber of two), and that a `Coroutine` reset under way is
  unwinding its coroutine or has ended it.

These rest on lemmas about how often an element stands in a list after `Append`,
`Tail`, `\o` and `SubSeq`.

### TimerProofs

`TimerArmedInSet`, `TimerCancelledNeverRuns`, `TimerNoOversleep`, `TimerSleepsForFirst` and the
action property `TimerNeverEarly`, for any timers, threads, delays and bounds on the clock,
from one invariant `TInv`.  Besides the types it says that a timer that can still
fire has not fired and is with no thread (`FiresOnce`); that, unless the clock was set
back, nothing read from it is in the future and no thread in `processTimers()` read it
longer ago than the threshold (`ReadInPast`, without which the rollover test would
take a late thread for a clock set back); that `m_tickled` is set only while a tickle
is on its way or somebody is awake who will look at the timers again
(`TickleUnderWay`); and that somebody is awake, will be, or sleeps no longer than the
first timer wants but for the rest of a millisecond, or has slept since its timeout
overflowed for that timer or an earlier one (`SomebodyWakes`, `GoodFor`).
`TimerNoOversleep` has that exception because the code has it; `TimerSleepsForFirst` shows
that nothing else stands in the way: if every delay fits (`DelaysFit`), no timeout overflows
while the clock is not set back (`NoneOverflows`), and the threads never all sleep past
the first timer.  Rounding, cutting to an int and adding one are bounded by lemmas about
quotients (`TimeoutRoundsUp`, `ShorterFits`).

### SchedulerProofs, WorkerPoolProofs, IOManagerProofs

`SchedulerProofs` has the invariants of `Scheduler` and what each of its actions does
to them; the other two add `idle()` and `tickle()` and the theorems, for any threads,
fibers, batch sizes and clients.

* `Control` (which locals of a thread of `run()` are meaningful where) gives
  `PoolActiveCountExact` without further hypotheses.
* `FiberInv` relates the queue, the batches, the fibers' states and the clients'
  promises; with it come `PoolNoDoubleRun`, `PoolOneThreadPerFiber`,
  `PoolNoLostWakeup` and `PoolTypeOK`.  Hypothesis: `MaxWakeups = 1`, a fiber awaits
  one wake-up at a time.  It is needed: with two, as in `waitAll`, the run
  `worker_pool_wait_all` shows two threads switching to one fiber.
* `PoolInv` keeps the threads of the pool apart from those left over, and
  `EndedWhenQuiet` says that once the idle fiber of a thread of the pool has ended,
  `stopping()` is true and stays so; they give `PoolStopDrains`.  Hypotheses: `MaxWakeups = 1`, and `Careful`, whose necessity is
  shown by the observations on resizing in section 4.
* `IOControl` is `Control` with the registrations and the triggers in progress and
  gives `IOPendingCountExact`; `IOFibers` adds both to what is coming to a fiber and
  gives `IOLosesNoWakeup` and `IORunsOnce`, with `MaxWakeups = 1`.
* `IOStopsDrained` needs `MaxWakeups = 1`, `Careful` and `Sizes = {}`, a pool that is
  not resized.  `stopping()` reads
  the number of pending events after the scheduler's `stopping()` has released its
  mutex, so the two reads are of different states; `IOStops` with `LastOneKnows` says
  that the thread that makes the second read is then the last one that could have
  changed the first.  With a superfluous thread that kills itself off this is false
  and so is the property: one thread reads no pending events, another schedules the
  fiber of an event and goes, the first runs that fiber, which registers for another
  event, and then leaves; `stop()` returns with one event pending.

### ConnectionsProofs

Eight inductive invariants, one for each part but the HTTP client and server; `Frame`
keeps a step of one part from disturbing another (`OthersKept`).  For any sizes of buffers,
numbers of fibers, records, redirects, retries, addresses, callers and connections:

* `FlushIsRead`, from `PipeInv`: what an end has been told is what
  the other end has done (`Knows`), a fiber is parked in the end the other end will look
  in, and nowhere else (`Place`), and a parked fiber has a reason to wait unless it has
  been scheduled (`ParkedInVain`).
* `CallsLeaveClean`.  Its TLS conjunct comes from `SSLInv`: what is still to come to a side,
  from its own `m_readBio` back over the wire to the other's `m_writeBio` (`ToCome`), is
  at most one handshake flight, then records, then at most one `close_notify` (`Form`);
  received and coming together are what was written, or less on a side that has closed
  or failed (`InOrder`); and `Stage` says which flights the two
  sides may be at, so that no record overtakes the handshake.  The broker's comes from
  `BrokerInv`, which follows base URI, pending socket and the outcome of the body through
  the chain of brokers, and the transaction's from `PQInv`.
* `NobodyIsForgotten`, the conjuncts of `WaitersKept` but that of the HTTP client: for
  pipes from `PipeInv`; for the pool from `PoolInv`, where a fiber that waits is in the
  condition's list or in line for the mutex (`PoolPlaces`), there are too many connections
  only after the pool was made smaller and then none is free (`PoolSize`), and somebody is
  in line for every free one (`PoolTold`); for timeouts from `TimeoutInv`, where an
  operation is `TIMING` or cancelled as long as its timeout was not switched off, and had
  no timer if there was no timeout when it began (`Timed`); for sockets from `SocketInv`.
* `PlaceholdersAreAttempts`, from `CacheInv`: it counts the attempts under way at every end
  point (`Held`), and a waiter that was not woken has one to wait for.  It holds with any
  candidate proxies.
* `CacheCountsHold` adds the limit of connections per host.  Hypothesis: `OneWay`, one
  candidate for each caller.  It is needed, as section 4 says.

### HTTPProofs

Both ends of an HTTP connection, for any number of requests, and with them the two
properties of the `connections` run that need these parts:

* `ServerInOrder`, from `ServerInv`: `ServerConnection::invariant()` and more
  (`ServerInvariant`), and a response is written only when the responses to all earlier
  requests are complete, none of them having failed, and no earlier request failed or closed
  the connection (`ResponsesInOrder`).  Order is not inductive alone.  `ServerInv` adds
  that all requests before the last one begun have been read, and that one whose response is
  not over is in the list unless it will have no turn (`ReadInOrder`, `InListWhile`); that
  whoever sleeps in `commit()` is in the list and among the waiting, or was scheduled, to
  write or because it has no turn (`WaitsForTurn`); and that who writes, or was woken to, is the first of the
  list with nothing failed or closed before it (`InTurn`).  `AlmostOK` is what holds in
  the middle of a critical section, before `scheduleAllWaitingResponses()` tells the rest.
  That an earlier response which is over was complete rests on `ErrorsTold`, kept by every
  action on its own: a response is `ERROR` only when `m_priorRequestFailed` is not above it.
* `WaitersAreKept`: `WaitersKept` in full.  Its last conjunct, `HTTPClient.NobodyForgotten`,
  comes from `ClientInv`.  The list is in three parts (`InPlace`): before
  `m_currentRequest` requests have been sent, at it one is being sent, after it they wait,
  and none waits once the connection has failed or closes (`ListOK`).  `AsksOK` and
  `SendsOK` say where the sending fiber is, `Dead` being a request that `cancel()` took out
  while it was sent; `ReadsOK` says that a response is read by the first of the list only,
  and `InLine` that whoever waits for one is not the first and its response can still come.
  `ListAlmost` and `InLineAlmost` hold between the statements of a critical section, up to
  the `scheduleAllWaitingRequests()` and `scheduleAllWaitingResponses()` at its end, for which
  there is a lemma each (`RefusingKeeps`, `TellingResponsesKeeps`).
* `PipelinesKeepOrder`: `PipelineInOrder` in full, without a hypothesis: any request may fail,
  be cancelled or be destroyed at any time.  Of what `ClientConnection::invariant()` asserts one
  clause is replaced: a request that is missing in the list, between two that are in it, failed or
  was cancelled (its response is beyond `COMPLETE`).  Besides `ClientInv` this needs that the
  responses that were read to their end were the first of the list (`CompleteFirst`) and
  that requests refused by `waitForRequest()` were the last (`RefusedLast`); `Onward` and `Follows`
  say that a critical section takes requests out in ways that keep both.
* `ConsecutiveIfFew`: the clause as the code has it, `NumbersConsecutive`, with the hypothesis
  `Dropped \subseteq {1, 2, 3}`.  Section 4 shows that it is false without.  `NoGaps` is what is
  needed: a gap is beyond a failed or closed response (`Gapless`), a request being sent whose
  response is over is the first, or beyond one too (`OverFirst`), and as long as nothing has failed the
  list goes up to the last number given (`UpToLast`).

### Only model-checked

* All liveness: the prover does not handle fairness.
* `FutureReturns`: it is false for four futures (`future_four`), so that there is no
  theorem for every N.
* What the data modules compute (`DataStreams`): most of it is about recursive
  definitions over sequences, and needs induction that is out of the prover's reach.

The safety properties of the other runs are all stated by theorems, with the hypotheses
named above.
