# TLA+ models of the Tars C++ runtime

This directory holds TLA+ specifications of the concurrent parts of the Tars
C++ framework under `src/cpp`, with TLC configurations that check them.
Each module is written from the source. The README explains:

- which module stands for which code;
- what each TLC run checks;
- what the runs found;
- what is left out, and why.

`PROJECT.json` holds the machine-readable version of the same information:

- components and modules;
- runs and their properties;
- the mutants that show each property can fail;
- the map from every definition to the source lines it models;
- findings and hazards.

## The system and its parts

The tree is a slice of the Tars runtime (5,669 lines). It falls into these parts:

| Part | Source | Concurrency |
|---|---|---|
| Timeout queue (`TC_TimeoutQueue`): the client's registry of outstanding requests | `util/include/util/tc_timeout_queue.h` | One mutex. Callers push, responses take entries, a sweeper times them out and calls a callback outside the lock. |
| Loop queue (`TC_LoopQueue`): a lock-free single-producer single-consumer ring | `util/include/util/tc_loop_queue.h` | Plain loads and stores on `_iBegin` and `_iEnd`, with no fence. |
| Async response thread (`AsyncProcThread`): hands responses to async callbacks | `servant/libservant/AsyncProcThread.cpp` | The loop queue, plus a monitor used only for sleep/notify. |
| Thread pool (`TC_ThreadPool`) | `util/src/tc_thread_pool.cpp` | Workers, an internally locked job queue, and `_tmutex` around `_busthread` and `waitForAllDone`. |
| Consistent hash (`TC_ConsistentHashNew`) | `util/include/util/tc_consistent_hash_new.h` | None: a sorted vector and a binary search. |
| Time provider (`TC_TimeProvider`) | `util/src/tc_timeprovider.cpp` | A background thread flips a two-slot buffer that readers use without a lock. |
| Singleton holder (`TC_Singleton`), used by `CommunicatorFactory` | `util/include/util/tc_singleton.h` | Double-checked locking on a plain pointer; destruction by `atexit`. |
| Communicator and its factory | `servant/libservant/Communicator.cpp`, `servant/servant/CommunicatorFactory.h` | Initialisation, reload and terminate, under the communicator's lock. |
| Recursive thread mutex (`TC_ThreadRecMutex`) | `util/src/tc_thread_mutex.cpp` | A recursive pthread mutex plus a use counter. |
| Configuration (`TC_Config`) | `util/src/tc_config.cpp` | None: a tree of domains parsed from and printed to text. |
| Logger (`TC_LoggerRoll`, `TC_LoggerThreadGroup`, `LoggerBuffer`) | `util/src/tc_logger.cpp` | Writers push onto a roll's locked queue. A thread group's pool threads flush it. `_pThreadGroup` and `_bTerminate` are read without a lock. A statement is buffered by a `LoggerBuffer` and reaches the roll as one or more `write()` calls. |
| Option parsing, TLS wrappers, Application | `util/src/*.cpp`, `servant/libservant/Application.cpp` | Mostly sequential parsing and I/O. |

These parts interact as follows:

- An object proxy calls `generateId()` and `push()` on a timeout queue for each request.
- The network thread calls `timeout(df)` on every loop. When a response arrives, it takes the entry with `get`/`erase` and calls `AsyncProcThread::push_back`, which pushes onto a loop queue.
- `TC_TimeProvider` supplies the clock that the timeout queue stamps entries with.
- `CommunicatorFactory` makes the communicator from the application's `TC_Config`. Business threads call `getServantProxy()`, which runs `initialize()` once. The admin thread's `tars.loadproperty` and `tars.reloadlocator` commands call `setProperty()` and `reloadProperty()`/`reloadLocator()`. `terminate()` stops the network threads.
- A log file (`TC_LoggerRoll`) is handed to a `TC_LoggerThreadGroup` by `setupThread()`. From then on, `write()` only queues lines, and the group's pool threads flush them every 100 ms. The group runs its `run()` loop as jobs on its own `TC_ThreadPool`.

## Modules

Every module names its source file in its header comment. `PROJECT.json`
maps each definition to the lines it translates.

### TimeoutRegistry (abstract)

What a timeout queue promises. It is a sequence of entries `[id, req, age,
popped]` with these operations:

- insert at the tail;
- remove by id;
- mark the first entry or all entries popped;
- expire an entry older than `Timeout`, recording it in `expired`;
- age every entry.

### TimeoutQueue (`tc_timeout_queue.h`)

State:

| Variable | Models |
|---|---|
| `data` | `_data` |
| `time` | `_time`, with `age` standing for now − `createTime` |
| `firstNoPop` | `_firstNoPopIter`, as the id of its node or `End` |
| `uniqId` | `_uniqId`, a 2-bit counter so that it wraps |

Every public method holds the mutex for its whole body and is one action:

- `GenerateId`;
- `PushNew`, and `PushDuplicate` for when `_data.insert` fails;
- `Get`;
- `Erase`;
- `Pop`;
- `Swap`, whose loop is the recursive `SwapLoop`.

`timeout(df)` re-takes the lock for each entry and calls `df` outside it, so
it is split into four steps:

- `SweepBegin` reads `tv`;
- `SweepRemove` takes one expired head out;
- `SweepCallback` runs `df(ptr)`;
- `SweepEnd` stops at the first head that has not expired.

The clock has two steps:

- `Tick` is the clock advancing. `lag` counts ticks since the sweep read `tv`.
- `ClockBack` is `gettimeofday` stepping back by one tick, at most `MaxClockBacks` times.

The module also keeps history variables:

- `completed` counts how often each request's owner was told it finished;
- `timedOut` records the requests the sweeper removed.

`Registry` instantiates `TimeoutRegistry` with the refinement mapping (entries
in `_time` order, each with `data[id]`, and `expired <- timedOut`).
`RegistryRefinement` checks the queue against the registry.

### LoopQueue (`tc_loop_queue.h`)

`push_back(t, bEmpty)` is split at every shared read or write:

- `PushCheck`: the full test on the copy of `_iEnd`;
- `PushWrite`: the slot `memcpy`;
- `PushEmptyCheck`;
- `PushAdvance`: `_iBegin++`, which publishes the value;
- `PushSizeCheck`: the `size()` re-read.

`PopFront` is `pop_front(t)`. Only the consumer writes `_iEnd`, so `PopFront`
is one step.

With `StoreReorder`, the slot store may go to `wbuf` and become visible only
at a later `Flush`. The code has no fence between the two stores, so nothing
orders them.

### AsyncProcThread (`AsyncProcThread.cpp`)

The module extends LoopQueue with the monitor and the worker loop:

- `Notify` is the producer's `notify()` after the push. It also records the message `push_back` deletes when the ring is full.
- The worker runs `LoopTest` (`while (!_terminate)`), then `EmptyTest`, `WaitBegin`, `WaitTimeout` (the 1 s `timedWait`), `PopMsg` and `Dispatch` (`onDispatch`).
- `Terminate` models `terminate()`.

The module has one producer, because every caller of `push_back` is outside
this tree.

### ThreadPool (`tc_thread_pool.cpp`)

The pool owner has these actions:

- `Start`;
- `Exec`, which is `exec()`, a header that is not in this tree, modelled from its use of `_jobqueue`;
- `StopTerminate` and `StopJoin`, which stop the workers one by one as `stop()` does.

Each worker's `run()` is split into these steps:

| Step | Code |
|---|---|
| `GetStart` | `get()` from `_startqueue` |
| `RunStartJob` | runs the start job |
| `LoopTest` | `while (!_bTerminate)` |
| `GetJob` / `GetTimeout` | `_jobqueue.pop_front(p, 1000)` |
| `Register` | the second critical section: `_busthread.insert` |
| `RunJob` | runs the queue job |
| `Idle` | `idle()` |
| `Exit` | `exit()`, which clears `_jobqueue` |

`waitForAllDone` starts with `WaitCall`, which passes -1 or a positive timeout, then `WaitTest` (`finish()` under `_tmutex`).

- With -1 the call loops through `WaitTimeout` back to `WaitTest`.
- With a timeout it sleeps in `timedWait`. Two things end the sleep: `TimedWaitExpire` (the wait runs out, `b` false), or `idle()`'s `notifyAll` (`Woken`, `b` true). `TimedWaitTest` then returns true if finished, returns false after a wait that ran out, and otherwise waits again.
- The model does not count time, so a timed wait may run out at any moment.

### ConsistentHash (`tc_consistent_hash_new.h`)

- `AddNode` appends `weight` entries with arbitrary hashes. The MD5 hash is abstracted: every code of `HashSpace` is looked up in every state.
- `SortNode` picks any sorted permutation, because `std::sort` is not stable.
- `Clear` empties the ring.
- `Search` is the recursive translation of the binary search loop, and `GetIndexPos`/`GetIndex` wrap it as `getIndex(hashcode)` does.
- The properties compare the search with the reference operator `SuccessorPos` over every reachable ring of up to four entries.

### RecMutex (`tc_thread_mutex.cpp`)

A component, not a system: `mOwner`/`mDepth` are the recursive pthread
mutex, `mCount` is `_count`. `MAcquire(t)` is `pthread_mutex_lock`,
`MCountUp(t)` is the rest of `lock()` (a nested lock gives its pthread level
back at once), and `MUnlock(t)` is `unlock()`. Communicator EXTENDS it and
calls these steps from its threads' actions.

### Communicator (`Communicator.cpp`, `CommunicatorFactory.h`, `Application.cpp`)

- **Actors.** Business threads `Biz` (a `getServantProxy()` or a second `getCommunicator(conf)`), one `Admin` thread (`loadproperty` or `reloadlocator`) and one `Closer` (`terminate()`). Each actor runs one call. `pc[a]` is its position inside that call, and every `pc` value is one statement or one lock step.
- **State.** `netthread` (the property), `initialized`, `terminating`, `threadNum` (`_clientThreadNum`), `statReport`, `epoll[s]` (`_communicatorEpoll[s]`), and `created[s]`, which counts the `new CommunicatorEpoll` for slot `s`. `fLock` is the factory's lock. `fault` records a crash.
- **Undefined behaviour.** The `TC_Config` constructor writes neither `_clientThreadNum`, `_statReport` nor `_communicatorEpoll`; such a member is the model value `Garbage`. A loop bound read from it may be 0 (the loop is skipped) or crash the process. A dereference of `Garbage` or `"null"` crashes. After a crash only `Crashed` stutters.
- **Actions.** `initialize()` is `InTest` ... `InUnlock`, with the nested `getProperty()` lock taken and released through `RecMutex`. `setProperty` has two forms: `SetPropertyConf` for the whole config and `SetPropertyLocator` for one name. The unlocked loops over `_communicatorEpoll` are `EpollLoop`, `ReloadLoop` and `TermLoop`. Then come `ReloadStat`, `TermFlag`, `TermTest` and `TermStat`, and the factory's `FactoryLock`/`FactoryUnlock`.

### Config (`tc_config.cpp`)

- **State.** `conf` is a tree. `conf.par[p]` is the ordered `_param`/`_key` list of the domain at path `p`, and `conf.sub[p]` the ordered `_domain` list. `status` is the result of the last parse.
- **Text.** Strings are sequences of one-character strings, and a text is a sequence of lines from the small set `Lines`.
- **Parsing and printing.** `ParseFrom` is `TC_Config::parse` line by line, with the domain stack. `SetParamLine` is `setParamValue(line)`, splitting at the first unescaped `=`. `Unescape` and `ReverseParse` are the two escape conversions, modelled by what they do to each character. `DomainStr`/`ToStr` are `tostr()`; the root's sub-domains are printed in `std::map` order (`StrLess`).
- **Operations.** `ParseString`, `InsertDomain`, `InsertDomainParam` and `JoinConfig`.
- **Getters.** `GetDomainKey`, `GetDomainMap`, `GetDomainVector` and `Get` are operators over a domain path.

### Factory (`tc_singleton.h`, `CommunicatorFactory.h`)

`CommunicatorFactory` is a `TC_Singleton` and a `TC_ThreadRecMutex` (it EXTENDS `RecMutex`).

- **Threads.** Each thread makes up to `MaxCalls` calls of `getInstance()->getCommunicator(name)` or `getCommunicator(conf, name)`.
- **`getInstance()`.** It is `GiTest` (the unlocked test), `GiLock` (`_tl`), `GiTest2` (the second test, then `deadReference`, `create` and `scheduleDestruction`) and `GiUnlock`.
- **`getCommunicator`.** It is `FLock`/`FCount` (the factory's recursive lock), `FFind`, `FNew` (a new communicator in `_comms`), `FReconf` (`setProperty` and `reloadProperty` on a found one; their effect is modelled in `Communicator`) and `FUnlock`.
- **Exit.** `Exit` is `main` returning once its threads are joined. After it, one actor runs at a time: `DestroySingleton` (the registered `atexit` handler) or a late caller (a static destructor).
- **Policies.** `Init` picks the policies. `CreatePolicy` is `new` (fresh storage each time) or `static` (one buffer). `LifetimePolicy` is `default` (a dead reference throws), `phoenix` (re-create, registered once) or `nodestroy`.

### Logger (`tc_logger.cpp`)

There is one roll (a log file) and one thread group. The actors are:

- `Writers`: each call of `write()` (from `LoggerBuffer::sync`) is `WrTest`, the unlocked read of `_pThreadGroup`, followed by `WrPush` (onto `_buffer`) or `WrRoll` (a synchronous `roll()` of one line).
- `Conf`: calls `setupThread` or `unSetupThread`. The steps are `UsTest`, the group's flush, `UsUnreg`, `UsNull` and the roll's own flush; `setupThread` then goes on with `SuSet` and `SuReg`.
- `Pool`: each pool thread runs `run()`. `RnTest` reads `_bTerminate`, `RnLock` takes the monitor, `RnWake` is the end of `timedWait(100)`, and then the group flushes.
- `Owner`: `GStart` is `start()`. The destructor is `DsBegin` (its first flush), `DsTerm` (`_bTerminate` and `notifyAll`) and `DsStop` (`stop()` joins the pool).

A flush is `GroupSnap` (the copy of `_logger`), then `FlSwap` (`_buffer.swap`) and `FlRoll` (`roll(qt)`). It returns to `ret[a]`. A log line is a number, the file is the sequence of rolled lines, and `roll()` appends one batch as a unit. `_mutex` of the roll is taken only by `Conf`, so it is left out. `setupThread` and `unSetupThread` are not called once the destructor has started: the group must outlive those calls.

### LoggerBuffer (`tc_logger.cpp`)

`LoggerBuffer` is the `std::streambuf` behind one log statement, and so one thread. Its state is a value, not a variable. The operators compute what the code does to it:

- `NewLoggerBuffer`: the constructor. The put area is allocated only with a roll.
- `Xsputn`/`PutAll`/`SputC`: `xsputn` puts characters one by one and calls `overflow` when the area is full.
- `Overflow`: `sync` at `MAX_BUFFER_LENGTH`, otherwise `Reserve(2 * _buffer_len)`.
- `Reserve`: clamps to the limit and keeps the characters already put.
- `Sync`: one `write()` of the characters held.
- `StatementWrites`: one statement, from the constructor through one `xsputn` per `operator<<` to the destructor's `sync`. Its value is the sequence of `write()` calls.

A character is its position in the statement, so the check sees loss, duplication and reordering. `StatementsCutAtLimit` compares `StatementWrites` with `ExpectedWrites`, a direct definition: the text arrives whole and in order, in writes of `max(buffer_len, MAX_BUFFER_LENGTH)` characters except the last, and no write is empty. The comparison covers every initial length in `BufferLens`, with and without a roll, and every way of cutting a statement into two pieces of at most `MaxPut` characters. It is a formula of constants, so TLC evaluates it once. The `logger` run asserts it in every state as the invariant `LoggerBufferWrites`.

## Runs

| Run | Expect | What it shows |
|---|---|---|
| `timeout_queue` (`TimeoutQueue.cfg`) | pass | Two callers, a wrapping 2-bit id, responses, pop/swap, the sweeper, and a clock that may step back once. The two structures agree (`IndexesAgree`). The cursor is the first unpopped node (`CursorIsFirstUnpopped`). No request is finished twice when a response races the sweeper's unlocked callback (`CompletedAtMostOnce`). Every request finishes (`EveryRequestCompletes`). The queue implements `TimeoutRegistry` (`RegistryRefinement`). 81,932 states. |
| `async_proc` (`AsyncProcThread.cfg`) | pass | Properties of the ring itself: `PushFailsOnlyWhenFull` and `FifoRing` (the ring holds exactly the published and not yet popped values, in order). Properties of the worker: callbacks run in order (`DispatchedInOrder`). Every accepted response is dispatched (`EveryAcceptedDispatched`) even when a notify is lost between `empty()` and `timedWait`. `terminate()` ends the loop (`TerminateTakesEffect`). |
| `loop_queue_reorder` | violation | `FifoRing` with `StoreReorder`: the producer publishes `_iTail` before the slot store it covers is visible, so a pop from then on could read the old slot; the trace ends at that publish. |
| `thread_pool` (`ThreadPool.cfg`) | pass | Until `stop()` begins no job is dropped: each exec'd job not yet run is queued or held by the worker that popped it (`NoJobDroppedBeforeStop`). `_busthread` is exactly the workers between insert and erase (`BusyAreRunning`). Every job exec'd on a started pool runs unless `stop()` has begun (`EveryJobRuns`). A `waitForAllDone` with a positive timeout always returns, however often `idle()` wakes it (`TimedWaitReturns`). |
| `thread_pool_waitdone` | violation | `WaitMeansAllDone`: `waitForAllDone` returns true while a popped job has not run. The pop and the `_busthread` insert are separate critical sections. |
| `consistent_hash` (`ConsistentHash.cfg`) | pass | On every sorted ring, a code between hashes goes to the next entry (`SearchFindsSuccessor`), and removing a node moves only its keys (`RemovalMovesOnlyItsKeys`). |
| `consistent_hash_bounds` | violation | `SearchInBounds`: a code equal to the last hash reads `_vHashList[size()]`. |
| `communicator` (`Communicator.cfg`) | pass | Over both constructors, two business threads, the admin commands and `terminate()` in every order, the following hold. No two threads are inside the lock at once, through `initialize()`'s nested lock (`MutexExclusive`). No `CommunicatorEpoll` is made twice (`EpollCreatedOnce`). After `initialize()`, `_clientThreadNum` is clamped and exactly the first `_clientThreadNum` slots have a network thread, whatever `setProperty` did meanwhile (`EpollMatchesThreadNum`). About 160,000 states. The run is limited to behaviours without a crash: crashes are what `communicator_deref` shows. |
| `communicator_deref` | violation | `NoBadDeref`: a `tars.loadproperty` (or a second `getCommunicator(conf)`) before any proxy call runs `reloadProperty()`, which loops over the never-written `_clientThreadNum`. The comment at line 193 says it is 0 then. With the default constructor, `_communicatorEpoll[0]` is NULL. |
| `factory` (`Factory.cfg`) | pass | Two threads, one name, two calls each, exit and late callers, under all six policy pairs. Every thread holding a live factory holds `_pInstance` (`OneInstance`), and at most one `destroySingleton` is pending (`TypeOK`). Callers for one name get the communicator `_comms` holds (`OneCommunicatorPerName`). No thread ever uses a destroyed factory, even after exit (`NoDeadReference`). About 4,500 states. |
| `logger` (`Logger.cfg`) | pass | One writer, two pool threads, three `setupThread`/`unSetupThread` calls and the destructor, in every order. No line is lost or rolled twice while several threads flush at once (`NoLossNoDup`). A line in `_buffer` while the roll's group is set and running reaches the file (`BufferedEventuallyLogged`). This includes a line pushed between `unSetupThread`'s group flush and its clearing of `_pThreadGroup`. It also includes a line stranded by a `write()` that read `_pThreadGroup` before the clear and pushed after the roll's last flush: the next `setupThread`'s group takes that line. The destructor returns (`GroupStops`), even when `notifyAll` lands between a pool thread's `_bTerminate` test and its wait. A statement's `LoggerBuffer` hands its text to `write()` whole and in order, cut only at the `MAX_BUFFER_LENGTH` boundary of `overflow()` (`LoggerBufferWrites`). About 143,000 states. Deadlock is not checked: once the group is destroyed and every line is written, every thread has ended. |
| `config_roundtrip` | violation | `RoundTrip`: `parse(tostr(parse(t)))` differs from `parse(t)`. Parameters outside any section are dropped, and top-level sections come back in name order. A value line `a\\=a` comes back as a different key. |

Each property of a passing run has a mutant in `PROJECT.json`: a plausible
slip in one mapped definition under which TLC finds the property violated.

## Bounds

- **TimeoutQueue.**
  - `IdBits = 2` gives ids 1..3, so with four requests the counter wraps onto an outstanding id.
  - `Timeout = 1` and `MaxSweepLag = 1` make a push during a sweep, and an entry exactly at the boundary, reachable.
  - `MaxClockBacks = 1` is one wall-clock step-back per behaviour. The liveness property needs the step-backs to be finite, and a clock that steps back forever is not a real clock.
- **LoopQueue/AsyncProcThread.** `Cap = 2` with four values fills the ring, wraps both indexes and drains it again.
- **ThreadPool.** Two workers and one start job plus two exec'd jobs are enough for two workers to race on `_busthread` and for `exit()` to clear a non-empty queue.
- **Communicator.** Two business threads, `MaxThreads = 2` (`MAX_CLIENT_THREAD_NUM` stands for 64), and `netthread` values 0, 1 and 3. These exercise the clamp at both ends, a shrink and a grow between `initialize()` and a reload, and two threads racing into `initialize()`.
- **Config.** Three-line texts over six line shapes (open, close, `a=a`, `a\\=a`, a comment, a bare key). These cover both escape directions, a root parameter, and nesting. The insert operations use two names, three keys and two values.
- **Factory.** Two threads are enough for both to pass the unlocked test and queue on `_tl`, and for both to miss in `_comms`. Two calls each let a thread call again during exit, after `destroySingleton`. `MaxObjects = 3` leaves room for the re-creation that `PhoneixLifetime` allows and for what a mutant creates. Threads are symmetric.
- **Logger.** Weak fairness covers a writer or the configuring thread only once it is inside a call (`pc # "idle"`): whether another line is logged or `setupThread`/`unSetupThread` is called again is the program's choice. Each pool thread is fair (`timedWait(100)` always returns), and so is the destructor once it has begun. Starting and destroying the group are the owner's choice and are not fair.
- **ConsistentHash.** Two nodes, hash codes 0..4 and up to four entries give rings with duplicate hashes, every position of a code relative to the entries, and removal of a node with one or two entries.

## Fairness

- **TimeoutQueue.** Weak fairness covers the caller's step from `generateId` to `push`, the sweeper (the client's network thread calls `timeout(df)` on every loop) and the clock. Responses are not fair: a server may never answer.
- **AsyncProcThread.** Weak fairness covers both threads' steps. `timedWait(1000)` always returns. `terminate()` is not required to happen.
- **Communicator.** Weak fairness per actor: a thread that has entered a call finishes it unless it blocks on a lock. The locks are the only waits, so a deadlock would show as TLC's deadlock check.
- **Factory.** No fairness: only safety is checked.
- **Logger.** Weak fairness covers a writer or the configuring thread only once it is inside a call (`pc # "idle"`): whether another line is logged or `setupThread`/`unSetupThread` is called again is the program's choice. Each pool thread is fair (`timedWait(100)` always returns), and so is the destructor once it has begun. Starting and destroying the group are the owner's choice and are not fair.
- **ThreadPool.** Weak fairness covers each worker (`pop_front` and `timedWait` return within 1000 ms), the waiter (a timed wait returns within its timeout), and a thread that is inside `stop()`. Nothing obliges anyone to `start`, `exec` or call `stop`.

## Not modelled (yet), and why

- **Time provider (`tc_timeprovider.cpp`)**: the two-slot buffer flip, `setTsc` and `addTimeOffset` on the reader side. This is planned.
- **Publication order in `TC_Singleton`**: `Factory` takes `_pInstance = create()` to become visible after the constructor's stores. With no fence, that order is not guaranteed. The same unfenced publication is what `loop_queue_reorder` shows for `TC_LoopQueue`, and no run explores it for the singleton.
- **`waitForAllDone(-1)` with no job after `start()`**: `_bAllDone` stays false and the call never returns. No run checks it: `EveryJobRuns` covers pools that are given jobs.
- **Communicator's data-only calls.** `initClientConfig`, `stringToProxy`, the `ServantProxyFactory`, and the report and locator settings are not modelled. `TC_ThreadRecMutex::tryLock` and the monitor's `count()` are not modelled either.
- **Config paths.** `parseDomainName` splits a `/a/b<k>` path into domains and a parameter; the model's getters take the domain path already split. `getDomainLine` and copy construction are not modelled.
- **`tc_option.cpp`** is sequential parsing.
- **The logger's file handling, and split statements.** The roll policies and file I/O live in `tc_logger.h`, which is not in this tree. The dyeing thread-id table only tags a line. `Logger` writes one line per statement, so it does not check how the pieces of a statement longer than `MAX_BUFFER_LENGTH` interleave with other writers' lines. A `buffer_len` of 0 with a roll is also left out. There, `reserve(0)` never grows the area, and `sputc` re-enters `overflow` without end, in the code as in `SputC`.
- **What the logger's properties leave open.** A line stranded by a final `unSetupThread` stays in `_buffer` until the roll is set up again, if ever. `BufferedEventuallyLogged` checks only that a re-setup recovers it, because a property that the line always reaches the file would fail. Two concurrent flushes can roll batches out of write order. Each would be a violation run, and the project has no run slot left for them.
- **A clock step-back against the sweep.** The `timeout_queue` run lets the clock step back once, and its properties hold. A violation run used to show that `timeout(df)` then stops at a younger head and leaves an older, expired entry behind. That run was retired to make room for the `logger` run. What is still checked is the consequence: in `timeout_queue`, the entry left behind is timed out by a later sweep (`EveryRequestCompletes`).
- **`tc_openssl.cpp`, `tc_sslmgr.cpp`** are wrappers over OpenSSL calls.
- **`Application.cpp`** handles start-up, admin commands and configuration loading. Most of it is I/O around objects not in this tree.
- **Thread lifetimes and memory**: the `AsyncProcThread` destructor deletes the queue without a join, and the thread pool deletes workers. Whether owners join first is decided by code outside this tree.
- **`push_back(vector)`, the four-argument `push_back`, `get_front` and `pop_front()` of `TC_LoopQueue`** are not modelled: no caller in this tree uses them.
