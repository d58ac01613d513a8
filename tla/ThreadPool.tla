----------------------------- MODULE ThreadPool -----------------------------
(***************************************************************************)
(* TC_ThreadPool (src/cpp/util/src/tc_thread_pool.cpp): worker threads    *)
(* take jobs from _jobqueue (a TC_ThreadQueue, locked internally, whose   *)
(* pop_front waits up to 1000 ms), register in _busthread under _tmutex,  *)
(* run the job, and in idle() deregister and, when _busthread becomes     *)
(* empty, set _bAllDone and notifyAll() waiters.  Before its loop each    *)
(* worker runs one job from _startqueue, if any, without registering.     *)
(* waitForAllDone(-1) holds _tmutex and re-tests finish() after every     *)
(* notify or 1000 ms timeout.  stop() terminates and joins the workers    *)
(* one after the other; each exiting worker clears _jobqueue.             *)
(*                                                                        *)
(* exec(), which pushes a job onto _jobqueue, lives in tc_thread_pool.h   *)
(* (not in this tree); it is modelled from the class's use of _jobqueue.  *)
(* A job is a number; running it is one step.                             *)
(***************************************************************************)
EXTENDS Integers, Sequences, FiniteSets

CONSTANTS
  NWorkers,   \* threads created by init(num)
  StartJobs,  \* jobs waiting in _startqueue when start() is called
  MaxJobs     \* bound: jobs exec()uted in one behaviour

ASSUME NWorkers \in Nat \ {0} /\ StartJobs \in Nat /\ MaxJobs \in Nat

Workers == 1 .. NWorkers
Jobs    == 1 .. (StartJobs + MaxJobs)    \* start jobs first, then exec'd ones

VARIABLES
  startq,    \* _startqueue
  jobq,      \* _jobqueue
  busy,      \* _busthread
  allDone,   \* _bAllDone
  pool,      \* "created" | "started" | "stopping" | "stopped"
  stopAt,    \* stop(): the worker being terminated and joined
  wpc,       \* per worker: where run() is
  wjob,      \* per worker: the job it holds
  wterm,     \* per worker: _bTerminate
  waiter,    \* the thread in waitForAllDone: "out", "test"/"sleep" (-1),
             \* "ttest"/"tsleep"/"twoke"/"tdue" (a positive timeout),
             \* "returned" (true) or "failed" (false)
  nextJob,   \* next job number exec() uses
  submitted, \* jobs exec()uted (history)
  done       \* jobs that have run (history)

vars == <<startq, jobq, busy, allDone, pool, stopAt, wpc, wjob, wterm, waiter,
          nextJob, submitted, done>>

WPCs == {"new", "start", "startrun", "loop", "get", "reg", "run", "idle", "exit", "dead"}

\* finish(): the four tests, each under its own lock.
Finished == startq = <<>> /\ jobq = <<>> /\ busy = {} /\ allDone

Init ==
  /\ startq = [i \in 1 .. StartJobs |-> i]
  /\ jobq = <<>>
  /\ busy = {}
  /\ allDone = TRUE
  /\ pool = "created"
  /\ stopAt = 1
  /\ wpc = [w \in Workers |-> "new"]
  /\ wjob = [w \in Workers |-> 0]
  /\ wterm = [w \in Workers |-> FALSE]
  /\ waiter = "out"
  /\ nextJob = StartJobs + 1
  /\ submitted = {}
  /\ done = {}

-----------------------------------------------------------------------------
(* The pool's owner.                                                      *)

\* start(): every worker thread starts; _bAllDone = false.
Start ==
  /\ pool = "created"
  /\ pool' = "started"
  /\ wpc' = [w \in Workers |-> "start"]
  /\ allDone' = FALSE
  /\ UNCHANGED <<startq, jobq, busy, stopAt, wjob, wterm, waiter, nextJob, submitted, done>>

\* exec(job): _jobqueue.push_back(job), which wakes a worker in pop_front.
Exec ==
  /\ nextJob <= StartJobs + MaxJobs
  /\ jobq' = Append(jobq, nextJob)
  /\ submitted' = submitted \cup {nextJob}
  /\ nextJob' = nextJob + 1
  /\ UNCHANGED <<startq, busy, allDone, pool, stopAt, wpc, wjob, wterm, waiter, done>>

\* stop(), for worker stopAt: terminate() sets _bTerminate and notifies.
StopTerminate ==
  /\ pool \in {"started", "stopping"}
  /\ stopAt <= NWorkers
  /\ ~wterm[stopAt]
  /\ pool' = "stopping"
  /\ wterm' = [wterm EXCEPT ![stopAt] = TRUE]
  /\ UNCHANGED <<startq, jobq, busy, allDone, stopAt, wpc, wjob, waiter, nextJob, submitted, done>>

\* ... then join() returns once that worker has left run(); after the
\* last one, _bAllDone = true.
StopJoin ==
  /\ pool = "stopping"
  /\ wterm[stopAt] /\ wpc[stopAt] = "dead"
  /\ stopAt' = stopAt + 1
  /\ pool' = IF stopAt = NWorkers THEN "stopped" ELSE pool
  /\ allDone' = IF stopAt = NWorkers THEN TRUE ELSE allDone
  /\ UNCHANGED <<startq, jobq, busy, wpc, wjob, wterm, waiter, nextJob, submitted, done>>

-----------------------------------------------------------------------------
(* ThreadWorker::run().                                                   *)

SetPc(w, pc) == wpc' = [wpc EXCEPT ![w] = pc]

\* get(): one job from _startqueue, if there is one.
GetStart(w) ==
  /\ wpc[w] = "start"
  /\ IF startq # <<>>
       THEN /\ wjob' = [wjob EXCEPT ![w] = Head(startq)]
            /\ startq' = Tail(startq)
            /\ SetPc(w, "startrun")
       ELSE /\ SetPc(w, "loop")
            /\ UNCHANGED <<wjob, startq>>
  /\ UNCHANGED <<jobq, busy, allDone, pool, stopAt, wterm, waiter, nextJob, submitted, done>>

RunStartJob(w) ==
  /\ wpc[w] = "startrun"
  /\ done' = done \cup {wjob[w]}
  /\ SetPc(w, "loop")
  /\ UNCHANGED <<startq, jobq, busy, allDone, pool, stopAt, wjob, wterm, waiter, nextJob, submitted>>

\* while (!_bTerminate)
LoopTest(w) ==
  /\ wpc[w] = "loop"
  /\ SetPc(w, IF wterm[w] THEN "exit" ELSE "get")
  /\ UNCHANGED <<startq, jobq, busy, allDone, pool, stopAt, wjob, wterm, waiter, nextJob, submitted, done>>

\* get(this): _jobqueue.pop_front(p, 1000) returns a job ...
GetJob(w) ==
  /\ wpc[w] = "get"
  /\ jobq # <<>>
  /\ wjob' = [wjob EXCEPT ![w] = Head(jobq)]
  /\ jobq' = Tail(jobq)
  /\ SetPc(w, "reg")
  /\ UNCHANGED <<startq, busy, allDone, pool, stopAt, wterm, waiter, nextJob, submitted, done>>

\* Slip: a NULL from get(this) ends the worker's loop.
GetTimeoutExits(w) ==
  /\ wpc[w] = "get"
  /\ jobq = <<>>
  /\ SetPc(w, "exit")
  /\ UNCHANGED <<startq, jobq, busy, allDone, pool, stopAt, wjob, wterm, waiter, nextJob, submitted, done>>

\* ... or times out after 1000 ms (or is woken by terminate) with nothing.
GetTimeout(w) ==
  /\ wpc[w] = "get"
  /\ jobq = <<>>
  /\ SetPc(w, "loop")
  /\ UNCHANGED <<startq, jobq, busy, allDone, pool, stopAt, wjob, wterm, waiter, nextJob, submitted, done>>

\* ... and then, in a second critical section on _tmutex, _busthread.insert.
Register(w) ==
  /\ wpc[w] = "reg"
  /\ busy' = busy \cup {w}
  /\ SetPc(w, "run")
  /\ UNCHANGED <<startq, jobq, allDone, pool, stopAt, wjob, wterm, waiter, nextJob, submitted, done>>

RunJob(w) ==
  /\ wpc[w] = "run"
  /\ done' = done \cup {wjob[w]}
  /\ SetPc(w, "idle")
  /\ UNCHANGED <<startq, jobq, busy, allDone, pool, stopAt, wjob, wterm, waiter, nextJob, submitted>>

\* notifyAll() on _tmutex: timedWait returns true in the waiting thread.
Woken(wt) == CASE wt = "sleep"  -> "test"
               [] wt = "tsleep" -> "twoke"
               [] OTHER         -> wt

\* Slip: _busthread.clear() where erase(ptw) was meant.
IdleClearAll(w) ==
  /\ wpc[w] = "idle"
  /\ busy' = {}
  /\ allDone' = TRUE
  /\ waiter' = Woken(waiter)
  /\ SetPc(w, "loop")
  /\ UNCHANGED <<startq, jobq, pool, stopAt, wjob, wterm, nextJob, submitted, done>>

\* idle(this): under _tmutex, _busthread.erase; if it is now empty,
\* _bAllDone = true and notifyAll() wakes waitForAllDone.
Idle(w) ==
  /\ wpc[w] = "idle"
  /\ busy' = busy \ {w}
  /\ allDone' = IF busy' = {} THEN TRUE ELSE allDone
  /\ waiter' = IF busy' = {} THEN Woken(waiter) ELSE waiter
  /\ SetPc(w, "loop")
  /\ UNCHANGED <<startq, jobq, pool, stopAt, wjob, wterm, nextJob, submitted, done>>

\* exit(): _jobqueue.clear(); the thread ends.
Exit(w) ==
  /\ wpc[w] = "exit"
  /\ jobq' = <<>>
  /\ SetPc(w, "dead")
  /\ UNCHANGED <<startq, busy, allDone, pool, stopAt, wjob, wterm, waiter, nextJob, submitted, done>>

Worker(w) ==
  \/ GetStart(w) \/ RunStartJob(w) \/ LoopTest(w) \/ GetJob(w) \/ GetTimeout(w)
  \/ Register(w) \/ RunJob(w) \/ Idle(w) \/ Exit(w)

-----------------------------------------------------------------------------
(* waitForAllDone(millsecond), lines 231-268: Lock sync(_tmutex); start1: *)
(* if (finish()) return true.  With -1: timedWait(1000); goto start1.     *)
(* Otherwise start2: b = timedWait(remaining); if (finish()) return true; *)
(* if (!b) return false; remaining = max(0, m - elapsed); goto start2.    *)
(* Time is not counted: a timed wait may run out at any point.            *)

\* The call, with -1 or with a positive timeout.
WaitCall ==
  /\ waiter = "out"
  /\ waiter' \in {"test", "ttest"}
  /\ UNCHANGED <<startq, jobq, busy, allDone, pool, stopAt, wpc, wjob, wterm, nextJob, submitted, done>>

\* start1: the finish() test, then the -1 or the timed branch.
WaitTest ==
  /\ waiter \in {"test", "ttest"}
  /\ waiter' = CASE Finished        -> "returned"
                  [] waiter = "test" -> "sleep"
                  [] OTHER           -> "tsleep"
  /\ UNCHANGED <<startq, jobq, busy, allDone, pool, stopAt, wpc, wjob, wterm, nextJob, submitted, done>>

WaitTimeout ==
  /\ waiter = "sleep"
  /\ waiter' = "test"
  /\ UNCHANGED <<startq, jobq, busy, allDone, pool, stopAt, wpc, wjob, wterm, nextJob, submitted, done>>

\* start2: timedWait(millsecond) runs out and returns false.
TimedWaitExpire ==
  /\ waiter = "tsleep"
  /\ waiter' = "tdue"
  /\ UNCHANGED <<startq, jobq, busy, allDone, pool, stopAt, wpc, wjob, wterm, nextJob, submitted, done>>

\* Slip: "if(!b) return false" dropped; the wait starts again.
TimedWaitTestNoFail ==
  /\ waiter \in {"twoke", "tdue"}
  /\ waiter' = IF Finished THEN "returned" ELSE "tsleep"
  /\ UNCHANGED <<startq, jobq, busy, allDone, pool, stopAt, wpc, wjob, wterm, nextJob, submitted, done>>

\* After timedWait: finish() gives true, a timeout false, a notify
\* another wait for the time left.
TimedWaitTest ==
  /\ waiter \in {"twoke", "tdue"}
  /\ waiter' = CASE Finished        -> "returned"
                  [] waiter = "tdue" -> "failed"
                  [] OTHER           -> "tsleep"
  /\ UNCHANGED <<startq, jobq, busy, allDone, pool, stopAt, wpc, wjob, wterm, nextJob, submitted, done>>

Waiter == WaitCall \/ WaitTest \/ WaitTimeout \/ TimedWaitExpire \/ TimedWaitTest

\* Every worker thread has ended and nobody is waiting: the pool is gone.
Quiescent ==
  /\ pool = "stopped" /\ waiter \in {"out", "returned", "failed"}
  /\ UNCHANGED vars

Next ==
  \/ Start \/ Exec \/ StopTerminate \/ StopJoin
  \/ \E w \in Workers : Worker(w)
  \/ Waiter
  \/ Quiescent

\* Worker threads and the waiting thread are scheduled; pop_front and
\* timedWait return within 1000 ms; a thread inside stop() goes on with
\* it.  Nobody is obliged to start, exec or call stop().
Spec ==
  /\ Init /\ [][Next]_vars
  /\ \A w \in Workers : WF_vars(Worker(w))
  /\ WF_vars(WaitTest \/ WaitTimeout \/ TimedWaitExpire \/ TimedWaitTest)
  /\ WF_vars(pool = "stopping" /\ (StopTerminate \/ StopJoin))

-----------------------------------------------------------------------------
(* Properties                                                             *)

\* Until stop() begins no job is dropped: every exec()uted job that has not
\* run is still in _jobqueue or held by the worker whose get(this) popped
\* it.  exit() clears _jobqueue (line 111) and a worker reaches it only
\* after terminate() set its _bTerminate, so a queued job can go missing
\* only once stop() has started, however pop_front's timeouts, the
\* _busthread updates and the other workers interleave.
NoJobDroppedBeforeStop ==
  pool \in {"created", "started"} =>
    \A j \in submitted \ done :
      \/ j \in {jobq[i] : i \in DOMAIN jobq}
      \/ \E w \in Workers : wjob[w] = j /\ wpc[w] \in {"reg", "run"}

\* _busthread is exactly the set of workers between the insert in get(this)
\* and the erase in idle(): a worker running a queue job is always counted,
\* whatever the other workers' idle() calls do to the set.
BusyAreRunning ==
  busy = {w \in Workers : wpc[w] \in {"run", "idle"}}

\* Once the pool is started, every exec()uted job is run unless stop() has
\* begun (exit() clears the queue): a worker whose pop_front timed out goes
\* back to waiting, and a job popped is always run.
EveryJobRuns ==
  \A j \in Jobs : (j \in submitted /\ pool = "started")
                    ~> (j \in done \/ pool \in {"stopping", "stopped"})

\* When waitForAllDone returns true, every job queued before it returned,
\* in _startqueue or by exec(), has run (the function's name and its "wait
\* until all tasks are finished" comment): a worker that has popped the
\* last job but not yet entered _busthread must not look finished.
WaitMeansAllDone ==
  [][waiter # "returned" /\ waiter' = "returned"
       => (1 .. StartJobs) \cup submitted \subseteq done]_vars

\* waitForAllDone with a positive timeout always returns, true or false,
\* whatever the workers do and however often idle() notifies it: the
\* "if(!b) return false" exit after a wait that ran out.  (With -1 there
\* is no such exit.)
TimedWaitReturns ==
  waiter = "tsleep" ~> waiter \in {"returned", "failed"}

=============================================================================
