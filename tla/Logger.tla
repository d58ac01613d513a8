------------------------------- MODULE Logger -------------------------------
(***************************************************************************)
(* The asynchronous log path of src/cpp/util/src/tc_logger.cpp: one       *)
(* TC_LoggerRoll (a log file) and the TC_LoggerThreadGroup that flushes   *)
(* it from its own TC_ThreadPool.                                         *)
(*                                                                        *)
(*  - Writers call write() (from LoggerBuffer::sync): with a thread group *)
(*    set, the line is pushed onto _buffer; without one it is rolled at   *)
(*    once.  _pThreadGroup is read without any lock.                      *)
(*  - Conf calls setupThread(group) / unSetupThread() under the roll's    *)
(*    _mutex, which write() and flush() never take.                       *)
(*  - Pool threads run TC_LoggerThreadGroup::run(): timedWait(100), then  *)
(*    flush every registered logger, until _bTerminate.                   *)
(*  - Owner starts the group and later runs its destructor.               *)
(*                                                                        *)
(* Data abstractions: a log line is a number (the order write() was       *)
(* called in); the file is the sequence of lines roll() appended.         *)
(* _buffer is a TC_ThreadQueue, whose push_back and swap are atomic under *)
(* its own lock; roll() (in the roll policies of tc_logger.h) writes one  *)
(* batch as a unit.  The group's monitor makes each of register,          *)
(* unregister and the copy of _logger one step.  Time is not counted: a   *)
(* timedWait may end at any moment.                                       *)
(***************************************************************************)
EXTENDS Naturals, Sequences, FiniteSets, SequencesExt, LoggerBuffer

CONSTANTS
  Writers,   \* threads logging through the roll
  Pool,      \* the group's TC_ThreadPool workers
  Conf,      \* the thread calling setupThread / unSetupThread
  Owner,     \* the thread that starts and destroys the group
  MaxMsgs,   \* bound: lines written in all
  MaxConf    \* bound: setupThread / unSetupThread calls

Actors == Writers \cup Pool \cup {Conf, Owner}
Msgs == 1 .. MaxMsgs

ASSUME MaxMsgs \in Nat /\ MaxConf \in Nat

VARIABLES
  group,      \* _pThreadGroup of the roll is set
  registered, \* the roll is in the group's _logger set
  buffer,     \* the roll's _buffer
  file,       \* what roll() has written, in order
  terminate,  \* the group's _bTerminate
  gstate,     \* the group: "new" | "started" | "destroying" | "destroyed"
  pc,         \* per actor
  ret,        \* where a flush() returns to, per actor
  batch,      \* the local queue flush() swapped out, per actor
  line,       \* the line a writer is writing (0: none)
  nextMsg,    \* the next line to be written
  op,         \* the call Conf is in: "setup" | "unsetup"
  confCalls   \* calls Conf has made

vars == <<group, registered, buffer, file, terminate, gstate, pc, ret, batch,
          line, nextMsg, op, confCalls>>

\* TC_LoggerThreadGroup() sets _bTerminate(false); a TC_LoggerRoll starts
\* with no group, an empty buffer and, for the model, an empty file.
Init ==
  /\ group = FALSE /\ registered = FALSE
  /\ buffer = <<>> /\ file = <<>>
  /\ terminate = FALSE /\ gstate = "new"
  /\ pc = [a \in Actors |-> "idle"]
  /\ ret = [a \in Actors |-> "idle"]
  /\ batch = [a \in Actors |-> <<>>]
  /\ line = [w \in Writers |-> 0]
  /\ nextMsg = 1 /\ op = "unsetup" /\ confCalls = 0

Goto(a, l) == pc' = [pc EXCEPT ![a] = l]

-----------------------------------------------------------------------------
(* TC_LoggerRoll::write                                                   *)

\* LoggerBuffer::sync hands a line to write(), which tests _pThreadGroup.
WrTest(w) ==
  /\ pc[w] = "idle" /\ nextMsg <= MaxMsgs
  /\ line' = [line EXCEPT ![w] = nextMsg]
  /\ nextMsg' = nextMsg + 1
  /\ Goto(w, IF group THEN "wr_push" ELSE "wr_roll")
  /\ UNCHANGED <<group, registered, buffer, file, terminate, gstate, ret,
                 batch, op, confCalls>>

\* _buffer.push_back(...): the group read before may be gone by now.
WrPush(w) ==
  /\ pc[w] = "wr_push"
  /\ buffer' = Append(buffer, line[w])
  /\ line' = [line EXCEPT ![w] = 0]
  /\ Goto(w, "idle")
  /\ UNCHANGED <<group, registered, file, terminate, gstate, ret, batch,
                 nextMsg, op, confCalls>>

\* No group: roll(ds) of a one-line queue, synchronously.
WrRoll(w) ==
  /\ pc[w] = "wr_roll"
  /\ file' = Append(file, line[w])
  /\ line' = [line EXCEPT ![w] = 0]
  /\ Goto(w, "idle")
  /\ UNCHANGED <<group, registered, buffer, terminate, gstate, ret, batch,
                 nextMsg, op, confCalls>>

-----------------------------------------------------------------------------
(* TC_LoggerRoll::flush and TC_LoggerThreadGroup::flush, called by Conf,  *)
(* the pool threads and the owner; they return to ret[a].                 *)

\* Slip: the buffer is copied out but not emptied.
FlSwapNoClear(a) ==
  /\ pc[a] = "fl_swap"
  /\ batch' = [batch EXCEPT ![a] = buffer]
  /\ Goto(a, IF buffer = <<>> THEN ret[a] ELSE "fl_roll")
  /\ UNCHANGED <<group, registered, buffer, file, terminate, gstate, ret,
                 line, nextMsg, op, confCalls>>

\* _buffer.swap(qt); an empty qt is not rolled.
FlSwap(a) ==
  /\ pc[a] = "fl_swap"
  /\ batch' = [batch EXCEPT ![a] = buffer]
  /\ buffer' = <<>>
  /\ Goto(a, IF buffer = <<>> THEN ret[a] ELSE "fl_roll")
  /\ UNCHANGED <<group, registered, file, terminate, gstate, ret,
                 line, nextMsg, op, confCalls>>

\* roll(qt)
FlRoll(a) ==
  /\ pc[a] = "fl_roll"
  /\ file' = file \o batch[a]
  /\ batch' = [batch EXCEPT ![a] = <<>>]
  /\ Goto(a, ret[a])
  /\ UNCHANGED <<group, registered, buffer, terminate, gstate, ret,
                 line, nextMsg, op, confCalls>>

\* The group's flush(): copy _logger under the monitor, then flush each
\* logger of the copy.
GroupSnap(a) ==
  /\ pc[a] = "gf_snap"
  /\ Goto(a, IF registered THEN "fl_swap" ELSE ret[a])
  /\ UNCHANGED <<group, registered, buffer, file, terminate, gstate, ret,
                 batch, line, nextMsg, op, confCalls>>

-----------------------------------------------------------------------------
(* setupThread / unSetupThread (Conf)                                     *)

\* Returning from unSetupThread(): setupThread goes on, unSetupThread ends.
After(o) == IF o = "setup" THEN "su_set" ELSE "idle"

\* setupThread(g) or unSetupThread() starts; setupThread's first statement
\* is unSetupThread().  Under _mutex: if (_pThreadGroup != NULL) the
\* group's flush() runs first, else only the roll's own flush().
UsTest ==
  /\ pc[Conf] = "idle" /\ confCalls < MaxConf
  /\ gstate \in {"new", "started"}
  /\ \E o \in {"setup", "unsetup"} :
       /\ op' = o
       /\ ret' = [ret EXCEPT ![Conf] = IF group THEN "us_unreg" ELSE After(o)]
  /\ Goto(Conf, IF group THEN "gf_snap" ELSE "fl_swap")
  /\ confCalls' = confCalls + 1
  /\ UNCHANGED <<group, registered, buffer, file, terminate, gstate,
                 batch, line, nextMsg>>

\* _pThreadGroup->unRegisterLogger(self), under the group's monitor.
UsUnreg ==
  /\ pc[Conf] = "us_unreg"
  /\ registered' = FALSE
  /\ Goto(Conf, "us_null")
  /\ UNCHANGED <<group, buffer, file, terminate, gstate, ret, batch,
                 line, nextMsg, op, confCalls>>

\* Slip: unSetupThread() ends without its trailing flush().
UsNullNoFlush ==
  /\ pc[Conf] = "us_null"
  /\ group' = FALSE
  /\ Goto(Conf, After(op))
  /\ UNCHANGED <<registered, buffer, file, terminate, gstate, ret, batch,
                 line, nextMsg, op, confCalls>>

\* _pThreadGroup = NULL; then the roll's own flush().
UsNull ==
  /\ pc[Conf] = "us_null"
  /\ group' = FALSE
  /\ ret' = [ret EXCEPT ![Conf] = After(op)]
  /\ Goto(Conf, "fl_swap")
  /\ UNCHANGED <<registered, buffer, file, terminate, gstate, batch,
                 line, nextMsg, op, confCalls>>

\* setupThread: _pThreadGroup = pThreadGroup, still under _mutex ...
SuSet ==
  /\ pc[Conf] = "su_set"
  /\ group' = TRUE
  /\ Goto(Conf, "su_reg")
  /\ UNCHANGED <<registered, buffer, file, terminate, gstate, ret, batch,
                 line, nextMsg, op, confCalls>>

\* ... then _pThreadGroup->registerLogger(self) under the group's monitor.
SuReg ==
  /\ pc[Conf] = "su_reg"
  /\ registered' = TRUE
  /\ Goto(Conf, "idle")
  /\ UNCHANGED <<group, buffer, file, terminate, gstate, ret, batch,
                 line, nextMsg, op, confCalls>>

-----------------------------------------------------------------------------
(* TC_LoggerThreadGroup: start(), run() on each pool thread, and the      *)
(* destructor (Owner)                                                     *)

\* start(n): _tpool.init(n) and start(), then exec(run) once per thread.
GStart ==
  /\ pc[Owner] = "idle"
  /\ gstate' = "started"
  /\ pc' = [a \in Actors |-> CASE a \in Pool -> "rn_test"
                              [] a = Owner  -> "o_run"
                              [] OTHER      -> pc[a]]
  /\ UNCHANGED <<group, registered, buffer, file, terminate, ret, batch,
                 line, nextMsg, op, confCalls>>

\* while (!_bTerminate): _bTerminate is read without the monitor.
RnTest(p) ==
  /\ pc[p] = "rn_test"
  /\ Goto(p, IF terminate THEN "exited" ELSE "rn_lock")
  /\ UNCHANGED <<group, registered, buffer, file, terminate, gstate, ret,
                 batch, line, nextMsg, op, confCalls>>

\* Lock lock(*this); timedWait(100) releases the monitor and waits.
RnLock(p) ==
  /\ pc[p] = "rn_lock"
  /\ Goto(p, "rn_wait")
  /\ UNCHANGED <<group, registered, buffer, file, terminate, gstate, ret,
                 batch, line, nextMsg, op, confCalls>>

\* Slip: an untimed wait(): only a notify ends it.
RnWakeUntimed(p) ==
  /\ pc[p] = "rn_wait" /\ FALSE
  /\ Goto(p, "gf_snap")
  /\ ret' = [ret EXCEPT ![p] = "rn_test"]
  /\ UNCHANGED <<group, registered, buffer, file, terminate, gstate,
                 batch, line, nextMsg, op, confCalls>>

\* timedWait(100) returns after 100 ms; the lock's scope ends; flush().
RnWake(p) ==
  /\ pc[p] = "rn_wait"
  /\ Goto(p, "gf_snap")
  /\ ret' = [ret EXCEPT ![p] = "rn_test"]
  /\ UNCHANGED <<group, registered, buffer, file, terminate, gstate,
                 batch, line, nextMsg, op, confCalls>>

\* ~TC_LoggerThreadGroup() starts with flush().  Its owner no longer
\* calls setupThread / unSetupThread (see UsTest).
DsBegin ==
  /\ pc[Owner] \in {"idle", "o_run"} /\ pc[Conf] = "idle"
  /\ gstate' = "destroying"
  /\ Goto(Owner, "gf_snap")
  /\ ret' = [ret EXCEPT ![Owner] = "ds_term"]
  /\ UNCHANGED <<group, registered, buffer, file, terminate, batch,
                 line, nextMsg, op, confCalls>>

\* _bTerminate = true; then { Lock; notifyAll(); }, which ends the wait of
\* every pool thread waiting at that moment.
DsTerm ==
  /\ pc[Owner] = "ds_term"
  /\ terminate' = TRUE
  /\ pc' = [a \in Actors |-> CASE a = Owner -> "ds_stop"
                              [] pc[a] = "rn_wait" -> "gf_snap"
                              [] OTHER -> pc[a]]
  /\ ret' = [a \in Actors |-> IF pc[a] = "rn_wait" THEN "rn_test" ELSE ret[a]]
  /\ UNCHANGED <<group, registered, buffer, file, gstate, batch,
                 line, nextMsg, op, confCalls>>

\* _tpool.stop() joins every worker, so it returns once each run() has
\* left its loop; waitForAllDone() then returns at once (stop set
\* _bAllDone).
DsStop ==
  /\ pc[Owner] = "ds_stop"
  /\ \A p \in Pool : pc[p] \in {"idle", "exited"}
  /\ gstate' = "destroyed"
  /\ Goto(Owner, "o_done")
  /\ UNCHANGED <<group, registered, buffer, file, terminate, ret, batch,
                 line, nextMsg, op, confCalls>>

-----------------------------------------------------------------------------
(* The system                                                             *)

Flush(a) == FlSwap(a) \/ FlRoll(a) \/ GroupSnap(a)

WriterStep(w) == WrTest(w) \/ WrPush(w) \/ WrRoll(w)
PoolStep(p) == RnTest(p) \/ RnLock(p) \/ RnWake(p) \/ Flush(p)
ConfStep == UsTest \/ UsUnreg \/ UsNull \/ SuSet \/ SuReg \/ Flush(Conf)
\* The destructor once it has begun.
Destroying == Flush(Owner) \/ DsTerm \/ DsStop

Next ==
  \/ \E w \in Writers : WriterStep(w)
  \/ \E p \in Pool : PoolStep(p)
  \/ ConfStep
  \/ GStart \/ DsBegin \/ Destroying

\* A thread inside a call goes on with it.  Whether a writer logs another
\* line, Conf calls setupThread/unSetupThread again, or the owner starts or
\* destroys the group is the program's choice, so starting a call is not
\* fair; the pool threads run run() for as long as the group lives.
InCall(a) == pc[a] # "idle"

Spec ==
  /\ Init /\ [][Next]_vars
  /\ \A w \in Writers : WF_vars(InCall(w) /\ WriterStep(w))
  /\ \A p \in Pool : WF_vars(PoolStep(p))
  /\ WF_vars(InCall(Conf) /\ ConfStep) /\ WF_vars(Destroying)

-----------------------------------------------------------------------------
(* Properties                                                             *)

Pcs == {"idle", "wr_push", "wr_roll", "fl_swap", "fl_roll", "gf_snap",
        "us_unreg", "us_null", "su_set", "su_reg", "rn_test", "rn_lock", "rn_wait",
        "exited", "o_run", "ds_term", "ds_stop", "o_done"}

TypeOK ==
  /\ group \in BOOLEAN /\ registered \in BOOLEAN /\ terminate \in BOOLEAN
  /\ buffer \in BoundedSeq(Msgs, MaxMsgs) /\ file \in BoundedSeq(Msgs, MaxMsgs)
  /\ gstate \in {"new", "started", "destroying", "destroyed"}
  /\ pc \in [Actors -> Pcs] /\ ret \in [Actors -> Pcs]
  /\ batch \in [Actors -> Seq(Msgs)]
  /\ line \in [Writers -> 0 .. MaxMsgs]
  /\ nextMsg \in 1 .. MaxMsgs + 1
  /\ op \in {"setup", "unsetup"} /\ confCalls \in 0 .. MaxConf

\* Occurrences of line m in a sequence.
Occ(s, m) == Len(SelectSeq(s, LAMBDA x : x = m))

Copies(m) ==
  Occ(file, m) + Occ(buffer, m) + Cardinality({w \in Writers : line[w] = m})
  + FoldFunction(LAMBDA b, acc : acc + Occ(b, m), 0, batch)

\* Every line written so far is exactly once in a writer's hands, the
\* roll's _buffer, a queue some flush() swapped out, or the file: however
\* the pool threads, unSetupThread() and the destructor flush at once,
\* no line is lost or rolled twice.
NoLossNoDup == \A m \in 1 .. nextMsg - 1 : Copies(m) = 1

\* A line in _buffer while the roll has a group that is started and not
\* yet being destroyed reaches the file: a pool thread's flush,
\* unSetupThread's flushes (before and after unregistering) or the
\* destructor's first flush takes it.  This covers a line stranded by a
\* write() that read _pThreadGroup before unSetupThread cleared it and
\* pushed after the roll's last flush: the next setupThread's group
\* takes it.
BufferedEventuallyLogged ==
  \A m \in Msgs :
    (m \in ToSet(buffer) /\ group /\ gstate = "started") ~> m \in ToSet(file)

\* The destructor returns: every run() loop sees _bTerminate and ends, even
\* when notifyAll() came between its test and its timedWait().
GroupStops == gstate = "destroying" ~> gstate = "destroyed"



\* A statement's text reaches the roll whole and in order, split into
\* write() calls only at the MAX_BUFFER_LENGTH boundary of
\* LoggerBuffer::overflow(), never into an empty write, whatever the
\* initial buffer_len and however the statement is cut into operator<<
\* pieces: at every point of the log path, each write() a writer can be
\* making comes from such a statement.  (The statements do not depend on
\* the state; the formula holds in each state or in none.)
LoggerBufferWrites == nextMsg \in Nat => StatementsCutAtLimit

====
