-------------------------- MODULE AsyncProcThread --------------------------
(***************************************************************************)
(* AsyncProcThread (src/cpp/servant/libservant/AsyncProcThread.cpp): the  *)
(* async-response worker.  A network thread hands it responses with       *)
(* push_back(msg), which pushes onto a TC_LoopQueue without a lock and    *)
(* then, under the thread's monitor, notify()s; the worker's run() loop   *)
(* tests empty() without the lock, and when empty takes the monitor and   *)
(* timedWait(1000)s before trying pop_front and calling onDispatch.       *)
(*                                                                        *)
(* The queue's own steps are those of LoopQueue; this module adds the     *)
(* monitor, the worker's loop and terminate().  The monitor is held only  *)
(* around notify() and around entering timedWait (which releases it), so  *)
(* each of those is one step.  Slot stores are taken to be visible in   *)
(* program order (StoreReorder = FALSE; LoopQueue checks the other case). *)
(* The per-thread dyeing and host copy of run() touch thread-local data   *)
(* only and are left out.                                                 *)
(***************************************************************************)
EXTENDS LoopQueue

ASSUME ~StoreReorder

VARIABLES
  cpc,         \* worker: "top" | "chk" | "wait" | "sleep" | "pop" | "disp" | "exit"
  cmsg,        \* the ReqMessage the worker popped
  terminate,   \* _terminate
  dispatched,  \* requests whose callback->onDispatch ran, in order (history)
  dropped      \* requests push_back deleted because the queue was full (history)

tvars == <<cpc, cmsg, terminate, dispatched, dropped>>
avars == <<qvars, pvars, got, tvars>>

APInit ==
  /\ QInit /\ PInit /\ got = <<>>
  /\ cpc = "top"
  /\ cmsg = 0
  /\ terminate = FALSE
  /\ dispatched = <<>>
  /\ dropped = {}

-----------------------------------------------------------------------------
(* push_back(msg), lines 54-69, on the network thread: the queue steps,   *)
(* then lock + notify(), then delete msg when the push failed.            *)

QueueStep ==
  /\ PushCheck \/ PushWrite \/ PushEmptyCheck \/ PushAdvance \/ PushSizeCheck
  /\ UNCHANGED <<got, tvars>>

\* notify() wakes the worker if it is in timedWait; a failed push deletes
\* the message, whose callback is then never run.
Notify ==
  /\ ppc = "ret"
  /\ ppc' = "idle"
  /\ cpc' = IF cpc = "sleep" THEN "pop" ELSE cpc
  /\ dropped' = IF ok THEN dropped ELSE dropped \cup {pval}
  /\ UNCHANGED <<qvars, pEnd, pval, ok, bEmpty, nextVal, sent, got,
                 cmsg, terminate, dispatched>>

-----------------------------------------------------------------------------
(* run(), lines 71-120.                                                   *)

\* Slip: the loop also ends once the queue is drained.
LoopTestStopsWhenEmpty ==
  /\ cpc = "top"
  /\ cpc' = IF terminate \/ IsEmpty(iBegin, iEnd) THEN "exit" ELSE "chk"
  /\ UNCHANGED <<qvars, pvars, got, cmsg, terminate, dispatched, dropped>>

\* Slip: the loop does not look at _terminate.
LoopTestIgnoresTerminate ==
  /\ cpc = "top"
  /\ cpc' = "chk"
  /\ UNCHANGED <<qvars, pvars, got, cmsg, terminate, dispatched, dropped>>

\* while (!_terminate)  -- read without the monitor
LoopTest ==
  /\ cpc = "top"
  /\ cpc' = IF terminate THEN "exit" ELSE "chk"
  /\ UNCHANGED <<qvars, pvars, got, cmsg, terminate, dispatched, dropped>>

\* if (_msgQueue->empty())  -- read without the monitor
EmptyTest ==
  /\ cpc = "chk"
  /\ cpc' = IF IsEmpty(iBegin, iEnd) THEN "wait" ELSE "pop"
  /\ UNCHANGED <<qvars, pvars, got, cmsg, terminate, dispatched, dropped>>

\* Lock lock(*this); timedWait(1000): the monitor is released on entry.
WaitBegin ==
  /\ cpc = "wait"
  /\ cpc' = "sleep"
  /\ UNCHANGED <<qvars, pvars, got, cmsg, terminate, dispatched, dropped>>

\* The 1000 ms of timedWait run out (or the wait returns spuriously).
WaitTimeout ==
  /\ cpc = "sleep"
  /\ cpc' = "pop"
  /\ UNCHANGED <<qvars, pvars, got, cmsg, terminate, dispatched, dropped>>

\* Slip: the message is dispatched without testing pop_front's result.
PopMsgUnchecked ==
  /\ cpc = "pop"
  /\ \/ PopFront /\ cmsg' = buf[iEnd]
     \/ PopEmpty /\ UNCHANGED cmsg
  /\ cpc' = "disp"
  /\ UNCHANGED <<terminate, dispatched, dropped>>

\* if (_msgQueue->pop_front(msg))
PopMsg ==
  /\ cpc = "pop"
  /\ \/ PopFront /\ cmsg' = buf[iEnd] /\ cpc' = "disp"
     \/ PopEmpty /\ cpc' = "top" /\ UNCHANGED cmsg
  /\ UNCHANGED <<terminate, dispatched, dropped>>

\* msg->callback->onDispatch(msgPtr), exceptions caught and logged.
Dispatch ==
  /\ cpc = "disp"
  /\ dispatched' = Append(dispatched, cmsg)
  /\ cpc' = "top"
  /\ UNCHANGED <<qvars, pvars, got, cmsg, terminate, dropped>>

\* terminate(), lines 45-52: _terminate = true; notifyAll() under the monitor.
Terminate ==
  /\ ~terminate
  /\ terminate' = TRUE
  /\ cpc' = IF cpc = "sleep" THEN "pop" ELSE cpc
  /\ UNCHANGED <<qvars, pvars, got, cmsg, dispatched, dropped>>

\* The worker has left run() and the network thread has nothing more to
\* hand over: nothing else happens.
Stopped ==
  /\ cpc = "exit" /\ ppc = "idle" /\ nextVal > MaxPush
  /\ UNCHANGED avars

Worker == LoopTest \/ EmptyTest \/ WaitBegin \/ WaitTimeout \/ PopMsg \/ Dispatch

APNext ==
  \/ QueueStep
  \/ Notify
  \/ Worker
  \/ Terminate
  \/ Stopped

\* Both threads keep running; a timedWait(1000) always returns.  Nothing
\* forces terminate() to be called.
APSpec ==
  /\ APInit /\ [][APNext]_avars
  /\ WF_avars(QueueStep) /\ WF_avars(Notify)
  /\ WF_avars(Worker)

-----------------------------------------------------------------------------
(* Properties                                                             *)

APTypeOK ==
  /\ QTypeOK
  /\ cpc \in {"top", "chk", "wait", "sleep", "pop", "disp", "exit"}
  /\ cmsg \in {0} \cup Vals
  /\ terminate \in BOOLEAN
  /\ dispatched \in Seq({0} \cup Vals)
  /\ dropped \subseteq Vals

\* Callbacks run in the order the network thread accepted the responses,
\* each once: the worker never dispatches a stale or unwritten slot.
DispatchedInOrder ==
  IsPrefix(dispatched, sent)

\* Every response the queue accepted has its callback run, unless the
\* worker was told to terminate: a notify() that lands between the
\* worker's empty() test and its timedWait is lost, and only the timeout
\* of that wait gets the worker going again.
EveryAcceptedDispatched ==
  \A v \in Vals : v \in ToSet(sent) ~> (v \in ToSet(dispatched) \/ terminate)

\* terminate() makes the worker leave run(), even when its notifyAll()
\* lands between the worker's empty() test and its timedWait.
TerminateTakesEffect ==
  terminate ~> (cpc = "exit")

=============================================================================
