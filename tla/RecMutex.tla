------------------------------ MODULE RecMutex ------------------------------
(***************************************************************************)
(* TC_ThreadRecMutex (src/cpp/util/src/tc_thread_mutex.cpp): a pthread    *)
(* mutex of type PTHREAD_MUTEX_RECURSIVE plus a counter _count.  lock()   *)
(* takes the pthread mutex and increments _count; when _count was already *)
(* positive (a nested lock by the owner) it gives the extra pthread level *)
(* back at once, so the pthread mutex is held exactly once while _count > *)
(* 0.  unlock() decrements _count and releases the pthread mutex when it  *)
(* reaches 0.                                                             *)
(*                                                                        *)
(* The mutex is a component: modules whose threads lock it EXTEND this    *)
(* one and call the per-thread steps below from their own actions.        *)
(***************************************************************************)
EXTENDS Naturals

CONSTANT NoThread   \* no thread holds the pthread mutex

VARIABLES
  mOwner,   \* the thread holding the pthread mutex, or NoThread
  mDepth,   \* the pthread mutex's own recursion depth
  mCount    \* _count

mvars == <<mOwner, mDepth, mCount>>

\* TC_ThreadRecMutex(): _count(0), the pthread mutex free.
MInit ==
  /\ mOwner = NoThread
  /\ mDepth = 0
  /\ mCount = 0

\* lock(): pthread_mutex_lock blocks until the mutex is free or already
\* held by the calling thread (recursive type).
MAcquire(t) ==
  /\ mOwner \in {NoThread, t}
  /\ mOwner' = t
  /\ mDepth' = mDepth + 1
  /\ UNCHANGED mCount

\* lock(), continued: if (++_count > 1) pthread_mutex_unlock(&_mutex).
MCountUp(t) ==
  /\ mCount' = mCount + 1
  /\ mDepth' = IF mCount + 1 > 1 THEN mDepth - 1 ELSE mDepth
  /\ UNCHANGED mOwner

\* Slip: the pthread mutex is released whatever the count.
MUnlockAlways(t) ==
  /\ mCount' = mCount - 1
  /\ mDepth' = mDepth - 1
  /\ mOwner' = IF mDepth - 1 = 0 THEN NoThread ELSE mOwner

\* unlock(): if (--_count == 0) pthread_mutex_unlock(&_mutex).
MUnlock(t) ==
  /\ mCount' = mCount - 1
  /\ IF mCount - 1 = 0
       THEN /\ mDepth' = mDepth - 1
            /\ mOwner' = IF mDepth - 1 = 0 THEN NoThread ELSE mOwner
       ELSE UNCHANGED <<mDepth, mOwner>>

=============================================================================
