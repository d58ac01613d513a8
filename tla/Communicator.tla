---------------------------- MODULE Communicator ----------------------------
(***************************************************************************)
(* Communicator (src/cpp/servant/libservant/Communicator.cpp) with the    *)
(* callers that change its state: CommunicatorFactory::getCommunicator    *)
(* (servant/CommunicatorFactory.h), and Application's admin commands      *)
(* loadproperty and reloadlocator (libservant/Application.cpp).           *)
(*                                                                        *)
(* The communicator is itself a TC_ThreadRecMutex (module RecMutex):      *)
(* initialize(), setProperty() and getProperty() take it, nesting inside  *)
(* initialize(); terminate() holds it only to set _terminating.           *)
(* reloadProperty(), reloadLocator() and terminate() walk                 *)
(* _communicatorEpoll[0 .. _clientThreadNum) WITHOUT the lock.            *)
(*                                                                        *)
(* Data abstractions: the "netthread" property is a number; a pointer is  *)
(* "garbage" (never written: the TC_Config constructor leaves             *)
(* _clientThreadNum, _statReport and _communicatorEpoll uninitialised),   *)
(* "null", or the object's state.  Reading a never-written value is       *)
(* undefined: it may read as 0 (a loop is skipped, a pointer test fails)   *)
(* or crash the process when dereferenced; dereferencing NULL crashes.    *)
(* A crash is the value of fault, after which nothing happens.            *)
(***************************************************************************)
EXTENDS Integers, FiniteSets, RecMutex

CONSTANTS
  Biz,         \* business threads: getServantProxy or getCommunicator(conf)
  Admin,       \* the admin servant thread running loadproperty/reloadlocator
  Closer,      \* the thread running terminate() (~Communicator)
  MaxThreads,  \* MAX_CLIENT_THREAD_NUM, the length of _communicatorEpoll
  NetThread,   \* values the "netthread" property may hold in a config
  CtorKinds,   \* "conf" (getCommunicator(conf)) and/or "default" (getCommunicator())
  Garbage      \* the value of a member no constructor or assignment wrote

Actors == Biz \cup {Admin, Closer}
Slots == 0 .. (MaxThreads - 1)

ASSUME NoThread \notin Actors /\ NetThread \subseteq Nat /\ MaxThreads \in Nat \ {0}
ASSUME CtorKinds \subseteq {"conf", "default"}

VARIABLES
  netthread,    \* the "netthread" entry of _properties (default "1")
  initialized,  \* _initialized
  terminating,  \* _terminating
  threadNum,    \* _clientThreadNum
  statReport,   \* _statReport: Garbage | "null" | "obj"
  epoll,        \* _communicatorEpoll[i]: Garbage | "null" | "run" | "stopped"
  created,      \* times new CommunicatorEpoll(this, i) ran for slot i (history)
  fLock,        \* holder of the CommunicatorFactory's mutex, or NoThread
  pc, op, idx,  \* per actor: program counter, operation, loop index
  ready,        \* some initialize() call has returned (history)
  fault         \* "none" | "uninit" (garbage dereferenced) | "null"

cvars == <<netthread, initialized, terminating, threadNum, statReport, epoll,
           created, fLock, pc, op, idx, ready, fault>>
vars == <<cvars, mvars>>

Ops(a) == IF a \in Biz THEN {"proxy", "factory"}
          ELSE IF a = Admin THEN {"loadproperty", "reloadlocator"}
          ELSE {"terminate"}

\* Communicator(conf), lines 53-59: only setProperty(conf) runs, so
\* _clientThreadNum, _statReport and _communicatorEpoll are never written.
ConfCtor ==
  /\ netthread \in NetThread
  /\ threadNum = Garbage /\ statReport = Garbage
  /\ epoll = [s \in Slots |-> Garbage]

\* Communicator(), lines 41-50: the list sets _clientThreadNum(1) and
\* _statReport(NULL) and memsets _communicatorEpoll; "netthread" is unset.
DefaultCtor ==
  /\ netthread = 1
  /\ threadNum = 1 /\ statReport = "null"
  /\ epoll = [s \in Slots |-> "null"]

\* CommunicatorFactory::getCommunicator(name) (lines 48-63) or
\* getCommunicator(conf, name) (lines 71-85) has made a new communicator
\* under the factory's lock, and no call on it has run yet.
Init ==
  /\ MInit
  /\ \E k \in CtorKinds : IF k = "conf" THEN ConfCtor ELSE DefaultCtor
  /\ initialized = FALSE /\ terminating = FALSE
  /\ created = [s \in Slots |-> 0]
  /\ fLock = NoThread
  /\ pc = [a \in Actors |-> "idle"] /\ op = [a \in Actors |-> "none"]
  /\ idx = [a \in Actors |-> 0]
  /\ ready = FALSE /\ fault = "none"

Goto(a, l) == pc' = [pc EXCEPT ![a] = l]
Crash(kind) == fault' = kind /\ UNCHANGED <<pc, idx>>

-----------------------------------------------------------------------------
(* Taking and releasing the communicator's mutex, wherever a call        *)
(* takes a TC_LockT<TC_ThreadRecMutex> on itself and leaves its scope.   *)

AcquireNext == [in_lock |-> "in_cnt", gp_lock |-> "gp_cnt", sp_lock |-> "sp_cnt",
                rg_lock |-> "rg_cnt", tm_lock |-> "tm_cnt"]
CountNext == [in_cnt |-> "in_test", gp_cnt |-> "gp_unlock", sp_cnt |-> "sp_unlock",
              rg_cnt |-> "rg_unlock", tm_cnt |-> "tm_unlock"]
\* getProperty() returns into initialize() or reloadProperty().
ReleaseNext == [gp_unlock |-> "in_num", rg_unlock |-> "rp_stat"]

Acquire(a) ==
  /\ pc[a] \in DOMAIN AcquireNext
  /\ MAcquire(a)
  /\ Goto(a, AcquireNext[pc[a]])
  /\ UNCHANGED <<netthread, initialized, terminating, threadNum, statReport,
                 epoll, created, fLock, op, idx, ready, fault>>

CountUp(a) ==
  /\ pc[a] \in DOMAIN CountNext
  /\ MCountUp(a)
  /\ Goto(a, CountNext[pc[a]])
  /\ UNCHANGED <<netthread, initialized, terminating, threadNum, statReport,
                 epoll, created, fLock, op, idx, ready, fault>>

\* getProperty(name, dft), lines 169-180: lock, look up, unlock.
Release(a) ==
  /\ pc[a] \in DOMAIN ReleaseNext
  /\ MUnlock(a)
  /\ Goto(a, ReleaseNext[pc[a]])
  /\ UNCHANGED <<netthread, initialized, terminating, threadNum, statReport,
                 epoll, created, fLock, op, idx, ready, fault>>

-----------------------------------------------------------------------------
(* Starting a call                                                        *)

First == [proxy |-> "in_lock", factory |-> "f_lock", loadproperty |-> "sp_lock",
          reloadlocator |-> "sp_lock", terminate |-> "tm_lock"]

\* getServantProxy (365-371) calls initialize(); getCommunicator(conf) on an
\* existing name (71-95); cmdLoadProperty (426-428); cmdReloadLocator
\* (531-532) with "reload" and a locator set; ~Communicator() (61-64).
Start(a) ==
  /\ pc[a] = "idle"
  /\ \E o \in Ops(a) :
       /\ op' = [op EXCEPT ![a] = o]
       /\ Goto(a, First[o])
  /\ UNCHANGED <<netthread, initialized, terminating, threadNum, statReport,
                 epoll, created, fLock, idx, ready, fault, mvars>>

-----------------------------------------------------------------------------
(* initialize(), lines 244-318, under the communicator's lock.            *)

\* Slip: the flag is tested but never set.
InTestNoSet(a) ==
  /\ pc[a] = "in_test"
  /\ Goto(a, IF initialized THEN "in_unlock" ELSE "gp_lock")
  /\ UNCHANGED <<netthread, initialized, terminating, threadNum, statReport,
                 epoll, created, fLock, op, idx, ready, fault, mvars>>

\* if (_initialized) return;  _initialized = true;  then the nested
\* getProperty("netthread", "1").
InTest(a) ==
  /\ pc[a] = "in_test"
  /\ Goto(a, IF initialized THEN "in_unlock" ELSE "gp_lock")
  /\ initialized' = TRUE
  /\ UNCHANGED <<netthread, terminating, threadNum, statReport,
                 epoll, created, fLock, op, idx, ready, fault, mvars>>

\* _clientThreadNum = strto<size_t>(...): the raw value is stored first.
InNum(a) ==
  /\ pc[a] = "in_num"
  /\ threadNum' = netthread
  /\ Goto(a, "in_clamp")
  /\ UNCHANGED <<netthread, initialized, terminating, statReport,
                 epoll, created, fLock, op, idx, ready, fault, mvars>>

\* Slip: only the upper bound is applied.
ClampThreadNumNoZero(n) == IF MaxThreads < n THEN MaxThreads ELSE n

\* 0 becomes 1, more than MAX_CLIENT_THREAD_NUM becomes the maximum.
ClampThreadNum(n) ==
  IF n = 0 THEN 1 ELSE IF MaxThreads < n THEN MaxThreads ELSE n

InClamp(a) ==
  /\ pc[a] = "in_clamp"
  /\ threadNum' = ClampThreadNum(threadNum)
  /\ Goto(a, "in_stat")
  /\ UNCHANGED <<netthread, initialized, terminating, statReport,
                 epoll, created, fLock, op, idx, ready, fault, mvars>>

\* _statReport = new StatReport(_clientThreadNum);
InStat(a) ==
  /\ pc[a] = "in_stat"
  /\ statReport' = "obj"
  /\ idx' = [idx EXCEPT ![a] = 0]
  /\ Goto(a, "in_loop")
  /\ UNCHANGED <<netthread, initialized, terminating, threadNum,
                 epoll, created, fLock, op, ready, fault, mvars>>

\* for i < _clientThreadNum: _communicatorEpoll[i] = new CommunicatorEpoll;
\* start().  The getProperty calls and setReportInfo that follow take the
\* lock recursively and dereference the new _statReport only.
InLoop(a) ==
  /\ pc[a] = "in_loop"
  /\ IF idx[a] < threadNum
       THEN /\ epoll' = [epoll EXCEPT ![idx[a]] = "run"]
            /\ created' = [created EXCEPT ![idx[a]] = @ + 1]
            /\ idx' = [idx EXCEPT ![a] = @ + 1]
            /\ UNCHANGED pc
       ELSE /\ Goto(a, "in_unlock")
            /\ UNCHANGED <<epoll, created, idx>>
  /\ UNCHANGED <<netthread, initialized, terminating, threadNum, statReport,
                 fLock, op, ready, fault, mvars>>

\* The lock's scope ends and initialize() returns.
InUnlock(a) ==
  /\ pc[a] = "in_unlock"
  /\ MUnlock(a)
  /\ Goto(a, "done")
  /\ ready' = TRUE
  /\ UNCHANGED <<netthread, initialized, terminating, threadNum, statReport,
                 epoll, created, fLock, op, idx, fault>>

-----------------------------------------------------------------------------
(* setProperty, reloadProperty, reloadLocator, and the factory's lock     *)

\* getCommunicator(conf, name), line 73: TC_LockT on the factory's mutex.
FactoryLock(a) ==
  /\ pc[a] = "f_lock"
  /\ fLock = NoThread
  /\ fLock' = a
  /\ Goto(a, "sp_lock")
  /\ UNCHANGED <<netthread, initialized, terminating, threadNum, statReport,
                 epoll, created, op, idx, ready, fault, mvars>>

\* setProperty(conf), lines 71-91: the lock's scope ends; the re-read
\* config may carry another "netthread".  reloadProperty() starts.
SetPropertyConf(a) ==
  /\ pc[a] = "sp_unlock"
  /\ op[a] # "reloadlocator"
  /\ MUnlock(a)
  /\ netthread' \in NetThread
  /\ Goto(a, "rp_loop")
  /\ idx' = [idx EXCEPT ![a] = 0]
  /\ UNCHANGED <<initialized, terminating, threadNum, statReport,
                 epoll, created, fLock, op, ready, fault>>

\* setProperty("locator", sLocator), lines 160-167; reloadLocator() starts.
SetPropertyLocator(a) ==
  /\ pc[a] = "sp_unlock"
  /\ op[a] = "reloadlocator"
  /\ MUnlock(a)
  /\ Goto(a, "rl_loop")
  /\ idx' = [idx EXCEPT ![a] = 0]
  /\ UNCHANGED <<netthread, initialized, terminating, threadNum, statReport,
                 epoll, created, fLock, op, ready, fault>>

\* The loop index is below a _clientThreadNum that was written.
InRange(a) == threadNum # Garbage /\ idx[a] < threadNum

\* One turn of for (i = 0; i < _clientThreadNum; ++i) _communicatorEpoll[i]
\* ->...: with no lock held.  A never-written _clientThreadNum reads as 0
\* or as some other number, whose first _communicatorEpoll[i] is garbage.
\* reloadProperty() (194-197) and reloadLocator() (184-187) call
\* loadObjectLocator(); terminate() (343-349) terminates and joins.
EpollLoop(a, exit, stop) ==
  \/ /\ threadNum = Garbage \/ ~InRange(a)
     /\ Goto(a, exit)
     /\ UNCHANGED <<epoll, idx, fault>>
  \/ /\ threadNum = Garbage
     /\ Crash("uninit")
     /\ UNCHANGED epoll
  \/ /\ InRange(a)
     /\ epoll[idx[a]] \in {Garbage, "null"}
     /\ Crash(IF epoll[idx[a]] = "null" THEN "null" ELSE "uninit")
     /\ UNCHANGED epoll
  \/ /\ InRange(a)
     /\ epoll[idx[a]] \in {"run", "stopped"}
     /\ epoll' = IF stop THEN [epoll EXCEPT ![idx[a]] = "stopped"] ELSE epoll
     /\ idx' = [idx EXCEPT ![a] = @ + 1]
     /\ UNCHANGED <<pc, fault>>

ReloadLoop(a) ==
  /\ pc[a] \in {"rp_loop", "rl_loop"}
  /\ EpollLoop(a, IF pc[a] = "rp_loop" THEN "rg_lock" ELSE "done", FALSE)
  /\ UNCHANGED <<netthread, initialized, terminating, threadNum, statReport,
                 created, fLock, op, ready, mvars>>

\* _statReport->setReportInfo(...), line 230, after the getProperty calls;
\* getCommunicator(conf) then returns and releases the factory's mutex.
ReloadStat(a) ==
  /\ pc[a] = "rp_stat"
  /\ IF statReport = "obj"
       THEN Goto(a, IF op[a] = "factory" THEN "f_unlock" ELSE "done")
            /\ UNCHANGED <<idx, fault>>
       ELSE Crash(IF statReport = "null" THEN "null" ELSE "uninit")
  /\ UNCHANGED <<netthread, initialized, terminating, threadNum, statReport,
                 epoll, created, fLock, op, ready, mvars>>

FactoryUnlock(a) ==
  /\ pc[a] = "f_unlock"
  /\ fLock' = NoThread
  /\ Goto(a, "done")
  /\ UNCHANGED <<netthread, initialized, terminating, threadNum, statReport,
                 epoll, created, op, idx, ready, fault, mvars>>

-----------------------------------------------------------------------------
(* terminate(), lines 333-363                                             *)

\* { lock; _terminating = true; }
TermFlag(a) ==
  /\ pc[a] = "tm_unlock"
  /\ MUnlock(a)
  /\ terminating' = TRUE
  /\ Goto(a, "tm_test")
  /\ UNCHANGED <<netthread, initialized, threadNum, statReport,
                 epoll, created, fLock, op, idx, ready, fault>>

\* if (_initialized), read without the lock.
TermTest(a) ==
  /\ pc[a] = "tm_test"
  /\ Goto(a, IF initialized THEN "tm_loop" ELSE "done")
  /\ idx' = [idx EXCEPT ![a] = 0]
  /\ UNCHANGED <<netthread, initialized, terminating, threadNum, statReport,
                 epoll, created, fLock, op, ready, fault, mvars>>

TermLoop(a) ==
  /\ pc[a] = "tm_loop"
  /\ EpollLoop(a, "tm_stat", TRUE)
  /\ UNCHANGED <<netthread, initialized, terminating, threadNum, statReport,
                 created, fLock, op, ready, mvars>>

\* Slip: the report object is deleted but the pointer is left dangling.
TermStatNoReset(a) ==
  /\ pc[a] = "tm_stat"
  /\ \/ /\ statReport \in {"obj", "null", Garbage}
        /\ statReport' = IF statReport = "obj" THEN "freed" ELSE statReport
        /\ Goto(a, "done")
        /\ UNCHANGED fault
     \/ /\ statReport = Garbage
        /\ Crash("uninit")
        /\ UNCHANGED statReport
  /\ UNCHANGED <<netthread, initialized, terminating, threadNum,
                 epoll, created, fLock, op, idx, ready, mvars>>

\* if (_statReport) { terminate, join; delete _statReport; _statReport =
\* NULL; }  A never-written pointer tests as NULL or is dereferenced.
TermStat(a) ==
  /\ pc[a] = "tm_stat"
  /\ \/ /\ statReport \in {"obj", "null", Garbage}
        /\ statReport' = IF statReport = "obj" THEN "null" ELSE statReport
        /\ Goto(a, "done")
        /\ UNCHANGED fault
     \/ /\ statReport = Garbage
        /\ Crash("uninit")
        /\ UNCHANGED statReport
  /\ UNCHANGED <<netthread, initialized, terminating, threadNum,
                 epoll, created, fLock, op, idx, ready, mvars>>

-----------------------------------------------------------------------------
(* The system                                                             *)

\* Every step of actor a; nothing runs once the process has crashed.
Step(a) ==
  /\ fault = "none"
  /\ \/ Start(a) \/ Acquire(a) \/ CountUp(a) \/ Release(a)
     \/ InTest(a) \/ InNum(a) \/ InClamp(a) \/ InStat(a) \/ InLoop(a)
     \/ InUnlock(a)
     \/ FactoryLock(a) \/ SetPropertyConf(a) \/ SetPropertyLocator(a)
     \/ ReloadLoop(a) \/ ReloadStat(a)
     \/ FactoryUnlock(a)
     \/ TermFlag(a) \/ TermTest(a) \/ TermLoop(a) \/ TermStat(a)

\* The process has crashed.
Crashed == fault # "none" /\ UNCHANGED vars

\* Every thread has made its call and it has returned.
Quiescent ==
  /\ fault = "none"
  /\ \A a \in Actors : pc[a] = "done"
  /\ UNCHANGED vars

Next == (\E a \in Actors : Step(a)) \/ Crashed \/ Quiescent

\* Each thread keeps running while it can: pthread scheduling is fair to
\* runnable threads, and a released mutex is taken by a waiter.
Spec == Init /\ [][Next]_vars /\ \A a \in Actors : WF_vars(Step(a))

-----------------------------------------------------------------------------
(* Properties                                                             *)

Pcs == {"idle", "done", "in_lock", "in_cnt", "in_test", "gp_lock", "gp_cnt",
        "gp_unlock", "in_num", "in_clamp", "in_stat", "in_loop", "in_unlock",
        "f_lock", "sp_lock", "sp_cnt", "sp_unlock", "rp_loop", "rl_loop",
        "rg_lock", "rg_cnt", "rg_unlock", "rp_stat", "f_unlock",
        "tm_lock", "tm_cnt", "tm_unlock", "tm_test", "tm_loop", "tm_stat"}

TypeOK ==
  /\ netthread \in NetThread \cup {1}
  /\ initialized \in BOOLEAN /\ terminating \in BOOLEAN
  /\ threadNum \in {Garbage} \cup (0 .. MaxThreads) \cup NetThread
  /\ statReport \in {Garbage, "null", "obj"}
  /\ epoll \in [Slots -> {Garbage, "null", "run", "stopped"}]
  /\ created \in [Slots -> Nat]
  /\ fLock \in Actors \cup {NoThread}
  /\ pc \in [Actors -> Pcs]
  /\ op \in [Actors -> {"none", "proxy", "factory", "loadproperty",
                        "reloadlocator", "terminate"}]
  /\ idx \in [Actors -> 0 .. MaxThreads]
  /\ ready \in BOOLEAN
  /\ fault \in {"none", "uninit", "null"}
  /\ mOwner \in Actors \cup {NoThread} /\ mDepth \in Nat /\ mCount \in Nat

\* Between the lock() and the unlock() of a TC_LockT on the communicator,
\* nested getProperty() calls included.
Locked == {"in_test", "gp_lock", "gp_cnt", "gp_unlock", "in_num", "in_clamp",
           "in_stat", "in_loop", "in_unlock", "sp_unlock", "rg_unlock",
           "tm_unlock"}

\* TC_ThreadRecMutex excludes: no two threads are ever inside the
\* communicator's critical sections at once, although initialize() locks
\* it again from inside (getProperty) and unlocks the inner level.
MutexExclusive ==
  \A a, b \in Actors : pc[a] \in Locked /\ pc[b] \in Locked => a = b

\* initialize() runs its body once however many threads call
\* getServantProxy() first: no CommunicatorEpoll is made twice.
EpollCreatedOnce == \A s \in Slots : created[s] <= 1

\* Once an initialize() has returned, _clientThreadNum is in 1 ..
\* MAX_CLIENT_THREAD_NUM (spec: "netthread [1, clamped 1..64]") and exactly
\* the first _clientThreadNum slots have a CommunicatorEpoll, whatever
\* setProperty() did to "netthread" meanwhile.
EpollMatchesThreadNum ==
  ready =>
    /\ threadNum \in 1 .. MaxThreads
    /\ \A s \in Slots : (created[s] = 1) <=> s < threadNum

\* No call dereferences a never-written or NULL pointer.  The comment at
\* Communicator.cpp:193 says _clientThreadNum is 0 before initialize().
NoBadDeref == fault = "none"

=============================================================================
