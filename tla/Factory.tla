------------------------------ MODULE Factory ------------------------------
(***************************************************************************)
(* CommunicatorFactory (src/cpp/servant/servant/CommunicatorFactory.h) as *)
(* the TC_Singleton (src/cpp/util/include/util/tc_singleton.h) it is, and *)
(* the TC_ThreadRecMutex (module RecMutex) it also is.                    *)
(*                                                                        *)
(* Threads call CommunicatorFactory::getInstance()->getCommunicator(name) *)
(* or getCommunicator(conf, name).  getInstance() is the double-checked   *)
(* lazy creation: an unlocked test of _pInstance, then _tl and a second   *)
(* test, then create() and scheduleDestruction().  At exit the C library  *)
(* runs the registered destroySingleton(); a static destructor or a later *)
(* atexit handler may still call getInstance() (the dead reference).      *)
(*                                                                        *)
(* Both policies are parameters: CreatePolicy is CreateUsingNew (a fresh  *)
(* object each time) or CreateStatic (always the same static storage);     *)
(* LifetimePolicy is DefaultLifetime, PhoneixLifetime or                   *)
(* NoDestroyLifetime.  CommunicatorFactory uses the defaults.  An object  *)
(* is a number, its storage; 0 is NULL.  A communicator is a number too.  *)
(* Stores are taken to become visible in program order.                   *)
(***************************************************************************)
EXTENDS Naturals, FiniteSets, RecMutex

CONSTANTS
  Threads,      \* threads calling getInstance()->getCommunicator(...)
  Names,        \* communicator names
  Lifetimes,    \* LifetimePolicy: subset of {"default","phoenix","nodestroy"}
  Creates,      \* CreatePolicy: subset of {"new","static"}
  MaxCalls,     \* bound: calls per thread
  MaxObjects    \* bound: factory objects created

Calls == {"name", "conf"} \X Names   \* getCommunicator(name) / (conf, name)
Objects == 1 .. MaxObjects

VARIABLES
  lifetime,       \* the LifetimePolicy instantiated
  create,         \* the CreatePolicy instantiated
  phase,          \* "running", or "exiting" once main has returned
  pInstance,      \* _pInstance (0 = NULL)
  obj,            \* obj[o]: "none", "alive" or "dead" (storage o)
  nObj,           \* objects created so far
  destroyed,      \* _destroyed
  destroyedOnce,  \* PhoneixLifetime::_bDestroyedOnce
  atexitQ,        \* destroySingleton registrations not yet run
  tlOwner,        \* holder of _tl, or NoThread
  comms,          \* _comms of the current factory: name -> communicator, 0 absent
  nComm,          \* communicators created so far
  pc, call, inst, comm, calls

fvars == <<lifetime, create, phase, pInstance, obj, nObj, destroyed,
           destroyedOnce, atexitQ, tlOwner, comms, nComm, pc, call, inst,
           comm, calls>>
vars == <<fvars, mvars>>

\* The static members' initialisers (lines 271-280) and an empty _comms.
Init ==
  /\ MInit
  /\ lifetime \in Lifetimes /\ create \in Creates
  /\ phase = "running"
  /\ pInstance = 0 /\ obj = [o \in Objects |-> "none"] /\ nObj = 0
  /\ destroyed = FALSE /\ destroyedOnce = FALSE /\ atexitQ = 0
  /\ tlOwner = NoThread
  /\ comms = [n \in Names |-> 0] /\ nComm = 0
  /\ pc = [t \in Threads |-> "idle"]
  /\ call = [t \in Threads |-> <<"name", CHOOSE n \in Names : TRUE>>]
  /\ inst = [t \in Threads |-> 0] /\ comm = [t \in Threads |-> 0]
  /\ calls = [t \in Threads |-> 0]

Goto(t, l) == pc' = [pc EXCEPT ![t] = l]

\* During exit one thread runs the handlers and destructors, one at a time.
OthersIdle(t) == \A u \in Threads \ {t} : pc[u] = "idle"

Start(t) ==
  /\ pc[t] = "idle" /\ calls[t] < MaxCalls
  /\ phase = "running" \/ OthersIdle(t)
  /\ \E c \in Calls : call' = [call EXCEPT ![t] = c]
  /\ inst' = [inst EXCEPT ![t] = 0] /\ comm' = [comm EXCEPT ![t] = 0]
  /\ Goto(t, "gi_test")
  /\ UNCHANGED <<lifetime, create, phase, pInstance, obj, nObj, destroyed,
                 destroyedOnce, atexitQ, tlOwner, comms, nComm, calls, mvars>>

-----------------------------------------------------------------------------
(* getInstance(), lines 214-243                                           *)

\* if(!_pInstance): the unlocked first test; a set pointer is returned.
GiTest(t) ==
  /\ pc[t] = "gi_test"
  /\ IF pInstance # 0
       THEN inst' = [inst EXCEPT ![t] = pInstance] /\ Goto(t, "f_lock")
       ELSE Goto(t, "gi_lock") /\ UNCHANGED inst
  /\ UNCHANGED <<lifetime, create, phase, pInstance, obj, nObj, destroyed,
                 destroyedOnce, atexitQ, tlOwner, comms, nComm, call, comm,
                 calls, mvars>>

\* TC_ThreadLock::Lock lock(_tl).
GiLock(t) ==
  /\ pc[t] = "gi_lock" /\ tlOwner = NoThread
  /\ tlOwner' = t
  /\ Goto(t, "gi_test2")
  /\ UNCHANGED <<lifetime, create, phase, pInstance, obj, nObj, destroyed,
                 destroyedOnce, atexitQ, comms, nComm, call, inst, comm,
                 calls, mvars>>

\* CreateUsingNew::create (lines 90-93): new T; CreateStatic::create
\* (lines 124-128): placement new into the one static buffer.
NewObject == IF create = "new" THEN nObj + 1 ELSE 1

\* scheduleDestruction (lines 154-158, 170-174, 184-186): whether atexit
\* registers destroySingleton, given _bDestroyedOnce after deadReference.
Registers(once) ==
  \/ lifetime = "default"
  \/ lifetime = "phoenix" /\ ~once

\* deadReference (lines 149-152, 165-168, 188-190) on a destroyed
\* singleton: DefaultLifetime throws logic_error.
Throws == destroyed /\ lifetime = "default"

\* The second test and what follows it under _tl (lines 228-240): create,
\* store _pInstance, register the destruction.  The new factory's _comms
\* is empty.
CreateInstance(t) ==
  LET o    == NewObject
      once == destroyedOnce \/ (destroyed /\ lifetime = "phoenix")
  IN /\ nObj < MaxObjects
     /\ destroyed' = FALSE /\ destroyedOnce' = once
     /\ obj' = [obj EXCEPT ![o] = "alive"] /\ nObj' = nObj + 1
     /\ pInstance' = o
     /\ inst' = [inst EXCEPT ![t] = o]
     /\ atexitQ' = IF Registers(once) THEN atexitQ + 1 ELSE atexitQ
     /\ comms' = [n \in Names |-> 0]

\* Slip: the second test dropped; a thread that waited on _tl creates again.
GiTest2NoRecheck(t) ==
  /\ pc[t] = "gi_test2"
  /\ \/ Throws /\ inst' = [inst EXCEPT ![t] = 0]
        /\ UNCHANGED <<pInstance, obj, nObj, destroyed, destroyedOnce,
                       atexitQ, comms>>
     \/ ~Throws /\ CreateInstance(t)
  /\ Goto(t, "gi_unlock")
  /\ UNCHANGED <<lifetime, create, phase, tlOwner, nComm, call, comm, calls,
                 mvars>>

GiTest2(t) ==
  /\ pc[t] = "gi_test2"
  /\ \/ pInstance # 0 /\ inst' = [inst EXCEPT ![t] = pInstance]
        /\ UNCHANGED <<pInstance, obj, nObj, destroyed, destroyedOnce,
                       atexitQ, comms>>
     \/ pInstance = 0 /\ Throws /\ inst' = [inst EXCEPT ![t] = 0]
        /\ UNCHANGED <<pInstance, obj, nObj, destroyed, destroyedOnce,
                       atexitQ, comms>>
     \/ pInstance = 0 /\ ~Throws /\ CreateInstance(t)
  /\ Goto(t, "gi_unlock")
  /\ UNCHANGED <<lifetime, create, phase, tlOwner, nComm, call, comm, calls,
                 mvars>>

\* The Lock's destructor releases _tl on return or while the logic_error
\* unwinds; a thread that got no instance ends its call there.
GiUnlock(t) ==
  /\ pc[t] = "gi_unlock"
  /\ tlOwner' = NoThread
  /\ IF inst[t] = 0
       THEN Goto(t, "idle") /\ calls' = [calls EXCEPT ![t] = @ + 1]
       ELSE Goto(t, "f_lock") /\ UNCHANGED calls
  /\ UNCHANGED <<lifetime, create, phase, pInstance, obj, nObj, destroyed,
                 destroyedOnce, atexitQ, comms, nComm, call, inst, comm,
                 mvars>>

-----------------------------------------------------------------------------
(* getCommunicator(name), lines 48-63, and getCommunicator(conf, name),  *)
(* lines 71-95, on the factory object the thread got                      *)

FUnchanged == UNCHANGED <<lifetime, create, phase, pInstance, obj, nObj,
                          destroyed, destroyedOnce, atexitQ, tlOwner, call,
                          inst>>

\* Slip: the TC_LockT on the factory dropped.
FLockNoWait(t) ==
  /\ pc[t] = "f_lock"
  /\ mOwner' = t /\ mDepth' = mDepth + 1 /\ UNCHANGED mCount
  /\ Goto(t, "f_cnt")
  /\ FUnchanged /\ UNCHANGED <<comms, nComm, comm, calls>>

\* TC_LockT<TC_ThreadRecMutex> lock(*this): lock(), pthread part.
FLock(t) ==
  /\ pc[t] = "f_lock"
  /\ MAcquire(t)
  /\ Goto(t, "f_cnt")
  /\ FUnchanged /\ UNCHANGED <<comms, nComm, comm, calls>>

\* lock(), the _count part.
FCount(t) ==
  /\ pc[t] = "f_cnt"
  /\ MCountUp(t)
  /\ Goto(t, "f_find")
  /\ FUnchanged /\ UNCHANGED <<comms, nComm, comm, calls>>

\* _comms.find(name): a found communicator is returned; getCommunicator
\* (conf, name) first runs setProperty(conf) and reloadProperty() on it
\* (module Communicator), which leave the factory's state alone.
FFind(t) ==
  /\ pc[t] = "f_find"
  /\ IF comms[call[t][2]] # 0
       THEN /\ comm' = [comm EXCEPT ![t] = comms[call[t][2]]]
            /\ Goto(t, IF call[t][1] = "conf" THEN "f_reconf" ELSE "f_unlock")
       ELSE Goto(t, "f_new") /\ UNCHANGED comm
  /\ FUnchanged /\ UNCHANGED <<comms, nComm, calls, mvars>>

\* _comms[name] = new Communicator() or new Communicator(conf); the
\* returned pointer is found again.
FNew(t) ==
  /\ pc[t] = "f_new"
  /\ nComm' = nComm + 1
  /\ comms' = [comms EXCEPT ![call[t][2]] = nComm + 1]
  /\ comm' = [comm EXCEPT ![t] = nComm + 1]
  /\ Goto(t, "f_unlock")
  /\ FUnchanged /\ UNCHANGED <<calls, mvars>>

\* it->second->setProperty(conf); it->second->reloadProperty(s).
FReconf(t) ==
  /\ pc[t] = "f_reconf"
  /\ Goto(t, "f_unlock")
  /\ FUnchanged /\ UNCHANGED <<comms, nComm, comm, calls, mvars>>

\* The TC_LockT's destructor: unlock() on return.
FUnlock(t) ==
  /\ pc[t] = "f_unlock"
  /\ MUnlock(t)
  /\ Goto(t, "idle") /\ calls' = [calls EXCEPT ![t] = @ + 1]
  /\ FUnchanged /\ UNCHANGED <<comms, nComm, comm>>

-----------------------------------------------------------------------------
(* Exit                                                                   *)

\* main() returns once its threads are joined; the atexit handlers and
\* static destructors then run one at a time.
Exit ==
  /\ phase = "running" /\ \A t \in Threads : pc[t] = "idle"
  /\ phase' = "exiting"
  /\ UNCHANGED <<lifetime, create, pInstance, obj, nObj, destroyed,
                 destroyedOnce, atexitQ, tlOwner, comms, nComm, pc, call,
                 inst, comm, calls, mvars>>

DestroyEffect == obj' = [obj EXCEPT ![pInstance] = "dead"]

\* Slip: _pInstance left pointing at the deleted object.
DestroySingletonKeep ==
  /\ phase = "exiting" /\ atexitQ > 0 /\ \A t \in Threads : pc[t] = "idle"
  /\ DestroyEffect
  /\ destroyed' = TRUE /\ atexitQ' = atexitQ - 1
  /\ UNCHANGED <<lifetime, create, phase, pInstance, nObj, destroyedOnce,
                 tlOwner, comms, nComm, pc, call, inst, comm, calls, mvars>>

\* destroySingleton(), lines 249-255, run by the C library at exit:
\* assert(!_destroyed), destroy (lines 100-103 or 135-138), NULL, flag.
\* A failed assert aborts the process; the model takes no step instead.
DestroySingleton ==
  /\ phase = "exiting" /\ atexitQ > 0 /\ \A t \in Threads : pc[t] = "idle"
  /\ ~destroyed
  /\ DestroyEffect
  /\ pInstance' = 0 /\ destroyed' = TRUE /\ atexitQ' = atexitQ - 1
  /\ UNCHANGED <<lifetime, create, phase, nObj, destroyedOnce, tlOwner,
                 comms, nComm, pc, call, inst, comm, calls, mvars>>

\* Every thread has made its calls and every handler has run.
Finished ==
  /\ phase = "exiting" /\ atexitQ = 0
  /\ \A t \in Threads : pc[t] = "idle" /\ calls[t] = MaxCalls
  /\ UNCHANGED vars

Step(t) ==
  \/ Start(t) \/ GiTest(t) \/ GiLock(t) \/ GiTest2(t) \/ GiUnlock(t)
  \/ FLock(t) \/ FCount(t) \/ FFind(t) \/ FNew(t) \/ FReconf(t) \/ FUnlock(t)

Next == (\E t \in Threads : Step(t)) \/ Exit \/ DestroySingleton \/ Finished

Spec == Init /\ [][Next]_vars

-----------------------------------------------------------------------------
(* Properties                                                             *)

FactoryPcs == {"f_lock", "f_cnt", "f_find", "f_new", "f_reconf", "f_unlock"}

TypeOK ==
  /\ lifetime \in Lifetimes /\ create \in Creates
  /\ phase \in {"running", "exiting"}
  /\ pInstance \in {0} \cup Objects /\ obj \in [Objects -> {"none", "alive", "dead"}]
  /\ nObj \in 0 .. MaxObjects
  /\ destroyed \in BOOLEAN /\ destroyedOnce \in BOOLEAN /\ atexitQ \in 0 .. 1
  /\ tlOwner \in Threads \cup {NoThread}
  /\ comms \in [Names -> Nat] /\ nComm \in Nat
  /\ pc \in [Threads -> {"idle", "gi_test", "gi_lock", "gi_test2",
                         "gi_unlock"} \cup FactoryPcs]
  /\ call \in [Threads -> Calls]
  /\ inst \in [Threads -> {0} \cup Objects] /\ comm \in [Threads -> Nat]
  /\ calls \in [Threads -> 0 .. MaxCalls]
  /\ mOwner \in Threads \cup {NoThread} /\ mDepth \in Nat /\ mCount \in Nat

\* The double check: however the threads' unlocked first tests and their
\* waits on _tl interleave, every thread that holds a live factory holds
\* the one _pInstance points to: getInstance() never makes a second one.
OneInstance ==
  \A t \in Threads :
    inst[t] # 0 /\ obj[inst[t]] = "alive" => inst[t] = pInstance

\* All callers of getCommunicator for one name get one communicator: the
\* one _comms holds, however their find and insert interleave.
OneCommunicatorPerName ==
  \A t \in Threads :
    pc[t] \in {"f_reconf", "f_unlock"} /\ inst[t] = pInstance
      => comm[t] = comms[call[t][2]]

\* getInstance() never hands out a destroyed factory: a static destructor
\* calling it after destroySingleton() gets a logic_error (DefaultLifetime)
\* or a new object (PhoneixLifetime), never the deleted one.
NoDeadReference ==
  \A t \in Threads : pc[t] \in FactoryPcs => obj[inst[t]] = "alive"

=============================================================================
