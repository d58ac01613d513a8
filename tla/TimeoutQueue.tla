---------------------------- MODULE TimeoutQueue ----------------------------
(***************************************************************************)
(* TC_TimeoutQueue<T> (src/cpp/util/include/util/tc_timeout_queue.h): the *)
(* registry of outstanding requests of the client core.  Two structures   *)
(* index the same entries:                                                *)
(*   _data  : hash_map id -> PtrInfo{ptr, timeIter}      here: data       *)
(*   _time  : list<NodeInfo{hasPoped, createTime, ...}>  here: time       *)
(* plus the cached iterator _firstNoPopIter (here: firstNoPop, the id of  *)
(* the node it points at, or End for _time.end()).                        *)
(*                                                                        *)
(* Every public method takes the queue's mutex for its whole body, so     *)
(* each is one atomic action, except timeout(df), which re-takes the lock *)
(* for every entry it removes and calls df outside the lock; that method  *)
(* is split into its lock-held and lock-free steps.                       *)
(*                                                                        *)
(* Actors: Callers (the threads that call generateId() then push(), as    *)
(* the client's object proxy does for every request), responses (get /    *)
(* erase by id, possibly late or duplicated), a consumer calling pop() /  *)
(* swap(), and the sweeper calling timeout(df) periodically.              *)
(*                                                                        *)
(* createTime is kept as the entry's age, now_ms - createTime, which      *)
(* saturates at AgeCap; the clock may step back by one tick, at most     *)
(* MaxClockBacks times (gettimeofday is a wall clock that an operator or  *)
(* NTP may set back, now and then), which lowers every age at once.       *)
(***************************************************************************)
EXTENDS Integers, Sequences, SequencesExt, TLC

CONSTANTS
  Callers,        \* threads issuing requests
  IdBits,         \* width of _uniqId (uint32_t in the code; small here so it wraps)
  Timeout,        \* _timeout, in clock ticks
  MaxReqs,        \* bound: number of requests issued in a behaviour
  MaxSweepLag,    \* bound: ticks that may pass during one timeout(df) call
  MaxClockBacks   \* bound: times the time source goes back by one tick

ASSUME IdBits \in Nat \ {0} /\ Timeout \in Nat /\ MaxReqs \in Nat \ {0}
ASSUME MaxSweepLag \in Nat /\ MaxClockBacks \in Nat

IdSpace == 0 .. (2^IdBits - 1)
End     == 0                       \* _time.end(); generateId never yields 0
AgeCap  == Timeout + MaxSweepLag + 1
MinAge  == -1
Reqs    == 1 .. MaxReqs

VARIABLES
  uniqId,      \* _uniqId
  data,        \* _data: id -> request held in PtrInfo.ptr
  time,        \* _time: Seq of [id, age, popped]
  firstNoPop,  \* _firstNoPopIter, as the id of its node or End
  caller,      \* per caller: [st, id, req]; st = "hasId" between generateId and push
  sweep,       \* the sweeper: "idle" or "run" (inside timeout(df))
  lag,         \* ticks since timeout(df) read the clock into tv
  cb,          \* request removed by timeout(df) whose df(ptr) is still to run, or 0
  nextReq,     \* next request number (history)
  completed,   \* request -> how many times its owner was told it finished (history)
  timedOut,    \* requests timeout(df) removed (history)
  backs        \* times the clock has stepped back

vars == <<uniqId, data, time, firstNoPop, caller, sweep, lag, cb, nextReq, completed, timedOut, backs>>

Idle == [st |-> "idle", id |-> 0, req |-> 0]

-----------------------------------------------------------------------------
(* Helpers on the list: iterators are node identities, i.e. ids.          *)

Pos(id) == SelectInSeq(time, LAMBDA n : n.id = id)

\* ++it: the node after id, or end().
Succ(id) == IF Pos(id) = Len(time) THEN End ELSE time[Pos(id) + 1].id

\* Slip: the cursor is not moved off a node being removed.
UnlinkKeepCursor(id) ==
  /\ firstNoPop' = firstNoPop
  /\ time' = RemoveAt(time, Pos(id))
  /\ data' = [x \in DOMAIN data \ {id} |-> data[x]]

\* Remove the node of id from both structures, moving _firstNoPopIter past
\* it when it points there (the shared body of get, erase and timeout).
Unlink(id) ==
  /\ firstNoPop' = IF firstNoPop = id THEN Succ(id) ELSE firstNoPop
  /\ time' = RemoveAt(time, Pos(id))
  /\ data' = [x \in DOMAIN data \ {id} |-> data[x]]

Finish(r) == completed' = [completed EXCEPT ![r] = @ + 1]

\* Slip: ++_uniqId without skipping 0.
NextIdNoSkip(u) == (u + 1) % 2^IdBits

\* ++_uniqId on a uint32_t, repeated while it yields 0.
NextId(u) == IF (u + 1) % 2^IdBits = 0 THEN 1 ELSE (u + 1) % 2^IdBits

AgeBy(a, d) == IF a + d > AgeCap THEN AgeCap ELSE a + d

-----------------------------------------------------------------------------
Init ==
  /\ uniqId = 0
  /\ data = <<>>
  /\ time = <<>>
  /\ firstNoPop = End
  /\ caller = [c \in Callers |-> Idle]
  /\ sweep = "idle"
  /\ lag = 0
  /\ cb = 0
  /\ nextReq = 1
  /\ completed = [r \in Reqs |-> 0]
  /\ timedOut = {}
  /\ backs = 0

\* generateId(): the caller takes a fresh id for its next request.
GenerateId(c) ==
  /\ caller[c].st = "idle"
  /\ nextReq <= MaxReqs
  /\ uniqId' = NextId(uniqId)
  /\ caller' = [caller EXCEPT ![c] = [st |-> "hasId", id |-> NextId(uniqId), req |-> nextReq]]
  /\ nextReq' = nextReq + 1
  /\ UNCHANGED <<data, time, firstNoPop, sweep, lag, cb, completed, timedOut, backs>>

\* Slip: the node is appended whether or not _data.insert succeeded.
PushNewUnchecked(c) ==
  LET id == caller[c].id IN
  /\ caller[c].st = "hasId"
  /\ data' = data @@ (id :> caller[c].req)
  /\ time' = Append(time, [id |-> id, age |-> 0, popped |-> FALSE])
  /\ firstNoPop' = IF firstNoPop = End THEN id ELSE firstNoPop
  /\ caller' = [caller EXCEPT ![c] = Idle]
  /\ UNCHANGED <<uniqId, sweep, lag, cb, nextReq, completed, timedOut, backs>>

\* push(ptr, id) when _data.insert succeeds: a new node at the tail of
\* _time, and the cursor set to it when it was end().
PushNew(c) ==
  LET id == caller[c].id IN
  /\ caller[c].st = "hasId"
  /\ id \notin DOMAIN data
  /\ data' = data @@ (id :> caller[c].req)
  /\ time' = Append(time, [id |-> id, age |-> 0, popped |-> FALSE])
  /\ firstNoPop' = IF firstNoPop = End THEN id ELSE firstNoPop
  /\ caller' = [caller EXCEPT ![c] = Idle]
  /\ UNCHANGED <<uniqId, sweep, lag, cb, nextReq, completed, timedOut, backs>>

\* Slip: the caller ignores push's false and forgets the request.
PushDuplicateDropped(c) ==
  /\ caller[c].st = "hasId"
  /\ caller[c].id \in DOMAIN data
  /\ caller' = [caller EXCEPT ![c] = Idle]
  /\ UNCHANGED <<uniqId, data, time, firstNoPop, sweep, lag, cb, nextReq, completed, timedOut, backs>>

\* push(ptr, id) when the id is still in _data (the counter wrapped onto an
\* outstanding id): push returns false and the caller learns it at once.
PushDuplicate(c) ==
  /\ caller[c].st = "hasId"
  /\ caller[c].id \in DOMAIN data
  /\ Finish(caller[c].req)
  /\ caller' = [caller EXCEPT ![c] = Idle]
  /\ UNCHANGED <<uniqId, data, time, firstNoPop, sweep, lag, cb, nextReq, timedOut, backs>>

\* get(id, true): a response for id arrives and takes the entry.
\* (get(id, false) and lookups of absent ids change nothing.)
Get(id) ==
  /\ id \in DOMAIN data
  /\ Finish(data[id])
  /\ Unlink(id)
  /\ UNCHANGED <<uniqId, caller, sweep, lag, cb, nextReq, timedOut, backs>>

\* erase(id): the same removal, through the other entry point.
Erase(id) ==
  /\ id \in DOMAIN data
  /\ Finish(data[id])
  /\ Unlink(id)
  /\ UNCHANGED <<uniqId, caller, sweep, lag, cb, nextReq, timedOut, backs>>

\* pop(ptr): the head if it is not popped, else the cached cursor; the
\* entry is marked and stays in both structures.
Pop ==
  /\ time # <<>>
  /\ LET it == IF Head(time).popped THEN firstNoPop ELSE Head(time).id IN
       /\ it # End
       /\ time' = [time EXCEPT ![Pos(it)].popped = TRUE]
       /\ firstNoPop' = Succ(it)
  /\ UNCHANGED <<uniqId, data, caller, sweep, lag, cb, nextReq, completed, timedOut, backs>>

\* The while loop of swap(q), over list t with iterator it and cursor cur.
RECURSIVE SwapLoop(_, _, _)
SwapLoop(t, it, cur) ==
  LET P(x) == SelectInSeq(t, LAMBDA n : n.id = x)
      N(x) == IF P(x) = Len(t) THEN End ELSE t[P(x) + 1].id
      at   == IF it # End /\ t[P(it)].popped THEN cur ELSE it
  IN IF at = End THEN <<t, cur>>
     ELSE SwapLoop([t EXCEPT ![P(at)].popped = TRUE], N(at), N(at))

\* swap(q): every entry from the first unpopped one on is popped into q.
Swap ==
  /\ time # <<>>
  /\ \E i \in 1..Len(time) : ~time[i].popped
  /\ LET res == SwapLoop(time, Head(time).id, firstNoPop) IN
       /\ time' = res[1]
       /\ firstNoPop' = res[2]
  /\ UNCHANGED <<uniqId, data, caller, sweep, lag, cb, nextReq, completed, timedOut, backs>>

-----------------------------------------------------------------------------
(* timeout(df): tv is read once; then, one lock-held step per entry, the  *)
(* head is removed while tv - createTime > _timeout, and df(ptr) runs     *)
(* with the lock released.                                                *)

\* Slip: >= where the code has >.
ExpiredAtTvOrEqual(n) == n.age - lag >= Timeout

ExpiredAtTv(n) == n.age - lag > Timeout

SweepBegin ==
  /\ sweep = "idle"
  /\ sweep' = "run"
  /\ lag' = 0
  /\ UNCHANGED <<uniqId, data, time, firstNoPop, caller, cb, nextReq, completed, timedOut, backs>>

SweepRemove ==
  /\ sweep = "run"
  /\ cb = 0
  /\ time # <<>>
  /\ ExpiredAtTv(Head(time))
  /\ cb' = data[Head(time).id]
  /\ timedOut' = timedOut \cup {data[Head(time).id]}
  /\ Unlink(Head(time).id)
  /\ UNCHANGED <<uniqId, caller, sweep, lag, nextReq, completed, backs>>

\* Slip: the pointer handed to df is not cleared after the call.
SweepCallbackNoReset ==
  /\ cb # 0
  /\ Finish(cb)
  /\ UNCHANGED <<uniqId, data, time, firstNoPop, caller, sweep, lag, cb, nextReq, timedOut, backs>>

SweepCallback ==
  /\ cb # 0
  /\ Finish(cb)
  /\ cb' = 0
  /\ UNCHANGED <<uniqId, data, time, firstNoPop, caller, sweep, lag, nextReq, timedOut, backs>>

SweepEnd ==
  /\ sweep = "run"
  /\ cb = 0
  /\ IF time = <<>> THEN TRUE ELSE ~ExpiredAtTv(Head(time))
  /\ sweep' = "idle"
  /\ UNCHANGED <<uniqId, data, time, firstNoPop, caller, lag, cb, nextReq, completed, timedOut, backs>>

-----------------------------------------------------------------------------
(* The clock.                                                             *)

Tick ==
  /\ ~(sweep = "run" /\ lag = MaxSweepLag)
  /\ time' = [i \in 1..Len(time) |-> [time[i] EXCEPT !.age = AgeBy(@, 1)]]
  /\ lag' = IF sweep = "run" THEN lag + 1 ELSE lag
  /\ UNCHANGED <<uniqId, data, firstNoPop, caller, sweep, cb, nextReq, completed, timedOut, backs>>

\* gettimeofday returns an earlier time than before (not during a sweep,
\* whose tv is already read).
ClockBack ==
  /\ backs < MaxClockBacks
  /\ backs' = backs + 1
  /\ sweep = "idle"
  /\ \A i \in 1..Len(time) : time[i].age > MinAge
  /\ time' = [i \in 1..Len(time) |-> [time[i] EXCEPT !.age = AgeBy(@, -1)]]
  /\ UNCHANGED <<uniqId, data, firstNoPop, caller, sweep, lag, cb, nextReq, completed, timedOut>>

-----------------------------------------------------------------------------
Sweeper == SweepBegin \/ SweepRemove \/ SweepCallback \/ SweepEnd

Next ==
  \/ \E c \in Callers : GenerateId(c) \/ PushNew(c) \/ PushDuplicate(c)
  \/ \E id \in IdSpace : Get(id) \/ Erase(id)
  \/ Pop
  \/ Swap
  \/ Sweeper
  \/ Tick
  \/ ClockBack

\* The caller goes on from generateId to push; the client's network thread
\* calls timeout(df) on every loop; time passes.  Responses are not fair:
\* they may never come.
Fairness ==
  /\ \A c \in Callers : WF_vars(PushNew(c) \/ PushDuplicate(c))
  /\ WF_vars(Sweeper)
  /\ WF_vars(Tick)

Spec == Init /\ [][Next]_vars /\ Fairness

-----------------------------------------------------------------------------
(* Properties                                                             *)

TypeOK ==
  /\ uniqId \in IdSpace
  /\ DOMAIN data \subseteq IdSpace \ {End}
  /\ \A id \in DOMAIN data : data[id] \in Reqs
  /\ time \in Seq([id : IdSpace \ {End}, age : MinAge..AgeCap, popped : BOOLEAN])
  /\ firstNoPop \in IdSpace
  /\ caller \in [Callers -> [st : {"idle", "hasId"}, id : IdSpace, req : {0} \cup Reqs]]
  /\ sweep \in {"idle", "run"}
  /\ lag \in 0..MaxSweepLag
  /\ cb \in {0} \cup Reqs
  /\ nextReq \in 1..(MaxReqs + 1)
  /\ completed \in [Reqs -> Nat]
  /\ timedOut \subseteq Reqs
  /\ backs \in 0..MaxClockBacks

\* The cached _firstNoPopIter is exactly the first node not yet popped (or
\* end() when there is none).  pop() and swap() trust it whenever the head
\* is popped, and get/erase/timeout/pop/push each have to maintain it.
CursorIsFirstUnpopped ==
  LET i == SelectInSeq(time, LAMBDA n : ~n.popped) IN
  firstNoPop = IF i = 0 THEN End ELSE time[i].id

\* _data and _time index the same entries, each once (section 4.3: "every
\* value appears in both structures").
IndexesAgree ==
  /\ DOMAIN data = {time[i].id : i \in 1..Len(time)}
  /\ \A i, j \in 1..Len(time) : time[i].id = time[j].id => i = j

\* A request's owner is told at most once that it finished, whether by a
\* response (get/erase), by timeout(df) calling df, or by a refused push.
\* A response racing the sweeper must not both complete it.
CompletedAtMostOnce == \A r \in Reqs : completed[r] <= 1

\* Every request that was issued is eventually finished: answered, timed
\* out through df, or refused by push.
EveryRequestCompletes ==
  \A r \in Reqs : (r < nextReq) ~> (completed[r] = 1)

\* The queue implements the abstract registry: entries in _time order,
\* each with the request _data holds for it.
Registry == INSTANCE TimeoutRegistry WITH
  IdSet   <- IdSpace \ {End},
  ReqSet  <- Reqs,
  AgeCap  <- AgeCap,
  expired <- timedOut,
  entries <- [i \in 1..Len(time) |->
                [id |-> time[i].id, req |-> data[time[i].id],
                 age |-> time[i].age, popped |-> time[i].popped]]

RegistryRefinement == Registry!Spec

=============================================================================
