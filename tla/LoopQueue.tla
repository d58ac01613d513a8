----------------------------- MODULE LoopQueue -----------------------------
(***************************************************************************)
(* TC_LoopQueue<T> (src/cpp/util/include/util/tc_loop_queue.h): a fixed   *)
(* ring of _iCapacity = iSize + 1 slots, written by one producer at       *)
(* _iBegin and read by one consumer at _iEnd, with no lock, no atomic and *)
(* no fence.  Each statement of push_back(t, bEmpty) that reads or writes *)
(* shared state is its own step, so the consumer's pop_front may fall     *)
(* between any two of them.                                               *)
(*                                                                        *)
(* The ring holds request numbers; 0 is a slot malloc() never wrote.      *)
(* With StoreReorder the store into the slot may become visible to the    *)
(* consumer after the store to _iBegin (the compiler and a weakly ordered *)
(* CPU are both free to do so: the two are plain, unsynchronised writes). *)
(***************************************************************************)
EXTENDS Integers, Sequences, SequencesExt

CONSTANTS
  Cap,          \* iSize: the ring holds at most Cap values
  MaxPush,      \* bound: values the producer offers in one behaviour
  StoreReorder  \* TRUE: the slot store may be published after _iBegin

ASSUME Cap \in Nat \ {0} /\ MaxPush \in Nat \ {0} /\ StoreReorder \in BOOLEAN

Capacity == Cap + 1      \* _iCapacity
CapSub   == Cap          \* _iCapacitySub, the last index
Slots    == 0 .. CapSub
Vals     == 1 .. MaxPush
NoStore  == [slot |-> 0, val |-> 0]

VARIABLES
  buf,         \* _p[0.._iCapacitySub], as the consumer sees it
  iBegin,      \* _iBegin (producer index)
  iEnd,        \* _iEnd (consumer index)
  wbuf,        \* a slot store not yet visible to the consumer, or NoStore
  ppc,         \* producer: "idle" | "write" | "empty" | "adv" | "size" | "ret"
  pEnd,        \* the local iEnd push_back copied from _iEnd
  pval,        \* value being pushed
  ok,          \* push_back's result
  bEmpty,      \* push_back's out-parameter
  nextVal,     \* next value to offer (history)
  sent,        \* values whose push_back published them, in order (history)
  got          \* values pop_front returned, in order (history)

qvars == <<buf, iBegin, iEnd, wbuf>>
pvars == <<ppc, pEnd, pval, ok, bEmpty, nextVal, sent>>

\* empty(), lines 227-234: both indexes are equal.
IsEmpty(b, e) == e = b

\* size() on given indexes.
SizeOf(b, e) == IF b < e THEN b + Capacity - e ELSE b - e

\* Slips in the full test: the first clause dropped, or both bounds one off.
FullNoFirstClause(b, e) == b > e /\ b - e > Capacity - 2
FullOneEarly(b, e) == (e > b /\ e - b < 3) \/ (b > e /\ b - e > Capacity - 3)

\* The full test of push_back, on its copy e of _iEnd.
Full(b, e) == (e > b /\ e - b < 2) \/ (b > e /\ b - e > Capacity - 2)

\* Slip: wrapping at _iCapacity instead of _iCapacitySub.
IncPastEnd(i) == IF i = Capacity THEN 0 ELSE i + 1

\* Index after i, wrapping at _iCapacitySub.
Inc(i) == IF i = CapSub THEN 0 ELSE i + 1

QInit ==
  /\ buf = [s \in Slots |-> 0]
  /\ iBegin = 0
  /\ iEnd = 0
  /\ wbuf = NoStore

PInit ==
  /\ ppc = "idle"
  /\ pEnd = 0
  /\ pval = 0
  /\ ok = FALSE
  /\ bEmpty = FALSE
  /\ nextVal = 1
  /\ sent = <<>>

-----------------------------------------------------------------------------
(* push_back(t, bEmpty), lines 109-147.                                   *)

\* bEmpty = false; iEnd = _iEnd; the full test; return false when full.
PushCheck ==
  /\ ppc = "idle"
  /\ nextVal <= MaxPush
  /\ pval' = nextVal
  /\ nextVal' = nextVal + 1
  /\ pEnd' = iEnd
  /\ bEmpty' = FALSE
  /\ ok' = ~Full(iBegin, iEnd)
  /\ ppc' = IF Full(iBegin, iEnd) THEN "ret" ELSE "write"
  /\ UNCHANGED <<qvars, sent>>

\* memcpy(_p + _iBegin, &t, sizeof(T)): visible at once, or held back.
PushWrite ==
  /\ ppc = "write"
  /\ wbuf = NoStore
  /\ \/ buf' = [buf EXCEPT ![iBegin] = pval] /\ UNCHANGED wbuf
     \/ StoreReorder /\ wbuf' = [slot |-> iBegin, val |-> pval] /\ UNCHANGED buf
  /\ ppc' = "empty"
  /\ UNCHANGED <<iBegin, iEnd, pEnd, pval, ok, bEmpty, nextVal, sent>>

\* A held-back slot store reaches memory.
Flush ==
  /\ wbuf # NoStore
  /\ buf' = [buf EXCEPT ![wbuf.slot] = wbuf.val]
  /\ wbuf' = NoStore
  /\ UNCHANGED <<iBegin, iEnd, pvars, got>>

\* if (_iEnd == _iBegin) bEmpty = true;  (re-reads _iEnd)
PushEmptyCheck ==
  /\ ppc = "empty"
  /\ bEmpty' = (iEnd = iBegin)
  /\ ppc' = "adv"
  /\ UNCHANGED <<qvars, pEnd, pval, ok, nextVal, sent>>

\* _iBegin advances, wrapping at _iCapacitySub: the value is published.
PushAdvance ==
  /\ ppc = "adv"
  /\ iBegin' = Inc(iBegin)
  /\ sent' = Append(sent, pval)
  /\ ppc' = "size"
  /\ UNCHANGED <<buf, iEnd, wbuf, pEnd, pval, ok, bEmpty, nextVal>>

\* if (!bEmpty && 1 == size()) bEmpty = true;
PushSizeCheck ==
  /\ ppc = "size"
  /\ bEmpty' = (bEmpty \/ SizeOf(iBegin, iEnd) = 1)
  /\ ppc' = "ret"
  /\ UNCHANGED <<qvars, pEnd, pval, ok, nextVal, sent>>

\* pop_front(t), lines 183-198: false when empty, else copy _p[_iEnd] and
\* advance _iEnd.  Only the consumer writes _iEnd, so this is one step.
PopFront ==
  /\ ~IsEmpty(iBegin, iEnd)
  /\ got' = Append(got, buf[iEnd])
  /\ iEnd' = Inc(iEnd)
  /\ UNCHANGED <<buf, iBegin, wbuf, pvars>>

\* pop_front(t) on an empty ring returns false and changes nothing.
PopEmpty ==
  /\ IsEmpty(iBegin, iEnd)
  /\ UNCHANGED <<qvars, pvars, got>>

-----------------------------------------------------------------------------
(* The queue on its own: one producer calling push_back(t, bEmpty) and    *)
(* one consumer calling pop_front(t), each in a loop.                     *)

PushReturn ==
  /\ ppc = "ret"
  /\ ppc' = "idle"
  /\ UNCHANGED <<qvars, pEnd, pval, ok, bEmpty, nextVal, sent, got>>

Init == QInit /\ PInit /\ got = <<>>

Next ==
  \/ PushCheck /\ UNCHANGED got
  \/ PushWrite /\ UNCHANGED got
  \/ Flush
  \/ PushEmptyCheck /\ UNCHANGED got
  \/ PushAdvance /\ UNCHANGED got
  \/ PushSizeCheck /\ UNCHANGED got
  \/ PushReturn
  \/ PopFront
  \/ PopEmpty

vars == <<qvars, pvars, got>>

Spec == Init /\ [][Next]_vars

-----------------------------------------------------------------------------
(* Properties                                                             *)

QTypeOK ==
  /\ buf \in [Slots -> {0} \cup Vals]
  /\ iBegin \in Slots /\ iEnd \in Slots
  /\ wbuf \in {NoStore} \cup [slot : Slots, val : Vals]
  /\ ppc \in {"idle", "write", "empty", "adv", "size", "ret"}
  /\ pEnd \in Slots /\ pval \in {0} \cup Vals
  /\ ok \in BOOLEAN /\ bEmpty \in BOOLEAN
  /\ nextVal \in 1 .. (MaxPush + 1)
  /\ sent \in Seq(Vals) /\ got \in Seq({0} \cup Vals)

\* The ring read from _iEnd to _iBegin.
Ring == [k \in 1 .. SizeOf(iBegin, iEnd) |-> buf[(iEnd + k - 1) % Capacity]]

\* Section 8.3: whatever the interleaving of push_back and pop_front,
\* pop_front has returned exactly the first values push_back published, in
\* order, and the ring holds exactly the rest (pushed - popped = size()).
FifoRing ==
  /\ IsPrefix(got, sent)
  /\ Ring = SubSeq(sent, Len(got) + 1, Len(sent))

\* Section 8.3: push_back fails only when the ring already holds Cap values
\* when it reads _iEnd (a slot is never overwritten, none is wasted).
PushFailsOnlyWhenFull ==
  ppc = "ret" /\ ~ok => SizeOf(iBegin, pEnd) = Cap

=============================================================================
