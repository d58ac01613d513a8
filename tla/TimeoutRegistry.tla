-------------------------- MODULE TimeoutRegistry --------------------------
(***************************************************************************)
(* Abstract specification of what the timeout-indexed registry promises   *)
(* (spec.md section 4.3): a keyed store of entries kept in insertion      *)
(* order, each with an age and a popped flag.                             *)
(*   - an id is inserted at most once at a time;                          *)
(*   - any present entry may be removed by id;                            *)
(*   - pop marks the EARLIEST not-yet-popped entry, and the entry stays   *)
(*     in the store;                                                      *)
(*   - swap marks every not-yet-popped entry;                             *)
(*   - the sweeper only removes entries older than Timeout.               *)
(* There is no cursor and no second index here: TimeoutQueue keeps both   *)
(* and is shown to implement this module.                                 *)
(***************************************************************************)
EXTENDS Integers, Sequences

CONSTANTS
  IdSet,     \* the ids an entry may carry
  ReqSet,    \* the values (requests) an entry may hold
  Timeout,   \* the age beyond which an entry may be swept
  AgeCap     \* ages saturate here; AgeCap > Timeout

VARIABLES
  entries,   \* Seq of [id, req, age, popped], oldest insertion first
  expired    \* the values of the entries the sweeper has removed

vars == <<entries, expired>>

Ids == {entries[i].id : i \in 1..Len(entries)}

Init == entries = <<>> /\ expired = {}

Insert(id, r) ==
  /\ id \notin Ids
  /\ entries' = Append(entries, [id |-> id, req |-> r, age |-> 0, popped |-> FALSE])
  /\ UNCHANGED expired

Remove(id) ==
  /\ id \in Ids
  /\ entries' = SelectSeq(entries, LAMBDA e : e.id # id)
  /\ UNCHANGED expired

\* The earliest entry not yet popped is marked; later ones are untouched.
PopFirst ==
  \E i \in 1..Len(entries) :
    /\ ~entries[i].popped
    /\ \A j \in 1..(i - 1) : entries[j].popped
    /\ entries' = [entries EXCEPT ![i].popped = TRUE]
    /\ UNCHANGED expired

PopAll ==
  /\ \E i \in 1..Len(entries) : ~entries[i].popped
  /\ entries' = [i \in 1..Len(entries) |-> [entries[i] EXCEPT !.popped = TRUE]]
  /\ UNCHANGED expired

Expire(id) ==
  \E i \in 1..Len(entries) :
    /\ entries[i].id = id
    /\ entries[i].age > Timeout
    /\ entries' = SelectSeq(entries, LAMBDA e : e.id # id)
    /\ expired' = expired \cup {entries[i].req}

\* Time passes (or steps back by one): every age moves together.
Age(d) ==
  /\ entries' = [i \in 1..Len(entries) |->
                  [entries[i] EXCEPT !.age = IF @ + d > AgeCap THEN AgeCap ELSE @ + d]]
  /\ UNCHANGED expired

Next ==
  \/ \E id \in IdSet, r \in ReqSet : Insert(id, r)
  \/ \E i \in 1..Len(entries) : Remove(entries[i].id)
  \/ PopFirst
  \/ PopAll
  \/ \E i \in 1..Len(entries) : Expire(entries[i].id)
  \/ Age(1)
  \/ Age(-1)

Spec == Init /\ [][Next]_vars

=============================================================================
