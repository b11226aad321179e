----------------------------- MODULE BoundedSet -----------------------------
(***************************************************************************)
(* What the plain set types promise their users: named sets of indices,    *)
(* each below a capacity of its own, with the operations of sets.  The     *)
(* words the bits are kept in do not show.                                 *)
(*                                                                         *)
(* An operator makes a set as large as its result needs; a method that     *)
(* changes a set in place keeps its capacity, and what would be above it   *)
(* is left out.                                                            *)
(***************************************************************************)
EXTENDS Integers, FiniteSetsExt

CONSTANTS
  Names,   \* the sets of the program
  Unit,    \* capacities are multiples of it
  MaxCap,  \* bound: the largest capacity
  Batches, \* the sequences of names that are collected or extended with
  Elems    \* the sequences of indices that are

VARIABLES
  members,   \* members[r]: the members of set r
  capacity,  \* capacity[r]: they are below it
  ret        \* the last call: the method, and whether it panicked or the indices
             \* it answered with

vars == <<members, capacity, ret>>

Below(r) == 0 .. capacity[r] - 1
Answer(call, ids) == ret' = [call |-> call, panic |-> FALSE, ids |-> ids]

Become(r, ids, cap) ==
  /\ members' = [members EXCEPT ![r] = ids]
  /\ capacity' = [capacity EXCEPT ![r] = cap]
Change(r, ids) == Become(r, ids, capacity[r])

\* with_capacity rounds up, by less than a unit.
Make(r) ==
  /\ Answer("with_capacity", {})
  /\ \E bits, cap \in 0 .. MaxCap :
       /\ cap % Unit = 0 /\ bits <= cap /\ cap < bits + Unit
       /\ Become(r, {}, cap)

New(r) == Answer("new", {}) /\ Change(r, {})

FromElement(r, i) ==
  Answer("from_element", {}) /\ i \in Below(r) /\ Change(r, {i})

\* What from_indices makes of an index out of range is not specified.
FromIndices(r, ids) ==
  /\ Answer("from_indices", {})
  /\ IF ids \subseteq Below(r) THEN Change(r, ids)
                               ELSE \E any \in SUBSET Below(r) : Change(r, any)

\* The methods with an index panic on one the set has no place for.
OutOfRange(r, i) ==
  /\ ret' = [call |-> "check_bit_index", panic |-> TRUE, ids |-> {}]
  /\ i \notin Below(r)
  /\ UNCHANGED <<members, capacity>>
Insert(r, i) ==
  /\ Answer("insert", {i} \ members[r])
  /\ i \in Below(r)
  /\ Change(r, members[r] \cup {i})
Remove(r, i) ==
  /\ Answer("remove", {i} \cap members[r])
  /\ i \in Below(r)
  /\ Change(r, members[r] \ {i})
Assign(r, i) ==
  /\ i \in Below(r)
  /\ \/ Answer("set true", {}) /\ Change(r, members[r] \cup {i})
     \/ Answer("set false", {}) /\ Change(r, members[r] \ {i})
Toggle(r, i) ==
  /\ Answer("toggle", {})
  /\ i \in Below(r)
  /\ i \in members[r] => Change(r, members[r] \ {i})
  /\ i \notin members[r] => Change(r, members[r] \cup {i})
Contains(r, i) ==
  /\ Answer("contains", {i} \cap members[r])
  /\ i \in Below(r)
  /\ UNCHANGED <<members, capacity>>

PopFirst(r) ==
  LET ends == IF members[r] = {} THEN {} ELSE {Min(members[r])} IN
  Answer("pop_first", ends) /\ Change(r, members[r] \ ends)
PopLast(r) ==
  LET ends == IF members[r] = {} THEN {} ELSE {Max(members[r])} IN
  Answer("pop_last", ends) /\ Change(r, members[r] \ ends)
Clear(r) == Answer("clear", {}) /\ Change(r, {})

\* drain answers from the lowest on, and empties the set however few it gave.
Drain(r) ==
  /\ \E n \in 0 .. MaxCap : Answer("drain", {i \in members[r] : i < n})
  /\ Change(r, {})
Retain(r) == Answer("retain", {}) /\ \E kept \in SUBSET members[r] : Change(r, kept)

SymmetricDifference(m, n) == (m \ n) \cup (n \ m)

\* In place.
InPlace(r, s) ==
  LET m == members[r]  n == members[s] IN
  \/ Answer("|=", {}) /\ Change(r, (m \cup n) \cap Below(r))
  \/ Answer("&=", {}) /\ Change(r, m \cap n)
  \/ Answer("-=", {}) /\ Change(r, m \ n)
  \/ Answer("^=", {}) /\ Change(r, SymmetricDifference(m, n) \cap Below(r))
\* What r has room for moves there from s; the rest stays in s.
Append(r, s) ==
  /\ Answer("append", {})
  /\ members' = [members EXCEPT ![r] = @ \cup (members[s] \cap Below(r)),
                                ![s] = @ \ Below(r)]
  /\ UNCHANGED capacity
United(batch) == UNION {members[batch[i]] : i \in DOMAIN batch}
Extend(r, batch) ==
  Answer("extend", {}) /\ Change(r, members[r] \cup (United(batch) \cap Below(r)))

\* Elements go in one by one, up to the first that is out of range.
Fitting(r, elems) ==
  {elems[j] : j \in {l \in DOMAIN elems : \A m \in 1 .. l : elems[m] \in Below(r)}}
Fits(r, elems) == \A j \in DOMAIN elems : elems[j] \in Below(r)
ExtendElems(r, elems) ==
  /\ IF Fits(r, elems)
     THEN Answer("extend", {})
     ELSE ret' = [call |-> "check_bit_index", panic |-> TRUE, ids |-> {}]
  /\ Change(r, members[r] \cup Fitting(r, elems))
CollectElems(q, elems) ==
  Answer("collect", {}) /\ Fits(q, elems) /\ Change(q, Fitting(q, elems))

\* By value: q becomes the result on r and s.
Operator(q, r, s) ==
  LET m == members[r]  n == members[s]
      wide == Max({capacity[r], capacity[s]}) IN
  \/ Answer("|", {}) /\ Become(q, m \cup n, wide)
  \/ Answer("&", {}) /\ Become(q, m \cap n, capacity[r])
  \/ Answer("-", {}) /\ Become(q, m \ n, capacity[r])
  \/ Answer("^", {}) /\ Become(q, SymmetricDifference(m, n), wide)
\* With indices that are no set of the program.
OperatorOn(q, r, ids) ==
  \/ Answer("union", {}) /\ Become(q, members[r] \cup ids, capacity[r])
  \/ Answer("difference", {}) /\ Become(q, members[r] \ ids, capacity[r])
InPlaceOn(r, ids) == Answer("union_from", {}) /\ Change(r, members[r] \cup ids)
Complement(q, r) == Answer("!", {}) /\ Become(q, Below(r) \ members[r], capacity[r])
\* A boxed set becomes as large as the largest; the others are of one size.
Collect(q, batch) ==
  /\ Answer("collect", {})
  /\ \E cap \in {capacity[q], Max({0} \cup {capacity[batch[i]] : i \in DOMAIN batch})} :
       United(batch) \subseteq 0 .. cap - 1 /\ Become(q, United(batch), cap)

Init ==
  /\ capacity \in [Names -> {cap \in 0 .. MaxCap : cap % Unit = 0}]
  /\ members \in [Names -> SUBSET (0 .. MaxCap - 1)]
  /\ \A r \in Names : members[r] \subseteq Below(r)
  /\ ret = [call |-> "new", panic |-> FALSE, ids |-> {}]

Next ==
  \E r \in Names :
    \/ Make(r) \/ New(r)
    \/ \E i \in 0 .. MaxCap :
         \/ OutOfRange(r, i) \/ Insert(r, i) \/ Remove(r, i) \/ Assign(r, i)
         \/ Toggle(r, i) \/ Contains(r, i) \/ FromElement(r, i)
    \/ PopFirst(r) \/ PopLast(r) \/ Clear(r) \/ Drain(r)
    \/ Retain(r)
    \/ \E elems \in Elems :
         \/ ExtendElems(r, elems) \/ CollectElems(r, elems)
         \/ FromIndices(r, {elems[j] : j \in DOMAIN elems})
    \/ \E s \in Names \ {r} : InPlace(r, s) \/ Append(r, s)
    \/ \E batch \in Batches : Extend(r, batch) \/ Collect(r, batch)
    \/ \E ids \in SUBSET Below(r) :
         InPlaceOn(r, ids) \/ \E q \in Names : OperatorOn(q, r, ids)
    \/ \E q \in Names : Complement(q, r) \/ \E s \in Names : Operator(q, r, s)

Spec == Init /\ [][Next]_vars

=============================================================================
