----------------------------- MODULE AtomicSet -----------------------------
(***************************************************************************)
(* What AtomicBitSet<A, V> over one atomic word promises its users: a set  *)
(* of indices whose methods take effect at one instant between call and    *)
(* return ("all operations are truly atomic with respect to the entire     *)
(* bitset", src/src/atomic.rs).  Spec says that of every method.           *)
(* LooseSpec lets pop_first and pop_last take any member and lets retain   *)
(* drop its members one at a time.  SharedSpec is what is left of it on    *)
(* several words: the methods on one index take effect at one instant of   *)
(* the whole set, while other methods change it as they please.            *)
(***************************************************************************)
EXTENDS Integers

CONSTANTS
  Threads,  \* the threads that share the set
  Bits,     \* the indices a set can hold
  Calls     \* the calls they may make, records [op, id, arg]

VARIABLES
  set,      \* the members
  phase,    \* phase[t]: t is "idle", "called" a method, or the method is "done"
  request,  \* request[t]: the call t is in
  result,   \* result[t]: the indices the method answers with
  owed      \* owed[t]: members since retain was called that it has to drop

vars == <<set, phase, request, result, owed>>

IndexOps == {"insert", "remove", "set_true", "set_false", "toggle", "contains"}
Pops == {"pop_first", "pop_last"}
NoCall == [op |-> "none"]
OtherCall == [op |-> "other"]  \* a method that is not on one index
InRange(c) == c.op \in IndexOps => c.id \in Bits

\* The set after call c on members S.
After(c, S) ==
  CASE c.op \in {"insert", "set_true"} -> S \cup {c.id}
    [] c.op \in {"remove", "set_false"} -> S \ {c.id}
    [] c.op = "toggle" -> (S \cup {c.id}) \ (S \cap {c.id})
    [] c.op = "union_from" -> S \cup c.arg
    [] c.op \in {"clear", "drain"} -> {}
    [] c.op = "retain" -> S \cap c.arg
    [] c.op = "pop_first" -> {x \in S : \E y \in S : y < x}
    [] c.op = "pop_last" -> {x \in S : \E y \in S : x < y}
    [] OTHER -> S

\* What the call tells its caller: the indices it put in or took out, or saw.
Answer(c, S) ==
  CASE c.op = "insert" -> {c.id} \ S
    [] c.op \in {"remove", "contains"} -> {c.id} \cap S
    [] c.op \in Pops -> S \ After(c, S)
    [] c.op \in {"drain", "read"} -> S
    [] OTHER -> {}

Invoke(t, c) ==
  /\ phase[t] = "idle"
  /\ phase' = [phase EXCEPT ![t] = "called"]
  /\ request' = [request EXCEPT ![t] = c]
  /\ UNCHANGED <<set, result>>

\* The method takes effect, all at once.
Finish(t, members, answer) ==
  /\ phase[t] = "called"
  /\ InRange(request[t])
  /\ phase' = [phase EXCEPT ![t] = "done"]
  /\ set' = members
  /\ result' = [result EXCEPT ![t] = answer]
  /\ UNCHANGED request
Atomically(t) == Finish(t, After(request[t], set), Answer(request[t], set))

\* A pop takes some member, the end or not.
TakeAny(t) ==
  /\ request[t].op \in Pops
  /\ \E x \in set : Finish(t, set \ {x}, {x})

\* retain drops one member its closure rejects, and is done when it has
\* dropped those that were there all along.
DropOne(t) ==
  /\ phase[t] = "called"
  /\ request[t].op = "retain"
  /\ \E x \in set \ request[t].arg : set' = set \ {x}
  /\ UNCHANGED <<phase, request, result>>
DropLast(t) ==
  /\ request[t].op = "retain"
  /\ \E gone \in SUBSET (set \ request[t].arg) :
       /\ owed[t] \subseteq gone
       /\ Finish(t, set \ gone, {})

\* A method that walks over the words changes the set, each time it comes to
\* one, in any way; its answer is not told here.
Meddle(t) ==
  /\ phase[t] = "called" /\ request[t] = OtherCall
  /\ set' \in SUBSET Bits
  /\ UNCHANGED <<phase, request, result>>
Leave(t) ==
  /\ phase[t] = "called" /\ request[t] = OtherCall
  /\ phase' = [phase EXCEPT ![t] = "idle"]
  /\ request' = [request EXCEPT ![t] = NoCall]
  /\ UNCHANGED <<set, result>>

\* The caller takes the answer; a call out of range panics instead.
Respond(t) ==
  /\ phase[t] = "done" \/ (phase[t] = "called" /\ ~ InRange(request[t]))
  /\ phase' = [phase EXCEPT ![t] = "idle"]
  /\ request' = [request EXCEPT ![t] = NoCall]
  /\ result' = [result EXCEPT ![t] = {}]
  /\ UNCHANGED set

Owe ==
  owed' = [t \in Threads |->
    IF phase'[t] = "called" /\ request'[t].op = "retain"
    THEN (IF phase[t] = "idle" THEN set' \ request'[t].arg ELSE owed[t] \cap set')
    ELSE {}]

Init ==
  /\ set \in SUBSET Bits
  /\ phase = [t \in Threads |-> "idle"]
  /\ request = [t \in Threads |-> NoCall]
  /\ result = [t \in Threads |-> {}]
  /\ owed = [t \in Threads |-> {}]

Step(t) == (\E c \in Calls : Invoke(t, c)) \/ Atomically(t) \/ Respond(t)
Next == \E t \in Threads : Step(t) /\ Owe
Spec == Init /\ [][Next]_vars

LooseNext ==
  \E t \in Threads : (Step(t) \/ TakeAny(t) \/ DropOne(t) \/ DropLast(t)) /\ Owe
LooseSpec == Init /\ [][LooseNext]_vars

SharedNext == \E t \in Threads : (Step(t) \/ Meddle(t) \/ Leave(t)) /\ Owe
SharedSpec == Init /\ [][SharedNext]_vars

=============================================================================
