---------------------------- MODULE AtomicBitSet ----------------------------
(***************************************************************************)
(* AtomicBitSet<A, V> over one atomic word (src/src/atomic.rs), shared by  *)
(* any number of threads.  One step is one access to the word with the     *)
(* thread-local computation up to the next access, or to the return; the   *)
(* word is the set of its 1 bits.  set(id, v) is insert or remove with the *)
(* answer dropped.  V::try_from of a popped or retained bit is undefined   *)
(* behaviour when it fails: here V holds every index of the word.          *)
(***************************************************************************)
EXTENDS Integers

CONSTANTS
  Threads,  \* the threads that share the set
  BITS,     \* the bits of the word, Self::BITS
  Calls     \* the calls they may make

ASSUME BitsAssumption == BITS \in Nat \ {0}

Bits == 0 .. BITS - 1

IndexOps == {"insert", "remove", "toggle", "contains"}
Ops == IndexOps \cup
  {"pop_first", "pop_last", "read", "union_from", "clear", "drain", "retain"}
\* The method, its index, and the bits retain's closure keeps or union_from adds.
CallType == [op: Ops, id: Nat, arg: SUBSET Bits]
ASSUME CallsAssumption == Calls \subseteq CallType
NoCall == [op |-> "none"]

VARIABLES
  store,   \* the 1 bits of the word
  pc,      \* pc[t]: what thread t does next
  call,    \* call[t]: the call t is in
  w,       \* w[t]: the bits a loop of t holds: pop's mask, retain's snapshot
  answer,  \* answer[t]: the indices t's method returns
  owed     \* history: the bits t's retain has to clear, there since it began

vars == <<store, pc, call, w, answer, owed>>

-----------------------------------------------------------------------------
IsLowest(b, bits) == b \in bits /\ \A c \in bits : b <= c
IsHighest(b, bits) == b \in bits /\ \A c \in bits : c <= b

\* The bit pop_first (trailing_zeros) or pop_last (leading_zeros) chooses.
IsEnd(c, b, bits) == IF c.op = "pop_last" THEN IsHighest(b, bits) ELSE IsLowest(b, bits)

\* Thread t is at the first access of a method op.
At(t, op) == pc[t] = "start" /\ call[t].op = op
Goto(t, label) == pc' = [pc EXCEPT ![t] = label]
Return(t, ids) == Goto(t, "return") /\ answer' = [answer EXCEPT ![t] = ids]
Hold(t, bits) == w' = [w EXCEPT ![t] = bits]

\* check_bit_index panics before the word is touched.
Begin(t, c) ==
  /\ pc[t] = "idle"
  /\ call' = [call EXCEPT ![t] = c]
  /\ Goto(t, IF c.op \in IndexOps /\ c.id >= BITS THEN "panic" ELSE "start")
  /\ UNCHANGED <<store, w, answer>>

End(t) ==
  /\ pc[t] \in {"return", "panic"}
  /\ Goto(t, "idle")
  /\ call' = [call EXCEPT ![t] = NoCall]
  /\ answer' = [answer EXCEPT ![t] = {}]
  /\ UNCHANGED <<store, w>>

-----------------------------------------------------------------------------
\* Methods of one access: fetch_or, fetch_and, fetch_xor, load, store or swap.

Insert(t) ==
  /\ At(t, "insert")
  /\ store' = store \cup {call[t].id}
  /\ Return(t, {call[t].id} \ store)
  /\ UNCHANGED <<call, w>>

Remove(t) ==
  /\ At(t, "remove")
  /\ store' = store \ {call[t].id}
  /\ Return(t, {call[t].id} \cap store)
  /\ UNCHANGED <<call, w>>

Toggle(t) ==
  /\ At(t, "toggle")
  /\ store' = (store \ {call[t].id}) \cup ({call[t].id} \ store)
  /\ Return(t, {})
  /\ UNCHANGED <<call, w>>

Contains(t) ==
  /\ At(t, "contains")
  /\ Return(t, {call[t].id} \cap store)
  /\ UNCHANGED <<store, call, w>>

\* len, is_empty, first, last, iter, union, difference, hash: one load, and a
\* computation on the loaded word.
Read(t) ==
  /\ At(t, "read")
  /\ Return(t, store)
  /\ UNCHANGED <<store, call, w>>

UnionFrom(t) ==
  /\ At(t, "union_from")
  /\ store' = store \cup call[t].arg
  /\ Return(t, {})
  /\ UNCHANGED <<call, w>>

Clear(t) ==
  /\ At(t, "clear")
  /\ store' = {}
  /\ Return(t, {})
  /\ UNCHANGED <<call, w>>

Drain(t) ==
  /\ At(t, "drain")
  /\ store' = {}
  /\ Return(t, store)
  /\ UNCHANGED <<call, w>>

-----------------------------------------------------------------------------
\* pop_first and pop_last: load, choose the end bit, fetch_and it away, and
\* start over if another thread had cleared it by then.

PopLoad(t) ==
  /\ At(t, "pop_first") \/ At(t, "pop_last")
  /\ \/ store = {} /\ Return(t, {}) /\ UNCHANGED w
     \/ \E b \in store :
          /\ IsEnd(call[t], b, store)
          /\ Hold(t, {b})
          /\ Goto(t, "pop_take")
          /\ UNCHANGED answer
  /\ UNCHANGED <<store, call>>

\* A bug: a lost race is taken for an empty set.
PopTakeGivesUp(t) ==
  /\ pc[t] = "pop_take"
  /\ store' = store \ w[t]
  /\ Return(t, store \cap w[t])
  /\ Hold(t, {})
  /\ UNCHANGED call

PopTake(t) ==
  /\ pc[t] = "pop_take"
  /\ store' = store \ w[t]
  /\ IF store \cap w[t] # {}
     THEN Return(t, w[t])
     ELSE Goto(t, "start") /\ UNCHANGED answer
  /\ Hold(t, {})
  /\ UNCHANGED call

\* retain: one load, then a fetch_and for each bit of it the closure rejects.
RetainLoad(t) ==
  /\ At(t, "retain")
  /\ Hold(t, store)
  /\ IF store = {} THEN Return(t, {}) ELSE Goto(t, "retain_bit") /\ UNCHANGED answer
  /\ UNCHANGED <<store, call>>

\* A bug: the bits the closure keeps are cleared.
RetainBitInverted(t) ==
  /\ pc[t] = "retain_bit"
  /\ \E b \in w[t] :
       /\ IsLowest(b, w[t])
       /\ Hold(t, w[t] \ {b})
       /\ store' = IF b \in call[t].arg THEN store \ {b} ELSE store
       /\ IF w[t] = {b} THEN Return(t, {}) ELSE UNCHANGED <<pc, answer>>
  /\ UNCHANGED call

RetainBit(t) ==
  /\ pc[t] = "retain_bit"
  /\ \E b \in w[t] :
       /\ IsLowest(b, w[t])
       /\ Hold(t, w[t] \ {b})
       /\ store' = IF b \in call[t].arg THEN store ELSE store \ {b}
       /\ IF w[t] = {b} THEN Return(t, {}) ELSE UNCHANGED <<pc, answer>>
  /\ UNCHANGED call

-----------------------------------------------------------------------------
Active(t) == pc[t] \in {"start", "pop_take", "retain_bit"}

Record ==
  owed' = [t \in Threads |->
    IF pc'[t] \in {"start", "retain_bit"} /\ call'[t].op = "retain"
    THEN (IF pc[t] = "idle" THEN store' \ call'[t].arg ELSE owed[t] \cap store')
    ELSE {}]

Access(t) ==
  \/ Insert(t) \/ Remove(t) \/ Toggle(t) \/ Contains(t) \/ Read(t)
  \/ UnionFrom(t) \/ Clear(t) \/ Drain(t)
  \/ PopLoad(t) \/ PopTake(t)
  \/ RetainLoad(t) \/ RetainBit(t)

\* from_bits wraps any word.
Init ==
  /\ store \in SUBSET Bits
  /\ pc = [t \in Threads |-> "idle"]
  /\ call = [t \in Threads |-> NoCall]
  /\ w = [t \in Threads |-> {}]
  /\ answer = [t \in Threads |-> {}]
  /\ owed = [t \in Threads |-> {}]

Step(t) == (\E c \in Calls : Begin(t, c)) \/ Access(t) \/ End(t)
Next == \E t \in Threads : Step(t) /\ Record
Spec == Init /\ [][Next]_vars

-----------------------------------------------------------------------------
\* The types of the variables, and what each loop holds: a pop one bit, and
\* retain a snapshot of the word with every bit it still has to clear.
TypeOK ==
  /\ store \in SUBSET Bits
  /\ pc \in [Threads -> {"idle", "start", "pop_take", "retain_bit", "return", "panic"}]
  /\ call \in [Threads -> Calls \cup {NoCall}]
  /\ w \in [Threads -> SUBSET Bits]
  /\ answer \in [Threads -> SUBSET Bits]
  /\ owed \in [Threads -> SUBSET Bits]

Held(t) ==
  /\ Active(t) \/ pc[t] = "panic" => call[t] \in Calls
  /\ pc[t] = "idle" => call[t] = NoCall
  /\ pc[t] = "panic" <=> call[t].op \in IndexOps /\ call[t].id >= BITS
  /\ pc[t] # "return" => answer[t] = {}
  /\ pc[t] = "pop_take" =>
       call[t].op \in {"pop_first", "pop_last"} /\ \E b \in Bits : w[t] = {b}
  /\ pc[t] = "retain_bit" => call[t].op = "retain" /\ w[t] # {} /\ owed[t] \subseteq w[t]
  /\ owed[t] \subseteq store
  /\ IF pc[t] \in {"start", "retain_bit"} /\ call[t].op = "retain"
     THEN owed[t] \cap call[t].arg = {} ELSE owed[t] = {}
IInv == TypeOK /\ \A t \in Threads : Held(t)

-----------------------------------------------------------------------------
\* The methods as a user sees them.  as_bits hands out the word itself, so the
\* set of the abstraction is the word at every instant.
Set == INSTANCE AtomicSet WITH
  set <- store,
  phase <- [t \in Threads |-> IF pc[t] = "idle" THEN "idle"
                              ELSE IF pc[t] = "return" THEN "done" ELSE "called"],
  request <- call,
  result <- answer,
  owed <- owed

\* Every method takes effect at one instant, except that pop_first and pop_last
\* take some member (the end of an earlier load), and retain drops members one
\* at a time; None still means empty, and no bit is popped twice.
Loose == Set!LooseSpec

\* "Each method operates on one atomic word: all operations are truly atomic
\* with respect to the entire bitset."
TrulyAtomic == Set!Spec

=============================================================================
