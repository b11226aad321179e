--------------------------- MODULE AtomicBitSlice ---------------------------
(***************************************************************************)
(* The methods of AtomicBitSlice<A, V> (src/src/atomic_slice.rs), which    *)
(* AtomicBitSet<[A; N], V> and AtomicBoxedBitSet<A, V> reach through       *)
(* Deref, run by any number of threads on shared slices.                   *)
(*                                                                         *)
(* A slice is an array of atomic words; every method is a sequence of      *)
(* accesses to single words, and one step of this module is one access     *)
(* with the thread-local computation up to the next one.  A word is the    *)
(* set of its 1 bits.  Memory is one total order of accesses per word:     *)
(* read-modify-writes on one word are totally ordered in the Rust model    *)
(* too; loads that may return old values, and what the orderings publish,  *)
(* are the subject of Handoff.                                             *)
(*                                                                         *)
(* stable and ever are history variables: for each running call, what each *)
(* slice held at every instant since the call began, and what it held at   *)
(* some instant.  The properties relate the answer of a call to the two.   *)
(***************************************************************************)
EXTENDS Integers

CONSTANTS
  Threads,     \* the threads that share the slices
  Slices,      \* the shared slices
  Len,         \* Len[s]: the number of words of slice s
  BITS_PER,    \* the bits of a word, Self::BITS_PER
  Convertible, \* the indices for which V::try_from(usize) is Ok
  Calls        \* the calls the threads may make

ASSUME LenAssumption == Len \in [Slices -> Nat]
ASSUME BitsAssumption == BITS_PER \in Nat \ {0}

(***************************************************************************)
(* A call: the method, its receiver and other slice, the index argument,   *)
(* and a set of indices: what retain's closure keeps, or the 1 bits of the *)
(* plain words given to union_from.                                        *)
(***************************************************************************)
IndexOps == {"insert", "remove", "set_true", "set_false", "toggle", "contains"}
Ops == IndexOps \cup
  {"len", "is_empty", "first", "last", "iter", "pop_first", "pop_last", "drain",
   "clear", "retain", "union_from", "is_subset", "is_disjoint", "append"}
CallType ==
  [op: Ops, self: Slices, other: Slices, id: Nat, arg: SUBSET Nat]
ASSUME CallsAssumption == Calls \subseteq CallType
NoCall == [op |-> "none"]

VARIABLES
  words,   \* words[s][i]: the 1 bits of word i of slice s
  pc,      \* pc[t]: the access thread t does next
  call,    \* call[t]: the call t is in
  i,       \* i[t]: the word the method's loop is at
  w,       \* w[t]: the word, or the mask, the method holds in a local
  acc,     \* acc[t]: the indices the method has returned or gathered
  ok,      \* ok[t]: the answer of is_empty, is_subset and is_disjoint
  stable,  \* history: stable[t][s], in s all the time since t's call began
  ever     \* history: ever[t][s], in s at some time since t's call began

locals == <<call, i, w, acc, ok>>
vars == <<words, pc, call, i, w, acc, ok, stable, ever>>

Bits == 0 .. BITS_PER - 1
WordsOf(s) == 0 .. Len[s] - 1

-----------------------------------------------------------------------------
\* Where an index lives, and back.

WordIdx(id) == id \div BITS_PER
BitIdx(id) == id % BITS_PER
IdxOf(word, bit) == word * BITS_PER + bit
Capacity(s) == Len[s] * BITS_PER

\* The indices whose bits are set in word j, and in a whole slice.
IdxsOf(j, bits) == {IdxOf(j, b) : b \in bits}
Members(s, ws) ==
  {id \in 0 .. Capacity(s) - 1 : BitIdx(id) \in ws[s][WordIdx(id)]}

\* trailing_zeros, and BITS_PER - 1 - leading_zeros, of a non-zero word.
IsLowest(b, bits) == b \in bits /\ \A c \in bits : b <= c
IsHighest(b, bits) == b \in bits /\ \A c \in bits : c <= b

\* last and pop_last walk the words from the end and take the highest bit.
Backward(c) == c.op \in {"last", "pop_last"}
IsEnd(c, b, bits) == IF Backward(c) THEN IsHighest(b, bits) ELSE IsLowest(b, bits)

\* The words a method's loop visits.
Extent(c) ==
  CASE c.op = "append" -> Len[c.other]
    [] c.op = "is_disjoint" /\ Len[c.other] < Len[c.self] -> Len[c.other]
    [] OTHER -> Len[c.self]

\* The first access of a method at word j.
Label(c, j) ==
  CASE c.op \in {"insert", "set_true"} -> "insert"
    [] c.op \in {"remove", "set_false"} -> "remove"
    [] c.op \in {"len", "iter"} -> "gather"
    [] c.op \in {"first", "last"} -> "find"
    [] c.op \in {"pop_first", "pop_last"} -> "pop_load"
    [] c.op = "retain" -> "retain_load"
    [] c.op \in {"is_subset", "is_disjoint"} -> "pair_load"
    [] c.op = "append" -> IF j < Len[c.self] THEN "append_swap" ELSE "append_clear"
    [] OTHER -> c.op

-----------------------------------------------------------------------------
Goto(t, label) == pc' = [pc EXCEPT ![t] = label]
Return(t) == Goto(t, "return")

\* The loop of call c goes to word j, or is over.
LoopTo(t, c, j) ==
  /\ i' = [i EXCEPT ![t] = j]
  /\ Goto(t, IF j \in 0 .. Extent(c) - 1 THEN Label(c, j) ELSE "return")
NextWord(t) == LoopTo(t, call[t], IF Backward(call[t]) THEN i[t] - 1 ELSE i[t] + 1)

\* The receiver's word the method is at, and the other slice's.
Self(t) == words[call[t].self][i[t]]
Other(t) == words[call[t].other][i[t]]
Store(s, j, bits) == words' = [words EXCEPT ![s][j] = bits]
StoreSelf(t, bits) == Store(call[t].self, i[t], bits)

Answer(t, ids) == acc' = [acc EXCEPT ![t] = ids]
Hold(t, bits) == w' = [w EXCEPT ![t] = bits]

-----------------------------------------------------------------------------
\* A call begins.  check_bit_index panics before any word is touched.

Begin(t, c) ==
  /\ pc[t] = "idle"
  /\ call' = [call EXCEPT ![t] = c]
  /\ UNCHANGED <<words, w, acc, ok>>
  /\ IF c.op \in IndexOps
     THEN IF c.id >= Capacity(c.self)
          THEN Goto(t, "panic") /\ UNCHANGED i
          ELSE /\ i' = [i EXCEPT ![t] = WordIdx(c.id)]
               /\ Goto(t, Label(c, WordIdx(c.id)))
     ELSE LoopTo(t, c, IF Backward(c) THEN Extent(c) - 1 ELSE 0)

\* The caller takes the answer, or unwinds; the frame is gone.
End(t) ==
  /\ pc[t] \in {"return", "panic"}
  /\ Goto(t, "idle")
  /\ call' = [call EXCEPT ![t] = NoCall]
  /\ i' = [i EXCEPT ![t] = 0]
  /\ w' = [w EXCEPT ![t] = {}]
  /\ acc' = [acc EXCEPT ![t] = {}]
  /\ ok' = [ok EXCEPT ![t] = TRUE]
  /\ UNCHANGED words

-----------------------------------------------------------------------------
\* Methods on one index: one access.  The answer is whether this call changed
\* the bit (insert, remove) or saw it (contains); set drops the answer.

\* A bug: a store instead of fetch_or.
InsertStores(t) ==
  /\ pc[t] = "insert"
  /\ LET b == BitIdx(call[t].id) IN
     /\ StoreSelf(t, {b})
     /\ Answer(t, IF b \notin Self(t) /\ call[t].op = "insert" THEN {call[t].id} ELSE {})
  /\ Return(t)
  /\ UNCHANGED <<call, i, w, ok>>

Insert(t) ==
  /\ pc[t] = "insert"
  /\ LET b == BitIdx(call[t].id) IN
     /\ StoreSelf(t, Self(t) \cup {b})
     /\ Answer(t, IF b \notin Self(t) /\ call[t].op = "insert" THEN {call[t].id} ELSE {})
  /\ Return(t)
  /\ UNCHANGED <<call, i, w, ok>>

Remove(t) ==
  /\ pc[t] = "remove"
  /\ LET b == BitIdx(call[t].id) IN
     /\ StoreSelf(t, Self(t) \ {b})
     /\ Answer(t, IF b \in Self(t) /\ call[t].op = "remove" THEN {call[t].id} ELSE {})
  /\ Return(t)
  /\ UNCHANGED <<call, i, w, ok>>

Toggle(t) ==
  /\ pc[t] = "toggle"
  /\ LET b == BitIdx(call[t].id) IN
     StoreSelf(t, IF b \in Self(t) THEN Self(t) \ {b} ELSE Self(t) \cup {b})
  /\ Return(t)
  /\ UNCHANGED locals

Contains(t) ==
  /\ pc[t] = "contains"
  /\ Answer(t, IF BitIdx(call[t].id) \in Self(t) THEN {call[t].id} ELSE {})
  /\ Return(t)
  /\ UNCHANGED <<words, call, i, w, ok>>

-----------------------------------------------------------------------------
\* pop_first and pop_last: load a word, choose its end bit, clear it; if
\* another thread cleared it first, load the same word again.

PopLoad(t) ==
  /\ pc[t] = "pop_load"
  /\ \/ /\ Self(t) = {}
        /\ NextWord(t)
        /\ UNCHANGED w
     \/ \E b \in Self(t) :
          /\ IsEnd(call[t], b, Self(t))
          /\ Hold(t, {b})
          /\ Goto(t, "pop_take")
          /\ UNCHANGED i
  /\ UNCHANGED <<words, call, acc, ok>>

\* Bugs: the fetched word is not looked at; a lost race moves on to the next
\* word.
PopTakeBlind(t) ==
  /\ pc[t] = "pop_take"
  /\ StoreSelf(t, Self(t) \ w[t])
  /\ Hold(t, {})
  /\ Answer(t, IdxsOf(i[t], w[t]) \cap Convertible)
  /\ Return(t)
  /\ UNCHANGED <<call, i, ok>>
PopTakeSkips(t) ==
  /\ pc[t] = "pop_take"
  /\ StoreSelf(t, Self(t) \ w[t])
  /\ Hold(t, {})
  /\ IF Self(t) \cap w[t] # {}
     THEN Answer(t, IdxsOf(i[t], w[t]) \cap Convertible) /\ Return(t) /\ UNCHANGED i
     ELSE NextWord(t) /\ UNCHANGED acc
  /\ UNCHANGED <<call, ok>>

PopTake(t) ==
  /\ pc[t] = "pop_take"
  /\ StoreSelf(t, Self(t) \ w[t])
  /\ Hold(t, {})
  /\ IF Self(t) \cap w[t] # {}
     THEN Answer(t, IdxsOf(i[t], w[t]) \cap Convertible) /\ Return(t)
     ELSE Goto(t, "pop_load") /\ UNCHANGED acc
  /\ UNCHANGED <<call, i, ok>>

-----------------------------------------------------------------------------
\* Walks that read: len and iter gather every word, first and last stop at the
\* first non-zero word, is_empty answers there.  iter panics at an index V cannot
\* hold; first and last answer None then.

Gather(t) ==
  /\ pc[t] = "gather"
  /\ IF call[t].op = "iter" /\ ~ (IdxsOf(i[t], Self(t)) \subseteq Convertible)
     THEN Goto(t, "panic") /\ UNCHANGED <<i, acc>>
     ELSE Answer(t, acc[t] \cup IdxsOf(i[t], Self(t))) /\ NextWord(t)
  /\ UNCHANGED <<words, call, w, ok>>

Find(t) ==
  /\ pc[t] = "find"
  /\ \/ /\ Self(t) = {}
        /\ NextWord(t)
        /\ UNCHANGED acc
     \/ \E b \in Self(t) :
          /\ IsEnd(call[t], b, Self(t))
          /\ Answer(t, {IdxOf(i[t], b)} \cap Convertible)
          /\ Return(t)
          /\ UNCHANGED i
  /\ UNCHANGED <<words, call, w, ok>>

\* A bug: any empty word is enough (any for all).
IsEmptyAny(t) ==
  /\ pc[t] = "is_empty"
  /\ IF Self(t) # {}
     THEN NextWord(t) /\ UNCHANGED ok
     ELSE Return(t) /\ UNCHANGED <<i, ok>>
  /\ UNCHANGED <<words, call, w, acc>>

IsEmpty(t) ==
  /\ pc[t] = "is_empty"
  /\ IF Self(t) = {}
     THEN NextWord(t) /\ UNCHANGED ok
     ELSE Return(t) /\ ok' = [ok EXCEPT ![t] = FALSE] /\ UNCHANGED i
  /\ UNCHANGED <<words, call, w, acc>>

-----------------------------------------------------------------------------
\* Walks that write.

Drain(t) ==
  /\ pc[t] = "drain"
  /\ Answer(t, acc[t] \cup IdxsOf(i[t], Self(t)))
  /\ StoreSelf(t, {})
  /\ NextWord(t)
  /\ UNCHANGED <<call, w, ok>>

Clear(t) ==
  /\ pc[t] = "clear"
  /\ StoreSelf(t, {})
  /\ NextWord(t)
  /\ UNCHANGED <<call, w, acc, ok>>

\* Words the argument does not have are empty here: fetch_or of an empty word
\* and the shorter zip leave the same state.
UnionFrom(t) ==
  /\ pc[t] = "union_from"
  /\ StoreSelf(t, Self(t) \cup {b \in Bits : IdxOf(i[t], b) \in call[t].arg})
  /\ NextWord(t)
  /\ UNCHANGED <<call, w, acc, ok>>

\* retain loads a word once and then decides bit by bit on that snapshot; a
\* rejected bit is cleared whatever became of it since.
RetainLoad(t) ==
  /\ pc[t] = "retain_load"
  /\ Hold(t, Self(t))
  /\ IF Self(t) = {} THEN NextWord(t) ELSE Goto(t, "retain_bit") /\ UNCHANGED i
  /\ UNCHANGED <<words, call, acc, ok>>

\* Bugs: the word is overwritten by what is left of the snapshot; the loop
\* ends at the first rejected bit.
RetainBitStores(t) ==
  /\ pc[t] = "retain_bit"
  /\ \E b \in w[t] :
       /\ IsLowest(b, w[t])
       /\ Hold(t, w[t] \ {b})
       /\ IF IdxOf(i[t], b) \in call[t].arg
          THEN UNCHANGED words
          ELSE StoreSelf(t, w[t] \ {b})
       /\ IF w[t] = {b} THEN NextWord(t) ELSE UNCHANGED <<pc, i>>
  /\ UNCHANGED <<call, acc, ok>>
RetainBitBreaks(t) ==
  /\ pc[t] = "retain_bit"
  /\ \E b \in w[t] :
       /\ IsLowest(b, w[t])
       /\ Hold(t, w[t] \ {b})
       /\ IF IdxOf(i[t], b) \in call[t].arg
          THEN /\ UNCHANGED words
               /\ IF w[t] = {b} THEN NextWord(t) ELSE UNCHANGED <<pc, i>>
          ELSE StoreSelf(t, Self(t) \ {b}) /\ NextWord(t)
  /\ UNCHANGED <<call, acc, ok>>

\* A bug: the word is loaded again after each bit, kept bits come up again.
RetainBitReloads(t) ==
  /\ pc[t] = "retain_bit"
  /\ \E b \in w[t] :
       /\ IsLowest(b, w[t])
       /\ IF IdxOf(i[t], b) \in call[t].arg
          THEN UNCHANGED words
          ELSE StoreSelf(t, Self(t) \ {b})
  /\ Hold(t, {})
  /\ Goto(t, "retain_load")
  /\ UNCHANGED <<call, i, acc, ok>>

\* The debug_assert panics at an index V cannot hold; what the closure refused
\* so far is gone.  (Without debug_assert that is undefined, and not modelled.)
RetainBit(t) ==
  /\ pc[t] = "retain_bit"
  /\ \E b \in w[t] :
       /\ IsLowest(b, w[t])
       /\ Hold(t, w[t] \ {b})
       /\ \/ /\ IdxOf(i[t], b) \notin Convertible
             /\ Goto(t, "panic")
             /\ UNCHANGED <<words, i>>
          \/ /\ IdxOf(i[t], b) \in Convertible
             /\ IF IdxOf(i[t], b) \in call[t].arg
                THEN UNCHANGED words
                ELSE StoreSelf(t, Self(t) \ {b})
             /\ IF w[t] = {b} THEN NextWord(t) ELSE UNCHANGED <<pc, i>>
  /\ UNCHANGED <<call, acc, ok>>

-----------------------------------------------------------------------------
\* Methods on two slices.  is_subset and is_disjoint load the receiver's word,
\* then the other's; is_subset requires the receiver's words beyond the other
\* to be zero.

Fail(t) == Return(t) /\ ok' = [ok EXCEPT ![t] = FALSE] /\ UNCHANGED i
Compare(t, holds) == IF holds THEN NextWord(t) /\ UNCHANGED ok ELSE Fail(t)

\* Bugs: the other slice is indexed beyond its end; the receiver's words there
\* are not looked at.
PairLoadUnguarded(t) ==
  /\ pc[t] = "pair_load"
  /\ Hold(t, Self(t))
  /\ Goto(t, "pair_test")
  /\ UNCHANGED <<words, call, i, acc, ok>>
PairLoadZips(t) ==
  /\ pc[t] = "pair_load"
  /\ IF i[t] < Len[call[t].other]
     THEN Hold(t, Self(t)) /\ Goto(t, "pair_test") /\ UNCHANGED i
     ELSE NextWord(t) /\ UNCHANGED w
  /\ UNCHANGED <<words, call, acc, ok>>

PairLoad(t) ==
  /\ pc[t] = "pair_load"
  /\ IF i[t] < Len[call[t].other]
     THEN Hold(t, Self(t)) /\ Goto(t, "pair_test") /\ UNCHANGED <<i, ok>>
     ELSE Compare(t, Self(t) = {}) /\ UNCHANGED w
  /\ UNCHANGED <<words, call, acc>>

PairTest(t) ==
  /\ pc[t] = "pair_test"
  /\ Compare(t, IF call[t].op = "is_subset" THEN w[t] \subseteq Other(t)
                                            ELSE w[t] \cap Other(t) = {})
  /\ Hold(t, {})
  /\ UNCHANGED <<words, call, acc>>

\* Bugs: the receiver's word is overwritten; the words of other beyond the
\* receiver are left alone.
AppendOrStores(t) ==
  /\ pc[t] = "append_or"
  /\ StoreSelf(t, w[t])
  /\ Answer(t, acc[t] \cup IdxsOf(i[t], w[t]))
  /\ Hold(t, {})
  /\ NextWord(t)
  /\ UNCHANGED <<call, ok>>

\* append moves the other slice's words one by one; between its two accesses
\* the bits are in neither slice.  acc gathers what was moved.  Words of other
\* beyond the receiver are zeroed.
AppendSwap(t) ==
  /\ pc[t] = "append_swap"
  /\ Hold(t, Other(t))
  /\ Store(call[t].other, i[t], {})
  /\ Goto(t, "append_or")
  /\ UNCHANGED <<call, i, acc, ok>>

AppendOr(t) ==
  /\ pc[t] = "append_or"
  /\ StoreSelf(t, Self(t) \cup w[t])
  /\ Answer(t, acc[t] \cup IdxsOf(i[t], w[t]))
  /\ Hold(t, {})
  /\ NextWord(t)
  /\ UNCHANGED <<call, ok>>

AppendClear(t) ==
  /\ pc[t] = "append_clear"
  /\ Store(call[t].other, i[t], {})
  /\ NextWord(t)
  /\ UNCHANGED <<call, w, acc, ok>>

-----------------------------------------------------------------------------
\* History.  A thread's records open with its call, follow the slices while the
\* call runs, and are frozen when its answer is determined.

Running(t) == pc[t] \notin {"idle", "return", "panic"}

Record ==
  /\ stable' = [t \in Threads |-> [s \in Slices |->
       CASE pc'[t] = "idle" -> {}
         [] pc'[t] # "idle" /\ pc[t] = "idle" -> Members(s, words')
         [] Running(t) -> stable[t][s] \cap Members(s, words')
         [] OTHER -> stable[t][s]]]
  /\ ever' = [t \in Threads |-> [s \in Slices |->
       CASE pc'[t] = "idle" -> {}
         [] pc'[t] # "idle" /\ pc[t] = "idle" -> Members(s, words')
         [] Running(t) -> ever[t][s] \cup Members(s, words')
         [] OTHER -> ever[t][s]]]

Access(t) ==
  \/ Insert(t) \/ Remove(t) \/ Toggle(t) \/ Contains(t)
  \/ PopLoad(t) \/ PopTake(t)
  \/ Gather(t) \/ Find(t) \/ IsEmpty(t)
  \/ Drain(t) \/ Clear(t) \/ UnionFrom(t)
  \/ RetainLoad(t) \/ RetainBit(t)
  \/ PairLoad(t) \/ PairTest(t)
  \/ AppendSwap(t) \/ AppendOr(t) \/ AppendClear(t)

\* from_bits and from_slice_ref wrap any raw words.
Contents ==
  {ws \in [Slices -> UNION {[WordsOf(s) -> SUBSET Bits] : s \in Slices}] :
     \A s \in Slices : ws[s] \in [WordsOf(s) -> SUBSET Bits]}

Init ==
  /\ words \in Contents
  /\ pc = [t \in Threads |-> "idle"]
  /\ call = [t \in Threads |-> NoCall]
  /\ i = [t \in Threads |-> 0]
  /\ w = [t \in Threads |-> {}]
  /\ acc = [t \in Threads |-> {}]
  /\ ok = [t \in Threads |-> TRUE]
  /\ stable = [t \in Threads |-> [s \in Slices |-> {}]]
  /\ ever = [t \in Threads |-> [s \in Slices |-> {}]]

Step(t) == (\E c \in Calls : Begin(t, c)) \/ Access(t) \/ End(t)
Next == \E t \in Threads : Step(t) /\ Record
Spec == Init /\ [][Next]_vars

-----------------------------------------------------------------------------
PcLabels ==
  {"idle", "return", "panic", "insert", "remove", "toggle", "contains",
   "pop_load", "pop_take", "gather", "find", "is_empty", "drain", "clear",
   "union_from", "retain_load", "retain_bit", "pair_load", "pair_test",
   "append_swap", "append_or", "append_clear"}

\* The methods whose code contains each access.
PcOps(label) ==
  CASE label = "insert" -> {"insert", "set_true"}
    [] label = "remove" -> {"remove", "set_false"}
    [] label = "gather" -> {"len", "iter"}
    [] label = "find" -> {"first", "last"}
    [] label \in {"pop_load", "pop_take"} -> {"pop_first", "pop_last"}
    [] label \in {"retain_load", "retain_bit"} -> {"retain"}
    [] label \in {"pair_load", "pair_test"} -> {"is_subset", "is_disjoint"}
    [] label \in {"append_swap", "append_or", "append_clear"} -> {"append"}
    [] OTHER -> {label}

\* A thread is inside a method only at one of its accesses and with its loop
\* at a word of the slices the access touches.
Control(t) ==
  Running(t) =>
    /\ call[t] \in Calls
    /\ call[t].op \in PcOps(pc[t])
    /\ i[t] \in 0 .. Extent(call[t]) - 1
    /\ call[t].op \in IndexOps => i[t] = WordIdx(call[t].id)
    /\ pc[t] = "pair_test" => i[t] < Len[call[t].other]
    /\ pc[t] \in {"append_swap", "append_or"} => i[t] < Len[call[t].self]

\* The types of the variables, and no access is out of its slice: every
\* get_unchecked and words[i] of the methods is at a word that exists.
TypeOK ==
  /\ words \in Contents
  /\ pc \in [Threads -> PcLabels]
  /\ call \in [Threads -> Calls \cup {NoCall}]
  /\ i \in [Threads -> Int]
  /\ w \in [Threads -> SUBSET Bits]
  /\ acc \in [Threads -> SUBSET Nat]
  /\ ok \in [Threads -> BOOLEAN]
  /\ stable \in [Threads -> [Slices -> SUBSET Nat]]
  /\ ever \in [Threads -> [Slices -> SUBSET Nat]]
  /\ \A t \in Threads : Control(t)

-----------------------------------------------------------------------------
\* What an answer means while other threads write.  stable and ever of the
\* call's receiver and of the other slice:

Stayed(t) == stable[t][call[t].self]
Seen(t) == ever[t][call[t].self]
StayedOther(t) == stable[t][call[t].other]
SeenOther(t) == ever[t][call[t].other]

Answered(t, ops) == pc[t] = "return" /\ call[t].op \in ops

EndAnswer(t) ==
  Answered(t, {"first", "last", "pop_first", "pop_last"}) =>
    /\ acc[t] \subseteq Seen(t)
    /\ \A x \in acc[t], y \in Stayed(t) : IF Backward(call[t]) THEN y <= x ELSE x <= y
    /\ acc[t] = {} /\ Seen(t) \subseteq Convertible => Stayed(t) = {}

ReadAnswer(t) ==
  /\ Answered(t, {"len", "iter"}) =>
       Stayed(t) \subseteq acc[t] /\ acc[t] \subseteq Seen(t)
  /\ Answered(t, {"is_empty"}) => IF ok[t] THEN Stayed(t) = {} ELSE Seen(t) # {}

WriteAnswer(t) ==
  /\ Answered(t, {"clear", "drain"}) => Stayed(t) = {}
  /\ Answered(t, {"drain"}) => acc[t] \subseteq Seen(t)
  /\ Answered(t, {"retain"}) => Stayed(t) \subseteq call[t].arg
  /\ Answered(t, {"union_from"}) =>
       call[t].arg \cap 0 .. Capacity(call[t].self) - 1 \subseteq Seen(t)

PairAnswer(t) ==
  /\ Answered(t, {"is_subset"}) =>
       IF ok[t] THEN Stayed(t) \subseteq SeenOther(t)
                ELSE ~ (Seen(t) \subseteq StayedOther(t))
  /\ Answered(t, {"is_disjoint"}) =>
       IF ok[t] THEN Stayed(t) \cap StayedOther(t) = {}
                ELSE Seen(t) \cap SeenOther(t) # {}
  /\ Answered(t, {"append"}) => StayedOther(t) = {} /\ acc[t] \subseteq Seen(t)

\* first, last, pop_first and pop_last return an index that was in the set
\* during the call, and none that was there all along lies before it (after
\* it, for last); None means that nothing was there all along, unless there was
\* an index that V cannot hold.  This is what is left of "the minimum" when the
\* words are read one by one and the bit is chosen from a load that is old by the
\* time it is cleared.
EndRegular == \A t \in Threads : EndAnswer(t)

\* iter yields, and len counts, everything that was in the set all along and
\* nothing that never was, although the words are loaded one by one; is_empty
\* is true only if nothing was there all along, false only if something was
\* there at some time.
ReadRegular == \A t \in Threads : ReadAnswer(t)

\* After clear and drain nothing has been there all along; after retain,
\* nothing the closure rejects; drain returns only what was there; union_from's
\* bits have all been there.
WriteRegular == \A t \in Threads : WriteAnswer(t)

\* is_subset is true only if everything that stayed in the receiver was in the
\* other slice at some time, and false only if something seen in the receiver
\* did not stay in the other; is_disjoint is true only if nothing stayed in
\* both and false only if something was seen in both.  append leaves nothing of
\* the other slice in its place, and what it moved has been in the receiver.
\* The two accesses to a pair of words, and the pairs, are at different times.
PairRegular == \A t \in Threads : PairAnswer(t)

\* A step of remove, pop_first, pop_last and drain tells its caller exactly the
\* indices it took out of the set, and a step of insert exactly the one it put
\* in: two racing calls never both claim one bit, and no bit leaves unclaimed,
\* except that a pop tells nothing of a bit whose index V cannot hold.
Gone(t) == Members(call[t].self, words) \ Members(call[t].self, words)'
Come(t) == Members(call[t].self, words)' \ Members(call[t].self, words)
Told(t) == acc'[t] \ acc[t]
ClaimsMatch(t) ==
  /\ call[t].op \in {"remove", "drain"} => Told(t) = Gone(t) /\ Come(t) = {}
  /\ call[t].op \in {"pop_first", "pop_last"} =>
       Told(t) = Gone(t) \cap Convertible /\ Come(t) = {}
  /\ call[t].op = "insert" => Told(t) = Come(t) /\ Gone(t) = {}
ClaimsExact == [][\A t \in Threads : Access(t) => ClaimsMatch(t)]_vars

\* The writers that answer nothing change only what they are for, whatever the
\* others did since they loaded a word: retain takes nothing that its closure
\* keeps and puts nothing back, union_from puts only its argument in and takes
\* nothing, clear puts nothing.
Confined(t) ==
  /\ call[t].op = "retain" => Gone(t) \cap call[t].arg = {}
  /\ call[t].op \in {"retain", "clear"} => Come(t) = {}
  /\ call[t].op = "union_from" => Gone(t) = {} /\ Come(t) \subseteq call[t].arg
WritesConfined == [][\A t \in Threads : Access(t) => Confined(t)]_vars

\* append never loses a bit of the words both slices have: until it is in the
\* receiver, a bit is in the other slice or in the append's local.
InFlight(t) == IF pc[t] = "append_or" THEN IdxsOf(i[t], w[t]) ELSE {}
Carried(t) ==
  Members(call[t].self, words) \cup Members(call[t].other, words) \cup InFlight(t)
AppendConserves ==
  [][\A t \in Threads :
       pc[t] \in {"append_swap", "append_or"} /\ Access(t) => Carried(t)' = Carried(t)]_vars

\* No call is held up by the others.  Every access brings its call nearer to its
\* end: its loop leaves a word, goes from the first to the second access of
\* one, or has a bit less of it to look at; so the accesses of a call are bounded
\* by the words and bits of its slice, whatever the other threads do.  The one
\* exception is a pop that clears nothing, because its bit was taken since it
\* saw it: another call has got on.
Left(t) == IF Backward(call[t]) THEN i[t] + 1 ELSE Extent(call[t]) - i[t]
SecondAccess == {"pop_take", "retain_bit", "pair_test", "append_or"}
Lost(t) ==
  pc[t] = "pop_take" /\ \E b \in w[t] : b \notin Self(t) /\ IdxOf(i[t], b) \in Seen(t)
Nearer(t) ==
  \/ pc'[t] \in {"return", "panic"}
  \/ Left(t)' \in 0 .. Left(t) - 1
  \/ i'[t] = i[t] /\ pc[t] \notin SecondAccess /\ pc'[t] \in SecondAccess
  \/ i'[t] = i[t] /\ pc[t] = "retain_bit" /\ pc'[t] = "retain_bit" /\ w'[t] \in (SUBSET w[t]) \ {w[t]}
  \/ Lost(t)
NotHeldUp == [][\A t \in Threads : Access(t) => Nearer(t)]_vars

-----------------------------------------------------------------------------
\* "Each individual operation (insert, remove, contains, ...) is atomic per word,
\* but the bitset as a whole is not a single atomic unit" (src/src/atomic.rs,
\* AtomicBitSet).  The methods on one index are more: the slices together
\* implement a set of places, a slice and an index each, on which insert, remove,
\* set, toggle and contains take effect, and answer, at one instant between call
\* and return, whatever the methods that walk over words do meanwhile.
PlacesOf(s, ids) == {s} \X ids
Places == UNION {PlacesOf(s, 0 .. Capacity(s) - 1) : s \in Slices}
Taken == UNION {PlacesOf(s, Members(s, words)) : s \in Slices}

OneIndex(t) == call[t].op \in IndexOps
Requested(c) == [op |-> c.op, id |-> <<c.self, c.id>>]
OtherCall == [op |-> "other"]
AbstractCalls == {Requested(c) : c \in {d \in Calls : d.op \in IndexOps}} \cup {OtherCall}
Phase(t) ==
  CASE pc[t] = "idle" -> "idle"
    [] pc[t] = "return" /\ OneIndex(t) -> "done"
    [] OTHER -> "called"
Request(t) ==
  CASE pc[t] = "idle" -> NoCall
    [] pc[t] # "idle" /\ OneIndex(t) -> Requested(call[t])
    [] OTHER -> OtherCall
Result(t) == IF OneIndex(t) THEN PlacesOf(call[t].self, acc[t]) ELSE {}

Atomic == INSTANCE AtomicSet WITH
  Bits <- Places,
  Calls <- AbstractCalls,
  set <- Taken,
  phase <- [t \in Threads |-> Phase(t)],
  request <- [t \in Threads |-> Request(t)],
  result <- [t \in Threads |-> Result(t)],
  owed <- [t \in Threads |-> {}]
IndexAtomic == Atomic!SharedSpec

-----------------------------------------------------------------------------
\* The inductive invariant behind EndRegular, ReadRegular, WriteRegular and
\* PairRegular (AtomicBitSlice_proofs).

\* The indices of all slices, and those whose words a call's loop is past.
Indices == UNION {0 .. Capacity(s) - 1 : s \in Slices}

Passed(t, y) ==
  IF Backward(call[t]) THEN WordIdx(y) > i[t] ELSE WordIdx(y) < i[t]

\* What the method has established of index y once it is past y's word.
Settled(t, y) ==
  LET op == call[t].op IN
  /\ op \in {"first", "last", "pop_first", "pop_last", "is_empty", "clear", "drain"}
       => y \notin Stayed(t)
  /\ op \in {"len", "iter"} /\ y \in Stayed(t) => y \in acc[t]
  /\ op = "retain" /\ y \in Stayed(t) => y \in call[t].arg
  /\ op = "union_from" /\ y \in call[t].arg /\ y < Capacity(call[t].self)
       => y \in Seen(t)
  /\ op = "append" => y \notin StayedOther(t)
  /\ op = "is_subset" /\ y \in Stayed(t) => y \in SeenOther(t)
  /\ op = "is_disjoint" /\ y \in Stayed(t) => y \notin StayedOther(t)

\* The word a method holds, against what the slices hold by now.
HeldInv(t) ==
  LET here == {y \in Stayed(t) : WordIdx(y) = i[t]} IN
  /\ pc[t] = "pop_take" => \A b \in w[t] :
       /\ IdxOf(i[t], b) \in Seen(t)
       /\ \A y \in Stayed(t) : IF Backward(call[t]) THEN y <= IdxOf(i[t], b)
                                                    ELSE IdxOf(i[t], b) <= y
  /\ pc[t] = "pop_take" => w[t] # {} /\ \A b, c \in w[t] : b = c
  /\ pc[t] = "retain_bit" => \A y \in here : y \in call[t].arg \/ BitIdx(y) \in w[t]
  /\ pc[t] = "pair_test" =>
       /\ \A y \in here : BitIdx(y) \in w[t]
       /\ \A b \in w[t] : IdxOf(i[t], b) \in Seen(t)
  /\ pc[t] = "append_or" => \A y \in StayedOther(t) : WordIdx(y) # i[t]

RunningInv(t) ==
  /\ \A s \in Slices : stable[t][s] \subseteq Members(s, words)
                       /\ Members(s, words) \subseteq ever[t][s]
  /\ acc[t] \subseteq Seen(t)
  /\ call[t].op \notin {"len", "iter", "drain", "append"} => acc[t] = {}
  /\ call[t].op = "drain" => \A y \in acc[t] : WordIdx(y) < i[t]
  /\ ok[t]
  /\ \A y \in Indices : Passed(t, y) => Settled(t, y)
  /\ HeldInv(t)

ThreadInv(t) ==
  /\ pc[t] = "idle" => acc[t] = {} /\ ok[t]
  /\ Running(t) => RunningInv(t)
  /\ EndAnswer(t) /\ ReadAnswer(t) /\ WriteAnswer(t) /\ PairAnswer(t)

IInv == TypeOK /\ \A t \in Threads : ThreadInv(t)

=============================================================================
