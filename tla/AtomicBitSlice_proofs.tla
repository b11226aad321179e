----------------------- MODULE AtomicBitSlice_proofs -----------------------
(***************************************************************************)
(* Proofs about AtomicBitSlice for any number of threads, any slices and   *)
(* any word width.                                                         *)
(***************************************************************************)
EXTENDS AtomicBitSlice, TLAPS

-----------------------------------------------------------------------------
\* index_of splits an index into a word and a bit of it.
LEMMA SplitIndex ==
  ASSUME NEW id \in Nat
  PROVE  /\ WordIdx(id) \in Nat
         /\ BitIdx(id) \in Bits
         /\ id = IdxOf(WordIdx(id), BitIdx(id))
  BY BitsAssumption DEF WordIdx, BitIdx, IdxOf, Bits

\* word * BITS_PER + bit is the index of that bit of that word.
LEMMA JoinIndex ==
  ASSUME NEW j \in Nat, NEW b \in Bits
  PROVE  /\ IdxOf(j, b) \in Nat
         /\ WordIdx(IdxOf(j, b)) = j
         /\ BitIdx(IdxOf(j, b)) = b
  BY BitsAssumption DEF WordIdx, BitIdx, IdxOf, Bits

\* An index below the capacity lies in one of the words, and conversely.
LEMMA IndexBound ==
  ASSUME NEW id \in Nat, NEW n \in Nat
  PROVE  id < n * BITS_PER <=> WordIdx(id) < n
  BY BitsAssumption, SplitIndex DEF WordIdx, BitIdx, IdxOf, Bits

\* Indices are ordered by word first, by bit within a word.
LEMMA IndexOrder ==
  ASSUME NEW x \in Nat, NEW y \in Nat
  PROVE  /\ WordIdx(x) < WordIdx(y) => x < y
         /\ WordIdx(x) = WordIdx(y) => (x <= y <=> BitIdx(x) <= BitIdx(y))
<1>1. WordIdx(x) < WordIdx(y) => x < y
  <2> SUFFICES ASSUME WordIdx(x) < WordIdx(y) PROVE x < y
    OBVIOUS
  <2>1. x < (WordIdx(x) + 1) * BITS_PER
    BY SplitIndex, BitsAssumption DEF IdxOf, Bits
  <2>2. ~ (y < (WordIdx(x) + 1) * BITS_PER)
    BY IndexBound, SplitIndex
  <2> QED BY <2>1, <2>2, SplitIndex, BitsAssumption
<1>2. ASSUME WordIdx(x) = WordIdx(y) PROVE x <= y <=> BitIdx(x) <= BitIdx(y)
  <2> DEFINE k == WordIdx(y) * BITS_PER
  <2>1. k \in Int /\ x = k + BitIdx(x) /\ y = k + BitIdx(y)
    BY <1>2, SplitIndex, BitsAssumption DEF IdxOf
  <2>2. BitIdx(x) \in Int /\ BitIdx(y) \in Int
    BY SplitIndex, BitsAssumption DEF Bits
  <2> HIDE DEF k
  <2> QED BY <2>1, <2>2
<1> QED BY <1>1, <1>2

\* Contents, word by word.
LEMMA ContentsWords ==
  ASSUME NEW ws
  PROVE  ws \in Contents <=> /\ ws = [s \in Slices |-> ws[s]]
                             /\ \A s \in Slices : ws[s] \in [WordsOf(s) -> SUBSET Bits]
  BY DEF Contents

\* A store of a word keeps the shape of the memory and the other words.
LEMMA StoreWord ==
  ASSUME words \in Contents, NEW s \in Slices, NEW j \in WordsOf(s),
         NEW bits \in SUBSET Bits, Store(s, j, bits)
  PROVE  /\ words' \in Contents
         /\ words'[s][j] = bits
         /\ \A r \in Slices : \A k \in WordsOf(r) :
              <<r, k>> # <<s, j>> => words'[r][k] = words[r][k]
<1>1. /\ words = [r \in Slices |-> words[r]]
      /\ \A r \in Slices : words[r] \in [WordsOf(r) -> SUBSET Bits]
  BY ContentsWords
<1>2. /\ words' = [r \in Slices |-> words'[r]]
      /\ \A r \in Slices : r # s => words'[r] = words[r]
      /\ words'[s] = [words[s] EXCEPT ![j] = bits]
  BY <1>1 DEF Store
<1>3. \A r \in Slices : words'[r] \in [WordsOf(r) -> SUBSET Bits]
  BY <1>1, <1>2
<1> QED BY <1>1, <1>2, <1>3, ContentsWords

-----------------------------------------------------------------------------
\* The set of members of a slice is a set of naturals.
LEMMA MembersNat ==
  ASSUME NEW s \in Slices, NEW ws
  PROVE  Members(s, ws) \in SUBSET Nat
  BY LenAssumption, BitsAssumption DEF Members, Capacity

\* A thread inside a method is at a word that exists.
LEMMA AtWord ==
  ASSUME TypeOK, NEW t \in Threads, Running(t)
  PROVE  /\ call[t] \in Calls
         /\ call[t].op \in PcOps(pc[t])
         /\ call[t].self \in Slices /\ call[t].other \in Slices
         /\ call[t].id \in Nat /\ call[t].arg \in SUBSET Nat
         /\ i[t] \in Nat
         /\ i[t] < Extent(call[t])
         /\ pc[t] # "append_clear" => i[t] \in WordsOf(call[t].self) /\ Self(t) \in SUBSET Bits
         /\ pc[t] \in {"append_swap", "append_clear", "pair_test"}
              => i[t] \in WordsOf(call[t].other) /\ Other(t) \in SUBSET Bits
<1>1. /\ call[t] \in Calls /\ call[t].op \in PcOps(pc[t])
      /\ i[t] \in 0 .. Extent(call[t]) - 1
  BY DEF TypeOK, Control
<1>2. call[t] \in CallType
  BY <1>1, CallsAssumption
<1>3. /\ call[t].self \in Slices /\ call[t].other \in Slices
      /\ call[t].id \in Nat /\ call[t].arg \in SUBSET Nat
      /\ call[t].op \in Ops
  BY <1>2 DEF CallType
<1>4. Len[call[t].self] \in Nat /\ Len[call[t].other] \in Nat
  BY <1>3, LenAssumption
<1>5. Extent(call[t]) \in Nat
  BY <1>4 DEF Extent
<1>6. i[t] \in Nat /\ i[t] < Extent(call[t])
  BY <1>1, <1>5
<1>7. pc[t] # "append_clear" => i[t] < Len[call[t].self]
  <2>1. CASE call[t].op = "append"
    <3>1. pc[t] \in {"append_swap", "append_or", "append_clear"}
      <4>1. pc[t] \in PcLabels
        BY DEF TypeOK
      <4> QED BY <1>1, <2>1, <4>1 DEF PcOps, PcLabels
    <3> QED BY <3>1 DEF TypeOK, Control
  <2>2. CASE call[t].op # "append"
    BY <2>2, <1>4, <1>6 DEF Extent
  <2> QED BY <2>1, <2>2
<1>8. pc[t] \in {"append_swap", "append_clear", "pair_test"} => i[t] < Len[call[t].other]
  BY <1>1, <1>4, <1>6 DEF TypeOK, Control, Extent, PcOps
<1>9. \A s \in Slices : \A j \in WordsOf(s) : words[s][j] \in SUBSET Bits
  BY ContentsWords DEF TypeOK
<1> QED BY <1>1, <1>3, <1>4, <1>6, <1>7, <1>8, <1>9 DEF WordsOf, Self, Other

\* What LoopTo does to the control state.
LEMMA LoopToControl ==
  ASSUME TypeOK, NEW t \in Threads, NEW c \in Calls, NEW j \in Int,
         c.op \notin IndexOps, LoopTo(t, c, j)
  PROVE  /\ pc' \in [Threads -> PcLabels] /\ i' \in [Threads -> Int]
         /\ \A u \in Threads : u # t => pc'[u] = pc[u] /\ i'[u] = i[u]
         /\ i'[t] = j
         /\ IF j \in 0 .. Extent(c) - 1
            THEN /\ pc'[t] = Label(c, j)
                 /\ pc'[t] \notin {"return", "panic", "idle", "pop_take", "retain_bit",
                                   "pair_test", "append_or"}
                 /\ c.op \in PcOps(pc'[t])
                 /\ pc'[t] = "append_swap" => j < Len[c.self]
            ELSE pc'[t] = "return"
<1>1. c.op \in Ops \ IndexOps
  BY CallsAssumption DEF CallType
<1>2. /\ Label(c, j) \in PcLabels
      /\ Label(c, j) \notin {"return", "panic", "idle", "pop_take", "retain_bit",
                             "pair_test", "append_or"}
      /\ c.op \in PcOps(Label(c, j))
      /\ Label(c, j) = "append_swap" => j < Len[c.self]
  BY <1>1 DEF Label, PcLabels, PcOps, Ops, IndexOps
<1>3. pc \in [Threads -> PcLabels] /\ i \in [Threads -> Int]
  BY DEF TypeOK
<1>4. "return" \in PcLabels
  BY DEF PcLabels
<1> QED BY <1>2, <1>3, <1>4 DEF LoopTo, Goto

\* The part of a step that concerns types: given the new memory, locals of t
\* and history, the other threads' control is as it was.
LEMMA TypeFrame ==
  ASSUME TypeOK, NEW t \in Threads, Record,
         words' \in Contents, pc' \in [Threads -> PcLabels],
         call' \in [Threads -> Calls \cup {NoCall}], i' \in [Threads -> Int],
         w' \in [Threads -> SUBSET Bits], acc' \in [Threads -> SUBSET Nat],
         ok' \in [Threads -> BOOLEAN],
         \A u \in Threads : u # t =>
           pc'[u] = pc[u] /\ call'[u] = call[u] /\ i'[u] = i[u],
         Control(t)'
  PROVE  TypeOK'
<1>1. \A u \in Threads : Control(u)'
  BY DEF TypeOK, Control, Running
<1>2. \A u \in Threads, s \in Slices :
        /\ Members(s, words') \in SUBSET Nat
        /\ stable[u][s] \in SUBSET Nat /\ ever[u][s] \in SUBSET Nat
  BY MembersNat DEF TypeOK
<1>3. stable' \in [Threads -> [Slices -> SUBSET Nat]]
  BY <1>2 DEF Record
<1>4. ever' \in [Threads -> [Slices -> SUBSET Nat]]
  BY <1>2 DEF Record
<1> QED BY <1>1, <1>3, <1>4 DEF TypeOK

-----------------------------------------------------------------------------
\* Type correctness, one access at a time.

LEMMA BeginType ==
  ASSUME TypeOK, Record, NEW t \in Threads, NEW c \in Calls, Begin(t, c)
  PROVE  TypeOK'
<1>1. /\ c.self \in Slices /\ c.other \in Slices /\ c.id \in Nat /\ c.op \in Ops
  BY CallsAssumption DEF CallType
<1>2. Len[c.self] \in Nat /\ Len[c.other] \in Nat
  BY <1>1, LenAssumption
<1>3. Extent(c) \in Nat
  BY <1>2 DEF Extent
<1>4. /\ call' = [call EXCEPT ![t] = c]
      /\ call' \in [Threads -> Calls \cup {NoCall}]
      /\ call'[t] = c
      /\ UNCHANGED <<words, w, acc, ok>>
  BY DEF Begin, TypeOK
<1>5. CASE c.op \in IndexOps /\ c.id >= Capacity(c.self)
  <2>1. pc' = [pc EXCEPT ![t] = "panic"] /\ UNCHANGED i
    BY <1>5 DEF Begin, Goto
  <2>2. Control(t)'
    BY <2>1 DEF Control, Running, TypeOK
  <2> QED BY <1>4, <2>1, <2>2, TypeFrame DEF TypeOK, PcLabels
<1>6. CASE c.op \in IndexOps /\ ~ (c.id >= Capacity(c.self))
  <2>1. /\ i' = [i EXCEPT ![t] = WordIdx(c.id)]
        /\ pc' = [pc EXCEPT ![t] = Label(c, WordIdx(c.id))]
    BY <1>6 DEF Begin, Goto
  <2>2. WordIdx(c.id) \in 0 .. Extent(c) - 1
    <3>1. Extent(c) = Len[c.self]
      BY <1>6 DEF Extent, IndexOps
    <3>2. c.id < Len[c.self] * BITS_PER
      BY <1>1, <1>2, <1>6, BitsAssumption DEF Capacity
    <3> QED BY <1>1, <1>2, <3>1, <3>2, IndexBound, SplitIndex
  <2>3. /\ Label(c, WordIdx(c.id)) \in {"insert", "remove", "toggle", "contains"}
        /\ c.op \in PcOps(Label(c, WordIdx(c.id)))
    BY <1>6 DEF Label, PcOps, IndexOps
  <2>4. Control(t)'
    BY <1>4, <2>1, <2>2, <2>3 DEF Control, Running, TypeOK
  <2>5. pc' \in [Threads -> PcLabels] /\ i' \in [Threads -> Int]
    BY <2>1, <2>2, <2>3 DEF TypeOK, PcLabels
  <2>6. \A u \in Threads : u # t => pc'[u] = pc[u] /\ call'[u] = call[u] /\ i'[u] = i[u]
    BY <1>4, <2>1 DEF TypeOK
  <2> QED BY <1>4, <2>4, <2>5, <2>6, TypeFrame DEF TypeOK
<1>7. CASE c.op \notin IndexOps
  <2> DEFINE j == IF Backward(c) THEN Extent(c) - 1 ELSE 0
  <2>1. LoopTo(t, c, j)
    BY <1>7 DEF Begin
  <2>2. j \in Int
    BY <1>3
  <2> HIDE DEF j
  <2>3. Control(t)'
    BY <1>4, <1>7, <2>1, <2>2, LoopToControl DEF Control, Running
  <2> QED BY <1>4, <1>7, <2>1, <2>2, <2>3, LoopToControl, TypeFrame DEF TypeOK
<1> QED BY <1>5, <1>6, <1>7

LEMMA EndType ==
  ASSUME TypeOK, Record, NEW t \in Threads, End(t)
  PROVE  TypeOK'
<1>1. Control(t)'
  BY DEF End, Goto, Control, Running, TypeOK
<1>2. /\ words' \in Contents /\ pc' \in [Threads -> PcLabels]
      /\ call' \in [Threads -> Calls \cup {NoCall}] /\ i' \in [Threads -> Int]
      /\ w' \in [Threads -> SUBSET Bits] /\ acc' \in [Threads -> SUBSET Nat]
      /\ ok' \in [Threads -> BOOLEAN]
  BY DEF End, Goto, TypeOK, PcLabels
<1>3. \A u \in Threads : u # t => pc'[u] = pc[u] /\ call'[u] = call[u] /\ i'[u] = i[u]
  BY DEF End, Goto, TypeOK
<1> QED BY <1>1, <1>2, <1>3, TypeFrame

\* The next word of a loop, and the end of a method, keep a thread's control.
LEMMA NextWordControl ==
  ASSUME TypeOK, NEW t \in Threads, Running(t), call[t].op \notin IndexOps,
         NextWord(t), UNCHANGED call
  PROVE  /\ pc' \in [Threads -> PcLabels] /\ i' \in [Threads -> Int]
         /\ \A u \in Threads : u # t => pc'[u] = pc[u] /\ i'[u] = i[u]
         /\ Control(t)'
<1>1. call[t] \in Calls /\ i[t] \in Nat
  BY AtWord
<1>2. PICK j \in Int : LoopTo(t, call[t], j)
  BY <1>1 DEF NextWord
<1> QED BY <1>1, <1>2, LoopToControl DEF Control, Running

LEMMA ReturnControl ==
  ASSUME TypeOK, NEW t \in Threads, Return(t)
  PROVE  /\ pc' \in [Threads -> PcLabels]
         /\ \A u \in Threads : u # t => pc'[u] = pc[u]
         /\ Control(t)'
  BY DEF TypeOK, Return, Goto, PcLabels, Control, Running

\* An access to the receiver's word by a thread at it leaves well-formed memory.
LEMMA StoreSelfType ==
  ASSUME TypeOK, NEW t \in Threads, Running(t), pc[t] # "append_clear",
         NEW bits \in SUBSET Bits, StoreSelf(t, bits)
  PROVE  words' \in Contents /\ words'[call[t].self][i[t]] = bits
  BY AtWord, StoreWord DEF StoreSelf, TypeOK

\* The indices of a word are naturals.
LEMMA IdxsNat ==
  ASSUME NEW j \in Nat, NEW bits \in SUBSET Bits
  PROVE  IdxsOf(j, bits) \in SUBSET Nat
  BY JoinIndex DEF IdxsOf

LEMMA PointType ==
  ASSUME TypeOK, Record, NEW t \in Threads,
         Insert(t) \/ Remove(t) \/ Toggle(t) \/ Contains(t)
  PROVE  TypeOK'
<1>1. Running(t)
  BY DEF Insert, Remove, Toggle, Contains, Running
<1>2. /\ pc[t] # "append_clear" /\ Self(t) \in SUBSET Bits
      /\ call[t].id \in Nat /\ BitIdx(call[t].id) \in Bits
  BY <1>1, AtWord, SplitIndex DEF Insert, Remove, Toggle, Contains
<1>3. Return(t) /\ UNCHANGED <<call, i, w, ok>>
  BY DEF Insert, Remove, Toggle, Contains, locals
<1>4. words' \in Contents
  <2>1. CASE Insert(t)
    BY <2>1, <1>1, <1>2, StoreSelfType DEF Insert
  <2>2. CASE Remove(t)
    BY <2>2, <1>1, <1>2, StoreSelfType DEF Remove
  <2>3. CASE Toggle(t)
    BY <2>3, <1>1, <1>2, StoreSelfType DEF Toggle
  <2>4. CASE Contains(t)
    BY <2>4 DEF Contains, TypeOK
  <2> QED BY <2>1, <2>2, <2>3, <2>4
<1>5. acc' \in [Threads -> SUBSET Nat]
  BY <1>2 DEF Insert, Remove, Toggle, Contains, Answer, TypeOK, locals
<1> QED BY <1>3, <1>4, <1>5, ReturnControl, TypeFrame DEF TypeOK

\* A step that goes on to the next word, and stores, holds and answers only
\* values of their types, keeps the types; so does a step that returns.
LEMMA NextWordType ==
  ASSUME TypeOK, Record, NEW t \in Threads, Running(t), call[t].op \notin IndexOps,
         NextWord(t), UNCHANGED call, words' \in Contents,
         w' \in [Threads -> SUBSET Bits], acc' \in [Threads -> SUBSET Nat],
         ok' \in [Threads -> BOOLEAN]
  PROVE  TypeOK'
<1>1. \A u \in Threads : call'[u] = call[u]
  OBVIOUS
<1>2. call' \in [Threads -> Calls \cup {NoCall}]
  BY DEF TypeOK
<1> QED BY <1>1, <1>2, NextWordControl, TypeFrame

LEMMA ReturnType ==
  ASSUME TypeOK, Record, NEW t \in Threads, Return(t), UNCHANGED <<call, i>>,
         words' \in Contents,
         w' \in [Threads -> SUBSET Bits], acc' \in [Threads -> SUBSET Nat],
         ok' \in [Threads -> BOOLEAN]
  PROVE  TypeOK'
<1>1. /\ \A u \in Threads : call'[u] = call[u] /\ i'[u] = i[u]
      /\ call' \in [Threads -> Calls \cup {NoCall}] /\ i' \in [Threads -> Int]
  BY DEF TypeOK
<1> QED BY <1>1, ReturnControl, TypeFrame

\* A step that panics keeps the types.
LEMMA PanicType ==
  ASSUME TypeOK, Record, NEW t \in Threads, Goto(t, "panic"), UNCHANGED <<call, i>>,
         words' \in Contents,
         w' \in [Threads -> SUBSET Bits], acc' \in [Threads -> SUBSET Nat],
         ok' \in [Threads -> BOOLEAN]
  PROVE  TypeOK'
<1>1. /\ \A u \in Threads : call'[u] = call[u] /\ i'[u] = i[u]
      /\ call' \in [Threads -> Calls \cup {NoCall}] /\ i' \in [Threads -> Int]
  BY DEF TypeOK
<1>2. /\ pc' \in [Threads -> PcLabels] /\ Control(t)'
      /\ \A u \in Threads : u # t => pc'[u] = pc[u]
  BY DEF TypeOK, Goto, PcLabels, Control, Running
<1> QED BY <1>1, <1>2, TypeFrame

\* A step to another access of the same word keeps the types.
LEMMA GotoType ==
  ASSUME TypeOK, Record, NEW t \in Threads, Running(t), UNCHANGED <<call, i>>,
         NEW label \in PcLabels, Goto(t, label),
         call[t].op \in PcOps(label),
         label = "pair_test" => i[t] < Len[call[t].other],
         label \in {"append_swap", "append_or"} => i[t] < Len[call[t].self],
         words' \in Contents,
         w' \in [Threads -> SUBSET Bits], acc' \in [Threads -> SUBSET Nat],
         ok' \in [Threads -> BOOLEAN]
  PROVE  TypeOK'
<1>1. /\ \A u \in Threads : call'[u] = call[u] /\ i'[u] = i[u]
      /\ call' \in [Threads -> Calls \cup {NoCall}] /\ i' \in [Threads -> Int]
  BY DEF TypeOK
<1>2. /\ pc' \in [Threads -> PcLabels] /\ pc'[t] = label
      /\ \A u \in Threads : u # t => pc'[u] = pc[u]
  BY DEF Goto, TypeOK
<1>3. Control(t)'
  BY <1>1, <1>2 DEF Control, TypeOK
<1> QED BY <1>1, <1>2, <1>3, TypeFrame

LEMMA PopType ==
  ASSUME TypeOK, Record, NEW t \in Threads, PopLoad(t) \/ PopTake(t)
  PROVE  TypeOK'
<1>1. Running(t) /\ pc[t] \in {"pop_load", "pop_take"}
  BY DEF PopLoad, PopTake, Running
<1>2. /\ Self(t) \in SUBSET Bits /\ i[t] \in Nat /\ w[t] \in SUBSET Bits
      /\ call[t].op \in {"pop_first", "pop_last"}
  BY <1>1, AtWord DEF PcOps, TypeOK
<1>3. call[t].op \notin IndexOps
  BY <1>2 DEF IndexOps
<1>4. /\ words \in Contents /\ w \in [Threads -> SUBSET Bits]
      /\ acc \in [Threads -> SUBSET Nat] /\ ok \in [Threads -> BOOLEAN]
  BY DEF TypeOK
<1>5. CASE PopLoad(t) /\ NextWord(t) /\ UNCHANGED w
  BY <1>1, <1>3, <1>4, <1>5, NextWordType DEF PopLoad
<1>6. CASE /\ PopLoad(t)
           /\ \E b \in Self(t) : Hold(t, {b}) /\ Goto(t, "pop_take") /\ UNCHANGED i
  <2>1. w' \in [Threads -> SUBSET Bits] /\ Goto(t, "pop_take")
    BY <1>2, <1>4, <1>6 DEF Hold
  <2>2. call[t].op \in PcOps("pop_take") /\ "pop_take" \in PcLabels
    BY <1>2 DEF PcOps, PcLabels
  <2> QED BY <1>1, <1>4, <1>6, <2>1, <2>2, GotoType DEF PopLoad
<1>7. CASE PopTake(t)
  <2>1. words' \in Contents /\ w' \in [Threads -> SUBSET Bits]
    BY <1>1, <1>2, <1>4, <1>7, StoreSelfType DEF PopTake, Hold
  <2>2. acc' \in [Threads -> SUBSET Nat]
    BY <1>2, <1>4, <1>7, IdxsNat DEF PopTake, Answer
  <2>3. call[t].op \in PcOps("pop_load") /\ "pop_load" \in PcLabels
    BY <1>2 DEF PcOps, PcLabels
  <2>4. ok' \in [Threads -> BOOLEAN] /\ UNCHANGED <<call, i>>
    BY <1>4, <1>7 DEF PopTake
  <2>5. Return(t) \/ Goto(t, "pop_load")
    BY <1>7 DEF PopTake
  <2> QED BY <1>1, <2>1, <2>2, <2>3, <2>4, <2>5, GotoType, ReturnType
<1> QED BY <1>5, <1>6, <1>7 DEF PopLoad

LEMMA WalkType ==
  ASSUME TypeOK, Record, NEW t \in Threads,
         \/ Gather(t) \/ Find(t) \/ IsEmpty(t) \/ Drain(t) \/ Clear(t) \/ UnionFrom(t)
  PROVE  TypeOK'
<1>1. Running(t) /\ pc[t] \in {"gather", "find", "is_empty", "drain", "clear", "union_from"}
  BY DEF Gather, Find, IsEmpty, Drain, Clear, UnionFrom, Running
<1>2. /\ Self(t) \in SUBSET Bits /\ i[t] \in Nat
      /\ call[t].op \in PcOps(pc[t])
  BY <1>1, AtWord
<1>3. call[t].op \notin IndexOps
  BY <1>1, <1>2 DEF IndexOps, PcOps
<1>4. /\ words \in Contents /\ w \in [Threads -> SUBSET Bits]
      /\ acc \in [Threads -> SUBSET Nat] /\ ok \in [Threads -> BOOLEAN]
  BY DEF TypeOK
<1>5. UNCHANGED <<call, w>>
  BY DEF Gather, Find, IsEmpty, Drain, Clear, UnionFrom
<1>6. words' \in Contents
  BY <1>1, <1>2, <1>4, StoreSelfType DEF Gather, Find, IsEmpty, Drain, Clear, UnionFrom
<1>7. acc' \in [Threads -> SUBSET Nat]
  <2>1. IdxsOf(i[t], Self(t)) \in SUBSET Nat
    BY <1>2, IdxsNat
  <2>2. \A b \in Self(t) : IdxOf(i[t], b) \in Nat
    BY <1>2, JoinIndex
  <2> QED BY <1>4, <2>1, <2>2 DEF Gather, Find, IsEmpty, Drain, Clear, UnionFrom, Answer
<1>8. ok' \in [Threads -> BOOLEAN]
  BY <1>4 DEF Gather, Find, IsEmpty, Drain, Clear, UnionFrom
<1>9. NextWord(t) \/ (Return(t) /\ UNCHANGED i) \/ (Goto(t, "panic") /\ UNCHANGED i)
  BY DEF Gather, Find, IsEmpty, Drain, Clear, UnionFrom
<1> QED BY <1>1, <1>3, <1>4, <1>5, <1>6, <1>7, <1>8, <1>9, NextWordType, ReturnType, PanicType

LEMMA RetainType ==
  ASSUME TypeOK, Record, NEW t \in Threads, RetainLoad(t) \/ RetainBit(t)
  PROVE  TypeOK'
<1>1. Running(t) /\ pc[t] \in {"retain_load", "retain_bit"}
  BY DEF RetainLoad, RetainBit, Running
<1>2. /\ Self(t) \in SUBSET Bits /\ i[t] \in Nat /\ w[t] \in SUBSET Bits
      /\ call[t].op = "retain"
  BY <1>1, AtWord DEF PcOps, TypeOK
<1>3. call[t].op \notin IndexOps /\ call[t].op \in PcOps("retain_bit")
      /\ "retain_bit" \in PcLabels
  BY <1>2 DEF IndexOps, PcOps, PcLabels
<1>4. /\ words \in Contents /\ w \in [Threads -> SUBSET Bits]
      /\ acc \in [Threads -> SUBSET Nat] /\ ok \in [Threads -> BOOLEAN]
  BY DEF TypeOK
<1>5. UNCHANGED <<call, acc, ok>>
  BY DEF RetainLoad, RetainBit
<1>6. words' \in Contents
  BY <1>1, <1>2, <1>4, StoreSelfType DEF RetainLoad, RetainBit
<1>7. w' \in [Threads -> SUBSET Bits]
  BY <1>2, <1>4 DEF RetainLoad, RetainBit, Hold
<1>8. \/ NextWord(t)
      \/ Goto(t, "retain_bit") /\ UNCHANGED i
      \/ Goto(t, "panic") /\ UNCHANGED i
  <2>1. CASE RetainLoad(t)
    BY <2>1 DEF RetainLoad
  <2>2. CASE RetainBit(t)
    <3>1. NextWord(t) \/ UNCHANGED <<pc, i>> \/ (Goto(t, "panic") /\ UNCHANGED i)
      BY <2>2 DEF RetainBit
    <3>2. pc[t] = "retain_bit"
      BY <2>2 DEF RetainBit
    <3> QED BY <3>1, <3>2 DEF Goto, TypeOK
  <2> QED BY <2>1, <2>2
<1> QED BY <1>1, <1>3, <1>4, <1>5, <1>6, <1>7, <1>8, NextWordType, GotoType, PanicType

LEMMA PairType ==
  ASSUME TypeOK, Record, NEW t \in Threads, PairLoad(t) \/ PairTest(t)
  PROVE  TypeOK'
<1>1. Running(t) /\ pc[t] \in {"pair_load", "pair_test"}
  BY DEF PairLoad, PairTest, Running
<1>2. Self(t) \in SUBSET Bits /\ call[t].op \in {"is_subset", "is_disjoint"}
  BY <1>1, AtWord DEF PcOps
<1>3. call[t].op \notin IndexOps /\ call[t].op \in PcOps("pair_test")
      /\ "pair_test" \in PcLabels
  BY <1>2 DEF IndexOps, PcOps, PcLabels
<1>4. /\ words' \in Contents /\ acc' \in [Threads -> SUBSET Nat]
      /\ w' \in [Threads -> SUBSET Bits] /\ ok' \in [Threads -> BOOLEAN]
      /\ UNCHANGED call
  BY <1>2 DEF TypeOK, PairLoad, PairTest, Hold, Compare, Fail
<1>5. \/ NextWord(t)
      \/ Return(t) /\ UNCHANGED i
      \/ Goto(t, "pair_test") /\ UNCHANGED i /\ i[t] < Len[call[t].other]
  BY DEF PairLoad, PairTest, Compare, Fail
<1> QED BY <1>1, <1>3, <1>4, <1>5, NextWordType, ReturnType, GotoType

LEMMA AppendType ==
  ASSUME TypeOK, Record, NEW t \in Threads,
         AppendSwap(t) \/ AppendOr(t) \/ AppendClear(t)
  PROVE  TypeOK'
<1>1. Running(t) /\ pc[t] \in {"append_swap", "append_or", "append_clear"}
  BY DEF AppendSwap, AppendOr, AppendClear, Running
<1>2. i[t] \in Nat /\ call[t].op = "append" /\ w[t] \in SUBSET Bits
  BY <1>1, AtWord DEF PcOps, TypeOK
<1>3. call[t].op \notin IndexOps /\ call[t].op \in PcOps("append_or")
      /\ "append_or" \in PcLabels
  BY <1>2 DEF IndexOps, PcOps, PcLabels
<1>4. CASE AppendSwap(t)
  <2>1. /\ i[t] \in WordsOf(call[t].other) /\ Other(t) \in SUBSET Bits
        /\ call[t].other \in Slices
    BY <1>1, <1>4, AtWord DEF AppendSwap
  <2>2. words' \in Contents
    BY <1>4, <2>1, StoreWord DEF AppendSwap, TypeOK
  <2>3. i[t] < Len[call[t].self]
    BY <1>1, <1>4 DEF AppendSwap, TypeOK, Control
  <2>4. /\ acc' \in [Threads -> SUBSET Nat] /\ ok' \in [Threads -> BOOLEAN]
        /\ w' \in [Threads -> SUBSET Bits]
    BY <1>4, <2>1 DEF AppendSwap, Hold, TypeOK
  <2> QED BY <1>1, <1>3, <1>4, <2>2, <2>3, <2>4, GotoType DEF AppendSwap
<1>5. CASE AppendOr(t)
  <2>1. Self(t) \in SUBSET Bits /\ pc[t] # "append_clear"
    BY <1>1, <1>5, AtWord DEF AppendOr
  <2>2. words' \in Contents
    BY <1>1, <1>2, <1>5, <2>1, StoreSelfType DEF AppendOr
  <2>3. /\ acc' \in [Threads -> SUBSET Nat] /\ ok' \in [Threads -> BOOLEAN]
        /\ w' \in [Threads -> SUBSET Bits]
    BY <1>2, <1>5, IdxsNat DEF AppendOr, Answer, Hold, TypeOK
  <2> QED BY <1>1, <1>3, <1>5, <2>2, <2>3, NextWordType DEF AppendOr
<1>6. CASE AppendClear(t)
  <2>1. i[t] \in WordsOf(call[t].other) /\ call[t].other \in Slices
    BY <1>1, <1>6, AtWord DEF AppendClear
  <2>2. words' \in Contents
    BY <1>6, <2>1, StoreWord DEF AppendClear, TypeOK
  <2> QED BY <1>1, <1>3, <1>6, <2>2, NextWordType DEF AppendClear, TypeOK
<1> QED BY <1>4, <1>5, <1>6

LEMMA StepType ==
  ASSUME TypeOK, [Next]_vars
  PROVE  TypeOK'
<1>1. CASE UNCHANGED vars
  BY <1>1 DEF vars, TypeOK, Control, Running
<1>2. ASSUME NEW t \in Threads, Step(t), Record
      PROVE  TypeOK'
  BY <1>2, BeginType, EndType, PointType, PopType, WalkType, RetainType, PairType,
     AppendType DEF Step, Access
<1> QED BY <1>1, <1>2 DEF Next

\* Every variable keeps its type, and every access of every method is at a word
\* that exists: what the SAFETY comments on get_unchecked claim.
THEOREM TypeCorrect == Spec => []TypeOK
<1>1. Init => TypeOK
  <2> SUFFICES ASSUME Init PROVE TypeOK
    OBVIOUS
  <2>1. /\ call \in [Threads -> Calls \cup {NoCall}] /\ i \in [Threads -> Int]
        /\ pc \in [Threads -> PcLabels] /\ w \in [Threads -> SUBSET Bits]
        /\ acc \in [Threads -> SUBSET Nat] /\ ok \in [Threads -> BOOLEAN]
    BY DEF Init, PcLabels
  <2>2. /\ stable \in [Threads -> [Slices -> SUBSET Nat]]
        /\ ever \in [Threads -> [Slices -> SUBSET Nat]]
    BY DEF Init
  <2>3. \A t \in Threads : Control(t)
    BY DEF Init, Control, Running
  <2> QED BY <2>1, <2>2, <2>3 DEF Init, TypeOK
<1> QED BY <1>1, StepType, PTL DEF Spec

-----------------------------------------------------------------------------
\* The history variables and the members of a slice.

\* A member of a slice is an index of one of its words with its bit set.
LEMMA MemberWord ==
  ASSUME NEW s \in Slices, NEW ws, NEW y
  PROVE  y \in Members(s, ws) <=>
           /\ y \in Nat
           /\ WordIdx(y) < Len[s]
           /\ BitIdx(y) \in ws[s][WordIdx(y)]
<1>1. Len[s] \in Nat /\ Capacity(s) \in Nat
  BY LenAssumption, BitsAssumption DEF Capacity
<1> QED BY <1>1, IndexBound DEF Members, Capacity

LEMMA WordMember ==
  ASSUME NEW s \in Slices, NEW ws \in Contents, NEW j \in WordsOf(s), NEW b \in ws[s][j]
  PROVE  IdxOf(j, b) \in Members(s, ws)
<1>1. j \in Nat /\ j < Len[s] /\ b \in Bits
  BY LenAssumption, ContentsWords DEF WordsOf
<1> QED BY <1>1, JoinIndex, MemberWord

LEMMA MembersIndices ==
  ASSUME NEW s \in Slices, NEW ws
  PROVE  Members(s, ws) \subseteq Indices
  BY DEF Members, Indices

\* What Record does for a thread inside a method: its history closes in.
LEMMA HistoryStep ==
  ASSUME TypeOK, Record, NEW u \in Threads, Running(u), pc'[u] # "idle", NEW s \in Slices
  PROVE  /\ stable'[u][s] = stable[u][s] \cap Members(s, words')
         /\ ever'[u][s] = ever[u][s] \cup Members(s, words')
  BY DEF Record, Running

LEMMA HistoryFrozen ==
  ASSUME TypeOK, Record, NEW u \in Threads, pc[u] \in {"return", "panic"},
         pc'[u] # "idle", NEW s \in Slices
  PROVE  stable'[u][s] = stable[u][s] /\ ever'[u][s] = ever[u][s]
  BY DEF Record, Running

LEMMA HistoryOpens ==
  ASSUME TypeOK, Record, NEW u \in Threads, pc[u] = "idle",
         pc'[u] # "idle", NEW s \in Slices
  PROVE  stable'[u][s] = Members(s, words') /\ ever'[u][s] = Members(s, words')
  BY DEF Record, Running

\* What is established of an index stays established.
LEMMA SettledMono ==
  ASSUME TypeOK, Record, NEW t \in Threads, Running(t), pc'[t] # "idle",
         call'[t] = call[t], acc[t] \subseteq acc'[t], NEW y, Settled(t, y)
  PROVE  Settled(t, y)'
<1>1. call[t].self \in Slices /\ call[t].other \in Slices
  BY AtWord
<1> QED BY <1>1, HistoryStep DEF Settled, Stayed, Seen, StayedOther, SeenOther

\* The invariant of a thread that does not take the step.
LEMMA OtherInv ==
  ASSUME TypeOK, Record, NEW u \in Threads, ThreadInv(u),
         pc'[u] = pc[u], call'[u] = call[u], i'[u] = i[u], w'[u] = w[u],
         acc'[u] = acc[u], ok'[u] = ok[u]
  PROVE  ThreadInv(u)'
<1>1. CASE pc[u] = "idle"
  BY <1>1 DEF ThreadInv, Running, EndAnswer, ReadAnswer, WriteAnswer, PairAnswer, Answered
<1>2. CASE pc[u] = "panic"
  BY <1>2 DEF ThreadInv, Running, EndAnswer, ReadAnswer, WriteAnswer, PairAnswer, Answered
<1>3. CASE Running(u)
  <2>1. call[u].self \in Slices /\ call[u].other \in Slices
    BY <1>3, AtWord
  <2>2. \A s \in Slices : /\ stable'[u][s] = stable[u][s] \cap Members(s, words')
                          /\ ever'[u][s] = ever[u][s] \cup Members(s, words')
    BY <1>3, HistoryStep DEF Running
  <2>3. /\ Stayed(u)' \subseteq Stayed(u) /\ StayedOther(u)' \subseteq StayedOther(u)
        /\ Seen(u) \subseteq Seen(u)' /\ SeenOther(u) \subseteq SeenOther(u)'
    BY <2>1, <2>2 DEF Stayed, Seen, StayedOther, SeenOther
  <2>4. RunningInv(u)
    BY <1>3 DEF ThreadInv
  <2>5. HeldInv(u)'
    BY <2>3, <2>4 DEF RunningInv, HeldInv
  <2>6. \A y \in Indices : Passed(u, y)' => Settled(u, y)'
    <3>1. \A y \in Indices : Passed(u, y)' <=> Passed(u, y)
      BY DEF Passed
    <3>2. \A y \in Indices : Settled(u, y) => Settled(u, y)'
      BY <2>3 DEF Settled
    <3> QED BY <2>4, <3>1, <3>2 DEF RunningInv
  <2>7. RunningInv(u)'
    BY <2>2, <2>3, <2>4, <2>5, <2>6 DEF RunningInv
  <2> QED BY <1>3, <2>7 DEF ThreadInv, Running, EndAnswer, ReadAnswer, WriteAnswer,
                            PairAnswer, Answered
<1>4. CASE pc[u] = "return"
  <2>1. \A s \in Slices : stable'[u][s] = stable[u][s] /\ ever'[u][s] = ever[u][s]
    BY <1>4, HistoryFrozen
  <2>2. CASE call[u] \in Calls
    <3>1. call[u].self \in Slices /\ call[u].other \in Slices
      BY <2>2, CallsAssumption DEF CallType
    <3>2. /\ Stayed(u)' = Stayed(u) /\ StayedOther(u)' = StayedOther(u)
          /\ Seen(u) = Seen(u)' /\ SeenOther(u) = SeenOther(u)'
      BY <2>1, <3>1 DEF Stayed, Seen, StayedOther, SeenOther
    <3> QED BY <1>4, <3>2 DEF ThreadInv, Running, EndAnswer, ReadAnswer, WriteAnswer,
                              PairAnswer, Answered
  <2>3. CASE call[u] = NoCall
    BY <1>4, <2>3 DEF ThreadInv, Running, EndAnswer, ReadAnswer, WriteAnswer,
                      PairAnswer, Answered, NoCall
  <2> QED BY <2>2, <2>3 DEF TypeOK
<1> QED BY <1>1, <1>2, <1>3, <1>4 DEF Running

-----------------------------------------------------------------------------
\* The thread that takes the step.

\* A loop that is over has settled every index: the answer is regular.
LEMMA LoopOver ==
  ASSUME TypeOK', NEW t \in Threads, call'[t] \in Calls, pc'[t] = "return",
         \A s \in Slices : stable'[t][s] \subseteq Members(s, words'),
         acc'[t] \subseteq Seen(t)',
         call'[t].op \notin {"len", "iter", "drain", "append"} => acc'[t] = {},
         ok'[t],
         \A y \in Indices : WordIdx(y) < Extent(call'[t]) => Settled(t, y)'
  PROVE  ThreadInv(t)'
<1> DEFINE c == call'[t]
<1>1. c.self \in Slices /\ c.other \in Slices
  BY CallsAssumption DEF CallType
<1>2. Len[c.self] \in Nat /\ Len[c.other] \in Nat
  BY <1>1, LenAssumption
<1>3. /\ Stayed(t)' \subseteq Members(c.self, words')
      /\ StayedOther(t)' \subseteq Members(c.other, words')
  BY <1>1 DEF Stayed, StayedOther
<1>4. \A y \in Stayed(t)' : y \in Indices /\ y \in Nat /\ WordIdx(y) < Len[c.self]
  BY <1>1, <1>3, MembersIndices, MemberWord
<1>5. \A y \in StayedOther(t)' : y \in Indices /\ y \in Nat /\ WordIdx(y) < Len[c.other]
  BY <1>1, <1>3, MembersIndices, MemberWord
<1>6. c.op \notin {"append", "is_disjoint"} => \A y \in Stayed(t)' : Settled(t, y)'
  BY <1>4 DEF Extent
<1>7. c.op = "append" => \A y \in StayedOther(t)' : Settled(t, y)'
  BY <1>5 DEF Extent
<1>8. c.op = "is_disjoint" => \A y \in Stayed(t)' \cap StayedOther(t)' : Settled(t, y)'
  BY <1>4, <1>5 DEF Extent
<1>9. EndAnswer(t)'
  BY <1>6 DEF EndAnswer, Answered, Settled
<1>10. ReadAnswer(t)'
  BY <1>6 DEF ReadAnswer, Answered, Settled
<1>11. WriteAnswer(t)'
  <2>1. c.op \in {"clear", "drain"} => Stayed(t)' = {}
    BY <1>6 DEF Settled
  <2>2. c.op = "retain" => Stayed(t)' \subseteq c.arg
    BY <1>6 DEF Settled
  <2>3. c.op = "union_from" => c.arg \cap 0 .. Capacity(c.self) - 1 \subseteq Seen(t)'
    <3> SUFFICES ASSUME c.op = "union_from", NEW y \in c.arg \cap 0 .. Capacity(c.self) - 1
                 PROVE  y \in Seen(t)'
      OBVIOUS
    <3>1. y \in Indices /\ y \in Nat /\ Capacity(c.self) \in Nat /\ y < Capacity(c.self)
      BY <1>1, <1>2, BitsAssumption DEF Indices, Capacity
    <3>2. WordIdx(y) < Extent(c)
      BY <1>2, <3>1, IndexBound DEF Capacity, Extent
    <3>3. Settled(t, y)'
      BY <3>1, <3>2
    <3> QED BY <3>1, <3>3 DEF Settled
  <2> QED BY <2>1, <2>2, <2>3 DEF WriteAnswer, Answered
<1>12. PairAnswer(t)'
  <2>1. c.op = "is_subset" => Stayed(t)' \subseteq SeenOther(t)'
    BY <1>6 DEF Settled
  <2>2. c.op = "is_disjoint" => Stayed(t)' \cap StayedOther(t)' = {}
    BY <1>8 DEF Settled
  <2>3. c.op = "append" => StayedOther(t)' = {}
    BY <1>7 DEF Settled
  <2> QED BY <2>1, <2>2, <2>3 DEF PairAnswer, Answered
<1> QED BY <1>9, <1>10, <1>11, <1>12 DEF ThreadInv, Running

\* A step that settles its word and goes on to the next keeps the invariant.
LEMMA AdvanceInv ==
  ASSUME IInv, Record, TypeOK', NEW t \in Threads, Running(t),
         call[t].op \notin IndexOps, NextWord(t), UNCHANGED call,
         ok'[t], acc[t] \subseteq acc'[t], acc'[t] \subseteq Seen(t)',
         call[t].op \notin {"len", "iter", "drain", "append"} => acc'[t] = {},
         pc[t] = "drain" => \A y \in acc'[t] : WordIdx(y) <= i[t],
         \A y \in Indices : WordIdx(y) = i[t] => Settled(t, y)'
  PROVE  ThreadInv(t)'
<1>1. TypeOK /\ RunningInv(t)
  BY DEF IInv, ThreadInv
<1>2. /\ call[t] \in Calls /\ i[t] \in Nat /\ i[t] < Extent(call[t])
      /\ Len[call[t].self] \in Nat /\ Len[call[t].other] \in Nat
  BY <1>1, AtWord, LenAssumption
<1>3. Extent(call[t]) \in Nat
  BY <1>2 DEF Extent
<1> DEFINE j == IF Backward(call[t]) THEN i[t] - 1 ELSE i[t] + 1
<1>4. LoopTo(t, call[t], j) /\ j \in Int
  BY <1>2 DEF NextWord
<1>5. /\ i'[t] = j
      /\ IF j \in 0 .. Extent(call[t]) - 1
         THEN pc'[t] \notin {"return", "panic", "idle", "pop_take", "retain_bit",
                             "pair_test", "append_or"}
         ELSE pc'[t] = "return"
  BY <1>1, <1>2, <1>4, LoopToControl
<1>6. \A s \in Slices : /\ stable'[t][s] \subseteq Members(s, words')
                        /\ Members(s, words') \subseteq ever'[t][s]
  BY <1>1, <1>5, HistoryStep
<1>7. \A y \in Indices : y \in Nat /\ WordIdx(y) \in Nat
  BY SplitIndex DEF Indices
<1>8. \A y \in Indices : Passed(t, y) => Settled(t, y)'
  BY <1>1, <1>5, SettledMono DEF RunningInv
<1>9. CASE j \in 0 .. Extent(call[t]) - 1
  <2>1. \A y \in Indices : Passed(t, y)' => Passed(t, y) \/ WordIdx(y) = i[t]
    BY <1>2, <1>5, <1>7 DEF Passed
  <2>2. call[t].op = "drain" => \A y \in acc'[t] : WordIdx(y) < i'[t]
    <3> SUFFICES ASSUME call[t].op = "drain" PROVE \A y \in acc'[t] : WordIdx(y) < i'[t]
      OBVIOUS
    <3>1. pc[t] = "drain" /\ i'[t] = i[t] + 1
      BY <1>1, <1>5, AtWord DEF PcOps, Backward
    <3>2. \A y \in acc'[t] : y \in Nat /\ WordIdx(y) \in Nat
      BY SplitIndex DEF TypeOK
    <3> QED BY <1>2, <3>1, <3>2
  <2>3. RunningInv(t)'
    BY <1>5, <1>6, <1>8, <1>9, <2>1, <2>2 DEF RunningInv, HeldInv
  <2> QED BY <1>5, <1>9, <2>3 DEF ThreadInv, EndAnswer, ReadAnswer, WriteAnswer,
                                  PairAnswer, Answered
<1>10. CASE j \notin 0 .. Extent(call[t]) - 1
  <2>1. \A y \in Indices : WordIdx(y) < Extent(call[t]) => Passed(t, y) \/ WordIdx(y) = i[t]
    BY <1>2, <1>3, <1>7, <1>10 DEF Passed
  <2>2. \A y \in Indices : WordIdx(y) < Extent(call[t]) => Settled(t, y)'
    BY <1>8, <2>1
  <2> QED BY <1>2, <1>5, <1>6, <1>10, <2>2, LoopOver
<1> QED BY <1>9, <1>10

\* A step to another access of the same word keeps the invariant if what it
\* holds is right.
LEMMA StayInv ==
  ASSUME IInv, Record, NEW t \in Threads, Running(t), Running(t)',
         UNCHANGED <<call, i, ok>>, acc'[t] = acc[t], HeldInv(t)'
  PROVE  ThreadInv(t)'
<1>1. TypeOK /\ RunningInv(t) /\ pc'[t] # "idle"
  BY DEF IInv, ThreadInv, Running
<1>2. /\ call[t].self \in Slices
      /\ \A s \in Slices : /\ stable'[t][s] \subseteq Members(s, words')
                           /\ Members(s, words') \subseteq ever'[t][s]
                           /\ ever[t][s] \subseteq ever'[t][s]
  BY <1>1, HistoryStep, AtWord
<1>3. \A y \in Indices : Passed(t, y)' => Settled(t, y)'
  <2>1. \A y \in Indices : Passed(t, y)' <=> Passed(t, y)
    BY DEF Passed
  <2> QED BY <1>1, <2>1, SettledMono DEF RunningInv
<1>4. acc'[t] \subseteq Seen(t)'
  BY <1>1, <1>2 DEF RunningInv, Seen
<1>5. RunningInv(t)'
  BY <1>1, <1>2, <1>3, <1>4 DEF RunningInv
<1> QED BY <1>5 DEF ThreadInv, EndAnswer, ReadAnswer, WriteAnswer, PairAnswer, Answered,
                    Running

\* What the history of a running call says of the word it is at: what stayed
\* has its bit set before and after the step; a set bit has been seen.
LEMMA HereStayed ==
  ASSUME IInv, Record, NEW t \in Threads, Running(t), pc'[t] # "idle",
         UNCHANGED call, NEW y \in Nat, WordIdx(y) = i[t]
  PROVE  /\ y \in Stayed(t)' => /\ BitIdx(y) \in Self(t)
                                /\ BitIdx(y) \in words'[call[t].self][i[t]]
         /\ y \in StayedOther(t)' =>
              /\ BitIdx(y) \in Other(t)
              /\ BitIdx(y) \in words'[call[t].other][i[t]]
         /\ y = IdxOf(i[t], BitIdx(y))
<1>1. TypeOK /\ RunningInv(t) /\ call[t].self \in Slices /\ call[t].other \in Slices
  BY AtWord DEF IInv, ThreadInv
<1>2. ASSUME NEW s \in Slices, y \in stable'[t][s]
      PROVE  BitIdx(y) \in words[s][i[t]] /\ BitIdx(y) \in words'[s][i[t]]
  <2>1. y \in Members(s, words) /\ y \in Members(s, words')
    BY <1>1, <1>2, HistoryStep DEF RunningInv
  <2> QED BY <2>1, MemberWord
<1> QED BY <1>1, <1>2, SplitIndex DEF Stayed, StayedOther, Self, Other

LEMMA HereSeen ==
  ASSUME IInv, Record, NEW t \in Threads, Running(t), pc'[t] # "idle",
         pc[t] # "append_clear", UNCHANGED call, NEW b \in Self(t)
  PROVE  IdxOf(i[t], b) \in Nat /\ IdxOf(i[t], b) \in Seen(t) /\ IdxOf(i[t], b) \in Seen(t)'
<1>1. TypeOK /\ RunningInv(t)
  BY DEF IInv, ThreadInv
<1>2. /\ call[t].self \in Slices /\ i[t] \in Nat
      /\ i[t] \in WordsOf(call[t].self) /\ Self(t) \in SUBSET Bits
  BY <1>1, AtWord
<1>3. IdxOf(i[t], b) \in Members(call[t].self, words)
  BY <1>1, <1>2, WordMember DEF TypeOK, Self
<1> QED BY <1>1, <1>2, <1>3, HistoryStep, JoinIndex DEF RunningInv, Seen

\* Seen and Stayed over a step of a running call.
LEMMA SeenGrows ==
  ASSUME TypeOK, Record, NEW t \in Threads, Running(t), pc'[t] # "idle", UNCHANGED call
  PROVE  /\ Seen(t) \subseteq Seen(t)' /\ SeenOther(t) \subseteq SeenOther(t)'
         /\ Stayed(t)' \subseteq Stayed(t) /\ StayedOther(t)' \subseteq StayedOther(t)
         /\ Members(call[t].self, words') \subseteq Seen(t)'
         /\ Stayed(t)' \subseteq Members(call[t].self, words')
         /\ StayedOther(t)' \subseteq Members(call[t].other, words')
<1>1. call[t].self \in Slices /\ call[t].other \in Slices
  BY AtWord
<1> QED BY <1>1, HistoryStep DEF Stayed, Seen, StayedOther, SeenOther

\* Where a step of a running call leads: the methods on one index do not panic
\* once they have begun.
LEMMA AccessPc ==
  ASSUME TypeOK, NEW t \in Threads, Access(t)
  PROVE  /\ Running(t) /\ pc'[t] # "idle" /\ UNCHANGED call
         /\ pc'[t] = "panic" => call[t].op \notin IndexOps
<1>1. Running(t) /\ UNCHANGED call
  BY DEF Access, Running, Insert, Remove, Toggle, Contains, PopLoad, PopTake, Gather, Find,
         IsEmpty, Drain, Clear, UnionFrom, RetainLoad, RetainBit, PairLoad, PairTest,
         AppendSwap, AppendOr, AppendClear, locals
<1>2. call[t].op \notin IndexOps \/ Return(t)
  BY <1>1, AtWord DEF Access, Insert, Remove, Toggle, Contains, PopLoad, PopTake, Gather,
         Find, IsEmpty, Drain, Clear, UnionFrom, RetainLoad, RetainBit, PairLoad, PairTest,
         AppendSwap, AppendOr, AppendClear, PcOps, IndexOps
<1>3. \/ NextWord(t) \/ Return(t) \/ UNCHANGED pc
      \/ \E l \in {"pop_take", "pop_load", "retain_bit", "pair_test", "append_or", "panic"} :
           Goto(t, l)
  BY DEF Access, Insert, Remove, Toggle, Contains, PopLoad, PopTake, Gather, Find,
         IsEmpty, Drain, Clear, UnionFrom, RetainLoad, RetainBit, PairLoad, PairTest,
         AppendSwap, AppendOr, AppendClear, Compare, Fail
<1>4. NextWord(t) /\ call[t].op \notin IndexOps => pc'[t] \notin {"idle", "panic"}
  <2> SUFFICES ASSUME NextWord(t), call[t].op \notin IndexOps PROVE pc'[t] \notin {"idle", "panic"}
    OBVIOUS
  <2>1. call[t] \in Calls /\ i[t] \in Nat
    BY <1>1, AtWord
  <2>2. PICK j \in Int : LoopTo(t, call[t], j)
    BY <2>1 DEF NextWord
  <2> QED BY <2>1, <2>2, LoopToControl
<1> QED BY <1>1, <1>2, <1>3, <1>4 DEF Return, Goto, TypeOK, Running

-----------------------------------------------------------------------------
\* The invariant, one access at a time.

\* A call that panics answers nothing.
LEMMA PanickedInv ==
  ASSUME NEW t \in Threads, pc'[t] = "panic"
  PROVE  ThreadInv(t)'
  BY DEF ThreadInv, Running, EndAnswer, ReadAnswer, WriteAnswer, PairAnswer, Answered

LEMMA PointInv ==
  ASSUME IInv, Record, NEW t \in Threads,
         Insert(t) \/ Remove(t) \/ Toggle(t) \/ Contains(t)
  PROVE  ThreadInv(t)'
<1>1. /\ Running(t) /\ TypeOK /\ pc[t] \in {"insert", "remove", "toggle", "contains"}
      /\ Return(t) /\ UNCHANGED call
  BY DEF IInv, Insert, Remove, Toggle, Contains, Running, locals
<1>2. call[t].op \in IndexOps
  BY <1>1, AtWord DEF PcOps, IndexOps
<1>3. pc'[t] = "return" /\ call'[t].op \in IndexOps
  BY <1>1, <1>2 DEF Return, Goto, TypeOK
<1> QED BY <1>3 DEF ThreadInv, EndAnswer, ReadAnswer, WriteAnswer, PairAnswer, Answered,
                    Running, IndexOps

LEMMA PopLoadInv ==
  ASSUME IInv, Record, TypeOK', NEW t \in Threads, PopLoad(t)
  PROVE  ThreadInv(t)'
<1>1. /\ TypeOK /\ RunningInv(t) /\ Running(t) /\ pc[t] = "pop_load"
      /\ pc'[t] # "idle" /\ UNCHANGED <<words, call, acc, ok>>
  BY AccessPc DEF IInv, ThreadInv, PopLoad, Running, Access
<1>2. call[t].op \in {"pop_first", "pop_last"} /\ i[t] \in Nat
      /\ Self(t) \in SUBSET Bits
  BY <1>1, AtWord DEF PcOps
<1>3. acc[t] = {} /\ ok[t]
  BY <1>1, <1>2 DEF RunningInv
<1>4. \A y \in Indices : y \in Nat
  BY DEF Indices
<1>5. CASE Self(t) = {} /\ NextWord(t)
  <2>1. \A y \in Indices : WordIdx(y) = i[t] => Settled(t, y)'
    BY <1>1, <1>2, <1>4, <1>5, HereStayed DEF Settled
  <2> QED BY <1>1, <1>2, <1>3, <1>5, <2>1, AdvanceInv DEF IndexOps
<1>6. ASSUME NEW b \in Self(t), IsEnd(call[t], b, Self(t)), Hold(t, {b}),
             Goto(t, "pop_take"), UNCHANGED i
      PROVE  ThreadInv(t)'
  <2>1. /\ pc'[t] = "pop_take" /\ w'[t] = {b}
    BY <1>6 DEF Goto, Hold, TypeOK, IInv
  <2>2. IdxOf(i[t], b) \in Nat /\ IdxOf(i[t], b) \in Seen(t)'
    BY <1>1, HereSeen
  <2>3. \A y \in Stayed(t)' : IF Backward(call[t]) THEN y <= IdxOf(i[t], b)
                                                   ELSE IdxOf(i[t], b) <= y
    <3> SUFFICES ASSUME NEW y \in Stayed(t)'
                 PROVE  IF Backward(call[t]) THEN y <= IdxOf(i[t], b)
                                             ELSE IdxOf(i[t], b) <= y
      OBVIOUS
    <3>1. y \in Indices /\ y \in Nat /\ y \in Stayed(t) /\ call[t].self \in Slices
      BY <1>1, SeenGrows, AtWord, MembersIndices, MemberWord
    <3>2. ~ Passed(t, y)
      BY <1>1, <1>2, <3>1 DEF RunningInv, Settled
    <3>3. /\ WordIdx(y) \in Nat /\ WordIdx(IdxOf(i[t], b)) = i[t]
          /\ BitIdx(IdxOf(i[t], b)) = b
      BY <1>2, <3>1, SplitIndex, JoinIndex
    <3>4. CASE WordIdx(y) = i[t]
      <4>1. BitIdx(y) \in Self(t)
        BY <1>1, <3>1, <3>4, HereStayed
      <4>2. IF Backward(call[t]) THEN BitIdx(y) <= b ELSE b <= BitIdx(y)
        BY <1>6, <4>1 DEF IsEnd, IsLowest, IsHighest
      <4> QED BY <2>2, <3>1, <3>3, <3>4, <4>2, IndexOrder
    <3>5. CASE WordIdx(y) # i[t]
      <4>1. IF Backward(call[t]) THEN WordIdx(y) < i[t] ELSE i[t] < WordIdx(y)
        BY <1>2, <3>2, <3>3, <3>5 DEF Passed
      <4>2. IF Backward(call[t]) THEN y < IdxOf(i[t], b) ELSE IdxOf(i[t], b) < y
        BY <2>2, <3>1, <3>3, <4>1, IndexOrder
      <4> QED BY <2>2, <3>1, <4>2
    <3> QED BY <3>4, <3>5
  <2>4. HeldInv(t)'
    BY <1>1, <1>6, <2>1, <2>2, <2>3 DEF HeldInv
  <2> QED BY <1>1, <1>6, <2>1, <2>4, StayInv DEF Running
<1> QED BY <1>5, <1>6 DEF PopLoad

LEMMA PopTakeInv ==
  ASSUME IInv, Record, TypeOK', NEW t \in Threads, PopTake(t)
  PROVE  ThreadInv(t)'
<1>1. /\ TypeOK /\ RunningInv(t) /\ Running(t) /\ pc[t] = "pop_take"
      /\ pc'[t] # "idle" /\ UNCHANGED <<call, i, ok>>
  BY AccessPc DEF IInv, ThreadInv, PopTake, Running, Access
<1>2. /\ call[t].op \in {"pop_first", "pop_last"} /\ i[t] \in Nat
      /\ w[t] \in SUBSET Bits
  BY <1>1, AtWord DEF PcOps, TypeOK
<1>3. HeldInv(t)
  BY <1>1 DEF RunningInv
<1>4. CASE Self(t) \cap w[t] # {} /\ Return(t)
           /\ Answer(t, IdxsOf(i[t], w[t]) \cap Convertible)
  <2>1. pc'[t] = "return" /\ acc'[t] = IdxsOf(i[t], w[t]) \cap Convertible
    BY <1>1, <1>4 DEF Return, Goto, Answer, TypeOK
  <2>2. acc'[t] \subseteq Seen(t)'
    BY <1>1, <1>3, <2>1, SeenGrows DEF HeldInv, IdxsOf
  <2>3. \A x \in acc'[t], y \in Stayed(t)' : IF Backward(call[t]) THEN y <= x ELSE x <= y
    BY <1>1, <1>3, <2>1, SeenGrows DEF HeldInv, IdxsOf
  <2>4. acc'[t] = {} => ~ (Seen(t)' \subseteq Convertible)
    <3>1. PICK b \in w[t] : IdxOf(i[t], b) \in Seen(t)
      BY <1>1, <1>3, <1>4 DEF HeldInv
    <3>2. IdxOf(i[t], b) \in Seen(t)'
      BY <1>1, <3>1, SeenGrows
    <3> QED BY <2>1, <3>1, <3>2 DEF IdxsOf
  <2>5. EndAnswer(t)'
    BY <1>1, <2>2, <2>3, <2>4 DEF EndAnswer
  <2> QED BY <1>1, <1>2, <2>1, <2>5 DEF ThreadInv, ReadAnswer, WriteAnswer, PairAnswer,
                                        Answered, Running
<1>5. CASE Goto(t, "pop_load") /\ UNCHANGED acc
  <2>1. pc'[t] = "pop_load"
    BY <1>1, <1>5 DEF Goto, TypeOK
  <2>2. HeldInv(t)'
    BY <2>1 DEF HeldInv
  <2> QED BY <1>1, <1>5, <2>1, <2>2, StayInv DEF Running
<1> QED BY <1>4, <1>5 DEF PopTake

LEMMA ReadInv ==
  ASSUME IInv, Record, TypeOK', NEW t \in Threads, Gather(t) \/ Find(t) \/ IsEmpty(t)
  PROVE  ThreadInv(t)'
<1>1. /\ TypeOK /\ RunningInv(t) /\ Running(t) /\ pc[t] \in {"gather", "find", "is_empty"}
      /\ pc'[t] # "idle" /\ UNCHANGED call
  BY AccessPc DEF IInv, ThreadInv, Gather, Find, IsEmpty, Running, Access
<1>2. /\ i[t] \in Nat /\ Self(t) \in SUBSET Bits /\ call[t].op \in PcOps(pc[t])
      /\ call[t].op \notin IndexOps /\ ok[t]
  BY <1>1, AtWord DEF PcOps, IndexOps, RunningInv
<1>3. \A y \in Indices : y \in Nat
  BY DEF Indices
<1>4. \A b \in Self(t) : IdxOf(i[t], b) \in Nat /\ IdxOf(i[t], b) \in Seen(t)'
  BY <1>1, HereSeen
<1>5. CASE Gather(t) /\ Goto(t, "panic")
  <2>1. pc'[t] = "panic"
    BY <1>1, <1>5 DEF Goto, TypeOK
  <2> QED BY <2>1, PanickedInv
<1>8. CASE /\ Gather(t) /\ NextWord(t)
           /\ Answer(t, acc[t] \cup IdxsOf(i[t], Self(t)))
  <2>1. /\ acc'[t] = acc[t] \cup IdxsOf(i[t], Self(t)) /\ call[t].op \in {"len", "iter"}
    BY <1>1, <1>2, <1>8 DEF Gather, Answer, TypeOK, PcOps
  <2>2. acc'[t] \subseteq Seen(t)'
    BY <1>1, <1>4, <2>1, SeenGrows DEF RunningInv, IdxsOf
  <2>3. \A y \in Indices : WordIdx(y) = i[t] => Settled(t, y)'
    BY <1>1, <1>3, <2>1, HereStayed DEF Settled, IdxsOf
  <2> QED BY <1>1, <1>2, <1>8, <2>1, <2>2, <2>3, AdvanceInv DEF Gather
<1>6. CASE Find(t)
  <2>1. call[t].op \in {"first", "last"}
    BY <1>2, <1>6 DEF PcOps, Find
  <2>2. acc[t] = {}
    BY <1>1, <2>1 DEF RunningInv
  <2>3. CASE Self(t) = {} /\ NextWord(t) /\ UNCHANGED acc
    <3>1. \A y \in Indices : WordIdx(y) = i[t] => Settled(t, y)'
      BY <1>1, <1>3, <2>1, <2>3, HereStayed DEF Settled
    <3> QED BY <1>1, <1>2, <1>6, <2>2, <2>3, <3>1, AdvanceInv DEF Find
  <2>4. ASSUME NEW b \in Self(t), IsEnd(call[t], b, Self(t)), Return(t),
               Answer(t, {IdxOf(i[t], b)} \cap Convertible)
        PROVE  ThreadInv(t)'
    <3>1. /\ pc'[t] = "return" /\ acc'[t] = {IdxOf(i[t], b)} \cap Convertible
      BY <1>1, <2>4 DEF Return, Goto, Answer, TypeOK
    <3>2. \A y \in Stayed(t)' : IF Backward(call[t]) THEN y <= IdxOf(i[t], b)
                                                     ELSE IdxOf(i[t], b) <= y
      <4> SUFFICES ASSUME NEW y \in Stayed(t)'
                   PROVE  IF Backward(call[t]) THEN y <= IdxOf(i[t], b)
                                               ELSE IdxOf(i[t], b) <= y
        OBVIOUS
      <4>1. y \in Indices /\ y \in Nat /\ y \in Stayed(t)
        BY <1>1, SeenGrows, AtWord, MembersIndices, MemberWord
      <4>2. ~ Passed(t, y)
        BY <1>1, <2>1, <4>1 DEF RunningInv, Settled
      <4>3. /\ WordIdx(y) \in Nat /\ WordIdx(IdxOf(i[t], b)) = i[t]
            /\ BitIdx(IdxOf(i[t], b)) = b /\ IdxOf(i[t], b) \in Nat
        BY <1>2, <4>1, SplitIndex, JoinIndex
      <4>4. CASE WordIdx(y) = i[t]
        <5>1. BitIdx(y) \in Self(t)
          BY <1>1, <4>1, <4>4, HereStayed
        <5>2. IF Backward(call[t]) THEN BitIdx(y) <= b ELSE b <= BitIdx(y)
          BY <2>4, <5>1 DEF IsEnd, IsLowest, IsHighest
        <5> QED BY <4>1, <4>3, <4>4, <5>2, IndexOrder
      <4>5. CASE WordIdx(y) # i[t]
        <5>1. IF Backward(call[t]) THEN WordIdx(y) < i[t] ELSE i[t] < WordIdx(y)
          BY <1>2, <4>2, <4>3, <4>5 DEF Passed
        <5>2. IF Backward(call[t]) THEN y < IdxOf(i[t], b) ELSE IdxOf(i[t], b) < y
          BY <4>1, <4>3, <5>1, IndexOrder
        <5> QED BY <4>1, <4>3, <5>2
      <4> QED BY <4>4, <4>5
    <3>3. acc'[t] = {} => ~ (Seen(t)' \subseteq Convertible)
      BY <1>4, <3>1
    <3>4. EndAnswer(t)'
      BY <1>1, <1>4, <3>1, <3>2, <3>3 DEF EndAnswer
    <3> QED BY <1>1, <2>1, <3>1, <3>4 DEF ThreadInv, ReadAnswer, WriteAnswer, PairAnswer,
                                          Answered, Running
  <2> QED BY <1>6, <2>3, <2>4 DEF Find
<1>7. CASE IsEmpty(t)
  <2>1. call[t].op = "is_empty"
    BY <1>2, <1>7 DEF PcOps, IsEmpty
  <2>2. acc[t] = {} /\ acc'[t] = {}
    BY <1>1, <1>7, <2>1 DEF RunningInv, IsEmpty
  <2>3. CASE Self(t) = {} /\ NextWord(t) /\ UNCHANGED ok
    <3>1. \A y \in Indices : WordIdx(y) = i[t] => Settled(t, y)'
      BY <1>1, <1>3, <2>1, <2>3, HereStayed DEF Settled
    <3> QED BY <1>1, <1>2, <2>1, <2>2, <2>3, <3>1, AdvanceInv
  <2>4. CASE Self(t) # {} /\ Return(t) /\ ok' = [ok EXCEPT ![t] = FALSE]
    <3>1. pc'[t] = "return" /\ ok'[t] = FALSE
      BY <1>1, <2>4 DEF Return, Goto, TypeOK
    <3>2. Seen(t)' # {}
      BY <1>4, <2>4
    <3> QED BY <1>1, <2>1, <3>1, <3>2 DEF ThreadInv, EndAnswer, ReadAnswer, WriteAnswer,
                                          PairAnswer, Answered, Running
  <2> QED BY <1>7, <2>3, <2>4 DEF IsEmpty
<1> QED BY <1>5, <1>6, <1>7, <1>8 DEF Gather

LEMMA WriteInv ==
  ASSUME IInv, Record, TypeOK', NEW t \in Threads, Drain(t) \/ Clear(t) \/ UnionFrom(t)
  PROVE  ThreadInv(t)'
<1>1. /\ TypeOK /\ RunningInv(t) /\ Running(t) /\ pc[t] \in {"drain", "clear", "union_from"}
      /\ pc'[t] # "idle" /\ UNCHANGED <<call, ok>> /\ NextWord(t)
  BY AccessPc DEF IInv, ThreadInv, Drain, Clear, UnionFrom, Running, Access
<1>2. /\ i[t] \in WordsOf(call[t].self) /\ i[t] \in Nat /\ Self(t) \in SUBSET Bits
      /\ call[t].self \in Slices /\ call[t].op \in PcOps(pc[t])
  BY <1>1, AtWord
<1>3. call[t].op \notin IndexOps /\ ok[t] /\ acc[t] \subseteq Seen(t)
  BY <1>1, <1>2 DEF PcOps, IndexOps, RunningInv
<1>4. \A y \in Indices : y \in Nat
  BY DEF Indices
<1>5. CASE Drain(t) \/ Clear(t)
  <2>1. words'[call[t].self][i[t]] = {}
    BY <1>1, <1>2, <1>5, StoreWord DEF Drain, Clear, StoreSelf, TypeOK
  <2>2. \A y \in Indices : WordIdx(y) = i[t] => Settled(t, y)'
    <3>1. call[t].op \in {"drain", "clear"}
      BY <1>2, <1>5 DEF PcOps, Drain, Clear
    <3> QED BY <1>1, <1>4, <2>1, <3>1, HereStayed DEF Settled
  <2>3. acc[t] \subseteq acc'[t] /\ acc'[t] \subseteq Seen(t)'
    <3>1. \A b \in Self(t) : IdxOf(i[t], b) \in Seen(t)'
      BY <1>1, HereSeen
    <3> QED BY <1>1, <1>3, <1>5, <3>1, SeenGrows DEF Drain, Clear, Answer, TypeOK, IdxsOf
  <2>4. call[t].op \notin {"len", "iter", "drain", "append"} => acc'[t] = {}
    BY <1>1, <1>2, <1>5 DEF PcOps, Drain, Clear, RunningInv
  <2>5. pc[t] = "drain" => \A y \in acc'[t] : WordIdx(y) <= i[t]
    <3> SUFFICES ASSUME pc[t] = "drain", NEW y \in acc'[t] PROVE WordIdx(y) <= i[t]
      OBVIOUS
    <3>1. acc'[t] = acc[t] \cup IdxsOf(i[t], Self(t))
      BY <1>1, <1>5 DEF Drain, Clear, Answer, TypeOK
    <3>2. \A x \in acc[t] : x \in Nat /\ WordIdx(x) \in Nat /\ WordIdx(x) < i[t]
      BY <1>1, <1>2, SplitIndex DEF PcOps, RunningInv, TypeOK
    <3>3. \A x \in IdxsOf(i[t], Self(t)) : WordIdx(x) = i[t]
      BY <1>2, JoinIndex DEF IdxsOf
    <3> QED BY <1>2, <3>1, <3>2, <3>3
  <2> QED BY <1>1, <1>3, <2>2, <2>3, <2>4, <2>5, AdvanceInv
<1>6. CASE UnionFrom(t)
  <2>1. call[t].op = "union_from" /\ UNCHANGED acc
    BY <1>2, <1>6 DEF PcOps, UnionFrom
  <2> DEFINE new == {b \in Bits : IdxOf(i[t], b) \in call[t].arg}
  <2>2. words'[call[t].self][i[t]] = Self(t) \cup new /\ words' \in Contents
    <3>1. Self(t) \cup new \in SUBSET Bits
      BY <1>2
    <3>2. StoreSelf(t, Self(t) \cup new)
      BY <1>6 DEF UnionFrom
    <3> HIDE DEF new
    <3> QED BY <1>1, <3>1, <3>2, StoreSelfType
  <2>3. \A y \in Indices : WordIdx(y) = i[t] => Settled(t, y)'
    <3> SUFFICES ASSUME NEW y \in Indices, WordIdx(y) = i[t], y \in call[t].arg
                 PROVE  y \in Seen(t)'
      BY <1>1, <2>1 DEF Settled
    <3>1. BitIdx(y) \in new /\ y = IdxOf(i[t], BitIdx(y))
      BY <1>4, SplitIndex
    <3>2. y \in Members(call[t].self, words')
      BY <1>2, <2>2, <3>1, WordMember
    <3> QED BY <1>1, <3>2, SeenGrows
  <2>4. acc[t] = {} /\ acc'[t] = {} /\ acc'[t] \subseteq Seen(t)'
    BY <1>1, <2>1 DEF RunningInv
  <2> QED BY <1>1, <1>3, <2>3, <2>4, AdvanceInv
<1> QED BY <1>1, <1>5, <1>6

LEMMA RetainInv ==
  ASSUME IInv, Record, TypeOK', NEW t \in Threads, RetainLoad(t) \/ RetainBit(t)
  PROVE  ThreadInv(t)'
<1>1. /\ TypeOK /\ RunningInv(t) /\ Running(t) /\ pc[t] \in {"retain_load", "retain_bit"}
      /\ pc'[t] # "idle" /\ UNCHANGED <<call, acc, ok>>
  BY AccessPc DEF IInv, ThreadInv, RetainLoad, RetainBit, Running, Access
<1>2. /\ i[t] \in WordsOf(call[t].self) /\ i[t] \in Nat /\ Self(t) \in SUBSET Bits
      /\ call[t].self \in Slices /\ call[t].op = "retain" /\ w[t] \in SUBSET Bits
  BY <1>1, AtWord DEF PcOps, TypeOK
<1>3. /\ call[t].op \notin IndexOps /\ ok[t] /\ acc[t] = {}
      /\ HeldInv(t)
  BY <1>1, <1>2 DEF IndexOps, RunningInv
<1>4. \A y \in Indices : y \in Nat
  BY DEF Indices
<1>5. CASE RetainLoad(t)
  <2>1. w'[t] = Self(t)
    BY <1>1, <1>5 DEF RetainLoad, Hold, TypeOK
  <2>2. CASE Self(t) = {} /\ NextWord(t)
    <3>1. \A y \in Indices : WordIdx(y) = i[t] => Settled(t, y)'
      BY <1>1, <1>2, <1>4, <2>2, HereStayed DEF Settled
    <3> QED BY <1>1, <1>3, <2>2, <3>1, AdvanceInv
  <2>3. CASE Goto(t, "retain_bit") /\ UNCHANGED i
    <3>1. pc'[t] = "retain_bit"
      BY <1>1, <2>3 DEF Goto, TypeOK
    <3>2. HeldInv(t)'
      <4>1. \A y \in Stayed(t)' : WordIdx(y) = i[t] => BitIdx(y) \in Self(t)
        <5> SUFFICES ASSUME NEW y \in Stayed(t)', WordIdx(y) = i[t] PROVE BitIdx(y) \in Self(t)
          OBVIOUS
        <5>1. y \in Nat
          BY <1>1, <1>2, SeenGrows, MemberWord
        <5> QED BY <1>1, <5>1, HereStayed
      <4> QED BY <2>1, <2>3, <3>1, <4>1 DEF HeldInv
    <3> QED BY <1>1, <2>3, <3>1, <3>2, StayInv DEF Running
  <2> QED BY <1>5, <2>2, <2>3 DEF RetainLoad
<1>6. ASSUME NEW b \in w[t], pc[t] = "retain_bit", Hold(t, w[t] \ {b}),
             IF IdxOf(i[t], b) \in call[t].arg THEN UNCHANGED words
                                               ELSE StoreSelf(t, Self(t) \ {b}),
             IF w[t] = {b} THEN NextWord(t) ELSE UNCHANGED <<pc, i>>
      PROVE  ThreadInv(t)'
  <2>1. w'[t] = w[t] \ {b}
    BY <1>1, <1>6 DEF Hold, TypeOK
  <2>2. \A y \in Nat : y \in Stayed(t)' /\ WordIdx(y) = i[t]
                         => y \in call[t].arg \/ BitIdx(y) \in w'[t]
    <3> SUFFICES ASSUME NEW y \in Nat, y \in Stayed(t)', WordIdx(y) = i[t],
                        y \notin call[t].arg
                 PROVE  BitIdx(y) \in w'[t]
      OBVIOUS
    <3>1. BitIdx(y) \in w[t]
      BY <1>1, <1>3, <1>6, SeenGrows DEF HeldInv
    <3>2. /\ BitIdx(y) \in words'[call[t].self][i[t]] /\ y = IdxOf(i[t], BitIdx(y))
      BY <1>1, HereStayed
    <3>3. BitIdx(y) # b
      <4>1. ASSUME BitIdx(y) = b PROVE FALSE
        <5>1. StoreSelf(t, Self(t) \ {b})
          BY <1>6, <3>2, <4>1
        <5>2. words'[call[t].self][i[t]] = Self(t) \ {b}
          <6>1. Self(t) \ {b} \in SUBSET Bits
            BY <1>2
          <6> QED BY <1>1, <5>1, <6>1, StoreSelfType
        <5> QED BY <3>2, <4>1, <5>2
      <4> QED BY <4>1
    <3> QED BY <2>1, <3>1, <3>3
  <2>3. CASE w[t] = {b} /\ NextWord(t)
    <3>1. \A y \in Indices : WordIdx(y) = i[t] => Settled(t, y)'
      BY <1>1, <1>2, <1>4, <2>1, <2>2, <2>3 DEF Settled
    <3> QED BY <1>1, <1>3, <2>3, <3>1, AdvanceInv
  <2>4. CASE UNCHANGED <<pc, i>>
    <3>1. \A y \in Stayed(t)' : y \in Nat
      BY <1>1, <1>2, SeenGrows, MemberWord
    <3>2. HeldInv(t)'
      BY <1>1, <1>6, <2>2, <2>4, <3>1 DEF HeldInv
    <3> QED BY <1>1, <2>4, <3>2, StayInv DEF Running
  <2> QED BY <1>6, <2>3, <2>4
<1>7. CASE Goto(t, "panic")
  <2>1. pc'[t] = "panic"
    BY <1>1, <1>7 DEF Goto, TypeOK
  <2> QED BY <2>1, PanickedInv
<1> QED BY <1>1, <1>5, <1>6, <1>7 DEF RetainBit

LEMMA PairInv ==
  ASSUME IInv, Record, TypeOK', NEW t \in Threads, PairLoad(t) \/ PairTest(t)
  PROVE  ThreadInv(t)'
<1>1. /\ TypeOK /\ RunningInv(t) /\ Running(t) /\ pc[t] \in {"pair_load", "pair_test"}
      /\ pc'[t] # "idle" /\ UNCHANGED <<words, call, acc>>
  BY AccessPc DEF IInv, ThreadInv, PairLoad, PairTest, Running, Access
<1>2. /\ i[t] \in Nat /\ call[t].self \in Slices /\ call[t].other \in Slices
      /\ call[t].op \in {"is_subset", "is_disjoint"}
      /\ i[t] < Extent(call[t]) /\ call[t].op \notin IndexOps
      /\ i[t] \in WordsOf(call[t].self) /\ Self(t) \in SUBSET Bits
  BY <1>1, AtWord DEF PcOps, IndexOps
<1>3. acc[t] = {} /\ ok[t] /\ HeldInv(t)
  BY <1>1, <1>2 DEF RunningInv
<1>4. \A y \in Indices : y \in Nat
  BY DEF Indices
<1>5. \A y \in Stayed(t)' : y \in Nat
  BY <1>1, <1>2, SeenGrows, MemberWord
<1>6. ASSUME Return(t), ok' = [ok EXCEPT ![t] = FALSE],
             call[t].op = "is_subset" => ~ (Seen(t)' \subseteq StayedOther(t)'),
             call[t].op = "is_disjoint" => Seen(t)' \cap SeenOther(t)' # {}
      PROVE  ThreadInv(t)'
  <2>1. pc'[t] = "return" /\ ~ ok'[t]
    BY <1>1, <1>6 DEF Return, Goto, TypeOK
  <2> QED BY <1>1, <1>2, <1>6, <2>1 DEF ThreadInv, EndAnswer, ReadAnswer, WriteAnswer,
                                        PairAnswer, Answered, Running
<1>7. ASSUME PairLoad(t) PROVE ThreadInv(t)'
  <2>1. CASE i[t] < Len[call[t].other]
    <3>1. /\ w'[t] = Self(t) /\ pc'[t] = "pair_test" /\ UNCHANGED <<i, ok>>
      BY <1>1, <1>7, <2>1 DEF PairLoad, Hold, Goto, TypeOK
    <3>2. \A y \in Stayed(t)' : WordIdx(y) = i[t] => BitIdx(y) \in Self(t)
      BY <1>1, <1>5, HereStayed
    <3>3. \A b \in Self(t) : IdxOf(i[t], b) \in Seen(t)'
      BY <1>1, HereSeen
    <3>4. HeldInv(t)'
      BY <3>1, <3>2, <3>3 DEF HeldInv
    <3> QED BY <1>1, <3>1, <3>4, StayInv DEF Running
  <2>2. CASE ~ (i[t] < Len[call[t].other])
    <3>1. call[t].op = "is_subset"
      <4>1. Len[call[t].other] \in Nat /\ Len[call[t].self] \in Nat
        BY <1>2, LenAssumption
      <4> QED BY <1>2, <2>2, <4>1 DEF Extent
    <3>2. CASE Self(t) = {} /\ NextWord(t) /\ UNCHANGED ok
      <4>1. \A y \in Indices : WordIdx(y) = i[t] => Settled(t, y)'
        BY <1>1, <1>4, <3>1, <3>2, HereStayed DEF Settled
      <4> QED BY <1>1, <1>2, <1>3, <3>2, <4>1, AdvanceInv
    <3>3. CASE Self(t) # {} /\ Fail(t)
      <4>1. PICK b \in Self(t) : TRUE
        BY <3>3
      <4>2. IdxOf(i[t], b) \in Seen(t)'
        BY <1>1, HereSeen
      <4>3. IdxOf(i[t], b) \notin StayedOther(t)'
        <5>1. WordIdx(IdxOf(i[t], b)) = i[t]
          BY <1>2, JoinIndex
        <5>2. StayedOther(t)' \subseteq Members(call[t].other, words')
          BY <1>1, SeenGrows
        <5> QED BY <1>2, <2>2, <5>1, <5>2, MemberWord
      <4> QED BY <1>6, <3>1, <3>3, <4>2, <4>3 DEF Fail
    <3> QED BY <1>7, <2>2, <3>2, <3>3 DEF PairLoad, Compare
  <2> QED BY <2>1, <2>2
<1>8. ASSUME PairTest(t) PROVE ThreadInv(t)'
  <2>1. pc[t] = "pair_test" /\ w[t] \in SUBSET Bits
        /\ i[t] \in WordsOf(call[t].other) /\ Other(t) \in SUBSET Bits
    BY <1>1, <1>8, AtWord DEF PairTest, TypeOK
  <2>2. /\ \A y \in Stayed(t)' : WordIdx(y) = i[t] => BitIdx(y) \in w[t]
        /\ \A b \in w[t] : IdxOf(i[t], b) \in Seen(t)'
    BY <1>1, <1>3, <2>1, SeenGrows DEF HeldInv
  <2>3. \A b \in Other(t) : IdxOf(i[t], b) \in SeenOther(t)'
    <3> SUFFICES ASSUME NEW b \in Other(t) PROVE IdxOf(i[t], b) \in SeenOther(t)'
      OBVIOUS
    <3>1. IdxOf(i[t], b) \in Members(call[t].other, words)
      BY <1>1, <1>2, <2>1, WordMember DEF TypeOK, Other
    <3> QED BY <1>1, <1>2, <3>1, HistoryStep DEF SeenOther
  <2> DEFINE holds == IF call[t].op = "is_subset" THEN w[t] \subseteq Other(t)
                                                  ELSE w[t] \cap Other(t) = {}
  <2>4. CASE holds /\ NextWord(t) /\ UNCHANGED ok
    <3>1. \A y \in Indices : WordIdx(y) = i[t] => Settled(t, y)'
      <4> SUFFICES ASSUME NEW y \in Indices, WordIdx(y) = i[t], y \in Stayed(t)'
                   PROVE  IF call[t].op = "is_subset" THEN y \in SeenOther(t)'
                                                      ELSE y \notin StayedOther(t)'
        BY <1>1, <1>2 DEF Settled
      <4>1. /\ BitIdx(y) \in w[t] /\ y = IdxOf(i[t], BitIdx(y))
            /\ y \in StayedOther(t)' => BitIdx(y) \in Other(t)
        BY <1>1, <1>4, <2>2, HereStayed
      <4> QED BY <2>3, <2>4, <4>1
    <3> QED BY <1>1, <1>2, <1>3, <2>4, <3>1, AdvanceInv
  <2>5. CASE ~ holds /\ Fail(t)
    <3>1. CASE call[t].op = "is_subset"
      <4>1. PICK b \in w[t] : b \notin Other(t)
        BY <2>5, <3>1
      <4>2. IdxOf(i[t], b) \in Seen(t)'
        BY <2>2
      <4>3. IdxOf(i[t], b) \notin StayedOther(t)'
        <5>1. /\ WordIdx(IdxOf(i[t], b)) = i[t] /\ BitIdx(IdxOf(i[t], b)) = b
              /\ IdxOf(i[t], b) \in Nat
          BY <1>2, <2>1, JoinIndex
        <5> QED BY <1>1, <4>1, <5>1, HereStayed
      <4> QED BY <1>6, <2>5, <3>1, <4>2, <4>3 DEF Fail
    <3>2. CASE call[t].op = "is_disjoint"
      <4>1. PICK b \in w[t] : b \in Other(t)
        BY <2>5, <3>2
      <4>2. IdxOf(i[t], b) \in Seen(t)' /\ IdxOf(i[t], b) \in SeenOther(t)'
        BY <2>2, <2>3, <4>1
      <4> QED BY <1>6, <2>5, <3>2, <4>2 DEF Fail
    <3> QED BY <1>2, <3>1, <3>2
  <2> QED BY <1>8, <2>4, <2>5 DEF PairTest, Compare
<1> QED BY <1>7, <1>8

LEMMA AppendInv ==
  ASSUME IInv, Record, TypeOK', NEW t \in Threads,
         AppendSwap(t) \/ AppendOr(t) \/ AppendClear(t)
  PROVE  ThreadInv(t)'
<1>1. /\ TypeOK /\ RunningInv(t) /\ Running(t)
      /\ pc[t] \in {"append_swap", "append_or", "append_clear"}
      /\ pc'[t] # "idle" /\ UNCHANGED <<call, ok>>
  BY AccessPc DEF IInv, ThreadInv, AppendSwap, AppendOr, AppendClear, Running, Access
<1>2. /\ i[t] \in Nat /\ call[t].self \in Slices /\ call[t].other \in Slices
      /\ call[t].op = "append" /\ call[t].op \notin IndexOps
      /\ ok[t] /\ acc[t] \subseteq Seen(t) /\ w[t] \in SUBSET Bits
  BY <1>1, AtWord DEF PcOps, IndexOps, RunningInv, TypeOK
<1>3. \A y \in Indices : y \in Nat
  BY DEF Indices
<1>4. ASSUME i[t] \in WordsOf(call[t].other), Store(call[t].other, i[t], {})
      PROVE  \A y \in StayedOther(t)' : WordIdx(y) # i[t]
  <2>1. words'[call[t].other][i[t]] = {}
    BY <1>1, <1>2, <1>4, StoreWord DEF TypeOK
  <2>2. StayedOther(t)' \subseteq Members(call[t].other, words')
    BY <1>1, SeenGrows
  <2> QED BY <1>2, <2>1, <2>2, MemberWord
<1>5. CASE AppendSwap(t)
  <2>1. \A y \in StayedOther(t)' : WordIdx(y) # i[t]
    BY <1>1, <1>4, <1>5, AtWord DEF AppendSwap
  <2>2. pc'[t] = "append_or" /\ UNCHANGED <<i, acc>>
    BY <1>1, <1>5 DEF AppendSwap, Goto, TypeOK
  <2>3. HeldInv(t)'
    BY <2>1, <2>2 DEF HeldInv
  <2> QED BY <1>1, <2>2, <2>3, StayInv DEF Running
<1>6. CASE AppendClear(t)
  <2>1. \A y \in StayedOther(t)' : WordIdx(y) # i[t]
    BY <1>1, <1>4, <1>6, AtWord DEF AppendClear
  <2>2. \A y \in Indices : WordIdx(y) = i[t] => Settled(t, y)'
    BY <1>1, <1>2, <2>1 DEF Settled
  <2>3. acc'[t] = acc[t] /\ acc'[t] \subseteq Seen(t)'
    BY <1>1, <1>2, <1>6, SeenGrows DEF AppendClear
  <2> QED BY <1>1, <1>2, <1>6, <2>2, <2>3, AdvanceInv DEF AppendClear
<1>7. CASE AppendOr(t)
  <2>1. \A y \in StayedOther(t)' : WordIdx(y) # i[t]
    BY <1>1, <1>7, SeenGrows DEF AppendOr, RunningInv, HeldInv
  <2>2. \A y \in Indices : WordIdx(y) = i[t] => Settled(t, y)'
    BY <1>1, <1>2, <2>1 DEF Settled
  <2>3. i[t] \in WordsOf(call[t].self) /\ Self(t) \in SUBSET Bits
    BY <1>1, <1>7, AtWord DEF AppendOr
  <2>4. words' \in Contents /\ words'[call[t].self][i[t]] = Self(t) \cup w[t]
    <3>1. Self(t) \cup w[t] \in SUBSET Bits
      BY <1>2, <2>3
    <3> QED BY <1>1, <1>7, <3>1, StoreSelfType DEF AppendOr
  <2>5. \A b \in w[t] : IdxOf(i[t], b) \in Seen(t)'
    BY <1>1, <1>2, <2>3, <2>4, WordMember, SeenGrows
  <2>6. acc'[t] = acc[t] \cup IdxsOf(i[t], w[t])
    BY <1>1, <1>7 DEF AppendOr, Answer, TypeOK
  <2>7. acc'[t] \subseteq Seen(t)'
    BY <1>1, <1>2, <2>5, <2>6, SeenGrows DEF IdxsOf
  <2> QED BY <1>1, <1>2, <1>7, <2>2, <2>6, <2>7, AdvanceInv DEF AppendOr
<1> QED BY <1>5, <1>6, <1>7

LEMMA BeginInv ==
  ASSUME IInv, Record, TypeOK', NEW t \in Threads, NEW c \in Calls, Begin(t, c)
  PROVE  ThreadInv(t)'
<1>1. /\ TypeOK /\ pc[t] = "idle" /\ acc[t] = {} /\ ok[t]
      /\ UNCHANGED <<words, acc, ok>> /\ call'[t] = c
  BY DEF IInv, ThreadInv, Begin, TypeOK
<1>2. /\ c.self \in Slices /\ c.other \in Slices /\ c.id \in Nat /\ c.op \in Ops
  BY CallsAssumption DEF CallType
<1>3. Len[c.self] \in Nat /\ Len[c.other] \in Nat
  BY <1>2, LenAssumption
<1>4. CASE c.op \in IndexOps
  <2>1. pc'[t] \in {"panic", "insert", "remove", "toggle", "contains"}
    <3>1. Label(c, WordIdx(c.id)) \in {"insert", "remove", "toggle", "contains"}
      BY <1>4 DEF Label, IndexOps
    <3> QED BY <1>1, <1>4, <3>1 DEF Begin, Goto, TypeOK
  <2>2. \A s \in Slices : stable'[t][s] = Members(s, words') /\ ever'[t][s] = Members(s, words')
    BY <1>1, <2>1, HistoryOpens
  <2>3. \A y : Settled(t, y)'
    BY <1>1, <1>4 DEF Settled, IndexOps
  <2>4. HeldInv(t)'
    BY <2>1 DEF HeldInv
  <2>5. RunningInv(t)'
    BY <1>1, <2>2, <2>3, <2>4 DEF RunningInv
  <2> QED BY <2>1, <2>5 DEF ThreadInv, EndAnswer, ReadAnswer, WriteAnswer, PairAnswer,
                            Answered
<1>5. CASE c.op \notin IndexOps
  <2>1. Extent(c) \in Nat
    BY <1>3 DEF Extent
  <2> DEFINE j == IF Backward(c) THEN Extent(c) - 1 ELSE 0
  <2>2. LoopTo(t, c, j) /\ j \in Int
    BY <1>5, <2>1 DEF Begin
  <2>3. /\ i'[t] = j
        /\ IF j \in 0 .. Extent(c) - 1
           THEN pc'[t] \notin {"return", "panic", "idle", "pop_take", "retain_bit",
                               "pair_test", "append_or"}
           ELSE pc'[t] = "return"
    BY <1>1, <1>5, <2>2, LoopToControl
  <2>4. \A s \in Slices : stable'[t][s] = Members(s, words') /\ ever'[t][s] = Members(s, words')
    BY <1>1, <2>3, HistoryOpens
  <2>5. CASE j \in 0 .. Extent(c) - 1
    <3>1. \A y \in Indices : y \in Nat /\ WordIdx(y) \in Nat
      BY SplitIndex DEF Indices
    <3>2. \A y \in Indices : Passed(t, y)' => Settled(t, y)'
      <4>1. CASE Backward(c)
        <5>1. c.op \in {"last", "pop_last"} /\ Extent(c) = Len[c.self]
          BY <4>1 DEF Backward, Extent
        <5>2. \A y \in Indices : Passed(t, y)' => y \notin Members(c.self, words')
          BY <1>1, <1>2, <1>3, <2>3, <3>1, <4>1, <5>1, MemberWord DEF Passed
        <5>3. Stayed(t)' = Members(c.self, words')
          BY <1>1, <1>2, <2>4 DEF Stayed
        <5> QED BY <1>1, <5>1, <5>2, <5>3 DEF Settled
      <4>2. CASE ~ Backward(c)
        BY <1>1, <2>3, <3>1, <4>2 DEF Passed
      <4> QED BY <4>1, <4>2
    <3>3. HeldInv(t)'
      BY <2>3, <2>5 DEF HeldInv
    <3>4. RunningInv(t)'
      BY <1>1, <2>4, <3>2, <3>3 DEF RunningInv
    <3> QED BY <2>3, <2>5, <3>4 DEF ThreadInv, EndAnswer, ReadAnswer, WriteAnswer,
                                    PairAnswer, Answered
  <2>6. CASE j \notin 0 .. Extent(c) - 1
    <3>1. Extent(c) = 0
      BY <2>1, <2>6
    <3>2. \A y \in Indices : ~ (WordIdx(y) < Extent(c))
      BY <3>1, SplitIndex DEF Indices
    <3> QED BY <1>1, <2>3, <2>4, <2>6, <3>2, LoopOver
  <2> QED BY <2>5, <2>6
<1> QED BY <1>4, <1>5

LEMMA EndInv ==
  ASSUME IInv, NEW t \in Threads, End(t)
  PROVE  ThreadInv(t)'
<1>1. pc'[t] = "idle" /\ acc'[t] = {} /\ ok'[t]
  BY DEF IInv, End, Goto, TypeOK
<1> QED BY <1>1 DEF ThreadInv, Running, EndAnswer, ReadAnswer, WriteAnswer, PairAnswer,
                    Answered

\* A step changes the locals of the thread that takes it only.
LEMMA OthersKeep ==
  ASSUME TypeOK, NEW t \in Threads, Step(t), NEW u \in Threads, u # t
  PROVE  /\ pc'[u] = pc[u] /\ call'[u] = call[u] /\ i'[u] = i[u]
         /\ w'[u] = w[u] /\ acc'[u] = acc[u] /\ ok'[u] = ok[u]
  BY DEF Step, Begin, End, Access, Insert, Remove, Toggle, Contains, PopLoad, PopTake,
         Gather, Find, IsEmpty, Drain, Clear, UnionFrom, RetainLoad, RetainBit, PairLoad,
         PairTest, AppendSwap, AppendOr, AppendClear, Compare, Fail, NextWord, LoopTo,
         Goto, Return, Answer, Hold, locals, TypeOK

LEMMA StepInv ==
  ASSUME IInv, [Next]_vars
  PROVE  IInv'
<1>1. TypeOK /\ TypeOK'
  BY StepType DEF IInv
<1>2. CASE UNCHANGED vars
  <2> SUFFICES ASSUME NEW t \in Threads, ThreadInv(t) PROVE ThreadInv(t)'
    BY <1>1 DEF IInv
  <2>1. EndAnswer(t)' /\ ReadAnswer(t)' /\ WriteAnswer(t)' /\ PairAnswer(t)'
    BY <1>2 DEF vars, ThreadInv, EndAnswer, ReadAnswer, WriteAnswer, PairAnswer, Answered,
                Stayed, Seen, StayedOther, SeenOther
  <2>2. HeldInv(t) => HeldInv(t)'
    BY <1>2 DEF vars, HeldInv, Stayed, Seen, StayedOther
  <2>3. \A y \in Indices : (Passed(t, y)' <=> Passed(t, y)) /\ (Settled(t, y)' <=> Settled(t, y))
    BY <1>2 DEF vars, Passed, Settled, Stayed, Seen, StayedOther, SeenOther
  <2>4. RunningInv(t) => RunningInv(t)'
    BY <1>2, <2>2, <2>3 DEF vars, RunningInv, Seen
  <2> QED BY <1>2, <2>1, <2>4 DEF vars, ThreadInv, Running
<1>3. ASSUME NEW t \in Threads, Step(t), Record
      PROVE  IInv'
  <2>1. ThreadInv(t)'
    BY <1>1, <1>3, BeginInv, EndInv, PointInv, PopLoadInv, PopTakeInv, ReadInv, WriteInv,
       RetainInv, PairInv, AppendInv DEF Step, Access
  <2>2. \A u \in Threads : u # t => ThreadInv(u)'
    BY <1>1, <1>3, OthersKeep, OtherInv DEF IInv
  <2> QED BY <1>1, <2>1, <2>2 DEF IInv
<1> QED BY <1>2, <1>3 DEF Next

LEMMA InitInv == Init => IInv
<1> SUFFICES ASSUME Init PROVE IInv
  OBVIOUS
<1>1. TypeOK
  <2>1. /\ call \in [Threads -> Calls \cup {NoCall}] /\ i \in [Threads -> Int]
        /\ pc \in [Threads -> PcLabels] /\ w \in [Threads -> SUBSET Bits]
        /\ acc \in [Threads -> SUBSET Nat] /\ ok \in [Threads -> BOOLEAN]
    BY DEF Init, PcLabels
  <2>2. /\ stable \in [Threads -> [Slices -> SUBSET Nat]]
        /\ ever \in [Threads -> [Slices -> SUBSET Nat]]
    BY DEF Init
  <2>3. \A t \in Threads : Control(t)
    BY DEF Init, Control, Running
  <2> QED BY <2>1, <2>2, <2>3 DEF Init, TypeOK
<1>2. \A t \in Threads : ThreadInv(t)
  BY DEF Init, ThreadInv, Running, EndAnswer, ReadAnswer, WriteAnswer, PairAnswer, Answered
<1> QED BY <1>1, <1>2 DEF IInv

\* The inductive invariant holds of every behaviour.
THEOREM Invariant == Spec => []IInv
  BY InitInv, StepInv, PTL DEF Spec

\* Whatever the threads do, every completed call is regular: what it answered and
\* wrote agrees with what the slices held all along and at some time during it.
\* The pops first, with None only if nothing has been there all along.
THEOREM EndsRegular == Spec => []EndRegular
<1>1. IInv => EndRegular
  BY DEF IInv, ThreadInv, EndRegular
<1> QED BY <1>1, Invariant, PTL

\* len, is_empty, iter, first, last and drain.
THEOREM ReadsRegular == Spec => []ReadRegular
<1>1. IInv => ReadRegular
  BY DEF IInv, ThreadInv, ReadRegular
<1> QED BY <1>1, Invariant, PTL

\* clear, drain, retain and union_from.
THEOREM WritesRegular == Spec => []WriteRegular
<1>1. IInv => WriteRegular
  BY DEF IInv, ThreadInv, WriteRegular
<1> QED BY <1>1, Invariant, PTL

\* is_subset, is_disjoint and append, on slices of any two lengths.
THEOREM PairsRegular == Spec => []PairRegular
<1>1. IInv => PairRegular
  BY DEF IInv, ThreadInv, PairRegular
<1> QED BY <1>1, Invariant, PTL

-----------------------------------------------------------------------------
\* What the methods that only read answer when nothing they read changes while
\* they run: what the same method of a plain set would.
Undisturbed(t) == Seen(t) = Stayed(t) /\ SeenOther(t) = StayedOther(t)
StillAnswer(t) ==
  pc[t] = "return" /\ Undisturbed(t) =>
    /\ call[t].op \in {"len", "iter"} => acc[t] = Stayed(t)
    /\ call[t].op \in {"first", "last"} /\ Stayed(t) \subseteq Convertible =>
         IF Stayed(t) = {} THEN acc[t] = {}
         ELSE \E x \in Stayed(t) :
                /\ acc[t] = {x}
                /\ \A y \in Stayed(t) : IF Backward(call[t]) THEN y <= x ELSE x <= y
    /\ call[t].op = "is_empty" => (ok[t] <=> Stayed(t) = {})
    /\ call[t].op = "is_subset" => (ok[t] <=> Stayed(t) \subseteq StayedOther(t))
    /\ call[t].op = "is_disjoint" => (ok[t] <=> Stayed(t) \cap StayedOther(t) = {})

LEMMA RegularIsExact ==
  ASSUME IInv, NEW t \in Threads
  PROVE  StillAnswer(t)
<1> SUFFICES ASSUME pc[t] = "return", Undisturbed(t) PROVE StillAnswer(t)
  BY DEF StillAnswer
<1>1. EndAnswer(t) /\ ReadAnswer(t) /\ PairAnswer(t) /\ ok[t] \in BOOLEAN /\ acc[t] \in SUBSET Nat
  BY DEF IInv, ThreadInv, TypeOK
<1>2. call[t].op \in {"len", "iter"} => acc[t] = Stayed(t)
  BY <1>1 DEF ReadAnswer, Answered, Undisturbed
<1>3. ASSUME call[t].op \in {"first", "last"}, Stayed(t) \subseteq Convertible,
             Stayed(t) # {}
      PROVE  \E x \in Stayed(t) :
               /\ acc[t] = {x}
               /\ \A y \in Stayed(t) : IF Backward(call[t]) THEN y <= x ELSE x <= y
  <2>1. /\ acc[t] \subseteq Stayed(t) /\ acc[t] # {}
        /\ \A x \in acc[t], y \in Stayed(t) : IF Backward(call[t]) THEN y <= x ELSE x <= y
    BY <1>1, <1>3 DEF EndAnswer, Answered, Undisturbed
  <2>2. PICK x \in acc[t] : x \in Stayed(t)
    BY <2>1
  <2>3. \A y \in acc[t] : y = x
    BY <1>1, <2>1
  <2>4. acc[t] = {x}
    BY <2>3
  <2> QED BY <2>1, <2>2, <2>4
<1>4. call[t].op \in {"first", "last"} /\ Stayed(t) = {} => acc[t] = {}
  BY <1>1 DEF EndAnswer, Answered, Undisturbed
<1>5. call[t].op = "is_empty" => (ok[t] <=> Stayed(t) = {})
  BY <1>1 DEF ReadAnswer, Answered, Undisturbed
<1>6. /\ call[t].op = "is_subset" => (ok[t] <=> Stayed(t) \subseteq StayedOther(t))
      /\ call[t].op = "is_disjoint" => (ok[t] <=> Stayed(t) \cap StayedOther(t) = {})
  BY <1>1 DEF PairAnswer, Answered, Undisturbed
<1> QED BY <1>2, <1>3, <1>4, <1>5, <1>6 DEF StillAnswer

\* Regularity is no excuse when there is nothing to excuse: a reader whose slices
\* stay as they are from its call to its answer answers exactly.
THEOREM ReadersExact == Spec => [](\A t \in Threads : StillAnswer(t))
<1>1. IInv => \A t \in Threads : StillAnswer(t)
  BY RegularIsExact
<1> QED BY <1>1, Invariant, PTL

-----------------------------------------------------------------------------
\* What a store of the receiver's word changes of its members.
LEMMA StoreMembers ==
  ASSUME TypeOK, NEW t \in Threads, Running(t), pc[t] # "append_clear", UNCHANGED call,
         NEW bits \in SUBSET Bits, StoreSelf(t, bits)
  PROVE  /\ Gone(t) = IdxsOf(i[t], Self(t) \ bits)
         /\ Come(t) = IdxsOf(i[t], bits \ Self(t))
<1>1. /\ call[t].self \in Slices /\ i[t] \in Nat
      /\ i[t] \in WordsOf(call[t].self) /\ Self(t) \in SUBSET Bits
  BY AtWord
<1>2. /\ words' \in Contents /\ words \in Contents
      /\ words'[call[t].self][i[t]] = bits
      /\ \A k \in WordsOf(call[t].self) : k # i[t] =>
           words'[call[t].self][k] = words[call[t].self][k]
  BY <1>1, StoreWord DEF StoreSelf, TypeOK
<1>3. ASSUME NEW y, y \in Gone(t) PROVE y \in IdxsOf(i[t], Self(t) \ bits)
  <2>1. /\ y \in Nat /\ WordIdx(y) < Len[call[t].self]
        /\ BitIdx(y) \in words[call[t].self][WordIdx(y)]
        /\ BitIdx(y) \notin words'[call[t].self][WordIdx(y)]
    BY <1>1, <1>3, MemberWord DEF Gone
  <2>2. WordIdx(y) \in WordsOf(call[t].self)
    BY <1>1, <2>1, SplitIndex, LenAssumption DEF WordsOf
  <2>3. WordIdx(y) = i[t]
    BY <1>2, <2>1, <2>2
  <2> QED BY <1>2, <2>1, <2>3, SplitIndex DEF IdxsOf, Self
<1>4. ASSUME NEW y, y \in IdxsOf(i[t], Self(t) \ bits) PROVE y \in Gone(t)
  <2>1. PICK b \in Self(t) \ bits : y = IdxOf(i[t], b)
    BY <1>4 DEF IdxsOf
  <2>2. y \in Nat /\ WordIdx(y) = i[t] /\ BitIdx(y) = b
    BY <1>1, <2>1, JoinIndex
  <2>3. y \in Members(call[t].self, words)
    BY <1>1, <1>2, <2>1, WordMember DEF Self
  <2>4. y \notin Members(call[t].self, words')
    BY <1>1, <1>2, <2>1, <2>2, MemberWord
  <2> QED BY <2>3, <2>4 DEF Gone
<1>5. ASSUME NEW y, y \in Come(t) PROVE y \in IdxsOf(i[t], bits \ Self(t))
  <2>1. /\ y \in Nat /\ WordIdx(y) < Len[call[t].self]
        /\ BitIdx(y) \notin words[call[t].self][WordIdx(y)]
        /\ BitIdx(y) \in words'[call[t].self][WordIdx(y)]
    BY <1>1, <1>5, MemberWord DEF Come
  <2>2. WordIdx(y) \in WordsOf(call[t].self)
    BY <1>1, <2>1, SplitIndex, LenAssumption DEF WordsOf
  <2>3. WordIdx(y) = i[t]
    BY <1>2, <2>1, <2>2
  <2> QED BY <1>2, <2>1, <2>3, SplitIndex DEF IdxsOf, Self
<1>6. ASSUME NEW y, y \in IdxsOf(i[t], bits \ Self(t)) PROVE y \in Come(t)
  <2>1. PICK b \in bits \ Self(t) : y = IdxOf(i[t], b)
    BY <1>6 DEF IdxsOf
  <2>2. y \in Nat /\ WordIdx(y) = i[t] /\ BitIdx(y) = b
    BY <1>1, <2>1, JoinIndex
  <2>3. y \in Members(call[t].self, words')
    BY <1>1, <1>2, <2>1, WordMember
  <2>4. y \notin Members(call[t].self, words)
    BY <1>1, <2>1, <2>2, MemberWord DEF Self
  <2> QED BY <2>3, <2>4 DEF Come
<1> QED BY <1>3, <1>4, <1>5, <1>6

\* insert and remove claim the bit they changed.
LEMMA PointClaims ==
  ASSUME TypeOK, NEW t \in Threads, Insert(t) \/ Remove(t), acc[t] = {}
  PROVE  ClaimsMatch(t)
<1>1. /\ Running(t) /\ pc[t] \in {"insert", "remove"} /\ UNCHANGED call
  BY DEF Insert, Remove, Running
<1>2. /\ Self(t) \in SUBSET Bits /\ call[t].op \in PcOps(pc[t]) /\ call[t].id \in Nat
      /\ pc[t] # "append_clear"
  BY <1>1, AtWord
<1> DEFINE b == BitIdx(call[t].id)
<1>3. b \in Bits /\ call[t].id = IdxOf(i[t], b)
  <2>1. call[t].op \in IndexOps
    BY <1>1, <1>2 DEF PcOps, IndexOps
  <2>2. i[t] = WordIdx(call[t].id)
    BY <1>1, <2>1 DEF TypeOK, Control
  <2> QED BY <1>2, <2>2, SplitIndex
<1>4. CASE Insert(t)
  <2>1. /\ Gone(t) = IdxsOf(i[t], Self(t) \ (Self(t) \cup {b}))
        /\ Come(t) = IdxsOf(i[t], (Self(t) \cup {b}) \ Self(t))
    BY <1>1, <1>2, <1>3, <1>4, StoreMembers DEF Insert
  <2>2. acc'[t] = IF b \notin Self(t) /\ call[t].op = "insert" THEN {call[t].id} ELSE {}
    BY <1>4 DEF Insert, Answer, TypeOK
  <2>3. call[t].op \in {"insert", "set_true"}
    BY <1>2, <1>4 DEF Insert, PcOps
  <2> QED BY <1>3, <2>1, <2>2, <2>3 DEF ClaimsMatch, Told, IdxsOf
<1>5. CASE Remove(t)
  <2>1. /\ Gone(t) = IdxsOf(i[t], Self(t) \ (Self(t) \ {b}))
        /\ Come(t) = IdxsOf(i[t], (Self(t) \ {b}) \ Self(t))
    BY <1>1, <1>2, <1>3, <1>5, StoreMembers DEF Remove
  <2>2. acc'[t] = IF b \in Self(t) /\ call[t].op = "remove" THEN {call[t].id} ELSE {}
    BY <1>5 DEF Remove, Answer, TypeOK
  <2>3. call[t].op \in {"remove", "set_false"}
    BY <1>2, <1>5 DEF Remove, PcOps
  <2> QED BY <1>3, <2>1, <2>2, <2>3 DEF ClaimsMatch, Told, IdxsOf
<1> QED BY <1>4, <1>5

\* pop_first and pop_last claim the bit their fetch_and cleared, or try again.
LEMMA PopClaims ==
  ASSUME IInv, NEW t \in Threads, PopLoad(t) \/ PopTake(t)
  PROVE  ClaimsMatch(t)
<1>1. /\ TypeOK /\ Running(t) /\ RunningInv(t) /\ pc[t] \in {"pop_load", "pop_take"}
      /\ UNCHANGED call
  BY DEF IInv, ThreadInv, PopLoad, PopTake, Running
<1>2. /\ Self(t) \in SUBSET Bits /\ call[t].op \in {"pop_first", "pop_last"}
      /\ pc[t] # "append_clear" /\ w[t] \in SUBSET Bits
  BY <1>1, AtWord DEF PcOps, TypeOK
<1>3. acc[t] = {}
  BY <1>1, <1>2 DEF RunningInv
<1>4. CASE PopLoad(t)
  <2>1. UNCHANGED <<words, call, acc>>
    BY <1>4 DEF PopLoad
  <2>2. UNCHANGED Members(call[t].self, words)
    BY <2>1 DEF Members, Capacity
  <2>3. Gone(t) = {} /\ Come(t) = {} /\ Told(t) = {}
    BY <2>1, <2>2 DEF Told, Gone, Come
  <2> QED BY <1>2, <2>3 DEF ClaimsMatch
<1>5. CASE PopTake(t)
  <2>1. /\ Gone(t) = IdxsOf(i[t], Self(t) \ (Self(t) \ w[t]))
        /\ Come(t) = IdxsOf(i[t], (Self(t) \ w[t]) \ Self(t))
    BY <1>1, <1>2, <1>5, StoreMembers DEF PopTake
  <2>2. \A x, y \in w[t] : x = y
    BY <1>1, <1>5 DEF RunningInv, HeldInv, PopTake
  <2>3. acc'[t] = IF Self(t) \cap w[t] # {} THEN IdxsOf(i[t], w[t]) \cap Convertible ELSE {}
    BY <1>1, <1>3, <1>5 DEF PopTake, Answer, TypeOK
  <2>4. Gone(t) = IF Self(t) \cap w[t] # {} THEN IdxsOf(i[t], w[t]) ELSE {}
    BY <2>1, <2>2 DEF IdxsOf
  <2>5. Come(t) = {}
    BY <2>1 DEF IdxsOf
  <2>6. Told(t) = Gone(t) \cap Convertible
    BY <1>3, <2>3, <2>4 DEF Told
  <2> QED BY <1>2, <2>5, <2>6 DEF ClaimsMatch
<1> QED BY <1>4, <1>5

\* drain claims every bit it swaps out: none of them is in what it has already,
\* which is of earlier words.
LEMMA DrainClaims ==
  ASSUME IInv, NEW t \in Threads, Drain(t)
  PROVE  ClaimsMatch(t)
<1>1. /\ TypeOK /\ Running(t) /\ RunningInv(t) /\ pc[t] = "drain" /\ UNCHANGED call
  BY DEF IInv, ThreadInv, Drain, Running
<1>2. /\ Self(t) \in SUBSET Bits /\ call[t].op = "drain" /\ i[t] \in Nat
      /\ pc[t] # "append_clear"
  BY <1>1, AtWord DEF PcOps
<1>3. Gone(t) = IdxsOf(i[t], Self(t)) /\ Come(t) = {}
  <2>1. /\ Gone(t) = IdxsOf(i[t], Self(t) \ {})
        /\ Come(t) = IdxsOf(i[t], {} \ Self(t))
    BY <1>1, <1>2, StoreMembers DEF Drain
  <2> QED BY <2>1 DEF IdxsOf
<1>4. acc'[t] = acc[t] \cup IdxsOf(i[t], Self(t))
  BY <1>1 DEF Drain, Answer, TypeOK
<1>5. \A x \in IdxsOf(i[t], Self(t)) : x \notin acc[t]
  <2>1. \A x \in acc[t] : x \in Nat /\ WordIdx(x) \in Nat /\ WordIdx(x) < i[t]
    BY <1>1, <1>2, SplitIndex DEF RunningInv, TypeOK
  <2>2. \A x \in IdxsOf(i[t], Self(t)) : WordIdx(x) = i[t]
    BY <1>2, JoinIndex DEF IdxsOf
  <2> QED BY <1>2, <2>1, <2>2
<1>6. Told(t) = Gone(t)
  BY <1>3, <1>4, <1>5 DEF Told
<1> QED BY <1>2, <1>3, <1>6 DEF ClaimsMatch

\* Every access of these methods tells its caller exactly what it took or put.
LEMMA AccessClaims ==
  ASSUME IInv, NEW t \in Threads, Access(t)
  PROVE  ClaimsMatch(t)
<1>1. TypeOK /\ Running(t) /\ RunningInv(t) /\ call[t].op \in PcOps(pc[t])
  BY AccessPc, AtWord DEF IInv, ThreadInv
<1>2. CASE Insert(t) \/ Remove(t)
  <2>1. acc[t] = {}
    BY <1>1, <1>2 DEF RunningInv, Insert, Remove, PcOps
  <2> QED BY <1>1, <1>2, <2>1, PointClaims
<1>3. CASE PopLoad(t) \/ PopTake(t)
  BY <1>3, PopClaims
<1>4. CASE Drain(t)
  BY <1>4, DrainClaims
<1>5. CASE ~ (Insert(t) \/ Remove(t) \/ PopLoad(t) \/ PopTake(t) \/ Drain(t))
  <2>1. pc[t] \notin {"insert", "remove", "pop_load", "pop_take", "drain"}
    BY <1>5 DEF Access, Toggle, Contains, Gather, Find, IsEmpty, Clear, UnionFrom,
                RetainLoad, RetainBit, PairLoad, PairTest, AppendSwap, AppendOr, AppendClear
  <2>2. call[t].op \notin {"insert", "remove", "pop_first", "pop_last", "drain"}
    BY <1>1, <2>1 DEF PcOps, PcLabels, TypeOK
  <2> QED BY <2>2 DEF ClaimsMatch
<1> QED BY <1>2, <1>3, <1>4, <1>5

\* No index is claimed twice and none is lost: what remove, the pops and drain
\* tell their callers is what left the set, what insert tells is what came.
THEOREM Claims == Spec => ClaimsExact
<1>1. IInv /\ [Next]_vars => [\A t \in Threads : Access(t) => ClaimsMatch(t)]_vars
  BY AccessClaims
<1> QED BY <1>1, Invariant, PTL DEF Spec, ClaimsExact

-----------------------------------------------------------------------------
\* clear only takes indices out.
LEMMA ClearConfined ==
  ASSUME TypeOK, NEW t \in Threads, Clear(t)
  PROVE  Confined(t)
<1>1. Running(t) /\ pc[t] = "clear" /\ UNCHANGED call
  BY DEF Clear, Running
<1>2. call[t].op = "clear" /\ pc[t] # "append_clear"
  BY <1>1, AtWord DEF PcOps
<1>3. Come(t) = IdxsOf(i[t], {} \ Self(t))
  BY <1>1, <1>2, StoreMembers DEF Clear
<1> QED BY <1>2, <1>3 DEF Confined, IdxsOf

\* union_from only puts indices of its argument in.
LEMMA UnionConfined ==
  ASSUME TypeOK, NEW t \in Threads, UnionFrom(t)
  PROVE  Confined(t)
<1> DEFINE added == {b \in Bits : IdxOf(i[t], b) \in call[t].arg}
<1>1. Running(t) /\ pc[t] = "union_from" /\ UNCHANGED call
  BY DEF UnionFrom, Running
<1>2. /\ call[t].op = "union_from" /\ pc[t] # "append_clear"
      /\ Self(t) \in SUBSET Bits
  BY <1>1, AtWord DEF PcOps
<1>3. /\ Gone(t) = IdxsOf(i[t], Self(t) \ (Self(t) \cup added))
      /\ Come(t) = IdxsOf(i[t], (Self(t) \cup added) \ Self(t))
  BY <1>1, <1>2, StoreMembers DEF UnionFrom
<1>4. Gone(t) = {}
  BY <1>3 DEF IdxsOf
<1>5. Come(t) \subseteq call[t].arg
  BY <1>3 DEF IdxsOf
<1> QED BY <1>2, <1>4, <1>5 DEF Confined

\* retain only takes out an index its closure rejects, one per access.
LEMMA RetainConfined ==
  ASSUME TypeOK, NEW t \in Threads, RetainBit(t)
  PROVE  Confined(t)
<1>1. Running(t) /\ pc[t] = "retain_bit" /\ UNCHANGED call
  BY DEF RetainBit, Running
<1>2. /\ call[t].op = "retain" /\ pc[t] # "append_clear"
      /\ Self(t) \in SUBSET Bits
  BY <1>1, AtWord DEF PcOps
<1>3. PICK b \in w[t] : \/ UNCHANGED words
                        \/ IdxOf(i[t], b) \notin call[t].arg /\ StoreSelf(t, Self(t) \ {b})
  BY DEF RetainBit
<1>4. CASE UNCHANGED words
  BY <1>1, <1>2, <1>4 DEF Confined, Gone, Come, Members, Capacity
<1>5. CASE IdxOf(i[t], b) \notin call[t].arg /\ StoreSelf(t, Self(t) \ {b})
  <2>1. /\ Gone(t) = IdxsOf(i[t], Self(t) \ (Self(t) \ {b}))
        /\ Come(t) = IdxsOf(i[t], (Self(t) \ {b}) \ Self(t))
    BY <1>1, <1>2, <1>5, StoreMembers
  <2>2. Gone(t) \subseteq {IdxOf(i[t], b)} /\ Come(t) = {}
    BY <2>1 DEF IdxsOf
  <2> QED BY <1>2, <1>5, <2>2 DEF Confined
<1> QED BY <1>3, <1>4, <1>5

LEMMA AccessConfined ==
  ASSUME TypeOK, NEW t \in Threads, Access(t)
  PROVE  Confined(t)
<1>1. Running(t) /\ call[t].op \in PcOps(pc[t])
  BY AccessPc, AtWord
<1>2. CASE Clear(t) \/ UnionFrom(t) \/ RetainBit(t)
  BY <1>2, ClearConfined, UnionConfined, RetainConfined
<1>3. CASE RetainLoad(t)
  BY <1>1, <1>3 DEF RetainLoad, PcOps, Confined, Gone, Come, Members, Capacity
<1>4. CASE ~ (Clear(t) \/ UnionFrom(t) \/ RetainBit(t) \/ RetainLoad(t))
  <2>1. pc[t] \notin {"clear", "union_from", "retain_load", "retain_bit"}
    BY <1>4 DEF Access, Insert, Remove, Toggle, Contains, PopLoad, PopTake, Gather, Find,
                IsEmpty, Drain, PairLoad, PairTest, AppendSwap, AppendOr, AppendClear
  <2>2. call[t].op \notin {"clear", "union_from", "retain"}
    BY <1>1, <2>1 DEF PcOps, PcLabels, TypeOK
  <2> QED BY <2>2 DEF Confined
<1> QED BY <1>2, <1>3, <1>4

\* However old the words are that they act on, retain takes nothing that its
\* closure keeps, union_from puts in nothing but its argument, and clear and
\* retain put nothing in.
THEOREM Confinement == Spec => WritesConfined
<1>1. TypeOK /\ [Next]_vars => [\A t \in Threads : Access(t) => Confined(t)]_vars
  BY AccessConfined
<1> QED BY <1>1, TypeCorrect, PTL DEF Spec, WritesConfined

-----------------------------------------------------------------------------
\* What a store of one word changes of the members of any slice.
LEMMA StoreMember ==
  ASSUME TypeOK, NEW s \in Slices, NEW j \in WordsOf(s), NEW bits \in SUBSET Bits,
         Store(s, j, bits), NEW r \in Slices, NEW y \in Nat
  PROVE  y \in Members(r, words') <=>
           IF r = s /\ WordIdx(y) = j THEN BitIdx(y) \in bits ELSE y \in Members(r, words)
<1>1. /\ words'[s][j] = bits
      /\ \A k \in WordsOf(r) : <<r, k>> # <<s, j>> => words'[r][k] = words[r][k]
  BY StoreWord DEF TypeOK
<1>2. /\ Len[r] \in Nat /\ Len[s] \in Nat /\ j < Len[s]
      /\ WordIdx(y) < Len[r] => WordIdx(y) \in WordsOf(r)
  BY LenAssumption, SplitIndex DEF WordsOf
<1>3. CASE r = s /\ WordIdx(y) = j
  <2>1. words'[r][WordIdx(y)] = bits /\ WordIdx(y) < Len[r]
    BY <1>1, <1>2, <1>3
  <2> QED BY <1>3, <2>1, MemberWord
<1>4. CASE ~ (r = s /\ WordIdx(y) = j)
  <2>1. WordIdx(y) < Len[r] => words'[r][WordIdx(y)] = words[r][WordIdx(y)]
    BY <1>1, <1>2, <1>4
  <2>2. /\ y \in Members(r, words') <=>
             WordIdx(y) < Len[r] /\ BitIdx(y) \in words'[r][WordIdx(y)]
        /\ y \in Members(r, words) <=>
             WordIdx(y) < Len[r] /\ BitIdx(y) \in words[r][WordIdx(y)]
    BY MemberWord
  <2> QED BY <1>4, <2>1, <2>2
<1> QED BY <1>3, <1>4

\* The indices of some bits of one word.
LEMMA IdxsMember ==
  ASSUME NEW j \in Nat, NEW bits \in SUBSET Bits, NEW y \in Nat
  PROVE  y \in IdxsOf(j, bits) <=> WordIdx(y) = j /\ BitIdx(y) \in bits
  BY SplitIndex, JoinIndex DEF IdxsOf

\* The swap takes a word of the other slice into append's local.
LEMMA SwapConserves ==
  ASSUME TypeOK, NEW t \in Threads, AppendSwap(t)
  PROVE  Carried(t)' = Carried(t)
<1>1. /\ Running(t) /\ pc[t] = "append_swap" /\ pc'[t] = "append_or"
      /\ UNCHANGED <<call, i>> /\ w'[t] = Other(t)
      /\ Store(call[t].other, i[t], {})
  BY DEF AppendSwap, Running, Goto, Hold, TypeOK
<1>2. /\ call[t].self \in Slices /\ call[t].other \in Slices
      /\ i[t] \in Nat /\ i[t] \in WordsOf(call[t].other) /\ Other(t) \in SUBSET Bits
  BY <1>1, AtWord
<1>3. ASSUME NEW y \in Nat PROVE y \in Carried(t)' <=> y \in Carried(t)
  <2>1. /\ y \in Members(call[t].other, words') <=>
             WordIdx(y) # i[t] /\ y \in Members(call[t].other, words)
        /\ y \in Members(call[t].self, words') <=>
             ~ (call[t].self = call[t].other /\ WordIdx(y) = i[t])
               /\ y \in Members(call[t].self, words)
    BY <1>1, <1>2, StoreMember
  <2>2. y \in InFlight(t)' <=> WordIdx(y) = i[t] /\ BitIdx(y) \in Other(t)
    BY <1>1, <1>2, IdxsMember DEF InFlight
  <2>3. WordIdx(y) = i[t] =>
          (y \in Members(call[t].other, words) <=> BitIdx(y) \in Other(t))
    <3>1. i[t] < Len[call[t].other]
      BY <1>2, LenAssumption DEF WordsOf
    <3> QED BY <1>2, <3>1, MemberWord DEF Other
  <2>4. InFlight(t) = {}
    BY <1>1 DEF InFlight
  <2>5. y \in Carried(t)' <=> \/ y \in Members(call[t].self, words')
                             \/ y \in Members(call[t].other, words')
                             \/ y \in InFlight(t)'
    BY <1>1 DEF Carried
  <2>6. y \in Carried(t) <=> \/ y \in Members(call[t].self, words)
                            \/ y \in Members(call[t].other, words)
    BY <2>4 DEF Carried
  <2> QED BY <2>1, <2>2, <2>3, <2>5, <2>6
<1>4. Carried(t)' \subseteq Nat /\ Carried(t) \subseteq Nat
  <2>1. IdxsOf(i[t], Other(t)) \subseteq Nat
    BY <1>2, IdxsNat
  <2>2. InFlight(t)' \subseteq Nat /\ InFlight(t) = {}
    BY <1>1, <2>1 DEF InFlight
  <2> QED BY <1>1, <1>2, <2>2, MembersNat DEF Carried
<1> QED BY <1>3, <1>4

\* The fetch_or puts the word it holds into the receiver.
LEMMA OrConserves ==
  ASSUME TypeOK, NEW t \in Threads, AppendOr(t)
  PROVE  Carried(t)' = Carried(t)
<1>1. /\ Running(t) /\ pc[t] = "append_or" /\ UNCHANGED call
      /\ Store(call[t].self, i[t], Self(t) \cup w[t])
  BY DEF AppendOr, Running, StoreSelf
<1>2. /\ call[t].self \in Slices /\ call[t].other \in Slices /\ i[t] \in Nat
      /\ i[t] \in WordsOf(call[t].self) /\ Self(t) \in SUBSET Bits
      /\ w[t] \in SUBSET Bits /\ call[t].op = "append"
  BY <1>1, AtWord DEF TypeOK, PcOps
<1>3. pc'[t] # "append_or"
  BY <1>2 DEF AppendOr, NextWord, LoopTo, Goto, Label, TypeOK
<1>4. ASSUME NEW y \in Nat PROVE y \in Carried(t)' <=> y \in Carried(t)
  <2>1. \A r \in {call[t].self, call[t].other} :
          y \in Members(r, words') <=>
            IF r = call[t].self /\ WordIdx(y) = i[t] THEN BitIdx(y) \in Self(t) \cup w[t]
                                                    ELSE y \in Members(r, words)
    BY <1>1, <1>2, StoreMember
  <2>2. y \in InFlight(t) <=> WordIdx(y) = i[t] /\ BitIdx(y) \in w[t]
    BY <1>1, <1>2, IdxsMember DEF InFlight
  <2>3. WordIdx(y) = i[t] =>
          (y \in Members(call[t].self, words) <=> BitIdx(y) \in Self(t))
    <3>1. i[t] < Len[call[t].self]
      BY <1>2, LenAssumption DEF WordsOf
    <3> QED BY <1>2, <3>1, MemberWord DEF Self
  <2>4. y \in Carried(t)' <=> \/ y \in Members(call[t].self, words')
                             \/ y \in Members(call[t].other, words')
    BY <1>1, <1>3 DEF Carried, InFlight
  <2>5. y \in Carried(t) <=> \/ y \in Members(call[t].self, words)
                            \/ y \in Members(call[t].other, words)
                            \/ y \in InFlight(t)
    BY DEF Carried
  <2> QED BY <2>1, <2>2, <2>3, <2>4, <2>5
<1>5. Carried(t)' \subseteq Nat /\ Carried(t) \subseteq Nat
  <2>1. IdxsOf(i[t], w[t]) \subseteq Nat
    BY <1>2, IdxsNat
  <2>2. InFlight(t)' = {} /\ InFlight(t) \subseteq Nat
    BY <1>1, <1>3, <2>1 DEF InFlight
  <2> QED BY <1>1, <1>2, <2>2, MembersNat DEF Carried
<1> QED BY <1>4, <1>5

\* append loses no bit of the words both slices have, on slices of any lengths
\* and whatever the other threads do: between its two accesses the bit is in
\* the local, also when a slice is appended to itself.
THEOREM Conservation == Spec => AppendConserves
<1>1. ASSUME TypeOK, NEW t \in Threads, pc[t] \in {"append_swap", "append_or"}, Access(t)
      PROVE  Carried(t)' = Carried(t)
  <2>1. AppendSwap(t) \/ AppendOr(t)
    BY <1>1 DEF Access, Insert, Remove, Toggle, Contains, PopLoad, PopTake, Gather, Find,
                IsEmpty, Drain, Clear, UnionFrom, RetainLoad, RetainBit, PairLoad, PairTest,
                AppendClear
  <2> QED BY <1>1, <2>1, SwapConserves, OrConserves
<1>2. TypeOK /\ [Next]_vars =>
        [\A t \in Threads :
           pc[t] \in {"append_swap", "append_or"} /\ Access(t) => Carried(t)' = Carried(t)]_vars
  BY <1>1
<1> QED BY <1>2, TypeCorrect, PTL DEF Spec, AppendConserves

-----------------------------------------------------------------------------
\* A loop that goes on has a word less ahead.
LEMMA NextNearer ==
  ASSUME TypeOK, NEW t \in Threads, Running(t), call[t].op \notin IndexOps, NextWord(t),
         UNCHANGED call
  PROVE  Nearer(t)
<1> DEFINE j == IF Backward(call[t]) THEN i[t] - 1 ELSE i[t] + 1
<1>1. call[t] \in Calls /\ i[t] \in 0 .. Extent(call[t]) - 1 /\ i[t] \in Nat
  BY AtWord DEF TypeOK, Control
<1>2. Extent(call[t]) \in Nat
  BY <1>1, LenAssumption, CallsAssumption DEF Extent, CallType
<1>3. j \in Int /\ LoopTo(t, call[t], j)
  BY <1>1 DEF NextWord
<1>4. CASE j \in 0 .. Extent(call[t]) - 1
  <2>1. i'[t] = j
    <3> HIDE DEF j
    <3> QED BY <1>1, <1>3, LoopToControl
  <2>2. Left(t) = (IF Backward(call[t]) THEN i[t] + 1 ELSE Extent(call[t]) - i[t])
        /\ Left(t)' = (IF Backward(call[t]) THEN j + 1 ELSE Extent(call[t]) - j)
    BY <2>1 DEF Left
  <2>3. Left(t)' \in 0 .. Left(t) - 1
    BY <1>1, <1>2, <1>4, <2>2
  <2> QED BY <2>3 DEF Nearer
<1>5. CASE ~ (j \in 0 .. Extent(call[t]) - 1)
  <2>1. pc'[t] = "return"
    <3> HIDE DEF j
    <3> QED BY <1>1, <1>3, <1>5, LoopToControl
  <2> QED BY <2>1 DEF Nearer
<1> QED BY <1>4, <1>5

LEMMA AccessNearer ==
  ASSUME IInv, NEW t \in Threads, Access(t)
  PROVE  Nearer(t)
<1>1. /\ TypeOK /\ Running(t) /\ RunningInv(t) /\ UNCHANGED call
      /\ call[t].op \in PcOps(pc[t]) /\ pc \in [Threads -> PcLabels] /\ w[t] \in SUBSET Bits
  BY AccessPc, AtWord DEF IInv, ThreadInv, TypeOK
<1>2. call[t].op \in IndexOps => Return(t)
  BY <1>1 DEF Access, Insert, Remove, Toggle, Contains, PopLoad, PopTake, Gather,
         Find, IsEmpty, Drain, Clear, UnionFrom, RetainLoad, RetainBit, PairLoad, PairTest,
         AppendSwap, AppendOr, AppendClear, PcOps, IndexOps
<1>3. ASSUME Return(t) PROVE Nearer(t)
  BY <1>1, <1>3 DEF Return, Goto, Nearer
<1>4. ASSUME NextWord(t) PROVE Nearer(t)
  BY <1>1, <1>2, <1>3, <1>4, NextNearer
<1>5. ASSUME NEW l \in SecondAccess, Goto(t, l), UNCHANGED i, pc[t] \notin SecondAccess
      PROVE  Nearer(t)
  BY <1>1, <1>5 DEF Goto, Nearer
<1>10. ASSUME Goto(t, "panic") PROVE Nearer(t)
  BY <1>1, <1>10 DEF Goto, Nearer
<1>6. CASE PopTake(t)
  <2>1. HeldInv(t) /\ pc[t] = "pop_take"
    BY <1>1, <1>6 DEF RunningInv, PopTake
  <2>2. CASE Self(t) \cap w[t] = {} /\ w[t] # {}
    BY <2>1, <2>2 DEF HeldInv, Nearer, Lost
  <2>3. w[t] # {}
    BY <2>1 DEF HeldInv
  <2> QED BY <1>3, <1>6, <2>2, <2>3 DEF PopTake
<1>7. CASE RetainBit(t)
  <2>1. pc[t] = "retain_bit"
    BY <1>7 DEF RetainBit
  <2>2. PICK b \in w[t] :
          /\ Hold(t, w[t] \ {b})
          /\ \/ Goto(t, "panic")
             \/ IF w[t] = {b} THEN NextWord(t) ELSE UNCHANGED <<pc, i>>
    BY <1>7 DEF RetainBit
  <2>3. w'[t] = w[t] \ {b}
    BY <1>1, <2>2 DEF Hold, TypeOK
  <2>4. w'[t] \in (SUBSET w[t]) \ {w[t]}
    BY <2>2, <2>3
  <2> QED BY <1>4, <1>10, <2>1, <2>2, <2>4 DEF Nearer
<1>8. CASE RetainLoad(t) \/ PopLoad(t) \/ PairLoad(t) \/ AppendSwap(t)
  BY <1>3, <1>4, <1>5, <1>8 DEF RetainLoad, PopLoad, PairLoad, AppendSwap, SecondAccess,
     Compare, Fail
<1>9. CASE ~ (PopTake(t) \/ RetainBit(t) \/ RetainLoad(t) \/ PopLoad(t) \/ PairLoad(t)
              \/ AppendSwap(t))
  BY <1>3, <1>4, <1>9, <1>10 DEF Access, Insert, Remove, Toggle, Contains, Gather, Find, IsEmpty,
     Drain, Clear, UnionFrom, PairTest, AppendOr, AppendClear, Compare, Fail
<1> QED BY <1>6, <1>7, <1>8, <1>9

\* Every call but a pop is done after so many accesses of its own; a pop too,
\* unless others take the bits it sees.
THEOREM Progress == Spec => NotHeldUp
<1>1. IInv /\ [Next]_vars => [\A t \in Threads : Access(t) => Nearer(t)]_vars
  BY AccessNearer
<1> QED BY <1>1, Invariant, PTL DEF Spec, NotHeldUp

-----------------------------------------------------------------------------
\* The methods on one index are atomic on all the slices together.

\* A method on one index that panicked was out of range, and has answered nothing.
Panicked(t) ==
  pc[t] = "panic" /\ call[t].op \in IndexOps =>
    /\ call[t] \in Calls
    /\ call[t].id >= Capacity(call[t].self) /\ acc[t] = {}
PanicInv == \A t \in Threads : Panicked(t)

\* Where a call begins: out of range, or at its first access, or, if it has no
\* word to visit, at its return.
LEMMA BeginPc ==
  ASSUME TypeOK, NEW t \in Threads, NEW c \in Calls, Begin(t, c)
  PROVE  /\ pc[t] = "idle" /\ call'[t] = c /\ UNCHANGED <<words, acc>>
         /\ pc'[t] # "idle"
         /\ pc'[t] = "panic" => c.op \in IndexOps /\ c.id >= Capacity(c.self)
         /\ pc'[t] = "return" => c.op \notin IndexOps
<1>1. /\ pc[t] = "idle" /\ call'[t] = c /\ UNCHANGED <<words, acc>>
  BY DEF Begin, TypeOK
<1>2. CASE c.op \in IndexOps /\ c.id >= Capacity(c.self)
  BY <1>1, <1>2 DEF Begin, Goto, TypeOK
<1>3. CASE c.op \in IndexOps /\ ~ (c.id >= Capacity(c.self))
  <2>1. Label(c, WordIdx(c.id)) \in {"insert", "remove", "toggle", "contains"}
    BY <1>3 DEF Label, IndexOps
  <2>2. pc'[t] = Label(c, WordIdx(c.id))
    BY <1>3 DEF Begin, Goto, TypeOK
  <2> QED BY <1>1, <2>1, <2>2
<1>4. CASE c.op \notin IndexOps
  <2> DEFINE j == IF Backward(c) THEN Extent(c) - 1 ELSE 0
  <2>1. LoopTo(t, c, j)
    BY <1>4 DEF Begin
  <2>2. Extent(c) \in Nat
    BY LenAssumption, CallsAssumption DEF Extent, CallType
  <2>3. j \in Int
    BY <2>2
  <2> HIDE DEF j
  <2>4. pc'[t] \notin {"idle", "panic"}
    BY <1>4, <2>1, <2>3, LoopToControl
  <2> QED BY <1>1, <1>4, <2>4
<1> QED BY <1>2, <1>3, <1>4

LEMMA PanicKept ==
  ASSUME IInv, PanicInv, [Next]_vars
  PROVE  PanicInv'
<1>1. CASE UNCHANGED vars
  BY <1>1 DEF vars, PanicInv, Panicked
<1>2. ASSUME NEW t \in Threads, Step(t), Record
      PROVE  PanicInv'
  <2>1. \A u \in Threads : u # t => Panicked(u)'
    BY <1>2, OthersKeep DEF IInv, PanicInv, Panicked
  <2>2. TypeOK /\ (pc[t] = "idle" => acc[t] = {})
    BY <1>2 DEF IInv, ThreadInv
  <2>3. CASE \E c \in Calls : Begin(t, c)
    BY <2>1, <2>2, <2>3, BeginPc DEF PanicInv, Panicked
  <2>4. CASE Access(t)
    BY <2>1, <2>2, <2>4, AccessPc DEF PanicInv, Panicked
  <2>5. CASE End(t)
    BY <2>1, <2>2, <2>5 DEF End, Goto, TypeOK, PanicInv, Panicked
  <2> QED BY <1>2, <2>3, <2>4, <2>5 DEF Step
<1> QED BY <1>1, <1>2 DEF Next

\* The places of the abstract set are the members of the slices.
LEMMA TakenPlaces ==
  /\ Taken \subseteq Places
  /\ \A p \in Taken : \E s \in Slices : \E y \in Members(s, words) : p = <<s, y>>
  /\ \A s \in Slices, y \in Nat : <<s, y>> \in Taken <=> y \in Members(s, words)
<1>1. \A s \in Slices : Members(s, words) \subseteq 0 .. Capacity(s) - 1
  BY DEF Members
<1>2. \A s \in Slices : \A ids, p : p \in PlacesOf(s, ids) <=> \E y \in ids : p = <<s, y>>
  BY DEF PlacesOf
<1>3. \A p : p \in Taken <=> \E s \in Slices : \E y \in Members(s, words) : p = <<s, y>>
  BY <1>2 DEF Taken
<1>4. \A p : p \in Places <=> \E s \in Slices : \E y \in 0 .. Capacity(s) - 1 : p = <<s, y>>
  <2> DEFINE R(s) == 0 .. Capacity(s) - 1
  <2>1. Places = UNION {PlacesOf(s, R(s)) : s \in Slices}
    BY DEF Places
  <2> HIDE DEF R
  <2>2. \A p : p \in Places <=> \E s \in Slices : \E y \in R(s) : p = <<s, y>>
    BY <1>2, <2>1
  <2> QED BY <2>2 DEF R
<1> QED BY <1>1, <1>3, <1>4

LEMMA PlacesEmpty ==
  ASSUME NEW s
  PROVE  PlacesOf(s, {}) = {} /\ \A y : PlacesOf(s, {y}) = {<<s, y>>}
  BY DEF PlacesOf

\* How a step of one thread maps.
Phases == [t \in Threads |-> Phase(t)]
Requests == [t \in Threads |-> Request(t)]
Results == [t \in Threads |-> Result(t)]

LEMMA OneMoves ==
  ASSUME TypeOK, NEW t \in Threads, Step(t)
  PROVE  /\ Phases' = [Phases EXCEPT ![t] = Phase(t)']
         /\ Requests' = [Requests EXCEPT ![t] = Request(t)']
         /\ Results' = [Results EXCEPT ![t] = Result(t)']
<1>1. \A u \in Threads : u # t => pc'[u] = pc[u] /\ call'[u] = call[u] /\ acc'[u] = acc[u]
  BY OthersKeep
<1>2. \A u \in Threads : u # t =>
        Phase(u)' = Phase(u) /\ Request(u)' = Request(u) /\ Result(u)' = Result(u)
  BY <1>1 DEF Phase, Request, Result, OneIndex
<1> QED BY <1>2 DEF Phases, Requests, Results

LEMMA NothingOwed ==
  Atomic!Owe
<1>1. \A t \in Threads : Request(t)'.op # "retain"
  BY DEF Request, Requested, OneIndex, NoCall, OtherCall, IndexOps
<1> QED BY <1>1 DEF Atomic!Owe

\* A method on one index that is running has a place of its own, and nothing to
\* answer yet.
LEMMA OnePlace ==
  ASSUME IInv, NEW t \in Threads, Running(t), OneIndex(t)
  PROVE  /\ call[t] \in Calls /\ call[t].self \in Slices /\ call[t].id \in Nat
         /\ i[t] = WordIdx(call[t].id) /\ i[t] \in WordsOf(call[t].self)
         /\ <<call[t].self, call[t].id>> \in Places
         /\ acc[t] = {}
<1>1. /\ call[t] \in Calls /\ call[t].self \in Slices /\ call[t].id \in Nat
      /\ i[t] = WordIdx(call[t].id)
  BY AtWord DEF IInv, TypeOK, Control, OneIndex
<1>2. pc[t] # "append_clear"
  BY AtWord DEF IInv, OneIndex, IndexOps, PcOps
<1>3. i[t] \in WordsOf(call[t].self)
  BY <1>2, AtWord DEF IInv
<1>4. acc[t] = {}
  BY DEF IInv, ThreadInv, RunningInv, OneIndex, IndexOps
<1>5. Len[call[t].self] \in Nat /\ WordIdx(call[t].id) < Len[call[t].self]
  BY <1>1, <1>3, LenAssumption DEF WordsOf
<1>6. call[t].id \in 0 .. Capacity(call[t].self) - 1
  BY <1>1, <1>5, IndexBound, BitsAssumption DEF Capacity
<1>7. <<call[t].self, call[t].id>> \in Places
  <2>1. <<call[t].self, call[t].id>> \in PlacesOf(call[t].self, 0 .. Capacity(call[t].self) - 1)
    BY <1>6 DEF PlacesOf
  <2> QED BY <1>1, <2>1 DEF Places
<1> QED BY <1>1, <1>3, <1>4, <1>7

\* What an access to its one word does to the places, and that it saw the place.
LEMMA PlaceWritten ==
  ASSUME IInv, NEW t \in Threads, Running(t), OneIndex(t), NEW bits \in SUBSET Bits,
         LET b == BitIdx(call[t].id) IN bits \ {b} = Self(t) \ {b},
         StoreSelf(t, bits)
  PROVE  LET p == <<call[t].self, call[t].id>> IN
         /\ Taken' = IF BitIdx(call[t].id) \in bits THEN Taken \cup {p} ELSE Taken \ {p}
         /\ p \in Taken <=> BitIdx(call[t].id) \in Self(t)
<1> DEFINE p == <<call[t].self, call[t].id>>
           b == BitIdx(call[t].id)
<1>1. /\ call[t].self \in Slices /\ call[t].id \in Nat
      /\ i[t] = WordIdx(call[t].id) /\ i[t] \in WordsOf(call[t].self) /\ TypeOK
  BY OnePlace DEF IInv
<1>2. /\ \A s \in Slices, y \in Nat :
           y \in Members(s, words') <=>
             IF s = call[t].self /\ WordIdx(y) = i[t] THEN BitIdx(y) \in bits
                                                     ELSE y \in Members(s, words)
  BY <1>1, StoreMember DEF StoreSelf
<1>3. /\ Len[call[t].self] \in Nat /\ i[t] < Len[call[t].self]
  BY <1>1, LenAssumption DEF WordsOf
<1>4. \A y \in Nat : WordIdx(y) = i[t] =>
        (y \in Members(call[t].self, words) <=> BitIdx(y) \in Self(t))
  BY <1>1, <1>3, MemberWord DEF Self
<1>5. \A y \in Nat : WordIdx(y) = i[t] /\ BitIdx(y) = b => y = call[t].id
  BY <1>1, SplitIndex
<1>6. \A s \in Slices, y \in Nat :
        y \in Members(s, words') <=>
          IF s = call[t].self /\ y = call[t].id THEN b \in bits ELSE y \in Members(s, words)
  <2> SUFFICES ASSUME NEW s \in Slices, NEW y \in Nat
      PROVE  y \in Members(s, words') <=>
          IF s = call[t].self /\ y = call[t].id THEN b \in bits ELSE y \in Members(s, words)
    OBVIOUS
  <2>1. CASE s = call[t].self /\ WordIdx(y) = i[t] /\ y # call[t].id
    <3>1. BitIdx(y) # b
      BY <1>5, <2>1
    <3>2. BitIdx(y) \in bits <=> BitIdx(y) \in Self(t)
      BY <3>1
    <3> QED BY <1>2, <1>4, <2>1, <3>2
  <2>2. CASE s = call[t].self /\ y = call[t].id
    BY <1>1, <1>2, <2>2
  <2>3. CASE ~ (s = call[t].self /\ WordIdx(y) = i[t])
    BY <1>1, <1>2, <2>3
  <2> QED BY <2>1, <2>2, <2>3
<1>7. p \in Taken <=> b \in Self(t)
  BY <1>1, <1>4, TakenPlaces
<1>8. /\ \A q \in Taken' : \E s \in Slices : \E y \in Nat : q = <<s, y>>
      /\ \A s \in Slices, y \in Nat : <<s, y>> \in Taken' <=> y \in Members(s, words')
  <2>1. \A q : q \in Taken' <=> \E s \in Slices : \E y \in Members(s, words') : q = <<s, y>>
    BY DEF Taken, PlacesOf
  <2>2. \A s \in Slices : Members(s, words') \subseteq Nat
    BY MembersNat
  <2> QED BY <2>1, <2>2
<1>9. /\ \A q \in Taken : \E s \in Slices : \E y \in Nat : q = <<s, y>>
      /\ \A s \in Slices, y \in Nat : <<s, y>> \in Taken <=> y \in Members(s, words)
  BY TakenPlaces, MembersNat
<1>10. \A s \in Slices, y \in Nat : <<s, y>> = p <=> s = call[t].self /\ y = call[t].id
  OBVIOUS
<1>11. Taken' = IF b \in bits THEN Taken \cup {p} ELSE Taken \ {p}
  <2> HIDE DEF b, p
  <2>1. p = <<call[t].self, call[t].id>>
    BY DEF p
  <2>2. \A q : q \in Taken' <=> q \in IF b \in bits THEN Taken \cup {p} ELSE Taken \ {p}
    <3> SUFFICES ASSUME NEW q, ~ (\E s \in Slices : \E y \in Nat : q = <<s, y>>)
                               \/ \E s \in Slices : \E y \in Nat : q = <<s, y>>
                 PROVE q \in Taken' <=> q \in IF b \in bits THEN Taken \cup {p} ELSE Taken \ {p}
      OBVIOUS
    <3>1. CASE ~ (\E s \in Slices : \E y \in Nat : q = <<s, y>>)
      BY <1>1, <1>8, <1>9, <2>1, <3>1
    <3>2. CASE \E s \in Slices : \E y \in Nat : q = <<s, y>>
      <4>1. PICK s \in Slices, y \in Nat : q = <<s, y>>
        BY <3>2
      <4>2. q \in Taken' <=> y \in Members(s, words')
        BY <1>8, <4>1
      <4>3. q \in Taken <=> y \in Members(s, words)
        BY <1>9, <4>1
      <4>4. q = p <=> s = call[t].self /\ y = call[t].id
        BY <1>10, <4>1
      <4> QED BY <1>6, <4>2, <4>3, <4>4
    <3> QED BY <3>1, <3>2
  <2> QED BY <2>2
<1> QED BY <1>7, <1>11

\* What an access of a method on one index does, in terms of its place.
Point(t) == <<call[t].self, call[t].id>>

LEMMA PointMoves ==
  ASSUME IInv, NEW t \in Threads, Insert(t) \/ Remove(t) \/ Toggle(t) \/ Contains(t)
  PROVE  /\ Running(t) /\ OneIndex(t) /\ UNCHANGED call /\ pc'[t] = "return"
         /\ Taken' = Atomic!After(Requested(call[t]), Taken)
         /\ PlacesOf(call[t].self, acc'[t]) = Atomic!Answer(Requested(call[t]), Taken)
<1> DEFINE b == BitIdx(call[t].id)
           c == Requested(call[t])
<1>1. /\ TypeOK /\ Running(t) /\ UNCHANGED call /\ pc'[t] = "return"
      /\ call[t].op \in PcOps(pc[t]) /\ Self(t) \in SUBSET Bits
      /\ pc[t] \in {"insert", "remove", "toggle", "contains"}
  <2>1. Running(t) /\ TypeOK /\ pc[t] \in {"insert", "remove", "toggle", "contains"}
    BY DEF IInv, Insert, Remove, Toggle, Contains, Running
  <2>2. UNCHANGED call /\ pc'[t] = "return"
    BY <2>1 DEF Insert, Remove, Toggle, Contains, Return, Goto, TypeOK, locals
  <2> QED BY <2>1, <2>2, AtWord
<1>2. OneIndex(t)
  BY <1>1 DEF OneIndex, PcOps, IndexOps
<1>3. b \in Bits /\ acc[t] = {}
  BY <1>1, <1>2, OnePlace, SplitIndex
<1>4. c.op = call[t].op /\ c.id = Point(t)
  BY DEF Requested, Point
<1>5. \A bits \in SUBSET Bits :
        bits \ {b} = Self(t) \ {b} /\ StoreSelf(t, bits) =>
          Taken' = IF b \in bits THEN Taken \cup {Point(t)} ELSE Taken \ {Point(t)}
  BY <1>1, <1>2, PlaceWritten DEF Point
<1>6. Point(t) \in Taken <=> b \in Self(t)
  <2>1. /\ call[t].self \in Slices /\ call[t].id \in Nat
        /\ i[t] = WordIdx(call[t].id) /\ i[t] \in WordsOf(call[t].self)
    BY <1>1, <1>2, OnePlace
  <2>2. Len[call[t].self] \in Nat /\ i[t] < Len[call[t].self]
    BY <2>1, LenAssumption DEF WordsOf
  <2>3. call[t].id \in Members(call[t].self, words) <=> b \in Self(t)
    BY <2>1, <2>2, MemberWord DEF Self
  <2> QED BY <2>1, <2>3, TakenPlaces DEF Point
<1>7. \A x : acc' = [acc EXCEPT ![t] = x] => acc'[t] = x
  BY <1>1 DEF TypeOK
<1>8. /\ PlacesOf(call[t].self, {}) = {}
      /\ PlacesOf(call[t].self, {call[t].id}) = {Point(t)}
  BY PlacesEmpty DEF Point
<1>9. CASE Insert(t)
  <2>1. /\ StoreSelf(t, Self(t) \cup {b})
        /\ acc'[t] = IF b \notin Self(t) /\ call[t].op = "insert" THEN {call[t].id} ELSE {}
    BY <1>7, <1>9 DEF Insert, Answer
  <2>2. call[t].op \in {"insert", "set_true"}
    BY <1>1, <1>9 DEF Insert, PcOps
  <2> HIDE DEF b, c
  <2>3. Taken' = Taken \cup {Point(t)}
    BY <1>1, <1>3, <1>5, <2>1
  <2>4. /\ Atomic!After(c, Taken) = Taken \cup {Point(t)}
        /\ Atomic!Answer(c, Taken) = IF call[t].op = "insert" THEN {Point(t)} \ Taken ELSE {}
    BY <1>4, <2>2 DEF Atomic!After, Atomic!Answer, Atomic!Pops
  <2>5. PlacesOf(call[t].self, acc'[t]) = Atomic!Answer(c, Taken)
    BY <1>6, <1>8, <2>1, <2>4
  <2> QED BY <1>1, <1>2, <2>3, <2>4, <2>5 DEF c
<1>10. CASE Remove(t)
  <2>1. /\ StoreSelf(t, Self(t) \ {b})
        /\ acc'[t] = IF b \in Self(t) /\ call[t].op = "remove" THEN {call[t].id} ELSE {}
    BY <1>7, <1>10 DEF Remove, Answer
  <2>2. call[t].op \in {"remove", "set_false"}
    BY <1>1, <1>10 DEF Remove, PcOps
  <2> HIDE DEF b, c
  <2>3. Taken' = Taken \ {Point(t)}
    BY <1>1, <1>3, <1>5, <2>1
  <2>4. /\ Atomic!After(c, Taken) = Taken \ {Point(t)}
        /\ Atomic!Answer(c, Taken) = IF call[t].op = "remove" THEN {Point(t)} \cap Taken ELSE {}
    BY <1>4, <2>2 DEF Atomic!After, Atomic!Answer, Atomic!Pops
  <2>5. PlacesOf(call[t].self, acc'[t]) = Atomic!Answer(c, Taken)
    BY <1>6, <1>8, <2>1, <2>4
  <2> QED BY <1>1, <1>2, <2>3, <2>4, <2>5 DEF c
<1>11. CASE Toggle(t)
  <2>1. /\ StoreSelf(t, IF b \in Self(t) THEN Self(t) \ {b} ELSE Self(t) \cup {b})
        /\ acc' = acc
    BY <1>11 DEF Toggle, locals
  <2>2. call[t].op = "toggle"
    BY <1>1, <1>11 DEF Toggle, PcOps
  <2> HIDE DEF b, c
  <2>3. Taken' = IF b \in Self(t) THEN Taken \ {Point(t)} ELSE Taken \cup {Point(t)}
    <3>1. CASE b \in Self(t)
      BY <1>1, <1>3, <1>5, <2>1, <3>1
    <3>2. CASE b \notin Self(t)
      BY <1>1, <1>3, <1>5, <2>1, <3>2
    <3> QED BY <3>1, <3>2
  <2>4. /\ Atomic!After(c, Taken) = (Taken \cup {Point(t)}) \ (Taken \cap {Point(t)})
        /\ Atomic!Answer(c, Taken) = {}
    BY <1>4, <2>2 DEF Atomic!After, Atomic!Answer, Atomic!Pops
  <2>5. Taken' = Atomic!After(c, Taken)
    BY <1>6, <2>3, <2>4
  <2>6. PlacesOf(call[t].self, acc'[t]) = {}
    BY <1>3, <1>8, <2>1
  <2> QED BY <1>1, <1>2, <2>4, <2>5, <2>6 DEF c
<1>12. CASE Contains(t)
  <2>1. /\ UNCHANGED words
        /\ acc'[t] = IF b \in Self(t) THEN {call[t].id} ELSE {}
    BY <1>7, <1>12 DEF Contains, Answer
  <2>2. call[t].op = "contains"
    BY <1>1, <1>12 DEF Contains, PcOps
  <2>3. Taken' = Taken
    BY <2>1 DEF Taken
  <2> HIDE DEF b, c
  <2>4. /\ Atomic!After(c, Taken) = Taken
        /\ Atomic!Answer(c, Taken) = {Point(t)} \cap Taken
    BY <1>4, <2>2 DEF Atomic!After, Atomic!Answer, Atomic!Pops
  <2>5. PlacesOf(call[t].self, acc'[t]) = Atomic!Answer(c, Taken)
    BY <1>6, <1>8, <2>1, <2>4
  <2> QED BY <1>1, <1>2, <2>3, <2>4, <2>5 DEF c
<1> QED BY <1>9, <1>10, <1>11, <1>12

\* The methods on one index take effect at their access.
LEMMA PointAtomic ==
  ASSUME IInv, NEW t \in Threads, Insert(t) \/ Remove(t) \/ Toggle(t) \/ Contains(t)
  PROVE  Atomic!Atomically(t)
<1>1. TypeOK /\ Step(t)
  BY DEF IInv, Step, Access
<1>2. /\ Running(t) /\ OneIndex(t) /\ UNCHANGED call /\ pc'[t] = "return"
      /\ Taken' = Atomic!After(Requested(call[t]), Taken)
      /\ PlacesOf(call[t].self, acc'[t]) = Atomic!Answer(Requested(call[t]), Taken)
  BY PointMoves
<1>3. /\ Phase(t) = "called" /\ Phase(t)' = "done"
      /\ Request(t) = Requested(call[t]) /\ Request(t)' = Request(t)
      /\ Result(t)' = Atomic!Answer(Requested(call[t]), Taken)
  BY <1>2 DEF Phase, Request, Result, OneIndex, Running
<1>4. /\ Phases' = [Phases EXCEPT ![t] = "done"]
      /\ Requests' = Requests
      /\ Results' = [Results EXCEPT ![t] = Atomic!Answer(Requested(call[t]), Taken)]
  BY <1>1, <1>3, OneMoves DEF Requests
<1>5. Atomic!InRange(Requested(call[t]))
  <2>1. Requested(call[t]).id \in Places
    BY <1>2, OnePlace DEF Requested
  <2> QED BY <2>1 DEF Atomic!InRange
<1> QED BY <1>2, <1>3, <1>4, <1>5
        DEF Phases, Requests, Results, Atomic!Atomically, Atomic!Finish

\* The other methods change members of the slices, and answer nothing here.
LEMMA WalkMeddles ==
  ASSUME IInv, NEW t \in Threads, Access(t),
         ~ (Insert(t) \/ Remove(t) \/ Toggle(t) \/ Contains(t))
  PROVE  Atomic!Meddle(t)
<1>1. TypeOK /\ Step(t)
  BY DEF IInv, Step
<1>2. Running(t) /\ pc'[t] # "idle" /\ UNCHANGED call
  BY <1>1, AccessPc
<1>3. ~ OneIndex(t)
  BY <1>1, <1>2, AtWord DEF Access, PopLoad, PopTake, Gather,
     Find, IsEmpty, Drain, Clear, UnionFrom, RetainLoad, RetainBit, PairLoad, PairTest,
     AppendSwap, AppendOr, AppendClear, PcOps, IndexOps, OneIndex
<1>4. /\ Phase(t) = "called" /\ Phase(t)' = "called"
      /\ Request(t) = OtherCall /\ Request(t)' = OtherCall
      /\ Result(t)' = Result(t)
  BY <1>2, <1>3 DEF Phase, Request, Result, OneIndex, Running
<1>5. Phases' = Phases /\ Requests' = Requests /\ Results' = Results
  BY <1>1, <1>4, OneMoves DEF Phases, Requests, Results
<1>6. Taken' \in SUBSET Places
  <2>1. \A s \in Slices : Members(s, words') \subseteq 0 .. Capacity(s) - 1
    BY DEF Members
  <2>2. \A s \in Slices : PlacesOf(s, Members(s, words')) \subseteq PlacesOf(s, 0 .. Capacity(s) - 1)
    BY <2>1 DEF PlacesOf
  <2> QED BY <2>2 DEF Taken, Places
<1> QED BY <1>4, <1>5, <1>6 DEF Phases, Requests, Results, Atomic!Meddle, OtherCall, Atomic!OtherCall

\* Beginning a call is the abstract call.
LEMMA BeginInvokes ==
  ASSUME IInv, NEW t \in Threads, NEW c \in Calls, Begin(t, c)
  PROVE  \E d \in AbstractCalls : Atomic!Invoke(t, d)
<1> DEFINE d == IF c.op \in IndexOps THEN Requested(c) ELSE OtherCall
<1>1. TypeOK /\ Step(t) /\ (pc[t] = "idle" => acc[t] = {})
  BY DEF IInv, ThreadInv, Step
<1>2. /\ pc[t] = "idle" /\ call'[t] = c /\ UNCHANGED <<words, acc>> /\ pc'[t] # "idle"
      /\ pc'[t] = "return" => c.op \notin IndexOps
  BY <1>1, BeginPc
<1>3. PlacesOf(call[t].self, {}) = {} /\ PlacesOf(c.self, {}) = {}
  BY PlacesEmpty
<1>4. /\ Phase(t) = "idle" /\ Phase(t)' = "called" /\ Request(t)' = d
      /\ Result(t) = {} /\ Result(t)' = {}
  BY <1>1, <1>2, <1>3 DEF Phase, Request, Result, OneIndex
<1>5. /\ Phases' = [Phases EXCEPT ![t] = "called"] /\ Requests' = [Requests EXCEPT ![t] = d]
      /\ Results' = Results
  BY <1>1, <1>4, OneMoves DEF Phases, Requests, Results
<1>6. Taken' = Taken
  BY <1>2 DEF Taken
<1>7. d \in AbstractCalls
  BY DEF AbstractCalls
<1> HIDE DEF d
<1>8. Atomic!Invoke(t, d)
  BY <1>4, <1>5, <1>6 DEF Phases, Requests, Results, Atomic!Invoke
<1> QED BY <1>7, <1>8

\* Ending a call is the abstract response, or a walk that leaves.
LEMMA EndResponds ==
  ASSUME IInv, PanicInv, NEW t \in Threads, End(t)
  PROVE  Atomic!Respond(t) \/ Atomic!Leave(t)
<1>1. TypeOK /\ Step(t) /\ Panicked(t)
  BY DEF IInv, Step, PanicInv
<1>2. /\ pc[t] \in {"return", "panic"} /\ pc'[t] = "idle"
      /\ call'[t] = NoCall /\ acc'[t] = {} /\ UNCHANGED words
  BY <1>1 DEF End, Goto, TypeOK
<1>3. Phase(t)' = "idle" /\ Request(t)' = NoCall /\ Result(t)' = {}
  BY <1>2 DEF Phase, Request, Result, OneIndex, NoCall, IndexOps
<1>4. /\ Phases' = [Phases EXCEPT ![t] = "idle"] /\ Requests' = [Requests EXCEPT ![t] = NoCall]
      /\ Results' = [Results EXCEPT ![t] = {}]
  BY <1>1, <1>3, OneMoves
<1>5. Taken' = Taken
  BY <1>2 DEF Taken
<1>6. CASE ~ OneIndex(t)
  <2>1. Phase(t) = "called" /\ Request(t) = OtherCall /\ Result(t) = {}
    BY <1>2, <1>6 DEF Phase, Request, Result
  <2>2. Results' = Results
    BY <1>4, <2>1 DEF Results
  <2> QED BY <1>4, <1>5, <2>1, <2>2 DEF Phases, Requests, Results, Atomic!Leave, OtherCall,
          Atomic!OtherCall, NoCall, Atomic!NoCall
<1>7. CASE OneIndex(t) /\ pc[t] = "return"
  <2>1. Phase(t) = "done"
    BY <1>7 DEF Phase
  <2> QED BY <1>4, <1>5, <2>1 DEF Phases, Requests, Results, Atomic!Respond, NoCall, Atomic!NoCall
<1>8. CASE OneIndex(t) /\ pc[t] = "panic"
  <2>1. Phase(t) = "called" /\ Request(t) = Requested(call[t])
    BY <1>8 DEF Phase, Request
  <2>2. Requested(call[t]).id = Point(t) /\ Requested(call[t]).op = call[t].op
    BY DEF Requested, Point
  <2>3. Point(t) \notin Places
    <3>1. \A p \in Places : \E s \in Slices : \E y \in 0 .. Capacity(s) - 1 : p = <<s, y>>
      BY DEF Places, PlacesOf
    <3>2. call[t].id \notin 0 .. Capacity(call[t].self) - 1
      <4>1. call[t].id \in Nat /\ call[t].self \in Slices
        BY <1>1, <1>8, CallsAssumption DEF Panicked, OneIndex, CallType
      <4>2. Capacity(call[t].self) \in Nat
        BY <4>1, LenAssumption, BitsAssumption DEF Capacity
      <4> QED BY <1>1, <1>8, <4>1, <4>2 DEF Panicked, OneIndex
    <3> QED BY <3>1, <3>2 DEF Point
  <2>4. ~ Atomic!InRange(Requested(call[t]))
    BY <1>8, <2>2, <2>3 DEF Atomic!InRange, Atomic!IndexOps, OneIndex, IndexOps
  <2> QED BY <1>4, <1>5, <2>1, <2>4 DEF Phases, Requests, Results, Atomic!Respond, NoCall, Atomic!NoCall
<1> QED BY <1>2, <1>6, <1>7, <1>8

LEMMA InitAtomic == Init => Atomic!Init /\ PanicInv
<1> SUFFICES ASSUME Init PROVE Atomic!Init /\ PanicInv
  OBVIOUS
<1>1. \A t \in Threads : pc[t] = "idle" /\ call[t] = NoCall /\ acc[t] = {}
  BY DEF Init
<1>2. \A t \in Threads : Phase(t) = "idle" /\ Request(t) = NoCall /\ Result(t) = {}
  <2> SUFFICES ASSUME NEW t \in Threads
               PROVE  Phase(t) = "idle" /\ Request(t) = NoCall /\ Result(t) = {}
    OBVIOUS
  <2>1. ~ OneIndex(t)
    BY <1>1 DEF OneIndex, NoCall, IndexOps
  <2> QED BY <1>1, <2>1 DEF Phase, Request, Result
<1>3. Taken \in SUBSET Places
  BY TakenPlaces
<1>4. Atomic!Init
  BY <1>2, <1>3 DEF Atomic!Init, NoCall, Atomic!NoCall
<1> QED BY <1>1, <1>4 DEF PanicInv, Panicked

LEMMA StepAtomic ==
  ASSUME IInv, PanicInv, [Next]_vars
  PROVE  [Atomic!SharedNext]_(Atomic!vars)
<1>1. CASE Next
  <2>1. PICK t \in Threads : Step(t) /\ Record
    BY <1>1 DEF Next
  <2>2. Atomic!Owe
    BY NothingOwed
  <2>3. Atomic!Step(t) \/ Atomic!Meddle(t) \/ Atomic!Leave(t)
    BY <2>1, PointAtomic, WalkMeddles, BeginInvokes, EndResponds DEF Step, Atomic!Step
  <2> QED BY <2>2, <2>3 DEF Atomic!SharedNext
<1>2. CASE UNCHANGED vars
  <2>1. Taken' = Taken
    BY <1>2 DEF vars, Taken
  <2>2. \A t \in Threads : /\ Phase(t)' = Phase(t) /\ Request(t)' = Request(t)
                           /\ Result(t)' = Result(t)
    BY <1>2 DEF vars, Phase, Request, Result, OneIndex
  <2> QED BY <2>1, <2>2 DEF Atomic!vars
<1> QED BY <1>1, <1>2

\* insert, remove, set, toggle and contains take effect, on all the slices
\* together, at one instant between call and return, and answer what was so at
\* that instant, whatever pops, drains, retains and appends run meanwhile.
THEOREM IndexMethodsAtomic == Spec => IndexAtomic
<1>1. IInv /\ PanicInv /\ [Next]_vars => PanicInv' /\ [Atomic!SharedNext]_(Atomic!vars)
  BY PanicKept, StepAtomic
<1> QED BY <1>1, InitAtomic, Invariant, PTL DEF Spec, IndexAtomic, Atomic!SharedSpec

=============================================================================
