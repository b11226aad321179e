----------------------------- MODULE WordOpIter -----------------------------
(***************************************************************************)
(* The iterator behind union, intersection, difference and                 *)
(* symmetric_difference (src/src/word_op.rs), over the words of two slices *)
(* of unequal lengths.  BitSlice gives it plain words and an exact         *)
(* size_hint; AtomicBitSlice gives it atomic words, which other threads    *)
(* write between its loads, and a bounded size_hint.                       *)
(*                                                                         *)
(* One step is one load of a word, or one item handed to the caller or to  *)
(* the closure of fold; count makes the loads of a fold.                   *)
(***************************************************************************)
EXTENDS Integers, FiniteSets

CONSTANTS
  BITS_PER,   \* the bits of a word
  Shapes,     \* the lengths, the operation, the kind of words and the items of an iterator
  MaxWrites   \* bound: the writes of other threads

Slots == {"a", "b"}
ShapeType ==
  [a: Nat, b: Nat, atomic: BOOLEAN,
   op: {"union", "intersection", "difference", "symmetric_difference"},
   v: SUBSET Nat]  \* the indices V can hold
ASSUME BitsAssumption == BITS_PER \in Nat \ {0}
ASSUME ShapesAssumption == Shapes \subseteq ShapeType
ASSUME WritesAssumption == MaxWrites \in Nat

VARIABLES
  shape,    \* the iterator's shape
  words,    \* words["a"], words["b"]: the words of the two slices, sets of bits
  prefix,   \* the pairs of words taken, what a_prefix and b_prefix are short of
  tail,     \* the tail words taken
  loaded,   \* a's word of a pair whose b word is not loaded yet, or NoWord
  current,  \* the bits of the live word not handed out yet
  base,     \* current_base, next_base
  out,      \* the items handed out
  handed,   \* history: how many items were handed out
  mode,     \* "next"; "done", next has returned None; "fold"; "folded", it has
            \* returned; "panicked"
  hint,     \* history: a size_hint and the items out when it was asked, or NoHint
  writes,   \* the writes so far
  stable,   \* history: in the slice all the time since the iterator was made
  ever      \* history: in the slice at some time since then

vars == <<shape, words, prefix, tail, loaded, current, base, out, handed, mode, hint,
          writes, stable, ever>>
iter == <<prefix, tail, loaded, current, base, mode>>
Items == <<out, handed>>
Histories == <<stable, ever>>

NoWord == {-1}
NoHint == [low |-> -1, high |-> -1, since |-> -1]
Bits == 0 .. BITS_PER - 1

Smaller(m, n) == IF m <= n THEN m ELSE n
Larger(m, n) == IF m <= n THEN n ELSE m

-----------------------------------------------------------------------------
\* The words the method asks for, the shared prefix, and the one longer side.
Length ==
  CASE shape.op = "difference" -> shape.a
    [] shape.op = "intersection" -> Smaller(shape.a, shape.b)
    [] OTHER -> Larger(shape.a, shape.b)
PrefixLen == Smaller(Smaller(shape.a, shape.b), Length)
TailSide == IF Smaller(shape.a, Length) > PrefixLen THEN "a" ELSE "b"
TailLen == Smaller(shape[TailSide], Length) - PrefixLen

\* The word operation, on words as sets of bits and on one bit.
Combine(x, y) ==
  CASE shape.op = "union" -> x \cup y
    [] shape.op = "intersection" -> x \cap y
    [] shape.op = "difference" -> x \ y
    [] OTHER -> (x \ y) \cup (y \ x)

\* A bug: the missing word of the shorter slice is taken for the left operand.
TailOpLeft(word) == Combine({}, word)

\* A tail word is combined with zero, on its own side.
TailOp(word) == IF TailSide = "a" THEN Combine(word, {}) ELSE Combine({}, word)

PairAt(k) == Combine(words["a"][k], words["b"][k])
TailAt(k) == TailOp(words[TailSide][k])

\* The bits of the words next has not loaded, and how many words those are.
UnseenOnes ==
  LET pairs == {p \in (prefix .. PrefixLen - 1) \X Bits : p[2] \in PairAt(p[1])}
      tails == {p \in (PrefixLen + tail .. PrefixLen + TailLen - 1) \X Bits :
                  p[2] \in TailAt(p[1])}
  IN Cardinality(pairs) + Cardinality(tails)

\* A bug: only the words of the shared prefix are counted.
UnseenWordsPrefix == PrefixLen - prefix

UnseenWords == (PrefixLen - prefix) + (TailLen - tail)

\* The two kinds of size_hint, by the kind of words: Exact counts the bits of the
\* unseen words, Bounded must not load them.
Exact(live) == [low |-> live + UnseenOnes, high |-> live + UnseenOnes]
Bounded(live) == [low |-> live, high |-> live + UnseenWords * BITS_PER]
LenHint(live) == IF shape.atomic THEN Bounded(live) ELSE Exact(live)

-----------------------------------------------------------------------------
\* next: an item of the live word; when it has none left, the next pair, then
\* the next tail word; then None, now and ever after.  fold takes the iterator
\* and does the same to the end.
Going == mode \in {"next", "fold"} /\ loaded = NoWord
Lowest(x) == x \in current /\ \A y \in current : x <= y
Item(x) == base.current + x
HandOut(x) == out' = out \cup {Item(x)} /\ handed' = handed + 1

\* A bug: the bit stays in the live word.
YieldKeeps ==
  /\ Going
  /\ \E x \in current : Lowest(x) /\ Item(x) \in shape.v /\ HandOut(x)
  /\ UNCHANGED <<shape, words, prefix, tail, loaded, current, base, mode, hint, writes,
                 Histories>>

Yield ==
  /\ Going
  /\ \E x \in current :
       /\ Lowest(x) /\ Item(x) \in shape.v /\ HandOut(x)
       /\ current' = current \ {x}
  /\ UNCHANGED <<shape, words, prefix, tail, loaded, base, mode, hint, writes, Histories>>

\* bit_index panics at an item V cannot hold, when its bit has left the live word.
Unheld ==
  /\ Going
  /\ \E x \in current :
       /\ Lowest(x) /\ Item(x) \notin shape.v
       /\ current' = current \ {x}
  /\ mode' = "panicked"
  /\ UNCHANGED <<shape, words, prefix, tail, loaded, base, Items, hint, writes, Histories>>

\* A bug: the base of a tail word is the base of the word before it.
SetCurrentLate(word) ==
  /\ current' = word
  /\ base' = [current |-> base.current, next |-> base.next + BITS_PER]

SetCurrent(word) ==
  /\ current' = word
  /\ base' = [current |-> base.next, next |-> base.next + BITS_PER]

TakePrefixA ==
  /\ Going /\ current = {} /\ prefix < PrefixLen
  /\ loaded' = words["a"][prefix]
  /\ UNCHANGED <<shape, words, prefix, tail, current, base, Items, mode, hint, writes, Histories>>

TakePrefixB ==
  /\ loaded # NoWord
  /\ SetCurrent(Combine(loaded, words["b"][prefix]))
  /\ prefix' = prefix + 1
  /\ loaded' = NoWord
  /\ UNCHANGED <<shape, words, tail, Items, mode, hint, writes, Histories>>

TakeTail ==
  /\ Going /\ current = {} /\ prefix = PrefixLen /\ tail < TailLen
  /\ SetCurrent(TailAt(PrefixLen + tail))
  /\ tail' = tail + 1
  /\ UNCHANGED <<shape, words, prefix, loaded, Items, mode, hint, writes, Histories>>

None ==
  /\ mode \in {"next", "done", "fold"}
  /\ current = {} /\ loaded = NoWord /\ prefix = PrefixLen /\ tail = TailLen
  /\ mode' = IF mode = "fold" THEN "folded" ELSE "done"
  /\ UNCHANGED <<shape, words, prefix, tail, loaded, current, base, Items, hint, writes,
                 Histories>>

Fold ==
  /\ mode = "next" /\ loaded = NoWord
  /\ mode' = "fold"
  /\ UNCHANGED <<shape, words, prefix, tail, loaded, current, base, Items, hint, writes,
                 Histories>>

\* size_hint, between two calls of next.
SizeHint ==
  /\ mode \in {"next", "done"} /\ loaded = NoWord /\ hint = NoHint
  /\ LET h == LenHint(Cardinality(current)) IN
     hint' = [low |-> h.low, high |-> h.high, since |-> handed]
  /\ UNCHANGED <<shape, words, iter, Items, writes, Histories>>

\* Another thread flips a bit of an atomic word, while the iterator is at work.
Write ==
  /\ shape.atomic /\ writes < MaxWrites /\ mode \in {"next", "fold"}
  /\ \E s \in Slots, x \in Bits : \E k \in DOMAIN words[s] :
       LET old == words[s][k] IN
       words' = [words EXCEPT ![s][k] = IF x \in old THEN old \ {x} ELSE old \cup {x}]
  /\ writes' = writes + 1
  /\ stable' = [s \in Slots |-> [k \in DOMAIN words[s] |-> stable[s][k] \cap words'[s][k]]]
  /\ ever' = [s \in Slots |-> [k \in DOMAIN words[s] |-> ever[s][k] \cup words'[s][k]]]
  /\ UNCHANGED <<shape, iter, Items, hint>>

Init ==
  /\ shape \in Shapes
  /\ words \in {[s \in Slots |-> IF s = "a" THEN x ELSE y] :
                  x \in [0 .. shape.a - 1 -> SUBSET Bits],
                  y \in [0 .. shape.b - 1 -> SUBSET Bits]}
  /\ prefix = 0 /\ tail = 0 /\ loaded = NoWord
  /\ current = {} /\ base = [current |-> 0, next |-> 0]
  /\ out = {} /\ handed = 0 /\ mode = "next" /\ hint = NoHint /\ writes = 0
  /\ stable = words /\ ever = words

Next ==
  \/ Yield \/ Unheld \/ TakePrefixA \/ TakePrefixB \/ TakeTail \/ None
  \/ Fold \/ SizeHint \/ Write
Spec == Init /\ [][Next]_vars

-----------------------------------------------------------------------------
\* No slice is read past its end, and the bases follow the words: the item of a
\* bit is that of the word it was loaded from.
TypeOK ==
  /\ shape \in Shapes
  /\ prefix \in 0 .. PrefixLen /\ tail \in 0 .. TailLen
  /\ tail > 0 => prefix = PrefixLen
  /\ loaded # NoWord => loaded \subseteq Bits /\ current = {} /\ prefix < PrefixLen
  /\ current \subseteq Bits
  /\ base.next = (prefix + tail) * BITS_PER
  /\ current # {} => base.current = (prefix + tail - 1) * BITS_PER
  /\ out \subseteq 0 .. Length * BITS_PER - 1
  /\ mode \in {"next", "done", "fold", "folded", "panicked"} /\ writes \in 0 .. MaxWrites

Over == mode \in {"done", "folded"}

\* Every item handed out, by next or to the closure of fold, is a new one and
\* above all that were handed out before it, across the words and whatever other
\* threads write.
Ascending ==
  [][handed' # handed =>
       \E x \in out' \ out : out' = out \cup {x} /\ \A y \in out : y < x]_vars

\* A size_hint asked at any moment covers the items that come after it: a later
\* store cannot pass its upper bound nor fall short of its lower one, and on
\* plain words both are the number of items.
HintHolds ==
  Over /\ hint # NoHint =>
    /\ hint.low <= handed - hint.since
    /\ handed - hint.since <= hint.high
    /\ ~ shape.atomic => hint.low = hint.high

\* Each item is explained by what the two slices held: y came out, or did not,
\* as the operation says of some moment of y in a and some moment of y in b
\* (a word the slice does not have never holds a bit).  On plain words, and on
\* atomic words nobody wrote, this is the operation of the two sets.
May(s, k, x, in) ==
  IF k \notin DOMAIN words[s] THEN ~ in
  ELSE IF in THEN x \in ever[s][k] ELSE x \notin stable[s][k]
InOp(inA, inB) ==
  CASE shape.op = "union" -> inA \/ inB
    [] shape.op = "intersection" -> inA /\ inB
    [] shape.op = "difference" -> inA /\ ~ inB
    [] OTHER -> inA # inB
Explained ==
  Over => \A k \in 0 .. Larger(shape.a, shape.b) - 1, x \in Bits :
            \E inA, inB \in BOOLEAN :
              /\ May("a", k, x, inA) /\ May("b", k, x, inB)
              /\ (k * BITS_PER + x \in out) <=> InOp(inA, inB)

=============================================================================
