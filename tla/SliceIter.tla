----------------------------- MODULE SliceIter -----------------------------
(***************************************************************************)
(* The iterators over one slice of words: WordSetIter (iter of BitSlice,   *)
(* into_iter of the boxed set), Drain (drain of BitSlice, which empties    *)
(* the slice as it goes and when it is dropped), src/src/slice.rs;         *)
(* AtomicSliceIter (iter of AtomicBitSlice, whose words other threads      *)
(* write between its loads), src/src/atomic_slice.rs; and PrimBitSetIter   *)
(* (iter, into_iter and drain of BitSet, which copy the only word and      *)
(* leave the set to its owner's next writes), src/src/bitset.rs.  hash of  *)
(* AtomicBitSlice walks its words in the same way, and a second time: it   *)
(* hands out, to the hasher, the words up to the last that is not zero.    *)
(* What the hasher makes of its words is left out.                         *)
(***************************************************************************)
EXTENDS Integers, FiniteSets

CONSTANTS
  BITS_PER,   \* the bits of a word
  Kinds,      \* the iterators: "words", "drain", "atomic", "hash", "prim", "prim_drain"
  Convertible,\* the indices V can hold
  MaxLen,     \* bound: the words of a slice
  MaxWrites   \* bound: the writes of other threads, or of a copied set's owner

SliceKinds == {"words", "drain", "atomic", "hash"}  \* the iterator borrows the words
SharedKinds == {"atomic", "hash"}                   \* and other threads write them
CopyKinds == {"prim", "prim_drain"}                 \* it owns a copy of the only word

ASSUME SliceIterAssumption ==
  BITS_PER \in Nat \ {0} /\ Kinds \subseteq SliceKinds \cup CopyKinds
  /\ Convertible \subseteq Nat /\ MaxLen \in Nat /\ MaxWrites \in Nat

VARIABLES
  kind,      \* the iterator
  words,     \* the words of the slice, sets of bits
  word_idx,  \* the next word to take; the live one is word_idx - 1
  current,   \* the bits of the live word not handed out yet
  out,       \* the items handed out
  state,     \* "open", "none" (next has returned None), "fold", "folded", "dropped",
             \* "panicked"; of hash "rposition", "feed", "hashed"
  effective_len,  \* of hash: the words not found to be zero, then the words to feed
  hint,      \* history: a size_hint, len, and the items out when they were asked
  writes,    \* the writes so far
  stable,    \* history: in the slice all the time since the iterator was made
  ever       \* history: in the slice at some time since then

vars == <<kind, words, word_idx, current, out, state, effective_len, hint, writes,
          stable, ever>>
Histories == <<stable, ever>>

Bits == 0 .. BITS_PER - 1
Absent == -1  \* an upper bound or a len that the iterator does not give
NoHint == [low |-> -1, high |-> -1, len |-> -1, since |-> -1]

\* The items of the words from k on, and of all words.
ItemsFrom(ws, k) ==
  {n \in 0 .. Cardinality(DOMAIN ws) * BITS_PER - 1 :
     n \div BITS_PER >= k /\ n % BITS_PER \in ws[n \div BITS_PER]}
Items(ws) == ItemsFrom(ws, 0)

\* The items of word k of a word or of what is left of it; the caller still has
\* the iterator; next or fold may go on.
ItemsAt(k, bits) == {k * BITS_PER + x : x \in bits}
Live == state \in {"open", "none"}
Going == Live \/ state = "fold"

\* The lowest bit of the live word and its item.
Lowest(x) == x \in current /\ \A y \in current : x <= y
Item(x) == (word_idx - 1) * BITS_PER + x

-----------------------------------------------------------------------------
\* next: the lowest bit of the live word; when it has none left the next word;
\* after the last one None.  fold takes the iterator and does the same to the
\* end, other threads in between.

\* A bug: the highest bit first.
YieldHighest ==
  /\ Going
  /\ \E x \in current :
       /\ \A y \in current : y <= x
       /\ out' = out \cup {Item(x)}
       /\ current' = current \ {x}
  /\ UNCHANGED <<kind, effective_len, words, word_idx, state, hint, writes, Histories>>

Yield ==
  /\ Going
  /\ \E x \in current :
       /\ Lowest(x) /\ Item(x) \in Convertible
       /\ out' = out \cup {Item(x)}
       /\ current' = current \ {x}
  /\ UNCHANGED <<kind, effective_len, words, word_idx, state, hint, writes, Histories>>

\* An item V cannot hold, which has left the live word: bit_index panics; of
\* plain words and copies a debug_assert does, and what a release build does is
\* undefined, and not modelled.
Unheld ==
  /\ Going
  /\ \E x \in current :
       /\ Lowest(x) /\ Item(x) \notin Convertible
       /\ current' = current \ {x}
  /\ state' = "panicked"
  /\ UNCHANGED <<kind, effective_len, words, word_idx, out, hint, writes, Histories>>

\* A bug: the place of the live word is forgotten, and the same word is taken again.
TakeWordStuck ==
  /\ Going /\ current = {} /\ word_idx \in DOMAIN words
  /\ current' = words[word_idx]
  /\ words' = IF kind = "drain" THEN [words EXCEPT ![word_idx] = {}] ELSE words
  /\ UNCHANGED <<kind, effective_len, word_idx, out, state, hint, writes, Histories>>

\* The live word is used up: take the next one, which Drain zeroes in place.
TakeWord ==
  /\ Going /\ current = {} /\ word_idx \in DOMAIN words
  /\ current' = words[word_idx]
  /\ word_idx' = word_idx + 1
  /\ words' = IF kind = "drain" THEN [words EXCEPT ![word_idx] = {}] ELSE words
  /\ UNCHANGED <<kind, effective_len, out, state, hint, writes, Histories>>

None ==
  /\ Going /\ current = {} /\ word_idx \notin DOMAIN words
  /\ state' = IF state = "fold" THEN "folded" ELSE "none"
  /\ UNCHANGED <<kind, effective_len, words, word_idx, current, out, hint, writes, Histories>>

Fold ==
  /\ Live /\ kind = "atomic"
  /\ state' = "fold"
  /\ UNCHANGED <<kind, effective_len, words, word_idx, current, out, hint, writes, Histories>>

\* A bug: the word after the live one is counted too late.
UnseenOnesLate == Cardinality(ItemsFrom(words, word_idx + 1))

\* remaining_len (also of count), and the words the atomic size_hint bounds,
\* between two calls of next.
UnseenOnes == Cardinality(ItemsFrom(words, word_idx))

\* The bits of the live word still to come; len, of the plain words and of a copy.
LiveOnes == Cardinality(current)
ExactLen == LiveOnes + UnseenOnes

\* The words next has not taken.
Unseen == Cardinality(DOMAIN words) - word_idx

\* size_hint and, where there is one, len.  AtomicSliceIter must not read the
\* words ahead and has no len; PrimBitSetIter has a len and leaves size_hint to
\* the default of Iterator, which knows nothing: (0, None).
SizeHint ==
  /\ Live /\ hint = NoHint
  /\ LET Hint(low, high, len) ==
           hint' = [low |-> low, high |-> high, len |-> len, since |-> Cardinality(out)]
     IN \/ kind \in {"words", "drain"} /\ Hint(ExactLen, ExactLen, ExactLen)
        \/ kind \in CopyKinds /\ Hint(0, Absent, ExactLen)
        \/ kind = "atomic" /\ Hint(LiveOnes, LiveOnes + Unseen * BITS_PER, Absent)
  /\ UNCHANGED <<kind, effective_len, words, word_idx, current, out, state, writes, Histories>>

\* A bug: nothing is cleared.
DropNothing ==
  /\ Live \/ state = "panicked"
  /\ state' = "dropped"
  /\ current' = {}
  /\ UNCHANGED <<kind, effective_len, words, word_idx, out, hint, writes, Histories>>

\* The caller drops the iterator, at any moment, or unwinding does.  Drain clears
\* the words it has not taken; the bits of the live word are gone already.
Drop ==
  /\ Live \/ state = "panicked"
  /\ state' = "dropped"
  /\ words' = IF kind = "drain"
              THEN [k \in DOMAIN words |-> IF k >= word_idx THEN {} ELSE words[k]]
              ELSE words
  /\ current' = {}
  /\ UNCHANGED <<kind, effective_len, word_idx, out, hint, writes, Histories>>

\* A bug of hash: the word that is not zero is left out.
RPositionShort ==
  /\ state = "rposition"
  /\ IF effective_len = 0
     THEN state' = "feed" /\ UNCHANGED effective_len
     ELSE /\ effective_len' = effective_len - 1
          /\ state' = IF words[effective_len - 1] = {} THEN state ELSE "feed"
  /\ UNCHANGED <<kind, words, word_idx, current, out, hint, writes, Histories>>

\* rposition of hash loads the words from the last down to one that is not zero.
RPosition ==
  /\ state = "rposition"
  /\ IF effective_len > 0 /\ words[effective_len - 1] = {}
     THEN effective_len' = effective_len - 1 /\ UNCHANGED state
     ELSE state' = "feed" /\ UNCHANGED effective_len
  /\ UNCHANGED <<kind, words, word_idx, current, out, hint, writes, Histories>>

\* Then hash loads the words up to that one again, from the first, and feeds them.
Feed ==
  /\ state = "feed"
  /\ IF word_idx < effective_len
     THEN /\ out' = out \cup ItemsAt(word_idx, words[word_idx])
          /\ word_idx' = word_idx + 1
          /\ UNCHANGED state
     ELSE state' = "hashed" /\ UNCHANGED <<out, word_idx>>
  /\ UNCHANGED <<kind, effective_len, words, current, hint, writes, Histories>>

\* Another thread flips a bit of an atomic word, or the owner of a copied set
\* one of its set.
Write ==
  /\ kind \in CopyKinds \cup SharedKinds /\ writes < MaxWrites
  /\ state \notin {"dropped", "panicked", "folded", "hashed"}
  /\ \E k \in DOMAIN words, x \in Bits :
       words' = [words EXCEPT ![k] = IF x \in @ THEN @ \ {x} ELSE @ \cup {x}]
  /\ writes' = writes + 1
  /\ IF kind \in SharedKinds
     THEN stable' = stable \cap Items(words') /\ ever' = ever \cup Items(words')
     ELSE UNCHANGED Histories
  /\ UNCHANGED <<kind, effective_len, word_idx, current, out, state, hint>>

\* An iterator over borrowed words starts before the first; hash first looks for
\* the last that it needs.
Borrowed ==
  /\ kind \in Kinds \cap SliceKinds
  /\ words \in UNION {[0 .. n - 1 -> SUBSET Bits] : n \in 0 .. MaxLen}
  /\ word_idx = 0 /\ current = {}
  /\ stable = Items(words)
  /\ IF kind = "hash" THEN state = "rposition" /\ effective_len = Cardinality(DOMAIN words)
                      ELSE state = "open" /\ effective_len = 0

\* An iterator over a copy is at the only word already; drain has replaced the
\* set's by zero.
Copied ==
  /\ kind \in Kinds \cap CopyKinds
  /\ current \in SUBSET Bits
  /\ words = [k \in {0} |-> IF kind = "prim_drain" THEN {} ELSE current]
  /\ word_idx = 1
  /\ stable = current
  /\ state = "open" /\ effective_len = 0

Init ==
  /\ Borrowed \/ Copied
  /\ ever = stable
  /\ out = {} /\ hint = NoHint /\ writes = 0

Next ==
  \/ Yield \/ Unheld \/ TakeWord \/ None \/ Fold \/ SizeHint \/ Drop
  \/ RPosition \/ Feed \/ Write
Spec == Init /\ [][Next]_vars

-----------------------------------------------------------------------------
\* word_idx stays in the slice, and a live word has a place: word_idx - 1 never
\* underflows when a bit of it is handed out.
TypeOK ==
  /\ kind \in Kinds
  /\ state \in {"open", "none", "fold", "folded", "dropped", "panicked",
               "rposition", "feed", "hashed"}
  /\ effective_len \in 0 .. Cardinality(DOMAIN words)
  /\ word_idx \in 0 .. Cardinality(DOMAIN words)
  /\ current \subseteq Bits
  /\ current # {} => word_idx > 0
  /\ out \subseteq 0 .. Cardinality(DOMAIN words) * BITS_PER - 1
  /\ writes \in 0 .. MaxWrites

\* What has been handed out is everything before the iterator's position and
\* nothing after it, in increasing order; of an atomic slice, everything that
\* was there all along and nothing that never was; of a copied set, what was in
\* it when the iterator was made, whatever its owner writes.  An iterator that
\* panicked, at an item V cannot hold, has handed out the items before it.
Walked(n) ==
  /\ n < word_idx * BITS_PER
  /\ n \div BITS_PER = word_idx - 1 => \A x \in current : n % BITS_PER < x
Position ==
  state # "dropped" =>
    /\ {n \in stable : Walked(n)} \ out \subseteq
         {n \in ever \ Convertible : state = "panicked" /\ \A m \in out : m < n}
    /\ out \subseteq {n \in ever : Walked(n)}
    /\ kind \notin SharedKinds => stable = ever

\* A Drain leaves the slice empty, dropped midway or at the end, and never
\* leaves in it what it has handed out; the drain of a primitive set empties it
\* at once, and what it holds later is what was written since.
DrainEmpties ==
  /\ kind = "drain" =>
       /\ state = "dropped" => Items(words) = {}
       /\ out \cap Items(words) = {}
  /\ kind = "prim_drain" => Cardinality(Items(words)) <= writes

\* A size_hint asked at any moment covers the items that come after it, whatever
\* other threads store meanwhile; len of an ExactSizeIterator, over words nobody
\* writes or over a copy whose set its owner writes, is the number of items that
\* come, and is what size_hint says of words.
HintHolds ==
  state \in {"none", "folded"} /\ hint # NoHint =>
    LET came == Cardinality(out) - hint.since IN
      /\ hint.low <= came
      /\ hint.high # Absent => came <= hint.high
      /\ kind # "atomic" => hint.len = came
      /\ kind \in {"words", "drain"} => hint.low = hint.len /\ hint.high = hint.len

\* What ExactSizeIterator asks of a size_hint, and the tests of it expect: the
\* iterators that have a len have it as both bounds.  Those over copies do not.
ExactSize ==
  hint # NoHint /\ kind # "atomic" => hint.low = hint.len /\ hint.high = hint.len

\* What the hasher was fed misses nothing that was in the set all along, be its
\* word found by the search or not, and has nothing that never was there, though
\* the words to feed are chosen before they are loaded.  If nobody wrote, it is
\* exactly the set, and its last word is not zero: sets of different capacities
\* with the same members hash alike.
HashCanonical ==
  state = "hashed" =>
    /\ stable \subseteq out /\ out \subseteq ever
    /\ stable = ever /\ word_idx > 0 => \E n \in out : n \div BITS_PER = word_idx - 1

=============================================================================
