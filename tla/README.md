# bitflagset in TLA+

Models, model-checking runs and machine-checked proofs of `bitflagset`, a Rust
library of bit sets: sets of small integers kept in one word, an array of words
or a boxed slice of words, plain or atomic, and sets of named flags generated by
macros. All paths are relative to the repository.
`PROJECT.json` gives, for each definition, the lines it models.

- [Inventory](#inventory)
- [Modules](#modules)
- [Runs](#runs)
- [Where the code and its documentation disagree](#where-the-code-and-its-documentation-disagree)
- [Proofs](#proofs)
- [What is only model-checked](#what-is-only-model-checked)
- [Not modelled](#not-modelled)
- [Plan](#plan)

## Inventory

| Part | Source | State | Operations |
|---|---|---|---|
| `AtomicBitSlice<A, V>`, `AtomicBitSet<[A; N], V>`, `AtomicBoxedBitSet<A, V>` | `src/atomic_slice.rs`, `src/atomic.rs`, `src/atomic_boxed.rs` | atomic words | methods of `&self`, word after word, one or several accesses each |
| `AtomicBitSet<A, V>` | `src/atomic.rs` | one atomic word | the same on one word |
| memory orderings | `src/atomic_slice.rs`, `src/atomic.rs` | none | `AcqRel` updates, `Acquire` loads of the pops, `Relaxed` loads elsewhere, `Release` stores |
| `BitSlice<T, V>`, `BoxedBitSet<T, V>` | `src/slice.rs`, `src/boxed.rs` | words, of any number | every set method as a loop over words; operators on unequal lengths |
| `BitSet<A, V>` | `src/bitset.rs` | one primitive, or `[T; N]` | construction, operators, relations, order, `extend` and `collect`, digits; the array form derefs to `BitSlice` |
| `WordOpIter` | `src/word_op.rs` | positions in two slices, a live word and its base | next, size_hint, fold, count; behind union, intersection, difference, symmetric_difference |
| `WordSetIter`, `Drain`, `AtomicSliceIter`, `PrimBitSetIter` | `src/slice.rs`, `src/atomic_slice.rs`, `src/bitset.rs` | position in one slice, a live word | next, size_hint, len, fold, drop |
| `bitflagset!`, `atomic_bitflagset!` | `src/enumset.rs` | one word, the mask of the flags | the set methods on enum variants or positions; from_bits and its variants; names |
| `bitflag!`, the `BitFlag` derive | `src/enumset.rs`, `bitflagset-derive/` | none | the table of flags, compile-time checks |
| `check_bit_index` | `src/lib.rs` | none | the panic of every method with an index |
| formatting | all of the above | none | digits of words, names of flags |

How the parts meet: the array and boxed types reach the slice methods through
`Deref`, and hide some of them with their own; the slices make iterators that
borrow their words, and the atomic ones load words that other threads write in
between; the generated types delegate to `BitSet` and `AtomicBitSet`, and turn
bits into enum variants on the way out. A program's threads meet in the atomic
sets, and use them to pass on indices that stand for data of their own.

What is hard in each part, and what makes it correct:

- **Atomic slice.** Each method is several accesses, so its answer describes no
  single state. What can be promised is *regularity*: an answer agrees with what
  the slice held all along the call and with what it held at some time during
  it. What must hold exactly is the claim: the caller that is told it removed,
  popped, drained or inserted an index is the one whose access changed the bit.
  The methods on one index can promise more: that they take effect at one
  instant of the whole set. The pops retry, so progress is a question too.
- **Atomic word.** The documentation promises methods that are atomic with
  respect to the whole set. That is a refinement of an abstract set; it holds
  for the methods with one access, and fails for `pop_*` and `retain`.
- **Memory orderings.** A set's words are all that its users share, so the
  orderings must publish the data behind an index from whoever puts it in to
  whoever takes it out, through any calls of others in between; and a load that
  returns an old value must not make a call lose or duplicate an index.
- **Iterators.** A change from the shared prefix to the tail of the longer
  slice, the base of the live word, a `size_hint` that later stores must not
  break, a `Drain` dropped midway, an item that the element type cannot hold, a
  snapshot whose set is written since.
- **Plain sets.** Loops that stop at the shorter operand, and what happens to
  the rest; equality and hash that ignore zero words at the end; the same
  relation written twice, for the slice and for the type that derefs to it.
- **Flag sets.** Bits without a flag, which some constructors let in and each
  method treats in its own way, some with a panic halfway; shifts by positions
  beyond the word; tables with
  aliases and with constants switched off, which names, `Debug` and masks must
  read alike.

The full list, with lines and the properties that cover each, is under `hazards`
in `PROJECT.json`.

## Modules

A word is the set of its 1 bits in all modules: `x & y`, `x | y`, `!x`,
`trailing_zeros` are intersection, union, complement and minimum. The width
(`BITS_PER`, `BITS`) is a constant. Conversions between an index and its word
and bit are kept, with `\div` and `%`.

**`AtomicBitSlice`** (core). `words[s][i]` are the shared words; `pc`, `call`,
`i`, `w`, `acc`, `ok` are each thread's position and locals. A step is one
atomic access with the thread-local computation up to the next one: `PopLoad` is
`a.load`, `PopTake` is the `fetch_and` and the test of the word it returned, and
so on; the loops over words are `LoopTo`. `Begin` is the call, with the panic of
`check_bit_index`; `End` returns to the caller. `stable` and `ever` are history
variables that record, for each running call, what each slice has held at every
instant since the call began and at some instant. `Convertible` are the indices
the element type can represent. A pop clears the bit before it converts, and
returns nothing when that fails; `first` and `last` return nothing either; `iter`
panics in `bit_index`, and `retain` in its `debug_assert`. Accesses are in one total order here; what
that leaves out is in `Handoff`.

**`AtomicSet`** is the abstract set of one word: a call is invoked, takes effect
at one instant, and responds (`Spec`). `LooseSpec` also lets a pop take any
member, and lets retain drop its members one by one, owing those that were there
since it began. **`AtomicBitSet`** is the code, one access per step, and
`Set == INSTANCE AtomicSet WITH set <- store, ...` the mapping. `Loose` and
`TrulyAtomic` are the two abstract specifications as properties. `len`,
`is_empty`, `first`, `last`, `iter` are one load and a pure computation: one
operation, `read`, that answers with the whole word. `SharedSpec` is what is left
of the abstraction on several words: the methods on one index take effect at one
instant, and the others change the set as they please (`Meddle`).
`AtomicBitSlice` implements it (`IndexAtomic`), with pairs of a slice and an index
for members.

**`Handoff`** composes atomic sets with the threads that use them, on weak
memory. A thread that *holds* an index owns the slot of plain data behind it; it
writes the slot (`Fill`) and inserts the index, and the thread that removes,
pops, drains or appends it elsewhere is the next holder. Each word has its
modification order, `log[s][j]`, newest first; a thread has a view: how far
behind the newest value of each word it may still read, and the slots whose
last write it has seen. `LoadRelaxed` and `LoadAcquire` may return any value the
view allows; `Update`, an `AcqRel` read-modify-write, reads the newest value and
joins its view into the one it releases; `Store` is a plain `Release` store,
which releases only the thread's own view. Each method uses what its code names
(`clear` stores; `append` swaps, then `fetch_or`s). `stayed` is the history for
`AnswersKnown`: what was in every value a reading call could see when it began
and has not left since. The tail of an `append` between sets of different
lengths is in `AtomicBitSlice`; the sets here are of one length.

**`WordOpIter`** is the set-operation iterator, with its two pairs of loads as
two steps, for plain and atomic words, item by item or folded, with its exact
and its conservative `size_hint`; `Write` is a store of another thread. `out` are
the items and `handed` how many were handed out, so that one that came twice
shows. A shape has the items its element type holds; another makes `bit_index`
panic (`Unheld`), in `next` and in `fold`.
**`SliceIter`** has the five iterators over one slice, or one copied word, as
five kinds of one machine; `Drop` can come at any moment, and after a panic
(`Unheld`, as above). `fold` of the atomic one is `next`'s steps to the end, with
stores of other threads between its items. `hash` of an atomic slice
is the sixth kind: `RPosition` loads the words from the last down to one that is
not zero, `Feed` loads them again from the first up to that one. `out` is then
what the hasher was fed.

**`BoundedSet`** is what a plain set promises: named sets of indices, each below
a capacity. **`BitSlice`** has the loops of the slice over words, **`BoxedBitSet`**
and **`BitSet`** what the owning types add: construction, operators by value,
relations and `==` of their own, order, hash, `extend` and `collect` of elements
(which go in one by one, up to a panic) and of sets, digits. **`PlainSets`** is
the program that has sets of the three types and makes any calls on them;
`&mut self` makes each method one step. `ret` is the method last called and what
it answered, in `BoundedSet` too, so that a step of the code must be a step of
the same method of the abstraction. `Implements` is the refinement.

**`FlagTable`** is a declaration, a sequence of names with values, each on or off
by `cfg`; from it come the checks the macros make at compile time, the masks,
`from_name`, `iter_names` and `Debug`. **`FlagSet`** has the sets of the two
macros in the programs that compile. `form` says which of the five generated
forms a set has (enum, position, and the atomic ones linked to either or with
positions of their own), `tables` the declarations behind each, `debug` whether
the build checks overflow and `debug_assert`. `raw` records whether the program
has put bits without a flag in a set; `built` what the last constructor was
given. Most calls are one step: what interleaving does to the atomic forms is in
`AtomicBitSet`, which they delegate to. The pops of plain enum-form sets and
`retain` are loops over a copy of the word, one step per bit, with `loop` for
their locals. A bit without a flag is no variant. The loops of plain enum-form
sets pass over it (`Skip`). In `first` and `last`, in the pops of a linked set,
which have taken it out of the word by then, and in the closure of a linked set's
`retain` it meets a `debug_assert`: a panic in a debug build, and undefined in a
release build, where the answer is any element. The caller's closure may panic
at any bit (`RetainPanic`).

The modules with theorems are `AtomicBitSlice_proofs`, `AtomicBitSet_proofs`,
`Handoff_proofs`, `WordOpIter_proofs`, `SliceIter_proofs`, `PlainSets_proofs` and
`FlagSet_proofs`. Definitions that a comment introduces as a bug are broken
variants of the one that follows them. No specification uses them; each shows
that some property notices the mistake (`mutants` in `PROJECT.json`).

## Runs

| Run | Config | Question | Distinct states |
|---|---|---|---|
| `one_slice` | `MCOneSlice.cfg` | two threads, two words, any methods of one slice: what they answer and write, claims, methods on one index at one instant, no call held up | 1,061,000 |
| `pairs` | `MCPairs.cfg` | is_subset, is_disjoint, append, on one and two words, both ways, some indices not convertible | 1,780,000 |
| `word_all` | `MCWordAll.cfg` | three threads, every method: the loose abstract set | 292,000 |
| `word_pop` | `MCWordPop.cfg` | pop with insert: not atomic | counterexample |
| `handoff` | `MCHandoff.cfg` | two threads, two sets, old values: one holder, no data race, nothing missed, lock-freedom | 293,000 |
| `op_iter` | `MCOpIter.cfg` | all operations, lengths 0 to 2, plain and atomic, next and fold, an item that is not convertible | 2,749,000 |
| `slice_iter` | `MCSliceIter.cfg` | five iterators, up to three words, and hash | 468,000 |
| `exact_size` | `MCExactSize.cfg` | `size_hint` of the iterators that have a `len` | counterexample |
| `plain` | `MCPlain.cfg` | two sets of any of three types, every method: refinement, relations, order, hash, digits | 861 |
| `boxed_xor` | `MCPlainXor.cfg` | `^=` against `^` | counterexample |
| `flags` | `MCFlags.cfg` | two sets, every pair of forms, three bits, four programs, both builds, loops bit by bit, panics | 121,500 |
| `flags_iter` | `MCFlagsIter.cfg` | collecting an out-of-range position | counterexample |

What the properties say is written above each of them in its module.

**Why the bounds are enough.** Words of two bits have a lowest and a highest bit
that differ (three, in `word_all` and `flags`, have one that is neither); two
words have a boundary, an index on each side of it, and a first one out of range
(index 4 is among the calls); in `one_slice` the index 2 is not convertible, the
lower of the two in its word, so that a pop loses it, and `iter` and `retain` meet
it, with a convertible one behind. Two threads make every race of two accesses; the
races for one bit that a third thread decides are in `word_all`. Slices of one
and two words are the two unequal cases. All starting contents of the words are
initial states, except in `handoff`, where the sets start empty and every slot
has a holder.

- `op_iter`: lengths (0,1), (1,2) and (2,1), with every operation, have an empty
  side, and a tail on either. (2,2) has two pairs in a row; with atomic words it
  is by far the largest case, and has one operation, `difference`, the one that
  is not symmetric. `MaxWrites` is two because a bit that goes and comes back
  takes two writes.
- `handoff`: two sets of one word, and calls divided between the threads so that
  both insert and pop, one appends and clears, one removes, drains, iterates.
  `MaxStale` is one: a load may miss the last write, and, since every access
  of a writer moves the values, any write in turn. The proof needs neither bound.
- `plain`: two sets of zero to two words reach every relation of lengths and
  types and every pair of contents. The batches are all sequences of up to two
  distinct sets, the element lists have a prefix before an element out of range.
- `flags`: `MaxU8`, the largest position a program may name, is one past the
  word (two in `flags_iter`). Of the four programs one is plain, one has an
  alias, a constant that is off and a smaller atomic set, one repeats a name, and
  one does not compile.

**Views and symmetry.** In `plain` and `flags` no action reads the history of
the last call (`ret`, `built`), so a `VIEW` leaves it out; `Implements`,
`UnknownKept` and `PanicsConfined` are checked on every step, the ones between states that the view
identifies included. Symmetry is used between threads and between sets with the
same part in every definition, and not in `handoff`, which checks liveness.

**Deadlock** is checked except in `slice_iter`, `exact_size` and `op_iter`, where a
finished or panicked iterator is the end.

**Fairness.** Only `LockFree` needs it. `NotHeldUp` says without any that the
accesses of a call are bounded, unless it is a pop that finds its bit taken. `FairSpec` in `Handoff` says that a
thread inside a method keeps running: weak fairness of each thread's accesses,
`Begin` and `End` excluded, since nothing obliges a program to call a method.
That is the operating system's scheduler. It does not say that a thread wins a
race, nor that a load returns a new value, and the property does not claim that
every pop returns: one thread may lose for ever, while some call returns. A
`fetch_and` never fails spuriously and brings its thread's view up to date, so no
stronger assumption is needed.

## Where the code and its documentation disagree

Each of these is a run that TLC finds violated.

- `src/atomic.rs:28-30` says of one-word sets that "all operations are truly
  atomic with respect to the entire bitset". `pop_first` and `pop_last` load, and
  clear in a second access: with an insert in between, the index they return is
  not the end of the set when it leaves (`word_pop`). The theorems
  `OneAccessAtomic` and `TakersAtomic` say where the sentence is true, and `Loose`
  what is true of all methods. `retain` clears bit by bit, and is the other
  exception.
- `src/slice.rs:464` and `README.md:251` present `symmetric_difference_from` and
  `^=` as the in-place form of `^`. When the receiver is shorter the in-place form
  drops what the operator keeps (`boxed_xor`). The same holds of `|=`.
- `PrimBitSetIter` implements `ExactSizeIterator` (`src/bitset.rs:54`), whose
  contract is an exact `size_hint`, and the test at `src/bitset.rs:1670` expects
  one of an array's iterator. It defines `len` and leaves `size_hint` to the default,
  `(0, None)` (`exact_size`). Its `len` is exact (`HintHolds`).
- `README.md:203` says that out-of-range indices now panic in release builds.
  `FromIterator<u8>` of a position-form set shifts unchecked: position 4 of a
  4-bit set becomes position 0 (`flags_iter`). With `Forms` the atomic form linked
  to a position-form set, the same property fails for `from_slice` and
  `from_element`, whose check is a `debug_assert` (`src/enumset.rs:1832`), although
  `README.md:216` says `from_slice` drops unknown bits.

Observations without a run:

- `README.md:255` says that mutations use `AcqRel`. `clear`, and `append` on the
  words that only `other` has, are `Release` stores. Whoever holds nothing of
  what they throw away loses nothing by it. `retain`'s closure, `contains` and
  `iter` answer from `Relaxed` loads, so their answers are no licence to read the
  data behind an index; taking it out is.
- `append` of the atomic slice clears the words of `other` beyond the receiver,
  `append` of `BitSlice` leaves them there.
- `is_all` means "exactly the flags" in enum-form and atomic sets and "at least
  the flags" in position-form sets: they differ on sets with bits without a flag.
- `src/bitset.rs:794-796` says that the octal form of an array is its "combined
  value". Each word is padded to whole octal digits, three for an 8-bit word, so
  the digits denote nothing of the kind: `[u8; 2]` with bit 8 alone prints `1000`,
  the octal of 512. Binary and hexadecimal digits divide a word, and read back
  (`DigitsReadBack`).
- A pop of a linked set takes a bit without a flag out of the word and then
  panics in a debug build (`src/enumset.rs:1900-1902`): the bit is lost with the
  panic. `UnknownKept` says that this, and an undefined `retain` of a release
  build, are the only ways.
- An array's own `hash` feeds all its words, the slice's stops at the last that is
  not zero: one set hashes in two ways, by the way it is reached.
- An atomic position-form set may list fewer constants than the plain set it is
  linked to; `from_plain` then brings in bits it has no flag for.
- `BitFlag::Mask` is always `u8` (`src/enumset.rs:66-69`), so `mask()` of a
  variant of value 8 or more overflows, though sets of up to 64 bits are allowed.
- Arrays are ordered lexicographically from the lowest word, primitives by
  value; both orders extend inclusion (`OrderCorrect`), they are not the same.
## Proofs

Checked by TLAPS for every set of threads and slices, every length, width and
set of calls, from the assumptions in the modules (lengths are natural numbers,
the width is positive, the calls and the declarations of flags are well-formed).

`AtomicBitSlice_proofs`:

- `TypeCorrect`: `Spec => []TypeOK`. Its part `Control` says that each access is
  at a word of the slice, which is what the `get_unchecked` calls rely on.
- `Invariant`: `Spec => []IInv`. The regularity properties speak of returned
  calls and are not inductive. `IInv` adds, for a call in progress: the history
  brackets the present contents; for each index whose word the loop has passed,
  what the method has made sure of (`Settled`: a pop that went past a word knows
  that nothing there has stayed; len has gathered what stayed; ...); and what it
  knows of the word it holds (`HeldInv`: the bit a pop has chosen was seen, and
  nothing that stayed lies before it; retain's snapshot still has every index of
  the word that stayed and is to go; ...). The proof has a lemma for the steps of
  other threads (`OtherInv`: they only shrink `stable` and extend `ever`), one
  for a loop that goes on or ends (`AdvanceInv`), and one per access. `Here*`
  lemmas turn facts on bits of the current word into facts on indices, on top of
  `SplitIndex`, `JoinIndex` and `IndexOrder`, which are the division facts.
- `EndsRegular`, `ReadsRegular`, `WritesRegular`, `PairsRegular`: the four
  regularity properties, from `Invariant`.
- `Claims`, `Confinement`, `Conservation`: `Spec => ClaimsExact`, `WritesConfined`
  and `AppendConserves`, by cases on the accesses. `StoreMembers` and
  `StoreMember` say which indices a store of one word brings and takes; the last
  two need `TypeOK` only.
- `ReadersExact`: regularity is no excuse when nobody writes. A read or relation
  whose slices stay as they are during the call answers exactly (`StillAnswer`).
- `Progress`: `Spec => NotHeldUp`. Every access brings its call nearer to its
  return, by a word, an access or a bit, but for a pop whose bit was taken. That
  the bit it has chosen has been there since is in `HeldInv`.
- `IndexMethodsAtomic`: `Spec => IndexAtomic`, a step-by-step refinement. The one
  access of a method on one index is its instant (`PointAtomic`, with
  `PlaceWritten` on what the access does to the place), the accesses of the other
  methods are `Meddle` (`WalkMeddles`), calls and returns are those of the
  abstraction (`BeginInvokes`, `EndResponds`). It needs, besides `IInv`, that a
  method on one index panics only if its index is out of range (`PanicInv`).

`AtomicBitSet_proofs`:

- `Invariant`, `TypeCorrect`: what the loops hold between two accesses (`Held`):
  a pop one bit, retain every index it still owes.
- `ImplementsLoose`: `Spec => Loose`, a step-by-step refinement proof. `DropLast`
  of the abstraction is retain's last access, where `owed \subseteq w` makes it
  complete.
- `OneAccessAtomic`: if the program calls neither the pops nor `retain`, then
  `Spec => TrulyAtomic`: each access is the instant of its method.
- `TakersAtomic`: if the program only makes calls that look or take out, then
  `Spec => TrulyAtomic`. The added invariant `EndHeld` says that the bit a pop
  has chosen, if it is still set, is still the end: nothing can have come.

`Handoff_proofs`:

- `Invariant`, `TypeCorrect`. `NoDataRace` is not inductive: a taker learns of a
  slot's last write from the value it reads. `IInv` adds `Published`, the newest
  value of a word carries a view with the writes to all the slots in it, and
  `Owed`, what a call is about to put in is still its thread's. An `Update` keeps
  `Published` because it joins the old value's view into the new one: the release
  sequence goes through calls on other bits. `Store` keeps it because it leaves
  no bit.
- `RaceFree`, `OnePlace`: `Spec => []NoDataRace` and `Spec => []InOnePlace`, for
  loads that may be as old as the views allow.
- `AnswersCorrect`: `Spec => []AnswersKnown`. `Known` says of a call in progress:
  what has stayed in the words ahead is in *every* value its thread may still read
  (`Ahead`), the words behind hold nothing that has stayed, or iter has met it
  (`Behind`), and the bit pop_first chose is no higher than any that has stayed in
  its word (`Chosen`). `SeesKept` is the argument on memory: a load or a read of
  the newest value only leaves less to read, and a write adds one value to what
  others may read, the newest, which holds whatever has stayed.

`WordOpIter_proofs`:

- `Invariant`, `TypeCorrect`. `Explained` and `HintHolds` speak of a finished
  iterator. `Inv` says of one under way: every bit of each word taken is
  explained, as an item or as a bit left in the live word, and all that is out
  lies below it (`Behind`); the word of `a` that waits for `b`'s lies between what
  has stayed and what was ever there (`Held`); and a hint given is kept to by the
  items out since, the live bits and the words to come (`Hinted`). `Takes` is what
  a pair and a tail word have in common; `RestCard` takes one word off the count
  of the bits ahead, and `UnseenCount` shows that the two sums of `remaining_len`,
  over pairs and over tail words, are that count. No induction is needed: each
  step changes the count by one word.
- `ExplainedCorrect`, `OpHintCorrect`: `Spec => []Explained` and `[]HintHolds`, for
  slices of any two lengths and any writes.
- `ExactWhenStill`: if the words stay as they are, what comes out is exactly the
  union, intersection or difference of the two slices.
- `AscendingCorrect`: `Spec => Ascending`, from `FreshItem`: a live bit is an item
  above all that is out, so none is handed out twice.

`SliceIter_proofs`:

- `Invariant`, `TypeCorrect`. `Inv` divides what it knows at the iterator's place:
  the words ahead still hold what has stayed and nothing that never was (`Ahead`),
  what has stayed in the words behind is out or live (`Behind`), a Drain's words
  behind are empty (`Emptied`), and a hint is kept (`Hinted`). A write may change a
  word on either side; `SameItems` and `ItemsSplit` say which items that moves. Of
  hash, what has stayed is not in a word that its search is past, and the last of
  the words to feed has held something since the call began (`Searched`).
- `PositionCorrect`, `DrainCorrect`, `HintCorrect`, `HashCorrect`: `Spec =>
  []Position`, `[]DrainEmpties`, `[]HintHolds` and `[]HashCanonical`.

`PlainSets_proofs`:

- `TypeCorrect`: every set keeps words of the number its type has.
- `Refines`: `Spec => Implements`. `SplitIndex`, `JoinIndex`, `MemberIff` and
  `WordMembers` relate words and members; a lemma per loop says which members its
  words have; `SameStep`, `ChangeStep` and `PutStep` turn a statement on members
  into a step of `BoundedSet`; then there is one lemma per call, and `NextStep`.
- `RelationsCorrect`, `OwnRelationsCorrect`, `HashCorrect`: subset, disjointness
  and equality of sets of any lengths are decided by their members, however they
  are reached, and so are the words the slice's hash feeds.
- `OrderCorrect`: `cmp` is a strict total order, transitivity included, that
  extends inclusion. It rests on
  `LeastNat`, a least element of a set of numbers, from which come the highest
  bit where two words differ and the first word where two arrays do.
- `CountsCorrect`: `len`, a sum over words, and `is_empty` and `is_full` agree with
  the members. `SumIs` says that any function on the sets of words that satisfies
  the equation by which a sum is computed is that sum, and `CountMembers` that the
  number of members in a set of words is such a function.
- `DigitsFaithful`: `Spec => []DigitsReadBack`. The digits of every word but the
  highest are padded to the width of the word (`PaddedWidth`), so each stands
  where the value of the whole array has it.

`FlagSet_proofs`:

- `Invariant`: the program compiles, bits without a flag are in no set but by the
  program's own doing (`raw`), and, of a loop under way, its copies and the set
  (`LoopInv`): a plain set is as it was when the loop began, what `left` still has
  of an atomic one has not been touched, and no flag is behind a pop.
  `NothingMadeUp` is `Spec => []KnownOnly`.
- `UnknownBitsKept`: `Spec => UnknownKept`, the loops of enum-form sets pass over
  bits without a flag and lose none, and a pop finds the flag at the end.
- `PanicKeeps`: `Spec => PanicsConfined`, what a panic halfway leaves of a set.
- `NamesFaithful`: `Spec => []NamesReadBack`, for any declaration.
- `TypeCorrect`: the bits of every set fit its word. That an enum's flags do
  follows from the largest of its values, which the code finds by a loop.
- `DebugFaithful`: `Spec => []DebugReadsBack`, for any declaration: the names that
  `Debug` of a position-form set with constants of its own writes give back the bits that have a flag. `Debug` is a loop over the
  table as well; what loops make of their start (`LoopDefined`) and keep is shown by
  `SetInduction`, induction on a set of numbers: the library's has an operator for
  a parameter.

## What is only model-checked

`LockFree`, which is liveness under fairness and so out of the prover's reach. Every
other property of a passing run is a theorem. The inductive invariants were
checked by TLC first; those of `AtomicBitSet` and `Handoff` still are in its runs.

## Not modelled

- `Hash` of an atomic word or array: it feeds every word in turn, and no equality
  is defined that it could be compared with.
- Views as bitvec types and `bitflags::Flags`, conversions from and to `Vec` and
  `Box`: they hand the same words over.
- `mask()` and `as_u8` of a variant, which no set method uses; the token handling
  of the derive macro, whose result is the table in `FlagTable`.
- `Debug` of sets without names, and of linked atomic sets, which write their word
  and `iter`'s items.
- What a release build does with an index its `debug_assert` would have stopped in
  `retain` of the atomic slice and in `next` of the plain iterators: it is
  undefined (`unreachable_unchecked`). Of the flag sets it is modelled, as any
  element.
- A panic of the caller's closure in `retain` of `BitSlice` and of the atomic
  slice; that of the flag sets is modelled.
- Memory beyond the release/acquire fragment: a plain store takes the last place
  in its word's modification order, though the Rust model lets it take an earlier
  one (only just before another plain store: a read-modify-write follows at once
  the value it read); a load returns a value that has been written before it.
- Benchmarks and scripts.

## Plan

Done: `AtomicBitSlice`, `AtomicBitSet`, `WordOpIter`, `SliceIter`, the plain sets
of all three types, `FlagTable` and `FlagSet`, `Handoff`, with the proofs above.

What remains: `append` between sets of different lengths in `Handoff`, whose tail
`AtomicBitSlice` has without orderings; and a plain store of `clear` that takes an
earlier place among other plain stores.
