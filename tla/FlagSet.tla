------------------------------ MODULE FlagSet ------------------------------
(***************************************************************************)
(* The sets that bitflagset! and atomic_bitflagset! generate               *)
(* (src/src/enumset.rs): one word, some of whose bits have a flag.  The    *)
(* elements of an enum-form set are its flags, those of a position-form    *)
(* set are any u8.  An atomic set is linked to a set of either form, or    *)
(* declared on a position-form set with constants of its own, some of that *)
(* set's (FlagTable).  The word may hold bits without a flag, which        *)
(* from_bits_retain, the conversions from a plain BitSet and those from a  *)
(* set with more flags let in, and which the generated methods treat in    *)
(* different ways.                                                         *)
(*                                                                         *)
(* One step is one call, but the loops of pop_first, pop_last and retain    *)
(* take a step for each bit.  What interleaving does to the calls of an    *)
(* atomic set is in AtomicBitSet, which they delegate to.                  *)
(***************************************************************************)
EXTENDS FlagTable, FiniteSets

CONSTANTS
  Programs, \* the flags it may declare, records [enum, position, atomic]
  Names,    \* the sets of the program
  Forms,    \* the forms it may use, records [enum, atomic, linked]
  MaxU8     \* bound: the largest position a caller names

\* Only an atomic set is linked; on an enum-form set it always is.
ASSUME FormsAssumption ==
  /\ Forms \subseteq [enum: BOOLEAN, atomic: BOOLEAN, linked: BOOLEAN]
  /\ \A f \in Forms : (f.linked => f.atomic) /\ (f.enum /\ f.atomic => f.linked)
ASSUME BoundAssumption == MaxU8 \in Nat

\* What a program declares: constants of type u8, with names.
Declarations == Seq([name: STRING, value: Nat, on: BOOLEAN])
ASSUME ProgramsAssumption ==
  \A p \in Programs :
    p.enum \in Declarations /\ p.position \in Declarations /\ p.atomic \in Declarations

VARIABLES
  form,   \* form[r]: how set r was generated
  tables, \* the declared flags: the enum, the position-form set, the atomic set
  debug,  \* the build checks overflow and debug_assert
  bits,   \* bits[r]: the 1 bits of set r's word
  loop,   \* the call that is going through a set's bits, if any
  ret,    \* the last step: it panicked, or the elements it answered with
  built,  \* history: the set the last call built and the elements it was given
  raw     \* history: raw[r]: the program has put bits without a flag in r

vars == <<form, tables, debug, bits, loop, ret, built, raw>>

\* The program that is compiled, with or without debug checks.
Program == <<form, tables, debug>>

\* The flags of a set: a linked set takes them from the set it is linked to.
Table(r) ==
  CASE form[r].enum -> tables.enum
    [] ~ form[r].enum /\ form[r].atomic /\ ~ form[r].linked -> tables.atomic
    [] OTHER -> tables.position
Flags(r) == AllMask(Table(r))

Compiles ==
  /\ EnumCompiles(tables.enum)
  /\ PositionCompiles(tables.position)
  /\ AtomicCompiles(tables.atomic, tables.position)

\* What a caller can name: a variant of the enum, or a u8.
Elements(r) == IF form[r].enum THEN Flags(r) ELSE 0 .. MaxU8

Answer(ids) == ret' = [panic |-> FALSE, ids |-> ids]
Panicked == ret' = [panic |-> TRUE, ids |-> {}]
Panic == Panicked /\ UNCHANGED <<bits, raw>>
NotBuilt == [by |-> "other", ids |-> {}]
Put(r, word, unknown) ==
  /\ bits' = [bits EXCEPT ![r] = word]
  /\ raw' = [raw EXCEPT ![r] = unknown]
Change(r, word) == Put(r, word, raw[r])
Const == UNCHANGED Program /\ built' = [r \in Names |-> NotBuilt]
Built(r, by, ids) ==
  /\ UNCHANGED Program
  /\ built' = [n \in Names |-> IF n = r THEN [by |-> by, ids |-> ids] ELSE NotBuilt]

-----------------------------------------------------------------------------
\* Constructors.

New(r) == Put(r, {}, FALSE) /\ Answer({}) /\ Const
All(r) == Put(r, Flags(r), FALSE) /\ Answer({}) /\ Const

\* None for a word with a bit that has no flag.
FromBits(r, word) ==
  /\ IF word \subseteq Flags(r) THEN Put(r, word, FALSE) ELSE UNCHANGED <<bits, raw>>
  /\ Answer({})
  /\ Const
FromBitsTruncate(r, word) == Put(r, word \cap Flags(r), FALSE) /\ Answer({}) /\ Const
FromBitsRetain(r, word) == Put(r, word, TRUE) /\ Answer({}) /\ Const

\* Whether elements named by the caller leave bits without a flag.
Unnamed(r, ids) == raw[r] \/ ~ (ids \cap Bits \subseteq Flags(r))

\* 1 << pos without a check overflows: a panic where overflow or the
\* debug_assert before it is checked, else pos modulo BITS.
Wrapped(ids) == {id % BITS : id \in ids}

\* A set made of elements: word is what a build without debug checks makes.
Make(r, by, ids, word) ==
  /\ IF debug /\ ~ (ids \subseteq Bits)
     THEN Panic
     ELSE Put(r, word, ~ (word \subseteq Flags(r))) /\ Answer({})
  /\ Built(r, by, ids)

\* The element is checked, but not by a linked set.
FromElement(r, id) ==
  \/ form[r].linked /\ Make(r, "from_element", {id}, Wrapped({id}))
  \/ /\ ~ form[r].linked
     /\ IF id < BITS THEN Put(r, {id}, id \notin Flags(r)) /\ Answer({}) ELSE Panic
     /\ Built(r, "from_element", {id})

\* A position out of range is left out, but not by a linked set.
FromSlice(r, ids) ==
  Make(r, "from_slice", ids, IF form[r].linked THEN Wrapped(ids) ELSE ids \cap Bits)

\* A bug: the positions are not reduced to the word.
FromIterWide(r, ids) == ~ form[r].atomic /\ Make(r, "from_iter", ids, ids)

FromIter(r, ids) == ~ form[r].atomic /\ Make(r, "from_iter", ids, Wrapped(ids))

-----------------------------------------------------------------------------
\* Methods on one element, which BitSet and AtomicBitSet check.

Checked(id) == id < BITS
CheckBitIndex(r, id) == ~ Checked(id) /\ Panic /\ Const

Insert(r, id) ==
  /\ Checked(id)
  /\ Put(r, bits[r] \cup {id}, Unnamed(r, {id}))
  /\ Answer({id} \ bits[r])
  /\ Const

Remove(r, id) ==
  Checked(id) /\ Change(r, bits[r] \ {id}) /\ Answer({id} \cap bits[r]) /\ Const

\* set is insert or remove without an answer.
Set(r, id, value) ==
  /\ Checked(id)
  /\ IF value THEN Put(r, bits[r] \cup {id}, Unnamed(r, {id})) ELSE Change(r, bits[r] \ {id})
  /\ Answer({})
  /\ Const

Toggle(r, id) ==
  /\ Checked(id)
  /\ Put(r, (bits[r] \ {id}) \cup ({id} \ bits[r]), Unnamed(r, {id}))
  /\ Answer({})
  /\ Const

Contains(r, id) ==
  Checked(id) /\ Answer({id} \cap bits[r]) /\ UNCHANGED <<bits, raw>> /\ Const

\* extend inserts what its iterator yields, in any order, until a position is
\* out of range; what was inserted before that panic stays.
Extend(r, ids) ==
  /\ ~ form[r].atomic
  /\ \E before \in SUBSET (ids \cap Bits) :
       /\ ids \subseteq Bits => before = ids
       /\ Put(r, bits[r] \cup before, Unnamed(r, before))
  /\ IF ids \subseteq Bits THEN Answer({}) ELSE Panicked
  /\ Const

Clear(r) == Put(r, {}, FALSE) /\ Answer({}) /\ Const

\* Sets of one type are collected into one, or extend it, with |=.
Alike(r, batch) == \A s \in batch : form[s] = form[r]
United(batch) == UNION {bits[s] : s \in batch}
AnyRaw(batch) == \E s \in batch : raw[s]

CollectSets(q, batch) ==
  /\ ~ form[q].atomic /\ Alike(q, batch)
  /\ Put(q, United(batch), AnyRaw(batch)) /\ Answer({}) /\ Const

\* Only a position-form set is extended with sets.
ExtendSets(r, batch) ==
  /\ ~ form[r].atomic /\ ~ form[r].enum /\ Alike(r, batch)
  /\ Put(r, bits[r] \cup United(batch), raw[r] \/ AnyRaw(batch)) /\ Answer({}) /\ Const

-----------------------------------------------------------------------------
\* One bit at an end of the word.  first, last and the iterator must not meet one
\* that is no variant of the enum; neither must the pops of an atomic set, which
\* have taken it out of the word by then.

\* try_from of an element: that of a position is the identity.
Converts(r, id) == form[r].enum => TryFromOk(Table(r), id)

\* The answer is debug_assert-ed; without that it is undefined, whatever element.
AnswerConverted(r, id) ==
  \/ Converts(r, id) /\ Answer({id})
  \/ ~ Converts(r, id) /\ debug /\ Panicked
  \/ ~ Converts(r, id) /\ ~ debug /\ \E v \in Bits : Answer({v})

IsEnd(id, word, back) == id \in word /\ \A x \in word : IF back THEN x <= id ELSE id <= x

End(r, back) ==
  /\ \/ bits[r] = {} /\ Answer({})
     \/ \E id \in bits[r] : IsEnd(id, bits[r], back) /\ AnswerConverted(r, id)
  /\ UNCHANGED <<bits, raw>>
  /\ Const

\* The pops of a position-form set, and of an atomic set.
Pop(r, back) ==
  /\ form[r].enum => form[r].atomic
  /\ \/ bits[r] = {} /\ Answer({}) /\ UNCHANGED <<bits, raw>>
     \/ \E id \in bits[r] :
          IsEnd(id, bits[r], back) /\ Change(r, bits[r] \ {id}) /\ AnswerConverted(r, id)
  /\ Const

-----------------------------------------------------------------------------
\* The loops over a copy of the word: the pops of a plain enum-form set, which
\* take the first bit that is a flag, and retain.  left is the copy, of which a
\* step takes one bit; was, a history, is the word at the start.  A plain retain
\* clears bits in a word of its own and stores that at the end, an atomic one
\* clears them in the set.

NoLoop == [op |-> "none"]
Loops == [op: {"pop", "retain"}, set: Names, back: BOOLEAN,
          left: SUBSET Bits, word: SUBSET Bits, was: SUBSET Bits]
In(r, op) == loop.op = op /\ loop.set = r
Going(r) == loop.op # "none" /\ loop.set = r

Begin(r, op, back) ==
  /\ loop = NoLoop
  /\ loop' = [op |-> op, set |-> r, back |-> back,
              left |-> bits[r], word |-> bits[r], was |-> bits[r]]
  /\ Answer({})
  /\ UNCHANGED <<bits, raw>>
  /\ Const
PopLoop(r, back) == form[r].enum /\ ~ form[r].atomic /\ Begin(r, "pop", back)
Retain(r) == Begin(r, "retain", FALSE)

AtBit(r, id) == Going(r) /\ IsEnd(id, loop.left, loop.back)
Proceed(id, word) == loop' = [loop EXCEPT !.left = @ \ {id}, !.word = word]
Return(ids) == loop' = NoLoop /\ Answer(ids) /\ Const

\* A bug: the bit is cleared before it is known to be a flag.
SkipClears(r, id) ==
  /\ AtBit(r, id) /\ ~ form[r].atomic /\ ~ Converts(r, id)
  /\ Proceed(id, loop.word) /\ Change(r, bits[r] \ {id}) /\ Answer({}) /\ Const

\* A bit that is no flag is passed over, and stays.
Skip(r, id) ==
  /\ AtBit(r, id) /\ ~ form[r].atomic /\ ~ Converts(r, id)
  /\ Proceed(id, loop.word) /\ UNCHANGED <<bits, raw>> /\ Answer({}) /\ Const

PopBit(r, id) ==
  /\ AtBit(r, id) /\ loop.op = "pop" /\ Converts(r, id)
  /\ Change(r, bits[r] \ {id}) /\ Return({id})

\* None.
PopEnd(r) == In(r, "pop") /\ loop.left = {} /\ UNCHANGED <<bits, raw>> /\ Return({})

\* retain's closure is called with the bit's element; of an atomic set without
\* debug checks also, undefined, with whatever a bit that is no flag becomes.
Shown(r, id) ==
  AtBit(r, id) /\ loop.op = "retain" /\ (Converts(r, id) \/ (form[r].atomic /\ ~ debug))

\* A bug: the refused bits of a plain set are cleared at once.
RetainInPlace(r, id, kept) ==
  LET refused == IF kept THEN {} ELSE {id} IN
  /\ Shown(r, id)
  /\ Proceed(id, loop.word \ refused) /\ Change(r, bits[r] \ refused)
  /\ Answer({}) /\ Const

RetainBit(r, id, kept) ==
  LET refused == IF kept THEN {} ELSE {id} IN
  /\ Shown(r, id)
  /\ Proceed(id, loop.word \ refused)
  /\ IF form[r].atomic THEN Change(r, bits[r] \ refused) ELSE UNCHANGED <<bits, raw>>
  /\ Answer({}) /\ Const

\* The caller's closure panics, or an atomic set's debug_assert before it.
RetainPanic(r, id) ==
  /\ AtBit(r, id) /\ loop.op = "retain" /\ (Shown(r, id) \/ (form[r].atomic /\ debug))
  /\ loop' = NoLoop /\ Panic /\ Const

RetainEnd(r) ==
  /\ In(r, "retain") /\ loop.left = {}
  /\ IF form[r].atomic THEN UNCHANGED <<bits, raw>> ELSE Change(r, loop.word)
  /\ Return({})

-----------------------------------------------------------------------------
\* Operators of two sets of one type, by value and in place; the atomic sets
\* have complement alone.

\* A bug: every bit is flipped.
NotPlain(r) == Bits \ bits[r]

Not(r) == Flags(r) \ bits[r]

Complement(q, r) ==
  form[q] = form[r] /\ Put(q, Not(r), FALSE) /\ Answer({}) /\ Const

Operator(q, r, s) ==
  /\ ~ form[r].atomic /\ form[q] = form[r] /\ form[s] = form[r]
  /\ \/ Put(q, bits[r] \cup bits[s], raw[r] \/ raw[s])
     \/ Put(q, bits[r] \cap bits[s], raw[r] /\ raw[s])
     \/ Put(q, bits[r] \ bits[s], raw[r])
     \/ Put(q, (bits[r] \ bits[s]) \cup (bits[s] \ bits[r]), raw[r] \/ raw[s])
  /\ Answer({})
  /\ Const

\* Sets of one element type turn into each other: from_plain and into_plain.
\* The word is not looked at: of a set with more flags, some may be unknown.
Convert(q, r) ==
  /\ form[q].enum = form[r].enum
  /\ Put(q, bits[r], raw[r] \/ ~ (Flags(r) \subseteq Flags(q)))
  /\ Answer({})
  /\ Const

\* swap_bits stores the caller's word and hands back the old one.
SwapBits(r, word) == form[r].atomic /\ Put(r, word, TRUE) /\ Answer(bits[r]) /\ Const

-----------------------------------------------------------------------------
Init ==
  /\ form \in [Names -> Forms]
  /\ tables \in Programs
  /\ Compiles
  /\ debug \in BOOLEAN
  /\ bits = [r \in Names |-> {}]
  /\ loop = NoLoop
  /\ ret = [panic |-> FALSE, ids |-> {}]
  /\ built = [r \in Names |-> NotBuilt]
  /\ raw = [r \in Names |-> FALSE]

\* A call that is one step.
Call(r) ==
  \/ New(r) \/ All(r) \/ Clear(r)
  \/ \E word \in SUBSET Bits :
       FromBits(r, word) \/ FromBitsTruncate(r, word) \/ FromBitsRetain(r, word)
       \/ SwapBits(r, word)
  \/ \E ids \in SUBSET Elements(r) : FromSlice(r, ids) \/ FromIter(r, ids) \/ Extend(r, ids)
  \/ \E id \in Elements(r) :
       \/ FromElement(r, id) \/ CheckBitIndex(r, id) \/ Insert(r, id) \/ Remove(r, id)
       \/ Toggle(r, id) \/ Contains(r, id) \/ \E value \in BOOLEAN : Set(r, id, value)
  \/ \E back \in BOOLEAN : End(r, back) \/ Pop(r, back)
  \/ \E batch \in SUBSET Names : CollectSets(r, batch) \/ ExtendSets(r, batch)
  \/ \E q \in Names : Complement(q, r) \/ Convert(q, r) \/ \E s \in Names : Operator(q, r, s)

\* A step of a call that loops.
LoopStep(r) ==
  \/ \E back \in BOOLEAN : PopLoop(r, back)
  \/ Retain(r) \/ PopEnd(r) \/ RetainEnd(r)
  \/ \E id \in Bits :
       Skip(r, id) \/ PopBit(r, id) \/ RetainPanic(r, id)
       \/ \E kept \in BOOLEAN : RetainBit(r, id, kept)

Next ==
  \E r \in Names :
    \/ loop = NoLoop /\ Call(r) /\ UNCHANGED loop
    \/ LoopStep(r)

Spec == Init /\ [][Next]_vars

-----------------------------------------------------------------------------
\* A word stays within the storage, whatever u8 the caller names, and whatever
\* flags the const assertions let pass.
TypeOK ==
  /\ form \in [Names -> Forms] /\ tables \in Programs /\ debug \in BOOLEAN
  /\ bits \in [Names -> SUBSET Bits] /\ raw \in [Names -> BOOLEAN]
  /\ loop \in Loops \cup {NoLoop}
  /\ ret.panic \in BOOLEAN /\ ret.ids \subseteq Bits

\* A set holds a bit without a flag only if the program has put one there: no
\* sequence of the other calls, complement and the operators among them, makes
\* one up, and neither does a conversion, except into a set with fewer flags.
Known(r) == bits[r] \subseteq Flags(r)
KnownOnly == \A r \in Names : ~ raw[r] => Known(r)

\* The loops over an enum-form set lose no bit without a flag, except, undefined, a
\* retain of an atomic set without debug checks; and pop_first and pop_last answer
\* with the first or last flag however many other bits they pass over, and with
\* None only when no flag is left: the set may not be empty then.  The pops of an
\* atomic set do take such a bit, but with debug checks they never answer then.
Unknown(r) == bits[r] \ Flags(r)
UnknownKept ==
  [][\A r \in Names : form[r].enum =>
       /\ Going(r) /\ (form[r].atomic => debug) => Unknown(r)' = Unknown(r)
       /\ In(r, "pop") /\ loop' = NoLoop =>
            /\ ret'.ids = {} => bits'[r] \cap Flags(r) = {}
            /\ \A id \in ret'.ids :
                 IsEnd(id, bits[r] \cap Flags(r), loop.back) /\ bits'[r] = bits[r] \ {id}
       /\ \A back \in BOOLEAN :
            loop = NoLoop /\ Pop(r, back) /\ debug /\ Unknown(r)' # Unknown(r) => ret'.panic]_vars

\* A call that panics, in its own checks or in the caller's closure, loses
\* nothing of a plain set: retain's is as it was before the call, and extend's
\* has only more.  An atomic set has lost what the closure refused so far, none
\* of the bits it was not shown, and by a pop a bit without a flag, never a flag.
PanicsConfined ==
  [][ret'.panic => \A r \in Names :
       LET lost == (IF Going(r) THEN loop.was ELSE bits[r]) \ bits'[r] IN
       /\ ~ form[r].atomic => lost = {}
       /\ IF Going(r) THEN lost \cap loop.left = {} ELSE lost \subseteq Unknown(r)]_vars

\* The names that iter_names lists and Display writes are a set's flags:
\* from_name finds each, and together they are the set without its unknown
\* bits.  No name, not even of a constant that is off, makes a set with a bit that
\* has no flag.
Named(t, names) == UNION {FromName(t, n) : n \in names}
NamesReadBack ==
  \A r \in Names :
    LET t == Table(r)
        names == {e.name : e \in IterNames(t, bits[r])}
    IN /\ \A n \in names : \E v \in bits[r] : FromName(t, n) = {v}
       /\ Named(t, names) = bits[r] \cap Flags(r)
       /\ \A j \in DOMAIN t : FromName(t, t[j].name) \subseteq Flags(r)

\* Debug of a set with constants in position form loses no bit and writes none
\* twice: each is under the name of one flag, or, if it has no flag, in the
\* number at the end.  Linked sets write their word and elements instead.
DebugReadsBack ==
  \A r \in Names : ~ form[r].enum /\ ~ form[r].linked =>
    LET t == Table(r)
        text == Debug(t, bits[r])
        names == {text.names[j] : j \in DOMAIN text.names}
    IN /\ text.remaining = Unknown(r)
       /\ Named(t, names) = bits[r] \cap Flags(r)
       /\ Len(text.names) = Cardinality(bits[r] \cap Flags(r))

\* "Out-of-range bit indices now panic in release builds": a set made of the
\* elements a caller names holds nothing else, or the call has panicked.
NothingUnasked ==
  \A r \in Names : built[r].by # "other" => ret.panic \/ bits[r] \subseteq built[r].ids

=============================================================================
