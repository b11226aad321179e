--------------------------- MODULE FlagSet_proofs ---------------------------
(***************************************************************************)
(* Proofs about FlagSet, for every declaration of flags, width, and number *)
(* of sets: where bits without a flag come from, what the enum-form loops  *)
(* do with them, and what the names of a set say.                          *)
(***************************************************************************)
EXTENDS FlagSet, WellFoundedInduction, SequenceTheorems, FiniteSetTheorems, TLAPS

\* The inductive invariant: the program is one the compiler takes, and KnownOnly.
Inv ==
  /\ Compiles
  /\ DOMAIN bits = Names
  /\ raw \in [Names -> BOOLEAN]
  /\ KnownOnly

-----------------------------------------------------------------------------
\* The program does not change while it runs.
LEMMA SameProgram ==
  ASSUME UNCHANGED Program
  PROVE  /\ Compiles' <=> Compiles
         /\ \A r \in Names : Table(r)' = Table(r) /\ Flags(r)' = Flags(r)
BY DEF Program, Compiles, Table, Flags

\* A call that puts a word in a set keeps the invariant if it puts only flags
\* there or counts as the program's own doing.
LEMMA PutInv ==
  ASSUME Inv, UNCHANGED Program, NEW r \in Names, NEW word, NEW unknown \in BOOLEAN,
         Put(r, word, unknown), unknown \/ word \subseteq Flags(r)
  PROVE  Inv'
<1>1. Compiles' /\ \A q \in Names : Flags(q)' = Flags(q)
  BY SameProgram DEF Inv
<1>2. DOMAIN bits' = Names /\ raw' \in [Names -> BOOLEAN]
  BY DEF Inv, Put
<1>3. ASSUME NEW q \in Names, ~ raw'[q] PROVE bits'[q] \subseteq Flags(q)'
  <2>1. CASE q = r
    BY <1>1, <1>3, <2>1 DEF Inv, Put
  <2>2. CASE q # r
    BY <1>1, <1>3, <2>2 DEF Inv, Put, KnownOnly, Known
  <2> QED BY <2>1, <2>2
<1> QED BY <1>1, <1>2, <1>3 DEF Inv, KnownOnly, Known

\* So does a call that changes no set.
LEMMA KeepInv ==
  ASSUME Inv, UNCHANGED Program, UNCHANGED <<bits, raw>>
  PROVE  Inv'
BY SameProgram DEF Inv, KnownOnly, Known

\* Taking bits out, or keeping what a set is counted as, brings no unknown bit.
LEMMA ChangeInv ==
  ASSUME Inv, UNCHANGED Program, NEW r \in Names, NEW word,
         word \subseteq bits[r], Change(r, word)
  PROVE  Inv'
<1>1. raw[r] \in BOOLEAN /\ (raw[r] \/ word \subseteq Flags(r))
  BY DEF Inv, KnownOnly, Known
<1> QED BY <1>1, PutInv DEF Change

\* A set made of elements.
LEMMA MakeInv ==
  ASSUME Inv, NEW r \in Names, NEW by, NEW ids, NEW word, Make(r, by, ids, word)
  PROVE  Inv'
<1>1. UNCHANGED Program
  BY DEF Make, Built
<1>2. CASE UNCHANGED <<bits, raw>>
  BY <1>1, <1>2, KeepInv
<1>3. CASE Put(r, word, ~ (word \subseteq Flags(r)))
  BY <1>1, <1>3, PutInv
<1> QED BY <1>2, <1>3 DEF Make, Panic

-----------------------------------------------------------------------------
\* The steps, in the groups of the module.
LEMMA ConstructorInv ==
  ASSUME Inv, NEW r \in Names,
         \/ New(r) \/ All(r) \/ Clear(r)
         \/ \E word \in SUBSET Bits :
              \/ FromBits(r, word) \/ FromBitsTruncate(r, word) \/ FromBitsRetain(r, word)
              \/ SwapBits(r, word)
         \/ \E ids \in SUBSET Elements(r) : FromSlice(r, ids) \/ FromIter(r, ids)
         \/ \E id \in Elements(r) : FromElement(r, id)
  PROVE  Inv'
<1>1. CASE New(r) \/ All(r) \/ Clear(r)
  BY <1>1, PutInv DEF New, All, Clear, Const
<1>2. ASSUME NEW word \in SUBSET Bits, FromBits(r, word) PROVE Inv'
  <2>1. UNCHANGED Program
    BY <1>2 DEF FromBits, Const
  <2>2. CASE word \subseteq Flags(r)
    BY <1>2, <2>1, <2>2, PutInv DEF FromBits
  <2>3. CASE ~ (word \subseteq Flags(r))
    BY <1>2, <2>1, <2>3, KeepInv DEF FromBits
  <2> QED BY <2>2, <2>3
<1>3. ASSUME NEW word \in SUBSET Bits,
             FromBitsTruncate(r, word) \/ FromBitsRetain(r, word) \/ SwapBits(r, word)
      PROVE  Inv'
  <2>1. UNCHANGED Program
    BY <1>3 DEF FromBitsTruncate, FromBitsRetain, SwapBits, Const
  <2>2. CASE Put(r, word \cap Flags(r), FALSE)
    BY <2>1, <2>2, PutInv
  <2>3. CASE Put(r, word, TRUE)
    BY <2>1, <2>3, PutInv
  <2> QED BY <1>3, <2>2, <2>3 DEF FromBitsTruncate, FromBitsRetain, SwapBits
<1>4. ASSUME NEW ids \in SUBSET Elements(r), FromSlice(r, ids) \/ FromIter(r, ids) PROVE Inv'
  BY <1>4, MakeInv DEF FromSlice, FromIter
<1>5. ASSUME NEW id \in Elements(r), FromElement(r, id) PROVE Inv'
  <2>1. CASE Make(r, "from_element", {id}, Wrapped({id}))
    BY <2>1, MakeInv
  <2>2. CASE /\ IF id < BITS THEN Put(r, {id}, id \notin Flags(r)) /\ Answer({}) ELSE Panic
             /\ Built(r, "from_element", {id})
    <3>1. UNCHANGED Program
      BY <2>2 DEF Built
    <3>2. CASE id < BITS
      BY <2>2, <3>1, <3>2, PutInv
    <3>3. CASE ~ (id < BITS)
      BY <2>2, <3>1, <3>3, KeepInv DEF Panic
    <3> QED BY <3>2, <3>3
  <2> QED BY <1>5, <2>1, <2>2 DEF FromElement
<1> QED BY <1>1, <1>2, <1>3, <1>4, <1>5

\* An element put in is a flag, or counts as the program's own.
LEMMA NamedInv ==
  ASSUME Inv, UNCHANGED Program, NEW r \in Names, NEW ids, NEW word,
         ids \subseteq Flags(r) \/ ids \subseteq Bits,
         word \subseteq bits[r] \cup ids, Put(r, word, Unnamed(r, ids))
  PROVE  Inv'
<1>1. Unnamed(r, ids) \in BOOLEAN /\ raw[r] \in BOOLEAN
  BY DEF Unnamed, Inv
<1>2. Unnamed(r, ids) \/ word \subseteq Flags(r)
  BY <1>1 DEF Unnamed, Inv, KnownOnly, Known
<1> QED BY <1>1, <1>2, PutInv

\* An element a caller can name, if it is checked: a variant, or a bit.
LEMMA ElementIn ==
  ASSUME NEW r \in Names, NEW id \in Elements(r), Checked(id)
  PROVE  {id} \subseteq Flags(r) \/ {id} \subseteq Bits
BY BoundAssumption, BitsAssumption DEF Elements, Checked, Bits

LEMMA ElementInv ==
  ASSUME Inv, NEW r \in Names,
         \/ \E id \in Elements(r) :
              \/ CheckBitIndex(r, id) \/ Insert(r, id) \/ Remove(r, id) \/ Toggle(r, id)
              \/ Contains(r, id) \/ \E value \in BOOLEAN : Set(r, id, value)
         \/ \E ids \in SUBSET Elements(r) : Extend(r, ids)
  PROVE  Inv'
<1>1. ASSUME NEW id \in Elements(r), CheckBitIndex(r, id) \/ Contains(r, id) PROVE Inv'
  BY <1>1, KeepInv DEF CheckBitIndex, Contains, Panic, Const
<1>2. ASSUME NEW id \in Elements(r), Remove(r, id) PROVE Inv'
  BY <1>2, ChangeInv DEF Remove, Const
<1>3. ASSUME NEW id \in Elements(r), Insert(r, id) \/ Toggle(r, id) PROVE Inv'
  <2>1. UNCHANGED Program
    BY <1>3 DEF Insert, Toggle, Const
  <2>2. {id} \subseteq Flags(r) \/ {id} \subseteq Bits
    BY <1>3, ElementIn DEF Insert, Toggle
  <2> QED BY <1>3, <2>1, <2>2, NamedInv DEF Insert, Toggle
<1>4. ASSUME NEW id \in Elements(r), NEW value \in BOOLEAN, Set(r, id, value) PROVE Inv'
  <2>1. UNCHANGED Program
    BY <1>4 DEF Set, Const
  <2>2. {id} \subseteq Flags(r) \/ {id} \subseteq Bits
    BY <1>4, ElementIn DEF Set
  <2>3. CASE value
    BY <1>4, <2>1, <2>2, <2>3, NamedInv DEF Set
  <2>4. CASE ~ value
    BY <1>4, <2>1, <2>4, ChangeInv DEF Set
  <2> QED BY <2>3, <2>4
<1>5. ASSUME NEW ids \in SUBSET Elements(r), Extend(r, ids) PROVE Inv'
  <2>1. UNCHANGED Program
    BY <1>5 DEF Extend, Const
  <2>2. PICK before \in SUBSET (ids \cap Bits) :
          Put(r, bits[r] \cup before, Unnamed(r, before))
    BY <1>5 DEF Extend
  <2> QED BY <2>1, <2>2, NamedInv
<1> QED BY <1>1, <1>2, <1>3, <1>4, <1>5

LEMMA TakeInv ==
  ASSUME Inv, NEW r \in Names, \E back \in BOOLEAN : End(r, back) \/ Pop(r, back)
  PROVE  Inv'
<1>1. ASSUME NEW back \in BOOLEAN, End(r, back) PROVE Inv'
  BY <1>1, KeepInv DEF End, Const
<1>2. ASSUME NEW back \in BOOLEAN, Pop(r, back) PROVE Inv'
  <2>1. UNCHANGED Program
    BY <1>2 DEF Pop, Const
  <2>2. CASE UNCHANGED <<bits, raw>>
    BY <2>1, <2>2, KeepInv
  <2>3. CASE \E id \in bits[r] : Change(r, bits[r] \ {id})
    BY <2>1, <2>3, ChangeInv
  <2> QED BY <1>2, <2>2, <2>3 DEF Pop
<1> QED BY <1>1, <1>2

LEMMA OperatorInv ==
  ASSUME Inv, NEW q \in Names, NEW r \in Names,
         Complement(q, r) \/ Convert(q, r) \/ \E s \in Names : Operator(q, r, s)
  PROVE  Inv'
<1>1. CASE Complement(q, r)
  <2>1. UNCHANGED Program /\ Put(q, Not(r), FALSE)
    BY <1>1 DEF Complement, Const
  <2>2. Not(r) \subseteq Flags(q)
    BY <1>1 DEF Complement, Not, Flags, Table
  <2> QED BY <2>1, <2>2, PutInv
<1>2. CASE Convert(q, r)
  <2>1. UNCHANGED Program /\ Put(q, bits[r], raw[r] \/ ~ (Flags(r) \subseteq Flags(q)))
    BY <1>2 DEF Convert, Const
  <2>2. (raw[r] \/ ~ (Flags(r) \subseteq Flags(q))) \/ bits[r] \subseteq Flags(q)
    BY DEF Inv, KnownOnly, Known
  <2>3. raw[r] \in BOOLEAN
    BY DEF Inv
  <2> QED BY <2>1, <2>2, <2>3, PutInv
<1>3. ASSUME NEW s \in Names, Operator(q, r, s) PROVE Inv'
  <2>1. UNCHANGED Program
    BY <1>3 DEF Operator, Const
  <2>2. Flags(q) = Flags(r) /\ Flags(s) = Flags(r)
    BY <1>3 DEF Operator, Flags, Table
  <2>3. /\ raw[r] \in BOOLEAN /\ raw[s] \in BOOLEAN
        /\ raw[r] \/ bits[r] \subseteq Flags(q)
        /\ raw[s] \/ bits[s] \subseteq Flags(q)
    BY <2>2 DEF Inv, KnownOnly, Known
  <2>4. CASE Put(q, bits[r] \cup bits[s], raw[r] \/ raw[s])
    BY <2>1, <2>3, <2>4, PutInv
  <2>5. CASE Put(q, bits[r] \cap bits[s], raw[r] /\ raw[s])
    BY <2>1, <2>3, <2>5, PutInv
  <2>6. CASE Put(q, bits[r] \ bits[s], raw[r])
    BY <2>1, <2>3, <2>6, PutInv
  <2>7. CASE Put(q, (bits[r] \ bits[s]) \cup (bits[s] \ bits[r]), raw[r] \/ raw[s])
    BY <2>1, <2>3, <2>7, PutInv
  <2> QED BY <1>3, <2>4, <2>5, <2>6, <2>7 DEF Operator
<1> QED BY <1>1, <1>2, <1>3

LEMMA BatchInv ==
  ASSUME Inv, NEW r \in Names, NEW batch \in SUBSET Names,
         CollectSets(r, batch) \/ ExtendSets(r, batch)
  PROVE  Inv'
<1>1. UNCHANGED Program /\ Alike(r, batch)
  BY DEF CollectSets, ExtendSets, Const
<1>2. \A s \in batch : Flags(s) = Flags(r)
  BY <1>1 DEF Alike, Flags, Table
<1>3. AnyRaw(batch) \/ United(batch) \subseteq Flags(r)
  <2>1. \A s \in batch : s \in Names
    OBVIOUS
  <2>2. CASE \E s \in batch : raw[s]
    BY <2>2 DEF AnyRaw
  <2>3. CASE \A s \in batch : ~ raw[s]
    <3>1. \A s \in batch : bits[s] \subseteq Flags(r)
      BY <1>2, <2>1, <2>3 DEF Inv, KnownOnly, Known
    <3> QED BY <3>1 DEF United
  <2> QED BY <2>2, <2>3
<1>4. AnyRaw(batch) \in BOOLEAN /\ raw[r] \in BOOLEAN
  BY DEF AnyRaw, Inv
<1>5. raw[r] \/ bits[r] \subseteq Flags(r)
  BY <1>4 DEF Inv, KnownOnly, Known
<1>6. CASE Put(r, United(batch), AnyRaw(batch))
  BY <1>1, <1>3, <1>4, <1>6, PutInv
<1>7. CASE Put(r, bits[r] \cup United(batch), raw[r] \/ AnyRaw(batch))
  BY <1>1, <1>3, <1>4, <1>5, <1>7, PutInv
<1> QED BY <1>6, <1>7 DEF CollectSets, ExtendSets

\* The calls of one step.
LEMMA CallInv ==
  ASSUME Inv, NEW r \in Names, Call(r)
  PROVE  Inv'
BY ConstructorInv, ElementInv, TakeInv, OperatorInv, BatchInv DEF Call

-----------------------------------------------------------------------------
\* The loops over the constants of a declaration.

\* Induction over the naturals, on a set of them.
LEMMA SetInduction ==
  ASSUME NEW S, 0 \in S, \A n \in Nat : n \in S => n + 1 \in S
  PROVE  \A n \in Nat : n \in S
<1> DEFINE R == OpToRel(<, Nat)
           T == Nat \ S
<1>1. \A x, y \in Nat : <<x, y>> \in R <=> x < y
  BY DEF OpToRel
<1>2. IsWellFoundedOn(R, Nat)
  BY NatLessThanWellFounded
<1> SUFFICES ASSUME T # {} PROVE FALSE
  OBVIOUS
<1>3. T \subseteq Nat
  OBVIOUS
<1> HIDE DEF R
<1>4. \E x \in T : \A y \in T : ~ (<<y, x>> \in R)
  <2> HIDE DEF T
  <2> QED BY <1>2, <1>3, WFMin
<1>5. PICK m \in T : \A n \in T : ~ (<<n, m>> \in R)
  BY <1>4
<1>6. m \in Nat /\ m # 0 /\ m - 1 \in Nat
  BY <1>3, <1>5
<1>7. m - 1 \in T
  <2>1. m - 1 + 1 = m
    BY <1>6
  <2> QED BY <1>5, <1>6, <2>1
<1>8. m - 1 < m
  BY <1>6
<1> QED BY <1>1, <1>5, <1>6, <1>7, <1>8

\* f[j] is what a loop over 1 .. n has made of base after j steps.
IsLoop(f, n, base, step) ==
  f[0] = base /\ \A j \in 1 .. n : f[j] = step[j][f[j - 1]]

\* A loop over 1 .. n defines a function: what it has made of base after each step.
LEMMA LoopDefined ==
  ASSUME NEW n \in Nat, NEW Y, NEW base \in Y, NEW step \in [1 .. n -> [Y -> Y]]
  PROVE  \E f \in [0 .. n -> Y] : IsLoop(f, n, base, step)
<1> DEFINE Loop(m) ==
      \E f \in [0 .. m -> Y] : f[0] = base /\ \A j \in 1 .. m : f[j] = step[j][f[j - 1]]
    S == {m \in Nat : m <= n => Loop(m)}
<1>1. Loop(0)
  <2> DEFINE f == [j \in 0 .. 0 |-> base]
  <2>1. f \in [0 .. 0 -> Y] /\ f[0] = base /\ \A j \in 1 .. 0 : f[j] = step[j][f[j - 1]]
    OBVIOUS
  <2> QED BY <2>1
<1>2. ASSUME NEW m \in Nat, m + 1 <= n, Loop(m) PROVE Loop(m + 1)
  <2>1. PICK f \in [0 .. m -> Y] : f[0] = base /\ \A j \in 1 .. m : f[j] = step[j][f[j - 1]]
    BY <1>2
  <2> DEFINE g == [j \in 0 .. m + 1 |-> IF j <= m THEN f[j] ELSE step[m + 1][f[m]]]
  <2>2. m + 1 \in 1 .. n /\ f[m] \in Y
    BY <1>2
  <2>3. step[m + 1][f[m]] \in Y
    BY <2>2
  <2>4. g \in [0 .. m + 1 -> Y] /\ g[0] = base
    BY <2>1, <2>3
  <2>5. ASSUME NEW j \in 1 .. m + 1 PROVE g[j] = step[j][g[j - 1]]
    <3>1. CASE j <= m
      BY <2>1, <3>1
    <3>2. CASE ~ (j <= m)
      <4>1. j = m + 1 /\ j - 1 = m
        BY <3>2
      <4>2. g[j] = step[m + 1][f[m]] /\ g[m] = f[m]
        BY <3>2, <4>1
      <4> QED BY <4>1, <4>2
    <3> QED BY <3>1, <3>2
  <2> HIDE DEF g
  <2> QED BY <2>4, <2>5
<1>3. 0 \in S
  BY <1>1
<1>4. ASSUME NEW m \in Nat, m \in S PROVE m + 1 \in S
  <2> SUFFICES ASSUME m + 1 <= n PROVE Loop(m + 1)
    OBVIOUS
  <2>1. m <= n
    OBVIOUS
  <2>2. Loop(m)
    BY <1>4, <2>1
  <2> HIDE DEF Loop
  <2> QED BY <1>2, <2>2
<1>5. n \in S
  <2> HIDE DEF S
  <2> QED BY <1>3, <1>4, SetInduction
<1> QED BY <1>5 DEF IsLoop

\* The constants of a declaration have values and names.
Entry == [name: STRING, value: Nat, on: BOOLEAN]

LEMMA DeclaredEntries ==
  ASSUME NEW t \in Declarations
  PROVE  /\ Len(t) \in Nat /\ DOMAIN t = 1 .. Len(t)
         /\ \A j \in 1 .. Len(t) : t[j] \in Entry
<1>1. t \in Seq(Entry)
  BY DEF Declarations, Entry
<1> QED BY <1>1, LenProperties, ElementOfSeq

\* MAX_VALUE is no less than the value of any variant.
LEMMA MaxValueBound ==
  ASSUME NEW t \in Declarations, NEW k \in DOMAIN t
  PROVE  MaxValue(t) \in Nat /\ t[k].value \in Nat /\ t[k].value <= MaxValue(t)
<1> DEFINE n == Len(t)
           step == [j \in 1 .. n |-> [y \in Nat |-> IF t[j].value > y THEN t[j].value ELSE y]]
           Max(f) == f = [j \in 0 .. Len(t) |->
                            IF j = 0 THEN 0
                            ELSE IF t[j].value > f[j - 1] THEN t[j].value ELSE f[j - 1]]
           max == CHOOSE f : Max(f)
<1>1. n \in Nat /\ DOMAIN t = 1 .. n /\ \A j \in 1 .. n : t[j].value \in Nat
  BY DeclaredEntries DEF Entry
<1>2. step \in [1 .. n -> [Nat -> Nat]]
  BY <1>1
<1>3. PICK f \in [0 .. n -> Nat] : IsLoop(f, n, 0, step)
  <2>1. n \in Nat /\ 0 \in Nat
    BY <1>1
  <2> HIDE DEF step, n
  <2>2. step \in [1 .. n -> [Nat -> Nat]]
    BY <1>2
  <2> QED BY <2>1, <2>2, LoopDefined
<1>4. Max(f)
  <2>1. ASSUME NEW j \in 1 .. n
        PROVE  f[j] = IF t[j].value > f[j - 1] THEN t[j].value ELSE f[j - 1]
    <3>1. j - 1 \in 0 .. n
      BY <1>1
    <3> QED BY <1>3, <3>1 DEF IsLoop
  <2>2. \A j \in 0 .. n : j = 0 \/ j \in 1 .. n
    BY <1>1
  <2> HIDE DEF step
  <2> QED BY <1>3, <2>1, <2>2 DEF IsLoop
<1>5. Max(max)
  <2> HIDE DEF Max
  <2> QED BY <1>4
<1>6. MaxValue(t) = max[n]
  BY DEF MaxValue
<1> HIDE DEF max, step
<1> DEFINE S == {m \in Nat : m <= n => max[m] \in Nat /\ \A j \in 1 .. m : t[j].value <= max[m]}
<1>7. 0 \in S
  BY <1>1, <1>5
<1>8. ASSUME NEW m \in Nat, m \in S PROVE m + 1 \in S
  <2> SUFFICES ASSUME m + 1 <= n
               PROVE  max[m + 1] \in Nat /\ \A j \in 1 .. m + 1 : t[j].value <= max[m + 1]
    OBVIOUS
  <2>1. m + 1 \in 1 .. n /\ m + 1 \in 0 .. Len(t) /\ m + 1 # 0 /\ m + 1 - 1 = m
    BY <1>1
  <2>2. max[m] \in Nat /\ \A j \in 1 .. m : t[j].value <= max[m]
    BY <1>8, <1>1
  <2>3. max[m + 1] = IF t[m + 1].value > max[m] THEN t[m + 1].value ELSE max[m]
    BY <1>5, <2>1
  <2>4. t[m + 1].value \in Nat /\ \A j \in 1 .. m + 1 : j = m + 1 \/ j \in 1 .. m
    BY <1>1, <2>1
  <2>5. max[m + 1] \in Nat /\ max[m] <= max[m + 1] /\ t[m + 1].value <= max[m + 1]
    BY <2>2, <2>3, <2>4
  <2>6. ASSUME NEW j \in 1 .. m PROVE t[j].value <= max[m + 1]
    <3>1. t[j].value \in Nat
      BY <1>1, <2>1
    <3> QED BY <2>2, <2>5, <3>1
  <2> QED BY <2>4, <2>5, <2>6
<1>9. n \in S
  <2> HIDE DEF S, n
  <2> QED BY <1>1, <1>7, <1>8, SetInduction
<1> QED BY <1>1, <1>6, <1>9

\* The flags among the first m constants.
Seen(t, m) == {t[j].value : j \in {k \in 1 .. m : t[k].on}}

LEMMA SeenNext ==
  ASSUME NEW t \in Declarations, NEW m \in Nat, m + 1 <= Len(t)
  PROVE  Seen(t, m + 1) = IF t[m + 1].on THEN Seen(t, m) \cup {t[m + 1].value} ELSE Seen(t, m)
<1>1. 1 .. m + 1 = (1 .. m) \cup {m + 1}
  OBVIOUS
<1> QED BY <1>1 DEF Seen

\* What Debug has written and what remains after m constants: the flags seen
\* are written, under names of their own.
NamesOf(t, out) == UNION {FromName(t, out.names[j]) : j \in DOMAIN out.names}
Writes(t, word, out, m) ==
  /\ out.names \in Seq(STRING)
  /\ out.remaining = word \ Seen(t, m)
  /\ IsFiniteSet(word \cap Seen(t, m))
  /\ Len(out.names) = Cardinality(word \cap Seen(t, m))
  /\ NamesOf(t, out) = word \cap Seen(t, m)

LEMMA WritesNext ==
  ASSUME NEW t \in Declarations, DistinctNames(t), NEW word,
         NEW m \in Nat, m + 1 <= Len(t),
         NEW out, Writes(t, word, out, m)
  PROVE  Writes(t, word, IF t[m + 1].on THEN DebugStep(out, t[m + 1]) ELSE out, m + 1)
<1> DEFINE e == t[m + 1]
           v == e.value
<1>1. m + 1 \in 1 .. Len(t) /\ e \in Entry /\ DOMAIN t = 1 .. Len(t)
  BY DeclaredEntries
<1>2. CASE ~ e.on
  BY <1>2, SeenNext DEF Writes
<1>3. CASE e.on /\ v \notin out.remaining
  <2>1. word \cap Seen(t, m + 1) = word \cap Seen(t, m)
    BY <1>3, SeenNext DEF Writes
  <2>2. word \ Seen(t, m + 1) = word \ Seen(t, m)
    BY <1>3, SeenNext DEF Writes
  <2>3. DebugStep(out, e) = out
    BY <1>3 DEF DebugStep
  <2> QED BY <1>3, <2>1, <2>2, <2>3 DEF Writes
<1>4. CASE e.on /\ v \in out.remaining
  <2> DEFINE new == DebugStep(out, e)
  <2>1. new.names = Append(out.names, e.name) /\ new.remaining = out.remaining \ {v}
    BY <1>4 DEF DebugStep
  <2>2. Seen(t, m + 1) = Seen(t, m) \cup {v} /\ v \in word /\ v \notin Seen(t, m)
    BY <1>4, SeenNext DEF Writes
  <2>3. word \cap Seen(t, m + 1) = (word \cap Seen(t, m)) \cup {v}
    BY <2>2
  <2>4. e.name \in STRING
    BY <1>1 DEF Entry
  <2>5. /\ new.names \in Seq(STRING) /\ Len(new.names) = Len(out.names) + 1
        /\ \A j \in 1 .. Len(out.names) : new.names[j] = out.names[j]
        /\ new.names[Len(out.names) + 1] = e.name
    <3>1. out.names \in Seq(STRING)
      BY DEF Writes
    <3> HIDE DEF new
    <3> QED BY <2>1, <2>4, <3>1, AppendProperties
  <2>6. /\ Len(out.names) \in Nat
        /\ DOMAIN out.names = 1 .. Len(out.names)
        /\ DOMAIN new.names = 1 .. Len(out.names) + 1
    BY <2>5, LenProperties DEF Writes
  <2>7. FromName(t, e.name) = {v}
    BY <1>1, <1>4 DEF FromName, DistinctNames, Guarded
  <2>8. NamesOf(t, new) = NamesOf(t, out) \cup {v}
    <3>1. 1 .. Len(out.names) + 1 = (1 .. Len(out.names)) \cup {Len(out.names) + 1}
      BY <2>6
    <3> HIDE DEF new
    <3>2. ASSUME NEW x \in NamesOf(t, new) PROVE x \in NamesOf(t, out) \cup {v}
      BY <2>5, <2>6, <2>7, <3>1 DEF NamesOf
    <3>3. ASSUME NEW x \in NamesOf(t, out) PROVE x \in NamesOf(t, new)
      BY <2>5, <2>6, <3>1 DEF NamesOf
    <3>4. v \in NamesOf(t, new)
      <4>1. Len(out.names) + 1 \in DOMAIN new.names
        BY <2>6
      <4> QED BY <2>5, <2>7, <4>1 DEF NamesOf
    <3> QED BY <3>2, <3>3, <3>4
  <2>9. /\ IsFiniteSet(word \cap Seen(t, m + 1))
        /\ Cardinality(word \cap Seen(t, m + 1)) = Cardinality(word \cap Seen(t, m)) + 1
    <3> DEFINE W == word \cap Seen(t, m)
    <3>1. IsFiniteSet(W) /\ v \notin W
      BY <2>2 DEF Writes
    <3>2. IsFiniteSet(W \cup {v}) /\ Cardinality(W \cup {v}) = Cardinality(W) + 1
      <4> HIDE DEF W
      <4> QED BY <3>1, FS_AddElement
    <3> QED BY <2>3, <3>2
  <2>10. new.remaining = word \ Seen(t, m + 1)
    BY <2>1, <2>2 DEF Writes
  <2> HIDE DEF new
  <2>11. Writes(t, word, new, m + 1)
    BY <2>3, <2>5, <2>8, <2>9, <2>10 DEF Writes
  <2> QED BY <1>4, <2>11 DEF new
<1> QED BY <1>2, <1>3, <1>4

\* The loop of Debug, for any constants and any word.
LEMMA DebugWrites ==
  ASSUME NEW t \in Declarations, DistinctNames(t), NEW word
  PROVE  Writes(t, word, Debug(t, word), Len(t))
<1> DEFINE n == Len(t)
           Outs == [names: Seq(STRING), remaining: SUBSET word]
           start == [names |-> <<>>, remaining |-> word]
           step == [j \in 1 .. n |-> [o \in Outs |-> IF t[j].on THEN DebugStep(o, t[j]) ELSE o]]
           Run(f) == f = [j \in 0 .. Len(t) |->
                            IF j = 0 THEN [names |-> <<>>, remaining |-> word]
                            ELSE IF t[j].on THEN DebugStep(f[j - 1], t[j]) ELSE f[j - 1]]
           out == CHOOSE f : Run(f)
<1>1. n \in Nat /\ \A j \in 1 .. n : t[j] \in Entry
  BY DeclaredEntries
<1>2. start \in Outs
  OBVIOUS
<1>3. step \in [1 .. n -> [Outs -> Outs]]
  <2>1. ASSUME NEW j \in 1 .. n, NEW o \in Outs PROVE DebugStep(o, t[j]) \in Outs
    <3>1. t[j].name \in STRING
      BY <1>1 DEF Entry
    <3>2. Append(o.names, t[j].name) \in Seq(STRING)
      BY <3>1, AppendProperties
    <3>3. o.names \in Seq(STRING) /\ o.remaining \subseteq word
      OBVIOUS
    <3> QED BY <3>2, <3>3 DEF DebugStep
  <2> HIDE DEF Outs
  <2> QED BY <2>1
<1>4. PICK f \in [0 .. n -> Outs] : IsLoop(f, n, start, step)
  <2> HIDE DEF Outs, start, step, n
  <2> QED BY <1>1, <1>2, <1>3, LoopDefined
<1>5. Run(f)
  <2>1. ASSUME NEW j \in 1 .. n
        PROVE  f[j] = IF t[j].on THEN DebugStep(f[j - 1], t[j]) ELSE f[j - 1]
    <3>1. j - 1 \in 0 .. n
      BY <1>1
    <3>2. f[j - 1] \in Outs
      BY <3>1
    <3> HIDE DEF Outs
    <3> QED BY <1>4, <3>2 DEF IsLoop
  <2>2. \A j \in 0 .. n : j = 0 \/ j \in 1 .. n
    BY <1>1
  <2> HIDE DEF step, Outs
  <2> QED BY <1>4, <2>1, <2>2 DEF IsLoop
<1>6. Run(out)
  <2> HIDE DEF Run
  <2> QED BY <1>5
<1>7. Debug(t, word) = out[n]
  BY DEF Debug
<1> HIDE DEF out, step, Outs
<1> DEFINE S == {m \in Nat : m <= n => Writes(t, word, out[m], m)}
<1>8. 0 \in S
  <2>1. out[0] = start
    BY <1>1, <1>6
  <2>2. Seen(t, 0) = {} /\ NamesOf(t, start) = {}
    BY DEF Seen, NamesOf
  <2>3. start.names \in Seq(STRING) /\ Len(start.names) = 0 /\ start.remaining = word
    BY EmptySeq
  <2>4. Writes(t, word, start, 0)
    BY <2>2, <2>3, FS_EmptySet DEF Writes
  <2> QED BY <2>1, <2>4
<1>9. ASSUME NEW m \in Nat, m \in S PROVE m + 1 \in S
  <2> SUFFICES ASSUME m + 1 <= n PROVE Writes(t, word, out[m + 1], m + 1)
    OBVIOUS
  <2>1. m + 1 \in 0 .. Len(t) /\ m + 1 # 0 /\ m + 1 - 1 = m /\ m <= n
    BY <1>1
  <2>2. out[m + 1] = IF t[m + 1].on THEN DebugStep(out[m], t[m + 1]) ELSE out[m]
    BY <1>6, <2>1
  <2>3. Writes(t, word, out[m], m)
    BY <1>9, <2>1
  <2> QED BY <2>2, <2>3, WritesNext
<1>10. n \in S
  <2> HIDE DEF S, n
  <2> QED BY <1>1, <1>8, <1>9, SetInduction
<1> QED BY <1>1, <1>7, <1>10

-----------------------------------------------------------------------------
\* Whatever passes the const assertions, the flags of a set fit its word.
LEMMA FlagsFit ==
  ASSUME Compiles, tables \in Programs, NEW r \in Names
  PROVE  Flags(r) \subseteq Bits
<1>1. Table(r) \in Declarations
  BY ProgramsAssumption DEF Table
<1>2. ASSUME NEW j \in Guarded(Table(r)) PROVE Table(r)[j].value \in Bits
  <2>1. j \in DOMAIN Table(r) /\ Table(r)[j].value \in Nat
    BY <1>1, <1>2, MaxValueBound DEF Guarded
  <2>2. Table(r)[j].value < BITS
    <3>1. CASE Table(r) = tables.enum
      <4>1. MaxValue(Table(r)) < BITS
        BY <3>1 DEF Compiles, EnumCompiles
      <4>2. /\ MaxValue(Table(r)) \in Nat
            /\ Table(r)[j].value <= MaxValue(Table(r))
        BY <1>1, <2>1, MaxValueBound
      <4> QED BY <2>1, <4>1, <4>2, BitsAssumption
    <3>2. CASE PositionCompiles(Table(r))
      BY <1>2, <3>2 DEF PositionCompiles
    <3> QED BY <3>1, <3>2 DEF Table, Compiles, AtomicCompiles
  <2> QED BY <2>1, <2>2, BitsAssumption DEF Bits
<1> QED BY <1>2 DEF Flags, AllMask

\* The elements a caller can name are numbers; reduced or checked, they are bits.
LEMMA ElementsAre ==
  ASSUME Compiles, tables \in Programs, NEW r \in Names
  PROVE  Elements(r) \subseteq Nat
BY FlagsFit, BitsAssumption, BoundAssumption DEF Elements, Bits

LEMMA WrappedFits ==
  ASSUME NEW ids \in SUBSET Nat
  PROVE  Wrapped(ids) \subseteq Bits
BY BitsAssumption DEF Wrapped, Bits

\* A call that puts bits in a set, or leaves the sets alone, and answers with
\* bits, keeps the types.
LEMMA PutType ==
  ASSUME TypeOK, UNCHANGED Program, NEW r \in Names, NEW word \in SUBSET Bits,
         NEW unknown \in BOOLEAN, Put(r, word, unknown), loop' \in Loops \cup {NoLoop},
         ret'.panic \in BOOLEAN, ret'.ids \subseteq Bits
  PROVE  TypeOK'
BY DEF TypeOK, Program, Put

LEMMA KeepType ==
  ASSUME TypeOK, UNCHANGED Program, UNCHANGED <<bits, raw>>, loop' \in Loops \cup {NoLoop},
         ret'.panic \in BOOLEAN, ret'.ids \subseteq Bits
  PROVE  TypeOK'
BY DEF TypeOK, Program

LEMMA AnswerType ==
  ASSUME NEW ids \in SUBSET Bits, Answer(ids)
  PROVE  ret'.panic \in BOOLEAN /\ ret'.ids \subseteq Bits
BY DEF Answer

LEMMA PanickedType ==
  ASSUME Panicked
  PROVE  ret'.panic \in BOOLEAN /\ ret'.ids \subseteq Bits
BY DEF Panicked

LEMMA PanicType ==
  ASSUME TypeOK, UNCHANGED Program, Panic, loop' \in Loops \cup {NoLoop}
  PROVE  TypeOK'
<1>1. ret'.panic \in BOOLEAN /\ ret'.ids \subseteq Bits
  BY PanickedType DEF Panic
<1> QED BY <1>1, KeepType DEF Panic

LEMMA ChangeType ==
  ASSUME TypeOK, UNCHANGED Program, NEW r \in Names, NEW word \in SUBSET Bits,
         Change(r, word), loop' \in Loops \cup {NoLoop},
         ret'.panic \in BOOLEAN, ret'.ids \subseteq Bits
  PROVE  TypeOK'
<1>1. raw[r] \in BOOLEAN
  BY DEF TypeOK
<1> QED BY <1>1, PutType DEF Change

LEMMA MakeType ==
  ASSUME TypeOK, NEW r \in Names, NEW by, NEW ids, NEW word \in SUBSET Bits,
         Make(r, by, ids, word), loop' \in Loops \cup {NoLoop}
  PROVE  TypeOK'
<1>1. UNCHANGED Program
  BY DEF Make, Built
<1>2. CASE Panic
  BY <1>1, <1>2, PanicType
<1>3. CASE Put(r, word, ~ (word \subseteq Flags(r))) /\ Answer({})
  <2>1. ret'.panic \in BOOLEAN /\ ret'.ids \subseteq Bits
    BY <1>3, AnswerType
  <2> QED BY <1>1, <1>3, <2>1, PutType
<1> QED BY <1>2, <1>3 DEF Make

\* The steps, in the same groups.  A bit of a set or of a word is a bit; so is an
\* element that has been checked.
LEMMA ConstructorType ==
  ASSUME TypeOK, Compiles, loop' \in Loops \cup {NoLoop}, NEW r \in Names,
         \/ New(r) \/ All(r) \/ Clear(r)
         \/ \E word \in SUBSET Bits :
              \/ FromBits(r, word) \/ FromBitsTruncate(r, word) \/ FromBitsRetain(r, word)
              \/ SwapBits(r, word)
         \/ \E ids \in SUBSET Elements(r) : FromSlice(r, ids) \/ FromIter(r, ids)
         \/ \E id \in Elements(r) : FromElement(r, id)
  PROVE  TypeOK'
<1>1. /\ tables \in Programs /\ bits[r] \subseteq Bits
      /\ Flags(r) \subseteq Bits /\ Elements(r) \subseteq Nat
  BY FlagsFit, ElementsAre DEF TypeOK
<1>2. Answer({}) => ret'.panic \in BOOLEAN /\ ret'.ids \subseteq Bits
  BY AnswerType
<1>3. CASE New(r) \/ All(r) \/ Clear(r)
  BY <1>1, <1>2, <1>3, PutType DEF New, All, Clear, Const
<1>4. ASSUME NEW word \in SUBSET Bits, FromBits(r, word) PROVE TypeOK'
  <2>1. UNCHANGED Program /\ Answer({})
    BY <1>4 DEF FromBits, Const
  <2>2. CASE Put(r, word, FALSE)
    BY <1>2, <2>1, <2>2, PutType
  <2>3. CASE UNCHANGED <<bits, raw>>
    BY <1>2, <2>1, <2>3, KeepType
  <2> QED BY <1>4, <2>2, <2>3 DEF FromBits
<1>5. ASSUME NEW word \in SUBSET Bits, FromBitsTruncate(r, word) \/ FromBitsRetain(r, word)
      PROVE  TypeOK'
  <2>1. UNCHANGED Program /\ Answer({})
    BY <1>5 DEF FromBitsTruncate, FromBitsRetain, Const
  <2>2. CASE Put(r, word \cap Flags(r), FALSE)
    BY <1>1, <1>2, <2>1, <2>2, PutType
  <2>3. CASE Put(r, word, TRUE)
    BY <1>2, <2>1, <2>3, PutType
  <2> QED BY <1>5, <2>2, <2>3 DEF FromBitsTruncate, FromBitsRetain
<1>6. ASSUME NEW word \in SUBSET Bits, SwapBits(r, word) PROVE TypeOK'
  <2>1. UNCHANGED Program /\ Put(r, word, TRUE)
    BY <1>6 DEF SwapBits, Const
  <2>2. ret'.panic \in BOOLEAN /\ ret'.ids \subseteq Bits
    BY <1>1, <1>6, AnswerType DEF SwapBits
  <2> QED BY <2>1, <2>2, PutType
<1>7. ASSUME NEW ids \in SUBSET Elements(r), FromSlice(r, ids) \/ FromIter(r, ids)
      PROVE  TypeOK'
  <2>1. Wrapped(ids) \in SUBSET Bits /\ ids \cap Bits \in SUBSET Bits
    BY <1>1, WrappedFits
  <2>2. CASE FromSlice(r, ids)
    BY <2>1, <2>2, MakeType DEF FromSlice
  <2>3. CASE FromIter(r, ids)
    BY <2>1, <2>3, MakeType DEF FromIter
  <2> QED BY <1>7, <2>2, <2>3
<1>8. ASSUME NEW id \in Elements(r), FromElement(r, id) PROVE TypeOK'
  <2>1. Wrapped({id}) \in SUBSET Bits
    BY <1>1, WrappedFits
  <2>2. CASE Make(r, "from_element", {id}, Wrapped({id}))
    BY <2>1, <2>2, MakeType
  <2>3. CASE /\ IF id < BITS THEN Put(r, {id}, id \notin Flags(r)) /\ Answer({}) ELSE Panic
             /\ Built(r, "from_element", {id})
    <3>1. UNCHANGED Program
      BY <2>3 DEF Built
    <3>2. CASE id < BITS
      <4>1. {id} \in SUBSET Bits /\ (id \notin Flags(r)) \in BOOLEAN
        BY <1>1, <3>2, BitsAssumption DEF Bits
      <4> QED BY <1>2, <2>3, <3>1, <3>2, <4>1, PutType
    <3>3. CASE ~ (id < BITS)
      BY <2>3, <3>1, <3>3, PanicType
    <3> QED BY <3>2, <3>3
  <2> QED BY <1>8, <2>2, <2>3 DEF FromElement
<1> QED BY <1>3, <1>4, <1>5, <1>6, <1>7, <1>8

LEMMA ElementType ==
  ASSUME TypeOK, Compiles, loop' \in Loops \cup {NoLoop}, NEW r \in Names,
         \/ \E id \in Elements(r) :
              \/ CheckBitIndex(r, id) \/ Insert(r, id) \/ Remove(r, id) \/ Toggle(r, id)
              \/ Contains(r, id) \/ \E value \in BOOLEAN : Set(r, id, value)
         \/ \E ids \in SUBSET Elements(r) : Extend(r, ids)
  PROVE  TypeOK'
<1>1. bits[r] \subseteq Bits /\ raw[r] \in BOOLEAN /\ Elements(r) \subseteq Nat
  BY ElementsAre DEF TypeOK
<1>2. \A ids : Unnamed(r, ids) \in BOOLEAN
  BY <1>1 DEF Unnamed
<1>3. ASSUME NEW id \in Elements(r), CheckBitIndex(r, id) PROVE TypeOK'
  BY <1>3, PanicType DEF CheckBitIndex, Const
<1>4. ASSUME NEW id \in Elements(r), Checked(id),
             \/ Insert(r, id) \/ Remove(r, id) \/ Toggle(r, id) \/ Contains(r, id)
             \/ \E value \in BOOLEAN : Set(r, id, value)
      PROVE  TypeOK'
  <2>1. /\ id \in Bits /\ bits[r] \cup {id} \in SUBSET Bits /\ bits[r] \ {id} \in SUBSET Bits
        /\ {id} \ bits[r] \in SUBSET Bits /\ {id} \cap bits[r] \in SUBSET Bits
        /\ (bits[r] \ {id}) \cup ({id} \ bits[r]) \in SUBSET Bits
    BY <1>1, <1>4, BitsAssumption DEF Checked, Bits
  <2>2. UNCHANGED Program
    BY <1>4 DEF Insert, Remove, Toggle, Contains, Set, Const
  <2>3. ret'.panic \in BOOLEAN /\ ret'.ids \subseteq Bits
    <3>1. \E ids \in SUBSET Bits : Answer(ids)
      BY <1>4, <2>1 DEF Insert, Remove, Toggle, Contains, Set
    <3> QED BY <3>1, AnswerType
  <2>4. CASE \E word \in SUBSET Bits : Put(r, word, Unnamed(r, {id}))
    BY <1>2, <2>2, <2>3, <2>4, PutType
  <2>5. CASE \E word \in SUBSET Bits : Change(r, word)
    BY <2>2, <2>3, <2>5, ChangeType
  <2>6. CASE UNCHANGED <<bits, raw>>
    BY <2>2, <2>3, <2>6, KeepType
  <2> QED BY <1>4, <2>1, <2>4, <2>5, <2>6 DEF Insert, Remove, Toggle, Contains, Set
<1>5. ASSUME NEW ids \in SUBSET Elements(r), Extend(r, ids) PROVE TypeOK'
  <2>1. PICK before \in SUBSET (ids \cap Bits) :
          Put(r, bits[r] \cup before, Unnamed(r, before))
    BY <1>5 DEF Extend
  <2>2. UNCHANGED Program /\ (Answer({}) \/ Panicked)
    BY <1>5 DEF Extend, Const
  <2>3. ret'.panic \in BOOLEAN /\ ret'.ids \subseteq Bits
    BY <2>2, AnswerType, PanickedType
  <2> QED BY <1>1, <1>2, <2>1, <2>2, <2>3, PutType
<1>6. ASSUME NEW id \in Elements(r),
             \/ Insert(r, id) \/ Remove(r, id) \/ Toggle(r, id) \/ Contains(r, id)
             \/ \E value \in BOOLEAN : Set(r, id, value)
      PROVE  Checked(id)
  BY <1>6 DEF Insert, Remove, Toggle, Contains, Set
<1> QED BY <1>3, <1>4, <1>5, <1>6

\* What a bit is turned into, if that is defined and if it is not.
LEMMA ConvertedType ==
  ASSUME NEW r \in Names, NEW id \in Bits, AnswerConverted(r, id)
  PROVE  ret'.panic \in BOOLEAN /\ ret'.ids \subseteq Bits
<1>1. (\E v \in Bits : Answer({v})) \/ Panicked
  BY DEF AnswerConverted
<1>2. \A v \in Bits : {v} \in SUBSET Bits
  OBVIOUS
<1> QED BY <1>1, <1>2, AnswerType, PanickedType

LEMMA TakeType ==
  ASSUME TypeOK, loop' \in Loops \cup {NoLoop}, NEW r \in Names,
         \E back \in BOOLEAN : End(r, back) \/ Pop(r, back)
  PROVE  TypeOK'
<1>1. bits[r] \subseteq Bits
  BY DEF TypeOK
<1>2. UNCHANGED Program
  BY DEF End, Pop, Const
<1>3. ret'.panic \in BOOLEAN /\ ret'.ids \subseteq Bits
  <2>1. Answer({}) \/ \E id \in bits[r] : AnswerConverted(r, id)
    BY DEF End, Pop
  <2> QED BY <1>1, <2>1, AnswerType, ConvertedType
<1>4. UNCHANGED <<bits, raw>> \/ \E word \in SUBSET Bits : Change(r, word)
  <2>1. \A id : bits[r] \ {id} \in SUBSET Bits
    BY <1>1
  <2> QED BY <2>1 DEF End, Pop
<1> QED BY <1>2, <1>3, <1>4, KeepType, ChangeType

LEMMA OperatorType ==
  ASSUME TypeOK, Compiles, loop' \in Loops \cup {NoLoop}, NEW q \in Names, NEW r \in Names,
         Complement(q, r) \/ Convert(q, r) \/ \E s \in Names : Operator(q, r, s)
  PROVE  TypeOK'
<1>1. /\ UNCHANGED Program
      /\ ret'.panic \in BOOLEAN /\ ret'.ids \subseteq Bits
  BY AnswerType DEF Complement, Convert, Operator, Const
<1>2. /\ \A s \in Names : bits[s] \subseteq Bits /\ raw[s] \in BOOLEAN
      /\ Flags(r) \subseteq Bits
  BY FlagsFit DEF TypeOK
<1>3. CASE Complement(q, r)
  <2>1. Not(r) \in SUBSET Bits
    BY <1>2 DEF Not
  <2> QED BY <1>1, <1>3, <2>1, PutType DEF Complement
<1>4. CASE Convert(q, r)
  <2>1. (raw[r] \/ ~ (Flags(r) \subseteq Flags(q))) \in BOOLEAN
    BY <1>2
  <2> QED BY <1>1, <1>2, <1>4, <2>1, PutType DEF Convert
<1>5. ASSUME NEW s \in Names, Operator(q, r, s) PROVE TypeOK'
  <2>1. /\ bits[r] \cup bits[s] \in SUBSET Bits /\ bits[r] \cap bits[s] \in SUBSET Bits
        /\ bits[r] \ bits[s] \in SUBSET Bits
        /\ (bits[r] \ bits[s]) \cup (bits[s] \ bits[r]) \in SUBSET Bits
        /\ (raw[r] \/ raw[s]) \in BOOLEAN /\ (raw[r] /\ raw[s]) \in BOOLEAN
        /\ raw[r] \in BOOLEAN
    BY <1>2
  <2>2. \E word \in SUBSET Bits, unknown \in BOOLEAN : Put(q, word, unknown)
    BY <1>5, <2>1 DEF Operator
  <2> QED BY <1>1, <2>2, PutType
<1> QED BY <1>3, <1>4, <1>5

LEMMA BatchType ==
  ASSUME TypeOK, Compiles, loop' \in Loops \cup {NoLoop},
         NEW r \in Names, NEW batch \in SUBSET Names,
         CollectSets(r, batch) \/ ExtendSets(r, batch)
  PROVE  TypeOK'
<1>1. /\ UNCHANGED Program
      /\ ret'.panic \in BOOLEAN /\ ret'.ids \subseteq Bits
  BY AnswerType DEF CollectSets, ExtendSets, Const
<1>2. /\ United(batch) \in SUBSET Bits /\ bits[r] \cup United(batch) \in SUBSET Bits
      /\ AnyRaw(batch) \in BOOLEAN /\ (raw[r] \/ AnyRaw(batch)) \in BOOLEAN
  <2>1. \A s \in batch : bits[s] \subseteq Bits /\ raw[s] \in BOOLEAN
    BY DEF TypeOK
  <2>2. bits[r] \subseteq Bits /\ raw[r] \in BOOLEAN
    BY DEF TypeOK
  <2>3. United(batch) \subseteq Bits
    BY <2>1 DEF United
  <2> QED BY <2>2, <2>3 DEF AnyRaw
<1>3. CASE Put(r, United(batch), AnyRaw(batch))
  BY <1>1, <1>2, <1>3, PutType
<1>4. CASE Put(r, bits[r] \cup United(batch), raw[r] \/ AnyRaw(batch))
  BY <1>1, <1>2, <1>4, PutType
<1> QED BY <1>3, <1>4 DEF CollectSets, ExtendSets

LEMMA CallType ==
  ASSUME TypeOK, Compiles, loop' \in Loops \cup {NoLoop}, NEW r \in Names, Call(r)
  PROVE  TypeOK'
BY ConstructorType, ElementType, TakeType, OperatorType, BatchType DEF Call

-----------------------------------------------------------------------------
\* The loops of pop and retain.

\* In a compiled enum, TryFrom<u8> takes the flags and nothing else.
LEMMA TryFromFlags ==
  ASSUME Compiles, NEW r \in Names, form[r].enum, NEW id
  PROVE  Converts(r, id) <=> id \in Flags(r)
BY DEF Compiles, EnumCompiles, Table, Flags, AllMask, TryFromOk, Converts

\* What a loop relies on: the bits it has left are in the set; a plain set is as it
\* was, and what retain will store is part of it, with every bit that is no flag;
\* a pop has passed over no flag.
LoopInv ==
  loop # NoLoop =>
    LET r == loop.set IN
    /\ loop.left \subseteq bits[r]
    /\ ~ form[r].atomic => loop.was = bits[r] /\ loop.word \subseteq bits[r]
    /\ form[r].enum /\ ~ form[r].atomic => Unknown(r) \subseteq loop.word
    /\ loop.op = "pop" =>
         form[r].enum /\ ~ form[r].atomic /\ bits[r] \cap Flags(r) \subseteq loop.left

IInv == TypeOK /\ Inv /\ LoopInv

LEMMA Types ==
  ASSUME TypeOK, NEW r \in Names
  PROVE  /\ DOMAIN bits = Names /\ bits[r] \subseteq Bits /\ raw[r] \in BOOLEAN
         /\ form[r].enum \in BOOLEAN /\ form[r].atomic \in BOOLEAN
         /\ Going(r) => loop \in Loops
BY FormsAssumption DEF TypeOK, Going, NoLoop

LEMMA BeginStep ==
  ASSUME IInv, NEW r \in Names, NEW op \in {"pop", "retain"}, NEW back \in BOOLEAN,
         op = "pop" => form[r].enum /\ ~ form[r].atomic, Begin(r, op, back)
  PROVE  IInv'
<1>1. UNCHANGED Program /\ UNCHANGED <<bits, raw>>
  BY DEF Begin, Const
<1>2. bits[r] \in SUBSET Bits
  BY Types DEF IInv
<1>3. loop' \in Loops
  BY <1>2 DEF Begin, Loops
<1>4. TypeOK'
  <2>1. ret'.panic \in BOOLEAN /\ ret'.ids \subseteq Bits
    BY AnswerType DEF Begin
  <2> QED BY <1>1, <1>3, <2>1, KeepType DEF IInv
<1>5. Inv'
  BY <1>1, KeepInv DEF IInv
<1>6. LoopInv'
  <2>1. /\ loop'.set = r /\ loop'.left = bits[r] /\ loop'.was = bits[r]
        /\ loop'.word = bits[r] /\ loop'.op = op
    BY DEF Begin
  <2>2. Unknown(r)' = Unknown(r) /\ Flags(r)' = Flags(r) /\ form' = form
    BY <1>1, SameProgram DEF Unknown, Program
  <2>3. Unknown(r) \subseteq bits[r]
    BY DEF Unknown
  <2> QED BY <1>1, <2>1, <2>2, <2>3 DEF LoopInv
<1> QED BY <1>4, <1>5, <1>6 DEF IInv

\* What a step does at a bit.
LEMMA ProceedStep ==
  ASSUME IInv, NEW r \in Names, NEW id, AtBit(r, id), NEW word \in SUBSET Bits,
         Proceed(id, word), UNCHANGED Program
  PROVE  /\ loop \in Loops /\ loop' \in Loops /\ loop # NoLoop /\ loop' # NoLoop
         /\ loop.set = r /\ loop'.set = r /\ loop'.op = loop.op /\ loop'.was = loop.was
         /\ loop'.left = loop.left \ {id} /\ loop'.word = word
         /\ id \in loop.left /\ id \in Bits
         /\ Flags(r)' = Flags(r) /\ form' = form
<1>1. loop \in Loops /\ loop.op # "none" /\ loop.set = r /\ id \in loop.left
  BY Types DEF IInv, AtBit, Going, IsEnd
<1>2. loop' = [loop EXCEPT !.left = @ \ {id}, !.word = word]
  BY DEF Proceed
<1>3. loop.left \in SUBSET Bits
  BY <1>1 DEF Loops
<1>4. /\ loop' \in Loops /\ loop'.set = r /\ loop'.op = loop.op /\ loop'.was = loop.was
      /\ loop'.left = loop.left \ {id} /\ loop'.word = word
  BY <1>1, <1>2, <1>3 DEF Loops
<1>5. loop'.op # "none"
  BY <1>1, <1>4
<1>6. loop # NoLoop /\ loop' # NoLoop
  BY <1>1, <1>5 DEF NoLoop
<1> QED BY <1>1, <1>3, <1>4, <1>6, SameProgram DEF Program

LEMMA SkipStep ==
  ASSUME IInv, NEW r \in Names, NEW id \in Bits, Skip(r, id)
  PROVE  IInv' /\ UNCHANGED <<bits, raw>>
<1>1. /\ UNCHANGED Program /\ UNCHANGED <<bits, raw>> /\ Answer({})
      /\ AtBit(r, id) /\ Proceed(id, loop.word) /\ ~ Converts(r, id) /\ ~ form[r].atomic
  BY DEF Skip, Const
<1>2. loop.word \in SUBSET Bits
  BY <1>1, Types DEF IInv, AtBit, Loops
<1>3. /\ loop \in Loops /\ loop' \in Loops /\ loop # NoLoop
      /\ loop.set = r /\ loop'.set = r /\ loop'.op = loop.op /\ loop'.was = loop.was
      /\ loop'.left = loop.left \ {id} /\ loop'.word = loop.word
      /\ Flags(r)' = Flags(r) /\ form' = form
  BY <1>1, <1>2, ProceedStep
<1>4. TypeOK'
  <2>1. ret'.panic \in BOOLEAN /\ ret'.ids \subseteq Bits
    BY <1>1, AnswerType
  <2> QED BY <1>1, <1>3, <2>1, KeepType DEF IInv
<1>5. Inv'
  BY <1>1, KeepInv DEF IInv
<1>6. form[r].enum /\ id \notin Flags(r)
  <2>1. form[r].enum
    BY <1>1 DEF Converts
  <2> QED BY <1>1, <2>1, TryFromFlags DEF IInv, Inv
<1>7. LoopInv'
  <2>1. Unknown(r)' = Unknown(r)
    BY <1>1, <1>3 DEF Unknown
  <2>2. /\ loop.left \subseteq bits[r]
        /\ ~ form[r].atomic => loop.was = bits[r] /\ loop.word \subseteq bits[r]
        /\ form[r].enum /\ ~ form[r].atomic => Unknown(r) \subseteq loop.word
        /\ loop.op = "pop" => bits[r] \cap Flags(r) \subseteq loop.left
    BY <1>3 DEF IInv, LoopInv
  <2> QED BY <1>1, <1>3, <1>6, <2>1, <2>2 DEF LoopInv
<1> QED BY <1>1, <1>4, <1>5, <1>7 DEF IInv

LEMMA RetainBitStep ==
  ASSUME IInv, NEW r \in Names, NEW id \in Bits, NEW kept \in BOOLEAN, RetainBit(r, id, kept)
  PROVE  IInv'
<1> DEFINE refused == IF kept THEN {} ELSE {id}
<1>1. /\ UNCHANGED Program /\ Answer({}) /\ AtBit(r, id) /\ loop.op = "retain"
      /\ Proceed(id, loop.word \ refused)
      /\ Converts(r, id) \/ form[r].atomic
      /\ IF form[r].atomic THEN Change(r, bits[r] \ refused) ELSE UNCHANGED <<bits, raw>>
  BY DEF RetainBit, Shown, Const
<1>2. loop.word \ refused \in SUBSET Bits
  BY <1>1, Types DEF IInv, AtBit, Loops
<1>3. /\ loop \in Loops /\ loop' \in Loops /\ loop # NoLoop
      /\ loop.set = r /\ loop'.set = r /\ loop'.op = loop.op /\ loop'.was = loop.was
      /\ loop'.left = loop.left \ {id} /\ loop'.word = loop.word \ refused
      /\ Flags(r)' = Flags(r) /\ form' = form
  <2> HIDE DEF refused
  <2> QED BY <1>1, <1>2, ProceedStep
<1>4. form[r].atomic \in BOOLEAN /\ form[r].enum \in BOOLEAN /\ bits[r] \in SUBSET Bits
  BY Types DEF IInv
<1>5. /\ bits[r] \ refused \in SUBSET Bits /\ bits[r] \ refused \subseteq bits[r]
      /\ refused \subseteq {id}
  BY <1>4
<1>6. /\ loop.left \subseteq bits[r]
      /\ ~ form[r].atomic => loop.was = bits[r] /\ loop.word \subseteq bits[r]
      /\ form[r].enum /\ ~ form[r].atomic => Unknown(r) \subseteq loop.word
  BY <1>3 DEF IInv, LoopInv
<1> HIDE DEF refused
<1>7. ret'.panic \in BOOLEAN /\ ret'.ids \subseteq Bits
  BY <1>1, AnswerType
<1>8. CASE form[r].atomic
  <2>1. TypeOK'
    BY <1>1, <1>3, <1>5, <1>7, <1>8, ChangeType DEF IInv
  <2>2. Inv'
    BY <1>1, <1>5, <1>8, ChangeInv DEF IInv
  <2>3. bits'[r] = bits[r] \ refused
    BY <1>1, <1>8, Types DEF IInv, Change, Put
  <2>4. LoopInv'
    BY <1>1, <1>3, <1>5, <1>6, <1>8, <2>3 DEF LoopInv
  <2> QED BY <2>1, <2>2, <2>4 DEF IInv
<1>9. CASE ~ form[r].atomic
  <2>1. TypeOK'
    BY <1>1, <1>3, <1>7, <1>9, KeepType DEF IInv
  <2>2. Inv'
    BY <1>1, <1>9, KeepInv DEF IInv
  <2>3. form[r].enum => id \in Flags(r)
    BY <1>1, <1>9, TryFromFlags DEF IInv, Inv
  <2>4. Unknown(r)' = Unknown(r)
    BY <1>1, <1>3, <1>9 DEF Unknown
  <2>5. form[r].enum => Unknown(r) \subseteq loop.word \ refused
    BY <1>5, <1>6, <1>9, <2>3 DEF Unknown
  <2>6. LoopInv'
    BY <1>1, <1>3, <1>6, <1>9, <2>4, <2>5 DEF LoopInv
  <2> QED BY <2>1, <2>2, <2>6 DEF IInv
<1> QED BY <1>4, <1>8, <1>9

\* The steps that end a loop: the answer, the end of retain, a panic.
LEMMA ReturnStep ==
  ASSUME IInv, NEW r \in Names,
         \/ PopEnd(r) \/ RetainEnd(r)
         \/ \E id \in Bits : PopBit(r, id) \/ RetainPanic(r, id)
  PROVE  IInv' /\ loop' = NoLoop /\ loop # NoLoop /\ loop.set = r
<1>1. UNCHANGED Program /\ loop' = NoLoop
  BY DEF PopEnd, RetainEnd, PopBit, RetainPanic, Return, Const
<1>2. loop # NoLoop /\ loop.set = r /\ Going(r)
  <2>1. CASE PopEnd(r) \/ RetainEnd(r)
    BY <2>1 DEF PopEnd, RetainEnd, In, Going, NoLoop
  <2>2. CASE \E id \in Bits : PopBit(r, id) \/ RetainPanic(r, id)
    BY <2>2 DEF PopBit, RetainPanic, AtBit, Going, NoLoop
  <2> QED BY <2>1, <2>2
<1>3. bits[r] \subseteq Bits /\ form[r].atomic \in BOOLEAN /\ loop \in Loops
  BY <1>2, Types DEF IInv
<1>4. ret'.panic \in BOOLEAN /\ ret'.ids \subseteq Bits
  <2>1. CASE PopEnd(r) \/ RetainEnd(r)
    BY <2>1, AnswerType DEF PopEnd, RetainEnd, Return
  <2>2. ASSUME NEW id \in Bits, PopBit(r, id)
        PROVE  ret'.panic \in BOOLEAN /\ ret'.ids \subseteq Bits
    BY <2>2, AnswerType DEF PopBit, Return
  <2>3. ASSUME NEW id \in Bits, RetainPanic(r, id)
        PROVE  ret'.panic \in BOOLEAN /\ ret'.ids \subseteq Bits
    BY <2>3, PanickedType DEF RetainPanic, Panic
  <2> QED BY <2>1, <2>2, <2>3
<1>5. \/ UNCHANGED <<bits, raw>>
      \/ \E word \in SUBSET bits[r] : Change(r, word)
  <2>1. \A id : bits[r] \ {id} \in SUBSET bits[r]
    OBVIOUS
  <2>2. ~ form[r].atomic => loop.word \in SUBSET bits[r]
    BY <1>2 DEF IInv, LoopInv
  <2> QED BY <1>3, <2>1, <2>2 DEF PopEnd, RetainEnd, PopBit, RetainPanic, Panic
<1>6. TypeOK'
  <2>1. TypeOK
    BY DEF IInv
  <2>2. CASE UNCHANGED <<bits, raw>>
    BY <1>1, <1>4, <2>1, <2>2, KeepType
  <2>3. ASSUME NEW word \in SUBSET bits[r], Change(r, word) PROVE TypeOK'
    BY <1>1, <1>3, <1>4, <2>1, <2>3, ChangeType
  <2> QED BY <1>5, <2>2, <2>3
<1>7. Inv'
  BY <1>1, <1>5, KeepInv, ChangeInv DEF IInv
<1>8. LoopInv'
  BY <1>1 DEF LoopInv
<1> QED BY <1>1, <1>2, <1>6, <1>7, <1>8 DEF IInv

\* The program is compiled, no set holds an unknown bit it did not ask for, and the
\* loops are where they are.
THEOREM Invariant == Spec => []IInv
<1>1. Init => IInv
  BY DEF Init, IInv, Inv, TypeOK, LoopInv, KnownOnly, Known
<1>2. ASSUME IInv, [Next]_vars PROVE IInv'
  <2>1. CASE Next
    <3>1. PICK r \in Names : (loop = NoLoop /\ Call(r) /\ UNCHANGED loop) \/ LoopStep(r)
      BY <2>1 DEF Next
    <3>2. CASE loop = NoLoop /\ Call(r) /\ UNCHANGED loop
      <4>1. loop' = NoLoop /\ Compiles
        BY <1>2, <3>2 DEF IInv, Inv
      <4>2. TypeOK' /\ Inv'
        BY <1>2, <3>2, <4>1, CallType, CallInv DEF IInv
      <4> QED BY <4>1, <4>2 DEF IInv, LoopInv
    <3>3. CASE \E back \in BOOLEAN : PopLoop(r, back)
      BY <1>2, <3>3, BeginStep DEF PopLoop
    <3>4. CASE Retain(r)
      <4>1. Begin(r, "retain", FALSE)
        BY <3>4 DEF Retain
      <4> QED BY <1>2, <4>1, BeginStep
    <3>5. CASE \/ PopEnd(r) \/ RetainEnd(r)
               \/ \E id \in Bits : PopBit(r, id) \/ RetainPanic(r, id)
      BY <1>2, <3>5, ReturnStep
    <3>6. CASE \E id \in Bits : Skip(r, id) \/ \E kept \in BOOLEAN : RetainBit(r, id, kept)
      BY <1>2, <3>6, SkipStep, RetainBitStep
    <3> QED BY <3>1, <3>2, <3>3, <3>4, <3>5, <3>6 DEF LoopStep
  <2>2. CASE UNCHANGED vars
    <3>1. TypeOK'
      BY <1>2, <2>2 DEF IInv, vars, TypeOK
    <3>2. Inv'
      BY <1>2, <2>2, KeepInv DEF IInv, vars, Program
    <3>3. LoopInv'
      BY <1>2, <2>2, SameProgram DEF IInv, vars, Program, LoopInv, Unknown, Flags, Table
    <3> QED BY <3>1, <3>2, <3>3 DEF IInv
  <2> QED BY <1>2, <2>1, <2>2
<1> QED BY <1>1, <1>2, PTL DEF Spec

\* A bit without a flag is in a set only if the program has put one there.
THEOREM NothingMadeUp == Spec => []KnownOnly
<1>1. IInv => KnownOnly
  BY DEF IInv, Inv
<1> QED BY <1>1, Invariant, PTL

\* A word stays within the storage, for any declarations, forms and arguments.
THEOREM TypeCorrect == Spec => []TypeOK
<1>1. IInv => TypeOK
  BY DEF IInv
<1> QED BY <1>1, Invariant, PTL

\* While a loop is going, the steps are its own.
LEMMA GoingStep ==
  ASSUME Next, NEW r \in Names, Going(r)
  PROVE  \/ PopEnd(r) \/ RetainEnd(r)
         \/ \E id \in Bits : \/ Skip(r, id) \/ PopBit(r, id) \/ RetainPanic(r, id)
                             \/ \E kept \in BOOLEAN : RetainBit(r, id, kept)
<1>1. loop # NoLoop
  BY DEF Going, NoLoop
<1>2. PICK q \in Names : LoopStep(q)
  BY <1>1 DEF Next
<1>3. ~ Retain(q) /\ \A back \in BOOLEAN : ~ PopLoop(q, back)
  BY <1>1 DEF Retain, PopLoop, Begin
<1>4. q = r
  BY <1>2, <1>3 DEF LoopStep, PopEnd, RetainEnd, Skip, PopBit, RetainPanic, RetainBit,
                    Shown, AtBit, In, Going
<1> QED BY <1>2, <1>3, <1>4 DEF LoopStep

\* The loops lose no unknown bit.
LEMMA LoopKeeps ==
  ASSUME IInv, Next, NEW r \in Names, form[r].enum, Going(r), form[r].atomic => debug
  PROVE  Unknown(r)' = Unknown(r)
<1>1. /\ loop # NoLoop /\ loop.set = r /\ loop.left \subseteq bits[r]
      /\ DOMAIN bits = Names /\ Compiles /\ form[r].atomic \in BOOLEAN
  BY Types DEF IInv, Inv, LoopInv, Going, NoLoop
<1>2. ASSUME UNCHANGED Program, UNCHANGED bits PROVE Unknown(r)' = Unknown(r)
  BY <1>2, SameProgram DEF Unknown
<1>3. ASSUME NEW id, Converts(r, id), Change(r, bits[r] \ {id}), UNCHANGED Program
      PROVE  Unknown(r)' = Unknown(r)
  <2>1. id \in Flags(r) /\ Flags(r)' = Flags(r)
    BY <1>1, <1>3, TryFromFlags, SameProgram
  <2>2. bits'[r] = bits[r] \ {id}
    BY <1>1, <1>3 DEF Change, Put
  <2> QED BY <2>1, <2>2 DEF Unknown
<1>4. CASE PopEnd(r) \/ \E id \in Bits : Skip(r, id) \/ RetainPanic(r, id)
  BY <1>2, <1>4 DEF PopEnd, Skip, RetainPanic, Return, Panic, Const
<1>5. ASSUME NEW id \in Bits, PopBit(r, id) PROVE Unknown(r)' = Unknown(r)
  BY <1>3, <1>5 DEF PopBit, Return, Const
<1>6. ASSUME NEW id \in Bits, NEW kept \in BOOLEAN, RetainBit(r, id, kept)
      PROVE  Unknown(r)' = Unknown(r)
  <2>1. UNCHANGED Program /\ Converts(r, id)
    BY <1>6 DEF RetainBit, Shown, Const
  <2>2. CASE ~ form[r].atomic
    BY <1>2, <1>6, <2>1, <2>2 DEF RetainBit
  <2>3. CASE form[r].atomic /\ kept
    <3>1. Change(r, bits[r])
      <4>1. bits[r] \ {} = bits[r]
        OBVIOUS
      <4> QED BY <1>6, <2>3, <4>1 DEF RetainBit
    <3>2. bits'[r] = bits[r]
      BY <1>1, <3>1 DEF Change, Put
    <3> QED BY <2>1, <3>2, SameProgram DEF Unknown
  <2>4. CASE form[r].atomic /\ ~ kept
    BY <1>3, <1>6, <2>1, <2>4 DEF RetainBit
  <2> QED BY <1>1, <2>2, <2>3, <2>4
<1>7. CASE RetainEnd(r)
  <2>1. UNCHANGED Program
    BY <1>7 DEF RetainEnd, Return, Const
  <2>2. CASE form[r].atomic
    BY <1>2, <1>7, <2>1, <2>2 DEF RetainEnd
  <2>3. CASE ~ form[r].atomic
    <3>1. bits'[r] = loop.word
      BY <1>1, <1>7, <2>3 DEF RetainEnd, Change, Put
    <3>2. Unknown(r) \subseteq loop.word /\ loop.word \subseteq bits[r]
      BY <1>1, <2>3 DEF IInv, LoopInv
    <3>3. Flags(r)' = Flags(r)
      BY <2>1, SameProgram
    <3> QED BY <3>1, <3>2, <3>3 DEF Unknown
  <2> QED BY <1>1, <2>2, <2>3
<1> QED BY <1>4, <1>5, <1>6, <1>7, GoingStep

\* A pop of a plain enum-form set ends with the flag at the end, or without a flag.
LEMMA PopAnswers ==
  ASSUME IInv, Next, NEW r \in Names, form[r].enum, In(r, "pop"), loop' = NoLoop
  PROVE  /\ ret'.ids = {} => bits'[r] \cap Flags(r) = {}
         /\ \A id \in ret'.ids :
              IsEnd(id, bits[r] \cap Flags(r), loop.back) /\ bits'[r] = bits[r] \ {id}
<1>1. Going(r) /\ loop # NoLoop /\ loop.set = r /\ loop.op = "pop"
  BY DEF In, Going, NoLoop
<1>2. /\ loop.left \subseteq bits[r] /\ bits[r] \cap Flags(r) \subseteq loop.left
      /\ DOMAIN bits = Names /\ Compiles
  BY <1>1 DEF IInv, Inv, LoopInv
<1>3. CASE PopEnd(r)
  <2>1. loop.left = {} /\ ret'.ids = {} /\ bits' = bits
    BY <1>3 DEF PopEnd, Return, Answer
  <2> QED BY <1>2, <2>1
<1>4. ASSUME NEW id \in Bits, PopBit(r, id)
      PROVE  /\ ret'.ids = {id} /\ bits'[r] = bits[r] \ {id}
             /\ IsEnd(id, bits[r] \cap Flags(r), loop.back)
  <2>1. /\ ret'.ids = {id} /\ IsEnd(id, loop.left, loop.back) /\ Converts(r, id)
        /\ Change(r, bits[r] \ {id})
    BY <1>4 DEF PopBit, Return, Answer, AtBit
  <2>2. id \in bits[r] \cap Flags(r)
    BY <1>2, <2>1, TryFromFlags DEF IsEnd
  <2>3. IsEnd(id, bits[r] \cap Flags(r), loop.back)
    BY <1>2, <2>1, <2>2 DEF IsEnd
  <2>4. bits'[r] = bits[r] \ {id}
    BY <1>2, <2>1 DEF Change, Put
  <2> QED BY <2>1, <2>3, <2>4
<1>5. ASSUME NEW id \in Bits PROVE ~ Skip(r, id)
  <2> SUFFICES ASSUME Skip(r, id) PROVE FALSE
    OBVIOUS
  <2>1. AtBit(r, id) /\ Proceed(id, loop.word) /\ UNCHANGED Program /\ loop.word \in SUBSET Bits
    BY <1>1, Types DEF IInv, Skip, Const, Loops
  <2> QED BY <2>1, ProceedStep
<1>6. ~ RetainEnd(r) /\ \A id \in Bits : ~ RetainPanic(r, id) /\ \A kept \in BOOLEAN : ~ RetainBit(r, id, kept)
  BY <1>1 DEF RetainEnd, RetainPanic, RetainBit, Shown, In
<1>7. PopEnd(r) \/ \E id \in Bits : PopBit(r, id)
  BY <1>1, <1>5, <1>6, GoingStep
<1>8. CASE \E id \in Bits : PopBit(r, id)
  <2>1. PICK id \in Bits : PopBit(r, id)
    BY <1>8
  <2> QED BY <1>4, <2>1
<1> QED BY <1>3, <1>7, <1>8

\* An atomic pop that takes an unknown bit does not answer, with debug checks.
LEMMA PopTakes ==
  ASSUME IInv, NEW r \in Names, form[r].enum, NEW back \in BOOLEAN, Pop(r, back)
  PROVE  \/ Unknown(r)' = Unknown(r)
         \/ /\ \E id \in Unknown(r) : bits' = [bits EXCEPT ![r] = @ \ {id}]
            /\ form[r].atomic /\ (debug => ret'.panic)
<1>1. UNCHANGED Program /\ DOMAIN bits = Names /\ Compiles /\ form[r].atomic
  BY DEF Pop, Const, IInv, Inv
<1>2. Flags(r)' = Flags(r)
  BY <1>1, SameProgram
<1>3. CASE UNCHANGED bits
  BY <1>2, <1>3 DEF Unknown
<1>4. ASSUME NEW id \in bits[r], Change(r, bits[r] \ {id}), AnswerConverted(r, id)
      PROVE  \/ Unknown(r)' = Unknown(r)
             \/ id \in Unknown(r) /\ (debug => ret'.panic) /\ bits' = [bits EXCEPT ![r] = @ \ {id}]
  <2>1. bits' = [bits EXCEPT ![r] = @ \ {id}] /\ bits'[r] = bits[r] \ {id}
    BY <1>1, <1>4 DEF Change, Put
  <2>2. CASE Converts(r, id)
    BY <1>1, <1>2, <2>1, <2>2, TryFromFlags DEF Unknown
  <2>3. CASE ~ Converts(r, id)
    BY <1>1, <1>4, <2>1, <2>3, TryFromFlags DEF Unknown, AnswerConverted, Panicked
  <2> QED BY <2>2, <2>3
<1> QED BY <1>1, <1>3, <1>4 DEF Pop

\* The loops of enum-form sets keep their unknown bits, and pop_first and pop_last
\* give up only when no flag is left; the pops of an atomic set that take such a bit
\* do not answer.
THEOREM UnknownBitsKept == Spec => UnknownKept
<1> DEFINE Kept ==
      \A r \in Names : form[r].enum =>
       /\ Going(r) /\ (form[r].atomic => debug) => Unknown(r)' = Unknown(r)
       /\ In(r, "pop") /\ loop' = NoLoop =>
            /\ ret'.ids = {} => bits'[r] \cap Flags(r) = {}
            /\ \A id \in ret'.ids :
                 IsEnd(id, bits[r] \cap Flags(r), loop.back) /\ bits'[r] = bits[r] \ {id}
       /\ \A back \in BOOLEAN :
            loop = NoLoop /\ Pop(r, back) /\ debug /\ Unknown(r)' # Unknown(r) => ret'.panic
<1>1. ASSUME IInv, Next PROVE Kept
  <2> SUFFICES ASSUME NEW r \in Names, form[r].enum
               PROVE  /\ Going(r) /\ (form[r].atomic => debug) => Unknown(r)' = Unknown(r)
                      /\ In(r, "pop") /\ loop' = NoLoop =>
                           /\ ret'.ids = {} => bits'[r] \cap Flags(r) = {}
                           /\ \A id \in ret'.ids :
                                /\ IsEnd(id, bits[r] \cap Flags(r), loop.back)
                                /\ bits'[r] = bits[r] \ {id}
                      /\ \A back \in BOOLEAN :
                           loop = NoLoop /\ Pop(r, back) /\ debug /\ Unknown(r)' # Unknown(r)
                             => ret'.panic
    OBVIOUS
  <2>1. Going(r) /\ (form[r].atomic => debug) => Unknown(r)' = Unknown(r)
    BY <1>1, LoopKeeps
  <2>2. In(r, "pop") /\ loop' = NoLoop =>
          /\ ret'.ids = {} => bits'[r] \cap Flags(r) = {}
          /\ \A id \in ret'.ids :
               /\ IsEnd(id, bits[r] \cap Flags(r), loop.back)
               /\ bits'[r] = bits[r] \ {id}
    BY <1>1, PopAnswers
  <2>3. ASSUME NEW back \in BOOLEAN, Pop(r, back), debug, Unknown(r)' # Unknown(r)
        PROVE  ret'.panic
    BY <1>1, <2>3, PopTakes
  <2> QED BY <2>1, <2>2, <2>3
<1>2. IInv /\ [Next]_vars => [Kept]_vars
  <2> HIDE DEF Kept
  <2> QED BY <1>1
<1> QED BY <1>2, Invariant, PTL DEF Spec, UnknownKept

\* Which calls of one step can panic: those that have changed nothing, extend, and
\* the pops.
LEMMA CallPanics ==
  ASSUME NEW r \in Names, Call(r), ret'.panic
  PROVE  \/ UNCHANGED bits
         \/ \E ids \in SUBSET Elements(r) : Extend(r, ids)
         \/ \E back \in BOOLEAN : Pop(r, back)
<1>1. \A ids : ~ Answer(ids)
  BY DEF Answer
<1>2. ~ New(r) /\ ~ All(r) /\ ~ Clear(r)
  BY <1>1 DEF New, All, Clear
<1>3. \A word \in SUBSET Bits :
        /\ ~ FromBits(r, word) /\ ~ FromBitsTruncate(r, word)
        /\ ~ FromBitsRetain(r, word) /\ ~ SwapBits(r, word)
  BY <1>1 DEF FromBits, FromBitsTruncate, FromBitsRetain, SwapBits
<1>4. ASSUME NEW ids \in SUBSET Elements(r), FromSlice(r, ids) \/ FromIter(r, ids)
      PROVE  UNCHANGED bits
  BY <1>1, <1>4 DEF FromSlice, FromIter, Make, Panic
<1>5. ASSUME NEW id \in Elements(r), FromElement(r, id) \/ CheckBitIndex(r, id)
      PROVE  UNCHANGED bits
  BY <1>1, <1>5 DEF FromElement, CheckBitIndex, Make, Panic
<1>6. \A id \in Elements(r) :
        /\ ~ Insert(r, id) /\ ~ Remove(r, id) /\ ~ Toggle(r, id) /\ ~ Contains(r, id)
        /\ \A value \in BOOLEAN : ~ Set(r, id, value)
  BY <1>1 DEF Insert, Remove, Toggle, Contains, Set
<1>7. ASSUME NEW back \in BOOLEAN, End(r, back) PROVE UNCHANGED bits
  BY <1>7 DEF End
<1>8. \A batch \in SUBSET Names : ~ CollectSets(r, batch) /\ ~ ExtendSets(r, batch)
  BY <1>1 DEF CollectSets, ExtendSets
<1>9. \A q \in Names :
        ~ Complement(q, r) /\ ~ Convert(q, r) /\ \A s \in Names : ~ Operator(q, r, s)
  BY <1>1 DEF Complement, Convert, Operator
<1> QED BY <1>2, <1>3, <1>4, <1>5, <1>6, <1>7, <1>8, <1>9 DEF Call

\* A panic in the middle of a call costs a plain set nothing, and an atomic set
\* nothing but what the call had done by then.
THEOREM PanicKeeps == Spec => PanicsConfined
<1> DEFINE Lost(r) == (IF Going(r) THEN loop.was ELSE bits[r]) \ bits'[r]
           Confined ==
             ret'.panic => \A r \in Names :
               LET lost == (IF Going(r) THEN loop.was ELSE bits[r]) \ bits'[r] IN
               /\ ~ form[r].atomic => lost = {}
               /\ IF Going(r) THEN lost \cap loop.left = {} ELSE lost \subseteq Unknown(r)
<1>1. ASSUME IInv, Next, ret'.panic, NEW r \in Names
      PROVE  /\ ~ form[r].atomic => Lost(r) = {}
             /\ IF Going(r) THEN Lost(r) \cap loop.left = {} ELSE Lost(r) \subseteq Unknown(r)
  <2>1. DOMAIN bits = Names
    BY <1>1 DEF IInv, Inv
  <2>2. CASE Going(r)
    <3>1. \A ids : ~ Answer(ids)
      BY <1>1 DEF Answer
    <3>2. \E id \in Bits : RetainPanic(r, id)
      BY <1>1, <2>2, <3>1, GoingStep
         DEF PopEnd, RetainEnd, Skip, PopBit, RetainBit, Return
    <3>3. bits' = bits
      BY <3>2 DEF RetainPanic, Panic
    <3>4. loop # NoLoop /\ loop.set = r
      BY <2>2 DEF Going, NoLoop
    <3>5. loop.left \subseteq bits[r] /\ (~ form[r].atomic => loop.was = bits[r])
      BY <1>1, <3>4 DEF IInv, LoopInv
    <3> QED BY <2>2, <3>3, <3>5
  <2>3. CASE ~ Going(r)
    <3>1. CASE UNCHANGED bits
      BY <2>3, <3>1
    <3>2. ASSUME NEW q \in Names, NEW ids \in SUBSET Elements(q), Extend(q, ids)
          PROVE  bits[r] \subseteq bits'[r]
      BY <2>1, <3>2 DEF Extend, Put
    <3>3. ASSUME NEW q \in Names, NEW back \in BOOLEAN, Pop(q, back)
          PROVE  \/ bits[r] \subseteq bits'[r]
                 \/ form[r].atomic /\ bits[r] \ bits'[r] \subseteq Unknown(r)
      <4>1. PICK id \in bits[q] :
              Change(q, bits[q] \ {id}) /\ ~ Converts(q, id)
        BY <1>1, <3>3 DEF Pop, AnswerConverted, Answer
      <4>2. form[q].enum /\ form[q].atomic /\ id \notin Flags(q)
        <5>1. form[q].enum /\ Compiles
          BY <1>1, <4>1 DEF Converts, IInv, Inv
        <5> QED BY <3>3, <4>1, <5>1, TryFromFlags DEF Pop
      <4>3. bits' = [bits EXCEPT ![q] = bits[q] \ {id}]
        BY <4>1 DEF Change, Put
      <4>4. CASE q = r
        <5>1. bits'[r] = bits[r] \ {id}
          BY <2>1, <4>3, <4>4
        <5> QED BY <4>2, <4>4, <5>1 DEF Unknown
      <4>5. CASE q # r
        BY <2>1, <4>3, <4>5
      <4> QED BY <4>4, <4>5
    <3>4. ASSUME loop # NoLoop PROVE bits[r] \subseteq bits'[r]
      <4>1. PICK q \in Names : Going(q)
        <5>1. loop \in Loops
          BY <1>1, <3>4 DEF IInv, TypeOK
        <5> QED BY <5>1 DEF Loops, Going
      <4>2. \A ids : ~ Answer(ids)
        BY <1>1 DEF Answer
      <4>3. \E id \in Bits : RetainPanic(q, id)
        BY <1>1, <4>1, <4>2, GoingStep
           DEF PopEnd, RetainEnd, Skip, PopBit, RetainBit, Return
      <4> QED BY <4>3 DEF RetainPanic, Panic
    <3>5. ASSUME loop = NoLoop PROVE \E q \in Names : Call(q)
      <4>1. PICK q \in Names : Call(q) \/ LoopStep(q)
        BY <1>1 DEF Next
      <4>2. ~ LoopStep(q)
        BY <1>1, <3>5 DEF LoopStep, PopLoop, Retain, Begin, Answer, PopEnd, RetainEnd, In,
                         Skip, PopBit, RetainPanic, RetainBit, Shown, AtBit, Going, NoLoop
      <4> QED BY <4>1, <4>2
    <3>6. \/ bits[r] \subseteq bits'[r]
          \/ form[r].atomic /\ bits[r] \ bits'[r] \subseteq Unknown(r)
      BY <1>1, <3>2, <3>3, <3>4, <3>5, CallPanics
    <3> QED BY <2>3, <3>6
  <2> QED BY <2>2, <2>3
<1>2. ASSUME IInv, Next PROVE Confined
  BY <1>1, <1>2
<1>3. IInv /\ [Next]_vars => [Confined]_vars
  <2> HIDE DEF Confined
  <2> QED BY <1>2
<1> QED BY <1>3, Invariant, PTL DEF Spec, PanicsConfined

-----------------------------------------------------------------------------
\* What the names of a set say.

\* Whatever the program declares, the names of a set are its flags.
THEOREM NamesFaithful == Spec => []NamesReadBack
<1>1. ASSUME Compiles, NEW r \in Names PROVE DistinctNames(Table(r))
  BY <1>1 DEF Compiles, EnumCompiles, PositionCompiles, AtomicCompiles, Table
<1>2. ASSUME NEW t, DistinctNames(t), NEW j \in Guarded(t)
      PROVE  FromName(t, t[j].name) = {t[j].value}
  BY <1>2 DEF DistinctNames, FromName
<1>3. ASSUME Compiles, NEW r \in Names
      PROVE  LET t == Table(r)
                 names == {e.name : e \in IterNames(t, bits[r])}
             IN /\ \A n \in names : \E v \in bits[r] : FromName(t, n) = {v}
                /\ Named(t, names) = bits[r] \cap Flags(r)
                /\ \A j \in DOMAIN t : FromName(t, t[j].name) \subseteq Flags(r)
  <2> DEFINE t == Table(r)
             names == {e.name : e \in IterNames(t, bits[r])}
  <2>1. \A j \in Guarded(t) : FromName(t, t[j].name) = {t[j].value}
    BY <1>1, <1>2, <1>3
  <2>2. \A n : n \in names <=> \E j \in Guarded(t) : t[j].value \in bits[r] /\ n = t[j].name
    <3>1. ASSUME NEW n \in names
          PROVE  \E j \in Guarded(t) : t[j].value \in bits[r] /\ n = t[j].name
      <4>1. PICK e \in IterNames(t, bits[r]) : n = e.name
        BY <3>1
      <4>2. PICK j \in Guarded(t) : e = [name |-> t[j].name, value |-> t[j].value]
        BY DEF IterNames, FlagNames
      <4>3. e.value \in bits[r]
        BY DEF IterNames
      <4> QED BY <4>1, <4>2, <4>3
    <3>2. ASSUME NEW j \in Guarded(t), t[j].value \in bits[r]
          PROVE  t[j].name \in names
      <4> DEFINE e == [name |-> t[j].name, value |-> t[j].value]
      <4>1. e \in FlagNames(t)
        BY DEF FlagNames
      <4>2. e.name = t[j].name /\ e.value = t[j].value
        OBVIOUS
      <4>3. e \in IterNames(t, bits[r])
        BY <3>2, <4>1, <4>2 DEF IterNames
      <4> HIDE DEF e
      <4> QED BY <4>2, <4>3
    <3> QED BY <3>1, <3>2
  <2>3. Flags(r) = {t[j].value : j \in Guarded(t)}
    BY DEF Flags, AllMask
  <2> HIDE DEF t, names
  <2>4. \A n \in names : \E v \in bits[r] : FromName(t, n) = {v}
    BY <2>1, <2>2
  <2>5. Named(t, names) = bits[r] \cap Flags(r)
    <3>1. ASSUME NEW v \in Named(t, names) PROVE v \in bits[r] \cap Flags(r)
      <4>1. PICK n \in names : v \in FromName(t, n)
        BY <3>1 DEF Named
      <4>2. PICK j \in Guarded(t) : t[j].value \in bits[r] /\ n = t[j].name
        BY <2>2, <4>1
      <4> QED BY <2>1, <2>3, <4>1, <4>2
    <3>2. ASSUME NEW v \in bits[r] \cap Flags(r) PROVE v \in Named(t, names)
      <4>1. PICK j \in Guarded(t) : v = t[j].value
        BY <2>3, <3>2
      <4>2. t[j].name \in names /\ v \in FromName(t, t[j].name)
        BY <2>1, <2>2, <3>2, <4>1
      <4> QED BY <4>2 DEF Named
    <3> QED BY <3>1, <3>2
  <2>6. \A n : FromName(t, n) \subseteq Flags(r)
    BY <2>3 DEF FromName
  <2> QED BY <2>4, <2>5, <2>6 DEF t, names
<1>4. IInv => NamesReadBack
  BY <1>3 DEF IInv, Inv, NamesReadBack
<1> QED BY <1>4, Invariant, PTL

\* Debug of a set with constants in position form writes each flag once, under a name of
\* its own, and every bit without a flag in the number, whatever constants are
\* off, aliased, or of a name that another has.
THEOREM DebugFaithful == Spec => []DebugReadsBack
<1>1. ASSUME Compiles, NEW r \in Names, ~ form[r].enum, ~ form[r].linked, Table(r) \in Declarations
      PROVE  LET t == Table(r)
                 text == Debug(t, bits[r])
                 names == {text.names[j] : j \in DOMAIN text.names}
             IN /\ text.remaining = Unknown(r)
                /\ Named(t, names) = bits[r] \cap Flags(r)
                /\ Len(text.names) = Cardinality(bits[r] \cap Flags(r))
  <2> DEFINE t == Table(r)
             text == Debug(t, bits[r])
             names == {text.names[j] : j \in DOMAIN text.names}
  <2>1. DistinctNames(t)
    BY <1>1 DEF Compiles, PositionCompiles, AtomicCompiles, Table
  <2>2. Writes(t, bits[r], text, Len(t))
    BY <1>1, <2>1, DebugWrites
  <2>3. Flags(r) = Seen(t, Len(t))
    BY <1>1, DeclaredEntries DEF Flags, AllMask, Guarded, Seen
  <2>4. Named(t, names) = NamesOf(t, text)
    BY DEF Named, NamesOf
  <2> HIDE DEF t, text, names
  <2>5. text.remaining = Unknown(r)
    BY <2>2, <2>3 DEF Writes, Unknown
  <2>6. Named(t, names) = bits[r] \cap Flags(r)
    BY <2>2, <2>3, <2>4 DEF Writes
  <2>7. Len(text.names) = Cardinality(bits[r] \cap Flags(r))
    BY <2>2, <2>3 DEF Writes
  <2> QED BY <2>5, <2>6, <2>7 DEF t, text, names
<1>2. ASSUME IInv PROVE DebugReadsBack
  <2>1. Compiles /\ tables \in Programs
    BY <1>2 DEF IInv, Inv, TypeOK
  <2>2. ASSUME NEW r \in Names PROVE Table(r) \in Declarations
    BY <2>1, ProgramsAssumption DEF Table
  <2> QED BY <1>1, <2>1, <2>2 DEF DebugReadsBack
<1> QED BY <1>2, Invariant, PTL

=============================================================================
