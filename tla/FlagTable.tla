----------------------------- MODULE FlagTable -----------------------------
(***************************************************************************)
(* The flags a program declares: the variants that bitflag! or             *)
(* derive(BitFlag) give to an enum, and the constants of bitflagset! and   *)
(* atomic_bitflagset! in position form (src/src/enumset.rs,                *)
(* src/bitflagset-derive/src/lib.rs).  From the declaration the macros     *)
(* generate the mask of the flags, their names, and the lookups.           *)
(*                                                                         *)
(* A declaration is a sequence of [name, value, on]; on says whether the   *)
(* #[cfg] of a constant holds.  Two constants may have one value, and two  *)
(* may have one name if only one of them is on.                            *)
(***************************************************************************)
EXTENDS Integers, Sequences

CONSTANT BITS  \* the bits of the storage

ASSUME BitsAssumption == BITS \in Nat \ {0}

Bits == 0 .. BITS - 1

\* __bitflagset_cfg_guard keeps what is on.
Guarded(t) == {j \in DOMAIN t : t[j].on}

\* FLAGS and flag_names.
FlagNames(t) == {[name |-> t[j].name, value |-> t[j].value] : j \in Guarded(t)}

\* ALL_MASK and all().
AllMask(t) == {t[j].value : j \in Guarded(t)}

\* The loop over the variants: max[j] is the largest value of the first j.
MaxValue(t) ==
  LET max[j \in 0 .. Len(t)] ==
        IF j = 0 THEN 0
        ELSE IF t[j].value > max[j - 1] THEN t[j].value ELSE max[j - 1]
  IN max[Len(t)]

\* TryFrom<u8> of the enum finds a variant.
TryFromOk(t, v) == \E j \in DOMAIN t : t[j].value = v

-----------------------------------------------------------------------------
\* What the compiler takes: an enum's variants have no two names or values
\* alike, the constants that are on no two names; and the const assertions.

DistinctNames(t) == \A j, k \in Guarded(t) : t[j].name = t[k].name => j = k

EnumCompiles(t) ==
  /\ Guarded(t) = DOMAIN t
  /\ DistinctNames(t)
  /\ \A j, k \in DOMAIN t : t[j].value = t[k].value => j = k
  /\ MaxValue(t) < BITS

PositionCompiles(t) == DistinctNames(t) /\ \A j \in Guarded(t) : t[j].value < BITS

\* Every constant of an atomic set with constants of its own is one of the set
\* it is declared on, of the same value; it need not list them all.
AtomicCompiles(t, set) == PositionCompiles(t) /\ FlagNames(t) \subseteq FlagNames(set)

-----------------------------------------------------------------------------
\* The lookups of a set whose word is given.

\* iter_names, which Display writes.
IterNames(t, word) == {e \in FlagNames(t) : e.value \in word}

\* A bug: a constant that is off is found, too.
FromNameUnguarded(t, name) == {t[j].value : j \in {k \in DOMAIN t : t[k].name = name}}

\* from_name: the set of one flag; none for another name.
FromName(t, name) == {t[j].value : j \in {k \in Guarded(t) : t[k].name = name}}

\* A bug: the bit stays among the remaining ones, and is written again.
DebugStepKeeps(out, e) ==
  IF e.value \in out.remaining
  THEN [names |-> Append(out.names, e.name), remaining |-> out.remaining]
  ELSE out

\* Debug of a set with constants in position form goes through them in their
\* order: it writes the name of one whose bit is still remaining, and takes the
\* bit away; what remains at the end is written as a number.
DebugStep(out, e) ==
  IF e.value \in out.remaining
  THEN [names |-> Append(out.names, e.name), remaining |-> out.remaining \ {e.value}]
  ELSE out

Debug(t, word) ==
  LET out[j \in 0 .. Len(t)] ==
        IF j = 0 THEN [names |-> <<>>, remaining |-> word]
        ELSE IF t[j].on THEN DebugStep(out[j - 1], t[j]) ELSE out[j - 1]
  IN out[Len(t)]

=============================================================================
