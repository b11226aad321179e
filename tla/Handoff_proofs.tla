--------------------------- MODULE Handoff_proofs ---------------------------
(***************************************************************************)
(* Proofs about Handoff for any threads, sets, word width and staleness:   *)
(* an index is in one place, its holder has seen the latest write to its   *)
(* slot, and the reading calls, and pop_first, answer what they should     *)
(* when their loads may return old values.                                 *)
(***************************************************************************)
EXTENDS Handoff, TLAPS

-----------------------------------------------------------------------------
\* An index is a bit of a word, and no other index is that bit.
LEMMA SlotPlace ==
  ASSUME NEW x \in Slots
  PROVE  WordIdx(x) \in WordIdxs /\ BitIdx(x) \in Bits
  BY HandoffAssumption DEF Slots, WordIdx, BitIdx, WordIdxs, Bits

LEMMA SlotUnique ==
  ASSUME NEW x \in Slots, NEW y \in Slots,
         WordIdx(x) = WordIdx(y), BitIdx(x) = BitIdx(y)
  PROVE  x = y
<1>1. x = WordIdx(x) * BITS_PER + BitIdx(x) /\ y = WordIdx(y) * BITS_PER + BitIdx(y)
  BY HandoffAssumption DEF Slots, WordIdx, BitIdx
<1> QED BY <1>1

LEMMA AgesZero == 0 \in Ages
  BY HandoffAssumption DEF Ages

\* Views stay views.
LEMMA ViewOps ==
  ASSUME NEW u \in ViewType, NEW v \in ViewType,
         NEW s \in Slices, NEW j \in WordIdxs, NEW n \in Ages
  PROVE  /\ Join(u, v) \in ViewType /\ Join(u, v).data = u.data \cup v.data
         /\ At(u, s, j, n) \in ViewType /\ At(u, s, j, n).data = u.data
         /\ Older(u, s, j) \in ViewType /\ Older(u, s, j).data = u.data
<1>1. Join(u, v) \in ViewType /\ Join(u, v).data = u.data \cup v.data
  BY DEF ViewType, Join, Smaller
<1>2. At(u, s, j, n) \in ViewType /\ At(u, s, j, n).data = u.data
  BY DEF ViewType, At
<1>3. Smaller(u.lag[s][j] + 1, MaxStale) \in Ages
  BY HandoffAssumption DEF ViewType, Smaller, Ages
<1>4. Older(u, s, j) \in ViewType /\ Older(u, s, j).data = u.data
  BY <1>3 DEF ViewType, Older
<1> QED BY <1>1, <1>2, <1>4

\* The types of memory alone.
MemOK ==
  /\ log \in [Slices -> [WordIdxs -> [Ages -> MsgType]]]
  /\ view \in [Threads -> ViewType]

\* What a write does to the newest values and to what the threads have seen.
LEMMA PushEffect ==
  ASSUME MemOK, NEW t \in Threads, NEW s \in Slices, NEW j \in WordIdxs,
         NEW bits \in SUBSET Bits, NEW rel \in ViewType, NEW v \in ViewType,
         Push(t, s, j, bits, rel, v)
  PROVE  /\ MemOK'
         /\ Newest(s, j)'.bits = bits /\ Newest(s, j)'.rel.data = rel.data
         /\ \A r \in Slices, k \in WordIdxs : <<r, k>> # <<s, j>> =>
              /\ Newest(r, k)'.bits = Newest(r, k).bits
              /\ Newest(r, k)'.rel.data = Newest(r, k).rel.data
         /\ view'[t].data = v.data
         /\ \A u \in Threads : u # t => view'[u].data = view[u].data
<1> DEFINE Msg(r, k, n) ==
      IF r = s /\ k = j /\ n = 0 THEN [bits |-> bits, rel |-> At(rel, s, j, 0)]
      ELSE LET old == log[r][k][IF r = s /\ k = j THEN n - 1 ELSE n] IN
           [bits |-> old.bits, rel |-> Older(old.rel, s, j)]
<1>1. log' = [r \in Slices |-> [k \in WordIdxs |-> [n \in Ages |-> Msg(r, k, n)]]]
  BY DEF Push
<1>2. \A u \in ViewType : /\ At(u, s, j, 0) \in ViewType /\ At(u, s, j, 0).data = u.data
                          /\ Older(u, s, j) \in ViewType /\ Older(u, s, j).data = u.data
  BY ViewOps, AgesZero
<1>3. ASSUME NEW r \in Slices, NEW k \in WordIdxs, NEW n \in Ages
      PROVE  Msg(r, k, n) \in MsgType
  <2>1. CASE r = s /\ k = j /\ n = 0
    BY <2>1, <1>2 DEF MsgType
  <2>2. CASE ~ (r = s /\ k = j /\ n = 0)
    <3> DEFINE m == IF r = s /\ k = j THEN n - 1 ELSE n
    <3>1. m \in Ages
      BY <2>2, HandoffAssumption DEF Ages
    <3>2. log[r][k][m] \in MsgType
      BY <3>1 DEF MemOK
    <3> QED BY <2>2, <3>2, <1>2 DEF MsgType
  <2> QED BY <2>1, <2>2
<1>4. log' \in [Slices -> [WordIdxs -> [Ages -> MsgType]]]
  BY <1>1, <1>3
<1>5. ASSUME NEW r \in Slices, NEW k \in WordIdxs
      PROVE  Newest(r, k)' = Msg(r, k, 0)
  BY <1>1, AgesZero DEF Newest
<1>6. Newest(s, j)'.bits = bits /\ Newest(s, j)'.rel.data = rel.data
  BY <1>5, <1>2
<1>7. ASSUME NEW r \in Slices, NEW k \in WordIdxs, <<r, k>> # <<s, j>>
      PROVE  /\ Newest(r, k)'.bits = Newest(r, k).bits
             /\ Newest(r, k)'.rel.data = Newest(r, k).rel.data
  <2>1. Msg(r, k, 0) = [bits |-> Newest(r, k).bits, rel |-> Older(Newest(r, k).rel, s, j)]
    BY <1>7 DEF Newest
  <2>2. Newest(r, k).rel \in ViewType
    BY AgesZero DEF MemOK, Newest, MsgType
  <2> QED BY <2>1, <2>2, <1>5, <1>2
<1>8. view' = [u \in Threads |-> IF u = t THEN At(v, s, j, 0) ELSE Older(view[u], s, j)]
  BY DEF Push
<1>9. /\ view' \in [Threads -> ViewType]
      /\ view'[t].data = v.data
      /\ \A u \in Threads : u # t => view'[u].data = view[u].data
  BY <1>8, <1>2 DEF MemOK
<1> QED BY <1>4, <1>6, <1>7, <1>9 DEF MemOK

\* A word of a set as its newest value has it.
LEMMA NewestType ==
  ASSUME MemOK, NEW s \in Slices, NEW j \in WordIdxs
  PROVE  Newest(s, j).bits \in SUBSET Bits /\ Newest(s, j).rel \in ViewType
  BY AgesZero DEF MemOK, Newest, MsgType

LEMMA UpdateEffect ==
  ASSUME MemOK, NEW t \in Threads, NEW s \in Slices, NEW j \in WordIdxs,
         NEW bits \in SUBSET Bits, Update(t, s, j, bits)
  PROVE  LET data == view[t].data \cup Newest(s, j).rel.data IN
         /\ MemOK'
         /\ Newest(s, j)'.bits = bits /\ Newest(s, j)'.rel.data = data
         /\ \A r \in Slices, k \in WordIdxs : <<r, k>> # <<s, j>> =>
              /\ Newest(r, k)'.bits = Newest(r, k).bits
              /\ Newest(r, k)'.rel.data = Newest(r, k).rel.data
         /\ view'[t].data = data
         /\ \A u \in Threads : u # t => view'[u].data = view[u].data
<1> DEFINE v == Join(view[t], Newest(s, j).rel)
<1>1. view[t] \in ViewType /\ Newest(s, j).rel \in ViewType
  BY NewestType DEF MemOK
<1>2. v \in ViewType /\ v.data = view[t].data \cup Newest(s, j).rel.data
  BY <1>1 DEF ViewType, Join, Smaller
<1>3. Push(t, s, j, bits, v, v)
  BY DEF Update
<1> HIDE DEF v
<1> QED BY <1>2, <1>3, PushEffect

\* A load changes no value; its thread has seen no less than before.
LEMMA LoadEffect ==
  ASSUME MemOK, NEW t \in Threads, NEW s \in Slices, NEW j \in WordIdxs, NEW n \in Ages,
         LoadRelaxed(t, s, j, n) \/ LoadAcquire(t, s, j, n)
  PROVE  /\ MemOK'
         /\ log' = log
         /\ \A u \in Threads : view[u].data \subseteq view'[u].data
<1>1. view[t] \in ViewType /\ log[s][j][n].rel \in ViewType
  BY DEF MemOK, MsgType
<1>2. PICK v \in ViewType : view' = [view EXCEPT ![t] = v] /\ view[t].data \subseteq v.data
  <2>1. CASE LoadRelaxed(t, s, j, n)
    <3> DEFINE v == At(view[t], s, j, n)
    <3>1. v \in ViewType /\ v.data = view[t].data
      BY <1>1 DEF ViewType, At
    <3>2. view' = [view EXCEPT ![t] = v]
      BY <2>1 DEF LoadRelaxed
    <3> HIDE DEF v
    <3> QED BY <3>1, <3>2
  <2>2. CASE LoadAcquire(t, s, j, n)
    <3> DEFINE joined == Join(view[t], log[s][j][n].rel)
    <3>1. joined \in ViewType /\ view[t].data \subseteq joined.data
      BY <1>1, ViewOps
    <3>2. At(joined, s, j, n) \in ViewType /\ At(joined, s, j, n).data = joined.data
      BY <3>1, ViewOps
    <3> QED BY <3>1, <3>2, <2>2 DEF LoadAcquire
  <2> QED BY <2>1, <2>2
<1>3. log' = log
  BY DEF LoadRelaxed, LoadAcquire
<1> QED BY <1>2, <1>3 DEF MemOK

\* A thread writes the data of a slot: it has seen the write, and nobody else.
LEMMA FillEffect ==
  ASSUME MemOK, NEW t \in Threads, NEW x \in Slots, Fill(t, x)
  PROVE  /\ MemOK'
         /\ \A s \in Slices, j \in WordIdxs :
              /\ Newest(s, j)'.bits = Newest(s, j).bits
              /\ Newest(s, j)'.rel.data = Newest(s, j).rel.data \ {x}
         /\ view'[t].data = view[t].data \cup {x}
         /\ \A u \in Threads : u # t => view'[u].data = view[u].data \ {x}
<1>1. \A v \in ViewType : /\ Unseen(v, x) \in ViewType
                          /\ Unseen(v, x).data = v.data \ {x}
                          /\ [v EXCEPT !.data = @ \cup {x}] \in ViewType
  BY DEF ViewType, Unseen
<1>2. log' = [s \in Slices |-> [j \in WordIdxs |-> [n \in Ages |->
                [bits |-> log[s][j][n].bits, rel |-> Unseen(log[s][j][n].rel, x)]]]]
  BY DEF Fill
<1>3. \A s \in Slices, j \in WordIdxs, n \in Ages :
        log[s][j][n].bits \in SUBSET Bits /\ log[s][j][n].rel \in ViewType
  BY DEF MemOK, MsgType
<1>4. log' \in [Slices -> [WordIdxs -> [Ages -> MsgType]]]
  BY <1>1, <1>2, <1>3 DEF MsgType
<1>5. \A s \in Slices, j \in WordIdxs :
        /\ Newest(s, j)'.bits = Newest(s, j).bits
        /\ Newest(s, j)'.rel.data = Newest(s, j).rel.data \ {x}
  BY <1>1, <1>2, <1>3, AgesZero DEF Newest
<1>6. view' = [u \in Threads |-> IF u = t THEN [view[t] EXCEPT !.data = @ \cup {x}]
                                          ELSE Unseen(view[u], x)]
  BY DEF Fill
<1>7. /\ view' \in [Threads -> ViewType]
      /\ view'[t].data = view[t].data \cup {x}
      /\ \A u \in Threads : u # t => view'[u].data = view[u].data \ {x}
  BY <1>1, <1>6 DEF MemOK, ViewType
<1> QED BY <1>4, <1>5, <1>7 DEF MemOK

-----------------------------------------------------------------------------
\* Ownership, index by index.
Owned ==
  /\ held \in [Threads -> SUBSET Slots]
  /\ InOnePlace /\ NoDataRace /\ Published

InSet(s, x) == BitIdx(x) \in Newest(s, WordIdx(x)).bits

LEMMA OwnedPointwise ==
  Owned <=>
    /\ held \in [Threads -> SUBSET Slots]
    /\ \A x \in Slots :
         /\ \A t, u \in Threads : x \in held[t] /\ x \in held[u] => t = u
         /\ \A s, r \in Slices : InSet(s, x) /\ InSet(r, x) => s = r
         /\ \A t \in Threads, s \in Slices : ~ (x \in held[t] /\ InSet(s, x))
         /\ \A t \in Threads : x \in held[t] => x \in view[t].data
         /\ \A s \in Slices : InSet(s, x) => x \in Newest(s, WordIdx(x)).rel.data
  BY DEF Owned, InOnePlace, NoDataRace, Published, Members, InSet

\* A read-modify-write whose thread takes what it clears, and holds what it
\* sets, keeps every index in one place and its data with it.
LEMMA MoveKeeps ==
  ASSUME MemOK, Owned, NEW t \in Threads, NEW s \in Slices, NEW j \in WordIdxs,
         NEW bits \in SUBSET Bits, NEW took, NEW gave,
         took = IdxsOf(j, Newest(s, j).bits \ bits),
         gave \in SUBSET held[t],
         IdxsOf(j, bits \ Newest(s, j).bits) \subseteq gave,
         Update(t, s, j, bits),
         held' = [held EXCEPT ![t] = (@ \cup took) \ gave]
  PROVE  MemOK' /\ Owned'
<1> DEFINE old == Newest(s, j).bits
           data == view[t].data \cup Newest(s, j).rel.data
<1>1. /\ MemOK'
      /\ Newest(s, j)'.bits = bits /\ Newest(s, j)'.rel.data = data
      /\ \A r \in Slices, k \in WordIdxs : <<r, k>> # <<s, j>> =>
           /\ Newest(r, k)'.bits = Newest(r, k).bits
           /\ Newest(r, k)'.rel.data = Newest(r, k).rel.data
      /\ view'[t].data = data
      /\ \A u \in Threads : u # t => view'[u].data = view[u].data
  BY UpdateEffect
<1>2. /\ held \in [Threads -> SUBSET Slots]
      /\ held'[t] = (held[t] \cup took) \ gave
      /\ \A u \in Threads : u # t => held'[u] = held[u]
      /\ held' \in [Threads -> SUBSET Slots]
  BY OwnedPointwise DEF IdxsOf
<1>3. ASSUME NEW x \in Slots
      PROVE  /\ \A r, q \in Threads : x \in held'[r] /\ x \in held'[q] => r = q
             /\ \A r, q \in Slices : InSet(r, x)' /\ InSet(q, x)' => r = q
             /\ \A u \in Threads, r \in Slices : ~ (x \in held'[u] /\ InSet(r, x)')
             /\ \A u \in Threads : x \in held'[u] => x \in view'[u].data
             /\ \A r \in Slices : InSet(r, x)' => x \in Newest(r, WordIdx(x))'.rel.data
  <2>0. WordIdx(x) \in WordIdxs
    BY SlotPlace
  <2>1. /\ \A r, q \in Threads : x \in held[r] /\ x \in held[q] => r = q
        /\ \A r, q \in Slices : InSet(r, x) /\ InSet(q, x) => r = q
        /\ \A u \in Threads, r \in Slices : ~ (x \in held[u] /\ InSet(r, x))
        /\ \A u \in Threads : x \in held[u] => x \in view[u].data
        /\ \A r \in Slices : InSet(r, x) => x \in Newest(r, WordIdx(x)).rel.data
    BY OwnedPointwise
  <2>2. CASE WordIdx(x) # j
    <3>1. \A r \in Slices : /\ InSet(r, x)' <=> InSet(r, x)
                            /\ Newest(r, WordIdx(x))'.rel.data = Newest(r, WordIdx(x)).rel.data
      BY <2>0, <2>2, <1>1 DEF InSet
    <3>2. x \notin took
      BY <2>2 DEF IdxsOf
    <3>3. \A u \in Threads : /\ x \in held'[u] => x \in held[u]
                             /\ view[u].data \subseteq view'[u].data
      BY <3>2, <1>1, <1>2
    <3> QED BY <3>1, <3>3, <2>1
  <2>3. CASE WordIdx(x) = j
    <3>1. InSet(s, x) <=> BitIdx(x) \in old
      BY <2>3 DEF InSet
    <3>2. InSet(s, x)' <=> BitIdx(x) \in bits
      BY <2>3, <1>1 DEF InSet
    <3>3. \A r \in Slices \ {s} :
            /\ InSet(r, x)' <=> InSet(r, x)
            /\ Newest(r, WordIdx(x))'.rel.data = Newest(r, WordIdx(x)).rel.data
      BY <2>0, <1>1 DEF InSet
    <3>4. x \in took <=> InSet(s, x) /\ ~ InSet(s, x)'
      BY <2>3, <3>1, <3>2 DEF IdxsOf
    <3>5. InSet(s, x)' /\ ~ InSet(s, x) => x \in gave
      BY <2>3, <3>1, <3>2 DEF IdxsOf
    <3>6. Newest(s, WordIdx(x))'.rel.data = view[t].data \cup Newest(s, WordIdx(x)).rel.data
      BY <2>3, <1>1
    <3>7. view'[t].data = view[t].data \cup Newest(s, WordIdx(x)).rel.data
      BY <2>3, <1>1
    <3> HIDE DEF old, data, InSet
    <3>8. \A u \in Threads \ {t} : held'[u] = held[u] /\ view'[u].data = view[u].data
      BY <1>1, <1>2
    <3>9. /\ x \in held'[t] <=> (x \in held[t] \/ x \in took) /\ x \notin gave
          /\ x \in gave => x \in held[t]
      BY <1>2
    <3>10. \A r, q \in Threads : x \in held'[r] /\ x \in held'[q] => r = q
      BY <3>4, <3>8, <3>9, <2>1
    <3>11. \A r, q \in Slices : InSet(r, x)' /\ InSet(q, x)' => r = q
      BY <3>3, <3>5, <3>9, <2>1
    <3>12. \A u \in Threads, r \in Slices : ~ (x \in held'[u] /\ InSet(r, x)')
      BY <3>3, <3>4, <3>5, <3>8, <3>9, <2>1
    <3>13. \A u \in Threads : x \in held'[u] => x \in view'[u].data
      BY <3>4, <3>7, <3>8, <3>9, <2>1
    <3>14. \A r \in Slices : InSet(r, x)' => x \in Newest(r, WordIdx(x))'.rel.data
      BY <3>3, <3>5, <3>6, <3>9, <2>1
    <3> QED BY <3>10, <3>11, <3>12, <3>13, <3>14
  <2> QED BY <2>2, <2>3
<1>4. Owned'
  BY <1>2, <1>3 DEF Owned, InOnePlace, NoDataRace, Published, Members, InSet
<1> QED BY <1>1, <1>4

\* A step that leaves the newest values and the holders alone, and whose threads
\* have seen no less than before, keeps ownership.
LEMMA StillOwned ==
  ASSUME Owned, UNCHANGED <<log, held>>,
         \A u \in Threads : view[u].data \subseteq view'[u].data
  PROVE  Owned'
  BY DEF Owned, InOnePlace, NoDataRace, Published, Members, Newest

\* The holder's write to its slot keeps ownership: nobody else holds the index,
\* and it is in no set.
LEMMA FillKeeps ==
  ASSUME MemOK, Owned, NEW t \in Threads, NEW x \in held[t], Fill(t, x), UNCHANGED held
  PROVE  MemOK' /\ Owned'
<1>1. x \in Slots
  BY DEF Owned
<1>2. /\ MemOK'
      /\ \A s \in Slices, j \in WordIdxs :
           /\ Newest(s, j)'.bits = Newest(s, j).bits
           /\ Newest(s, j)'.rel.data = Newest(s, j).rel.data \ {x}
      /\ view'[t].data = view[t].data \cup {x}
      /\ \A u \in Threads : u # t => view'[u].data = view[u].data \ {x}
  BY <1>1, FillEffect
<1>3. \A s \in Slices, y \in Slots : InSet(s, y)' <=> InSet(s, y)
  BY <1>2, SlotPlace DEF InSet
<1>4. ASSUME NEW y \in Slots
      PROVE  /\ \A u \in Threads : y \in held[u] => y \in view'[u].data
             /\ \A s \in Slices : InSet(s, y) => y \in Newest(s, WordIdx(y))'.rel.data
  BY <1>1, <1>2, SlotPlace, OwnedPointwise
<1>5. Owned'
  BY <1>3, <1>4, OwnedPointwise DEF Owned, InOnePlace, NoDataRace, Published, Members, InSet
<1> QED BY <1>2, <1>5

\* A store of an empty word, which takes nothing, keeps ownership.
LEMMA ClearKeeps ==
  ASSUME MemOK, Owned, NEW t \in Threads, NEW s \in Slices, NEW j \in WordIdxs,
         Store(t, s, j, {}), UNCHANGED held
  PROVE  MemOK' /\ Owned'
<1>0. Push(t, s, j, {}, view[t], view[t])
  BY DEF Store
<1>1. view[t] \in ViewType /\ {} \in SUBSET Bits
  BY DEF MemOK
<1>2. /\ MemOK'
      /\ Newest(s, j)'.bits = {}
      /\ \A r \in Slices, k \in WordIdxs : <<r, k>> # <<s, j>> =>
           /\ Newest(r, k)'.bits = Newest(r, k).bits
           /\ Newest(r, k)'.rel.data = Newest(r, k).rel.data
      /\ \A u \in Threads : view'[u].data = view[u].data
  <2> DEFINE none == {}
             v == view[t]
  <2>1. none \in SUBSET Bits /\ v \in ViewType /\ Push(t, s, j, none, v, v)
    BY <1>1, <1>0
  <2> HIDE DEF none, v
  <2>2. /\ MemOK'
        /\ Newest(s, j)'.bits = none
        /\ \A r \in Slices, k \in WordIdxs : <<r, k>> # <<s, j>> =>
             /\ Newest(r, k)'.bits = Newest(r, k).bits
             /\ Newest(r, k)'.rel.data = Newest(r, k).rel.data
        /\ view'[t].data = v.data
        /\ \A u \in Threads : u # t => view'[u].data = view[u].data
    BY <2>1, PushEffect
  <2> QED BY <2>2 DEF none, v
<1>3. ASSUME NEW r \in Slices, NEW x \in Slots, InSet(r, x)'
      PROVE  /\ InSet(r, x)
             /\ Newest(r, WordIdx(x))'.rel.data = Newest(r, WordIdx(x)).rel.data
  BY <1>2, <1>3, SlotPlace DEF InSet
<1>4. Owned'
  BY <1>2, <1>3, OwnedPointwise DEF Owned, InOnePlace, NoDataRace, Published, Members, InSet
<1> QED BY <1>2, <1>4

-----------------------------------------------------------------------------
\* The thread-local state.
Locals ==
  /\ pc \in [Threads -> PcLabels]
  /\ call \in [Threads -> CallType \cup {NoCall}]
  /\ i \in [Threads -> Nat]
  /\ w \in [Threads -> SUBSET Bits]
  /\ acc \in [Threads -> SUBSET Slots]

LocalOK(t) == Control(t) /\ Owed(t) \subseteq held[t]

LEMMA IInvParts ==
  IInv <=> /\ MemOK /\ Owned /\ Locals /\ stayed \in [Threads -> SUBSET Slots]
           /\ \A t \in Threads : LocalOK(t)
  BY DEF IInv, TypeOK, MemOK, Owned, Locals, LocalOK

\* A step of thread t leaves the others where they were, with what they hold.
LEMMA OthersKeep ==
  ASSUME \A u \in Threads : LocalOK(u), NEW t \in Threads, LocalOK(t)',
         \A u \in Threads : u # t =>
           pc'[u] = pc[u] /\ call'[u] = call[u] /\ i'[u] = i[u] /\ w'[u] = w[u]
           /\ held[u] \subseteq held'[u]
  PROVE  \A u \in Threads : LocalOK(u)'
<1>1. ASSUME NEW u \in Threads, u # t PROVE LocalOK(u)'
  <2>1. pc'[u] = pc[u] /\ call'[u] = call[u] /\ i'[u] = i[u] /\ w'[u] = w[u]
        /\ held[u] \subseteq held'[u] /\ LocalOK(u)
    BY <1>1
  <2>2. Control(u)'
    BY <2>1 DEF LocalOK, Control, Running
  <2>3. Owed(u)' \subseteq held'[u]
    BY <2>1 DEF LocalOK, Owed
  <2> QED BY <2>2, <2>3 DEF LocalOK
<1> QED BY <1>1

LEMMA RecordType ==
  ASSUME stayed \in [Threads -> SUBSET Slots], Record
  PROVE  stayed' \in [Threads -> SUBSET Slots]
<1>1. \A t \in Threads : Visible(t, call'[t].self) \in SUBSET Slots
  BY DEF Visible
<1> QED BY <1>1 DEF Record

\* Where a running thread is.
LEMMA AtWord ==
  ASSUME IInv, NEW t \in Threads, pc[t] # "idle"
  PROVE  /\ call[t] \in CallType /\ call[t].op \in Ops
         /\ Self(t) \in Slices /\ Other(t) \in Slices /\ call[t].id \in Slots
         /\ Running(t) => i[t] \in WordIdxs
         /\ pc[t] \in {"insert", "remove", "contains"} => i[t] = WordIdx(call[t].id)
         /\ Control(t) /\ Owed(t) \subseteq held[t]
  BY HandoffCalls, IInvParts DEF LocalOK, Control, CallType, Self, Other

\* The loop goes on at a word, or returns.
LEMMA NextWordOK ==
  ASSUME IInv, NEW t \in Threads, Running(t), NextWord(t),
         pc[t] \notin {"insert", "remove", "contains"},
         call' = call, w' \in [Threads -> SUBSET Bits], w'[t] = {}
  PROVE  /\ pc' \in [Threads -> PcLabels] /\ i' \in [Threads -> Nat]
         /\ \A u \in Threads : u # t => pc'[u] = pc[u] /\ i'[u] = i[u]
         /\ Control(t)' /\ Owed(t)' = {}
<1>1. /\ call[t] \in CallType /\ call[t].op \in Ops /\ i[t] \in WordIdxs
      /\ Control(t) /\ pc[t] # "idle"
  BY AtWord DEF Running
<1>2. pc \in [Threads -> PcLabels] /\ i \in [Threads -> Nat]
  BY IInvParts DEF Locals
<1>3. Label(call[t]) \in PcLabels
      /\ Label(call[t]) \notin {"insert", "remove", "contains", "idle", "append_or", "pop_take"}
  BY <1>1 DEF Control, Running, Label, Ops, PcLabels
<1>4. \/ pc'[t] = "return"
      \/ pc'[t] = Label(call[t]) /\ i'[t] \in WordIdxs
  BY <1>2 DEF NextWord, Goto
<1>5. /\ pc' \in [Threads -> PcLabels] /\ i' \in [Threads -> Nat]
      /\ \A u \in Threads : u # t => pc'[u] = pc[u] /\ i'[u] = i[u]
  BY <1>1, <1>2, <1>3 DEF NextWord, Goto, PcLabels, WordIdxs
<1>6. Control(t)'
  BY <1>1, <1>3, <1>4 DEF Control, Running
<1>7. Owed(t)' = {}
  BY <1>3, <1>4 DEF Owed
<1> QED BY <1>5, <1>6, <1>7

-----------------------------------------------------------------------------
\* Steps, for the invariant without the history: what an action of t must keep.
Kept == MemOK' /\ Owned' /\ Locals' /\ \A u \in Threads : LocalOK(u)'

LEMMA BeginKeeps ==
  ASSUME IInv, NEW t \in Threads, NEW c \in Calls[t], Begin(t, c)
  PROVE  Kept
<1>1. c \in CallType /\ c.op \in Ops /\ c.id \in Slots
  BY HandoffCalls DEF CallType
<1>2. /\ MemOK /\ Owned /\ Locals /\ \A u \in Threads : LocalOK(u)
      /\ held' = held /\ w' = w /\ acc' = acc
  BY IInvParts DEF Begin
<1>3. MemOK' /\ Owned'
  <2>1. CASE c.op = "insert"
    BY <2>1, <1>2, FillKeeps DEF Begin
  <2>2. CASE c.op # "insert"
    <3>1. UNCHANGED <<log, view>>
      BY <2>2 DEF Begin
    <3>2. MemOK'
      BY <3>1, <1>2 DEF MemOK
    <3> QED BY <3>1, <3>2, <1>2, StillOwned
  <2> QED BY <2>1, <2>2
<1>4. Label(c) \in PcLabels /\ Label(c) \notin {"idle", "return", "pop_take", "append_or"}
  BY <1>1 DEF Label, Ops, PcLabels
<1>5. /\ pc' = [pc EXCEPT ![t] = Label(c)] /\ call' = [call EXCEPT ![t] = c]
      /\ i' = [i EXCEPT ![t] =
           IF c.op \in {"insert", "remove", "contains"} THEN WordIdx(c.id) ELSE 0]
      /\ c.op = "insert" => c.id \in held[t]
  BY DEF Begin, Goto
<1>6. WordIdx(c.id) \in WordIdxs /\ 0 \in WordIdxs /\ WordIdxs \subseteq Nat
  BY <1>1, SlotPlace, HandoffAssumption DEF WordIdxs
<1>7. Locals'
  BY <1>1, <1>2, <1>4, <1>5, <1>6 DEF Locals
<1>8. pc'[t] = Label(c) /\ call'[t] = c /\ i'[t] \in WordIdxs /\ w'[t] = w[t]
      /\ (c.op \in {"insert", "remove", "contains"} => i'[t] = WordIdx(c.id))
  BY <1>2, <1>5, <1>6 DEF Locals
<1>9. Control(t)'
  <2>1. w[t] = {}
    BY <1>2 DEF LocalOK, Control, Begin
  <2>2. Label(c) \in {"insert", "remove", "contains"} => Label(c) = c.op
    BY <1>1 DEF Label, Ops
  <2> QED BY <1>4, <1>8, <2>1, <2>2 DEF Control, Running
<1>10. Owed(t)' \subseteq held'[t]
  <2>1. Label(c) = "insert" => c.op = "insert"
    BY <1>1 DEF Label, Ops
  <2> QED BY <1>2, <1>4, <1>5, <1>8, <2>1 DEF Owed
<1>11. \A u \in Threads : LocalOK(u)'
  <2>1. LocalOK(t)'
    BY <1>9, <1>10 DEF LocalOK
  <2>2. \A u \in Threads : u # t =>
          pc'[u] = pc[u] /\ call'[u] = call[u] /\ i'[u] = i[u] /\ w'[u] = w[u]
          /\ held[u] \subseteq held'[u]
    BY <1>2, <1>5 DEF Locals
  <2> QED BY <1>2, <2>1, <2>2, OthersKeep
<1> QED BY <1>3, <1>7, <1>11 DEF Kept

LEMMA EndKeeps ==
  ASSUME IInv, NEW t \in Threads, End(t)
  PROVE  Kept
<1>1. /\ MemOK /\ Owned /\ Locals /\ \A u \in Threads : LocalOK(u)
      /\ UNCHANGED <<log, view, held, w>>
  BY IInvParts DEF End
<1>2. MemOK' /\ Owned'
  BY <1>1, StillOwned DEF MemOK
<1>3. Locals'
  BY <1>1 DEF Locals, End, Goto, PcLabels
<1>4. pc'[t] = "idle" /\ w'[t] = {}
  BY <1>1 DEF Locals, End, Goto, LocalOK, Control
<1>5. LocalOK(t)'
  BY <1>4 DEF LocalOK, Control, Running, Owed
<1>6. \A u \in Threads : u # t =>
        pc'[u] = pc[u] /\ call'[u] = call[u] /\ i'[u] = i[u] /\ w'[u] = w[u]
        /\ held[u] \subseteq held'[u]
  BY <1>1 DEF Locals, End, Goto
<1>7. \A u \in Threads : LocalOK(u)'
  BY <1>1, <1>5, <1>6, OthersKeep
<1> QED BY <1>2, <1>3, <1>7 DEF Kept

\* An access after which its call returns.
LEMMA ReturnKeeps ==
  ASSUME IInv, NEW t \in Threads, pc[t] # "idle",
         MemOK', Owned', Return(t), UNCHANGED <<call, i>>,
         w' \in [Threads -> SUBSET Bits], w'[t] = {},
         acc' \in [Threads -> SUBSET Slots],
         \A u \in Threads : u # t => w'[u] = w[u] /\ held'[u] = held[u]
  PROVE  Kept
<1>1. Locals /\ \A u \in Threads : LocalOK(u)
  BY IInvParts
<1>2. Locals'
  BY <1>1 DEF Locals, Return, Goto, PcLabels
<1>3. pc'[t] = "return" /\ call'[t] = call[t]
  BY <1>1 DEF Locals, Return, Goto
<1>4. LocalOK(t)'
  BY <1>1, <1>3 DEF LocalOK, Control, Running, Owed
<1>5. \A u \in Threads : u # t =>
        pc'[u] = pc[u] /\ call'[u] = call[u] /\ i'[u] = i[u] /\ w'[u] = w[u]
        /\ held[u] \subseteq held'[u]
  BY <1>1 DEF Locals, Return, Goto
<1>6. \A u \in Threads : LocalOK(u)'
  BY <1>1, <1>4, <1>5, OthersKeep
<1> QED BY <1>2, <1>6 DEF Kept

\* An access of a loop, after which it goes on.
LEMMA LoopKeeps ==
  ASSUME IInv, NEW t \in Threads, Running(t), MemOK', Owned', NextWord(t),
         pc[t] \notin {"insert", "remove", "contains"}, call' = call,
         w' \in [Threads -> SUBSET Bits], w'[t] = {},
         acc' \in [Threads -> SUBSET Slots],
         \A u \in Threads : u # t => w'[u] = w[u] /\ held'[u] = held[u]
  PROVE  Kept
<1>1. Locals /\ \A u \in Threads : LocalOK(u)
  BY IInvParts
<1>2. /\ pc' \in [Threads -> PcLabels] /\ i' \in [Threads -> Nat]
      /\ \A u \in Threads : u # t => pc'[u] = pc[u] /\ i'[u] = i[u]
      /\ Control(t)' /\ Owed(t)' = {}
  BY NextWordOK
<1>3. Locals'
  BY <1>1, <1>2 DEF Locals
<1>4. LocalOK(t)'
  BY <1>2 DEF LocalOK
<1>5. \A u \in Threads : LocalOK(u)'
  BY <1>1, <1>2, <1>4, OthersKeep
<1> QED BY <1>3, <1>5 DEF Kept

-----------------------------------------------------------------------------
\* The accesses.  What a thread holds, and its local word, change for it alone.
LEMMA LocalChange ==
  ASSUME Locals, held \in [Threads -> SUBSET Slots], NEW t \in Threads,
         NEW bits \in SUBSET Bits, NEW ids \in SUBSET Slots
  PROVE  /\ Hold(t, bits) => /\ w' \in [Threads -> SUBSET Bits] /\ w'[t] = bits
                             /\ \A u \in Threads : u # t => w'[u] = w[u]
         /\ Answer(t, ids) => acc' \in [Threads -> SUBSET Slots]
         /\ Take(t, ids) \/ Give(t, ids) =>
              \A u \in Threads : u # t => held'[u] = held[u]
  BY DEF Locals, Hold, Answer, Take, Give

LEMMA InsertKeeps ==
  ASSUME IInv, NEW t \in Threads, Insert(t)
  PROVE  Kept
<1> DEFINE s == Self(t)
           old == Newest(s, i[t]).bits
           b == BitIdx(call[t].id)
<1>1. pc[t] = "insert" /\ MemOK /\ Owned /\ Locals
  BY IInvParts DEF Insert
<1>2. /\ s \in Slices /\ call[t].id \in Slots /\ i[t] \in WordIdxs
      /\ i[t] = WordIdx(call[t].id) /\ call[t].id \in held[t] /\ w[t] = {}
  BY <1>1, AtWord DEF Running, Control, Owed
<1>3. b \in Bits /\ old \in SUBSET Bits
  BY <1>1, <1>2, SlotPlace, NewestType
<1>4. /\ Update(t, s, i[t], old \cup {b})
      /\ held' = [held EXCEPT ![t] = @ \ {call[t].id}]
      /\ Return(t) /\ UNCHANGED <<call, i, w, acc>>
  BY DEF Insert, Give
<1>5. IdxsOf(i[t], (old \cup {b}) \ old) \subseteq {call[t].id}
  BY <1>2, SlotUnique DEF IdxsOf
<1>6. {} = IdxsOf(i[t], old \ (old \cup {b}))
  BY DEF IdxsOf
<1>7. MemOK' /\ Owned'
  <2> DEFINE new == old \cup {b}
             took == {}
             gave == {call[t].id}
  <2>1. new \in SUBSET Bits /\ gave \in SUBSET held[t] /\ took = IdxsOf(i[t], old \ new)
        /\ IdxsOf(i[t], new \ old) \subseteq gave /\ Update(t, s, i[t], new)
    BY <1>2, <1>3, <1>4, <1>5, <1>6
  <2>2. held' = [held EXCEPT ![t] = (@ \cup took) \ gave]
    BY <1>1, <1>4 DEF Owned
  <2> HIDE DEF new, took, gave, s
  <2> QED BY <1>1, <1>2, <2>1, <2>2, MoveKeeps DEF s
<1>8. \A u \in Threads : u # t => w'[u] = w[u] /\ held'[u] = held[u]
  BY <1>1, <1>4 DEF Owned
<1> QED BY <1>1, <1>2, <1>4, <1>7, <1>8, ReturnKeeps DEF Locals

LEMMA RemoveKeeps ==
  ASSUME IInv, NEW t \in Threads, Remove(t)
  PROVE  Kept
<1> DEFINE s == Self(t)
           old == Newest(s, i[t]).bits
           took == IdxsOf(i[t], old) \cap {call[t].id}
           new == old \ {BitIdx(call[t].id)}
<1>1. pc[t] = "remove" /\ MemOK /\ Owned /\ Locals
  BY IInvParts DEF Remove
<1>2. /\ s \in Slices /\ call[t].id \in Slots /\ i[t] \in WordIdxs
      /\ i[t] = WordIdx(call[t].id) /\ w[t] = {}
  BY <1>1, AtWord DEF Running, Control
<1>3. new \in SUBSET Bits
  BY <1>1, <1>2, NewestType
<1>4. /\ Update(t, s, i[t], new)
      /\ held' = [held EXCEPT ![t] = @ \cup took]
      /\ Return(t) /\ UNCHANGED <<call, i, w, acc>>
  BY DEF Remove, Take
<1>5. took = IdxsOf(i[t], old \ new) /\ {} = IdxsOf(i[t], new \ old)
  BY <1>2, SlotUnique DEF IdxsOf
<1>6. MemOK' /\ Owned'
  <2> DEFINE gave == {}
  <2>1. gave \in SUBSET held[t] /\ IdxsOf(i[t], new \ old) \subseteq gave
    BY <1>5
  <2>2. held' = [held EXCEPT ![t] = (@ \cup took) \ gave]
    BY <1>4
  <2>3. took = IdxsOf(i[t], Newest(s, i[t]).bits \ new)
        /\ IdxsOf(i[t], new \ Newest(s, i[t]).bits) \subseteq gave
    BY <1>5
  <2> HIDE DEF new, took, gave, old, s
  <2> QED BY <1>1, <1>2, <1>3, <1>4, <2>1, <2>2, <2>3, MoveKeeps
<1>7. \A u \in Threads : u # t => w'[u] = w[u] /\ held'[u] = held[u]
  BY <1>1, <1>4 DEF Owned
<1> QED BY <1>1, <1>2, <1>4, <1>6, <1>7, ReturnKeeps DEF Locals

\* A load keeps ownership, whatever value it reads.
LEMMA LoadKeeps ==
  ASSUME MemOK, Owned, NEW t \in Threads, NEW s \in Slices, NEW j \in WordIdxs, NEW n \in Ages,
         LoadRelaxed(t, s, j, n) \/ LoadAcquire(t, s, j, n), UNCHANGED held
  PROVE  MemOK' /\ Owned'
  BY LoadEffect, StillOwned

LEMMA ContainsKeeps ==
  ASSUME IInv, NEW t \in Threads, Contains(t)
  PROVE  Kept
<1>1. pc[t] = "contains" /\ MemOK /\ Owned /\ Locals
  BY IInvParts DEF Contains
<1>2. Self(t) \in Slices /\ i[t] \in WordIdxs /\ w[t] = {}
  BY <1>1, AtWord DEF Running, Control
<1>3. PICK n \in Ages :
        /\ LoadRelaxed(t, Self(t), i[t], n)
        /\ Answer(t, IdxsOf(i[t], log[Self(t)][i[t]][n].bits) \cap {call[t].id})
  BY DEF Contains
<1>4. MemOK' /\ Owned'
  BY <1>1, <1>2, <1>3, LoadKeeps DEF Contains
<1>5. acc' \in [Threads -> SUBSET Slots]
  BY <1>1, <1>3 DEF Answer, Locals, IdxsOf
<1> QED BY <1>1, <1>2, <1>4, <1>5, ReturnKeeps DEF Contains, Locals

LEMMA IterKeeps ==
  ASSUME IInv, NEW t \in Threads, Iter(t)
  PROVE  Kept
<1>1. pc[t] = "iter" /\ MemOK /\ Owned /\ Locals
  BY IInvParts DEF Iter
<1>2. Self(t) \in Slices /\ i[t] \in WordIdxs /\ w[t] = {} /\ Running(t)
  BY <1>1, AtWord DEF Running, Control
<1>3. PICK n \in Ages :
        /\ LoadRelaxed(t, Self(t), i[t], n)
        /\ Answer(t, acc[t] \cup IdxsOf(i[t], log[Self(t)][i[t]][n].bits))
  BY DEF Iter
<1>4. MemOK' /\ Owned'
  BY <1>1, <1>2, <1>3, LoadKeeps DEF Iter
<1>5. acc' \in [Threads -> SUBSET Slots]
  BY <1>1, <1>3 DEF Answer, Locals, IdxsOf
<1> QED BY <1>1, <1>2, <1>4, <1>5, LoopKeeps DEF Iter, Locals

LEMMA DrainKeeps ==
  ASSUME IInv, NEW t \in Threads, Drain(t)
  PROVE  Kept
<1> DEFINE s == Self(t)
           old == Newest(s, i[t]).bits
           took == IdxsOf(i[t], old)
           new == {}
           gave == {}
<1>1. pc[t] = "drain" /\ MemOK /\ Owned /\ Locals
  BY IInvParts DEF Drain
<1>2. s \in Slices /\ i[t] \in WordIdxs /\ w[t] = {} /\ Running(t)
  BY <1>1, AtWord DEF Running, Control
<1>3. /\ Update(t, s, i[t], new) /\ held' = [held EXCEPT ![t] = (@ \cup took) \ gave]
      /\ NextWord(t) /\ UNCHANGED <<call, w, acc>> /\ Take(t, took)
  BY DEF Drain, Take
<1>4. /\ took = IdxsOf(i[t], Newest(s, i[t]).bits \ new) /\ new \in SUBSET Bits
      /\ IdxsOf(i[t], new \ Newest(s, i[t]).bits) \subseteq gave /\ gave \in SUBSET held[t]
      /\ took \in SUBSET Slots
  BY DEF IdxsOf
<1>5. MemOK' /\ Owned'
  <2> HIDE DEF new, took, gave, old, s
  <2> QED BY <1>1, <1>2, <1>3, <1>4, MoveKeeps
<1>6. \A u \in Threads : u # t => w'[u] = w[u] /\ held'[u] = held[u]
  BY <1>1, <1>3, <1>4, LocalChange DEF Owned
<1> QED BY <1>1, <1>2, <1>3, <1>5, <1>6, LoopKeeps DEF Locals

LEMMA ClearStepKeeps ==
  ASSUME IInv, NEW t \in Threads, Clear(t)
  PROVE  Kept
<1>1. pc[t] = "clear" /\ MemOK /\ Owned /\ Locals
  BY IInvParts DEF Clear
<1>2. Self(t) \in Slices /\ i[t] \in WordIdxs /\ w[t] = {} /\ Running(t)
  BY <1>1, AtWord DEF Running, Control
<1>3. MemOK' /\ Owned'
  BY <1>1, <1>2, ClearKeeps DEF Clear
<1> QED BY <1>1, <1>2, <1>3, LoopKeeps DEF Clear, Locals

\* An access after which thread t is at another access of the same call.
LEMMA GoKeeps ==
  ASSUME IInv, NEW t \in Threads, Running(t), MemOK', Owned',
         NEW label \in PcLabels, Goto(t, label), UNCHANGED <<call, i>>,
         label \notin {"idle", "insert", "remove", "contains"},
         label = Label(call[t]) \/ <<call[t].op, label>> \in
           {<<"pop_first", "pop_take">>, <<"append", "append_or">>},
         w' \in [Threads -> SUBSET Bits],
         w'[t] # {} => label \in {"pop_take", "append_or"},
         label = "append_or" => IdxsOf(i[t], w'[t]) \subseteq held'[t],
         acc' \in [Threads -> SUBSET Slots],
         \A u \in Threads : u # t => w'[u] = w[u] /\ held'[u] = held[u]
  PROVE  Kept
<1>1. Locals /\ (\A u \in Threads : LocalOK(u)) /\ i[t] \in WordIdxs
  BY IInvParts, AtWord DEF Running
<1>2. Locals'
  BY <1>1 DEF Locals, Goto
<1>3. /\ pc'[t] = label /\ call'[t] = call[t] /\ i'[t] = i[t]
      /\ \A u \in Threads : u # t => pc'[u] = pc[u]
  BY <1>1 DEF Locals, Goto
<1>4. call[t] \in Calls[t]
  BY <1>1 DEF LocalOK, Control, Running
<1>5. Control(t)'
  BY <1>1, <1>3, <1>4 DEF Control, Running
<1>6. Owed(t)' \subseteq held'[t]
  BY <1>3 DEF Owed
<1>7. \A u \in Threads : LocalOK(u)'
  <2>1. LocalOK(t)'
    BY <1>5, <1>6 DEF LocalOK
  <2> QED BY <1>1, <1>3, <2>1, OthersKeep
<1> QED BY <1>2, <1>7 DEF Kept

LEMMA PopLoadKeeps ==
  ASSUME IInv, NEW t \in Threads, PopLoad(t)
  PROVE  Kept
<1>1. pc[t] = "pop_load" /\ MemOK /\ Owned /\ Locals
  BY IInvParts DEF PopLoad
<1>2. /\ Self(t) \in Slices /\ i[t] \in WordIdxs /\ w[t] = {} /\ Running(t)
      /\ call[t].op = "pop_first"
  BY <1>1, AtWord DEF Running, Control, Label, Ops
<1>3. PICK n \in Ages :
        LET bits == log[Self(t)][i[t]][n].bits IN
        /\ LoadAcquire(t, Self(t), i[t], n)
        /\ IF bits = {}
           THEN NextWord(t) /\ UNCHANGED w
           ELSE /\ \E b \in bits : IsLowest(b, bits) /\ Hold(t, {b})
                /\ Goto(t, "pop_take") /\ UNCHANGED i
  BY DEF PopLoad
<1>4. UNCHANGED <<held, call, acc>>
  BY DEF PopLoad
<1>5. MemOK' /\ Owned'
  BY <1>1, <1>2, <1>3, <1>4, LoadKeeps
<1>6. acc' \in [Threads -> SUBSET Slots]
  BY <1>1, <1>4 DEF Locals
<1>7. CASE log[Self(t)][i[t]][n].bits = {}
  BY <1>1, <1>2, <1>3, <1>4, <1>5, <1>6, <1>7, LoopKeeps DEF Locals
<1>8. CASE log[Self(t)][i[t]][n].bits # {}
  <2>1. PICK b \in log[Self(t)][i[t]][n].bits : Hold(t, {b})
    BY <1>3, <1>8
  <2>2. {b} \in SUBSET Bits
    BY <1>1, <1>2 DEF MemOK, MsgType
  <2>3. /\ w' \in [Threads -> SUBSET Bits]
        /\ \A u \in Threads : u # t => w'[u] = w[u]
    BY <1>1, <2>1, <2>2 DEF Locals, Hold
  <2>4. Goto(t, "pop_take") /\ UNCHANGED i /\ "pop_take" \in PcLabels
    BY <1>3, <1>8 DEF PcLabels
  <2> QED BY <1>2, <1>4, <1>5, <1>6, <2>3, <2>4, GoKeeps
<1> QED BY <1>7, <1>8

LEMMA PopTakeKeeps ==
  ASSUME IInv, NEW t \in Threads, PopTake(t)
  PROVE  Kept
<1> DEFINE s == Self(t)
           old == Newest(s, i[t]).bits
           took == IdxsOf(i[t], old \cap w[t])
           new == old \ w[t]
           gave == {}
<1>1. pc[t] = "pop_take" /\ MemOK /\ Owned /\ Locals
  BY IInvParts DEF PopTake
<1>2. /\ s \in Slices /\ i[t] \in WordIdxs /\ Running(t)
      /\ call[t].op = "pop_first"
  BY <1>1, AtWord DEF Running, Control, Label, Ops
<1>3. /\ Update(t, s, i[t], new) /\ held' = [held EXCEPT ![t] = (@ \cup took) \ gave]
      /\ Answer(t, took) /\ Take(t, took) /\ Hold(t, {}) /\ UNCHANGED <<call, i>>
      /\ Return(t) \/ Goto(t, "pop_load")
  BY DEF PopTake, Take
<1>4. /\ took = IdxsOf(i[t], Newest(s, i[t]).bits \ new)
      /\ IdxsOf(i[t], new \ Newest(s, i[t]).bits) \subseteq gave /\ gave \in SUBSET held[t]
      /\ took \in SUBSET Slots
  BY DEF IdxsOf
<1>5. new \in SUBSET Bits
  BY <1>1, <1>2, NewestType
<1>6. MemOK' /\ Owned'
  <2> HIDE DEF new, took, gave, old, s
  <2> QED BY <1>1, <1>2, <1>3, <1>4, <1>5, MoveKeeps
<1>7. /\ w' \in [Threads -> SUBSET Bits] /\ w'[t] = {} /\ acc' \in [Threads -> SUBSET Slots]
      /\ \A u \in Threads : u # t => w'[u] = w[u] /\ held'[u] = held[u]
  <2>1. held \in [Threads -> SUBSET Slots] /\ {} \in SUBSET Bits
    BY <1>1 DEF Owned
  <2>2. Hold(t, {}) /\ Answer(t, took) /\ Take(t, took) /\ took \in SUBSET Slots
    BY <1>3, <1>4
  <2> HIDE DEF took
  <2>3. w' \in [Threads -> SUBSET Bits] /\ w'[t] = {} /\ \A u \in Threads : u # t => w'[u] = w[u]
    BY <1>1, <2>1, <2>2 DEF Hold, Locals
  <2>4. acc' \in [Threads -> SUBSET Slots]
    BY <1>1, <2>2 DEF Answer, Locals
  <2>5. \A u \in Threads : u # t => held'[u] = held[u]
    BY <2>1, <2>2 DEF Take
  <2> QED BY <2>3, <2>4, <2>5
<1>8. CASE Return(t)
  BY <1>1, <1>3, <1>6, <1>7, <1>8, ReturnKeeps
<1>9. CASE Goto(t, "pop_load")
  <2>1. "pop_load" \in PcLabels /\ "pop_load" = Label(call[t])
    BY <1>2 DEF PcLabels, Label
  <2> QED BY <1>2, <1>3, <1>6, <1>7, <1>9, <2>1, GoKeeps
<1> QED BY <1>3, <1>8, <1>9

LEMMA AppendSwapKeeps ==
  ASSUME IInv, NEW t \in Threads, AppendSwap(t)
  PROVE  Kept
<1> DEFINE s == Other(t)
           old == Newest(s, i[t]).bits
           took == IdxsOf(i[t], old)
           new == {}
           gave == {}
<1>1. pc[t] = "append_swap" /\ MemOK /\ Owned /\ Locals
  BY IInvParts DEF AppendSwap
<1>2. /\ s \in Slices /\ i[t] \in WordIdxs /\ Running(t)
      /\ call[t].op = "append"
  BY <1>1, AtWord DEF Running, Control, Label, Ops
<1>3. /\ Update(t, s, i[t], new) /\ held' = [held EXCEPT ![t] = (@ \cup took) \ gave]
      /\ Hold(t, old) /\ Take(t, took) /\ Goto(t, "append_or") /\ UNCHANGED <<call, i, acc>>
  BY DEF AppendSwap, Take
<1>4. /\ took = IdxsOf(i[t], Newest(s, i[t]).bits \ new) /\ new \in SUBSET Bits
      /\ IdxsOf(i[t], new \ Newest(s, i[t]).bits) \subseteq gave /\ gave \in SUBSET held[t]
      /\ took \in SUBSET Slots
  BY DEF IdxsOf
<1>5. old \in SUBSET Bits
  BY <1>1, <1>2, NewestType
<1>6. MemOK' /\ Owned'
  <2> HIDE DEF new, took, gave, old, s
  <2> QED BY <1>1, <1>2, <1>3, <1>4, MoveKeeps
<1>7. /\ w' \in [Threads -> SUBSET Bits] /\ w'[t] = old
      /\ \A u \in Threads : u # t => w'[u] = w[u] /\ held'[u] = held[u]
  <2>1. held \in [Threads -> SUBSET Slots]
    BY <1>1 DEF Owned
  <2> HIDE DEF took, old
  <2> QED BY <1>1, <1>3, <1>4, <1>5, <2>1, LocalChange
<1>8. IdxsOf(i[t], w'[t]) \subseteq held'[t]
  BY <1>1, <1>3, <1>7 DEF Owned
<1>9. acc' \in [Threads -> SUBSET Slots] /\ "append_or" \in PcLabels
  BY <1>1, <1>3 DEF Locals, PcLabels
<1> HIDE DEF s, old, took
<1> QED BY <1>2, <1>3, <1>6, <1>7, <1>8, <1>9, GoKeeps

LEMMA AppendOrKeeps ==
  ASSUME IInv, NEW t \in Threads, AppendOr(t)
  PROVE  Kept
<1> DEFINE s == Self(t)
           old == Newest(s, i[t]).bits
           took == {}
           new == old \cup w[t]
           gave == IdxsOf(i[t], w[t])
<1>1. pc[t] = "append_or" /\ MemOK /\ Owned /\ Locals
  BY IInvParts DEF AppendOr
<1>2. s \in Slices /\ i[t] \in WordIdxs /\ Running(t) /\ gave \in SUBSET held[t]
  BY <1>1, AtWord DEF Running, Owed
<1>3. /\ Update(t, s, i[t], new) /\ held' = [held EXCEPT ![t] = (@ \cup took) \ gave]
      /\ Hold(t, {}) /\ Give(t, gave) /\ NextWord(t) /\ UNCHANGED <<call, acc>>
  BY <1>1 DEF AppendOr, Give, Owned
<1>4. /\ took = IdxsOf(i[t], Newest(s, i[t]).bits \ new)
      /\ IdxsOf(i[t], new \ Newest(s, i[t]).bits) \subseteq gave /\ gave \in SUBSET Slots
  BY DEF IdxsOf
<1>5. new \in SUBSET Bits
  BY <1>1, <1>2, NewestType DEF Locals
<1>6. MemOK' /\ Owned'
  <2> HIDE DEF new, took, gave, old, s
  <2> QED BY <1>1, <1>2, <1>3, <1>4, <1>5, MoveKeeps
<1>7. /\ w' \in [Threads -> SUBSET Bits] /\ w'[t] = {}
      /\ \A u \in Threads : u # t => w'[u] = w[u] /\ held'[u] = held[u]
  <2>1. held \in [Threads -> SUBSET Slots] /\ {} \in SUBSET Bits
    BY <1>1 DEF Owned
  <2> HIDE DEF gave
  <2> QED BY <1>1, <1>3, <1>4, <2>1, LocalChange
<1>8. acc' \in [Threads -> SUBSET Slots]
  BY <1>1, <1>3 DEF Locals
<1> QED BY <1>1, <1>2, <1>3, <1>6, <1>7, <1>8, LoopKeeps

-----------------------------------------------------------------------------
\* The initial states: every slot with one holder, who has written it, and the
\* sets empty.
LEMMA InitInv ==
  ASSUME Init
  PROVE  IInv
<1> DEFINE fresh == [s \in Slices |-> [j \in WordIdxs |-> 0]]
<1>1. PICK owner \in [Slots -> Threads] :
        held = [t \in Threads |-> {x \in Slots : owner[x] = t}]
  BY DEF Init
<1>2. held \in [Threads -> SUBSET Slots]
  BY <1>1
<1>3. fresh \in [Slices -> [WordIdxs -> Ages]]
  BY AgesZero
<1>4. /\ view = [t \in Threads |-> [lag |-> fresh, data |-> held[t]]]
      /\ log = [s \in Slices |-> [j \in WordIdxs |-> [n \in Ages |->
                  [bits |-> {}, rel |-> [lag |-> fresh, data |-> {}]]]]]
  BY DEF Init
<1>5. MemOK
  <2> HIDE DEF fresh
  <2>1. \A d \in SUBSET Slots : [lag |-> fresh, data |-> d] \in ViewType
    BY <1>3 DEF ViewType
  <2>2. [bits |-> {}, rel |-> [lag |-> fresh, data |-> {}]] \in MsgType
    BY <2>1 DEF MsgType
  <2> QED BY <1>2, <1>4, <2>1, <2>2 DEF MemOK
<1>6. \A s \in Slices, j \in WordIdxs : Newest(s, j).bits = {}
  BY <1>4, AgesZero DEF Newest
<1>7. \A s \in Slices : Members(s) = {}
  BY <1>6, SlotPlace DEF Members
<1>8. InOnePlace
  BY <1>1, <1>7 DEF InOnePlace
<1>9. NoDataRace
  BY <1>2, <1>4 DEF NoDataRace
<1>10. Published
  BY <1>7 DEF Published
<1>11. Locals /\ stayed \in [Threads -> SUBSET Slots]
  BY DEF Init, Locals, PcLabels
<1>12. \A t \in Threads : LocalOK(t)
  BY DEF Init, LocalOK, Control, Running, Owed
<1> QED BY <1>2, <1>5, <1>8, <1>9, <1>10, <1>11, <1>12, IInvParts DEF Owned

LEMMA NextInv ==
  ASSUME IInv, [Next]_vars
  PROVE  IInv'
<1>1. CASE UNCHANGED vars
  <2>1. UNCHANGED <<log, view, held, pc, call, i, w, acc, stayed>>
    BY <1>1 DEF vars
  <2>2. MemOK' /\ Locals' /\ stayed' \in [Threads -> SUBSET Slots]
    BY <2>1, IInvParts DEF MemOK, Locals
  <2>3. Owned'
    BY <2>1, IInvParts, StillOwned
  <2>4. \A t \in Threads : LocalOK(t)'
    BY <2>1, IInvParts DEF LocalOK, Control, Running, Owed
  <2> QED BY <2>2, <2>3, <2>4, IInvParts DEF Owned, MemOK, Locals, IInv, TypeOK, LocalOK
<1>2. CASE Next
  <2>1. PICK t \in Threads :
          ((\E c \in Calls[t] : Begin(t, c)) \/ Access(t) \/ End(t)) /\ Record
    BY <1>2 DEF Next
  <2>2. Kept
    BY <2>1, BeginKeeps, EndKeeps, InsertKeeps, RemoveKeeps, ContainsKeeps, IterKeeps,
       PopLoadKeeps, PopTakeKeeps, DrainKeeps, ClearStepKeeps, AppendSwapKeeps,
       AppendOrKeeps DEF Access
  <2>3. stayed' \in [Threads -> SUBSET Slots]
    BY <2>1, RecordType, IInvParts
  <2> QED BY <2>2, <2>3 DEF Kept, IInv, TypeOK, MemOK, Owned, Locals, LocalOK
<1> QED BY <1>1, <1>2

\* What the threads, the sets and the values in memory satisfy in every state:
\* every value carries a view with the writes to all the slots in it.
THEOREM Invariant == Spec => []IInv
<1>1. Init => IInv
  BY InitInv
<1>2. IInv /\ [Next]_vars => IInv'
  BY NextInv
<1> QED BY <1>1, <1>2, PTL DEF Spec

\* The orderings of the code are enough: for any threads, sets and word width,
\* and however old the values the loads return, the holder of an index has seen
\* the latest write to its slot.
THEOREM RaceFree == Spec => []NoDataRace
<1>1. IInv => NoDataRace
  BY DEF IInv
<1> QED BY <1>1, Invariant, PTL

\* No index is ever in two places: racing calls never both take one, and append
\* neither copies nor drops one.
THEOREM OnePlace == Spec => []InOnePlace
<1>1. IInv => InOnePlace
  BY DEF IInv
<1> QED BY <1>1, Invariant, PTL

\* Every access is at a word that exists, and at a place of its call's code.
THEOREM TypeCorrect == Spec => []TypeOK
<1>1. IInv => TypeOK
  BY DEF IInv
<1> QED BY <1>1, Invariant, PTL

-----------------------------------------------------------------------------
\* Every value of its word that u may read has index x.
Sees(u, s, x) ==
  \A n \in Ages : MayRead(u, s, WordIdx(x), n) => BitIdx(x) \in log[s][WordIdx(x)][n].bits

\* What the accesses do to memory.
MemStep ==
  \/ UNCHANGED <<log, view>>
  \/ \E t \in Threads, s \in Slices, j \in WordIdxs, n \in Ages :
       LoadRelaxed(t, s, j, n) \/ LoadAcquire(t, s, j, n)
  \/ \E t \in Threads, x \in Slots : Fill(t, x)
  \/ \E t \in Threads, s \in Slices, j \in WordIdxs, bits \in SUBSET Bits :
       Update(t, s, j, bits) \/ Store(t, s, j, bits)

\* A view moves towards the newest values, but for a write of the word.
LEMMA Lags ==
  ASSUME NEW u \in ViewType, NEW v \in ViewType,
         NEW s \in Slices, NEW j \in WordIdxs, NEW n \in Ages
  PROVE  /\ \A r \in Slices, k \in WordIdxs :
              /\ u.lag[r][k] \in Ages
              /\ Join(u, v).lag[r][k] <= u.lag[r][k]
              /\ At(u, s, j, n).lag[r][k] = IF r = s /\ k = j THEN n ELSE u.lag[r][k]
              /\ Older(u, s, j).lag[r][k] =
                   IF r = s /\ k = j THEN Smaller(u.lag[r][k] + 1, MaxStale) ELSE u.lag[r][k]
<1> SUFFICES ASSUME NEW r \in Slices, NEW k \in WordIdxs
             PROVE  /\ u.lag[r][k] \in Ages
                    /\ Join(u, v).lag[r][k] <= u.lag[r][k]
                    /\ At(u, s, j, n).lag[r][k] = IF r = s /\ k = j THEN n ELSE u.lag[r][k]
                    /\ Older(u, s, j).lag[r][k] =
                         IF r = s /\ k = j THEN Smaller(u.lag[r][k] + 1, MaxStale)
                         ELSE u.lag[r][k]
  OBVIOUS
<1>1. /\ u.lag \in [Slices -> [WordIdxs -> Ages]] /\ v.lag \in [Slices -> [WordIdxs -> Ages]]
      /\ u = [lag |-> u.lag, data |-> u.data]
  BY DEF ViewType
<1>2. u.lag[r][k] \in Ages /\ v.lag[r][k] \in Ages
  BY <1>1
<1>3. Join(u, v).lag[r][k] = Smaller(u.lag[r][k], v.lag[r][k])
  BY DEF Join
<1>4. Join(u, v).lag[r][k] <= u.lag[r][k]
  BY <1>2, <1>3, HandoffAssumption DEF Smaller, Ages
<1>5. At(u, s, j, n).lag = [u.lag EXCEPT ![s][j] = n]
  BY <1>1 DEF At
<1>6. At(u, s, j, n).lag[r][k] = IF r = s /\ k = j THEN n ELSE u.lag[r][k]
  BY <1>1, <1>5
<1> DEFINE m == Smaller(u.lag[s][j] + 1, MaxStale)
<1>7. Older(u, s, j).lag = [u.lag EXCEPT ![s][j] = m]
  BY <1>1 DEF Older
<1>8. Older(u, s, j).lag[r][k] = IF r = s /\ k = j THEN m ELSE u.lag[r][k]
  <2> HIDE DEF m
  <2> QED BY <1>1, <1>7
<1> QED BY <1>2, <1>4, <1>6, <1>8

LEMMA JoinLag ==
  ASSUME NEW u \in ViewType, NEW v \in ViewType
  PROVE  \A r \in Slices, k \in WordIdxs :
           u.lag[r][k] \in Ages /\ Join(u, v).lag[r][k] <= u.lag[r][k]
  BY AgesZero, Lags

\* An index in every value a thread may read stays in all of them, as long as no
\* write takes it out of the newest: loads and reads of newest values leave less
\* to read, and a write adds one value to what may be read.
LEMMA PushSees ==
  ASSUME MemOK, NEW t \in Threads, NEW s \in Slices, NEW j \in WordIdxs,
         NEW bits \in SUBSET Bits, NEW v \in ViewType, Push(t, s, j, bits, v, v),
         \A r \in Slices, k \in WordIdxs : v.lag[r][k] <= view[t].lag[r][k],
         NEW u \in Threads, NEW r \in Slices, NEW x \in Slots,
         Sees(u, r, x), x \in Members(r)'
  PROVE  Sees(u, r, x)'
<1> DEFINE k == WordIdx(x)
           here == r = s /\ k = j
<1>1. k \in WordIdxs /\ BitIdx(x) \in Newest(r, k)'.bits
  BY SlotPlace DEF Members
<1>2. log' = [q \in Slices |-> [l \in WordIdxs |-> [n \in Ages |->
         IF q = s /\ l = j /\ n = 0 THEN [bits |-> bits, rel |-> At(v, s, j, 0)]
         ELSE LET old == log[q][l][IF q = s /\ l = j THEN n - 1 ELSE n] IN
              [bits |-> old.bits, rel |-> Older(old.rel, s, j)]]]]
  BY DEF Push
<1>3. view' = [q \in Threads |-> IF q = t THEN At(v, s, j, 0) ELSE Older(view[q], s, j)]
  BY DEF Push
<1>4. view[u] \in ViewType /\ view[t] \in ViewType /\ 0 \in Ages
  BY AgesZero DEF MemOK
<1>5. /\ view[u].lag[r][k] \in Ages
      /\ u = t => view'[u].lag[r][k] = IF here THEN 0 ELSE v.lag[r][k]
      /\ u # t => view'[u].lag[r][k] =
                    IF here THEN Smaller(view[u].lag[r][k] + 1, MaxStale) ELSE view[u].lag[r][k]
  <2>1. At(v, s, j, 0).lag[r][k] = IF here THEN 0 ELSE v.lag[r][k]
    BY <1>1, <1>4, Lags
  <2>2. /\ view[u].lag[r][k] \in Ages
        /\ Older(view[u], s, j).lag[r][k] =
             IF here THEN Smaller(view[u].lag[r][k] + 1, MaxStale) ELSE view[u].lag[r][k]
    <3>1. view[u] \in ViewType /\ 0 \in Ages
      BY <1>4
    <3>2. /\ view[u].lag[r][k] \in Ages
          /\ Older(view[u], s, j).lag[r][k] =
               IF r = s /\ k = j THEN Smaller(view[u].lag[r][k] + 1, MaxStale)
               ELSE view[u].lag[r][k]
      BY <1>1, <3>1, Lags
    <3> QED BY <3>2
  <2> QED BY <1>3, <2>1, <2>2
<1>6. v.lag[r][k] \in Ages /\ (u = t => v.lag[r][k] <= view[u].lag[r][k])
  BY <1>1, <1>4, Lags
<1>7. ASSUME NEW n \in Ages, n <= view'[u].lag[r][k]
      PROVE  BitIdx(x) \in log'[r][k][n].bits
  <2>1. CASE ~ here
    <3>1. log'[r][k][n].bits = log[r][k][n].bits
      BY <1>1, <1>2, <2>1
    <3>2. n <= view[u].lag[r][k]
      BY <1>5, <1>6, <1>7, <2>1, HandoffAssumption DEF Ages
    <3> QED BY <3>1, <3>2 DEF Sees, MayRead
  <2>2. CASE here /\ n = 0
    BY <1>1, <2>2 DEF Newest
  <2>3. CASE here /\ n # 0
    <3>1. log'[r][k][n].bits = log[r][k][n - 1].bits
      BY <1>1, <1>2, <2>3
    <3>2. n - 1 \in Ages
      BY <2>3, HandoffAssumption DEF Ages
    <3>3. n - 1 <= view[u].lag[r][k]
      BY <1>5, <1>7, <2>3, HandoffAssumption DEF Ages, Smaller
    <3> QED BY <3>1, <3>2, <3>3 DEF Sees, MayRead
  <2> QED BY <2>1, <2>2, <2>3
<1> QED BY <1>7 DEF Sees, MayRead

LEMMA LoadSees ==
  ASSUME MemOK, NEW t \in Threads, NEW s \in Slices, NEW j \in WordIdxs, NEW n \in Ages,
         LoadRelaxed(t, s, j, n) \/ LoadAcquire(t, s, j, n),
         NEW u \in Threads, NEW r \in Slices, NEW x \in Slots, Sees(u, r, x)
  PROVE  Sees(u, r, x)'
<1> DEFINE k == WordIdx(x)
           joined == Join(view[t], log[s][j][n].rel)
<1>1. k \in WordIdxs /\ log' = log /\ n <= view[t].lag[s][j]
  BY SlotPlace DEF LoadRelaxed, LoadAcquire, MayRead
<1>2. view[t] \in ViewType /\ view[u] \in ViewType /\ log[s][j][n].rel \in ViewType
  BY DEF MemOK, MsgType
<1>3. joined \in ViewType /\ joined.lag[r][k] <= view[t].lag[r][k]
  BY <1>1, <1>2, ViewOps, JoinLag
<1>4. /\ At(view[t], s, j, n).lag[r][k] = IF r = s /\ k = j THEN n ELSE view[t].lag[r][k]
      /\ view[t].lag[r][k] \in Ages
  BY <1>1, <1>2, Lags
<1>5. /\ At(joined, s, j, n).lag[r][k] = IF r = s /\ k = j THEN n ELSE joined.lag[r][k]
      /\ joined.lag[r][k] \in Ages
  <2> HIDE DEF joined
  <2> QED BY <1>1, <1>3, Lags
<1>6. \/ view' = [view EXCEPT ![t] = At(@, s, j, n)]
      \/ view' = [view EXCEPT ![t] = At(joined, s, j, n)]
  BY DEF LoadRelaxed, LoadAcquire
<1>7. \A m \in Ages : m <= view'[u].lag[r][k] => m <= view[u].lag[r][k]
  <2> HIDE DEF joined
  <2>1. view \in [Threads -> ViewType]
    BY DEF MemOK
  <2>2. CASE u # t
    BY <1>6, <2>1, <2>2
  <2>3. CASE u = t
    <3>1. view'[t] = At(view[t], s, j, n) \/ view'[t] = At(joined, s, j, n)
      BY <1>6, <2>1
    <3>2. view'[t].lag[r][k] <= view[t].lag[r][k]
      BY <1>1, <1>3, <1>4, <1>5, <3>1, HandoffAssumption DEF Ages
    <3>3. view'[t].lag[r][k] \in Int /\ view[t].lag[r][k] \in Int
      BY <1>4, <1>5, <3>1, HandoffAssumption DEF Ages
    <3> QED BY <2>3, <3>2, <3>3 DEF Ages
  <2> QED BY <2>2, <2>3
<1> QED BY <1>1, <1>7 DEF Sees, MayRead

LEMMA FillSees ==
  ASSUME MemOK, NEW t \in Threads, NEW y \in Slots, Fill(t, y),
         NEW u \in Threads, NEW r \in Slices, NEW x \in Slots, Sees(u, r, x)
  PROVE  Sees(u, r, x)'
<1> DEFINE k == WordIdx(x)
<1>1. k \in WordIdxs
  BY SlotPlace
<1>2. view[u] \in ViewType /\ view[t] \in ViewType
  BY DEF MemOK
<1>3. view'[u].lag = view[u].lag
  BY <1>2 DEF Fill, Unseen, ViewType
<1>4. \A n \in Ages : log'[r][k][n].bits = log[r][k][n].bits
  BY <1>1 DEF Fill
<1> QED BY <1>3, <1>4 DEF Sees, MayRead

LEMMA SeesKept ==
  ASSUME MemOK, MemStep, NEW u \in Threads, NEW s \in Slices, NEW x \in Slots,
         Sees(u, s, x), x \in Members(s)'
  PROVE  Sees(u, s, x)'
<1>1. CASE UNCHANGED <<log, view>>
  BY <1>1 DEF Sees, MayRead
<1>2. ASSUME NEW t \in Threads, NEW r \in Slices, NEW j \in WordIdxs, NEW n \in Ages,
             LoadRelaxed(t, r, j, n) \/ LoadAcquire(t, r, j, n)
      PROVE  Sees(u, s, x)'
  BY <1>2, LoadSees
<1>3. ASSUME NEW t \in Threads, NEW y \in Slots, Fill(t, y) PROVE Sees(u, s, x)'
  BY <1>3, FillSees
<1>4. ASSUME NEW t \in Threads, NEW r \in Slices, NEW j \in WordIdxs, NEW bits \in SUBSET Bits,
             Update(t, r, j, bits)
      PROVE  Sees(u, s, x)'
  <2> DEFINE v == Join(view[t], Newest(r, j).rel)
  <2>1. view[t] \in ViewType /\ Newest(r, j).rel \in ViewType /\ 0 \in Ages
    BY NewestType, AgesZero DEF MemOK
  <2>2. v \in ViewType /\ \A q \in Slices, k \in WordIdxs : v.lag[q][k] <= view[t].lag[q][k]
    BY <2>1, ViewOps, JoinLag
  <2>3. Push(t, r, j, bits, v, v)
    BY <1>4 DEF Update
  <2> HIDE DEF v
  <2> QED BY <2>2, <2>3, PushSees
<1>5. ASSUME NEW t \in Threads, NEW r \in Slices, NEW j \in WordIdxs, NEW bits \in SUBSET Bits,
             Store(t, r, j, bits)
      PROVE  Sees(u, s, x)'
  <2>1. view[t] \in ViewType /\ 0 \in Ages
    BY AgesZero DEF MemOK
  <2>2. \A q \in Slices, k \in WordIdxs : view[t].lag[q][k] <= view[t].lag[q][k]
    BY <2>1, Lags, HandoffAssumption DEF Ages
  <2> QED BY <1>5, <2>1, <2>2, PushSees DEF Store
<1> QED BY <1>1, <1>2, <1>3, <1>4, <1>5 DEF MemStep

-----------------------------------------------------------------------------
\* What a call in progress knows.  What has stayed in the words ahead is in every
\* value its thread may read; of the words behind, pop_first knows that nothing
\* has stayed, iter that it has met all that has; and the bit pop_first has chosen
\* is no higher than any that has stayed in its word.
AnswerKnown(t) ==
  /\ call[t].op = "pop_first" =>
       /\ acc[t] = {} => stayed[t] = {}
       /\ \A x \in acc[t], y \in stayed[t] : x <= y
  /\ call[t].op = "iter" => stayed[t] \subseteq acc[t]
  /\ call[t].op = "contains" => stayed[t] \cap {call[t].id} \subseteq acc[t]
Ahead(t) ==
  Running(t) /\ Reads(call[t]) =>
    \A x \in stayed[t] : i[t] <= WordIdx(x) => Sees(t, Self(t), x)
Behind(t) ==
  /\ pc[t] \in {"idle", "pop_load", "pop_take"} => acc[t] = {}
  /\ pc[t] \in {"pop_load", "pop_take"} => \A x \in stayed[t] : i[t] <= WordIdx(x)
  /\ pc[t] = "iter" => \A x \in stayed[t] : WordIdx(x) < i[t] => x \in acc[t]
Chosen(t) ==
  pc[t] = "pop_take" => \E b \in Bits :
    w[t] = {b} /\ \A x \in stayed[t] : WordIdx(x) = i[t] => b <= BitIdx(x)
Known(t) ==
  Ahead(t) /\ Behind(t) /\ Chosen(t) /\ (pc[t] = "return" => AnswerKnown(t))
KInv == IInv /\ \A t \in Threads : Known(t)

\* Indices are ordered by word, then by bit.
LEMMA SlotOrder ==
  ASSUME NEW x \in Slots, NEW y \in Slots,
         WordIdx(x) < WordIdx(y) \/ (WordIdx(x) = WordIdx(y) /\ BitIdx(x) <= BitIdx(y))
  PROVE  x <= y
<1>1. /\ x \in Nat /\ y \in Nat /\ WordIdx(x) \in Nat /\ WordIdx(y) \in Nat
      /\ BitIdx(x) \in Bits /\ BitIdx(y) \in Bits
      /\ x = WordIdx(x) * BITS_PER + BitIdx(x) /\ y = WordIdx(y) * BITS_PER + BitIdx(y)
  <2>1. ASSUME NEW z \in Slots
        PROVE  /\ z \in Nat /\ WordIdx(z) \in Nat /\ BitIdx(z) \in Bits
               /\ z = WordIdx(z) * BITS_PER + BitIdx(z)
    <3>1. z \in Nat
      BY HandoffAssumption DEF Slots
    <3>2. WordIdx(z) \in Nat /\ BitIdx(z) \in Bits
      BY SlotPlace DEF WordIdxs
    <3>3. z = WordIdx(z) * BITS_PER + BitIdx(z)
      BY <3>1, HandoffAssumption DEF WordIdx, BitIdx
    <3> QED BY <3>1, <3>2, <3>3
  <2> QED BY <2>1
<1>2. CASE WordIdx(x) < WordIdx(y)
  <2> DEFINE p == WordIdx(x) * BITS_PER
             q == WordIdx(y) * BITS_PER
  <2>1. p \in Nat /\ q \in Nat /\ p + BITS_PER <= q
    BY <1>1, <1>2, HandoffAssumption
  <2>2. x = p + BitIdx(x) /\ y = q + BitIdx(y)
    BY <1>1
  <2> HIDE DEF p, q
  <2> QED BY <1>1, <2>1, <2>2, HandoffAssumption DEF Bits
<1>3. CASE WordIdx(x) = WordIdx(y) /\ BitIdx(x) <= BitIdx(y)
  <2> DEFINE p == WordIdx(y) * BITS_PER
  <2>1. p \in Nat /\ x = p + BitIdx(x) /\ y = p + BitIdx(y)
    BY <1>1, <1>3, HandoffAssumption
  <2> HIDE DEF p
  <2> QED BY <1>1, <1>3, <2>1 DEF Bits
<1> QED BY <1>2, <1>3

\* What the history does in a step.
LEMMA Recorded ==
  ASSUME Record, NEW t \in Threads, pc'[t] # "idle"
  PROVE  /\ pc[t] = "idle" =>
              stayed'[t] = IF Reads(call'[t]) THEN Visible(t, call'[t].self) ELSE {}
         /\ pc[t] # "idle" => stayed'[t] \subseteq stayed[t]
         /\ Running(t) => stayed'[t] \subseteq Members(Self(t))'
  BY DEF Record, Running

\* What was in all that a thread may read is so still, if it has stayed.
LEMMA StillSees ==
  ASSUME IInv, IInv', Record, MemStep, NEW t \in Threads, Running(t), Reads(call[t]), Ahead(t),
         pc'[t] # "idle", call'[t] = call[t]
  PROVE  \A x \in stayed'[t] : i[t] <= WordIdx(x) => Sees(t, Self(t), x)'
<1>1. MemOK /\ Self(t) \in Slices /\ Self(t)' = Self(t) /\ pc[t] # "idle"
  BY IInvParts, AtWord DEF Running, Self
<1>2. ASSUME NEW x \in stayed'[t], i[t] <= WordIdx(x) PROVE Sees(t, Self(t), x)'
  <2>1. x \in stayed[t] /\ x \in Slots /\ x \in Members(Self(t))'
    BY <1>1, Recorded, IInvParts
  <2>2. Sees(t, Self(t), x)
    BY <1>2, <2>1 DEF Ahead
  <2> DEFINE s == Self(t)
  <2>3. x \in Members(s)'
    BY <2>1
  <2>4. s \in Slices /\ Sees(t, s, x)
    BY <1>1, <2>2
  <2> QED BY <1>1, <2>1, <2>3, <2>4, SeesKept
<1> QED BY <1>2

\* Another thread's step leaves a call all it knows.
LEMMA OthersKnow ==
  ASSUME IInv, IInv', Record, MemStep, NEW u \in Threads, Known(u),
         pc'[u] = pc[u], call'[u] = call[u], i'[u] = i[u], w'[u] = w[u], acc'[u] = acc[u]
  PROVE  Known(u)'
<1>1. CASE pc[u] = "idle"
  BY <1>1 DEF Known, Ahead, Behind, Chosen, Running
<1>2. CASE pc[u] # "idle"
  <2>1. stayed'[u] \subseteq stayed[u]
    BY <1>2, Recorded
  <2>2. Ahead(u)'
    <3> SUFFICES ASSUME Running(u), Reads(call[u])
                 PROVE  \A x \in stayed'[u] : i[u] <= WordIdx(x) => Sees(u, Self(u), x)'
      BY DEF Ahead, Running, Reads
    <3> QED BY <1>2, StillSees DEF Known
  <2>3. Behind(u)' /\ Chosen(u)'
    BY <2>1 DEF Known, Behind, Chosen
  <2>4. (pc[u] = "return" => AnswerKnown(u))'
    BY <2>1 DEF Known, AnswerKnown
  <2> QED BY <2>2, <2>3, <2>4 DEF Known
<1> QED BY <1>1, <1>2

-----------------------------------------------------------------------------
\* A thread's own step leaves it with what the next one needs.

\* What the places of the code say of the call.
LEMMA AtPlace ==
  ASSUME IInv, NEW t \in Threads, pc[t] \notin {"idle", "return"}
  PROVE  /\ call[t].op \in Ops /\ i[t] \in WordIdxs /\ Running(t)
         /\ Self(t) \in Slices /\ Other(t) \in Slices /\ call[t].id \in Slots
         /\ pc[t] \in {"pop_load", "pop_take"} <=> call[t].op = "pop_first"
         /\ pc[t] = "iter" <=> call[t].op = "iter"
         /\ pc[t] = "contains" <=> call[t].op = "contains"
         /\ pc[t] = "contains" => i[t] = WordIdx(call[t].id)
<1>1. pc[t] # "idle" /\ Running(t)
  BY DEF Running
<1>2. /\ call[t].op \in Ops /\ i[t] \in WordIdxs /\ Control(t)
      /\ Self(t) \in Slices /\ Other(t) \in Slices /\ call[t].id \in Slots
  BY <1>1, AtWord
<1> QED BY <1>1, <1>2 DEF Control, Label, Ops

LEMMA BeginKnows ==
  ASSUME IInv, IInv', Record, NEW t \in Threads, Known(t), NEW c \in Calls[t], Begin(t, c)
  PROVE  Known(t)'
<1>1. /\ pc[t] = "idle" /\ pc'[t] = Label(c) /\ call'[t] = c /\ acc'[t] = {}
      /\ c.op # "insert" => log' = log /\ view' = view
      /\ c.op \in {"pop_first", "iter"} => i'[t] = 0
  <2>1. /\ pc \in [Threads -> PcLabels] /\ i \in [Threads -> Nat]
        /\ call \in [Threads -> CallType \cup {NoCall}]
    BY IInvParts DEF Locals
  <2>2. acc[t] = {} /\ acc' = acc /\ pc[t] = "idle"
    BY DEF Begin, Known, Behind
  <2> QED BY <2>1, <2>2 DEF Begin, Goto
<1>2. c \in CallType /\ c.op \in Ops /\ c.self \in Slices
  BY HandoffCalls DEF CallType
<1>3. Label(c) \notin {"idle", "return", "pop_take"}
  BY <1>2 DEF Label, Ops
<1>4. stayed'[t] = IF Reads(c) THEN Visible(t, c.self) ELSE {}
  BY <1>1, <1>3, Recorded
<1>5. Ahead(t)'
  <2> SUFFICES ASSUME Reads(c), NEW x \in stayed'[t] PROVE Sees(t, c.self, x)'
    BY <1>1 DEF Ahead, Self
  <2>1. x \in Visible(t, c.self) /\ log' = log /\ view' = view
    BY <1>1, <1>4 DEF Reads
  <2> QED BY <2>1 DEF Visible, Sees, MayRead
<1>6. Behind(t)'
  <2>1. \A x \in stayed'[t] : WordIdx(x) \in Nat
    <3>1. stayed' \in [Threads -> SUBSET Slots]
      BY DEF IInv, TypeOK
    <3> QED BY <3>1, SlotPlace DEF WordIdxs
  <2>2. c.op \in {"pop_first", "iter"} => i'[t] = 0
    BY <1>1
  <2>3. /\ Label(c) \in {"pop_load", "pop_take"} => c.op = "pop_first"
        /\ Label(c) = "iter" => c.op = "iter"
    BY <1>2 DEF Label, Ops
  <2> QED BY <1>1, <2>1, <2>2, <2>3 DEF Behind
<1>7. Chosen(t)' /\ (pc[t] = "return" => AnswerKnown(t))'
  BY <1>1, <1>3 DEF Chosen
<1> QED BY <1>5, <1>6, <1>7 DEF Known

LEMMA EndKnows ==
  ASSUME IInv, NEW t \in Threads, End(t)
  PROVE  Known(t)'
<1>1. pc'[t] = "idle" /\ acc'[t] = {}
  BY IInvParts DEF End, Goto, Locals
<1> QED BY <1>1 DEF Known, Ahead, Behind, Chosen, Running

\* A call that reads no set has nothing to know.
LEMMA WriterKnows ==
  ASSUME IInv, IInv', NEW t \in Threads, pc[t] \notin {"idle", "return"},
         ~ Reads(call[t]), call' = call, pc'[t] # "idle"
  PROVE  Known(t)'
<1>1. ~ Reads(call'[t]) /\ call[t].op \notin {"pop_first", "iter", "contains"}
  BY DEF Reads
<1>2. pc'[t] \notin {"pop_load", "pop_take", "iter"}
  <2>1. CASE pc'[t] = "return"
    BY <2>1
  <2>2. CASE pc'[t] # "return"
    <3>1. Control(t)' /\ call[t].op \in Ops
      BY AtPlace DEF IInv, TypeOK
    <3> QED BY <1>1, <2>2, <3>1 DEF Control, Running, Label, Ops
  <2> QED BY <2>1, <2>2
<1> QED BY <1>1, <1>2 DEF Known, Ahead, Behind, Chosen, AnswerKnown

\* The words of the receiver that a call has passed, when it goes on or returns.
LEMMA NextPlace ==
  ASSUME IInv, NEW t \in Threads, pc[t] \in {"iter", "pop_load"}, NextWord(t), call' = call
  PROVE  /\ i'[t] = i[t] + 1 /\ i[t] \in WordIdxs
         /\ \/ pc'[t] = pc[t]
            \/ pc'[t] = "return" /\ i[t] + 1 \notin WordIdxs
<1>1. /\ i[t] \in WordIdxs /\ pc[t] = Label(call[t])
  BY AtPlace DEF Label
<1>2. pc \in [Threads -> PcLabels] /\ i \in [Threads -> Nat]
  BY IInvParts DEF Locals
<1> QED BY <1>1, <1>2 DEF NextWord, Goto

LEMMA ContainsKnows ==
  ASSUME IInv, IInv', Record, NEW t \in Threads, Known(t), Contains(t)
  PROVE  Known(t)'
<1>1. PICK n \in Ages :
        /\ LoadRelaxed(t, Self(t), i[t], n)
        /\ Answer(t, IdxsOf(i[t], log[Self(t)][i[t]][n].bits) \cap {call[t].id})
  BY DEF Contains
<1>2. /\ pc[t] = "contains" /\ pc'[t] = "return" /\ call' = call
      /\ acc'[t] = IdxsOf(i[t], log[Self(t)][i[t]][n].bits) \cap {call[t].id}
  BY <1>1, IInvParts DEF Contains, Return, Goto, Answer, Locals
<1>3. /\ call[t].op = "contains" /\ i[t] = WordIdx(call[t].id) /\ Running(t)
      /\ i[t] \in WordIdxs
  BY <1>2, AtPlace
<1>4. ASSUME NEW x \in stayed'[t], x = call[t].id PROVE x \in acc'[t]
  <2>1. x \in stayed[t] /\ x \in Slots
    BY <1>2, Recorded, IInvParts
  <2>2. Sees(t, Self(t), x)
    BY <1>3, <1>4, <2>1 DEF Known, Ahead, Reads, WordIdxs
  <2>3. BitIdx(x) \in log[Self(t)][i[t]][n].bits
    BY <1>1, <1>3, <1>4, <2>2 DEF Sees, LoadRelaxed
  <2> QED BY <1>2, <1>3, <1>4, <2>1, <2>3 DEF IdxsOf
<1>5. AnswerKnown(t)'
  BY <1>2, <1>3, <1>4 DEF AnswerKnown
<1> QED BY <1>2, <1>5 DEF Known, Ahead, Behind, Chosen, Running

LEMMA IterKnows ==
  ASSUME IInv, IInv', Record, NEW t \in Threads, Known(t), Iter(t)
  PROVE  Known(t)'
<1>1. PICK n \in Ages :
        /\ LoadRelaxed(t, Self(t), i[t], n)
        /\ Answer(t, acc[t] \cup IdxsOf(i[t], log[Self(t)][i[t]][n].bits))
  BY DEF Iter
<1>2. /\ pc[t] = "iter" /\ call' = call /\ NextWord(t)
      /\ acc'[t] = acc[t] \cup IdxsOf(i[t], log[Self(t)][i[t]][n].bits)
  BY <1>1, IInvParts DEF Iter, Answer, Locals
<1>3. /\ call[t].op = "iter" /\ i[t] \in WordIdxs /\ Running(t) /\ Self(t) \in Slices
  BY <1>2, AtPlace
<1>4. /\ i'[t] = i[t] + 1
      /\ pc'[t] = "iter" \/ (pc'[t] = "return" /\ i[t] + 1 \notin WordIdxs)
  BY <1>2, NextPlace
<1>5. \A x \in stayed'[t] : x \in stayed[t] /\ x \in Slots /\ WordIdx(x) \in WordIdxs
  BY <1>2, <1>4, Recorded, IInvParts, SlotPlace
<1>6. ASSUME NEW x \in stayed'[t], WordIdx(x) < i[t] + 1 PROVE x \in acc'[t]
  <2>1. CASE WordIdx(x) < i[t]
    BY <1>2, <1>5, <2>1 DEF Known, Behind
  <2>2. CASE WordIdx(x) = i[t]
    <3>1. Sees(t, Self(t), x)
      BY <1>3, <1>5, <2>2 DEF Known, Ahead, Reads, WordIdxs
    <3>2. BitIdx(x) \in log[Self(t)][i[t]][n].bits
      BY <1>1, <2>2, <3>1 DEF Sees, LoadRelaxed
    <3> QED BY <1>2, <1>5, <2>2, <3>2 DEF IdxsOf
  <2> QED BY <1>3, <1>5, <1>6, <2>1, <2>2 DEF WordIdxs
<1>7. Ahead(t)'
  <2>1. MemStep
    BY <1>1, <1>3 DEF MemStep
  <2>2. \A x \in stayed'[t] : i[t] <= WordIdx(x) => Sees(t, Self(t), x)'
    BY <1>2, <1>3, <1>4, <2>1, StillSees DEF Known, Reads
  <2>3. \A x \in stayed'[t] : i[t] + 1 <= WordIdx(x) => i[t] <= WordIdx(x)
    BY <1>3, <1>5 DEF WordIdxs
  <2> QED BY <1>2, <1>4, <2>2, <2>3 DEF Ahead, Self
<1>8. Behind(t)' /\ Chosen(t)'
  BY <1>4, <1>6 DEF Behind, Chosen
<1>9. (pc[t] = "return" => AnswerKnown(t))'
  <2>1. CASE pc'[t] = "return"
    <3>1. \A x \in stayed'[t] : WordIdx(x) < i[t] + 1
      BY <1>3, <1>4, <1>5, <2>1, HandoffAssumption DEF WordIdxs
    <3> QED BY <1>2, <1>3, <1>6, <3>1 DEF AnswerKnown
  <2> QED BY <2>1
<1> QED BY <1>7, <1>8, <1>9 DEF Known

LEMMA PopLoadKnows ==
  ASSUME IInv, IInv', Record, NEW t \in Threads, Known(t), PopLoad(t)
  PROVE  Known(t)'
<1>1. PICK n \in Ages :
        LET bits == log[Self(t)][i[t]][n].bits IN
        /\ LoadAcquire(t, Self(t), i[t], n)
        /\ IF bits = {}
           THEN NextWord(t) /\ UNCHANGED w
           ELSE /\ \E b \in bits : IsLowest(b, bits) /\ Hold(t, {b})
                /\ Goto(t, "pop_take") /\ UNCHANGED i
  BY DEF PopLoad
<1> DEFINE bits == log[Self(t)][i[t]][n].bits
<1>2. /\ pc[t] = "pop_load" /\ call' = call /\ acc' = acc /\ acc[t] = {}
      /\ \A x \in stayed[t] : i[t] <= WordIdx(x)
  BY DEF PopLoad, Known, Behind
<1>3. /\ call[t].op = "pop_first" /\ i[t] \in WordIdxs /\ Running(t) /\ Self(t) \in Slices
  BY <1>2, AtPlace
<1>4. ASSUME NEW x \in stayed[t], WordIdx(x) = i[t] PROVE BitIdx(x) \in bits
  <2>1. Sees(t, Self(t), x)
    BY <1>3, <1>4 DEF Known, Ahead, Reads, WordIdxs
  <2> QED BY <1>1, <1>4, <2>1 DEF Sees, LoadAcquire
<1>5. pc \in [Threads -> PcLabels] /\ i \in [Threads -> Nat] /\ w \in [Threads -> SUBSET Bits]
      /\ bits \in SUBSET Bits
  <2>1. log \in [Slices -> [WordIdxs -> [Ages -> MsgType]]]
    BY IInvParts DEF MemOK
  <2> QED BY <1>3, <2>1, IInvParts DEF Locals, MsgType
<1>6. /\ i[t] <= i'[t]
      /\ pc'[t] \in {"pop_load", "pop_take", "return"}
      /\ pc'[t] # "return" => \A x \in stayed[t] : i'[t] <= WordIdx(x)
      /\ pc'[t] = "return" => stayed[t] = {}
  <2>1. CASE bits = {}
    <3>1. /\ i'[t] = i[t] + 1
          /\ pc'[t] = "pop_load" \/ (pc'[t] = "return" /\ i[t] + 1 \notin WordIdxs)
      BY <1>1, <1>2, <2>1, NextPlace
    <3>2. \A x \in stayed[t] : WordIdx(x) \in WordIdxs /\ i[t] <= WordIdx(x) /\ WordIdx(x) # i[t]
      BY <1>2, <1>4, <2>1, IInvParts, SlotPlace
    <3>3. \A x \in stayed[t] : i[t] + 1 <= WordIdx(x) /\ WordIdx(x) <= NWords - 1
      BY <1>3, <3>2, HandoffAssumption DEF WordIdxs
    <3>4. i[t] + 1 \notin WordIdxs => ~ (i[t] + 1 <= NWords - 1)
      BY <1>3, HandoffAssumption DEF WordIdxs
    <3>5. i[t] + 1 \notin WordIdxs => stayed[t] = {}
      <4>1. ASSUME i[t] + 1 \notin WordIdxs, NEW x \in stayed[t] PROVE FALSE
        <5>1. WordIdx(x) \in Int /\ i[t] \in Int
          BY <1>3, <3>2, HandoffAssumption DEF WordIdxs
        <5> QED BY <3>3, <3>4, <4>1, <5>1, HandoffAssumption
      <4> QED BY <4>1
    <3> QED BY <1>3, <3>1, <3>3, <3>5 DEF WordIdxs
  <2>2. CASE bits # {}
    <3>1. pc'[t] = "pop_take" /\ i' = i
      BY <1>1, <1>5, <2>2 DEF Goto
    <3> QED BY <1>2, <1>3, <3>1 DEF WordIdxs
  <2> QED BY <2>1, <2>2
<1>7. stayed'[t] \subseteq stayed[t]
  BY <1>2, <1>6, Recorded
<1>8. Ahead(t)'
  <2>1. MemStep
    BY <1>1, <1>3 DEF MemStep
  <2>2. \A x \in stayed'[t] : i[t] <= WordIdx(x) => Sees(t, Self(t), x)'
    BY <1>2, <1>3, <1>6, <2>1, StillSees DEF Known, Reads
  <2> QED BY <1>2, <1>7, <2>2 DEF Ahead, Self
<1>9. Behind(t)'
  BY <1>2, <1>6, <1>7 DEF Behind
<1>10. Chosen(t)'
  <2> SUFFICES ASSUME pc'[t] = "pop_take"
               PROVE  \E b \in Bits :
                 w'[t] = {b} /\ \A x \in stayed'[t] : WordIdx(x) = i'[t] => b <= BitIdx(x)
    BY DEF Chosen
  <2>1. bits # {}
    <3>1. ASSUME bits = {} PROVE FALSE
      <4>1. pc'[t] = "pop_load" \/ pc'[t] = "return"
        BY <1>1, <1>2, <3>1, NextPlace
      <4> QED BY <4>1
    <3> QED BY <3>1
  <2>2. PICK b \in bits : IsLowest(b, bits) /\ Hold(t, {b})
    BY <1>1, <2>1
  <2>3. w'[t] = {b} /\ i' = i /\ b \in Bits
    BY <1>1, <1>5, <2>1, <2>2 DEF Hold
  <2>4. \A x \in stayed'[t] : WordIdx(x) = i'[t] => b <= BitIdx(x)
    BY <1>4, <1>7, <2>2, <2>3 DEF IsLowest
  <2> QED BY <2>3, <2>4
<1>11. (pc[t] = "return" => AnswerKnown(t))'
  BY <1>2, <1>3, <1>6, <1>7 DEF AnswerKnown
<1> QED BY <1>8, <1>9, <1>10, <1>11 DEF Known

LEMMA PopTakeKnows ==
  ASSUME IInv, IInv', Record, NEW t \in Threads, Known(t), PopTake(t)
  PROVE  Known(t)'
<1> DEFINE old == Newest(Self(t), i[t]).bits
           took == IdxsOf(i[t], old \cap w[t])
<1>1. /\ pc[t] = "pop_take" /\ call' = call /\ i' = i
      /\ Update(t, Self(t), i[t], old \ w[t]) /\ Answer(t, took)
      /\ IF took # {} THEN Return(t) ELSE Goto(t, "pop_load")
  BY DEF PopTake
<1>2. PICK b \in Bits :
        w[t] = {b} /\ \A x \in stayed[t] : WordIdx(x) = i[t] => b <= BitIdx(x)
  BY <1>1 DEF Known, Chosen
<1>3. /\ call[t].op = "pop_first" /\ i[t] \in WordIdxs /\ Running(t) /\ Self(t) \in Slices
      /\ \A x \in stayed[t] : i[t] <= WordIdx(x)
  BY <1>1, AtPlace DEF Known, Behind
<1>4. /\ acc'[t] = took
      /\ pc'[t] = IF took # {} THEN "return" ELSE "pop_load"
  BY <1>1, IInvParts DEF Answer, Return, Goto, Locals
<1>5. stayed'[t] \subseteq stayed[t]
  BY <1>1, <1>4, Recorded
<1>6. Ahead(t)'
  <2>1. MemStep
    <3>1. old \ w[t] \in SUBSET Bits
      BY <1>3, IInvParts, NewestType
    <3> HIDE DEF old
    <3> QED BY <1>1, <1>3, <3>1 DEF MemStep
  <2>2. \A x \in stayed'[t] : i[t] <= WordIdx(x) => Sees(t, Self(t), x)'
    BY <1>1, <1>3, <1>4, <2>1, StillSees DEF Known, Reads
  <2> QED BY <1>1, <2>2 DEF Ahead, Self
<1>7. Behind(t)'
  BY <1>1, <1>3, <1>4, <1>5 DEF Behind
<1>8. Chosen(t)'
  BY <1>4 DEF Chosen
<1>9. ASSUME took # {} PROVE AnswerKnown(t)'
  <2>1. ASSUME NEW x \in took, NEW y \in stayed'[t] PROVE x <= y
    <3>1. x \in Slots /\ WordIdx(x) = i[t] /\ BitIdx(x) = b
      BY <1>2 DEF IdxsOf
    <3>2. y \in stayed[t] /\ y \in Slots
      BY <1>5, IInvParts
    <3>3. WordIdx(x) < WordIdx(y) \/ (WordIdx(x) = WordIdx(y) /\ BitIdx(x) <= BitIdx(y))
      <4>1. i[t] <= WordIdx(y) /\ (WordIdx(y) = i[t] => b <= BitIdx(y))
        BY <1>2, <1>3, <3>2
      <4>2. i[t] \in Int /\ WordIdx(y) \in Int
        BY <1>3, <3>2, SlotPlace DEF WordIdxs
      <4> QED BY <3>1, <4>1, <4>2
    <3> QED BY <3>1, <3>2, <3>3, SlotOrder
  <2> HIDE DEF took
  <2> QED BY <1>1, <1>3, <1>4, <1>9, <2>1 DEF AnswerKnown
<1>10. (pc[t] = "return" => AnswerKnown(t))'
  BY <1>4, <1>9
<1> QED BY <1>6, <1>7, <1>8, <1>10 DEF Known

\* Every access is one of memory's.
LEMMA AccessMem ==
  ASSUME IInv, NEW t \in Threads, Access(t)
  PROVE  MemStep /\ call' = call /\ pc[t] \notin {"idle", "return"}
         /\ \A u \in Threads : u # t =>
              pc'[u] = pc[u] /\ i'[u] = i[u] /\ w'[u] = w[u] /\ acc'[u] = acc[u]
<1>1. /\ pc \in [Threads -> PcLabels] /\ i \in [Threads -> Nat]
      /\ w \in [Threads -> SUBSET Bits] /\ acc \in [Threads -> SUBSET Slots]
  BY IInvParts DEF Locals
<1>2. pc[t] \notin {"idle", "return"}
  BY DEF Access, Insert, Remove, Contains, Iter, PopLoad, PopTake, Drain, Clear, AppendSwap,
         AppendOr
<1>3. /\ Self(t) \in Slices /\ Other(t) \in Slices /\ i[t] \in WordIdxs
      /\ call[t].id \in Slots
  BY <1>2, AtPlace
<1>4. /\ Newest(Self(t), i[t]).bits \in SUBSET Bits
      /\ BitIdx(call[t].id) \in Bits /\ w[t] \in SUBSET Bits /\ {} \in SUBSET Bits
  BY <1>1, <1>3, IInvParts, NewestType, SlotPlace
<1>5. MemStep
  <2>1. CASE Insert(t)
    <3> DEFINE bits == Newest(Self(t), i[t]).bits \cup {BitIdx(call[t].id)}
    <3>1. Update(t, Self(t), i[t], bits) /\ bits \in SUBSET Bits
      BY <1>4, <2>1 DEF Insert
    <3> HIDE DEF bits
    <3> QED BY <1>3, <3>1 DEF MemStep
  <2>2. CASE Remove(t)
    <3> DEFINE bits == Newest(Self(t), i[t]).bits \ {BitIdx(call[t].id)}
    <3>1. Update(t, Self(t), i[t], bits) /\ bits \in SUBSET Bits
      BY <1>4, <2>2 DEF Remove
    <3> HIDE DEF bits
    <3> QED BY <1>3, <3>1 DEF MemStep
  <2>3. CASE Contains(t) \/ Iter(t)
    <3>1. PICK n \in Ages : LoadRelaxed(t, Self(t), i[t], n)
      BY <2>3 DEF Contains, Iter
    <3> QED BY <1>3, <3>1 DEF MemStep
  <2>4. CASE PopLoad(t)
    <3>1. PICK n \in Ages : LoadAcquire(t, Self(t), i[t], n)
      BY <2>4 DEF PopLoad
    <3> QED BY <1>3, <3>1 DEF MemStep
  <2>5. CASE PopTake(t)
    <3> DEFINE bits == Newest(Self(t), i[t]).bits \ w[t]
    <3>1. Update(t, Self(t), i[t], bits) /\ bits \in SUBSET Bits
      BY <1>4, <2>5 DEF PopTake
    <3> HIDE DEF bits
    <3> QED BY <1>3, <3>1 DEF MemStep
  <2>6. CASE Drain(t)
    BY <1>3, <1>4, <2>6 DEF Drain, MemStep
  <2>7. CASE Clear(t)
    BY <1>3, <1>4, <2>7 DEF Clear, MemStep
  <2>8. CASE AppendSwap(t)
    BY <1>3, <1>4, <2>8 DEF AppendSwap, MemStep
  <2>9. CASE AppendOr(t)
    <3> DEFINE bits == Newest(Self(t), i[t]).bits \cup w[t]
    <3>1. Update(t, Self(t), i[t], bits) /\ bits \in SUBSET Bits
      BY <1>4, <2>9 DEF AppendOr
    <3> HIDE DEF bits
    <3> QED BY <1>3, <3>1 DEF MemStep
  <2> QED BY <2>1, <2>2, <2>3, <2>4, <2>5, <2>6, <2>7, <2>8, <2>9 DEF Access
<1>6. call' = call
  BY DEF Access, Insert, Remove, Contains, Iter, PopLoad, PopTake, Drain, Clear, AppendSwap,
         AppendOr
<1>7. \A u \in Threads : u # t =>
        pc'[u] = pc[u] /\ i'[u] = i[u] /\ w'[u] = w[u] /\ acc'[u] = acc[u]
  BY <1>1 DEF Access, Insert, Remove, Contains, Iter, PopLoad, PopTake, Drain, Clear,
              AppendSwap, AppendOr, Return, Goto, NextWord, Hold, Answer
<1> QED BY <1>2, <1>5, <1>6, <1>7

LEMMA KNext ==
  ASSUME KInv, IInv', [Next]_vars
  PROVE  KInv'
<1>1. CASE UNCHANGED vars
  <2>1. UNCHANGED <<log, view, held, pc, call, i, w, acc, stayed>>
    BY <1>1 DEF vars
  <2> QED BY <2>1 DEF KInv, Known, Ahead, Behind, Chosen, AnswerKnown, Running, Reads, Self, Sees,
                     MayRead
<1>2. CASE Next
  <2>1. PICK t \in Threads :
          ((\E c \in Calls[t] : Begin(t, c)) \/ Access(t) \/ End(t)) /\ Record
    BY <1>2 DEF Next
  <2>2. IInv /\ \A u \in Threads : Known(u)
    BY DEF KInv
  <2>3. /\ pc \in [Threads -> PcLabels] /\ i \in [Threads -> Nat]
        /\ w \in [Threads -> SUBSET Bits] /\ acc \in [Threads -> SUBSET Slots]
        /\ call \in [Threads -> CallType \cup {NoCall}]
    BY <2>2, IInvParts DEF Locals
  <2>4. CASE \E c \in Calls[t] : Begin(t, c)
    <3>1. PICK c \in Calls[t] : Begin(t, c)
      BY <2>4
    <3>2. MemStep
      <4>1. c.id \in Slots
        BY HandoffCalls DEF CallType
      <4> QED BY <3>1, <4>1 DEF Begin, MemStep
    <3>3. \A u \in Threads : u # t => pc'[u] = pc[u] /\ call'[u] = call[u] /\ i'[u] = i[u]
                                     /\ w'[u] = w[u] /\ acc'[u] = acc[u]
      BY <2>3, <3>1 DEF Begin, Goto
    <3>4. \A u \in Threads : u # t => Known(u)'
      BY <2>1, <2>2, <3>2, <3>3, OthersKnow
    <3>5. Known(t)'
      BY <2>1, <2>2, <3>1, BeginKnows
    <3> QED BY <3>4, <3>5 DEF KInv
  <2>5. CASE End(t)
    <3>1. MemStep
      BY <2>5 DEF End, MemStep
    <3>2. \A u \in Threads : u # t => pc'[u] = pc[u] /\ call'[u] = call[u] /\ i'[u] = i[u]
                                     /\ w'[u] = w[u] /\ acc'[u] = acc[u]
      BY <2>3, <2>5 DEF End, Goto
    <3>3. \A u \in Threads : u # t => Known(u)'
      BY <2>1, <2>2, <3>1, <3>2, OthersKnow
    <3>4. Known(t)'
      BY <2>2, <2>5, EndKnows
    <3> QED BY <3>3, <3>4 DEF KInv
  <2>6. CASE Access(t)
    <3>1. MemStep /\ call' = call /\ pc[t] \notin {"idle", "return"}
          /\ \A u \in Threads : u # t =>
               pc'[u] = pc[u] /\ i'[u] = i[u] /\ w'[u] = w[u] /\ acc'[u] = acc[u]
      BY <2>2, <2>6, AccessMem
    <3>2. \A u \in Threads : u # t => Known(u)'
      BY <2>1, <2>2, <3>1, OthersKnow
    <3>3. CASE Contains(t) \/ Iter(t) \/ PopLoad(t) \/ PopTake(t)
      <4>1. Known(t)'
        BY <2>1, <2>2, <3>3, ContainsKnows, IterKnows, PopLoadKnows, PopTakeKnows
      <4> QED BY <3>2, <4>1 DEF KInv
    <3>4. CASE Insert(t) \/ Remove(t) \/ Drain(t) \/ Clear(t) \/ AppendSwap(t) \/ AppendOr(t)
      <4>1. pc[t] \notin {"contains", "iter", "pop_load", "pop_take"}
        BY <3>4 DEF Insert, Remove, Drain, Clear, AppendSwap, AppendOr
      <4>2. ~ Reads(call[t])
        BY <2>2, <3>1, <4>1, AtPlace DEF Reads
      <4>3. pc'[t] # "idle"
        <5>1. Label(call[t]) # "idle"
          BY <2>2, <3>1, AtPlace DEF Label, Ops
        <5> QED BY <2>3, <3>4, <5>1 DEF Insert, Remove, Drain, Clear, AppendSwap, AppendOr,
                                        Return, NextWord, Goto
      <4>4. Known(t)'
        BY <2>2, <3>1, <4>2, <4>3, WriterKnows
      <4> QED BY <3>2, <4>4 DEF KInv
    <3> QED BY <2>6, <3>3, <3>4 DEF Access
  <2> QED BY <2>1, <2>4, <2>5, <2>6
<1> QED BY <1>1, <1>2

\* Whatever old values the loads of pop_first, iter and contains return, for any
\* threads and sets, their answers miss nothing that all values a thread could
\* read held when the call began, and that has stayed.
THEOREM AnswersCorrect == Spec => []AnswersKnown
<1>1. Init => KInv
  <2> SUFFICES ASSUME Init PROVE KInv
    OBVIOUS
  <2>1. IInv
    BY InitInv
  <2>2. \A t \in Threads : pc[t] = "idle" /\ acc[t] = {}
    BY DEF Init
  <2> QED BY <2>1, <2>2 DEF KInv, Known, Ahead, Behind, Chosen, Running
<1>2. KInv /\ [Next]_vars => KInv'
  BY NextInv, KNext DEF KInv
<1>3. KInv => AnswersKnown
  BY DEF KInv, Known, AnswerKnown, AnswersKnown, Answered
<1> QED BY <1>1, <1>2, <1>3, PTL DEF Spec

=============================================================================
