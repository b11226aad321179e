------------------------ MODULE AtomicBitSet_proofs ------------------------
(***************************************************************************)
(* Proofs about AtomicBitSet: its inductive invariant, that it implements  *)
(* AtomicSet's LooseSpec, and that it implements Spec, where every method  *)
(* is atomic, for the calls of one access, and for any calls that only     *)
(* look or take out, the pops among them.                                  *)
(***************************************************************************)
EXTENDS AtomicBitSet, TLAPS

-----------------------------------------------------------------------------
\* Every step keeps the types.
LEMMA StepType ==
  ASSUME TypeOK, NEW t \in Threads, Step(t), Record, \A u \in Threads : Held(u)
  PROVE  TypeOK'
<1>1. \A c \in Calls : c.id \in Nat /\ c.arg \in SUBSET Bits
  BY CallsAssumption DEF CallType
<1>2. /\ store' \in SUBSET Bits
      /\ pc' \in [Threads -> {"idle", "start", "pop_take", "retain_bit", "return", "panic"}]
      /\ call' \in [Threads -> Calls \cup {NoCall}]
      /\ w' \in [Threads -> SUBSET Bits]
      /\ answer' \in [Threads -> SUBSET Bits]
  <2>1. CASE \E c \in Calls : Begin(t, c)
    BY <2>1 DEF TypeOK, Begin, Goto
  <2>2. CASE Insert(t) \/ Remove(t) \/ Toggle(t) \/ Contains(t)
    <3>1. call[t] \in Calls /\ call[t].id \in Bits
      <4>1. call[t] \in Calls /\ pc[t] = "start" /\ call[t].op \in IndexOps
        BY <2>2 DEF Insert, Remove, Toggle, Contains, At, IndexOps, Held, Active
      <4> QED BY <1>1, <4>1, BitsAssumption DEF Held, Bits
    <3> QED BY <2>2, <3>1 DEF TypeOK, Insert, Remove, Toggle, Contains, Return, Goto
  <2>3. CASE Read(t) \/ Clear(t) \/ Drain(t)
    BY <2>3 DEF TypeOK, Read, Clear, Drain, Return, Goto
  <2>4. CASE UnionFrom(t)
    <3>1. call[t] \in Calls
      BY <2>4 DEF UnionFrom, At, Held, Active
    <3> QED BY <1>1, <2>4, <3>1 DEF TypeOK, UnionFrom, Return, Goto
  <2>5. CASE PopLoad(t) \/ PopTake(t)
    BY <2>5 DEF TypeOK, PopLoad, PopTake, Return, Goto, Hold
  <2>6. CASE RetainLoad(t) \/ RetainBit(t)
    BY <2>6 DEF TypeOK, RetainLoad, RetainBit, Return, Goto, Hold
  <2>7. CASE End(t)
    BY <2>7 DEF TypeOK, End, Goto
  <2> QED BY <2>1, <2>2, <2>3, <2>4, <2>5, <2>6, <2>7 DEF Step, Access
<1>3. owed' \in [Threads -> SUBSET Bits]
  BY <1>2 DEF TypeOK, Record
<1> QED BY <1>2, <1>3 DEF TypeOK

\* A thread keeps Held when another one steps.
LEMMA OtherHeld ==
  ASSUME TypeOK, NEW t \in Threads, Step(t), Record,
         NEW u \in Threads, u # t, Held(u)
  PROVE  Held(u)'
<1>1. pc'[u] = pc[u] /\ call'[u] = call[u] /\ w'[u] = w[u] /\ answer'[u] = answer[u]
  BY DEF TypeOK, Step, Access, Begin, End, Insert, Remove, Toggle, Contains, Read, UnionFrom,
         Clear, Drain, PopLoad, PopTake, RetainLoad, RetainBit, Return, Goto, Hold
<1>2. owed'[u] \subseteq owed[u] /\ owed'[u] \subseteq store'
  BY <1>1 DEF Record, Held
<1> QED BY <1>1, <1>2 DEF Held, Active

\* A thread keeps Held by its own step.
LEMMA OwnHeld ==
  ASSUME TypeOK, NEW t \in Threads, Step(t), Record, Held(t)
  PROVE  Held(t)'
<1>1. owed'[t] = IF pc'[t] \in {"start", "retain_bit"} /\ call'[t].op = "retain"
                 THEN (IF pc[t] = "idle" THEN store' \ call'[t].arg
                                         ELSE owed[t] \cap store')
                 ELSE {}
  BY DEF Record
<1>2. CASE \E c \in Calls : Begin(t, c)
  <2>1. PICK c \in Calls : Begin(t, c)
    BY <1>2
  <2>2. /\ call'[t] = c /\ answer'[t] = answer[t] /\ pc[t] = "idle"
        /\ pc'[t] = IF c.op \in IndexOps /\ c.id >= BITS THEN "panic" ELSE "start"
    BY <2>1 DEF Begin, Goto, TypeOK
  <2> QED BY <1>1, <2>2 DEF Held, Active
<1>3. CASE Access(t) /\ pc'[t] = "return"
  <2>1. UNCHANGED call /\ pc[t] \in {"start", "pop_take", "retain_bit"}
    BY <1>3 DEF Access, Insert, Remove, Toggle, Contains, Read, UnionFrom, Clear, Drain,
                PopLoad, PopTake, RetainLoad, RetainBit, At
  <2> QED BY <1>1, <1>3, <2>1 DEF Held, Active
<1>4. CASE (PopLoad(t) \/ PopTake(t)) /\ pc'[t] # "return"
  <2>1. UNCHANGED <<call, answer>> /\ call[t].op \in {"pop_first", "pop_last"}
    BY <1>4 DEF PopLoad, PopTake, Return, Goto, Held, At, TypeOK
  <2>2. \/ pc[t] = "start" /\ pc'[t] = "pop_take" /\ \E b \in Bits : w'[t] = {b}
        \/ pc[t] = "pop_take" /\ pc'[t] = "start"
    BY <1>4 DEF PopLoad, PopTake, Return, Goto, Hold, At, TypeOK
  <2> QED BY <1>1, <2>1, <2>2 DEF Held, Active
<1>5. CASE (RetainLoad(t) \/ RetainBit(t)) /\ pc'[t] # "return"
  <2>1. UNCHANGED <<call, answer>> /\ call[t].op = "retain" /\ pc'[t] = "retain_bit"
        /\ pc[t] \in {"start", "retain_bit"}
    BY <1>5 DEF RetainLoad, RetainBit, Return, Goto, Held, At, TypeOK
  <2>2. owed'[t] = owed[t] \cap store' /\ owed[t] \cap call[t].arg = {}
    BY <1>1, <2>1 DEF Held
  <2>3. owed'[t] \subseteq w'[t] /\ w'[t] # {}
    <3>1. CASE RetainLoad(t)
      BY <1>5, <2>2, <3>1 DEF RetainLoad, Return, Goto, Hold, TypeOK, Held
    <3>2. CASE RetainBit(t)
      <4>1. PICK b \in w[t] :
              /\ w'[t] = w[t] \ {b}
              /\ store' = IF b \in call[t].arg THEN store ELSE store \ {b}
              /\ w[t] # {b}
        BY <1>5, <3>2 DEF RetainBit, Return, Goto, Hold, TypeOK
      <4>2. owed[t] \subseteq w[t]
        BY <3>2 DEF Held, RetainBit
      <4> QED BY <2>2, <4>1, <4>2
    <3> QED BY <1>5, <3>1, <3>2
  <2> QED BY <1>1, <2>1, <2>2, <2>3 DEF Held, Active
<1>6. CASE End(t)
  <2>1. pc'[t] = "idle" /\ call'[t] = NoCall /\ answer'[t] = {}
    BY <1>6 DEF End, Goto, TypeOK
  <2> QED BY <1>1, <2>1 DEF Held, Active, NoCall, IndexOps
<1>7. CASE Access(t) /\ pc'[t] # "return"
  BY <1>4, <1>5, <1>7 DEF Access, Insert, Remove, Toggle, Contains, Read, UnionFrom, Clear,
                          Drain, Return, Goto, TypeOK
<1> QED BY <1>2, <1>3, <1>6, <1>7 DEF Step

LEMMA InitInv == Init => IInv
  BY DEF Init, IInv, TypeOK, Held, Active, NoCall, IndexOps

LEMMA StepInv == IInv /\ [Next]_vars => IInv'
<1> SUFFICES ASSUME IInv, [Next]_vars PROVE IInv'
  OBVIOUS
<1>1. CASE Next
  <2>1. PICK t \in Threads : Step(t) /\ Record
    BY <1>1 DEF Next
  <2>2. TypeOK'
    BY <2>1, StepType DEF IInv
  <2>3. \A u \in Threads : Held(u)'
    BY <2>1, OtherHeld, OwnHeld DEF IInv
  <2> QED BY <2>2, <2>3 DEF IInv
<1>2. CASE UNCHANGED vars
  BY <1>2 DEF vars, IInv, TypeOK, Held, Active
<1> QED BY <1>1, <1>2

\* The inductive invariant: the types, and what the loops of the pops and of
\* retain hold between two accesses to the word.
THEOREM Invariant == Spec => []IInv
  BY InitInv, StepInv, PTL DEF Spec

\* Every call is at a place of its code, and its word is one of the width.
THEOREM TypeCorrect == Spec => []TypeOK
<1>1. IInv => TypeOK
  BY DEF IInv
<1> QED BY <1>1, Invariant, PTL

-----------------------------------------------------------------------------
\* How the steps of the methods map to steps of the abstract set.

Phase(t) == IF pc[t] = "idle" THEN "idle" ELSE IF pc[t] = "return" THEN "done" ELSE "called"
Phases == [t \in Threads |-> Phase(t)]

\* A step that leaves every other thread alone changes only t's phase.
LEMMA PhaseChange ==
  ASSUME TypeOK, NEW t \in Threads, NEW label, Goto(t, label)
  PROVE  /\ Phases' = [Phases EXCEPT ![t] = IF label = "idle" THEN "idle"
                                            ELSE IF label = "return" THEN "done" ELSE "called"]
         /\ pc'[t] = label
  BY DEF TypeOK, Goto, Phases, Phase

\* The history of retain is the same on both levels.
LEMMA SameOwe ==
  ASSUME IInv, IInv', NEW t \in Threads, Step(t), Record
  PROVE  Set!Owe
<1>1. \A u \in Threads :
        (pc'[u] \in {"start", "retain_bit"} /\ call'[u].op = "retain")
          <=> (Phase(u)' = "called" /\ call'[u].op = "retain")
  <2> SUFFICES ASSUME NEW u \in Threads, call'[u].op = "retain"
               PROVE  pc'[u] \in {"start", "retain_bit"} <=> Phase(u)' = "called"
    OBVIOUS
  <2>1. Held(u)' /\ TypeOK'
    BY DEF IInv
  <2> QED BY <2>1 DEF Held, Phase, TypeOK, IndexOps
<1>2. \A u \in Threads : pc[u] = "idle" <=> Phase(u) = "idle"
  BY DEF Phase
<1> QED BY <1>1, <1>2 DEF Record, Set!Owe, Phase

\* A call that has been checked is in range.
LEMMA CheckedCall ==
  ASSUME IInv, NEW t \in Threads, Active(t)
  PROVE  /\ Set!InRange(call[t]) /\ Phase(t) = "called"
         /\ call[t] \in Calls /\ call[t].id \in Nat /\ call[t].arg \in SUBSET Bits
<1>1. Held(t) /\ call[t] \in Calls /\ pc[t] \notin {"idle", "return", "panic"}
  BY DEF IInv, Held, Active
<1>2. call[t].id \in Nat /\ call[t].arg \in SUBSET Bits
  BY <1>1, CallsAssumption DEF CallType
<1>3. ~ (call[t].op \in IndexOps /\ call[t].id >= BITS)
  BY <1>1 DEF Held
<1>4. call[t].op \in Ops
  BY <1>1, CallsAssumption DEF CallType
<1>5. call[t].op \in Set!IndexOps => call[t].op \in IndexOps
  BY <1>4 DEF Set!IndexOps, IndexOps, Ops
<1> QED BY <1>1, <1>2, <1>3, <1>5, BitsAssumption DEF Set!InRange, Bits, Phase

\* A step that returns is a method's instant, if what it leaves in the word and
\* answers is what the abstract method says.
LEMMA Finishes ==
  ASSUME IInv, NEW t \in Threads, Active(t), UNCHANGED call,
         Goto(t, "return"), answer' = [answer EXCEPT ![t] = answer'[t]]
  PROVE  Set!Finish(t, store', answer'[t])
<1>1. TypeOK
  BY DEF IInv
<1>2. Set!InRange(call[t]) /\ Phase(t) = "called"
  BY CheckedCall
<1>3. Phases' = [Phases EXCEPT ![t] = "done"]
  BY <1>1, PhaseChange
<1> QED BY <1>1, <1>2, <1>3 DEF Set!Finish, Phases, Phase

\* The methods of one access take effect at it.
LEMMA OnceAtomic ==
  ASSUME IInv, NEW t \in Threads,
         \/ Insert(t) \/ Remove(t) \/ Toggle(t) \/ Contains(t) \/ Read(t)
         \/ UnionFrom(t) \/ Clear(t) \/ Drain(t)
  PROVE  Set!Atomically(t)
<1>1. Active(t) /\ UNCHANGED call
  BY DEF Active, At, Insert, Remove, Toggle, Contains, Read, UnionFrom, Clear, Drain
<1>2. /\ store' = Set!After(call[t], store)
      /\ Return(t, Set!Answer(call[t], store))
  BY DEF At, Insert, Remove, Toggle, Contains, Read, UnionFrom, Clear, Drain,
         Set!After, Set!Answer, Set!Pops
<1>3. /\ Goto(t, "return") /\ answer' = [answer EXCEPT ![t] = answer'[t]]
      /\ answer'[t] = Set!Answer(call[t], store)
  BY <1>2 DEF Return, IInv, TypeOK
<1>4. Set!Finish(t, store', answer'[t])
  BY <1>1, <1>3, Finishes
<1> QED BY <1>2, <1>3, <1>4 DEF Set!Atomically, Set!Finish

\* A pop that finds nothing takes effect at its load; one that wins its bit
\* takes some member at its fetch_and; everything else it does is local.
LEMMA PopLoose ==
  ASSUME IInv, NEW t \in Threads, PopLoad(t) \/ PopTake(t)
  PROVE  \/ Set!Atomically(t) \/ Set!TakeAny(t)
         \/ UNCHANGED <<store, Phases, call, answer>>
<1>1. /\ Active(t) /\ UNCHANGED call /\ TypeOK /\ call[t].op \in {"pop_first", "pop_last"}
  BY DEF Active, At, PopLoad, PopTake, IInv, Held
<1>2. CASE PopLoad(t) /\ store = {} /\ Return(t, {})
  <2>1. store' = Set!After(call[t], store) /\ Return(t, Set!Answer(call[t], store))
    BY <1>1, <1>2 DEF PopLoad, Set!After, Set!Answer, Set!Pops
  <2>2. /\ Goto(t, "return") /\ answer' = [answer EXCEPT ![t] = answer'[t]]
        /\ answer'[t] = Set!Answer(call[t], store)
    BY <1>1, <2>1 DEF Return, TypeOK
  <2>3. Set!Finish(t, store', answer'[t])
    BY <1>1, <2>2, Finishes
  <2> QED BY <2>1, <2>2, <2>3 DEF Set!Atomically, Set!Finish
<1>3. CASE PopTake(t) /\ store \cap w[t] # {}
  <2>1. PICK b \in Bits : w[t] = {b}
    BY <1>3 DEF PopTake, IInv, Held
  <2>2. b \in store /\ store' = store \ {b} /\ Return(t, {b})
    BY <1>3, <2>1 DEF PopTake
  <2>3. /\ Goto(t, "return") /\ answer' = [answer EXCEPT ![t] = answer'[t]]
        /\ answer'[t] = {b}
    BY <1>1, <2>2 DEF Return, TypeOK
  <2>4. Set!Finish(t, store', answer'[t])
    BY <1>1, <2>3, Finishes
  <2> QED BY <1>1, <2>2, <2>3, <2>4 DEF Set!TakeAny, Set!Pops, Set!Finish
<1>4. CASE \/ (PopLoad(t) /\ Goto(t, "pop_take") /\ UNCHANGED answer)
          \/ (PopTake(t) /\ store \cap w[t] = {})
  <2>1. UNCHANGED <<store, answer>> /\ (Goto(t, "pop_take") \/ Goto(t, "start"))
    BY <1>4 DEF PopLoad, PopTake
  <2>2. UNCHANGED Phases
    BY <1>1, <2>1 DEF Active, Phases, Phase, Goto, TypeOK
  <2> QED BY <1>1, <2>1, <2>2
<1> QED BY <1>2, <1>3, <1>4 DEF PopLoad, PopTake

\* retain drops members one at a time, and has dropped what it owed when its
\* snapshot is used up.
LEMMA RetainLoose ==
  ASSUME IInv, NEW t \in Threads, RetainLoad(t) \/ RetainBit(t)
  PROVE  \/ Set!DropOne(t) \/ Set!DropLast(t)
         \/ UNCHANGED <<store, Phases, call, answer>>
<1>1. /\ Active(t) /\ UNCHANGED call /\ TypeOK /\ call[t].op = "retain" /\ Held(t)
      /\ Set!InRange(call[t]) /\ Phase(t) = "called"
  BY CheckedCall DEF Active, At, RetainLoad, RetainBit, IInv, Held
<1>2. CASE pc'[t] = "return"
  <2>1. /\ Return(t, {})
        /\ \E b : /\ owed[t] \subseteq {b}
                  /\ \/ store' = store \ {b} /\ b \notin call[t].arg
                     \/ store' = store /\ (b \in call[t].arg \/ owed[t] = {})
    BY <1>1, <1>2 DEF RetainLoad, RetainBit, Held, Goto, TypeOK, At
  <2>2. \E gone \in SUBSET (store \ call[t].arg) :
          owed[t] \subseteq gone /\ store' = store \ gone
    <3>1. PICK b : /\ owed[t] \subseteq {b}
                   /\ \/ store' = store \ {b} /\ b \notin call[t].arg
                      \/ store' = store /\ (b \in call[t].arg \/ owed[t] = {})
      BY <2>1
    <3>2. owed[t] \subseteq store /\ owed[t] \cap call[t].arg = {}
      BY <1>1 DEF Held, Active, RetainLoad, RetainBit, At
    <3>3. CASE store' = store \ {b} /\ b \notin call[t].arg
      <4>1. {b} \cap store \in SUBSET (store \ call[t].arg)
        BY <3>3
      <4> QED BY <3>1, <3>2, <3>3, <4>1
    <3>4. CASE store' = store /\ (b \in call[t].arg \/ owed[t] = {})
      BY <3>1, <3>2, <3>4
    <3> QED BY <3>1, <3>3, <3>4
  <2>3. /\ Goto(t, "return") /\ answer' = [answer EXCEPT ![t] = answer'[t]]
        /\ answer'[t] = {}
    BY <1>1, <2>1 DEF Return, TypeOK
  <2>4. Set!Finish(t, store', answer'[t])
    BY <1>1, <2>3, Finishes
  <2>5. PICK gone \in SUBSET (store \ call[t].arg) :
          owed[t] \subseteq gone /\ store' = store \ gone
    BY <2>2
  <2>6. Set!Finish(t, store \ gone, {})
    BY <2>3, <2>4, <2>5 DEF Set!Finish
  <2> QED BY <1>1, <2>5, <2>6 DEF Set!DropLast
<1>3. CASE pc'[t] # "return"
  <2>1. pc'[t] = "retain_bit" /\ UNCHANGED <<answer, Phases>>
    BY <1>1, <1>3 DEF RetainLoad, RetainBit, Return, Goto, Active, Phases, Phase, TypeOK, At
  <2>2. store' = store \/ \E b \in store \ call[t].arg : store' = store \ {b}
    BY <1>1 DEF RetainLoad, RetainBit
  <2> QED BY <1>1, <2>1, <2>2 DEF Set!DropOne, Phases, Phase
<1> QED BY <1>2, <1>3

\* Beginning and ending a call are the abstract call and response.
LEMMA Calling ==
  ASSUME IInv, NEW t \in Threads, (\E c \in Calls : Begin(t, c)) \/ End(t)
  PROVE  (\E c \in Calls : Set!Invoke(t, c)) \/ Set!Respond(t)
<1>1. TypeOK /\ Held(t)
  BY DEF IInv
<1>2. CASE \E c \in Calls : Begin(t, c)
  <2>1. PICK c \in Calls : Begin(t, c)
    BY <1>2
  <2>2. Phases' = [Phases EXCEPT ![t] = "called"]
    BY <1>1, <2>1, PhaseChange DEF Begin
  <2> QED BY <2>1, <2>2 DEF Begin, Set!Invoke, Phases, Phase
<1>3. CASE End(t)
  <2>1. Phases' = [Phases EXCEPT ![t] = "idle"]
    BY <1>1, <1>3, PhaseChange DEF End
  <2>2. pc[t] = "panic" => ~ Set!InRange(call[t])
    BY <1>1, BitsAssumption DEF Held, Set!InRange, Set!IndexOps, IndexOps, Bits
  <2> QED BY <1>3, <2>1, <2>2 DEF End, Set!Respond, Phases, Phase, NoCall, Set!NoCall
<1> QED BY <1>2, <1>3

\* A step the abstract set does not see leaves what retain owes alone too.
LEMMA SilentStep ==
  ASSUME IInv, IInv', Record, UNCHANGED <<store, Phases, call, answer>>
  PROVE  UNCHANGED Set!vars
<1>1. \A u \in Threads : Held(u) /\ Held(u)' /\ Phase(u)' = Phase(u)
  BY DEF IInv, Phases
<1>2. \A u \in Threads : owed'[u] = owed[u]
  <2> SUFFICES ASSUME NEW u \in Threads PROVE owed'[u] = owed[u]
    OBVIOUS
  <2>1. owed'[u] = IF pc'[u] \in {"start", "retain_bit"} /\ call'[u].op = "retain"
                   THEN (IF pc[u] = "idle" THEN store' \ call'[u].arg
                                           ELSE owed[u] \cap store')
                   ELSE {}
    BY DEF Record
  <2>2. (pc'[u] \in {"start", "retain_bit"} /\ call'[u].op = "retain")
          <=> (pc[u] \in {"start", "retain_bit"} /\ call[u].op = "retain")
    BY <1>1 DEF Held, Phase, IInv, TypeOK, IndexOps
  <2> QED BY <1>1, <2>1, <2>2 DEF Held
<1> QED BY <1>2 DEF Set!vars, Phases, Phase, IInv, TypeOK

LEMMA InitSet == Init => Set!Init
  BY DEF Init, Set!Init, NoCall, Set!NoCall

LEMMA StepLoose == IInv /\ IInv' /\ [Next]_vars => [Set!LooseNext]_(Set!vars)
<1> SUFFICES ASSUME IInv, IInv', [Next]_vars PROVE [Set!LooseNext]_(Set!vars)
  OBVIOUS
<1>1. CASE Next
  <2>1. PICK t \in Threads : Step(t) /\ Record
    BY <1>1 DEF Next
  <2>2. Set!Owe
    BY <2>1, SameOwe
  <2>3. \/ Set!Step(t) \/ Set!TakeAny(t) \/ Set!DropOne(t) \/ Set!DropLast(t)
        \/ UNCHANGED <<store, Phases, call, answer>>
    BY <2>1, OnceAtomic, PopLoose, RetainLoose, Calling DEF Step, Access, Set!Step
  <2>4. CASE UNCHANGED <<store, Phases, call, answer>>
    BY <2>1, <2>4, SilentStep
  <2> QED BY <2>1, <2>2, <2>3, <2>4 DEF Set!LooseNext
<1>2. CASE UNCHANGED vars
  BY <1>2 DEF vars, Set!vars
<1> QED BY <1>1, <1>2

\* Whatever the threads do, AtomicBitSet implements the loose set: one access
\* of every method but retain is its one effect, None means empty, a popped
\* index was a member and is one no longer, and retain drops what it owes.
THEOREM ImplementsLoose == Spec => Loose
  BY InitSet, StepLoose, Invariant, PTL DEF Spec, Loose, Set!LooseSpec

-----------------------------------------------------------------------------
\* Without the pops and retain every call is one access.

SeveralAccesses == {"pop_first", "pop_last", "retain"}

LEMMA StepOneAccess ==
  ASSUME \A c \in Calls : c.op \notin SeveralAccesses
  PROVE  IInv /\ IInv' /\ [Next]_vars => [Set!Next]_(Set!vars)
<1> SUFFICES ASSUME IInv, IInv', [Next]_vars PROVE [Set!Next]_(Set!vars)
  OBVIOUS
<1>1. CASE Next
  <2>1. PICK t \in Threads : Step(t) /\ Record
    BY <1>1 DEF Next
  <2>2. Set!Owe
    BY <2>1, SameOwe
  <2>3. Active(t) => call[t].op \notin SeveralAccesses
    BY CheckedCall
  <2>4. ~ (PopLoad(t) \/ PopTake(t) \/ RetainLoad(t) \/ RetainBit(t))
    BY <2>3 DEF PopLoad, PopTake, RetainLoad, RetainBit, At, Active, SeveralAccesses, IInv, Held
  <2>5. Set!Step(t)
    BY <2>1, <2>4, OnceAtomic, Calling DEF Step, Access, Set!Step
  <2> QED BY <2>2, <2>5 DEF Set!Next
<1>2. CASE UNCHANGED vars
  BY <1>2 DEF vars, Set!vars
<1> QED BY <1>1, <1>2

\* When nobody pops and nobody retains, every method is atomic, writers and
\* readers alike, as the documentation says.
THEOREM OneAccessAtomic ==
  ASSUME \A c \in Calls : c.op \notin SeveralAccesses
  PROVE  Spec => TrulyAtomic
  BY InitSet, StepOneAccess, Invariant, PTL DEF Spec, TrulyAtomic, Set!Spec

-----------------------------------------------------------------------------
\* When nobody puts an index in, a pop's bit is still the end of the word when
\* it is cleared, so the pops are atomic after all.

Takers == {"contains", "read", "remove", "clear", "drain", "pop_first", "pop_last"}
EndHeld(t) ==
  pc[t] = "pop_take" =>
    \A b \in w[t], y \in store : IF call[t].op = "pop_last" THEN y <= b ELSE b <= y

LEMMA TakerCalls ==
  ASSUME \A c \in Calls : c.op \in Takers, IInv, NEW t \in Threads, Active(t)
  PROVE  call[t].op \in Takers
  BY CheckedCall

LEMMA StepEnd ==
  ASSUME \A c \in Calls : c.op \in Takers, IInv, \A u \in Threads : EndHeld(u),
         NEW t \in Threads, Step(t), Record
  PROVE  \A u \in Threads : EndHeld(u)'
<1>1. store' \subseteq store
  <2>1. Active(t) => call[t].op \in Takers
    BY TakerCalls
  <2>2. CASE Insert(t) \/ Toggle(t) \/ UnionFrom(t)
    BY <2>1, <2>2 DEF Insert, Toggle, UnionFrom, At, Active, Takers
  <2> QED BY <2>2 DEF Step, Access, Begin, End, Remove, Contains, Read, Clear, Drain, PopLoad,
                      PopTake, RetainLoad, RetainBit
<1> SUFFICES ASSUME NEW u \in Threads, pc'[u] = "pop_take", NEW b \in w'[u], NEW y \in store'
             PROVE  IF call'[u].op = "pop_last" THEN y <= b ELSE b <= y
  BY DEF EndHeld
<1>2. CASE pc[u] = "pop_take" /\ UNCHANGED <<w[u], call[u]>>
  BY <1>1, <1>2 DEF EndHeld
<1>3. CASE u = t /\ PopLoad(t)
  BY <1>3 DEF PopLoad, IsEnd, IsLowest, IsHighest, Return, Goto, Hold, IInv, TypeOK
<1> QED BY <1>2, <1>3 DEF Step, Access, Begin, End, Insert, Remove, Toggle, Contains, Read,
                          UnionFrom, Clear, Drain, PopTake, RetainLoad, RetainBit, PopLoad,
                          Return, Goto, Hold, IInv, TypeOK

LEMMA PopAtomic ==
  ASSUME IInv, NEW t \in Threads, PopLoad(t) \/ PopTake(t), EndHeld(t)
  PROVE  Set!Atomically(t) \/ UNCHANGED <<store, Phases, call, answer>>
<1>1. CASE Set!TakeAny(t)
  <2>1. PICK x \in store : Set!Finish(t, store \ {x}, {x})
    BY <1>1 DEF Set!TakeAny
  <2>2. answer'[t] = {x} /\ store' = store \ {x}
    BY <2>1 DEF Set!Finish, IInv, TypeOK
  <2>3. PopTake(t) /\ w[t] = {x}
    <3>1. PopTake(t)
      BY <2>2, <1>1 DEF PopLoad, Return, Goto, IInv, TypeOK, Held, At, Active
    <3> QED BY <2>2, <3>1 DEF PopTake, Return, Goto, IInv, TypeOK, Held
  <2>4. /\ x \in Int /\ store \subseteq Int
        /\ \A y \in store : IF call[t].op = "pop_last" THEN y <= x ELSE x <= y
    BY <2>3, BitsAssumption DEF PopTake, EndHeld, IInv, TypeOK, Bits
  <2>5. call[t].op \in {"pop_first", "pop_last"}
    BY <2>3 DEF PopTake, IInv, Held
  <2>6. Set!After(call[t], store) = store \ {x}
    BY <2>4, <2>5 DEF Set!After
  <2>7. Set!Answer(call[t], store) = {x}
    BY <2>5, <2>6 DEF Set!Answer, Set!Pops
  <2> QED BY <2>1, <2>6, <2>7 DEF Set!Atomically, Set!Finish
<1> QED BY <1>1, PopLoose

LEMMA StepAtomic ==
  ASSUME \A c \in Calls : c.op \in Takers
  PROVE  IInv /\ IInv' /\ (\A t \in Threads : EndHeld(t)) /\ [Next]_vars
           => [Set!Next]_(Set!vars)
<1> SUFFICES ASSUME IInv, IInv', \A t \in Threads : EndHeld(t), [Next]_vars
             PROVE  [Set!Next]_(Set!vars)
  OBVIOUS
<1>1. CASE Next
  <2>1. PICK t \in Threads : Step(t) /\ Record
    BY <1>1 DEF Next
  <2>2. Set!Owe
    BY <2>1, SameOwe
  <2>3. ~ (RetainLoad(t) \/ RetainBit(t))
    BY TakerCalls DEF RetainLoad, RetainBit, At, Active, Takers, IInv, Held
  <2>4. Set!Step(t) \/ UNCHANGED <<store, Phases, call, answer>>
    BY <2>1, <2>3, OnceAtomic, PopAtomic, Calling DEF Step, Access, Set!Step
  <2>5. CASE UNCHANGED <<store, Phases, call, answer>>
    BY <2>1, <2>5, SilentStep
  <2> QED BY <2>1, <2>2, <2>4, <2>5 DEF Set!Next
<1>2. CASE UNCHANGED vars
  BY <1>2 DEF vars, Set!vars
<1> QED BY <1>1, <1>2

\* Among threads that only take indices out or look, every method is atomic:
\* pop_first takes the minimum and pop_last the maximum of the set.
THEOREM TakersAtomic ==
  ASSUME \A c \in Calls : c.op \in Takers
  PROVE  Spec => TrulyAtomic
<1>1. Init => \A t \in Threads : EndHeld(t)
  BY DEF Init, EndHeld
<1>2. /\ IInv /\ (\A t \in Threads : EndHeld(t)) /\ [Next]_vars
      => (\A t \in Threads : EndHeld(t))'
  <2>1. CASE UNCHANGED vars
    BY <2>1 DEF vars, EndHeld
  <2> QED BY <2>1, StepEnd DEF Next
<1> QED BY <1>1, <1>2, InitSet, StepAtomic, Invariant, PTL DEF Spec, TrulyAtomic, Set!Spec

=============================================================================
