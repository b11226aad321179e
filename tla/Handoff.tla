------------------------------ MODULE Handoff ------------------------------
(***************************************************************************)
(* The atomic sets as their callers use them between threads: an index     *)
(* stands for a slot of shared, non-atomic data.  The thread that holds an *)
(* index writes its slot and puts the index into a set; the thread that    *)
(* takes the index out (remove, pop_first, drain, or append to another     *)
(* set) holds it from then on.  Nothing but the memory orderings of        *)
(* src/src/atomic_slice.rs makes the slot's data visible to the new        *)
(* holder.                                                                 *)
(*                                                                         *)
(* Memory is the release/acquire fragment of the Rust model.  Each word    *)
(* has its modification order, kept newest first; a thread, and a value    *)
(* somebody released, has a view: for each word how far behind the newest  *)
(* value it may still read, and the slots whose latest write it has seen.  *)
(* A load may return any value that is not behind the thread's view, an    *)
(* acquiring one joins the view that came with the value; a                *)
(* read-modify-write reads the newest value and carries its view on (the   *)
(* release sequence); a store starts anew.                                 *)
(***************************************************************************)
EXTENDS Integers

CONSTANTS
  Threads,   \* the threads
  Slices,    \* the shared sets
  NWords,    \* the words of each
  BITS_PER,  \* the bits of a word
  Calls,     \* Calls[t]: the calls thread t may make
  MaxStale   \* bound: how many values behind the newest a load may be

ASSUME HandoffAssumption ==
  NWords \in Nat \ {0} /\ BITS_PER \in Nat \ {0} /\ MaxStale \in Nat

Slots == 0 .. NWords * BITS_PER - 1
Ops == {"insert", "remove", "pop_first", "drain", "clear", "contains", "iter", "append"}
CallType == [op: Ops, self: Slices, other: Slices, id: Slots]
ASSUME HandoffCalls == Calls \in [Threads -> SUBSET CallType]
NoCall == [op |-> "none"]

VARIABLES
  log,     \* log[s][j][n]: the n-th newest value of word j of s, with its view
  view,    \* view[t]: what thread t has seen
  held,    \* held[t]: the indices t holds
  pc,      \* pc[t]: the access t does next
  call,    \* call[t]: the call t is in
  i,       \* i[t]: the word the method's loop is at
  w,       \* w[t]: the word, or the mask, the method holds in a local
  acc,     \* acc[t]: the indices a reading method, or pop_first, has met
  stayed   \* history: what such a method must meet in its receiver

vars == <<log, view, held, pc, call, i, w, acc, stayed>>

Bits == 0 .. BITS_PER - 1
WordIdxs == 0 .. NWords - 1
Ages == 0 .. MaxStale
WordIdx(id) == id \div BITS_PER
BitIdx(id) == id % BITS_PER
IdxsOf(j, bits) == {x \in Slots : WordIdx(x) = j /\ BitIdx(x) \in bits}
IsLowest(b, bits) == b \in bits /\ \A c \in bits : b <= c

-----------------------------------------------------------------------------
\* Views.

Smaller(m, n) == IF m <= n THEN m ELSE n
Join(u, v) ==
  [lag |-> [s \in Slices |-> [j \in WordIdxs |-> Smaller(u.lag[s][j], v.lag[s][j])]],
   data |-> u.data \cup v.data]

\* Word j of s is read at age n; one more value of it has come.
At(v, s, j, n) == [v EXCEPT !.lag[s][j] = n]
Older(v, s, j) == [v EXCEPT !.lag[s][j] = Smaller(@ + 1, MaxStale)]

Newest(s, j) == log[s][j][0]
Members(s) == {x \in Slots : BitIdx(x) \in Newest(s, WordIdx(x)).bits}

\* Thread t, now with view v, writes word j of s with a value that carries rel.
Push(t, s, j, bits, rel, v) ==
  /\ log' = [r \in Slices |-> [k \in WordIdxs |-> [n \in Ages |->
       IF r = s /\ k = j /\ n = 0 THEN [bits |-> bits, rel |-> At(rel, s, j, 0)]
       ELSE LET old == log[r][k][IF r = s /\ k = j THEN n - 1 ELSE n] IN
            [bits |-> old.bits, rel |-> Older(old.rel, s, j)]]]]
  /\ view' = [u \in Threads |-> IF u = t THEN At(v, s, j, 0) ELSE Older(view[u], s, j)]

\* An AcqRel read-modify-write, and a Release store.
Update(t, s, j, bits) ==
  LET v == Join(view[t], Newest(s, j).rel) IN Push(t, s, j, bits, v, v)
Store(t, s, j, bits) == Push(t, s, j, bits, view[t], view[t])

\* A bug: fetch_or is Relaxed; the value only carries on what the last one did.
UpdateRelaxed(t, s, j, bits) == Push(t, s, j, bits, Newest(s, j).rel, view[t])

\* The loads of the value of age n of word j of s.
MayRead(t, s, j, n) == n <= view[t].lag[s][j]
LoadRelaxed(t, s, j, n) ==
  /\ MayRead(t, s, j, n)
  /\ view' = [view EXCEPT ![t] = At(@, s, j, n)]
  /\ UNCHANGED log
LoadAcquire(t, s, j, n) ==
  /\ MayRead(t, s, j, n)
  /\ view' = [view EXCEPT ![t] = At(Join(@, log[s][j][n].rel), s, j, n)]
  /\ UNCHANGED log

\* Thread t writes the data of slot x: nobody else has seen this write yet.
Unseen(v, x) == [v EXCEPT !.data = @ \ {x}]
Fill(t, x) ==
  /\ view' = [u \in Threads |-> IF u = t THEN [view[t] EXCEPT !.data = @ \cup {x}]
                                          ELSE Unseen(view[u], x)]
  /\ log' = [s \in Slices |-> [j \in WordIdxs |-> [n \in Ages |->
       [bits |-> log[s][j][n].bits, rel |-> Unseen(log[s][j][n].rel, x)]]]]

-----------------------------------------------------------------------------
Goto(t, label) == pc' = [pc EXCEPT ![t] = label]
Return(t) == Goto(t, "return")
Hold(t, bits) == w' = [w EXCEPT ![t] = bits]
Answer(t, ids) == acc' = [acc EXCEPT ![t] = ids]
Take(t, ids) == held' = [held EXCEPT ![t] = @ \cup ids]
Give(t, ids) == held' = [held EXCEPT ![t] = @ \ ids]
Self(t) == call[t].self
Other(t) == call[t].other

Label(c) ==
  CASE c.op = "pop_first" -> "pop_load"
    [] c.op = "append" -> "append_swap"
    [] OTHER -> c.op

NextWord(t) ==
  /\ i' = [i EXCEPT ![t] = i[t] + 1]
  /\ Goto(t, IF i[t] + 1 \in WordIdxs THEN Label(call[t]) ELSE "return")

\* A call begins.  Only the holder of an index puts it in, after a last write
\* to its slot.
Begin(t, c) ==
  /\ pc[t] = "idle"
  /\ IF c.op = "insert"
     THEN c.id \in held[t] /\ Fill(t, c.id)
     ELSE UNCHANGED <<log, view>>
  /\ call' = [call EXCEPT ![t] = c]
  /\ i' = [i EXCEPT ![t] =
       IF c.op \in {"insert", "remove", "contains"} THEN WordIdx(c.id) ELSE 0]
  /\ Goto(t, Label(c))
  /\ UNCHANGED <<held, w, acc>>

End(t) ==
  /\ pc[t] = "return"
  /\ Goto(t, "idle")
  /\ call' = [call EXCEPT ![t] = NoCall]
  /\ i' = [i EXCEPT ![t] = 0]
  /\ acc' = [acc EXCEPT ![t] = {}]
  /\ UNCHANGED <<log, view, held, w>>

-----------------------------------------------------------------------------
\* A bug: the index is put in by a Relaxed fetch_or.
InsertRelaxed(t) ==
  /\ pc[t] = "insert"
  /\ LET b == BitIdx(call[t].id) IN
     UpdateRelaxed(t, Self(t), i[t], Newest(Self(t), i[t]).bits \cup {b})
  /\ Give(t, {call[t].id})
  /\ Return(t)
  /\ UNCHANGED <<call, i, w, acc>>

Insert(t) ==
  /\ pc[t] = "insert"
  /\ LET b == BitIdx(call[t].id) IN
     Update(t, Self(t), i[t], Newest(Self(t), i[t]).bits \cup {b})
  /\ Give(t, {call[t].id})
  /\ Return(t)
  /\ UNCHANGED <<call, i, w, acc>>

Remove(t) ==
  /\ pc[t] = "remove"
  /\ LET old == Newest(Self(t), i[t]).bits
         took == IdxsOf(i[t], old) \cap {call[t].id} IN
     /\ Update(t, Self(t), i[t], old \ {BitIdx(call[t].id)})
     /\ Take(t, took)
  /\ Return(t)
  /\ UNCHANGED <<call, i, w, acc>>

Contains(t) ==
  /\ pc[t] = "contains"
  /\ \E n \in Ages :
       /\ LoadRelaxed(t, Self(t), i[t], n)
       /\ Answer(t, IdxsOf(i[t], log[Self(t)][i[t]][n].bits) \cap {call[t].id})
  /\ Return(t)
  /\ UNCHANGED <<held, call, i, w>>

\* iter, and the other walks that only read.
Iter(t) ==
  /\ pc[t] = "iter"
  /\ \E n \in Ages :
       /\ LoadRelaxed(t, Self(t), i[t], n)
       /\ Answer(t, acc[t] \cup IdxsOf(i[t], log[Self(t)][i[t]][n].bits))
  /\ NextWord(t)
  /\ UNCHANGED <<held, call, w>>

\* pop_first loads a value, maybe an old one, and clears its lowest bit in the
\* newest; when the bit is gone there it loads again.
PopLoad(t) ==
  /\ pc[t] = "pop_load"
  /\ \E n \in Ages :
       LET bits == log[Self(t)][i[t]][n].bits IN
       /\ LoadAcquire(t, Self(t), i[t], n)
       /\ IF bits = {}
          THEN NextWord(t) /\ UNCHANGED w
          ELSE /\ \E b \in bits : IsLowest(b, bits) /\ Hold(t, {b})
               /\ Goto(t, "pop_take") /\ UNCHANGED i
  /\ UNCHANGED <<held, call, acc>>

\* Bugs: the fetched word is not looked at; a lost race moves on to the next
\* word; a lost race repeats fetch_and without loading the word again.
PopTakeBlind(t) ==
  /\ pc[t] = "pop_take"
  /\ Update(t, Self(t), i[t], Newest(Self(t), i[t]).bits \ w[t])
  /\ Answer(t, IdxsOf(i[t], w[t])) /\ Take(t, IdxsOf(i[t], w[t]))
  /\ Hold(t, {}) /\ Return(t)
  /\ UNCHANGED <<call, i>>
PopTakeSkips(t) ==
  /\ pc[t] = "pop_take"
  /\ LET old == Newest(Self(t), i[t]).bits
         took == IdxsOf(i[t], old \cap w[t]) IN
     /\ Update(t, Self(t), i[t], old \ w[t])
     /\ Answer(t, took) /\ Take(t, took)
     /\ IF took # {} THEN Return(t) /\ UNCHANGED i ELSE NextWord(t)
  /\ Hold(t, {})
  /\ UNCHANGED call
PopTakeSpins(t) ==
  /\ pc[t] = "pop_take"
  /\ LET old == Newest(Self(t), i[t]).bits
         took == IdxsOf(i[t], old \cap w[t]) IN
     /\ Update(t, Self(t), i[t], old \ w[t])
     /\ Answer(t, took) /\ Take(t, took)
     /\ IF took # {} THEN Return(t) /\ Hold(t, {}) ELSE UNCHANGED <<pc, w>>
  /\ UNCHANGED <<call, i>>

PopTake(t) ==
  /\ pc[t] = "pop_take"
  /\ LET old == Newest(Self(t), i[t]).bits
         took == IdxsOf(i[t], old \cap w[t]) IN
     /\ Update(t, Self(t), i[t], old \ w[t])
     /\ Answer(t, took) /\ Take(t, took)
     /\ IF took # {} THEN Return(t) ELSE Goto(t, "pop_load")
  /\ Hold(t, {})
  /\ UNCHANGED <<call, i>>

Drain(t) ==
  /\ pc[t] = "drain"
  /\ Take(t, IdxsOf(i[t], Newest(Self(t), i[t]).bits))
  /\ Update(t, Self(t), i[t], {})
  /\ NextWord(t)
  /\ UNCHANGED <<call, w, acc>>

\* The indices are gone, with nobody to hold them.
Clear(t) ==
  /\ pc[t] = "clear"
  /\ Store(t, Self(t), i[t], {})
  /\ NextWord(t)
  /\ UNCHANGED <<held, call, w, acc>>

\* append takes the other set's word and puts it into this one.
AppendSwap(t) ==
  /\ pc[t] = "append_swap"
  /\ Hold(t, Newest(Other(t), i[t]).bits)
  /\ Take(t, IdxsOf(i[t], Newest(Other(t), i[t]).bits))
  /\ Update(t, Other(t), i[t], {})
  /\ Goto(t, "append_or")
  /\ UNCHANGED <<call, i, acc>>

\* A bug: the words are put in by a Relaxed fetch_or.
AppendOrRelaxed(t) ==
  /\ pc[t] = "append_or"
  /\ UpdateRelaxed(t, Self(t), i[t], Newest(Self(t), i[t]).bits \cup w[t])
  /\ Give(t, IdxsOf(i[t], w[t]))
  /\ Hold(t, {})
  /\ NextWord(t)
  /\ UNCHANGED <<call, acc>>

AppendOr(t) ==
  /\ pc[t] = "append_or"
  /\ Update(t, Self(t), i[t], Newest(Self(t), i[t]).bits \cup w[t])
  /\ Give(t, IdxsOf(i[t], w[t]))
  /\ Hold(t, {})
  /\ NextWord(t)
  /\ UNCHANGED <<call, acc>>

-----------------------------------------------------------------------------
\* History: what a reading call of t must find in its receiver.  When the call
\* begins, the indices whose bits are in every value t may read; of these, what
\* stays.
Reads(c) == c.op \in {"pop_first", "contains", "iter"}
Running(t) == pc[t] \notin {"idle", "return"}
Visible(t, s) ==
  {x \in Slots : \A n \in Ages :
     MayRead(t, s, WordIdx(x), n) => BitIdx(x) \in log[s][WordIdx(x)][n].bits}
Record ==
  stayed' = [t \in Threads |->
    CASE pc'[t] = "idle" -> {}
      [] pc'[t] # "idle" /\ pc[t] = "idle" ->
           IF Reads(call'[t]) THEN Visible(t, call'[t].self) ELSE {}
      [] Running(t) -> stayed[t] \cap Members(Self(t))'
      [] OTHER -> stayed[t]]

Access(t) ==
  \/ Insert(t) \/ Remove(t) \/ Contains(t) \/ Iter(t)
  \/ PopLoad(t) \/ PopTake(t)
  \/ Drain(t) \/ Clear(t) \/ AppendSwap(t) \/ AppendOr(t)

\* The sets are empty; every slot has been written by the thread that holds it.
Init ==
  /\ \E owner \in [Slots -> Threads] :
       held = [t \in Threads |-> {x \in Slots : owner[x] = t}]
  /\ LET fresh == [s \in Slices |-> [j \in WordIdxs |-> 0]] IN
     /\ view = [t \in Threads |-> [lag |-> fresh, data |-> held[t]]]
     /\ log = [s \in Slices |-> [j \in WordIdxs |-> [n \in Ages |->
                 [bits |-> {}, rel |-> [lag |-> fresh, data |-> {}]]]]]
  /\ pc = [t \in Threads |-> "idle"]
  /\ call = [t \in Threads |-> NoCall]
  /\ i = [t \in Threads |-> 0]
  /\ w = [t \in Threads |-> {}]
  /\ acc = [t \in Threads |-> {}]
  /\ stayed = [t \in Threads |-> {}]

Next == \E t \in Threads :
  ((\E c \in Calls[t] : Begin(t, c)) \/ Access(t) \/ End(t)) /\ Record
Spec == Init /\ [][Next]_vars

\* The scheduler runs every thread that is inside a method.
FairSpec == Spec /\ \A t \in Threads : WF_vars(Access(t) /\ Record)

-----------------------------------------------------------------------------
ViewType == [lag: [Slices -> [WordIdxs -> Ages]], data: SUBSET Slots]
MsgType == [bits: SUBSET Bits, rel: ViewType]
PcLabels == {"idle", "return", "pop_load", "pop_take", "append_swap", "append_or"}
            \cup (Ops \ {"pop_first", "append"})

\* A method is at an access of its own code, at a word of its slices, and holds
\* a word only between the two accesses of pop_first and of append.
Control(t) ==
  /\ pc[t] # "idle" => call[t] \in Calls[t]
  /\ Running(t) =>
       /\ i[t] \in WordIdxs
       /\ pc[t] = Label(call[t]) \/ <<call[t].op, pc[t]>> \in
            {<<"pop_first", "pop_take">>, <<"append", "append_or">>}
  /\ pc[t] \in {"insert", "remove", "contains"} => i[t] = WordIdx(call[t].id)
  /\ w[t] # {} => pc[t] \in {"pop_take", "append_or"}

TypeOK ==
  /\ log \in [Slices -> [WordIdxs -> [Ages -> MsgType]]]
  /\ view \in [Threads -> ViewType]
  /\ held \in [Threads -> SUBSET Slots]
  /\ pc \in [Threads -> PcLabels]
  /\ call \in [Threads -> CallType \cup {NoCall}]
  /\ i \in [Threads -> Nat]
  /\ w \in [Threads -> SUBSET Bits]
  /\ acc \in [Threads -> SUBSET Slots]
  /\ stayed \in [Threads -> SUBSET Slots]
  /\ \A t \in Threads : Control(t)

\* An index is in one place: with one holder, or in one set.  Two racing calls
\* never both take it out, whatever old values they chose it from, and append
\* carries it over.
InOnePlace ==
  /\ \A t, u \in Threads : t # u => held[t] \cap held[u] = {}
  /\ \A s, r \in Slices : s # r => Members(s) \cap Members(r) = {}
  /\ \A t \in Threads, s \in Slices : held[t] \cap Members(s) = {}

\* Whoever holds an index has seen the latest write to its slot, so that its own
\* accesses do not race with it: the inserting read-modify-write released it
\* and the taking one acquired it, through any number of sets, threads, and
\* other calls on the word in between.
NoDataRace == \A t \in Threads : held[t] \subseteq view[t].data

\* The inductive invariant behind InOnePlace and NoDataRace (Handoff_proofs): the
\* value a taker reads last carries a view with the writes to all slots in it,
\* and what a call is about to put in, its thread still holds.
Published == \A s \in Slices : \A x \in Members(s) :
  x \in Newest(s, WordIdx(x)).rel.data
Owed(t) == CASE pc[t] = "insert" -> {call[t].id}
             [] pc[t] = "append_or" -> IdxsOf(i[t], w[t])
             [] OTHER -> {}
IInv ==
  /\ TypeOK /\ InOnePlace /\ NoDataRace /\ Published
  /\ \A t \in Threads : Owed(t) \subseteq held[t]

\* Answers under old values: pop_first returns None only if there is nothing
\* that the thread had to find, and no index past one of those; iter has them
\* all; contains is true of them.
Answered(t, op) == pc[t] = "return" /\ call[t].op = op
AnswersKnown == \A t \in Threads :
  /\ Answered(t, "pop_first") =>
       /\ acc[t] = {} => stayed[t] = {}
       /\ \A x \in acc[t], y \in stayed[t] : x <= y
  /\ Answered(t, "iter") => stayed[t] \subseteq acc[t]
  /\ Answered(t, "contains") => stayed[t] \cap {call[t].id} \subseteq acc[t]

\* pop_first is lock-free although its loads may be old: while some thread is
\* in a method, some method returns.
LockFree == (\E t \in Threads : Running(t)) ~> (\E t \in Threads : pc[t] = "return")

=============================================================================
