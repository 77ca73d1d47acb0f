--------------------------- MODULE PreemptProofs ---------------------------
(***************************************************************************)
(* The startup allocator and the timer list under interrupts, for buffers  *)
(* and requests of any size, any number of timers and calls of any depth.  *)
(* What the locals of the timer code hold does not matter to the           *)
(* allocator, so their type is some set in the first half.                 *)
(***************************************************************************)
EXTENDS Preempt, FiniteSetTheorems, SequenceTheorems, WellFoundedInduction, TLAPS

Ops == {"task", "expire", "timeout"}
Pcs == {"load", "store", "create", "insert", "begin", "take", "drop"}

Call(V) ==
  [op : Ops, pc : Pcs, sizes : Seq(Nat \ {0}), loaded : Nat, timer : V, current : V,
   now : V, first : BOOLEAN]

\* A call that allocates has a size to allocate, which fits when it is stored.
CallOK(c) ==
  /\ c.pc \in {"load", "store"} => c.sizes # <<>>
  /\ c.pc = "store" => c.loaded + Head(c.sizes) <= BufferSize

Calling ==
  /\ \E V : stack \in Seq(Call(V))
  /\ \A i \in DOMAIN stack : CallOK(stack[i])

Heap ==
  /\ BufferSize \in Nat
  /\ offset \in 0 .. BufferSize /\ used \subseteq 0 .. BufferSize - 1
  /\ shared \in BOOLEAN /\ hit \in BOOLEAN

\* Unless one was interrupted, only the running call may be about to store, and
\* stores what it adds to the offset; all that is used lies below the offset.
Whole ==
  ~hit =>
    /\ ~shared /\ used \subseteq 0 .. offset - 1
    /\ \A i \in DOMAIN stack : stack[i].pc = "store" => i = 1 /\ stack[i].loaded = offset

\* The inductive invariant.
HInv == Calling /\ Heap /\ Whole

----------------------------------------------------------------------------
(* Stacks *)

LEMMA CallTypes ==
  ASSUME NEW V, NEW W, V \subseteq W, NEW s \in Seq(Call(V))
  PROVE  s \in Seq(Call(W))
<1>1. Call(V) \subseteq Call(W)
  BY DEF Call
<1> QED BY <1>1

LEMMA Pushed ==
  ASSUME NEW S, NEW s \in Seq(S), NEW c \in S
  PROVE  /\ <<c>> \o s \in Seq(S)
         /\ (<<c>> \o s)[1] = c
         /\ \A i \in DOMAIN (<<c>> \o s) :
              i # 1 => i - 1 \in DOMAIN s /\ (<<c>> \o s)[i] = s[i - 1]
OBVIOUS

LEMMA Popped ==
  ASSUME NEW S, NEW s \in Seq(S), s # <<>>
  PROVE  /\ Tail(s) \in Seq(S) /\ Head(s) = s[1] /\ 1 \in DOMAIN s /\ Head(s) \in S
         /\ \A i \in DOMAIN Tail(s) :
              i \in Nat /\ i # 0 /\ i + 1 \in DOMAIN s /\ Tail(s)[i] = s[i + 1]
OBVIOUS

LEMMA Longer ==
  ASSUME NEW S, NEW s \in Seq(S), Len(s) > 1
  PROVE  Tail(s) \in Seq(S) /\ Tail(s) # <<>>
<1>1. Tail(s) \in Seq(S) /\ Len(Tail(s)) = Len(s) - 1 /\ Len(s) \in Nat
  OBVIOUS
<1>2. Len(<<>>) = 0
  BY EmptySeq
<1>3. Len(Tail(s)) # 0
  BY <1>1
<1> QED BY <1>1, <1>2, <1>3

LEMMA Replaced ==
  ASSUME NEW S, NEW s \in Seq(S), s # <<>>, NEW c \in S
  PROVE  /\ <<c>> \o Tail(s) \in Seq(S)
         /\ (<<c>> \o Tail(s))[1] = c
         /\ \A i \in DOMAIN (<<c>> \o Tail(s)) :
              i # 1 => i \in DOMAIN s /\ (<<c>> \o Tail(s))[i] = s[i]
<1>1. Tail(s) \in Seq(S) /\ \A i \in DOMAIN Tail(s) : i + 1 \in DOMAIN s /\ Tail(s)[i] = s[i + 1]
  BY Popped
<1>2. \A i \in DOMAIN (<<c>> \o Tail(s)) :
        i # 1 => i - 1 \in DOMAIN Tail(s) /\ (<<c>> \o Tail(s))[i] = Tail(s)[i - 1]
  BY <1>1, Pushed
<1>3. ASSUME NEW i \in DOMAIN (<<c>> \o Tail(s)), i # 1
      PROVE  i \in DOMAIN s /\ (<<c>> \o Tail(s))[i] = s[i]
  <2>1. i \in Nat /\ (i - 1) + 1 = i
    BY <1>1
  <2> QED BY <1>1, <1>2, <1>3, <2>1
<1> QED BY <1>1, <1>3, Pushed

LEMMA Within ==
  ASSUME NEW a \in Nat, NEW b \in Int, NEW n \in Nat, b <= n, NEW x \in a .. b - 1
  PROVE  x \in 0 .. n - 1
OBVIOUS

\* A step that leaves the heap alone, and returns or goes on to something that
\* is not an allocation.
LEMMA Elsewhere ==
  ASSUME HInv, stack # <<>>, UNCHANGED <<offset, used, shared, hit>>,
         NEW V, stack \in Seq(Call(V)),
         \/ stack' = Tail(stack)
         \/ \E c \in Call(V) : c.pc \notin {"load", "store"} /\ stack' = <<c>> \o Tail(stack)
  PROVE  HInv'
<1>1. Heap'
  BY DEF HInv, Heap
<1>2. CASE stack' = Tail(stack)
  <2>1. stack' \in Seq(Call(V))
        /\ \A i \in DOMAIN stack' :
             i \in Nat /\ i # 0 /\ i + 1 \in DOMAIN stack /\ stack'[i] = stack[i + 1]
    BY <1>2, Popped
  <2>2. \A i \in DOMAIN stack' : i + 1 # 1
    BY <2>1
  <2>3. Calling'
    BY <2>1 DEF HInv, Calling, CallOK
  <2>4. Whole'
    BY <2>1, <2>2 DEF HInv, Whole
  <2> QED BY <1>1, <2>3, <2>4 DEF HInv
<1>3. CASE \E c \in Call(V) : c.pc \notin {"load", "store"} /\ stack' = <<c>> \o Tail(stack)
  <2>1. PICK c \in Call(V) : c.pc \notin {"load", "store"} /\ stack' = <<c>> \o Tail(stack)
    BY <1>3
  <2>2. /\ stack' \in Seq(Call(V)) /\ stack'[1] = c
        /\ \A i \in DOMAIN stack' : i # 1 => i \in DOMAIN stack /\ stack'[i] = stack[i]
    BY <2>1, Replaced
  <2>3. Calling'
    BY <2>1, <2>2 DEF HInv, Calling, CallOK
  <2>4. Whole'
    BY <2>1, <2>2 DEF HInv, Whole
  <2> QED BY <1>1, <2>3, <2>4 DEF HInv
<1> QED BY <1>2, <1>3

----------------------------------------------------------------------------
(* Steps *)

LEMMA InterruptKeeps == ASSUME HInv, Interrupt PROVE HInv'
<1>1. PICK c \in Calls : stack' = <<c>> \o stack
  BY DEF Interrupt
<1>2. PICK V : stack \in Seq(Call(V))
  BY DEF HInv, Calling
<1>3. c \in Call(V \cup {0}) /\ c.pc \in {"load", "begin"} /\ CallOK(c)
  <2>1. /\ <<TaskSize>> \in Seq(Nat \ {0}) /\ <<MessageSize, TimerSize>> \in Seq(Nat \ {0})
        /\ <<>> \in Seq(Nat \ {0}) /\ <<TaskSize>> # <<>> /\ <<MessageSize, TimerSize>> # <<>>
    BY PreemptAssumption
  <2>2. CASE \E first \in BOOLEAN : c = Frame("task", "load", <<TaskSize>>, first)
    BY <2>1, <2>2 DEF Frame, Call, Ops, Pcs, CallOK
  <2>3. CASE c = Frame("expire", "begin", <<>>, TRUE)
    BY <2>1, <2>3 DEF Frame, Call, Ops, Pcs, CallOK
  <2>4. CASE c = Frame("timeout", "load", <<MessageSize, TimerSize>>, FALSE)
    BY <2>1, <2>4 DEF Frame, Call, Ops, Pcs, CallOK
  <2> QED BY <1>1, <2>2, <2>3, <2>4 DEF Calls
<1>4. stack \in Seq(Call(V \cup {0}))
  BY <1>2, CallTypes
<1>5. /\ stack' \in Seq(Call(V \cup {0})) /\ stack'[1] = c
      /\ \A i \in DOMAIN stack' : i # 1 => i - 1 \in DOMAIN stack /\ stack'[i] = stack[i - 1]
  BY <1>1, <1>3, <1>4, Pushed
<1>6. Calling'
  BY <1>3, <1>5 DEF HInv, Calling, CallOK
<1>7. Heap'
  BY DEF Interrupt, heap, HInv, Heap
<1>8. Whole'
  <2> SUFFICES ASSUME ~hit' PROVE /\ ~shared' /\ used' \subseteq 0 .. offset' - 1
                                  /\ \A i \in DOMAIN stack' : stack'[i].pc # "store"
    BY DEF Whole
  <2>1. ~hit /\ (stack # <<>> => ~Masked(Top) /\ (Top.pc = "store" => Top.first))
    BY DEF Interrupt
  <2>2. stack # <<>> => stack[1].pc # "store"
    BY <2>1 DEF Masked, Top
  <2>3. \A i \in DOMAIN stack : stack[i].pc # "store"
    <3> TAKE i \in DOMAIN stack
    <3>1. stack # <<>>
      BY <1>2
    <3> QED BY <2>1, <2>2, <3>1 DEF HInv, Whole
  <2> QED BY <1>3, <1>5, <2>1, <2>3 DEF Interrupt, heap, HInv, Whole
<1> QED BY <1>6, <1>7, <1>8 DEF HInv

LEMMA LoadKeeps == ASSUME HInv, Load PROVE HInv'
<1>1. PICK V : stack \in Seq(Call(V))
  BY DEF HInv, Calling
<1>2. stack # <<>> /\ stack[1] = Top /\ Top \in Call(V) /\ Top.pc = "load" /\ 1 \in DOMAIN stack
  BY <1>1, Popped DEF Load, At, Top
<1>3. UNCHANGED <<offset, used, shared, hit>>
  BY DEF Load, heap, ghost
<1>4. CASE ~Room(offset, Head(Top.sizes))
  BY <1>1, <1>2, <1>3, <1>4, Elsewhere DEF Load, Return
<1>5. CASE Room(offset, Head(Top.sizes))
  <2> DEFINE c == [Top EXCEPT !.pc = "store", !.loaded = offset]
  <2>1. offset \in Nat
    BY DEF HInv, Heap
  <2>2. c \in Call(V) /\ c.pc = "store" /\ c.loaded = offset /\ c.sizes = Top.sizes
    BY <1>2, <2>1 DEF Call, Pcs
  <2>3. CallOK(c)
    BY <1>2, <1>5, <2>2 DEF HInv, Calling, CallOK, Room
  <2>4. stack' = <<c>> \o Tail(stack)
    BY <1>5 DEF Load, Become
  <2> HIDE DEF c
  <2>5. /\ stack' \in Seq(Call(V)) /\ stack'[1] = c
        /\ \A i \in DOMAIN stack' : i # 1 => i \in DOMAIN stack /\ stack'[i] = stack[i]
    BY <1>1, <1>2, <2>2, <2>4, Replaced
  <2>6. Calling'
    BY <2>3, <2>5 DEF HInv, Calling, CallOK
  <2>7. Whole'
    BY <1>3, <2>2, <2>5 DEF HInv, Whole
  <2> QED BY <1>3, <2>6, <2>7 DEF HInv, Heap
<1> QED BY <1>4, <1>5

LEMMA StoreKeeps == ASSUME HInv, Store PROVE HInv'
<1> DEFINE h == Head(Top.sizes)
           block == Top.loaded .. offset' - 1
<1>1. PICK V : stack \in Seq(Call(V))
  BY DEF HInv, Calling
<1>2. stack # <<>> /\ stack[1] = Top /\ Top \in Call(V) /\ Top.pc = "store" /\ 1 \in DOMAIN stack
  BY <1>1, Popped DEF Store, At, Top
<1>3. /\ Top.loaded \in Nat /\ Top.sizes \in Seq(Nat \ {0}) /\ Top.sizes # <<>>
      /\ Top.loaded + h <= BufferSize
  BY <1>2 DEF HInv, Calling, CallOK, Call
<1>4. h \in Nat /\ h > 0
  BY <1>3
<1>5. /\ offset' = Top.loaded + h /\ used' = used \cup block
      /\ shared' = (shared \/ used \cap block # {}) /\ hit' = hit
  BY DEF Store, ghost
<1> HIDE DEF h
<1>6. Heap'
  <2>1. offset' \in 0 .. BufferSize
    BY <1>3, <1>4, <1>5 DEF HInv, Heap
  <2>2. \A x \in used \cup block : x \in 0 .. BufferSize - 1
    <3> TAKE x \in used \cup block
    <3>1. CASE x \in used
      BY <3>1 DEF HInv, Heap
    <3>2. CASE x \in block
      <4>1. Top.loaded \in Nat /\ offset' \in Int /\ offset' <= BufferSize /\ BufferSize \in Nat
        BY <1>3, <2>1 DEF HInv, Heap
      <4> QED BY <3>2, <4>1, Within
    <3> QED BY <3>1, <3>2
  <2> QED BY <1>5, <2>1, <2>2 DEF HInv, Heap
<1>7. ~hit => ~shared' /\ used' \subseteq 0 .. offset' - 1
  <2> SUFFICES ASSUME ~hit PROVE ~shared' /\ used' \subseteq 0 .. offset' - 1
    OBVIOUS
  <2>1. Top.loaded = offset /\ ~shared /\ used \subseteq 0 .. offset - 1
    BY <1>2 DEF HInv, Whole
  <2>2. offset \in Nat /\ offset' = offset + h
    BY <1>5, <2>1 DEF HInv, Heap
  <2>3. used \cap block = {}
    <3> SUFFICES ASSUME NEW x \in used, x \in block PROVE FALSE
      OBVIOUS
    <3> QED BY <2>1, <2>2
  <2>4. \A x \in used \cup block : x \in 0 .. offset' - 1
    <3> TAKE x \in used \cup block
    <3>1. CASE x \in used
      BY <1>4, <2>1, <2>2, <3>1
    <3>2. CASE x \in block
      BY <1>4, <2>1, <2>2, <3>2
    <3> QED BY <3>1, <3>2
  <2> QED BY <1>5, <2>1, <2>3, <2>4
<1>8. ASSUME NEW c \in Call(V), CallOK(c), c.pc # "store", stack' = <<c>> \o Tail(stack)
      PROVE  HInv'
  <2>1. /\ stack' \in Seq(Call(V)) /\ stack'[1] = c
        /\ \A i \in DOMAIN stack' : i # 1 => i \in DOMAIN stack /\ stack'[i] = stack[i]
    BY <1>1, <1>2, <1>8, Replaced
  <2>2. Calling'
    BY <1>8, <2>1 DEF HInv, Calling, CallOK
  <2>3. Whole'
    BY <1>5, <1>7, <1>8, <2>1 DEF HInv, Whole
  <2> QED BY <1>6, <2>2, <2>3 DEF HInv
<1>9. CASE Len(Top.sizes) > 1
  <2> DEFINE c == [Top EXCEPT !.pc = "load", !.sizes = Tail(@)]
  <2>1. Tail(Top.sizes) \in Seq(Nat \ {0}) /\ Tail(Top.sizes) # <<>>
    BY <1>3, <1>9, Longer
  <2>2. c \in Call(V) /\ c.pc = "load" /\ c.sizes # <<>>
    BY <1>2, <2>1 DEF Call, Pcs
  <2>3. stack' = <<c>> \o Tail(stack)
    BY <1>9 DEF Store, Become
  <2> QED BY <1>8, <2>2, <2>3 DEF CallOK
<1>10. CASE ~(Len(Top.sizes) > 1) /\ Top.op = "timeout"
  <2> DEFINE c == [Top EXCEPT !.pc = "create", !.sizes = <<>>]
  <2>1. c \in Call(V) /\ c.pc = "create"
    <3>1. <<>> \in Seq(Nat \ {0}) /\ "create" \in Pcs
      BY DEF Pcs
    <3> QED BY <1>2, <3>1 DEF Call
  <2>2. stack' = <<c>> \o Tail(stack)
    BY <1>10 DEF Store, Become
  <2> QED BY <1>8, <2>1, <2>2 DEF CallOK
<1>11. CASE ~(Len(Top.sizes) > 1) /\ Top.op # "timeout"
  <2>1. stack' = Tail(stack)
    BY <1>11 DEF Store, Return
  <2>2. stack' \in Seq(Call(V))
        /\ \A i \in DOMAIN stack' :
             i \in Nat /\ i # 0 /\ i + 1 \in DOMAIN stack /\ stack'[i] = stack[i + 1]
    BY <1>1, <1>2, <2>1, Popped
  <2>3. \A i \in DOMAIN stack' : i + 1 # 1
    BY <2>2
  <2>4. Calling'
    BY <2>2 DEF HInv, Calling, CallOK
  <2>5. Whole'
    BY <1>5, <1>7, <2>2, <2>3 DEF HInv, Whole
  <2> QED BY <1>6, <2>4, <2>5 DEF HInv
<1> QED BY <1>9, <1>10, <1>11

\* The timer code does not touch the heap.
LEMMA TimersKeep == ASSUME HInv, Create \/ Insert \/ Begin \/ Take \/ Drop PROVE HInv'
<1>1. PICK V : stack \in Seq(Call(V))
  BY DEF HInv, Calling
<1>2. UNCHANGED <<offset, used, shared, hit>> /\ stack # <<>>
  BY DEF Create, Insert, Begin, Take, Drop, At, heap, ghost
<1> DEFINE W == V \cup {timer_head, Len(expiry) + 1, clock}
<1>3. stack \in Seq(Call(W)) /\ Top \in Call(W)
  BY <1>1, <1>2, CallTypes, Popped DEF Top
<1>4. ASSUME NEW pcs \in Pcs \ {"load", "store"}, NEW t \in W, NEW c \in W, NEW n \in W,
             NEW b \in BOOLEAN,
             stack' = <<[Top EXCEPT !.pc = pcs, !.timer = t, !.current = c, !.now = n,
                                    !.first = b]>> \o Tail(stack)
      PROVE  HInv'
  <2>1. /\ [Top EXCEPT !.pc = pcs, !.timer = t, !.current = c, !.now = n, !.first = b] \in Call(W)
        /\ [Top EXCEPT !.pc = pcs, !.timer = t, !.current = c, !.now = n, !.first = b].pc = pcs
    BY <1>3 DEF Call
  <2> QED BY <1>2, <1>3, <1>4, <2>1, Elsewhere
<1>5. ASSUME stack' = Tail(stack) PROVE HInv'
  BY <1>1, <1>2, <1>5, Elsewhere
<1>6. /\ Top.timer \in W /\ Top.current \in W /\ Top.now \in W /\ Top.first \in BOOLEAN
      /\ Top = [op |-> Top.op, pc |-> Top.pc, sizes |-> Top.sizes, loaded |-> Top.loaded,
                timer |-> Top.timer, current |-> Top.current, now |-> Top.now,
                first |-> Top.first]
  BY <1>3 DEF Call
<1>12. timer_head \in W /\ Len(expiry) + 1 \in W /\ clock \in W
  OBVIOUS
<1>13. {"insert", "take", "drop"} \subseteq Pcs \ {"load", "store"}
  BY DEF Pcs
<1> HIDE DEF W
<1> DEFINE Now(p, t, c, n, b) ==
      [Top EXCEPT !.pc = p, !.timer = t, !.current = c, !.now = n, !.first = b]
<1>7. CASE Create
  <2>1. stack' = <<Now("insert", Len(expiry) + 1, timer_head, Top.now, Top.first)>> \o Tail(stack)
    BY <1>6, <1>7 DEF Create, Become
  <2> QED BY <1>4, <1>6, <1>12, <1>13, <2>1
<1>8. CASE Insert
  BY <1>5, <1>8 DEF Insert, Return
<1>9. CASE Begin
  <2>1. stack' = <<Now("take", Top.timer, Top.current, clock, Top.first)>> \o Tail(stack)
    BY <1>6, <1>9 DEF Begin, Become
  <2> QED BY <1>4, <1>6, <1>12, <1>13, <2>1
<1>10. CASE Take
  <2>1. \/ stack' = <<Now("drop", Top.timer, timer_head, Top.now, Top.first)>> \o Tail(stack)
        \/ stack' = Tail(stack)
    BY <1>6, <1>10 DEF Take, Become, Return
  <2>2. CASE stack' = <<Now("drop", Top.timer, timer_head, Top.now, Top.first)>> \o Tail(stack)
    BY <1>4, <1>6, <1>12, <1>13, <2>2
  <2> QED BY <1>5, <2>1, <2>2
<1>11. CASE Drop
  <2>1. stack' = <<Now("take", Top.timer, Top.current, Top.now, FALSE)>> \o Tail(stack)
    BY <1>6, <1>11 DEF Drop, Become
  <2> QED BY <1>4, <1>6, <1>12, <1>13, <2>1
<1> QED BY <1>7, <1>8, <1>9, <1>10, <1>11

LEMMA Inductive == Spec => []HInv
<1>1. Init => HInv
  <2> SUFFICES ASSUME Init PROVE HInv
    OBVIOUS
  <2>1. stack \in Seq(Call({})) /\ DOMAIN stack = {}
    BY DEF Init
  <2>2. Calling
    BY <2>1 DEF Calling
  <2>3. Heap
    <3>1. BufferSize \in Nat
      BY PreemptAssumption
    <3>2. offset \in 0 .. BufferSize /\ used \subseteq 0 .. BufferSize - 1
      BY <3>1 DEF Init
    <3>3. shared \in BOOLEAN /\ hit \in BOOLEAN
      BY DEF Init
    <3> QED BY <3>1, <3>2, <3>3 DEF Heap
  <2>4. ~shared /\ used \subseteq 0 .. offset - 1
    BY DEF Init
  <2>5. Whole
    BY <2>1, <2>4 DEF Whole
  <2> QED BY <2>2, <2>3, <2>5 DEF HInv
<1>2. HInv /\ [Next]_vars => HInv'
  <2> SUFFICES ASSUME HInv, [Next]_vars PROVE HInv'
    OBVIOUS
  <2>1. CASE Tick \/ UNCHANGED vars
    <3>1. UNCHANGED <<stack, offset, used, shared, hit>>
      BY <2>1 DEF Tick, vars, heap, ghost
    <3>2. Calling'
      BY <3>1 DEF HInv, Calling, CallOK
    <3> QED BY <3>1, <3>2 DEF HInv, Heap, Whole
  <2> QED BY <2>1, InterruptKeeps, LoadKeeps, StoreKeeps, TimersKeep DEF Next
<1> QED BY <1>1, <1>2, PTL DEF Spec

----------------------------------------------------------------------------
(* Theorems *)

\* Blocks of the startup allocator overlap only if an interrupt once came between
\* the load and the store of an allocation made with interrupts enabled, however
\* large the buffer, whatever the sizes and however deep the interrupts.
THEOREM BlocksDisjoint == Spec => []BlocksApart
<1>1. HInv => BlocksApart
  BY DEF HInv, Heap, Whole, BlocksApart
<1> QED BY <1>1, Inductive, PTL

\* Even then no block leaves the buffer.
THEOREM HeapBounded == Spec => [](offset \in 0 .. BufferSize /\ used \subseteq 0 .. BufferSize - 1)
<1>1. HInv => offset \in 0 .. BufferSize /\ used \subseteq 0 .. BufferSize - 1
  BY DEF HInv, Heap
<1> QED BY <1>1, Inductive, PTL

----------------------------------------------------------------------------
(* The locals of the timer code *)

\* What a call remembers is a timer that has been made, out of n.
Local(c, n) ==
  /\ c.current \in 0 .. n
  /\ c.pc = "insert" => c.timer \in 1 .. n
  /\ c.pc = "drop" => c.current \in 1 .. n

Lists ==
  /\ timer_head \in 0 .. Len(expiry) /\ next \in [Timers -> 0 .. Len(expiry)]
  /\ expiry \in Seq(Nat) /\ Len(expiry) <= MaxTimers /\ clock \in Nat
  /\ raced \in BOOLEAN /\ wild \in BOOLEAN
  /\ Len(stack) <= MaxDepth
  /\ \A i \in DOMAIN stack : Local(stack[i], Len(expiry))

LEMMA Bounds == MaxTimers \in Nat /\ MaxDepth \in Nat /\ Timers = 1 .. MaxTimers
  BY PreemptAssumption DEF Timers

LEMMA LocalGrows ==
  ASSUME NEW c, NEW m \in Nat, NEW n \in Nat, m <= n, Local(c, m)
  PROVE  Local(c, n)
  BY DEF Local

\* The running call.
LEMMA TopIs ==
  ASSUME HInv, stack # <<>>
  PROVE  /\ 1 \in DOMAIN stack /\ Top = stack[1] /\ Len(stack) \in Nat
         /\ \E V : Top \in Call(V)
         /\ Lists => Local(Top, Len(expiry))
<1>1. PICK V : stack \in Seq(Call(V))
  BY DEF HInv, Calling
<1>2. 1 \in DOMAIN stack /\ Top = stack[1] /\ Top \in Call(V) /\ Len(stack) \in Nat
  BY <1>1, Popped DEF Top
<1> QED BY <1>2 DEF Lists

LEMMA Pops ==
  ASSUME HInv, stack # <<>>, stack' = Tail(stack)
  PROVE  /\ Len(stack') = Len(stack) - 1 /\ Len(stack) \in Nat
         /\ \A i \in DOMAIN stack' :
              i \in Nat /\ i + 1 # 1 /\ i + 1 \in DOMAIN stack /\ stack'[i] = stack[i + 1]
<1>1. PICK V : stack \in Seq(Call(V))
  BY DEF HInv, Calling
<1>2. \A i \in DOMAIN stack' :
        i \in Nat /\ i # 0 /\ i + 1 \in DOMAIN stack /\ stack'[i] = stack[i + 1]
  BY <1>1, Popped
<1>3. Len(stack') = Len(stack) - 1 /\ Len(stack) \in Nat
  BY <1>1
<1>4. \A i \in Nat : i # 0 => i + 1 # 1
  OBVIOUS
<1> QED BY <1>2, <1>3, <1>4

LEMMA GoesOn ==
  ASSUME HInv, stack # <<>>, NEW c, stack' = <<c>> \o Tail(stack)
  PROVE  /\ Len(stack') = Len(stack) /\ stack' # <<>> /\ stack'[1] = c /\ Head(stack') = c
         /\ 1 \in DOMAIN stack'
         /\ \A i \in DOMAIN stack' : i # 1 => i \in DOMAIN stack /\ stack'[i] = stack[i]
<1>1. PICK V : stack \in Seq(Call(V))
  BY DEF HInv, Calling
<1>2. Call(V) \subseteq Call(V) \cup {c}
  OBVIOUS
<1>3. stack \in Seq(Call(V) \cup {c}) /\ c \in Call(V) \cup {c}
  BY <1>1, <1>2
<1>4. /\ stack' \in Seq(Call(V) \cup {c}) /\ stack'[1] = c
      /\ \A i \in DOMAIN stack' : i # 1 => i \in DOMAIN stack /\ stack'[i] = stack[i]
  BY <1>3, Replaced
<1>5. Len(stack') = Len(stack) /\ Len(stack) \in Nat /\ Len(stack) # 0
  <2>1. Tail(stack) \in Seq(Call(V)) /\ Len(Tail(stack)) = Len(stack) - 1
        /\ Len(stack) \in Nat /\ Len(stack) # 0
    BY <1>1
  <2>2. Len(<<c>> \o Tail(stack)) = 1 + Len(Tail(stack))
    BY <2>1
  <2> QED BY <2>1, <2>2
<1>6. stack' # <<>> /\ 1 \in DOMAIN stack'
  BY <1>4, <1>5
<1>7. Head(stack') = stack'[1]
  BY <1>4, <1>6
<1> QED BY <1>4, <1>5, <1>6, <1>7

LEMMA Pushes ==
  ASSUME HInv, NEW c, stack' = <<c>> \o stack
  PROVE  /\ Len(stack') = Len(stack) + 1 /\ Len(stack) \in Nat /\ stack' # <<>>
         /\ stack'[1] = c /\ Head(stack') = c /\ 1 \in DOMAIN stack'
         /\ \A i \in DOMAIN stack' : i # 1 => i - 1 \in DOMAIN stack /\ stack'[i] = stack[i - 1]
<1>1. PICK V : stack \in Seq(Call(V))
  BY DEF HInv, Calling
<1>2. Call(V) \subseteq Call(V) \cup {c}
  OBVIOUS
<1>3. stack \in Seq(Call(V) \cup {c}) /\ c \in Call(V) \cup {c}
  BY <1>1, <1>2
<1>4. /\ stack' \in Seq(Call(V) \cup {c}) /\ stack'[1] = c
      /\ \A i \in DOMAIN stack' : i # 1 => i - 1 \in DOMAIN stack /\ stack'[i] = stack[i - 1]
  BY <1>3, Pushed
<1>5. Len(stack') = Len(stack) + 1 /\ Len(stack) \in Nat
  BY <1>1
<1>6. stack' # <<>> /\ 1 \in DOMAIN stack'
  BY <1>4, <1>5
<1>7. Head(stack') = stack'[1]
  BY <1>4, <1>6
<1> QED BY <1>4, <1>5, <1>6, <1>7

\* A step of the running call: it returns or goes on, and the rest is typed.
LEMMA ListsStep ==
  ASSUME HInv, Lists, stack # <<>>,
         timer_head' \in 0 .. Len(expiry'), next' \in [Timers -> 0 .. Len(expiry')],
         expiry' \in Seq(Nat), Len(expiry) <= Len(expiry'), Len(expiry') <= MaxTimers,
         clock' \in Nat, raced' \in BOOLEAN, wild' \in BOOLEAN,
         \/ stack' = Tail(stack)
         \/ \E c : Local(c, Len(expiry')) /\ stack' = <<c>> \o Tail(stack)
  PROVE  Lists'
<1>1. Len(expiry) \in Nat /\ Len(expiry') \in Nat /\ MaxDepth \in Nat
  BY Bounds DEF Lists
<1>2. \A i \in DOMAIN stack : Local(stack[i], Len(expiry'))
  BY <1>1, LocalGrows DEF Lists
<1>3. CASE stack' = Tail(stack)
  <2>1. Len(stack') <= MaxDepth
    BY <1>1, <1>3, Pops DEF Lists
  <2>2. \A i \in DOMAIN stack' : Local(stack'[i], Len(expiry'))
    BY <1>2, <1>3, Pops
  <2> QED BY <2>1, <2>2 DEF Lists
<1>4. ASSUME NEW c, Local(c, Len(expiry')), stack' = <<c>> \o Tail(stack) PROVE Lists'
  <2>1. Len(stack') <= MaxDepth
    BY <1>4, GoesOn DEF Lists
  <2>2. \A i \in DOMAIN stack' : Local(stack'[i], Len(expiry'))
    BY <1>2, <1>4, GoesOn
  <2> QED BY <2>1, <2>2 DEF Lists
<1> QED BY <1>3, <1>4

----------------------------------------------------------------------------
(* The walk of add_timer *)

\* A set of natural numbers that is not empty has a least element.
LEMMA LeastNat ==
  ASSUME NEW S \in SUBSET Nat, S # {}
  PROVE  \E m \in S : \A n \in S : m <= n
<1>1. IsWellFoundedOn(OpToRel(<, Nat), Nat)
  BY NatLessThanWellFounded
<1>2. PICK x \in S : \A y \in S : ~(<<y, x>> \in OpToRel(<, Nat))
  BY <1>1, WFMin
<1>3. \A y \in S : ~(y < x)
  BY <1>2 DEF OpToRel
<1> QED BY <1>3

\* g follows G for n steps from c.
Follows(g, G, c, n) ==
  g[0] = c /\ \A k \in 1 .. n : g[k] = G[g[k - 1]]

LEMMA Iterates ==
  ASSUME NEW S, NEW G \in [S -> S], NEW c \in S, NEW n \in Nat
  PROVE  \E g \in [0 .. n -> S] : Follows(g, G, c, n)
<1> DEFINE Bad == {m \in 0 .. n : ~ \E g \in [0 .. m -> S] : Follows(g, G, c, m)}
<1> SUFFICES ASSUME Bad # {} PROVE FALSE
  <2>1. n \in 0 .. n
    OBVIOUS
  <2> QED BY <2>1
<1>1. PICK m \in Bad : \A k \in Bad : m <= k
  <2>1. Bad \in SUBSET Nat
    OBVIOUS
  <2> HIDE DEF Bad
  <2> QED BY <2>1, LeastNat
<1>2. m \in 0 .. n /\ ~ \E g \in [0 .. m -> S] : Follows(g, G, c, m)
  OBVIOUS
<1>3. CASE m = 0
  <2> DEFINE g == [k \in 0 .. m |-> c]
  <2>1. g \in [0 .. m -> S] /\ Follows(g, G, c, m)
    BY <1>3 DEF Follows
  <2> QED BY <2>1, <1>2
<1>4. CASE m > 0
  <2>1. m - 1 \in 0 .. n /\ ~(m <= m - 1)
    BY <1>2, <1>4
  <2>2. PICK h \in [0 .. m - 1 -> S] : Follows(h, G, c, m - 1)
    BY <2>1, <1>1
  <2> DEFINE g == [k \in 0 .. m |-> IF k < m THEN h[k] ELSE G[h[m - 1]]]
  <2>3. h[m - 1] \in S /\ G[h[m - 1]] \in S
    BY <2>1, <2>2
  <2>4. g \in [0 .. m -> S]
    BY <2>2, <2>3, <1>2, <1>4
  <2>5. g[0] = c
    BY <2>2, <1>2, <1>4 DEF Follows
  <2>6. ASSUME NEW k \in 1 .. m PROVE g[k] = G[g[k - 1]]
    <3>1. k - 1 \in 0 .. m /\ k - 1 < m /\ g[k - 1] = h[k - 1]
      BY <1>2
    <3>2. CASE k = m
      BY <3>1, <3>2
    <3>3. CASE k # m
      <4>1. k \in 1 .. m - 1 /\ g[k] = h[k]
        BY <1>2, <3>3
      <4> QED BY <4>1, <3>1, <2>2 DEF Follows
    <3> QED BY <3>2, <3>3
  <2>7. Follows(g, G, c, m)
    BY <2>5, <2>6 DEF Follows
  <2> QED BY <2>4, <2>7, <1>2
<1> QED BY <1>2, <1>3, <1>4

\* One turn of the walk for timer t at x.
Turn(x, t) ==
  IF next[x] # 0 /\ expiry[next[x]] < expiry[t] THEN next[x] ELSE x

LEMMA BehindWalk ==
  ASSUME Lists, NEW c \in 1 .. Len(expiry), NEW t
  PROVE  \E g \in [0 .. MaxTimers -> 1 .. Len(expiry)] :
           /\ g[0] = c /\ \A k \in 1 .. MaxTimers : g[k] = Turn(g[k - 1], t)
           /\ Behind(c, t) = g[MaxTimers]
<1> DEFINE S == 1 .. Len(expiry)
           G == [x \in S |-> Turn(x, t)]
           F(g) == [k \in 0 .. MaxTimers |->
                      IF k = 0 THEN c
                      ELSE LET d == next[g[k - 1]]
                           IN IF d # 0 /\ expiry[d] < expiry[t] THEN d ELSE g[k - 1]]
           W == CHOOSE g : g = F(g)
<1>0. MaxTimers \in Nat /\ Len(expiry) \in Nat /\ Len(expiry) <= MaxTimers
  BY Bounds DEF Lists
<1>1. \A x \in S : Turn(x, t) \in S
  <2> TAKE x \in S
  <2>1. x \in Timers /\ next[x] \in 0 .. Len(expiry)
    BY <1>0, Bounds DEF Lists
  <2> QED BY <1>0, <2>1 DEF Turn
<1>2. PICK g \in [0 .. MaxTimers -> S] : Follows(g, G, c, MaxTimers)
  <2>1. G \in [S -> S] /\ c \in S
    BY <1>1
  <2> HIDE DEF G, S
  <2> QED BY <1>0, <2>1, Iterates
<1>3. g = F(g)
  <2>1. ASSUME NEW k \in 0 .. MaxTimers PROVE g[k] = F(g)[k]
    <3>1. CASE k = 0
      BY <1>2, <3>1 DEF Follows
    <3>2. CASE k # 0
      <4>1. k \in 1 .. MaxTimers /\ k - 1 \in 0 .. MaxTimers /\ g[k - 1] \in S
        BY <3>2, <1>0, <1>2
      <4>2. g[k] = Turn(g[k - 1], t)
        BY <4>1, <1>2 DEF Follows
      <4> QED BY <4>2, <3>2 DEF Turn
    <3> QED BY <3>1, <3>2
  <2> QED BY <2>1, <1>2
<1>4. W = F(W)
  <2> HIDE DEF F
  <2> QED BY <1>3
<1>5. Behind(c, t) = W[MaxTimers]
  BY DEF Behind
<1> HIDE DEF W
<1>6. \A k \in 0 .. MaxTimers :
        W[k] = IF k = 0 THEN c
               ELSE IF next[W[k - 1]] # 0 /\ expiry[next[W[k - 1]]] < expiry[t]
                    THEN next[W[k - 1]] ELSE W[k - 1]
  BY <1>4
<1>7. W[0] = c /\ \A k \in 1 .. MaxTimers : W[k] = Turn(W[k - 1], t)
  BY <1>0, <1>6 DEF Turn
<1> DEFINE Bad == {k \in 0 .. MaxTimers : W[k] \notin S}
<1>8. Bad = {}
  <2> SUFFICES ASSUME Bad # {} PROVE FALSE
    OBVIOUS
  <2>1. PICK m \in Bad : \A k \in Bad : m <= k
    <3>1. Bad \in SUBSET Nat
      BY <1>0
    <3> HIDE DEF Bad
    <3> QED BY <3>1, LeastNat
  <2>2. m \in 1 .. MaxTimers /\ W[m] \notin S
    BY <1>7
  <2>3. m - 1 \in 0 .. MaxTimers /\ ~(m <= m - 1)
    BY <2>2, <1>0
  <2> QED BY <1>1, <1>7, <2>1, <2>2, <2>3
<1>9. W \in [0 .. MaxTimers -> S]
  <2>1. W = [k \in 0 .. MaxTimers |-> W[k]]
    BY <1>4
  <2> QED BY <2>1, <1>8
<1> QED BY <1>5, <1>7, <1>9

----------------------------------------------------------------------------
(* Types of the timer list *)

LEMMA InterruptLists == ASSUME HInv, Lists, Interrupt PROVE Lists'
<1>1. PICK c \in Calls : stack' = <<c>> \o stack
  BY DEF Interrupt
<1>2. /\ UNCHANGED <<timer_head, next, expiry, clock, wild>> /\ Len(stack) < MaxDepth
      /\ raced' \in BOOLEAN
  BY DEF Interrupt, list
<1>3. Local(c, Len(expiry))
  <2>1. c.current = 0 /\ c.pc \in {"load", "begin"}
    BY DEF Calls, Frame
  <2>2. 0 \in 0 .. Len(expiry)
    BY DEF Lists
  <2> QED BY <2>1, <2>2 DEF Local
<1>4. Len(stack') <= MaxDepth
  BY <1>1, <1>2, Pushes, Bounds
<1>5. \A i \in DOMAIN stack' : Local(stack'[i], Len(expiry))
  BY <1>1, <1>3, Pushes DEF Lists
<1> QED BY <1>2, <1>4, <1>5 DEF Lists

LEMMA HeapLists == ASSUME HInv, Lists, Load \/ Store PROVE Lists'
<1>1. /\ UNCHANGED <<timer_head, next, expiry, clock, raced, wild>> /\ stack # <<>>
      /\ Top.pc \in {"load", "store"}
  BY DEF Load, Store, At, list, ghost
<1>2. PICK V : Top \in Call(V)
  BY <1>1, TopIs
<1>3. Local(Top, Len(expiry))
  BY <1>1, TopIs
<1>4. \/ stack' = Tail(stack)
      \/ \E c : Local(c, Len(expiry')) /\ stack' = <<c>> \o Tail(stack)
  <2>1. ASSUME NEW c \in {[Top EXCEPT !.pc = "store", !.loaded = offset],
                          [Top EXCEPT !.pc = "load", !.sizes = Tail(@)],
                          [Top EXCEPT !.pc = "create", !.sizes = <<>>]}
        PROVE  Local(c, Len(expiry'))
    <3>1. c.current = Top.current /\ c.pc \in {"load", "store", "create"}
      BY <1>2 DEF Call
    <3> QED BY <1>1, <1>3, <3>1 DEF Local
  <2>2. \/ stack' = Tail(stack)
        \/ \E c \in {[Top EXCEPT !.pc = "store", !.loaded = offset],
                     [Top EXCEPT !.pc = "load", !.sizes = Tail(@)],
                     [Top EXCEPT !.pc = "create", !.sizes = <<>>]} :
             stack' = <<c>> \o Tail(stack)
    BY DEF Load, Store, Become, Return
  <2> QED BY <2>1, <2>2
<1>5. /\ timer_head' \in 0 .. Len(expiry') /\ next' \in [Timers -> 0 .. Len(expiry')]
      /\ expiry' \in Seq(Nat) /\ Len(expiry) <= Len(expiry') /\ Len(expiry') <= MaxTimers
      /\ clock' \in Nat /\ raced' \in BOOLEAN /\ wild' \in BOOLEAN
  BY <1>1 DEF Lists
<1> QED BY <1>1, <1>4, <1>5, ListsStep

LEMMA CreateLists == ASSUME HInv, Lists, Create PROVE Lists'
<1> DEFINE c == [Top EXCEPT !.pc = "insert", !.timer = Len(expiry) + 1, !.current = timer_head]
<1>1. /\ UNCHANGED <<timer_head, next, clock, raced, wild>> /\ stack # <<>>
      /\ Len(expiry) < MaxTimers /\ stack' = <<c>> \o Tail(stack)
  BY DEF Create, At, ghost, Become
<1>2. PICK after \in Afters : expiry' = Append(expiry, clock + after)
  BY DEF Create
<1>3. after \in Nat /\ clock \in Nat /\ expiry \in Seq(Nat) /\ MaxTimers \in Nat
  BY PreemptAssumption DEF Lists
<1>4. clock + after \in Nat
  BY <1>3
<1>5. expiry' \in Seq(Nat) /\ Len(expiry') = Len(expiry) + 1 /\ Len(expiry) \in Nat
  BY <1>2, <1>3, <1>4
<1>6. PICK V : Top \in Call(V)
  BY <1>1, TopIs
<1>7. c.current = timer_head /\ c.pc = "insert" /\ c.timer = Len(expiry) + 1
  BY <1>6 DEF Call
<1> HIDE DEF c
<1>8. Local(c, Len(expiry'))
  BY <1>5, <1>7 DEF Local, Lists
<1>9. timer_head' \in 0 .. Len(expiry') /\ next' \in [Timers -> 0 .. Len(expiry')]
  BY <1>1, <1>5 DEF Lists
<1>10. /\ Len(expiry) <= Len(expiry') /\ Len(expiry') <= MaxTimers
       /\ clock' \in Nat /\ raced' \in BOOLEAN /\ wild' \in BOOLEAN
  BY <1>1, <1>3, <1>5 DEF Lists
<1>11. \E d : Local(d, Len(expiry')) /\ stack' = <<d>> \o Tail(stack)
  BY <1>1, <1>8 DEF c
<1> QED BY <1>1, <1>5, <1>9, <1>10, <1>11, ListsStep

LEMMA InsertLists == ASSUME HInv, Lists, Insert PROVE Lists'
<1> DEFINE t == Top.timer
           c == Top.current
           n == Len(expiry)
<1>1. /\ UNCHANGED <<expiry, clock, raced>> /\ stack # <<>> /\ stack' = Tail(stack)
      /\ Top.pc = "insert" /\ ~wild
  BY DEF Insert, At, ghost, Return
<1>2. t \in 1 .. n /\ c \in 0 .. n /\ n \in Nat /\ n <= MaxTimers /\ MaxTimers \in Nat
  BY <1>1, TopIs, Bounds DEF Local, Lists
<1>3. next \in [Timers -> 0 .. n] /\ timer_head \in 0 .. n /\ wild \in BOOLEAN
  BY DEF Lists
<1>4. \/ /\ next' = [next EXCEPT ![t] = timer_head]
         /\ timer_head' = t /\ wild' = wild
      \/ /\ c # 0 /\ next' = [next EXCEPT ![t] = next[Behind(c, t)], ![Behind(c, t)] = t]
         /\ timer_head' = timer_head /\ wild' = wild
      \/ wild' = TRUE /\ timer_head' = timer_head /\ next' = next
  BY DEF Insert
<1> HIDE DEF t, c, n
<1>5. /\ timer_head' \in 0 .. n /\ next' \in [Timers -> 0 .. n] /\ wild' \in BOOLEAN
  <2>1. CASE next' = [next EXCEPT ![t] = timer_head] /\ timer_head' = t /\ wild' = wild
    <3>1. t \in 0 .. n
      BY <1>2
    <3>2. next' \in [Timers -> 0 .. n]
      BY <1>3, <2>1
    <3> QED BY <1>3, <2>1, <3>1, <3>2
  <2>2. CASE /\ c # 0 /\ next' = [next EXCEPT ![t] = next[Behind(c, t)], ![Behind(c, t)] = t]
             /\ timer_head' = timer_head /\ wild' = wild
    <3>1. c \in 1 .. n
      BY <1>2, <2>2
    <3>2. PICK g \in [0 .. MaxTimers -> 1 .. n] : Behind(c, t) = g[MaxTimers]
      BY <3>1, BehindWalk DEF n
    <3>3. Behind(c, t) \in 1 .. n
      BY <1>2, <3>2
    <3>4. Behind(c, t) \in Timers /\ next[Behind(c, t)] \in 0 .. n
      BY <1>2, <1>3, <3>3, Bounds
    <3> DEFINE b == Behind(c, t)
    <3> HIDE DEF b
    <3>5. b \in Timers /\ next[b] \in 0 .. n /\ t \in 0 .. n
      BY <3>4, <1>2 DEF b
    <3>6. next' = [next EXCEPT ![t] = next[b], ![b] = t]
      BY <2>2 DEF b
    <3>7. next' \in [Timers -> 0 .. n]
      BY <1>3, <3>5, <3>6
    <3> QED BY <1>3, <2>2, <3>7
  <2>3. CASE wild' = TRUE /\ timer_head' = timer_head /\ next' = next
    BY <1>3, <2>3
  <2> QED BY <1>4, <2>1, <2>2, <2>3
<1> QED BY <1>1, <1>2, <1>5, ListsStep DEF Lists, n

LEMMA ExpireLists == ASSUME HInv, Lists, Begin \/ Take \/ Drop PROVE Lists'
<1>1. /\ UNCHANGED <<next, expiry, clock, raced, wild>> /\ stack # <<>>
      /\ Begin \/ Take => timer_head' = timer_head
  BY DEF Begin, Take, Drop, At, list, ghost
<1>2. PICK V : Top \in Call(V)
  BY <1>1, TopIs
<1>3. Local(Top, Len(expiry)) /\ Len(expiry) \in Nat /\ timer_head \in 0 .. Len(expiry)
  BY <1>1, TopIs DEF Lists
<1>4. CASE Begin
  <2> DEFINE c == [Top EXCEPT !.pc = "take", !.now = clock]
  <2>1. c.current = Top.current /\ c.pc = "take"
    BY <1>2 DEF Call
  <2>2. stack' = <<c>> \o Tail(stack)
    BY <1>4 DEF Begin, Become
  <2> HIDE DEF c
  <2>3. Local(c, Len(expiry'))
    BY <1>1, <1>3, <2>1 DEF Local
  <2> QED BY <1>1, <1>4, <2>2, <2>3, ListsStep DEF Lists
<1>5. CASE Take
  <2> DEFINE c == [Top EXCEPT !.pc = "drop", !.current = timer_head]
  <2>1. c.current = timer_head /\ c.pc = "drop"
    BY <1>2 DEF Call
  <2>2. \/ stack' = <<c>> \o Tail(stack) /\ timer_head # 0
        \/ stack' = Tail(stack)
    BY <1>5 DEF Take, Become, Return
  <2> HIDE DEF c
  <2>3. timer_head # 0 => Local(c, Len(expiry'))
    BY <1>1, <1>3, <2>1 DEF Local
  <2> QED BY <1>1, <1>5, <2>2, <2>3, ListsStep DEF Lists
<1>6. CASE Drop
  <2> DEFINE c == [Top EXCEPT !.pc = "take", !.first = FALSE]
  <2>1. c.current = Top.current /\ c.pc = "take"
    BY <1>2 DEF Call
  <2>2. stack' = <<c>> \o Tail(stack) /\ timer_head' = next[Top.current] /\ Top.pc = "drop"
    BY <1>6 DEF Drop, Become, At
  <2> HIDE DEF c
  <2>3. Local(c, Len(expiry'))
    BY <1>1, <1>3, <2>1 DEF Local
  <2>4. Top.current \in Timers
    BY <1>3, <2>2, Bounds DEF Local, Lists
  <2>5. timer_head' \in 0 .. Len(expiry)
    BY <2>2, <2>4 DEF Lists
  <2> QED BY <1>1, <2>2, <2>3, <2>5, ListsStep DEF Lists
<1> QED BY <1>4, <1>5, <1>6

LEMMA ListsKept == HInv /\ Lists /\ [Next]_vars => Lists'
<1> SUFFICES ASSUME HInv, Lists, [Next]_vars PROVE Lists'
  OBVIOUS
<1>1. CASE Tick
  <2>1. clock' \in Nat
    BY <1>1 DEF Tick, Lists
  <2> QED BY <1>1, <2>1 DEF Tick, list, ghost, Lists
<1>2. CASE UNCHANGED vars
  BY <1>2 DEF vars, Lists
<1> QED BY <1>1, <1>2, InterruptLists, HeapLists, CreateLists, InsertLists, ExpireLists DEF Next

LEMMA ListsInit == Init => Lists
<1> SUFFICES ASSUME Init PROVE Lists
  OBVIOUS
<1>1. Len(<<>>) = 0 /\ DOMAIN <<>> = {} /\ <<>> \in Seq(Nat)
  OBVIOUS
<1>2. Len(expiry) = 0 /\ Len(stack) = 0 /\ DOMAIN stack = {} /\ expiry \in Seq(Nat)
  BY <1>1 DEF Init
<1>3. timer_head = 0 /\ next = [t \in Timers |-> 0] /\ clock = 0 /\ ~raced /\ ~wild
      /\ raced \in BOOLEAN /\ wild \in BOOLEAN
  BY DEF Init
<1> QED BY <1>2, <1>3, Bounds DEF Lists

\* Every timer that the list names has been made, whatever interrupts what, and
\* the allocator stays in its buffer.
THEOREM TypeCorrect == Spec => []TypeOK
<1>1. HInv /\ Lists => TypeOK
  BY DEF HInv, Heap, Lists, TypeOK
<1> QED BY <1>1, Inductive, ListsInit, ListsKept, PTL DEF Spec

----------------------------------------------------------------------------
(* The list *)

\* t is being inserted, or its callback has run and it is being taken off.
Adding(t)  == stack # <<>> /\ Top.pc = "insert" /\ Top.timer = t
Leaving(t) == stack # <<>> /\ Top.pc = "drop" /\ Top.current = t

Has(s, x) == \E k \in 1 .. Len(s) : s[k] = x

\* t has been inserted, and has not run or is being taken off.
Waits(t) ==
  /\ t \in 1 .. Len(expiry) /\ ~Adding(t)
  /\ Has(ran, t) => Leaving(t)

\* The list from timer_head on, as a sequence.
Order(L) ==
  /\ L \in Seq(1 .. Len(expiry))
  /\ timer_head = IF L = <<>> THEN 0 ELSE L[1]
  /\ \A k \in 1 .. Len(L) : next[L[k]] = IF k < Len(L) THEN L[k + 1] ELSE 0
  /\ \A i, j \in 1 .. Len(L) : i < j => L[i] # L[j] /\ expiry[L[i]] <= expiry[L[j]]

\* No call that has been interrupted is inserting a timer or taking one off, and
\* what the running one has read of timer_head is still so.
Calm ==
  /\ ~wild
  /\ \A i \in DOMAIN stack : i # 1 => stack[i].pc \notin {"insert", "drop"}
  /\ \A t : Adding(t) => Top.current = timer_head /\ ~Has(ran, t)
  /\ \A t : Leaving(t) => t = timer_head /\ Has(ran, t)

RanOnce ==
  /\ ran \in Seq(1 .. Len(expiry))
  /\ \A i, j \in 1 .. Len(ran) : i < j => ran[i] # ran[j]

\* The inductive invariant of the list.
Listed == \E L : Order(L) /\ \A t : Waits(t) <=> Has(L, t)
KInv   == ~raced => Calm /\ RanOnce /\ Listed

\* No call at all is inserting a timer or taking one off.
Quiet == \A i \in DOMAIN stack : stack[i].pc \notin {"insert", "drop"}

LEMMA OrderTypes ==
  ASSUME Lists, NEW L, Order(L)
  PROVE  /\ L \in Seq(1 .. Len(expiry)) /\ Len(L) \in Nat /\ Len(expiry) \in Nat
         /\ \A k \in 1 .. Len(L) :
              L[k] \in 1 .. Len(expiry) /\ L[k] \in Timers /\ L[k] # 0 /\ expiry[L[k]] \in Nat
         /\ Len(L) = 0 <=> L = <<>>
         /\ \A t \in 1 .. Len(expiry) : t \in Timers /\ expiry[t] \in Nat
<1>1. L \in Seq(1 .. Len(expiry)) /\ Len(L) \in Nat
  BY DEF Order
<1>2. expiry \in Seq(Nat) /\ Len(expiry) \in Nat /\ Len(expiry) <= MaxTimers /\ MaxTimers \in Nat
  BY Bounds DEF Lists
<1>3. \A t \in 1 .. Len(expiry) : t \in Timers /\ expiry[t] \in Nat
  BY <1>2, Bounds
<1>4. \A k \in 1 .. Len(L) : L[k] \in 1 .. Len(expiry) /\ L[k] # 0
  BY <1>1
<1>5. Len(L) = 0 <=> L = <<>>
  BY <1>1
<1> QED BY <1>1, <1>2, <1>3, <1>4, <1>5

\* No timer is named twice, so the list is not longer than there are timers.
LEMMA OrderLength ==
  ASSUME Lists, NEW L, Order(L)
  PROVE  Len(L) <= MaxTimers
<1>1. L \in Seq(1 .. Len(expiry)) /\ Len(L) \in Nat /\ Len(expiry) \in Nat
  BY OrderTypes
<1>2. Len(expiry) <= MaxTimers /\ MaxTimers \in Nat
  BY Bounds DEF Lists
<1> SUFFICES ASSUME Len(L) > Len(expiry) PROVE FALSE
  BY <1>1, <1>2
<1> DEFINE S == 1 .. Len(L)
           T == 1 .. Len(expiry)
<1>3. /\ IsFiniteSet(S) /\ Cardinality(S) = Len(L)
      /\ IsFiniteSet(T) /\ Cardinality(T) = Len(expiry)
  <2>1. 1 \in Int /\ Len(L) \in Int /\ Len(expiry) \in Int
    BY <1>1
  <2>2. IsFiniteSet(S) /\ Cardinality(S) = IF 1 > Len(L) THEN 0 ELSE Len(L) - 1 + 1
    BY <2>1, FS_Interval
  <2>3. IsFiniteSet(T) /\ Cardinality(T) = IF 1 > Len(expiry) THEN 0 ELSE Len(expiry) - 1 + 1
    BY <2>1, FS_Interval
  <2> QED BY <1>1, <2>2, <2>3
<1>4. L \in [S -> T]
  BY <1>1
<1>5. \A x, y \in S : x # y => L[x] # L[y]
  <2> TAKE x, y \in S
  <2>1. x < y \/ y < x \/ x = y
    BY <1>1
  <2> QED BY <2>1 DEF Order
<1> HIDE DEF S, T
<1>6. Cardinality(T) < Cardinality(S)
  BY <1>3
<1> QED BY <1>3, <1>4, <1>5, <1>6, FS_PigeonHole

\* The running call is neither inserting nor taking off, so no call is.
LEMMA CalmQuiet ==
  ASSUME HInv, Calm, stack # <<>> => Top.pc \notin {"insert", "drop"}
  PROVE  Quiet
<1> SUFFICES ASSUME NEW i \in DOMAIN stack PROVE stack[i].pc \notin {"insert", "drop"}
  BY DEF Quiet
<1>1. PICK V : stack \in Seq(Call(V))
  BY DEF HInv, Calling
<1>2. stack # <<>>
  BY <1>1
<1>3. CASE i = 1
  BY <1>2, <1>3, TopIs
<1>4. CASE i # 1
  BY <1>4 DEF Calm
<1> QED BY <1>3, <1>4

\* While no call is at the list, the list is the timers that have not run.
LEMMA QuietWaits ==
  ASSUME HInv, Quiet
  PROVE  \A t : ~Adding(t) /\ ~Leaving(t)
<1>1. stack # <<>> => Top.pc \notin {"insert", "drop"}
  BY TopIs DEF Quiet
<1> QED BY <1>1 DEF Adding, Leaving

\* A step that touches neither the list nor what is about to change it.
LEMMA Unmoved ==
  ASSUME HInv, HInv', KInv, ~raced, Quiet, Quiet',
         UNCHANGED <<timer_head, next, expiry, ran, wild>>
  PROVE  KInv'
<1>1. \A t : ~Adding(t) /\ ~Leaving(t)
  BY QuietWaits
<1>2. Quiet => \A t : ~Adding(t) /\ ~Leaving(t)
  BY QuietWaits
<1>3. \A t : ~Adding(t)' /\ ~Leaving(t)'
  <2>1. stack' # <<>> => Head(stack').pc \notin {"insert", "drop"}
    <3>1. PICK V : stack' \in Seq(Call(V))
      BY DEF HInv, Calling
    <3>2. stack' # <<>> => Head(stack') = stack'[1] /\ 1 \in DOMAIN stack'
      BY <3>1
    <3> QED BY <3>2 DEF Quiet
  <2> QED BY <2>1 DEF Adding, Leaving, Top
<1>4. Calm /\ RanOnce /\ Listed
  BY DEF KInv
<1>5. Calm'
  BY <1>3, <1>4 DEF Calm, Quiet
<1>6. RanOnce'
  BY <1>4 DEF RanOnce
<1>7. Listed'
  <2>1. PICK L : Order(L) /\ \A t : Waits(t) <=> Has(L, t)
    BY <1>4 DEF Listed
  <2>2. Order(L)'
    BY <2>1 DEF Order
  <2>3. \A t : Waits(t)' <=> Waits(t)
    BY <1>1, <1>3 DEF Waits
  <2> QED BY <2>1, <2>2, <2>3 DEF Listed
<1> QED BY <1>5, <1>6, <1>7 DEF KInv

LEMMA PopsQuiet ==
  ASSUME HInv, Calm, stack # <<>>, stack' = Tail(stack)
  PROVE  Quiet'
  BY Pops DEF Calm, Quiet

LEMMA GoesOnQuiet ==
  ASSUME HInv, Calm, stack # <<>>, NEW c, stack' = <<c>> \o Tail(stack),
         c.pc \notin {"insert", "drop"}
  PROVE  Quiet'
  BY GoesOn DEF Calm, Quiet

LEMMA InterruptKept == ASSUME HInv, HInv', Lists, KInv, Interrupt PROVE KInv'
<1> SUFFICES ASSUME ~raced' PROVE KInv'
  BY DEF KInv
<1>1. /\ ~raced /\ UNCHANGED <<timer_head, next, expiry, ran, wild>>
      /\ stack # <<>> => ~Masked(Top) /\ (Top.pc \in {"insert", "drop"} => Top.first)
  BY DEF Interrupt, list
<1>2. Calm
  BY <1>1 DEF KInv
<1>3. stack # <<>> => Top.pc \notin {"insert", "drop"}
  BY <1>1 DEF Masked
<1>4. Quiet
  BY <1>2, <1>3, CalmQuiet
<1>5. Quiet'
  <2>1. PICK c \in Calls : stack' = <<c>> \o stack
    BY DEF Interrupt
  <2>2. c.pc \notin {"insert", "drop"}
    BY DEF Calls, Frame
  <2> QED BY <1>4, <2>1, <2>2, Pushes DEF Quiet
<1> QED BY <1>1, <1>4, <1>5, Unmoved

LEMMA ElsewhereKept ==
  ASSUME HInv, HInv', Lists, KInv, Load \/ Store \/ Begin
  PROVE  KInv'
<1>1. /\ UNCHANGED <<timer_head, next, expiry, ran, wild, raced>> /\ stack # <<>>
      /\ Top.pc \in {"load", "store", "begin"}
  BY DEF Load, Store, Begin, At, list, ghost
<1> SUFFICES ASSUME ~raced PROVE KInv'
  BY <1>1 DEF KInv
<1>2. Calm
  BY DEF KInv
<1>3. Quiet
  BY <1>1, <1>2, CalmQuiet
<1>4. PICK V : Top \in Call(V)
  BY <1>1, TopIs
<1>5. Quiet'
  <2>1. \/ stack' = Tail(stack)
        \/ \E c \in {[Top EXCEPT !.pc = "store", !.loaded = offset],
                     [Top EXCEPT !.pc = "load", !.sizes = Tail(@)],
                     [Top EXCEPT !.pc = "create", !.sizes = <<>>],
                     [Top EXCEPT !.pc = "take", !.now = clock]} :
             stack' = <<c>> \o Tail(stack)
    BY DEF Load, Store, Begin, Become, Return
  <2>2. ASSUME NEW c \in {[Top EXCEPT !.pc = "store", !.loaded = offset],
                          [Top EXCEPT !.pc = "load", !.sizes = Tail(@)],
                          [Top EXCEPT !.pc = "create", !.sizes = <<>>],
                          [Top EXCEPT !.pc = "take", !.now = clock]}
        PROVE  c.pc \notin {"insert", "drop"}
    BY <1>4 DEF Call
  <2>3. CASE stack' = Tail(stack)
    BY <1>1, <1>2, <2>3, PopsQuiet
  <2> QED BY <1>1, <1>2, <2>1, <2>2, <2>3, GoesOnQuiet
<1> QED BY <1>1, <1>3, <1>5, Unmoved

LEMMA StillKept ==
  ASSUME KInv, UNCHANGED <<stack, timer_head, next, expiry, ran, wild, raced>>
  PROVE  KInv'
<1> SUFFICES ASSUME ~raced PROVE KInv'
  BY DEF KInv
<1>1. Calm /\ RanOnce /\ Listed
  BY DEF KInv
<1>2. \A t : (Adding(t)' <=> Adding(t)) /\ (Leaving(t)' <=> Leaving(t))
  BY DEF Adding, Leaving, Top
<1>3. Calm'
  BY <1>1, <1>2 DEF Calm, Top
<1>4. RanOnce'
  BY <1>1 DEF RanOnce
<1>5. Listed'
  <2>1. PICK L : Order(L) /\ \A t : Waits(t) <=> Has(L, t)
    BY <1>1 DEF Listed
  <2>2. Order(L)'
    BY <2>1 DEF Order
  <2>3. \A t : Waits(t)' <=> Waits(t)
    BY <1>2 DEF Waits
  <2> QED BY <2>1, <2>2, <2>3 DEF Listed
<1> QED BY <1>3, <1>4, <1>5 DEF KInv

\* t goes behind the first k timers of the list.
Inserts(L, k, t) ==
  /\ k \in 0 .. Len(L) /\ t \in 1 .. Len(expiry) /\ ~Has(L, t) /\ expiry' = expiry
  /\ \A m \in 1 .. k : expiry[L[m]] <= expiry[t]
  /\ \A m \in k + 1 .. Len(L) : expiry[t] <= expiry[L[m]]
  /\ timer_head' = IF k = 0 THEN t ELSE timer_head
  /\ next'[t] = IF k < Len(L) THEN L[k + 1] ELSE 0
  /\ \A s \in 1 .. Len(expiry) \ {t} : next'[s] = IF k > 0 /\ s = L[k] THEN t ELSE next[s]

\* Those on the list are then the same and t.
OneMore(L, t) ==
  \E M : Order(M)' /\ \A s : Has(M, s) <=> Has(L, s) \/ s = t

LEMMA InsertOrder ==
  ASSUME Lists, NEW L, Order(L), NEW k, NEW t, Inserts(L, k, t)
  PROVE  OneMore(L, t)
<1> DEFINE l == Len(L)
           n == Len(expiry)
           M == [i \in 1 .. l + 1 |-> IF i <= k THEN L[i] ELSE IF i = k + 1 THEN t ELSE L[i - 1]]
<1>1. /\ L \in Seq(1 .. n) /\ l \in Nat /\ n \in Nat /\ k \in 0 .. l /\ t \in 1 .. n
      /\ \A m \in 1 .. l : L[m] \in 1 .. n /\ L[m] # t /\ expiry[L[m]] \in Nat
      /\ expiry[t] \in Nat /\ (l = 0 <=> L = <<>>)
  BY OrderTypes DEF Inserts, Has
<1>2. /\ M \in Seq(1 .. n) /\ Len(M) = l + 1 /\ M[k + 1] = t
      /\ \A m \in 1 .. k : M[m] = L[m] /\ m \in 1 .. l
      /\ \A m \in k + 2 .. l + 1 : M[m] = L[m - 1] /\ m - 1 \in k + 1 .. l /\ m - 1 \in 1 .. l
      /\ \A j \in 1 .. l + 1 : j \in 1 .. k \/ j = k + 1 \/ j \in k + 2 .. l + 1
  <2>1. \A j \in 1 .. l + 1 : M[j] \in 1 .. n
    <3> TAKE j \in 1 .. l + 1
    <3>1. CASE j <= k
      <4>1. j \in 1 .. l
        BY <1>1, <3>1
      <4> QED BY <1>1, <3>1, <4>1
    <3>2. CASE j = k + 1
      BY <1>1, <3>2
    <3>3. CASE j > k + 1
      <4>1. j - 1 \in 1 .. l
        BY <1>1, <3>3
      <4> QED BY <1>1, <3>3, <4>1
    <3> QED BY <1>1, <3>1, <3>2, <3>3
  <2>2. M \in Seq(1 .. n) /\ Len(M) = l + 1
    BY <1>1, <2>1
  <2> QED BY <1>1, <2>2
<1> HIDE DEF M
<1>3. /\ expiry' = expiry
      /\ \A m \in 1 .. k : expiry[L[m]] <= expiry[t]
      /\ \A m \in k + 1 .. l : expiry[t] <= expiry[L[m]]
      /\ timer_head' = IF k = 0 THEN t ELSE timer_head
      /\ next'[t] = IF k < l THEN L[k + 1] ELSE 0
      /\ \A s \in 1 .. n : s # t => next'[s] = IF k > 0 /\ s = L[k] THEN t ELSE next[s]
  BY DEF Inserts
<1>4. /\ timer_head = IF L = <<>> THEN 0 ELSE L[1]
      /\ \A j \in 1 .. l : next[L[j]] = IF j < l THEN L[j + 1] ELSE 0
      /\ \A i, j \in 1 .. l : i < j => L[i] # L[j] /\ expiry[L[i]] <= expiry[L[j]]
  BY DEF Order
<1> HIDE DEF l, n
<1>5. M # <<>> /\ timer_head' = M[1]
  <2>1. M # <<>> /\ 1 \in 1 .. l + 1
    BY <1>1, <1>2
  <2>2. CASE k = 0
    <3>1. k + 1 = 1 /\ M[k + 1] = t
      BY <1>2, <2>2
    <3>2. M[1] = t
      BY <3>1
    <3> QED BY <1>3, <2>1, <2>2, <3>2
  <2>3. CASE k > 0
    <3>1. 1 \in 1 .. k /\ L # <<>>
      BY <1>1, <2>3
    <3>2. M[1] = L[1] /\ timer_head = L[1]
      BY <1>2, <1>4, <3>1
    <3> QED BY <1>3, <2>1, <2>3, <3>2
  <2> QED BY <1>1, <2>2, <2>3
<1>6. ASSUME NEW j \in 1 .. l + 1
      PROVE  next'[M[j]] = IF j < l + 1 THEN M[j + 1] ELSE 0
  <2>1. CASE j = k + 1
    <3>1. next'[M[j]] = IF k < l THEN L[k + 1] ELSE 0
      BY <1>2, <1>3, <2>1
    <3>2. k < l => k + 2 \in k + 2 .. l + 1 /\ (k + 2) - 1 = k + 1 /\ j + 1 = k + 2
      BY <1>1, <2>1
    <3>3. k < l => M[j + 1] = L[k + 1]
      BY <3>2, <1>2
    <3> QED BY <3>1, <3>3, <1>1, <2>1
  <2>2. CASE j \in 1 .. k
    <3>1. /\ M[j] = L[j] /\ L[j] \in 1 .. n /\ L[j] # t /\ j \in 1 .. l
          /\ k > 0 /\ j < l + 1 /\ k \in 1 .. l
      BY <1>1, <1>2, <2>2
    <3>2. CASE j = k
      BY <1>2, <1>3, <3>1, <3>2
    <3>3. CASE j < k
      <4>1. j < l /\ j + 1 \in 1 .. k
        BY <1>1, <3>1, <3>3
      <4>2. L[j] # L[k] /\ next[L[j]] = L[j + 1]
        BY <1>4, <3>1, <3>3, <4>1
      <4>3. M[j + 1] = L[j + 1]
        BY <1>2, <4>1
      <4>4. next'[L[j]] = next[L[j]]
        BY <1>3, <3>1, <4>2
      <4> QED BY <3>1, <4>2, <4>3, <4>4
    <3> QED BY <1>1, <2>2, <3>2, <3>3
  <2>3. CASE j \in k + 2 .. l + 1
    <3>1. M[j] = L[j - 1] /\ j - 1 \in 1 .. l /\ k < j - 1
      <4>1. k < j - 1
        BY <1>1, <2>3
      <4> QED BY <1>2, <2>3, <4>1
    <3>2. next[L[j - 1]] = IF j - 1 < l THEN L[(j - 1) + 1] ELSE 0
      BY <1>4, <3>1
    <3>3. k > 0 => L[j - 1] # L[k]
      <4>1. k > 0 => k \in 1 .. l
        BY <1>1
      <4> QED BY <1>4, <3>1, <4>1
    <3>4. next'[M[j]] = next[L[j - 1]]
      BY <1>1, <1>3, <3>1, <3>3
    <3>5. j - 1 < l => j < l + 1 /\ j + 1 \in k + 2 .. l + 1 /\ (j + 1) - 1 = (j - 1) + 1
      BY <1>1, <2>3
    <3>6. j - 1 < l => M[j + 1] = L[(j - 1) + 1]
      BY <1>2, <3>5
    <3>7. ~(j - 1 < l) => ~(j < l + 1)
      BY <1>1, <2>3
    <3> QED BY <3>2, <3>4, <3>5, <3>6, <3>7
  <2> QED BY <1>2, <2>1, <2>2, <2>3
<1>7. ASSUME NEW i \in 1 .. l + 1, NEW j \in 1 .. l + 1, i < j
      PROVE  M[i] # M[j] /\ expiry[M[i]] <= expiry[M[j]]
  <2>1. CASE j \in 1 .. k
    <3>1. i \in 1 .. k
      BY <1>1, <1>7, <2>1
    <3> QED BY <1>2, <1>4, <1>7, <2>1, <3>1
  <2>2. CASE j = k + 1
    <3>1. i \in 1 .. k
      BY <1>1, <1>7, <2>2
    <3> QED BY <1>1, <1>2, <1>3, <2>2, <3>1
  <2>3. CASE j \in k + 2 .. l + 1
    <3>1. M[j] = L[j - 1] /\ j - 1 \in 1 .. l /\ j - 1 \in k + 1 .. l
      BY <1>2, <2>3
    <3>2. CASE i \in 1 .. k
      <4>1. i < j - 1
        BY <1>1, <2>3, <3>2
      <4> QED BY <1>2, <1>4, <3>1, <3>2, <4>1
    <3>3. CASE i = k + 1
      BY <1>1, <1>2, <1>3, <3>1, <3>3
    <3>4. CASE i \in k + 2 .. l + 1
      <4>1. i - 1 < j - 1
        BY <1>1, <1>7
      <4> QED BY <1>2, <1>4, <3>1, <3>4, <4>1
    <3> QED BY <1>2, <3>2, <3>3, <3>4
  <2> QED BY <1>2, <2>1, <2>2, <2>3
<1>8. Order(M)'
  BY <1>2, <1>3, <1>5, <1>6, <1>7 DEF Order, n
<1>9. ASSUME NEW s PROVE Has(M, s) <=> Has(L, s) \/ s = t
  <2>1. ASSUME NEW j \in 1 .. l + 1 PROVE M[j] = t \/ \E m \in 1 .. l : M[j] = L[m]
    BY <1>2
  <2>2. ASSUME NEW m \in 1 .. l PROVE \E j \in 1 .. l + 1 : M[j] = L[m]
    <3>1. CASE m <= k
      <4>1. m \in 1 .. k /\ m \in 1 .. l + 1
        BY <1>1, <3>1
      <4> QED BY <1>2, <4>1
    <3>2. CASE m > k
      <4>1. m + 1 \in k + 2 .. l + 1 /\ m + 1 \in 1 .. l + 1 /\ (m + 1) - 1 = m
        BY <1>1, <3>2
      <4> QED BY <1>2, <4>1
    <3> QED BY <1>1, <3>1, <3>2
  <2>3. k + 1 \in 1 .. l + 1
    BY <1>1
  <2> QED BY <1>2, <2>1, <2>2, <2>3 DEF Has, l
<1> QED BY <1>8, <1>9 DEF OneMore

\* The walk from the head stops behind the timers that expire before t.
LEMMA StopsThere ==
  ASSUME Lists, NEW L, Order(L), L # <<>>, NEW t \in 1 .. Len(expiry),
         expiry[L[1]] <= expiry[t]
  PROVE  \E p \in 1 .. Len(L) :
           /\ Behind(L[1], t) = L[p]
           /\ \A m \in 1 .. p : expiry[L[m]] <= expiry[t]
           /\ \A m \in p + 1 .. Len(L) : expiry[t] <= expiry[L[m]]
<1> DEFINE l == Len(L)
           n == Len(expiry)
<1>1. /\ l \in Nat /\ n \in Nat /\ l # 0 /\ l <= MaxTimers /\ MaxTimers \in Nat
      /\ \A m \in 1 .. l : L[m] \in 1 .. n /\ L[m] # 0 /\ expiry[L[m]] \in Nat
      /\ expiry[t] \in Nat /\ 1 \in 1 .. l
  BY OrderTypes, OrderLength, Bounds
<1>2. /\ \A j \in 1 .. l : next[L[j]] = IF j < l THEN L[j + 1] ELSE 0
      /\ \A i, j \in 1 .. l : i < j => expiry[L[i]] <= expiry[L[j]]
  BY DEF Order
<1>3. expiry[L[1]] <= expiry[t]
  OBVIOUS
<1> HIDE DEF l, n
<1> DEFINE P == {p \in 1 .. l : p = l \/ expiry[t] <= expiry[L[p + 1]]}
<1>4. PICK p \in P : \A q \in P : p <= q
  <2>1. P \in SUBSET Nat /\ l \in P
    BY <1>1
  <2> HIDE DEF P
  <2> QED BY <2>1, LeastNat
<1>5. p \in 1 .. l /\ (p = l \/ expiry[t] <= expiry[L[p + 1]])
  BY <1>4
<1>6. ASSUME NEW m \in 1 .. l, m < p PROVE m + 1 \in 1 .. l /\ expiry[L[m + 1]] < expiry[t]
  <2>1. m + 1 \in 1 .. l /\ ~(p <= m) /\ m # l
    BY <1>1, <1>5, <1>6
  <2>2. ~(expiry[t] <= expiry[L[m + 1]])
    BY <1>4, <2>1
  <2>3. expiry[L[m + 1]] \in Nat
    BY <1>1, <2>1
  <2> QED BY <1>1, <2>1, <2>2, <2>3
<1> HIDE DEF P
<1>7. \A m \in 1 .. p : expiry[L[m]] <= expiry[t]
  <2> TAKE m \in 1 .. p
  <2>1. CASE m = 1
    BY <1>3, <2>1
  <2>2. CASE m # 1
    <3>1. m - 1 \in 1 .. l /\ m - 1 < p /\ (m - 1) + 1 = m /\ m \in 1 .. l
      BY <1>1, <1>5, <2>2
    <3>2. expiry[L[m]] < expiry[t] /\ expiry[L[m]] \in Nat
      BY <1>1, <1>6, <3>1
    <3> QED BY <1>1, <3>2
  <2> QED BY <2>1, <2>2
<1>8. \A m \in p + 1 .. l : expiry[t] <= expiry[L[m]]
  <2> TAKE m \in p + 1 .. l
  <2>1. p # l /\ p + 1 \in 1 .. l /\ m \in 1 .. l /\ p \in Nat /\ m \in Nat
    BY <1>1, <1>5
  <2>2. expiry[t] <= expiry[L[p + 1]] /\ expiry[L[p + 1]] \in Nat /\ expiry[L[m]] \in Nat
    BY <1>1, <1>5, <2>1
  <2>3. CASE m = p + 1
    BY <2>2, <2>3
  <2>4. CASE m # p + 1
    <3>1. expiry[L[p + 1]] <= expiry[L[m]]
      BY <1>2, <2>1, <2>4
    <3> QED BY <1>1, <2>2, <3>1
  <2> QED BY <2>3, <2>4
<1>9. PICK g \in [0 .. MaxTimers -> 1 .. n] :
        /\ g[0] = L[1] /\ \A k \in 1 .. MaxTimers : g[k] = Turn(g[k - 1], t)
        /\ Behind(L[1], t) = g[MaxTimers]
  <2>1. L[1] \in 1 .. Len(expiry)
    BY <1>1 DEF n
  <2> QED BY <2>1, BehindWalk DEF n
<1> DEFINE Q(k) == IF k + 1 < p THEN k + 1 ELSE p
           Bad == {k \in 0 .. MaxTimers : g[k] # L[Q(k)]}
<1>10. Bad = {}
  <2> SUFFICES ASSUME Bad # {} PROVE FALSE
    OBVIOUS
  <2>1. PICK k \in Bad : \A j \in Bad : k <= j
    <3>1. Bad \in SUBSET Nat
      BY <1>1
    <3> HIDE DEF Bad
    <3> QED BY <3>1, LeastNat
  <2>2. k \in 0 .. MaxTimers /\ g[k] # L[Q(k)]
    OBVIOUS
  <2>3. k # 0
    <3> SUFFICES ASSUME k = 0 PROVE FALSE
      OBVIOUS
    <3>1. Q(k) = 1
      BY <1>1, <1>5
    <3> QED BY <1>9, <2>2, <3>1
  <2>4. k \in 1 .. MaxTimers /\ k - 1 \in 0 .. MaxTimers /\ ~(k <= k - 1)
    BY <1>1, <2>2, <2>3
  <2>5. g[k - 1] = L[Q(k - 1)]
    BY <2>1, <2>4
  <2>6. g[k] = Turn(L[Q(k - 1)], t)
    BY <1>9, <2>4, <2>5
  <2>7. CASE k < p
    <3>1. Q(k - 1) = k /\ Q(k) = k + 1 /\ k \in 1 .. l
      BY <1>1, <1>5, <2>4, <2>7
    <3>2. k + 1 \in 1 .. l /\ expiry[L[k + 1]] < expiry[t]
      BY <1>6, <2>7, <3>1
    <3>3. next[L[k]] = L[k + 1] /\ L[k + 1] # 0
      <4>1. k < l
        BY <1>1, <3>1, <3>2
      <4> QED BY <1>1, <1>2, <3>1, <3>2, <4>1
    <3>4. Turn(L[k], t) = L[k + 1]
      BY <3>2, <3>3 DEF Turn
    <3> QED BY <2>2, <2>6, <3>1, <3>4
  <2>8. CASE ~(k < p)
    <3>1. Q(k - 1) = p /\ Q(k) = p
      BY <1>1, <1>5, <2>4, <2>8
    <3>2. next[L[p]] = 0 \/ ~(expiry[next[L[p]]] < expiry[t])
      <4>1. CASE p = l
        <5>1. ~(p < l)
          BY <1>1, <4>1
        <5> QED BY <1>2, <1>5, <5>1
      <4>2. CASE p # l
        <5>1. p < l /\ p + 1 \in 1 .. l
          BY <1>1, <1>5, <4>2
        <5>2. next[L[p]] = L[p + 1] /\ expiry[t] <= expiry[L[p + 1]]
          BY <1>2, <1>5, <4>2, <5>1
        <5>3. expiry[L[p + 1]] \in Nat /\ expiry[t] \in Nat
          BY <1>1, <5>1
        <5>4. ~(expiry[L[p + 1]] < expiry[t])
          BY <5>2, <5>3
        <5> QED BY <5>2, <5>4
      <4> QED BY <4>1, <4>2
    <3>3. Turn(L[p], t) = L[p]
      BY <3>2 DEF Turn
    <3> QED BY <2>2, <2>6, <3>1, <3>3
  <2> QED BY <2>7, <2>8
<1>11. Behind(L[1], t) = L[p]
  <2>1. MaxTimers \in 0 .. MaxTimers /\ Q(MaxTimers) = p
    BY <1>1, <1>5
  <2>2. MaxTimers \notin Bad
    BY <1>10
  <2>3. g[MaxTimers] = L[Q(MaxTimers)]
    BY <2>1, <2>2
  <2> QED BY <1>9, <2>1, <2>3
<1> QED BY <1>5, <1>7, <1>8, <1>11 DEF l

\* When no call is at the list it is Calm; what else KInv says is about the list.
LEMMA QuietCalm ==
  ASSUME HInv', Quiet', ~wild'
  PROVE  Calm' /\ \A s : ~Adding(s)' /\ ~Leaving(s)'
<1>1. stack' # <<>> => Head(stack').pc \notin {"insert", "drop"}
  <2>1. PICK V : stack' \in Seq(Call(V))
    BY DEF HInv, Calling
  <2>2. stack' # <<>> => Head(stack') = stack'[1] /\ 1 \in DOMAIN stack'
    BY <2>1
  <2> QED BY <2>2 DEF Quiet
<1>2. \A s : ~Adding(s)' /\ ~Leaving(s)'
  BY <1>1 DEF Adding, Leaving, Top
<1> QED BY <1>2 DEF Calm, Quiet

LEMMA InsertKept == ASSUME HInv, HInv', Lists, KInv, Insert PROVE KInv'
<1> DEFINE t == Top.timer
           n == Len(expiry)
<1>1. /\ UNCHANGED <<expiry, ran, raced>> /\ stack # <<>> /\ stack' = Tail(stack)
      /\ Top.pc = "insert" /\ ~wild
  BY DEF Insert, At, ghost, Return
<1> SUFFICES ASSUME ~raced PROVE KInv'
  BY <1>1 DEF KInv
<1>2. Calm /\ RanOnce /\ Listed
  BY DEF KInv
<1>3. t \in 1 .. n /\ Top.current = timer_head /\ ~Has(ran, t)
  <2>1. Adding(t)
    BY <1>1 DEF Adding
  <2> QED BY <1>1, <1>2, <2>1, TopIs DEF Calm, Local
<1>4. \A s : Waits(s) <=> s \in 1 .. n /\ s # t /\ ~Has(ran, s)
  BY <1>1 DEF Waits, Adding, Leaving
<1>5. PICK L : Order(L) /\ \A s : Waits(s) <=> Has(L, s)
  BY <1>2 DEF Listed
<1>6. ~Has(L, t)
  BY <1>4, <1>5
<1>7. /\ L \in Seq(1 .. n) /\ Len(L) \in Nat /\ n \in Nat
      /\ \A m \in 1 .. Len(L) :
           L[m] \in 1 .. n /\ L[m] \in Timers /\ L[m] # 0 /\ L[m] # t /\ expiry[L[m]] \in Nat
      /\ expiry[t] \in Nat /\ t \in Timers /\ (Len(L) = 0 <=> L = <<>>)
      /\ \A s \in 1 .. n : s \in Timers
  BY <1>3, <1>5, <1>6, OrderTypes DEF Has
<1>8. /\ timer_head = IF L = <<>> THEN 0 ELSE L[1]
      /\ \A j \in 1 .. Len(L) : next[L[j]] = IF j < Len(L) THEN L[j + 1] ELSE 0
      /\ \A i, j \in 1 .. Len(L) : i < j => expiry[L[i]] <= expiry[L[j]]
  BY <1>5 DEF Order
<1>9. next \in [Timers -> 0 .. n]
  BY DEF Lists
<1>10. L # <<>> => timer_head = L[1] /\ timer_head # 0 /\ 1 \in 1 .. Len(L) /\ expiry[timer_head] \in Nat
  BY <1>7, <1>8
<1>11. \/ /\ timer_head = 0 \/ expiry[t] < expiry[timer_head]
          /\ next' = [next EXCEPT ![t] = timer_head] /\ timer_head' = t /\ wild' = wild
       \/ /\ timer_head # 0 /\ expiry[t] >= expiry[timer_head]
          /\ next' = [next EXCEPT ![t] = next[Behind(timer_head, t)], ![Behind(timer_head, t)] = t]
          /\ timer_head' = timer_head /\ wild' = wild
  <2>1. \/ timer_head = 0 \/ expiry[t] < expiry[timer_head]
        \/ timer_head # 0 /\ expiry[t] >= expiry[timer_head]
    BY <1>7, <1>8, <1>10
  <2>2. CASE timer_head = 0 \/ expiry[t] < expiry[timer_head]
    <3>1. ~(timer_head # 0 /\ expiry[t] >= expiry[timer_head])
      BY <1>7, <1>8, <1>10, <2>2
    <3> QED BY <2>2, <3>1 DEF Insert
  <2>3. CASE timer_head # 0 /\ expiry[t] >= expiry[timer_head]
    <3>1. ~(timer_head = 0 \/ expiry[t] < expiry[timer_head])
      BY <1>7, <1>8, <1>10, <2>3
    <3> QED BY <1>3, <2>3, <3>1 DEF Insert
  <2> QED BY <2>1, <2>2, <2>3
<1> HIDE DEF t, n
<1>12. wild' = wild /\ \E k : Inserts(L, k, t)
  <2>1. CASE /\ timer_head = 0 \/ expiry[t] < expiry[timer_head]
             /\ next' = [next EXCEPT ![t] = timer_head] /\ timer_head' = t /\ wild' = wild
    <3>1. \A m \in 1 .. Len(L) : expiry[t] <= expiry[L[m]]
      <4> TAKE m \in 1 .. Len(L)
      <4>1. L # <<>> /\ m \in Nat /\ 1 \in 1 .. Len(L)
        BY <1>7
      <4>2. expiry[t] < expiry[L[1]] /\ expiry[L[1]] \in Nat
        BY <1>10, <2>1, <4>1
      <4>3. expiry[L[1]] <= expiry[L[m]]
        <5>1. CASE m = 1
          BY <4>2, <5>1
        <5>2. CASE m # 1
          <6>1. 1 < m
            BY <4>1, <5>2
          <6> QED BY <1>8, <4>1, <6>1
        <5> QED BY <5>1, <5>2
      <4>4. expiry[L[m]] \in Nat /\ expiry[t] \in Nat
        BY <1>7
      <4> QED BY <4>2, <4>3, <4>4
    <3>2. next'[t] = IF 0 < Len(L) THEN L[0 + 1] ELSE 0
      <4>1. next'[t] = timer_head
        BY <1>7, <1>9, <2>1
      <4> QED BY <1>7, <1>8, <4>1
    <3>3. \A s \in 1 .. n \ {t} : next'[s] = next[s]
      BY <1>7, <1>9, <2>1
    <3>4. \A m \in 1 .. 0 : FALSE
      OBVIOUS
    <3>5. 0 \in 0 .. Len(L) /\ ~(0 > 0)
      BY <1>7
    <3>6. Inserts(L, 0, t)
      BY <1>1, <1>3, <1>6, <2>1, <3>1, <3>2, <3>3, <3>4, <3>5 DEF Inserts, n
    <3> QED BY <2>1, <3>6
  <2>2. CASE /\ timer_head # 0 /\ expiry[t] >= expiry[timer_head]
             /\ next' = [next EXCEPT ![t] = next[Behind(timer_head, t)], ![Behind(timer_head, t)] = t]
             /\ timer_head' = timer_head /\ wild' = wild
    <3>1. L # <<>> /\ timer_head = L[1]
      BY <1>8, <2>2
    <3>2. expiry[L[1]] <= expiry[t] /\ t \in 1 .. Len(expiry)
      BY <1>3, <1>7, <1>10, <2>2, <3>1 DEF n
    <3>3. PICK p \in 1 .. Len(L) :
            /\ Behind(L[1], t) = L[p]
            /\ \A m \in 1 .. p : expiry[L[m]] <= expiry[t]
            /\ \A m \in p + 1 .. Len(L) : expiry[t] <= expiry[L[m]]
      BY <1>5, <3>1, <3>2, StopsThere
    <3>4. next' = [next EXCEPT ![t] = next[L[p]], ![L[p]] = t]
      BY <2>2, <3>1, <3>3
    <3>5. L[p] \in Timers /\ L[p] # t /\ p \in 0 .. Len(L) /\ p > 0
      BY <1>7
    <3>6. next'[t] = next[L[p]]
      BY <1>7, <1>9, <3>4, <3>5
    <3>7. next'[t] = IF p < Len(L) THEN L[p + 1] ELSE 0
      BY <1>8, <3>6
    <3>8. \A s \in 1 .. n \ {t} : next'[s] = IF p > 0 /\ s = L[p] THEN t ELSE next[s]
      BY <1>7, <1>9, <3>4, <3>5
    <3>9. timer_head' = IF p = 0 THEN t ELSE timer_head
      BY <2>2, <3>5
    <3>10. Inserts(L, p, t)
      BY <1>1, <1>3, <1>6, <3>3, <3>5, <3>7, <3>8, <3>9 DEF Inserts, n
    <3> QED BY <2>2, <3>10
  <2> QED BY <1>11, <2>1, <2>2
<1>13. Quiet' /\ ~wild'
  BY <1>1, <1>2, <1>12, PopsQuiet
<1>14. Calm' /\ \A s : ~Adding(s)' /\ ~Leaving(s)'
  BY <1>13, QuietCalm
<1>15. RanOnce'
  BY <1>1, <1>2 DEF RanOnce
<1>16. Listed'
  <2>1. PICK M : Order(M)' /\ \A s : Has(M, s) <=> Has(L, s) \/ s = t
    BY <1>5, <1>12, InsertOrder DEF OneMore
  <2>2. \A s : Waits(s)' <=> s \in 1 .. n /\ ~Has(ran, s)
    BY <1>1, <1>14 DEF Waits, n
  <2>3. \A s : Waits(s)' <=> Has(M, s)
    BY <1>3, <1>4, <1>5, <2>1, <2>2
  <2> QED BY <2>1, <2>3 DEF Listed
<1> QED BY <1>14, <1>15, <1>16 DEF KInv

LEMMA Members ==
  ASSUME NEW S, NEW s \in Seq(S)
  PROVE  Len(s) \in Nat /\ \A k \in 1 .. Len(s) : s[k] \in S
OBVIOUS

LEMMA Widened ==
  ASSUME NEW S, NEW T, S \subseteq T, NEW s \in Seq(S)
  PROVE  s \in Seq(T)
OBVIOUS

LEMMA CreateKept == ASSUME HInv, HInv', Lists, Lists', KInv, Create PROVE KInv'
<1> DEFINE c == [Top EXCEPT !.pc = "insert", !.timer = Len(expiry) + 1, !.current = timer_head]
           n == Len(expiry)
<1>1. /\ UNCHANGED <<timer_head, next, ran, raced, wild>> /\ stack # <<>>
      /\ stack' = <<c>> \o Tail(stack) /\ Top.pc = "create"
  BY DEF Create, At, ghost, Become
<1> SUFFICES ASSUME ~raced PROVE KInv'
  BY <1>1 DEF KInv
<1>2. Calm /\ RanOnce /\ Listed
  BY DEF KInv
<1>3. PICK after \in Afters : expiry' = Append(expiry, clock + after)
  BY DEF Create
<1>4. expiry \in Seq(Nat) /\ n \in Nat /\ clock + after \in Nat
  BY PreemptAssumption DEF Lists
<1>5. Len(expiry') = n + 1 /\ \A s \in 1 .. n : expiry'[s] = expiry[s]
  BY <1>3, <1>4
<1>6. PICK V : Top \in Call(V)
  BY <1>1, TopIs
<1>7. c.pc = "insert" /\ c.timer = n + 1 /\ c.current = timer_head
  BY <1>6 DEF Call
<1> HIDE DEF c, n
<1>8. /\ stack' # <<>> /\ Top' = c
      /\ \A i \in DOMAIN stack' : i # 1 => i \in DOMAIN stack /\ stack'[i] = stack[i]
  BY <1>1, GoesOn DEF Top
<1>9. \A s : (Adding(s)' <=> s = n + 1) /\ ~Leaving(s)'
  BY <1>7, <1>8 DEF Adding, Leaving
<1>10. ran \in Seq(1 .. n) /\ ~Has(ran, n + 1) /\ ran \in Seq(1 .. n + 1)
  <2>1. ran \in Seq(1 .. n)
    BY <1>2 DEF RanOnce, n
  <2>2. \A k \in 1 .. Len(ran) : ran[k] \in 1 .. n
    BY <2>1, Members
  <2>3. n + 1 \notin 1 .. n /\ 1 .. n \subseteq 1 .. n + 1
    BY <1>4
  <2>4. ran \in Seq(1 .. n + 1)
    BY <2>1, <2>3, Widened
  <2>5. ~Has(ran, n + 1)
    BY <2>2, <2>3 DEF Has
  <2> QED BY <2>1, <2>4, <2>5
<1>11. Calm'
  <2>1. ~wild'
    BY <1>1, <1>2 DEF Calm
  <2>2. \A i \in DOMAIN stack' : i # 1 => stack'[i].pc \notin {"insert", "drop"}
    BY <1>2, <1>8 DEF Calm
  <2>3. \A s : Adding(s)' => Top'.current = timer_head' /\ ~Has(ran', s)
    BY <1>1, <1>7, <1>8, <1>9, <1>10
  <2> QED BY <1>9, <2>1, <2>2, <2>3 DEF Calm
<1>12. RanOnce'
  BY <1>1, <1>2, <1>5, <1>10 DEF RanOnce
<1>13. PICK L : Order(L) /\ \A s : Waits(s) <=> Has(L, s)
  BY <1>2 DEF Listed
<1>14. /\ L \in Seq(1 .. n) /\ Len(L) \in Nat /\ \A m \in 1 .. Len(L) : L[m] \in 1 .. n
       /\ L \in Seq(1 .. n + 1)
  <2>1. L \in Seq(1 .. n) /\ 1 .. n \subseteq 1 .. n + 1
    BY <1>4, <1>13 DEF Order, n
  <2> QED BY <2>1, Members, Widened
<1>15. Order(L)'
  <2>1. /\ timer_head' = IF L = <<>> THEN 0 ELSE L[1]
        /\ \A k \in 1 .. Len(L) : next'[L[k]] = IF k < Len(L) THEN L[k + 1] ELSE 0
    BY <1>1, <1>13 DEF Order
  <2>2. \A i, j \in 1 .. Len(L) : i < j => L[i] # L[j] /\ expiry'[L[i]] <= expiry'[L[j]]
    BY <1>5, <1>13, <1>14 DEF Order
  <2> QED BY <1>5, <1>14, <2>1, <2>2 DEF Order
<1>16. \A s : Waits(s)' <=> s \in 1 .. n /\ ~Has(ran, s)
  <2>1. \A s : s \in 1 .. n + 1 /\ s # n + 1 <=> s \in 1 .. n
    BY <1>4
  <2> QED BY <1>1, <1>5, <1>9, <2>1 DEF Waits
<1>17. \A s : Waits(s) <=> s \in 1 .. n /\ ~Has(ran, s)
  BY <1>1 DEF Waits, Adding, Leaving, n
<1>18. Listed'
  BY <1>13, <1>15, <1>16, <1>17 DEF Listed
<1> QED BY <1>11, <1>12, <1>18 DEF KInv

LEMMA TakeKept == ASSUME HInv, HInv', Lists, KInv, Take PROVE KInv'
<1> DEFINE c == [Top EXCEPT !.pc = "drop", !.current = timer_head]
           n == Len(expiry)
<1>1. /\ UNCHANGED <<timer_head, next, expiry, raced, wild>> /\ stack # <<>> /\ Top.pc = "take"
      /\ \/ /\ timer_head # 0 /\ ran' = Append(ran, timer_head)
            /\ stack' = <<c>> \o Tail(stack)
         \/ ran' = ran /\ stack' = Tail(stack)
  BY DEF Take, At, list, ghost, Become, Return
<1> SUFFICES ASSUME ~raced PROVE KInv'
  BY <1>1 DEF KInv
<1>2. Calm /\ RanOnce /\ Listed
  BY DEF KInv
<1>3. PICK V : Top \in Call(V)
  BY <1>1, TopIs
<1>4. c.pc = "drop" /\ c.current = timer_head
  BY <1>3 DEF Call
<1> HIDE DEF c
<1>5. CASE ran' = ran /\ stack' = Tail(stack)
  <2>1. Quiet /\ Quiet'
    BY <1>1, <1>2, <1>5, CalmQuiet, PopsQuiet
  <2> QED BY <1>1, <1>5, <2>1, Unmoved
<1>6. CASE /\ timer_head # 0 /\ ran' = Append(ran, timer_head)
           /\ stack' = <<c>> \o Tail(stack)
  <2>1. PICK L : Order(L) /\ \A s : Waits(s) <=> Has(L, s)
    BY <1>2 DEF Listed
  <2>2. \A s : Waits(s) <=> s \in 1 .. n /\ ~Has(ran, s)
    BY <1>1 DEF Waits, Adding, Leaving
  <2>3. timer_head \in 1 .. n /\ ~Has(ran, timer_head)
    <3>1. L # <<>> /\ L[1] = timer_head /\ 1 \in 1 .. Len(L)
      <4>1. L # <<>> /\ L[1] = timer_head
        BY <1>6, <2>1 DEF Order
      <4> QED BY <2>1, <4>1, OrderTypes
    <3>2. Has(L, timer_head)
      BY <3>1 DEF Has
    <3> QED BY <2>1, <2>2, <3>2
  <2>4. ran \in Seq(1 .. n) /\ \A i, j \in 1 .. Len(ran) : i < j => ran[i] # ran[j]
    BY <1>2 DEF RanOnce
  <2> HIDE DEF n
  <2>5. /\ ran' \in Seq(1 .. n) /\ Len(ran') = Len(ran) + 1 /\ Len(ran) \in Nat
        /\ ran'[Len(ran) + 1] = timer_head /\ \A k \in 1 .. Len(ran) : ran'[k] = ran[k]
    BY <1>6, <2>3, <2>4
  <2>6. \A s : Has(ran', s) <=> Has(ran, s) \/ s = timer_head
    <3>1. \A k \in 1 .. Len(ran) + 1 : k \in 1 .. Len(ran) \/ k = Len(ran) + 1
      BY <2>5
    <3>2. \A k \in 1 .. Len(ran) : k \in 1 .. Len(ran) + 1
      BY <2>5
    <3>3. Len(ran) + 1 \in 1 .. Len(ran) + 1
      BY <2>5
    <3> QED BY <2>5, <3>1, <3>2, <3>3 DEF Has
  <2>7. RanOnce'
    <3>1. ASSUME NEW i \in 1 .. Len(ran'), NEW j \in 1 .. Len(ran'), i < j
          PROVE  ran'[i] # ran'[j]
      <4>1. i \in 1 .. Len(ran) /\ ran'[i] = ran[i]
        BY <2>5, <3>1
      <4>2. CASE j \in 1 .. Len(ran)
        BY <2>4, <2>5, <3>1, <4>1, <4>2
      <4>3. CASE j = Len(ran) + 1
        BY <2>3, <2>5, <4>1, <4>3 DEF Has
      <4> QED BY <2>5, <4>2, <4>3
    <3> QED BY <1>1, <2>5, <3>1 DEF RanOnce, n
  <2>8. /\ stack' # <<>> /\ Top' = c
        /\ \A i \in DOMAIN stack' : i # 1 => i \in DOMAIN stack /\ stack'[i] = stack[i]
    BY <1>1, <1>6, GoesOn DEF Top
  <2>9. \A s : ~Adding(s)' /\ (Leaving(s)' <=> s = timer_head)
    BY <1>4, <2>8 DEF Adding, Leaving
  <2>10. Calm'
    <3>1. ~wild'
      BY <1>1, <1>2 DEF Calm
    <3>2. \A i \in DOMAIN stack' : i # 1 => stack'[i].pc \notin {"insert", "drop"}
      BY <1>2, <2>8 DEF Calm
    <3>3. \A s : Leaving(s)' => s = timer_head' /\ Has(ran', s)
      BY <1>1, <2>6, <2>9
    <3> QED BY <2>9, <3>1, <3>2, <3>3 DEF Calm
  <2>11. Order(L)'
    BY <1>1, <2>1 DEF Order
  <2>12. \A s : Waits(s)' <=> s \in 1 .. n /\ ~Has(ran, s)
    BY <1>1, <2>3, <2>6, <2>9 DEF Waits, n
  <2>13. Listed'
    BY <2>1, <2>2, <2>11, <2>12 DEF Listed
  <2> QED BY <2>7, <2>10, <2>13 DEF KInv
<1> QED BY <1>1, <1>5, <1>6

LEMMA Behead ==
  ASSUME NEW S, NEW s \in Seq(S), s # <<>>
  PROVE  /\ Tail(s) \in Seq(S) /\ Len(Tail(s)) = Len(s) - 1 /\ Len(s) \in Nat /\ Len(s) > 0
         /\ \A i \in 1 .. Len(s) - 1 : Tail(s)[i] = s[i + 1]
         /\ Tail(s) = <<>> <=> Len(s) = 1
<1>1. /\ Tail(s) \in Seq(S) /\ Len(Tail(s)) = Len(s) - 1 /\ Len(s) \in Nat
      /\ \A i \in 1 .. Len(s) - 1 : Tail(s)[i] = s[i + 1]
  OBVIOUS
<1>2. Len(s) # 0
  OBVIOUS
<1>3. Tail(s) = <<>> <=> Len(Tail(s)) = 0
  BY <1>1
<1> QED BY <1>1, <1>2, <1>3

LEMMA DropKept == ASSUME HInv, HInv', Lists, KInv, Drop PROVE KInv'
<1> DEFINE c == [Top EXCEPT !.pc = "take", !.first = FALSE]
           n == Len(expiry)
<1>1. /\ UNCHANGED <<next, expiry, ran, raced, wild>> /\ stack # <<>> /\ Top.pc = "drop"
      /\ stack' = <<c>> \o Tail(stack) /\ timer_head' = next[Top.current]
  BY DEF Drop, At, ghost, Become
<1> SUFFICES ASSUME ~raced PROVE KInv'
  BY <1>1 DEF KInv
<1>2. Calm /\ RanOnce /\ Listed
  BY DEF KInv
<1>3. PICK V : Top \in Call(V)
  BY <1>1, TopIs
<1>4. c.pc = "take"
  BY <1>3 DEF Call
<1>5. Quiet' /\ ~wild'
  <2>1. c.pc \notin {"insert", "drop"}
    BY <1>4
  <2> HIDE DEF c
  <2> QED BY <1>1, <1>2, <2>1, GoesOnQuiet DEF Calm
<1> HIDE DEF c
<1>6. Calm' /\ \A s : ~Adding(s)' /\ ~Leaving(s)'
  BY <1>5, QuietCalm
<1>7. RanOnce'
  BY <1>1, <1>2 DEF RanOnce
<1>8. Top.current = timer_head /\ Has(ran, timer_head) /\ timer_head # 0
  <2>1. Leaving(Top.current)
    BY <1>1 DEF Leaving
  <2>2. Top.current \in 1 .. n /\ n \in Nat
    BY <1>1, TopIs DEF Local, Lists
  <2> QED BY <1>2, <2>1, <2>2 DEF Calm
<1>9. PICK L : Order(L) /\ \A s : Waits(s) <=> Has(L, s)
  BY <1>2 DEF Listed
<1>10. /\ L \in Seq(1 .. n) /\ L # <<>> /\ timer_head = L[1] /\ n \in Nat
       /\ \A k \in 1 .. Len(L) : L[k] # 0
  BY <1>8, <1>9, OrderTypes DEF Order
<1> DEFINE M == Tail(L)
           l == Len(L)
<1>11. /\ M \in Seq(1 .. n) /\ Len(M) = l - 1 /\ l \in Nat /\ l > 0
       /\ \A i \in 1 .. l - 1 : M[i] = L[i + 1]
       /\ M = <<>> <=> l = 1
  BY <1>10, Behead
<1>12. /\ \A k \in 1 .. l : next[L[k]] = IF k < l THEN L[k + 1] ELSE 0
       /\ \A i, j \in 1 .. l : i < j => L[i] # L[j] /\ expiry[L[i]] <= expiry[L[j]]
  BY <1>9 DEF Order
<1> HIDE DEF M, l, n
<1>13. timer_head' = IF M = <<>> THEN 0 ELSE M[1]
  <2>1. timer_head' = IF 1 < l THEN L[1 + 1] ELSE 0
    BY <1>1, <1>8, <1>10, <1>11, <1>12
  <2>2. CASE l = 1
    BY <1>11, <2>1, <2>2
  <2>3. CASE l # 1
    <3>1. 1 < l /\ 1 \in 1 .. l - 1
      BY <1>11, <2>3
    <3>2. M[1] = L[1 + 1]
      BY <1>11, <3>1
    <3> QED BY <1>11, <2>1, <2>3, <3>1, <3>2
  <2> QED BY <2>2, <2>3
<1>14. ASSUME NEW k \in 1 .. l - 1 PROVE next[M[k]] = IF k < l - 1 THEN M[k + 1] ELSE 0
  <2>1. k + 1 \in 1 .. l /\ M[k] = L[k + 1]
    BY <1>11
  <2>2. next[M[k]] = IF k + 1 < l THEN L[(k + 1) + 1] ELSE 0
    BY <1>12, <2>1
  <2>3. CASE k < l - 1
    <3>1. k + 1 \in 1 .. l - 1 /\ k + 1 < l
      BY <1>11, <2>3
    <3>2. M[k + 1] = L[(k + 1) + 1]
      BY <1>11, <3>1
    <3> QED BY <2>2, <2>3, <3>1, <3>2
  <2>4. CASE ~(k < l - 1)
    <3>1. ~(k + 1 < l)
      BY <1>11, <2>4
    <3> QED BY <2>2, <2>4, <3>1
  <2> QED BY <2>3, <2>4
<1>15. ASSUME NEW i \in 1 .. l - 1, NEW j \in 1 .. l - 1, i < j
       PROVE  M[i] # M[j] /\ expiry[M[i]] <= expiry[M[j]]
  <2>1. i + 1 \in 1 .. l /\ j + 1 \in 1 .. l /\ i + 1 < j + 1
    BY <1>11, <1>15
  <2>2. M[i] = L[i + 1] /\ M[j] = L[j + 1]
    BY <1>11
  <2> QED BY <1>12, <2>1, <2>2
<1>16. Order(M)'
  BY <1>1, <1>11, <1>13, <1>14, <1>15 DEF Order, n
<1>17. \A s : Has(M, s) <=> Has(L, s) /\ s # L[1]
  <2>1. ASSUME NEW k \in 1 .. l - 1 PROVE k + 1 \in 1 .. l /\ M[k] = L[k + 1] /\ M[k] # L[1]
    <3>1. k + 1 \in 1 .. l /\ 1 \in 1 .. l /\ 1 < k + 1 /\ M[k] = L[k + 1]
      BY <1>11
    <3> QED BY <1>12, <3>1
  <2>2. ASSUME NEW k \in 1 .. l, k # 1 PROVE k - 1 \in 1 .. l - 1 /\ M[k - 1] = L[k]
    <3>1. k - 1 \in 1 .. l - 1 /\ (k - 1) + 1 = k
      BY <1>11, <2>2
    <3> QED BY <1>11, <3>1
  <2> QED BY <1>11, <2>1, <2>2 DEF Has, l
<1>18. \A s : Waits(s) <=> s \in 1 .. n /\ (Has(ran, s) => s = timer_head)
  BY <1>1, <1>8 DEF Waits, Adding, Leaving, n
<1>19. \A s : Waits(s)' <=> s \in 1 .. n /\ ~Has(ran, s)
  BY <1>1, <1>6 DEF Waits, n
<1>20. \A s : Waits(s)' <=> Has(M, s)
  BY <1>8, <1>9, <1>10, <1>17, <1>18, <1>19
<1>21. Listed'
  BY <1>16, <1>20 DEF Listed
<1> QED BY <1>6, <1>7, <1>21 DEF KInv

LEMMA KInit == Init => KInv
<1> SUFFICES ASSUME Init PROVE KInv
  OBVIOUS
<1>1. Len(<<>>) = 0 /\ DOMAIN <<>> = {} /\ <<>> \in Seq(1 .. 0) /\ 1 .. 0 = {}
  OBVIOUS
<1>2. Len(expiry) = 0 /\ Len(ran) = 0 /\ DOMAIN stack = {} /\ ran \in Seq(1 .. Len(expiry))
      /\ stack = <<>> /\ ~wild /\ timer_head = 0
  BY <1>1 DEF Init
<1>3. Calm
  BY <1>2 DEF Calm, Adding, Leaving
<1>4. RanOnce
  BY <1>1, <1>2 DEF RanOnce
<1>5. Order(<<>>)
  BY <1>1, <1>2 DEF Order
<1>6. \A s : Waits(s) <=> Has(<<>>, s)
  BY <1>1, <1>2 DEF Waits, Has
<1> QED BY <1>3, <1>4, <1>5, <1>6 DEF KInv, Listed

LEMMA KKept == HInv /\ HInv' /\ Lists /\ Lists' /\ KInv /\ [Next]_vars => KInv'
<1> SUFFICES ASSUME HInv, HInv', Lists, Lists', KInv, [Next]_vars PROVE KInv'
  OBVIOUS
<1>1. CASE Tick \/ UNCHANGED vars
  <2>1. UNCHANGED <<stack, timer_head, next, expiry, ran, wild, raced>>
    BY <1>1 DEF Tick, vars, list, ghost
  <2> QED BY <2>1, StillKept
<1> QED BY <1>1, InterruptKept, ElsewhereKept, CreateKept, InsertKept, TakeKept, DropKept DEF Next

----------------------------------------------------------------------------
(* The list as the properties read it *)

\* What one turn of From's walk makes of the timers that it has passed.
Passes(s, t) ==
  LET n == IF s = <<>> THEN t ELSE next[Last(s)]
  IN IF n = 0 THEN s ELSE Append(s, n)

LEMMA PassesOn ==
  ASSUME Lists, NEW L, Order(L), NEW m \in 0 .. Len(L)
  PROVE  Passes([i \in 1 .. m |-> L[i]], timer_head)
           = IF m < Len(L) THEN [i \in 1 .. m + 1 |-> L[i]] ELSE [i \in 1 .. m |-> L[i]]
<1> DEFINE s == [i \in 1 .. m |-> L[i]]
           n == IF s = <<>> THEN timer_head ELSE next[Last(s)]
           S == 1 .. Len(expiry)
           l == Len(L)
<1>1. /\ l \in Nat /\ m \in 0 .. l /\ (l = 0 <=> L = <<>>)
      /\ \A k \in 1 .. l : L[k] \in S /\ L[k] # 0
  BY OrderTypes
<1>2. timer_head = (IF L = <<>> THEN 0 ELSE L[1])
      /\ \A k \in 1 .. l : next[L[k]] = IF k < l THEN L[k + 1] ELSE 0
  BY DEF Order
<1>3. s \in Seq(S) /\ Len(s) = m /\ \A k \in 1 .. m : s[k] = L[k]
  <2>1. \A k \in 1 .. m : k \in 1 .. l
    BY <1>1
  <2> QED BY <1>1, <2>1
<1> HIDE DEF S, l
<1>4. n = IF m < l THEN L[m + 1] ELSE 0
  <2> HIDE DEF s
  <2>1. CASE m = 0
    <3>1. s = <<>>
      BY <1>3, <2>1
    <3>2. L # <<>> <=> m < l
      BY <1>1, <2>1
    <3> QED BY <1>2, <2>1, <3>1, <3>2
  <2>2. CASE m # 0
    <3>1. s # <<>> /\ m \in 1 .. l /\ m \in 1 .. m
      BY <1>1, <1>3, <2>2
    <3>2. Last(s) = L[m]
      BY <1>3, <3>1 DEF Last
    <3> QED BY <1>2, <3>1, <3>2
  <2> QED BY <2>1, <2>2
<1>5. Passes(s, timer_head) = IF n = 0 THEN s ELSE Append(s, n)
  BY DEF Passes
<1> HIDE DEF n
<1>6. CASE m < l
  <2>1. m + 1 \in 1 .. l /\ m \in Nat
    BY <1>1, <1>6
  <2>2. n = L[m + 1] /\ n # 0 /\ n \in S
    BY <1>1, <1>4, <1>6, <2>1
  <2>3. Append(s, n) = [i \in 1 .. m + 1 |-> L[i]]
    <3> DEFINE r == [i \in 1 .. m + 1 |-> L[i]]
               a == Append(s, n)
    <3>1. a \in Seq(S) /\ Len(a) = m + 1 /\ (\A k \in 1 .. m : a[k] = s[k]) /\ a[m + 1] = n
      BY <1>3, <2>2
    <3>2. r \in Seq(S) /\ Len(r) = m + 1 /\ \A k \in 1 .. m + 1 : r[k] = L[k]
      <4>1. \A k \in 1 .. m + 1 : k \in 1 .. l
        BY <1>1, <2>1
      <4> QED BY <1>1, <2>1, <4>1
    <3> HIDE DEF a, r, s
    <3>3. \A k \in 1 .. m + 1 : a[k] = r[k]
      <4> TAKE k \in 1 .. m + 1
      <4>1. CASE k = m + 1
        BY <2>2, <3>1, <3>2, <4>1
      <4>2. CASE k # m + 1
        <5>1. k \in 1 .. m
          BY <2>1, <4>2
        <5> QED BY <1>3, <3>1, <3>2, <5>1
      <4> QED BY <4>1, <4>2
    <3>4. a = r
      BY <3>1, <3>2, <3>3
    <3> QED BY <3>4 DEF a, r
  <2> QED BY <1>5, <1>6, <2>2, <2>3 DEF l
<1>7. CASE ~(m < l)
  BY <1>4, <1>5, <1>7 DEF l
<1> QED BY <1>6, <1>7

\* From follows the list to its end.
LEMMA FromIs ==
  ASSUME Lists, NEW L, Order(L)
  PROVE  From(timer_head) = L
<1> DEFINE l == Len(L)
           Q(k) == IF k < l THEN k ELSE l
           w == [k \in 0 .. MaxTimers |-> [i \in 1 .. Q(k) |-> L[i]]]
           F(g) == [k \in 0 .. MaxTimers |->
                      IF k = 0 THEN <<>>
                      ELSE LET s == g[k - 1]
                               n == IF s = <<>> THEN timer_head ELSE next[Last(s)]
                           IN IF n = 0 THEN s ELSE Append(s, n)]
           W == CHOOSE g : g = F(g)
<1>1. l \in Nat /\ l <= MaxTimers /\ MaxTimers \in Nat /\ L \in Seq(1 .. Len(expiry))
  BY OrderTypes, OrderLength, Bounds
<1>2. \A g : \A k \in 0 .. MaxTimers :
        F(g)[k] = IF k = 0 THEN <<>> ELSE Passes(g[k - 1], timer_head)
  BY DEF Passes
<1>3. w[0] = <<>> /\ \A k \in 1 .. MaxTimers : w[k] = Passes(w[k - 1], timer_head)
  <2>1. w[0] = <<>>
    <3>1. 0 \in 0 .. MaxTimers /\ Q(0) = 0
      BY <1>1
    <3>2. w[0] = [i \in 1 .. 0 |-> L[i]]
      BY <3>1
    <3>3. [i \in 1 .. 0 |-> L[i]] = <<>>
      OBVIOUS
    <3> QED BY <3>2, <3>3
  <2>2. ASSUME NEW k \in 1 .. MaxTimers PROVE w[k] = Passes(w[k - 1], timer_head)
    <3>1. /\ k \in 0 .. MaxTimers /\ k - 1 \in 0 .. MaxTimers /\ Q(k - 1) \in 0 .. l
          /\ Q(k) = IF Q(k - 1) < l THEN Q(k - 1) + 1 ELSE Q(k - 1)
      BY <1>1
    <3>2. w[k] = [i \in 1 .. Q(k) |-> L[i]] /\ w[k - 1] = [i \in 1 .. Q(k - 1) |-> L[i]]
      BY <3>1
    <3> HIDE DEF Q, w
    <3>3. Passes([i \in 1 .. Q(k - 1) |-> L[i]], timer_head)
            = IF Q(k - 1) < Len(L) THEN [i \in 1 .. Q(k - 1) + 1 |-> L[i]]
              ELSE [i \in 1 .. Q(k - 1) |-> L[i]]
      BY <3>1, PassesOn
    <3>4. CASE Q(k - 1) < l
      BY <3>1, <3>2, <3>3, <3>4
    <3>5. CASE ~(Q(k - 1) < l)
      BY <3>1, <3>2, <3>3, <3>5
    <3> QED BY <3>4, <3>5
  <2> QED BY <2>1, <2>2
<1>4. w = F(w)
  <2>1. \A k \in 0 .. MaxTimers : w[k] = F(w)[k]
    <3> HIDE DEF w, F
    <3> TAKE k \in 0 .. MaxTimers
    <3>1. CASE k = 0
      BY <1>2, <1>3, <3>1
    <3>2. CASE k # 0
      <4>1. k \in 1 .. MaxTimers
        BY <1>1, <3>2
      <4> QED BY <1>2, <1>3, <3>2, <4>1
    <3> QED BY <3>1, <3>2
  <2> QED BY <2>1
<1>5. W = F(W)
  <2> HIDE DEF F, w
  <2> QED BY <1>4
<1>6. From(timer_head) = W[MaxTimers]
  BY DEF From
<1> HIDE DEF W, F
<1>7. w[MaxTimers] = L
  <2>1. MaxTimers \in 0 .. MaxTimers /\ Q(MaxTimers) = l
    BY <1>1
  <2>2. w[MaxTimers] = [i \in 1 .. l |-> L[i]]
    BY <2>1
  <2>3. L = [i \in 1 .. l |-> L[i]]
    BY <1>1
  <2> QED BY <2>2, <2>3
<1> HIDE DEF w
<1>8. \A k \in 0 .. MaxTimers : W[k] = IF k = 0 THEN <<>> ELSE Passes(W[k - 1], timer_head)
  BY <1>2, <1>5
<1> DEFINE Bad == {k \in 0 .. MaxTimers : W[k] # w[k]}
<1>9. Bad = {}
  <2> SUFFICES ASSUME Bad # {} PROVE FALSE
    OBVIOUS
  <2>1. PICK k \in Bad : \A j \in Bad : k <= j
    <3>1. Bad \in SUBSET Nat
      BY <1>1
    <3> HIDE DEF Bad
    <3> QED BY <3>1, LeastNat
  <2>2. k \in 0 .. MaxTimers /\ W[k] # w[k]
    OBVIOUS
  <2>3. k # 0
    BY <1>3, <1>8, <2>2
  <2>4. k \in 1 .. MaxTimers /\ k - 1 \in 0 .. MaxTimers /\ ~(k <= k - 1)
    BY <1>1, <2>2, <2>3
  <2>5. W[k - 1] = w[k - 1]
    BY <2>1, <2>4
  <2> QED BY <1>3, <1>8, <2>2, <2>3, <2>4, <2>5
<1>10. MaxTimers \in 0 .. MaxTimers
  BY <1>1
<1> QED BY <1>6, <1>7, <1>9, <1>10

\* However many timers and calls, and however deep they nest: every timer waits on
\* the list, in order of expiry, or has run, once, unless an interrupt came
\* between add_timer's read of timer_head and its DAIFSet or into a later turn of
\* the timer task.
THEOREM NoTimerLost == Spec => []TimersKept
<1>1. HInv /\ Lists /\ KInv => TimersKept
  <2> SUFFICES ASSUME HInv, Lists, KInv, ~raced
               PROVE  /\ ToSet(From(timer_head))
                           = (((1 .. Len(expiry)) \ Pending) \ ToSet(ran)) \cup Running
                      /\ \A i, j \in DOMAIN From(timer_head) :
                           i < j => expiry[From(timer_head)[i]] <= expiry[From(timer_head)[j]]
                      /\ \A i, j \in DOMAIN ran : i # j => ran[i] # ran[j]
                      /\ ~wild
    BY DEF TimersKept
  <2>1. Calm /\ RanOnce /\ Listed
    BY DEF KInv
  <2>2. PICK L : Order(L) /\ \A t : Waits(t) <=> Has(L, t)
    BY <2>1 DEF Listed
  <2>3. From(timer_head) = L
    BY <2>2, FromIs
  <2>4. L \in Seq(1 .. Len(expiry)) /\ ran \in Seq(1 .. Len(expiry))
    BY <2>1, <2>2 DEF Order, RanOnce
  <2>5. /\ DOMAIN L = 1 .. Len(L) /\ DOMAIN ran = 1 .. Len(ran)
        /\ Len(ran) \in Nat /\ Len(L) \in Nat
    BY <2>4
  <2>6. \A t : t \in Pending <=> Adding(t)
    <3>1. ASSUME NEW t, t \in Pending PROVE Adding(t)
      <4>1. PICK i \in DOMAIN stack : stack[i].pc = "insert" /\ stack[i].timer = t
        BY <3>1 DEF Pending
      <4>2. i = 1
        BY <2>1, <4>1 DEF Calm
      <4>3. stack # <<>>
        BY <4>1
      <4> QED BY <4>1, <4>2, <4>3, TopIs DEF Adding
    <3>2. ASSUME NEW t, Adding(t) PROVE t \in Pending
      BY <3>2, TopIs DEF Adding, Pending
    <3> QED BY <3>1, <3>2
  <2>7. \A t : t \in Running <=> Leaving(t)
    <3>1. ASSUME NEW t, t \in Running PROVE Leaving(t)
      <4>1. PICK i \in DOMAIN stack : stack[i].pc = "drop" /\ stack[i].current = t
        BY <3>1 DEF Running
      <4>2. i = 1
        BY <2>1, <4>1 DEF Calm
      <4>3. stack # <<>>
        BY <4>1
      <4> QED BY <4>1, <4>2, <4>3, TopIs DEF Leaving
    <3>2. ASSUME NEW t, Leaving(t) PROVE t \in Running
      BY <3>2, TopIs DEF Leaving, Running
    <3> QED BY <3>1, <3>2
  <2>8. \A t : (t \in ToSet(L) <=> Has(L, t)) /\ (t \in ToSet(ran) <=> Has(ran, t))
    BY <2>5 DEF ToSet, Has
  <2>9. \A t : Leaving(t) => t \in 1 .. Len(expiry) /\ ~Adding(t)
    BY TopIs DEF Leaving, Adding, Local
  <2>10. ToSet(L) = (((1 .. Len(expiry)) \ Pending) \ ToSet(ran)) \cup Running
    BY <2>2, <2>6, <2>7, <2>8, <2>9 DEF Waits
  <2>11. \A i, j \in DOMAIN L : i < j => expiry[L[i]] <= expiry[L[j]]
    BY <2>2, <2>5 DEF Order
  <2>12. ASSUME NEW i \in DOMAIN ran, NEW j \in DOMAIN ran, i # j PROVE ran[i] # ran[j]
    <3>1. i < j \/ j < i
      BY <2>5, <2>12
    <3> QED BY <2>1, <2>5, <3>1 DEF RanOnce
  <2> QED BY <2>1, <2>3, <2>10, <2>11, <2>12 DEF Calm
<1>2. Spec => [](HInv /\ Lists)
  BY Inductive, ListsInit, ListsKept, PTL DEF Spec
<1> QED BY <1>1, <1>2, KInit, KKept, PTL DEF Spec

=============================================================================
