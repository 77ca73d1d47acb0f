------------------------------ MODULE Preempt ------------------------------
(***************************************************************************)
(* What an interrupt finds half done.  In Irq an allocation and the start  *)
(* of an insertion are single steps; here simple_malloc is its load and    *)
(* its store, add_timer's first read is apart from the section that masks  *)
(* interrupts, and a turn of timer_irq_handler is two steps.               *)
(*                                                                         *)
(* There is one processor: a call that is interrupted goes on when all     *)
(* that came after it has returned, so the calls are a stack.  Who calls   *)
(* is left open: a handler's create_task, a task's, a command's setTimeout *)
(* or the timer task may come at any moment that interrupts are on.        *)
(***************************************************************************)
EXTENDS Integers, SequencesExt

CONSTANTS
  BufferSize,  \* SIMPLE_MALLOC_BUFFER_SIZE
  TaskSize, MessageSize, TimerSize,
  Afters,      \* delays asked for
  MaxTime,     \* bound: the clock
  MaxTimers,   \* bound: timers made
  MaxDepth     \* bound: calls on top of each other

ASSUME PreemptAssumption ==
  /\ BufferSize \in Nat /\ {TaskSize, MessageSize, TimerSize} \subseteq Nat \ {0}
  /\ Afters \subseteq Nat /\ {MaxTime, MaxTimers, MaxDepth} \subseteq Nat

VARIABLES
  offset,      \* simple_malloc_offset
  used,        \* ghost: the bytes that simple_malloc has handed out
  shared,      \* ghost: some of them twice
  timer_head,  \* 0 is NULL
  next,        \* next[t], for timers that have been inserted
  expiry,      \* expiry[t]
  clock,       \* cntpct_el0
  stack,       \* the calls, the running one first
  ran,         \* ghost: the timers whose callback has run, in order
  hit,         \* ghost: an interrupt came between a load and its store
  raced,       \* ghost: one came between a read of timer_head and its use
  wild         \* add_timer has walked from NULL

vars == <<offset, used, shared, timer_head, next, expiry, clock, stack, ran, hit, raced, wild>>

Timers == 1 .. MaxTimers

\* sizes: what is still to be allocated; loaded: the offset read; timer, current,
\* now: the locals; first: a handler's first create_task, or the first turn.
Frame(op, pc, sizes, first) ==
  [op |-> op, pc |-> pc, sizes |-> sizes, loaded |-> 0, timer |-> 0, current |-> 0,
   now |-> 0, first |-> first]

Init ==
  /\ offset = 0 /\ used = {} /\ shared = FALSE
  /\ timer_head = 0 /\ next = [t \in Timers |-> 0] /\ expiry = <<>>
  /\ clock = 0 /\ stack = <<>> /\ ran = <<>>
  /\ hit = FALSE /\ raced = FALSE /\ wild = FALSE

Top       == Head(stack)
At(pc)    == stack # <<>> /\ Top.pc = pc /\ ~wild
Become(f) == stack' = <<f>> \o Tail(stack)
Return    == stack' = Tail(stack)

heap  == <<offset, used, shared>>
list  == <<timer_head, next, expiry>>
ghost == <<hit, raced>>

----------------------------------------------------------------------------
(* Calls and interrupts *)

\* Mutant: interrupts are never off.
NeverMasked(f) == FALSE

\* In a handler until enqueue_task unmasks, in the timer task from DAIFSet to
\* the DAIFClr that ends the first turn.
Masked(f) == f.first /\ f.pc # "begin"

\* create_task, setTimeout and timer_irq_handler.
Calls ==
  {Frame("task", "load", <<TaskSize>>, first) : first \in BOOLEAN}
    \cup {Frame("expire", "begin", <<>>, TRUE)}
    \cup {Frame("timeout", "load", <<MessageSize, TimerSize>>, FALSE)}

Interrupt ==
  /\ ~wild /\ Len(stack) < MaxDepth
  /\ stack # <<>> => ~Masked(Top)
  /\ \E f \in Calls : stack' = <<f>> \o stack
  /\ hit'   = (hit \/ (stack # <<>> /\ Top.pc = "store" /\ ~Top.first))
  /\ raced' = (raced \/ (stack # <<>> /\ Top.pc \in {"insert", "drop"} /\ ~Top.first))
  /\ UNCHANGED <<heap, list, clock, ran, wild>>

Tick ==
  /\ clock < MaxTime /\ clock' = clock + 1
  /\ UNCHANGED <<heap, list, stack, ran, ghost, wild>>

----------------------------------------------------------------------------
(* simple_malloc *)

\* Mutant: the size is not counted.
NotPast(o, size) == o <= BufferSize

Room(o, size) == o + size <= BufferSize

\* The load, and the comparison with the size of the buffer; what got NULL
\* returns at once.
Load ==
  /\ At("load")
  /\ IF Room(offset, Head(Top.sizes))
     THEN Become([Top EXCEPT !.pc = "store", !.loaded = offset])
     ELSE Return
  /\ UNCHANGED <<heap, list, clock, ran, ghost, wild>>

\* The store: of what was loaded and the size.
Store ==
  /\ At("store")
  /\ offset' = Top.loaded + Head(Top.sizes)
  /\ LET block == Top.loaded .. offset' - 1
     IN used' = used \cup block /\ shared' = (shared \/ used \cap block # {})
  /\ IF Len(Top.sizes) > 1
     THEN Become([Top EXCEPT !.pc = "load", !.sizes = Tail(@)])
     ELSE IF Top.op = "timeout" THEN Become([Top EXCEPT !.pc = "create", !.sizes = <<>>])
                                ELSE Return
  /\ UNCHANGED <<list, clock, ran, ghost, wild>>

----------------------------------------------------------------------------
(* create_timer and add_timer *)

\* create_timer, and add_timer's read of timer_head.
Create ==
  /\ At("create") /\ Len(expiry) < MaxTimers
  /\ \E after \in Afters : expiry' = Append(expiry, clock + after)
  /\ Become([Top EXCEPT !.pc = "insert", !.timer = Len(expiry) + 1, !.current = timer_head])
  /\ UNCHANGED <<heap, timer_head, next, clock, ran, ghost, wild>>

\* Where the walk that starts at c stops.
Behind(c, t) ==
  LET walk[k \in 0 .. MaxTimers] ==
        IF k = 0 THEN c
        ELSE LET d == next[walk[k - 1]]
             IN IF d # 0 /\ expiry[d] < expiry[t] THEN d ELSE walk[k - 1]
  IN walk[MaxTimers]

\* The section with interrupts off.
Insert ==
  /\ At("insert")
  /\ LET t == Top.timer
         c == Top.current
     IN CASE timer_head = 0 \/ expiry[t] < expiry[timer_head] ->
               /\ next' = [next EXCEPT ![t] = timer_head]
               /\ timer_head' = t /\ UNCHANGED wild
          [] timer_head # 0 /\ expiry[t] >= expiry[timer_head] /\ c # 0 ->
               /\ next' = [next EXCEPT ![t] = next[Behind(c, t)], ![Behind(c, t)] = t]
               /\ UNCHANGED <<timer_head, wild>>
          [] OTHER -> wild' = TRUE /\ UNCHANGED <<timer_head, next>>
  /\ Return
  /\ UNCHANGED <<heap, expiry, clock, ran, ghost>>

----------------------------------------------------------------------------
(* timer_irq_handler *)

Begin ==
  /\ At("begin")
  /\ Become([Top EXCEPT !.pc = "take", !.now = clock])
  /\ UNCHANGED <<heap, list, clock, ran, ghost, wild>>

\* The callback of the first timer, if it is due.
Take ==
  /\ At("take")
  /\ IF timer_head # 0 /\ expiry[timer_head] <= Top.now
     THEN /\ ran' = Append(ran, timer_head)
          /\ Become([Top EXCEPT !.pc = "drop", !.current = timer_head])
     ELSE Return /\ UNCHANGED ran
  /\ UNCHANGED <<heap, list, clock, ghost, wild>>

\* timer_head = timer->next, and interrupts on.
Drop ==
  /\ At("drop")
  /\ timer_head' = next[Top.current]
  /\ Become([Top EXCEPT !.pc = "take", !.first = FALSE])
  /\ UNCHANGED <<heap, next, expiry, clock, ran, ghost, wild>>

----------------------------------------------------------------------------
Next == Interrupt \/ Tick \/ Load \/ Store \/ Create \/ Insert \/ Begin \/ Take \/ Drop

Spec == Init /\ [][Next]_vars

----------------------------------------------------------------------------
(* Properties *)

\* Whatever interrupts what, the offset and every block stay in the buffer.
TypeOK ==
  /\ offset \in 0 .. BufferSize
  /\ used \subseteq 0 .. BufferSize - 1
  /\ timer_head \in 0 .. Len(expiry) /\ \A t \in Timers : next[t] \in 0 .. Len(expiry)
  /\ Len(stack) <= MaxDepth

\* Two blocks of the startup allocator share no byte, unless an interrupt once
\* came between the load and the store of an allocation made with interrupts on.
BlocksApart == shared => hit

\* The timers from t on.
From(t) ==
  LET walk[k \in 0 .. MaxTimers] ==
        IF k = 0 THEN <<>>
        ELSE LET s == walk[k - 1]
                 n == IF s = <<>> THEN t ELSE next[Last(s)]
             IN IF n = 0 THEN s ELSE Append(s, n)
  IN walk[MaxTimers]

\* Not yet inserted, and run but not yet taken off.
Pending == {stack[i].timer : i \in {j \in DOMAIN stack : stack[j].pc = "insert"}}
Running == {stack[i].current : i \in {j \in DOMAIN stack : stack[j].pc = "drop"}}

\* Every timer waits on the list, in order of expiry, or has run, once, unless an
\* interrupt came between add_timer's read of timer_head and its DAIFSet, or
\* into a later turn of the timer task.
TimersKept ==
  ~raced =>
    /\ ToSet(From(timer_head)) = (((1 .. Len(expiry)) \ Pending) \ ToSet(ran)) \cup Running
    /\ \A i, j \in DOMAIN From(timer_head) :
         i < j => expiry[From(timer_head)[i]] <= expiry[From(timer_head)[j]]
    /\ \A i, j \in DOMAIN ran : i # j => ran[i] # ran[j]
    /\ ~wild
=============================================================================
