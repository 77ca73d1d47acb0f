---------------------------- MODULE ConsoleProofs ----------------------------
(***************************************************************************)
(* What holds of Irq because an interrupt is taken inside another one only *)
(* where the handler enables them, and what holds when it never is.        *)
(*                                                                         *)
(* Good says what the task list, the ring, the hardware timer and the      *)
(* running step have to do with each other.  It is kept as long as no      *)
(* interrupt is taken inside another one (Clean); once one is, the outer   *)
(* frame never gets back to main's loop (Nested), since what ELR_EL1       *)
(* described is lost.  So AlwaysRearmed, which speaks of main's loop, and  *)
(* EchoesInOrder and AlwaysInOrder, which speak of the time before that    *)
(* (elr = 0), hold however deep interrupts nest.                           *)
(***************************************************************************)
EXTENDS IrqConsole, IrqProofs, WellFoundedInduction

----------------------------------------------------------------------------
(* The frame that runs, and the tasks on the list *)

\* The step that runs, and the one behind it.
Now == IF stack = <<>> THEN "idle" ELSE Head(Top).op

Then == IF stack # <<>> /\ Len(Top) > 1 THEN Top[2].op ELSE "idle"

\* create_task is about to put p on the list.
Creating(p) == Now = "create" /\ Arg = p

On(list, p) == \E i \in 1 .. Len(list) : list[i] = p

Strict(list) == \A i, j \in 1 .. Len(list) : i < j => list[i] < list[j]

\* No task is on the list twice, and only the steps that can have it there do.
Waiting ==
  /\ Strict(tasks)
  /\ On(tasks, RX) => Now \in {"clear", "tasks", "pop", "rx"} \/ Creating(TX)
  /\ On(tasks, TX) => Now \in {"mask", "tasks", "pop", "tx", "send", "set", "reset"}
  /\ On(tasks, TIMER) => Now \notin {"idle", "eret", "timeroff"} /\ ~Creating(TIMER)
  /\ Now = "rx" \/ Creating(TX) => On(tasks, RX)
  /\ Now \in {"tx", "send", "set", "reset"} => On(tasks, TX)
  /\ Now \in {"timer", "ctl", "timers", "drop"} => On(tasks, TIMER)
  /\ Now = "tasks" => ~(On(tasks, RX) /\ On(tasks, TX))

\* The receive interrupt was taken and its RX task has not run yet.
RxPending ==
  \/ Now = "rxoff" \/ Then = "rxoff" \/ Creating(RX)
  \/ On(tasks, RX) /\ Now \in {"clear", "tasks", "rx"}

\* A character is in the ring and its TX task has not run yet.
TxPending ==
  \/ Creating(TX)
  \/ On(tasks, TX) /\ Now \in {"mask", "tasks", "tx"}
  \/ On(tasks, TX) /\ Now = "pop" /\ On(tasks, RX)

\* The timer interrupt was taken and its TIMER task has not read the time yet.
TimerPending ==
  \/ Now \in {"timeroff", "ctl"} \/ Creating(TIMER)
  \/ /\ On(tasks, TIMER) /\ Now \notin {"timers", "drop"}
     /\ Now = "pop" => On(tasks, RX) \/ On(tasks, TX)

\* One character at most is between the two FIFOs, and the transmit interrupt is
\* on only while it is being sent.
Ring ==
  /\ rxOn => out = <<>>
  /\ On(tasks, RX) \/ Creating(RX) => ~rxOn
  /\ txOn => Now = "send" /\ out # <<>>
  /\ RxPending => fifo # <<>> /\ out = <<>>
  /\ TxPending => Len(out) = 1
  /\ Now \in {"set", "reset"} => out = <<>>
  /\ out # <<>> => out[1] # Junk
  /\ Len(out) > 1 => Len(out) = 2 /\ out[1] = "cr" /\ out[2] = "lf"

Programmed == ctl /\ cval = Expiry(thead)

\* The hardware is set to the head of the timer list, or a TIMER task is on its
\* way to the list with a head that has expired.
Hardware ==
  /\ ctl => thead # NULL
  /\ thead # NULL /\ Now \notin {"timers", "drop"} => Programmed
  /\ thead # NULL /\ Now = "timers" => Expiry(thead) <= Arg \/ Programmed
  /\ TimerPending => thead # NULL /\ Expiry(thead) <= now
  /\ thead # NULL => tirq \/ TimerPending \/ heap < TaskWords
  /\ Now \in {"ctl", "timers", "drop"} => tirq

Good == (stack = <<>> => ~masked) /\ Waiting /\ Ring /\ Hardware

\* No interrupt was taken inside another one, or one was and its frame will not
\* get back to main's loop.
Clean  == Len(stack) <= 1 /\ elr = 0
Nested == Len(stack) >= 1 /\ elr >= 1

CInv == (Clean \/ Nested) /\ (halt = "run" /\ Clean => Good)

----------------------------------------------------------------------------
(* The list *)

\* What is on the list after task_head moves on or a task is inserted.
LEMMA NoTask == \A p : ~On(<<>>, p)
BY DEF On

LEMMA HeadTask ==
  ASSUME NEW list \in Seq(Jobs), list # <<>>, Strict(list)
  PROVE  /\ Head(list) \in Jobs /\ On(list, Head(list))
         /\ \A p \in Jobs : On(list, p) => Head(list) <= p
<1>1. Len(list) \in Nat /\ Len(list) > 0 /\ Head(list) = list[1] /\ 1 \in 1 .. Len(list)
  OBVIOUS
<1>2. ASSUME NEW i \in 1 .. Len(list) PROVE list[1] <= list[i]
  <2>1. i = 1 \/ 1 < i
    BY <1>1
  <2>2. list[i] \in Jobs /\ list[1] \in Jobs
    BY <1>1
  <2> QED BY <1>1, <2>1, <2>2 DEF Strict, Jobs, RX, TX, TIMER
<1>3. list[1] \in Jobs
  BY <1>1
<1> QED BY <1>1, <1>2, <1>3 DEF On

LEMMA OnEmpty ==
  ASSUME NEW list \in Seq(Jobs), \A p \in Jobs : ~On(list, p)
  PROVE  list = <<>>
<1> SUFFICES ASSUME list # <<>> PROVE FALSE
  OBVIOUS
<1>1. 1 \in 1 .. Len(list) /\ list[1] \in Jobs
  OBVIOUS
<1> QED BY <1>1 DEF On

LEMMA PopTask ==
  ASSUME NEW list \in Seq(Jobs), list # <<>>, Strict(list)
  PROVE  /\ Strict(Tail(list))
         /\ \A p \in Jobs : On(Tail(list), p) <=> On(list, p) /\ p # Head(list)
<1> DEFINE t == Tail(list)
<1>1. /\ Len(list) \in Nat /\ Len(list) > 0 /\ Head(list) = list[1]
      /\ Len(t) = Len(list) - 1 /\ \A i \in 1 .. Len(t) : t[i] = list[i + 1]
  OBVIOUS
<1> HIDE DEF t
<1>2. \A i \in 1 .. Len(list) : list[i] \in Int
  BY DEF Jobs, RX, TX, TIMER
<1>3. Strict(t)
  <2>1. ASSUME NEW i \in 1 .. Len(t), NEW j \in 1 .. Len(t), i < j
        PROVE  t[i] < t[j]
    <3>1. i + 1 \in 1 .. Len(list) /\ j + 1 \in 1 .. Len(list) /\ i + 1 < j + 1
      BY <1>1, <2>1
    <3>2. list[i + 1] < list[j + 1]
      BY <3>1 DEF Strict
    <3> QED BY <3>2, <1>1
  <2> QED BY <2>1 DEF Strict
<1>4. ASSUME NEW p \in Jobs, On(t, p)
      PROVE  On(list, p) /\ p # Head(list)
  <2>1. PICK i \in 1 .. Len(t) : t[i] = p
    BY <1>4 DEF On
  <2>2. i + 1 \in 1 .. Len(list) /\ 1 \in 1 .. Len(list) /\ 1 < i + 1 /\ list[i + 1] = p
    BY <1>1, <2>1
  <2>3. list[1] < list[i + 1]
    BY <2>2 DEF Strict
  <2> QED BY <1>1, <1>2, <2>2, <2>3 DEF On
<1>5. ASSUME NEW p \in Jobs, On(list, p), p # Head(list)
      PROVE  On(t, p)
  <2>1. PICK i \in 1 .. Len(list) : list[i] = p
    BY <1>5 DEF On
  <2>2. i # 1 /\ i - 1 \in 1 .. Len(t) /\ (i - 1) + 1 = i
    BY <1>1, <1>5, <2>1
  <2>3. t[i - 1] = p
    BY <1>1, <2>1, <2>2
  <2> QED BY <2>2, <2>3 DEF On
<1> QED BY <1>3, <1>4, <1>5 DEF t

LEMMA AddTask ==
  ASSUME NEW list \in Seq(Jobs), NEW p \in Jobs, NEW n \in 0 .. Len(list),
         Strict(list), ~On(list, p), Behind(list, n, p)
  PROVE  /\ Strict(InsertAt(list, n + 1, p))
         /\ \A q \in Jobs : On(InsertAt(list, n + 1, p), q) <=> On(list, q) \/ q = p
<1> DEFINE t == InsertAt(list, n + 1, p)
           k == Len(list)
<1>1. /\ k \in Nat /\ n \in 0 .. k /\ Len(t) = k + 1
      /\ \A i \in 1 .. n : t[i] = list[i]
      /\ t[n + 1] = p
      /\ \A i \in n + 2 .. k + 1 : t[i] = list[i - 1]
  BY Inserted
<1> HIDE DEF t
<1>2. p \in Int /\ \A i \in 1 .. k : list[i] \in Int /\ list[i] # p
  BY DEF Jobs, RX, TX, TIMER, On
<1>3. /\ \A i \in 1 .. n : list[i] < p
      /\ \A i \in n + 1 .. k : p < list[i]
  <2>1. \A i \in 1 .. n : list[i] < p
    BY <1>1, <1>2 DEF Behind
  <2>2. ASSUME NEW i \in n + 1 .. k PROVE p < list[i]
    <3>1. n + 1 \in 1 .. k /\ i \in 1 .. k /\ n < k
      BY <1>1, <2>2
    <3>2. p < list[n + 1]
      BY <3>1 DEF Behind
    <3>3. i = n + 1 \/ list[n + 1] < list[i]
      BY <1>1, <3>1, <2>2 DEF Strict
    <3> QED BY <3>1, <3>2, <3>3, <1>2
  <2> QED BY <2>1, <2>2
<1>4. Strict(t)
  <2>1. ASSUME NEW i \in 1 .. Len(t), NEW j \in 1 .. Len(t), i < j
        PROVE  t[i] < t[j]
    <3>1. CASE j <= n
      <4>1. i \in 1 .. n /\ j \in 1 .. n /\ i \in 1 .. k /\ j \in 1 .. k
        BY <3>1, <2>1, <1>1
      <4> QED BY <4>1, <2>1, <1>1 DEF Strict
    <3>2. CASE j = n + 1
      <4>1. i \in 1 .. n
        BY <3>2, <2>1, <1>1
      <4> QED BY <4>1, <3>2, <1>1, <1>3
    <3>3. CASE j > n + 1
      <4>1. j \in n + 2 .. k + 1 /\ j - 1 \in n + 1 .. k /\ j - 1 \in 1 .. k /\ t[j] = list[j - 1]
        BY <3>3, <2>1, <1>1
      <4>2. CASE i <= n
        <5>1. i \in 1 .. n /\ t[i] = list[i] /\ i \in 1 .. k /\ i < j - 1
          BY <4>2, <3>3, <2>1, <1>1
        <5>2. list[i] < list[j - 1]
          BY <5>1, <4>1 DEF Strict
        <5> QED BY <5>1, <5>2, <4>1
      <4>3. CASE i = n + 1
        BY <4>3, <4>1, <1>1, <1>3
      <4>4. CASE i > n + 1
        <5>1. i \in n + 2 .. k + 1 /\ t[i] = list[i - 1] /\ i - 1 \in 1 .. k /\ i - 1 < j - 1
          BY <4>4, <2>1, <1>1
        <5>2. list[i - 1] < list[j - 1]
          BY <5>1, <4>1 DEF Strict
        <5> QED BY <5>1, <5>2, <4>1
      <4> QED BY <4>2, <4>3, <4>4, <1>1, <2>1
    <3> QED BY <3>1, <3>2, <3>3, <1>1, <2>1
  <2> QED BY <2>1 DEF Strict
<1>5. ASSUME NEW q \in Jobs, On(list, q) \/ q = p
      PROVE  On(t, q)
  <2>1. CASE q = p
    <3>1. n + 1 \in 1 .. Len(t)
      BY <1>1
    <3> QED BY <3>1, <2>1, <1>1 DEF On
  <2>2. CASE On(list, q)
    <3>1. PICK i \in 1 .. k : list[i] = q
      BY <2>2 DEF On
    <3>2. CASE i <= n
      <4>1. i \in 1 .. n /\ i \in 1 .. Len(t)
        BY <3>2, <1>1
      <4> QED BY <4>1, <3>1, <1>1 DEF On
    <3>3. CASE i > n
      <4>1. i + 1 \in n + 2 .. k + 1 /\ i + 1 \in 1 .. Len(t) /\ (i + 1) - 1 = i
        BY <3>3, <1>1
      <4>2. t[i + 1] = q
        BY <4>1, <3>1, <1>1
      <4> QED BY <4>1, <4>2 DEF On
    <3> QED BY <3>2, <3>3, <1>1
  <2> QED BY <1>5, <2>1, <2>2
<1>6. ASSUME NEW q \in Jobs, On(t, q), q # p
      PROVE  On(list, q)
  <2>1. PICK i \in 1 .. k + 1 : t[i] = q
    BY <1>6, <1>1 DEF On
  <2>2. CASE i <= n
    <3>1. i \in 1 .. n /\ i \in 1 .. k
      BY <2>2, <1>1
    <3> QED BY <3>1, <2>1, <1>1 DEF On
  <2>3. CASE i > n + 1
    <3>1. i \in n + 2 .. k + 1 /\ i - 1 \in 1 .. k
      BY <2>3, <1>1
    <3>2. list[i - 1] = q
      BY <3>1, <2>1, <1>1
    <3> QED BY <3>1, <3>2 DEF On
  <2> QED BY <2>1, <2>2, <2>3, <1>1, <1>6
<1> QED BY <1>4, <1>5, <1>6 DEF t

----------------------------------------------------------------------------
(* The frame goes on *)

LEMMA ThenRx ==
  ASSUME NEW f \in Seq(Step), Shape(f), Len(f) > 1, f[2].op = "rxoff"
  PROVE  f[1].op = "timeroff" \/ (f[1].op = "create" /\ f[1].n = TIMER)
<1>1. 1 \in 1 .. Len(f) - 1 /\ 1 + 1 = 2
  OBVIOUS
<1>2. "rxoff" \in After(f[1])
  BY <1>1 DEF Shape
<1> QED BY <1>2 DEF After

LEMMA RxAhead ==
  ASSUME IInv, Shapes, Then = "rxoff"
  PROVE  Now = "timeroff" \/ Creating(TIMER)
<1>1. stack # <<>> /\ Len(Top) > 1 /\ Top[2].op = "rxoff"
  BY DEF Then
<1>2. stack \in Seq(Seq(Step)) /\ 1 \in 1 .. Len(stack) /\ Top = stack[1]
  BY <1>1 DEF IInv, TypeOK, Top
<1>3. Top \in Seq(Step) /\ Shape(Top) /\ Head(Top) = Top[1]
  BY <1>1, <1>2 DEF Shapes
<1> QED BY <1>1, <1>3, ThenRx DEF Now, Creating, Arg

\* Where the frame is after its running step made way for steps.
LEMMA Moves ==
  ASSUME IInv, Shapes, stack # <<>>, Head(Top).op # "eret",
         NEW steps \in Seq(Step), Linked(steps), Goto(steps),
         steps # <<>> => After(Head(Top)) \subseteq After(steps[Len(steps)])
  PROVE  /\ stack' # <<>> /\ Len(stack') = Len(stack)
         /\ steps # <<>> => Now' = steps[1].op /\ Arg' = steps[1].n
         /\ Len(steps) = 1 => Then' = Then
         /\ Len(steps) > 1 => Then' = steps[2].op /\ Top'[2] = steps[2]
         /\ steps = <<>> => Now' = Then /\ Now' \in After(Head(Top)) /\ Arg' = Top[2].n
         /\ Then' = "rxoff" => Now' = "timeroff" \/ Creating(TIMER)'
<1>1. /\ Len(stack') = Len(stack) /\ Len(stack) \in Nat /\ Len(stack) > 0
      /\ stack'[1] = steps \o Tail(Top)
      /\ Top \in Seq(Step) /\ Len(Top) > 1 /\ Head(Top) = Top[1]
      /\ stack'[1] \in Seq(Step) /\ Len(stack'[1]) > 0
      /\ stack' # <<>> /\ Head(Head(stack')) = stack'[1][1]
  BY GotoStack
<1>2. Shapes' /\ (steps # <<>> => Head(Top') = steps[1])
      /\ (steps = <<>> => Head(Top').op \in After(Head(Top)))
  BY ShapesGo
<1> DEFINE g == stack'[1]
<1>3. Top' = g /\ Shape(g)
  <2>1. Top' = Head(stack')
    BY DEF Top
  <2>2. IInv => stack \in Seq(Seq(Step))
    BY DEF IInv, TypeOK
  <2>3. Head(stack') = stack'[1]
    BY <1>1, <2>2 DEF Goto
  <2>4. 1 \in 1 .. Len(stack')
    BY <1>1
  <2> QED BY <1>2, <2>1, <2>3, <2>4 DEF Shapes
<1>4. /\ Now' = g[1].op /\ Arg' = g[1].n
      /\ Then' = IF Len(g) > 1 THEN g[2].op ELSE "idle"
  BY <1>1, <1>3 DEF Now, Arg, Then
<1>5. Then' = "rxoff" => Now' = "timeroff" \/ Creating(TIMER)'
  <2>1. SUFFICES ASSUME Then' = "rxoff" PROVE Now' = "timeroff" \/ (Now' = "create" /\ Arg' = TIMER)
    BY DEF Creating
  <2>2. g \in Seq(Step) /\ Len(g) > 1 /\ g[2].op = "rxoff"
    BY <1>1, <1>4, <2>1
  <2>3. g[1].op = "timeroff" \/ (g[1].op = "create" /\ g[1].n = TIMER)
    BY <1>3, <2>2, ThenRx
  <2> QED BY <1>4, <2>3
<1>6. Then = Top[2].op
  BY <1>1 DEF Then
<1>7. /\ Len(g) = Len(steps) + Len(Top) - 1
      /\ \A i \in 1 .. Len(steps) : g[i] = steps[i]
      /\ \A i \in Len(steps) + 1 .. Len(g) : g[i] = Top[i - Len(steps) + 1]
  <2>1. /\ Tail(Top) \in Seq(Step) /\ Len(Tail(Top)) = Len(Top) - 1
        /\ \A i \in 1 .. Len(Top) - 1 : Tail(Top)[i] = Top[i + 1]
    BY <1>1
  <2>2. Len(steps) \in Nat /\ Len(Top) \in Nat
    BY <1>1
  <2>3. Len(g) = Len(steps) + Len(Tail(Top)) /\ \A i \in 1 .. Len(steps) : g[i] = steps[i]
    BY <1>1, <2>1, <2>2
  <2>4. ASSUME NEW i \in Len(steps) + 1 .. Len(g)
        PROVE  g[i] = Top[i - Len(steps) + 1]
    <3>1. i - Len(steps) \in 1 .. Len(Top) - 1 /\ g[i] = Tail(Top)[i - Len(steps)]
      BY <1>1, <2>1, <2>2, <2>3
    <3> QED BY <3>1, <2>1
  <2> QED BY <2>1, <2>2, <2>3, <2>4
<1>8. Len(steps) = 1 => Then' = Then
  <2>1. SUFFICES ASSUME Len(steps) = 1 PROVE Then' = Then
    OBVIOUS
  <2>2. Len(g) > 1 /\ 2 \in Len(steps) + 1 .. Len(g) /\ 2 - Len(steps) + 1 = 2
    BY <1>1, <1>7, <2>1
  <2> QED BY <1>4, <1>6, <1>7, <2>2
<1>9. Len(steps) > 1 => Then' = steps[2].op /\ Top'[2] = steps[2]
  <2>1. SUFFICES ASSUME Len(steps) > 1 PROVE Then' = steps[2].op /\ Top'[2] = steps[2]
    OBVIOUS
  <2>2. Len(g) > 1 /\ 2 \in 1 .. Len(steps)
    BY <1>1, <1>7, <2>1
  <2> QED BY <1>3, <1>4, <1>7, <2>2
<1>10. steps = <<>> => Now' = Then /\ Arg' = Top[2].n
  <2>1. SUFFICES ASSUME steps = <<>> PROVE Now' = Then /\ Arg' = Top[2].n
    OBVIOUS
  <2>2. Len(steps) = 0 /\ 1 \in Len(steps) + 1 .. Len(g) /\ 1 - Len(steps) + 1 = 2
    BY <1>1, <1>7, <2>1
  <2> QED BY <1>4, <1>6, <1>7, <2>2
<1>11. steps # <<>> => Now' = steps[1].op /\ Arg' = steps[1].n
  BY <1>2, <1>3, <1>4, <1>1, <1>7
<1>12. steps = <<>> => Now' \in After(Head(Top))
  BY <1>2, <1>1 DEF Now
<1> QED BY <1>1, <1>5, <1>8, <1>9, <1>10, <1>11, <1>12

\* The running step is gone.
LEMMA MovesOn ==
  ASSUME IInv, RxInv, NEW op, At(op), op # "eret", Goto(<<>>)
  PROVE  /\ stack' # <<>> /\ Len(stack') = Len(stack) /\ Now = op
         /\ Now' = Then /\ Now' \in After(Head(Top)) /\ Arg' = Top[2].n
         /\ Then' = "rxoff" => Now' = "timeroff" \/ Creating(TIMER)'
<1>1. stack # <<>> /\ Head(Top).op = op /\ <<>> \in Seq(Step)
  BY DEF At
<1> QED BY <1>1, Moves, LinkedFew DEF RxInv, Now

\* One step takes its place.
LEMMA MovesTo ==
  ASSUME IInv, RxInv, NEW op, At(op), op # "eret", NEW s \in Step, Goto(<<s>>),
         After(Head(Top)) \subseteq After(s)
  PROVE  /\ stack' # <<>> /\ Len(stack') = Len(stack) /\ Now = op
         /\ Now' = s.op /\ Arg' = s.n /\ Then' = Then
         /\ Then' = "rxoff" => Now' = "timeroff" \/ Creating(TIMER)'
<1>1. stack # <<>> /\ Head(Top).op = op /\ <<s>> \in Seq(Step) /\ <<s>> # <<>>
      /\ Len(<<s>>) = 1 /\ <<s>>[1] = s
  BY DEF At
<1> QED BY <1>1, Moves, LinkedFew DEF RxInv, Now

----------------------------------------------------------------------------
(* Steps that switch a device or make a task *)

LEMMA SameList ==
  ASSUME UNCHANGED tasks
  PROVE  \A p : On(tasks, p)' <=> On(tasks, p)
BY DEF On

LEMMA TimerOffGood ==
  ASSUME IInv, RxInv, Good, TimerOff
  PROVE  Good'
<1>1. At("timeroff") /\ Goto(<<DoWith("create", TIMER)>>) /\ tirq' = FALSE /\ UNCHANGED tasks
  BY DEF TimerOff
<1>2. DoWith("create", TIMER) \in Step /\ After(Head(Top)) \subseteq After(DoWith("create", TIMER))
  BY <1>1 DEF At, After, DoWith, TIMER, Step, Ops
<1>3. /\ stack' # <<>> /\ Len(stack') = Len(stack) /\ Now = "timeroff"
      /\ Now' = "create" /\ Arg' = TIMER /\ Then' = Then
  BY <1>1, <1>2, MovesTo DEF DoWith
<1>4. Creating(TIMER)' /\ ~Creating(RX)' /\ ~Creating(TX)' /\ \A p : ~Creating(p)
  BY <1>3 DEF Creating, RX, TX, TIMER
<1>5. \A p : On(tasks, p)' <=> On(tasks, p)
  BY <1>1, SameList
<1>6. Waiting'
  BY <1>1, <1>3, <1>4, <1>5 DEF Good, Waiting
<1>7. Ring'
  BY <1>1, <1>3, <1>4, <1>5 DEF Good, Ring, RxPending, TxPending, TimerOff, uart
<1>8. Hardware'
  BY <1>1, <1>3, <1>4, <1>5 DEF Good, Hardware, TimerPending, Programmed, Expiry, TimerOff, world
<1> QED BY <1>3, <1>6, <1>7, <1>8 DEF Good

LEMMA RxOffGood ==
  ASSUME IInv, RxInv, Good, RxOff
  PROVE  Good'
<1>1. At("rxoff") /\ Goto(<<DoWith("create", RX)>>) /\ rxOn' = FALSE /\ UNCHANGED tasks
  BY DEF RxOff
<1>2. DoWith("create", RX) \in Step /\ After(Head(Top)) \subseteq After(DoWith("create", RX))
  BY <1>1 DEF At, After, DoWith, RX, TIMER, Step, Ops
<1>3. /\ stack' # <<>> /\ Len(stack') = Len(stack) /\ Now = "rxoff"
      /\ Now' = "create" /\ Arg' = RX
      /\ Then' = "rxoff" => Now' = "timeroff" \/ Creating(TIMER)'
  BY <1>1, <1>2, MovesTo DEF DoWith
<1>4. Creating(RX)' /\ ~Creating(TIMER)' /\ ~Creating(TX)' /\ \A p : ~Creating(p)
  BY <1>3 DEF Creating, RX, TX, TIMER
<1>5. \A p : On(tasks, p)' <=> On(tasks, p)
  BY <1>1, SameList
<1>6. Waiting'
  BY <1>1, <1>3, <1>4, <1>5 DEF Good, Waiting
<1>7. Ring'
  BY <1>1, <1>3, <1>4, <1>5 DEF Good, Waiting, Ring, RxPending, TxPending, RxOff
<1>8. Hardware'
  BY <1>1, <1>3, <1>4, <1>5 DEF Good, Hardware, TimerPending, Programmed, Expiry, RxOff, clock, world
<1> QED BY <1>3, <1>6, <1>7, <1>8 DEF Good

LEMMA CreateGood ==
  ASSUME IInv, RxInv, Good, Create
  PROVE  Good'
<1>1. At("create") /\ Goto(<<>>)
  BY DEF Create, Continue
<1>2. /\ stack' # <<>> /\ Len(stack') = Len(stack) /\ Now = "create"
      /\ Now' = Then /\ Now' \in After(Head(Top))
      /\ Then' = "rxoff" => Now' = "timeroff" \/ Creating(TIMER)'
  BY <1>1, MovesOn
<1>3. Arg \in Jobs
  BY <1>1, ArgJob
<1>4. /\ Now' \in {"rxoff", "clear", "pop"}
      /\ Arg = TIMER => Now' \in {"rxoff", "clear"}
      /\ Arg = RX => Now' = "clear"
      /\ Arg = TX => Now' = "pop"
  BY <1>1, <1>2, <1>3 DEF After, At, Arg, Jobs, RX, TX, TIMER
<1>5. /\ \A p : ~Creating(p)' /\ (Creating(p) <=> Arg = p)
      /\ Then' # "rxoff"
  BY <1>2, <1>4 DEF Creating
<1>6. RX \in Jobs /\ TX \in Jobs /\ TIMER \in Jobs /\ RX # TX /\ TX # TIMER /\ RX # TIMER
  BY DEF Jobs, RX, TX, TIMER
<1>7. /\ Strict(tasks')
      /\ heap >= TaskWords => \A q \in Jobs : On(tasks, q)' <=> On(tasks, q) \/ q = Arg
      /\ ~(heap >= TaskWords) => \A q \in Jobs : On(tasks, q)' <=> On(tasks, q)
  <2>1. tasks \in Seq(Jobs) /\ Strict(tasks)
    BY DEF IInv, TypeOK, Good, Waiting
  <2>2. CASE heap >= TaskWords
    <3>1. PICK n \in 0 .. Len(tasks) : Behind(tasks, n, Arg) /\ tasks' = InsertAt(tasks, n + 1, Arg)
      BY <2>2 DEF Create, Fits
    <3>2. ~On(tasks, Arg)
      BY <1>2, <1>3, <1>5, <1>6 DEF Good, Waiting, Jobs
    <3>3. /\ Strict(tasks')
          /\ \A q \in Jobs : On(tasks', q) <=> On(tasks, q) \/ q = Arg
      BY <1>3, <2>1, <3>1, <3>2, AddTask
    <3> QED BY <2>2, <3>3
  <2>3. CASE ~(heap >= TaskWords)
    <3>1. UNCHANGED tasks
      BY <2>3 DEF Create, Fits
    <3> QED BY <2>1, <2>3, <3>1, SameList
  <2> QED BY <2>2, <2>3
<1>8. heap \in Int /\ heap' \in Int /\ heap' <= heap /\ TaskWords \in Int
  <2>1. heap \in Int /\ TaskWords \in Nat
    BY BoundsAssumption DEF IInv, TypeOK
  <2>2. heap' = heap - TaskWords \/ heap' = heap
    BY DEF Create
  <2> QED BY <2>1, <2>2
<1>9. Arg = RX \/ Arg = TX \/ Arg = TIMER
  BY <1>3 DEF Jobs
<1>10. Waiting'
  BY <1>2, <1>4, <1>5, <1>6, <1>7, <1>9 DEF Good, Waiting
<1>11. Ring'
  BY <1>2, <1>4, <1>5, <1>6, <1>7, <1>9 DEF Good, Waiting, Ring, RxPending, TxPending, Create, uart
<1>12. Hardware'
  BY <1>2, <1>4, <1>5, <1>6, <1>7, <1>8, <1>9
     DEF Good, Waiting, Hardware, TimerPending, Programmed, Expiry, Create, clock, world
<1> QED BY <1>2, <1>10, <1>11, <1>12 DEF Good

LEMMA ClearGood ==
  ASSUME IInv, RxInv, Good, Clear
  PROVE  Good'
<1>1. At("clear") /\ Goto(<<>>) /\ UNCHANGED tasks
  BY DEF Clear, Continue
<1>2. /\ stack' # <<>> /\ Len(stack') = Len(stack) /\ Now = "clear"
      /\ Now' \in After(Head(Top))
      /\ Then' = "rxoff" => Now' = "timeroff" \/ Creating(TIMER)'
  BY <1>1, MovesOn
<1>3. Now' = "tasks"
  BY <1>1, <1>2 DEF After, At
<1>4. \A p : ~Creating(p)' /\ ~Creating(p)
  BY <1>2, <1>3 DEF Creating
<1>5. \A p : On(tasks, p)' <=> On(tasks, p)
  BY <1>1, SameList
<1>6. Waiting'
  BY <1>1, <1>2, <1>3, <1>4, <1>5 DEF Good, Waiting
<1>7. Ring'
  BY <1>2, <1>3, <1>4, <1>5, <1>6 DEF Good, Waiting, Ring, RxPending, TxPending, Clear, uart
<1>8. Hardware'
  BY <1>2, <1>3, <1>4, <1>5 DEF Good, Hardware, TimerPending, Programmed, Expiry, Clear, clock, world
<1> QED BY <1>2, <1>6, <1>7, <1>8 DEF Good

LEMMA MaskGood ==
  ASSUME IInv, RxInv, Good, Mask
  PROVE  Good'
<1>1. At("mask") /\ Goto(<<>>) /\ UNCHANGED tasks
  BY DEF Mask, Continue
<1>2. /\ stack' # <<>> /\ Len(stack') = Len(stack) /\ Now = "mask"
      /\ Now' \in After(Head(Top))
      /\ Then' = "rxoff" => Now' = "timeroff" \/ Creating(TIMER)'
  BY <1>1, MovesOn
<1>3. Now' = "tasks"
  BY <1>1, <1>2 DEF After, At
<1>4. \A p : ~Creating(p)' /\ ~Creating(p)
  BY <1>2, <1>3 DEF Creating
<1>5. \A p : On(tasks, p)' <=> On(tasks, p)
  BY <1>1, SameList
<1>6. Waiting'
  BY <1>1, <1>2, <1>3, <1>4, <1>5 DEF Good, Waiting
<1>7. Ring'
  BY <1>2, <1>3, <1>4, <1>5, <1>6 DEF Good, Waiting, Ring, RxPending, TxPending, Mask, uart
<1>8. Hardware'
  BY <1>2, <1>3, <1>4, <1>5 DEF Good, Hardware, TimerPending, Programmed, Expiry, Mask, clock, world
<1> QED BY <1>2, <1>6, <1>7, <1>8 DEF Good

LEMMA JustOne == ASSUME NEW n \in Nat, n <= 1, n > 0 PROVE n = 1
OBVIOUS

LEMMA EretGoes ==
  ASSUME IInv, Eret, Len(stack) <= 1
  PROVE  stack' = <<>> /\ Now = "eret" /\ Now' = "idle" /\ Then' = "idle"
<1>1. At("eret") /\ stack # <<>> /\ stack' = Tail(stack)
  BY DEF Eret, At
<1>2. stack \in Seq(Seq(Step))
  BY DEF IInv, TypeOK
<1>3. Len(stack) = 1
  <2>1. Len(stack) \in Nat /\ Len(stack) > 0
    BY <1>1, <1>2
  <2> QED BY <2>1, JustOne
<1>4. stack' = <<>>
  BY <1>1, <1>2, <1>3
<1> QED BY <1>1, <1>4 DEF Now, Then, At

LEMMA EretGood ==
  ASSUME IInv, Good, Eret, Len(stack) <= 1
  PROVE  Good'
<1>1. At("eret") /\ stack # <<>> /\ stack' = Tail(stack) /\ masked' = FALSE /\ UNCHANGED tasks
  BY DEF Eret, At
<1>2. stack' = <<>> /\ Now = "eret" /\ Now' = "idle" /\ Then' = "idle"
  BY EretGoes
<1>3. \A p : ~Creating(p)' /\ ~Creating(p)
  BY <1>2 DEF Creating
<1>4. \A p : On(tasks, p)' <=> On(tasks, p)
  BY <1>1, SameList
<1>5. Waiting'
  BY <1>1, <1>2, <1>3, <1>4 DEF Good, Waiting
<1>6. Ring'
  BY <1>2, <1>3, <1>4 DEF Good, Waiting, Ring, RxPending, TxPending, Eret, uart
<1>7. Hardware'
  BY <1>2, <1>3, <1>4 DEF Good, Waiting, Hardware, TimerPending, Programmed, Expiry, Eret, clock, world
<1> QED BY <1>1, <1>5, <1>6, <1>7 DEF Good

\* A task starts.
LEMMA RunTaskGoes ==
  ASSUME IInv, RxInv, RunTask
  PROVE  /\ stack' # <<>> /\ Len(stack') = Len(stack) /\ Now = "tasks"
         /\ Now' = JobOp(Head(tasks)) /\ Now' \in {"rx", "tx", "timer"} /\ Then' = "pop"
<1> DEFINE p == Head(tasks)
<1>1. At("tasks") /\ tasks # <<>> /\ Goto(Turn(p)) /\ UNCHANGED tasks
  BY DEF RunTask
<1>2. stack # <<>> /\ Head(Top).op = "tasks"
  BY <1>1 DEF At
<1>4. p \in Jobs
  BY <1>1 DEF IInv, TypeOK
<1>5. /\ Turn(p) \in Seq(Step) /\ Turn(p) # <<>> /\ Linked(Turn(p)) /\ Len(Turn(p)) = 4
      /\ Turn(p)[1].op = JobOp(p) /\ Turn(p)[2].op = "pop" /\ Turn(p)[4].op = "tasks"
  <2>1. JobOp(p) \in {"rx", "tx", "timer"}
    BY <1>4 DEF JobOp, Jobs, RX, TX, TIMER
  <2> HIDE DEF p
  <2> DEFINE t == Turn(p)
  <2>2. t = <<Do(JobOp(p)), Do("pop"), Do("mask"), Do("tasks")>>
    BY DEF Turn
  <2>3. \A op \in Ops : Do(op) \in Step /\ Do(op).op = op
    BY DEF Do, Step
  <2>4. Do(JobOp(p)) \in Step /\ Do("pop") \in Step /\ Do("mask") \in Step /\ Do("tasks") \in Step
    BY <2>1, <2>3 DEF Ops
  <2>5. t \in Seq(Step) /\ t # <<>> /\ Len(t) = 4 /\ t[1] = Do(JobOp(p)) /\ t[2] = Do("pop")
        /\ t[3] = Do("mask") /\ t[4] = Do("tasks")
    BY <2>2, <2>4
  <2> HIDE DEF t
  <2>6. t[1].op = JobOp(p) /\ t[2].op = "pop" /\ t[3].op = "mask" /\ t[4].op = "tasks"
    BY <2>1, <2>3, <2>5 DEF Ops
  <2>7. Linked(t)
    <3>1. t[2].op \in After(t[1]) /\ t[3].op \in After(t[2]) /\ t[4].op \in After(t[3])
      BY <2>1, <2>6 DEF After
    <3>2. \A i \in 1 .. 3 : i = 1 \/ i = 2 \/ i = 3
      OBVIOUS
    <3> QED BY <3>1, <3>2, <2>5 DEF Linked
  <2> QED BY <2>5, <2>6, <2>7 DEF t
<1>6. After(Head(Top)) \subseteq After(Turn(p)[Len(Turn(p))])
  BY <1>2, <1>5 DEF After
<1>7. /\ stack' # <<>> /\ Len(stack') = Len(stack) /\ Now = "tasks"
      /\ Now' = JobOp(p) /\ Then' = "pop"
  <2> HIDE DEF p
  <2>1. Head(Top).op # "eret" /\ Len(Turn(p)) > 1
    BY <1>2, <1>5
  <2>2. stack' # <<>> /\ Len(stack') = Len(stack) /\ Now' = Turn(p)[1].op /\ Then' = Turn(p)[2].op
    BY <1>1, <1>2, <1>5, <1>6, <2>1, Moves DEF RxInv
  <2> QED BY <1>2, <1>5, <2>2 DEF Now
<1>8. JobOp(p) \in {"rx", "tx", "timer"}
  BY <1>4 DEF JobOp, Jobs, RX, TX, TIMER
<1> QED BY <1>7, <1>8

LEMMA RunTaskGood ==
  ASSUME IInv, RxInv, Good, RunTask
  PROVE  Good'
<1> DEFINE p == Head(tasks)
<1>1. At("tasks") /\ tasks # <<>> /\ Goto(Turn(p)) /\ UNCHANGED tasks
  BY DEF RunTask
<1>2. stack # <<>> /\ Head(Top).op = "tasks"
  BY <1>1 DEF At
<1>3. tasks \in Seq(Jobs) /\ Strict(tasks)
  BY DEF IInv, TypeOK, Good, Waiting
<1>4. p \in Jobs /\ On(tasks, p) /\ \A q \in Jobs : On(tasks, q) => p <= q
  BY <1>1, <1>3, HeadTask
<1>7. /\ stack' # <<>> /\ Len(stack') = Len(stack) /\ Now = "tasks"
      /\ Now' = JobOp(p) /\ Then' = "pop"
  BY RunTaskGoes
<1>8. /\ \/ p = RX /\ Now' = "rx"
         \/ p = TX /\ Now' = "tx"
         \/ p = TIMER /\ Now' = "timer"
      /\ \A q : ~Creating(q)' /\ ~Creating(q)
  <2>1. \/ p = RX /\ JobOp(p) = "rx"
        \/ p = TX /\ JobOp(p) = "tx"
        \/ p = TIMER /\ JobOp(p) = "timer"
    BY <1>4 DEF JobOp, Jobs, RX, TX, TIMER
  <2> HIDE DEF p
  <2> QED BY <1>7, <2>1 DEF Creating
<1>9. \A q : On(tasks, q)' <=> On(tasks, q)
  BY <1>1, SameList
<1>10. /\ p = TX => ~On(tasks, RX)
       /\ p = TIMER => ~On(tasks, RX) /\ ~On(tasks, TX)
       /\ On(tasks, p)
  BY <1>4 DEF Jobs, RX, TX, TIMER
<1> HIDE DEF p
<1>11. Waiting'
  BY <1>1, <1>7, <1>8, <1>9, <1>10 DEF Good, Waiting
<1>12. Ring'
  BY <1>7, <1>8, <1>9, <1>10 DEF Good, Waiting, Ring, RxPending, TxPending, RunTask, uart
<1>13. Hardware'
  BY <1>7, <1>8, <1>9, <1>10 DEF Good, Waiting, Hardware, TimerPending, Programmed, Expiry, RunTask, clock, world
<1> QED BY <1>7, <1>11, <1>12, <1>13 DEF Good

LEMMA TasksDoneGood ==
  ASSUME IInv, RxInv, Good, TasksDone
  PROVE  Good'
<1>1. At("tasks") /\ Goto(<<>>) /\ tasks = <<>> /\ UNCHANGED tasks
  BY DEF TasksDone, Continue
<1>2. /\ stack' # <<>> /\ Len(stack') = Len(stack) /\ Now = "tasks"
      /\ Now' \in After(Head(Top))
      /\ Then' = "rxoff" => Now' = "timeroff" \/ Creating(TIMER)'
  BY <1>1, MovesOn
<1>3. Now' = "eret"
  BY <1>1, <1>2 DEF After, At
<1>4. \A p : ~Creating(p)' /\ ~Creating(p)
  BY <1>2, <1>3 DEF Creating
<1>5. \A p : ~On(tasks, p)' /\ ~On(tasks, p)
  BY <1>1, NoTask
<1>6. Waiting'
  BY <1>1, <1>2, <1>3, <1>4, <1>5 DEF Good, Waiting
<1>7. Ring'
  BY <1>2, <1>3, <1>4, <1>5, <1>6 DEF Good, Waiting, Ring, RxPending, TxPending, TasksDone, uart
<1>8. Hardware'
  BY <1>2, <1>3, <1>4, <1>5 DEF Good, Hardware, TimerPending, Programmed, Expiry, TasksDone, clock, world
<1> QED BY <1>2, <1>6, <1>7, <1>8 DEF Good

LEMMA PopGood ==
  ASSUME IInv, RxInv, Good, Pop
  PROVE  Good'
<1> DEFINE p == Head(tasks)
<1>1. At("pop") /\ Goto(<<>>) /\ tasks # <<>> /\ tasks' = Tail(tasks)
  BY DEF Pop, Continue
<1>2. /\ stack' # <<>> /\ Len(stack') = Len(stack) /\ Now = "pop"
      /\ Now' \in After(Head(Top))
      /\ Then' = "rxoff" => Now' = "timeroff" \/ Creating(TIMER)'
  BY <1>1, MovesOn
<1>3. Now' = "mask"
  BY <1>1, <1>2 DEF After, At
<1>4. \A q : ~Creating(q)' /\ ~Creating(q)
  BY <1>2, <1>3 DEF Creating
<1>5. tasks \in Seq(Jobs) /\ Strict(tasks)
  BY DEF IInv, TypeOK, Good, Waiting
<1>6. p \in Jobs /\ On(tasks, p) /\ \A q \in Jobs : On(tasks, q) => p <= q
  BY <1>1, <1>5, HeadTask
<1>7. Strict(tasks') /\ \A q \in Jobs : On(tasks, q)' <=> On(tasks, q) /\ q # p
  BY <1>1, <1>5, PopTask
<1> HIDE DEF p
<1>8. p = RX \/ p = TX \/ p = TIMER
  BY <1>6 DEF Jobs
<1>9. /\ p = RX => On(tasks, RX) /\ ~On(tasks, RX)'
                   /\ (On(tasks, TX)' <=> On(tasks, TX)) /\ (On(tasks, TIMER)' <=> On(tasks, TIMER))
      /\ p = TX => On(tasks, TX) /\ ~On(tasks, RX) /\ ~On(tasks, RX)' /\ ~On(tasks, TX)'
                   /\ (On(tasks, TIMER)' <=> On(tasks, TIMER))
      /\ p = TIMER => /\ ~On(tasks, RX) /\ ~On(tasks, RX)' /\ ~On(tasks, TX)' /\ ~On(tasks, TIMER)'
                      /\ ~On(tasks, TX)
  BY <1>6, <1>7 DEF Jobs, RX, TX, TIMER
<1>10. Waiting'
  BY <1>2, <1>3, <1>4, <1>7, <1>8, <1>9 DEF Good, Waiting
<1>11. Ring'
  BY <1>2, <1>3, <1>4, <1>8, <1>9 DEF Good, Waiting, Ring, RxPending, TxPending, Pop, uart
<1>12. Hardware'
  <2>1. TimerPending' <=> On(tasks, TIMER)'
    BY <1>3, <1>4 DEF TimerPending
  <2>2. TimerPending' <=> TimerPending
    BY <1>2, <1>4, <1>8, <1>9, <2>1 DEF TimerPending
  <2> QED BY <1>2, <1>3, <2>2 DEF Good, Hardware, Programmed, Expiry, Pop, clock, world
<1> QED BY <1>2, <1>10, <1>11, <1>12 DEF Good

----------------------------------------------------------------------------
(* Echo *)

LEMMA OutType == ASSUME IInv PROVE out \in Seq(Chars \cup {"lf", Junk}) /\ fifo \in Seq(Chars)
BY DEF IInv, TypeOK

LEMMA Appended ==
  ASSUME NEW S, NEW s \in Seq(S), NEW e \in S
  PROVE  /\ Len(Append(s, e)) = Len(s) + 1 /\ Append(s, e)[Len(s) + 1] = e
         /\ \A i \in 1 .. Len(s) : Append(s, e)[i] = s[i]
OBVIOUS

LEMMA AppendOne ==
  ASSUME NEW S, NEW s \in Seq(S), NEW e \in S, Len(s) = 1
  PROVE  Len(Append(s, e)) = 2 /\ Append(s, e)[1] = s[1] /\ Append(s, e)[2] = e
<1> DEFINE t == Append(s, e)
           k == Len(s)
<1>1. Len(t) = k + 1 /\ t[k + 1] = e /\ (\A i \in 1 .. k : t[i] = s[i]) /\ k = 1
  BY Appended
<1> HIDE DEF t, k
<1>2. Len(t) = 2 /\ t[1] = s[1] /\ t[2] = e
  BY <1>1
<1> QED BY <1>2 DEF t

LEMMA ReceiveGood ==
  ASSUME IInv, RxInv, Good, Receive
  PROVE  Good'
<1>1. At("rx") /\ Goto(<<DoWith("create", TX)>>) /\ UNCHANGED tasks
  BY DEF Receive
<1>2. DoWith("create", TX) \in Step /\ After(Head(Top)) \subseteq After(DoWith("create", TX))
  BY <1>1 DEF At, After, DoWith, RX, TX, TIMER, Step, Ops
<1>3. /\ stack' # <<>> /\ Len(stack') = Len(stack) /\ Now = "rx"
      /\ Now' = "create" /\ Arg' = TX
      /\ Then' = "rxoff" => Now' = "timeroff" \/ Creating(TIMER)'
  BY <1>1, <1>2, MovesTo DEF DoWith
<1>4. Creating(TX)' /\ ~Creating(TIMER)' /\ ~Creating(RX)' /\ \A p : ~Creating(p)
  BY <1>3 DEF Creating, RX, TX, TIMER
<1>5. \A p : On(tasks, p)' <=> On(tasks, p)
  BY <1>1, SameList
<1>6. Waiting'
  BY <1>1, <1>3, <1>4, <1>5 DEF Good, Waiting
<1>7. /\ Len(out') = 1 /\ out'[1] # Junk /\ ~rxOn /\ ~txOn
  <2>1. On(tasks, RX) /\ fifo # <<>> /\ out = <<>> /\ ~rxOn /\ ~txOn
    BY <1>3 DEF Good, Waiting, Ring, RxPending
  <2>2. Head(fifo) \in Chars /\ out' = Append(out, Head(fifo))
    BY <2>1, OutType DEF Receive
  <2>3. Append(<<>>, Head(fifo)) = <<Head(fifo)>>
    OBVIOUS
  <2> QED BY <2>1, <2>2, <2>3 DEF Chars, Junk
<1>8. Ring'
  BY <1>3, <1>4, <1>5, <1>7 DEF Good, Waiting, Ring, RxPending, TxPending, Receive
<1>9. Hardware'
  BY <1>3, <1>4, <1>5 DEF Good, Hardware, TimerPending, Programmed, Expiry, Receive, clock, world
<1> QED BY <1>3, <1>6, <1>8, <1>9 DEF Good

LEMMA TransmitGood ==
  ASSUME IInv, RxInv, Good, Transmit
  PROVE  Good'
<1>1. At("tx") /\ Goto(<<Do("send")>>) /\ UNCHANGED tasks
  BY DEF Transmit
<1>2. Do("send") \in Step /\ After(Head(Top)) \subseteq After(Do("send"))
  BY <1>1 DEF At, After, Do, Step, Ops
<1>3. /\ stack' # <<>> /\ Len(stack') = Len(stack) /\ Now = "tx" /\ Now' = "send"
      /\ Then' = "rxoff" => Now' = "timeroff" \/ Creating(TIMER)'
  BY <1>1, <1>2, MovesTo DEF Do
<1>4. \A p : ~Creating(p)' /\ ~Creating(p)
  BY <1>3 DEF Creating
<1>5. \A p : On(tasks, p)' <=> On(tasks, p)
  BY <1>1, SameList
<1>6. Waiting'
  BY <1>1, <1>3, <1>4, <1>5 DEF Good, Waiting
<1>7. /\ out' # <<>> /\ ~rxOn /\ out'[1] # Junk
      /\ Len(out') > 1 => Len(out') = 2 /\ out'[1] = "cr" /\ out'[2] = "lf"
  <2>1. On(tasks, TX) /\ Len(out) = 1 /\ out \in Seq(Chars \cup {"lf", Junk})
    BY <1>3, OutType DEF Good, Waiting, Ring, TxPending
  <2>2. out # <<>> /\ ~rxOn /\ out[1] # Junk /\ out = <<out[1]>> /\ Last(out) = out[1]
    BY <2>1 DEF Good, Ring, Last
  <2>3. out' = out \/ (out[1] = "cr" /\ out' = Append(out, "lf"))
    BY <2>2 DEF Transmit
  <2>4. "lf" \in Chars \cup {"lf", Junk}
    OBVIOUS
  <2>5. CASE out' = out
    <3>1. Len(out') = 1 /\ out' # <<>> /\ out'[1] # Junk
      BY <2>1, <2>2, <2>5
    <3>2. ~(Len(out') > 1)
      BY <3>1
    <3> QED BY <2>2, <3>1, <3>2
  <2>6. CASE out[1] = "cr" /\ out' = Append(out, "lf")
    <3>1. Len(out') = 2 /\ out'[1] = out[1] /\ out'[2] = "lf" /\ out' # <<>>
      <4>1. Len(Append(out, "lf")) = 2 /\ Append(out, "lf")[1] = out[1] /\ Append(out, "lf")[2] = "lf"
        BY <2>1, <2>4, AppendOne
      <4>2. Append(out, "lf") # <<>>
        BY <4>1
      <4> QED BY <4>1, <4>2, <2>6
    <3> QED BY <3>1, <2>2, <2>6
  <2> QED BY <2>3, <2>5, <2>6
<1>8. ~On(tasks, RX)
  BY <1>3 DEF Good, Waiting, Creating
<1>9. Ring'
  BY <1>3, <1>4, <1>5, <1>7, <1>8 DEF Good, Waiting, Ring, RxPending, TxPending, Transmit
<1>10. Hardware'
  BY <1>3, <1>4, <1>5 DEF Good, Hardware, TimerPending, Programmed, Expiry, Transmit, clock, world
<1> QED BY <1>3, <1>6, <1>9, <1>10 DEF Good

\* A character leaves the ring.
LEMMA SendFacts ==
  ASSUME IInv, Good, Send
  PROVE  /\ Now = "send" /\ stack # <<>> /\ ~rxOn /\ On(tasks, TX) /\ ~On(tasks, RX)
         /\ \A p : ~Creating(p) /\ (On(tasks, p)' <=> On(tasks, p))
         /\ out # <<>> /\ Len(out) \in Nat
         /\ Len(out) = 1 => out' = <<>>
         /\ Len(out) > 1 => Len(out') = 1 /\ out'[1] = "lf"
         /\ Head(out) = out[1]
<1>1. At("send") /\ out # <<>> /\ out' = Tail(out) /\ UNCHANGED tasks
  BY DEF Send, Advanced
<1>2. Now = "send" /\ stack # <<>> /\ \A p : ~Creating(p)
  BY <1>1 DEF At, Now, Creating
<1>3. ~rxOn /\ On(tasks, TX) /\ ~On(tasks, RX)
  BY <1>1, <1>2 DEF Good, Ring, Waiting
<1>4. out \in Seq(Chars \cup {"lf", Junk})
  BY OutType
<1>5. Len(out) = 1 => out' = <<>>
  BY <1>1, <1>4
<1>6. Len(out) > 1 => Len(out') = 1 /\ out'[1] = "lf"
  <2>1. SUFFICES ASSUME Len(out) > 1 PROVE Len(Tail(out)) = 1 /\ Tail(out)[1] = "lf"
    BY <1>1
  <2>2. Len(out) = 2 /\ out[2] = "lf"
    BY <2>1 DEF Good, Ring
  <2> QED BY <1>4, <2>2
<1> QED BY <1>1, <1>2, <1>3, <1>4, <1>5, <1>6, SameList

LEMMA SendGood ==
  ASSUME IInv, RxInv, Good, SendMore \/ SendLast
  PROVE  Good'
<1>1. Send /\ UNCHANGED <<stack, tasks>>
  BY DEF SendMore, SendLast, Send
<1>2. /\ Now = "send" /\ stack # <<>> /\ ~rxOn /\ On(tasks, TX) /\ ~On(tasks, RX)
      /\ \A p : ~Creating(p) /\ (On(tasks, p)' <=> On(tasks, p))
      /\ out # <<>> /\ Len(out) \in Nat
      /\ Len(out) = 1 => out' = <<>>
      /\ Len(out) > 1 => Len(out') = 1 /\ out'[1] = "lf"
  BY <1>1, SendFacts
<1>3. Now' = "send" /\ Then' = Then /\ (\A p : ~Creating(p)') /\ stack' # <<>>
  BY <1>1, <1>2 DEF Now, Then, Creating, Top
<1>4. Waiting'
  BY <1>1, <1>2, <1>3 DEF Good, Waiting
<1>5. /\ Len(out') > 1 => out' = <<"cr", "lf">>
      /\ out' # <<>> => out'[1] # Junk
      /\ txOn' => out' # <<>>
  <2>1. CASE SendMore
    <3>1. Len(out') = 1 /\ out'[1] = "lf"
      BY <2>1, <1>2 DEF SendMore
    <3>2. out' # <<>>
      BY <3>1
    <3> QED BY <3>1, <3>2 DEF Junk
  <2>2. CASE SendLast
    <3>1. out' = <<>> /\ txOn' = FALSE
      BY <2>2, <1>2 DEF SendLast
    <3> QED BY <3>1
  <2> QED BY <2>1, <2>2
<1>6. Then # "rxoff"
  BY <1>2, RxAhead DEF RxInv
<1>7. Ring'
  BY <1>1, <1>2, <1>3, <1>5, <1>6 DEF Ring, RxPending, TxPending, Send
<1>8. Hardware'
  BY <1>1, <1>2, <1>3 DEF Good, Hardware, TimerPending, Programmed, Expiry, Send, clock
<1> QED BY <1>3, <1>4, <1>7, <1>8 DEF Good

LEMMA SendLineGoes ==
  ASSUME IInv, RxInv, SendLine
  PROVE  /\ stack' # <<>> /\ Now = "send" /\ Now' \in {"set", "reset"}
         /\ Then' = "rxoff" => Now' = "timeroff" \/ Creating(TIMER)'
<1>2. PICK delays \in Commands : Goto(LineSteps(delays))
  BY DEF SendLine, LineSteps
<1> DEFINE steps == LineSteps(delays)
<1>3. /\ steps \in Seq(Step) /\ steps # <<>> /\ Linked(steps)
      /\ steps[1].op \in {"set", "reset"} /\ steps[Len(steps)].op = "reset"
  BY LineStepsShape
<1>4. At("send") /\ Goto(steps)
  BY <1>2 DEF SendLine, Send
<1> HIDE DEF steps
<1>5. /\ stack # <<>> /\ Head(Top).op = "send"
      /\ After(Head(Top)) \subseteq After(steps[Len(steps)])
  BY <1>3, <1>4 DEF After, At
<1>6. /\ stack' # <<>> /\ Now' \in {"set", "reset"}
      /\ Then' = "rxoff" => Now' = "timeroff" \/ Creating(TIMER)'
  BY <1>3, <1>4, <1>5, Moves DEF RxInv
<1> QED BY <1>5, <1>6 DEF Now

LEMMA SendLineGood ==
  ASSUME IInv, RxInv, Good, SendLine
  PROVE  Good'
<1>1. Send /\ Len(out) = 1 /\ txOn' = FALSE /\ UNCHANGED tasks
  BY DEF SendLine, Send
<1>6. /\ stack' # <<>> /\ Now' \in {"set", "reset"}
      /\ Then' = "rxoff" => Now' = "timeroff" \/ Creating(TIMER)'
  BY SendLineGoes
<1>7. (\A p : ~Creating(p)') /\ Then' # "rxoff"
  BY <1>6 DEF Creating
<1>8. /\ Now = "send" /\ ~rxOn /\ On(tasks, TX) /\ ~On(tasks, RX)
      /\ \A p : ~Creating(p) /\ (On(tasks, p)' <=> On(tasks, p))
      /\ out' = <<>>
  BY <1>1, SendFacts
<1>9. Waiting'
  BY <1>1, <1>6, <1>7, <1>8 DEF Good, Waiting
<1>10. Ring'
  BY <1>1, <1>6, <1>7, <1>8 DEF Ring, RxPending, TxPending, Send
<1>11. Hardware'
  BY <1>1, <1>6, <1>7, <1>8 DEF Good, Hardware, TimerPending, Programmed, Expiry, Send, clock
<1> QED BY <1>6, <1>9, <1>10, <1>11 DEF Good

LEMMA ResetGood ==
  ASSUME IInv, RxInv, Good, Reset
  PROVE  Good'
<1>1. At("reset") /\ Goto(<<Do("send")>>) /\ UNCHANGED tasks
  BY DEF Reset
<1>2. Do("send") \in Step /\ After(Head(Top)) \subseteq After(Do("send"))
  BY <1>1 DEF At, After, Do, Step, Ops
<1>3. /\ stack' # <<>> /\ Len(stack') = Len(stack) /\ Now = "reset" /\ Now' = "send"
      /\ Then' = "rxoff" => Now' = "timeroff" \/ Creating(TIMER)'
  BY <1>1, <1>2, MovesTo DEF Do
<1>4. \A p : ~Creating(p)' /\ ~Creating(p)
  BY <1>3 DEF Creating
<1>5. \A p : On(tasks, p)' <=> On(tasks, p)
  BY <1>1, SameList
<1>6. Waiting'
  BY <1>1, <1>3, <1>4, <1>5 DEF Good, Waiting
<1>7. Ring'
  BY <1>3, <1>4, <1>5 DEF Good, Waiting, Ring, RxPending, TxPending, Reset
<1>8. Hardware'
  BY <1>3, <1>4, <1>5 DEF Good, Hardware, TimerPending, Programmed, Expiry, Reset, clock, world
<1> QED BY <1>3, <1>6, <1>7, <1>8 DEF Good

LEMMA SendDoneGood ==
  ASSUME IInv, RxInv, Good, SendDone
  PROVE  Good'
<1>1. At("send") /\ Goto(<<>>) /\ out = <<>> /\ UNCHANGED tasks
  BY DEF SendDone, Continue
<1>2. /\ stack' # <<>> /\ Len(stack') = Len(stack) /\ Now = "send"
      /\ Now' \in After(Head(Top))
      /\ Then' = "rxoff" => Now' = "timeroff" \/ Creating(TIMER)'
  BY <1>1, MovesOn
<1>3. Now' = "pop"
  BY <1>1, <1>2 DEF After, At
<1>4. \A p : ~Creating(p)' /\ ~Creating(p)
  BY <1>2, <1>3 DEF Creating
<1>5. \A p : On(tasks, p)' <=> On(tasks, p)
  BY <1>1, SameList
<1>6. ~On(tasks, RX) /\ On(tasks, TX)
  BY <1>2, <1>4 DEF Good, Waiting
<1>7. Waiting'
  BY <1>1, <1>2, <1>3, <1>4, <1>5 DEF Good, Waiting
<1>8. Ring'
  BY <1>1, <1>2, <1>3, <1>4, <1>5, <1>6 DEF Good, Ring, RxPending, TxPending, SendDone
<1>9. Hardware'
  BY <1>2, <1>3, <1>4, <1>5, <1>6 DEF Good, Hardware, TimerPending, Programmed, Expiry, SendDone, clock, world
<1> QED BY <1>2, <1>7, <1>8, <1>9 DEF Good

----------------------------------------------------------------------------
(* Timers *)

LEMMA ClockType ==
  ASSUME IInv
  PROVE  /\ timers \in Seq(Timer) /\ Len(timers) \in Nat /\ thead \in 0 .. Len(timers)
         /\ DOMAIN timers = 1 .. Len(timers)
         /\ thead # NULL => thead \in 1 .. Len(timers) /\ Expiry(thead) \in Nat
         /\ now \in Nat /\ cval \in Nat
         /\ stack # <<>> => Arg \in Nat
<1>1. /\ timers \in Seq(Timer) /\ Len(timers) \in Nat /\ thead \in 0 .. Len(timers)
      /\ now \in Nat /\ cval \in Nat
  BY DEF IInv, TypeOK, Timer
<1>2. thead # NULL => thead \in 1 .. Len(timers)
  BY <1>1 DEF NULL
<1>3. \A t \in 1 .. Len(timers) : timers[t].expiry \in Nat
  <2>1. ASSUME NEW t \in 1 .. Len(timers) PROVE timers[t] \in Timer
    BY <1>1
  <2> QED BY <2>1 DEF Timer
<1>4. stack # <<>> => Arg \in Nat
  <2>1. SUFFICES ASSUME stack # <<>> PROVE Arg \in Nat
    OBVIOUS
  <2>2. Head(Top) \in Step
    BY <1>1, <2>1, TopFrame DEF IInv
  <2> QED BY <2>2 DEF Step, Arg
<1> QED BY <1>1, <1>2, <1>3, <1>4 DEF Expiry

\* What setTimeout does to the head of the timer list.
LEMMA Armed ==
  ASSUME IInv, SetTimeout
  PROVE  /\ thead = NULL => tirq'
         /\ tirq => tirq'
         /\ \/ UNCHANGED <<thead, ctl, cval>> /\ (thead # NULL => Expiry(thead)' = Expiry(thead))
            \/ /\ thead' # NULL /\ ctl' /\ cval' = Expiry(thead)' /\ Expiry(thead)' \in Nat
               /\ thead # NULL => Expiry(thead)' < Expiry(thead)
<1> DEFINE e == now + Arg
           new == Len(timers) + 1
<1>0. tirq' = (tirq \/ thead = NULL)
  BY DEF SetTimeout
<1>1. /\ timers \in Seq(Timer) /\ Len(timers) \in Nat /\ DOMAIN timers = 1 .. Len(timers)
      /\ thead # NULL => thead \in 1 .. Len(timers) /\ Expiry(thead) \in Nat
      /\ now \in Nat /\ e \in Nat /\ thead \in 0 .. Len(timers)
  <2>1. stack # <<>>
    BY DEF SetTimeout, At
  <2> QED BY <2>1, ClockType
<1>2. CASE ~Fits(MsgWords + TimerWords)
  <2>1. UNCHANGED <<timers, thead, ctl, cval>>
    BY <1>2 DEF SetTimeout
  <2> QED BY <1>0, <2>1 DEF Expiry
<1>3. CASE Fits(MsgWords + TimerWords) /\ Earliest(e)
  <2>1. AddFirst(new, e)
    BY <1>3 DEF SetTimeout
  <2>2. timers' = Append(timers, [expiry |-> e, next |-> thead])
        /\ thead' = new /\ cval' = e /\ ctl' = TRUE
    BY <2>1 DEF AddFirst
  <2>3. [expiry |-> e, next |-> thead] \in Timer
    BY <1>1 DEF Timer
  <2>4. timers'[new] = [expiry |-> e, next |-> thead]
    BY <1>1, <2>2, <2>3, Appended
  <2>5. thead' # NULL /\ Expiry(thead)' = e
    BY <1>1, <2>2, <2>4 DEF Expiry, NULL
  <2>6. thead # NULL => e < Expiry(thead)
    BY <1>3 DEF Earliest
  <2> QED BY <1>0, <1>1, <2>2, <2>5, <2>6
<1>4. CASE Fits(MsgWords + TimerWords) /\ ~Earliest(e)
  <2>1. PICK c \in DOMAIN timers : AddBehind(c, new, e)
    BY <1>4 DEF SetTimeout
  <2> DEFINE ts == [timers EXCEPT ![c].next = new]
  <2>2. timers' = Append(ts, [expiry |-> e, next |-> timers[c].next])
        /\ UNCHANGED <<thead, cval, ctl>>
    BY <2>1 DEF AddBehind
  <2>3. thead \in 1 .. Len(timers)
    BY <1>1, <1>4 DEF Earliest
  <2>4. /\ ts \in Seq(Timer) /\ Len(ts) = Len(timers)
        /\ \A t \in DOMAIN timers : ts[t].expiry = timers[t].expiry
    <3>1. timers[c] \in Timer /\ new \in Nat
      BY <1>1
    <3> DEFINE x == [timers[c] EXCEPT !.next = new]
    <3>2. x \in Timer /\ x.expiry = timers[c].expiry
      BY <3>1 DEF Timer
    <3>3. ts = [timers EXCEPT ![c] = x]
      OBVIOUS
    <3> HIDE DEF x, ts
    <3> QED BY <1>1, <3>2, <3>3
  <2>5. [expiry |-> e, next |-> timers[c].next] \in Timer
    <3>1. timers[c] \in Timer
      BY <1>1
    <3> QED BY <1>1, <3>1 DEF Timer
  <2> HIDE DEF ts
  <2>6. timers'[thead] = ts[thead]
    BY <1>1, <2>2, <2>3, <2>4, <2>5, Appended
  <2>7. Expiry(thead)' = Expiry(thead)
    BY <1>1, <2>2, <2>3, <2>4, <2>6 DEF Expiry
  <2> QED BY <1>0, <2>2, <2>7
<1> QED BY <1>2, <1>3, <1>4

LEMMA SetTimeoutGood ==
  ASSUME IInv, IInv', RxInv, Good, SetTimeout
  PROVE  Good'
<1>1. At("set") /\ Goto(<<>>) /\ UNCHANGED tasks
  BY DEF SetTimeout, Continue
<1>2. /\ stack' # <<>> /\ Len(stack') = Len(stack) /\ Now = "set"
      /\ Now' \in After(Head(Top))
      /\ Then' = "rxoff" => Now' = "timeroff" \/ Creating(TIMER)'
  BY <1>1, MovesOn
<1>3. Now' \in {"set", "reset"}
  BY <1>1, <1>2 DEF After, At
<1>4. \A p : ~Creating(p)' /\ ~Creating(p)
  BY <1>2, <1>3 DEF Creating
<1>5. \A p : On(tasks, p)' <=> On(tasks, p)
  BY <1>1, SameList
<1>6. Waiting'
  BY <1>1, <1>2, <1>3, <1>4, <1>5 DEF Good, Waiting
<1>7. Ring'
  BY <1>2, <1>3, <1>4, <1>5, <1>6 DEF Good, Waiting, Ring, RxPending, TxPending, SetTimeout, uart
<1>8. Hardware'
  <2>1. TimerPending' <=> TimerPending
    BY <1>2, <1>3, <1>4, <1>5 DEF TimerPending
  <2>2. heap < TaskWords => heap' < TaskWords
    <3>1. heap \in Int /\ heap' \in Int /\ TaskWords \in Int
      BY HeapInt, BoundsAssumption
    <3>2. heap' = heap - MsgWords - TimerWords \/ heap' = heap - MsgWords
      BY DEF SetTimeout
    <3> QED BY <3>1, <3>2, BoundsAssumption
  <2>3. now' = now /\ now \in Nat /\ (thead # NULL => Expiry(thead) \in Nat)
    BY ClockType DEF SetTimeout, world
  <2>4. /\ thead = NULL => tirq'
        /\ tirq => tirq'
        /\ \/ UNCHANGED <<thead, ctl, cval>> /\ (thead # NULL => Expiry(thead)' = Expiry(thead))
           \/ /\ thead' # NULL /\ ctl' /\ cval' = Expiry(thead)' /\ Expiry(thead)' \in Nat
              /\ thead # NULL => Expiry(thead)' < Expiry(thead)
    BY Armed
  <2>5. /\ ctl => thead # NULL
        /\ thead # NULL => Programmed
        /\ TimerPending => thead # NULL /\ Expiry(thead) <= now
        /\ thead # NULL => tirq \/ TimerPending \/ heap < TaskWords
    BY <1>2 DEF Good, Hardware
  <2>6. (ctl' => thead' # NULL) /\ (thead' # NULL => Programmed')
    BY <2>4, <2>5 DEF Programmed
  <2>7. TimerPending' => thead' # NULL /\ Expiry(thead)' <= now'
    BY <2>1, <2>3, <2>4, <2>5
  <2>8. thead' # NULL => tirq' \/ TimerPending' \/ heap' < TaskWords
    BY <2>1, <2>2, <2>4, <2>5
  <2> QED BY <1>3, <2>6, <2>7, <2>8 DEF Hardware
<1> QED BY <1>2, <1>6, <1>7, <1>8 DEF Good

LEMMA NoMessageGood ==
  ASSUME IInv, RxInv, Good, NoMessage
  PROVE  Good'
<1>1. At("set") /\ Goto(<<>>) /\ UNCHANGED tasks
  BY DEF NoMessage, Continue
<1>2. /\ stack' # <<>> /\ Len(stack') = Len(stack) /\ Now = "set"
      /\ Now' \in After(Head(Top))
      /\ Then' = "rxoff" => Now' = "timeroff" \/ Creating(TIMER)'
  BY <1>1, MovesOn
<1>3. Now' \in {"set", "reset"}
  BY <1>1, <1>2 DEF After, At
<1>4. \A p : ~Creating(p)' /\ ~Creating(p)
  BY <1>2, <1>3 DEF Creating
<1>5. \A p : On(tasks, p)' <=> On(tasks, p)
  BY <1>1, SameList
<1>6. Waiting'
  BY <1>1, <1>2, <1>3, <1>4, <1>5 DEF Good, Waiting
<1>7. Ring'
  BY <1>2, <1>3, <1>4, <1>5, <1>6 DEF Good, Waiting, Ring, RxPending, TxPending, NoMessage, uart
<1>8. Hardware'
  BY <1>2, <1>3, <1>4, <1>5 DEF Good, Hardware, TimerPending, Programmed, Expiry, NoMessage, clock, world
<1> QED BY <1>2, <1>6, <1>7, <1>8 DEF Good

LEMMA TimerOnGood ==
  ASSUME IInv, RxInv, Good, TimerOn
  PROVE  Good'
<1>1. At("timer") /\ Goto(<<Do("ctl")>>) /\ UNCHANGED tasks /\ tirq' = TRUE
  BY DEF TimerOn, LetTimerIrq
<1>2. Do("ctl") \in Step /\ After(Head(Top)) \subseteq After(Do("ctl"))
  BY <1>1 DEF At, After, Do, Step, Ops
<1>3. /\ stack' # <<>> /\ Len(stack') = Len(stack) /\ Now = "timer" /\ Now' = "ctl"
      /\ Then' = "rxoff" => Now' = "timeroff" \/ Creating(TIMER)'
  BY <1>1, <1>2, MovesTo DEF Do
<1>4. \A p : ~Creating(p)' /\ ~Creating(p)
  BY <1>3 DEF Creating
<1>5. \A p : On(tasks, p)' <=> On(tasks, p)
  BY <1>1, SameList
<1>6. Waiting'
  BY <1>1, <1>3, <1>4, <1>5 DEF Good, Waiting
<1>7. Ring'
  BY <1>3, <1>4, <1>5, <1>6 DEF Good, Waiting, Ring, RxPending, TxPending, TimerOn, uart
<1>8. Hardware'
  BY <1>1, <1>3, <1>4, <1>5 DEF Good, Waiting, Hardware, TimerPending, Programmed, Expiry, TimerOn, world
<1> QED BY <1>3, <1>6, <1>7, <1>8 DEF Good

LEMMA TimerStopGood ==
  ASSUME IInv, RxInv, Good, TimerStop
  PROVE  Good'
<1>1. At("ctl") /\ Goto(<<DoWith("timers", now)>>) /\ UNCHANGED tasks /\ ctl' = FALSE
  BY DEF TimerStop
<1>2. DoWith("timers", now) \in Step /\ After(Head(Top)) \subseteq After(DoWith("timers", now))
  BY <1>1, ClockType DEF At, After, DoWith, Step, Ops
<1>3. /\ stack' # <<>> /\ Len(stack') = Len(stack) /\ Now = "ctl" /\ Now' = "timers" /\ Arg' = now
      /\ Then' = "rxoff" => Now' = "timeroff" \/ Creating(TIMER)'
  BY <1>1, <1>2, MovesTo DEF DoWith
<1>4. \A p : ~Creating(p)' /\ ~Creating(p)
  BY <1>3 DEF Creating
<1>5. \A p : On(tasks, p)' <=> On(tasks, p)
  BY <1>1, SameList
<1>6. Waiting'
  BY <1>1, <1>3, <1>4, <1>5 DEF Good, Waiting
<1>7. Ring'
  BY <1>3, <1>4, <1>5, <1>6 DEF Good, Waiting, Ring, RxPending, TxPending, TimerStop, uart
<1>8. Hardware'
  BY <1>1, <1>3, <1>4, <1>5 DEF Good, Waiting, Hardware, TimerPending, Programmed, Expiry, TimerStop, world
<1> QED BY <1>3, <1>6, <1>7, <1>8 DEF Good

LEMMA ExpireGoes ==
  ASSUME IInv, RxInv, Expire
  PROVE  /\ stack' # <<>> /\ Now = "timers" /\ Now' = "drop"
         /\ Arg' = thead /\ Top'[2].n = Arg
         /\ Then' = "rxoff" => Now' = "timeroff" \/ Creating(TIMER)'
<1> DEFINE steps == <<DoWith("drop", thead), DoWith("timers", Arg)>>
<1>1. At("timers") /\ Goto(steps)
  BY DEF Expire
<1>2. stack # <<>> /\ Head(Top).op = "timers"
  BY <1>1 DEF At
<1>3. DoWith("drop", thead) \in Step /\ DoWith("timers", Arg) \in Step
  BY <1>2, ClockType DEF DoWith, Step, Ops
<1>4. /\ steps \in Seq(Step) /\ steps # <<>> /\ Len(steps) = 2
      /\ steps[1] = DoWith("drop", thead) /\ steps[2] = DoWith("timers", Arg)
  BY <1>3
<1>5. Linked(steps)
  BY LinkedFew DEF After, DoWith
<1> HIDE DEF steps
<1>6. After(Head(Top)) \subseteq After(steps[Len(steps)])
  BY <1>2, <1>4 DEF After, DoWith
<1>7. /\ stack' # <<>> /\ Now = "timers" /\ Now' = "drop"
      /\ Arg' = thead /\ Top'[2].n = Arg
      /\ Then' = "rxoff" => Now' = "timeroff" \/ Creating(TIMER)'
  <2>1. /\ Head(Top).op # "eret" /\ steps[1].op = "drop" /\ steps[1].n = thead
        /\ steps[2].n = Arg /\ Len(steps) > 1
    BY <1>2, <1>4 DEF DoWith
  <2>2. /\ stack' # <<>> /\ Now' = steps[1].op /\ Arg' = steps[1].n /\ Top'[2] = steps[2]
        /\ Then' = "rxoff" => Now' = "timeroff" \/ Creating(TIMER)'
    BY <1>1, <1>2, <1>4, <1>5, <1>6, <2>1, Moves DEF RxInv
  <2> QED BY <1>2, <2>1, <2>2 DEF Now
<1> QED BY <1>7

LEMMA ExpireGood ==
  ASSUME IInv, RxInv, Good, Expire
  PROVE  Good'
<1>1. At("timers") /\ UNCHANGED tasks
  BY DEF Expire
<1>7. /\ stack' # <<>> /\ Now = "timers" /\ Now' = "drop"
      /\ Then' = "rxoff" => Now' = "timeroff" \/ Creating(TIMER)'
  BY ExpireGoes
<1>8. \A p : ~Creating(p)' /\ ~Creating(p)
  BY <1>7 DEF Creating
<1>9. \A p : On(tasks, p)' <=> On(tasks, p)
  BY <1>1, SameList
<1>10. Waiting'
  BY <1>1, <1>7, <1>8, <1>9 DEF Good, Waiting
<1>11. Ring'
  BY <1>7, <1>8, <1>9, <1>10 DEF Good, Waiting, Ring, RxPending, TxPending, Expire, uart
<1>12. Hardware'
  BY <1>7, <1>8, <1>9 DEF Good, Waiting, Hardware, TimerPending, Programmed, Expiry, Expire, clock
<1> QED BY <1>7, <1>10, <1>11, <1>12 DEF Good

LEMMA DropGood ==
  ASSUME IInv, RxInv, Good, Drop
  PROVE  Good'
<1>1. At("drop") /\ Goto(<<>>) /\ UNCHANGED tasks
  BY DEF Drop, Continue
<1>2. /\ stack' # <<>> /\ Len(stack') = Len(stack) /\ Now = "drop"
      /\ Now' \in After(Head(Top))
      /\ Then' = "rxoff" => Now' = "timeroff" \/ Creating(TIMER)'
  BY <1>1, MovesOn
<1>3. Now' = "timers"
  BY <1>1, <1>2 DEF After, At
<1>4. \A p : ~Creating(p)' /\ ~Creating(p)
  BY <1>2, <1>3 DEF Creating
<1>5. \A p : On(tasks, p)' <=> On(tasks, p)
  BY <1>1, SameList
<1>6. Waiting'
  BY <1>1, <1>2, <1>3, <1>4, <1>5 DEF Good, Waiting
<1>7. Ring'
  BY <1>2, <1>3, <1>4, <1>5, <1>6 DEF Good, Waiting, Ring, RxPending, TxPending, Drop, uart
<1>8. Hardware'
  <2>1. ctl' = (thead' # NULL) /\ (thead' # NULL => cval' = Expiry(thead)') /\ tirq' = tirq /\ tirq
    BY <1>2 DEF Drop, Reprogram, Expiry, Good, Hardware
  <2>2. ~TimerPending'
    BY <1>3, <1>4 DEF TimerPending
  <2> QED BY <1>3, <2>1, <2>2 DEF Hardware, Programmed
<1> QED BY <1>2, <1>6, <1>7, <1>8 DEF Good

LEMMA TimersDoneGood ==
  ASSUME IInv, RxInv, Good, TimersDone
  PROVE  Good'
<1>1. At("timers") /\ Goto(<<>>) /\ UNCHANGED tasks
  BY DEF TimersDone, Continue
<1>2. /\ stack' # <<>> /\ Len(stack') = Len(stack) /\ Now = "timers"
      /\ Now' \in After(Head(Top))
      /\ Then' = "rxoff" => Now' = "timeroff" \/ Creating(TIMER)'
  BY <1>1, MovesOn
<1>3. Now' = "pop"
  BY <1>1, <1>2 DEF After, At
<1>4. \A p : ~Creating(p)' /\ ~Creating(p)
  BY <1>2, <1>3 DEF Creating
<1>5. \A p : On(tasks, p)' <=> On(tasks, p)
  BY <1>1, SameList
<1>6. Waiting'
  BY <1>1, <1>2, <1>3, <1>4, <1>5 DEF Good, Waiting
<1>7. Ring'
  BY <1>2, <1>3, <1>4, <1>5, <1>6 DEF Good, Waiting, Ring, RxPending, TxPending, TimersDone, uart
<1>8. Hardware'
  <2>1. UNCHANGED <<timers, thead, tirq, ctl, cval, now, heap>>
    BY DEF TimersDone, clock, world
  <2>2. ~On(tasks, RX) /\ ~On(tasks, TX)
    BY <1>2, <1>4 DEF Good, Waiting
  <2>3. ~TimerPending'
    BY <1>3, <1>4, <1>5, <2>2 DEF TimerPending
  <2>4. thead # NULL => Programmed
    BY <1>2 DEF Good, Hardware, TimersDone, Due
  <2> QED BY <1>2, <1>3, <2>1, <2>3, <2>4 DEF Good, Hardware, Programmed, Expiry
<1> QED BY <1>2, <1>6, <1>7, <1>8 DEF Good

----------------------------------------------------------------------------
(* The world, interrupts, and all steps together *)

LEMMA WorldGood ==
  ASSUME IInv, Good, World \/ Idle
  PROVE  Good'
<1>1. UNCHANGED <<stack, masked, tasks, rxOn, txOn, out, heap, timers, thead, tirq, ctl, cval>>
  BY DEF World, Tick, CharTime, Idle, vars, cpu, uart, clock, world
<1>2. (\A p : On(tasks, p)' <=> On(tasks, p)) /\ Now' = Now /\ Then' = Then /\ Arg' = Arg
      /\ \A p : Creating(p)' <=> Creating(p)
  BY <1>1, SameList DEF Now, Then, Arg, Creating, Top
<1>3. fifo # <<>> => fifo' # <<>>
  <2>1. CASE fifo' = fifo
    BY <2>1
  <2>2. CASE CharTime /\ fifo' # fifo
    <3>1. PICK c \in Chars : fifo' = Append(fifo, c)
      BY <2>2 DEF CharTime, Arrive
    <3>2. Len(fifo') > 0
      BY <3>1, OutType
    <3> QED BY <3>2
  <2> QED BY <2>1, <2>2 DEF World, Tick, Idle, vars, uart
<1>4. now \in Nat /\ now' \in Nat /\ now <= now'
  <2>1. now \in Nat
    BY ClockType
  <2>2. now' = now \/ now' = now + 1
    BY DEF World, Tick, CharTime, Idle, vars, world
  <2> QED BY <2>1, <2>2
<1>5. Waiting'
  BY <1>1, <1>2 DEF Good, Waiting
<1>6. Ring'
  BY <1>1, <1>2, <1>3 DEF Good, Ring, RxPending, TxPending
<1>7. Hardware'
  <2>1. TimerPending' <=> TimerPending
    BY <1>2 DEF TimerPending
  <2>2. (thead # NULL => Expiry(thead) \in Nat) /\ Expiry(thead)' = Expiry(thead)
    BY <1>1, ClockType DEF Expiry
  <2>3. TimerPending' => thead' # NULL /\ Expiry(thead)' <= now'
    <3>1. TimerPending => thead # NULL /\ Expiry(thead) <= now
      BY DEF Good, Hardware
    <3> QED BY <1>1, <1>4, <2>1, <2>2, <3>1
  <2> QED BY <1>1, <1>2, <2>1, <2>2, <2>3 DEF Good, Hardware, Programmed
<1> QED BY <1>1, <1>5, <1>6, <1>7 DEF Good

LEMMA Pushed ==
  ASSUME NEW S, NEW s \in Seq(S), NEW e \in S, Len(s) > 0
  PROVE  /\ <<e>> \o s \in Seq(S) /\ Len(<<e>> \o s) > 1
         /\ (<<e>> \o s)[1] = e /\ (<<e>> \o s)[2] = s[1]
OBVIOUS

LEMMA HandlerSteps ==
  ASSUME NEW timer \in BOOLEAN, NEW rx \in BOOLEAN
  PROVE  /\ Len(Handler(timer, rx)) > 1
         /\ timer => Handler(timer, rx)[1].op = "timeroff"
         /\ ~timer => Handler(timer, rx)[1].op = IF rx THEN "rxoff" ELSE "clear"
         /\ Handler(timer, rx)[2].op = "rxoff" => timer /\ rx
<1> DEFINE base == <<Do("clear"), Do("tasks"), Do("eret")>>
           mid  == When(rx, "rxoff", base)
           f    == When(timer, "timeroff", mid)
<1>1. \A op \in Ops : Do(op) \in Step /\ Do(op).op = op
  BY DEF Do, Step
<1>2. base \in Seq(Step) /\ Len(base) = 3 /\ base[1].op = "clear" /\ base[2].op = "tasks"
  BY <1>1 DEF Ops
<1> HIDE DEF base
<1>3. /\ mid \in Seq(Step) /\ Len(mid) > 1
      /\ mid[1].op = IF rx THEN "rxoff" ELSE "clear"
      /\ mid[2].op # "rxoff"
  <2>1. CASE rx
    <3>1. mid = <<Do("rxoff")>> \o base
      BY <2>1 DEF When
    <3>2. Do("rxoff") \in Step /\ Do("rxoff").op = "rxoff"
      BY <1>1 DEF Ops
    <3>3. base \in Seq(Step) /\ Len(base) > 0
      BY <1>2
    <3> HIDE DEF mid
    <3> DEFINE g == <<Do("rxoff")>> \o base
    <3>4. g \in Seq(Step) /\ Len(g) > 1 /\ g[1] = Do("rxoff") /\ g[2] = base[1]
      BY <3>2, <3>3, Pushed
    <3>5. mid = g
      BY <3>1
    <3> HIDE DEF g
    <3> QED BY <2>1, <3>2, <3>4, <3>5, <1>2
  <2>2. CASE ~rx
    <3>1. mid = base
      BY <2>2 DEF When
    <3> HIDE DEF mid
    <3>2. Len(mid) > 1
      BY <3>1, <1>2
    <3> QED BY <2>2, <3>1, <3>2, <1>2
  <2> QED BY <2>1, <2>2
<1> HIDE DEF mid
<1>4. /\ Len(f) > 1
      /\ timer => f[1].op = "timeroff" /\ f[2] = mid[1]
      /\ ~timer => f = mid
  <2>1. CASE timer
    <3>1. f = <<Do("timeroff")>> \o mid
      BY <2>1 DEF When
    <3>2. Do("timeroff") \in Step /\ Do("timeroff").op = "timeroff"
      BY <1>1 DEF Ops
    <3>3. mid \in Seq(Step) /\ Len(mid) > 0
      BY <1>3
    <3>4. Len(f) > 1 /\ f[1] = Do("timeroff") /\ f[2] = mid[1]
      BY <3>1, <3>2, <3>3, Pushed
    <3> HIDE DEF f
    <3> QED BY <2>1, <3>2, <3>4
  <2>2. CASE ~timer
    BY <2>2, <1>3 DEF When
  <2> QED BY <2>1, <2>2
<1>5. Handler(timer, rx) = f
  BY DEF Handler, mid, base
<1> HIDE DEF f
<1> QED BY <1>3, <1>4, <1>5

\* The handler that an interrupt starts over main's loop.
LEMMA IrqGoes ==
  ASSUME IInv, Irq, stack = <<>>
  PROVE  /\ stack' # <<>> /\ Now' \in {"timeroff", "rxoff", "clear"}
         /\ TimerLine => Now' = "timeroff"
         /\ ~TimerLine => Now' = IF RxLine THEN "rxoff" ELSE "clear"
         /\ Then' = "rxoff" => TimerLine /\ RxLine
<1> DEFINE f == Handler(TimerLine, RxLine)
<1>1. stack' = <<f>> \o stack
  BY DEF Irq
<1>2. TimerLine \in BOOLEAN /\ RxLine \in BOOLEAN
  BY DEF TimerLine, RxLine, IInv, TypeOK
<1>3. /\ Len(f) > 1
      /\ TimerLine => f[1].op = "timeroff"
      /\ ~TimerLine => f[1].op = IF RxLine THEN "rxoff" ELSE "clear"
      /\ f[2].op = "rxoff" => TimerLine /\ RxLine
  BY <1>2, HandlerSteps
<1>4. f \in Seq(Step)
  BY <1>2, HandlerFrame DEF Frame
<1> HIDE DEF f
<1>5. stack' # <<>> /\ Top' = f
  <2>1. stack' = <<f>>
    BY <1>1, <1>4
  <2> QED BY <2>1 DEF Top
<1>6. /\ Now' = f[1].op /\ Then' = f[2].op
  BY <1>3, <1>4, <1>5 DEF Now, Then
<1>7. Now' \in {"timeroff", "rxoff", "clear"}
  BY <1>3, <1>6
<1> QED BY <1>3, <1>5, <1>6, <1>7

LEMMA IrqGood ==
  ASSUME IInv, RxInv, Good, Irq, stack = <<>>
  PROVE  Good'
<1>1. UNCHANGED tasks
  BY DEF Irq
<1>7. /\ stack' # <<>> /\ Now' \in {"timeroff", "rxoff", "clear"}
      /\ TimerLine => Now' = "timeroff"
      /\ ~TimerLine => Now' = IF RxLine THEN "rxoff" ELSE "clear"
      /\ Then' = "rxoff" => TimerLine /\ RxLine
  BY IrqGoes
<1>8. Now = "idle" /\ Then = "idle" /\ \A p : ~Creating(p)' /\ ~Creating(p)
  BY <1>7 DEF Now, Then, Creating
<1>9. \A p : On(tasks, p)' <=> On(tasks, p)
  BY <1>1, SameList
<1>10. ~On(tasks, RX) /\ ~On(tasks, TX) /\ ~On(tasks, TIMER)
  BY <1>8 DEF Good, Waiting
<1>11. Waiting'
  BY <1>1, <1>7, <1>8, <1>9, <1>10 DEF Good, Waiting
<1>12. Ring'
  <2>1. RxPending' => RxLine
    BY <1>7, <1>8, <1>9, <1>10 DEF RxPending
  <2>2. RxLine => rxOn /\ fifo # <<>>
    BY DEF RxLine
  <2>3. ~TxPending'
    BY <1>8, <1>9, <1>10 DEF TxPending
  <2> QED BY <1>7, <1>8, <1>9, <1>10, <2>1, <2>2, <2>3 DEF Good, Ring, Irq, uart
<1>13. Hardware'
  <2>1. TimerPending' => TimerLine
    BY <1>7, <1>8, <1>9, <1>10 DEF TimerPending
  <2>2. TimerLine => thead # NULL /\ Expiry(thead) <= now
    BY <1>8 DEF TimerLine, Good, Hardware, Programmed
  <2>3. ~TimerPending
    BY <1>8, <1>10 DEF TimerPending
  <2> QED BY <1>7, <1>8, <2>1, <2>2, <2>3 DEF Good, Hardware, Programmed, Expiry, Irq, clock, world
<1> QED BY <1>7, <1>11, <1>12, <1>13 DEF Good

\* Goto leaves the number of frames as it is.
LEMMA GotoDepth ==
  ASSUME IInv, stack # <<>>, NEW steps, Goto(steps)
  PROVE  Len(stack') = Len(stack)
<1> DEFINE g == steps \o Tail(Top)
           S == Seq(Step) \cup {g}
<1>1. stack' = <<g>> \o Tail(stack)
  BY DEF Goto
<1>2. stack \in Seq(S)
  BY DEF IInv, TypeOK
<1>3. g \in S
  OBVIOUS
<1> HIDE DEF S, g
<1>4. Len(Tail(stack)) = Len(stack) - 1 /\ Tail(stack) \in Seq(S) /\ Len(stack) \in Nat
  BY <1>2
<1>5. Len(<<g>> \o Tail(stack)) = 1 + Len(Tail(stack))
  BY <1>3, <1>4
<1> QED BY <1>1, <1>4, <1>5

\* Every step that neither takes an interrupt nor leaves a frame nor ends the
\* program.
LEMMA GoodGoes ==
  ASSUME IInv, IInv', RxInv, halt' = "run",
         [Next]_vars, ~Irq, ~Eret
  PROVE  /\ Good => Good'
         /\ Len(stack') = Len(stack) /\ elr' = elr /\ halt = "run"
<1>1. CASE World \/ Idle
  <2>1. UNCHANGED <<stack, elr, halt>>
    BY <1>1 DEF World, Tick, CharTime, Idle, vars, cpu
  <2> QED BY <1>1, <2>1, WorldGood
<1>2. CASE TimerOff \/ RxOff \/ Create \/ Clear
  <2>1. At("timeroff") \/ At("rxoff") \/ At("create") \/ At("clear")
    BY <1>2 DEF TimerOff, RxOff, Create, Clear
  <2>2. elr' = elr /\ \E steps : Goto(steps)
    BY <1>2 DEF TimerOff, RxOff, Create, Clear, Continue
  <2>3. Good => Good'
    BY <1>2, TimerOffGood, RxOffGood, CreateGood, ClearGood
  <2> QED BY <2>1, <2>2, <2>3, GotoDepth DEF At
<1>3. CASE RunTask \/ TasksDone \/ Pop \/ Mask
  <2>1. At("tasks") \/ At("pop") \/ At("mask")
    BY <1>3 DEF RunTask, TasksDone, Pop, Mask
  <2>2. elr' = elr /\ \E steps : Goto(steps)
    BY <1>3 DEF RunTask, TasksDone, Pop, Mask, Continue
  <2>3. Good => Good'
    BY <1>3, RunTaskGood, TasksDoneGood, PopGood, MaskGood
  <2> QED BY <2>1, <2>2, <2>3, GotoDepth DEF At
<1>4. CASE Receive \/ Transmit \/ Reset \/ SendDone
  <2>1. At("rx") \/ At("tx") \/ At("reset") \/ At("send")
    BY <1>4 DEF Receive, Transmit, Reset, SendDone
  <2>2. elr' = elr /\ \E steps : Goto(steps)
    BY <1>4 DEF Receive, Transmit, Reset, SendDone, Continue
  <2>3. Good => Good'
    BY <1>4, ReceiveGood, TransmitGood, ResetGood, SendDoneGood
  <2> QED BY <2>1, <2>2, <2>3, GotoDepth DEF At
<1>5. CASE SendMore \/ SendLast
  <2>1. At("send") /\ UNCHANGED <<stack, elr>>
    BY <1>5 DEF SendMore, SendLast, Send
  <2> QED BY <1>5, <2>1, SendGood DEF At
<1>6. CASE SendLine
  <2>1. At("send") /\ elr' = elr /\ \E steps : Goto(steps)
    BY <1>6 DEF SendLine, Send
  <2> QED BY <1>6, <2>1, SendLineGood, GotoDepth DEF At
<1>7. CASE SetTimeout \/ NoMessage \/ TimerOn \/ TimerStop
  <2>1. At("set") \/ At("timer") \/ At("ctl")
    BY <1>7 DEF SetTimeout, NoMessage, TimerOn, TimerStop
  <2>2. elr' = elr /\ \E steps : Goto(steps)
    BY <1>7 DEF SetTimeout, NoMessage, TimerOn, TimerStop, Continue
  <2>3. Good => Good'
    BY <1>7, SetTimeoutGood, NoMessageGood, TimerOnGood, TimerStopGood
  <2> QED BY <2>1, <2>2, <2>3, GotoDepth DEF At
<1>8. CASE Expire \/ Drop \/ TimersDone
  <2>1. At("timers") \/ At("drop")
    BY <1>8 DEF Expire, Drop, TimersDone
  <2>2. elr' = elr /\ \E steps : Goto(steps)
    BY <1>8 DEF Expire, Drop, TimersDone, Continue
  <2>3. Good => Good'
    BY <1>8, ExpireGood, DropGood, TimersDoneGood
  <2> QED BY <2>1, <2>2, <2>3, GotoDepth DEF At
<1>9. CASE UNCHANGED vars
  <2>1. Idle \/ (UNCHANGED vars)
    BY <1>9
  <2>2. UNCHANGED <<stack, elr, halt>>
    BY <1>9 DEF vars, cpu
  <2>3. Good => Good'
    BY <1>9 DEF vars, cpu, uart, clock, world, Good, Waiting, Ring, Hardware, Now, Then, Creating,
               On, Strict, RxPending, TxPending, TimerPending, Programmed, Expiry, Arg, Top
  <2> QED BY <2>2, <2>3
<1>10. ~EretAstray /\ ~PopNull /\ ~SendExec
  BY DEF EretAstray, PopNull, SendExec
<1> QED BY <1>1, <1>2, <1>3, <1>4, <1>5, <1>6, <1>7, <1>8, <1>9, <1>10
        DEF Next, Kernel, Dispatch, Drain, Echo, Alarm

\* Every step keeps the invariant: an interrupt from main's loop is clean, one
\* from inside a handler makes it Nested for good.
LEMMA KeepsC ==
  ASSUME IInv, IInv', RxInv, CInv, [Next]_vars
  PROVE  CInv'
<1>0. /\ stack \in Seq(Seq(Step)) /\ Len(stack) \in Nat /\ elr \in Nat
      /\ stack' \in Seq(Seq(Step)) /\ Len(stack') \in Nat /\ elr' \in Nat
  <2>1. stack \in Seq(Seq(Step)) /\ elr \in Nat
    BY DEF IInv, TypeOK
  <2>2. stack' \in Seq(Seq(Step)) /\ elr' \in Nat
    BY DEF IInv, TypeOK
  <2> QED BY <2>1, <2>2
<1>1. CASE Irq
  <2>1. stack' = <<Handler(TimerLine, RxLine)>> \o stack /\ elr' = Len(stack) /\ halt = "run"
    BY <1>1 DEF Irq
  <2>2. Len(stack') = Len(stack) + 1
    <3>1. Handler(TimerLine, RxLine) \in Seq(Step)
      BY HandlerFrame DEF Frame, TimerLine, RxLine, IInv, TypeOK
    <3> QED BY <1>0, <2>1, <3>1
  <2>3. CASE stack = <<>>
    <3>1. Len(stack) = 0 /\ Clean'
      BY <1>0, <2>1, <2>2, <2>3 DEF Clean
    <3>2. Good
      BY <1>0, <2>1, <3>1 DEF CInv, Clean, Nested
    <3> QED BY <1>1, <2>3, <3>1, <3>2, IrqGood DEF CInv
  <2>4. CASE stack # <<>>
    <3>1. Nested' /\ ~Clean'
      BY <1>0, <2>1, <2>2, <2>4 DEF Clean, Nested
    <3> QED BY <3>1 DEF CInv
  <2> QED BY <2>3, <2>4
<1>2. CASE Eret
  <2>1. stack # <<>> /\ stack' = Tail(stack) /\ elr = Len(stack) - 1 /\ elr' = elr /\ halt = "run"
    BY <1>2 DEF Eret, At
  <2>2. Len(stack') = Len(stack) - 1
    BY <1>0, <2>1
  <2>3. CASE Clean
    <3>1. Good /\ Len(stack) <= 1 /\ Clean'
      BY <1>0, <2>1, <2>2, <2>3 DEF CInv, Clean
    <3> QED BY <1>2, <3>1, EretGood DEF CInv
  <2>4. CASE Nested
    <3>1. Nested' /\ ~Clean'
      BY <1>0, <2>1, <2>2, <2>4 DEF Clean, Nested
    <3> QED BY <3>1 DEF CInv
  <2> QED BY <2>3, <2>4 DEF CInv
<1>3. CASE ~Irq /\ ~Eret /\ halt' = "run"
  <2>1. (Good => Good') /\ Len(stack') = Len(stack) /\ elr' = elr /\ halt = "run"
    BY <1>3, GoodGoes
  <2>2. (Clean' <=> Clean) /\ (Nested' <=> Nested)
    BY <2>1 DEF Clean, Nested
  <2> QED BY <2>1, <2>2 DEF CInv
<1>4. CASE ~Irq /\ ~Eret /\ halt' # "run"
  <2>1. CASE halt = "run"
    <3>1. UNCHANGED <<stack, elr>>
      <4>1. EretAstray \/ PopNull \/ SendExec
        BY <1>4, <2>1 DEF Next, World, Tick, CharTime, Kernel, Dispatch, Drain, Echo, Alarm, Idle,
           TimerOff, RxOff, Create, Clear, RunTask, TasksDone, Pop, Mask, Receive, Transmit,
           SendMore, SendLast, SendLine, Reset, SendDone, SetTimeout, NoMessage, TimerOn,
           TimerStop, Expire, Drop, TimersDone, vars, cpu
      <4> QED BY <4>1 DEF EretAstray, PopNull, SendExec, Send
    <3> QED BY <1>4, <3>1 DEF CInv, Clean, Nested
  <2>2. CASE halt # "run"
    <3>1. UNCHANGED <<stack, elr>>
      BY <1>4, <2>2 DEF Next, World, Tick, CharTime, Kernel, Dispatch, Drain, Echo, Alarm, Idle, At,
           TimerOff, RxOff, Create, Clear, RunTask, TasksDone, Pop, Mask, Receive, Transmit, Send,
           SendMore, SendLast, SendLine, SendExec, Reset, SendDone, SetTimeout, NoMessage, TimerOn,
           TimerStop, Expire, Drop, TimersDone, EretAstray, PopNull, vars, cpu
    <3> QED BY <1>4, <3>1 DEF CInv, Clean, Nested
  <2> QED BY <2>1, <2>2
<1> QED BY <1>1, <1>2, <1>3, <1>4

LEMMA CleanStarts == Init => CInv
<1>1. SUFFICES ASSUME Init PROVE CInv
  OBVIOUS
<1>2. stack = <<>> /\ tasks = <<>> /\ out = <<>> /\ thead = NULL /\ Len(stack) = 0 /\ elr = 0
      /\ rxOn = TRUE /\ txOn = FALSE /\ ctl = FALSE /\ masked = FALSE
  BY <1>1 DEF Init
<1>3. Now = "idle" /\ Then = "idle" /\ (\A p : ~Creating(p)) /\ (\A p : ~On(tasks, p))
      /\ Strict(tasks)
  BY <1>2, NoTask DEF Now, Then, Creating, Strict
<1>4. Waiting /\ Ring /\ Hardware
  BY <1>2, <1>3 DEF Waiting, Ring, Hardware, RxPending, TxPending, TimerPending
<1> QED BY <1>2, <1>4 DEF CInv, Clean, Good

\* What holds besides the shape of the frames, as long as no interrupt was taken
\* inside another one.
THEOREM CleanInvariant == Spec => [](IInv /\ RxInv /\ CInv)
<1>1. Init => IInv /\ RxInv /\ CInv
  BY RxStarts, CleanStarts
<1>2. IInv /\ RxInv /\ CInv /\ [Next]_vars => (IInv /\ RxInv /\ CInv)'
  BY Keeps, KeepsRx, KeepsC
<1> QED BY <1>1, <1>2, PTL DEF Spec

\* Whenever main's loop runs, interrupts are enabled, the receive interrupt is
\* on and the hardware timer is set to the earliest timer, or simple_malloc has
\* run out.
THEOREM AlwaysRearmed == Spec => []Rearmed
<1>1. ASSUME IInv, RxInv, CInv, RxNeverLost PROVE Rearmed
  <2>1. SUFFICES ASSUME halt = "run", stack = <<>>
        PROVE /\ ~masked /\ ~txOn
              /\ heap >= TaskWords =>
                   /\ rxOn
                   /\ thead # NULL => tirq /\ ctl /\ cval = Expiry(thead)
    BY DEF Rearmed
  <2>2. Good
    BY <1>1, <2>1 DEF CInv, Nested
  <2>3. Now = "idle" /\ (\A p : ~Creating(p))
    BY <2>1 DEF Now, Creating
  <2>4. ~On(tasks, RX) /\ ~On(tasks, TX) /\ ~On(tasks, TIMER) /\ ~TimerPending
    BY <2>2, <2>3 DEF Good, Waiting, TimerPending
  <2>5. tasks = <<>>
    BY <1>1, <2>4, OnEmpty DEF Jobs, IInv, TypeOK
  <2>6. ~RxComing
    BY <2>1, <2>5 DEF RxComing
  <2>7. (heap >= TaskWords) => ~(heap < TaskWords)
    BY <1>1, BoundsAssumption DEF IInv, TypeOK
  <2>8. heap >= TaskWords => rxOn
    BY <1>1, <2>1, <2>6, <2>7 DEF RxNeverLost
  <2>9. ~masked /\ ~txOn
    BY <2>1, <2>2, <2>3 DEF Good, Ring
  <2>10. heap >= TaskWords => (thead # NULL => tirq /\ ctl /\ cval = Expiry(thead))
    BY <2>2, <2>3, <2>4, <2>7 DEF Good, Hardware, Programmed
  <2> QED BY <2>8, <2>9, <2>10
<1> QED BY <1>1, CleanInvariant, ReceiveNeverLost, PTL

----------------------------------------------------------------------------
(* Nothing typed is lost, doubled or reordered *)

\* 1 while the character at the head of the ring is one that was typed.
InRing == IF out = <<>> \/ out[1] = "lf" THEN 0 ELSE 1

\* What was typed is what was sent, then the ring, then the FIFO.
Lossless ==
  /\ Len(input) = Len(echoed) + InRing + Len(fifo)
  /\ \A i \in 1 .. Len(echoed) : input[i] = echoed[i]
  /\ InRing = 1 => input[Len(echoed) + 1] = out[1]
  /\ \A i \in 1 .. Len(fifo) : input[Len(echoed) + InRing + i] = fifo[i]

\* The inductive invariant: what it says of the console is said of the time
\* before an interrupt is taken inside another one.
EchoInv == IInv /\ RxInv /\ CInv /\ (elr = 0 => Lossless)

\* That time is over for good once it is over.
LEMMA StillClean ==
  ASSUME IInv, CInv, [Next]_vars, elr' = 0
  PROVE  elr = 0 /\ Len(stack) <= 1 /\ (halt = "run" => Good)
<1>0. stack \in Seq(Seq(Step)) /\ Len(stack) \in Nat /\ elr \in Nat
  BY DEF IInv, TypeOK
<1>1. ~Nested
  <2>1. CASE Irq
    <3>1. Len(stack) = 0
      BY <2>1 DEF Irq
    <3> QED BY <3>1 DEF Nested
  <2>2. CASE ~Irq
    <3>1. elr' = elr
      BY <2>2 DEF Next, World, Tick, CharTime, Kernel, Dispatch, Drain, Echo, Alarm, Idle,
         TimerOff, RxOff, Create, Clear, RunTask, TasksDone, Pop, Mask, Receive, Transmit, Send,
         SendMore, SendLast, SendLine, SendExec, Reset, SendDone, SetTimeout, NoMessage, TimerOn,
         TimerStop, Expire, Drop, TimersDone, Eret, EretAstray, PopNull, vars, cpu
    <3> QED BY <1>0, <3>1 DEF Nested
  <2> QED BY <2>1, <2>2
<1> QED BY <1>1 DEF CInv, Clean

LEMMA SeqTypes ==
  ASSUME IInv
  PROVE  /\ input \in Seq(Chars) /\ fifo \in Seq(Chars) /\ echoed \in Seq(Chars \cup {Junk})
         /\ out \in Seq(Chars \cup {"lf", Junk}) /\ InRing \in 0 .. 1
         /\ Len(input) \in Nat /\ Len(fifo) \in Nat /\ Len(echoed) \in Nat /\ Len(out) \in Nat
<1>1. /\ input \in Seq(Chars) /\ fifo \in Seq(Chars) /\ echoed \in Seq(Chars \cup {Junk})
      /\ out \in Seq(Chars \cup {"lf", Junk})
  BY DEF IInv, TypeOK
<1>2. InRing \in 0 .. 1
  BY DEF InRing
<1> QED BY <1>1, <1>2

LEMMA ArriveLossless ==
  ASSUME IInv, Lossless, CharTime,
         NEW c \in Chars, input' = Append(input, c), fifo' = Append(fifo, c)
  PROVE  Lossless'
<1> DEFINE e == Len(echoed)
           k == InRing
<1>1. /\ input' = Append(input, c) /\ fifo' = Append(fifo, c) /\ echoed' = echoed /\ InRing' = k
  BY DEF CharTime, InRing
<1>2. /\ input \in Seq(Chars) /\ fifo \in Seq(Chars) /\ k \in 0 .. 1
      /\ Len(input) \in Nat /\ Len(fifo) \in Nat /\ e \in Nat
  BY SeqTypes
<1>3. /\ Len(input') = Len(input) + 1 /\ input'[Len(input) + 1] = c
      /\ \A i \in 1 .. Len(input) : input'[i] = input[i]
      /\ Len(fifo') = Len(fifo) + 1 /\ fifo'[Len(fifo) + 1] = c
      /\ \A i \in 1 .. Len(fifo) : fifo'[i] = fifo[i]
  BY <1>1, <1>2, Appended
<1>4. /\ Len(input) = e + k + Len(fifo)
      /\ \A i \in 1 .. e : input[i] = echoed[i]
      /\ k = 1 => input[e + 1] = out[1]
      /\ \A i \in 1 .. Len(fifo) : input[e + k + i] = fifo[i]
  BY DEF Lossless
<1>5. e' = e /\ k' = k /\ out' = out
  BY <1>1 DEF CharTime
<1> HIDE DEF e, k
<1>6. Len(input') = e + k + Len(fifo')
  <2>1. Len(input) + 1 = e + k + (Len(fifo) + 1)
    BY <1>2, <1>4
  <2> QED BY <2>1, <1>3
<1>7. \A i \in 1 .. e : input'[i] = echoed[i]
  BY <1>2, <1>3, <1>4
<1>8. k = 1 => input'[e + 1] = out[1]
  BY <1>2, <1>3, <1>4
<1>9. ASSUME NEW i \in 1 .. Len(fifo')
      PROVE  input'[e + k + i] = fifo'[i]
  <2>1. CASE i \in 1 .. Len(fifo)
    BY <2>1, <1>2, <1>3, <1>4
  <2>2. CASE i = Len(fifo) + 1
    BY <2>2, <1>2, <1>3, <1>4
  <2>3. Len(fifo') = Len(fifo) + 1 /\ Len(fifo) \in Nat
    BY <1>2, <1>3
  <2>4. i \in 1 .. Len(fifo) \/ i = Len(fifo) + 1
    BY <2>3
  <2> QED BY <2>1, <2>2, <2>4
<1>10. Len(echoed') = e
  BY <1>1 DEF e
<1>11. InRing' = k
  BY <1>1
<1> QED BY <1>1, <1>5, <1>6, <1>7, <1>8, <1>9, <1>10, <1>11 DEF Lossless

LEMMA ReceiveLossless ==
  ASSUME IInv, Good, Lossless, Receive
  PROVE  Lossless'
<1>1. On(tasks, RX) /\ fifo # <<>> /\ out = <<>>
  <2>1. Now = "rx"
    BY DEF Receive, At, Now
  <2> QED BY <2>1 DEF Good, Waiting, Ring, RxPending
<1>2. /\ out' = Append(out, Head(fifo)) /\ fifo' = Tail(fifo) /\ UNCHANGED <<input, echoed>>
  BY <1>1 DEF Receive, world
<1>3. /\ input \in Seq(Chars) /\ fifo \in Seq(Chars) /\ echoed \in Seq(Chars \cup {Junk})
      /\ Len(input) \in Nat /\ Len(fifo) \in Nat /\ Len(echoed) \in Nat
  BY SeqTypes
<1>4. /\ Len(fifo) > 0 /\ Head(fifo) = fifo[1] /\ fifo[1] \in Chars
      /\ Len(fifo') = Len(fifo) - 1 /\ \A i \in 1 .. Len(fifo) - 1 : fifo'[i] = fifo[i + 1]
  BY <1>1, <1>2, <1>3
<1>5. InRing = 0 /\ InRing' = 1 /\ out'[1] = fifo[1]
  <2>1. out' = Append(<<>>, fifo[1])
    BY <1>1, <1>2, <1>4
  <2>2. out' = <<fifo[1]>>
    BY <2>1
  <2>3. fifo[1] # "lf"
    BY <1>4 DEF Chars
  <2> QED BY <1>1, <2>2, <2>3 DEF InRing
<1>6. /\ Len(input) = Len(echoed) + Len(fifo)
      /\ \A i \in 1 .. Len(echoed) : input[i] = echoed[i]
      /\ \A i \in 1 .. Len(fifo) : input[Len(echoed) + i] = fifo[i]
  BY <1>3, <1>5 DEF Lossless
<1>7. Len(input) = Len(echoed) + 1 + Len(fifo')
  BY <1>3, <1>4, <1>6
<1>8. input[Len(echoed) + 1] = out'[1]
  BY <1>3, <1>4, <1>5, <1>6
<1>9. ASSUME NEW i \in 1 .. Len(fifo')
      PROVE  input[Len(echoed) + 1 + i] = fifo'[i]
  <2>1. i + 1 \in 1 .. Len(fifo) /\ i \in 1 .. Len(fifo) - 1 /\ Len(echoed) + (i + 1) = Len(echoed) + 1 + i
    BY <1>3, <1>4
  <2> QED BY <2>1, <1>4, <1>6
<1> QED BY <1>2, <1>5, <1>6, <1>7, <1>8, <1>9 DEF Lossless

\* The next character is written, and the transmit FIFO has room or not.
NextEcho ==
  /\ Len(echoed) < Len(input)
  /\ LET c == input[Len(echoed) + 1]
     IN /\ echoed' = Append(echoed, c)
        /\ shown' = IF tx < TxFifo THEN Append(shown, c) ELSE shown
  /\ UNCHANGED lost

LEMMA OneOrMore == ASSUME NEW n \in Nat, n > 0 PROVE n = 1 \/ n > 1
OBVIOUS

LEMMA SendLossless ==
  ASSUME IInv, Good, Lossless, Send
  PROVE  /\ Lossless'
         /\ UNCHANGED input
         /\ \/ UNCHANGED <<lost, echoed, shown>>
            \/ NextEcho
<1>1. /\ out # <<>> /\ Len(out) \in Nat /\ Head(out) = out[1]
      /\ Len(out) = 1 => out' = <<>>
      /\ Len(out) > 1 => Len(out') = 1 /\ out'[1] = "lf"
  BY SendFacts
<1>2. /\ echoed' = IF out[1] = "lf" THEN echoed ELSE Append(echoed, out[1])
      /\ shown' = IF out[1] = "lf" \/ tx >= TxFifo THEN shown ELSE Append(shown, out[1])
      /\ UNCHANGED <<input, fifo, lost>>
  BY <1>1 DEF Send
<1>a. tx >= TxFifo <=> ~(tx < TxFifo)
  BY BoundsAssumption DEF IInv, TypeOK
<1>3. /\ input \in Seq(Chars) /\ echoed \in Seq(Chars \cup {Junk})
      /\ out \in Seq(Chars \cup {"lf", Junk})
      /\ Len(input) \in Nat /\ Len(fifo) \in Nat /\ Len(echoed) \in Nat
  BY SeqTypes
<1>4. InRing' = 0
  <2>0. Len(out) > 0
    BY <1>1, <1>3
  <2>1. Len(out) = 1 \/ Len(out) > 1
    BY <1>1, <2>0, OneOrMore
  <2> QED BY <1>1, <2>1 DEF InRing
<1>5. CASE out[1] = "lf"
  <2>1. InRing = 0 /\ echoed' = echoed /\ shown' = shown
    BY <1>2, <1>5 DEF InRing
  <2> QED BY <1>2, <1>4, <2>1 DEF Lossless
<1>6. CASE out[1] # "lf"
  <2>1. InRing = 1 /\ echoed' = Append(echoed, out[1])
    BY <1>1, <1>2, <1>6 DEF InRing
  <2>2. out[1] \in Chars \cup {Junk}
    <3>1. out[1] \in Chars \cup {"lf", Junk}
      BY <1>1, <1>3
    <3> QED BY <3>1, <1>6
  <2>3. /\ Len(echoed') = Len(echoed) + 1 /\ echoed'[Len(echoed) + 1] = out[1]
        /\ \A i \in 1 .. Len(echoed) : echoed'[i] = echoed[i]
    BY <1>3, <2>1, <2>2, Appended
  <2>4. /\ Len(input) = Len(echoed) + 1 + Len(fifo)
        /\ \A i \in 1 .. Len(echoed) : input[i] = echoed[i]
        /\ input[Len(echoed) + 1] = out[1]
        /\ \A i \in 1 .. Len(fifo) : input[Len(echoed) + 1 + i] = fifo[i]
    BY <2>1 DEF Lossless
  <2>5. Len(input) = Len(echoed') + Len(fifo) /\ Len(echoed) < Len(input)
    BY <1>3, <2>3, <2>4
  <2>6. \A i \in 1 .. Len(echoed') : input[i] = echoed'[i]
    <3>1. ASSUME NEW i \in 1 .. Len(echoed') PROVE input[i] = echoed'[i]
      <4>1. i \in 1 .. Len(echoed) \/ i = Len(echoed) + 1
        BY <1>3, <2>3
      <4> QED BY <4>1, <2>3, <2>4
    <3> QED BY <3>1
  <2>7. \A i \in 1 .. Len(fifo) : input[Len(echoed') + i] = fifo[i]
    BY <2>3, <2>4
  <2>8. Lossless'
    <3>1. /\ Len(input') = Len(echoed') + InRing' + Len(fifo')
          /\ \A i \in 1 .. Len(fifo') : input'[Len(echoed') + InRing' + i] = fifo'[i]
      <4>1. Len(echoed') + InRing' = Len(echoed')
        BY <1>3, <1>4, <2>3
      <4> QED BY <1>2, <2>5, <2>7, <4>1
    <3> QED BY <1>2, <1>4, <2>6, <3>1 DEF Lossless
  <2>9. NextEcho
    BY <1>2, <1>6, <1>a, <2>1, <2>4, <2>5 DEF NextEcho
  <2> QED BY <1>2, <2>8, <2>9
<1> QED BY <1>5, <1>6

\* Steps that touch none of the four sequences, or only what follows the head
\* of the ring.
LEMMA StaysLossless ==
  ASSUME Lossless, UNCHANGED <<input, echoed, fifo>>, InRing' = InRing,
         InRing = 1 => out'[1] = out[1]
  PROVE  Lossless'
BY DEF Lossless

LEMMA TransmitRing ==
  ASSUME IInv, Good, Transmit
  PROVE  out'[1] = out[1] /\ InRing' = InRing /\ out # <<>>
<1>1. Now = "tx"
  BY DEF Transmit, At, Now
<1>2. On(tasks, TX) /\ Len(out) = 1 /\ out \in Seq(Chars \cup {"lf", Junk})
  BY <1>1, SeqTypes DEF Good, Waiting, Ring, TxPending
<1>3. out # <<>>
  BY <1>2
<1>4. CASE out' = out
  BY <1>3, <1>4 DEF InRing
<1>5. CASE out' = Append(out, "lf")
  <2>1. "lf" \in Chars \cup {"lf", Junk}
    OBVIOUS
  <2>2. Len(out') = 2 /\ out'[1] = out[1]
    BY <1>2, <1>5, <2>1, AppendOne
  <2>3. out' # <<>>
    BY <2>2
  <2> QED BY <1>3, <2>2, <2>3 DEF InRing
<1> QED BY <1>4, <1>5 DEF Transmit

\* What a step that writes leaves in the transmit FIFO.
LEMMA TxAfter ==
  ASSUME IInv, SendMore \/ SendLast \/ SendLine \/ SendExec
  PROVE  tx' \in Terminal!Written .. TxFifo /\ tx' \in tx .. TxFifo
<1>1. tx \in 0 .. TxFifo /\ TxFifo \in Nat
  BY BoundsAssumption DEF IInv, TypeOK
<1>2. Terminal!Written = Written /\ Written \in tx .. TxFifo
  BY <1>1 DEF Terminal!Written, Written
<1>3. tx' \in Written .. TxFifo
  BY <1>1, <1>2 DEF SendMore, SendLast, SendLine, SendExec, Prints
<1> QED BY <1>1, <1>2, <1>3

\* A step of the program is a step of the console or leaves it alone.
LEMMA EchoStep ==
  ASSUME EchoInv, [Next]_vars, elr' = 0
  PROVE  Lossless' /\ [Terminal!Next]_<<input, lost, echoed, shown, tx>>
<1> DEFINE console == <<input, lost, echoed, shown, tx>>
<1>0. IInv /\ Lossless /\ (halt = "run" => Good)
  BY StillClean DEF EchoInv
<1>2. CASE CharTime
  <2>1. CASE \E c \in Chars : Arrive(c)
    <3>1. PICK c \in Chars : Arrive(c)
      BY <2>1
    <3>2. /\ Len(input) = Len(echoed) + InRing + Len(fifo) /\ InRing \in 0 .. 1
          /\ Len(input) \in Nat /\ Len(fifo) \in Nat /\ Len(echoed) \in Nat /\ Fifo \in Nat
      BY <1>0, SeqTypes, BoundsAssumption DEF Lossless
    <3>3. CASE Len(fifo) < Fifo
      <4>1. input' = Append(input, c) /\ fifo' = Append(fifo, c) /\ lost' = lost
        BY <3>1, <3>2, <3>3 DEF Arrive
      <4>2. Len(input) - Len(echoed) <= Fifo
        BY <3>2, <3>3
      <4>3. Terminal!Arrive(c)
        BY <4>1, <4>2 DEF Terminal!Arrive, Terminal!Waiting
      <4>4. Terminal!CharTime
        BY <1>2, <4>3 DEF CharTime, Terminal!CharTime
      <4> QED BY <1>0, <1>2, <4>1, <4>4, ArriveLossless DEF Terminal!Next
    <3>4. CASE ~(Len(fifo) < Fifo)
      <4>1. lost' = lost + 1 /\ UNCHANGED <<input, fifo>>
        BY <3>1, <3>2, <3>4 DEF Arrive
      <4>2. Len(input) - Len(echoed) >= Fifo
        BY <3>2, <3>4
      <4>3. Terminal!Arrive(c)
        BY <4>1, <4>2 DEF Terminal!Arrive, Terminal!Waiting
      <4>4. Terminal!CharTime
        BY <1>2, <4>3 DEF CharTime, Terminal!CharTime
      <4>5. Lossless'
        BY <1>0, <1>2, <4>1, StaysLossless DEF CharTime, InRing
      <4> QED BY <4>4, <4>5 DEF Terminal!Next
    <3> QED BY <3>3, <3>4
  <2>2. CASE UNCHANGED <<input, fifo, lost>>
    <3>1. Lossless'
      BY <1>0, <1>2, <2>2, StaysLossless DEF CharTime, InRing
    <3>2. Terminal!CharTime
      BY <1>2, <2>2 DEF CharTime, Terminal!CharTime
    <3> QED BY <3>1, <3>2 DEF Terminal!Next
  <2> QED BY <1>2, <2>1, <2>2 DEF CharTime
<1>3. CASE Receive
  <2>1. UNCHANGED console /\ Good
    BY <1>0, <1>3 DEF Receive, At, world
  <2> QED BY <1>0, <1>3, <2>1, ReceiveLossless
<1>4. CASE SendMore \/ SendLast \/ SendLine \/ SendExec
  <2>1. Send /\ Good
    BY <1>0, <1>4 DEF SendMore, SendLast, SendLine, SendExec, Send, At
  <2>2. /\ Lossless' /\ UNCHANGED input
        /\ UNCHANGED <<lost, echoed, shown>> \/ NextEcho
    BY <1>0, <2>1, SendLossless
  <2>3. tx' \in Terminal!Written .. TxFifo /\ tx' \in tx .. TxFifo
    BY <1>0, <1>4, TxAfter
  <2>4. CASE UNCHANGED <<lost, echoed, shown>>
    BY <2>2, <2>3, <2>4 DEF Terminal!Next, Terminal!Text
  <2>5. CASE NextEcho
    <3>1. Terminal!Waiting > 0
      BY <1>0, <2>5, SeqTypes DEF NextEcho, Terminal!Waiting
    <3> QED BY <2>2, <2>3, <2>5, <3>1 DEF NextEcho, Terminal!Next, Terminal!Echo
  <2> QED BY <2>2, <2>4, <2>5
<1>5. CASE Transmit
  <2>1. UNCHANGED console /\ UNCHANGED fifo /\ Good
    BY <1>0, <1>5 DEF Transmit, At, world
  <2> QED BY <1>0, <1>5, <2>1, TransmitRing, StaysLossless
<1>6. CASE Reset
  <2>1. UNCHANGED console /\ UNCHANGED fifo /\ Good /\ Now = "reset" /\ out' = <<>>
    BY <1>0, <1>6 DEF Reset, At, world, Now
  <2>2. out = <<>>
    BY <2>1 DEF Good, Ring
  <2> QED BY <1>0, <2>1, <2>2, StaysLossless DEF InRing
<1>7. CASE UNCHANGED <<input, lost, echoed, shown, fifo, out>> /\ tx' = tx
  BY <1>0, <1>7, StaysLossless DEF InRing
<1>8. CASE Tick \/ Dispatch \/ Drain \/ SendDone \/ Idle \/ UNCHANGED vars
  <2>1. UNCHANGED <<input, lost, echoed, shown, fifo, out>> /\ tx' = tx
    <3>1. CASE Tick \/ Idle \/ UNCHANGED vars
      BY <3>1 DEF Tick, Idle, vars, uart, world
    <3>2. CASE Dispatch
      BY <3>2 DEF Dispatch, Irq, TimerOff, RxOff, Create, Clear, Eret, EretAstray, uart, world
    <3>3. CASE Drain
      BY <3>3 DEF Drain, RunTask, TasksDone, Pop, PopNull, Mask, uart, world
    <3>4. CASE SendDone
      BY <3>4 DEF SendDone, world
    <3> QED BY <1>8, <3>1, <3>2, <3>3, <3>4
  <2> QED BY <1>7, <2>1
<1>9. CASE Alarm
  <2>1. CASE Expire
    <3>1. UNCHANGED <<input, lost, echoed, shown, fifo, out>> /\ tx' \in tx .. TxFifo
      BY <2>1 DEF Expire, Prints
    <3>2. Lossless'
      BY <1>0, <3>1, StaysLossless DEF InRing
    <3> QED BY <3>1, <3>2 DEF Terminal!Next, Terminal!Text
  <2>2. CASE ~Expire
    <3>1. UNCHANGED <<input, lost, echoed, shown, fifo, out>> /\ tx' = tx
      BY <1>9, <2>2 DEF Alarm, SetTimeout, NoMessage, TimerOn, TimerStop, Drop, TimersDone,
                        uart, world
    <3> QED BY <1>7, <3>1
  <2> QED BY <2>1, <2>2
<1> QED BY <1>2, <1>3, <1>4, <1>5, <1>6, <1>8, <1>9 DEF Next, World, Kernel, Echo

\* As long as no interrupt has been taken inside another one, the console does
\* what Console says, whatever the sizes of the two FIFOs, the commands, timers
\* and pauses, and however deep interrupts nest later.
THEOREM EchoesInOrder == Spec => ConsoleSpec
<1> DEFINE console == <<input, lost, echoed, shown, tx>>
<1>1. Init => EchoInv /\ Terminal!Init
  <2>1. SUFFICES ASSUME Init PROVE Lossless /\ Terminal!Init /\ CInv
    BY RxStarts DEF EchoInv
  <2>2. /\ input = <<>> /\ lost = 0 /\ echoed = <<>> /\ shown = <<>> /\ tx = 0
        /\ fifo = <<>> /\ out = <<>>
    BY <2>1 DEF Init
  <2>3. InRing = 0 /\ Len(<<>>) = 0
    BY <2>2 DEF InRing
  <2> QED BY <2>1, <2>2, <2>3, CleanStarts DEF Lossless, Terminal!Init
<1>2. ASSUME EchoInv, [Next]_vars
      PROVE  EchoInv' /\ [Terminal!Next \/ elr' > 0]_console
  <2>1. IInv' /\ RxInv' /\ CInv'
    BY <1>2, Keeps, KeepsRx, KeepsC DEF EchoInv
  <2>2. CASE elr' = 0
    BY <1>2, <2>1, <2>2, EchoStep DEF EchoInv
  <2>3. CASE elr' # 0
    <3>1. elr' > 0
      <4>1. elr' \in Nat
        BY <2>1 DEF IInv, TypeOK
      <4> QED BY <4>1, <2>3
    <3> QED BY <2>1, <2>3, <3>1 DEF EchoInv
  <2> QED BY <2>2, <2>3
<1> QED BY <1>1, <1>2, PTL DEF Spec, ConsoleSpec

----------------------------------------------------------------------------
(* Timers run in order *)

\* A set of natural numbers that is not empty has a least element.
LEMMA LeastNat ==
  ASSUME NEW S \in SUBSET Nat, S # {}
  PROVE  \E m \in S : \A n \in S : m <= n
<1>1. IsWellFoundedOn(OpToRel(<, Nat), Nat)
  BY NatLessThanWellFounded
<1>2. \E x \in S : \A y \in S : ~(<<y, x>> \in OpToRel(<, Nat))
  BY <1>1, WFMin
<1>3. PICK x \in S : \A y \in S : ~(<<y, x>> \in OpToRel(<, Nat))
  BY <1>2
<1>4. \A y \in S : ~(y < x)
  BY <1>3 DEF OpToRel
<1> QED BY <1>4

\* The timers that wait, first to expire first, as a sequence.
Order(L) ==
  /\ L \in Seq(1 .. Len(timers))
  /\ thead = IF L = <<>> THEN NULL ELSE L[1]
  /\ \A k \in 1 .. Len(L) : timers[L[k]].next = IF k < Len(L) THEN L[k + 1] ELSE NULL
  /\ \A i, j \in 1 .. Len(L) : i < j => L[i] # L[j] /\ Expiry(L[i]) <= Expiry(L[j])

\* add_timer walks along that sequence.
LEMMA WalkIsOrder ==
  ASSUME Len(timers) \in Nat, NEW L, Order(L)
  PROVE  \A n \in 0 .. Len(timers) : Walk[n] = IF n < Len(L) THEN L[n + 1] ELSE NULL
<1> DEFINE q == Len(timers)
           F(g) == [n \in 0 .. q |-> IF n = 0 THEN thead
                                     ELSE IF g[n - 1] = NULL THEN NULL ELSE timers[g[n - 1]].next]
           w == [n \in 0 .. q |-> IF n < Len(L) THEN L[n + 1] ELSE NULL]
<1>0. q \in Nat /\ L \in Seq(1 .. q) /\ Len(L) \in Nat /\ NULL \notin 1 .. q
  BY DEF Order, NULL
<1>1. Walk = CHOOSE g : g = F(g)
  BY DEF Walk
<1>2. w = F(w)
  <2>1. ASSUME NEW n \in 0 .. q
        PROVE  w[n] = F(w)[n]
    <3>1. CASE n = 0
      <4>1. w[n] = IF 0 < Len(L) THEN L[1] ELSE NULL
        BY <3>1
      <4>2. thead = IF 0 < Len(L) THEN L[1] ELSE NULL
        BY <1>0 DEF Order
      <4>3. F(w)[n] = thead
        BY <3>1
      <4> QED BY <4>1, <4>2, <4>3
    <3>2. CASE n > 0
      <4>1. n - 1 \in 0 .. q /\ w[n - 1] = (IF n - 1 < Len(L) THEN L[n] ELSE NULL)
            /\ w[n] = (IF n < Len(L) THEN L[n + 1] ELSE NULL)
            /\ F(w)[n] = (IF w[n - 1] = NULL THEN NULL ELSE timers[w[n - 1]].next)
        BY <3>2, <1>0
      <4>2. CASE n <= Len(L)
        <5>1. n \in 1 .. Len(L) /\ n - 1 < Len(L)
          BY <4>2, <3>2, <1>0
        <5>2. L[n] # NULL /\ timers[L[n]].next = IF n < Len(L) THEN L[n + 1] ELSE NULL
          BY <5>1, <1>0 DEF Order
        <5> QED BY <4>1, <5>1, <5>2
      <4>3. CASE n > Len(L)
        <5>1. ~(n - 1 < Len(L)) /\ ~(n < Len(L))
          BY <4>3, <3>2, <1>0
        <5> QED BY <4>1, <5>1
      <4> QED BY <4>2, <4>3, <1>0, <3>2
    <3> QED BY <3>1, <3>2, <1>0
  <2> QED BY <2>1
<1> HIDE DEF F, w
<1>3. Walk = F(Walk)
  <2>1. \E g : g = F(g)
    BY <1>2
  <2> QED BY <1>1, <2>1
<1> DEFINE Bad == {n \in 0 .. q : Walk[n] # w[n]}
<1>4. Bad = {}
  <2> SUFFICES ASSUME Bad # {} PROVE FALSE
    OBVIOUS
  <2>1. PICK m \in Bad : \A n \in Bad : m <= n
    <3>1. Bad \in SUBSET Nat
      BY <1>0
    <3> HIDE DEF Bad
    <3> QED BY <3>1, LeastNat
  <2>2. m \in 0 .. q /\ Walk[m] = F(Walk)[m] /\ w[m] = F(w)[m]
    BY <1>2, <1>3
  <2>3. CASE m = 0
    BY <2>1, <2>2, <2>3 DEF F
  <2>4. CASE m > 0
    <3>1. m - 1 \in 0 .. q /\ ~(m <= m - 1)
      BY <1>0, <2>2, <2>4
    <3>2. Walk[m - 1] = w[m - 1]
      BY <2>1, <3>1
    <3>3. F(Walk)[m] = F(w)[m]
      BY <2>2, <2>4, <3>2 DEF F
    <3> QED BY <2>1, <2>2, <3>3
  <2> QED BY <1>0, <2>2, <2>3, <2>4
<1> QED BY <1>4 DEF w

\* The timers that ran expired before those that wait, and are not among them
\* but for the one whose removal is the next step.
Fired(L) ==
  /\ \A i \in 1 .. Len(fired) : Expiry(fired[i]) <= now
  /\ \A i \in 1 .. Len(fired), k \in 1 .. Len(L) :
       /\ Expiry(fired[i]) <= Expiry(L[k])
       /\ fired[i] = L[k] => Now = "drop" /\ k = 1
  /\ Now = "drop" => L # <<>> /\ Arg = L[1]

\* timer_irq_handler compares with a time that has come.
ReadTime ==
  /\ Now = "timers" => Arg <= now
  /\ Now = "drop" => Top[2].n <= now

\* The inductive invariant of the timer list.
TimerInv ==
  /\ FiredInOrder /\ ReadTime
  /\ \E L : Order(L) /\ Fired(L)

LEMMA TimerTypes ==
  ASSUME IInv
  PROVE  /\ fired \in Seq(1 .. Len(timers)) /\ Len(fired) \in Nat /\ DOMAIN fired = 1 .. Len(fired)
         /\ \A i \in 1 .. Len(fired) : fired[i] \in 1 .. Len(timers)
         /\ \A t \in 1 .. Len(timers) : Expiry(t) \in Nat
<1>1. fired \in Seq(1 .. Len(timers)) /\ timers \in Seq(Timer)
  BY DEF IInv, TypeOK, Timer
<1>2. ASSUME NEW t \in 1 .. Len(timers) PROVE Expiry(t) \in Nat
  <2>1. timers[t] \in Timer
    BY <1>1
  <2> QED BY <2>1 DEF Expiry, Timer
<1>3. /\ Len(fired) \in Nat /\ DOMAIN fired = 1 .. Len(fired)
      /\ \A i \in 1 .. Len(fired) : fired[i] \in 1 .. Len(timers)
  BY <1>1
<1> QED BY <1>1, <1>2, <1>3

LEMMA OrderTypes ==
  ASSUME Len(timers) \in Nat, NEW L, Order(L)
  PROVE  /\ L \in Seq(1 .. Len(timers)) /\ Len(L) \in Nat
         /\ \A k \in 1 .. Len(L) : L[k] \in 1 .. Len(timers) /\ L[k] # NULL
         /\ thead # NULL <=> L # <<>>
         /\ L # <<>> => 1 \in 1 .. Len(L) /\ thead = L[1]
         /\ L = <<>> => Len(L) = 0
<1>1. L \in Seq(1 .. Len(timers)) /\ Len(L) \in Nat
  BY DEF Order
<1>2. \A k \in 1 .. Len(L) : L[k] \in 1 .. Len(timers) /\ L[k] # NULL
  BY <1>1 DEF NULL
<1>3. L # <<>> => 1 \in 1 .. Len(L)
  BY <1>1
<1>4. thead = IF L = <<>> THEN NULL ELSE L[1]
  BY DEF Order
<1>5. L = <<>> => Len(L) = 0
  OBVIOUS
<1> QED BY <1>1, <1>2, <1>3, <1>4, <1>5

\* Steps that leave the timers alone, and neither come from the removal of one
\* nor go to the loop of timer_irq_handler.
LEMMA TimersStay ==
  ASSUME IInv, IInv', TimerInv, UNCHANGED <<timers, thead, fired>>, now <= now',
         \/ UNCHANGED stack
         \/ Now # "drop" /\ Now' \notin {"timers", "drop"}
  PROVE  TimerInv'
<1>1. now \in Nat /\ now' \in Nat /\ (stack # <<>> => Arg \in Nat)
  <2>1. now' \in Nat
    BY DEF IInv, TypeOK
  <2> QED BY <2>1, ClockType
<1>2. \A t : Expiry(t)' = Expiry(t)
  BY DEF Expiry
<1>3. FiredInOrder'
  BY <1>2 DEF TimerInv, FiredInOrder
<1>4. UNCHANGED stack => Now' = Now /\ Arg' = Arg /\ Top' = Top
  BY DEF Now, Arg, Top
<1>5. ReadTime'
  <2>1. Now = "timers" \/ Now = "drop" => stack # <<>>
    BY DEF Now
  <2>2. Now = "drop" => Top[2].n \in Nat
    <3>1. SUFFICES ASSUME Now = "drop" PROVE Top[2].n \in Nat
      OBVIOUS
    <3>2. Top \in Seq(Step) /\ Len(Top) > 1
      <4>1. stack # <<>> /\ Head(Top).op = "drop"
        BY <3>1 DEF Now
      <4>2. Len(timers) \in Nat
        BY DEF IInv, TypeOK
      <4> QED BY <4>1, <4>2, TopFrame DEF IInv, Frame
    <3>3. Top[2] \in Step
      BY <3>2
    <3> QED BY <3>3 DEF Step
  <2> QED BY <1>1, <1>4, <2>1, <2>2 DEF TimerInv, ReadTime
<1>6. PICK L : Order(L) /\ Fired(L)
  BY DEF TimerInv
<1>7. Order(L)'
  BY <1>2, <1>6 DEF Order
<1>8. Fired(L)'
  <2>1. \A i \in 1 .. Len(fired) : Expiry(fired[i])' <= now'
    BY <1>1, <1>2, <1>6, TimerTypes DEF Fired
  <2> QED BY <1>2, <1>4, <1>6, <2>1 DEF Fired
<1> QED BY <1>3, <1>5, <1>7, <1>8 DEF TimerInv

\* The names of q timers.
UpTo(q) == 1 .. q

LEMMA InsertedTimer ==
  ASSUME NEW q, NEW list \in Seq(UpTo(q)), NEW p \in UpTo(q), NEW n \in 0 .. Len(list)
  PROVE  /\ InsertAt(list, n + 1, p) \in Seq(UpTo(q))
         /\ Len(InsertAt(list, n + 1, p)) = Len(list) + 1
         /\ \A i \in 1 .. n : InsertAt(list, n + 1, p)[i] = list[i]
         /\ InsertAt(list, n + 1, p)[n + 1] = p
         /\ \A i \in n + 2 .. Len(list) + 1 : InsertAt(list, n + 1, p)[i] = list[i - 1]
<1>1. InsertAt(list, n + 1, p) \in Seq(UpTo(q))
  BY InsertedIn
<1>2. Len(InsertAt(list, n + 1, p)) = Len(list) + 1
  BY InsertedIn
<1>3. \A i \in 1 .. n : InsertAt(list, n + 1, p)[i] = list[i]
  BY InsertedIn
<1>4. InsertAt(list, n + 1, p)[n + 1] = p
  BY InsertedIn
<1>5. \A i \in n + 2 .. Len(list) + 1 : InsertAt(list, n + 1, p)[i] = list[i - 1]
  BY InsertedIn
<1> QED BY <1>1, <1>2, <1>3, <1>4, <1>5

\* setTimeout puts a timer that expires at e behind the first k of L.
Inserts(q, L, k, e) ==
  /\ k \in 0 .. Len(L)
  /\ Len(timers') = q + 1
  /\ \A t \in 1 .. q : /\ timers'[t].expiry = timers[t].expiry
                       /\ timers'[t].next = IF k > 0 /\ t = L[k] THEN q + 1 ELSE timers[t].next
  /\ timers'[q + 1].expiry = e
  /\ timers'[q + 1].next = IF k < Len(L) THEN L[k + 1] ELSE NULL
  /\ thead' = IF k = 0 THEN q + 1 ELSE thead
  /\ \A m \in 1 .. k : Expiry(L[m]) <= e
  /\ \A m \in k + 1 .. Len(L) : e <= Expiry(L[m])

\* Those that wait are then the same and the new one.
OneMore(q, L) ==
  \E M : /\ Order(M)'
         /\ \A j \in 1 .. Len(M) : M[j] = q + 1 \/ \E m \in 1 .. Len(L) : M[j] = L[m]

LEMMA InsertOrder ==
  ASSUME NEW q \in Nat, q = Len(timers), NEW L, Order(L), NEW k, NEW e \in Nat,
         \A t \in 1 .. q : Expiry(t) \in Nat, Inserts(q, L, k, e)
  PROVE  OneMore(q, L)
<1>0. /\ k \in 0 .. Len(L)
      /\ Len(timers') = q + 1
      /\ \A t \in 1 .. q : /\ timers'[t].expiry = timers[t].expiry
                           /\ timers'[t].next = IF k > 0 /\ t = L[k] THEN q + 1 ELSE timers[t].next
      /\ timers'[q + 1].expiry = e
      /\ timers'[q + 1].next = IF k < Len(L) THEN L[k + 1] ELSE NULL
      /\ thead' = IF k = 0 THEN q + 1 ELSE thead
      /\ \A m \in 1 .. k : Expiry(L[m]) <= e
      /\ \A m \in k + 1 .. Len(L) : e <= Expiry(L[m])
  BY DEF Inserts
<1> USE <1>0
<1> DEFINE l == Len(L)
<1>1. /\ L \in Seq(1 .. q) /\ l \in Nat /\ k \in 0 .. l
      /\ \A m \in 1 .. l : L[m] \in 1 .. q /\ Expiry(L[m]) \in Nat
      /\ L # <<>> => 1 \in 1 .. l /\ thead = L[1]
      /\ l = 0 => L = <<>>
  <2>1. L \in Seq(1 .. q) /\ l \in Nat
    BY OrderTypes
  <2>2. l = 0 => L = <<>>
    BY <2>1
  <2> QED BY <2>1, <2>2, OrderTypes
<1>2. PICK M :
        /\ M \in Seq(1 .. q + 1) /\ Len(M) = l + 1
        /\ \A m \in 1 .. k : M[m] = L[m]
        /\ M[k + 1] = q + 1
        /\ \A m \in k + 2 .. l + 1 : M[m] = L[m - 1]
  <2>1. L \in Seq(UpTo(q + 1)) /\ q + 1 \in UpTo(q + 1)
    <3>1. 1 .. q \subseteq 1 .. q + 1
      OBVIOUS
    <3> QED BY <1>1, <3>1 DEF UpTo
  <2> DEFINE I == InsertAt(L, k + 1, q + 1)
  <2>2. I \in Seq(UpTo(q + 1)) /\ Len(I) = l + 1
    BY <2>1, InsertedTimer
  <2>3. \A i \in 1 .. k : I[i] = L[i]
    BY <2>1, InsertedTimer
  <2>4. I[k + 1] = q + 1
    <3>1. ASSUME NEW p \in UpTo(q + 1) PROVE InsertAt(L, k + 1, p)[k + 1] = p
      BY <2>1, InsertedTimer
    <3> QED BY <2>1, <3>1
  <2>5. \A i \in k + 2 .. l + 1 : I[i] = L[i - 1]
    BY <2>1, InsertedTimer
  <2> HIDE DEF I
  <2> WITNESS I
  <2> QED BY <2>2, <2>3, <2>4, <2>5 DEF UpTo
<1>3. /\ Expiry(q + 1)' = e /\ \A t \in 1 .. q : Expiry(t)' = Expiry(t)
  BY DEF Expiry
<1>4. \A m \in 1 .. k : M[m] \in 1 .. q /\ m \in 1 .. l /\ Expiry(M[m])' = Expiry(L[m])
  <2>1. ASSUME NEW m \in 1 .. k PROVE m \in 1 .. l
    BY <1>1
  <2>2. ASSUME NEW m \in 1 .. k PROVE M[m] = L[m] /\ L[m] \in 1 .. q
    BY <1>1, <1>2, <2>1
  <2> QED BY <2>1, <2>2, <1>3
<1>5. \A m \in k + 2 .. l + 1 : M[m] \in 1 .. q /\ m - 1 \in k + 1 .. l /\ m - 1 \in 1 .. l
                                /\ Expiry(M[m])' = Expiry(L[m - 1])
  <2>1. ASSUME NEW m \in k + 2 .. l + 1 PROVE m - 1 \in k + 1 .. l /\ m - 1 \in 1 .. l
    BY <1>1
  <2> QED BY <2>1, <1>1, <1>2, <1>3
<1>6. \A j \in 1 .. l + 1 : j \in 1 .. k \/ j = k + 1 \/ j \in k + 2 .. l + 1
  BY <1>1
<1>7. M # <<>> /\ thead' = M[1]
  <2>1. M # <<>> /\ 1 \in 1 .. l + 1
    BY <1>1, <1>2
  <2>2. CASE k = 0
    BY <1>2, <2>1, <2>2
  <2>3. CASE k > 0
    <3>1. 1 \in 1 .. k /\ L # <<>>
      BY <1>1, <2>3
    <3> QED BY <1>1, <1>2, <2>1, <2>3, <3>1
  <2> QED BY <1>1, <2>2, <2>3
<1>8. ASSUME NEW j \in 1 .. l + 1
      PROVE  timers'[M[j]].next = IF j < l + 1 THEN M[j + 1] ELSE NULL
  <2>1. CASE j = k + 1
    <3>1. timers'[M[j]].next = IF k < l THEN L[k + 1] ELSE NULL
      BY <1>2, <2>1
    <3>2. k < l => k + 2 \in k + 2 .. l + 1 /\ (k + 2) - 1 = k + 1 /\ j + 1 = k + 2
      BY <1>1, <2>1
    <3>3. k < l => M[j + 1] = L[k + 1]
      BY <3>2, <1>2
    <3> QED BY <3>1, <3>3, <1>1, <2>1
  <2>2. CASE j \in 1 .. k
    <3>0. j \in 1 .. l /\ k > 0 /\ j < l + 1 /\ k \in 1 .. l
      BY <1>1, <2>2
    <3>1. M[j] = L[j] /\ L[j] \in 1 .. q /\ j \in 1 .. l /\ k > 0 /\ j < l + 1 /\ k \in 1 .. l
      BY <1>1, <1>2, <2>2, <3>0
    <3>2. CASE j = k
      BY <3>1, <3>2, <1>2
    <3>3. CASE j < k
      <4>0. j < l
        BY <1>1, <3>1, <3>3
      <4>1. L[j] # L[k] /\ timers[L[j]].next = L[j + 1]
        BY <3>1, <3>3, <4>0 DEF Order
      <4>2. j + 1 \in 1 .. k
        BY <2>2, <3>3, <1>1
      <4>3. M[j + 1] = L[j + 1]
        BY <1>2, <4>2
      <4>4. timers'[L[j]].next = timers[L[j]].next
        BY <3>1, <4>1
      <4> QED BY <3>1, <4>1, <4>3, <4>4
    <3> QED BY <2>2, <3>2, <3>3, <1>1
  <2>3. CASE j \in k + 2 .. l + 1
    <3>0. M[j] = L[j - 1] /\ j - 1 \in 1 .. l
      BY <1>2, <1>5, <2>3
    <3>1. M[j] = L[j - 1] /\ j - 1 \in 1 .. l /\ L[j - 1] \in 1 .. q /\ k < j - 1
      <4>1. k < j - 1
        BY <1>1, <2>3
      <4> QED BY <1>1, <3>0, <4>1
    <3>2. timers[L[j - 1]].next = IF j - 1 < l THEN L[(j - 1) + 1] ELSE NULL
      BY <3>1 DEF Order
    <3>3. k > 0 => L[j - 1] # L[k]
      <4>1. k > 0 => k \in 1 .. l
        BY <1>1
      <4> QED BY <3>1, <4>1 DEF Order
    <3>4. timers'[M[j]].next = timers[L[j - 1]].next
      BY <3>1, <3>3
    <3>5. j - 1 < l => j < l + 1 /\ j + 1 \in k + 2 .. l + 1 /\ (j + 1) - 1 = (j - 1) + 1
      BY <1>1, <2>3
    <3>6. j - 1 < l => M[j + 1] = L[(j - 1) + 1]
      BY <3>5, <1>2
    <3>7. ~(j - 1 < l) => ~(j < l + 1)
      BY <1>1, <2>3
    <3> QED BY <3>2, <3>4, <3>5, <3>6, <3>7
  <2> QED BY <1>6, <2>1, <2>2, <2>3
<1>9. ASSUME NEW i \in 1 .. l + 1, NEW j \in 1 .. l + 1, i < j
      PROVE  M[i] # M[j] /\ Expiry(M[i])' <= Expiry(M[j])'
  <2>0. \A a, b \in 1 .. l : a < b => L[a] # L[b] /\ Expiry(L[a]) <= Expiry(L[b])
    BY DEF Order
  <2>1. CASE j \in 1 .. k
    <3>1. i \in 1 .. k
      BY <1>9, <2>1, <1>1
    <3> QED BY <1>2, <1>4, <1>9, <2>0, <2>1, <3>1
  <2>2. CASE j = k + 1
    <3>1. i \in 1 .. k
      BY <1>9, <2>2, <1>1
    <3>2. M[i] \in 1 .. q /\ M[i] # q + 1 /\ M[j] = q + 1
      BY <1>2, <1>4, <2>2, <3>1
    <3> QED BY <1>3, <1>4, <3>1, <3>2
  <2>3. CASE j \in k + 2 .. l + 1
    <3>1. /\ M[j] = L[j - 1] /\ M[j] \in 1 .. q /\ j - 1 \in 1 .. l /\ j - 1 \in k + 1 .. l
          /\ Expiry(M[j])' = Expiry(L[j - 1])
      BY <1>2, <1>5, <2>3
    <3>2. CASE i \in 1 .. k
      <4>1. i < j - 1
        BY <1>1, <2>3, <3>2
      <4>2. M[i] = L[i] /\ i \in 1 .. l /\ Expiry(M[i])' = Expiry(L[i])
        BY <1>2, <1>4, <3>2
      <4>3. L[i] # L[j - 1] /\ Expiry(L[i]) <= Expiry(L[j - 1])
        BY <2>0, <3>1, <4>1, <4>2
      <4> QED BY <3>1, <4>2, <4>3
    <3>3. CASE i = k + 1
      <4>1. M[i] = q + 1 /\ M[j] # q + 1
        BY <1>2, <3>1, <3>3
      <4> QED BY <1>3, <3>1, <4>1
    <3>4. CASE i \in k + 2 .. l + 1
      <4>1. i - 1 < j - 1
        BY <1>1, <1>9
      <4>2. M[i] = L[i - 1] /\ i - 1 \in 1 .. l /\ Expiry(M[i])' = Expiry(L[i - 1])
        BY <1>2, <1>5, <3>4
      <4>3. L[i - 1] # L[j - 1] /\ Expiry(L[i - 1]) <= Expiry(L[j - 1])
        BY <2>0, <3>1, <4>1, <4>2
      <4> QED BY <3>1, <4>2, <4>3
    <3> QED BY <1>6, <3>2, <3>3, <3>4
  <2> QED BY <1>6, <2>1, <2>2, <2>3
<1>10. Order(M)'
  BY <1>2, <1>7, <1>8, <1>9 DEF Order
<1>11. ASSUME NEW j \in 1 .. l + 1
       PROVE  M[j] = q + 1 \/ \E m \in 1 .. l : M[j] = L[m]
  <2>1. j \in 1 .. k => M[j] = L[j] /\ j \in 1 .. l
    BY <1>2, <1>4
  <2>2. j \in k + 2 .. l + 1 => M[j] = L[j - 1] /\ j - 1 \in 1 .. l
    BY <1>2, <1>5
  <2> QED BY <1>2, <1>6, <2>1, <2>2
<1>12. \A j \in 1 .. Len(M) : M[j] = q + 1 \/ \E m \in 1 .. Len(L) : M[j] = L[m]
  BY <1>2, <1>11
<1> HIDE DEF l
<1> QED BY ONLY <1>10, <1>12, Zenon DEF OneMore

\* setTimeout: the walk of add_timer stops where the new timer belongs.
LEMMA SetTimeoutTimers ==
  ASSUME IInv, IInv', RxInv, TimerInv, SetTimeout
  PROVE  TimerInv'
<1> DEFINE e == now + Arg
<1>1. At("set") /\ Goto(<<>>) /\ now' = now /\ fired' = fired /\ stack # <<>>
  BY DEF SetTimeout, Continue, At, world
<1>2. Now = "set" /\ Now' \in {"set", "reset"}
  <2>1. Now = "set" /\ Now' \in After(Head(Top))
    BY <1>1, MovesOn
  <2> QED BY <1>1, <2>1 DEF After, At
<1>3. /\ timers \in Seq(Timer) /\ Len(timers) \in Nat /\ DOMAIN timers = 1 .. Len(timers)
      /\ now \in Nat /\ Arg \in Nat /\ thead \in 0 .. Len(timers)
  BY <1>1, ClockType
<1>4. PICK L : Order(L) /\ Fired(L)
  BY DEF TimerInv
<1>5. PICK q \in Nat : q = Len(timers)
  BY <1>3
<1>6. PICK v \in Nat : v = e
  BY <1>3
<1>7. /\ fired \in Seq(1 .. q) /\ Len(fired) \in Nat /\ DOMAIN fired = 1 .. Len(fired)
      /\ \A i \in 1 .. Len(fired) : fired[i] \in 1 .. q
      /\ \A t \in 1 .. q : Expiry(t) \in Nat
      /\ L \in Seq(1 .. q) /\ Len(L) \in Nat
      /\ \A m \in 1 .. Len(L) : L[m] \in 1 .. q
  BY <1>4, <1>5, TimerTypes, OrderTypes
\* What follows from the new list being the old one with the new timer inserted.
<1>8. ASSUME NEW M, Order(M)',
             \A j \in 1 .. Len(M) : M[j] = q + 1 \/ \E m \in 1 .. Len(L) : M[j] = L[m],
             \A t \in 1 .. q : timers'[t].expiry = timers[t].expiry,
             timers'[q + 1].expiry = v
      PROVE  TimerInv'
  <2>1. (\A t \in 1 .. q : Expiry(t)' = Expiry(t)) /\ Expiry(q + 1)' = v
    BY <1>8 DEF Expiry
  <2>2. FiredInOrder'
    <3>1. ASSUME NEW i \in 1 .. Len(fired), NEW j \in 1 .. Len(fired), i < j
          PROVE  fired[i] # fired[j] /\ Expiry(fired[i])' <= Expiry(fired[j])'
      <4>1. fired[i] # fired[j] /\ Expiry(fired[i]) <= Expiry(fired[j])
        BY <1>7, <3>1 DEF TimerInv, FiredInOrder
      <4> QED BY <1>1, <1>7, <2>1, <4>1
    <3> QED BY <1>1, <1>7, <3>1 DEF FiredInOrder
  <2>3. \A i \in 1 .. Len(fired) : Expiry(fired[i])' <= now
    BY <1>1, <1>4, <1>7, <2>1 DEF Fired
  <2>4. ASSUME NEW i \in 1 .. Len(fired), NEW j \in 1 .. Len(M)
        PROVE  Expiry(fired[i])' <= Expiry(M[j])' /\ fired[i] # M[j]
    <3>1. CASE M[j] = q + 1
      <4>1. Expiry(fired[i])' <= now /\ now <= v /\ fired[i] # q + 1 /\ Expiry(fired[i])' \in Nat
        <5>1. fired[i] \in 1 .. q /\ Expiry(fired[i])' = Expiry(fired[i])
          BY <1>1, <1>7, <2>1
        <5> QED BY <1>3, <1>6, <1>7, <2>3, <5>1
      <4>2. Expiry(M[j])' = v
        BY <2>1, <3>1
      <4> QED BY <1>3, <3>1, <4>1, <4>2
    <3>2. CASE \E m \in 1 .. Len(L) : M[j] = L[m]
      <4>1. PICK m \in 1 .. Len(L) : M[j] = L[m]
        BY <3>2
      <4>2. Expiry(fired[i]) <= Expiry(L[m]) /\ fired[i] # L[m]
        BY <1>2, <1>4 DEF Fired
      <4>3. Expiry(fired[i])' = Expiry(fired[i]) /\ Expiry(M[j])' = Expiry(L[m])
        BY <1>1, <1>7, <2>1, <4>1
      <4> QED BY <4>1, <4>2, <4>3
    <3> QED BY <1>8, <3>1, <3>2
  <2>5. Fired(M)'
    BY <1>1, <1>2, <2>3, <2>4 DEF Fired
  <2>6. ReadTime'
    BY <1>2 DEF ReadTime
  <2> QED BY <1>8, <2>2, <2>5, <2>6 DEF TimerInv
<1>9. CASE ~Fits(MsgWords + TimerWords)
  <2>1. UNCHANGED <<timers, thead, fired>>
    BY <1>1, <1>9 DEF SetTimeout
  <2> QED BY <1>1, <1>2, <1>3, <2>1, TimersStay
<1>10. CASE Fits(MsgWords + TimerWords) /\ Earliest(e)
  <2>1. timers' = Append(timers, [expiry |-> v, next |-> thead]) /\ thead' = q + 1
    BY <1>5, <1>6, <1>10 DEF SetTimeout, AddFirst
  <2>2. [expiry |-> v, next |-> thead] \in Timer
    BY <1>3 DEF Timer
  <2> DEFINE x == [expiry |-> v, next |-> thead]
  <2>3. x.expiry = v /\ x.next = thead
    OBVIOUS
  <2> HIDE DEF x
  <2>4. /\ Len(timers') = q + 1 /\ timers'[q + 1] = x
        /\ \A t \in 1 .. q : timers'[t] = timers[t]
    BY <1>3, <1>5, <2>1, <2>2, Appended DEF x
  <2>5. PICK k \in 0 .. Len(L) : k = 0
    BY <1>7
  <2>6. timers'[q + 1].next = IF k < Len(L) THEN L[k + 1] ELSE NULL
    <3>1. L = <<>> <=> ~(0 < Len(L))
      BY <1>7
    <3>2. thead = IF 0 < Len(L) THEN L[1] ELSE NULL
      BY <1>4, <3>1 DEF Order
    <3> QED BY <2>3, <2>4, <2>5, <3>2
  <2>7. \A m \in k + 1 .. Len(L) : v <= Expiry(L[m])
    <3>1. ASSUME NEW m \in 1 .. Len(L) PROVE v <= Expiry(L[m])
      <4>1. L # <<>> /\ thead = L[1] /\ thead # NULL /\ 1 \in 1 .. Len(L)
        BY <1>3, <1>4, <1>7, OrderTypes
      <4>2. v < Expiry(L[1])
        BY <1>6, <1>10, <4>1 DEF Earliest
      <4>3. m = 1 \/ Expiry(L[1]) <= Expiry(L[m])
        BY <1>4, <1>7, <4>1 DEF Order
      <4> QED BY <1>7, <4>1, <4>2, <4>3
    <3> QED BY <2>5, <3>1
  <2>8. \A m \in 1 .. k : Expiry(L[m]) <= v
    BY <2>5
  <2>9. \A t \in 1 .. q : /\ timers'[t].expiry = timers[t].expiry
                           /\ timers'[t].next = IF k > 0 /\ t = L[k] THEN q + 1 ELSE timers[t].next
    BY <2>4, <2>5
  <2>10. thead' = (IF k = 0 THEN q + 1 ELSE thead) /\ timers'[q + 1].expiry = v /\ Len(timers') = q + 1
    BY <2>1, <2>3, <2>4, <2>5
  <2>11. \A t \in 1 .. q : Expiry(t) \in Nat
    BY <1>7
  <2>12. Inserts(q, L, k, v)
    BY <2>6, <2>7, <2>8, <2>9, <2>10 DEF Inserts
  <2>13. OneMore(q, L)
    BY <1>4, <1>5, <2>11, <2>12, InsertOrder
  <2> QED BY <1>8, <2>9, <2>10, <2>13 DEF OneMore
<1>11. CASE Fits(MsgWords + TimerWords) /\ ~Earliest(e)
  <2>1. PICK n \in 0 .. Len(timers) - 1, c \in DOMAIN timers :
            StopsAt(n, e) /\ c = Walk[n] /\ AddBehind(c, Len(timers) + 1, e)
    BY <1>11 DEF SetTimeout
  <2> DEFINE k == n + 1
  <2>2. \A m \in 0 .. q : Walk[m] = IF m < Len(L) THEN L[m + 1] ELSE NULL
    BY <1>3, <1>4, <1>5, WalkIsOrder
  <2>3. n \in 0 .. q /\ n + 1 \in 0 .. q /\ c \in 1 .. q /\ n \in Nat
    BY <1>3, <1>5, <2>1
  <2>4. k \in 1 .. Len(L) /\ c = L[k] /\ k \in 0 .. Len(L) /\ k > 0
    <3>1. Walk[n] # NULL
      BY <2>1 DEF StopsAt
    <3>2. n < Len(L)
      BY <2>2, <2>3, <3>1
    <3> QED BY <1>7, <2>1, <2>2, <2>3, <3>2
  <2>5. \A m \in 1 .. k : Expiry(L[m]) <= v
    <3>1. Expiry(L[1]) <= v /\ 1 \in 1 .. Len(L)
      <4>1. L # <<>> /\ 1 \in 1 .. Len(L)
        BY <1>7, <2>4
      <4>2. thead = L[1] /\ thead # NULL
        BY <1>3, <1>4, <4>1, OrderTypes
      <4>3. ~(v < Expiry(L[1]))
        BY <1>6, <1>11, <4>2 DEF Earliest
      <4> QED BY <1>7, <4>1, <4>3
    <3>2. ASSUME NEW m \in 1 .. n PROVE Expiry(L[m + 1]) < v
      <4>1. Expiry(Walk[m]) < v
        BY <1>6, <2>1 DEF StopsAt
      <4>2. m \in 0 .. q /\ m < Len(L)
        BY <2>3, <2>4
      <4> QED BY <2>2, <4>1, <4>2
    <3>3. ASSUME NEW m \in 1 .. k PROVE Expiry(L[m]) <= v
      <4>1. CASE m = 1
        BY <3>1, <4>1
      <4>2. CASE m > 1
        <5>1. m - 1 \in 1 .. n /\ (m - 1) + 1 = m /\ m \in 1 .. Len(L)
          BY <2>3, <2>4, <4>2
        <5>2. Expiry(L[m]) < v
          BY <3>2, <5>1
        <5> QED BY <1>7, <5>1, <5>2
      <4> QED BY <2>3, <4>1, <4>2
    <3> QED BY <3>3
  <2>6. \A m \in k + 1 .. Len(L) : v <= Expiry(L[m])
    <3>1. ASSUME NEW m \in k + 1 .. Len(L) PROVE v <= Expiry(L[m])
      <4>1. k < Len(L) /\ k + 1 \in 1 .. Len(L) /\ m \in 1 .. Len(L) /\ k = n + 1
        BY <1>7, <2>3, <2>4
      <4>2. Walk[n + 1] = L[k + 1] /\ L[k + 1] # NULL
        <5>1. n + 1 < Len(L) /\ (n + 1) + 1 = k + 1 /\ L[k + 1] \in 1 .. q
          BY <1>7, <4>1
        <5>2. Walk[n + 1] = L[(n + 1) + 1]
          BY <2>2, <2>3, <5>1
        <5> QED BY <5>1, <5>2 DEF NULL
      <4>3. v <= Expiry(L[k + 1])
        BY <1>6, <2>1, <4>2 DEF StopsAt
      <4>4. m = k + 1 \/ Expiry(L[k + 1]) <= Expiry(L[m])
        <5>1. m = k + 1 \/ k + 1 < m
          BY <2>3, <3>1
        <5> QED BY <1>4, <4>1, <5>1 DEF Order
      <4>5. Expiry(L[k + 1]) \in Nat /\ Expiry(L[m]) \in Nat
        BY <1>7, <4>1
      <4> QED BY <4>3, <4>4, <4>5
    <3> QED BY <3>1
  <2>7. PICK nxt \in 0 .. q : nxt = timers[c].next
    BY <1>3, <1>5, <2>1 DEF IInv, TypeOK
  <2> DEFINE ts == [timers EXCEPT ![c].next = q + 1]
             x  == [expiry |-> v, next |-> nxt]
             y  == [timers[c] EXCEPT !.next = q + 1]
  <2>8. timers' = Append(ts, x) /\ thead' = thead
    BY <1>5, <1>6, <2>1, <2>7 DEF AddBehind
  <2>9. x \in Timer /\ x.expiry = v /\ x.next = nxt
    <3>1. nxt \in Nat
      OBVIOUS
    <3> QED BY <3>1 DEF Timer
  <2>10. y \in Timer /\ y.expiry = timers[c].expiry /\ y.next = q + 1
    <3>1. timers[c] \in Timer /\ q + 1 \in Nat
      BY <1>3, <2>1
    <3> QED BY <3>1 DEF Timer
  <2>11. ts = [timers EXCEPT ![c] = y]
    OBVIOUS
  <2> HIDE DEF ts, x, y
  <2>12. /\ ts \in Seq(Timer) /\ Len(ts) = q
         /\ \A t \in 1 .. q : ts[t] = IF t = c THEN y ELSE timers[t]
    BY <1>3, <1>5, <2>1, <2>10, <2>11
  <2>13. /\ Len(timers') = q + 1 /\ timers'[q + 1] = x
         /\ \A t \in 1 .. q : timers'[t] = ts[t]
    BY <2>8, <2>9, <2>12, Appended
  <2>14. \A t \in 1 .. q : /\ timers'[t].expiry = timers[t].expiry
                           /\ timers'[t].next = IF k > 0 /\ t = L[k] THEN q + 1 ELSE timers[t].next
    <3>1. ASSUME NEW t \in 1 .. q
          PROVE  /\ timers'[t].expiry = timers[t].expiry
                 /\ timers'[t].next = IF t = c THEN q + 1 ELSE timers[t].next
      <4>1. CASE t = c
        BY <2>10, <2>12, <2>13, <4>1
      <4>2. CASE t # c
        BY <2>12, <2>13, <4>2
      <4> QED BY <4>1, <4>2
    <3> QED BY <2>4, <3>1
  <2>15. timers'[q + 1].expiry = v /\ timers'[q + 1].next = IF k < Len(L) THEN L[k + 1] ELSE NULL
    <3>1. timers[c].next = IF k < Len(L) THEN L[k + 1] ELSE NULL
      BY <1>4, <2>4 DEF Order
    <3> QED BY <2>7, <2>9, <2>13, <3>1
  <2>16. thead' = IF k = 0 THEN q + 1 ELSE thead
    BY <2>4, <2>8
  <2>17. Len(timers') = q + 1
    BY <2>13
  <2>18. \A t \in 1 .. q : Expiry(t) \in Nat
    BY <1>7
  <2>19. k \in 0 .. Len(L)
    BY <2>4
  <2> HIDE DEF k
  <2>20. Inserts(q, L, k, v)
    BY <2>5, <2>6, <2>14, <2>15, <2>16, <2>17, <2>19 DEF Inserts
  <2>21. OneMore(q, L)
    BY <1>4, <1>5, <2>18, <2>20, InsertOrder
  <2> QED BY <1>8, <2>14, <2>15, <2>21 DEF OneMore
<1> QED BY <1>9, <1>10, <1>11

\* timer_irq_handler: the time is read, ...
LEMMA TimerStopTimers ==
  ASSUME IInv, IInv', RxInv, TimerInv, TimerStop
  PROVE  TimerInv'
<1>1. At("ctl") /\ Goto(<<DoWith("timers", now)>>) /\ UNCHANGED <<timers, thead, now, fired>>
  BY DEF TimerStop, world
<1>2. DoWith("timers", now) \in Step /\ After(Head(Top)) \subseteq After(DoWith("timers", now))
  <2>1. now \in Nat /\ Head(Top).op = "ctl"
    BY <1>1, ClockType DEF At
  <2> QED BY <2>1 DEF After, DoWith, Step, Ops
<1>3. Now = "ctl" /\ Now' = "timers" /\ Arg' = now
  BY <1>1, <1>2, MovesTo DEF DoWith
<1>4. now \in Nat /\ \A t : Expiry(t)' = Expiry(t)
  BY <1>1, ClockType DEF Expiry
<1>5. ReadTime'
  BY <1>1, <1>3, <1>4 DEF ReadTime
<1>6. FiredInOrder'
  BY <1>1, <1>4 DEF TimerInv, FiredInOrder
<1>7. PICK L : Order(L) /\ Fired(L)
  BY DEF TimerInv
<1>8. Order(L)'
  BY <1>1, <1>4, <1>7 DEF Order
<1>9. Fired(L)'
  BY <1>1, <1>3, <1>4, <1>7 DEF Fired
<1> QED BY <1>5, <1>6, <1>8, <1>9 DEF TimerInv

\* ... the head's callback runs, ...
LEMMA ExpireTimers ==
  ASSUME IInv, IInv', RxInv, TimerInv, Expire
  PROVE  TimerInv'
<1>1. Now = "timers" /\ Now' = "drop" /\ Arg' = thead /\ Top'[2].n = Arg
  BY ExpireGoes
<1>2. /\ UNCHANGED <<timers, thead, now>> /\ fired' = Append(fired, thead)
      /\ thead # NULL /\ Expiry(thead) <= Arg /\ stack # <<>>
  BY DEF Expire, Due, clock, At
<1>3. now \in Nat /\ Arg \in Nat /\ Arg <= now /\ Len(timers) \in Nat
  BY <1>1, <1>2, ClockType DEF TimerInv, ReadTime
<1>4. PICK L : Order(L) /\ Fired(L)
  BY DEF TimerInv
<1>5. L # <<>> /\ thead = L[1] /\ 1 \in 1 .. Len(L) /\ thead \in 1 .. Len(timers)
  BY <1>2, <1>3, <1>4, OrderTypes
<1>6. /\ fired \in Seq(1 .. Len(timers)) /\ Len(fired) \in Nat /\ DOMAIN fired = 1 .. Len(fired)
      /\ \A i \in 1 .. Len(fired) : fired[i] \in 1 .. Len(timers)
      /\ \A t \in 1 .. Len(timers) : Expiry(t) \in Nat
  BY TimerTypes
<1>7. /\ Len(fired') = Len(fired) + 1 /\ fired'[Len(fired) + 1] = thead
      /\ \A i \in 1 .. Len(fired) : fired'[i] = fired[i]
      /\ DOMAIN fired' = 1 .. Len(fired) + 1
  <2>1. fired' \in Seq(1 .. Len(timers))
    BY <1>2, <1>5, <1>6
  <2>2. /\ Len(fired') = Len(fired) + 1 /\ fired'[Len(fired) + 1] = thead
        /\ \A i \in 1 .. Len(fired) : fired'[i] = fired[i]
    BY <1>2, <1>5, <1>6, Appended
  <2> QED BY <2>1, <2>2
<1>8. \A t : Expiry(t)' = (timers[t].expiry) /\ Expiry(t) = timers[t].expiry
  BY <1>2 DEF Expiry
<1>9. \A i \in 1 .. Len(fired) : /\ Expiry(fired[i]) <= now
                                 /\ Expiry(fired[i]) <= Expiry(thead) /\ fired[i] # thead
  BY <1>1, <1>4, <1>5 DEF Fired
<1>10. FiredInOrder'
  <2>1. ASSUME NEW i \in 1 .. Len(fired) + 1, NEW j \in 1 .. Len(fired) + 1, i < j
        PROVE  fired'[i] # fired'[j] /\ timers[fired'[i]].expiry <= timers[fired'[j]].expiry
    <3>1. CASE j \in 1 .. Len(fired)
      <4>1. i \in 1 .. Len(fired)
        BY <1>6, <2>1, <3>1
      <4>2. fired[i] # fired[j] /\ Expiry(fired[i]) <= Expiry(fired[j])
        BY <1>6, <2>1, <3>1, <4>1 DEF TimerInv, FiredInOrder
      <4> QED BY <1>7, <1>8, <3>1, <4>1, <4>2
    <3>2. CASE j = Len(fired) + 1
      <4>1. i \in 1 .. Len(fired)
        BY <1>6, <2>1, <3>2
      <4> QED BY <1>7, <1>8, <1>9, <3>2, <4>1
    <3> QED BY <1>6, <2>1, <3>1, <3>2
  <2>2. ASSUME NEW i \in DOMAIN fired', NEW j \in DOMAIN fired', i < j
        PROVE  fired'[i] # fired'[j] /\ Expiry(fired[i])' <= Expiry(fired[j])'
    BY <1>2, <1>7, <2>1, <2>2 DEF Expiry
  <2> QED BY <2>2 DEF FiredInOrder
<1>11. ReadTime'
  BY <1>1, <1>2, <1>3 DEF ReadTime
<1>12. Order(L)'
  <2>1. \A t : Expiry(t)' = Expiry(t)
    BY <1>8
  <2> QED BY <1>2, <1>4, <2>1 DEF Order
<1>13. Fired(L)'
  <2>1. ASSUME NEW i \in 1 .. Len(fired')
        PROVE  /\ timers[fired'[i]].expiry <= now
               /\ \A k \in 1 .. Len(L) : /\ timers[fired'[i]].expiry <= timers[L[k]].expiry
                                         /\ fired'[i] = L[k] => k = 1
    <3>1. CASE i \in 1 .. Len(fired)
      <4>1. /\ Expiry(fired[i]) <= now
            /\ \A k \in 1 .. Len(L) : Expiry(fired[i]) <= Expiry(L[k]) /\ fired[i] # L[k]
        BY <1>1, <1>4, <3>1 DEF Fired
      <4> QED BY <1>7, <1>8, <3>1, <4>1
    <3>2. CASE i = Len(fired) + 1
      <4>1. Expiry(thead) <= now
        BY <1>2, <1>3, <1>5, <1>6
      <4>2. ASSUME NEW k \in 1 .. Len(L)
            PROVE  Expiry(thead) <= Expiry(L[k]) /\ (thead = L[k] => k = 1)
        <5>1. k = 1 \/ 1 < k
          BY <1>3, <1>4, OrderTypes
        <5>2. 1 < k => L[1] # L[k] /\ Expiry(L[1]) <= Expiry(L[k])
          BY <1>4, <1>5 DEF Order
        <5> QED BY <1>5, <1>6, <5>1, <5>2
      <4> QED BY <1>7, <1>8, <3>2, <4>1, <4>2
    <3> QED BY <1>6, <1>7, <3>1, <3>2
  <2> QED BY <1>1, <1>2, <1>5, <2>1 DEF Fired, Expiry
<1> QED BY <1>10, <1>11, <1>12, <1>13 DEF TimerInv

LEMMA Behead ==
  ASSUME NEW S, NEW s \in Seq(S), s # <<>>
  PROVE  /\ Tail(s) \in Seq(S) /\ Len(Tail(s)) = Len(s) - 1 /\ Len(s) \in Nat /\ Len(s) > 0
         /\ \A i \in 1 .. Len(s) - 1 : Tail(s)[i] = s[i + 1]
OBVIOUS

\* ... and the head is removed.
LEMMA DropTimers ==
  ASSUME IInv, IInv', RxInv, TimerInv, Drop
  PROVE  TimerInv'
<1>1. /\ At("drop") /\ Goto(<<>>) /\ UNCHANGED <<timers, now, fired>> /\ thead' = timers[Arg].next
  BY DEF Drop, Continue, world
<1>2. Now = "drop" /\ Now' = "timers" /\ Arg' = Top[2].n
  <2>1. Now = "drop" /\ Now' \in After(Head(Top)) /\ Arg' = Top[2].n
    BY <1>1, MovesOn
  <2> QED BY <1>1, <2>1 DEF After, At
<1>3. \A t : Expiry(t)' = Expiry(t)
  BY <1>1 DEF Expiry
<1>4. ReadTime' /\ FiredInOrder'
  BY <1>1, <1>2, <1>3 DEF TimerInv, ReadTime, FiredInOrder
<1>5. PICK L : Order(L) /\ Fired(L)
  BY DEF TimerInv
<1>6. Len(timers) \in Nat
  BY ClockType
<1>7. L # <<>> /\ Arg = L[1] /\ 1 \in 1 .. Len(L) /\ L \in Seq(1 .. Len(timers))
  BY <1>2, <1>5, <1>6, OrderTypes DEF Fired
<1>8. PICK M : M = Tail(L)
  OBVIOUS
<1>9. /\ M \in Seq(1 .. Len(timers)) /\ Len(M) = Len(L) - 1 /\ Len(L) \in Nat /\ Len(L) > 0
      /\ \A k \in 1 .. Len(M) : M[k] = L[k + 1]
  BY <1>7, <1>8, Behead
<1>10. \A k \in 1 .. Len(M) : k + 1 \in 1 .. Len(L) /\ k + 1 # 1
  BY <1>9
<1>11. Order(M)'
  <2>1. thead' = IF M = <<>> THEN NULL ELSE M[1]
    <3>1. thead' = IF 1 < Len(L) THEN L[1 + 1] ELSE NULL
      BY <1>1, <1>5, <1>7 DEF Order
    <3>2. CASE M = <<>>
      <4>1. ~(1 < Len(L))
        <5>1. ASSUME NEW n \in Nat, n - 1 = 0 PROVE ~(1 < n)
          BY <5>1
        <5>2. Len(M) = 0
          BY <3>2
        <5>3. Len(L) \in Nat /\ Len(L) - 1 = 0
          BY <1>9, <5>2
        <5> QED BY <5>1, <5>3
      <4> QED BY <3>1, <3>2, <4>1
    <3>3. CASE M # <<>>
      <4>1. 1 \in 1 .. Len(M)
        BY <1>9, <3>3
      <4>2. 1 < Len(L) /\ M[1] = L[1 + 1]
        BY <1>9, <4>1
      <4> QED BY <3>1, <3>3, <4>2
    <3> QED BY <3>2, <3>3
  <2>2. ASSUME NEW k \in 1 .. Len(M)
        PROVE  timers[M[k]].next = IF k < Len(M) THEN M[k + 1] ELSE NULL
    <3>1. timers[L[k + 1]].next = IF k + 1 < Len(L) THEN L[(k + 1) + 1] ELSE NULL
      BY <1>5, <1>10 DEF Order
    <3>2. (k < Len(M) <=> k + 1 < Len(L)) /\ (k < Len(M) => k + 1 \in 1 .. Len(M))
      BY <1>9
    <3> QED BY <1>9, <3>1, <3>2
  <2>3. ASSUME NEW i \in 1 .. Len(M), NEW j \in 1 .. Len(M), i < j
        PROVE  M[i] # M[j] /\ Expiry(M[i]) <= Expiry(M[j])
    <3>1. i + 1 \in 1 .. Len(L) /\ j + 1 \in 1 .. Len(L) /\ i + 1 < j + 1
      BY <1>9, <2>3
    <3>2. L[i + 1] # L[j + 1] /\ Expiry(L[i + 1]) <= Expiry(L[j + 1])
      BY <1>5, <3>1 DEF Order
    <3> QED BY <1>9, <3>2
  <2> QED BY <1>1, <1>3, <1>9, <2>1, <2>2, <2>3 DEF Order
<1>12. Fired(M)'
  <2>1. ASSUME NEW i \in 1 .. Len(fired), NEW k \in 1 .. Len(M)
        PROVE  Expiry(fired[i]) <= Expiry(M[k]) /\ fired[i] # M[k]
    <3>1. k + 1 \in 1 .. Len(L) /\ k + 1 # 1 /\ M[k] = L[k + 1]
      BY <1>9, <1>10
    <3> QED BY <1>5, <3>1 DEF Fired
  <2>2. \A i \in 1 .. Len(fired) : Expiry(fired[i]) <= now
    BY <1>5 DEF Fired
  <2> QED BY <1>1, <1>2, <1>3, <2>1, <2>2 DEF Fired
<1> QED BY <1>4, <1>11, <1>12 DEF TimerInv

\* All the others leave the timers alone.
LEMMA OthersTimers ==
  ASSUME IInv, IInv', RxInv, TimerInv, Len(stack) <= 1, elr' = 0, [Next]_vars,
         ~SetTimeout, ~TimerStop, ~Expire, ~Drop
  PROVE  TimerInv'
<1>0. now \in Nat /\ Len(timers) \in Nat
  BY ClockType
<1>1. CASE World \/ Idle \/ EretAstray \/ PopNull \/ SendMore \/ SendLast \/ SendExec \/ UNCHANGED vars
  <2>1. UNCHANGED <<stack, timers, thead, fired>> /\ (now' = now \/ now' = now + 1)
    BY <1>1 DEF World, Tick, CharTime, Idle, EretAstray, PopNull, SendMore, SendLast, SendExec, Send,
       vars, cpu, clock, world
  <2>2. now <= now'
    BY <1>0, <2>1
  <2> QED BY <2>1, <2>2, TimersStay
<1>a. ASSUME UNCHANGED <<timers, thead, fired, now>>, Now # "drop", Now' \notin {"timers", "drop"}
      PROVE  TimerInv'
  BY <1>0, <1>a, TimersStay
<1>2. CASE Irq
  <2>1. UNCHANGED <<timers, thead, fired, now>> /\ Len(stack) = 0
    BY <1>2 DEF Irq, clock, world
  <2>2. stack = <<>>
    <3>1. stack \in Seq(Seq(Step))
      BY DEF IInv, TypeOK
    <3> QED BY <2>1, <3>1
  <2>3. Now = "idle" /\ Now' \in {"timeroff", "rxoff", "clear"}
    BY <1>2, <2>2, IrqGoes DEF Now
  <2> QED BY <1>a, <2>1, <2>3
<1>3. CASE Eret
  <2>1. UNCHANGED <<timers, thead, fired, now>>
    BY <1>3 DEF Eret, clock, world
  <2>2. Now = "eret" /\ Now' = "idle"
    BY <1>3, EretGoes
  <2> QED BY <1>a, <2>1, <2>2
<1>4. CASE RunTask
  <2>1. UNCHANGED <<timers, thead, fired, now>>
    BY <1>4 DEF RunTask, clock, world
  <2>2. Now = "tasks" /\ Now' \in {"rx", "tx", "timer"}
    BY <1>4, RunTaskGoes
  <2> QED BY <1>a, <2>1, <2>2
<1>5. CASE SendLine
  <2>1. UNCHANGED <<timers, thead, fired, now>>
    BY <1>5 DEF SendLine, Send, clock
  <2>2. Now = "send" /\ Now' \in {"set", "reset"}
    BY <1>5, SendLineGoes
  <2> QED BY <1>a, <2>1, <2>2
<1>b. ASSUME NEW op, At(op), op \notin {"eret", "drop"}, NEW s \in Step, Goto(<<s>>),
             s.op \in Ops \ {"timers", "drop"}, After(Head(Top)) \subseteq After(s),
             UNCHANGED <<timers, thead, fired, now>>
      PROVE  TimerInv'
  <2>1. Now = op /\ Now' = s.op
    BY <1>b, MovesTo
  <2> QED BY <1>a, <1>b, <2>1
<1>6. CASE TimerOff
  <2>1. /\ DoWith("create", TIMER) \in Step /\ DoWith("create", TIMER).op = "create"
        /\ At("timeroff") /\ Goto(<<DoWith("create", TIMER)>>)
        /\ After(Head(Top)) \subseteq After(DoWith("create", TIMER))
        /\ UNCHANGED <<timers, thead, fired, now>>
    BY <1>6 DEF TimerOff, world, At, After, DoWith, RX, TX, TIMER, Step, Ops
  <2> QED BY <1>b, <2>1 DEF Ops
<1>7. CASE RxOff
  <2>1. /\ DoWith("create", RX) \in Step /\ DoWith("create", RX).op = "create"
        /\ At("rxoff") /\ Goto(<<DoWith("create", RX)>>)
        /\ After(Head(Top)) \subseteq After(DoWith("create", RX))
        /\ UNCHANGED <<timers, thead, fired, now>>
    BY <1>7 DEF RxOff, clock, world, At, After, DoWith, RX, TX, TIMER, Step, Ops
  <2> QED BY <1>b, <2>1 DEF Ops
<1>8. CASE Receive
  <2>1. /\ DoWith("create", TX) \in Step /\ DoWith("create", TX).op = "create"
        /\ At("rx") /\ Goto(<<DoWith("create", TX)>>)
        /\ After(Head(Top)) \subseteq After(DoWith("create", TX))
        /\ UNCHANGED <<timers, thead, fired, now>>
    BY <1>8 DEF Receive, clock, world, At, After, DoWith, RX, TX, TIMER, Step, Ops
  <2> QED BY <1>b, <2>1 DEF Ops
<1>9. CASE Transmit \/ Reset
  <2>1. /\ Do("send") \in Step /\ Do("send").op = "send"
        /\ At("tx") \/ At("reset")
        /\ Goto(<<Do("send")>>)
        /\ After(Head(Top)) \subseteq After(Do("send"))
        /\ UNCHANGED <<timers, thead, fired, now>>
    BY <1>9 DEF Transmit, Reset, clock, world, At, After, Do, Step, Ops
  <2> QED BY <1>b, <2>1 DEF Ops
<1>10. CASE TimerOn
  <2>1. /\ Do("ctl") \in Step /\ Do("ctl").op = "ctl"
        /\ At("timer") /\ Goto(<<Do("ctl")>>)
        /\ After(Head(Top)) \subseteq After(Do("ctl"))
        /\ UNCHANGED <<timers, thead, fired, now>>
    BY <1>10 DEF TimerOn, world, At, After, Do, Step, Ops
  <2> QED BY <1>b, <2>1 DEF Ops
<1>11. CASE Create \/ Clear \/ TasksDone \/ Pop \/ Mask \/ SendDone \/ NoMessage \/ TimersDone
  <2>1. PICK op \in {"create", "clear", "tasks", "pop", "mask", "send", "set", "timers"} : At(op)
    BY <1>11 DEF Create, Clear, TasksDone, Pop, Mask, SendDone, NoMessage, TimersDone
  <2>2. Goto(<<>>) /\ UNCHANGED <<timers, thead, fired, now>>
    BY <1>11 DEF Create, Clear, TasksDone, Pop, Mask, SendDone, NoMessage, TimersDone, Continue,
       clock, world
  <2>3. Now = op /\ Now' \in After(Head(Top))
    BY <2>1, <2>2, MovesOn
  <2>4. After(Head(Top)) \cap {"timers", "drop"} = {}
    BY <2>1 DEF At, After
  <2> QED BY <1>a, <2>1, <2>2, <2>3, <2>4
<1> QED BY <1>1, <1>2, <1>3, <1>4, <1>5, <1>6, <1>7, <1>8, <1>9, <1>10, <1>11
        DEF Next, Kernel, Dispatch, Drain, Echo, Alarm

LEMMA TimersStart == Init => TimerInv
<1>1. SUFFICES ASSUME Init PROVE TimerInv
  OBVIOUS
<1>2. stack = <<>> /\ timers = <<>> /\ thead = NULL /\ fired = <<>> /\ Len(<<>>) = 0
  BY <1>1 DEF Init
<1>3. Now = "idle"
  BY <1>2 DEF Now
<1>4. Order(<<>>) /\ Fired(<<>>)
  BY <1>2, <1>3 DEF Order, Fired
<1> QED BY <1>2, <1>3, <1>4 DEF TimerInv, FiredInOrder, ReadTime

\* As long as no interrupt has been taken inside another one, a timer runs once
\* and timers run in the order they expire, whenever they were set and however
\* deep interrupts nest later.
THEOREM AlwaysInOrder == Spec => []TimersInOrder
<1> DEFINE Inv == IInv /\ RxInv /\ CInv /\ (elr = 0 => TimerInv)
<1>1. ASSUME Inv, [Next]_vars
      PROVE  Inv'
  <2>1. IInv' /\ RxInv' /\ CInv'
    BY <1>1, Keeps, KeepsRx, KeepsC
  <2>2. ASSUME elr' = 0 PROVE TimerInv'
    <3>1. elr = 0 /\ Len(stack) <= 1
      BY <1>1, <2>2, StillClean
    <3> QED BY <1>1, <2>1, <2>2, <3>1, SetTimeoutTimers, TimerStopTimers, ExpireTimers, DropTimers,
               OthersTimers
  <2> QED BY <2>1, <2>2
<1>2. Init => Inv
  BY RxStarts, CleanStarts, TimersStart
<1>3. Inv => TimersInOrder
  BY DEF TimerInv, TimersInOrder
<1> HIDE DEF Inv
<1> QED BY <1>1, <1>2, <1>3, PTL DEF Spec

=============================================================================
