----------------------------- MODULE IrqProofs -----------------------------
(***************************************************************************)
(* What holds of the interrupt machinery however many characters, timers   *)
(* and nested interrupts there are: the shape of every frame, the order of *)
(* the task list, that no handler leaves a task behind, and that the       *)
(* receive interrupt is never left off.                                    *)
(***************************************************************************)
EXTENDS Irq, TLAPS

\* A frame that still ends in eret, reached only from the end of the loop of
\* execute_tasks, whose create_task calls name a job and whose removals name
\* one of the q timers.
Frame(f, q) ==
  /\ f \in Seq(Step) /\ Len(f) > 0
  /\ f[Len(f)].op = "eret"
  /\ \A i \in 2 .. Len(f) : f[i].op = "eret" => f[i - 1].op = "tasks"
  /\ \A i \in 1 .. Len(f) : /\ f[i].op = "create" => f[i].n \in Jobs
                            /\ f[i].op = "drop" => f[i].n \in 1 .. q

Frames == \A i \in 1 .. Len(stack) : Frame(stack[i], Len(timers))

\* What a step may put in its place.
Plain(steps, q) ==
  /\ steps \in Seq(Step)
  /\ \A i \in 1 .. Len(steps) : /\ steps[i].op # "eret"
                                /\ steps[i].op = "create" => steps[i].n \in Jobs
                                /\ steps[i].op = "drop" => steps[i].n \in 1 .. q

\* The inductive invariant.
IInv == TypeOK /\ Frames /\ TasksSorted /\ Drained

----------------------------------------------------------------------------
(* Steps and frames *)

LEMMA StepTypes ==
  /\ \A op \in Ops : Do(op) \in Step /\ Do(op).op = op
  /\ \A op \in Ops, n \in Nat : /\ DoWith(op, n) \in Step
                                /\ DoWith(op, n).op = op /\ DoWith(op, n).n = n
BY DEF Do, DoWith, Step

LEMMA Splice ==
  ASSUME NEW q \in Nat, NEW f, Frame(f, q), f[1].op # "eret",
         NEW steps, Plain(steps, q),
         f[1].op = "tasks" /\ steps # <<>> => steps[Len(steps)].op = "tasks"
  PROVE  /\ Frame(steps \o Tail(f), q)
         /\ (steps \o Tail(f))[1].op = "eret" => steps = <<>> /\ f[1].op = "tasks"
<1> DEFINE g == steps \o Tail(f)
           k == Len(steps)
           m == Len(f)
           isEret(s)  == s.op = "eret"
           isTasks(s) == s.op = "tasks"
           fits(s)    == /\ s.op = "create" => s.n \in Jobs
                         /\ s.op = "drop" => s.n \in 1 .. q
<1>1. f \in Seq(Step) /\ m \in Nat /\ m > 1 /\ k \in Nat /\ steps \in Seq(Step)
  BY DEF Frame, Plain
<1>2. Tail(f) \in Seq(Step) /\ Len(Tail(f)) = m - 1
      /\ \A i \in 1 .. m - 1 : Tail(f)[i] = f[i + 1]
  BY <1>1
<1>3. g \in Seq(Step) /\ Len(g) = k + m - 1
  BY <1>1, <1>2
<1>4. \A i \in 1 .. k : g[i] = steps[i]
  BY <1>1, <1>2
<1>5. \A i \in k + 1 .. k + m - 1 : g[i] = f[i - k + 1]
  BY <1>1, <1>2
<1>6. (k > 0) <=> steps # <<>>
  BY <1>1
<1>7. isEret(f[m])
  BY DEF Frame
<1>8. \A i \in 2 .. m : isEret(f[i]) => isTasks(f[i - 1])
  BY DEF Frame
<1>9. \A i \in 1 .. m : fits(f[i])
  BY DEF Frame
<1>10. \A i \in 1 .. k : ~isEret(steps[i]) /\ fits(steps[i])
  BY DEF Plain
<1>11. k \in Nat /\ m \in Nat /\ m > 1
  BY <1>1
<1>12. ~isEret(f[1]) /\ (steps # <<>> /\ isTasks(f[1]) => isTasks(steps[k]))
  OBVIOUS
<1> HIDE DEF g, k, m, isEret, isTasks, fits
<1>13. Len(g) > 0 /\ isEret(g[Len(g)])
  <2>1. Len(g) > 0 /\ Len(g) \in k + 1 .. k + m - 1 /\ Len(g) - k + 1 = m
    BY <1>11, <1>3
  <2>2. g[Len(g)] = f[Len(g) - k + 1]
    BY <2>1, <1>5
  <2> QED BY <2>1, <2>2, <1>7
<1>14. ASSUME NEW i \in 2 .. Len(g), isEret(g[i])
       PROVE  isTasks(g[i - 1])
  <2>1. i \in 2 .. k + m - 1
    BY <1>3
  <2>2. i \notin 1 .. k
    <3> SUFFICES ASSUME i \in 1 .. k PROVE FALSE
      OBVIOUS
    <3>1. g[i] = steps[i]
      BY <1>4
    <3>2. ~isEret(steps[i])
      BY <1>10
    <3> QED BY <3>1, <3>2, <1>14
  <2>3. i \in k + 1 .. k + m - 1 /\ i - k + 1 \in 2 .. m
    BY <2>1, <2>2, <1>11
  <2>4. g[i] = f[i - k + 1]
    BY <2>3, <1>5
  <2>5. isTasks(f[(i - k + 1) - 1])
    BY <2>3, <2>4, <1>8, <1>14
  <2>6. CASE i = k + 1
    <3>1. (i - k + 1) - 1 = 1 /\ i - 1 = k /\ k \in 1 .. k
      BY <2>6, <2>1, <1>11
    <3>2. isTasks(f[1]) /\ steps # <<>>
      <4>1. steps # <<>>
        BY <3>1, <1>6, <1>11
      <4>2. isTasks(f[1])
        BY <3>1, <2>5
      <4> QED BY <4>1, <4>2
    <3>3. g[i - 1] = steps[k]
      BY <3>1, <1>4
    <3>4. isTasks(steps[k])
      BY <3>2, <1>12
    <3> QED BY <3>3, <3>4
  <2>7. CASE i # k + 1
    <3>1. i - 1 \in k + 1 .. k + m - 1 /\ (i - 1) - k + 1 = (i - k + 1) - 1
      BY <2>7, <2>3, <1>11
    <3>2. g[i - 1] = f[(i - 1) - k + 1]
      BY <3>1, <1>5
    <3> QED BY <3>1, <3>2, <2>5
  <2> QED BY <2>6, <2>7
<1>15. ASSUME NEW i \in 1 .. Len(g)
       PROVE  fits(g[i])
  <2>1. CASE i \in 1 .. k
    <3>1. g[i] = steps[i]
      BY <2>1, <1>4
    <3>2. fits(steps[i])
      BY <2>1, <1>10
    <3> QED BY <3>1, <3>2
  <2>2. CASE i \notin 1 .. k
    <3>1. i \in k + 1 .. k + m - 1 /\ i - k + 1 \in 1 .. m
      BY <2>2, <1>3, <1>11
    <3>2. g[i] = f[i - k + 1]
      BY <3>1, <1>5
    <3>3. fits(f[i - k + 1])
      BY <3>1, <1>9
    <3> QED BY <3>2, <3>3
  <2> QED BY <2>1, <2>2
<1>16. Frame(g, q)
  BY <1>3, <1>13, <1>14, <1>15 DEF Frame, isEret, isTasks, fits
<1>17. ASSUME isEret(g[1])
       PROVE  steps = <<>> /\ isTasks(f[1])
  <2>1. 1 \notin 1 .. k
    <3> SUFFICES ASSUME 1 \in 1 .. k PROVE FALSE
      OBVIOUS
    <3>1. g[1] = steps[1]
      BY <1>4
    <3>2. ~isEret(steps[1])
      BY <1>10
    <3> QED BY <3>1, <3>2, <1>17
  <2>2. k = 0
    BY <2>1, <1>11
  <2>3. steps = <<>>
    BY <2>2, <1>6
  <2>4. 1 \in k + 1 .. k + m - 1 /\ 1 - k + 1 = 2 /\ 2 \in 2 .. m /\ 2 - 1 = 1
    BY <2>2, <1>11
  <2>5. g[1] = f[2]
    BY <2>4, <1>5
  <2> QED BY <2>3, <2>4, <2>5, <1>8, <1>17
<1> QED BY <1>16, <1>17 DEF g, isEret, isTasks

LEMMA Push ==
  ASSUME NEW q \in Nat, NEW f, Frame(f, q), f[1].op # "eret",
         NEW s \in Step, s.op # "eret", s.op # "create", s.op # "drop"
  PROVE  Frame(<<s>> \o f, q) /\ (<<s>> \o f)[1].op # "eret"
<1> DEFINE g == <<s>> \o f
<1>1. f \in Seq(Step) /\ Len(f) \in Nat /\ Len(f) > 0
  BY DEF Frame
<1>2. g \in Seq(Step) /\ Len(g) = Len(f) + 1 /\ g[1] = s
  BY <1>1
<1>3. \A i \in 2 .. Len(g) : g[i] = f[i - 1]
  BY <1>1
<1> HIDE DEF g
<1>4. g[Len(g)].op = "eret"
  BY <1>1, <1>2, <1>3 DEF Frame
<1>5. ASSUME NEW i \in 2 .. Len(g), g[i].op = "eret"
      PROVE  g[i - 1].op = "tasks"
  <2>1. i # 2
    BY <1>3, <1>5
  <2>2. g[i] = f[i - 1] /\ g[i - 1] = f[(i - 1) - 1] /\ i - 1 \in 2 .. Len(f)
    <3>1. i \in 2 .. Len(g) /\ i - 1 \in 2 .. Len(g) /\ i - 1 \in 2 .. Len(f)
      BY <2>1, <1>1, <1>2
    <3> QED BY <3>1, <1>3
  <2> QED BY <2>2, <1>5 DEF Frame
<1>6. ASSUME NEW i \in 1 .. Len(g)
      PROVE  /\ g[i].op = "create" => g[i].n \in Jobs
             /\ g[i].op = "drop" => g[i].n \in 1 .. q
  <2>1. CASE i = 1
    BY <1>2, <2>1
  <2>2. CASE i # 1
    <3>1. g[i] = f[i - 1] /\ i - 1 \in 1 .. Len(f)
      BY <2>2, <1>1, <1>2, <1>3
    <3> QED BY <3>1 DEF Frame
  <2> QED BY <2>1, <2>2
<1> QED BY <1>1, <1>2, <1>4, <1>5, <1>6 DEF Frame, g

LEMMA HandlerFrame ==
  ASSUME NEW q \in Nat, NEW timer \in BOOLEAN, NEW rx \in BOOLEAN
  PROVE  Frame(Handler(timer, rx), q) /\ Handler(timer, rx)[1].op # "eret"
<1> DEFINE base == <<Do("clear"), Do("tasks"), Do("eret")>>
           mid  == When(rx, "rxoff", base)
<1>1. Frame(base, q) /\ base[1].op # "eret"
  BY DEF Frame, Do, Step, Ops
<1>2. Do("rxoff") \in Step /\ Do("rxoff").op = "rxoff"
      /\ Do("timeroff") \in Step /\ Do("timeroff").op = "timeroff"
  BY DEF Do, Step, Ops
<1> HIDE DEF base
<1>3. Frame(mid, q) /\ mid[1].op # "eret"
  <2>1. CASE rx
    BY <2>1, <1>1, <1>2, Push DEF When
  <2>2. CASE ~rx
    BY <2>2, <1>1 DEF When
  <2> QED BY <2>1, <2>2
<1> HIDE DEF mid
<1>4. Frame(When(timer, "timeroff", mid), q) /\ When(timer, "timeroff", mid)[1].op # "eret"
  <2>1. CASE timer
    BY <2>1, <1>3, <1>2, Push DEF When
  <2>2. CASE ~timer
    BY <2>2, <1>3 DEF When
  <2> QED BY <2>1, <2>2
<1> QED BY <1>4 DEF Handler, mid, base

LEMMA Wider ==
  ASSUME NEW q \in Nat, NEW r \in Nat, q <= r, NEW f, Frame(f, q)
  PROVE  Frame(f, r)
BY DEF Frame

----------------------------------------------------------------------------
(* The stack of frames *)

LEMMA TopFrame ==
  ASSUME TypeOK, Frames, stack # <<>>, NEW q \in Nat, q = Len(timers)
  PROVE  Frame(Top, q) /\ Head(Top) = Top[1] /\ Head(Top) \in Step
<1>1. stack \in Seq(Seq(Step)) /\ Len(stack) > 0 /\ Top = stack[1]
  BY DEF TypeOK, Top
<1>2. Frame(Top, q)
  BY <1>1 DEF Frames
<1>3. Top \in Seq(Step) /\ Len(Top) > 0 /\ Len(Top) \in Nat
  BY <1>2 DEF Frame
<1> QED BY <1>2, <1>3

LEMMA GotoFacts ==
  ASSUME TypeOK, Frames, stack # <<>>, Head(Top).op # "eret",
         NEW steps, Plain(steps, Len(timers)), Goto(steps),
         Len(timers') \in Nat, Len(timers) <= Len(timers'),
         Head(Top).op = "tasks" /\ steps # <<>> => steps[Len(steps)].op = "tasks"
  PROVE  /\ stack' \in Seq(Seq(Step)) /\ Len(stack') = Len(stack) /\ stack' # <<>>
         /\ Frames'
         /\ Head(Head(stack')).op = "eret" => steps = <<>> /\ Head(Top).op = "tasks"
<1> DEFINE g == steps \o Tail(Top)
           r == Tail(stack)
           q == Len(timers)
<1>0. q \in Nat
  BY DEF TypeOK
<1>1. Frame(Top, q) /\ Head(Top) = Top[1]
  BY <1>0, TopFrame
<1>2. Frame(g, q) /\ (g[1].op = "eret" => steps = <<>> /\ Top[1].op = "tasks")
  <2>1. Top[1].op # "eret"
    BY <1>1
  <2>2. Top[1].op = "tasks" /\ steps # <<>> => steps[Len(steps)].op = "tasks"
    BY <1>1
  <2> HIDE DEF g
  <2>3. /\ Frame(steps \o Tail(Top), q)
        /\ (steps \o Tail(Top))[1].op = "eret" => steps = <<>> /\ Top[1].op = "tasks"
    BY <1>0, <1>1, <2>1, <2>2, Splice
  <2> QED BY <2>3 DEF g
<1>3. stack' = <<g>> \o r
  BY DEF Goto
<1>4. g \in Seq(Step) /\ Len(g) \in Nat /\ Len(g) > 0
  BY <1>2 DEF Frame
<1> HIDE DEF g
<1>5. stack \in Seq(Seq(Step)) /\ Len(stack) \in Nat /\ Len(stack) > 0
  BY DEF TypeOK
<1>6. r \in Seq(Seq(Step)) /\ Len(r) = Len(stack) - 1
      /\ \A i \in 1 .. Len(r) : r[i] = stack[i + 1]
  BY <1>5
<1> HIDE DEF r
<1>7. stack' \in Seq(Seq(Step)) /\ Len(stack') = Len(stack) /\ stack'[1] = g
  BY <1>3, <1>4, <1>5, <1>6
<1>8. \A i \in 2 .. Len(stack) : stack'[i] = stack[i]
  BY <1>3, <1>4, <1>5, <1>6
<1>9. \A i \in 1 .. Len(stack') : Frame(stack'[i], q)
  <2>1. stack'[1] = g /\ Frame(g, q)
    BY <1>2, <1>7
  <2>2. ASSUME NEW i \in 1 .. Len(stack'), i # 1
        PROVE  stack'[i] = stack[i] /\ i \in 1 .. Len(stack)
    BY <2>2, <1>5, <1>7, <1>8
  <2> QED BY <2>1, <2>2 DEF Frames
<1>10. Frames'
  <2>1. \A i \in 1 .. Len(stack') : Frame(stack'[i], Len(timers'))
    BY <1>0, <1>9, Wider
  <2> QED BY <2>1 DEF Frames
<1>11. Head(Head(stack')) = g[1] /\ stack' # <<>>
  BY <1>4, <1>5, <1>7
<1> QED BY <1>1, <1>2, <1>7, <1>10, <1>11

\* Every step but the end of the loop and eret: the frame goes on, and not at
\* its eret.
LEMMA Resumes ==
  ASSUME TypeOK, Frames, NEW op, At(op), op # "eret", op # "tasks",
         NEW steps, Plain(steps, Len(timers)), Goto(steps),
         Len(timers') \in Nat, Len(timers) <= Len(timers')
  PROVE  stack' \in Seq(Seq(Step)) /\ Len(stack') <= MaxNest /\ Frames' /\ Drained'
<1>1. stack # <<>> /\ Head(Top).op = op
  BY DEF At
<1>2. /\ stack' \in Seq(Seq(Step)) /\ Len(stack') = Len(stack) /\ Frames'
      /\ Head(Head(stack')).op # "eret"
  BY <1>1, GotoFacts
<1>3. Drained'
  BY <1>2 DEF Drained, At, Top
<1> QED BY <1>2, <1>3 DEF TypeOK

LEMMA NoSteps == \A q : Plain(<<>>, q)
BY DEF Plain

LEMMA OneStep ==
  ASSUME NEW q, NEW s \in Step, s.op # "eret", s.op = "create" => s.n \in Jobs,
         s.op = "drop" => s.n \in 1 .. q
  PROVE  Plain(<<s>>, q)
BY DEF Plain

\* Nothing on the stack moved, and the running step is not an eret.
LEMMA Stays ==
  ASSUME TypeOK, Frames, NEW op, At(op), op # "eret", UNCHANGED <<stack, timers>>
  PROVE  stack' \in Seq(Seq(Step)) /\ Len(stack') <= MaxNest /\ Frames' /\ Drained'
<1>1. Head(Top).op # "eret"
  BY DEF At
<1>2. Frames'
  BY DEF Frames
<1>3. Drained'
  BY <1>1 DEF Drained, At, Top
<1> QED BY <1>2, <1>3 DEF TypeOK

----------------------------------------------------------------------------
(* The task list *)

LEMMA TailSorted ==
  ASSUME tasks \in Seq(Jobs), tasks # <<>>, TasksSorted, tasks' = Tail(tasks)
  PROVE  tasks' \in Seq(Jobs) /\ TasksSorted'
<1>1. Len(tasks) \in Nat /\ Len(tasks) > 0
      /\ DOMAIN tasks = 1 .. Len(tasks)
  OBVIOUS
<1>2. tasks' \in Seq(Jobs) /\ Len(tasks') = Len(tasks) - 1
      /\ DOMAIN tasks' = 1 .. Len(tasks) - 1
      /\ \A i \in 1 .. Len(tasks) - 1 : tasks'[i] = tasks[i + 1]
  BY <1>1
<1>3. ASSUME NEW i \in DOMAIN tasks', NEW j \in DOMAIN tasks', i < j
      PROVE  tasks'[i] <= tasks'[j]
  <2>1. tasks'[i] = tasks[i + 1] /\ tasks'[j] = tasks[j + 1]
        /\ i + 1 \in DOMAIN tasks /\ j + 1 \in DOMAIN tasks /\ i + 1 < j + 1
    BY <1>1, <1>2, <1>3
  <2> QED BY <2>1 DEF TasksSorted
<1> QED BY <1>2, <1>3 DEF TasksSorted

\* An insertion, entry by entry.
LEMMA InsertedIn ==
  ASSUME NEW S, NEW list \in Seq(S), NEW p \in S, NEW n \in 0 .. Len(list)
  PROVE  /\ InsertAt(list, n + 1, p) \in Seq(S)
         /\ Len(InsertAt(list, n + 1, p)) = Len(list) + 1
         /\ \A i \in 1 .. n : InsertAt(list, n + 1, p)[i] = list[i]
         /\ InsertAt(list, n + 1, p)[n + 1] = p
         /\ \A i \in n + 2 .. Len(list) + 1 : InsertAt(list, n + 1, p)[i] = list[i - 1]
<1> DEFINE a == SubSeq(list, 1, n)
           b == SubSeq(list, n + 1, Len(list))
           k == Len(list)
           t == (a \o <<p>>) \o b
<1>1. k \in Nat /\ n \in Nat /\ DOMAIN list = 1 .. k
  OBVIOUS
<1>2. InsertAt(list, n + 1, p) = t
  <2>1. (n + 1) - 1 = n
    BY <1>1
  <2> QED BY <2>1 DEF InsertAt
<1>3. a \in Seq(S) /\ Len(a) = n /\ \A i \in 1 .. n : a[i] = list[i]
  BY <1>1
<1>4. b \in Seq(S) /\ Len(b) = k - n /\ \A i \in 1 .. k - n : b[i] = list[n + i]
  <2>1. n + 1 \in Nat /\ n + 1 >= 1 /\ k <= Len(list) /\ (k - (n + 1)) + 1 = k - n
    BY <1>1
  <2>2. b \in Seq(S) /\ Len(b) = k - n
    <3>1. \A i \in n + 1 .. k : list[i] \in S
      BY <1>1
    <3>2. b = [i \in 1 .. (k - (n + 1)) + 1 |-> list[i + (n + 1) - 1]]
      BY <1>1
    <3>3. \A i \in 1 .. k - n : i + (n + 1) - 1 = n + i /\ n + i \in n + 1 .. k
      BY <1>1
    <3>4. b = [i \in 1 .. k - n |-> list[n + i]]
      BY <3>2, <3>3, <2>1
    <3> HIDE DEF b
    <3>5. ASSUME NEW i \in 1 .. k - n
          PROVE  list[n + i] \in S
      BY <3>1, <3>3
    <3>6. b \in [1 .. k - n -> S] /\ k - n \in Nat
      BY <3>4, <3>5, <1>1
    <3> QED BY <3>6
  <2>3. ASSUME NEW i \in 1 .. k - n
        PROVE  b[i] = list[n + i]
    <3>1. b[i] = list[(n + 1) + i - 1]
      BY <2>1, <1>1
    <3>2. (n + 1) + i - 1 = n + i
      BY <1>1
    <3> QED BY <3>1, <3>2
  <2> QED BY <2>2, <2>3
<1> HIDE DEF a, b
<1>5. t \in Seq(S) /\ Len(t) = k + 1
  <2>1. a \o <<p>> \in Seq(S) /\ Len(a \o <<p>>) = n + 1
    BY <1>1, <1>3
  <2> QED BY <2>1, <1>1, <1>4
<1>6. \A i \in 1 .. n : t[i] = list[i]
  BY <1>1, <1>3, <1>4
<1>7. t[n + 1] = p
  <2>1. a \o <<p>> \in Seq(S) /\ Len(a \o <<p>>) = n + 1 /\ (a \o <<p>>)[n + 1] = p
    BY <1>1, <1>3
  <2> QED BY <2>1, <1>1, <1>4
<1>8. ASSUME NEW i \in n + 2 .. k + 1
      PROVE  t[i] = list[i - 1]
  <2>1. i - (n + 1) \in 1 .. k - n /\ n + (i - (n + 1)) = i - 1
    BY <1>1
  <2>2. t[i] = b[i - (n + 1)]
    BY <1>1, <1>3, <1>4
  <2> QED BY <2>1, <2>2, <1>4
<1> HIDE DEF t
<1> QED BY <1>2, <1>5, <1>6, <1>7, <1>8

\* enqueue_task's insertion.
LEMMA Inserted ==
  ASSUME NEW list \in Seq(Jobs), NEW p \in Jobs, NEW n \in 0 .. Len(list)
  PROVE  /\ InsertAt(list, n + 1, p) \in Seq(Jobs)
         /\ Len(InsertAt(list, n + 1, p)) = Len(list) + 1
         /\ \A i \in 1 .. n : InsertAt(list, n + 1, p)[i] = list[i]
         /\ InsertAt(list, n + 1, p)[n + 1] = p
         /\ \A i \in n + 2 .. Len(list) + 1 : InsertAt(list, n + 1, p)[i] = list[i - 1]
<1>1. InsertAt(list, n + 1, p) \in Seq(Jobs)
  BY InsertedIn
<1>2. Len(InsertAt(list, n + 1, p)) = Len(list) + 1
  BY InsertedIn
<1>3. \A i \in 1 .. n : InsertAt(list, n + 1, p)[i] = list[i]
  BY InsertedIn
<1>4. InsertAt(list, n + 1, p)[n + 1] = p
  BY InsertedIn
<1>5. \A i \in n + 2 .. Len(list) + 1 : InsertAt(list, n + 1, p)[i] = list[i - 1]
  BY InsertedIn
<1> QED BY <1>1, <1>2, <1>3, <1>4, <1>5

LEMMA InsertSorted ==
  ASSUME tasks \in Seq(Jobs), TasksSorted, NEW p \in Jobs,
         NEW n \in 0 .. Len(tasks), Behind(tasks, n, p),
         tasks' = InsertAt(tasks, n + 1, p)
  PROVE  tasks' \in Seq(Jobs) /\ TasksSorted'
<1> DEFINE k == Len(tasks)
           t == InsertAt(tasks, n + 1, p)
<1>1. k \in Nat /\ n \in Nat /\ DOMAIN tasks = 1 .. k
  OBVIOUS
<1>2. tasks' = t
  OBVIOUS
<1>5. t \in Seq(Jobs) /\ Len(t) = k + 1
  BY Inserted
<1>6. \A i \in 1 .. n : t[i] = tasks[i]
  BY Inserted
<1>7. t[n + 1] = p
  BY Inserted
<1>8. \A i \in n + 2 .. k + 1 : t[i] = tasks[i - 1]
  BY Inserted
<1> HIDE DEF t
<1>9. DOMAIN t = 1 .. k + 1
  BY <1>5
<1>10. \A i \in 1 .. k : tasks[i] \in Int
  BY <1>1 DEF Jobs, RX, TX, TIMER
<1>11. ASSUME NEW i \in 1 .. k + 1, NEW j \in 1 .. k + 1, i < j
       PROVE  t[i] <= t[j]
  <2>1. CASE j <= n
    BY <2>1, <1>1, <1>6, <1>11 DEF TasksSorted
  <2>2. CASE j = n + 1
    BY <2>2, <1>1, <1>6, <1>7, <1>11 DEF Behind
  <2>3. CASE i <= n /\ j > n + 1
    <3>1. t[i] = tasks[i] /\ t[j] = tasks[j - 1] /\ i \in 1 .. k /\ j - 1 \in 1 .. k /\ i < j - 1
      BY <2>3, <1>1, <1>6, <1>8
    <3> QED BY <3>1, <1>1 DEF TasksSorted
  <2>4. CASE i = n + 1
    <3>1. t[i] = p /\ t[j] = tasks[j - 1] /\ j - 1 \in 1 .. k /\ n + 1 <= j - 1 /\ n < k
      BY <2>4, <1>1, <1>7, <1>8, <1>11
    <3>2. p < tasks[n + 1] /\ n + 1 \in 1 .. k
      BY <3>1, <1>1 DEF Behind
    <3>3. tasks[n + 1] <= tasks[j - 1]
      <4>1. CASE n + 1 = j - 1
        BY <4>1, <3>2, <1>10
      <4>2. CASE n + 1 < j - 1
        BY <4>2, <3>1, <3>2, <1>1 DEF TasksSorted
      <4> QED BY <4>1, <4>2, <3>1, <1>1
    <3> QED BY <3>1, <3>2, <3>3, <1>10 DEF Jobs, RX, TX, TIMER
  <2>5. CASE i > n + 1
    <3>1. t[i] = tasks[i - 1] /\ t[j] = tasks[j - 1]
          /\ i - 1 \in 1 .. k /\ j - 1 \in 1 .. k /\ i - 1 < j - 1
      BY <2>5, <1>1, <1>8, <1>11
    <3> QED BY <3>1, <1>1 DEF TasksSorted
  <2> QED BY <2>1, <2>2, <2>3, <2>4, <2>5, <1>1
<1> QED BY <1>2, <1>5, <1>9, <1>11 DEF TasksSorted

----------------------------------------------------------------------------
(* Every step keeps the invariant *)

\* What TypeOK says beside the stack and the task list.
Rest ==
  /\ masked \in BOOLEAN /\ elr \in Nat
  /\ halt \in {"run", "astray", "null", "user"}
  /\ rxOn \in BOOLEAN /\ txOn \in BOOLEAN
  /\ fifo \in Seq(Chars) /\ Len(fifo) <= Fifo
  /\ out \in Seq(Chars \cup {"lf", Junk}) /\ last \in Chars \cup {"nul", Junk}
  /\ tx \in 0 .. TxFifo
  /\ heap \in 0 .. Heap
  /\ timers \in Seq([expiry : Nat, next : Nat]) /\ thead \in 0 .. Len(timers)
  /\ \A t \in DOMAIN timers : timers[t].next \in 0 .. Len(timers)
  /\ tirq \in BOOLEAN /\ ctl \in BOOLEAN /\ cval \in Nat /\ now \in Nat
  /\ input \in Seq(Chars) /\ lost \in Nat /\ Len(input) + lost <= MaxInput
  /\ echoed \in Seq(Chars \cup {Junk}) /\ shown \in Seq(Chars \cup {Junk})
  /\ fired \in Seq(1 .. Len(timers))

LEMMA Started == Init => IInv
<1> SUFFICES ASSUME Init PROVE IInv
  OBVIOUS
<1>1. TypeOK
  <2>1. \A S : <<>> \in Seq(S) /\ Len(<<>>) = 0
    OBVIOUS
  <2>2. stack \in Seq(Seq(Step)) /\ Len(stack) <= MaxNest /\ tasks \in Seq(Jobs)
    BY <2>1, BoundsAssumption DEF Init
  <2>3. Rest
    <3>1. timers = <<>> /\ DOMAIN timers = {} /\ Len(timers) = 0 /\ thead = 0
      BY DEF Init, NULL
    <3>2. /\ timers \in Seq([expiry : Nat, next : Nat])
          /\ fired \in Seq(1 .. Len(timers)) /\ input \in Seq(Chars)
          /\ echoed \in Seq(Chars \cup {Junk}) /\ shown \in Seq(Chars \cup {Junk})
          /\ fifo \in Seq(Chars)
          /\ out \in Seq(Chars \cup {"lf", Junk})
          /\ Len(fifo) = 0 /\ Len(input) = 0
      BY <2>1 DEF Init
    <3>3. /\ heap \in 0 .. Heap /\ Len(fifo) <= Fifo
          /\ lost \in Nat /\ Len(input) + lost <= MaxInput /\ tx \in 0 .. TxFifo
      BY <3>2, BoundsAssumption DEF Init
    <3>4. /\ thead \in 0 .. Len(timers)
          /\ \A t \in DOMAIN timers : timers[t].next \in 0 .. Len(timers)
      BY <3>1
    <3>5. /\ masked \in BOOLEAN /\ elr \in Nat /\ halt \in {"run", "astray", "null", "user"}
          /\ rxOn \in BOOLEAN /\ txOn \in BOOLEAN /\ last \in Chars \cup {"nul", Junk}
          /\ tirq \in BOOLEAN /\ ctl \in BOOLEAN /\ cval \in Nat /\ now \in Nat
      BY DEF Init
    <3> QED BY <3>2, <3>3, <3>4, <3>5, <3>1 DEF Rest
  <2> QED BY <2>2, <2>3 DEF TypeOK, Rest
<1>2. Frames /\ TasksSorted /\ Drained
  BY DEF Init, Frames, TasksSorted, Drained, At
<1> QED BY <1>1, <1>2 DEF IInv

\* Steps of the world and of main: the stack and the task list stay.
LEMMA WorldKeeps ==
  ASSUME IInv, World \/ Idle
  PROVE  IInv'
<1>1. UNCHANGED <<stack, tasks, halt, timers>>
  BY DEF World, Tick, CharTime, Idle, vars, cpu, clock
<1>2. Frames' /\ TasksSorted' /\ Drained'
  BY <1>1 DEF IInv, Frames, TasksSorted, Drained, At, Top
<1>3. ASSUME Tick PROVE TypeOK'
  BY <1>3 DEF IInv, TypeOK, Tick, cpu, uart, clock
<1>4. ASSUME CharTime PROVE TypeOK'
  <2>1. /\ input \in Seq(Chars) /\ lost \in Nat /\ Len(input) + lost <= MaxInput
        /\ fifo \in Seq(Chars) /\ Len(fifo) <= Fifo /\ Fifo \in Nat /\ MaxInput \in Nat
        /\ tx \in 0 .. TxFifo /\ TxFifo \in Nat
    BY BoundsAssumption DEF IInv, TypeOK
  <2>2. /\ input' \in Seq(Chars) /\ lost' \in Nat /\ Len(input') + lost' <= MaxInput
        /\ fifo' \in Seq(Chars) /\ Len(fifo') <= Fifo
    <3>1. CASE \E c \in Chars : Arrive(c)
      <4>1. PICK c \in Chars : Arrive(c)
        BY <3>1
      <4>2. CASE Len(fifo) < Fifo
        <5>1. input' = Append(input, c) /\ fifo' = Append(fifo, c) /\ lost' = lost
          BY <4>1, <4>2, <2>1 DEF Arrive
        <5>2. /\ input' \in Seq(Chars) /\ Len(input') = Len(input) + 1 /\ Len(input) \in Nat
              /\ fifo' \in Seq(Chars) /\ Len(fifo') = Len(fifo) + 1 /\ Len(fifo) \in Nat
          BY <5>1, <2>1
        <5>3. Len(input) + lost < MaxInput
          BY <4>1 DEF Arrive
        <5> QED BY <5>1, <5>2, <5>3, <4>2, <2>1
      <4>3. CASE ~(Len(fifo) < Fifo)
        <5>1. /\ lost' = lost + 1 /\ UNCHANGED <<input, fifo>>
              /\ Len(input) + lost < MaxInput /\ Len(input) \in Nat
          BY <4>1, <4>3, <2>1 DEF Arrive
        <5> QED BY <5>1, <2>1
      <4> QED BY <4>2, <4>3
    <3>2. CASE UNCHANGED <<input, fifo, lost>>
      BY <3>2, <2>1
    <3> QED BY <3>1, <3>2, <1>4 DEF CharTime
  <2>3. tx' \in 0 .. TxFifo
    BY <1>4, <2>1 DEF CharTime
  <2> QED BY <1>4, <2>2, <2>3 DEF IInv, TypeOK, CharTime, cpu, clock
<1>5. ASSUME Idle PROVE TypeOK'
  BY <1>5 DEF IInv, TypeOK, Idle, vars, cpu, uart, clock, world
<1> QED BY <1>2, <1>3, <1>4, <1>5 DEF World, IInv

LEMMA Parts ==
  /\ TypeOK <=> Rest /\ stack \in Seq(Seq(Step)) /\ Len(stack) <= MaxNest /\ tasks \in Seq(Jobs)
  /\ TypeOK' <=> Rest' /\ stack' \in Seq(Seq(Step)) /\ Len(stack') <= MaxNest
                       /\ tasks' \in Seq(Jobs)
BY DEF TypeOK, Rest

LEMMA SortedStays ==
  ASSUME TasksSorted, tasks \in Seq(Jobs), UNCHANGED tasks
  PROVE  tasks' \in Seq(Jobs) /\ TasksSorted'
BY DEF TasksSorted

\* A step that goes on with steps and leaves the task list alone.
LEMMA GoesOn ==
  ASSUME IInv, NEW op, At(op), op # "eret", op # "tasks",
         NEW steps, Plain(steps, Len(timers)), Goto(steps),
         UNCHANGED tasks, Len(timers') \in Nat, Len(timers) <= Len(timers'), Rest'
  PROVE  IInv'
BY Resumes, SortedStays, Parts DEF IInv

LEMMA GoesOnSame ==
  ASSUME IInv, NEW op, At(op), op # "eret", op # "tasks",
         NEW steps, Plain(steps, Len(timers)), Goto(steps),
         UNCHANGED <<tasks, timers>>, Rest'
  PROVE  IInv'
<1>1. Len(timers') \in Nat /\ Len(timers) <= Len(timers')
  BY DEF IInv, TypeOK
<1> QED BY <1>1, GoesOn

----------------------------------------------------------------------------
(* Dispatch *)

LEMMA IrqKeeps ==
  ASSUME IInv, Irq
  PROVE  IInv'
<1> DEFINE h == Handler(TimerLine, RxLine)
           q == Len(timers)
<1>1. q \in Nat /\ TimerLine \in BOOLEAN /\ RxLine \in BOOLEAN
  BY DEF IInv, TypeOK, TimerLine, RxLine
<1>2. Frame(h, q) /\ h[1].op # "eret"
  BY <1>1, HandlerFrame
<1>3. h \in Seq(Step) /\ Len(h) \in Nat /\ Len(h) > 0
  BY <1>2 DEF Frame
<1>4. stack' = <<h>> \o stack /\ UNCHANGED <<tasks, timers>> /\ Len(stack) < MaxNest
  BY DEF Irq, clock
<1> HIDE DEF h
<1>5. stack \in Seq(Seq(Step)) /\ Len(stack) \in Nat
  BY DEF IInv, TypeOK
<1>6. stack' \in Seq(Seq(Step)) /\ Len(stack') = Len(stack) + 1 /\ stack'[1] = h
  BY <1>3, <1>4, <1>5
<1>7. \A i \in 2 .. Len(stack) + 1 : stack'[i] = stack[i - 1]
  BY <1>3, <1>4, <1>5
<1>8. Frames'
  <2>1. ASSUME NEW i \in 1 .. Len(stack'), i # 1
        PROVE  Frame(stack'[i], q)
    <3>1. stack'[i] = stack[i - 1] /\ i - 1 \in 1 .. Len(stack)
      BY <2>1, <1>5, <1>6, <1>7
    <3> QED BY <3>1 DEF IInv, Frames
  <2>2. \A i \in 1 .. Len(stack') : Frame(stack'[i], q)
    BY <2>1, <1>2, <1>6
  <2> QED BY <2>2, <1>4 DEF Frames
<1>9. Head(Head(stack')) = h[1]
  BY <1>3, <1>5, <1>6
<1>10. Drained'
  BY <1>2, <1>9 DEF Drained, At, Top
<1>11. TasksSorted' /\ tasks' \in Seq(Jobs)
  BY <1>4, SortedStays DEF IInv, TypeOK
<1>12. Len(stack') <= MaxNest
  BY <1>4, <1>5, <1>6, BoundsAssumption
<1>13. Rest'
  BY <1>5 DEF IInv, TypeOK, Rest, Irq, uart, clock, world
<1> QED BY <1>6, <1>8, <1>10, <1>11, <1>12, <1>13, Parts DEF IInv

LEMMA TimerOffKeeps ==
  ASSUME IInv, TimerOff
  PROVE  IInv'
<1>1. Plain(<<DoWith("create", TIMER)>>, Len(timers))
  BY StepTypes, OneStep DEF Ops, Jobs, TIMER
<1>2. Rest'
  BY DEF IInv, TypeOK, Rest, TimerOff, uart, world
<1>3. At("timeroff") /\ Goto(<<DoWith("create", TIMER)>>) /\ UNCHANGED <<tasks, timers>>
  BY DEF TimerOff
<1> QED BY <1>1, <1>2, <1>3, GoesOnSame

LEMMA RxOffKeeps ==
  ASSUME IInv, RxOff
  PROVE  IInv'
<1>1. Plain(<<DoWith("create", RX)>>, Len(timers))
  BY StepTypes, OneStep DEF Ops, Jobs, RX
<1>2. Rest'
  BY DEF IInv, TypeOK, Rest, RxOff, clock, world
<1>3. At("rxoff") /\ Goto(<<DoWith("create", RX)>>) /\ UNCHANGED <<tasks, timers>>
  BY DEF RxOff, clock
<1> QED BY <1>1, <1>2, <1>3, GoesOnSame

LEMMA CreateKeeps ==
  ASSUME IInv, Create
  PROVE  IInv'
<1>1. At("create") /\ Goto(<<>>) /\ UNCHANGED timers
  BY DEF Create, Continue, clock
<1>2. Len(timers') \in Nat /\ Len(timers) <= Len(timers')
  BY <1>1 DEF IInv, TypeOK
<1>3. stack' \in Seq(Seq(Step)) /\ Len(stack') <= MaxNest /\ Frames' /\ Drained'
  BY <1>1, <1>2, NoSteps, Resumes DEF IInv
<1>4. Arg \in Jobs
  <2>1. stack # <<>> /\ Head(Top).op = "create"
    BY <1>1 DEF At
  <2>2. Frame(Top, Len(timers)) /\ Head(Top) = Top[1]
    BY <2>1, <1>2, <1>1, TopFrame DEF IInv
  <2> QED BY <2>1, <2>2 DEF Frame, Arg
<1>5. tasks \in Seq(Jobs) /\ TasksSorted
  BY DEF IInv, TypeOK
<1>6. tasks' \in Seq(Jobs) /\ TasksSorted'
  <2>1. CASE Fits(TaskWords)
    <3>1. PICK n \in 0 .. Len(tasks) : Behind(tasks, n, Arg) /\ tasks' = InsertAt(tasks, n + 1, Arg)
      BY <2>1 DEF Create
    <3> QED BY <3>1, <1>4, <1>5, InsertSorted
  <2>2. CASE ~Fits(TaskWords)
    <3>1. UNCHANGED tasks
      BY <2>2 DEF Create
    <3> QED BY <3>1, <1>5, SortedStays
  <2> QED BY <2>1, <2>2
<1>7. heap' \in 0 .. Heap /\ masked' \in BOOLEAN
  <2>0. heap \in 0 .. Heap /\ masked \in BOOLEAN
    BY DEF IInv, TypeOK
  <2>1. CASE Fits(TaskWords)
    <3>1. heap' = heap - TaskWords /\ masked' = FALSE
      BY <2>1 DEF Create
    <3>2. heap >= TaskWords
      BY <2>1 DEF Fits
    <3>3. heap' \in 0 .. Heap
      BY <2>0, <3>1, <3>2, BoundsAssumption
    <3> QED BY <3>1, <3>3
  <2>2. CASE ~Fits(TaskWords)
    <3>1. UNCHANGED <<heap, masked>>
      BY <2>2 DEF Create
    <3> QED BY <2>0, <3>1
  <2> QED BY <2>1, <2>2
<1>8. Rest'
  BY <1>7 DEF IInv, TypeOK, Rest, Create, uart, clock, world
<1> QED BY <1>3, <1>6, <1>8, Parts DEF IInv

LEMMA ClearKeeps ==
  ASSUME IInv, Clear
  PROVE  IInv'
<1>1. Rest'
  BY DEF IInv, TypeOK, Rest, Clear, uart, clock, world
<1>2. At("clear") /\ Goto(<<>>) /\ UNCHANGED <<tasks, timers>>
  BY DEF Clear, Continue, clock
<1> QED BY <1>1, <1>2, NoSteps, GoesOnSame

LEMMA EretKeeps ==
  ASSUME IInv, Eret
  PROVE  IInv'
<1>1. At("eret") /\ stack' = Tail(stack) /\ UNCHANGED <<tasks, timers>>
  BY DEF Eret, clock
<1>2. tasks = <<>>
  BY <1>1 DEF IInv, Drained
<1>3. stack \in Seq(Seq(Step)) /\ Len(stack) \in Nat /\ Len(stack) > 0 /\ Len(stack) <= MaxNest
  BY <1>1 DEF IInv, TypeOK, At
<1>4. stack' \in Seq(Seq(Step)) /\ Len(stack') = Len(stack) - 1
      /\ \A i \in 1 .. Len(stack) - 1 : stack'[i] = stack[i + 1]
  BY <1>1, <1>3
<1>5. Frames'
  <2>1. ASSUME NEW i \in 1 .. Len(stack')
        PROVE  Frame(stack'[i], Len(timers))
    <3>1. stack'[i] = stack[i + 1] /\ i + 1 \in 1 .. Len(stack)
      BY <1>3, <1>4
    <3> QED BY <3>1 DEF IInv, Frames
  <2> QED BY <2>1, <1>1 DEF Frames
<1>6. Drained'
  BY <1>1, <1>2 DEF Drained
<1>7. tasks' \in Seq(Jobs) /\ TasksSorted'
  BY <1>1, SortedStays DEF IInv, TypeOK
<1>8. Len(stack') <= MaxNest
  BY <1>3, <1>4, BoundsAssumption
<1>9. Rest'
  BY DEF IInv, TypeOK, Rest, Eret, uart, clock, world
<1> QED BY <1>4, <1>5, <1>6, <1>7, <1>8, <1>9, Parts DEF IInv

\* Steps after which the program is no longer followed: halt leaves "run".
LEMMA HaltKeeps ==
  ASSUME IInv, EretAstray \/ PopNull
  PROVE  IInv'
<1>1. UNCHANGED <<stack, tasks, timers>> /\ halt' \in {"astray", "null"}
  BY DEF EretAstray, PopNull, clock
<1>2. Frames' /\ TasksSorted' /\ Drained'
  BY <1>1 DEF IInv, Frames, TasksSorted, Drained, At
<1>3. TypeOK'
  <2>1. Rest'
    BY <1>1 DEF IInv, TypeOK, Rest, EretAstray, PopNull, uart, clock, world
  <2> QED BY <2>1, <1>1, Parts DEF IInv, TypeOK
<1> QED BY <1>2, <1>3 DEF IInv

----------------------------------------------------------------------------
(* execute_tasks *)

LEMMA RunTaskKeeps ==
  ASSUME IInv, RunTask
  PROVE  IInv'
<1> DEFINE p == Head(tasks)
           t == Turn(p)
<1>1. At("tasks") /\ tasks # <<>> /\ Goto(t) /\ UNCHANGED <<tasks, timers>>
  BY DEF RunTask, clock
<1>2. p \in Jobs /\ Len(timers) \in Nat
  BY <1>1 DEF IInv, TypeOK
<1>3. JobOp(p) \in {"rx", "tx", "timer"}
  BY <1>2 DEF JobOp, Jobs, RX, TX, TIMER
<1> HIDE DEF p
<1>4. Plain(t, Len(timers)) /\ t # <<>> /\ t[Len(t)].op = "tasks"
  BY <1>3 DEF Plain, Turn, Do, Step, Ops
<1> HIDE DEF t
<1>5. stack # <<>> /\ Head(Top).op = "tasks"
  BY <1>1 DEF At
<1>6. /\ stack' \in Seq(Seq(Step)) /\ Len(stack') = Len(stack) /\ Frames'
      /\ Head(Head(stack')).op # "eret"
  BY <1>1, <1>2, <1>4, <1>5, GotoFacts DEF IInv
<1>7. Drained'
  BY <1>6 DEF Drained, At, Top
<1>8. tasks' \in Seq(Jobs) /\ TasksSorted'
  BY <1>1, SortedStays DEF IInv, TypeOK
<1>9. Rest' /\ Len(stack') <= MaxNest
  BY <1>6 DEF IInv, TypeOK, Rest, RunTask, uart, clock, world
<1> QED BY <1>6, <1>7, <1>8, <1>9, Parts DEF IInv

LEMMA TasksDoneKeeps ==
  ASSUME IInv, TasksDone
  PROVE  IInv'
<1>1. At("tasks") /\ tasks = <<>> /\ Goto(<<>>) /\ UNCHANGED <<tasks, timers>>
  BY DEF TasksDone, Continue, clock
<1>2. stack # <<>> /\ Head(Top).op = "tasks" /\ Len(timers) \in Nat
  BY <1>1 DEF IInv, TypeOK, At
<1>3. stack' \in Seq(Seq(Step)) /\ Len(stack') = Len(stack) /\ Frames'
  BY <1>1, <1>2, NoSteps, GotoFacts DEF IInv
<1>4. Drained'
  BY <1>1 DEF Drained
<1>5. tasks' \in Seq(Jobs) /\ TasksSorted'
  BY <1>1, SortedStays DEF IInv, TypeOK
<1>6. Rest' /\ Len(stack') <= MaxNest
  BY <1>3 DEF IInv, TypeOK, Rest, TasksDone, uart, clock, world
<1> QED BY <1>3, <1>4, <1>5, <1>6, Parts DEF IInv

LEMMA PopKeeps ==
  ASSUME IInv, Pop
  PROVE  IInv'
<1>1. At("pop") /\ Goto(<<>>) /\ tasks # <<>> /\ tasks' = Tail(tasks) /\ UNCHANGED timers
  BY DEF Pop, Continue, clock
<1>2. stack' \in Seq(Seq(Step)) /\ Len(stack') <= MaxNest /\ Frames' /\ Drained'
  <2>1. Len(timers') \in Nat /\ Len(timers) <= Len(timers')
    BY <1>1 DEF IInv, TypeOK
  <2> QED BY <1>1, <2>1, NoSteps, Resumes DEF IInv
<1>3. tasks' \in Seq(Jobs) /\ TasksSorted'
  BY <1>1, TailSorted DEF IInv, TypeOK
<1>4. Rest'
  BY DEF IInv, TypeOK, Rest, Pop, uart, clock, world
<1> QED BY <1>2, <1>3, <1>4, Parts DEF IInv

LEMMA MaskKeeps ==
  ASSUME IInv, Mask
  PROVE  IInv'
<1>1. Rest'
  BY DEF IInv, TypeOK, Rest, Mask, uart, clock, world
<1>2. At("mask") /\ Goto(<<>>) /\ UNCHANGED <<tasks, timers>>
  BY DEF Mask, Continue, clock
<1> QED BY <1>1, <1>2, NoSteps, GoesOnSame

----------------------------------------------------------------------------
(* The UART tasks *)

LEMMA ReceiveKeeps ==
  ASSUME IInv, Receive
  PROVE  IInv'
<1>1. Plain(<<DoWith("create", TX)>>, Len(timers))
  BY StepTypes, OneStep DEF Ops, Jobs, TX
<1>2. At("rx") /\ Goto(<<DoWith("create", TX)>>) /\ UNCHANGED <<tasks, timers>>
  BY DEF Receive, clock
<1>3. fifo \in Seq(Chars) /\ Len(fifo) \in Nat /\ Len(fifo) <= Fifo /\ Fifo \in Nat
      /\ out \in Seq(Chars \cup {"lf", Junk})
  BY BoundsAssumption DEF IInv, TypeOK
<1>4. fifo' \in Seq(Chars) /\ Len(fifo') <= Fifo
  BY <1>3 DEF Receive
<1>5. PICK c : last' = c /\ out' = Append(out, c) /\ c \in Chars \cup {Junk}
  BY <1>3 DEF Receive
<1>6. out' \in Seq(Chars \cup {"lf", Junk}) /\ last' \in Chars \cup {"nul", Junk}
  BY <1>3, <1>5
<1>7. Rest'
  BY <1>4, <1>6 DEF IInv, TypeOK, Rest, Receive, clock, world
<1> QED BY <1>1, <1>2, <1>7, GoesOnSame

LEMMA TransmitKeeps ==
  ASSUME IInv, Transmit
  PROVE  IInv'
<1>1. Plain(<<Do("send")>>, Len(timers))
  BY StepTypes, OneStep DEF Ops
<1>2. At("tx") /\ Goto(<<Do("send")>>) /\ UNCHANGED <<tasks, timers>>
  BY DEF Transmit, clock
<1>3. out' \in Seq(Chars \cup {"lf", Junk})
  BY DEF IInv, TypeOK, Transmit
<1>4. Rest'
  BY <1>3 DEF IInv, TypeOK, Rest, Transmit, clock, world
<1> QED BY <1>1, <1>2, <1>4, GoesOnSame

LEMMA SendTypes ==
  ASSUME IInv, Send
  PROVE  /\ out' \in Seq(Chars \cup {"lf", Junk}) /\ echoed' \in Seq(Chars \cup {Junk})
         /\ shown' \in Seq(Chars \cup {Junk})
<1>1. /\ out \in Seq(Chars \cup {"lf", Junk}) /\ out # <<>>
      /\ echoed \in Seq(Chars \cup {Junk}) /\ shown \in Seq(Chars \cup {Junk})
  BY DEF IInv, TypeOK, Send
<1>2. Head(out) \in Chars \cup {"lf", Junk} /\ Tail(out) \in Seq(Chars \cup {"lf", Junk})
  BY <1>1
<1>3. /\ out' = Tail(out)
      /\ echoed' = IF Head(out) = "lf" THEN echoed ELSE Append(echoed, Head(out))
      /\ shown' = shown \/ (Head(out) # "lf" /\ shown' = Append(shown, Head(out)))
  BY DEF Send, Advanced
<1>4. echoed' \in Seq(Chars \cup {Junk}) /\ shown' \in Seq(Chars \cup {Junk})
  <2>1. CASE Head(out) = "lf"
    BY <2>1, <1>1, <1>3
  <2>2. CASE Head(out) # "lf"
    <3>1. Head(out) \in Chars \cup {Junk}
      BY <2>2, <1>2
    <3>2. /\ Append(echoed, Head(out)) \in Seq(Chars \cup {Junk})
          /\ Append(shown, Head(out)) \in Seq(Chars \cup {Junk})
      BY <3>1, <1>1
    <3> QED BY <2>2, <3>2, <1>1, <1>3
  <2> QED BY <2>1, <2>2
<1> QED BY <1>2, <1>3, <1>4

\* What the transmit FIFO holds after one more write, or after some text.
LEMMA TxTypes ==
  ASSUME IInv
  PROVE  Written \in 0 .. TxFifo /\ \A t \in Nat : Prints(t) => tx' \in 0 .. TxFifo
<1>1. tx \in 0 .. TxFifo /\ TxFifo \in Nat
  BY BoundsAssumption DEF IInv, TypeOK
<1> QED BY <1>1 DEF Written, Prints

\* Sending a character without leaving the loop, or leaving for EL0.
LEMMA SendStays ==
  ASSUME IInv, SendMore \/ SendLast \/ SendExec
  PROVE  IInv'
<1>2. Send /\ UNCHANGED stack
  BY DEF SendMore, SendLast, SendExec
<1>3. At("send") /\ UNCHANGED <<stack, tasks, timers>>
  BY <1>2 DEF Send, clock
<1>4. stack' \in Seq(Seq(Step)) /\ Len(stack') <= MaxNest /\ Frames' /\ Drained'
  BY <1>3, Stays DEF IInv
<1>5. tasks' \in Seq(Jobs) /\ TasksSorted'
  BY <1>3, SortedStays DEF IInv, TypeOK
<1>6. /\ txOn' \in BOOLEAN /\ last' \in Chars \cup {"nul", Junk}
      /\ halt' \in {"run", "astray", "null", "user"}
  BY DEF IInv, TypeOK, SendMore, SendLast, SendExec
<1>8. tx' \in 0 .. TxFifo
  BY TxTypes DEF SendMore, SendLast, SendExec
<1>7. Rest'
  BY <1>2, <1>6, <1>8, SendTypes DEF IInv, TypeOK, Rest, Send, clock
<1> QED BY <1>4, <1>5, <1>7, Parts DEF IInv

LEMMA SendLineKeeps ==
  ASSUME IInv, SendLine
  PROVE  IInv'
<1>1. PICK delays \in Commands :
        Goto([i \in DOMAIN delays |-> DoWith("set", delays[i])] \o <<Do("reset")>>)
  BY DEF SendLine
<1> DEFINE sets  == [i \in DOMAIN delays |-> DoWith("set", delays[i])]
           steps == sets \o <<Do("reset")>>
<1>2. delays \in Seq(Nat) /\ Len(delays) \in Nat /\ DOMAIN delays = 1 .. Len(delays)
  BY BoundsAssumption
<1>3. \A i \in 1 .. Len(delays) : DoWith("set", delays[i]) \in Step
                                  /\ DoWith("set", delays[i]).op = "set"
  BY <1>2, StepTypes DEF Ops
<1>4. /\ sets \in Seq(Step) /\ Len(sets) = Len(delays)
      /\ \A i \in 1 .. Len(delays) : sets[i].op = "set"
  <2>1. sets \in [1 .. Len(delays) -> Step]
    BY <1>2, <1>3
  <2> QED BY <1>2, <1>3, <2>1
<1>5. Do("reset") \in Step /\ Do("reset").op = "reset"
  BY StepTypes DEF Ops
<1> HIDE DEF sets
<1>6. /\ steps \in Seq(Step) /\ Len(steps) = Len(delays) + 1
      /\ \A i \in 1 .. Len(delays) : steps[i] = sets[i]
      /\ steps[Len(delays) + 1] = Do("reset")
  BY <1>2, <1>4, <1>5
<1> HIDE DEF steps
<1>7. Plain(steps, Len(timers))
  <2>1. ASSUME NEW i \in 1 .. Len(steps)
        PROVE  steps[i].op \in {"set", "reset"}
    BY <1>2, <1>4, <1>5, <1>6
  <2> QED BY <2>1, <1>6 DEF Plain
<1>8. Send /\ At("send") /\ UNCHANGED <<tasks, timers>> /\ Goto(steps)
  BY <1>1 DEF SendLine, Send, clock, steps, sets
<1>9. txOn' \in BOOLEAN /\ last' \in Chars \cup {"nul", Junk} /\ UNCHANGED halt
  BY DEF SendLine
<1>11. tx' \in 0 .. TxFifo
  BY TxTypes DEF SendLine
<1>10. Rest'
  BY <1>8, <1>9, <1>11, SendTypes DEF IInv, TypeOK, Rest, Send, clock
<1> QED BY <1>7, <1>8, <1>10, GoesOnSame

LEMMA ResetKeeps ==
  ASSUME IInv, Reset
  PROVE  IInv'
<1>1. Plain(<<Do("send")>>, Len(timers))
  BY StepTypes, OneStep DEF Ops
<1>2. At("reset") /\ Goto(<<Do("send")>>) /\ UNCHANGED <<tasks, timers>>
  BY DEF Reset, clock
<1>3. Rest'
  BY DEF IInv, TypeOK, Rest, Reset, clock, world
<1> QED BY <1>1, <1>2, <1>3, GoesOnSame

LEMMA SendDoneKeeps ==
  ASSUME IInv, SendDone
  PROVE  IInv'
<1>1. Rest'
  BY DEF IInv, TypeOK, Rest, SendDone, RearmRx, clock, world
<1>2. At("send") /\ Goto(<<>>) /\ UNCHANGED <<tasks, timers>>
  BY DEF SendDone, Continue, clock
<1> QED BY <1>1, <1>2, NoSteps, GoesOnSame

----------------------------------------------------------------------------
(* Timers *)

Timer == [expiry : Nat, next : Nat]

\* The list of timers in Rest.
TimersOK == /\ timers \in Seq(Timer) /\ thead \in 0 .. Len(timers)
            /\ \A t \in DOMAIN timers : timers[t].next \in 0 .. Len(timers)

\* The list after one more timer, nxt being one of the old ones or NULL.
LEMMA AppendTimer ==
  ASSUME NEW ts, ts \in Seq(Timer),
         \A t \in DOMAIN ts : ts[t].next \in 0 .. Len(ts) + 1,
         NEW e \in Nat, NEW nxt \in 0 .. Len(ts),
         timers' = Append(ts, [expiry |-> e, next |-> nxt])
  PROVE  /\ timers' \in Seq(Timer) /\ Len(timers') = Len(ts) + 1
         /\ \A t \in DOMAIN timers' : timers'[t].next \in 0 .. Len(timers')
<1> DEFINE x == [expiry |-> e, next |-> nxt]
<1>1. Len(ts) \in Nat /\ DOMAIN ts = 1 .. Len(ts) /\ nxt \in Nat
  OBVIOUS
<1>2. x \in Timer /\ x.next = nxt
  BY <1>1 DEF Timer
<1>3. timers' = Append(ts, x)
  OBVIOUS
<1> HIDE DEF x
<1>4. timers' \in Seq(Timer) /\ Len(timers') = Len(ts) + 1
  BY <1>1, <1>2, <1>3
<1>5. timers'[Len(ts) + 1] = x /\ \A t \in 1 .. Len(ts) : timers'[t] = ts[t]
  BY <1>1, <1>3
<1>6. DOMAIN timers' = 1 .. Len(ts) + 1
  BY <1>1, <1>4
<1>7. ASSUME NEW t \in DOMAIN timers'
      PROVE  timers'[t].next \in 0 .. Len(timers')
  <2>1. CASE t = Len(ts) + 1
    BY <2>1, <1>1, <1>2, <1>4, <1>5
  <2>2. CASE t # Len(ts) + 1
    <3>1. t \in 1 .. Len(ts) /\ timers'[t] = ts[t]
      BY <2>2, <1>1, <1>5, <1>6
    <3> QED BY <3>1, <1>1, <1>4
  <2> QED BY <2>1, <2>2
<1> QED BY <1>4, <1>7

LEMMA AddFirstTypes ==
  ASSUME TimersOK, NEW e \in Nat, AddFirst(Len(timers) + 1, e)
  PROVE  TimersOK' /\ Len(timers') = Len(timers) + 1 /\ cval' \in Nat /\ ctl' \in BOOLEAN
<1>1. Len(timers) \in Nat /\ timers \in Seq(Timer) /\ thead \in 0 .. Len(timers)
  BY DEF TimersOK
<1>2. \A t \in DOMAIN timers : timers[t].next \in 0 .. Len(timers) + 1
  BY <1>1 DEF TimersOK
<1>3. timers' = Append(timers, [expiry |-> e, next |-> thead])
      /\ thead' = Len(timers) + 1 /\ cval' = e /\ ctl' = TRUE
  BY DEF AddFirst
<1>4. /\ timers' \in Seq(Timer) /\ Len(timers') = Len(timers) + 1
      /\ \A t \in DOMAIN timers' : timers'[t].next \in 0 .. Len(timers')
  BY <1>1, <1>2, <1>3, AppendTimer
<1> QED BY <1>1, <1>3, <1>4 DEF TimersOK

LEMMA AddBehindTypes ==
  ASSUME TimersOK, NEW c \in DOMAIN timers, NEW e \in Nat,
         AddBehind(c, Len(timers) + 1, e), cval \in Nat, ctl \in BOOLEAN
  PROVE  TimersOK' /\ Len(timers') = Len(timers) + 1 /\ cval' \in Nat /\ ctl' \in BOOLEAN
<1> DEFINE new == Len(timers) + 1
           ts  == [timers EXCEPT ![c].next = new]
<1>1. Len(timers) \in Nat /\ timers \in Seq(Timer) /\ DOMAIN timers = 1 .. Len(timers)
  BY DEF TimersOK
<1>2. timers[c] \in Timer /\ timers[c].next \in 0 .. Len(timers)
  BY <1>1 DEF TimersOK
<1> DEFINE x == [timers[c] EXCEPT !.next = new]
<1>3. /\ ts = [timers EXCEPT ![c] = x]
      /\ x \in Timer /\ x.next = new
  <2>1. new \in Nat
    BY <1>1
  <2>2. x \in Timer /\ x.next = new
    BY <2>1, <1>2 DEF Timer
  <2> QED BY <2>2
<1> HIDE DEF x, ts
<1>4. ts \in Seq(Timer) /\ Len(ts) = Len(timers) /\ ts[c].next = new
      /\ \A t \in DOMAIN timers : t # c => ts[t] = timers[t]
  BY <1>1, <1>3
<1> USE DEF ts
<1>5. timers' = Append(ts, [expiry |-> e, next |-> timers[c].next])
      /\ UNCHANGED <<thead, cval, ctl>>
  BY DEF AddBehind
<1> HIDE DEF ts, x
<1>6. \A t \in DOMAIN ts : ts[t].next \in 0 .. Len(ts) + 1
  <2>1. DOMAIN ts = DOMAIN timers
    BY <1>1, <1>4
  <2>2. ASSUME NEW t \in DOMAIN timers
        PROVE  ts[t].next \in 0 .. Len(ts) + 1
    <3>1. timers[t].next \in 0 .. Len(timers)
      BY DEF TimersOK
    <3> QED BY <3>1, <1>1, <1>4
  <2> QED BY <2>1, <2>2
<1>7. /\ timers' \in Seq(Timer) /\ Len(timers') = Len(ts) + 1
      /\ \A t \in DOMAIN timers' : timers'[t].next \in 0 .. Len(timers')
  BY <1>1, <1>2, <1>4, <1>5, <1>6, AppendTimer
<1>8. thead' \in 0 .. Len(timers')
  BY <1>1, <1>4, <1>5, <1>7 DEF TimersOK
<1> QED BY <1>4, <1>5, <1>7, <1>8 DEF TimersOK

\* Timers that ran stay timers when the list grows.
LEMMA FiredStays ==
  ASSUME fired \in Seq(1 .. Len(timers)), Len(timers) \in Nat,
         Len(timers') \in Nat, Len(timers) <= Len(timers'), UNCHANGED fired
  PROVE  fired' \in Seq(1 .. Len(timers'))
<1>1. 1 .. Len(timers) \subseteq 1 .. Len(timers')
  OBVIOUS
<1> QED BY <1>1

LEMMA SetTimeoutKeeps ==
  ASSUME IInv, SetTimeout
  PROVE  IInv'
<1>1. At("set") /\ Goto(<<>>) /\ UNCHANGED tasks /\ Fits(MsgWords)
  BY DEF SetTimeout, Continue
<1>2. TimersOK /\ cval \in Nat /\ ctl \in BOOLEAN /\ masked \in BOOLEAN
      /\ heap \in 0 .. Heap /\ heap >= MsgWords /\ Len(timers) \in Nat
  BY <1>1 DEF IInv, TypeOK, TimersOK, Timer, Fits
<1>3. now + Arg \in Nat
  <2>1. stack # <<>> /\ Len(timers) \in Nat
    BY <1>1, <1>2 DEF At
  <2>2. Head(Top) \in Step
    BY <2>1, TopFrame DEF IInv
  <2>3. Arg \in Nat /\ now \in Nat
    BY <2>2 DEF Step, Arg, IInv, TypeOK
  <2> QED BY <2>3
<1>4. /\ TimersOK' /\ Len(timers') \in Nat /\ Len(timers) <= Len(timers')
      /\ cval' \in Nat /\ ctl' \in BOOLEAN /\ heap' \in 0 .. Heap /\ masked' \in BOOLEAN
  <2>1. CASE Fits(MsgWords + TimerWords)
    <3>1. IF Earliest(now + Arg) THEN AddFirst(Len(timers) + 1, now + Arg)
          ELSE \E c \in DOMAIN timers : AddBehind(c, Len(timers) + 1, now + Arg)
      BY <2>1 DEF SetTimeout
    <3>2. TimersOK' /\ Len(timers') = Len(timers) + 1 /\ cval' \in Nat /\ ctl' \in BOOLEAN
      <4>1. CASE Earliest(now + Arg)
        BY <4>1, <3>1, <1>2, <1>3, AddFirstTypes
      <4>2. CASE ~Earliest(now + Arg)
        BY <4>2, <3>1, <1>2, <1>3, AddBehindTypes
      <4> QED BY <4>1, <4>2
    <3>3. heap' = heap - MsgWords - TimerWords /\ masked' = FALSE
      BY <2>1 DEF SetTimeout
    <3>4. heap >= MsgWords + TimerWords
      BY <2>1 DEF Fits
    <3>5. heap' \in 0 .. Heap
      BY <3>3, <3>4, <1>2, BoundsAssumption
    <3>6. Len(timers') \in Nat /\ Len(timers) <= Len(timers')
      BY <3>2, <1>2
    <3>7. masked' \in BOOLEAN
      BY <3>3
    <3> QED BY <3>2, <3>5, <3>6, <3>7
  <2>2. CASE ~Fits(MsgWords + TimerWords)
    <3>1. heap' = heap - MsgWords /\ UNCHANGED <<timers, thead, cval, ctl, masked>>
      BY <2>2 DEF SetTimeout
    <3>2. heap' \in 0 .. Heap
      BY <3>1, <1>2, BoundsAssumption
    <3> QED BY <3>1, <3>2, <1>2 DEF TimersOK
  <2> QED BY <2>1, <2>2
<1>5. tirq' \in BOOLEAN
  BY DEF SetTimeout, IInv, TypeOK
<1>6. UNCHANGED <<elr, halt, uart, world>>
  BY DEF SetTimeout
<1>7. fired' \in Seq(1 .. Len(timers'))
  BY <1>2, <1>4, <1>6, FiredStays DEF IInv, TypeOK, world
<1>8. Rest'
  BY <1>4, <1>5, <1>6, <1>7 DEF IInv, TypeOK, Rest, TimersOK, Timer, uart, world
<1> QED BY <1>1, <1>4, <1>8, NoSteps, GoesOn

LEMMA NoMessageKeeps ==
  ASSUME IInv, NoMessage
  PROVE  IInv'
<1>1. Rest'
  BY DEF IInv, TypeOK, Rest, NoMessage, uart, clock, world
<1>2. At("set") /\ Goto(<<>>) /\ UNCHANGED <<tasks, timers>>
  BY DEF NoMessage, Continue, clock
<1> QED BY <1>1, <1>2, NoSteps, GoesOnSame

LEMMA TimerOnKeeps ==
  ASSUME IInv, TimerOn
  PROVE  IInv'
<1>1. Plain(<<Do("ctl")>>, Len(timers))
  BY StepTypes, OneStep DEF Ops
<1>2. At("timer") /\ Goto(<<Do("ctl")>>) /\ UNCHANGED <<tasks, timers>>
  BY DEF TimerOn
<1>3. Rest'
  BY DEF IInv, TypeOK, Rest, TimerOn, LetTimerIrq, uart, world
<1> QED BY <1>1, <1>2, <1>3, GoesOnSame

LEMMA TimerStopKeeps ==
  ASSUME IInv, TimerStop
  PROVE  IInv'
<1>1. now \in Nat
  BY DEF IInv, TypeOK
<1>2. Plain(<<DoWith("timers", now)>>, Len(timers))
  BY <1>1, StepTypes, OneStep DEF Ops
<1>3. At("ctl") /\ Goto(<<DoWith("timers", now)>>) /\ UNCHANGED <<tasks, timers>>
  BY DEF TimerStop
<1>4. Rest'
  BY DEF IInv, TypeOK, Rest, TimerStop, uart, world
<1> QED BY <1>2, <1>3, <1>4, GoesOnSame

LEMMA ExpireKeeps ==
  ASSUME IInv, Expire
  PROVE  IInv'
<1> DEFINE a == DoWith("drop", thead)
           b == DoWith("timers", Arg)
           steps == <<a, b>>
<1>1. At("timers") /\ Goto(steps) /\ UNCHANGED <<tasks, timers>> /\ thead # NULL
  BY DEF Expire, Due, clock
<1>2. thead \in 1 .. Len(timers) /\ Len(timers) \in Nat /\ thead \in Nat
  BY <1>1 DEF IInv, TypeOK, NULL
<1>3. Arg \in Nat
  <2>1. stack # <<>>
    BY <1>1 DEF At
  <2>2. Head(Top) \in Step
    BY <2>1, <1>2, TopFrame DEF IInv
  <2> QED BY <2>2 DEF Step, Arg
<1>4. a \in Step /\ a.op = "drop" /\ a.n = thead /\ b \in Step /\ b.op = "timers"
  BY <1>2, <1>3, StepTypes DEF Ops
<1> HIDE DEF a, b
<1>5. Plain(steps, Len(timers))
  BY <1>2, <1>4 DEF Plain
<1>6. fired' \in Seq(1 .. Len(timers'))
  BY <1>1, <1>2 DEF IInv, TypeOK, Expire
<1>8. tx' \in 0 .. TxFifo
  <2>1. tx \in Nat
    BY BoundsAssumption DEF IInv, TypeOK
  <2> QED BY <2>1, TxTypes DEF Expire
<1>7. Rest'
  BY <1>6, <1>8 DEF IInv, TypeOK, Rest, Expire, uart, clock
<1> QED BY <1>1, <1>5, <1>7, GoesOnSame

LEMMA DropKeeps ==
  ASSUME IInv, Drop
  PROVE  IInv'
<1>1. At("drop") /\ Goto(<<>>) /\ UNCHANGED <<tasks, timers>> /\ thead' = timers[Arg].next
  BY DEF Drop, Continue
<1>2. timers \in Seq(Timer) /\ Len(timers) \in Nat /\ DOMAIN timers = 1 .. Len(timers)
  BY DEF IInv, TypeOK, Timer
<1>3. Arg \in 1 .. Len(timers)
  <2>1. stack # <<>> /\ Head(Top).op = "drop"
    BY <1>1 DEF At
  <2>2. Frame(Top, Len(timers)) /\ Head(Top) = Top[1]
    BY <2>1, <1>2, TopFrame DEF IInv
  <2> QED BY <2>1, <2>2 DEF Frame, Arg
<1>4. thead' \in 0 .. Len(timers)
  BY <1>1, <1>2, <1>3 DEF IInv, TypeOK
<1>5. cval' \in Nat /\ ctl' \in BOOLEAN
  <2>1. ctl' = (thead' # NULL) /\ cval' = IF thead' # NULL THEN timers[thead'].expiry ELSE cval
    BY <1>1 DEF Drop, Reprogram, Expiry
  <2>2. ASSUME thead' # NULL PROVE timers[thead'].expiry \in Nat
    <3>1. thead' \in 1 .. Len(timers)
      BY <2>2, <1>2, <1>4 DEF NULL
    <3>2. timers[thead'] \in Timer
      BY <3>1, <1>2
    <3> QED BY <3>2 DEF Timer
  <2>3. cval \in Nat
    BY DEF IInv, TypeOK
  <2> QED BY <2>1, <2>2, <2>3
<1>6. Rest'
  BY <1>1, <1>4, <1>5 DEF IInv, TypeOK, Rest, Drop, uart, world
<1> QED BY <1>1, <1>6, NoSteps, GoesOnSame

LEMMA TimersDoneKeeps ==
  ASSUME IInv, TimersDone
  PROVE  IInv'
<1>1. Rest'
  BY DEF IInv, TypeOK, Rest, TimersDone, uart, clock, world
<1>2. At("timers") /\ Goto(<<>>) /\ UNCHANGED <<tasks, timers>>
  BY DEF TimersDone, Continue, clock
<1> QED BY <1>1, <1>2, NoSteps, GoesOnSame

----------------------------------------------------------------------------
(* The theorems *)

\* Every step of the kernel and of the world around it keeps the invariant.
THEOREM Keeps == IInv /\ [Next]_vars => IInv'
<1> SUFFICES ASSUME IInv, [Next]_vars PROVE IInv'
  OBVIOUS
<1>1. CASE UNCHANGED vars
  <2>1. Rest' /\ UNCHANGED <<stack, tasks, timers, halt>>
    BY <1>1 DEF IInv, TypeOK, Rest, vars, cpu, uart, clock, world
  <2>2. TypeOK'
    BY <2>1, Parts DEF IInv, TypeOK
  <2> QED BY <2>1, <2>2 DEF IInv, Frames, TasksSorted, Drained, At, Top
<1>2. CASE World \/ Idle
  BY <1>2, WorldKeeps
<1>3. CASE Dispatch
  BY <1>3, IrqKeeps, TimerOffKeeps, RxOffKeeps, CreateKeeps, ClearKeeps, EretKeeps, HaltKeeps
     DEF Dispatch
<1>4. CASE Drain
  BY <1>4, RunTaskKeeps, TasksDoneKeeps, PopKeeps, MaskKeeps, HaltKeeps DEF Drain
<1>5. CASE Echo
  BY <1>5, ReceiveKeeps, TransmitKeeps, SendStays, SendLineKeeps, ResetKeeps, SendDoneKeeps
     DEF Echo
<1>6. CASE Alarm
  BY <1>6, SetTimeoutKeeps, NoMessageKeeps, TimerOnKeeps, TimerStopKeeps, ExpireKeeps,
     DropKeeps, TimersDoneKeeps DEF Alarm
<1> QED BY <1>1, <1>2, <1>3, <1>4, <1>5, <1>6 DEF Next, Kernel

THEOREM Invariant == Spec => []IInv
<1>1. Init => IInv
  BY Started
<1>2. IInv /\ [Next]_vars => IInv'
  BY Keeps
<1> QED BY <1>1, <1>2, PTL DEF Spec

\* The variables keep their types however interrupts nest.
THEOREM TypeCorrect == Spec => []TypeOK
<1>1. IInv => TypeOK
  BY DEF IInv
<1> QED BY <1>1, Invariant, PTL

\* enqueue_task and execute_tasks keep the task list in order of priority at
\* any depth of nested interrupts.
THEOREM AlwaysSorted == Spec => []TasksSorted
<1>1. IInv => TasksSorted
  BY DEF IInv
<1> QED BY <1>1, Invariant, PTL

\* No interrupt handler comes to its eret with a task on the list.
THEOREM AlwaysDrained == Spec => []Drained
<1>1. IInv => Drained
  BY DEF IInv
<1> QED BY <1>1, Invariant, PTL

----------------------------------------------------------------------------
(* The receive interrupt *)

\* RxNeverLost says of the steps to do that some step brings the receive
\* interrupt back.  It is not inductive: which step is next, and which task is
\* under it, matter.  So a frame is given its shape (After: what may follow a
\* step, which holds whatever the frame is doing), and the way back is one of
\* two: a frame is still to create the RX task (RxDue), or the list begins with
\* the task that will do it (RxOnList).  The head of the list is enough, as a
\* task never waits behind a timer's while an RX or TX task is on the list.

\* What may follow a step in a frame.
After(s) ==
  CASE s.op = "timeroff" -> {"rxoff", "clear"}
    [] s.op = "rxoff"    -> {"clear"}
    [] s.op = "create"   -> IF s.n = TIMER THEN {"rxoff", "clear"}
                            ELSE IF s.n = RX THEN {"clear"} ELSE {"pop"}
    [] s.op = "clear"    -> {"tasks"}
    [] s.op = "tasks"    -> {"eret"}
    [] s.op = "pop"      -> {"mask"}
    [] s.op = "mask"     -> {"tasks"}
    [] s.op = "eret"     -> {}
    [] s.op = "set"      -> {"set", "reset"}
    [] s.op = "drop"     -> {"timers"}
    [] OTHER             -> {"pop"}

Shape(f) == /\ f[Len(f)].op = "eret"
            /\ \A i \in 1 .. Len(f) - 1 : f[i + 1].op \in After(f[i])

Shapes == \A i \in 1 .. Len(stack) : Shape(stack[i])

CreatesRx(s) == s.op = "create" /\ s.n = RX

RxDue == \E i \in 1 .. Len(stack) : \E j \in 1 .. Len(stack[i]) : CreatesRx(stack[i][j])

\* The head of the list is an RX or TX task, the frame that runs is not past it,
\* and if it is on its way out another one is behind it.
RxOnList ==
  /\ tasks # <<>> /\ tasks[1] # TIMER
  /\ stack # <<>> =>
       /\ Head(Top).op \notin {"timer", "ctl", "timers", "drop"}
       /\ Head(Top).op = "rx" \/ (Head(Top).op = "create" /\ Arg = TX) => tasks[1] = RX
       /\ Head(Top).op = "pop" => Len(tasks) > 1 /\ tasks[2] # TIMER

RxKept == halt = "run" /\ ~rxOn /\ heap >= TaskWords /\ ~RxDue => RxOnList

\* Steps that may follow each other.
Linked(steps) == \A i \in 1 .. Len(steps) - 1 : steps[i + 1].op \in After(steps[i])

LEMMA SpliceShape ==
  ASSUME NEW f \in Seq(Step), Len(f) > 1, Shape(f),
         NEW steps \in Seq(Step), Linked(steps),
         steps # <<>> => After(f[1]) \subseteq After(steps[Len(steps)])
  PROVE  /\ Shape(steps \o Tail(f))
         /\ steps # <<>> => (steps \o Tail(f))[1] = steps[1]
         /\ steps = <<>> => (steps \o Tail(f))[1].op \in After(f[1])
<1> DEFINE g == steps \o Tail(f)
           k == Len(steps)
           m == Len(f)
<1>1. m \in Nat /\ m > 1 /\ k \in Nat
  OBVIOUS
<1>2. Tail(f) \in Seq(Step) /\ Len(Tail(f)) = m - 1
      /\ \A i \in 1 .. m - 1 : Tail(f)[i] = f[i + 1]
  BY <1>1
<1>3. g \in Seq(Step) /\ Len(g) = k + m - 1
  BY <1>1, <1>2
<1>4. \A i \in 1 .. k : g[i] = steps[i]
  BY <1>1, <1>2
<1>5. \A i \in k + 1 .. k + m - 1 : g[i] = f[i - k + 1]
  BY <1>1, <1>2
<1>6. (k > 0) <=> steps # <<>>
  BY <1>1
<1> HIDE DEF g
<1>7. g[Len(g)].op = "eret"
  <2>1. Len(g) \in k + 1 .. k + m - 1 /\ Len(g) - k + 1 = m
    BY <1>1, <1>3
  <2> QED BY <2>1, <1>5 DEF Shape
<1>8. ASSUME NEW i \in 1 .. Len(g) - 1
      PROVE  g[i + 1].op \in After(g[i])
  <2>1. CASE i < k
    <3>1. i \in 1 .. k - 1 /\ i \in 1 .. k /\ i + 1 \in 1 .. k
      BY <2>1, <1>1
    <3>2. g[i] = steps[i] /\ g[i + 1] = steps[i + 1]
      BY <3>1, <1>4
    <3> QED BY <3>1, <3>2 DEF Linked
  <2>2. CASE i = k
    <3>1. i \in 1 .. k /\ i + 1 \in k + 1 .. k + m - 1 /\ (i + 1) - k + 1 = 2 /\ 1 \in 1 .. m - 1
      BY <2>2, <1>1
    <3>2. g[i] = steps[k] /\ g[i + 1] = f[2]
      BY <2>2, <3>1, <1>4, <1>5
    <3>3. f[1 + 1].op \in After(f[1]) /\ 1 + 1 = 2
      BY <3>1 DEF Shape
    <3>4. After(f[1]) \subseteq After(steps[k])
      BY <2>2, <3>1, <1>1, <1>6
    <3> QED BY <3>2, <3>3, <3>4
  <2>3. CASE i > k
    <3>1. i \in k + 1 .. k + m - 1 /\ i + 1 \in k + 1 .. k + m - 1
          /\ i - k + 1 \in 1 .. m - 1 /\ (i + 1) - k + 1 = (i - k + 1) + 1
      BY <2>3, <1>1, <1>3
    <3>2. g[i] = f[i - k + 1] /\ g[i + 1] = f[(i - k + 1) + 1]
      <4>1. g[i + 1] = f[(i + 1) - k + 1]
        BY <3>1, <1>5
      <4> QED BY <3>1, <1>5, <4>1
    <3>3. \A j \in 1 .. m - 1 : f[j + 1].op \in After(f[j])
      BY DEF Shape
    <3>4. f[(i - k + 1) + 1].op \in After(f[i - k + 1])
      BY <3>1, <3>3
    <3> QED BY <3>2, <3>4
  <2> QED BY <2>1, <2>2, <2>3, <1>1
<1>9. steps # <<>> => g[1] = steps[1]
  BY <1>1, <1>4, <1>6
<1>10. ASSUME steps = <<>> PROVE g[1].op \in After(f[1])
  <2>1. k = 0 /\ 1 \in k + 1 .. k + m - 1 /\ 1 - k + 1 = 2 /\ 1 \in 1 .. m - 1 /\ 1 + 1 = 2
    BY <1>10, <1>1
  <2>2. g[1] = f[2]
    BY <2>1, <1>5
  <2> QED BY <2>1, <2>2 DEF Shape
<1> QED BY <1>7, <1>8, <1>9, <1>10 DEF g, Shape

\* What Goto does to the stack, frame by frame.
LEMMA GotoStack ==
  ASSUME IInv, stack # <<>>, Head(Top).op # "eret",
         NEW steps, steps \in Seq(Step), Goto(steps)
  PROVE  /\ Len(stack') = Len(stack) /\ Len(stack) \in Nat /\ Len(stack) > 0
         /\ stack'[1] = steps \o Tail(Top)
         /\ \A i \in 2 .. Len(stack) : stack'[i] = stack[i]
         /\ Top = stack[1] /\ Top \in Seq(Step) /\ Len(Top) > 1 /\ Head(Top) = Top[1]
         /\ stack'[1] \in Seq(Step) /\ Len(stack'[1]) > 0
         /\ stack' # <<>> /\ Head(Head(stack')) = stack'[1][1]
<1>1. stack \in Seq(Seq(Step)) /\ Len(stack) \in Nat /\ Len(stack) > 0 /\ Top = stack[1]
  BY DEF IInv, TypeOK, Top
<1>2. Frame(Top, Len(timers))
  BY <1>1 DEF IInv, Frames
<1>3. Top \in Seq(Step) /\ Len(Top) \in Nat /\ Len(Top) > 0 /\ Head(Top) = Top[1]
      /\ Top[Len(Top)].op = "eret"
  BY <1>2 DEF Frame
<1>4. Len(Top) > 1
  BY <1>3
<1>5. Tail(Top) \in Seq(Step) /\ Len(Tail(Top)) = Len(Top) - 1
  BY <1>3
<1> DEFINE g == steps \o Tail(Top)
           r == Tail(stack)
<1>6. g \in Seq(Step) /\ Len(g) > 0
  BY <1>3, <1>4, <1>5
<1>7. stack' = <<g>> \o r
  BY DEF Goto
<1>8. r \in Seq(Seq(Step)) /\ Len(r) = Len(stack) - 1
      /\ \A i \in 1 .. Len(r) : r[i] = stack[i + 1]
  BY <1>1
<1> HIDE DEF g, r
<1>9. stack' \in Seq(Seq(Step)) /\ Len(stack') = Len(stack) /\ stack'[1] = g
  BY <1>1, <1>6, <1>7, <1>8
<1>10. \A i \in 2 .. Len(stack) : stack'[i] = stack[i]
  BY <1>1, <1>6, <1>7, <1>8
<1>11. stack' # <<>> /\ Head(stack') = g
  BY <1>1, <1>9
<1> QED BY <1>1, <1>3, <1>4, <1>6, <1>9, <1>10, <1>11 DEF g

LEMMA ShapesGo ==
  ASSUME IInv, Shapes, stack # <<>>, Head(Top).op # "eret",
         NEW steps \in Seq(Step), Linked(steps), Goto(steps),
         steps # <<>> => After(Head(Top)) \subseteq After(steps[Len(steps)])
  PROVE  /\ Shapes' /\ stack' # <<>>
         /\ steps # <<>> => Head(Top') = steps[1]
         /\ steps = <<>> => Head(Top').op \in After(Head(Top))
         /\ RxDue /\ ~CreatesRx(Head(Top)) => RxDue'
<1>1. /\ Len(stack') = Len(stack) /\ Len(stack) \in Nat /\ Len(stack) > 0
      /\ stack'[1] = steps \o Tail(Top)
      /\ \A i \in 2 .. Len(stack) : stack'[i] = stack[i]
      /\ Top = stack[1] /\ Top \in Seq(Step) /\ Len(Top) > 1 /\ Head(Top) = Top[1]
      /\ stack' # <<>> /\ Head(Head(stack')) = stack'[1][1]
  BY GotoStack
<1>2. Shape(Top)
  BY <1>1 DEF Shapes
<1>3. /\ Shape(steps \o Tail(Top))
      /\ steps # <<>> => (steps \o Tail(Top))[1] = steps[1]
      /\ steps = <<>> => (steps \o Tail(Top))[1].op \in After(Top[1])
  BY <1>1, <1>2, SpliceShape
<1>4. Shapes'
  <2>1. ASSUME NEW i \in 1 .. Len(stack'), i # 1
        PROVE  Shape(stack'[i])
    BY <1>1, <2>1 DEF Shapes
  <2> QED BY <2>1, <1>1, <1>3 DEF Shapes
<1>5. Head(Top') = (steps \o Tail(Top))[1]
  BY <1>1 DEF Top
<1>6. ASSUME RxDue, ~CreatesRx(Head(Top)) PROVE RxDue'
  <2>1. PICK i \in 1 .. Len(stack) : \E j \in 1 .. Len(stack[i]) : CreatesRx(stack[i][j])
    BY <1>6 DEF RxDue
  <2>2. CASE i # 1
    BY <2>1, <2>2, <1>1 DEF RxDue
  <2>3. CASE i = 1
    <3>1. PICK j \in 1 .. Len(Top) : CreatesRx(Top[j])
      BY <2>1, <2>3, <1>1
    <3>2. j # 1
      BY <3>1, <1>1, <1>6
    <3>3. Tail(Top) \in Seq(Step) /\ Len(Tail(Top)) = Len(Top) - 1
          /\ \A n \in 1 .. Len(Top) - 1 : Tail(Top)[n] = Top[n + 1]
      BY <1>1
    <3> DEFINE g == steps \o Tail(Top)
               n == Len(steps) + (j - 1)
    <3>4. n \in 1 .. Len(g) /\ g[n] = Tail(Top)[j - 1] /\ Tail(Top)[j - 1] = Top[j]
      <4>1. Len(Top) \in Nat /\ Len(steps) \in Nat /\ j - 1 \in 1 .. Len(Top) - 1 /\ (j - 1) + 1 = j
        BY <3>2, <1>1
      <4>2. Len(g) = Len(steps) + Len(Top) - 1 /\ g[n] = Tail(Top)[j - 1]
        BY <4>1, <3>3
      <4>3. n \in 1 .. Len(g)
        BY <4>1, <4>2
      <4> QED BY <4>1, <4>2, <4>3, <3>3
    <3> HIDE DEF g, n
    <3>5. stack'[1] = g /\ 1 \in 1 .. Len(stack')
      BY <1>1 DEF g
    <3> QED BY <3>1, <3>4, <3>5 DEF RxDue
  <2> QED BY <2>2, <2>3
<1> QED BY <1>1, <1>3, <1>4, <1>5, <1>6

Late   == {"timer", "ctl", "timers", "drop"}

\* A step that leaves the task list and the receive interrupt alone.
LEMMA ListStays ==
  ASSUME IInv, Shapes, RxKept, NEW op, At(op), op # "eret",
         NEW steps \in Seq(Step), Linked(steps), Goto(steps),
         steps # <<>> => After(Head(Top)) \subseteq After(steps[Len(steps)]),
         UNCHANGED <<tasks, rxOn>>, heap \in Int, heap' \in Int, heap' <= heap,
         ~CreatesRx(Head(Top)),
         Head(Top').op \in Late => op \in Late,
         Head(Top').op = "rx" \/ (Head(Top').op = "create" /\ Head(Top').n = TX)
           => op \in Late \cup {"rx"},
         Head(Top').op = "pop" => op \in Late
  PROVE  Shapes' /\ RxKept'
<1>1. halt = "run" /\ stack # <<>> /\ Head(Top).op = op
  BY DEF At
<1>2. Shapes' /\ stack' # <<>> /\ (RxDue => RxDue')
  BY <1>1, ShapesGo
<1>3. ASSUME ~rxOn', heap' >= TaskWords, ~RxDue'
      PROVE  RxOnList'
  <2>1. RxOnList
    BY <1>1, <1>2, <1>3, BoundsAssumption DEF RxKept
  <2>2. op \notin Late /\ (op = "rx" => tasks[1] = RX)
    BY <1>1, <2>1 DEF RxOnList, Late
  <2> QED BY <1>2, <2>1, <2>2 DEF RxOnList, Late, Arg
<1> QED BY <1>2, <1>3 DEF RxKept

\* What RxNeverLost needs beside IInv.
RxInv == Shapes /\ RxKept

LEMMA LinkedFew ==
  /\ Linked(<<>>)
  /\ \A s : Linked(<<s>>)
  /\ \A s, t : t.op \in After(s) => Linked(<<s, t>>)
BY DEF Linked

\* The running step is gone, and the list and the interrupt are as they were.
LEMMA PassesBy ==
  ASSUME IInv, RxInv, NEW op \in {"clear", "mask", "set", "drop", "timers"}, At(op),
         Goto(<<>>), UNCHANGED <<tasks, rxOn>>, heap \in Int, heap' \in Int, heap' <= heap
  PROVE  RxInv'
<1>1. stack # <<>> /\ Head(Top).op = op /\ <<>> \in Seq(Step)
  BY DEF At
<1>2. Head(Top').op \in After(Head(Top))
  BY <1>1, ShapesGo, LinkedFew DEF RxInv
<1>3. \/ op = "clear" /\ Head(Top').op = "tasks"
      \/ op = "mask" /\ Head(Top').op = "tasks"
      \/ op = "set" /\ Head(Top').op \in {"set", "reset"}
      \/ op \in Late
  BY <1>1, <1>2 DEF After, Late
<1>4. ~CreatesRx(Head(Top))
  BY <1>1 DEF CreatesRx
<1> QED BY <1>1, <1>3, <1>4, LinkedFew, ListStays DEF RxInv, Late

\* The running step makes way for s and what follows.
LEMMA GoesThrough ==
  ASSUME IInv, RxInv, NEW op, At(op), op \notin {"eret", "create"},
         NEW steps \in Seq(Step), steps # <<>>, Linked(steps), Goto(steps),
         After(Head(Top)) \subseteq After(steps[Len(steps)]),
         UNCHANGED <<tasks, rxOn>>, heap \in Int, heap' \in Int, heap' <= heap,
         steps[1].op \notin {"rx", "pop"},
         steps[1].op = "create" => steps[1].n # TX \/ op = "rx",
         steps[1].op \in Late => op \in Late
  PROVE  RxInv'
<1>1. stack # <<>> /\ Head(Top).op = op
  BY DEF At
<1>2. Head(Top') = steps[1]
  BY <1>1, ShapesGo DEF RxInv
<1>3. ~CreatesRx(Head(Top))
  BY <1>1 DEF CreatesRx
<1> QED BY <1>1, <1>2, <1>3, ListStays DEF RxInv

LEMMA HeapInt == ASSUME IInv, IInv' PROVE heap \in Int /\ heap' \in Int
BY BoundsAssumption DEF IInv, TypeOK

LEMMA PassingSteps ==
  ASSUME IInv, IInv', RxInv,
         Clear \/ Mask \/ SetTimeout \/ NoMessage \/ Drop \/ TimersDone
  PROVE  RxInv'
<1>0. heap \in Int /\ heap' \in Int
  BY HeapInt
<1>1. CASE Clear
  <2>1. At("clear") /\ Goto(<<>>) /\ UNCHANGED <<tasks, rxOn, heap>>
    BY <1>1 DEF Clear, Continue, uart
  <2> QED BY <2>1, <1>0, PassesBy
<1>2. CASE Mask
  <2>1. At("mask") /\ Goto(<<>>) /\ UNCHANGED <<tasks, rxOn, heap>>
    BY <1>2 DEF Mask, Continue, uart
  <2> QED BY <2>1, <1>0, PassesBy
<1>3. CASE SetTimeout
  <2>1. At("set") /\ Goto(<<>>) /\ UNCHANGED <<tasks, rxOn>>
    BY <1>3 DEF SetTimeout, Continue, uart
  <2>2. heap' <= heap
    BY <1>3, <1>0, BoundsAssumption DEF SetTimeout
  <2> QED BY <2>1, <2>2, <1>0, PassesBy
<1>4. CASE NoMessage
  <2>1. At("set") /\ Goto(<<>>) /\ UNCHANGED <<tasks, rxOn, heap>>
    BY <1>4 DEF NoMessage, Continue, uart
  <2> QED BY <2>1, <1>0, PassesBy
<1>5. CASE Drop
  <2>1. At("drop") /\ Goto(<<>>) /\ UNCHANGED <<tasks, rxOn, heap>>
    BY <1>5 DEF Drop, Continue, uart
  <2> QED BY <2>1, <1>0, PassesBy
<1>6. CASE TimersDone
  <2>1. At("timers") /\ Goto(<<>>) /\ UNCHANGED <<tasks, rxOn, heap>>
    BY <1>6 DEF TimersDone, Continue, uart
  <2> QED BY <2>1, <1>0, PassesBy
<1> QED BY <1>1, <1>2, <1>3, <1>4, <1>5, <1>6

LEMMA ThroughSteps ==
  ASSUME IInv, IInv', RxInv,
         TimerOff \/ Receive \/ Transmit \/ Reset \/ TimerOn \/ TimerStop
  PROVE  RxInv'
<1>0. heap \in Int /\ heap' \in Int
  BY HeapInt
<1> DEFINE Through(op, s) ==
      /\ At(op) /\ op \notin {"eret", "create"} /\ s \in Step /\ Goto(<<s>>)
      /\ UNCHANGED <<tasks, rxOn, heap>>
      /\ After(Head(Top)) \subseteq After(s)
      /\ s.op \notin {"rx", "pop"} /\ (s.op = "create" => s.n # TX \/ op = "rx")
      /\ s.op \in Late => op \in Late
<1>a. ASSUME NEW op, NEW s, Through(op, s) PROVE RxInv'
  <2>1. <<s>> \in Seq(Step) /\ <<s>> # <<>> /\ Len(<<s>>) = 1 /\ <<s>>[1] = s
    BY <1>a
  <2> DEFINE t == <<s>>
  <2>2. Linked(t)
    BY LinkedFew
  <2>3. At(op) /\ op \notin {"eret", "create"} /\ Goto(t) /\ UNCHANGED <<tasks, rxOn>>
        /\ heap' <= heap
    BY <1>a, <1>0
  <2>4. After(Head(Top)) \subseteq After(t[Len(t)]) /\ t[1] = s /\ t \in Seq(Step) /\ t # <<>>
    BY <1>a, <2>1
  <2> HIDE DEF t
  <2> QED BY <1>a, <1>0, <2>2, <2>3, <2>4, GoesThrough
<1>1. CASE TimerOff
  <2>1. Through("timeroff", DoWith("create", TIMER))
    BY <1>1, StepTypes DEF TimerOff, At, After, Late, uart, Ops, DoWith, TIMER, TX, RX
  <2> QED BY <2>1, <1>a
<1>2. CASE Receive
  <2>1. Through("rx", DoWith("create", TX))
    BY <1>2, StepTypes DEF Receive, At, After, Late, uart, Ops, DoWith, TIMER, TX, RX
  <2> QED BY <2>1, <1>a
<1>3. CASE Transmit
  <2>1. Through("tx", Do("send"))
    BY <1>3, StepTypes DEF Transmit, At, After, Late, uart, Ops, Do
  <2> QED BY <2>1, <1>a
<1>4. CASE Reset
  <2>1. Through("reset", Do("send"))
    BY <1>4, StepTypes DEF Reset, At, After, Late, uart, Ops, Do
  <2> QED BY <2>1, <1>a
<1>5. CASE TimerOn
  <2>1. Through("timer", Do("ctl"))
    BY <1>5, StepTypes DEF TimerOn, At, After, Late, uart, Ops, Do
  <2> QED BY <2>1, <1>a
<1>6. CASE TimerStop
  <2>1. now \in Nat
    BY DEF IInv, TypeOK
  <2>2. Through("ctl", DoWith("timers", now))
    BY <1>6, <2>1, StepTypes DEF TimerStop, At, After, Late, uart, Ops, DoWith
  <2> QED BY <2>2, <1>a
<1> QED BY <1>1, <1>2, <1>3, <1>4, <1>5, <1>6

LEMMA ExpireThrough ==
  ASSUME IInv, IInv', RxInv, Expire
  PROVE  RxInv'
<1> DEFINE a == DoWith("drop", thead)
           b == DoWith("timers", Arg)
           t == <<a, b>>
<1>1. At("timers") /\ Goto(t) /\ UNCHANGED <<tasks, rxOn, heap>>
  BY DEF Expire, uart
<1>2. thead \in Nat /\ Len(timers) \in Nat
  BY DEF IInv, TypeOK
<1>3. Arg \in Nat
  <2>1. stack # <<>>
    BY <1>1 DEF At
  <2>2. Head(Top) \in Step
    BY <2>1, <1>2, TopFrame DEF IInv
  <2> QED BY <2>2 DEF Step, Arg
<1>4. a \in Step /\ a.op = "drop" /\ b \in Step /\ b.op = "timers"
  BY <1>2, <1>3, StepTypes DEF Ops
<1> HIDE DEF a, b
<1>5. t \in Seq(Step) /\ t # <<>> /\ Len(t) = 2 /\ t[1] = a /\ t[2] = b
  BY <1>4
<1>6. Linked(t)
  BY <1>4, LinkedFew DEF After
<1>7. Head(Top).op = "timers"
  BY <1>1 DEF At
<1>8. After(Head(Top)) \subseteq After(t[Len(t)])
  BY <1>4, <1>5, <1>7 DEF After
<1>9. t[1].op = "drop" /\ "timers" \in Late /\ "timers" \notin {"eret", "create"}
  BY <1>4, <1>5 DEF Late
<1>10. heap \in Int /\ heap' \in Int /\ heap' <= heap
  BY <1>1, HeapInt
<1> HIDE DEF t
<1> QED BY <1>1, <1>5, <1>6, <1>8, <1>9, <1>10, GoesThrough

\* What SendLine puts on the frame for a line that asks for these delays.
LineSteps(delays) == [i \in DOMAIN delays |-> DoWith("set", delays[i])] \o <<Do("reset")>>

LEMMA LineStepsShape ==
  ASSUME NEW delays \in Commands
  PROVE  /\ LineSteps(delays) \in Seq(Step) /\ LineSteps(delays) # <<>>
         /\ Linked(LineSteps(delays))
         /\ LineSteps(delays)[1].op \in {"set", "reset"}
         /\ LineSteps(delays)[Len(LineSteps(delays))].op = "reset"
<1> DEFINE sets  == [i \in DOMAIN delays |-> DoWith("set", delays[i])]
           steps == sets \o <<Do("reset")>>
<1>2. delays \in Seq(Nat) /\ Len(delays) \in Nat /\ DOMAIN delays = 1 .. Len(delays)
  BY BoundsAssumption
<1>3. \A i \in 1 .. Len(delays) : DoWith("set", delays[i]) \in Step
                                  /\ DoWith("set", delays[i]).op = "set"
  BY <1>2, StepTypes DEF Ops
<1>4. /\ sets \in Seq(Step) /\ Len(sets) = Len(delays)
      /\ \A i \in 1 .. Len(delays) : sets[i].op = "set"
  <2>1. sets \in [1 .. Len(delays) -> Step]
    BY <1>2, <1>3
  <2> QED BY <1>2, <1>3, <2>1
<1>5. Do("reset") \in Step /\ Do("reset").op = "reset"
  BY StepTypes DEF Ops
<1>1. LineSteps(delays) = steps
  BY DEF LineSteps
<1> HIDE DEF sets
<1>6. /\ steps \in Seq(Step) /\ Len(steps) = Len(delays) + 1
      /\ \A i \in 1 .. Len(delays) : steps[i] = sets[i]
      /\ steps[Len(delays) + 1] = Do("reset")
  BY <1>2, <1>4, <1>5
<1> HIDE DEF steps
<1>7. Linked(steps)
  <2>1. ASSUME NEW i \in 1 .. Len(steps) - 1
        PROVE  steps[i + 1].op \in After(steps[i])
    <3>1. i \in 1 .. Len(delays) /\ (i + 1 \in 1 .. Len(delays) \/ i + 1 = Len(delays) + 1)
      BY <1>2, <1>6
    <3>2. steps[i].op = "set" /\ steps[i + 1].op \in {"set", "reset"}
      BY <3>1, <1>4, <1>5, <1>6
    <3> QED BY <3>2 DEF After
  <2> QED BY <2>1 DEF Linked
<1>8. steps # <<>> /\ steps[1].op \in {"set", "reset"} /\ steps[Len(steps)].op = "reset"
  BY <1>2, <1>4, <1>5, <1>6
<1> QED BY <1>1, <1>6, <1>7, <1>8

LEMMA SendLineThrough ==
  ASSUME IInv, IInv', RxInv, SendLine
  PROVE  RxInv'
<1>1. PICK delays \in Commands : Goto(LineSteps(delays))
  BY DEF SendLine, LineSteps
<1> DEFINE steps == LineSteps(delays)
<1>2. /\ steps \in Seq(Step) /\ steps # <<>> /\ Linked(steps)
      /\ steps[1].op \in {"set", "reset"} /\ steps[Len(steps)].op = "reset"
  BY LineStepsShape
<1>3. At("send") /\ Goto(steps) /\ UNCHANGED <<tasks, rxOn, heap>>
  BY <1>1 DEF SendLine, Send
<1> HIDE DEF steps
<1>4. After(Head(Top)) \subseteq After(steps[Len(steps)])
  BY <1>2, <1>3 DEF After, At
<1> QED BY <1>2, <1>3, <1>4, HeapInt, GoesThrough DEF Late

\* Steps that leave every frame as it is.
LEMMA ShapesStay ==
  ASSUME Shapes, UNCHANGED stack
  PROVE  Shapes' /\ (RxDue <=> RxDue')
BY DEF Shapes, RxDue

LEMMA WorldRx ==
  ASSUME RxInv, World \/ Idle \/ UNCHANGED vars
  PROVE  RxInv'
<1>1. UNCHANGED <<stack, tasks, halt, rxOn, heap>>
  BY DEF World, Tick, CharTime, Idle, vars, cpu, uart
<1> QED BY <1>1, ShapesStay DEF RxInv, RxKept, RxOnList, Top, Arg

LEMMA HaltRx ==
  ASSUME RxInv, EretAstray \/ PopNull
  PROVE  RxInv'
<1>1. UNCHANGED stack /\ halt' # "run"
  BY DEF EretAstray, PopNull
<1> QED BY <1>1, ShapesStay DEF RxInv, RxKept

LEMMA SendRx ==
  ASSUME RxInv, SendMore \/ SendLast \/ SendExec
  PROVE  RxInv'
<1>1. UNCHANGED <<stack, tasks, rxOn, heap>> /\ (halt' = "run" => halt = "run")
  BY DEF SendMore, SendLast, SendExec, Send, At
<1> QED BY <1>1, ShapesStay DEF RxInv, RxKept, RxOnList, Top, Arg

\* The interrupt is on again.
LEMMA SendDoneRx ==
  ASSUME IInv, RxInv, SendDone
  PROVE  RxInv'
<1>1. At("send") /\ Goto(<<>>) /\ rxOn' = TRUE /\ <<>> \in Seq(Step)
  BY DEF SendDone, Continue, RearmRx
<1>2. stack # <<>> /\ Head(Top).op = "send"
  BY <1>1 DEF At
<1>3. Shapes'
  BY <1>1, <1>2, LinkedFew, ShapesGo DEF RxInv
<1> QED BY <1>1, <1>3 DEF RxInv, RxKept

\* The interrupt goes off, and a task for it is on its way.
LEMMA RxOffRx ==
  ASSUME IInv, RxInv, RxOff
  PROVE  RxInv'
<1> DEFINE s == DoWith("create", RX)
           t == <<s>>
<1>1. At("rxoff") /\ Goto(t)
  BY DEF RxOff
<1>2. s \in Step /\ s.op = "create" /\ s.n = RX
  BY StepTypes DEF Ops, RX
<1> HIDE DEF s
<1>3. t \in Seq(Step) /\ t # <<>> /\ Len(t) = 1 /\ t[1] = s /\ Linked(t)
  BY <1>2, LinkedFew
<1>4. stack # <<>> /\ Head(Top).op = "rxoff"
  BY <1>1 DEF At
<1>5. After(Head(Top)) \subseteq After(t[Len(t)])
  BY <1>2, <1>3, <1>4 DEF After, RX, TIMER
<1> HIDE DEF t
<1>6. Shapes' /\ stack' # <<>> /\ Head(Top') = t[1]
  BY <1>1, <1>3, <1>4, <1>5, ShapesGo DEF RxInv
<1>7. RxDue'
  <2>1. Len(stack') \in Nat /\ Len(stack') > 0 /\ stack'[1] \in Seq(Step)
        /\ Len(stack'[1]) > 0 /\ Head(Head(stack')) = stack'[1][1]
    BY <1>1, <1>3, <1>4, GotoStack
  <2>2. 1 \in 1 .. Len(stack') /\ 1 \in 1 .. Len(stack'[1]) /\ stack'[1][1] = s
    BY <2>1, <1>3, <1>6 DEF Top
  <2> QED BY <2>2, <1>2 DEF RxDue, CreatesRx
<1> QED BY <1>6, <1>7 DEF RxInv, RxKept

LEMMA ArgJob ==
  ASSUME IInv, At("create")
  PROVE  Arg \in Jobs /\ Arg = Head(Top).n
<1>1. stack # <<>> /\ Head(Top).op = "create" /\ Len(timers) \in Nat
  BY DEF At, IInv, TypeOK
<1>2. Frame(Top, Len(timers)) /\ Head(Top) = Top[1]
  BY <1>1, TopFrame DEF IInv
<1> QED BY <1>1, <1>2 DEF Frame, Arg

\* A new task does not come before the receive task, and leaves it or the
\* transmit task where execute_tasks runs it.
LEMMA CreateRx ==
  ASSUME IInv, IInv', RxInv, Create
  PROVE  RxInv'
<1>1. At("create") /\ Goto(<<>>) /\ UNCHANGED <<rxOn, halt>> /\ <<>> \in Seq(Step)
  BY DEF Create, Continue, uart
<1>2. stack # <<>> /\ Head(Top).op = "create" /\ halt = "run"
  BY <1>1 DEF At
<1>3. /\ Shapes' /\ stack' # <<>>
      /\ Head(Top').op \in After(Head(Top))
      /\ RxDue /\ ~CreatesRx(Head(Top)) => RxDue'
  BY <1>1, <1>2, LinkedFew, ShapesGo DEF RxInv
<1>4. Arg \in Jobs /\ Arg = Head(Top).n
  BY <1>1, ArgJob
<1>5. ASSUME ~rxOn', heap' >= TaskWords, ~RxDue'
      PROVE  RxOnList'
  <2>1. heap \in Nat /\ heap' \in Nat /\ TaskWords \in Nat \ {0}
    BY BoundsAssumption DEF IInv, TypeOK
  <2>2. Fits(TaskWords)
    BY <1>5, <2>1 DEF Create, Fits
  <2>3. heap >= TaskWords /\ ~rxOn
    BY <2>2, <1>1, <1>5 DEF Fits
  <2>4. PICK n \in 0 .. Len(tasks) : Behind(tasks, n, Arg) /\ tasks' = InsertAt(tasks, n + 1, Arg)
    BY <2>2 DEF Create
  <2>5. tasks \in Seq(Jobs) /\ Len(tasks) \in Nat
    BY DEF IInv, TypeOK
  <2>6. /\ tasks' \in Seq(Jobs) /\ Len(tasks') = Len(tasks) + 1
        /\ \A i \in 1 .. n : tasks'[i] = tasks[i]
        /\ tasks'[n + 1] = Arg
        /\ \A i \in n + 2 .. Len(tasks) + 1 : tasks'[i] = tasks[i - 1]
    BY <2>4, <2>5, <1>4, Inserted
  <2>7. tasks' # <<>> /\ DOMAIN tasks' = 1 .. Len(tasks) + 1 /\ tasks'[1] \in Jobs
        /\ n \in Nat /\ n + 1 \in DOMAIN tasks'
    BY <2>4, <2>5, <2>6
  <2>8. \A i \in DOMAIN tasks' : tasks'[1] <= tasks'[i]
    <3>1. TasksSorted'
      BY DEF IInv
    <3>2. \A i \in DOMAIN tasks' : i = 1 \/ 1 < i
      BY <2>7, <2>5
    <3>3. 1 \in DOMAIN tasks'
      BY <2>7, <2>5
    <3> QED BY <2>7, <3>1, <3>2, <3>3 DEF TasksSorted, Jobs, RX, TX, TIMER
  <2>9. CASE Arg = RX
    <3>1. tasks'[1] <= RX
      BY <2>6, <2>7, <2>8, <2>9
    <3>2. tasks'[1] # TIMER
      BY <3>1, <2>7 DEF Jobs, RX, TX, TIMER
    <3>3. Head(Top').op = "clear"
      BY <1>2, <1>3, <1>4, <2>9 DEF After, RX, TIMER
    <3> QED BY <1>3, <2>7, <3>2, <3>3 DEF RxOnList
  <2>10. CASE Arg # RX
    <3>1. RxOnList
      BY <1>2, <1>3, <1>4, <1>5, <2>3, <2>10 DEF RxInv, RxKept, CreatesRx
    <3>2. tasks # <<>> /\ tasks[1] # TIMER /\ Len(tasks) > 0
          /\ (Arg = TX => tasks[1] = RX)
      BY <3>1, <1>2, <2>5 DEF RxOnList
    <3>3. tasks'[1] = tasks[1] \/ (tasks'[1] = Arg /\ n = 0)
      <4>1. CASE n = 0
        BY <4>1, <2>6
      <4>2. CASE n # 0
        BY <4>2, <2>4, <2>6
      <4> QED BY <4>1, <4>2
    <3>4. tasks[1] \in Jobs /\ tasks[1] = tasks'[1] /\ n # 0
      <4>0. tasks[1] \in Jobs /\ 1 \in 1 .. Len(tasks)
        BY <3>2, <2>5
      <4>1. ASSUME n = 0 PROVE FALSE
        <5>1. Arg < tasks[1]
          BY <4>1, <2>4, <3>2, <2>5 DEF Behind
        <5> QED BY <5>1, <3>2, <4>0, <1>4, <2>10 DEF Jobs, RX, TX, TIMER
      <4> QED BY <4>0, <4>1, <3>3
    <3>5. CASE Arg = TIMER
      <4>1. Head(Top').op \in {"rxoff", "clear"}
        BY <1>2, <1>3, <1>4, <3>5 DEF After
      <4> QED BY <4>1, <1>3, <2>7, <3>2, <3>4 DEF RxOnList
    <3>6. CASE Arg = TX
      <4>1. Head(Top').op = "pop"
        BY <1>2, <1>3, <1>4, <3>6 DEF After, RX, TX, TIMER
      <4>2. Len(tasks') > 1 /\ 2 \in DOMAIN tasks' /\ n + 1 >= 2
        BY <2>4, <2>5, <2>6, <2>7, <3>2, <3>4
      <4>3. tasks'[2] <= TX
        <5>1. TasksSorted'
          BY DEF IInv
        <5>2. CASE n + 1 = 2
          BY <5>2, <2>6, <3>6 DEF TX
        <5>3. CASE n + 1 > 2
          BY <5>1, <5>3, <4>2, <2>6, <2>7, <3>6 DEF TasksSorted
        <5> QED BY <5>2, <5>3, <4>2, <2>4, <2>5
      <4>4. tasks'[2] # TIMER
        BY <4>3 DEF TX, TIMER
      <4> QED BY <4>1, <4>2, <4>4, <1>3, <2>7, <3>2, <3>4 DEF RxOnList
    <3> QED BY <3>5, <3>6, <1>4, <2>10 DEF Jobs
  <2> QED BY <2>9, <2>10
<1> QED BY <1>2, <1>3, <1>5 DEF RxInv, RxKept

\* A new handler begins with none of the steps that a task is made of.
LEMMA HandlerShape ==
  ASSUME NEW timer \in BOOLEAN, NEW rx \in BOOLEAN
  PROVE  /\ Shape(Handler(timer, rx))
         /\ Handler(timer, rx)[1].op \in {"timeroff", "rxoff", "clear"}
<1> DEFINE base == <<Do("clear"), Do("tasks"), Do("eret")>>
           mid  == When(rx, "rxoff", base)
<1>1. \A op : Do(op).op = op
  BY DEF Do
<1>2. Shape(base) /\ base[1].op = "clear" /\ Len(base) = 3 /\ base \in Seq(Step)
  BY <1>1 DEF Shape, After, Do, Step, Ops
<1>a. ASSUME NEW f \in Seq(Step), Len(f) > 0, Shape(f), NEW op, f[1].op \in After(Do(op)), Do(op) \in Step
      PROVE  Shape(<<Do(op)>> \o f) /\ (<<Do(op)>> \o f)[1].op = op
             /\ <<Do(op)>> \o f \in Seq(Step) /\ Len(<<Do(op)>> \o f) > 0
  <2> DEFINE g == <<Do(op)>> \o f
  <2>1. g \in Seq(Step) /\ Len(g) = Len(f) + 1 /\ Len(f) \in Nat /\ g[1] = Do(op)
    BY <1>a
  <2>2. \A i \in 1 .. Len(f) : g[i + 1] = f[i]
    BY <1>a
  <2> HIDE DEF g
  <2>3. g[Len(g)].op = "eret"
    BY <1>a, <2>1, <2>2 DEF Shape
  <2>4. ASSUME NEW i \in 1 .. Len(g) - 1
        PROVE  g[i + 1].op \in After(g[i])
    <3>1. CASE i = 1
      <4>1. 1 \in 1 .. Len(f) /\ g[1 + 1] = f[1]
        BY <1>a, <2>1, <2>2
      <4> QED BY <3>1, <4>1, <1>a, <2>1
    <3>2. CASE i # 1
      <4>1. i - 1 \in 1 .. Len(f) - 1 /\ (i - 1) + 1 = i /\ i \in 1 .. Len(f) /\ i - 1 \in 1 .. Len(f)
        BY <3>2, <2>1
      <4>2. g[i] = f[i - 1] /\ g[i + 1] = f[i]
        <5>1. g[(i - 1) + 1] = f[i - 1]
          BY <4>1, <2>2
        <5> QED BY <5>1, <4>1, <2>2
      <4>3. f[(i - 1) + 1].op \in After(f[i - 1])
        BY <4>1, <1>a DEF Shape
      <4> QED BY <4>1, <4>2, <4>3
    <3> QED BY <3>1, <3>2
  <2> QED BY <2>1, <2>3, <2>4, <1>1 DEF Shape, g
<1> HIDE DEF base
<1>3. Shape(mid) /\ mid[1].op \in {"rxoff", "clear"} /\ mid \in Seq(Step) /\ Len(mid) > 0
  <2>1. CASE rx
    <3>1. mid = <<Do("rxoff")>> \o base /\ Do("rxoff") \in Step
      BY <2>1, StepTypes DEF When, Ops
    <3>2. base[1].op \in After(Do("rxoff"))
      BY <1>1, <1>2 DEF After
    <3> HIDE DEF mid
    <3> QED BY <3>1, <3>2, <1>2, <1>a
  <2>2. CASE ~rx
    BY <2>2, <1>2 DEF When
  <2> QED BY <2>1, <2>2
<1> HIDE DEF mid
<1>4. Shape(When(timer, "timeroff", mid))
      /\ When(timer, "timeroff", mid)[1].op \in {"timeroff", "rxoff", "clear"}
  <2>1. CASE timer
    <3>1. When(timer, "timeroff", mid) = <<Do("timeroff")>> \o mid /\ Do("timeroff") \in Step
      BY <2>1, StepTypes DEF When, Ops
    <3>2. mid[1].op \in After(Do("timeroff"))
      BY <1>1, <1>3 DEF After
    <3> QED BY <3>1, <3>2, <1>3, <1>a
  <2>2. CASE ~timer
    BY <2>2, <1>3 DEF When
  <2> QED BY <2>1, <2>2
<1> QED BY <1>4 DEF Handler, mid, base

LEMMA IrqRx ==
  ASSUME IInv, RxInv, Irq
  PROVE  RxInv'
<1> DEFINE h == Handler(TimerLine, RxLine)
<1>1. TimerLine \in BOOLEAN /\ RxLine \in BOOLEAN /\ Len(timers) \in Nat
  BY DEF IInv, TypeOK, TimerLine, RxLine
<1>2. Shape(h) /\ h[1].op \in {"timeroff", "rxoff", "clear"}
  BY <1>1, HandlerShape
<1>3. Frame(h, Len(timers))
  BY <1>1, HandlerFrame
<1>4. h \in Seq(Step) /\ Len(h) \in Nat /\ Len(h) > 0 /\ Head(h) = h[1]
  BY <1>3 DEF Frame
<1>5. stack' = <<h>> \o stack /\ UNCHANGED <<tasks, rxOn, heap, halt>> /\ halt = "run"
  BY DEF Irq, uart
<1> HIDE DEF h
<1>6. stack \in Seq(Seq(Step)) /\ Len(stack) \in Nat
  BY DEF IInv, TypeOK
<1>7. stack' \in Seq(Seq(Step)) /\ Len(stack') = Len(stack) + 1 /\ stack'[1] = h
      /\ stack' # <<>> /\ Head(stack') = h
  BY <1>4, <1>5, <1>6
<1>8. \A i \in 1 .. Len(stack) : stack'[i + 1] = stack[i]
  BY <1>4, <1>5, <1>6
<1>9. Shapes'
  <2>1. ASSUME NEW i \in 1 .. Len(stack'), i # 1
        PROVE  Shape(stack'[i])
    <3>1. i - 1 \in 1 .. Len(stack) /\ (i - 1) + 1 = i
      BY <2>1, <1>6, <1>7
    <3>2. stack'[i] = stack[i - 1]
      BY <3>1, <1>8
    <3> QED BY <3>1, <3>2 DEF RxInv, Shapes
  <2> QED BY <2>1, <1>2, <1>7 DEF Shapes
<1>10. RxDue => RxDue'
  <2>1. ASSUME NEW i \in 1 .. Len(stack), NEW j \in 1 .. Len(stack[i]), CreatesRx(stack[i][j])
        PROVE  RxDue'
    <3>1. stack'[i + 1] = stack[i] /\ i + 1 \in 1 .. Len(stack')
      BY <1>6, <1>7, <1>8
    <3> QED BY <3>1, <2>1 DEF RxDue
  <2> QED BY <2>1 DEF RxDue
<1>11. Head(Top').op \in {"timeroff", "rxoff", "clear"}
  BY <1>2, <1>4, <1>7 DEF Top
<1> QED BY <1>5, <1>7, <1>9, <1>10, <1>11 DEF RxInv, RxKept, RxOnList

LEMMA EretRx ==
  ASSUME IInv, RxInv, Eret
  PROVE  RxInv'
<1>1. At("eret") /\ stack' = Tail(stack) /\ UNCHANGED <<tasks, rxOn, heap, halt>> /\ halt = "run"
  BY DEF Eret, At, uart
<1>2. tasks = <<>>
  BY <1>1 DEF IInv, Drained
<1>3. stack \in Seq(Seq(Step)) /\ Len(stack) \in Nat /\ Len(stack) > 0 /\ Top = stack[1]
  BY <1>1 DEF IInv, TypeOK, At, Top
<1>4. Len(stack') = Len(stack) - 1 /\ \A i \in 1 .. Len(stack) - 1 : stack'[i] = stack[i + 1]
  BY <1>1, <1>3
<1>5. Shapes'
  <2>1. ASSUME NEW i \in 1 .. Len(stack')
        PROVE  Shape(stack'[i])
    <3>1. stack'[i] = stack[i + 1] /\ i + 1 \in 1 .. Len(stack)
      BY <1>3, <1>4
    <3> QED BY <3>1 DEF RxInv, Shapes
  <2> QED BY <2>1 DEF Shapes
<1>6. ASSUME RxDue PROVE RxDue'
  <2>1. PICK i \in 1 .. Len(stack) : \E j \in 1 .. Len(stack[i]) : CreatesRx(stack[i][j])
    BY <1>6 DEF RxDue
  <2>2. i # 1
    <3> SUFFICES ASSUME i = 1 PROVE FALSE
      OBVIOUS
    <3>1. PICK j \in 1 .. Len(Top) : CreatesRx(Top[j])
      BY <2>1, <1>3
    <3>2. Frame(Top, Len(timers)) /\ Shape(Top)
      BY <1>3 DEF IInv, Frames, RxInv, Shapes
    <3>3. Top \in Seq(Step) /\ Len(Top) \in Nat /\ Len(Top) > 0 /\ Head(Top) = Top[1]
      BY <3>2 DEF Frame
    <3>4. Top[1].op = "eret"
      BY <1>1, <3>3 DEF At
    <3>5. j = 1
      <4>1. ASSUME j # 1 PROVE FALSE
        <5>1. 1 \in 1 .. Len(Top) - 1 /\ 1 + 1 = 2
          BY <4>1, <3>3
        <5>2. Top[1 + 1].op \in After(Top[1])
          BY <5>1, <3>2 DEF Shape
        <5> QED BY <5>2, <3>4 DEF After
      <4> QED BY <4>1
    <3> QED BY <3>1, <3>4, <3>5 DEF CreatesRx
  <2>3. stack'[i - 1] = stack[i] /\ i - 1 \in 1 .. Len(stack')
    <3>1. i - 1 \in 1 .. Len(stack) - 1 /\ (i - 1) + 1 = i
      BY <2>2, <1>3
    <3> QED BY <3>1, <1>4
  <2> QED BY <2>1, <2>3 DEF RxDue
<1>7. ASSUME ~rxOn', heap' >= TaskWords, ~RxDue' PROVE FALSE
  <2>1. RxOnList
    BY <1>1, <1>6, <1>7 DEF RxInv, RxKept
  <2> QED BY <2>1, <1>2 DEF RxOnList
<1> QED BY <1>5, <1>7 DEF RxInv, RxKept

\* The head of the list is run: the receive task, or the transmit task with no
\* receive task in front, or a timer task with neither behind it.
LEMMA RunTaskRx ==
  ASSUME IInv, RxInv, RunTask
  PROVE  RxInv'
<1> DEFINE p == Head(tasks)
           t == Turn(p)
<1>1. At("tasks") /\ tasks # <<>> /\ Goto(t) /\ UNCHANGED <<tasks, rxOn, heap, halt>>
  BY DEF RunTask, At, uart
<1>2. p \in Jobs /\ p = tasks[1]
  BY <1>1 DEF IInv, TypeOK
<1>3. /\ JobOp(p) \in {"rx", "tx", "timer"}
      /\ JobOp(p) = "rx" => p = RX
      /\ JobOp(p) = "timer" => p = TIMER
  BY <1>2 DEF JobOp, Jobs, RX, TX, TIMER
<1> HIDE DEF p
<1>4. t \in Seq(Step) /\ t # <<>> /\ Len(t) = 4 /\ t[1].op = JobOp(p) /\ t[4].op = "tasks"
      /\ Linked(t)
  BY <1>3 DEF Turn, Do, Step, Ops, Linked, After
<1> HIDE DEF t
<1>5. stack # <<>> /\ Head(Top).op = "tasks" /\ halt = "run"
  BY <1>1 DEF At
<1>6. After(Head(Top)) \subseteq After(t[Len(t)])
  BY <1>4, <1>5 DEF After
<1>7. /\ Shapes' /\ Head(Top') = t[1]
      /\ RxDue => RxDue'
  BY <1>1, <1>4, <1>5, <1>6, ShapesGo DEF RxInv, CreatesRx
<1> QED BY <1>1, <1>2, <1>3, <1>4, <1>5, <1>7 DEF RxInv, RxKept, RxOnList

LEMMA TasksDoneRx ==
  ASSUME IInv, RxInv, TasksDone
  PROVE  RxInv'
<1>1. At("tasks") /\ tasks = <<>> /\ Goto(<<>>) /\ UNCHANGED <<tasks, rxOn, heap, halt>>
      /\ <<>> \in Seq(Step)
  BY DEF TasksDone, Continue, uart
<1>2. stack # <<>> /\ Head(Top).op = "tasks" /\ halt = "run"
  BY <1>1 DEF At
<1>3. Shapes' /\ (RxDue => RxDue')
  BY <1>1, <1>2, LinkedFew, ShapesGo DEF RxInv, CreatesRx
<1> QED BY <1>1, <1>2, <1>3 DEF RxInv, RxKept, RxOnList

\* What a pop takes off the list is not the last task that the receive
\* interrupt waits for.
LEMMA PopRx ==
  ASSUME IInv, RxInv, Pop
  PROVE  RxInv'
<1>1. At("pop") /\ Goto(<<>>) /\ tasks # <<>> /\ tasks' = Tail(tasks)
      /\ UNCHANGED <<rxOn, heap, halt>> /\ <<>> \in Seq(Step)
  BY DEF Pop, Continue, uart
<1>2. stack # <<>> /\ Head(Top).op = "pop" /\ halt = "run"
  BY <1>1 DEF At
<1>3. /\ Shapes' /\ (RxDue => RxDue')
      /\ Head(Top').op \in After(Head(Top))
  BY <1>1, <1>2, LinkedFew, ShapesGo DEF RxInv, CreatesRx
<1>4. Head(Top').op = "mask"
  BY <1>2, <1>3 DEF After
<1>5. tasks \in Seq(Jobs)
  BY DEF IInv, TypeOK
<1>6. ASSUME RxOnList PROVE RxOnList'
  <2>1. Len(tasks) > 1 /\ tasks[2] # TIMER
    BY <1>2, <1>6 DEF RxOnList
  <2>2. tasks' # <<>> /\ tasks'[1] = tasks[2]
    <3>1. Len(Tail(tasks)) > 0 /\ Tail(tasks)[1] = tasks[2]
      BY <1>5, <2>1
    <3>2. tasks' \in Seq(Jobs) /\ Len(tasks') > 0
      BY <1>1, <1>5, <3>1
    <3> QED BY <1>1, <3>1, <3>2
  <2> QED BY <2>1, <2>2, <1>4 DEF RxOnList
<1> QED BY <1>1, <1>2, <1>3, <1>6 DEF RxInv, RxKept

LEMMA KeepsRx ==
  ASSUME IInv, IInv', RxInv, [Next]_vars
  PROVE  RxInv'
<1>1. CASE World \/ Idle \/ UNCHANGED vars
  BY <1>1, WorldRx
<1>2. CASE Dispatch
  BY <1>2, IrqRx, ThroughSteps, RxOffRx, CreateRx, PassingSteps, EretRx, HaltRx DEF Dispatch
<1>3. CASE Drain
  BY <1>3, RunTaskRx, TasksDoneRx, PopRx, HaltRx, PassingSteps DEF Drain
<1>4. CASE Echo
  BY <1>4, ThroughSteps, SendRx, SendLineThrough, SendDoneRx DEF Echo
<1>5. CASE Alarm
  BY <1>5, PassingSteps, ThroughSteps, ExpireThrough DEF Alarm
<1> QED BY <1>1, <1>2, <1>3, <1>4, <1>5 DEF Next, Kernel

LEMMA RxStarts == Init => IInv /\ RxInv
<1>1. Init => RxInv
  BY DEF Init, RxInv, Shapes, RxKept
<1> QED BY <1>1, Started

\* The inductive invariant of the receive interrupt.
THEOREM RxInvariant == Spec => [](IInv /\ RxInv)
<1>1. (IInv /\ RxInv) /\ [Next]_vars => (IInv /\ RxInv)'
  BY Keeps, KeepsRx
<1> QED BY <1>1, RxStarts, PTL DEF Spec

\* The receive interrupt is off only while a task or a frame is on its way to
\* switch it on again, or simple_malloc has run out, at any depth of nesting.
THEOREM ReceiveNeverLost == Spec => []RxNeverLost
<1>1. ASSUME IInv, RxInv PROVE RxNeverLost
  <2>1. SUFFICES ASSUME halt = "run", ~rxOn, ~(heap < TaskWords) PROVE RxComing
    BY DEF RxNeverLost
  <2>2. heap >= TaskWords
    BY <1>1, <2>1, BoundsAssumption DEF IInv, TypeOK
  <2>3. CASE RxDue
    <3>1. PICK i \in 1 .. Len(stack) : \E j \in 1 .. Len(stack[i]) : CreatesRx(stack[i][j])
      BY <2>3 DEF RxDue
    <3>6. PICK j \in 1 .. Len(stack[i]) : CreatesRx(stack[i][j])
      BY <3>1
    <3>2. stack \in Seq(Seq(Step)) /\ stack[i] \in Seq(Step)
      BY <1>1 DEF IInv, TypeOK
    <3>3. i \in DOMAIN stack /\ j \in DOMAIN stack[i]
      BY <3>2
    <3>4. WillRearmRx(stack[i][j])
      BY <3>6 DEF WillRearmRx, CreatesRx, RX, TIMER
    <3>5. \E n \in DOMAIN stack[i] : WillRearmRx(stack[i][n])
      BY <3>3, <3>4
    <3> QED BY <3>3, <3>5 DEF RxComing, ToDo
  <2>4. CASE RxOnList
    <3>1. tasks \in Seq(Jobs)
      BY <1>1 DEF IInv, TypeOK
    <3>2. 1 \in DOMAIN tasks /\ tasks[1] # TIMER
      BY <3>1, <2>4 DEF RxOnList
    <3> QED BY <3>2 DEF RxComing
  <2> QED BY <1>1, <2>1, <2>2, <2>3, <2>4 DEF RxInv, RxKept
<1> QED BY <1>1, RxInvariant, PTL

=============================================================================
