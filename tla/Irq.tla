--------------------------------- MODULE Irq ---------------------------------
(***************************************************************************)
(* Interrupts of the lab 5 kernel: irq_except_handler_c and the vectors    *)
(* around it, the task list it feeds and drains, the UART tasks, the timer *)
(* list.  One CPU runs a stack of exception frames over main's idle loop.  *)
(* A frame is what is left of its code, as a sequence of steps: values the *)
(* code read earlier (the pending bits, the callback's address) are in the *)
(* steps still to do, so they are as stale as in the code.                 *)
(*                                                                         *)
(* A step ends wherever DAIF changes, a task or a timer is entered or      *)
(* removed, or a device is switched.  One turn of the sending loop, the    *)
(* stores of uart_receive_handler, and setTimeout as a whole are one step. *)
(***************************************************************************)
EXTENDS Integers, Sequences, SequencesExt

CONSTANTS
  MaxNest,     \* bound: exception frames on the stack
  MaxInput,    \* bound: characters typed
  Fifo,        \* characters the receive FIFO holds
  TxFifo,      \* characters the transmit FIFO holds
  Heap,        \* words of 8 bytes simple_malloc can still hand out
  TaskWords,   \* sizeof(task_t), in words
  TimerWords,  \* sizeof(timer_t)
  MsgWords,    \* the copy of a message made by utils_strdup
  Commands     \* what a line may ask for: the delays of its setTimeout calls

ASSUME BoundsAssumption ==
  /\ MaxNest \in Nat /\ MaxInput \in Nat /\ Fifo \in Nat /\ TxFifo \in Nat
  /\ Heap \in Nat
  /\ TaskWords \in Nat \ {0} /\ TimerWords \in Nat \ {0} /\ MsgWords \in Nat \ {0}
  /\ Commands \subseteq Seq(Nat)

RX    == 1       \* a task is named by its priority
TX    == 2
TIMER == 3
Jobs  == {RX, TX, TIMER}
NULL  == 0

Chars == {"a", "cr"}
Junk  == "junk"  \* what AUX_MU_IO gives when the FIFO is empty

Ops == {"timeroff", "rxoff", "create", "clear", "tasks", "pop", "mask", "eret",
        "rx", "tx", "send", "set", "reset", "timer", "ctl", "timers", "drop"}

VARIABLES
  stack,    \* the exception frames, the running one first
  masked,   \* PSTATE.I
  elr,      \* whom ELR_EL1 and SPSR_EL1 describe: the frame at that depth
  halt,     \* "run", or how the kernel stopped being this program
  tasks,    \* the task list, from task_head
  rxOn,     \* bit 0 of AUX_MU_IER
  txOn,     \* bit 1 of AUX_MU_IER
  fifo,     \* the receive FIFO
  out,      \* uart_write_buffer from uart_write_head to uart_write_index
  last,     \* uart_read_buffer[uart_read_index - 1]
  tx,       \* characters in the transmit FIFO
  heap,     \* words left
  timers,   \* the timers made so far, each with its expiry and its next
  thead,    \* timer_head, an index of timers
  tirq,     \* CORE0_TIMER_IRQ_CTRL lets the timer interrupt through
  ctl,      \* cntp_ctl_el0
  cval,     \* cntp_cval_el0
  now,      \* cntpct_el0, in units of cntfrq
  input,    \* the characters typed that found room in the receive FIFO
  lost,     \* how many did not
  echoed,   \* what uart_transmit_handler has written to AUX_MU_IO
  shown,    \* those of them the transmit FIFO had room for
  fired     \* the timers whose callback ran, in order

cpu    == <<stack, masked, elr, halt>>
uart   == <<rxOn, txOn, fifo, out, last, tx>>
clock  == <<timers, thead, tirq, ctl, cval>>
world  == <<now, input, lost, echoed, shown, fired>>
vars   == <<cpu, tasks, uart, heap, clock, world>>

Do(op)       == [op |-> op, n |-> 0]
DoWith(op, n) == [op |-> op, n |-> n]

Init ==
  /\ stack = <<>> /\ masked = FALSE /\ elr = 0 /\ halt = "run"
  /\ tasks = <<>>
  /\ rxOn = TRUE /\ txOn = FALSE /\ fifo = <<>> /\ out = <<>> /\ last = "nul"
  /\ tx = 0
  /\ heap = Heap
  /\ timers = <<>> /\ thead = NULL /\ tirq = FALSE /\ ctl = FALSE /\ cval = 0
  /\ now = 0 /\ input = <<>> /\ lost = 0 /\ echoed = <<>> /\ shown = <<>> /\ fired = <<>>

\* Mutant: the bound is not checked.
Unchecked(n) == TRUE

\* simple_malloc has n words left.
Fits(n) == heap >= n

----------------------------------------------------------------------------
(* The world *)

\* A character comes in; the receiver drops it when its FIFO is full.
Arrive(c) ==
  /\ Len(input) + lost < MaxInput
  /\ \/ /\ Len(fifo) < Fifo
        /\ input' = Append(input, c) /\ fifo' = Append(fifo, c) /\ lost' = lost
     \/ /\ Len(fifo) >= Fifo
        /\ lost' = lost + 1 /\ UNCHANGED <<input, fifo>>

\* The time of one character on the line: one goes out of the transmit FIFO, and
\* at most one comes in.
CharTime ==
  /\ \/ \E c \in Chars : Arrive(c)
     \/ tx > 0 /\ UNCHANGED <<input, fifo, lost>>
  /\ tx' = IF tx > 0 THEN tx - 1 ELSE 0
  /\ UNCHANGED <<cpu, tasks, rxOn, txOn, out, last, heap, clock, now, echoed, shown, fired>>

\* Time matters only while a timer waits.
Tick ==
  /\ \E t \in DOMAIN timers : timers[t].expiry > now
  /\ now' = now + 1
  /\ UNCHANGED <<cpu, tasks, uart, heap, clock, input, lost, echoed, shown, fired>>

TimerLine == tirq /\ ctl /\ cval <= now
RxLine    == rxOn /\ fifo # <<>>
TxLine    == txOn /\ tx = 0

----------------------------------------------------------------------------
(* Frames *)

Top      == Head(stack)
At(op)   == halt = "run" /\ stack # <<>> /\ Head(Top).op = op
Arg      == Head(Top).n

\* The running step is replaced by steps.
Goto(steps) == stack' = <<steps \o Tail(Top)>> \o Tail(stack)
Continue    == Goto(<<>>)

When(b, op, rest) == IF b THEN <<Do(op)>> \o rest ELSE rest

Handler(timer, rx) ==
  When(timer, "timeroff", When(rx, "rxoff", <<Do("clear"), Do("tasks"), Do("eret")>>))

\* The CPU takes the exception: ELR_EL1 and SPSR_EL1 now describe the
\* interrupted frame, and save_all keeps no copy of the values they had.  The
\* handler reads the pending bits with interrupts masked.  A transmit interrupt
\* has an empty branch; a receive interrupt hides it in AUX_MU_IIR.
Irq ==
  /\ halt = "run" /\ ~masked /\ Len(stack) < MaxNest
  /\ TimerLine \/ RxLine \/ TxLine
  /\ stack' = <<Handler(TimerLine, RxLine)>> \o stack
  /\ masked' = TRUE
  /\ elr' = Len(stack)
  /\ UNCHANGED <<halt, tasks, uart, heap, clock, world>>

TimerOff ==
  /\ At("timeroff")
  /\ tirq' = FALSE
  /\ Goto(<<DoWith("create", TIMER)>>)
  /\ UNCHANGED <<masked, elr, halt, tasks, uart, heap, timers, thead, ctl, cval, world>>

RxOff ==
  /\ At("rxoff")
  /\ rxOn' = FALSE
  /\ Goto(<<DoWith("create", RX)>>)
  /\ UNCHANGED <<masked, elr, halt, tasks, txOn, fifo, out, last, tx, heap, clock, world>>

\* Mutant: a new task goes to the end of the list.
AtEnd(list, n, p) == n = Len(list)

\* enqueue_task puts a task behind the first n: those of the same or a more
\* urgent priority.
Behind(list, n, p) ==
  /\ \A m \in 1 .. n : list[m] <= p
  /\ n < Len(list) => p < list[n + 1]

\* create_task; enqueue_task leaves with interrupts enabled whatever they were.
Create ==
  /\ At("create")
  /\ IF Fits(TaskWords)
     THEN /\ \E n \in 0 .. Len(tasks) :
               /\ Behind(tasks, n, Arg)
               /\ tasks' = InsertAt(tasks, n + 1, Arg)
          /\ heap' = heap - TaskWords
          /\ masked' = FALSE
     ELSE UNCHANGED <<tasks, heap, masked>>
  /\ Continue
  /\ UNCHANGED <<elr, halt, uart, clock, world>>

Clear ==
  /\ At("clear")
  /\ masked' = FALSE
  /\ Continue
  /\ UNCHANGED <<elr, halt, tasks, uart, heap, clock, world>>

JobOp(p) == CASE p = RX -> "rx" [] p = TX -> "tx" [] p = TIMER -> "timer"

\* Mutant: execute_tasks runs the head only.
Once(p) == <<Do(JobOp(p)), Do("pop")>>

\* A turn of execute_tasks' loop.
Turn(p) == <<Do(JobOp(p)), Do("pop"), Do("mask"), Do("tasks")>>

\* The head stays on the list while its callback runs.
RunTask ==
  /\ At("tasks") /\ tasks # <<>>
  /\ Goto(Turn(Head(tasks)))
  /\ UNCHANGED <<masked, elr, halt, tasks, uart, heap, clock, world>>

TasksDone ==
  /\ At("tasks") /\ tasks = <<>>
  /\ masked' = FALSE
  /\ Continue
  /\ UNCHANGED <<elr, halt, tasks, uart, heap, clock, world>>

Pop ==
  /\ At("pop") /\ tasks # <<>>
  /\ tasks' = Tail(tasks)
  /\ Continue
  /\ UNCHANGED <<masked, elr, halt, uart, heap, clock, world>>

\* A nested execute_tasks has drained the list: task_head->next reads through
\* NULL and the list is whatever is there.
PopNull ==
  /\ At("pop") /\ tasks = <<>>
  /\ halt' = "null"
  /\ UNCHANGED <<stack, masked, elr, tasks, uart, heap, clock, world>>

Mask ==
  /\ At("mask")
  /\ masked' = TRUE
  /\ Continue
  /\ UNCHANGED <<elr, halt, tasks, uart, heap, clock, world>>

\* load_all and eret, which resumes what ELR_EL1 and SPSR_EL1 describe.
Eret ==
  /\ At("eret") /\ elr = Len(stack) - 1
  /\ stack' = Tail(stack)
  /\ masked' = FALSE
  /\ UNCHANGED <<elr, halt, tasks, uart, heap, clock, world>>

\* A nested exception has overwritten them: the CPU resumes in the middle of
\* this frame's own code with the registers and the stack of the frame below.
EretAstray ==
  /\ At("eret") /\ elr # Len(stack) - 1
  /\ halt' = "astray"
  /\ UNCHANGED <<stack, masked, elr, tasks, uart, heap, clock, world>>

----------------------------------------------------------------------------
(* uart_receive_handler, uart_transmit_handler *)

\* One character, whether or not one is there: both rings get it.
Receive ==
  /\ At("rx")
  /\ LET c == IF fifo = <<>> THEN Junk ELSE Head(fifo)
     IN last' = c /\ out' = Append(out, c)
  /\ fifo' = IF fifo = <<>> THEN fifo ELSE Tail(fifo)
  /\ Goto(<<DoWith("create", TX)>>)
  /\ UNCHANGED <<masked, elr, halt, tasks, rxOn, txOn, tx, heap, clock, world>>

\* A line feed is sent after a carriage return.
Transmit ==
  /\ At("tx")
  /\ txOn' = TRUE
  /\ out' = IF out # <<>> /\ Last(out) = "cr" THEN Append(out, "lf") ELSE out
  /\ Goto(<<Do("send")>>)
  /\ UNCHANGED <<masked, elr, halt, tasks, rxOn, fifo, last, tx, heap, clock, world>>

\* Mutant: uart_write_head is not advanced.
NotAdvanced == out

Advanced == Tail(out)

\* What is in the transmit FIFO after one more write to AUX_MU_IO.
Written == IF tx < TxFifo THEN tx + 1 ELSE tx

\* The handler writes to AUX_MU_IO without asking AUX_MU_LSR for room: a full
\* FIFO drops the character, and the ring has no other copy.
Send ==
  /\ At("send") /\ out # <<>>
  /\ echoed' = IF Head(out) = "lf" THEN echoed ELSE Append(echoed, Head(out))
  /\ shown' = IF Head(out) = "lf" \/ tx >= TxFifo THEN shown ELSE Append(shown, Head(out))
  /\ out' = Advanced
  /\ UNCHANGED <<masked, elr, tasks, rxOn, fifo, heap, clock, now, input, lost, fired>>

SendMore ==
  /\ Send
  /\ Len(out) > 1
  /\ tx' = Written
  /\ UNCHANGED <<stack, halt, txOn, last>>

SendLast ==
  /\ Send
  /\ Len(out) = 1 /\ last # "cr"
  /\ txOn' = FALSE
  /\ tx' = Written
  /\ UNCHANGED <<stack, halt, last>>

\* The text a command or print_message prints goes through uart_send_char, which
\* waits for room: what is left in the transmit FIFO at its end, of it and of
\* the at most filled characters that were there.
Prints(filled) == tx' \in filled .. TxFifo

\* The line is complete: parse_command, then the indices go back to 0.
SendLine ==
  /\ Send
  /\ Len(out) = 1 /\ last = "cr"
  /\ txOn' = FALSE /\ last' = "nul"
  /\ Prints(Written)
  /\ \E delays \in Commands :
       Goto([i \in DOMAIN delays |-> DoWith("set", delays[i])] \o <<Do("reset")>>)
  /\ UNCHANGED halt

\* exec: cpio_exec_program leaves for EL0 with every interrupt masked, from
\* inside the task, and nothing comes back from there.
SendExec ==
  /\ Send
  /\ Len(out) = 1 /\ last = "cr"
  /\ txOn' = FALSE /\ last' = "nul"
  /\ Prints(Written)
  /\ halt' = "user"
  /\ UNCHANGED stack

Reset ==
  /\ At("reset")
  /\ out' = <<>> /\ last' = "nul"
  /\ Goto(<<Do("send")>>)
  /\ UNCHANGED <<masked, elr, halt, tasks, rxOn, txOn, fifo, tx, heap, clock, world>>

\* Mutant: the interrupt that irq_except_handler_c disabled stays disabled.
KeepRx == rxOn' = rxOn

RearmRx == rxOn' = TRUE

SendDone ==
  /\ At("send") /\ out = <<>>
  /\ RearmRx
  /\ Continue
  /\ UNCHANGED <<masked, elr, halt, tasks, txOn, fifo, out, last, tx, heap, clock, world>>

----------------------------------------------------------------------------
(* Timers *)

Expiry(t) == timers[t].expiry

\* The timer the walk of add_timer is at after n moves.
Walk[n \in 0 .. Len(timers)] ==
  IF n = 0 THEN thead ELSE IF Walk[n - 1] = NULL THEN NULL ELSE timers[Walk[n - 1]].next

\* The list is empty or the new timer is the earliest.
Earliest(e) == thead = NULL \/ e < Expiry(thead)

\* Mutant: a new timer goes to the end of the list.
WalksOn(n, e) == Walk[n] # NULL /\ Walk[n + 1] = NULL

\* The walk stops at the first timer whose next one expires no earlier than e.
StopsAt(n, e) ==
  /\ Walk[n] # NULL
  /\ \A m \in 1 .. n : Expiry(Walk[m]) < e
  /\ Walk[n + 1] # NULL => e <= Expiry(Walk[n + 1])

\* The new timer becomes the head: the hardware is set to it.
AddFirst(t, e) ==
  /\ timers' = Append(timers, [expiry |-> e, next |-> thead])
  /\ thead' = t
  /\ cval' = e /\ ctl' = TRUE

AddBehind(c, t, e) ==
  /\ timers' = Append([timers EXCEPT ![c].next = t],
                      [expiry |-> e, next |-> timers[c].next])
  /\ UNCHANGED <<thead, cval, ctl>>

\* setTimeout, create_timer and add_timer; the last ends with interrupts
\* enabled whatever they were.
SetTimeout ==
  /\ At("set") /\ Fits(MsgWords)
  /\ tirq' = (tirq \/ thead = NULL)
  /\ IF Fits(MsgWords + TimerWords)
     THEN LET t == Len(timers) + 1
              e == now + Arg
          IN /\ IF Earliest(e) THEN AddFirst(t, e)
                ELSE \E n \in 0 .. Len(timers) - 1, c \in DOMAIN timers :
                       StopsAt(n, e) /\ c = Walk[n] /\ AddBehind(c, t, e)
             /\ heap' = heap - MsgWords - TimerWords
             /\ masked' = FALSE
     ELSE /\ heap' = heap - MsgWords
          /\ UNCHANGED <<timers, thead, cval, ctl, masked>>
  /\ Continue
  /\ UNCHANGED <<elr, halt, tasks, uart, world>>

NoMessage ==
  /\ At("set") /\ ~Fits(MsgWords)
  /\ Continue
  /\ UNCHANGED <<masked, elr, halt, tasks, uart, heap, clock, world>>

\* Mutant: the interrupt stays as irq_except_handler_c left it.
KeepTimerOff == tirq' = tirq

LetTimerIrq == tirq' = TRUE

\* timer_irq_handler first lets the interrupt through again, ...
TimerOn ==
  /\ At("timer")
  /\ LetTimerIrq
  /\ Goto(<<Do("ctl")>>)
  /\ UNCHANGED <<masked, elr, halt, tasks, uart, heap, timers, thead, ctl, cval, world>>

\* ... then stops the timer, masks interrupts and reads the time.
TimerStop ==
  /\ At("ctl")
  /\ ctl' = FALSE /\ masked' = TRUE
  /\ Goto(<<DoWith("timers", now)>>)
  /\ UNCHANGED <<elr, halt, tasks, uart, heap, timers, thead, tirq, cval, world>>

Due == thead # NULL /\ Expiry(thead) <= Arg

\* One turn of the loop: the callback ...
Expire ==
  /\ At("timers") /\ Due
  /\ fired' = Append(fired, thead)
  /\ Goto(<<DoWith("drop", thead), DoWith("timers", Arg)>>)
  /\ Prints(tx)
  /\ UNCHANGED <<masked, elr, halt, tasks, rxOn, txOn, fifo, out, last, heap, clock,
                 now, input, lost, echoed, shown>>

\* Mutant: the hardware keeps the expiry it had.
KeepCval == cval' = cval /\ ctl' = (thead' # NULL)

\* cntp_cval_el0 and cntp_ctl_el0 follow the head.
Reprogram ==
  /\ cval' = IF thead' # NULL THEN Expiry(thead') ELSE cval
  /\ ctl' = (thead' # NULL)

\* ... and the removal, after which interrupts are enabled inside the loop.
Drop ==
  /\ At("drop")
  /\ thead' = timers[Arg].next
  /\ Reprogram
  /\ masked' = FALSE
  /\ Continue
  /\ UNCHANGED <<elr, halt, tasks, uart, heap, timers, tirq, world>>

TimersDone ==
  /\ At("timers") /\ ~Due
  /\ Continue
  /\ UNCHANGED <<masked, elr, halt, tasks, uart, heap, clock, world>>

\* main's nop loop, and what the model does not follow further.
Idle == (stack = <<>> \/ halt # "run") /\ UNCHANGED vars

----------------------------------------------------------------------------
World    == Tick \/ CharTime
Dispatch == Irq \/ TimerOff \/ RxOff \/ Create \/ Clear \/ Eret \/ EretAstray
Drain    == RunTask \/ TasksDone \/ Pop \/ PopNull \/ Mask
Echo     == Receive \/ Transmit \/ SendMore \/ SendLast \/ SendLine \/ SendExec
            \/ Reset \/ SendDone
Alarm    == SetTimeout \/ NoMessage \/ TimerOn \/ TimerStop \/ Expire \/ Drop \/ TimersDone
Kernel   == Dispatch \/ Drain \/ Echo \/ Alarm

Next == World \/ Kernel \/ Idle

Spec == Init /\ [][Next]_vars

\* The CPU runs and takes what is pending; time goes on while a timer waits.
FairSpec == Spec /\ WF_vars(Kernel) /\ WF_vars(Tick)

----------------------------------------------------------------------------
(* Properties *)

Step == [op : Ops, n : Nat]

TypeOK ==
  /\ stack \in Seq(Seq(Step)) /\ Len(stack) <= MaxNest
  /\ masked \in BOOLEAN /\ elr \in Nat
  /\ halt \in {"run", "astray", "null", "user"}
  /\ tasks \in Seq(Jobs)
  /\ rxOn \in BOOLEAN /\ txOn \in BOOLEAN
  /\ fifo \in Seq(Chars) /\ Len(fifo) <= Fifo
  /\ out \in Seq(Chars \cup {"lf", Junk}) /\ last \in Chars \cup {"nul", Junk}
  /\ tx \in 0 .. TxFifo
  /\ heap \in 0 .. Heap
  /\ timers \in Seq([expiry : Nat, next : Nat]) /\ thead \in 0 .. Len(timers)
  /\ \A t \in DOMAIN timers : timers[t].next \in 0 .. Len(timers)
  /\ tirq \in BOOLEAN /\ ctl \in BOOLEAN /\ cval \in Nat /\ now \in Nat
  /\ input \in Seq(Chars) /\ lost \in Nat /\ Len(input) + lost <= MaxInput
  /\ echoed \in Seq(Chars \cup {Junk}) /\ shown \in Seq(Chars \cup {Junk})
  /\ fired \in Seq(1 .. Len(timers))

\* However interrupts nest, the task list is in order of priority: a waiting
\* task is never overtaken by a less urgent one.
TasksSorted == \A i, j \in DOMAIN tasks : i < j => tasks[i] <= tasks[j]

\* However interrupts nest, a handler that has come to its eret has left no
\* task behind: nothing but another interrupt would ever run it.
Drained == At("eret") => tasks = <<>>

\* The steps that are still to do, in every frame.
ToDo(f, P(_)) == \E i \in DOMAIN f : P(f[i])

WillRearmRx(s) == \/ s.op \in {"rx", "tx", "send", "set", "reset"}
                  \/ s.op = "create" /\ s.n # TIMER
RxComing == \/ \E i \in DOMAIN tasks : tasks[i] # TIMER
            \/ \E i \in DOMAIN stack : ToDo(stack[i], WillRearmRx)

\* However interrupts nest, the receive interrupt is off only while a task or a
\* frame is on its way to switch it on again, or simple_malloc has run out (no
\* task, no rearming): no order of the two read-modify-writes of AUX_MU_IER and
\* of the task list loses it.
RxNeverLost == halt = "run" /\ ~rxOn => RxComing \/ heap < TaskWords

\* Whenever main's loop runs, interrupts are enabled, the receive interrupt is
\* on and the hardware timer is set to the earliest timer, whatever commands
\* and expiries the last handlers went through (or simple_malloc has run out).
Rearmed ==
  halt = "run" /\ stack = <<>> =>
    /\ ~masked /\ ~txOn
    /\ heap >= TaskWords =>
         /\ rxOn
         /\ thead # NULL => tirq /\ ctl /\ cval = Expiry(thead)

FiredInOrder ==
  \A i, j \in DOMAIN fired :
    i < j => fired[i] # fired[j] /\ Expiry(fired[i]) <= Expiry(fired[j])

\* As long as no interrupt has been taken inside another one, a timer's callback
\* runs once, and timers run in the order they expire, whenever they were set.
TimersInOrder == elr = 0 => FiredInOrder

\* What ends the handler's work: simple_malloc has run out, a program was
\* started, or an interrupt was taken inside another one, after which no eret
\* goes back to main's loop.
Ended == halt # "run" \/ heap < TaskWords \/ elr > 0

\* Every timer that setTimeout made runs.
TimersRun ==
  \A t \in 1 .. Heap \div (MsgWords + TimerWords) : (t \in DOMAIN timers)
    ~> (t \in Range(fired) \/ Ended)

\* Every character the receive FIFO had room for is written to the transmitter.
Answered ==
  \A n \in 1 .. MaxInput : (Len(input) >= n) ~> (Len(echoed) >= n \/ Ended)

\* "Enable interrupts", and then execute_tasks: an interrupt taken there comes
\* back, and so does the handler it interrupted.
EretResumes == halt # "astray"

=============================================================================
