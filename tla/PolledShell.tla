---------------------------- MODULE PolledShell ----------------------------
(***************************************************************************)
(* The kernels of labs 1 and 2: a shell that polls the mini UART, asks the *)
(* VideoCore for the board's numbers and reboots by the watchdog.  `kernel'*)
(* says which of the two is loaded.                                        *)
(*                                                                         *)
(* The processor is faster than the line: a character time passes only     *)
(* while it polls.  In a character time at most one character arrives and  *)
(* one leaves the transmit FIFO.  Texts are known by their length.         *)
(***************************************************************************)
EXTENDS Utils, Mailbox, SequencesExt, FiniteSets

CONSTANTS
  Keys,             \* what the user types
  CR, LF,
  Help, Hello, Info, Reboot,   \* the commands, as sequences of keys
  Ls, Cat, Malloc, Dtb,        \* lab 2 only
  PromptLength, TextLength,
  RxFifo, TxFifo,   \* characters the FIFOs hold (8 each)
  MaxTyped,         \* bound: characters that arrive between two resets
  MaxResets         \* bound: reboots

ASSUME PolledAssumption ==
  {PromptLength, TextLength, RxFifo, TxFifo} \subseteq Nat \ {0}

VARIABLES
  kernel,   \* "lab1" or "lab2"
  pc,       \* where the shell is
  todo,     \* characters still to send
  then,     \* where it goes on after them
  rx, tx,   \* the receive FIFO, and the length of the transmit FIFO
  buffer,   \* the characters of the line so far
  ran,      \* ghost: the lines worked off since the reset
  typed,    \* ghost: the characters that arrived since the reset
  lost,     \* ghost: how many of them found the FIFO full
  asked,    \* what the shell asks the VideoCore: "check", "board", "memory"
  shown,    \* ghost: the last number printed, and what it is said to be
  pm,       \* the power manager: [full, running]
  resets

uart  == <<rx, tx, typed, lost>>
shell == <<pc, todo, then>>
vars  == <<kernel, shell, uart, mailbox_vars, buffer, ran, asked, shown, pm, resets>>

Idle == [full |-> FALSE, running |-> FALSE]

\* The state at power on and after a reset; uart_init empties the FIFOs.
Off == [pc |-> "off", todo |-> 0, then |-> "off", rx |-> <<>>, tx |-> 0, buffer |-> <<>>,
        ran |-> <<>>, typed |-> <<>>, lost |-> 0, asked |-> "check", shown |-> <<>>, pm |-> Idle]

Init ==
  /\ kernel \in {"lab1", "lab2"} /\ MailboxInit /\ resets = 0
  /\ pc = Off.pc /\ todo = Off.todo /\ then = Off.then
  /\ rx = Off.rx /\ tx = Off.tx /\ typed = Off.typed /\ lost = Off.lost
  /\ buffer = Off.buffer /\ ran = Off.ran /\ asked = Off.asked /\ shown = Off.shown
  /\ pm = Off.pm

----------------------------------------------------------------------------
(* uart.c *)

\* uart_send_string of n characters, then on to t.
Say(n, t) == pc' = "print" /\ todo' = n /\ then' = t

\* Mutant: the wait is left out.
NoWait == TRUE

\* *AUX_MU_LSR & 0x20
CanSend == tx < TxFifo

\* uart_send_char
Send ==
  /\ pc \in {"print", "echo"} /\ CanSend
  /\ tx' = tx + 1 /\ todo' = todo - 1
  /\ pc' = IF todo = 1 THEN then ELSE pc
  /\ UNCHANGED <<kernel, then, rx, typed, lost, mailbox_vars, buffer, ran, asked, shown, pm, resets>>

\* uart_get_char
Converted(c) == IF c = CR THEN LF ELSE c

\* A character time: the processor polls meanwhile.
Polls ==
  \/ pc \in {"print", "echo"} /\ ~CanSend
  \/ pc \in {"read", "name"} /\ rx = <<>>
  \/ pc = "post" /\ written
  \/ pc = "wait" /\ mail = <<>>

Arrive(c) ==
  /\ Len(typed) < MaxTyped
  /\ typed' = Append(typed, c)
  /\ IF Len(rx) < RxFifo THEN rx' = Append(rx, c) /\ UNCHANGED lost
                         ELSE lost' = lost + 1 /\ UNCHANGED rx

Tick ==
  /\ Polls
  /\ tx' = IF tx = 0 THEN 0 ELSE tx - 1
  /\ (\E c \in Keys : Arrive(c)) \/ UNCHANGED <<typed, rx, lost>>
  /\ UNCHANGED <<kernel, shell, mailbox_vars, buffer, ran, asked, shown, pm, resets>>

\* uart_binary_to_hex of lab 1, uart_hex of lab 2
Ten       == IF kernel = "lab1" THEN 55 ELSE 87
Number(d) == Hex(d, Ten)

----------------------------------------------------------------------------
(* main and the shell's loop *)

\* uart_init and the greeting.
PowerOn ==
  /\ pc = "off" /\ Say(TextLength, "prompt")
  /\ UNCHANGED <<kernel, uart, mailbox_vars, buffer, ran, asked, shown, pm, resets>>

Prompt ==
  /\ pc = "prompt" /\ Say(PromptLength, "read")
  /\ UNCHANGED <<kernel, uart, mailbox_vars, buffer, ran, asked, shown, pm, resets>>

\* Mutant: a newline is echoed as two characters.
EchoCrLf(c) == IF c = LF THEN 2 ELSE 1

\* uart_send_char(element)
EchoLength(c) == 1

ReadChar ==
  /\ pc \in {"read", "name"} /\ rx # <<>>
  /\ rx' = Tail(rx)
  /\ LET c == Converted(Head(rx))
     IN /\ buffer' = IF c = LF THEN buffer ELSE Append(buffer, c)
        /\ pc' = "echo" /\ todo' = EchoLength(c)
        /\ then' = IF c # LF THEN pc ELSE IF pc = "name" THEN "cat" ELSE "run"
  /\ UNCHANGED <<kernel, tx, typed, lost, mailbox_vars, ran, asked, shown, pm, resets>>

\* Mutant: the pointer is not set back to the start of the line.
KeptLine == buffer

NextLine == <<>>

\* The line is compared with each command in turn.
Run(words) ==
  /\ pc = "run" /\ \E w \in words : StringCompare(buffer, w)
  /\ ran' = Append(ran, buffer) /\ buffer' = NextLine
  /\ UNCHANGED <<kernel, uart, resets>>

\* help and hello; ls, malloc and dtb of lab 2.
Answered == {Help, Hello} \cup IF kernel = "lab2" THEN {Ls, Malloc, Dtb} ELSE {}

Text ==
  /\ Run(Answered) /\ Say(TextLength, "prompt")
  /\ UNCHANGED <<mailbox_vars, asked, shown, pm>>

\* Any other line: lab 1 says nothing, lab 2 that there is no such command.
Known == Answered \cup {Info, Reboot} \cup IF kernel = "lab2" THEN {Cat} ELSE {}
Unknown ==
  /\ pc = "run" /\ \A w \in Known : ~StringCompare(buffer, w)
  /\ ran' = Append(ran, buffer) /\ buffer' = NextLine
  /\ IF kernel = "lab1" THEN pc' = "prompt" /\ UNCHANGED <<todo, then>>
                        ELSE Say(TextLength, "prompt")
  /\ UNCHANGED <<kernel, uart, mailbox_vars, asked, shown, pm, resets>>

\* cat of lab 2 asks for the name, on a line of its own, and then prints.
CatFile ==
  /\ kernel = "lab2" /\ Run({Cat}) /\ Say(TextLength, "name")
  /\ UNCHANGED <<mailbox_vars, asked, shown, pm>>

CatPrint ==
  /\ pc = "cat" /\ Say(TextLength, "prompt")
  /\ ran' = Append(ran, buffer) /\ buffer' = NextLine
  /\ UNCHANGED <<kernel, uart, mailbox_vars, asked, shown, pm, resets>>

----------------------------------------------------------------------------
(* info *)

\* Lab 1 calls once before it asks anything: the buffer is zero or what the
\* last command has left in it.
InfoStart ==
  /\ Run({Info}) /\ pc' = "post"
  /\ IF kernel = "lab1" THEN asked' = "check" /\ UNCHANGED mailbox
                        ELSE asked' = "board" /\ GetBoardRevision
  /\ UNCHANGED <<todo, then, written, mail, shown, pm>>

MailboxPost ==
  /\ pc = "post" /\ Post /\ pc' = "wait"
  /\ UNCHANGED <<kernel, todo, then, uart, buffer, ran, asked, shown, pm, resets>>

\* Mutant: lab 1 waits for a success as well.
Always == TRUE

Persistent == kernel = "lab2"

MailboxWait ==
  /\ pc = "wait"
  /\ \E returns \in BOOLEAN :
       /\ Read(Persistent, returns)
       /\ pc' = IF returns THEN asked ELSE "wait"
  /\ UNCHANGED <<kernel, todo, then, uart, buffer, ran, asked, shown, pm, resets>>

\* The result of the call counts only here.
Checked ==
  /\ pc = "check"
  /\ IF Success THEN /\ pc' = "post" /\ asked' = "board" /\ GetBoardRevision
                     /\ UNCHANGED <<todo, then>>
                ELSE Say(TextLength, "prompt") /\ UNCHANGED <<mailbox, asked>>
  /\ UNCHANGED <<kernel, uart, written, mail, buffer, ran, shown, pm, resets>>

\* The number is in word 5.
BoardPrint ==
  /\ pc = "board" /\ Say(TextLength, "askmemory")
  /\ shown' = <<[of |-> "board", digits |-> Number(mailbox.v5)]>>
  /\ UNCHANGED <<kernel, uart, mailbox_vars, buffer, ran, asked, pm, resets>>

AskMemory ==
  /\ pc = "askmemory" /\ pc' = "post" /\ asked' = "memory" /\ GetArmMem
  /\ UNCHANGED <<kernel, todo, then, uart, written, mail, buffer, ran, shown, pm, resets>>

MemoryPrint ==
  /\ pc = "memory" /\ Say(2 * TextLength, "prompt")
  /\ shown' = <<[of |-> "base", digits |-> Number(mailbox.v5)],
                [of |-> "size", digits |-> Number(mailbox.v6)]>>
  /\ UNCHANGED <<kernel, uart, mailbox_vars, buffer, ran, asked, pm, resets>>

----------------------------------------------------------------------------
(* reboot *)

\* reset(1000)
FullReset == [full |-> TRUE, running |-> TRUE]

\* The shell goes on until the watchdog expires.
RebootCmd ==
  /\ Run({Reboot}) /\ Say(TextLength, "prompt")
  /\ pm' = FullReset
  /\ UNCHANGED <<mailbox_vars, asked, shown>>

\* The board starts again, VideoCore included.
Reset ==
  /\ pm.full /\ pm.running /\ resets < MaxResets
  /\ resets' = resets + 1
  /\ pc' = Off.pc /\ todo' = Off.todo /\ then' = Off.then
  /\ rx' = Off.rx /\ tx' = Off.tx /\ typed' = Off.typed /\ lost' = Off.lost
  /\ buffer' = Off.buffer /\ ran' = Off.ran /\ asked' = Off.asked /\ shown' = Off.shown
  /\ pm' = Off.pm
  /\ mailbox' = [code |-> "request", tag |-> "none", v5 |-> 0, v6 |-> 0]
  /\ written' = FALSE /\ mail' \in Strays
  /\ UNCHANGED kernel

VideoCore ==
  /\ Answer
  /\ UNCHANGED <<kernel, shell, uart, buffer, ran, asked, shown, pm, resets>>

----------------------------------------------------------------------------
Shell ==
  \/ PowerOn \/ Prompt \/ Send \/ ReadChar \/ Text \/ Unknown \/ CatFile \/ CatPrint
  \/ InfoStart \/ MailboxPost \/ MailboxWait \/ Checked \/ BoardPrint \/ AskMemory \/ MemoryPrint
  \/ RebootCmd

Next == Shell \/ Tick \/ VideoCore \/ Reset

Spec == Init /\ [][Next]_vars

\* The processor, the line, the VideoCore and the watchdog go on; nobody types.
FairSpec ==
  Spec /\ WF_vars(Shell) /\ WF_vars(Tick) /\ WF_vars(VideoCore) /\ WF_vars(Reset)

----------------------------------------------------------------------------
(* Properties *)

TypeOK ==
  /\ pc \in {"off", "print", "echo", "prompt", "read", "name", "run", "cat", "post", "wait",
             "check", "board", "memory", "askmemory"}
  /\ Len(rx) <= RxFifo /\ tx \in 0 .. TxFifo /\ todo \in Nat
  /\ mailbox.code \in Codes /\ mailbox.tag \in Tags /\ written \in BOOLEAN
  /\ Len(buffer) + Len(rx) <= Len(typed)

\* The complete lines of what has been typed.
Lines(s) ==
  LET ends == {i \in DOMAIN s : Converted(s[i]) = LF}
      start(e) == 1 + IF \E i \in ends : i < e
                      THEN CHOOSE i \in ends : i < e /\ \A j \in ends : j < e => j <= i ELSE 0
      line(k) == CHOOSE e \in ends : Cardinality({j \in ends : j <= e}) = k
  IN [k \in 1 .. Cardinality(ends) |-> SubSeq(s, start(line(k)), line(k) - 1)]

\* Whatever the order of typing, printing and polling: if no character found
\* the FIFO full, the lines worked off, names asked for by cat included, are the
\* lines typed, in order.
RanAsTyped == lost = 0 => IsPrefix(ran, Lines(typed))

\* A character can be lost while the shell prints or asks the VideoCore, and
\* never while it reads a line: an echo takes no longer than a character.
LostOnlyInBetween == [][ lost' > lost => pc \in {"print", "post", "wait"} ]_vars

\* When nothing is asked, no answer is under way: a call never takes the answer
\* to an earlier one for its own.
NoAnswerLeft ==
  pc \notin {"post", "wait"} =>
    ~written /\ \A i \in DOMAIN mail : mail[i] # "ours"

\* A number printed is the one asked for, or 0, digit by digit: never one that
\* an earlier question has left in the buffer, though no result is looked at.
ShownIsAnswer ==
  \A i \in DOMAIN shown :
    Atoi(shown[i].digits, 8) \in
      {0, CASE shown[i].of = "board" -> BoardRevision
            [] shown[i].of = "base"  -> MemBase
            [] shown[i].of = "size"  -> MemSize}

\* Every line is worked off and the shell reads again, or the watchdog restarts
\* it; only the wait of lab 2 for a success never ends, after an error.
ShellReads ==
  pc = "run" ~> \/ pc = "read" \/ pc = "off"
                \/ kernel = "lab2" /\ pc \in {"name", "wait"} /\ (pc = "wait" => mailbox.code = "error")
=============================================================================
