------------------------------ MODULE Console ------------------------------
(***************************************************************************)
(* What the console promises, without interrupts, tasks or buffers: every  *)
(* character that found room in the receive FIFO is written to the         *)
(* transmitter once, in the order typed.  A character is lost only when a  *)
(* whole FIFO of earlier ones still waits, and an echo is missing on the   *)
(* screen only where the transmit FIFO was full when it was written.       *)
(***************************************************************************)
EXTENDS Integers, Sequences

CONSTANTS Chars, Fifo, TxFifo

VARIABLES
  input,   \* the characters typed that found room
  lost,    \* how many did not
  echoed,  \* the characters written to the transmitter
  shown,   \* those it had room for
  tx       \* characters in the transmit FIFO

Init == input = <<>> /\ lost = 0 /\ echoed = <<>> /\ shown = <<>> /\ tx = 0

\* The characters without an answer: one may have left the FIFO.
Waiting == Len(input) - Len(echoed)

Arrive(c) ==
  \/ Waiting <= Fifo /\ input' = Append(input, c) /\ lost' = lost
  \/ Waiting >= Fifo /\ lost' = lost + 1 /\ input' = input

\* The time of one character on the line.
CharTime ==
  /\ \/ \E c \in Chars : Arrive(c)
     \/ UNCHANGED <<input, lost>>
  /\ tx' = IF tx > 0 THEN tx - 1 ELSE 0
  /\ UNCHANGED <<echoed, shown>>

Written == IF tx < TxFifo THEN tx + 1 ELSE tx

\* The next character is answered; what a command prints may follow at once.
Echo ==
  /\ Waiting > 0
  /\ LET c == input[Len(echoed) + 1]
     IN /\ echoed' = Append(echoed, c)
        /\ shown' = IF tx < TxFifo THEN Append(shown, c) ELSE shown
  /\ tx' \in Written .. TxFifo
  /\ UNCHANGED <<input, lost>>

\* Text that is not an echo: a line feed, a command's or a timer's.
Text == tx' \in tx .. TxFifo /\ UNCHANGED <<input, lost, echoed, shown>>

Next == CharTime \/ Echo \/ Text

Spec == Init /\ [][Next]_<<input, lost, echoed, shown, tx>>
=============================================================================
