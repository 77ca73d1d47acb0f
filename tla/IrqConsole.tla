----------------------------- MODULE IrqConsole -----------------------------
(***************************************************************************)
(* Irq implements Console, as long as no interrupt is taken inside another *)
(* one: after that the kernel does not get back to its main loop.          *)
(***************************************************************************)
EXTENDS Irq

Terminal == INSTANCE Console

\* Whatever commands, timers and pauses, until an interrupt is taken inside
\* another one: each character that found room is echoed once, in order, through
\* FIFO, rings, and two tasks per character, and only a full FIFO loses one.
ConsoleSpec ==
  Terminal!Init /\ [][Terminal!Next \/ elr' > 0]_<<input, lost, echoed, shown, tx>>
=============================================================================
