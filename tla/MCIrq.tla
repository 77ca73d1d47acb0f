------------------------------- MODULE MCIrq -------------------------------
(* Small instances of Irq: what a command may ask of the timers. *)
EXTENDS IrqConsole

\* No timer, one, and several that are not set in the order they expire.
MCCommands == {<<>>, <<2>>, <<1, 2, 1>>, <<0>>}

\* Lines without timers, and one timer.
MCNestCommands == {<<>>, <<1>>}

MCPlainCommands == {<<>>}
=============================================================================
