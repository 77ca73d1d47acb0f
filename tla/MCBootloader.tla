---------------------------- MODULE MCBootloader ----------------------------
(***************************************************************************)
(* Bytes below 4 with a carriage return (3) and a newline (2); images of   *)
(* every content up to 4 bytes over the carriage return and another byte,  *)
(* so that the size has a carriage return in its low byte (length 3) or    *)
(* none, and one that is longer than the FIFO can hold in any case.  With  *)
(* 2 characters in the transmit FIFO the texts keep the board for 2, 3 and *)
(* 1 character times; the code's keep it for 11, 12 and 7, and its receive *)
(* FIFO is 8 long: the first two overrun it, the last does not.            *)
(***************************************************************************)
EXTENDS Bootloader

MCLength == [t \in Lines |-> CASE t = "banner" -> 4 [] t = "check" -> 5 [] OTHER -> 3]
MCImages == UNION {[1 .. n -> {1, 3}] : n \in 0 .. 4} \cup {<<1, 0, 1, 0, 2, 1>>}
=============================================================================
