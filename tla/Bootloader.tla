----------------------------- MODULE Bootloader -----------------------------
(***************************************************************************)
(* Loading a kernel over the serial line: uploader.py on the host, main    *)
(* and load_img of lab2/bootloader on the board.  Neither side knows when  *)
(* the other is started.                                                   *)
(*                                                                         *)
(* The line has one speed in both directions: in a character time one      *)
(* character of the board's goes out and one may come in.  The board's     *)
(* loop runs in far less, so a character time passes only while the board  *)
(* waits: for a character, or for room in its transmit FIFO.  When the     *)
(* last character of a text is in that FIFO the board goes on, and reads   *)
(* while the text's tail is still going out.                               *)
(***************************************************************************)
EXTENDS Integers, SequencesExt

CONSTANTS
  Base,       \* bytes are numbers below Base (256)
  CR, LF,     \* 13 and 10
  SizeBytes,  \* bytes of the size (4)
  RxFifo,     \* bytes the board's receive FIFO holds (8)
  TxFifo,     \* characters its transmit FIFO holds (8)
  Length,     \* Length[t]: characters of text t, with its line end
  Images      \* shell_kernel.img may be any of these

\* The bootloader's texts, and the loaded shell's first.
Texts == {"banner", "check", "loaded"}
Lines == Texts \cup {"shell"}
Bytes == 0 .. Base - 1

ASSUME BytesAssumption ==
  /\ Base \in Nat /\ Base > 1 /\ CR \in Bytes /\ LF \in Bytes /\ LF < CR
  /\ SizeBytes \in Nat \ {0} /\ RxFifo \in Nat /\ SizeBytes <= RxFifo
  /\ TxFifo \in Nat \ {0} /\ Length \in [Lines -> Nat \ {0}]

\* What a one in byte i is worth, the first byte being byte 0.
Place[i \in 0 .. SizeBytes] == IF i = 0 THEN 1 ELSE Base * Place[i - 1]

ASSUME ImagesAssumption ==
  /\ Images \subseteq Seq(Bytes)
  /\ \A im \in Images : Len(im) < Place[SizeBytes]

VARIABLES
  image,    \* the file the uploader sends
  host,     \* where uploader.py is
  down,     \* bytes on their way to the board
  up,       \* lines the uploader has and has not read
  pi,       \* where the board is
  sending,  \* what is still to go out of the board, the FIFO's content first
  fifo,     \* the board's receive FIFO
  got,      \* size_buffer, as far as it is filled
  size,     \* what is left of size
  memory,   \* what lies at 0x80000
  lost,     \* bytes that found the FIFO full or the board off
  early     \* the uploader was started before the banner's last character
            \* had gone out

board == <<pi, sending, fifo, got, size, memory>>
vars  == <<image, host, down, up, board, lost, early>>

Init ==
  /\ image \in Images
  /\ host = "closed" /\ down = <<>> /\ up = <<>>
  /\ pi = "off" /\ sending = <<>> /\ fifo = <<>>
  /\ got = <<>> /\ size = 0 /\ memory = <<>>
  /\ lost = 0 /\ early = FALSE

----------------------------------------------------------------------------
(* uploader.py *)

\* Mutant: the most significant byte first.
BigEndian(n) == [i \in 1 .. SizeBytes |-> (n \div Place[SizeBytes - i]) % Base]

\* size.to_bytes(4, "little")
ToBytes(n) == [i \in 1 .. SizeBytes |-> (n \div Place[i - 1]) % Base]

Open ==
  /\ host = "closed"
  /\ down' = ToBytes(Len(image))
  /\ early' = ~(pi = "size" /\ sending = <<>>)
  /\ host' = "sized"
  /\ UNCHANGED <<image, up, board, lost>>

\* Mutant: the uploader does not wait for an answer.
NoWait == UNCHANGED up

\* read_line returns the first line there is, whatever it says.
ReadLine == up # <<>> /\ up' = Tail(up)

SendImage ==
  /\ host = "sized" /\ ReadLine
  /\ down' = down \o image
  /\ host' = "sent"
  /\ UNCHANGED <<image, board, lost, early>>

Finish ==
  /\ host = "sent" /\ ReadLine
  /\ host' = "done"
  /\ UNCHANGED <<image, down, board, lost, early>>

----------------------------------------------------------------------------
(* The board: texts *)

\* A text's characters; the last, which ends the line, stands for the text.
Text(t) == [i \in 1 .. Length[t] |-> IF i < Length[t] THEN "" ELSE t]

\* uart_send_string begins.
Say(t) == pi' = t /\ sending' = sending \o Text(t)

\* Reset: start.S, and uart_init, which empties both FIFOs.
PowerOn ==
  /\ pi = "off"
  /\ Say("banner")
  /\ fifo' = <<>>
  /\ UNCHANGED <<image, host, down, up, got, size, memory, lost, early>>

\* uart_send_string returns when the last character is in the FIFO.
Said(t, next) ==
  /\ pi = t /\ Len(sending) <= TxFifo
  /\ pi' = next
  /\ UNCHANGED <<image, host, down, up, sending, fifo, got, size, memory, lost, early>>

BannerOut == Said("banner", "size")
CheckOut  == Said("check", "image")
LoadedOut == Said("loaded", "kernel")

\* The shell that was loaded: uart_init empties the FIFOs, whatever is left of
\* "kernel-loaded", and main sends a line.  What a damaged image does is left
\* out: it says nothing.
KernelStarts ==
  /\ pi = "kernel" /\ memory = image
  /\ pi' = "shell" /\ sending' = Text("shell") /\ fifo' = <<>>
  /\ UNCHANGED <<image, host, down, up, got, size, memory, lost, early>>

----------------------------------------------------------------------------
(* The board: load_img *)

\* uart_get_char converts carriage return to newline.
GetChar(c) == IF c = CR THEN LF ELSE c

\* The four bytes of size_buffer as a little-endian number.
Value(s) ==
  LET v[i \in 0 .. Len(s)] == IF i = 0 THEN 0 ELSE v[i - 1] + s[i] * Place[i - 1]
  IN v[Len(s)]

\* "size-check correct" follows the last byte; nothing is checked.
GetSize ==
  /\ pi = "size" /\ fifo # <<>>
  /\ got' = Append(got, GetChar(Head(fifo)))
  /\ fifo' = Tail(fifo)
  /\ IF Len(got') = SizeBytes THEN size' = Value(got') /\ Say("check")
                              ELSE UNCHANGED <<size, pi, sending>>
  /\ UNCHANGED <<image, host, down, up, memory, lost, early>>

\* Mutant: while (--size >= 0)
OneMore == size >= 0

\* while (size--)
More == size > 0

GetByte ==
  /\ pi = "image" /\ More /\ fifo # <<>>
  /\ memory' = Append(memory, GetChar(Head(fifo)))
  /\ fifo' = Tail(fifo)
  /\ size' = size - 1
  /\ UNCHANGED <<image, host, down, up, pi, sending, got, lost, early>>

GotAll ==
  /\ pi = "image" /\ ~More
  /\ Say("loaded")
  /\ UNCHANGED <<image, host, down, up, fifo, got, size, memory, lost, early>>

----------------------------------------------------------------------------
(* The line *)

\* The loops that wait: for LSR bit 5 in uart_send_char, for bit 0 in
\* uart_get_char.  The board also waits while it is off and when it has jumped.
Waits ==
  \/ pi \in Texts /\ Len(sending) > TxFifo
  \/ pi = "size" /\ fifo = <<>>
  \/ pi = "image" /\ fifo = <<>> /\ More
  \/ pi \in {"off", "kernel", "shell"}

\* A byte reaches the board.  What comes after the jump is the shell's.
Arrive ==
  /\ down # <<>> /\ pi \notin {"kernel", "shell"} /\ down' = Tail(down)
  /\ IF Len(fifo) < RxFifo /\ pi # "off"
     THEN fifo' = Append(fifo, Head(down)) /\ UNCHANGED lost
     ELSE lost' = lost + 1 /\ UNCHANGED fifo

\* A character leaves the board; an uploader that is not there misses it.
Leave ==
  /\ sending # <<>> /\ sending' = Tail(sending)
  /\ up' = IF Head(sending) \in Lines /\ host # "closed"
           THEN Append(up, Head(sending)) ELSE up

CharTime ==
  /\ Waits
  /\ \/ Leave /\ Arrive
     \/ Leave /\ UNCHANGED <<down, fifo, lost>>
     \/ sending = <<>> /\ Arrive /\ UNCHANGED <<sending, up>>
  /\ UNCHANGED <<image, host, pi, got, size, memory, early>>

----------------------------------------------------------------------------
Uploader == SendImage \/ Finish
Board    == BannerOut \/ CheckOut \/ LoadedOut \/ GetSize \/ GetByte \/ GotAll

Next == Open \/ PowerOn \/ Uploader \/ Board \/ KernelStarts \/ CharTime

Spec == Init /\ [][Next]_vars

\* Both programs run and what is on the line arrives; nobody need start them.
FairSpec == Spec /\ WF_vars(Uploader) /\ WF_vars(Board) /\ WF_vars(CharTime)

----------------------------------------------------------------------------
(* Properties *)

TypeOK ==
  /\ image \in Images /\ host \in {"closed", "sized", "sent", "done"}
  /\ down \in Seq(Bytes) /\ up \in Seq(Lines)
  /\ pi \in Lines \cup {"off", "size", "image", "kernel"}
  /\ sending \in Seq(Lines \cup {""}) /\ fifo \in Seq(Bytes) /\ Len(fifo) <= RxFifo
  /\ got \in Seq(Bytes) /\ Len(got) <= SizeBytes
  /\ size \in Nat /\ memory \in Seq(Bytes)
  /\ lost \in Nat /\ early \in BOOLEAN

\* An uploader started while the board waits for the size, when all of the
\* banner has gone out, overruns nothing, although the image is longer than the
\* FIFO and the board sends a text before it reads it.
NothingLost == ~early => lost = 0

\* Then what the board jumps to is the image, up to the conversion of carriage
\* returns, unless one is in the size.
ImageLoaded ==
  pi = "kernel" /\ ~early /\ CR \notin Range(ToBytes(Len(image)))
    => /\ Len(memory) = Len(image)
       /\ \A i \in DOMAIN image : image[i] # CR => memory[i] = image[i]

\* An upload started in time ends, on both sides: the two lines that the
\* uploader waits for are the answers to what it sent.
\* The second may be the loaded shell's, whose uart_init empties the FIFO.
UploadEnds ==
  (host # "closed" /\ ~early) ~> (host = "done" /\ pi \in {"kernel", "shell"})

\* "kernel-loaded": what lies at 0x80000 is the kernel, after an upload that
\* was started in time.
KernelLoaded == pi = "loaded" /\ ~early => memory = image

=============================================================================
