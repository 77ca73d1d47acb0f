------------------------------ MODULE Mailbox ------------------------------
(***************************************************************************)
(* mailbox.c: one buffer in memory, handed to the VideoCore and back.  Lab *)
(* 1 returns whether the answer is a success; the later labs wait on until *)
(* it is one.  The VideoCore is external.                                  *)
(***************************************************************************)
EXTENDS Integers, Sequences

CONSTANTS
  BoardRevision, MemBase, MemSize,  \* what the VideoCore knows
  Strays                            \* sequences of messages that may wait at the start

\* Nobody has asked yet.
ASSUME MailboxAssumption ==
  /\ {BoardRevision, MemBase, MemSize} \subseteq Nat
  /\ Strays \subseteq Seq({"other"})

VARIABLES
  mailbox,   \* words 1, 2, 5 and 6: [code, tag, v5, v6]
  written,   \* the VideoCore has our message
  mail       \* messages for the processor: "ours", with our address, or "other"

mailbox_vars == <<mailbox, written, mail>>

Codes == {"request", "response", "error"}
Tags  == {"none", "board", "memory"}

MailboxInit ==
  /\ mailbox = [code |-> "request", tag |-> "none", v5 |-> 0, v6 |-> 0]
  /\ written = FALSE /\ mail \in Strays

\* get_board_revision, before the call: word 6 is the end tag, a zero.
GetBoardRevision == mailbox' = [code |-> "request", tag |-> "board", v5 |-> 0, v6 |-> 0]

\* Mutant: the value buffer is not cleared.
KeepValues == [mailbox EXCEPT !.code = "request", !.tag = "memory"]

\* get_arm_mem, before the call.
MemoryRequest == [code |-> "request", tag |-> "memory", v5 |-> 0, v6 |-> 0]
GetArmMem == mailbox' = MemoryRequest

\* mailbox_call: wait until it is not full, and write.
Post ==
  /\ ~written /\ written' = TRUE
  /\ UNCHANGED <<mailbox, mail>>

\* The VideoCore answers every message once: with the values, with success but
\* without them, or with an error.
Answer ==
  /\ written /\ written' = FALSE
  /\ mail' = Append(mail, "ours")
  /\ \/ mailbox' = [mailbox EXCEPT !.code = "error"]
     \/ mailbox' = [mailbox EXCEPT !.code = "response"]
     \/ /\ mailbox.tag = "board"
        /\ mailbox' = [mailbox EXCEPT !.code = "response", !.v5 = BoardRevision]
     \/ /\ mailbox.tag = "memory"
        /\ mailbox' = [mailbox EXCEPT !.code = "response", !.v5 = MemBase, !.v6 = MemSize]

\* Mutant: whatever is read is taken for the answer.
AnyMail(m) == TRUE

\* r == *MBOX_READ
IsAnswer(m) == m = "ours"

Success == mailbox.code = "response"

\* Read one message; persistent: return only when it is a success.
Read(persistent, returns) ==
  /\ mail # <<>> /\ mail' = Tail(mail)
  /\ returns = (IsAnswer(Head(mail)) /\ (persistent => Success))
  /\ UNCHANGED <<mailbox, written>>
=============================================================================
