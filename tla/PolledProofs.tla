---------------------------- MODULE PolledProofs ----------------------------
(***************************************************************************)
(* What holds of the polled shells for FIFOs and texts of any length and   *)
(* whatever the VideoCore answers: the types, that no answer is left over, *)
(* that a character is never lost while the shell reads a line, that what  *)
(* info prints is the number asked for, and that the lines worked off are  *)
(* the lines typed.                                                        *)
(***************************************************************************)
EXTENDS PolledShell, FiniteSetTheorems, SequenceTheorems, TLAPS

\* Where the shell may go on after a text or an echo.
Thens == {"off", "prompt", "read", "name", "run", "cat", "askmemory"}
Pcs   == Thens \cup {"print", "echo", "post", "wait", "check", "board", "memory"}

\* Something is left to send while it prints, one character while it echoes.
Control ==
  /\ pc \in Pcs /\ then \in Thens /\ todo \in Nat
  /\ pc = "print" => todo > 0
  /\ pc = "echo" => todo = 1
  /\ asked \in {"check", "board", "memory"}

\* An echo that must wait has left room for the one character that may arrive.
Characters ==
  /\ rx \in Seq(Keys) /\ Len(rx) <= RxFifo
  /\ tx \in 0 .. TxFifo
  /\ typed \in Seq(Keys) /\ buffer \in Seq(Keys \cup {LF}) /\ lost \in Nat
  /\ Len(buffer) + Len(rx) <= Len(typed)
  /\ pc = "echo" /\ tx = TxFifo => Len(rx) < RxFifo

\* A question or its answer is under way only in a call, and not both.
Asking ==
  /\ mailbox \in [code : Codes, tag : Tags, v5 : Int, v6 : Int]
  /\ written \in BOOLEAN /\ mail \in Seq({"ours", "other"})
  /\ \A i, j \in DOMAIN mail : mail[i] = "ours" /\ mail[j] = "ours" => i = j
  /\ written \/ pc # "wait" => \A i \in DOMAIN mail : mail[i] # "ours"
  /\ written => pc = "wait"

\* The inductive invariant.
PInv == Control /\ Characters /\ Asking

----------------------------------------------------------------------------
(* Steps *)

LEMMA StrayFacts ==
  ASSUME NEW s \in Strays
  PROVE  s \in Seq({"ours", "other"}) /\ \A i \in DOMAIN s : s[i] # "ours"
<1>1. s \in Seq({"other"})
  BY MailboxAssumption
<1> QED BY <1>1

\* Where the shell goes on.
LEMMA ControlKept ==
  ASSUME Control, [Next]_vars
  PROVE  Control'
<1>1. CASE PowerOn
  BY <1>1, PolledAssumption DEF Control, PowerOn, Thens, Pcs, Say, vars, shell, uart, mailbox_vars
<1>2. CASE Prompt
  BY <1>2, PolledAssumption DEF Control, Prompt, Thens, Pcs, Say, vars, shell, uart, mailbox_vars
<1>3. CASE Send
  BY <1>3, PolledAssumption DEF Control, Send, Thens, Pcs, Say, vars, shell, uart, mailbox_vars
<1>4. CASE ReadChar
  BY <1>4, PolledAssumption
     DEF Control, ReadChar, Thens, Pcs, Say, vars, shell, uart, mailbox_vars, EchoLength
<1>5. CASE Text
  BY <1>5, PolledAssumption DEF Control, Text, Thens, Pcs, Say, vars, shell, uart, mailbox_vars, Run
<1>6. CASE Unknown
  BY <1>6, PolledAssumption DEF Control, Unknown, Thens, Pcs, Say, vars, shell, uart, mailbox_vars
<1>7. CASE CatFile
  BY <1>7, PolledAssumption
     DEF Control, CatFile, Thens, Pcs, Say, vars, shell, uart, mailbox_vars, Run
<1>8. CASE CatPrint
  BY <1>8, PolledAssumption DEF Control, CatPrint, Thens, Pcs, Say, vars, shell, uart, mailbox_vars
<1>9. CASE InfoStart
  BY <1>9, PolledAssumption
     DEF Control, InfoStart, Thens, Pcs, Say, vars, shell, uart, mailbox_vars, Run
<1>10. CASE MailboxPost
  BY <1>10, PolledAssumption
     DEF Control, MailboxPost, Thens, Pcs, Say, vars, shell, uart, mailbox_vars
<1>11. CASE MailboxWait
  BY <1>11, PolledAssumption
     DEF Control, MailboxWait, Thens, Pcs, Say, vars, shell, uart, mailbox_vars, Read
<1>12. CASE Checked
  BY <1>12, PolledAssumption DEF Control, Checked, Thens, Pcs, Say, vars, shell, uart, mailbox_vars
<1>13. CASE BoardPrint
  BY <1>13, PolledAssumption
     DEF Control, BoardPrint, Thens, Pcs, Say, vars, shell, uart, mailbox_vars
<1>14. CASE AskMemory
  BY <1>14, PolledAssumption
     DEF Control, AskMemory, Thens, Pcs, Say, vars, shell, uart, mailbox_vars
<1>15. CASE MemoryPrint
  BY <1>15, PolledAssumption
     DEF Control, MemoryPrint, Thens, Pcs, Say, vars, shell, uart, mailbox_vars
<1>16. CASE RebootCmd
  BY <1>16, PolledAssumption
     DEF Control, RebootCmd, Thens, Pcs, Say, vars, shell, uart, mailbox_vars, Run
<1>17. CASE Tick
  BY <1>17, PolledAssumption DEF Control, Tick, Thens, Pcs, Say, vars, shell, uart, mailbox_vars
<1>18. CASE VideoCore
  BY <1>18, PolledAssumption
     DEF Control, VideoCore, Thens, Pcs, Say, vars, shell, uart, mailbox_vars
<1>19. CASE Reset
  BY <1>19, PolledAssumption
     DEF Control, Reset, Thens, Pcs, Say, vars, shell, uart, mailbox_vars, Off, Idle
<1>20. CASE UNCHANGED vars
  BY <1>20 DEF Control, vars, shell, uart, mailbox_vars
<1> QED BY <1>1, <1>2, <1>3, <1>4, <1>5, <1>6, <1>7, <1>8, <1>9, <1>10, <1>11, <1>12, <1>13, <1>14, <1>15, <1>16, <1>17, <1>18, <1>19, <1>20 DEF Next, Shell

\* What arrives, is read and is sent.
LEMMA CharactersKept ==
  ASSUME Control, Characters, [Next]_vars
  PROVE  Characters'
<1>1. CASE PowerOn
  BY <1>1, PolledAssumption DEF Characters, PowerOn, Say, vars, shell, uart, mailbox_vars
<1>2. CASE Prompt
  BY <1>2, PolledAssumption DEF Characters, Prompt, Say, vars, shell, uart, mailbox_vars
<1>3. CASE Send
  BY <1>3, PolledAssumption
     DEF Characters, Send, Say, vars, shell, uart, mailbox_vars, CanSend, Control, Thens, Pcs
<1>4. CASE ReadChar
  BY <1>4, PolledAssumption
     DEF Characters, ReadChar, Say, vars, shell, uart, mailbox_vars, EchoLength, Converted,
         Control, Thens, Pcs
<1>5. CASE Text
  BY <1>5, PolledAssumption
     DEF Characters, Text, Say, vars, shell, uart, mailbox_vars, Run, NextLine
<1>6. CASE Unknown
  BY <1>6, PolledAssumption DEF Characters, Unknown, Say, vars, shell, uart, mailbox_vars, NextLine
<1>7. CASE CatFile
  BY <1>7, PolledAssumption
     DEF Characters, CatFile, Say, vars, shell, uart, mailbox_vars, Run, NextLine
<1>8. CASE CatPrint
  BY <1>8, PolledAssumption DEF Characters, CatPrint, Say, vars, shell, uart, mailbox_vars, NextLine
<1>9. CASE InfoStart
  BY <1>9, PolledAssumption
     DEF Characters, InfoStart, Say, vars, shell, uart, mailbox_vars, Run, NextLine
<1>10. CASE MailboxPost
  BY <1>10, PolledAssumption DEF Characters, MailboxPost, Say, vars, shell, uart, mailbox_vars, Post
<1>11. CASE MailboxWait
  BY <1>11, PolledAssumption
     DEF Characters, MailboxWait, Say, vars, shell, uart, mailbox_vars, Read, Control
<1>12. CASE Checked
  BY <1>12, PolledAssumption DEF Characters, Checked, Say, vars, shell, uart, mailbox_vars
<1>13. CASE BoardPrint
  BY <1>13, PolledAssumption DEF Characters, BoardPrint, Say, vars, shell, uart, mailbox_vars
<1>14. CASE AskMemory
  BY <1>14, PolledAssumption DEF Characters, AskMemory, Say, vars, shell, uart, mailbox_vars
<1>15. CASE MemoryPrint
  BY <1>15, PolledAssumption DEF Characters, MemoryPrint, Say, vars, shell, uart, mailbox_vars
<1>16. CASE RebootCmd
  BY <1>16, PolledAssumption
     DEF Characters, RebootCmd, Say, vars, shell, uart, mailbox_vars, Run, NextLine
<1>17. CASE Tick
  <2>1. /\ rx' \in Seq(Keys) /\ typed' \in Seq(Keys) /\ lost' \in Nat
        /\ Len(rx') <= RxFifo /\ Len(buffer') + Len(rx') <= Len(typed')
    <3>1. CASE \E c \in Keys : Arrive(c)
      <4>1. PICK c \in Keys : Arrive(c)
        BY <3>1
      <4>2. /\ typed' \in Seq(Keys) /\ Len(typed') = Len(typed) + 1
            /\ buffer' = buffer /\ Len(buffer) \in Nat
        BY <1>17, <4>1 DEF Tick, Arrive, Characters
      <4>3. CASE Len(rx) < RxFifo
        <5>1. rx' = Append(rx, c) /\ lost' = lost
          BY <4>1, <4>3 DEF Arrive
        <5>2. rx' \in Seq(Keys) /\ Len(rx') = Len(rx) + 1
          BY <5>1 DEF Characters
        <5>3. /\ Len(rx) \in Nat /\ Len(typed) \in Nat /\ Len(rx) <= RxFifo
              /\ Len(buffer) + Len(rx) <= Len(typed) /\ RxFifo \in Nat /\ lost \in Nat
          BY PolledAssumption DEF Characters
        <5> QED BY <4>2, <4>3, <5>1, <5>2, <5>3
      <4>4. CASE ~(Len(rx) < RxFifo)
        BY <4>1, <4>2, <4>4, PolledAssumption DEF Arrive, Characters
      <4> QED BY <4>3, <4>4
    <3>2. CASE UNCHANGED <<typed, rx, lost>>
      BY <1>17, <3>2 DEF Tick, Characters
    <3> QED BY <1>17, <3>1, <3>2 DEF Tick
  <2>2. tx' \in 0 .. TxFifo /\ tx' # TxFifo
    BY <1>17, PolledAssumption DEF Tick, Characters, Polls, CanSend
  <2>3. buffer' = buffer
    BY <1>17 DEF Tick
  <2> QED BY <2>1, <2>2, <2>3 DEF Characters
<1>18. CASE VideoCore
  BY <1>18, PolledAssumption DEF Characters, VideoCore, Say, vars, shell, uart, mailbox_vars, Answer
<1>19. CASE Reset
  BY <1>19, PolledAssumption DEF Characters, Reset, Say, vars, shell, uart, mailbox_vars, Off, Idle
<1>20. CASE UNCHANGED vars
  BY <1>20 DEF Characters, vars, shell, uart, mailbox_vars
<1> QED BY <1>1, <1>2, <1>3, <1>4, <1>5, <1>6, <1>7, <1>8, <1>9, <1>10, <1>11, <1>12, <1>13, <1>14, <1>15, <1>16, <1>17, <1>18, <1>19, <1>20 DEF Next, Shell

\* What is asked and answered.
LEMMA AskingKept ==
  ASSUME Control, Asking, [Next]_vars
  PROVE  Asking'
<1>1. CASE PowerOn
  BY <1>1, PolledAssumption, MailboxAssumption
     DEF Asking, PowerOn, Say, vars, shell, uart, mailbox_vars
<1>2. CASE Prompt
  BY <1>2, PolledAssumption, MailboxAssumption
     DEF Asking, Prompt, Say, vars, shell, uart, mailbox_vars
<1>3. CASE Send
  BY <1>3, PolledAssumption, MailboxAssumption
     DEF Asking, Send, Say, vars, shell, uart, mailbox_vars, Control, Thens, Pcs
<1>4. CASE ReadChar
  BY <1>4, PolledAssumption, MailboxAssumption
     DEF Asking, ReadChar, Say, vars, shell, uart, mailbox_vars, Control, Thens, Pcs
<1>5. CASE Text
  BY <1>5, PolledAssumption, MailboxAssumption
     DEF Asking, Text, Say, vars, shell, uart, mailbox_vars, Run
<1>6. CASE Unknown
  BY <1>6, PolledAssumption, MailboxAssumption
     DEF Asking, Unknown, Say, vars, shell, uart, mailbox_vars
<1>7. CASE CatFile
  BY <1>7, PolledAssumption, MailboxAssumption
     DEF Asking, CatFile, Say, vars, shell, uart, mailbox_vars, Run
<1>8. CASE CatPrint
  BY <1>8, PolledAssumption, MailboxAssumption
     DEF Asking, CatPrint, Say, vars, shell, uart, mailbox_vars
<1>9. CASE InfoStart
  BY <1>9, PolledAssumption, MailboxAssumption
     DEF Asking, InfoStart, Say, vars, shell, uart, mailbox_vars, Run, GetBoardRevision, Codes,
         Tags
<1>10. CASE MailboxPost
  BY <1>10, PolledAssumption, MailboxAssumption
     DEF Asking, MailboxPost, Say, vars, shell, uart, mailbox_vars, Post
<1>11. CASE MailboxWait
  <2>1. PICK returns \in BOOLEAN :
          Read(Persistent, returns) /\ pc' = IF returns THEN asked ELSE "wait"
    BY <1>11 DEF MailboxWait
  <2>2. /\ mail # <<>> /\ mail' = Tail(mail) /\ UNCHANGED <<mailbox, written>>
        /\ returns => Head(mail) = "ours"
    BY <2>1 DEF Read, IsAnswer
  <2>3. /\ mail' \in Seq({"ours", "other"}) /\ 1 \in DOMAIN mail /\ Head(mail) = mail[1]
        /\ \A i \in DOMAIN mail' : i + 1 \in DOMAIN mail /\ mail'[i] = mail[i + 1] /\ i + 1 # 1
    BY <2>2 DEF Asking
  <2>4. CASE returns
    <3>1. mail[1] = "ours"
      BY <2>2, <2>3, <2>4
    <3>2. \A i \in DOMAIN mail' : mail'[i] # "ours"
      BY <2>3, <3>1 DEF Asking
    <3>3. ~written
      BY <2>3, <3>1 DEF Asking
    <3> QED BY <2>2, <2>3, <3>2, <3>3 DEF Asking
  <2>5. CASE ~returns
    <3>1. pc' = "wait" /\ pc = "wait"
      BY <1>11, <2>1, <2>5 DEF MailboxWait
    <3>2. \A i, j \in DOMAIN mail' : mail'[i] = "ours" /\ mail'[j] = "ours" => i = j
      <4>1. TAKE i, j \in DOMAIN mail'
      <4>2. i \in Nat /\ j \in Nat
        BY <2>3
      <4> QED BY <2>3, <4>2 DEF Asking
    <3>3. written => \A i \in DOMAIN mail' : mail'[i] # "ours"
      BY <2>3 DEF Asking
    <3> QED BY <2>2, <2>3, <3>1, <3>2, <3>3 DEF Asking
  <2> QED BY <2>4, <2>5
<1>12. CASE Checked
  BY <1>12, PolledAssumption, MailboxAssumption
     DEF Asking, Checked, Say, vars, shell, uart, mailbox_vars, GetBoardRevision, Codes, Tags,
         Success
<1>13. CASE BoardPrint
  BY <1>13, PolledAssumption, MailboxAssumption
     DEF Asking, BoardPrint, Say, vars, shell, uart, mailbox_vars
<1>14. CASE AskMemory
  BY <1>14, PolledAssumption, MailboxAssumption
     DEF Asking, AskMemory, Say, vars, shell, uart, mailbox_vars, GetArmMem, MemoryRequest,
         Codes, Tags
<1>15. CASE MemoryPrint
  BY <1>15, PolledAssumption, MailboxAssumption
     DEF Asking, MemoryPrint, Say, vars, shell, uart, mailbox_vars
<1>16. CASE RebootCmd
  BY <1>16, PolledAssumption, MailboxAssumption
     DEF Asking, RebootCmd, Say, vars, shell, uart, mailbox_vars, Run
<1>17. CASE Tick
  BY <1>17, PolledAssumption, MailboxAssumption
     DEF Asking, Tick, Say, vars, shell, uart, mailbox_vars
<1>18. CASE VideoCore
  <2>1. /\ written /\ written' = FALSE /\ mail' = Append(mail, "ours") /\ pc' = pc
        /\ pc = "wait"
    BY <1>18 DEF VideoCore, Answer, shell, Asking
  <2>2. mailbox' \in [code : Codes, tag : Tags, v5 : Int, v6 : Int]
    <3> DEFINE M == [code : Codes, tag : Tags, v5 : Int, v6 : Int]
    <3>1. mailbox \in M /\ {"error", "response"} \subseteq Codes
      BY DEF Asking, Codes
    <3>6. BoardRevision \in Int /\ MemBase \in Int /\ MemSize \in Int
      BY MailboxAssumption
    <3>2. CASE mailbox' = [mailbox EXCEPT !.code = "error"]
      BY <3>1, <3>2
    <3>3. CASE mailbox' = [mailbox EXCEPT !.code = "response"]
      BY <3>1, <3>3
    <3>4. CASE mailbox' = [mailbox EXCEPT !.code = "response", !.v5 = BoardRevision]
      BY <3>1, <3>4, <3>6
    <3>5. CASE mailbox' = [mailbox EXCEPT !.code = "response", !.v5 = MemBase, !.v6 = MemSize]
      BY <3>1, <3>5, <3>6
    <3> QED BY <1>18, <3>2, <3>3, <3>4, <3>5 DEF VideoCore, Answer
  <2>3. \A i \in DOMAIN mail : mail[i] # "ours"
    BY <2>1 DEF Asking
  <2>4. /\ mail' \in Seq({"ours", "other"}) /\ DOMAIN mail' = 1 .. Len(mail) + 1
        /\ \A i \in 1 .. Len(mail) : mail'[i] = mail[i]
    BY <2>1 DEF Asking
  <2>5. \A i \in DOMAIN mail' : mail'[i] = "ours" => i = Len(mail) + 1
    <3>1. Len(mail) \in Nat /\ DOMAIN mail = 1 .. Len(mail)
      BY DEF Asking
    <3> QED BY <2>3, <2>4, <3>1
  <2> QED BY <2>1, <2>2, <2>4, <2>5 DEF Asking
<1>19. CASE Reset
  <2>1. mail' \in Strays /\ written' = FALSE
    BY <1>19 DEF Reset
  <2>2. mailbox' \in [code : Codes, tag : Tags, v5 : Int, v6 : Int]
    BY <1>19 DEF Reset, Codes, Tags
  <2> QED BY <2>1, <2>2, StrayFacts DEF Asking
<1>20. CASE UNCHANGED vars
  BY <1>20 DEF Asking, vars, shell, uart, mailbox_vars
<1> QED BY <1>1, <1>2, <1>3, <1>4, <1>5, <1>6, <1>7, <1>8, <1>9, <1>10, <1>11, <1>12, <1>13, <1>14, <1>15, <1>16, <1>17, <1>18, <1>19, <1>20 DEF Next, Shell

LEMMA Inductive == Spec => []PInv
<1>1. Init => PInv
  <2> SUFFICES ASSUME Init PROVE PInv
    OBVIOUS
  <2>1. Control
    BY DEF Init, Off, Control, Thens, Pcs
  <2>2. Characters
    BY PolledAssumption DEF Init, Off, Characters
  <2>3. Asking
    <3>1. mail \in Seq({"ours", "other"}) /\ \A i \in DOMAIN mail : mail[i] # "ours"
      BY StrayFacts DEF Init, MailboxInit
    <3>2. mailbox \in [code : Codes, tag : Tags, v5 : Int, v6 : Int]
      BY DEF Init, MailboxInit, Codes, Tags
    <3> QED BY <3>1, <3>2 DEF Init, MailboxInit, Asking
  <2> QED BY <2>1, <2>2, <2>3 DEF PInv
<1>2. PInv /\ [Next]_vars => PInv'
  BY ControlKept, CharactersKept, AskingKept DEF PInv
<1> QED BY <1>1, <1>2, PTL DEF Spec

----------------------------------------------------------------------------
(* Theorems *)

\* The shell, its FIFOs and the mailbox keep their types, for FIFOs and texts of
\* any length: nothing is written to a full FIFO, and the line in the buffer is
\* never longer than what has been typed.
THEOREM TypeCorrect == Spec => []TypeOK
<1>1. PInv => TypeOK
  BY DEF PInv, Control, Characters, Asking, TypeOK, Thens, Pcs
<1> QED BY <1>1, Inductive, PTL

\* When nothing is asked no answer is under way, whatever the VideoCore answers
\* and however often the board restarts.
THEOREM NoneLeft == Spec => []NoAnswerLeft
<1>1. PInv => NoAnswerLeft
  BY DEF PInv, Asking, NoAnswerLeft
<1> QED BY <1>1, Inductive, PTL

\* With FIFOs of any length, a character that arrives while the shell reads a
\* line or echoes one always finds room.
THEOREM LostInBetween == Spec => LostOnlyInBetween
<1>1. ASSUME PInv, [Next]_vars, lost' > lost
      PROVE  pc \in {"print", "post", "wait"}
  <2>1. Tick
    BY <1>1
       DEF PInv, Characters, Next, Shell, PowerOn, Prompt, Send, ReadChar, Text, Unknown, CatFile,
           CatPrint, InfoStart, MailboxPost, MailboxWait, Checked, BoardPrint, AskMemory,
           MemoryPrint, RebootCmd, VideoCore, Reset, Off, Run, uart, vars
  <2> QED BY <1>1, <2>1, PolledAssumption
          DEF Tick, Polls, Arrive, PInv, Control, Characters, CanSend
<1>2. PInv /\ [Next]_vars => [lost' > lost => pc \in {"print", "post", "wait"}]_vars
  BY <1>1
<1> QED BY <1>2, Inductive, PTL DEF Spec, LostOnlyInBetween

----------------------------------------------------------------------------
(* The numbers that info prints *)

\* What a one in digit i of eight is worth.
Power(i) == 16 ^ (8 - i)

\* A word has 32 bits.
Words == 0 .. 16 * Power(1) - 1

LEMMA Powers ==
  /\ \A i \in 2 .. 8 : Power(i - 1) = 16 * Power(i)
  /\ \A i \in 1 .. 8 : Power(i) \in Nat /\ Power(i) > 0
  /\ Power(8) = 1
<1>1. /\ Power(1) = 16 ^ 7 /\ Power(2) = 16 ^ 6 /\ Power(3) = 16 ^ 5 /\ Power(4) = 16 ^ 4
      /\ Power(5) = 16 ^ 3 /\ Power(6) = 16 ^ 2 /\ Power(7) = 16 ^ 1 /\ Power(8) = 16 ^ 0
  BY SMT DEF Power
<1>2. /\ 16 ^ 7 = 16 * 16 ^ 6 /\ 16 ^ 6 = 16 * 16 ^ 5 /\ 16 ^ 5 = 16 * 16 ^ 4
      /\ 16 ^ 4 = 16 * 16 ^ 3 /\ 16 ^ 3 = 16 * 16 ^ 2 /\ 16 ^ 2 = 16 * 16 ^ 1
      /\ 16 ^ 1 = 16 * 16 ^ 0 /\ 16 ^ 0 = 1
  BY SMT
<1>3. /\ Power(1) = 16 * Power(2) /\ Power(2) = 16 * Power(3) /\ Power(3) = 16 * Power(4)
      /\ Power(4) = 16 * Power(5) /\ Power(5) = 16 * Power(6) /\ Power(6) = 16 * Power(7)
      /\ Power(7) = 16 * Power(8) /\ Power(8) = 1
  BY <1>1, <1>2
<1>4. ASSUME NEW i \in 2 .. 8 PROVE Power(i - 1) = 16 * Power(i)
  <2>1. i = 2 \/ i = 3 \/ i = 4 \/ i = 5 \/ i = 6 \/ i = 7 \/ i = 8
    OBVIOUS
  <2>2. 2 - 1 = 1 /\ 3 - 1 = 2 /\ 4 - 1 = 3 /\ 5 - 1 = 4 /\ 6 - 1 = 5 /\ 7 - 1 = 6 /\ 8 - 1 = 7
    OBVIOUS
  <2> QED BY <1>3, <2>1, <2>2
<1>5. ASSUME NEW p \in Nat, p > 0 PROVE 16 * p \in Nat /\ 16 * p > 0
  BY <1>5
<1>6. /\ Power(7) \in Nat /\ Power(7) > 0 /\ Power(8) \in Nat /\ Power(8) > 0
  BY <1>3
<1>7. /\ Power(5) \in Nat /\ Power(5) > 0 /\ Power(6) \in Nat /\ Power(6) > 0
  BY <1>3, <1>5, <1>6
<1>8. /\ Power(3) \in Nat /\ Power(3) > 0 /\ Power(4) \in Nat /\ Power(4) > 0
  BY <1>3, <1>5, <1>7
<1>9. /\ Power(1) \in Nat /\ Power(1) > 0 /\ Power(2) \in Nat /\ Power(2) > 0
  BY <1>3, <1>5, <1>8
<1>10. ASSUME NEW i \in 1 .. 8 PROVE Power(i) \in Nat /\ Power(i) > 0
  <2>1. i = 1 \/ i = 2 \/ i = 3 \/ i = 4 \/ i = 5 \/ i = 6 \/ i = 7 \/ i = 8
    OBVIOUS
  <2> QED BY <1>6, <1>7, <1>8, <1>9, <2>1
<1> QED BY <1>3, <1>4, <1>10

LEMMA Division ==
  ASSUME NEW n \in Nat, NEW d \in Nat, d > 0
  PROVE  /\ n \div d \in Nat /\ n % d \in Nat /\ n % d < d
         /\ n = (d * (n \div d)) + (n % d)
  BY SMT

\* There is one quotient.
LEMMA Quotient ==
  ASSUME NEW n \in Nat, NEW d \in Nat, d > 0, NEW m \in Nat, NEW e \in Nat, e < d,
         n = (d * m) + e
  PROVE  n \div d = m
<1> DEFINE x == n \div d
           y == n % d
<1>1. x \in Nat /\ y \in Nat /\ y < d /\ n = (d * x) + y
  BY Division
<1> HIDE DEF x, y
<1>2. d * x \in Nat /\ d * m \in Nat
  BY <1>1
<1>3. ASSUME x < m PROVE FALSE
  <2>1. d * (x + 1) <= d * m /\ d * (x + 1) = (d * x) + d
    <3>1. x + 1 <= m
      BY <1>1, <1>3
    <3> QED BY <3>1, <1>1
  <2> QED BY <2>1, <1>1, <1>2
<1>4. ASSUME m < x PROVE FALSE
  <2>1. d * (m + 1) <= d * x /\ d * (m + 1) = (d * m) + d
    <3>1. m + 1 <= x
      BY <1>1, <1>4
    <3> QED BY <3>1, <1>1
  <2> QED BY <2>1, <1>1, <1>2
<1> QED BY <1>1, <1>3, <1>4 DEF x

\* The digits of d before and after the one of the value p.
LEMMA DigitStep ==
  ASSUME NEW d \in Nat, NEW p \in Nat, p > 0
  PROVE  d \div p = ((d \div (16 * p)) * 16) + ((d \div p) % 16)
<1> DEFINE a == d \div p
           r == d % p
           m == a \div 16
           s == a % 16
<1>1. a \in Nat /\ r \in Nat /\ r < p /\ d = (p * a) + r
  BY Division
<1> HIDE DEF a, r
<1>2. m \in Nat /\ s \in 0 .. 15 /\ a = (16 * m) + s
  BY <1>1
<1> HIDE DEF m, s
<1> DEFINE e == (p * s) + r
           q == 16 * p
<1>3. e \in Nat /\ e < q /\ q \in Nat /\ q > 0
  <2>1. p * s <= p * 15 /\ p * s \in Nat
    BY <1>2
  <2> QED BY <2>1, <1>1
<1>4. d = (q * m) + e
  <2>1. p * a = (p * (16 * m)) + (p * s)
    BY <1>2
  <2>2. p * (16 * m) = q * m
    BY <1>2
  <2> QED BY <2>1, <2>2, <1>1, <1>2
<1> HIDE DEF e, q
<1>5. d \div q = m
  BY <1>3, <1>4, <1>2, Quotient
<1> QED BY <1>2, <1>5 DEF q, a, s

LEMMA DigitOf ==
  ASSUME NEW n \in 0 .. 15, NEW ten \in {55, 87}
  PROVE  Digit(n + IF n > 9 THEN ten ELSE 48) = n
  BY DEF Digit

\* utils_atoi reads what uart_hex and uart_binary_to_hex print of a word.
LEMMA AtoiOfHex ==
  ASSUME NEW d \in Words, NEW ten \in {55, 87}
  PROVE  Atoi(Hex(d, ten), 8) = d
<1> DEFINE s == Hex(d, ten)
           w == [i \in 0 .. 8 |-> IF i = 0 THEN 0 ELSE d \div Power(i)]
           F(num) == [i \in 0 .. 8 |-> IF i = 0 THEN 0 ELSE num[i - 1] * 16 + Digit(s[i])]
           num == CHOOSE g : g = F(g)
<1>0. d \in Nat /\ d < 16 * Power(1) /\ Power(1) \in Nat /\ Power(1) > 0
  BY Powers DEF Words
<1>1. ASSUME NEW i \in 1 .. 8
      PROVE  Digit(s[i]) = (d \div Power(i)) % 16
  <2> DEFINE n == (d \div Power(i)) % 16
  <2>1. s[i] = n + IF n > 9 THEN ten ELSE 48
    BY DEF Hex, Power
  <2>2. n \in 0 .. 15
    <3>1. d \div Power(i) \in Nat
      BY <1>0, Powers, Division
    <3> QED BY <3>1
  <2> HIDE DEF n, s
  <2>3. Digit(s[i]) = n
    BY <2>1, <2>2, DigitOf
  <2> QED BY <2>3 DEF n
<1> HIDE DEF s
<1>2. ASSUME NEW i \in 1 .. 8
      PROVE  w[i] = w[i - 1] * 16 + Digit(s[i])
  <2>1. Power(i) \in Nat /\ Power(i) > 0
    BY Powers
  <2>2. CASE i = 1
    <3> DEFINE q == d \div Power(1)
    <3>1. q \in Nat /\ q < 16
      <4>1. q \in Nat /\ d % Power(1) \in Nat /\ d = (Power(1) * q) + (d % Power(1))
        BY <1>0, Division
      <4>2. ASSUME q >= 16 PROVE FALSE
        <5> DEFINE p == Power(1)
        <5>1. q \in Nat /\ p \in Nat /\ p > 0 /\ d < 16 * p /\ d = (p * q) + (d % p) /\ d % p \in Nat
          BY <4>1, <1>0
        <5> HIDE DEF p, q
        <5>2. p * q >= p * 16
          BY <4>1, <4>2, <5>1
        <5> QED BY <5>1, <5>2, <1>0
      <4> QED BY <4>1, <4>2
    <3>2. w[1] = q /\ w[0] = 0 /\ Digit(s[1]) = q % 16
      BY <1>1
    <3> HIDE DEF q, w
    <3>3. q % 16 = q
      BY <3>1
    <3>4. w[1] = 0 * 16 + Digit(s[1])
      BY <3>1, <3>2, <3>3
    <3> QED BY <2>2, <3>2, <3>4
  <2>3. CASE i # 1
    <3>1. i - 1 \in 1 .. 8 /\ i \in 2 .. 8 /\ Power(i - 1) = 16 * Power(i)
      BY <2>3, Powers
    <3>2. w[i] = d \div Power(i) /\ w[i - 1] = d \div (16 * Power(i))
      BY <3>1
    <3>3. Digit(s[i]) = (d \div Power(i)) % 16
      BY <1>1
    <3>4. d \div Power(i) = ((d \div (16 * Power(i))) * 16) + ((d \div Power(i)) % 16)
      BY <1>0, <2>1, DigitStep
    <3> QED BY <3>2, <3>3, <3>4
  <2> QED BY <2>2, <2>3
<1>3. w = F(w)
  <2>1. ASSUME NEW i \in 0 .. 8 PROVE w[i] = F(w)[i]
    <3>1. CASE i = 0
      BY <3>1
    <3>2. CASE i # 0
      <4>1. i \in 1 .. 8
        BY <3>2
      <4>2. w[i] = w[i - 1] * 16 + Digit(s[i])
        BY <4>1, <1>2
      <4> HIDE DEF w
      <4> QED BY <4>2, <3>2
    <3> QED BY <3>1, <3>2
  <2> QED BY <2>1
<1>4. num = F(num)
  <2> HIDE DEF F, w
  <2> QED BY <1>3
<1>5. Atoi(s, 8) = num[8]
  BY DEF Atoi
<1> HIDE DEF num
<1>6. num[0] = 0 /\ \A i \in 1 .. 8 : num[i] = num[i - 1] * 16 + Digit(s[i])
  <2>1. num = [i \in 0 .. 8 |-> IF i = 0 THEN 0 ELSE num[i - 1] * 16 + Digit(s[i])]
    BY <1>4
  <2>2. \A i \in 0 .. 8 : num[i] = IF i = 0 THEN 0 ELSE num[i - 1] * 16 + Digit(s[i])
    BY <2>1
  <2> QED BY <2>2
<1>7. w[0] = 0 /\ w[8] = d
  BY Powers, <1>0
<1> HIDE DEF w, F
<1>8. ASSUME NEW i \in 1 .. 8, num[i - 1] = w[i - 1]
      PROVE  num[i] = w[i]
  BY <1>2, <1>6, <1>8
<1>9. num[8] = w[8]
  <2>1. num[1] = w[1]
    BY <1>8, <1>6, <1>7
  <2>2. num[2] = w[2]
    BY <1>8, <2>1
  <2>3. num[3] = w[3]
    BY <1>8, <2>2
  <2>4. num[4] = w[4]
    BY <1>8, <2>3
  <2>5. num[5] = w[5]
    BY <1>8, <2>4
  <2>6. num[6] = w[6]
    BY <1>8, <2>5
  <2>7. num[7] = w[7]
    BY <1>8, <2>6
  <2> QED BY <1>8, <2>7
<1> QED BY <1>5, <1>7, <1>9 DEF s

\* What the words of the mailbox are, by what was asked last.
Values ==
  /\ kernel \in {"lab1", "lab2"}
  /\ mailbox.v5 \in {0, CASE mailbox.tag = "board"  -> BoardRevision
                          [] mailbox.tag = "memory" -> MemBase
                          [] OTHER -> 0}
  /\ mailbox.v6 \in {0, IF mailbox.tag = "memory" THEN MemSize ELSE 0}
  /\ pc \in {"post", "wait"} /\ asked # "check" => mailbox.tag = asked
  /\ pc \in {"board", "memory"} => mailbox.tag = pc

Shows == Values /\ ShownIsAnswer

\* What is neither a question nor an answer leaves Shows alone.
LEMMA ShowsStays ==
  ASSUME Shows, UNCHANGED <<kernel, mailbox, asked, shown>>,
         pc' \in {"post", "wait"} /\ asked # "check" => pc \in {"post", "wait"},
         pc' \in {"board", "memory"} => mailbox.tag = pc'
  PROVE  Shows'
BY DEF Shows, Values, ShownIsAnswer

LEMMA WordsShown ==
  ASSUME kernel \in {"lab1", "lab2"}, NEW d \in Words
  PROVE  Atoi(Number(d), 8) = d
<1>1. Ten \in {55, 87}
  BY DEF Ten
<1> QED BY <1>1, AtoiOfHex DEF Number

LEMMA ShowsKept ==
  ASSUME {BoardRevision, MemBase, MemSize} \subseteq Words,
         PInv, Shows, [Next]_vars
  PROVE  Shows'
<1>0. 0 \in Words /\ BoardRevision \in Words /\ MemBase \in Words /\ MemSize \in Words
  BY Powers DEF Words
<1>1. CASE PowerOn \/ Prompt
  BY <1>1, ShowsStays DEF PowerOn, Prompt, Say, mailbox_vars
<1>2. CASE Send
  BY <1>2, ShowsStays DEF Send, mailbox_vars, PInv, Control, Thens
<1>3. CASE ReadChar
  BY <1>3, ShowsStays DEF ReadChar, mailbox_vars
<1>4. CASE Text \/ CatFile \/ RebootCmd
  BY <1>4, ShowsStays DEF Text, CatFile, RebootCmd, Run, Say, mailbox_vars
<1>5. CASE Unknown \/ CatPrint
  BY <1>5, ShowsStays DEF Unknown, CatPrint, Say, mailbox_vars
<1>6. CASE InfoStart
  <2>1. pc' = "post" /\ UNCHANGED <<kernel, shown>>
    BY <1>6 DEF InfoStart, Run
  <2>2. CASE kernel = "lab1"
    <3>1. asked' = "check" /\ mailbox' = mailbox
      BY <1>6, <2>2 DEF InfoStart
    <3>2. Values'
      BY <2>1, <3>1 DEF Shows, Values
    <3> QED BY <2>1, <3>2 DEF Shows, ShownIsAnswer
  <2>3. CASE kernel # "lab1"
    <3>1. /\ asked' = "board"
          /\ mailbox' = [code |-> "request", tag |-> "board", v5 |-> 0, v6 |-> 0]
      BY <1>6, <2>3 DEF InfoStart, GetBoardRevision
    <3>2. Values'
      BY <2>1, <3>1 DEF Shows, Values
    <3> QED BY <2>1, <3>2 DEF Shows, ShownIsAnswer
  <2> QED BY <2>2, <2>3
<1>7. CASE MailboxPost
  BY <1>7, ShowsStays DEF MailboxPost, Post
<1>8. CASE MailboxWait
  <2>1. /\ pc = "wait" /\ pc' \in {"wait", asked}
        /\ UNCHANGED <<kernel, mailbox, asked, shown>>
    BY <1>8 DEF MailboxWait, Read
  <2>2. asked \in {"check", "board", "memory"}
    BY DEF PInv, Control
  <2>3. asked # "check" => mailbox.tag = asked
    BY <2>1 DEF Shows, Values
  <2> QED BY <2>1, <2>2, <2>3, ShowsStays
<1>9. CASE Checked
  <2>1. CASE Success
    <3>1. /\ pc' = "post" /\ asked' = "board" /\ UNCHANGED <<kernel, shown>>
          /\ mailbox' = [code |-> "request", tag |-> "board", v5 |-> 0, v6 |-> 0]
      BY <1>9, <2>1 DEF Checked, GetBoardRevision
    <3> QED BY <3>1 DEF Shows, Values, ShownIsAnswer
  <2>2. CASE ~Success
    BY <1>9, <2>2, ShowsStays DEF Checked, Say
  <2> QED BY <2>1, <2>2
<1>10. CASE BoardPrint
  <2>1. /\ pc = "board" /\ pc' = "print" /\ UNCHANGED <<kernel, mailbox, asked>>
        /\ shown' = <<[of |-> "board", digits |-> Number(mailbox.v5)]>>
    BY <1>10 DEF BoardPrint, Say, mailbox_vars
  <2>2. mailbox.v5 \in {0, BoardRevision} /\ kernel \in {"lab1", "lab2"}
    BY <2>1 DEF Shows, Values
  <2>3. Atoi(Number(mailbox.v5), 8) = mailbox.v5
    BY <1>0, <2>2, WordsShown
  <2>4. ShownIsAnswer'
    <3> DEFINE n == Number(mailbox.v5)
    <3>1. shown' = <<[of |-> "board", digits |-> n]>> /\ Atoi(n, 8) \in {0, BoardRevision}
      BY <2>1, <2>2, <2>3
    <3> HIDE DEF n
    <3>2. \A i \in DOMAIN shown' : shown'[i].of = "board" /\ shown'[i].digits = n
      BY <3>1
    <3> QED BY <3>1, <3>2 DEF ShownIsAnswer
  <2>5. Values'
    BY <2>1 DEF Shows, Values
  <2> QED BY <2>4, <2>5 DEF Shows
<1>11. CASE AskMemory
  <2>1. /\ pc' = "post" /\ asked' = "memory" /\ UNCHANGED <<kernel, shown>>
        /\ mailbox' = [code |-> "request", tag |-> "memory", v5 |-> 0, v6 |-> 0]
    BY <1>11 DEF AskMemory, GetArmMem, MemoryRequest
  <2> QED BY <2>1 DEF Shows, Values, ShownIsAnswer
<1>12. CASE MemoryPrint
  <2>1. /\ pc = "memory" /\ pc' = "print" /\ UNCHANGED <<kernel, mailbox, asked>>
        /\ shown' = <<[of |-> "base", digits |-> Number(mailbox.v5)],
                      [of |-> "size", digits |-> Number(mailbox.v6)]>>
    BY <1>12 DEF MemoryPrint, Say, mailbox_vars
  <2>2. /\ mailbox.v5 \in {0, MemBase} /\ mailbox.v6 \in {0, MemSize}
        /\ kernel \in {"lab1", "lab2"}
    BY <2>1 DEF Shows, Values
  <2>3. Atoi(Number(mailbox.v5), 8) = mailbox.v5 /\ Atoi(Number(mailbox.v6), 8) = mailbox.v6
    BY <1>0, <2>2, WordsShown
  <2>4. ShownIsAnswer'
    <3> DEFINE m == Number(mailbox.v5)
               n == Number(mailbox.v6)
    <3>1. /\ shown' = <<[of |-> "base", digits |-> m], [of |-> "size", digits |-> n]>>
          /\ Atoi(m, 8) \in {0, MemBase} /\ Atoi(n, 8) \in {0, MemSize}
      BY <2>1, <2>2, <2>3
    <3> HIDE DEF m, n
    <3>2. \A i \in DOMAIN shown' : \/ shown'[i].of = "base" /\ shown'[i].digits = m
                                   \/ shown'[i].of = "size" /\ shown'[i].digits = n
      BY <3>1
    <3> QED BY <3>1, <3>2 DEF ShownIsAnswer
  <2>5. Values'
    BY <2>1 DEF Shows, Values
  <2> QED BY <2>4, <2>5 DEF Shows
<1>13. CASE Tick
  BY <1>13, ShowsStays DEF Tick, shell, mailbox_vars, Shows, Values
<1>14. CASE VideoCore
  <2>1. UNCHANGED <<kernel, pc, asked, shown>>
    BY <1>14 DEF VideoCore, shell
  <2>2. mailbox \in [code : Codes, tag : Tags, v5 : Int, v6 : Int]
    BY DEF PInv, Asking
  <2>3. /\ mailbox'.tag = mailbox.tag
        /\ \/ mailbox'.v5 = mailbox.v5 /\ mailbox'.v6 = mailbox.v6
           \/ mailbox.tag = "board" /\ mailbox'.v5 = BoardRevision /\ mailbox'.v6 = mailbox.v6
           \/ mailbox.tag = "memory" /\ mailbox'.v5 = MemBase /\ mailbox'.v6 = MemSize
    <3>1. CASE mailbox' = [mailbox EXCEPT !.code = "error"]
      BY <2>2, <3>1
    <3>2. CASE mailbox' = [mailbox EXCEPT !.code = "response"]
      BY <2>2, <3>2
    <3>3. CASE /\ mailbox.tag = "board"
               /\ mailbox' = [mailbox EXCEPT !.code = "response", !.v5 = BoardRevision]
      BY <2>2, <3>3
    <3>4. CASE /\ mailbox.tag = "memory"
               /\ mailbox' = [mailbox EXCEPT !.code = "response", !.v5 = MemBase, !.v6 = MemSize]
      BY <2>2, <3>4
    <3> QED BY <1>14, <3>1, <3>2, <3>3, <3>4 DEF VideoCore, Answer
  <2>4. Values'
    BY <2>1, <2>3 DEF Shows, Values
  <2> QED BY <2>1, <2>4 DEF Shows, ShownIsAnswer
<1>15. CASE Reset
  <2>1. /\ pc' = "off" /\ shown' = <<>> /\ kernel' = kernel
        /\ mailbox' = [code |-> "request", tag |-> "none", v5 |-> 0, v6 |-> 0]
    BY <1>15 DEF Reset, Off
  <2> QED BY <2>1 DEF Shows, Values, ShownIsAnswer
<1>16. CASE UNCHANGED vars
  BY <1>16, ShowsStays DEF vars, shell, mailbox_vars, Shows, Values
<1> QED BY <1>1, <1>2, <1>3, <1>4, <1>5, <1>6, <1>7, <1>8, <1>9, <1>10, <1>11, <1>12, <1>13,
           <1>14, <1>15, <1>16 DEF Next, Shell

\* A number that info prints is the one it asked for, or 0, digit by digit,
\* whatever of the buffer the VideoCore fills in and whatever it answers: the
\* values of an earlier question never remain.  Words have 32 bits.
THEOREM ShownRight ==
  ASSUME {BoardRevision, MemBase, MemSize} \subseteq Words
  PROVE  Spec => []ShownIsAnswer
<1>1. Init => Shows
  BY DEF Init, MailboxInit, Off, Shows, Values, ShownIsAnswer
<1>2. PInv /\ Shows /\ [Next]_vars => Shows'
  BY ShowsKept
<1>3. Shows => ShownIsAnswer
  BY DEF Shows
<1> QED BY <1>1, <1>2, <1>3, Inductive, PTL DEF Spec

----------------------------------------------------------------------------
(* The lines *)

\* x is what is in s from a to b.
Slice(x, s, a, b) ==
  Len(x) = b + 1 - a /\ \A i \in 1 .. Len(x) : x[i] = s[a + i - 1]

\* How many characters the shell has read.
HasRead == Len(typed) - Len(rx)

Ends(i) == Converted(typed[i]) = LF

\* E: where the lines that have been read end.
LineEnds(E) ==
  /\ E \in Seq(1 .. HasRead)
  /\ \A i, j \in 1 .. Len(E) : i < j => E[i] < E[j]
  /\ \A i \in 1 .. HasRead : Ends(i) <=> \E k \in 1 .. Len(E) : E[k] = i

\* Where the line after the first k begins.
Start(E, k) == IF k = 0 THEN 1 ELSE E[k] + 1

\* A line is complete and has not been worked off.
Complete == pc \in {"run", "cat"} \/ (pc = "echo" /\ then \in {"run", "cat"})

\* The lines worked off, and what is in the buffer.
Worked(E) ==
  /\ ran \in Seq(Seq(Keys \cup {LF}))
  /\ \A k \in 1 .. Len(ran) : Slice(ran[k], typed, Start(E, k - 1), E[k] - 1)
  /\ Complete => /\ Len(E) = Len(ran) + 1 /\ E[Len(E)] = HasRead
                 /\ Slice(buffer, typed, Start(E, Len(ran)), HasRead - 1)
  /\ ~Complete => /\ Len(E) = Len(ran)
                  /\ Slice(buffer, typed, Start(E, Len(ran)), HasRead)

\* The inductive invariant of the lines.
Received == \A i \in 1 .. Len(rx) : rx[i] = typed[HasRead + i]
LineInv ==
  /\ pc = "print" => then \notin {"run", "cat"}
  /\ lost = 0 => Received /\ \E E : LineEnds(E) /\ Worked(E)

LEMMA Members ==
  ASSUME NEW S, NEW s \in Seq(S)
  PROVE  Len(s) \in Nat /\ \A k \in 1 .. Len(s) : s[k] \in S
OBVIOUS

LEMMA ReadTypes ==
  ASSUME PInv
  PROVE  /\ HasRead \in Nat /\ Len(rx) \in Nat /\ Len(typed) \in Nat
         /\ HasRead + Len(rx) = Len(typed) /\ Len(buffer) \in Nat
         /\ rx \in Seq(Keys) /\ typed \in Seq(Keys) /\ buffer \in Seq(Keys \cup {LF}) /\ lost \in Nat
<1>1. /\ rx \in Seq(Keys) /\ typed \in Seq(Keys) /\ buffer \in Seq(Keys \cup {LF})
      /\ Len(buffer) + Len(rx) <= Len(typed) /\ lost \in Nat
  BY DEF PInv, Characters
<1>2. Len(rx) \in Nat /\ Len(typed) \in Nat /\ Len(buffer) \in Nat
  BY <1>1
<1> QED BY <1>1, <1>2 DEF HasRead

LEMMA EndTypes ==
  ASSUME PInv, NEW E, LineEnds(E)
  PROVE  /\ Len(E) \in Nat
         /\ \A k \in 1 .. Len(E) : E[k] \in 1 .. HasRead /\ E[k] \in 1 .. Len(typed)
         /\ \A k \in 0 .. Len(E) : Start(E, k) \in 1 .. HasRead + 1
<1>1. HasRead \in Nat /\ Len(rx) \in Nat /\ HasRead + Len(rx) = Len(typed)
  BY ReadTypes
<1>2. Len(E) \in Nat /\ \A k \in 1 .. Len(E) : E[k] \in 1 .. HasRead
  <2>1. E \in Seq(1 .. HasRead)
    BY DEF LineEnds
  <2> QED BY <2>1, Members
<1>3. ASSUME NEW k \in 0 .. Len(E) PROVE Start(E, k) \in 1 .. HasRead + 1
  <2>1. CASE k = 0
    BY <1>1, <2>1 DEF Start
  <2>2. CASE k # 0
    <3>1. k \in 1 .. Len(E)
      BY <1>2, <2>2
    <3> QED BY <1>1, <1>2, <2>2, <3>1 DEF Start
  <2> QED BY <2>1, <2>2
<1>4. \A k \in 1 .. Len(E) : E[k] \in 1 .. Len(typed)
  BY <1>1, <1>2
<1> QED BY <1>2, <1>3, <1>4

\* Steps that touch no character of a line.
LEMMA LinesStay ==
  ASSUME LineInv, UNCHANGED <<typed, rx, lost, ran, buffer>>, Complete' <=> Complete,
         pc' = "print" => then' \notin {"run", "cat"}
  PROVE  LineInv'
<1> SUFFICES ASSUME lost = 0
             PROVE  Received' /\ \E E : LineEnds(E)' /\ Worked(E)'
  BY DEF LineInv
<1>1. Received'
  BY DEF LineInv, Received, HasRead
<1>2. PICK E : LineEnds(E) /\ Worked(E)
  BY DEF LineInv
<1>3. LineEnds(E)'
  BY <1>2 DEF LineEnds, HasRead, Ends
<1>4. Worked(E)'
  BY <1>2 DEF Worked, HasRead
<1> QED BY <1>1, <1>3, <1>4

\* A line is worked off.
LEMMA LinesRun ==
  ASSUME PInv, LineInv, pc \in {"run", "cat"}, ran' = Append(ran, buffer), buffer' = <<>>,
         UNCHANGED <<typed, rx, lost>>, ~Complete',
         pc' = "print" => then' \notin {"run", "cat"}
  PROVE  LineInv'
<1> SUFFICES ASSUME lost = 0
             PROVE  Received' /\ \E E : LineEnds(E)' /\ Worked(E)'
  BY DEF LineInv
<1>1. Received'
  BY DEF LineInv, Received, HasRead
<1>2. PICK E : LineEnds(E) /\ Worked(E)
  BY DEF LineInv
<1>3. LineEnds(E)'
  BY <1>2 DEF LineEnds, HasRead, Ends
<1>4. Complete
  BY DEF Complete
<1>5. /\ ran \in Seq(Seq(Keys \cup {LF})) /\ buffer \in Seq(Keys \cup {LF})
      /\ \A k \in 1 .. Len(ran) : Slice(ran[k], typed, Start(E, k - 1), E[k] - 1)
      /\ Len(E) = Len(ran) + 1 /\ E[Len(E)] = HasRead
      /\ Slice(buffer, typed, Start(E, Len(ran)), HasRead - 1)
  BY <1>2, <1>4, ReadTypes DEF Worked
<1>6. /\ ran' \in Seq(Seq(Keys \cup {LF})) /\ Len(ran') = Len(ran) + 1 /\ Len(ran) \in Nat
      /\ \A k \in 1 .. Len(ran) : ran'[k] = ran[k]
      /\ ran'[Len(ran) + 1] = buffer
  BY <1>5
<1>7. ASSUME NEW k \in 1 .. Len(ran')
      PROVE  Slice(ran'[k], typed', Start(E, k - 1), E[k] - 1)
  <2>1. CASE k \in 1 .. Len(ran)
    BY <1>5, <1>6, <2>1
  <2>2. CASE k = Len(ran) + 1
    <3>1. k - 1 = Len(ran) /\ E[k] = HasRead /\ ran'[k] = buffer
      BY <1>5, <1>6, <2>2
    <3> QED BY <1>5, <3>1
  <2> QED BY <1>6, <2>1, <2>2
<1>8. HasRead' = HasRead /\ HasRead \in Nat
  BY ReadTypes DEF HasRead
<1>9. Slice(buffer', typed', Start(E, Len(ran')), HasRead')
  <2>1. Start(E, Len(ran')) = HasRead + 1
    BY <1>5, <1>6 DEF Start
  <2>2. Len(buffer') = 0
    OBVIOUS
  <2> QED BY <1>8, <2>1, <2>2 DEF Slice
<1>10. Worked(E)'
  BY <1>5, <1>6, <1>7, <1>8, <1>9 DEF Worked
<1> QED BY <1>1, <1>3, <1>10

\* A character arrives.
LEMMA LinesArrive ==
  ASSUME PInv, LineInv, NEW c \in Keys, Arrive(c), UNCHANGED <<pc, then, ran, buffer>>
  PROVE  LineInv'
<1> SUFFICES ASSUME lost' = 0
             PROVE  Received' /\ \E E : LineEnds(E)' /\ Worked(E)'
  BY DEF LineInv
<1>1. lost = 0 /\ rx' = Append(rx, c) /\ typed' = Append(typed, c)
  BY ReadTypes DEF Arrive
<1>2. /\ Len(rx') = Len(rx) + 1 /\ Len(typed') = Len(typed) + 1
      /\ \A i \in 1 .. Len(typed) : typed'[i] = typed[i]
      /\ \A i \in 1 .. Len(rx) : rx'[i] = rx[i]
      /\ rx'[Len(rx) + 1] = c /\ typed'[Len(typed) + 1] = c
  BY <1>1, ReadTypes
<1>3. HasRead' = HasRead
  BY <1>2, ReadTypes DEF HasRead
<1>4. Received'
  <2>1. ASSUME NEW i \in 1 .. Len(rx') PROVE rx'[i] = typed'[HasRead + i]
    <3>1. CASE i \in 1 .. Len(rx)
      <4>1. HasRead + i \in 1 .. Len(typed)
        BY <3>1, ReadTypes
      <4> QED BY <1>1, <1>2, <3>1, <4>1 DEF LineInv, Received
    <3>2. CASE i = Len(rx) + 1
      <4>0. HasRead \in Nat /\ Len(rx) \in Nat /\ HasRead + Len(rx) = Len(typed)
        BY ReadTypes
      <4>1. HasRead + i = Len(typed) + 1
        BY <3>2, <4>0
      <4>2. typed'[HasRead + i] = c
        BY <1>2, <4>1
      <4>3. rx'[i] = c
        BY <1>2, <3>2
      <4> QED BY <4>2, <4>3
    <3> QED BY <1>2, <3>1, <3>2, ReadTypes
  <2> QED BY <1>3, <2>1 DEF Received
<1>5. PICK E : LineEnds(E) /\ Worked(E)
  BY <1>1 DEF LineInv
<1>6. \A i \in 1 .. HasRead : typed'[i] = typed[i]
  <2>1. \A i \in 1 .. HasRead : i \in 1 .. Len(typed)
    BY ReadTypes
  <2> QED BY <1>2, <2>1
<1>7. LineEnds(E)'
  BY <1>3, <1>5, <1>6 DEF LineEnds, Ends
<1>8. ASSUME NEW x, NEW a, NEW b, a \in Int, b \in Int, a >= 1, b <= HasRead, Len(x) \in Nat,
             Slice(x, typed, a, b)
      PROVE  Slice(x, typed', a, b)
  <2>1. \A i \in 1 .. Len(x) : a + i - 1 \in 1 .. HasRead
    BY <1>8, ReadTypes DEF Slice
  <2> QED BY <1>6, <1>8, <2>1 DEF Slice
<1>9. /\ ran \in Seq(Seq(Keys \cup {LF})) /\ Len(ran) \in Nat /\ Len(ran) <= Len(E)
      /\ Len(E) \in Nat
      /\ \A k \in 1 .. Len(ran) : Slice(ran[k], typed, Start(E, k - 1), E[k] - 1)
  BY <1>5, EndTypes DEF Worked
<1>10. ASSUME NEW k \in 1 .. Len(ran) PROVE Slice(ran[k], typed', Start(E, k - 1), E[k] - 1)
  <2>1. k - 1 \in 0 .. Len(E) /\ k \in 1 .. Len(E)
    BY <1>9
  <2>2. Start(E, k - 1) \in Int /\ Start(E, k - 1) >= 1 /\ E[k] - 1 \in Int /\ E[k] - 1 <= HasRead
    BY <1>5, <2>1, EndTypes, ReadTypes
  <2>3. Len(ran[k]) \in Nat
    BY <1>9
  <2> QED BY <1>8, <1>9, <2>2, <2>3
<1>11. Start(E, Len(ran)) \in Int /\ Start(E, Len(ran)) >= 1
  <2>1. Len(ran) \in 0 .. Len(E)
    BY <1>9
  <2> QED BY <1>5, <2>1, EndTypes, ReadTypes
<1>12. Complete => Slice(buffer, typed', Start(E, Len(ran)), HasRead - 1)
  <2> SUFFICES ASSUME Complete PROVE Slice(buffer, typed', Start(E, Len(ran)), HasRead - 1)
    OBVIOUS
  <2>1. Slice(buffer, typed, Start(E, Len(ran)), HasRead - 1)
    BY <1>5 DEF Worked
  <2>2. HasRead - 1 \in Int /\ HasRead - 1 <= HasRead /\ Len(buffer) \in Nat
    BY ReadTypes
  <2> QED BY <1>8, <1>11, <2>1, <2>2
<1>13. ~Complete => Slice(buffer, typed', Start(E, Len(ran)), HasRead)
  <2> SUFFICES ASSUME ~Complete PROVE Slice(buffer, typed', Start(E, Len(ran)), HasRead)
    OBVIOUS
  <2>1. Slice(buffer, typed, Start(E, Len(ran)), HasRead)
    BY <1>5 DEF Worked
  <2>2. HasRead \in Int /\ HasRead <= HasRead /\ Len(buffer) \in Nat
    BY ReadTypes
  <2> QED BY <1>8, <1>11, <2>1, <2>2
<1>14. Complete' <=> Complete
  BY DEF Complete
<1>15. Worked(E)'
  BY <1>3, <1>5, <1>10, <1>12, <1>13, <1>14 DEF Worked
<1> QED BY <1>4, <1>7, <1>15

LEMMA Widened ==
  ASSUME NEW S, NEW T, S \subseteq T, NEW s \in Seq(S)
  PROVE  s \in Seq(T)
OBVIOUS

\* A character is read, and may end the line.
LEMMA LinesRead == ASSUME PInv, LineInv, ReadChar PROVE LineInv'
<1> DEFINE c == Converted(Head(rx))
           h == HasRead
<1>1. /\ pc \in {"read", "name"} /\ rx # <<>> /\ rx' = Tail(rx)
      /\ buffer' = (IF c = LF THEN buffer ELSE Append(buffer, c)) /\ pc' = "echo"
      /\ then' = IF c # LF THEN pc ELSE IF pc = "name" THEN "cat" ELSE "run"
      /\ UNCHANGED <<typed, lost, ran>>
  BY DEF ReadChar
<1>2. ~Complete /\ (Complete' <=> c = LF)
  BY <1>1 DEF Complete
<1> SUFFICES ASSUME lost = 0
             PROVE  Received' /\ \E E : LineEnds(E)' /\ Worked(E)'
  BY <1>1 DEF LineInv
<1>3. /\ h \in Nat /\ Len(rx) \in Nat /\ h + Len(rx) = Len(typed) /\ Len(typed) \in Nat
      /\ rx \in Seq(Keys) /\ buffer \in Seq(Keys \cup {LF}) /\ Len(buffer) \in Nat
  BY ReadTypes
<1>4. /\ Len(rx') = Len(rx) - 1 /\ Len(rx) > 0 /\ Head(rx) = rx[1] /\ rx[1] \in Keys
      /\ \A i \in 1 .. Len(rx) - 1 : rx'[i] = rx[i + 1]
  BY <1>1, <1>3
<1>5. HasRead' = h + 1
  BY <1>1, <1>3, <1>4 DEF HasRead
<1>6. Received
  BY DEF LineInv
<1>7. c = Converted(typed[h + 1]) /\ rx[1] = typed[h + 1]
  <2>1. 1 \in 1 .. Len(rx)
    BY <1>3, <1>4
  <2> QED BY <1>4, <1>6, <2>1 DEF Received
<1>8. Received'
  <2>1. ASSUME NEW i \in 1 .. Len(rx) - 1 PROVE rx'[i] = typed[(h + 1) + i]
    <3>1. i + 1 \in 1 .. Len(rx) /\ h + (i + 1) = (h + 1) + i
      BY <1>3
    <3>2. rx[i + 1] = typed[h + (i + 1)]
      BY <1>6, <3>1 DEF Received
    <3> QED BY <1>4, <3>1, <3>2
  <2> QED BY <1>1, <1>4, <1>5, <2>1 DEF Received
<1>9. PICK E : LineEnds(E) /\ Worked(E)
  BY DEF LineInv
<1>10. /\ Len(E) \in Nat /\ E \in Seq(1 .. h)
       /\ \A k \in 1 .. Len(E) : E[k] \in 1 .. h
       /\ \A i, j \in 1 .. Len(E) : i < j => E[i] < E[j]
       /\ \A i \in 1 .. h : Ends(i) <=> \E k \in 1 .. Len(E) : E[k] = i
       /\ \A k \in 0 .. Len(E) : Start(E, k) \in 1 .. h + 1
  BY <1>9, EndTypes DEF LineEnds
<1>11. /\ ran \in Seq(Seq(Keys \cup {LF}))
       /\ \A k \in 1 .. Len(ran) : Slice(ran[k], typed, Start(E, k - 1), E[k] - 1)
       /\ Len(E) = Len(ran)
       /\ Slice(buffer, typed, Start(E, Len(ran)), h)
  BY <1>2, <1>9 DEF Worked
<1>12. \A i : Ends(i)' <=> Ends(i)
  BY <1>1 DEF Ends
<1>13. Ends(h + 1) <=> c = LF
  BY <1>7 DEF Ends
<1> HIDE DEF h, c
<1>14. CASE c = LF
  <2> DEFINE n == Len(E)
  <2>0. PICK D : D = Append(E, h + 1)
    OBVIOUS
  <2>1. /\ D \in Seq(1 .. h + 1) /\ Len(D) = n + 1 /\ D[n + 1] = h + 1
        /\ \A k \in 1 .. n : D[k] = E[k]
    <3>1. E \in Seq(1 .. h + 1)
      <4>1. 1 .. h \subseteq 1 .. h + 1
        BY <1>3
      <4> QED BY <1>10, <4>1, Widened
    <3>2. h + 1 \in 1 .. h + 1
      BY <1>3
    <3> QED BY <2>0, <3>1, <3>2, AppendProperties
  <2> HIDE DEF n
  <2>2. ASSUME NEW i \in 1 .. n + 1, NEW j \in 1 .. n + 1, i < j PROVE D[i] < D[j]
    <3>1. i \in 1 .. n /\ D[i] = E[i] /\ E[i] \in 1 .. h
      <4>1. i \in 1 .. n
        BY <1>10, <2>2 DEF n
      <4> QED BY <1>10, <2>1, <4>1 DEF n
    <3>2. CASE j \in 1 .. n
      BY <1>10, <2>1, <2>2, <3>1, <3>2 DEF n
    <3>3. CASE j = n + 1
      <4>1. D[j] = h + 1
        BY <2>1, <3>3
      <4> QED BY <1>3, <3>1, <4>1
    <3>4. j \in 1 .. n \/ j = n + 1
      BY <1>10 DEF n
    <3> QED BY <3>2, <3>3, <3>4
  <2>3. ASSUME NEW i \in 1 .. h + 1 PROVE Ends(i) <=> \E k \in 1 .. n + 1 : D[k] = i
    <3>1. n + 1 \in 1 .. n + 1 /\ \A k \in 1 .. n : k \in 1 .. n + 1
      BY <1>10 DEF n
    <3>2. \A k \in 1 .. n + 1 : k \in 1 .. n \/ k = n + 1
      BY <1>10 DEF n
    <3>3. CASE i = h + 1
      BY <1>13, <1>14, <2>1, <3>1, <3>3
    <3>4. CASE i # h + 1
      <4>1. i \in 1 .. h
        BY <1>3, <3>4
      <4>2. Ends(i) <=> \E k \in 1 .. n : E[k] = i
        BY <1>10, <4>1 DEF n
      <4>3. (\E k \in 1 .. n + 1 : D[k] = i) <=> \E k \in 1 .. n : E[k] = i
        BY <2>1, <3>1, <3>2, <3>4
      <4> QED BY <4>2, <4>3
    <3> QED BY <3>3, <3>4
  <2>4. LineEnds(D)'
    <3>1. LineEnds(D)' <=>
            /\ D \in Seq(1 .. HasRead')
            /\ \A i, j \in 1 .. Len(D) : i < j => D[i] < D[j]
            /\ \A i \in 1 .. HasRead' : Ends(i)' <=> \E k \in 1 .. Len(D) : D[k] = i
      BY DEF LineEnds
    <3> QED BY <1>5, <1>12, <2>1, <2>2, <2>3, <3>1
  <2>5. \A k \in 0 .. n : Start(D, k) = Start(E, k)
    <3> TAKE k \in 0 .. n
    <3>1. k = 0 \/ k \in 1 .. n
      BY <1>10 DEF n
    <3> QED BY <2>1, <3>1 DEF Start
  <2>6. ASSUME NEW k \in 1 .. Len(ran) PROVE Slice(ran[k], typed, Start(D, k - 1), D[k] - 1)
    <3>1. k - 1 \in 0 .. n /\ k \in 1 .. n
      BY <1>10, <1>11 DEF n
    <3>2. Start(D, k - 1) = Start(E, k - 1) /\ D[k] = E[k]
      BY <2>1, <2>5, <3>1
    <3> QED BY <1>11, <3>2
  <2>7. Slice(buffer', typed, Start(D, Len(ran)), (h + 1) - 1)
    <3>1. buffer' = buffer
      BY <1>1, <1>14 DEF c
    <3>2. n \in 0 .. n /\ Len(ran) = n /\ (h + 1) - 1 = h
      BY <1>3, <1>10, <1>11 DEF n
    <3>3. Start(D, Len(ran)) = Start(E, Len(ran))
      BY <2>5, <3>2
    <3> QED BY <1>11, <3>1, <3>2, <3>3
  <2>8. Len(D) = Len(ran) + 1 /\ D[Len(D)] = h + 1
    BY <1>11, <2>1 DEF n
  <2>9. Complete'
    BY <1>2, <1>14 DEF c
  <2>10. Worked(D)'
    <3>1. Worked(D)' <=>
            /\ ran' \in Seq(Seq(Keys \cup {LF}))
            /\ \A k \in 1 .. Len(ran') : Slice(ran'[k], typed', Start(D, k - 1), D[k] - 1)
            /\ Complete' => /\ Len(D) = Len(ran') + 1 /\ D[Len(D)] = HasRead'
                            /\ Slice(buffer', typed', Start(D, Len(ran')), HasRead' - 1)
            /\ ~Complete' => /\ Len(D) = Len(ran')
                             /\ Slice(buffer', typed', Start(D, Len(ran')), HasRead')
      BY DEF Worked
    <3> QED BY <1>1, <1>5, <1>11, <2>6, <2>7, <2>8, <2>9, <3>1
  <2> QED BY <1>8, <2>4, <2>10
<1>15. CASE c # LF
  <2>1. c = typed[h + 1] /\ c \in Keys \cup {LF}
    BY <1>4, <1>7, <1>15 DEF Converted
  <2>2. ASSUME NEW i \in 1 .. h + 1 PROVE Ends(i) <=> \E k \in 1 .. Len(E) : E[k] = i
    <3>1. CASE i = h + 1
      <4>1. \A k \in 1 .. Len(E) : E[k] # h + 1
        <5> TAKE k \in 1 .. Len(E)
        <5>1. E[k] \in 1 .. h
          BY <1>10
        <5> QED BY <1>3, <5>1
      <4> QED BY <1>13, <1>15, <3>1, <4>1
    <3>2. CASE i # h + 1
      <4>1. i \in 1 .. h
        BY <1>3, <3>2
      <4> QED BY <1>10, <4>1
    <3> QED BY <3>1, <3>2
  <2>3. E \in Seq(1 .. h + 1)
    <3>1. 1 .. h \subseteq 1 .. h + 1
      BY <1>3
    <3> QED BY <1>10, <3>1, Widened
  <2>4. LineEnds(E)'
    BY <1>5, <1>10, <1>12, <2>2, <2>3 DEF LineEnds
  <2>5. Slice(buffer', typed, Start(E, Len(ran)), h + 1)
    <3> DEFINE a == Start(E, Len(ran))
               m == Len(buffer)
    <3>1. buffer' = Append(buffer, c)
      BY <1>1, <1>15 DEF c
    <3>2. /\ Len(buffer') = m + 1 /\ m \in Nat /\ buffer'[m + 1] = c
          /\ \A i \in 1 .. m : buffer'[i] = buffer[i]
      BY <1>3, <2>1, <3>1
    <3>3. m = h + 1 - a /\ \A i \in 1 .. m : buffer[i] = typed[a + i - 1]
      BY <1>11 DEF Slice
    <3>4. a \in 1 .. h + 1
      <4>1. Len(ran) \in 0 .. Len(E)
        BY <1>10, <1>11
      <4> QED BY <1>10, <4>1
    <3> HIDE DEF a, m
    <3>5. Len(buffer') = (h + 1) + 1 - a
      BY <1>3, <3>2, <3>3, <3>4
    <3>6. ASSUME NEW i \in 1 .. m + 1 PROVE buffer'[i] = typed[a + i - 1]
      <4>1. CASE i \in 1 .. m
        BY <3>2, <3>3, <4>1
      <4>2. CASE i = m + 1
        <5>1. a + i - 1 = h + 1
          BY <1>3, <3>2, <3>3, <3>4, <4>2
        <5>2. buffer'[i] = c
          BY <3>2, <4>2
        <5> QED BY <2>1, <5>1, <5>2
      <4>3. i \in 1 .. m \/ i = m + 1
        BY <3>2
      <4> QED BY <4>1, <4>2, <4>3
    <3> QED BY <3>2, <3>5, <3>6 DEF Slice, a
  <2>6. ~Complete'
    BY <1>2, <1>15 DEF c
  <2>7. Worked(E)'
    BY <1>1, <1>5, <1>11, <2>5, <2>6 DEF Worked
  <2> QED BY <1>8, <2>4, <2>7
<1> QED BY <1>14, <1>15

\* Nothing has been typed.
LEMMA LinesNone ==
  rx = <<>> /\ typed = <<>> /\ ran = <<>> /\ buffer = <<>> /\ pc = "off" => LineInv
<1> SUFFICES ASSUME rx = <<>>, typed = <<>>, ran = <<>>, buffer = <<>>, pc = "off"
             PROVE  LineInv
  OBVIOUS
<1>1. Len(<<>>) = 0 /\ (\A n : <<>> \in Seq(n)) /\ \A i : i \notin 1 .. 0
  OBVIOUS
<1>2. HasRead = 0
  BY <1>1 DEF HasRead
<1>3. Received
  BY <1>1 DEF Received
<1>4. LineEnds(<<>>)
  BY <1>1, <1>2 DEF LineEnds
<1>5. ~Complete
  BY DEF Complete
<1>6. Slice(<<>>, <<>>, 1, 0)
  BY <1>1 DEF Slice
<1>7. Worked(<<>>)
  BY <1>1, <1>2, <1>5, <1>6 DEF Worked, Start
<1> QED BY <1>3, <1>4, <1>7 DEF LineInv

LEMMA LinesKept == PInv /\ LineInv /\ [Next]_vars => LineInv'
<1> SUFFICES ASSUME PInv, LineInv, [Next]_vars PROVE LineInv'
  OBVIOUS
<1>0. /\ pc \in Pcs /\ then \in Thens /\ (pc = "echo" => todo = 1)
      /\ asked \in {"check", "board", "memory"} /\ (pc = "print" => then \notin {"run", "cat"})
  BY DEF PInv, Control, LineInv
<1>1. CASE PowerOn \/ Prompt \/ BoardPrint \/ AskMemory \/ MemoryPrint \/ Checked \/ MailboxPost
           \/ MailboxWait \/ VideoCore \/ UNCHANGED vars
  <2>1. UNCHANGED <<typed, rx, lost, ran, buffer>>
    BY <1>1 DEF PowerOn, Prompt, BoardPrint, AskMemory, MemoryPrint, Checked, MailboxPost,
                MailboxWait, VideoCore, uart, vars
  <2>2. CASE VideoCore \/ UNCHANGED vars
    <3>1. pc' = pc /\ then' = then
      BY <2>2 DEF VideoCore, shell, vars
    <3> QED BY <1>0, <2>1, <3>1, LinesStay DEF Complete
  <2>3. CASE ~(VideoCore \/ UNCHANGED vars)
    <3>1. /\ pc \notin {"run", "cat", "echo"} /\ pc' \notin {"run", "cat", "echo"}
          /\ pc' = "print" => then' \in {"prompt", "read", "askmemory"}
      BY <1>0, <1>1, <2>3
         DEF PowerOn, Prompt, BoardPrint, AskMemory, MemoryPrint, Checked, MailboxPost, MailboxWait,
             Say
    <3> QED BY <2>1, <3>1, LinesStay DEF Complete
  <2> QED BY <2>2, <2>3
<1>2. CASE Send
  <2>1. UNCHANGED <<typed, rx, lost, ran, buffer, then>> /\ pc \in {"print", "echo"}
        /\ pc' = IF todo = 1 THEN then ELSE pc
    BY <1>2 DEF Send
  <2>2. CASE pc = "echo"
    <3>1. pc' = then /\ then' = then
      BY <1>0, <2>1, <2>2
    <3> QED BY <1>0, <2>1, <2>2, <3>1, LinesStay DEF Complete, Thens
  <2>3. CASE pc = "print"
    <3>1. then \notin {"run", "cat"} /\ pc' \in {"print", then}
      BY <1>0, <2>1, <2>3
    <3> QED BY <1>0, <2>1, <2>3, <3>1, LinesStay DEF Complete, Thens
  <2> QED BY <2>1, <2>2, <2>3
<1>3. CASE Tick
  <2>1. UNCHANGED <<pc, then, ran, buffer>>
    BY <1>3 DEF Tick, shell
  <2>2. CASE \E c \in Keys : Arrive(c)
    BY <2>1, <2>2, LinesArrive
  <2>3. CASE UNCHANGED <<typed, rx, lost>>
    BY <1>0, <2>1, <2>3, LinesStay DEF Complete
  <2> QED BY <1>3, <2>2, <2>3 DEF Tick
<1>4. CASE Text \/ Unknown \/ CatFile \/ CatPrint \/ InfoStart \/ RebootCmd
  <2>1. /\ pc \in {"run", "cat"} /\ ran' = Append(ran, buffer) /\ buffer' = <<>>
        /\ UNCHANGED <<typed, rx, lost>>
    BY <1>4 DEF Text, Unknown, CatFile, CatPrint, InfoStart, RebootCmd, Run, NextLine, uart
  <2>2. /\ pc' \in {"print", "prompt", "post"}
        /\ pc' = "print" => then' \in {"prompt", "name"}
    BY <1>4 DEF Text, Unknown, CatFile, CatPrint, InfoStart, RebootCmd, Run, Say
  <2> QED BY <2>1, <2>2, LinesRun DEF Complete
<1>5. CASE Reset
  <2>1. rx' = <<>> /\ typed' = <<>> /\ ran' = <<>> /\ buffer' = <<>> /\ pc' = "off"
    BY <1>5 DEF Reset, Off
  <2>2. (rx = <<>> /\ typed = <<>> /\ ran = <<>> /\ buffer = <<>> /\ pc = "off")' => LineInv'
    BY LinesNone, PTL
  <2> QED BY <2>1, <2>2
<1> QED BY <1>1, <1>2, <1>3, <1>4, <1>5, LinesRead DEF Next, Shell

\* The parts of Lines.
LineFeeds(s)    == {i \in DOMAIN s : Converted(s[i]) = LF}
UpTo(s, e)      == {j \in LineFeeds(s) : j <= e}
LineStart(s, e) ==
  1 + IF \E i \in LineFeeds(s) : i < e
      THEN CHOOSE i \in LineFeeds(s) : i < e /\ \A j \in LineFeeds(s) : j < e => j <= i ELSE 0
LineEnd(s, k)   == CHOOSE e \in LineFeeds(s) : Cardinality(UpTo(s, e)) = k

LEMMA LinesAre ==
  ASSUME NEW s
  PROVE  Lines(s) = [k \in 1 .. Cardinality(LineFeeds(s)) |->
                       SubSeq(s, LineStart(s, LineEnd(s, k)), LineEnd(s, k) - 1)]
BY DEF Lines, LineFeeds, UpTo, LineStart, LineEnd

\* The k-th line ends where E has it and begins after the one before.
LEMMA LineFound ==
  ASSUME PInv, NEW E, LineEnds(E), NEW k \in 1 .. Len(E)
  PROVE  /\ LineEnd(typed, k) = E[k]
         /\ LineStart(typed, E[k]) = Start(E, k - 1)
         /\ k <= Cardinality(LineFeeds(typed))
         /\ Cardinality(LineFeeds(typed)) \in Nat
<1> DEFINE A == LineFeeds(typed)
<1>1. /\ HasRead \in Nat /\ Len(typed) \in Nat /\ HasRead <= Len(typed) /\ typed \in Seq(Keys)
  BY ReadTypes
<1>2. /\ Len(E) \in Nat
      /\ \A i \in 1 .. Len(E) : E[i] \in 1 .. HasRead /\ E[i] \in 1 .. Len(typed) /\ E[i] \in Nat
  BY EndTypes
<1>3. /\ \A i, j \in 1 .. Len(E) : i < j => E[i] < E[j]
      /\ \A i \in 1 .. HasRead : Ends(i) <=> \E m \in 1 .. Len(E) : E[m] = i
  BY DEF LineEnds
<1>4. /\ A \subseteq 1 .. Len(typed) /\ A \subseteq Nat
      /\ \A i \in 1 .. Len(typed) : i \in A <=> Ends(i)
  BY <1>1 DEF LineFeeds, Ends
<1>5. IsFiniteSet(A) /\ Cardinality(A) \in Nat
  <2>1. IsFiniteSet(1 .. Len(typed))
    <3>1. 1 \in Int /\ Len(typed) \in Int
      BY <1>1
    <3> QED BY <3>1, FS_Interval
  <2>2. IsFiniteSet(A)
    <3>1. A \in SUBSET (1 .. Len(typed))
      BY <1>4
    <3> QED BY <2>1, <3>1, FS_Subset
  <2> QED BY <2>2, FS_CardinalityType
<1> HIDE DEF A
<1>6. \A i \in 1 .. Len(E) : E[i] \in A
  BY <1>2, <1>3, <1>4
<1>7. ASSUME NEW i \in A, NEW m \in 1 .. Len(E), i <= E[m]
      PROVE  \E j \in 1 .. m : i = E[j]
  <2>1. i \in 1 .. HasRead
    <3>1. i \in 1 .. Len(typed) /\ E[m] \in 1 .. HasRead
      BY <1>2, <1>4
    <3> QED BY <1>1, <1>7, <3>1
  <2>2. PICK j \in 1 .. Len(E) : E[j] = i
    BY <1>1, <1>3, <1>4, <2>1
  <2>3. j <= m
    <3>1. SUFFICES ASSUME m < j PROVE FALSE
      BY <1>2
    <3>2. E[m] < E[j] /\ E[m] \in Nat /\ E[j] \in Nat
      BY <1>2, <1>3, <3>1
    <3> QED BY <1>7, <2>2, <3>2
  <2>4. j \in 1 .. m
    BY <1>2, <2>3
  <2> QED BY <2>2, <2>4
<1>8. UpTo(typed, E[k]) = {E[i] : i \in 1 .. k}
  <2>1. ASSUME NEW i \in 1 .. k PROVE E[i] \in A /\ E[i] <= E[k]
    <3>1. i \in 1 .. Len(E) /\ (i < k \/ i = k)
      BY <1>2
    <3>2. E[i] < E[k] \/ E[i] = E[k]
      BY <1>3, <3>1
    <3> QED BY <1>2, <1>6, <3>1, <3>2
  <2>2. ASSUME NEW i \in A, i <= E[k] PROVE \E j \in 1 .. k : i = E[j]
    BY <1>7, <2>2
  <2>3. UpTo(typed, E[k]) = {j \in A : j <= E[k]}
    BY DEF UpTo, A
  <2> QED BY <2>1, <2>2, <2>3
<1>9. Cardinality(UpTo(typed, E[k])) = k
  <2> DEFINE f == [i \in 1 .. k |-> E[i]]
             U == {E[i] : i \in 1 .. k}
  <2>1. f \in [1 .. k -> U] /\ \A t \in U : \E i \in 1 .. k : f[i] = t
    OBVIOUS
  <2>2. ASSUME NEW a \in 1 .. k, NEW b \in 1 .. k, f[a] = f[b] PROVE a = b
    <3>1. a \in 1 .. Len(E) /\ b \in 1 .. Len(E) /\ E[a] = E[b]
      BY <1>2, <2>2
    <3>2. ~(E[a] < E[b]) /\ ~(E[b] < E[a])
      BY <1>2, <3>1
    <3>3. ~(a < b) /\ ~(b < a)
      BY <1>3, <3>1, <3>2
    <3> QED BY <3>3
  <2>3. f \in Bijection(1 .. k, U)
    BY <2>1, <2>2 DEF Bijection, Injection, Surjection, IsInjective
  <2>4. ExistsBijection(1 .. k, U)
    BY <2>3 DEF ExistsBijection
  <2>5. k \in Nat
    BY <1>2
  <2>6. Cardinality(U) = k
    BY <2>4, <2>5, FS_CountingElements
  <2> QED BY <1>8, <2>6
<1>10. k <= Cardinality(A)
  <2>1. UpTo(typed, E[k]) \subseteq A
    BY DEF UpTo, A
  <2> QED BY <1>5, <1>9, <2>1, FS_Subset
<1>11. ASSUME NEW e \in A, Cardinality(UpTo(typed, e)) = k PROVE e = E[k]
  <2>1. IsFiniteSet(UpTo(typed, e)) /\ IsFiniteSet(UpTo(typed, E[k]))
    <3>1. UpTo(typed, e) \subseteq A /\ UpTo(typed, E[k]) \subseteq A
      BY DEF UpTo, A
    <3> QED BY <1>5, <3>1, FS_Subset
  <2>2. e \in Nat /\ E[k] \in Nat
    BY <1>2, <1>4
  <2>3. e \in UpTo(typed, e) /\ E[k] \in UpTo(typed, E[k])
    BY <1>6, <2>2 DEF UpTo, A
  <2>4. CASE e <= E[k]
    <3>1. UpTo(typed, e) \subseteq UpTo(typed, E[k])
      BY <1>4, <2>2, <2>4 DEF UpTo, A
    <3>2. UpTo(typed, e) = UpTo(typed, E[k])
      BY <1>9, <1>11, <2>1, <3>1, FS_Subset
    <3>3. E[k] <= e
      BY <2>3, <3>2 DEF UpTo
    <3> QED BY <2>2, <2>4, <3>3
  <2>5. CASE E[k] <= e
    <3>1. UpTo(typed, E[k]) \subseteq UpTo(typed, e)
      BY <1>4, <2>2, <2>5 DEF UpTo, A
    <3>2. UpTo(typed, e) = UpTo(typed, E[k])
      BY <1>9, <1>11, <2>1, <3>1, FS_Subset
    <3>3. e <= E[k]
      BY <2>3, <3>2 DEF UpTo
    <3> QED BY <2>2, <2>5, <3>3
  <2> QED BY <2>2, <2>4, <2>5
<1>12. LineEnd(typed, k) = E[k]
  BY <1>6, <1>9, <1>11 DEF LineEnd, A
<1>13. LineStart(typed, E[k]) = Start(E, k - 1)
  <2>1. CASE k = 1
    <3>1. ~\E i \in A : i < E[k]
      <4> SUFFICES ASSUME NEW i \in A, i < E[k] PROVE FALSE
        OBVIOUS
      <4>1. i \in Nat /\ E[k] \in Nat
        BY <1>2, <1>4
      <4>2. PICK j \in 1 .. k : i = E[j]
        BY <1>7, <4>1
      <4> QED BY <2>1, <4>1, <4>2
    <3> QED BY <2>1, <3>1 DEF LineStart, Start, A
  <2>2. CASE k # 1
    <3> DEFINE p == k - 1
    <3>1. p \in 1 .. Len(E) /\ p < k /\ p # 0 /\ k \in Nat /\ p \in Nat
      BY <1>2, <2>2
    <3>2. E[p] \in A /\ E[p] < E[k] /\ E[p] \in Nat /\ E[k] \in Nat
      BY <1>2, <1>3, <1>6, <3>1
    <3>3. ASSUME NEW j \in A, j < E[k] PROVE j <= E[p]
      <4>1. j \in Nat
        BY <1>4
      <4>2. PICK m \in 1 .. k : j = E[m]
        BY <1>7, <3>2, <3>3, <4>1
      <4>3. m # k
        BY <3>2, <3>3, <4>2
      <4>4. m \in 1 .. Len(E) /\ (m < p \/ m = p)
        BY <1>2, <3>1, <4>3
      <4>5. E[m] < E[p] \/ m = p
        BY <1>3, <3>1, <4>4
      <4> QED BY <3>2, <4>1, <4>2, <4>5
    <3>4. ASSUME NEW i \in A, i < E[k], \A j \in A : j < E[k] => j <= i PROVE i = E[p]
      <4>1. i <= E[p] /\ E[p] <= i /\ i \in Nat
        BY <1>4, <3>2, <3>3, <3>4
      <4> QED BY <3>2, <4>1
    <3> HIDE DEF p
    <3>5. (CHOOSE i \in A : i < E[k] /\ \A j \in A : j < E[k] => j <= i) = E[p]
      BY <3>2, <3>3, <3>4
    <3>6. LineStart(typed, E[k]) = 1 + E[p]
      BY <3>2, <3>5 DEF LineStart, A
    <3>7. Start(E, p) = E[p] + 1
      BY <3>1 DEF Start
    <3> QED BY <3>2, <3>6, <3>7 DEF p
  <2> QED BY <2>1, <2>2
<1> QED BY <1>5, <1>10, <1>12, <1>13 DEF A

LEMMA LinesInOrderInv == PInv /\ LineInv => RanAsTyped
<1> SUFFICES ASSUME PInv, LineInv, lost = 0 PROVE IsPrefix(ran, Lines(typed))
  BY DEF RanAsTyped
<1>1. PICK E : LineEnds(E) /\ Worked(E)
  BY DEF LineInv
<1>2. /\ HasRead \in Nat /\ Len(typed) \in Nat /\ HasRead <= Len(typed) /\ typed \in Seq(Keys)
  BY ReadTypes
<1>3. /\ Len(E) \in Nat
      /\ \A k \in 1 .. Len(E) : E[k] \in 1 .. HasRead /\ E[k] \in 1 .. Len(typed)
      /\ \A k \in 0 .. Len(E) : Start(E, k) \in 1 .. HasRead + 1
  BY <1>1, EndTypes
<1>4. /\ ran \in Seq(Seq(Keys \cup {LF})) /\ Len(ran) \in Nat /\ Len(ran) <= Len(E)
      /\ \A k \in 1 .. Len(ran) : Slice(ran[k], typed, Start(E, k - 1), E[k] - 1)
  <2>1. /\ ran \in Seq(Seq(Keys \cup {LF})) /\ (Len(E) = Len(ran) + 1 \/ Len(E) = Len(ran))
        /\ \A k \in 1 .. Len(ran) : Slice(ran[k], typed, Start(E, k - 1), E[k] - 1)
    BY <1>1 DEF Worked
  <2>2. Len(ran) \in Nat
    BY <2>1
  <2> QED BY <1>3, <2>1, <2>2
<1> DEFINE C == Cardinality(LineFeeds(typed))
           L(k) == SubSeq(typed, LineStart(typed, LineEnd(typed, k)), LineEnd(typed, k) - 1)
<1>5. Lines(typed) = [k \in 1 .. C |-> L(k)]
  BY LinesAre
<1>6. C \in Nat
  <2>1. LineFeeds(typed) \in SUBSET (1 .. Len(typed))
    BY <1>2 DEF LineFeeds
  <2>2. 1 \in Int /\ Len(typed) \in Int
    BY <1>2
  <2>3. IsFiniteSet(1 .. Len(typed))
    BY <2>2, FS_Interval
  <2>4. IsFiniteSet(LineFeeds(typed))
    BY <2>1, <2>3, FS_Subset
  <2> QED BY <2>4, FS_CardinalityType
<1>7. ASSUME NEW k \in 1 .. Len(ran) PROVE k \in 1 .. C /\ L(k) = ran[k]
  <2>1. k \in 1 .. Len(E) /\ k - 1 \in 0 .. Len(E)
    BY <1>3, <1>4
  <2>2. LineEnd(typed, k) = E[k] /\ LineStart(typed, E[k]) = Start(E, k - 1) /\ k <= C
    BY <1>1, <2>1, LineFound
  <2> DEFINE a == Start(E, k - 1)
             b == E[k] - 1
  <2>3. a \in Nat /\ a >= 1 /\ b \in Nat /\ b <= Len(typed)
    BY <1>2, <1>3, <2>1
  <2>4. Slice(ran[k], typed, a, b)
    BY <1>4
  <2>5. L(k) = SubSeq(typed, a, b)
    BY <2>2
  <2>6. ran[k] \in Seq(Keys \cup {LF}) /\ Len(ran[k]) \in Nat
    <3>1. ran[k] \in Seq(Keys \cup {LF})
      BY <1>4, Members
    <3> QED BY <3>1
  <2> HIDE DEF a, b
  <2>7. Len(ran[k]) = b + 1 - a /\ \A i \in 1 .. Len(ran[k]) : ran[k][i] = typed[a + i - 1]
    BY <2>4 DEF Slice
  <2>8. \A i \in a .. b : typed[i] \in Keys
    <3>1. \A i \in 1 .. Len(typed) : typed[i] \in Keys
      BY <1>2, Members
    <3> QED BY <1>2, <2>3, <3>1
  <2>9. /\ SubSeq(typed, a, b) \in Seq(Keys)
        /\ Len(SubSeq(typed, a, b)) = IF a <= b THEN b - a + 1 ELSE 0
        /\ \A i \in 1 .. b - a + 1 : SubSeq(typed, a, b)[i] = typed[a + i - 1]
    BY <2>3, <2>8, SubSeqProperties
  <2>10. b - a + 1 = Len(ran[k]) /\ b - a + 1 \in Nat
    BY <2>3, <2>6, <2>7
  <2>11. Len(SubSeq(typed, a, b)) = Len(ran[k])
    BY <2>3, <2>9, <2>10
  <2>12. \A i \in 1 .. Len(ran[k]) : SubSeq(typed, a, b)[i] = ran[k][i]
    BY <2>7, <2>9, <2>10
  <2>13. SubSeq(typed, a, b) = ran[k]
    <3>1. SubSeq(typed, a, b) \in Seq(Keys \cup {LF})
      BY <2>9, Widened
    <3>2. \A i \in 1 .. Len(SubSeq(typed, a, b)) : SubSeq(typed, a, b)[i] = ran[k][i]
      BY <2>11, <2>12
    <3> QED BY <2>6, <2>11, <3>1, <3>2, SeqEqual
  <2> QED BY <1>6, <2>1, <2>2, <2>5, <2>13
<1> HIDE DEF C, L
<1>8. Len(ran) <= C
  <2>1. CASE Len(ran) = 0
    BY <1>6, <2>1
  <2>2. CASE Len(ran) # 0
    <3>1. Len(ran) \in 1 .. Len(ran)
      BY <1>4, <2>2
    <3>2. Len(ran) \in 1 .. C
      BY <1>7, <3>1
    <3> QED BY <1>6, <3>2
  <2> QED BY <2>1, <2>2
<1>9. Lines(typed) \in Seq({L(k) : k \in 1 .. C}) /\ Len(Lines(typed)) = C
  BY <1>5, <1>6
<1> DEFINE n == Len(ran)
           t == Lines(typed)
<1>10. SubSeq(ran, 1, n) = SubSeq(t, 1, n)
  <2>1. \A i \in 1 .. n : ran[i] = t[i]
    BY <1>5, <1>7
  <2>2. n \in Nat
    BY <1>4
  <2> HIDE DEF n, t
  <2>3. SubSeq(ran, 1, n) = [i \in 1 .. n |-> ran[1 + i - 1]]
    BY <2>2
  <2>4. SubSeq(t, 1, n) = [i \in 1 .. n |-> t[1 + i - 1]]
    BY <2>2
  <2> QED BY <2>1, <2>2, <2>3, <2>4
<1> QED BY <1>8, <1>9, <1>10 DEF IsPrefix

\* Whatever the order of typing, printing and polling, if no character found
\* the FIFO full, the lines worked off are the lines typed, in order, for lines
\* and FIFOs of any length.
THEOREM LinesInOrder == Spec => []RanAsTyped
<1>1. Init => LineInv
  BY LinesNone DEF Init, Off
<1> QED BY <1>1, LinesKept, LinesInOrderInv, Inductive, PTL DEF Spec

=============================================================================
