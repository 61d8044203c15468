---------------------------- MODULE DevicesProof ----------------------------
(***************************************************************************)
(* Proofs about the console, for any sizes of its buffers, any number of   *)
(* readers and writers and whatever is typed: the circular input buffer is *)
(* a line that is edited and a queue of finished input (module LineInput), *)
(* no reader sleeps while there is finished input, an end-of-file is given *)
(* to one read, and the UART is not overrun.                               *)
(***************************************************************************)
EXTENDS Devices, RingTheorems, TLAPS

-----------------------------------------------------------------------------
(* A step of the system is a step of the console, or leaves it alone.      *)

\* A step of printf(), whoever calls it.
PrintStep == (\E p : CallPrintf(p)) \/ PrintPoll \/ PrintPut \/ PrintReturn

ConsoleStep ==
  \/ UartEnter \/ UartGet \/ EchoPoll \/ EchoPut \/ ConsoleIntr \/ UartTx \/ UartLeave
  \/ StartReturn \/ StartPoll \/ StartPut
  \/ \E p \in Writers : UartPutc(p) \/ WriteReturnsPart(p)
  \/ \E p \in Readers : ConsoleRead(p) \/ ReadSleep(p) \/ Kill(p)
  \/ PrintStep
  \/ Key \/ Sent
  \/ UNCHANGED cvars

\* The controller of plic.c and the disk only let the console take its steps.
LEMMA ConsoleSteps == [Next]_vars => ConsoleStep
<1> SUFFICES ASSUME [Next]_vars PROVE ConsoleStep
  BY ZenonT(30)
<1>1. CASE UNCHANGED vars
  BY <1>1, ZenonT(30) DEF vars, ConsoleStep
<1>2. ASSUME NEW irq \in Irqs, Interrupt(irq) PROVE ConsoleStep
  BY <1>2, ZenonT(30) DEF Interrupt, Signal, Claim, Handler, EndOfInterrupt, UartIntr, Printf, PrintStep, ConsoleStep
<1>3. ASSUME NEW p \in DiskProcs, Disk(p) PROVE ConsoleStep
  BY <1>3, ZenonT(30) DEF Disk, ConsoleStep
<1>4. ASSUME NEW p \in Readers, Reader(p) \/ Killer(p) PROVE ConsoleStep
  BY <1>4, ZenonT(30) DEF Reader, Killer, ConsoleStep
<1>5. ASSUME NEW p \in Writers, Writer(p) PROVE ConsoleStep
  BY <1>5, ZenonT(30) DEF Writer, WriterStep, ConsoleStep
<1>6. ASSUME NEW p \in Printers, Printer(p) PROVE ConsoleStep
  BY <1>6, ZenonT(30) DEF Printer, Printf, PrintStep, ConsoleStep
<1>7. CASE DiskDevice \/ Keyboard \/ Uart
  BY <1>7, ZenonT(30) DEF DiskDevice, Keyboard, Uart, ConsoleStep
<1> QED BY <1>1, <1>2, <1>3, <1>4, <1>5, <1>6, <1>7, ZenonT(30) DEF Next

-----------------------------------------------------------------------------
(* The input buffer of the console.                                        *)

\* What can be typed, and the values of the indices.
Typed == KeySet \cup {"\r", "^P", ""}
Index == 0 .. UINT - 1

ConsType == cons \in [buf : [0 .. INPUT_BUF_SIZE - 1 -> Typed], r : Index, w : Index, e : Index]

\* How much is between the indices.
ReadyLen == Minus(cons.w, cons.r)
LineLen == Minus(cons.e, cons.w)

\* It fits into the buffer.
Fits == ReadyLen + LineLen <= INPUT_BUF_SIZE

\* Ready and Line are what is in the buffer between the indices.
RingOK ==
  /\ IsChunk(Ready, cons.buf, INPUT_BUF_SIZE, Typed, cons.r, ReadyLen)
  /\ IsChunk(Line, cons.buf, INPUT_BUF_SIZE, Typed, cons.w, LineLen)

\* The parts of cons.
LEMMA ConsParts ==
  ASSUME ConsType
  PROVE  /\ cons.buf \in [0 .. INPUT_BUF_SIZE - 1 -> Typed]
         /\ cons.r \in Index /\ cons.w \in Index /\ cons.e \in Index
BY ZenonT(30) DEF ConsType

\* The difference of two indices that count modulo 2^32.
LEMMA MinusIs ==
  ASSUME NEW a \in Index, NEW b \in Index
  PROVE  Minus(b, a) = (IF a <= b THEN b - a ELSE b + UINT - a) /\ Minus(b, a) \in Index /\ Minus(b, a) \in Nat
<1>1. UINT \in Nat \ {0} /\ a \in 0 .. UINT - 1 /\ b \in 0 .. UINT - 1
  BY ConsoleAssumption DEF Index
<1>2. Minus(b, a) = IF a <= b THEN b - a ELSE b + UINT - a
  BY ONLY <1>1, CounterDistance, ZenonT(30) DEF Minus
<1> QED BY ONLY <1>1, <1>2 DEF Index

\* The part of the buffer between two indices.
LEMMA PartIs ==
  ASSUME ConsType, NEW a \in Index, NEW b \in Index
  PROVE  IsChunk(Part(a, b), cons.buf, INPUT_BUF_SIZE, Typed, a, Minus(b, a))
<1> DEFINE d == Minus(b, a)
<1>1. d \in Nat /\ d \in Index
  BY MinusIs, ZenonT(30)
<1>2. /\ UINT \in Nat \ {0} /\ INPUT_BUF_SIZE \in Nat \ {0} /\ UINT % INPUT_BUF_SIZE = 0
      /\ a \in 0 .. UINT - 1 /\ a \in Nat
  BY ConsoleAssumption DEF Index
<1>3. \A n \in 1 .. d : ((a + n - 1) % UINT) % INPUT_BUF_SIZE = (a + n - 1) % INPUT_BUF_SIZE
  <2> SUFFICES ASSUME NEW n \in 1 .. d
               PROVE  ((a + n - 1) % UINT) % INPUT_BUF_SIZE = (a + n - 1) % INPUT_BUF_SIZE
    BY ZenonT(30)
  <2> HIDE DEF d
  <2>1. PICK x \in 0 .. UINT + UINT - 1 : x = a + n - 1
    BY <1>1, <1>2 DEF Index
  <2>2. (x % UINT) % INPUT_BUF_SIZE = x % INPUT_BUF_SIZE
    BY ONLY <1>2, x \in 0 .. UINT + UINT - 1, RingWraps, ZenonT(30)
  <2> QED BY ONLY <2>1, <2>2, ZenonT(30)
<1>4. Part(a, b) = [n \in 1 .. d |-> cons.buf[(a + n - 1) % INPUT_BUF_SIZE]]
  BY ONLY <1>3 DEF Part
<1>5. cons.buf \in [0 .. INPUT_BUF_SIZE - 1 -> Typed]
  BY ConsParts, ZenonT(30)
<1> HIDE DEF d
<1>6. IsChunk(Part(a, b), cons.buf, INPUT_BUF_SIZE, Typed, a, d)
  BY ONLY <1>1, <1>2, <1>4, <1>5, ChunkFunction, ZenonT(30)
<1> QED BY <1>6, ZenonT(30) DEF d

\* In every state with the right types the two parts are such sequences.
LEMMA RingIs == ConsType => RingOK
BY ConsParts, PartIs, ZenonT(30) DEF RingOK, Ready, Line, ReadyLen, LineLen

-----------------------------------------------------------------------------
(* How far apart the indices are when one of them moves.                   *)

\* cons.e moves back by k.
LEMMA IndexBack ==
  ASSUME NEW a \in Index, NEW b \in Index, NEW k \in 0 .. Minus(b, a), NEW x, x = Minus(b, k)
  PROVE  x \in Index /\ Minus(x, a) = Minus(b, a) - k
<1>1. Minus(b, a) = (IF a <= b THEN b - a ELSE b + UINT - a) /\ Minus(b, a) \in Index
  BY MinusIs, ZenonT(30)
<1>2. UINT \in Nat \ {0}
  BY ConsoleAssumption
<1>3. k \in Index
  BY ONLY <1>1, <1>2, k \in 0 .. Minus(b, a) DEF Index
<1>4. x = (IF k <= b THEN b - k ELSE b + UINT - k) /\ x \in Index
  BY <1>3, MinusIs, ZenonT(30)
<1>5. Minus(x, a) = (IF a <= x THEN x - a ELSE x + UINT - a)
  BY <1>4, MinusIs, ZenonT(30)
<1> HIDE DEF Minus
<1> QED BY ONLY <1>1, <1>2, <1>3, <1>4, <1>5, a \in Index, b \in Index, k \in 0 .. Minus(b, a) DEF Index

\* cons.r moves on by k.
LEMMA IndexOn ==
  ASSUME NEW a \in Index, NEW b \in Index, NEW k \in 0 .. Minus(b, a), NEW x, x = (a + k) % UINT
  PROVE  x \in Index /\ Minus(b, x) = Minus(b, a) - k /\ (a + k = x \/ a + k = x + UINT)
<1>1. Minus(b, a) = (IF a <= b THEN b - a ELSE b + UINT - a) /\ Minus(b, a) \in Index
  BY MinusIs, ZenonT(30)
<1>2. UINT \in Nat \ {0}
  BY ConsoleAssumption
<1>3. PICK y \in 0 .. UINT + UINT - 1 : y = a + k
  BY ONLY <1>1, <1>2, a \in Index, k \in 0 .. Minus(b, a) DEF Index
<1>4. (y < UINT => y % UINT = y) /\ (~ (y < UINT) => y % UINT = y - UINT)
  BY ONLY <1>2, y \in 0 .. UINT + UINT - 1, ModOnce, ZenonT(30)
<1>5. (y < UINT => x = y) /\ (~ (y < UINT) => x = y - UINT)
  BY ONLY <1>3, <1>4, x = (a + k) % UINT, ZenonT(30)
<1>6. x \in Index /\ (a + k = x \/ a + k = x + UINT)
  BY ONLY <1>2, <1>3, <1>5, y \in 0 .. UINT + UINT - 1 DEF Index
<1>7. Minus(b, x) = (IF x <= b THEN b - x ELSE b + UINT - x)
  BY <1>6, MinusIs, ZenonT(30)
<1> QED BY ONLY <1>1, <1>2, <1>3, <1>5, <1>6, <1>7, a \in Index, b \in Index, k \in 0 .. Minus(b, a) DEF Index

\* cons.e moves on by one.
LEMMA IndexNext ==
  ASSUME NEW a \in Index, NEW b \in Index, Minus(b, a) < UINT - 1, NEW x, x = (b + 1) % UINT
  PROVE  x \in Index /\ Minus(x, a) = Minus(b, a) + 1
<1>1. Minus(b, a) = (IF a <= b THEN b - a ELSE b + UINT - a) /\ Minus(b, a) \in Index
  BY MinusIs, ZenonT(30)
<1>2. UINT \in Nat \ {0} /\ b \in 0 .. UINT - 1
  BY ConsoleAssumption DEF Index
<1>3. x = IF b = UINT - 1 THEN 0 ELSE b + 1
  BY ONLY <1>2, x = (b + 1) % UINT, CounterNext, ZenonT(30)
<1>4. x \in Index
  BY ONLY <1>2, <1>3 DEF Index
<1>5. Minus(x, a) = (IF a <= x THEN x - a ELSE x + UINT - a)
  BY <1>4, MinusIs, ZenonT(30)
<1> QED BY ONLY <1>1, <1>2, <1>3, <1>4, <1>5, a \in Index, b \in Index, Minus(b, a) < UINT - 1 DEF Index

\* What is between r and e is what is between r and w and between w and e.
LEMMA IndexSum ==
  ASSUME NEW a \in Index, NEW b \in Index, NEW c \in Index, Minus(b, a) + Minus(c, b) < UINT
  PROVE  /\ Minus(c, a) = Minus(b, a) + Minus(c, b)
         /\ a + Minus(b, a) = b \/ a + Minus(b, a) = b + UINT
         /\ a + Minus(c, a) = c \/ a + Minus(c, a) = c + UINT
<1>1. /\ Minus(b, a) = (IF a <= b THEN b - a ELSE b + UINT - a)
      /\ Minus(c, b) = (IF b <= c THEN c - b ELSE c + UINT - b)
      /\ Minus(c, a) = (IF a <= c THEN c - a ELSE c + UINT - a)
  BY MinusIs, ZenonT(30)
<1>2. UINT \in Nat \ {0}
  BY ConsoleAssumption
<1> QED BY ONLY <1>1, <1>2, a \in Index, b \in Index, c \in Index, Minus(b, a) + Minus(c, b) < UINT DEF Index

\* The parts of the buffer have lengths, and these leave room for the counters.
LEMMA LengthsAre ==
  ASSUME ConsType, Fits
  PROVE  /\ ReadyLen \in Nat /\ LineLen \in Nat
         /\ Minus(cons.e, cons.r) = ReadyLen + LineLen
         /\ cons.r + ReadyLen = cons.w \/ cons.r + ReadyLen = cons.w + UINT
         /\ cons.r + (ReadyLen + LineLen) = cons.e \/ cons.r + (ReadyLen + LineLen) = cons.e + UINT
         /\ cons.w + LineLen = cons.e \/ cons.w + LineLen = cons.e + UINT
         /\ Len(Ready) = ReadyLen /\ Len(Line) = LineLen /\ Ready \in Seq(Typed) /\ Line \in Seq(Typed)
<1>1. cons.r \in Index /\ cons.w \in Index /\ cons.e \in Index
  BY ConsParts, ZenonT(30)
<1>2. ReadyLen \in Nat /\ LineLen \in Nat
  BY <1>1, MinusIs, ZenonT(30) DEF ReadyLen, LineLen
<1>3. ReadyLen + LineLen < UINT /\ 0 + LineLen < UINT
  BY <1>2, ConsoleAssumption DEF Fits
<1>4. /\ Minus(cons.e, cons.r) = ReadyLen + LineLen
      /\ cons.r + ReadyLen = cons.w \/ cons.r + ReadyLen = cons.w + UINT
      /\ cons.r + Minus(cons.e, cons.r) = cons.e \/ cons.r + Minus(cons.e, cons.r) = cons.e + UINT
  BY ONLY <1>1, <1>3, IndexSum, ZenonT(30) DEF ReadyLen, LineLen
<1>5. cons.w + LineLen = cons.e \/ cons.w + LineLen = cons.e + UINT
  <2>1. LineLen = (IF cons.w <= cons.e THEN cons.e - cons.w ELSE cons.e + UINT - cons.w)
    BY <1>1, MinusIs, ZenonT(30) DEF LineLen
  <2> QED BY ONLY <1>1, <2>1, ConsoleAssumption DEF Index
<1>6. Len(Ready) = ReadyLen /\ Len(Line) = LineLen /\ Ready \in Seq(Typed) /\ Line \in Seq(Typed)
  BY RingIs, ZenonT(30) DEF RingOK, IsChunk
<1> QED BY ONLY <1>2, <1>4, <1>5, <1>6, ZenonT(30)

-----------------------------------------------------------------------------
(* What the code does to the indices is what it does to the line and to    *)
(* the finished input.                                                     *)

\* consoleintr() erases k characters: the line is shorter, finished input is not
\* touched.
LEMMA EraseIs ==
  ASSUME ConsType, Fits, NEW k \in 0 .. LineLen, cons' = [cons EXCEPT !.e = Minus(cons.e, k)]
  PROVE  /\ ConsType' /\ Fits' /\ Ready' = Ready /\ Line' = SubSeq(Line, 1, LineLen - k)
         /\ cons'.w = cons.w /\ cons'.r = cons.r
<1>1. /\ cons.buf \in [0 .. INPUT_BUF_SIZE - 1 -> Typed]
      /\ cons.r \in Index /\ cons.w \in Index /\ cons.e \in Index
  BY ConsParts, ZenonT(30)
<1>2. PICK x : x = Minus(cons.e, k)
  BY ZenonT(30)
<1>3. x \in Index /\ Minus(x, cons.w) = LineLen - k
  BY <1>1, <1>2, IndexBack, ZenonT(30) DEF LineLen
<1>4. /\ ConsType' /\ cons'.buf = cons.buf /\ cons'.r = cons.r /\ cons'.w = cons.w /\ cons'.e = x
  BY <1>2, <1>3, ZenonT(30) DEF ConsType
<1>5. ReadyLen' = ReadyLen /\ LineLen' = LineLen - k
  BY ONLY <1>3, <1>4, ZenonT(30) DEF ReadyLen, LineLen
<1>6. RingOK /\ RingOK'
  BY ONLY ConsType, <1>4, RingIs, PTL
<1>7. ReadyLen \in Nat /\ LineLen \in Nat
  BY LengthsAre, ZenonT(30)
<1>8. Fits'
  BY ONLY <1>5, <1>7, Fits, k \in 0 .. LineLen, ConsoleAssumption DEF Fits
<1>9. Ready' = Ready
  BY ONLY <1>4, <1>5, <1>6, ChunkOnly, ZenonT(30) DEF RingOK
<1>10. PICK n \in 0 .. LineLen : n = LineLen - k
  BY ONLY <1>7, k \in 0 .. LineLen
<1>11. IsChunk(SubSeq(Line, 1, n), cons.buf, INPUT_BUF_SIZE, Typed, cons.w, n)
  BY ONLY <1>6, n \in 0 .. LineLen, ChunkFront, ZenonT(30) DEF RingOK
<1>12. Line' = SubSeq(Line, 1, n)
  BY ONLY <1>4, <1>5, <1>6, <1>10, <1>11, ChunkOnly, ZenonT(30) DEF RingOK
<1> QED BY <1>4, <1>8, <1>9, <1>10, <1>12, ZenonT(30)

\* consoleread() takes k characters from the front of the finished input.
LEMMA TakeIs ==
  ASSUME ConsType, Fits, NEW k \in 0 .. ReadyLen, cons' = [cons EXCEPT !.r = (cons.r + k) % UINT]
  PROVE  /\ ConsType' /\ Fits' /\ Ready' = SubSeq(Ready, k + 1, ReadyLen) /\ Line' = Line
         /\ cons'.w = cons.w /\ ReadyLen' = ReadyLen - k
<1>1. /\ cons.buf \in [0 .. INPUT_BUF_SIZE - 1 -> Typed]
      /\ cons.r \in Index /\ cons.w \in Index /\ cons.e \in Index
  BY ConsParts, ZenonT(30)
<1>2. PICK x : x = (cons.r + k) % UINT
  BY ZenonT(30)
<1>3. x \in Index /\ Minus(cons.w, x) = ReadyLen - k /\ (cons.r + k = x \/ cons.r + k = x + UINT)
  <2>1. PICK a \in Index, b \in Index : a = cons.r /\ b = cons.w
    BY <1>1, ZenonT(30)
  <2>2. k \in 0 .. Minus(b, a) /\ x = (a + k) % UINT
    BY <1>2, <2>1, ZenonT(30) DEF ReadyLen
  <2>3. x \in Index /\ Minus(b, x) = Minus(b, a) - k /\ (a + k = x \/ a + k = x + UINT)
    BY ONLY a \in Index, b \in Index, <2>2, IndexOn
  <2> QED BY <2>1, <2>3, ZenonT(30) DEF ReadyLen
<1>4. /\ ConsType' /\ cons'.buf = cons.buf /\ cons'.r = x /\ cons'.w = cons.w /\ cons'.e = cons.e
  BY <1>2, <1>3, ZenonT(30) DEF ConsType
<1>5. ReadyLen' = ReadyLen - k /\ LineLen' = LineLen
  BY ONLY <1>3, <1>4, ZenonT(30) DEF ReadyLen, LineLen
<1>6. RingOK /\ RingOK'
  BY ONLY ConsType, <1>4, RingIs, PTL
<1>7. ReadyLen \in Nat /\ LineLen \in Nat
  BY LengthsAre, ZenonT(30)
<1>8. Fits'
  BY ONLY <1>5, <1>7, Fits, k \in 0 .. ReadyLen, ConsoleAssumption DEF Fits
<1>9. Line' = Line
  BY ONLY <1>4, <1>5, <1>6, ChunkOnly, ZenonT(30) DEF RingOK
<1>10. PICK c : c = SubSeq(Ready, k + 1, ReadyLen)
  BY ZenonT(30)
<1>11. IsChunk(c, cons.buf, INPUT_BUF_SIZE, Typed, cons.r + k, ReadyLen - k)
  BY ONLY <1>6, <1>10, k \in 0 .. ReadyLen, ChunkBack, ZenonT(30) DEF RingOK
<1>12. IsChunk(c, cons.buf, INPUT_BUF_SIZE, Typed, x, ReadyLen - k)
  <2>1. x \in Nat /\ UINT \in Nat /\ UINT % INPUT_BUF_SIZE = 0
    BY <1>3, ConsoleAssumption DEF Index
  <2> QED BY ONLY <1>3, <1>11, <2>1, ChunkTurn, ZenonT(30)
<1>13. Ready' = c
  BY ONLY <1>4, <1>5, <1>6, <1>12, ChunkOnly, ZenonT(30) DEF RingOK
<1> QED BY <1>4, <1>5, <1>8, <1>9, <1>10, <1>13, ZenonT(30)

\* consoleintr() stores c at the end of the line; if that ends it, all of it is
\* finished input.
LEMMA TypeIs ==
  ASSUME ConsType, Fits, ReadyLen + LineLen < INPUT_BUF_SIZE, NEW c \in Typed, NEW x, x = (cons.e + 1) % UINT,
         NEW ends \in BOOLEAN,
         cons' = [cons EXCEPT !.buf[cons.e % INPUT_BUF_SIZE] = c, !.e = x, !.w = IF ends THEN x ELSE @]
  PROVE  /\ ConsType' /\ Fits' /\ cons'.r = cons.r
         /\ Minus(x, cons.r) = ReadyLen + LineLen + 1
         /\ ends => Line' = <<>> /\ Ready' = Ready \o Append(Line, c)
         /\ ~ends => Line' = Append(Line, c) /\ Ready' = Ready /\ cons'.w = cons.w
<1> DEFINE d == [cons.buf EXCEPT ![cons.e % INPUT_BUF_SIZE] = c]
<1>1. /\ cons.buf \in [0 .. INPUT_BUF_SIZE - 1 -> Typed]
      /\ cons.r \in Index /\ cons.w \in Index /\ cons.e \in Index
  BY ConsParts, ZenonT(30)
<1>2. /\ ReadyLen \in Nat /\ LineLen \in Nat
      /\ Minus(cons.e, cons.r) = ReadyLen + LineLen
      /\ cons.r + ReadyLen = cons.w \/ cons.r + ReadyLen = cons.w + UINT
      /\ cons.r + (ReadyLen + LineLen) = cons.e \/ cons.r + (ReadyLen + LineLen) = cons.e + UINT
      /\ cons.w + LineLen = cons.e \/ cons.w + LineLen = cons.e + UINT
  BY LengthsAre, ZenonT(30)
<1>3. /\ UINT \in Nat /\ INPUT_BUF_SIZE \in Nat \ {0} /\ UINT % INPUT_BUF_SIZE = 0
      /\ UINT > INPUT_BUF_SIZE
  BY ConsoleAssumption
<1>4. /\ Minus(cons.e, cons.r) < UINT - 1 /\ Minus(cons.e, cons.w) < UINT - 1
  BY ONLY <1>2, <1>3, ReadyLen + LineLen < INPUT_BUF_SIZE DEF LineLen
<1>5. /\ x \in Index /\ Minus(x, cons.r) = Minus(cons.e, cons.r) + 1
      /\ Minus(x, cons.w) = LineLen + 1
  BY ONLY <1>1, <1>4, x = (cons.e + 1) % UINT, IndexNext, ZenonT(30) DEF LineLen
<1>6. /\ ConsType' /\ cons'.buf = d /\ cons'.r = cons.r /\ cons'.e = x
      /\ (ends => cons'.w = x) /\ (~ends => cons'.w = cons.w)
  BY <1>5, ZenonT(30) DEF ConsType
<1>7. RingOK /\ RingOK'
  BY ONLY ConsType, <1>6, RingIs, PTL
<1>8. \A i \in Nat, m \in Nat :
         (i + m = cons.e \/ i + m = cons.e + UINT) => d = [cons.buf EXCEPT ![(i + m) % INPUT_BUF_SIZE] = c]
  <2> SUFFICES ASSUME NEW i \in Nat, NEW m \in Nat, i + m = cons.e \/ i + m = cons.e + UINT
               PROVE  (i + m) % INPUT_BUF_SIZE = cons.e % INPUT_BUF_SIZE
    BY ZenonT(30)
  <2>1. PICK e \in Nat : e = cons.e
    BY ONLY <1>1, <1>3 DEF Index
  <2>2. (e + UINT) % INPUT_BUF_SIZE = e % INPUT_BUF_SIZE
    BY ONLY <1>3, e \in Nat, ModTimes, ZenonT(30)
  <2> QED BY <2>1, <2>2, ZenonT(30)
<1> HIDE DEF d
<1>9. cons.r \in Nat /\ cons.w \in Nat /\ ReadyLen + LineLen \in Nat /\ ReadyLen <= ReadyLen + LineLen /\ LineLen < INPUT_BUF_SIZE
  BY ONLY <1>1, <1>2, <1>3, ReadyLen + LineLen < INPUT_BUF_SIZE DEF Index
<1>10. PICK t \in Nat : t = ReadyLen + LineLen
  BY ONLY <1>9, ZenonT(30)
<1>11. IsChunk(Ready, d, INPUT_BUF_SIZE, Typed, cons.r, ReadyLen)
  <2>1. IsChunk(Ready, cons.buf, INPUT_BUF_SIZE, Typed, cons.r, ReadyLen)
    BY ONLY <1>7, ZenonT(30) DEF RingOK
  <2>2. d = [cons.buf EXCEPT ![(cons.r + t) % INPUT_BUF_SIZE] = c]
    BY ONLY <1>2, <1>8, <1>9, <1>10, ZenonT(30)
  <2> QED BY ONLY <2>1, <2>2, <1>9, <1>10, t \in Nat, c \in Typed, ReadyLen + LineLen < INPUT_BUF_SIZE, ChunkKept, ZenonT(30)
<1>12. IsChunk(Append(Line, c), d, INPUT_BUF_SIZE, Typed, cons.w, LineLen + 1)
  <2>1. IsChunk(Line, cons.buf, INPUT_BUF_SIZE, Typed, cons.w, LineLen)
    BY ONLY <1>7, ZenonT(30) DEF RingOK
  <2>2. d = [cons.buf EXCEPT ![(cons.w + LineLen) % INPUT_BUF_SIZE] = c]
    BY ONLY <1>2, <1>8, <1>9, ZenonT(30)
  <2> QED BY ONLY <2>1, <2>2, <1>9, c \in Typed, ChunkAppend, ZenonT(30)
<1>13. ASSUME ends
       PROVE  Fits' /\ Line' = <<>> /\ Ready' = Ready \o Append(Line, c)
  <2>1. cons'.w = x
    BY ONLY <1>6, <1>13, ZenonT(30)
  <2>2. LineLen' = 0
    <3>1. Minus(x, x) = IF x <= x THEN x - x ELSE x + UINT - x
      BY ONLY <1>5, MinusIs, ZenonT(30)
    <3>2. Minus(x, x) = 0
      BY ONLY <3>1, <1>5, <1>3 DEF Index
    <3> QED BY ONLY <3>2, <1>6, <2>1, ZenonT(30) DEF LineLen
  <2>3. ReadyLen' = Minus(x, cons.r)
    BY ONLY <1>6, <2>1, ZenonT(30) DEF ReadyLen
  <2>4. ReadyLen' = ReadyLen + (LineLen + 1)
    BY ONLY <2>3, <1>5, <1>2
  <2>5. Fits'
    BY ONLY <2>2, <2>4, <1>2, <1>3, ReadyLen + LineLen < INPUT_BUF_SIZE DEF Fits
  <2>6. Line' = <<>>
    <3>1. Line' \in Seq(Typed) /\ Len(Line') = 0
      BY ONLY <1>7, <2>2, ZenonT(30) DEF RingOK, IsChunk
    <3> QED BY ONLY <3>1
  <2>7. IsChunk(Append(Line, c), d, INPUT_BUF_SIZE, Typed, cons.r + ReadyLen, LineLen + 1)
    BY ONLY <1>2, <1>3, <1>9, <1>12, ChunkTurn, ZenonT(30)
  <2>8. IsChunk(Ready \o Append(Line, c), d, INPUT_BUF_SIZE, Typed, cons.r, ReadyLen + (LineLen + 1))
    BY ONLY <1>11, <2>7, ChunkJoin, ZenonT(30)
  <2>9. Ready' = Ready \o Append(Line, c)
    BY ONLY <1>6, <1>7, <2>4, <2>8, ChunkOnly, ZenonT(30) DEF RingOK
  <2> QED BY ONLY <2>5, <2>6, <2>9, ZenonT(30)
<1>14. ASSUME ~ends
       PROVE  Fits' /\ Line' = Append(Line, c) /\ Ready' = Ready /\ cons'.w = cons.w
  <2>1. cons'.w = cons.w
    BY ONLY <1>6, <1>14, ZenonT(30)
  <2>2. ReadyLen' = ReadyLen /\ LineLen' = LineLen + 1
    BY ONLY <1>5, <1>6, <2>1, ZenonT(30) DEF ReadyLen, LineLen
  <2>3. Fits'
    BY ONLY <2>2, <1>2, <1>3, ReadyLen + LineLen < INPUT_BUF_SIZE DEF Fits
  <2>4. Ready' = Ready
    BY ONLY <1>6, <1>7, <1>11, <2>2, ChunkOnly, ZenonT(30) DEF RingOK
  <2>5. Line' = Append(Line, c)
    BY ONLY <1>6, <1>7, <1>12, <2>1, <2>2, ChunkOnly, ZenonT(30) DEF RingOK
  <2> QED BY ONLY <2>1, <2>3, <2>4, <2>5, ZenonT(30)
<1>15. Minus(x, cons.r) = ReadyLen + LineLen + 1
  BY ONLY <1>2, <1>5
<1> QED BY ONLY <1>6, <1>13, <1>14, <1>15, ZenonT(30)

-----------------------------------------------------------------------------
(* The inductive invariant of the console.                                 *)

Results == Seq(Typed) \cup {<<"killed">>}
Want == [n : Nat, ok : Nat]
ReaderSet ==
  [pc : {"start", "read", "sleep", "asleep"}, reads : Seq(Want), got : Seq(Typed), res : Seq(Results)]
StarterSet == [who : {"none", "intr"} \cup Writers, pc : {"poll", "put"}]
PrinterFields == {"who", "text", "pc"}

\* The types of what the handlers and the readers work with.
ConsoleType ==
  /\ ConsType
  /\ keys \in Seq(Typed) /\ rx \in Seq(Typed)
  /\ DOMAIN cin = {"pc", "c", "echo"} /\ cin.c \in Typed
  /\ cin.pc \in {"off", "get", "echo", "put", "tx", "sending", "sent"}
  /\ rd \in [Readers -> ReaderSet]
  /\ start \in StarterSet
  /\ DOMAIN pr = PrinterFields

\* ^U goes back to the end of the line before: there is no newline in the line.
LineOpen == \A i \in 1 .. Len(Line) : Line[i] # "\n"

\* The handler holds cons.lock while it echoes: nobody is between looking at the
\* buffer and sleeping.
LockHeld == cin.pc \in {"echo", "put"} => \A p \in Readers : rd[p].pc # "sleep"

\* Who is going to sleep or sleeps has nothing to read.
NothingReady == \A p \in Readers : rd[p].pc \in {"sleep", "asleep"} => ReadyLen = 0

\* What a reader has got could be copied to it.
Copied == \A p \in Readers : rd[p].reads # <<>> => Len(rd[p].got) <= Head(rd[p].reads).ok

ConsoleInv == ConsoleType /\ Fits /\ LineOpen /\ LockHeld /\ NothingReady /\ Copied

\* A step of the line and the finished input that module LineInput allows.
LineStep == [lineInput!Next]_<<Line, Ready>>

\* ^U erases the whole line.
LEMMA KillCountIs ==
  ASSUME NEW S, Line \in Seq(S), LineOpen
  PROVE  KillCount = Len(Line)
<1> DEFINE n == Len(Line)
           Ok(k) == /\ k = n \/ Line[n - k] = "\n"
                    /\ \A i \in 0 .. k - 1 : Line[n - i] # "\n"
<1>1. n \in Nat
  OBVIOUS
<1>2. \A i \in 0 .. n - 1 : Line[n - i] # "\n"
  <2> SUFFICES ASSUME NEW i \in 0 .. n - 1 PROVE Line[n - i] # "\n"
    BY ZenonT(30)
  <2>1. n - i \in 1 .. n
    BY <1>1
  <2> QED BY <2>1, ZenonT(30) DEF LineOpen
<1>3. n \in 0 .. n /\ Ok(n)
  <2>1. n \in 0 .. n
    BY <1>1
  <2> QED BY <2>1, <1>2, ZenonT(30)
<1>4. KillCount = CHOOSE k \in 0 .. n : Ok(k)
  BY ZenonT(30) DEF KillCount
<1>5. KillCount \in 0 .. n /\ Ok(KillCount)
  BY <1>3, <1>4, ZenonT(30)
<1>6. KillCount = n \/ KillCount \in 0 .. n - 1
  BY ONLY <1>1, <1>5
<1> QED BY <1>2, <1>5, <1>6, ZenonT(30)

\* A step that leaves the buffer and the readers alone.
LEMMA QuietStep ==
  ASSUME ConsoleInv, cons' = cons, rd' = rd, ConsoleType', LockHeld'
  PROVE  ConsoleInv' /\ LineStep
<1>1. Line' = Line /\ Ready' = Ready
  BY ZenonT(30) DEF Line, Ready, Part
<1>2. ReadyLen' = ReadyLen /\ LineLen' = LineLen
  BY ZenonT(30) DEF ReadyLen, LineLen
<1>3. Fits' /\ LineOpen' /\ NothingReady' /\ Copied'
  BY <1>1, <1>2, ZenonT(30) DEF ConsoleInv, Fits, LineOpen, NothingReady, Copied
<1> QED BY <1>1, <1>3, ZenonT(30) DEF ConsoleInv, LineStep

\* Elements move from the keyboard to the UART and from there to consoleintr().
LEMMA QueueIs ==
  ASSUME NEW S, NEW s \in Seq(S), NEW t \in Seq(S), s # <<>>
  PROVE  Head(s) \in S /\ Tail(s) \in Seq(S) /\ Append(t, Head(s)) \in Seq(S)
OBVIOUS

\* The keyboard, the UART and uartstart() do not change the buffer, and uartgetc()
\* leads to consoleintr() only when nobody holds cons.lock.
LEMMA OtherSteps ==
  ASSUME ConsoleInv,
         \/ UartEnter \/ UartGet \/ EchoPoll \/ EchoPut \/ UartTx \/ UartLeave
         \/ StartReturn \/ StartPoll \/ StartPut
         \/ \E p \in Writers : UartPutc(p) \/ WriteReturnsPart(p)
         \/ PrintStep \/ Key \/ Sent \/ UNCHANGED cvars
  PROVE  ConsoleInv' /\ LineStep
<1>1. cons' = cons /\ rd' = rd
  BY ZenonT(30) DEF UartEnter, UartGet, EchoPoll, EchoPut, UartTx, UartLeave, StartReturn, StartPoll, StartPut,
                    UartPutc, WriteReturnsPart, PrintStep, CallPrintf, PrintPoll, PrintPut, PrintReturn, Key, Sent, cvars, invars
<1>2. /\ ConsType /\ keys \in Seq(Typed) /\ rx \in Seq(Typed)
      /\ DOMAIN cin = {"pc", "c", "echo"} /\ cin.c \in Typed
      /\ cin.pc \in {"off", "get", "echo", "put", "tx", "sending", "sent"}
      /\ rd \in [Readers -> ReaderSet] /\ start \in StarterSet /\ LockHeld
      /\ DOMAIN pr = PrinterFields
  BY ZenonT(30) DEF ConsoleInv, ConsoleType
<1>3. /\ keys # <<>> => Head(keys) \in Typed /\ Tail(keys) \in Seq(Typed) /\ Append(rx, Head(keys)) \in Seq(Typed)
      /\ rx # <<>> => Head(rx) \in Typed /\ Tail(rx) \in Seq(Typed)
  BY ONLY <1>2, QueueIs, ZenonT(30)
<1>4. ConsType' /\ rd' \in [Readers -> ReaderSet]
  BY ONLY <1>1, <1>2, ZenonT(30) DEF ConsType
<1>5. keys' \in Seq(Typed) /\ rx' \in Seq(Typed)
  BY <1>2, <1>3, ZenonT(30) DEF UartEnter, UartGet, EchoPoll, EchoPut, UartTx, UartLeave, StartReturn, StartPoll, StartPut,
                    UartPutc, WriteReturnsPart, PrintStep, CallPrintf, PrintPoll, PrintPut, PrintReturn, Key, Sent, cvars, invars
<1>6. start' \in StarterSet
  <2>1. \A q \in {"none", "intr"} \cup Writers : [who |-> q, pc |-> "poll"] \in StarterSet
    BY ZenonT(30) DEF StarterSet
  <2>2. CASE StartReturn \/ UartTx \/ \E p \in Writers : UartPutc(p)
    <3>1. start' = start \/ \E q \in {"none", "intr"} \cup Writers : start' = [who |-> q, pc |-> "poll"]
      BY <2>2, ZenonT(30) DEF StartReturn, UartTx, UartPutc
    <3> QED BY <1>2, <2>1, <3>1, ZenonT(30)
  <2>3. CASE StartPoll \/ StartPut
    <3>1. \E l \in {"poll", "put"} : start' = [start EXCEPT !.pc = l]
      BY <2>3, ZenonT(30) DEF StartPoll, StartPut
    <3> QED BY <1>2, <3>1, ZenonT(30) DEF StarterSet
  <2>4. CASE UartEnter \/ UartGet \/ EchoPoll \/ EchoPut \/ UartLeave \/ Key \/ Sent \/ UNCHANGED cvars
    BY <1>2, <2>4, ZenonT(30) DEF UartEnter, UartGet, EchoPoll, EchoPut, UartLeave, Key, Sent, cvars, outvars
  <2>5. CASE PrintStep \/ \E p \in Writers : WriteReturnsPart(p)
    BY <1>2, <2>5, ZenonT(30) DEF PrintStep, CallPrintf, PrintPoll, PrintPut, PrintReturn, WriteReturnsPart
  <2> QED BY <2>2, <2>3, <2>4, <2>5, ZenonT(30)
<1>7. /\ DOMAIN cin' = {"pc", "c", "echo"} /\ cin'.c \in Typed
      /\ cin'.pc \in {"off", "get", "echo", "put", "tx", "sending", "sent"}
  <2>1. CASE UartEnter \/ (UartGet /\ rx = <<>>) \/ EchoPoll \/ UartTx \/ UartLeave \/ StartReturn
    <3>1. \/ cin' = cin
          \/ \E l \in {"off", "get", "put", "tx", "sending", "sent"} : cin' = [cin EXCEPT !.pc = l]
      BY <2>1, ZenonT(30) DEF UartEnter, UartGet, EchoPoll, UartTx, UartLeave, StartReturn
    <3> QED BY <1>2, <3>1, ZenonT(30)
  <2>2. CASE UartGet /\ rx # <<>>
    <3>1. cin' = [pc |-> "echo", c |-> Head(rx), echo |-> Echo(Head(rx))]
      BY <2>2, ZenonT(30) DEF UartGet
    <3> QED BY <1>3, <2>2, <3>1, ZenonT(30)
  <2>3. CASE EchoPut
    <3>1. cin' = [cin EXCEPT !.pc = "echo", !.echo = Tail(@)]
      BY <2>3, ZenonT(30) DEF EchoPut
    <3> QED BY <1>2, <3>1, ZenonT(30)
  <2>4. CASE StartPoll \/ StartPut \/ (\E p \in Writers : UartPutc(p)) \/ Key \/ Sent \/ UNCHANGED cvars
    BY <1>2, <2>4, ZenonT(30) DEF StartPoll, StartPut, UartPutc, Key, Sent, cvars
  <2>5. CASE PrintStep \/ \E p \in Writers : WriteReturnsPart(p)
    BY <1>2, <2>5, ZenonT(30) DEF PrintStep, CallPrintf, PrintPoll, PrintPut, PrintReturn, WriteReturnsPart
  <2> QED BY <2>1, <2>2, <2>3, <2>4, <2>5, ZenonT(30)
<1>8. LockHeld'
  <2>1. cin'.pc \in {"echo", "put"} => cin.pc \in {"echo", "put"} \/ ~ConsLocked
    BY <1>2, ZenonT(30) DEF UartEnter, UartGet, EchoPoll, EchoPut, UartTx, UartLeave, StartReturn, StartPoll, StartPut,
                    UartPutc, WriteReturnsPart, PrintStep, CallPrintf, PrintPoll, PrintPut, PrintReturn, Key, Sent, cvars
  <2> QED BY <1>1, <1>2, <2>1, ZenonT(30) DEF LockHeld, ConsLocked
<1>9. DOMAIN pr' = PrinterFields
  <2>1. CASE PrintStep
    <3>1. \/ \E p, t : pr' = [who |-> p, text |-> t, pc |-> "poll"]
          \/ \E l : pr' = [pr EXCEPT !.pc = l]
          \/ \E l, t : pr' = [pr EXCEPT !.pc = l, !.text = t]
          \/ \E l : pr' = [pr EXCEPT !.who = l]
      BY <2>1, ZenonT(30) DEF PrintStep, CallPrintf, PrintPoll, PrintPut, PrintReturn
    <3> QED BY <1>2, <3>1, ZenonT(30) DEF PrinterFields
  <2>2. CASE ~PrintStep
    BY <1>2, <2>2, ZenonT(30) DEF UartEnter, UartGet, EchoPoll, EchoPut, UartTx, UartLeave, StartReturn, StartPoll,
                      StartPut, UartPutc, WriteReturnsPart, Key, Sent, cvars, outvars
  <2> QED BY <2>1, <2>2, ZenonT(30)
<1> QED BY <1>1, <1>4, <1>5, <1>6, <1>7, <1>8, <1>9, QuietStep, ZenonT(30) DEF ConsoleType

\* The types after a step of consoleintr().
LEMMA IntrType ==
  ASSUME ConsoleType, ConsoleIntr, ConsType', rd' \in [Readers -> ReaderSet]
  PROVE  ConsoleType' /\ LockHeld'
<1>1. /\ cin' = [pc |-> "get", c |-> "", echo |-> <<>>] /\ UNCHANGED <<keys, rx, start, pr>>
  BY ZenonT(30) DEF ConsoleIntr, outvars
<1>2. DOMAIN cin' = {"pc", "c", "echo"} /\ cin'.c = "" /\ cin'.pc = "get"
  BY ONLY <1>1, ZenonT(30)
<1>3. "" \in Typed
  BY ZenonT(30) DEF Typed
<1> QED BY <1>1, <1>2, <1>3, ZenonT(30) DEF ConsoleType, LockHeld

\* consoleintr() edits the line, or hands it over and wakes whoever waits for it.
LEMMA IntrStep ==
  ASSUME ConsoleInv, ConsoleIntr
  PROVE  ConsoleInv' /\ LineStep
<1>1. /\ ConsoleType /\ ConsType /\ Fits /\ LineOpen /\ LockHeld /\ NothingReady /\ Copied
      /\ rd \in [Readers -> ReaderSet] /\ cin.c \in Typed
  BY ZenonT(30) DEF ConsoleInv, ConsoleType
<1>2. /\ ReadyLen \in Nat /\ LineLen \in Nat /\ Minus(cons.e, cons.r) = ReadyLen + LineLen
      /\ Len(Ready) = ReadyLen /\ Len(Line) = LineLen /\ Ready \in Seq(Typed) /\ Line \in Seq(Typed)
  BY ONLY <1>1, LengthsAre, ZenonT(30)
<1>3. cin.pc = "echo" /\ UNCHANGED killed
  BY ZenonT(30) DEF ConsoleIntr
<1>4. CASE cons' = cons /\ rd' = rd
  <2>1. ConsType'
    BY ONLY <1>1, <1>4, ZenonT(30) DEF ConsType
  <2> QED BY <1>1, <1>4, <2>1, IntrType, QuietStep, ZenonT(30)
<1>5. ASSUME NEW k \in 0 .. LineLen, cons' = [cons EXCEPT !.e = Minus(cons.e, k)], rd' = rd
      PROVE  /\ ConsoleInv' /\ Ready' = Ready /\ Line' = SubSeq(Line, 1, LineLen - k)
  <2>1. /\ ConsType' /\ Fits' /\ Ready' = Ready /\ Line' = SubSeq(Line, 1, LineLen - k)
        /\ cons'.w = cons.w /\ cons'.r = cons.r
    BY ONLY <1>1, <1>5, EraseIs, ZenonT(30)
  <2>2. LineOpen'
    <3>1. \A i \in 1 .. Len(Line') : i \in 1 .. Len(Line) /\ Line'[i] = Line[i]
      BY ONLY <1>2, <2>1, k \in 0 .. LineLen
    <3> QED BY ONLY <1>1, <3>1, ZenonT(30) DEF LineOpen
  <2>3. NothingReady' /\ Copied'
    BY ONLY <1>1, <1>5, <2>1, ZenonT(30) DEF NothingReady, Copied, ReadyLen
  <2> QED BY <1>1, <1>5, <2>1, <2>2, <2>3, IntrType, ZenonT(30) DEF ConsoleInv
<1>6. CASE cin.c = "^U"
  <2>1. cons' = [cons EXCEPT !.e = Minus(cons.e, KillCount)] /\ rd' = rd
    BY <1>6, ZenonT(30) DEF ConsoleIntr
  <2>2. KillCount = LineLen
    BY ONLY <1>1, <1>2, KillCountIs, ZenonT(30)
  <2>3. LineLen \in 0 .. LineLen
    BY ONLY <1>2
  <2>4. ConsoleInv' /\ Ready' = Ready /\ Line' = SubSeq(Line, 1, LineLen - LineLen)
    BY ONLY <1>5, <2>1, <2>2, <2>3, ZenonT(30)
  <2>5. SubSeq(Line, 1, LineLen - LineLen) = <<>>
    BY ONLY <1>2
  <2> QED BY <2>4, <2>5, ZenonT(30) DEF LineStep, lineInput!Next, lineInput!EraseLine
<1>7. CASE cin.c = "^H" /\ Editable
  <2>1. cons' = [cons EXCEPT !.e = Minus(cons.e, 1)] /\ rd' = rd
    BY <1>7, ZenonT(30) DEF ConsoleIntr
  <2>2. LineLen # 0
    <3>1. cons.e \in Index /\ cons.w \in Index /\ cons.e # cons.w
      BY <1>1, <1>7, ConsParts, ZenonT(30) DEF Editable
    <3>2. LineLen = (IF cons.w <= cons.e THEN cons.e - cons.w ELSE cons.e + UINT - cons.w)
      BY ONLY <3>1, MinusIs, ZenonT(30) DEF LineLen
    <3> QED BY ONLY <3>1, <3>2, ConsoleAssumption DEF Index
  <2>3. 1 \in 0 .. LineLen /\ Line # <<>>
    BY ONLY <1>2, <2>2
  <2>4. ConsoleInv' /\ Ready' = Ready /\ Line' = SubSeq(Line, 1, LineLen - 1)
    BY ONLY <1>5, <2>1, <2>3, ZenonT(30)
  <2> QED BY <1>2, <2>3, <2>4, ZenonT(30) DEF LineStep, lineInput!Next, lineInput!Erase
<1>8. CASE cin.c \notin {"^P", "^U", "^H"} /\ Cr(cin.c) # "" /\ ~Full
  <2> DEFINE c == Cr(cin.c)
  <2>1. PICK x : x = (cons.e + 1) % UINT
    BY ZenonT(30)
  <2>2. PICK ends \in BOOLEAN : ends <=> EndsLine(c, x)
    BY ZenonT(30)
  <2>3. /\ cons' = [cons EXCEPT !.buf[cons.e % INPUT_BUF_SIZE] = c, !.e = x, !.w = IF ends THEN x ELSE @]
        /\ rd' = IF ends THEN [p \in Readers |->
                       IF rd[p].pc = "asleep" THEN [rd[p] EXCEPT !.pc = "read"] ELSE rd[p]]
                 ELSE rd
    BY <1>8, <2>1, <2>2, ZenonT(30) DEF ConsoleIntr, Wakes
  <2>4. c \in KeySet /\ c \in Typed
    BY <1>1, <1>8, ZenonT(30) DEF Typed, KeySet, Cr
  <2>5. ReadyLen + LineLen < INPUT_BUF_SIZE
    <3>1. ReadyLen + LineLen # INPUT_BUF_SIZE /\ ReadyLen + LineLen <= INPUT_BUF_SIZE
      BY <1>1, <1>2, <1>8, ZenonT(30) DEF Full, Fits
    <3> QED BY ONLY <1>2, <3>1, ConsoleAssumption
  <2> HIDE DEF c
  <2>6. /\ ConsType' /\ Fits' /\ cons'.r = cons.r
        /\ Minus(x, cons.r) = ReadyLen + LineLen + 1
        /\ ends => Line' = <<>> /\ Ready' = Ready \o Append(Line, c)
        /\ ~ends => Line' = Append(Line, c) /\ Ready' = Ready /\ cons'.w = cons.w
    BY ONLY <1>1, <2>1, <2>3, <2>4, <2>5, ends \in BOOLEAN, TypeIs, ZenonT(30)
  <2>7. /\ rd' \in [Readers -> ReaderSet]
        /\ \A p \in Readers : rd'[p].got = rd[p].got /\ rd'[p].reads = rd[p].reads
        /\ ends => \A p \in Readers : rd'[p].pc \notin {"sleep", "asleep"}
        /\ ~ends => rd' = rd
    <3>1. CASE ~ends
      BY ONLY <1>1, <2>3, <3>1, ZenonT(30)
    <3>2. CASE ends
      <4>1. \A p \in Readers : rd[p].pc # "sleep"
        BY ONLY <1>1, <1>3, ZenonT(30) DEF LockHeld
      <4>2. \A y \in ReaderSet : /\ [y EXCEPT !.pc = "read"] \in ReaderSet
                                 /\ [y EXCEPT !.pc = "read"].pc = "read"
                                 /\ [y EXCEPT !.pc = "read"].got = y.got
                                 /\ [y EXCEPT !.pc = "read"].reads = y.reads
        BY ZenonT(30) DEF ReaderSet
      <4>3. /\ DOMAIN rd' = Readers
            /\ \A p \in Readers : rd[p] \in ReaderSet /\ rd'[p] = IF rd[p].pc = "asleep" THEN [rd[p] EXCEPT !.pc = "read"] ELSE rd[p]
            /\ rd' = [p \in Readers |-> rd'[p]]
        BY ONLY <1>1, <2>3, <3>2, ZenonT(30)
      <4>4. \A p \in Readers :
              /\ rd'[p] \in ReaderSet /\ rd'[p].got = rd[p].got /\ rd'[p].reads = rd[p].reads
              /\ rd'[p].pc \notin {"sleep", "asleep"}
        <5> SUFFICES ASSUME NEW p \in Readers
                     PROVE  /\ rd'[p] \in ReaderSet /\ rd'[p].got = rd[p].got /\ rd'[p].reads = rd[p].reads
                            /\ rd'[p].pc \notin {"sleep", "asleep"}
          BY ZenonT(30)
        <5>1. /\ rd[p] \in ReaderSet /\ rd[p].pc # "sleep"
              /\ rd'[p] = IF rd[p].pc = "asleep" THEN [rd[p] EXCEPT !.pc = "read"] ELSE rd[p]
          BY ONLY <4>1, <4>3, p \in Readers, ZenonT(30)
        <5>2. CASE rd[p].pc = "asleep"
          <6>1. PICK y \in ReaderSet : y = [rd[p] EXCEPT !.pc = "read"]
            BY ONLY <4>2, <5>1, ZenonT(30)
          <6>2. rd'[p] = y /\ y.pc = "read" /\ y.got = rd[p].got /\ y.reads = rd[p].reads
            BY ONLY <4>2, <5>1, <5>2, <6>1, ZenonT(30)
          <6>3. "read" \notin {"sleep", "asleep"}
            BY ONLY ZenonT(30)
          <6> QED BY ONLY <6>2, <6>3, y \in ReaderSet, ZenonT(30)
        <5>3. CASE rd[p].pc # "asleep"
          BY ONLY <5>1, <5>3, ZenonT(30)
        <5> QED BY ONLY <5>2, <5>3, ZenonT(30)
      <4> QED BY ONLY <3>2, <4>3, <4>4, ZenonT(30)
    <3> QED BY ONLY <3>1, <3>2, ZenonT(30)
  <2>8. ConsoleType' /\ LockHeld'
    BY <1>1, <2>6, <2>7, IntrType, ZenonT(30)
  <2>9. NothingReady' /\ Copied'
    BY ONLY <1>1, <2>6, <2>7, ZenonT(30) DEF NothingReady, Copied, ReadyLen
  <2>10. ends <=> c \in {"\n", "^D"} \/ ReadyLen + LineLen + 1 = INPUT_BUF_SIZE
    BY ONLY <2>2, <2>6, ZenonT(30) DEF EndsLine
  <2>11. LineOpen'
    <3>1. CASE ends
      <4>1. Line' = <<>>
        BY ONLY <2>6, <3>1, ZenonT(30)
      <4> QED BY ONLY <4>1 DEF LineOpen
    <3>2. CASE ~ends
      <4>1. Line' = Append(Line, c) /\ c # "\n"
        BY ONLY <2>6, <2>10, <3>2, ZenonT(30)
      <4>2. \A i \in 1 .. Len(Line') : Line'[i] = c \/ (i \in 1 .. Len(Line) /\ Line'[i] = Line[i])
        BY ONLY <4>1, <1>2, <2>4
      <4> QED BY ONLY <1>1, <4>1, <4>2, ZenonT(30) DEF LineOpen
    <3> QED BY ONLY <3>1, <3>2, ZenonT(30)
  <2>12. /\ Len(Line) + Len(Ready) < INPUT_BUF_SIZE
         /\ ends <=> (c \in {"\n", "^D"} \/ Len(Line) + Len(Ready) + 1 = INPUT_BUF_SIZE)
    <3>1. ReadyLen + LineLen = Len(Line) + Len(Ready)
      BY ONLY <1>2
    <3> QED BY ONLY <2>5, <2>10, <3>1, ZenonT(30)
  <2>13. lineInput!Type(c)
    BY ONLY <2>6, <2>12, ends \in BOOLEAN, ZenonT(30) DEF lineInput!Type
  <2>14. LineStep
    BY ONLY <2>4, <2>13, ZenonT(30) DEF LineStep, lineInput!Next
  <2> QED BY ONLY <2>6, <2>8, <2>9, <2>11, <2>14, ZenonT(30) DEF ConsoleInv
<1>9. CASE cin.c = "^P" \/ (cin.c = "^H" /\ ~Editable) \/ (cin.c \notin {"^P", "^U", "^H"} /\ (Cr(cin.c) = "" \/ Full))
  <2>1. cons' = cons /\ rd' = rd
    BY <1>9, ZenonT(30) DEF ConsoleIntr
  <2> QED BY <1>4, <2>1, ZenonT(30)
<1> QED BY <1>6, <1>7, <1>8, <1>9, ZenonT(30)

-----------------------------------------------------------------------------
(* consoleread()                                                           *)

\* A read returns r.
LEMMA ReadReturns ==
  ASSUME rd \in [Readers -> ReaderSet], NEW p \in Readers, rd[p].reads # <<>>, NEW r \in Results,
         rd' = [rd EXCEPT ![p] = [pc |-> "start", reads |-> Tail(@.reads), got |-> <<>>, res |-> Append(@.res, r)]]
  PROVE  /\ rd' \in [Readers -> ReaderSet] /\ \A q \in Readers \ {p} : rd'[q] = rd[q]
         /\ rd'[p].pc = "start" /\ rd'[p].got = <<>> /\ rd'[p].reads \in Seq(Want)
         /\ rd'[p].res[Len(rd'[p].res)] = r
<1>1. rd[p].reads \in Seq(Want) /\ rd[p].res \in Seq(Results)
  BY ZenonT(30) DEF ReaderSet
<1>2. Tail(rd[p].reads) \in Seq(Want)
  BY ONLY <1>1, rd[p].reads # <<>>
<1>3. /\ Append(rd[p].res, r) \in Seq(Results) /\ Append(rd[p].res, r)[Len(Append(rd[p].res, r))] = r
  BY ONLY <1>1, r \in Results
<1>4. <<>> \in Seq(Typed)
  OBVIOUS
<1> DEFINE y == [pc |-> "start", reads |-> Tail(rd[p].reads), got |-> <<>>, res |-> Append(rd[p].res, r)]
<1>5. y \in ReaderSet
  BY ONLY <1>2, <1>3, <1>4, ZenonT(30) DEF ReaderSet
<1>6. rd' = [rd EXCEPT ![p] = y]
  BY ZenonT(30)
<1>7. y.pc = "start" /\ y.got = <<>> /\ y.reads = Tail(rd[p].reads) /\ y.res = Append(rd[p].res, r)
  BY ONLY ZenonT(30)
<1> HIDE DEF y
<1>8. /\ rd' \in [Readers -> ReaderSet] /\ rd'[p] = y /\ \A q \in Readers \ {p} : rd'[q] = rd[q]
  BY <1>5, <1>6, ZenonT(30)
<1> QED BY ONLY <1>2, <1>3, <1>7, <1>8, ZenonT(30)

\* A read that has to wait.
LEMMA ReadWaits ==
  ASSUME rd \in [Readers -> ReaderSet], NEW p \in Readers, NEW g \in Seq(Typed),
         rd' = [rd EXCEPT ![p].pc = "sleep", ![p].got = g]
  PROVE  /\ rd' \in [Readers -> ReaderSet] /\ \A q \in Readers \ {p} : rd'[q] = rd[q]
         /\ rd'[p].got = g /\ rd'[p].reads = rd[p].reads /\ rd'[p].res = rd[p].res
<1>1. /\ \A q \in Readers \ {p} : rd'[q] = rd[q]
      /\ rd'[p] = [rd[p] EXCEPT !.pc = "sleep", !.got = g]
      /\ rd' = [q \in Readers |-> rd'[q]]
  BY ZenonT(30)
<1>2. rd[p] \in ReaderSet
  BY ZenonT(30)
<1>3. /\ rd'[p] \in ReaderSet
      /\ rd'[p].got = g /\ rd'[p].reads = rd[p].reads /\ rd'[p].res = rd[p].res
  BY ONLY <1>1, <1>2, g \in Seq(Typed), ZenonT(30) DEF ReaderSet
<1> QED BY <1>1, <1>3, ZenonT(30)

\* What a reader has after it has taken m characters.
LEMMA JoinIs ==
  ASSUME NEW S, NEW g \in Seq(S), NEW s \in Seq(S), NEW m \in 0 .. Len(s)
  PROVE  g \o SubSeq(s, 1, m) \in Seq(S) /\ Len(g \o SubSeq(s, 1, m)) = Len(g) + m /\ Len(g) \in Nat
<1>1. SubSeq(s, 1, m) \in Seq(S) /\ Len(SubSeq(s, 1, m)) = m
  OBVIOUS
<1> QED BY ONLY <1>1, g \in Seq(S)

\* What the step of a reader may return, as EofOnce says.
EofStep ==
  \A p \in Readers :
    rd'[p].res # rd[p].res /\ Head(rd[p].reads).n > 0 /\ Head(rd[p].reads).ok > 0 =>
      (rd'[p].res[Len(rd'[p].res)] = <<>> <=> Ready # <<>> /\ Ready[1] = "^D" /\ cons'.r # cons.r
                                   /\ rd[p].got = <<>>)

\* consoleread() takes up to one line, gives it back or sleeps with nothing left.
LEMMA ReadStep ==
  ASSUME ConsoleInv, NEW p \in Readers, ConsoleRead(p)
  PROVE  ConsoleInv' /\ LineStep /\ EofStep
<1> DEFINE want == Head(rd[p].reads)
           got == rd[p].got
<1>1. /\ ConsoleType /\ ConsType /\ Fits /\ LineOpen /\ LockHeld /\ NothingReady /\ Copied
      /\ rd \in [Readers -> ReaderSet]
  BY ZenonT(30) DEF ConsoleInv, ConsoleType
<1>2. /\ ReadyLen \in Nat
      /\ Len(Ready) = ReadyLen /\ Ready \in Seq(Typed) /\ Line \in Seq(Typed)
  BY ONLY <1>1, LengthsAre, ZenonT(30)
<1> DEFINE eof(k) == k > 0 /\ Ready[k] = "^D"
           bad(k) == k > 0 /\ ~eof(k) /\ Len(got) + k > want.ok
           all(k) == got \o SubSeq(Ready, 1, IF eof(k) \/ bad(k) THEN k - 1 ELSE k)
           done(k) == eof(k) \/ bad(k) \/ Len(all(k)) = want.n \/ (k > 0 /\ Ready[k] = "\n")
           return(r) == [rd EXCEPT ![p] =
                           [pc |-> "start", reads |-> Tail(@.reads), got |-> <<>>, res |-> Append(@.res, r)]]
<1>3. PICK k \in 0 .. Len(Ready) :
        /\ Stops(p, k) /\ \A i \in 0 .. k - 1 : ~Stops(p, i)
        /\ cons' = [cons EXCEPT !.r = (@ + (IF eof(k) /\ SavesEof(all(k)) THEN k - 1 ELSE k)) % UINT]
        /\ rd' = IF done(k) THEN return(all(k))
                 ELSE IF p \in killed THEN return(<<"killed">>)
                 ELSE [rd EXCEPT ![p].pc = "sleep", ![p].got = all(k)]
  BY ZenonT(30) DEF ConsoleRead
<1>4. rd[p].reads # <<>> /\ ~ConsLocked /\ UNCHANGED <<keys, rx, cin, start, pr>>
  BY ZenonT(30) DEF ConsoleRead, outvars
<1>5. got \in Seq(Typed) /\ rd[p].reads \in Seq(Want)
  BY <1>1, ZenonT(30) DEF ReaderSet
<1>6. want \in Want
  BY ONLY <1>4, <1>5
<1>7. want.n \in Nat /\ want.ok \in Nat
  BY ONLY <1>6, ZenonT(30) DEF Want
<1>8. \A i \in 1 .. k - 1 : Ready[i] \notin {"\n", "^D"}
  <2> SUFFICES ASSUME NEW i \in 1 .. k - 1 PROVE Ready[i] \notin {"\n", "^D"}
    BY ZenonT(30)
  <2>1. i \in 0 .. k - 1 /\ i > 0
    BY ONLY i \in 1 .. k - 1, k \in 0 .. Len(Ready), <1>2
  <2> QED BY <1>3, <2>1, ZenonT(30) DEF Stops
<1>9. PICK m \in 0 .. ReadyLen : m = IF eof(k) \/ bad(k) THEN k - 1 ELSE k
  BY ONLY <1>2, k \in 0 .. Len(Ready)
<1>10. all(k) \in Seq(Typed) /\ Len(all(k)) = Len(got) + m /\ Len(got) \in Nat
  <2>1. all(k) = got \o SubSeq(Ready, 1, m)
    BY ONLY <1>9, ZenonT(30)
  <2>2. m \in 0 .. Len(Ready)
    BY ONLY <1>2, m \in 0 .. ReadyLen, ZenonT(30)
  <2> HIDE DEF all
  <2> QED BY ONLY <1>2, <1>5, <2>1, <2>2, JoinIs, ZenonT(30)
<1>11. PICK j \in 0 .. ReadyLen : j = IF eof(k) /\ SavesEof(all(k)) THEN k - 1 ELSE k
  <2> HIDE DEF all
  <2> QED BY ONLY <1>2, k \in 0 .. Len(Ready)
<1>12. cons' = [cons EXCEPT !.r = (cons.r + j) % UINT]
  BY ONLY <1>3, <1>11, ZenonT(30)
<1>13. /\ ConsType' /\ Fits' /\ Ready' = SubSeq(Ready, j + 1, ReadyLen) /\ Line' = Line
       /\ cons'.w = cons.w /\ ReadyLen' = ReadyLen - j
  BY ONLY <1>1, <1>12, j \in 0 .. ReadyLen, TakeIs, ZenonT(30)
<1>14. j <= k /\ j <= ReadyLen /\ k \in Nat /\ j \in Nat /\ m \in Nat /\ (j = k \/ j = k - 1)
  <2> HIDE DEF all
  <2> QED BY ONLY <1>2, <1>9, <1>11, k \in 0 .. Len(Ready), j \in 0 .. ReadyLen, m \in 0 .. ReadyLen
<1>15. ASSUME j = 0 PROVE LineStep
  <2>1. Ready' = SubSeq(Ready, 1, Len(Ready))
    BY ONLY <1>2, <1>13, <1>15
  <2>2. Ready' = Ready
    BY ONLY <1>2, <2>1
  <2> QED BY ONLY <1>13, <2>2, ZenonT(30) DEF LineStep
<1>16. ASSUME j # 0 PROVE LineStep
  <2>1. j \in 1 .. Len(Ready) /\ j \in 1 .. INPUT_BUF_SIZE
    <3>1. ReadyLen <= INPUT_BUF_SIZE
      <4>1. LineLen \in Nat
        BY ONLY <1>1, LengthsAre, ZenonT(30)
      <4> QED BY ONLY <1>1, <1>2, <4>1, ConsoleAssumption DEF Fits
    <3> QED BY ONLY <1>2, <1>16, <3>1, j \in 0 .. ReadyLen, ConsoleAssumption
  <2>2. \A i \in 1 .. j - 1 : Ready[i] # "\n"
    <3>1. \A i \in 1 .. j - 1 : i \in 1 .. k - 1
      BY ONLY <1>14
    <3> QED BY ONLY <1>8, <3>1, ZenonT(30)
  <2>3. ASSUME NEW i \in 1 .. j, Ready[i] = "^D" PROVE j = 1
    <3>1. i \in 1 .. k - 1 \/ (i = k /\ j = k /\ k > 0)
      BY ONLY <1>14, i \in 1 .. j
    <3>2. i = k /\ j = k /\ k > 0
      BY ONLY <1>8, <2>3, <3>1, ZenonT(30)
    <3>3. eof(k)
      BY ONLY <2>3, <3>2, ZenonT(30)
    <3>4. m = k - 1 /\ (SavesEof(all(k)) => j = k - 1)
      BY ONLY <1>9, <1>11, <3>3, ZenonT(30)
    <3>5. all(k) = <<>>
      <4> HIDE DEF all
      <4>1. ~SavesEof(all(k))
        BY ONLY <1>14, <3>2, <3>4
      <4> QED BY ONLY <4>1, ZenonT(30) DEF SavesEof
    <3>6. Len(all(k)) = 0
      <4> HIDE DEF all
      <4> QED BY ONLY <3>5
    <3> HIDE DEF all
    <3> QED BY ONLY <1>10, <1>14, <3>2, <3>4, <3>6
  <2>4. lineInput!Take(j)
    BY ONLY <1>2, <1>13, <2>1, <2>2, <2>3, ZenonT(30) DEF lineInput!Take
  <2> QED BY ONLY <2>1, <2>4, ZenonT(30) DEF LineStep, lineInput!Next
<1>17. ASSUME ~done(k) PROVE j = ReadyLen /\ Len(all(k)) <= want.ok
  <2>1. ~eof(k) /\ ~bad(k) /\ Len(all(k)) # want.n /\ ~ (k > 0 /\ Ready[k] = "\n")
    BY ONLY <1>17, ZenonT(30)
  <2>2. m = k /\ j = k
    BY ONLY <1>9, <1>11, <2>1, ZenonT(30)
  <2>3. k > 0 => ~ (Len(got) + k > want.ok) /\ Ready[k] \notin {"\n", "^D"}
    BY ONLY <2>1, ZenonT(30)
  <2>4. Len(got) <= want.ok
    BY ONLY <1>1, <1>4, p \in Readers, ZenonT(30) DEF Copied
  <2>5. \/ k = Len(Ready)
        \/ Len(got) + k = want.n \/ Len(got) + k = want.ok + 1
        \/ k > 0 /\ Ready[k] \in {"\n", "^D"}
    BY ONLY <1>3, ZenonT(30) DEF Stops
  <2>6. Len(all(k)) = Len(got) + k /\ Len(got) + k # want.n
    BY ONLY <1>10, <2>1, <2>2, ZenonT(30)
  <2> HIDE DEF all, got, want
  <2>7. k = Len(Ready) /\ Len(got) + k <= want.ok
    BY ONLY <1>7, <1>10, <1>14, <2>3, <2>4, <2>5, <2>6
  <2> QED BY ONLY <1>2, <2>2, <2>6, <2>7, ZenonT(30)
<1>18. all(k) \in Results /\ <<"killed">> \in Results
  BY ONLY <1>10, ZenonT(30) DEF Results
<1> DEFINE Returned(r) ==
             /\ rd'[p].pc = "start" /\ rd'[p].got = <<>> /\ rd'[p].reads \in Seq(Want)
             /\ rd'[p].res[Len(rd'[p].res)] = r
           Waits ==
             /\ rd'[p].got = all(k) /\ rd'[p].reads = rd[p].reads /\ rd'[p].res = rd[p].res
<1>19. /\ rd' \in [Readers -> ReaderSet] /\ \A q \in Readers \ {p} : rd'[q] = rd[q]
       /\ \/ done(k) /\ Returned(all(k))
          \/ ~done(k) /\ Returned(<<"killed">>)
          \/ ~done(k) /\ Waits
  <2>1. CASE done(k)
    <3>1. rd' = return(all(k))
      BY ONLY <1>3, <2>1, ZenonT(30)
    <3> HIDE DEF all
    <3> QED BY ONLY <1>1, <1>4, <1>18, <2>1, <3>1, p \in Readers, ReadReturns, ZenonT(30)
  <2>2. CASE ~done(k) /\ p \in killed
    <3>1. rd' = return(<<"killed">>)
      BY ONLY <1>3, <2>2, ZenonT(30)
    <3> QED BY ONLY <1>1, <1>4, <1>18, <2>2, <3>1, p \in Readers, ReadReturns, ZenonT(30)
  <2>3. CASE ~done(k) /\ p \notin killed
    <3>1. rd' = [rd EXCEPT ![p].pc = "sleep", ![p].got = all(k)]
      BY ONLY <1>3, <2>3, ZenonT(30)
    <3> HIDE DEF all
    <3> QED BY ONLY <1>1, <1>10, <2>3, <3>1, p \in Readers, ReadWaits, ZenonT(30)
  <2> QED BY ONLY <2>1, <2>2, <2>3, ZenonT(30)
<1>20. ConsoleType' /\ LockHeld'
  <2>1. ConsoleType'
    BY <1>1, <1>4, <1>13, <1>19, ZenonT(30) DEF ConsoleType
  <2>2. LockHeld'
    BY <1>4, ZenonT(30) DEF LockHeld, ConsLocked
  <2> QED BY <2>1, <2>2, ZenonT(30)
<1>21. NothingReady'
  <2> SUFFICES ASSUME NEW q \in Readers, rd'[q].pc \in {"sleep", "asleep"} PROVE ReadyLen' = 0
    BY ZenonT(30) DEF NothingReady
  <2>1. CASE q = p
    <3>1. ~done(k)
      BY ONLY <1>19, <2>1, rd'[q].pc \in {"sleep", "asleep"}, ZenonT(30)
    <3>2. j = ReadyLen
      BY ONLY <1>17, <3>1, ZenonT(30)
    <3> QED BY ONLY <1>2, <1>13, <3>2
  <2>2. CASE q # p
    <3>1. ReadyLen = 0
      BY ONLY <1>1, <1>19, <2>2, q \in Readers, rd'[q].pc \in {"sleep", "asleep"}, ZenonT(30) DEF NothingReady
    <3>2. PICK l \in Nat : l = ReadyLen
      BY ONLY <1>2, ZenonT(30)
    <3>3. l = 0 /\ j <= l
      BY ONLY <1>14, <3>1, <3>2, ZenonT(30)
    <3>4. l - j = 0
      BY ONLY <1>14, <3>3
    <3> QED BY ONLY <1>13, <3>2, <3>4, ZenonT(30)
  <2> QED BY <2>1, <2>2, ZenonT(30)
<1>22. Copied'
  <2> SUFFICES ASSUME NEW q \in Readers, rd'[q].reads # <<>>
               PROVE  Len(rd'[q].got) <= Head(rd'[q].reads).ok
    BY ZenonT(30) DEF Copied
  <2>1. CASE q # p
    BY ONLY <1>1, <1>19, <2>1, q \in Readers, rd'[q].reads # <<>>, ZenonT(30) DEF Copied
  <2>2. CASE q = p /\ ~done(k) /\ Waits
    <3>1. Len(all(k)) <= want.ok
      BY ONLY <1>17, <2>2, ZenonT(30)
    <3> QED BY ONLY <2>2, <3>1, ZenonT(30)
  <2>3. CASE q = p /\ \E r : Returned(r)
    <3>1. rd'[p].got = <<>> /\ rd'[p].reads \in Seq(Want) /\ rd'[p].reads # <<>>
      BY <2>3, ZenonT(30)
    <3>2. PICK z : z = Head(rd'[p].reads)
      BY ZenonT(30)
    <3>3. z \in Want
      BY ONLY <3>1, <3>2
    <3>4. z.ok \in Nat
      BY ONLY <3>3, ZenonT(30) DEF Want
    <3>5. Len(rd'[p].got) <= z.ok
      BY ONLY <3>1, <3>4
    <3> QED BY ONLY <2>3, <3>2, <3>5, ZenonT(30)
  <2> QED BY ONLY <1>19, <2>1, <2>2, <2>3, ZenonT(30)
<1>23. LineOpen'
  BY ONLY <1>1, <1>13, ZenonT(30) DEF LineOpen
<1>24. EofStep
  <2> SUFFICES ASSUME NEW q \in Readers, rd'[q].res # rd[q].res, Head(rd[q].reads).n > 0, Head(rd[q].reads).ok > 0
               PROVE  rd'[q].res[Len(rd'[q].res)] = <<>> <=> Ready # <<>> /\ Ready[1] = "^D" /\ cons'.r # cons.r
                                                             /\ rd[q].got = <<>>
    BY ZenonT(30) DEF EofStep
  <2>1. q = p /\ want.n > 0 /\ want.ok > 0
    BY ONLY <1>19, q \in Readers, rd'[q].res # rd[q].res, Head(rd[q].reads).n > 0, Head(rd[q].reads).ok > 0, ZenonT(30)
  <2>2. PICK r : /\ rd'[p].res[Len(rd'[p].res)] = r
                 /\ \/ done(k) /\ r = all(k)
                    \/ ~done(k) /\ r = <<"killed">>
    BY ONLY <1>19, <2>1, rd'[q].res # rd[q].res, ZenonT(30)
  <2>3. ASSUME r = <<>>
        PROVE  Ready # <<>> /\ Ready[1] = "^D" /\ cons'.r # cons.r /\ got = <<>>
    <3>1. done(k) /\ all(k) = <<>>
      <4>1. <<"killed">> # <<>>
        BY ONLY TRUE
      <4> QED BY ONLY <2>2, <2>3, <4>1, ZenonT(30)
    <3>2. Len(all(k)) = 0
      <4> HIDE DEF all
      <4> QED BY ONLY <3>1
    <3>3. m = 0 /\ Len(got) = 0
      <4> HIDE DEF all, got
      <4>1. PICK x \in Nat : x = Len(got)
        BY ONLY <1>10, ZenonT(30)
      <4>2. x + m = 0 /\ m \in Nat
        BY ONLY <1>10, <1>14, <3>2, <4>1, ZenonT(30)
      <4>3. m = 0 /\ x = 0
        BY ONLY x \in Nat, <4>2
      <4> QED BY ONLY <4>1, <4>3, ZenonT(30)
    <3>4. ~bad(k) /\ Len(all(k)) # want.n /\ (eof(k) \/ k = 0)
      <4> HIDE DEF all, got, want
      <4> QED BY ONLY <1>7, <1>9, <1>14, <2>1, <3>2, <3>3
    <3>5. eof(k)
      <4>1. \/ eof(k) \/ (k > 0 /\ Ready[k] = "\n")
        BY ONLY <3>1, <3>4, ZenonT(30)
      <4> HIDE DEF all, got, want
      <4> QED BY ONLY <1>14, <3>4, <4>1
    <3>6. m = k - 1 /\ j = k
      <4>1. ~SavesEof(all(k))
        BY ONLY <3>1, ZenonT(30) DEF SavesEof
      <4> QED BY ONLY <1>9, <1>11, <3>5, <4>1, ZenonT(30)
    <3>7. k = 1
      BY ONLY <1>14, <3>3, <3>6
    <3>8. Ready[1] = "^D" /\ Ready # <<>>
      <4>1. Ready[1] = "^D" /\ 1 \in 0 .. Len(Ready)
        BY ONLY <3>5, <3>7, k \in 0 .. Len(Ready), ZenonT(30)
      <4> QED BY ONLY <1>2, <4>1
    <3>9. cons'.r # cons.r
      <4>1. ReadyLen' = ReadyLen - 1
        BY ONLY <1>13, <3>6, <3>7, ZenonT(30)
      <4>2. ReadyLen' # ReadyLen
        BY ONLY <1>2, <4>1
      <4> QED BY ONLY <1>13, <4>2, ZenonT(30) DEF ReadyLen
    <3>10. got = <<>>
      <4> HIDE DEF got
      <4> QED BY ONLY <1>5, <3>3
    <3> QED BY ONLY <3>8, <3>9, <3>10, ZenonT(30)
  <2>4. ASSUME Ready # <<>>, Ready[1] = "^D", cons'.r # cons.r, got = <<>>
        PROVE  r = <<>>
    <3>1. j # 0
      <4> SUFFICES ASSUME j = 0 PROVE FALSE
        BY ZenonT(30)
      <4>1. cons.r \in Index
        BY ONLY <1>1, ConsParts, ZenonT(30)
      <4>2. PICK a \in 0 .. UINT - 1 : a = cons.r
        BY ONLY <4>1, ZenonT(30) DEF Index
      <4>3. a % UINT = a /\ a + 0 = a
        <5>1. UINT \in Nat \ {0} /\ a + 0 = a
          BY ConsoleAssumption
        <5> QED BY ONLY <5>1, a \in 0 .. UINT - 1, ModSmall, ZenonT(30)
      <4>4. cons' = [cons EXCEPT !.r = a]
        BY ONLY <1>12, <4>2, <4>3, j = 0, ZenonT(30)
      <4>5. cons'.r = a
        BY ONLY <1>1, <4>4, ZenonT(30) DEF ConsType
      <4> QED BY ONLY <2>4, <4>2, <4>5, ZenonT(30)
    <3>2. k = 1 \/ 1 \in 1 .. k - 1
      BY ONLY <1>14, <3>1
    <3>3. k = 1
      BY ONLY <1>8, <2>4, <3>2, ZenonT(30)
    <3>4. eof(k)
      <4>1. 1 > 0
        BY ONLY TRUE
      <4> QED BY ONLY <2>4, <3>3, <4>1, ZenonT(30)
    <3>5. m = k - 1 /\ done(k)
      BY ONLY <1>9, <3>4, ZenonT(30)
    <3>6. all(k) = <<>>
      <4>1. Len(got) = 0
        BY ONLY <2>4
      <4> HIDE DEF all, got
      <4>2. Len(all(k)) = 0
        BY ONLY <1>10, <1>14, <3>3, <3>5, <4>1
      <4> QED BY ONLY <1>10, <4>2
    <3> QED BY ONLY <2>2, <3>5, <3>6, ZenonT(30)
  <2> QED BY ONLY <2>1, <2>2, <2>3, <2>4, ZenonT(30)
<1> QED BY <1>13, <1>14, <1>15, <1>16, <1>20, <1>21, <1>22, <1>23, <1>24, ZenonT(30) DEF ConsoleInv

-----------------------------------------------------------------------------
(* All steps of the console.                                               *)

\* sleep() and kill() change only where a reader is, and it sleeps only if it was
\* going to.
LEMMA PlaceStep ==
  ASSUME ConsoleInv, NEW p \in Readers, ReadSleep(p) \/ Kill(p)
  PROVE  ConsoleInv' /\ LineStep /\ EofStep
<1>1. /\ ConsoleType /\ Fits /\ LineOpen /\ LockHeld /\ NothingReady /\ Copied
      /\ rd \in [Readers -> ReaderSet]
  BY ZenonT(30) DEF ConsoleInv, ConsoleType
<1>2. UNCHANGED <<cons, keys, rx, cin, start, pr>>
  BY ZenonT(30) DEF ReadSleep, Kill, outvars
<1>3. \E l \in {"start", "read", "sleep", "asleep"} :
        /\ rd' = [rd EXCEPT ![p].pc = l]
        /\ l = "sleep" => rd[p].pc = "sleep"
        /\ l = "asleep" => rd[p].pc = "sleep" \/ rd[p].pc = "asleep"
  <2>1. CASE ReadSleep(p)
    BY <2>1, ZenonT(30) DEF ReadSleep
  <2>2. CASE Kill(p)
    <3>1. rd[p].pc \in {"start", "read", "sleep", "asleep"}
      BY <1>1, ZenonT(30) DEF ReaderSet
    <3>2. PICK l \in {"start", "read", "sleep", "asleep"} :
            /\ l = (IF rd[p].pc = "asleep" THEN "read" ELSE rd[p].pc)
      BY <3>1, ZenonT(30)
    <3>3. rd' = [rd EXCEPT ![p].pc = l]
      BY <2>2, <3>2, ZenonT(30) DEF Kill
    <3> QED BY <3>2, <3>3, ZenonT(30)
  <2> QED BY <2>1, <2>2, ZenonT(30)
<1>4. /\ rd' \in [Readers -> ReaderSet]
      /\ \A q \in Readers : /\ rd'[q].got = rd[q].got /\ rd'[q].reads = rd[q].reads /\ rd'[q].res = rd[q].res
                            /\ rd'[q].pc = "sleep" => rd[q].pc = "sleep"
                            /\ rd'[q].pc = "asleep" => rd[q].pc \in {"sleep", "asleep"}
  <2>1. PICK l \in {"start", "read", "sleep", "asleep"} :
        /\ rd' = [rd EXCEPT ![p].pc = l]
        /\ l = "sleep" => rd[p].pc = "sleep"
        /\ l = "asleep" => rd[p].pc = "sleep" \/ rd[p].pc = "asleep"
    BY <1>3, ZenonT(30)
  <2>2. /\ \A q \in Readers \ {p} : rd'[q] = rd[q]
        /\ rd'[p] = [rd[p] EXCEPT !.pc = l]
        /\ rd' = [q \in Readers |-> rd'[q]]
    BY ONLY <1>1, <2>1, p \in Readers, ZenonT(30)
  <2>3. rd[p] \in ReaderSet
    BY ONLY <1>1, p \in Readers, ZenonT(30)
  <2>4. /\ rd'[p] \in ReaderSet /\ rd'[p].pc = l
        /\ rd'[p].got = rd[p].got /\ rd'[p].reads = rd[p].reads /\ rd'[p].res = rd[p].res
    BY ONLY <2>2, <2>3, l \in {"start", "read", "sleep", "asleep"}, ZenonT(30) DEF ReaderSet
  <2> QED BY ONLY <1>1, <2>1, <2>2, <2>4, p \in Readers, ZenonT(30)
<1>5. ConsoleType'
  BY ONLY <1>1, <1>2, <1>4, ZenonT(30) DEF ConsoleType, ConsType
<1>6. LockHeld'
  BY ONLY <1>1, <1>2, <1>4, ZenonT(30) DEF LockHeld
<1>7. Line' = Line /\ Ready' = Ready
  BY ONLY <1>2, ZenonT(30) DEF Line, Ready, Part
<1>8. ReadyLen' = ReadyLen /\ LineLen' = LineLen
  BY ONLY <1>2, ZenonT(30) DEF ReadyLen, LineLen
<1>9. Fits' /\ LineOpen'
  BY ONLY <1>1, <1>7, <1>8, ZenonT(30) DEF Fits, LineOpen
<1>10. NothingReady' /\ Copied'
  BY ONLY <1>1, <1>4, <1>8, ZenonT(30) DEF NothingReady, Copied
<1> QED BY ONLY <1>4, <1>5, <1>6, <1>7, <1>9, <1>10, ZenonT(30) DEF ConsoleInv, LineStep, EofStep

\* consoleintr() returns nothing to a reader, it only wakes it.
LEMMA IntrReturnsNothing ==
  ASSUME ConsoleInv, ConsoleIntr
  PROVE  EofStep
<1>1. rd \in [Readers -> ReaderSet]
  BY ZenonT(30) DEF ConsoleInv, ConsoleType
<1>2. \/ rd' = rd
      \/ rd' = [p \in Readers |-> IF rd[p].pc = "asleep" THEN [rd[p] EXCEPT !.pc = "read"] ELSE rd[p]]
  BY ZenonT(30) DEF ConsoleIntr
<1>3. \A y \in ReaderSet : [y EXCEPT !.pc = "read"].res = y.res
  BY ZenonT(30) DEF ReaderSet
<1>4. \A p \in Readers : rd'[p].res = rd[p].res
  BY ONLY <1>1, <1>2, <1>3, ZenonT(30)
<1> QED BY ONLY <1>4, ZenonT(30) DEF EofStep

\* Every step keeps the invariant, is a step of LineInput and returns an
\* end-of-file as it should.
LEMMA ConsoleInvStep == ConsoleInv /\ ConsoleStep => ConsoleInv' /\ LineStep /\ EofStep
<1> SUFFICES ASSUME ConsoleInv, ConsoleStep PROVE ConsoleInv' /\ LineStep /\ EofStep
  BY ZenonT(30)
<1>1. CASE ConsoleIntr
  BY <1>1, IntrStep, IntrReturnsNothing, ZenonT(30)
<1>2. ASSUME NEW p \in Readers, ConsoleRead(p) PROVE ConsoleInv' /\ LineStep /\ EofStep
  BY <1>2, ReadStep, ZenonT(30)
<1>3. ASSUME NEW p \in Readers, ReadSleep(p) \/ Kill(p) PROVE ConsoleInv' /\ LineStep /\ EofStep
  BY <1>3, PlaceStep, ZenonT(30)
<1>4. CASE \/ UartEnter \/ UartGet \/ EchoPoll \/ EchoPut \/ UartTx \/ UartLeave
           \/ StartReturn \/ StartPoll \/ StartPut
           \/ \E p \in Writers : UartPutc(p) \/ WriteReturnsPart(p)
           \/ PrintStep \/ Key \/ Sent \/ UNCHANGED cvars
  <2>1. ConsoleInv' /\ LineStep
    BY <1>4, OtherSteps, ZenonT(30)
  <2>2. rd' = rd
    BY <1>4, ZenonT(30) DEF UartEnter, UartGet, EchoPoll, EchoPut, UartTx, UartLeave, StartReturn, StartPoll,
                            StartPut, UartPutc, WriteReturnsPart, PrintStep, CallPrintf, PrintPoll, PrintPut, PrintReturn, Key, Sent, cvars, invars
  <2> QED BY <2>1, <2>2, ZenonT(30) DEF EofStep
<1> QED BY <1>1, <1>2, <1>3, <1>4, ZenonT(30) DEF ConsoleStep

\* It holds after consoleinit().
LEMMA ConsoleInvInit == Init => ConsoleInv /\ Line = <<>> /\ Ready = <<>>
<1> SUFFICES ASSUME Init PROVE ConsoleInv /\ Line = <<>> /\ Ready = <<>>
  BY ZenonT(30)
<1>1. PICK w \in Workloads : ConsoleInit(w.console)
  BY ZenonT(30) DEF Init
<1>2. w.console.keys \in Seq(Typed) /\ w.console.reads \in [Readers -> Seq(Want)]
  BY WorkloadAssumption, ZenonT(30) DEF Typed, Want
<1>3. 0 \in Index /\ UINT \in Nat
  BY ConsoleAssumption DEF Index
<1>4. "" \in Typed
  BY ZenonT(30) DEF Typed
<1>5. cons = [buf |-> [i \in 0 .. INPUT_BUF_SIZE - 1 |-> ""], r |-> 0, w |-> 0, e |-> 0]
  BY <1>1, ZenonT(30) DEF ConsoleInit
<1>6. ConsType /\ cons.r = 0 /\ cons.w = 0 /\ cons.e = 0
  BY ONLY <1>3, <1>4, <1>5, ZenonT(30) DEF ConsType
<1>7. Minus(0, 0) = 0
  <2>1. Minus(0, 0) = IF 0 <= 0 THEN 0 - 0 ELSE 0 + UINT - 0
    BY ONLY <1>3, MinusIs, ZenonT(30)
  <2> QED BY ONLY <2>1
<1>8. ReadyLen = 0 /\ LineLen = 0
  BY ONLY <1>6, <1>7, ZenonT(30) DEF ReadyLen, LineLen
<1>9. Fits
  BY ONLY <1>8, ConsoleAssumption DEF Fits
<1>10. Ready = <<>> /\ Line = <<>>
  <2>1. Ready \in Seq(Typed) /\ Line \in Seq(Typed) /\ Len(Ready) = 0 /\ Len(Line) = 0
    BY ONLY <1>6, <1>8, <1>9, LengthsAre, ZenonT(30)
  <2> QED BY ONLY <2>1
<1>11. keys \in Seq(Typed) /\ rx \in Seq(Typed)
  <2>1. <<>> \in Seq(Typed)
    OBVIOUS
  <2> QED BY <1>1, <1>2, <2>1, ZenonT(30) DEF ConsoleInit
<1>12. DOMAIN cin = {"pc", "c", "echo"} /\ cin.c \in Typed /\ cin.pc = "off"
  BY <1>1, <1>4, ZenonT(30) DEF ConsoleInit
<1>13. start \in StarterSet /\ DOMAIN pr = PrinterFields
  BY <1>1, ZenonT(30) DEF ConsoleInit, StarterSet, PrinterFields
<1>14. /\ rd \in [Readers -> ReaderSet]
       /\ \A p \in Readers : rd[p].pc = "start" /\ rd[p].got = <<>> /\ rd[p].reads \in Seq(Want)
  <2>1. <<>> \in Seq(Typed) /\ <<>> \in Seq(Results)
    OBVIOUS
  <2>2. rd = [p \in Readers |-> [pc |-> "start", reads |-> w.console.reads[p], got |-> <<>>, res |-> <<>>]]
    BY <1>1, ZenonT(30) DEF ConsoleInit
  <2>3. \A p \in Readers : w.console.reads[p] \in Seq(Want)
    BY ONLY <1>2, ZenonT(30)
  <2>4. \A s \in Seq(Want) : [pc |-> "start", reads |-> s, got |-> <<>>, res |-> <<>>] \in ReaderSet
    BY ONLY <2>1, ZenonT(30) DEF ReaderSet
  <2> QED BY ONLY <2>2, <2>3, <2>4, ZenonT(30)
<1>15. ConsoleType
  BY ONLY <1>6, <1>11, <1>12, <1>13, <1>14, ZenonT(30) DEF ConsoleType
<1>16. LockHeld /\ NothingReady
  BY ONLY <1>8, <1>12, <1>14, ZenonT(30) DEF LockHeld, NothingReady
<1>17. LineOpen
  BY ONLY <1>10 DEF LineOpen
<1>18. Copied
  <2> SUFFICES ASSUME NEW p \in Readers, rd[p].reads # <<>> PROVE Len(rd[p].got) <= Head(rd[p].reads).ok
    BY ZenonT(30) DEF Copied
  <2>1. PICK z : z = Head(rd[p].reads)
    BY ZenonT(30)
  <2>2. rd[p].reads \in Seq(Want) /\ rd[p].got = <<>>
    BY ONLY <1>14, p \in Readers, ZenonT(30)
  <2>3. z \in Want
    BY ONLY <2>1, <2>2, rd[p].reads # <<>>
  <2>4. z.ok \in Nat
    BY ONLY <2>3, ZenonT(30) DEF Want
  <2>5. Len(rd[p].got) <= z.ok
    BY ONLY <2>2, <2>4
  <2> QED BY ONLY <2>1, <2>5, ZenonT(30)
<1> QED BY ONLY <1>9, <1>10, <1>15, <1>16, <1>17, <1>18, ZenonT(30) DEF ConsoleInv

-----------------------------------------------------------------------------
\* consoleread() and consoleintr(): nobody sleeps while there is finished input,
\* however a line that arrives coincides with a reader about to sleep; and the
\* indices and places stay what they are meant to be.
THEOREM NobodySleepsOnInput == Spec => []ReadersAwake
<1>1. ConsoleInv => ReadersAwake
  <2> SUFFICES ASSUME ConsoleInv PROVE ReadersAwake
    BY ZenonT(30)
  <2>1. ConsoleType /\ ConsType /\ Fits /\ NothingReady /\ rd \in [Readers -> ReaderSet] /\ start \in StarterSet
    BY ZenonT(30) DEF ConsoleInv, ConsoleType
  <2>2. Len(Ready) = ReadyLen /\ Ready \in Seq(Typed)
    BY ONLY <2>1, LengthsAre, ZenonT(30)
  <2>3. ReadyLen = 0 => Ready = <<>>
    BY ONLY <2>2
  <2>4. {cons.r, cons.w, cons.e} \subseteq 0 .. UINT - 1
    BY ONLY <2>1, ConsParts, ZenonT(30) DEF Index
  <2>5. start.who \in {"none", "intr"} \cup Writers
    BY ONLY <2>1, ZenonT(30) DEF StarterSet
  <2>6. \A p \in Readers : rd[p].pc \in {"start", "read", "sleep", "asleep"}
    BY ONLY <2>1, ZenonT(30) DEF ReaderSet
  <2>7. ConsoleTypeOK
    BY <2>1, <2>4, <2>5, <2>6, ZenonT(30) DEF ConsoleTypeOK, ConsoleType, Fits, ReadyLen, LineLen
  <2> QED BY ONLY <2>1, <2>3, <2>7, ZenonT(30) DEF ReadersAwake, NothingReady
<1> QED BY <1>1, ConsoleInvInit, ConsoleInvStep, ConsoleSteps, PTL DEF Spec

\* The circular buffer with its three indices that wrap around implements module
\* LineInput: ^H and ^U of consoleintr() never reach finished input, and
\* consoleread() takes one line at a time, from the front.
THEOREM ConsoleImplementsLineInput == Spec => RefinesLineInput
<1>1. Init => lineInput!Init
  BY ConsoleInvInit, ZenonT(30) DEF lineInput!Init
<1>2. ConsoleInv /\ ConsoleStep => ConsoleInv' /\ [lineInput!Next]_<<Line, Ready>>
  BY ConsoleInvStep, ZenonT(30) DEF LineStep
<1> QED BY <1>1, <1>2, ConsoleInvInit, ConsoleSteps, PTL DEF Spec, RefinesLineInput, lineInput!Spec

\* consoleread() returns nothing exactly when it takes an end-of-file: cons.r--
\* keeps one that comes after other input for the next read.
THEOREM EofIsGivenOnce == Spec => EofOnce
<1>1. ConsoleInv /\ ConsoleStep => ConsoleInv' /\ EofStep
  BY ConsoleInvStep, ZenonT(30)
<1>2. EofStep => [EofStep]_cvars
  OBVIOUS
<1> QED BY <1>1, <1>2, ConsoleInvInit, ConsoleSteps, PTL DEF Spec, EofOnce, EofStep

-----------------------------------------------------------------------------
(* The UART is never given more than it can take.                          *)

\* Who has seen the UART idle and is going to write to it.
Puts(x) == IF x.pc = "put" THEN 1 ELSE 0

\* What the UART sends and what it is about to be given: one byte by the echo of
\* consoleintr(), one by uartstart() and one by printf(), whatever the others have
\* just written.
FifoInv ==
  /\ \E S : fifo \in Seq(S)
  /\ Len(fifo) + Puts(cin) + Puts(start) + Puts(pr) <= 3

\* A byte more or less for the UART.
LEMMA FifoLen ==
  ASSUME NEW S, fifo \in Seq(S)
  PROVE  /\ Len(fifo) \in Nat
         /\ fifo = <<>> => Len(fifo) = 0
         /\ \A c : WriteTHR(c) => (\E T : fifo' \in Seq(T)) /\ Len(fifo') = Len(fifo) + 1
         /\ fifo # <<>> => Tail(fifo) \in Seq(S) /\ Len(Tail(fifo)) = Len(fifo) - 1
<1>1. /\ Len(fifo) \in Nat /\ (fifo = <<>> => Len(fifo) = 0)
      /\ fifo # <<>> => Tail(fifo) \in Seq(S) /\ Len(Tail(fifo)) = Len(fifo) - 1
  OBVIOUS
<1>2. ASSUME NEW c, WriteTHR(c)
      PROVE  (\E T : fifo' \in Seq(T)) /\ Len(fifo') = Len(fifo) + 1
  <2> DEFINE T == S \cup {c}
  <2>1. fifo \in Seq(T) /\ c \in T
    OBVIOUS
  <2>2. Append(fifo, c) \in Seq(T) /\ Len(Append(fifo, c)) = Len(fifo) + 1
    BY ONLY <2>1
  <2>3. fifo' = Append(fifo, c)
    BY <1>2, ZenonT(30) DEF WriteTHR
  <2> QED BY ONLY <2>2, <2>3, ZenonT(30)
<1> QED BY <1>1, <1>2, ZenonT(30)

\* The checks of LSR_TX_IDLE are made while the UART has nothing to send.
LEMMA FifoStep == ConsoleInv /\ FifoInv /\ ConsoleStep => FifoInv'
<1> SUFFICES ASSUME ConsoleInv, FifoInv, ConsoleStep PROVE FifoInv'
  BY ZenonT(30)
<1>1. PICK S : fifo \in Seq(S)
  BY ZenonT(30) DEF FifoInv
<1>2. /\ Len(fifo) \in Nat
      /\ fifo = <<>> => Len(fifo) = 0
      /\ \A c : WriteTHR(c) => (\E T : fifo' \in Seq(T)) /\ Len(fifo') = Len(fifo) + 1
      /\ fifo # <<>> => Tail(fifo) \in Seq(S) /\ Len(Tail(fifo)) = Len(fifo) - 1
  BY ONLY <1>1, FifoLen, ZenonT(30)
<1>3. /\ DOMAIN cin = {"pc", "c", "echo"} /\ start \in StarterSet /\ DOMAIN pr = PrinterFields
      /\ Len(fifo) + Puts(cin) + Puts(start) + Puts(pr) <= 3
  BY ZenonT(30) DEF ConsoleInv, ConsoleType, FifoInv
<1>4. /\ Puts(cin) \in 0 .. 1 /\ Puts(start) \in 0 .. 1 /\ Puts(pr) \in 0 .. 1
      /\ Puts(cin)' \in 0 .. 1 /\ Puts(start)' \in 0 .. 1 /\ Puts(pr)' \in 0 .. 1
  BY DEF Puts
<1> DEFINE Put(a, b, c) == Puts(a) = 1 /\ Puts(a)' = 0 /\ Puts(b)' = Puts(b) /\ Puts(c)' = Puts(c)
           Less(x) == Puts(x)' = 0 \/ Puts(x)' = Puts(x)
<1>5. \/ fifo = <<>> /\ fifo' = fifo
      \/ /\ \E c : WriteTHR(c)
         /\ Put(cin, start, pr) \/ Put(start, cin, pr) \/ Put(pr, cin, start)
      \/ /\ fifo' = fifo \/ (fifo # <<>> /\ fifo' = Tail(fifo))
         /\ Less(cin) /\ Less(start) /\ Less(pr)
  <2>1. CASE EchoPoll \/ StartPoll \/ PrintPoll
    BY <2>1, ZenonT(30) DEF EchoPoll, StartPoll, PrintPoll, Idle
  <2>2. CASE EchoPut
    <3>1. /\ cin.pc = "put" /\ start' = start /\ pr' = pr /\ WriteTHR(<<"echo", Head(cin.echo)>>)
          /\ cin' = [cin EXCEPT !.pc = "echo", !.echo = Tail(@)]
      BY <2>2, ZenonT(30) DEF EchoPut, outvars
    <3>2. cin'.pc = "echo"
      BY ONLY <1>3, <3>1, ZenonT(30)
    <3>3. Put(cin, start, pr)
      BY ONLY <3>1, <3>2 DEF Puts
    <3> QED BY ONLY <3>1, <3>3, ZenonT(30)
  <2>3. CASE StartPut
    <3>1. /\ start.pc = "put" /\ cin' = cin /\ pr' = pr /\ WriteTHR(tx.buf[tx.r % UART_TX_BUF_SIZE])
          /\ start' = [start EXCEPT !.pc = "poll"]
      BY <2>3, ZenonT(30) DEF StartPut
    <3>2. start'.pc = "poll"
      BY ONLY <1>3, <3>1, ZenonT(30) DEF StarterSet
    <3>3. Put(start, cin, pr)
      BY ONLY <3>1, <3>2 DEF Puts
    <3> QED BY ONLY <3>1, <3>3, ZenonT(30)
  <2>4. CASE PrintPut
    <3>1. /\ pr.pc = "put" /\ cin' = cin /\ start' = start /\ WriteTHR(<<pr.who, Head(pr.text)>>)
          /\ pr' = [pr EXCEPT !.pc = "poll", !.text = Tail(@)]
      BY <2>4, ZenonT(30) DEF PrintPut
    <3>2. pr'.pc = "poll"
      BY ONLY <1>3, <3>1, ZenonT(30) DEF PrinterFields
    <3>3. Put(pr, cin, start)
      BY ONLY <3>1, <3>2 DEF Puts
    <3> QED BY ONLY <3>1, <3>3, ZenonT(30)
  <2>5. CASE UartEnter \/ UartGet \/ ConsoleIntr \/ UartTx \/ UartLeave \/ StartReturn \/ \E p \in Writers : UartPutc(p)
    <3>1. /\ fifo' = fifo /\ pr' = pr
          /\ \/ cin' = cin
             \/ \E l \in {"off", "get", "tx", "sending", "sent"} : cin' = [cin EXCEPT !.pc = l]
             \/ \E l \in {"echo", "get"} : \E c, e : cin' = [pc |-> l, c |-> c, echo |-> e]
          /\ \/ start' = start
             \/ \E q : start' = [who |-> q, pc |-> "poll"]
      <4>1. CASE UartEnter \/ UartTx \/ UartLeave \/ StartReturn
        BY <4>1, ZenonT(30) DEF UartEnter, UartTx, UartLeave, StartReturn, outvars
      <4>2. CASE UartGet \/ ConsoleIntr
        BY <4>2, ZenonT(30) DEF UartGet, ConsoleIntr, outvars
      <4>3. CASE \E p \in Writers : UartPutc(p)
        BY <4>3, ZenonT(30) DEF UartPutc
      <4> QED BY <2>5, <4>1, <4>2, <4>3, ZenonT(30)
    <3>2. cin' = cin \/ cin'.pc \in {"off", "get", "tx", "sending", "sent", "echo"}
      <4>1. ASSUME NEW l, cin' = [cin EXCEPT !.pc = l] PROVE cin'.pc = l
        BY ONLY <1>3, <4>1, ZenonT(30)
      <4>2. ASSUME NEW l, NEW c, NEW e, cin' = [pc |-> l, c |-> c, echo |-> e] PROVE cin'.pc = l
        BY ONLY <4>2, ZenonT(30)
      <4> QED BY ONLY <3>1, <4>1, <4>2, ZenonT(30)
    <3>3. start' = start \/ start'.pc = "poll"
      <4>1. ASSUME NEW q, start' = [who |-> q, pc |-> "poll"] PROVE start'.pc = "poll"
        BY ONLY <4>1, ZenonT(30)
      <4> QED BY ONLY <3>1, <4>1, ZenonT(30)
    <3>4. Less(cin)
      BY ONLY <3>2, ZenonT(30) DEF Puts
    <3>5. Less(start)
      BY ONLY <3>3, ZenonT(30) DEF Puts
    <3>6. Less(pr)
      BY ONLY <3>1, ZenonT(30) DEF Puts
    <3> QED BY ONLY <3>1, <3>4, <3>5, <3>6, ZenonT(30)
  <2>6. CASE (\E p : CallPrintf(p)) \/ PrintReturn
    <3>1. /\ fifo' = fifo /\ cin' = cin /\ start' = start
          /\ \/ \E p, t : pr' = [who |-> p, text |-> t, pc |-> "poll"]
             \/ pr' = [pr EXCEPT !.who = "none"]
      BY <2>6, ZenonT(30) DEF CallPrintf, PrintReturn
    <3>2. pr'.pc = "poll" \/ pr'.pc = pr.pc
      <4>1. ASSUME NEW p, NEW t, pr' = [who |-> p, text |-> t, pc |-> "poll"] PROVE pr'.pc = "poll"
        BY ONLY <4>1, ZenonT(30)
      <4>2. ASSUME pr' = [pr EXCEPT !.who = "none"] PROVE pr'.pc = pr.pc
        BY ONLY <1>3, <4>2, ZenonT(30) DEF PrinterFields
      <4> QED BY ONLY <3>1, <4>1, <4>2, ZenonT(30)
    <3>3. Less(pr)
      BY ONLY <3>2, ZenonT(30) DEF Puts
    <3>4. Less(cin) /\ Less(start)
      BY ONLY <3>1, ZenonT(30) DEF Puts
    <3> QED BY ONLY <3>1, <3>3, <3>4, ZenonT(30)
  <2>7. CASE \/ \E p \in Readers : ConsoleRead(p) \/ ReadSleep(p) \/ Kill(p)
             \/ \E p \in Writers : WriteReturnsPart(p)
             \/ Key \/ UNCHANGED cvars
    <3>1. fifo' = fifo /\ cin' = cin /\ start' = start /\ pr' = pr
      <4>1. ASSUME NEW p \in Readers, ConsoleRead(p) PROVE fifo' = fifo /\ cin' = cin /\ start' = start /\ pr' = pr
        BY <4>1, ZenonT(30) DEF ConsoleRead, outvars
      <4>2. ASSUME NEW p \in Readers, ReadSleep(p) \/ Kill(p)
            PROVE  fifo' = fifo /\ cin' = cin /\ start' = start /\ pr' = pr
        BY <4>2, ZenonT(30) DEF ReadSleep, Kill, outvars
      <4>3. CASE (\E p \in Writers : WriteReturnsPart(p)) \/ Key \/ UNCHANGED cvars
        BY <4>3, ZenonT(30) DEF WriteReturnsPart, Key, cvars, outvars
      <4> QED BY <2>7, <4>1, <4>2, <4>3, ZenonT(30)
    <3> QED BY ONLY <3>1, ZenonT(30) DEF Puts
  <2>8. CASE Sent
    <3>1. fifo # <<>> /\ fifo' = Tail(fifo) /\ cin' = cin /\ start' = start /\ pr' = pr
      BY <2>8, ZenonT(30) DEF Sent
    <3> QED BY ONLY <3>1, ZenonT(30) DEF Puts
  <2> QED BY <2>1, <2>2, <2>3, <2>4, <2>5, <2>6, <2>7, <2>8, ZenonT(30) DEF ConsoleStep, PrintStep
<1>6. \E T : fifo' \in Seq(T)
  BY ONLY <1>1, <1>2, <1>5, ZenonT(30)
<1>7. Len(fifo') + Puts(cin)' + Puts(start)' + Puts(pr)' <= 3
  <2>1. \/ Len(fifo) = 0 /\ Len(fifo') = 0
        \/ /\ Len(fifo') = Len(fifo) + 1
           /\ Put(cin, start, pr) \/ Put(start, cin, pr) \/ Put(pr, cin, start)
        \/ /\ Len(fifo') = Len(fifo) \/ Len(fifo') = Len(fifo) - 1
           /\ Less(cin) /\ Less(start) /\ Less(pr)
    BY ONLY <1>2, <1>5, ZenonT(30)
  <2> HIDE DEF Puts
  <2> QED BY ONLY <1>2, <1>3, <1>4, <2>1
<1> QED BY ONLY <1>6, <1>7, ZenonT(30) DEF FifoInv

\* The echo of consoleintr(), the output of uartstart() and printf() check the UART
\* and write to it without a common lock, and yet give it at most three bytes at once.
THEOREM UartNotOverrun == Spec => []NoOverrun
<1>1. Init => FifoInv
  <2> SUFFICES ASSUME Init PROVE FifoInv
    BY ZenonT(30)
  <2>1. /\ fifo = <<>> /\ start = [who |-> "none", pc |-> "poll"]
        /\ cin = [pc |-> "off", c |-> "", echo |-> <<>>]
        /\ pr = [who |-> "none", text |-> <<>>, pc |-> "poll"]
    BY ZenonT(30) DEF Init, ConsoleInit
  <2>2. start.pc # "put" /\ cin.pc # "put" /\ pr.pc # "put"
    BY ONLY <2>1
  <2>3. Puts(cin) = 0 /\ Puts(start) = 0 /\ Puts(pr) = 0
    BY ONLY <2>2, ZenonT(30) DEF Puts
  <2>4. Len(fifo) = 0 /\ \E S : fifo \in Seq(S)
    <3>1. <<>> \in Seq({0}) /\ Len(<<>>) = 0
      BY ONLY TRUE
    <3> QED BY ONLY <2>1, <3>1, ZenonT(30)
  <2>5. Len(fifo) + Puts(cin) + Puts(start) + Puts(pr) <= 3
    BY ONLY <2>3, <2>4
  <2> QED BY ONLY <2>4, <2>5, ZenonT(30) DEF FifoInv
<1>2. FifoInv => NoOverrun
  <2> SUFFICES ASSUME FifoInv PROVE NoOverrun
    BY ZenonT(30)
  <2>1. PICK S : fifo \in Seq(S)
    BY ZenonT(30) DEF FifoInv
  <2>2. Len(fifo) \in Nat /\ Puts(cin) \in 0 .. 1 /\ Puts(start) \in 0 .. 1 /\ Puts(pr) \in 0 .. 1
    BY ONLY <2>1 DEF Puts
  <2>3. Len(fifo) + Puts(cin) + Puts(start) + Puts(pr) <= 3
    BY ZenonT(30) DEF FifoInv
  <2> HIDE DEF Puts
  <2> QED BY ONLY <2>2, <2>3, ConsoleAssumption DEF NoOverrun
<1>3. ConsoleInv /\ ConsoleStep => ConsoleInv'
  BY ConsoleInvStep, ZenonT(30)
<1>4. Init => ConsoleInv
  BY ConsoleInvInit, ZenonT(30)
<1> QED BY <1>1, <1>2, <1>3, <1>4, FifoStep, ConsoleSteps, PTL DEF Spec
=============================================================================
