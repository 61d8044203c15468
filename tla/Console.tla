------------------------------ MODULE Console -------------------------------
(***************************************************************************)
(* The console of console.c on the UART driver of uart.c.  Characters that *)
(* arrive are edited into lines by the interrupt handler and echoed by     *)
(* polling; read() takes finished lines; write() goes through an output    *)
(* ring that the handler empties; printf() of the kernel polls.            *)
(*                                                                         *)
(* A section under cons.lock, uart_tx_lock or pr.lock is one step, except  *)
(* where the UART is polled: there another CPU may write to it in between. *)
(***************************************************************************)
EXTENDS Naturals, Sequences, FiniteSets

CONSTANTS
  INPUT_BUF_SIZE, UART_TX_BUF_SIZE,
  UINT,      \* the number of values of cons.r, cons.w and cons.e
  FIFO,      \* bytes the UART takes at once
  Readers, Writers,
  Printers,  \* the processes in the kernel that print messages with printf()
  Letters    \* the characters without a meaning of their own

\* uartinit() turns the FIFO of the UART on.
ASSUME ConsoleAssumption ==
  /\ INPUT_BUF_SIZE \in Nat \ {0} /\ UINT \in Nat
  /\ UINT % INPUT_BUF_SIZE = 0 /\ UINT > INPUT_BUF_SIZE
  /\ FIFO \in Nat /\ FIFO >= 3

VARIABLES
  cons,      \* the input buffer with its read, write and edit index
  keys,      \* the keys still to be typed
  rx,        \* characters the UART has received
  cin,       \* the interrupt handler: the character and what is left to echo
  rd,        \* the processes that read, with the results they got
  killed,    \* the readers that have been killed
  victims,   \* the readers that somebody is going to kill
  tx,        \* uart_tx_buf, uart_tx_w, uart_tx_r
  start,     \* who is in uartstart() with uart_tx_lock, and where
  wr,        \* the processes that write
  pr,        \* who is in printf() with pr.lock, what is left to print, and where
  calls,     \* the calls of printf() still to be made
  fifo,      \* bytes the UART is sending
  txirq,     \* the UART asks for more to send
  screen     \* what has been sent

invars == <<cons, keys, rx, rd, killed, victims>>
outvars == <<tx, start, wr, screen, pr, calls>>
cvars == <<cons, keys, rx, cin, rd, killed, victims, tx, start, wr, pr, calls, fifo, txirq, screen>>

\* consoleinit() and uartinit(), and the keys, reads and writes to come.
ConsoleInit(job) ==
  /\ cons = [buf |-> [i \in 0 .. INPUT_BUF_SIZE - 1 |-> ""], r |-> 0, w |-> 0, e |-> 0]
  /\ rx = <<>>
  /\ cin = [pc |-> "off", c |-> "", echo |-> <<>>]
  /\ killed = {}
  /\ victims = job.kill
  /\ tx = [buf |-> [i \in 0 .. UART_TX_BUF_SIZE - 1 |-> ""], w |-> 0, r |-> 0]
  /\ start = [who |-> "none", pc |-> "poll"]
  /\ fifo = <<>>
  /\ txirq = FALSE
  /\ screen = <<>>
  /\ keys = job.keys
  /\ rd = [p \in Readers |->
             [pc |-> "start", reads |-> job.reads[p], got |-> <<>>, res |-> <<>>]]
  /\ wr = [p \in Writers |-> [pc |-> "start", text |-> job.writes[p].text, todo |-> job.writes[p].text,
                               ok |-> job.writes[p].ok]]
  /\ pr = [who |-> "none", text |-> <<>>, pc |-> "poll"]
  /\ calls = [p \in Printers \cup {"intr"} |-> IF p \in Printers THEN job.prints[p] ELSE <<>>]

-----------------------------------------------------------------------------
(* The indices count modulo 2^32.                                          *)

Minus(i, j) == (i + UINT - j) % UINT

\* The buffer from index i up to index j.
Part(i, j) == [n \in 1 .. Minus(j, i) |-> cons.buf[((i + n - 1) % UINT) % INPUT_BUF_SIZE]]

Line == Part(cons.w, cons.e)
Ready == Part(cons.r, cons.w)

\* cons.lock is held between steps by the handler, and by a reader about to sleep.
ConsLocked == cin.pc \in {"echo", "put"} \/ \E p \in Readers : rd[p].pc = "sleep"

-----------------------------------------------------------------------------
(* The UART and the keyboard.                                              *)

Key ==
  /\ keys # <<>>
  /\ rx' = Append(rx, Head(keys))
  /\ keys' = Tail(keys)
  /\ UNCHANGED <<cons, cin, rd, killed, victims, outvars, fifo, txirq>>

Sent ==
  /\ fifo # <<>>
  /\ screen' = Append(screen, Head(fifo))
  /\ fifo' = Tail(fifo)
  /\ txirq' = (txirq \/ Len(fifo) = 1)
  /\ UNCHANGED <<invars, cin, tx, start, wr, pr, calls>>

\* Mutant: characters are sent without waiting for the UART.
IdleUnchecked == TRUE

\* LSR_TX_IDLE: the UART has sent what it was given.
Idle == fifo = <<>>

\* A byte is written to THR.
WriteTHR(c) == fifo' = Append(fifo, c) /\ txirq' = FALSE

-----------------------------------------------------------------------------
(* uartintr() and consoleintr()                                            *)

UartEnter ==
  /\ cin.pc = "off"
  /\ cin' = [cin EXCEPT !.pc = "get"]
  /\ UNCHANGED <<invars, outvars, fifo, txirq>>

Backspace == <<"bs", " ", "bs">>

\* How far ^U goes back: to the end of the line before.
KillCount ==
  CHOOSE k \in 0 .. Len(Line) :
    /\ k = Len(Line) \/ Line[Len(Line) - k] = "\n"
    /\ \A i \in 0 .. k - 1 : Line[Len(Line) - i] # "\n"

Full == Minus(cons.e, cons.r) = INPUT_BUF_SIZE

Cr(c) == IF c = "\r" THEN "\n" ELSE c

\* What consoleintr(c) echoes; ^P makes procdump() print.
Echo(c) ==
  CASE c = "^P" -> <<>>
    [] c = "^U" -> [i \in 1 .. 3 * KillCount |-> Backspace[((i - 1) % 3) + 1]]
    [] c = "^H" -> IF cons.e # cons.w THEN Backspace ELSE <<>>
    [] OTHER -> IF c # "" /\ ~Full THEN <<Cr(c)>> ELSE <<>>

\* The calls of printf() by procdump(), all processes in one.
procdump == << <<"\n">>, <<"p">>, <<"\n">> >>

UartGet ==
  /\ cin.pc = "get"
  /\ rx # <<>> => ~ConsLocked
  /\ IF rx # <<>>
     THEN /\ cin' = [pc |-> "echo", c |-> Head(rx), echo |-> Echo(Head(rx))]
          /\ rx' = Tail(rx)
          /\ calls' = IF Head(rx) = "^P" THEN [calls EXCEPT !["intr"] = procdump] ELSE calls
     ELSE cin' = [cin EXCEPT !.pc = "tx"] /\ UNCHANGED <<rx, calls>>
  /\ UNCHANGED <<cons, keys, rd, killed, victims, tx, start, wr, screen, pr, fifo, txirq>>

\* uartputc_sync() polls, and then writes without uart_tx_lock.
EchoPoll ==
  /\ cin.pc = "echo"
  /\ cin.echo # <<>>
  /\ Idle
  /\ cin' = [cin EXCEPT !.pc = "put"]
  /\ UNCHANGED <<invars, outvars, fifo, txirq>>

EchoPut ==
  /\ cin.pc = "put"
  /\ WriteTHR(<<"echo", Head(cin.echo)>>)
  /\ cin' = [cin EXCEPT !.pc = "echo", !.echo = Tail(@)]
  /\ UNCHANGED <<invars, outvars>>

\* Mutant: a full buffer is not given to the readers.
EndsLineKeepsFull(c, e) == c \in {"\n", "^D"}

\* Does c make what has been typed readable?
EndsLine(c, e) == c \in {"\n", "^D"} \/ Minus(e, cons.r) = INPUT_BUF_SIZE

\* Mutant: readers are woken only at the end of a line, not when the buffer is full.
WakesAtNewline(c, e) == c = "\n"

\* Does it wake the readers?
Wakes(c, e) == EndsLine(c, e)

\* Is there something of the line to erase?
Editable == cons.e # cons.w

\* consoleintr() changes the line, and wakes the readers when one is finished.
ConsoleIntr ==
  LET c == Cr(cin.c)
      e == (cons.e + 1) % UINT
      ends == EndsLine(c, e)
  IN  /\ cin.pc = "echo"
      /\ cin.echo = <<>>
      /\ calls["intr"] = <<>> /\ pr.who # "intr"
      /\ CASE cin.c = "^P" -> UNCHANGED <<cons, rd>>
           [] cin.c = "^U" -> cons' = [cons EXCEPT !.e = Minus(@, KillCount)] /\ UNCHANGED rd
           [] cin.c = "^H" -> /\ cons' = IF Editable THEN [cons EXCEPT !.e = Minus(@, 1)] ELSE cons
                              /\ UNCHANGED rd
           [] OTHER ->
                IF c = "" \/ Full THEN UNCHANGED <<cons, rd>>
                ELSE /\ cons' = [cons EXCEPT !.buf[cons.e % INPUT_BUF_SIZE] = c, !.e = e,
                                             !.w = IF ends THEN e ELSE @]
                     /\ rd' = IF Wakes(c, e) THEN [p \in Readers |->
                                 IF rd[p].pc = "asleep" THEN [rd[p] EXCEPT !.pc = "read"] ELSE rd[p]]
                              ELSE rd
      /\ cin' = [pc |-> "get", c |-> "", echo |-> <<>>]
      /\ UNCHANGED <<keys, rx, killed, victims, outvars, fifo, txirq>>

\* The handler takes uart_tx_lock to send what is in the ring.
UartTx ==
  /\ cin.pc = "tx"
  /\ start.who = "none"
  /\ start' = [who |-> "intr", pc |-> "poll"]
  /\ cin' = [cin EXCEPT !.pc = "sending"]
  /\ UNCHANGED <<invars, tx, wr, pr, calls, fifo, txirq, screen>>

UartLeave ==
  /\ cin.pc = "sent"
  /\ cin' = [cin EXCEPT !.pc = "off"]
  /\ UNCHANGED <<invars, outvars, fifo, txirq>>

-----------------------------------------------------------------------------
(* uartstart()                                                             *)

\* The ring is empty or the UART is busy: uartstart() returns to its caller.
StartReturn ==
  /\ start.who # "none"
  /\ start.pc = "poll"
  /\ tx.w = tx.r \/ ~Idle
  /\ txirq' = IF tx.w = tx.r THEN FALSE ELSE txirq
  /\ start' = [who |-> "none", pc |-> "poll"]
  /\ cin' = IF start.who = "intr" THEN [cin EXCEPT !.pc = "sent"] ELSE cin
  /\ wr' = IF start.who \in Writers THEN [wr EXCEPT ![start.who].pc = "start"] ELSE wr
  /\ UNCHANGED <<invars, tx, pr, calls, fifo, screen>>

StartPoll ==
  /\ start.who # "none"
  /\ start.pc = "poll"
  /\ tx.w # tx.r
  /\ Idle
  /\ start' = [start EXCEPT !.pc = "put"]
  /\ UNCHANGED <<invars, cin, tx, wr, pr, calls, fifo, txirq, screen>>

\* wakeup(&uart_tx_r)
WritersWoken(w) ==
  [p \in Writers |-> IF w[p].pc = "asleep" THEN [w[p] EXCEPT !.pc = "start"] ELSE w[p]]

StartPut ==
  /\ start.who # "none"
  /\ start.pc = "put"
  /\ WriteTHR(tx.buf[tx.r % UART_TX_BUF_SIZE])
  /\ tx' = [tx EXCEPT !.r = @ + 1]
  /\ wr' = WritersWoken(wr)
  /\ start' = [start EXCEPT !.pc = "poll"]
  /\ UNCHANGED <<invars, cin, pr, calls, screen>>

-----------------------------------------------------------------------------
(* consolewrite() and consoleread()                                        *)

\* Mutant: the output ring takes one character too many.
TxFullLate == tx.w = tx.r + UART_TX_BUF_SIZE + 1

TxFull == tx.w = tx.r + UART_TX_BUF_SIZE

\* Can either_copyin() copy the next character from the process?
Copyable(p) == Len(wr[p].text) - Len(wr[p].todo) < wr[p].ok

\* uartputc() of the next character.
UartPutc(p) ==
  /\ wr[p].pc = "start"
  /\ wr[p].todo # <<>>
  /\ Copyable(p)
  /\ start.who = "none"
  /\ IF TxFull
     THEN wr' = [wr EXCEPT ![p].pc = "asleep"] /\ UNCHANGED <<tx, start>>
     ELSE /\ tx' = [tx EXCEPT !.buf[tx.w % UART_TX_BUF_SIZE] = <<p, Head(wr[p].todo)>>, !.w = @ + 1]
          /\ start' = [who |-> p, pc |-> "poll"]
          /\ wr' = [wr EXCEPT ![p].pc = "busy", ![p].todo = Tail(@)]
  /\ UNCHANGED <<invars, cin, pr, calls, fifo, txirq, screen>>

\* consolewrite() returns with a part when a character cannot be copied.
WriteReturnsPart(p) ==
  /\ wr[p].pc = "start"
  /\ wr[p].todo # <<>>
  /\ ~Copyable(p)
  /\ wr' = [wr EXCEPT ![p].pc = "returned"]
  /\ UNCHANGED <<invars, cin, tx, start, pr, calls, fifo, txirq, screen>>

\* Mutant: ^D is kept for the next read also when nothing was read.
SavesEofAlways(got) == TRUE

\* cons.r--: an end-of-file after other input is kept for the next read.
SavesEof(got) == got # <<>>

\* consoleread() has to stop when it has taken i characters: there are no more, it
\* has n, one could not be copied to the process, or the last one ends the line.
Stops(p, i) ==
  LET want == Head(rd[p].reads)
  IN  \/ i = Len(Ready)
      \/ Len(rd[p].got) + i \in {want.n, want.ok + 1}
      \/ i > 0 /\ Ready[i] \in {"\n", "^D"}

\* consoleread() from taking the lock (again) to its next sleep or its return: it
\* takes k characters.  One that cannot be copied is lost.
ConsoleRead(p) ==
  \E k \in 0 .. Len(Ready) :
    LET want == Head(rd[p].reads)
        got == rd[p].got
        eof == k > 0 /\ Ready[k] = "^D"
        bad == k > 0 /\ ~eof /\ Len(got) + k > want.ok
        all == got \o SubSeq(Ready, 1, IF eof \/ bad THEN k - 1 ELSE k)
        done == eof \/ bad \/ Len(all) = want.n \/ (k > 0 /\ Ready[k] = "\n")
        return(r) == [rd EXCEPT ![p] =
                        [pc |-> "start", reads |-> Tail(@.reads), got |-> <<>>, res |-> Append(@.res, r)]]
    IN  /\ rd[p].pc \in {"start", "read"}
        /\ rd[p].reads # <<>>
        /\ ~ConsLocked
        /\ Stops(p, k) /\ \A i \in 0 .. k - 1 : ~Stops(p, i)
        /\ cons' = [cons EXCEPT !.r = (@ + (IF eof /\ SavesEof(all) THEN k - 1 ELSE k)) % UINT]
        /\ rd' = IF done THEN return(all)
                 ELSE IF p \in killed THEN return(<<"killed">>)
                 ELSE [rd EXCEPT ![p].pc = "sleep", ![p].got = all]
        /\ UNCHANGED <<keys, rx, cin, killed, victims, outvars, fifo, txirq>>

\* sleep(), which does not look at killed any more.
ReadSleep(p) ==
  /\ rd[p].pc = "sleep"
  /\ rd' = [rd EXCEPT ![p].pc = "asleep"]
  /\ UNCHANGED <<cons, keys, rx, cin, killed, victims, outvars, fifo, txirq>>

\* kill() makes a sleeping process run.
Kill(p) ==
  /\ p \in victims
  /\ victims' = victims \ {p}
  /\ killed' = killed \cup {p}
  /\ rd' = [rd EXCEPT ![p].pc = IF @ = "asleep" THEN "read" ELSE @]
  /\ UNCHANGED <<cons, keys, rx, cin, outvars, fifo, txirq>>

-----------------------------------------------------------------------------
(* printf(), as long as nothing has panicked                               *)

CallPrintf(p) ==
  /\ calls[p] # <<>>
  /\ pr.who = "none"
  /\ pr' = [who |-> p, text |-> Head(calls[p]), pc |-> "poll"]
  /\ calls' = [calls EXCEPT ![p] = Tail(@)]
  /\ UNCHANGED <<invars, cin, tx, start, wr, fifo, txirq, screen>>

\* uartputc_sync() polls, and then writes without uart_tx_lock.
PrintPoll ==
  /\ pr.who # "none"
  /\ pr.text # <<>>
  /\ pr.pc = "poll"
  /\ Idle
  /\ pr' = [pr EXCEPT !.pc = "put"]
  /\ UNCHANGED <<invars, cin, tx, start, wr, calls, fifo, txirq, screen>>

PrintPut ==
  /\ pr.pc = "put"
  /\ WriteTHR(<<pr.who, Head(pr.text)>>)
  /\ pr' = [pr EXCEPT !.pc = "poll", !.text = Tail(@)]
  /\ UNCHANGED <<invars, cin, tx, start, wr, calls, screen>>

PrintReturn ==
  /\ pr.who # "none"
  /\ pr.text = <<>>
  /\ pr' = [pr EXCEPT !.who = "none"]
  /\ UNCHANGED <<invars, cin, tx, start, wr, calls, fifo, txirq, screen>>

Printf(p) == CallPrintf(p) \/ (pr.who = p /\ (PrintPoll \/ PrintPut \/ PrintReturn))

-----------------------------------------------------------------------------
UartIntr ==
  \/ UartGet \/ EchoPoll \/ EchoPut \/ ConsoleIntr \/ UartTx \/ Printf("intr")
  \/ (start.who = "intr" /\ (StartReturn \/ StartPoll \/ StartPut))

WriterStep(p) ==
  UartPutc(p) \/ WriteReturnsPart(p) \/ (start.who = p /\ (StartReturn \/ StartPoll \/ StartPut))

-----------------------------------------------------------------------------
(* Properties.                                                             *)

\* The three indices of the input ring stay unsigned numbers, and what is between
\* them fits.
ConsoleTypeOK ==
  /\ {cons.r, cons.w, cons.e} \subseteq 0 .. UINT - 1
  /\ Minus(cons.w, cons.r) + Minus(cons.e, cons.w) <= INPUT_BUF_SIZE
  /\ cin.pc \in {"off", "get", "echo", "put", "tx", "sending", "sent"}
  /\ start.who \in {"none", "intr"} \cup Writers
  /\ \A p \in Readers : rd[p].pc \in {"start", "read", "sleep", "asleep"}

KeySet == Letters \cup {"\n", "^D", "^H", "^U"}

\* The circular buffer with its three indices, as they wrap around, is a line
\* being edited and a queue of finished input (module LineInput): erasing never
\* reaches finished input, a reader takes one line at a time and an end-of-file
\* only alone, and a full buffer can always be read.
lineInput == INSTANCE LineInput WITH Room <- INPUT_BUF_SIZE, Keys <- KeySet,
                                     line <- Line, ready <- Ready
RefinesLineInput == lineInput!Spec

\* A reader does not sleep while there is finished input: a line that arrives
\* when consoleread() is about to sleep wakes it up.
ReadersAwake ==
  /\ ConsoleTypeOK
  /\ \A p \in Readers : rd[p].pc = "asleep" => Ready = <<>>

\* consoleread: an end-of-file is kept "to make sure caller gets a 0-byte result".
\* A read returns nothing exactly when it takes an end-of-file (or asks for
\* nothing, or its buffer is not mapped).
EofOnce ==
  [][\A p \in Readers :
       rd'[p].res # rd[p].res /\ Head(rd[p].reads).n > 0 /\ Head(rd[p].reads).ok > 0 =>
         (rd'[p].res[Len(rd'[p].res)] = <<>> <=> Ready # <<>> /\ Ready[1] = "^D" /\ cons'.r # cons.r
                                      /\ rd[p].got = <<>>)]_cvars

\* The output ring, from r to w.
Ring == [i \in 1 .. tx.w - tx.r |-> tx.buf[(tx.r + i - 1) % UART_TX_BUF_SIZE]]

From(p, s) == SelectSeq(s, LAMBDA x : x[1] = p)

\* What a process writes appears on the screen once, whole and in order; whatever
\* is not there yet is with the UART, in the ring or still to be written (or, when
\* the process gave an address that is not mapped, never will be).
OutputInOrder ==
  \A p \in Writers :
    LET out == From(p, screen \o fifo \o Ring)
    IN  [i \in 1 .. Len(out) |-> out[i][2]] \o wr[p].todo = wr[p].text

\* The UART is given no more than it can take, although the echo, the output of
\* write() and printf() check it and then write to it without a common lock.
NoOverrun == Len(fifo) <= FIFO
=============================================================================
