------------------------------ MODULE Devices -------------------------------
(***************************************************************************)
(* The disk and the console with the interrupts that connect them to the   *)
(* CPUs: devintr() of trap.c and the interrupt controller of plic.c.       *)
(***************************************************************************)
EXTENDS Virtio, Console

CONSTANTS
  NCPU,      \* the number of CPUs
  Workloads  \* what may be asked of the disk and of the console

\* What is typed are keys of the keyboard, 0 (which consoleintr() drops) among
\* them; a read asks for n characters, of which the first ok can be copied.
ASSUME WorkloadAssumption ==
  \A w \in Workloads :
    /\ w.console.keys \in Seq(KeySet \cup {"\r", "^P", ""})
    /\ w.console.reads \in [Readers -> Seq([n : Nat, ok : Nat])]

VARIABLES
  pending,   \* interrupts the controller has been asked for and nobody has claimed
  serving    \* the interrupts that CPUs have claimed and serve

vars == <<dvars, cvars, pending, serving>>

Irqs == {"uart", "virtio"}

Init ==
  /\ \E w \in Workloads : DiskInit(w.disk) /\ ConsoleInit(w.console)
  /\ pending = {}
  /\ serving = {}

Raised(irq) == IF irq = "virtio" THEN dev.isr ELSE rx # <<>> \/ txirq

\* The controller takes one interrupt of a device at a time.
Signal(irq) ==
  /\ Raised(irq)
  /\ irq \notin pending \cup serving
  /\ pending' = pending \cup {irq}
  /\ UNCHANGED <<dvars, cvars, serving>>

\* plic_claim() by a CPU that serves no interrupt, and the call of the handler.
Claim(irq) ==
  /\ Cardinality(serving) < NCPU
  /\ irq \in pending
  /\ pending' = pending \ {irq}
  /\ serving' = serving \cup {irq}
  /\ IF irq = "virtio" THEN IntrEnter /\ UNCHANGED cvars ELSE UartEnter /\ UNCHANGED dvars

Handler(irq) ==
  /\ irq \in serving
  /\ IF irq = "virtio" THEN (IntrAck \/ IntrUsed) /\ UNCHANGED cvars
     ELSE UartIntr /\ UNCHANGED dvars
  /\ UNCHANGED <<pending, serving>>

\* The handler returns, plic_complete().
EndOfInterrupt(irq) ==
  /\ irq \in serving
  /\ IF irq = "virtio" THEN IntrLeave /\ UNCHANGED cvars ELSE UartLeave /\ UNCHANGED dvars
  /\ serving' = serving \ {irq}
  /\ UNCHANGED pending

Interrupt(irq) == Signal(irq) \/ Claim(irq) \/ Handler(irq) \/ EndOfInterrupt(irq)

Disk(p) == DiskProc(p) /\ UNCHANGED <<cvars, pending, serving>>
DiskDevice == Device /\ UNCHANGED <<cvars, pending, serving>>
Reader(p) == (ConsoleRead(p) \/ ReadSleep(p)) /\ UNCHANGED <<dvars, pending, serving>>
Killer(p) == Kill(p) /\ UNCHANGED <<dvars, pending, serving>>
Writer(p) == WriterStep(p) /\ UNCHANGED <<dvars, pending, serving>>
Printer(p) == Printf(p) /\ UNCHANGED <<dvars, pending, serving>>
Keyboard == Key /\ UNCHANGED <<dvars, pending, serving>>
Uart == Sent /\ UNCHANGED <<dvars, pending, serving>>

Next ==
  \/ \E irq \in Irqs : Interrupt(irq)
  \/ \E p \in DiskProcs : Disk(p)
  \/ \E p \in Readers : Reader(p) \/ Killer(p)
  \/ \E p \in Writers : Writer(p)
  \/ \E p \in Printers : Printer(p)
  \/ DiskDevice \/ Keyboard \/ Uart

\* Devices and the interrupt controller make progress, CPUs take interrupts and
\* the scheduler runs every process that can run.  Nobody has to type.
Fairness ==
  /\ \A irq \in Irqs : WF_vars(Interrupt(irq))
  /\ \A p \in DiskProcs : WF_vars(Disk(p))
  /\ \A p \in Writers : WF_vars(Writer(p))
  /\ \A p \in Printers : WF_vars(Printer(p))
  /\ WF_vars(Uart)
  /\ WF_vars(DiskDevice)

Spec == Init /\ [][Next]_vars /\ Fairness

-----------------------------------------------------------------------------
\* Every disk request is finished, however the interrupts of the device coincide
\* with the handler and whoever else waits for descriptors; and every write to
\* the console and every message of the kernel is, although a write needs the
\* UART's interrupt to go on when the ring is full.
AllServed ==
  <>(/\ \A p \in DiskProcs : rw[p].jobs = <<>>
     /\ \A p \in Writers : wr[p].todo = <<>> \/ wr[p].pc = "returned"
     /\ \A p \in Printers : calls[p] = <<>> /\ pr.who # p)
=============================================================================
