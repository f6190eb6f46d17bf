----------------------------- MODULE SpiDriver -----------------------------
(***************************************************************************)
(* The character device of spi_driver.c once probed: open, read, write and *)
(* release called by several processes, the interrupt handler, and the     *)
(* McSPI channel it drives.                                                *)
(*                                                                         *)
(* A step of a process is a stretch of kernel code between two points      *)
(* where another process or the handler changes what it sees: a lock, a    *)
(* wait, an allocation, an access to a buffer.  The handler is one step    *)
(* (the AM335x has one core).  Of a transfer only its progress is kept,    *)
(* and of a buffer which block of the heap it is and whether that block    *)
(* is allocated.                                                           *)
(***************************************************************************)
EXTENDS Naturals

CONSTANTS
  Procs,    (* the processes that may open /dev/spi_td3                    *)
  Blocks,   (* bound of the model: the blocks kmalloc can hand out         *)
  NULL      (* the null pointer, and the owner of a free mutex             *)

ASSUME NullAssumption == NULL \notin Procs \cup Blocks

VARIABLES
  pc,         (* where each process is in the driver                       *)
  signalled,  (* the processes with a signal pending                       *)
  mtx_lock,   (* the process that owns dev.mtx_lock, or NULL               *)
  dev,        (* the transfer fields and buffers of struct spi_dev_data_t  *)
  index_tx,   (* completed transmissions, as the handler counts them       *)
  index_rx,   (* completed receptions                                      *)
  regs,       (* the registers of the channel and the chip-select line     *)
  live,       (* the blocks that are allocated                             *)
  badHeap,    (* a block was used or freed while not allocated             *)
  incidents   (* what went wrong so far (history)                          *)

vars == <<pc, signalled, mtx_lock, dev, index_tx, index_rx, regs, live,
          badHeap, incidents>>

(* "out": no file open; "idle": open, outside the driver.                  *)
ReadLabels == {"rCopy", "rStart", "rWaitTx", "rWaitRx", "rCopyOut"}
WriteLabels == {"wStart", "wWait"}
Labels == {"out", "openTx", "lock", "idle", "free"}
            \cup ReadLabels \cup WriteLabels

Incidents == {"overlap", "nomem", "fault", "unlocked", "writeCut"}

Count == 4   (* bytes per transfer: a register address and three data bytes *)

Init ==
  /\ pc = [p \in Procs |-> "out"]
  /\ signalled = {}
  /\ mtx_lock = NULL
  /\ dev = [p_tx_buff |-> NULL, p_rx_buff |-> NULL, irqstatus |-> {},
            tx_len |-> 0, rx_len |-> 0, tx_pos |-> 0, rx_pos |-> 0]
  /\ index_tx = 0 /\ index_rx = 0
  /\ regs = [irqstatus |-> {}, irqenable |-> {}, ch0 |-> FALSE, cs |-> FALSE]
  /\ live = {}
  /\ badHeap = FALSE
  /\ incidents = {}

-----------------------------------------------------------------------------
Goto(p, from, to) == pc[p] = from /\ pc' = [pc EXCEPT ![p] = to]

(* Back in user space the pending signal is delivered.                     *)
Return(p, from, to) == Goto(p, from, to) /\ signalled' = signalled \ {p}

Note(what) == incidents' = incidents \cup what

Touch(b) == badHeap' = (badHeap \/ b \notin live)

(* kfree(NULL) does nothing; the pointers freed are not cleared.           *)
kfree(ptrs) ==
  /\ live' = live \ ptrs
  /\ badHeap' = (badHeap \/ ~(ptrs \subseteq live \cup {NULL}))

transferVars == <<mtx_lock, index_tx, index_rx, regs>>

-----------------------------------------------------------------------------
(* spi_driver_open: both buffers are allocated before the mutex is taken.  *)
Overlap(p) ==
  IF \E q \in Procs \ {p} : pc[q] # "out" THEN {"overlap"} ELSE {}

(* Defect: the buffer is not allocated when one is there already.          *)
OpenRxKeeps(p) ==
  /\ Goto(p, "out", "openTx")
  /\ \E b \in Blocks \ live :
       IF dev.p_rx_buff = NULL
         THEN live' = live \cup {b} /\ dev' = [dev EXCEPT !.p_rx_buff = b]
         ELSE UNCHANGED <<live, dev>>
  /\ Note(Overlap(p))
  /\ UNCHANGED <<signalled, badHeap, transferVars>>

(* Defect: the result of kmalloc is not checked.                           *)
OpenRxUnchecked(p) ==
  /\ Goto(p, "out", "openTx")
  /\ \E b \in (Blocks \cup {NULL}) \ live :
       /\ live' = live \cup {b}
       /\ dev' = [dev EXCEPT !.p_rx_buff = b]
  /\ Note(Overlap(p))
  /\ UNCHANGED <<signalled, badHeap, transferVars>>

OpenRx(p) ==
  /\ Goto(p, "out", "openTx")
  /\ \E b \in Blocks \ live :
       /\ live' = live \cup {b}
       /\ dev' = [dev EXCEPT !.p_rx_buff = b]
  /\ Note(Overlap(p))
  /\ UNCHANGED <<signalled, badHeap, transferVars>>

OpenRxFails(p) ==
  /\ pc[p] = "out"
  /\ dev' = [dev EXCEPT !.p_rx_buff = NULL]
  /\ Note({"nomem"} \cup Overlap(p))
  /\ UNCHANGED <<pc, signalled, live, badHeap, transferVars>>

OpenTx(p) ==
  /\ Goto(p, "openTx", "lock")
  /\ \E b \in Blocks \ live :
       /\ live' = live \cup {b}
       /\ dev' = [dev EXCEPT !.p_tx_buff = b]
  /\ UNCHANGED <<signalled, badHeap, incidents, transferVars>>

(* The open fails and the receive buffer stays allocated.                  *)
OpenTxFails(p) ==
  /\ Return(p, "openTx", "out")
  /\ dev' = [dev EXCEPT !.p_tx_buff = NULL]
  /\ Note({"nomem"})
  /\ UNCHANGED <<live, badHeap, transferVars>>

(* Defect: the open does not wait for the mutex.                           *)
LockAnyway(p) ==
  /\ Return(p, "lock", "idle")
  /\ mtx_lock' = p
  /\ UNCHANGED <<dev, index_tx, index_rx, regs, live, badHeap, incidents>>

Lock(p) ==
  /\ mtx_lock = NULL
  /\ Return(p, "lock", "idle")
  /\ mtx_lock' = p
  /\ UNCHANGED <<dev, index_tx, index_rx, regs, live, badHeap, incidents>>

(* mutex_lock_interruptible fails: rv is unsigned, so the error goes       *)
(* unseen, and open returns 0 either way.                                  *)
LockInterrupted(p) ==
  /\ mtx_lock # NULL
  /\ p \in signalled
  /\ Return(p, "lock", "idle")
  /\ Note({"unlocked"})
  /\ UNCHANGED <<dev, live, badHeap, transferVars>>

-----------------------------------------------------------------------------
(* spi_driver_read.                                                        *)
ReadEnter(p) ==
  /\ Goto(p, "idle", "rCopy")
  /\ regs' = [regs EXCEPT !.irqstatus = {}]
  /\ dev' = [dev EXCEPT !.rx_len = Count, !.rx_pos = 0,
                        !.tx_len = Count, !.tx_pos = 0]
  /\ index_rx' = 0 /\ index_tx' = 0
  /\ UNCHANGED <<signalled, mtx_lock, live, badHeap, incidents>>

ReadCopyIn(p) ==
  /\ Goto(p, "rCopy", "rStart")
  /\ Touch(dev.p_tx_buff)
  /\ UNCHANGED <<signalled, dev, live, incidents, transferVars>>

(* copy_from_user fails in a read: the buffer is freed, the file is open.  *)
ReadCopyFault(p) ==
  /\ Return(p, "rCopy", "idle")
  /\ kfree({dev.p_tx_buff})
  /\ Note({"fault"})
  /\ UNCHANGED <<dev, transferVars>>

(* First word, transmit interrupt, chip select, channel.                   *)
StartTransfer ==
  /\ Touch(dev.p_tx_buff)
  /\ regs' = [regs EXCEPT !.irqenable = {"TX"}, !.cs = TRUE, !.ch0 = TRUE]
  /\ UNCHANGED <<signalled, mtx_lock, dev, index_tx, index_rx, live,
                 incidents>>

ReadStart(p) == Goto(p, "rStart", "rWaitTx") /\ StartTransfer

(* rv is unsigned: the -ERESTARTSYS of an interrupted wait is not < 0.     *)
ReadWaitTx(p) ==
  /\ Goto(p, "rWaitTx", "rWaitRx")
  /\ index_tx > 0 \/ p \in signalled
  /\ regs' = [regs EXCEPT !.irqenable = {"RX"}]
  /\ UNCHANGED <<signalled, mtx_lock, dev, index_tx, index_rx, live, badHeap,
                 incidents>>

(* Defect: the chip select stays asserted after a read.                    *)
ReadWaitRxKeepsCS(p) ==
  /\ Goto(p, "rWaitRx", "rCopyOut")
  /\ index_rx > 0 \/ p \in signalled
  /\ regs' = [regs EXCEPT !.ch0 = FALSE]
  /\ UNCHANGED <<signalled, mtx_lock, dev, index_tx, index_rx, live, badHeap,
                 incidents>>

ReadWaitRx(p) ==
  /\ Goto(p, "rWaitRx", "rCopyOut")
  /\ index_rx > 0 \/ p \in signalled
  /\ regs' = [regs EXCEPT !.cs = FALSE, !.ch0 = FALSE]
  /\ UNCHANGED <<signalled, mtx_lock, dev, index_tx, index_rx, live, badHeap,
                 incidents>>

(* Returns count, or -EFAULT if copy_to_user fails: no state tells.        *)
ReadCopyOut(p) ==
  /\ Return(p, "rCopyOut", "idle")
  /\ Touch(dev.p_rx_buff)
  /\ UNCHANGED <<dev, live, incidents, transferVars>>

-----------------------------------------------------------------------------
(* spi_driver_write.                                                       *)
WriteCopyIn(p) ==
  /\ Goto(p, "idle", "wStart")
  /\ Touch(dev.p_tx_buff)
  /\ dev' = [dev EXCEPT !.tx_len = Count, !.tx_pos = 0]
  /\ index_tx' = 0
  /\ UNCHANGED <<signalled, mtx_lock, index_rx, regs, live, incidents>>

(* copy_from_user fails in a write.                                        *)
WriteCopyFault(p) ==
  /\ Return(p, "idle", "idle")
  /\ kfree({dev.p_tx_buff})
  /\ Note({"fault"})
  /\ UNCHANGED <<dev, transferVars>>

WriteStart(p) == Goto(p, "wStart", "wWait") /\ StartTransfer

(* Here rv is signed: an interrupted wait frees the buffer and leaves the  *)
(* channel and the chip select on.                                         *)
WriteWait(p) ==
  /\ index_tx > 0 \/ p \in signalled
  /\ Return(p, "wWait", "idle")
  /\ IF index_tx > 0
       THEN /\ regs' = [regs EXCEPT !.cs = FALSE, !.ch0 = FALSE]
            /\ UNCHANGED <<live, badHeap, incidents>>
       ELSE /\ kfree({dev.p_tx_buff})
            /\ Note({"writeCut"})
            /\ UNCHANGED regs
  /\ UNCHANGED <<mtx_lock, dev, index_tx, index_rx>>

-----------------------------------------------------------------------------
(* spi_driver_close.  mutex_unlock frees the mutex whoever owns it.        *)
CloseUnlock(p) ==
  /\ Goto(p, "idle", "free")
  /\ mtx_lock' = NULL
  /\ UNCHANGED <<signalled, dev, index_tx, index_rx, regs, live, badHeap,
                 incidents>>

(* Defect: close forgets the transmit buffer.                              *)
CloseFreeRxOnly(p) ==
  /\ Return(p, "free", "out")
  /\ kfree({dev.p_rx_buff})
  /\ UNCHANGED <<dev, incidents, transferVars>>

CloseFree(p) ==
  /\ Return(p, "free", "out")
  /\ kfree({dev.p_rx_buff, dev.p_tx_buff})
  /\ UNCHANGED <<dev, incidents, transferVars>>

-----------------------------------------------------------------------------
(* spi_driver_irq_handler.  It branches on dev.irqstatus, a field of a     *)
(* static variable that no code of the driver assigns.                     *)
ReceiveWord ==
  /\ Touch(dev.p_rx_buff)
  /\ UNCHANGED index_tx
  /\ IF dev.rx_pos >= dev.rx_len
       THEN /\ regs' = [regs EXCEPT !.irqstatus = {}, !.irqenable = {},
                                    !.ch0 = FALSE]
            /\ index_rx' = index_rx + 1
            /\ UNCHANGED dev
       ELSE /\ regs' = [regs EXCEPT !.irqstatus = {}]
            /\ dev' = [dev EXCEPT !.rx_pos = @ + 1]
            /\ UNCHANGED index_rx

TransmitWord ==
  /\ UNCHANGED index_rx
  /\ IF dev.tx_pos >= dev.tx_len
       THEN /\ regs' = [regs EXCEPT !.irqstatus = {}, !.irqenable = {},
                                    !.ch0 = FALSE]
            /\ index_tx' = index_tx + 1
            /\ UNCHANGED <<dev, badHeap>>
       ELSE /\ Touch(dev.p_tx_buff)
            /\ regs' = [regs EXCEPT !.irqstatus = {}, !.irqenable = {"TX"}]
            /\ dev' = [dev EXCEPT !.tx_pos = @ + 2]
            /\ UNCHANGED index_tx

spi_driver_irq_handler ==
  /\ regs.irqstatus \cap regs.irqenable # {}
  /\ IF "RX" \in dev.irqstatus THEN ReceiveWord
     ELSE IF "TX" \in dev.irqstatus THEN TransmitWord
     ELSE /\ regs' = [regs EXCEPT !.irqstatus = {}]
          /\ UNCHANGED <<dev, index_tx, index_rx, badHeap>>
  /\ UNCHANGED <<pc, signalled, mtx_lock, live, incidents>>

(* The enabled channel empties its transmit or fills its receive register. *)
Shift ==
  /\ regs.ch0
  /\ \E e \in {"TX", "RX"} \ regs.irqstatus :
       regs' = [regs EXCEPT !.irqstatus = @ \cup {e}]
  /\ UNCHANGED <<pc, signalled, mtx_lock, dev, index_tx, index_rx, live,
                 badHeap, incidents>>

(* A signal reaches a process inside a call of the driver.                 *)
Signal(p) ==
  /\ pc[p] \notin {"out", "idle"}
  /\ signalled' = signalled \cup {p}
  /\ UNCHANGED <<pc, dev, live, badHeap, incidents, transferVars>>

-----------------------------------------------------------------------------
spi_driver_open(p) ==
  \/ OpenRx(p) \/ OpenRxFails(p) \/ OpenTx(p) \/ OpenTxFails(p)
  \/ Lock(p) \/ LockInterrupted(p)

spi_driver_read(p) ==
  \/ ReadEnter(p) \/ ReadCopyIn(p) \/ ReadCopyFault(p) \/ ReadStart(p)
  \/ ReadWaitTx(p) \/ ReadWaitRx(p) \/ ReadCopyOut(p)

spi_driver_write(p) ==
  WriteCopyIn(p) \/ WriteCopyFault(p) \/ WriteStart(p) \/ WriteWait(p)

spi_driver_close(p) == CloseUnlock(p) \/ CloseFree(p)

Next ==
  \/ \E p \in Procs :
       \/ spi_driver_open(p)
       \/ spi_driver_read(p)
       \/ spi_driver_write(p)
       \/ spi_driver_close(p)
       \/ Signal(p)
  \/ spi_driver_irq_handler
  \/ Shift

Spec == Init /\ [][Next]_vars

(* The kernel runs a process inside a call and serves interrupts; the      *)
(* channel shifts.  Which calls a process makes, faults and signals are    *)
(* not fair.                                                               *)
Fairness ==
  /\ \A p \in Procs :
       /\ WF_vars(OpenTx(p)) /\ SF_vars(Lock(p))
       /\ WF_vars(ReadCopyIn(p)) /\ WF_vars(ReadStart(p))
       /\ WF_vars(ReadWaitTx(p)) /\ WF_vars(ReadWaitRx(p))
       /\ WF_vars(ReadCopyOut(p)) /\ WF_vars(WriteStart(p))
       /\ WF_vars(WriteWait(p)) /\ WF_vars(CloseFree(p))
  /\ WF_vars(spi_driver_irq_handler)
  /\ WF_vars(Shift)

FairSpec == Spec /\ Fairness

-----------------------------------------------------------------------------
TypeOK ==
  /\ pc \in [Procs -> Labels]
  /\ signalled \subseteq Procs
  /\ mtx_lock \in Procs \cup {NULL}
  /\ dev \in [p_tx_buff : Blocks \cup {NULL}, p_rx_buff : Blocks \cup {NULL},
              irqstatus : SUBSET {"TX", "RX"}, tx_len : Nat, rx_len : Nat,
              tx_pos : Nat, rx_pos : Nat]
  /\ index_tx \in Nat /\ index_rx \in Nat
  /\ regs \in [irqstatus : SUBSET {"TX", "RX"},
               irqenable : SUBSET {"TX", "RX"}, ch0 : BOOLEAN, cs : BOOLEAN]
  /\ live \subseteq Blocks
  /\ badHeap \in BOOLEAN
  /\ incidents \subseteq Incidents

(* The process has the file open and may use the device.                   *)
Inside(p) == pc[p] \in {"idle"} \cup ReadLabels \cup WriteLabels

(* The transfer of the process is on the wire.                             *)
OnTheWire(p) == pc[p] \in {"rWaitTx", "rWaitRx", "wWait"}

(* The mutex taken in open and given in release (spi_driver.c 289, 311)    *)
(* keeps the device to one process at a time, as long as no open was       *)
(* interrupted while it waited for it.                                     *)
OneUserAtATime ==
  "unlocked" \notin incidents =>
    \A p, q \in Procs : Inside(p) /\ Inside(q) => p = q

(* The two buffers are used and freed only while allocated, unless opens   *)
(* overlapped (the second replaces the pointers of the first) or a buffer  *)
(* was freed on an error path with the file still open.                    *)
HeapSafe ==
  badHeap => incidents \cap {"overlap", "fault", "writeCut"} # {}

(* When every file is closed nothing stays allocated, unless opens         *)
(* overlapped or an open failed half-way.                                  *)
NoLeak ==
  /\ \A p \in Procs : pc[p] = "out"
  /\ incidents \cap {"overlap", "nomem"} = {}
  => live = {}

(* The chip select is asserted exactly while a transfer is on the wire,    *)
(* and the channel is only on then, unless a write was interrupted or two  *)
(* processes got in.                                                       *)
ChipSelectFollowsTransfer ==
  incidents \cap {"unlocked", "writeCut"} = {} =>
    /\ regs.cs <=> \E p \in Procs : OnTheWire(p)
    /\ regs.ch0 => regs.cs

(* The wait queues are served by the interrupt (spi_driver.h 50 and 51):   *)
(* a read that put its transfer on the wire comes back.                    *)
ReadCompletes ==
  \A p \in Procs : (pc[p] = "rWaitTx") ~> (pc[p] = "idle")

=============================================================================
