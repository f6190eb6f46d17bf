-------------------------- MODULE SpiDriverProofs --------------------------
(***************************************************************************)
(* Proofs about SpiDriver, for any set of processes and any heap.          *)
(***************************************************************************)
EXTENDS SpiDriver, TLAPS

(* The steps of one process.                                               *)
Step(p) ==
  \/ spi_driver_open(p) \/ spi_driver_read(p) \/ spi_driver_write(p)
  \/ spi_driver_close(p) \/ Signal(p)

(* The steps of the interrupt handler and of the hardware.                 *)
Background == spi_driver_irq_handler \/ Shift

-----------------------------------------------------------------------------
(* TypeOK is inductive: the steps of open.                                 *)
LEMMA OpenType ==
  ASSUME TypeOK, NEW p \in Procs, spi_driver_open(p)
  PROVE  TypeOK'
<1> USE DEF TypeOK, Labels, ReadLabels, WriteLabels, Incidents, Goto, Return,
            Note, Overlap, transferVars
<1>1. CASE OpenRx(p)           BY <1>1 DEF OpenRx
<1>2. CASE OpenRxFails(p)      BY <1>2 DEF OpenRxFails
<1>3. CASE OpenTx(p)           BY <1>3 DEF OpenTx
<1>4. CASE OpenTxFails(p)      BY <1>4 DEF OpenTxFails
<1>5. CASE Lock(p)             BY <1>5 DEF Lock
<1>6. CASE LockInterrupted(p)  BY <1>6 DEF LockInterrupted
<1>7. QED
  BY <1>1, <1>2, <1>3, <1>4, <1>5, <1>6 DEF spi_driver_open

(* TypeOK is inductive: the steps of read.                                 *)
LEMMA ReadType ==
  ASSUME TypeOK, NEW p \in Procs, spi_driver_read(p)
  PROVE  TypeOK'
<1> USE DEF TypeOK, Labels, ReadLabels, WriteLabels, Incidents, Goto, Return,
            Note, Touch, kfree, transferVars
<1>1. CASE ReadEnter(p)      BY <1>1 DEF ReadEnter, Count
<1>2. CASE ReadCopyIn(p)     BY <1>2 DEF ReadCopyIn
<1>3. CASE ReadCopyFault(p)  BY <1>3 DEF ReadCopyFault
<1>4. CASE ReadStart(p)      BY <1>4 DEF ReadStart, StartTransfer
<1>5. CASE ReadWaitTx(p)     BY <1>5 DEF ReadWaitTx
<1>6. CASE ReadWaitRx(p)     BY <1>6 DEF ReadWaitRx
<1>7. CASE ReadCopyOut(p)    BY <1>7 DEF ReadCopyOut
<1>8. QED
  BY <1>1, <1>2, <1>3, <1>4, <1>5, <1>6, <1>7 DEF spi_driver_read

(* TypeOK is inductive: the steps of write, release and a signal.          *)
LEMMA WriteCloseType ==
  ASSUME TypeOK, NEW p \in Procs,
         spi_driver_write(p) \/ spi_driver_close(p) \/ Signal(p)
  PROVE  TypeOK'
<1> USE DEF TypeOK, Labels, ReadLabels, WriteLabels, Incidents, Goto, Return,
            Note, Touch, kfree, transferVars
<1>1. CASE WriteCopyIn(p)     BY <1>1 DEF WriteCopyIn, Count
<1>2. CASE WriteCopyFault(p)  BY <1>2 DEF WriteCopyFault
<1>3. CASE WriteStart(p)      BY <1>3 DEF WriteStart, StartTransfer
<1>4. CASE WriteWait(p)       BY <1>4 DEF WriteWait
<1>5. CASE CloseUnlock(p)     BY <1>5 DEF CloseUnlock
<1>6. CASE CloseFree(p)       BY <1>6 DEF CloseFree
<1>7. CASE Signal(p)          BY <1>7 DEF Signal
<1>8. QED
  BY <1>1, <1>2, <1>3, <1>4, <1>5, <1>6, <1>7
     DEF spi_driver_write, spi_driver_close

(* TypeOK is inductive: the interrupt handler and the hardware.            *)
LEMMA BackgroundType == ASSUME TypeOK, Background PROVE TypeOK'
<1> USE DEF TypeOK, Touch
<1>1. CASE spi_driver_irq_handler
  <2>1. index_tx' \in Nat /\ index_rx' \in Nat
    BY <1>1 DEF spi_driver_irq_handler, ReceiveWord, TransmitWord
  <2>2. dev.rx_pos \in Nat /\ dev.tx_pos \in Nat
    OBVIOUS
  <2>3. dev.rx_pos + 1 \in Nat /\ dev.tx_pos + 2 \in Nat
    BY <2>2
  <2>4. dev' \in {dev, [dev EXCEPT !.rx_pos = @ + 1],
                  [dev EXCEPT !.tx_pos = @ + 2]}
    BY <1>1, ZenonT(30)
       DEF spi_driver_irq_handler, ReceiveWord, TransmitWord
  <2>5. dev' \in [p_tx_buff : Blocks \cup {NULL},
                 p_rx_buff : Blocks \cup {NULL},
                 irqstatus : SUBSET {"TX", "RX"}, tx_len : Nat, rx_len : Nat,
                 tx_pos : Nat, rx_pos : Nat]
    BY <2>3, <2>4, ZenonT(30)
  <2>6. regs' \in [irqstatus : SUBSET {"TX", "RX"},
                  irqenable : SUBSET {"TX", "RX"}, ch0 : BOOLEAN,
                  cs : BOOLEAN]
    <3>1. regs' \in
            {[regs EXCEPT !.irqstatus = {}],
             [regs EXCEPT !.irqstatus = {}, !.irqenable = {"TX"}],
             [regs EXCEPT !.irqstatus = {}, !.irqenable = {}, !.ch0 = FALSE]}
      BY <1>1, ZenonT(30)
         DEF spi_driver_irq_handler, ReceiveWord, TransmitWord
    <3>2. {} \in SUBSET {"TX", "RX"} /\ {"TX"} \in SUBSET {"TX", "RX"}
      OBVIOUS
    <3>3. QED
      BY <3>1, <3>2, ZenonT(30)
  <2>7. badHeap' \in BOOLEAN
    BY <1>1 DEF spi_driver_irq_handler, ReceiveWord, TransmitWord
  <2>8. QED
    BY <1>1, <2>1, <2>5, <2>6, <2>7, Zenon DEF spi_driver_irq_handler
<1>2. CASE Shift
  BY <1>2 DEF Shift
<1>3. QED
  BY <1>1, <1>2 DEF Background

(* The variables stay in their domains, in particular dev's pointers name  *)
(* a block or are null and the mutex has at most one owner.                *)
THEOREM TypeCorrect == Spec => []TypeOK
<1>1. Init => TypeOK
  <2> SUFFICES ASSUME Init PROVE TypeOK
    OBVIOUS
  <2>1. dev \in [p_tx_buff : Blocks \cup {NULL},
                p_rx_buff : Blocks \cup {NULL},
                irqstatus : SUBSET {"TX", "RX"}, tx_len : Nat, rx_len : Nat,
                tx_pos : Nat, rx_pos : Nat]
    BY DEF Init
  <2>2. regs \in [irqstatus : SUBSET {"TX", "RX"},
                 irqenable : SUBSET {"TX", "RX"}, ch0 : BOOLEAN,
                 cs : BOOLEAN]
    BY DEF Init
  <2>3. QED
    BY <2>1, <2>2 DEF Init, TypeOK, Labels
<1>2. TypeOK /\ [Next]_vars => TypeOK'
  <2>1. TypeOK /\ UNCHANGED vars => TypeOK'
    BY DEF TypeOK, vars
  <2>2. QED
    BY <2>1, OpenType, ReadType, WriteCloseType, BackgroundType
       DEF Next, Background
<1>3. QED
  BY <1>1, <1>2, PTL DEF Spec

-----------------------------------------------------------------------------
(* What OneUserAtATime rests on: with every open granted its lock, the     *)
(* process inside owns the mutex.  The pairwise form is not inductive:     *)
(* Lock looks at mtx_lock and not at who is inside.                        *)
MutexHeld ==
  "unlocked" \notin incidents => \A p \in Procs : Inside(p) => mtx_lock = p

LEMMA MutexStep ==
  ASSUME TypeOK, MutexHeld, NEW p \in Procs, Step(p)
  PROVE  MutexHeld'
<1> USE DEF TypeOK, MutexHeld, Inside, ReadLabels, WriteLabels, Goto, Return,
            Note, transferVars
<1> USE NullAssumption
<1>1. CASE spi_driver_open(p)
  BY <1>1 DEF spi_driver_open, OpenRx, OpenRxFails, OpenTx, OpenTxFails, Lock,
              LockInterrupted
<1>2. CASE spi_driver_read(p)
  BY <1>2 DEF spi_driver_read, ReadEnter, ReadCopyIn, ReadCopyFault,
              ReadStart, StartTransfer, ReadWaitTx, ReadWaitRx, ReadCopyOut
<1>3. CASE spi_driver_write(p)
  BY <1>3 DEF spi_driver_write, WriteCopyIn, WriteCopyFault, WriteStart,
              StartTransfer, WriteWait
<1>4. CASE spi_driver_close(p)
  BY <1>4 DEF spi_driver_close, CloseUnlock, CloseFree
<1>5. CASE Signal(p)
  BY <1>5 DEF Signal
<1>6. QED
  BY <1>1, <1>2, <1>3, <1>4, <1>5 DEF Step

LEMMA MutexAlways == Spec => []MutexHeld
<1>1. Init => MutexHeld
  BY DEF Init, MutexHeld, Inside, ReadLabels, WriteLabels
<1>2. TypeOK /\ MutexHeld /\ [Next]_vars => MutexHeld'
  <2>1. UNCHANGED vars /\ MutexHeld => MutexHeld'
    BY DEF vars, MutexHeld, Inside
  <2>2. Background /\ MutexHeld => MutexHeld'
    BY DEF Background, spi_driver_irq_handler, Shift, MutexHeld, Inside
  <2>3. QED
    BY <2>1, <2>2, MutexStep DEF Next, Step, Background
<1>3. QED
  BY <1>1, <1>2, TypeCorrect, PTL DEF Spec

(* At most one process uses the device, as long as no open was interrupted *)
(* while it waited for the mutex.                                          *)
THEOREM OneUser == Spec => []OneUserAtATime
<1>1. MutexHeld => OneUserAtATime
  BY DEF MutexHeld, OneUserAtATime
<1>2. QED
  BY <1>1, MutexAlways, PTL

-----------------------------------------------------------------------------
(* The two buffers.  Without overlapping opens at most one process has     *)
(* business with the driver, so the pointers of dev are its own.           *)
Alone == \A p, q \in Procs : pc[p] # "out" /\ pc[q] # "out" => p = q

Buffers == {dev.p_rx_buff, dev.p_tx_buff}

(* The process has both buffers.                                           *)
Allocated(p) == pc[p] = "lock" \/ pc[p] = "free" \/ Inside(p)

(* What HeapSafe rests on.                                                 *)
Owned ==
  incidents \cap {"overlap", "fault", "writeCut"} = {} =>
    /\ ~badHeap
    /\ Alone
    /\ \A p \in Procs :
         /\ pc[p] = "openTx" => dev.p_rx_buff \in live
         /\ Allocated(p) => Buffers \subseteq live

(* What NoLeak rests on: only what dev points to is allocated.             *)
Reachable ==
  incidents \cap {"overlap", "nomem"} = {} =>
    /\ Alone
    /\ \A p \in Procs : pc[p] = "openTx" => live \subseteq {dev.p_rx_buff}
    /\ \A p \in Procs : Allocated(p) => live \subseteq Buffers
    /\ (\A p \in Procs : pc[p] = "out") => live = {}

LEMMA OwnedStep ==
  ASSUME TypeOK, Owned, NEW p \in Procs, Step(p)
  PROVE  Owned'
<1> USE DEF TypeOK, Owned, Alone, Buffers, Allocated, Inside, ReadLabels,
            WriteLabels, Goto, Return, Note, Touch, kfree, transferVars
<1>1. CASE OpenRx(p)           BY <1>1 DEF OpenRx, Overlap
<1>2. CASE OpenRxFails(p)      BY <1>2 DEF OpenRxFails, Overlap
<1>3. CASE OpenTx(p)           BY <1>3 DEF OpenTx
<1>4. CASE OpenTxFails(p)      BY <1>4 DEF OpenTxFails
<1>5. CASE Lock(p)             BY <1>5 DEF Lock
<1>6. CASE LockInterrupted(p)  BY <1>6 DEF LockInterrupted
<1>7. CASE ReadEnter(p)        BY <1>7 DEF ReadEnter
<1>8. CASE ReadCopyIn(p)       BY <1>8 DEF ReadCopyIn
<1>9. CASE ReadCopyFault(p)    BY <1>9 DEF ReadCopyFault
<1>10. CASE ReadStart(p)       BY <1>10 DEF ReadStart, StartTransfer
<1>11. CASE ReadWaitTx(p)      BY <1>11 DEF ReadWaitTx
<1>12. CASE ReadWaitRx(p)      BY <1>12 DEF ReadWaitRx
<1>13. CASE ReadCopyOut(p)     BY <1>13 DEF ReadCopyOut
<1>14. CASE WriteCopyIn(p)     BY <1>14 DEF WriteCopyIn
<1>15. CASE WriteCopyFault(p)  BY <1>15 DEF WriteCopyFault
<1>16. CASE WriteStart(p)      BY <1>16 DEF WriteStart, StartTransfer
<1>17. CASE WriteWait(p)       BY <1>17 DEF WriteWait
<1>18. CASE CloseUnlock(p)     BY <1>18 DEF CloseUnlock
<1>19. CASE CloseFree(p)       BY <1>19 DEF CloseFree
<1>20. CASE Signal(p)          BY <1>20 DEF Signal
<1>21. QED
  BY <1>1, <1>2, <1>3, <1>4, <1>5, <1>6, <1>7, <1>8, <1>9, <1>10, <1>11,
     <1>12, <1>13, <1>14, <1>15, <1>16, <1>17, <1>18, <1>19, <1>20
     DEF Step, spi_driver_open, spi_driver_read, spi_driver_write,
         spi_driver_close

LEMMA ReachableStep ==
  ASSUME TypeOK, Reachable, NEW p \in Procs, Step(p)
  PROVE  Reachable'
<1> USE DEF TypeOK, Reachable, Alone, Buffers, Allocated, Inside, ReadLabels,
            WriteLabels, Goto, Return, Note, Touch, kfree, transferVars
<1>1. CASE OpenRx(p)           BY <1>1 DEF OpenRx, Overlap
<1>2. CASE OpenRxFails(p)      BY <1>2 DEF OpenRxFails, Overlap
<1>3. CASE OpenTx(p)           BY <1>3 DEF OpenTx
<1>4. CASE OpenTxFails(p)      BY <1>4 DEF OpenTxFails
<1>5. CASE Lock(p)             BY <1>5 DEF Lock
<1>6. CASE LockInterrupted(p)  BY <1>6 DEF LockInterrupted
<1>7. CASE ReadEnter(p)        BY <1>7 DEF ReadEnter
<1>8. CASE ReadCopyIn(p)       BY <1>8 DEF ReadCopyIn
<1>9. CASE ReadCopyFault(p)    BY <1>9 DEF ReadCopyFault
<1>10. CASE ReadStart(p)       BY <1>10 DEF ReadStart, StartTransfer
<1>11. CASE ReadWaitTx(p)      BY <1>11 DEF ReadWaitTx
<1>12. CASE ReadWaitRx(p)      BY <1>12 DEF ReadWaitRx
<1>13. CASE ReadCopyOut(p)     BY <1>13 DEF ReadCopyOut
<1>14. CASE WriteCopyIn(p)     BY <1>14 DEF WriteCopyIn
<1>15. CASE WriteCopyFault(p)  BY <1>15 DEF WriteCopyFault
<1>16. CASE WriteStart(p)      BY <1>16 DEF WriteStart, StartTransfer
<1>17. CASE WriteWait(p)       BY <1>17 DEF WriteWait
<1>18. CASE CloseUnlock(p)     BY <1>18 DEF CloseUnlock
<1>19. CASE CloseFree(p)       BY <1>19 DEF CloseFree
<1>20. CASE Signal(p)          BY <1>20 DEF Signal
<1>21. QED
  BY <1>1, <1>2, <1>3, <1>4, <1>5, <1>6, <1>7, <1>8, <1>9, <1>10, <1>11,
     <1>12, <1>13, <1>14, <1>15, <1>16, <1>17, <1>18, <1>19, <1>20
     DEF Step, spi_driver_open, spi_driver_read, spi_driver_write,
         spi_driver_close

(* The handler touches no buffer, because irqstatus of dev is never        *)
(* assigned; the proof needs that fact.                                    *)
HandlerIdle == dev.irqstatus = {}

LEMMA HandlerStaysIdle == Spec => []HandlerIdle
<1>1. Init => HandlerIdle
  BY DEF Init, HandlerIdle
<1>2. TypeOK /\ HandlerIdle /\ [Next]_vars => HandlerIdle'
  <2> SUFFICES ASSUME TypeOK, HandlerIdle, [Next]_vars PROVE HandlerIdle'
    OBVIOUS
  <2> USE DEF TypeOK, HandlerIdle, transferVars
  <2>1. ASSUME NEW p \in Procs, spi_driver_open(p) PROVE HandlerIdle'
    BY <2>1 DEF spi_driver_open, OpenRx, OpenRxFails, OpenTx, OpenTxFails,
                Lock, LockInterrupted
  <2>2. ASSUME NEW p \in Procs, spi_driver_read(p) PROVE HandlerIdle'
    BY <2>2 DEF spi_driver_read, ReadEnter, ReadCopyIn, ReadCopyFault,
                ReadStart, StartTransfer, ReadWaitTx, ReadWaitRx, ReadCopyOut
  <2>3. ASSUME NEW p \in Procs, spi_driver_write(p) PROVE HandlerIdle'
    BY <2>3 DEF spi_driver_write, WriteCopyIn, WriteCopyFault, WriteStart,
                StartTransfer, WriteWait
  <2>4. ASSUME NEW p \in Procs, spi_driver_close(p) \/ Signal(p)
        PROVE  HandlerIdle'
    BY <2>4 DEF spi_driver_close, CloseUnlock, CloseFree, Signal
  <2>5. Background => HandlerIdle'
    BY DEF Background, spi_driver_irq_handler, Shift
  <2>6. UNCHANGED vars => HandlerIdle'
    BY DEF vars
  <2>7. QED
    BY <2>1, <2>2, <2>3, <2>4, <2>5, <2>6 DEF Next, Background
<1>3. QED
  BY <1>1, <1>2, TypeCorrect, PTL DEF Spec

(* The buffers are used and freed only while they are allocated, unless    *)
(* opens overlapped or an error path freed one with the file still open.   *)
THEOREM HeapSafety == Spec => []HeapSafe
<1>1. Init => Owned
  BY DEF Init, Owned, Alone, Allocated, Inside, ReadLabels, WriteLabels
<1>2. TypeOK /\ HandlerIdle /\ Owned /\ [Next]_vars => Owned'
  <2>1. UNCHANGED vars /\ Owned => Owned'
    BY DEF vars, Owned, Alone, Allocated, Inside, Buffers
  <2>2. Background /\ HandlerIdle /\ Owned => Owned'
    BY DEF Background, spi_driver_irq_handler, Shift, HandlerIdle, Owned,
           Alone, Allocated, Inside, Buffers
  <2>3. QED
    BY <2>1, <2>2, OwnedStep DEF Next, Step, Background
<1>3. TypeOK /\ Owned => HeapSafe
  BY DEF TypeOK, Owned, HeapSafe
<1>4. QED
  BY <1>1, <1>2, <1>3, TypeCorrect, HandlerStaysIdle, PTL DEF Spec

(* With every file closed nothing stays allocated, unless opens overlapped *)
(* or an open failed half-way.                                             *)
THEOREM LeakFreedom == Spec => []NoLeak
<1>1. Init => Reachable
  BY DEF Init, Reachable, Alone, Allocated, Inside, ReadLabels, WriteLabels
<1>2. TypeOK /\ HandlerIdle /\ Reachable /\ [Next]_vars => Reachable'
  <2>1. UNCHANGED vars /\ Reachable => Reachable'
    BY DEF vars, Reachable, Alone, Allocated, Inside, Buffers
  <2>2. Background /\ HandlerIdle /\ Reachable => Reachable'
    BY DEF Background, spi_driver_irq_handler, Shift, HandlerIdle, Reachable,
           Alone, Allocated, Inside, Buffers
  <2>3. QED
    BY <2>1, <2>2, ReachableStep DEF Next, Step, Background
<1>3. Reachable => NoLeak
  BY DEF Reachable, NoLeak
<1>4. QED
  BY <1>1, <1>2, <1>3, TypeCorrect, HandlerStaysIdle, PTL DEF Spec

-----------------------------------------------------------------------------
(* What ChipSelectFollowsTransfer rests on, with MutexHeld: the line is    *)
(* low exactly while the transfer of some process is on the wire.          *)
LEMMA ChipSelectStep ==
  ASSUME TypeOK, MutexHeld, ChipSelectFollowsTransfer, NEW p \in Procs,
         Step(p)
  PROVE  ChipSelectFollowsTransfer'
<1> USE DEF TypeOK, MutexHeld, ChipSelectFollowsTransfer, OnTheWire, Inside,
            ReadLabels, WriteLabels, Goto, Return, Note, transferVars
<1>1. CASE spi_driver_open(p)
  BY <1>1 DEF spi_driver_open, OpenRx, OpenRxFails, OpenTx, OpenTxFails, Lock,
              LockInterrupted
<1>2. CASE ReadEnter(p)        BY <1>2 DEF ReadEnter
<1>3. CASE ReadCopyIn(p)       BY <1>3 DEF ReadCopyIn
<1>4. CASE ReadCopyFault(p)    BY <1>4 DEF ReadCopyFault
<1>5. CASE ReadStart(p)        BY <1>5 DEF ReadStart, StartTransfer
<1>6. CASE ReadWaitTx(p)       BY <1>6 DEF ReadWaitTx
<1>7. CASE ReadWaitRx(p)       BY <1>7 DEF ReadWaitRx
<1>8. CASE ReadCopyOut(p)      BY <1>8 DEF ReadCopyOut
<1>9. CASE WriteCopyIn(p)      BY <1>9 DEF WriteCopyIn
<1>10. CASE WriteCopyFault(p)  BY <1>10 DEF WriteCopyFault
<1>11. CASE WriteStart(p)      BY <1>11 DEF WriteStart, StartTransfer
<1>12. CASE WriteWait(p)       BY <1>12 DEF WriteWait
<1>13. CASE spi_driver_close(p)
  BY <1>13 DEF spi_driver_close, CloseUnlock, CloseFree
<1>14. CASE Signal(p)          BY <1>14 DEF Signal
<1>15. QED
  BY <1>1, <1>2, <1>3, <1>4, <1>5, <1>6, <1>7, <1>8, <1>9, <1>10, <1>11,
     <1>12, <1>13, <1>14
     DEF Step, spi_driver_read, spi_driver_write

(* The chip select is asserted exactly while a transfer is on the wire,    *)
(* unless a write was interrupted or an open got in without the mutex.     *)
THEOREM ChipSelect == Spec => []ChipSelectFollowsTransfer
<1>1. Init => ChipSelectFollowsTransfer
  BY DEF Init, ChipSelectFollowsTransfer, OnTheWire
<1>2. TypeOK /\ HandlerIdle /\ MutexHeld /\ ChipSelectFollowsTransfer
      /\ [Next]_vars => ChipSelectFollowsTransfer'
  <2>1. UNCHANGED vars /\ ChipSelectFollowsTransfer
          => ChipSelectFollowsTransfer'
    BY DEF vars, ChipSelectFollowsTransfer, OnTheWire
  <2>2. TypeOK /\ Background /\ HandlerIdle /\ ChipSelectFollowsTransfer
          => ChipSelectFollowsTransfer'
    BY DEF Background, spi_driver_irq_handler, Shift, HandlerIdle, TypeOK,
           ChipSelectFollowsTransfer, OnTheWire
  <2>3. QED
    BY <2>1, <2>2, ChipSelectStep DEF Next, Step, Background
<1>3. QED
  BY <1>1, <1>2, TypeCorrect, HandlerStaysIdle, MutexAlways, PTL DEF Spec

=============================================================================
