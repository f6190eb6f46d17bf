----------------------- MODULE DriverLifecycleProofs -----------------------
(***************************************************************************)
(* Proofs about DriverLifecycle, for any set of processes.  The invariants *)
(* say what is held at each point of init and probe: at least what a later *)
(* release gives back (Acquired), at most what it accounts for (Bounded).  *)
(***************************************************************************)
EXTENDS DriverLifecycle, TLAPS

Probing == module \in ProbeLabels

(* Without a failed class_create, device_create or request_irq.            *)
Acquired ==
  faults \cap {"class", "node", "irq"} = {} =>
    /\ ~misuse
    /\ module \in {"cdev", "class", "node", "register"} => "region" \in held
    /\ module \in {"class", "node", "register"} => "cdev" \in held
    /\ module \in {"node", "register"} => "class" \in held
    /\ module = "register" => "node" \in held
    /\ module = "loaded" \/ Probing => Registration \subseteq held
    /\ bound => "irq" \in held

(* Without a failed call after the registration of the character device.   *)
Bounded ==
  faults \cap {"class", "node", "irq", "map", "reset"} = {} =>
    /\ module \in {"absent", "init"} => held \subseteq Leftovers
    /\ module \in {"cdev", "class", "node", "register", "probe"}
         => "irq" \notin held
    /\ module \in {"cdev", "class", "node", "register"}
         => "pdriver" \notin held
    /\ module = "loaded" => ("irq" \in held => bound)

(* Nobody has the device open before it was added, and a bound device has  *)
(* what it took in probe.                                                  *)
Opened ==
  /\ bound => module = "loaded" /\ {"irq", "maps"} \subseteq held
  /\ module \in {"map", "reset", "configure"} => "irq" \in held
  /\ module \in {"reset", "configure"} => "maps" \in held
  /\ "register" \notin faults =>
       /\ module \in {"absent", "init", "cdev"}
            => users = {} /\ "added" \notin held
       /\ users # {} =>
            \/ "added" \in held
            \/ module = "loaded" /\ ~bound

IInv == TypeOK /\ Acquired /\ Bounded /\ Opened

-----------------------------------------------------------------------------
LEMMA InitIInv == Init => IInv
<1> SUFFICES ASSUME Init PROVE IInv
  OBVIOUS
<1>1. TypeOK
  <2>1. 0 \in 0..MaxPolls
    BY DEF MaxPolls
  <2>2. QED
    BY <2>1, Zenon DEF Init, TypeOK, Modules
<1>2. Acquired
  BY DEF Init, Acquired, Probing, ProbeLabels
<1>3. Bounded
  BY DEF Init, Bounded
<1>4. Opened
  BY DEF Init, Opened
<1>5. QED
  BY <1>1, <1>2, <1>3, <1>4 DEF IInv

(* The steps of spi_driver_init.                                           *)
LEMMA InitStep == IInv /\ spi_driver_init => IInv'
<1> SUFFICES ASSUME IInv, spi_driver_init PROVE IInv'
  OBVIOUS
<1> USE DEF IInv, TypeOK, Acquired, Bounded, Opened, Modules, InitLabels,
            ProbeLabels, Probing, Resources, Registration, Calls, MaxPolls,
            Leftovers, Goto, Take, Release, Fails
<1>1. CASE Load
  <2>1. TypeOK'
    <3>1. 0 \in 0..MaxPolls
      OBVIOUS
    <3>2. QED
      BY <1>1, <3>1, Zenon DEF Load
  <2>2. Acquired'  BY <1>1 DEF Load
  <2>3. Bounded'   BY <1>1 DEF Load
  <2>4. Opened'    BY <1>1 DEF Load
  <2>5. QED
    BY <2>1, <2>2, <2>3, <2>4
<1>2. CASE AllocRegion        BY <1>2 DEF AllocRegion
<1>3. CASE AllocRegionFails   BY <1>3 DEF AllocRegionFails
<1>4. CASE CdevAdd            BY <1>4 DEF CdevAdd
<1>5. CASE CdevAddFails       BY <1>5 DEF CdevAddFails
<1>6. CASE CdevAllocFails     BY <1>6 DEF CdevAllocFails
<1>7. CASE ClassCreate        BY <1>7 DEF ClassCreate
<1>8. CASE ClassCreateFails   BY <1>8 DEF ClassCreateFails
<1>9. CASE DeviceCreate       BY <1>9 DEF DeviceCreate
<1>10. CASE DeviceCreateFails BY <1>10 DEF DeviceCreateFails
<1>11. CASE Register          BY <1>11 DEF Register
<1>12. CASE RegisterFails     BY <1>12 DEF RegisterFails
<1>13. QED
  BY <1>1, <1>2, <1>3, <1>4, <1>5, <1>6, <1>7, <1>8, <1>9, <1>10, <1>11,
     <1>12 DEF spi_driver_init

(* The steps of spi_driver_probe.                                          *)
LEMMA ProbeStep == IInv /\ spi_driver_probe => IInv'
<1> SUFFICES ASSUME IInv, spi_driver_probe PROVE IInv'
  OBVIOUS
<1> USE DEF IInv, TypeOK, Acquired, Bounded, Opened, Modules, InitLabels,
            ProbeLabels, Probing, Resources, Registration, Calls, MaxPolls,
            Leftovers, Goto, Take, Release, Fails
<1>1. CASE RequestIrq       BY <1>1 DEF RequestIrq
<1>2. CASE RequestIrqFails  BY <1>2 DEF RequestIrqFails
<1>3. CASE Map              BY <1>3 DEF Map
<1>4. CASE MapFails
  <2>1. TypeOK'    BY <1>4 DEF MapFails
  <2>2. Acquired'  BY <1>4 DEF MapFails
  <2>3. Bounded'   BY <1>4 DEF MapFails
  <2>4. Opened'    BY <1>4 DEF MapFails
  <2>5. QED
    BY <2>1, <2>2, <2>3, <2>4
<1>5. CASE ResetDone        BY <1>5 DEF ResetDone
<1>6. CASE ResetPending     BY <1>6 DEF ResetPending
<1>7. CASE ResetFails       BY <1>7 DEF ResetFails
<1>8. CASE Configure        BY <1>8 DEF Configure
<1>9. QED
  BY <1>1, <1>2, <1>3, <1>4, <1>5, <1>6, <1>7, <1>8 DEF spi_driver_probe

(* Unloading, and the users.                                               *)
LEMMA ExitStep ==
  IInv /\ (Exit \/ \E u \in Users : Open(u) \/ Close(u)) => IInv'
<1> SUFFICES ASSUME IInv, Exit \/ \E u \in Users : Open(u) \/ Close(u)
             PROVE  IInv'
  OBVIOUS
<1> USE DEF IInv, TypeOK, Acquired, Bounded, Opened, Modules, InitLabels,
            ProbeLabels, Probing, Resources, Registration, Calls, MaxPolls,
            Leftovers, Goto, Release
<1>1. CASE Exit
  BY <1>1 DEF Exit
<1>2. ASSUME NEW u \in Users, Open(u) PROVE IInv'
  BY <1>2 DEF Open
<1>3. ASSUME NEW u \in Users, Close(u) PROVE IInv'
  BY <1>3 DEF Close
<1>4. QED
  BY <1>1, <1>2, <1>3

LEMMA Inductive == Spec => []IInv
<1>1. IInv /\ UNCHANGED vars => IInv'
  BY DEF vars, IInv, TypeOK, Acquired, Bounded, Opened, Probing
<1>2. IInv /\ [Next]_vars => IInv'
  BY <1>1, InitStep, ProbeStep, ExitStep DEF Next
<1>3. QED
  BY InitIInv, <1>2, PTL DEF Spec

-----------------------------------------------------------------------------
(* The module is at one point of init, probe or exit, and the poll loop of *)
(* probe is bounded by four rounds.                                        *)
THEOREM TypeCorrect == Spec => []TypeOK
<1>1. IInv => TypeOK
  BY DEF IInv
<1>2. QED
  BY <1>1, Inductive, PTL

(* Unloading leaves nothing but the mappings and the GPIO, unless one of   *)
(* the error paths from class_create on was taken in some load.            *)
THEOREM Unloading == Spec => []CleanUnload
<1>1. IInv => CleanUnload
  BY DEF IInv, Bounded, CleanUnload
<1>2. QED
  BY <1>1, Inductive, PTL

(* No sequence of loads and unloads releases a resource twice, unless      *)
(* class_create, device_create or request_irq failed in one of them.       *)
THEOREM SingleRelease == Spec => []NoDoubleRelease
<1>1. IInv => NoDoubleRelease
  BY DEF IInv, Acquired, NoDoubleRelease
<1>2. QED
  BY <1>1, Inductive, PTL

(* An open file keeps the module and what a bound device needs.            *)
THEOREM Pinning == Spec => []OpenFileKeepsDevice
<1>1. IInv => OpenFileKeepsDevice
  BY DEF IInv, Opened, OpenFileKeepsDevice
<1>2. QED
  BY <1>1, Inductive, PTL

=============================================================================
