-------------------------- MODULE DriverLifecycle --------------------------
(***************************************************************************)
(* Loading, probing and unloading the module of spi_driver.c, and what it  *)
(* holds of the kernel meanwhile.  spi_driver_init creates the device node *)
(* before it registers the platform driver, whose probe runs inside that   *)
(* registration; a failed probe does not fail the registration.  Files may *)
(* be opened as soon as the character device is added.                     *)
(*                                                                         *)
(* A step of init or probe is one call that can fail, with its error path. *)
(* spi_driver_exit is one step: a module that is being unloaded can not be *)
(* opened.  SpiDriver models what an open file does.                       *)
(***************************************************************************)
EXTENDS Naturals

CONSTANT Users   (* the processes that may open the device node            *)

VARIABLES
  module,  (* whether the module is loaded, and where init or probe is     *)
  held,    (* what the module has of the kernel                            *)
  bound,   (* a probe succeeded: exit will call spi_driver_remove          *)
  polls,   (* count of spi_driver_probe                                    *)
  users,   (* the processes with the device open                           *)
  misuse,  (* something was released that was not held                     *)
  faults   (* the calls that failed so far (history)                       *)

vars == <<module, held, bound, polls, users, misuse, faults>>

(* "cdev" is the cdev object, "added" its entry in the map of devices,     *)
(* "pdriver" the platform driver, "maps" the three register windows.       *)
Registration == {"region", "cdev", "class", "node", "pdriver"}
Resources == Registration \cup {"added", "irq", "maps", "gpio"}

InitLabels == {"init", "cdev", "class", "node", "register"}
ProbeLabels == {"probe", "map", "reset", "configure"}
Modules == {"absent", "loaded", "oops"} \cup InitLabels \cup ProbeLabels

Calls == {"region", "cdev_alloc", "cdev_add", "class", "node", "register",
          "irq", "map", "reset"}

MaxPolls == 4

Init ==
  /\ module = "absent"
  /\ held = {}
  /\ bound = FALSE
  /\ polls = 0
  /\ users = {}
  /\ misuse = FALSE
  /\ faults = {}

-----------------------------------------------------------------------------
Goto(from, to) == module = from /\ module' = to

Take(what) == held' = held \cup what /\ UNCHANGED misuse

(* cdev_del also takes the device out of the map.                          *)
Release(what) ==
  /\ held' = held \ (what \cup (IF "cdev" \in what THEN {"added"} ELSE {}))
  /\ misuse' = (misuse \/ ~(what \subseteq held))

Fails(call) == faults' = faults \cup {call}

-----------------------------------------------------------------------------
(* spi_driver_init.  The memory of a loaded module starts from zero.       *)
Load ==
  /\ Goto("absent", "init")
  /\ bound' = FALSE /\ polls' = 0
  /\ UNCHANGED <<held, users, misuse, faults>>

AllocRegion ==
  /\ Goto("init", "cdev")
  /\ Take({"region"})
  /\ UNCHANGED <<bound, polls, users, faults>>

AllocRegionFails ==
  /\ Goto("init", "absent")
  /\ Fails("region")
  /\ UNCHANGED <<held, bound, polls, users, misuse>>

CdevAdd ==
  /\ Goto("cdev", "class")
  /\ Take({"cdev", "added"})
  /\ UNCHANGED <<bound, polls, users, faults>>

(* The error is compared with -1 and cdev_add returns another one.         *)
CdevAddFails ==
  /\ Goto("cdev", "class")
  /\ Take({"cdev"})
  /\ Fails("cdev_add")
  /\ UNCHANGED <<bound, polls, users>>

(* The pointer cdev_alloc returns is used unchecked.                       *)
CdevAllocFails ==
  /\ Goto("cdev", "oops")
  /\ Fails("cdev_alloc")
  /\ UNCHANGED <<held, bound, polls, users, misuse>>

ClassCreate ==
  /\ Goto("class", "node")
  /\ Take({"class"})
  /\ UNCHANGED <<bound, polls, users, faults>>

(* The positive EFAULT of the next two is no error to the loader.          *)
ClassCreateFails ==
  /\ Goto("class", "loaded")
  /\ Release({"region"})
  /\ Fails("class")
  /\ UNCHANGED <<bound, polls, users>>

DeviceCreate ==
  /\ Goto("node", "register")
  /\ Take({"node"})
  /\ UNCHANGED <<bound, polls, users, faults>>

DeviceCreateFails ==
  /\ Goto("node", "loaded")
  /\ Release({"class", "region"})
  /\ Fails("node")
  /\ UNCHANGED <<bound, polls, users>>

(* Probe runs now if the device tree has the device.                       *)
Register ==
  /\ module = "register"
  /\ module' \in {"probe", "loaded"}
  /\ Take({"pdriver"})
  /\ UNCHANGED <<bound, polls, users, faults>>

(* Defect: the error path of init forgets the class.                       *)
RegisterFailsKeepsClass ==
  /\ Goto("register", "absent")
  /\ Release({"cdev", "node", "region"})
  /\ Fails("register")
  /\ UNCHANGED <<bound, polls, users>>

RegisterFails ==
  /\ Goto("register", "absent")
  /\ Release({"cdev", "node", "class", "region"})
  /\ Fails("register")
  /\ UNCHANGED <<bound, polls, users>>

-----------------------------------------------------------------------------
(* spi_driver_probe.  Whatever it returns, the registration succeeds and   *)
(* init returns 0.                                                         *)
RequestIrq ==
  /\ Goto("probe", "map")
  /\ "irq" \notin held
  /\ Take({"irq"})
  /\ UNCHANGED <<bound, polls, users, faults>>

(* No interrupt number, or it is taken: probe undoes what init did.        *)
RequestIrqFails ==
  /\ Goto("probe", "loaded")
  /\ Release(Registration)
  /\ Fails("irq")
  /\ UNCHANGED <<bound, polls, users>>

(* mutex_init and the three ioremap.                                       *)
Map ==
  /\ Goto("map", "reset")
  /\ Take({"maps"})
  /\ UNCHANGED <<bound, polls, users, faults>>

(* Those that succeeded stay, and so does the interrupt.                   *)
MapFails ==
  /\ Goto("map", "loaded")
  /\ Take({"maps"}) \/ Take({})
  /\ Fails("map")
  /\ UNCHANGED <<bound, polls, users>>

ResetDone ==
  /\ Goto("reset", "configure")
  /\ polls < MaxPolls
  /\ UNCHANGED <<held, bound, polls, users, misuse, faults>>

(* Defect: the poll loop has no bound.                                     *)
ResetPendingForever ==
  /\ Goto("reset", "reset")
  /\ polls' = polls + 1
  /\ UNCHANGED <<held, bound, users, misuse, faults>>

ResetPending ==
  /\ Goto("reset", "reset")
  /\ polls < MaxPolls
  /\ polls' = polls + 1
  /\ UNCHANGED <<held, bound, users, misuse, faults>>

(* The status read last is not looked at.                                  *)
ResetFails ==
  /\ Goto("reset", "loaded")
  /\ polls >= MaxPolls
  /\ Fails("reset")
  /\ UNCHANGED <<held, bound, polls, users, misuse>>

(* The channel is set up; whether the GPIO was granted is not checked.     *)
Configure ==
  /\ Goto("configure", "loaded")
  /\ Take({"gpio"})
  /\ bound' = TRUE
  /\ UNCHANGED <<polls, users, faults>>

-----------------------------------------------------------------------------
(* Defect: the module has no owner and can be unloaded under an open file. *)
ExitUnderUsers ==
  /\ Goto("loaded", "absent")
  /\ Release(Registration \cup (IF bound THEN {"irq"} ELSE {}))
  /\ bound' = FALSE
  /\ UNCHANGED <<polls, users, faults>>

(* Defect: exit frees the interrupt of a device that was never probed.     *)
ExitFreesIrq ==
  /\ Goto("loaded", "absent")
  /\ users = {}
  /\ Release(Registration \cup {"irq"})
  /\ bound' = FALSE
  /\ UNCHANGED <<polls, users, faults>>

(* spi_driver_exit, and spi_driver_remove of a bound device.  The kernel   *)
(* unloads no module that has a file open (owner, lines 25 and 338).       *)
Exit ==
  /\ Goto("loaded", "absent")
  /\ users = {}
  /\ Release(Registration \cup (IF bound THEN {"irq"} ELSE {}))
  /\ bound' = FALSE
  /\ UNCHANGED <<polls, users, faults>>

(* The kernel lets a file of an added device be opened, in init already.   *)
Open(u) ==
  /\ "added" \in held
  /\ users' = users \cup {u}
  /\ UNCHANGED <<module, held, bound, polls, misuse, faults>>

Close(u) ==
  /\ u \in users
  /\ users' = users \ {u}
  /\ UNCHANGED <<module, held, bound, polls, misuse, faults>>

-----------------------------------------------------------------------------
spi_driver_init ==
  \/ Load
  \/ AllocRegion \/ AllocRegionFails
  \/ CdevAdd \/ CdevAddFails \/ CdevAllocFails
  \/ ClassCreate \/ ClassCreateFails
  \/ DeviceCreate \/ DeviceCreateFails
  \/ Register \/ RegisterFails

spi_driver_probe ==
  \/ RequestIrq \/ RequestIrqFails
  \/ Map \/ MapFails
  \/ ResetDone \/ ResetPending \/ ResetFails
  \/ Configure

Next ==
  \/ spi_driver_init
  \/ spi_driver_probe
  \/ Exit
  \/ \E u \in Users : Open(u) \/ Close(u)

Spec == Init /\ [][Next]_vars

-----------------------------------------------------------------------------
TypeOK ==
  /\ module \in Modules
  /\ held \subseteq Resources
  /\ bound \in BOOLEAN
  /\ polls \in 0..MaxPolls
  /\ users \subseteq Users
  /\ misuse \in BOOLEAN
  /\ faults \subseteq Calls

(* What unloading never gives back: remove has no iounmap and no gpio_free.*)
Leftovers == {"maps", "gpio"}

(* An unloaded module leaves nothing else behind, whether exit undid init  *)
(* or init undid itself (spi_driver.c 368 to 376, 386 to 394), unless an   *)
(* error path of class_create, device_create or probe was taken.           *)
CleanUnload ==
  /\ module = "absent"
  /\ faults \cap {"class", "node", "irq", "map", "reset"} = {}
  => held \subseteq Leftovers

(* Nothing is released twice, over any sequence of loads and unloads,      *)
(* unless class_create, device_create or request_irq failed in one: then   *)
(* exit undoes again what the error path undid (spi_driver.c 351, 358,     *)
(* 434 to 438).                                                            *)
NoDoubleRelease == faults \cap {"class", "node", "irq"} = {} => ~misuse

(* The module stays, and with a device bound its interrupt, its registers  *)
(* and its entry in the map of devices too, while a file is open; only a   *)
(* platform_driver_register that fails, after the device could be opened,  *)
(* takes the module away under a file.                                     *)
OpenFileKeepsDevice ==
  users # {} /\ "register" \notin faults =>
    /\ module # "absent"
    /\ bound => {"irq", "maps", "added"} \subseteq held

=============================================================================
