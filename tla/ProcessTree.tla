---------------------------- MODULE ProcessTree ----------------------------
(***************************************************************************)
(* The processes of the web server: main (webserver.c) sets up, forks the  *)
(* plot, configuration and driver process and listens; each child asks for *)
(* SIGHUP at the death of its parent (prctl) and then enters its loop.     *)
(*                                                                         *)
(* The server may be started again, while processes of an earlier start    *)
(* still run or not.  All starts share one segment, whose key is fixed     *)
(* (configure_shared_mem), but each creates a semaphore set of its own     *)
(* (semget of IPC_PRIVATE), so that nothing keeps apart the processes of   *)
(* two starts.  A start is called an instance and named by its number; its *)
(* processes form one process group.                                       *)
(***************************************************************************)
EXTENDS Naturals

CONSTANT MaxStarts   (* bound of the model: how often the server is started *)

ASSUME MaxStartsAssumption == MaxStarts \in Nat

VARIABLES
  parent,      (* where main of each instance is                           *)
  child,       (* what each child of each instance is doing                *)
  listener,    (* the instance that listens on port 80, or 0               *)
  twice        (* an instance was started beside another one (history)     *)

vars == <<parent, child, listener, twice>>

Instances == 1..MaxStarts
Children == {"plot", "config", "driver"}
SegmentUsers == {"plot", "driver"}

(* A forked child has not called prctl yet; a bound one has, and dies with *)
(* its parent; the call of an orphan came too late.                        *)
Alive == {"forked", "bound", "orphan"}

ParentAlive(i) == parent[i] \notin {"none", "dead"}

Init ==
  /\ parent = [i \in Instances |-> "none"]
  /\ child = [i \in Instances |-> [c \in Children |-> "none"]]
  /\ listener = 0
  /\ twice = FALSE

-----------------------------------------------------------------------------
(* The operator starts the server.                                         *)
Start(i) ==
  /\ parent[i] = "none"
  /\ \A j \in Instances : j < i => parent[j] # "none"
  /\ parent' = [parent EXCEPT ![i] = "setup"]
  /\ twice' = (twice \/ \E j \in Instances : ParentAlive(j))
  /\ UNCHANGED <<child, listener>>

ParentGoto(i, from, to) ==
  /\ parent[i] = from
  /\ parent' = [parent EXCEPT ![i] = to]
  /\ UNCHANGED twice

(* Defect: SIGCHLD, which the children handle, is asked for.               *)
EndParentHarmless(i) ==
  /\ parent' = [parent EXCEPT ![i] = "dead"]
  /\ listener' = IF listener = i THEN 0 ELSE listener
  /\ UNCHANGED child

(* The end of main's process, however it comes about: its descriptors are  *)
(* closed and the children that asked for it get their SIGHUP, which they  *)
(* do not handle: they execute nothing any more.                           *)
EndParent(i) ==
  /\ parent' = [parent EXCEPT ![i] = "dead"]
  /\ child' = [child EXCEPT ![i] = [c \in Children |->
                 IF child[i][c] = "bound" THEN "dead" ELSE child[i][c]]]
  /\ listener' = IF listener = i THEN 0 ELSE listener

(* Configuration, pipe, signals, shared memory and semaphores.             *)
Setup(i) ==
  /\ ParentGoto(i, "setup", "forkPlot")
  /\ UNCHANGED <<child, listener>>

SetupFails(i) ==
  /\ parent[i] = "setup"
  /\ EndParent(i)
  /\ UNCHANGED twice

(* Defect: a child whose loop ends goes on in the code of main.            *)
ForkChildFallsThrough(i, c, from, to) ==
  /\ ParentGoto(i, from, to)
  /\ child' = [child EXCEPT ![i][c] = "main"]
  /\ UNCHANGED listener

ForkChild(i, c, from, to) ==
  /\ ParentGoto(i, from, to)
  /\ child' = [child EXCEPT ![i][c] = "forked"]
  /\ UNCHANGED listener

Fork(i) ==
  \/ ForkChild(i, "plot", "forkPlot", "forkConfig")
  \/ ForkChild(i, "config", "forkConfig", "forkDriver")
  \/ ForkChild(i, "driver", "forkDriver", "init")

(* A failed fork ends main; the children forked before are on their own.   *)
ForkFails(i) ==
  /\ parent[i] \in {"forkPlot", "forkConfig", "forkDriver"}
  /\ EndParent(i)
  /\ UNCHANGED twice

-----------------------------------------------------------------------------
(* web_server_init.  The port is free.                                     *)
Listen(i) ==
  /\ ParentGoto(i, "init", "serve")
  /\ listener = 0
  /\ listener' = i
  /\ UNCHANGED child

(* A call on the socket fails, as bind does when the port is taken.  main  *)
(* compares EXIT_FAILURE with ERROR and goes on.                           *)
BindFails(i) ==
  /\ ParentGoto(i, "init", "unbound")
  /\ UNCHANGED <<child, listener>>

(* No socket: sock_fd is the unsigned -1, and FD_SET of it in the loop     *)
(* (webserver.c 386) writes half a gigabyte behind readfds, which faults.  *)
SocketFails(i) ==
  /\ parent[i] = "init"
  /\ EndParent(i)
  /\ UNCHANGED twice

(* Defect: a failed accept is skipped.                                     *)
AcceptSkips(i) == parent[i] = "unbound" /\ UNCHANGED vars

(* select reports a socket that does not listen and accept fails.          *)
AcceptFails(i) ==
  /\ parent[i] = "unbound"
  /\ EndParent(i)
  /\ UNCHANGED twice

web_server_init(i) == Listen(i) \/ BindFails(i) \/ SocketFails(i)

-----------------------------------------------------------------------------
(* A child asks for SIGHUP at the death of its parent and starts its loop. *)
(* It does not look whether the parent is still there.                     *)
Prctl(i, c) ==
  /\ child[i][c] = "forked"
  /\ child' = [child EXCEPT ![i][c] =
                 IF ParentAlive(i) THEN "bound" ELSE "orphan"]
  /\ UNCHANGED <<parent, listener, twice>>

(* exit or a kill of one process.  The parent handles SIGCHLD but keeps    *)
(* serving without the child.                                              *)
ChildDies(i, c) ==
  /\ child[i][c] \in Alive
  /\ child' = [child EXCEPT ![i][c] = "dead"]
  /\ UNCHANGED <<parent, listener, twice>>

ParentDies(i) ==
  /\ ParentAlive(i)
  /\ EndParent(i)
  /\ UNCHANGED twice

(* SIGINT_handler, in main or in a child, which inherits it.  The process  *)
(* identifiers of webserver.h are static: functions.c has its own, which   *)
(* are 0, and kill(0, SIGKILL) ends the whole process group.               *)
SIGINT_handler(i) ==
  /\ \/ ParentAlive(i) /\ parent[i] # "setup"
     \/ \E c \in Children : child[i][c] \in Alive
  /\ parent' = [parent EXCEPT ![i] = "dead"]
  /\ child' = [child EXCEPT ![i] = [c \in Children |->
                 IF child[i][c] \in Alive THEN "dead" ELSE child[i][c]]]
  /\ listener' = IF listener = i THEN 0 ELSE listener
  /\ UNCHANGED twice

main(i) ==
  \/ Setup(i) \/ SetupFails(i)
  \/ Fork(i) \/ ForkFails(i)
  \/ web_server_init(i)
  \/ AcceptFails(i)

Next ==
  \E i \in Instances :
    \/ Start(i)
    \/ main(i)
    \/ \E c \in Children : Prctl(i, c) \/ ChildDies(i, c)
    \/ ParentDies(i)
    \/ SIGINT_handler(i)

Spec == Init /\ [][Next]_vars

(* The processes are scheduled; nothing need die and nobody need start.    *)
Fairness ==
  \A i \in Instances :
    /\ WF_vars(main(i))
    /\ \A c \in Children : WF_vars(Prctl(i, c))

FairSpec == Spec /\ Fairness

-----------------------------------------------------------------------------
TypeOK ==
  /\ parent \in [Instances -> {"none", "setup", "forkPlot", "forkConfig",
                               "forkDriver", "init", "serve", "unbound",
                               "dead"}]
  /\ child \in [Instances -> [Children -> Alive \cup {"none", "dead"}]]
  /\ listener \in Instances \cup {0}
  /\ twice \in BOOLEAN

(* The shared segment is used under one semaphore set at a time            *)
(* (driver_handler.c 53, functions.c 176): no two instances have a plot or *)
(* driver process in its loop, unless the server was started beside a      *)
(* running one or one of them is an orphan.                                *)
SegmentHasOneSet ==
  \A i, j \in Instances : \A c, d \in SegmentUsers :
    child[i][c] = "bound" /\ child[j][d] = "bound" /\ i # j => twice

(* An instance that could not bind or listen ends, with its children, but  *)
(* for one that became an orphan, although main does not notice the error  *)
(* (webserver.c 365): no second set of processes stays behind.             *)
FailedStartEnds ==
  \A i \in Instances :
    (parent[i] = "unbound") ~>
      (parent[i] = "dead" /\ \A c \in Children :
                                child[i][c] \in {"dead", "orphan"})

=============================================================================
