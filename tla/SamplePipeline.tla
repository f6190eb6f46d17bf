--------------------------- MODULE SamplePipeline ---------------------------
(***************************************************************************)
(* The path of a temperature sample through the web server's processes:    *)
(*                                                                         *)
(*   driver process --(shared segment, semaphores)--> plot process         *)
(*   plot process --(./sup/data.dat)--> client threads of the server       *)
(*                                                                         *)
(* child_driver_handler (driver_handler.c) measures, stores the sample     *)
(* under SEM_MUTEX and posts SEM_FULL.  child_plot_handler                 *)
(* (plot_handler.c) waits for SEM_FULL, loads the sample under SEM_MUTEX   *)
(* (get_current_temp, functions.c) and appends a line to the file.  A      *)
(* client thread takes the last line of it (get_last_temp), waits for the  *)
(* request in a blocking read, and shows what it took before the wait      *)
(* (client_thread, webserver.c): a slow client sees an old temperature.    *)
(*                                                                         *)
(* A step is one system call or one access to shared memory.  A sample is  *)
(* named by its number, so that a stale, repeated or invented one shows.   *)
(***************************************************************************)
EXTENDS Integers

CONSTANTS
  Clients,     (* places of connections: one serves many, one at a time    *)
  SemMax,      (* SEMVMX, the largest value of a System V semaphore: 32767 *)
  MaxSamples   (* bound of the model: the driver process measures no more  *)

ASSUME SemMaxAssumption == SemMax \in Nat \ {0}
ASSUME MaxSamplesAssumption == MaxSamples \in Nat

VARIABLES
  sem,       (* the semaphore set                                          *)
  shm,       (* shared_data_1->current_temp: the number of a sample        *)
  measured,  (* current_temp of the driver process: the last one measured  *)
  temp,      (* current_temp of the plot process: the last one loaded      *)
  nread,     (* nread of the plot process                                  *)
  dat,       (* last line of ./sup/data.dat, as the number of its sample   *)
  pc,        (* where the driver and the plot process are                  *)
  status,    (* whether each process runs, called exit() or was killed     *)
  thread,    (* the thread of each client: its label `at', its last_temp,  *)
             (* and `floor', the newest sample shown when it read the file *)
  shown      (* the newest sample any client was shown so far              *)

clientVars == <<thread, shown>>
vars == <<sem, shm, measured, temp, nread, dat, pc, status, thread, shown>>

Sems == {"MUTEX", "FULL", "EMPTY"}
Procs == {"driver", "plot", "server"}

DriverLabels == {"measure", "take", "store", "give", "post"}
PlotLabels == {"start", "poll", "takeFull", "takeMutex", "load", "giveMutex",
               "append"}

(* Values of dat that are no sample of this run.  The file may survive a   *)
(* previous run.  A client that finds it empty shows whatever the stack    *)
(* held (str and last_temp are uninitialised): Empty stands for that too.  *)
Missing == -2
Empty == -1
PreviousRun == 0

NoThread == [at |-> "none", last_temp |-> PreviousRun, floor |-> PreviousRun]

(* nread counts the line that is about to be written: it starts at n = 1.  *)
InitCountingFrom(n) ==
  /\ sem = [MUTEX |-> 1, FULL |-> 0, EMPTY |-> 10]
  /\ shm = 0
  /\ measured = 0
  /\ temp = 0
  /\ nread = n
  /\ dat \in {Missing, PreviousRun}
  /\ pc = [driver |-> "measure", plot |-> "start"]
  /\ status = [p \in Procs |-> "running"]
  /\ thread = [c \in Clients |-> NoThread]
  /\ shown = PreviousRun

(* Defect: the lines are counted from zero; the first window is then 0.    *)
InitFromZero == InitCountingFrom(0)

Init == InitCountingFrom(1)

-----------------------------------------------------------------------------
Running(p) == status[p] = "running"

Goto(p, from, to) ==
  /\ Running(p)
  /\ pc[p] = from
  /\ pc' = [pc EXCEPT ![p] = to]
  /\ UNCHANGED status

(* exit(EXIT_FAILURE) of process p.  No semaphore operation has SEM_UNDO.  *)
Exit(p) ==
  /\ Running(p)
  /\ status' = [status EXCEPT ![p] = "exited"]
  /\ UNCHANGED <<sem, shm, measured, temp, nread, dat, pc, clientVars>>

sem_take(s) ==
  /\ sem[s] > 0
  /\ sem' = [sem EXCEPT ![s] = @ - 1]

sem_give(s) ==
  /\ sem[s] < SemMax
  /\ sem' = [sem EXCEPT ![s] = @ + 1]

-----------------------------------------------------------------------------
(* child_driver_handler.  A new sample each time round: whatever           *)
(* get_bmp280_temp returns is a sample.                                    *)
Measure ==
  /\ Goto("driver", "measure", "take")
  /\ measured < MaxSamples
  /\ measured' = measured + 1
  /\ UNCHANGED <<sem, shm, temp, nread, dat, clientVars>>

DriverTake ==
  /\ Goto("driver", "take", "store")
  /\ sem_take("MUTEX")
  /\ UNCHANGED <<shm, measured, temp, nread, dat, clientVars>>

DriverStore ==
  /\ Goto("driver", "store", "give")
  /\ shm' = measured
  /\ UNCHANGED <<sem, measured, temp, nread, dat, clientVars>>

(* Defect: the sample is posted with the mutex, and once more after it.    *)
DriverGiveAndPost ==
  /\ Goto("driver", "give", "post")
  /\ sem["MUTEX"] < SemMax /\ sem["FULL"] < SemMax
  /\ sem' = [sem EXCEPT !["MUTEX"] = @ + 1, !["FULL"] = @ + 1]
  /\ UNCHANGED <<shm, measured, temp, nread, dat, clientVars>>

DriverGive ==
  /\ Goto("driver", "give", "post")
  /\ sem_give("MUTEX")
  /\ UNCHANGED <<shm, measured, temp, nread, dat, clientVars>>

(* Defect: the driver process forgets to post.                             *)
DriverSkipPost ==
  /\ Goto("driver", "post", "measure")
  /\ UNCHANGED <<sem, shm, measured, temp, nread, dat, clientVars>>

DriverPost ==
  /\ Goto("driver", "post", "measure")
  /\ sem_give("FULL")
  /\ UNCHANGED <<shm, measured, temp, nread, dat, clientVars>>

(* SEM_FULL is at SEMVMX: semop fails with ERANGE.  SEM_EMPTY, which would *)
(* hold the driver process back, is initialised and never taken.           *)
DriverPostFails ==
  /\ pc["driver"] = "post"
  /\ sem["FULL"] = SemMax
  /\ Exit("driver")

-----------------------------------------------------------------------------
(* child_plot_handler: the file is created or truncated once.              *)
PlotStart ==
  /\ Goto("plot", "start", "poll")
  /\ dat' = Empty
  /\ UNCHANGED <<sem, shm, measured, temp, nread, clientVars>>

(* Defect: the file is truncated in every round of the loop.               *)
PlotPollTruncates ==
  /\ Goto("plot", "poll", "takeFull")
  /\ dat' = Empty
  /\ UNCHANGED <<sem, shm, measured, temp, nread, clientVars>>

(* update_ctx_from_file; ConfigReload models what it does to the context.  *)
PlotPoll ==
  /\ Goto("plot", "poll", "takeFull")
  /\ UNCHANGED <<sem, shm, measured, temp, nread, dat, clientVars>>

(* Defect: the plot process does not wait for a sample.                    *)
PlotSkipFull ==
  /\ Goto("plot", "takeFull", "takeMutex")
  /\ UNCHANGED <<sem, shm, measured, temp, nread, dat, clientVars>>

PlotTakeFull ==
  /\ Goto("plot", "takeFull", "takeMutex")
  /\ sem_take("FULL")
  /\ UNCHANGED <<shm, measured, temp, nread, dat, clientVars>>

PlotTakeMutex ==
  /\ Goto("plot", "takeMutex", "load")
  /\ sem_take("MUTEX")
  /\ UNCHANGED <<shm, measured, temp, nread, dat, clientVars>>

PlotLoad ==
  /\ Goto("plot", "load", "giveMutex")
  /\ temp' = shm
  /\ UNCHANGED <<sem, shm, measured, nread, dat, clientVars>>

(* Defect: the plot process keeps the mutex.                               *)
PlotKeepMutex ==
  /\ Goto("plot", "giveMutex", "append")
  /\ UNCHANGED <<sem, shm, measured, temp, nread, dat, clientVars>>

PlotGiveMutex ==
  /\ Goto("plot", "giveMutex", "append")
  /\ sem_give("MUTEX")
  /\ UNCHANGED <<shm, measured, temp, nread, dat, clientVars>>

(* The line and its fclose are one write; the sleep follows.               *)
PlotAppend ==
  /\ Goto("plot", "append", "poll")
  /\ dat' = temp
  /\ nread' = nread + 1
  /\ UNCHANGED <<sem, shm, measured, temp, clientVars>>

(* Defect: the file is opened before the mutex is given back.              *)
PlotAppendFailsLocked == pc["plot"] = "giveMutex" /\ Exit("plot")

(* fopen returns NULL.                                                     *)
PlotAppendFails == pc["plot"] = "append" /\ Exit("plot")

-----------------------------------------------------------------------------
(* SIGUSR1 in a system call that SA_RESTART does not restart: semop and    *)
(* poll fail with EINTR and the caller exits.  Elsewhere the signal only   *)
(* sets flag_sigusr1 or ends a sleep early.                                *)
Blocked(p) ==
  \/ pc[p] \in {"take", "takeMutex"} /\ sem["MUTEX"] = 0
  \/ pc[p] = "takeFull" /\ sem["FULL"] = 0
  \/ pc[p] = "poll"

Interrupted(p) == Blocked(p) /\ Exit(p)

(* `make kill' (SIGTERM), or SIGHUP of a child whose parent is gone.       *)
Killed(p) ==
  /\ Running(p)
  /\ status' = [status EXCEPT ![p] = "killed"]
  /\ UNCHANGED <<sem, shm, measured, temp, nread, dat, pc, clientVars>>

(* A new thread reads the last line of the file, before it knows what it   *)
(* is asked for.                                                           *)
get_last_temp(c) ==
  /\ Running("server")
  /\ thread[c].at # "reading"
  /\ dat # Missing
  /\ thread' =
       [thread EXCEPT
          ![c] = [at |-> "reading", last_temp |-> dat, floor |-> shown]]
  /\ UNCHANGED <<sem, shm, measured, temp, nread, dat, pc, status, shown>>

(* The file is not there: the thread calls exit(), which ends the server.  *)
get_last_temp_fails == dat = Missing /\ Exit("server")

(* The read returned a GET, and the page goes out with the temperature     *)
(* taken before it.                                                        *)
send_response_data(c) ==
  /\ Running("server")
  /\ thread[c].at = "reading"
  /\ thread' = [thread EXCEPT ![c].at = "answered"]
  /\ shown' = IF thread[c].last_temp > shown THEN thread[c].last_temp
                                             ELSE shown
  /\ UNCHANGED <<sem, shm, measured, temp, nread, dat, pc, status>>

(* Any other request, or none: the thread ends without showing anything.   *)
ThreadError(c) ==
  /\ Running("server")
  /\ thread[c].at = "reading"
  /\ thread' = [thread EXCEPT ![c] = NoThread]
  /\ UNCHANGED <<sem, shm, measured, temp, nread, dat, pc, status, shown>>

-----------------------------------------------------------------------------
child_driver_handler ==
  \/ Measure
  \/ DriverTake
  \/ DriverStore
  \/ DriverGive
  \/ DriverPost
  \/ DriverPostFails

child_plot_handler ==
  \/ PlotStart
  \/ PlotPoll
  \/ PlotTakeFull
  \/ PlotTakeMutex
  \/ PlotLoad
  \/ PlotGiveMutex
  \/ PlotAppend
  \/ PlotAppendFails

client_thread ==
  \/ \E c \in Clients :
       get_last_temp(c) \/ send_response_data(c) \/ ThreadError(c)
  \/ get_last_temp_fails

Next ==
  \/ child_driver_handler
  \/ child_plot_handler
  \/ client_thread
  \/ \E p \in {"driver", "plot"} : Interrupted(p)
  \/ \E p \in Procs : Killed(p)

Spec == Init /\ [][Next]_vars

(* Both processes are scheduled and the kernel completes a blocked semop   *)
(* in the order of arrival when the semaphore is given, hence SF for the   *)
(* mutex that both take.  Measure is not fair: it waits for the device.    *)
(* No failure, signal or client is fair.                                   *)
Fairness ==
  /\ SF_vars(DriverTake) /\ WF_vars(DriverStore)
  /\ WF_vars(DriverGive) /\ WF_vars(DriverPost)
  /\ WF_vars(PlotStart) /\ WF_vars(PlotPoll)
  /\ WF_vars(PlotTakeFull) /\ SF_vars(PlotTakeMutex)
  /\ WF_vars(PlotLoad) /\ WF_vars(PlotGiveMutex)
  /\ WF_vars(PlotAppend)

FairSpec == Spec /\ Fairness

-----------------------------------------------------------------------------
TypeOK ==
  /\ sem \in [Sems -> Nat]
  /\ shm \in Nat
  /\ measured \in 0..MaxSamples
  /\ temp \in Nat
  /\ nread \in Nat \ {0}
  /\ dat \in Int /\ dat >= Missing
  /\ pc \in [{"driver", "plot"} -> DriverLabels \cup PlotLabels]
  /\ pc["driver"] \in DriverLabels /\ pc["plot"] \in PlotLabels
  /\ status \in [Procs -> {"running", "exited", "killed"}]
  /\ thread \in [Clients -> [at : {"none", "reading", "answered"},
                             last_temp : Int, floor : Nat]]
  /\ \A c \in Clients : thread[c].last_temp >= Empty
  /\ shown \in Nat

(* The process holds SEM_MUTEX, or died with it.                           *)
InCritical(p) == pc[p] \in {"store", "give", "load", "giveMutex"}

(* SEM_MUTEX is free exactly when neither process is between its sem_take  *)
(* and its sem_give, and never are both: the cell is accessed by one       *)
(* process at a time and no give is lost or made twice (driver_handler.c   *)
(* 53-55, functions.c 176-179), whoever exits or is killed.                *)
MutexAccounting ==
  /\ ~(InCritical("driver") /\ InCritical("plot"))
  /\ sem["MUTEX"] = IF InCritical("driver") \/ InCritical("plot")
                      THEN 0 ELSE 1

(* No exit(EXIT_FAILURE) of the code leaves SEM_MUTEX taken, although none *)
(* of the semops is undone at exit: not the interrupted semop or poll, nor *)
(* the failed sem_give or fopen.                                           *)
ExitLeavesMutexFree ==
  \A p \in {"driver", "plot"} : status[p] = "exited" => ~InCritical(p)

(* The k-th line of the file carries the k-th sample or a newer one, and   *)
(* never one that is not in the shared segment yet.                        *)
LinesAreFresh ==
  nread > 1 => dat >= nread - 1 /\ dat <= shm

(* A client that is taken up after somebody was shown a sample is shown    *)
(* that sample or a newer one, never an older one, a line of a previous    *)
(* run or an empty file: although threads overlap, wait as long as their   *)
(* clients like and answer in any order, and the file is appended to (and  *)
(* was truncated) meanwhile.  The order of the answers is not promised: a  *)
(* thread that read the file earlier may answer later.                     *)
LaterClientsSeeNoOlder ==
  \A c \in Clients :
    thread[c].at = "answered" /\ thread[c].floor >= 1
      => thread[c].last_temp >= thread[c].floor

(* A sample that was posted reaches the file, as itself or superseded by a *)
(* newer one, unless the plot process dies or the driver process is killed *)
(* holding SEM_MUTEX.                                                      *)
EverySampleReachesTheFile ==
  \A n \in 1..MaxSamples :
    (measured = n /\ pc["driver"] = "measure") ~>
      \/ dat >= n
      \/ ~Running("plot")
      \/ status["driver"] = "killed" /\ InCritical("driver")

-----------------------------------------------------------------------------
(* The semaphores and the segment implement the abstract channel.  A read  *)
(* of it is a load; nread counts the loads whose line is written.          *)
Loads ==
  IF pc["plot"] \in {"giveMutex", "append"} THEN nread ELSE nread - 1

Channel == INSTANCE SampleChannel WITH
  latest <- shm, reads <- Loads, got <- temp

ImplementsChannel == Channel!Spec

=============================================================================
