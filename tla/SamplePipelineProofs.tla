------------------------ MODULE SamplePipelineProofs ------------------------
(***************************************************************************)
(* Proofs about SamplePipeline, for every SEMVMX, every bound on the       *)
(* number of samples and any number of clients.                            *)
(***************************************************************************)
EXTENDS SamplePipeline, TLAPS

(* How many samples were posted, and how many posts were taken.            *)
Posted == IF pc["driver"] = "measure" THEN measured ELSE measured - 1
Taken == IF pc["plot"] \in {"takeMutex", "load"} THEN Loads + 1 ELSE Loads

(* Every post is either still in SEM_FULL or was taken by the plot process.*)
TokenAccounting == Posted = Taken + sem["FULL"] /\ measured >= 0

(* The driver process is at most one sample ahead of the segment, and no   *)
(* post precedes its store.                                                *)
ShmFollowsDriver ==
  /\ shm = IF pc["driver"] \in {"take", "store"} THEN measured - 1
                                                 ELSE measured
  /\ pc["driver"] # "measure" => measured >= 1

(* What the plot process loaded last is at least as new as the number of   *)
(* loads, and the file and the clients lag behind it.                      *)
FileFollowsPlot ==
  /\ Loads <= temp /\ temp <= shm
  /\ pc["plot"] = "start" => nread = 1
  /\ nread > 1 => nread - 1 <= dat /\ dat <= temp
  /\ nread = 1 => dat <= PreviousRun

(* Whatever was shown is in the file or was superseded in it, and so was   *)
(* whatever a thread holds; a thread holds what was shown when it read.    *)
ThreadsFollowFile ==
  /\ shown >= 1 => nread > 1 /\ shown <= dat
  /\ \A c \in Clients :
       /\ thread[c].last_temp >= 1 => nread > 1 /\ thread[c].last_temp <= dat
       /\ thread[c].floor >= 1 => thread[c].last_temp >= thread[c].floor

IInv ==
  /\ TypeOK
  /\ MutexAccounting
  /\ TokenAccounting
  /\ ShmFollowsDriver
  /\ FileFollowsPlot
  /\ ThreadsFollowFile
  /\ ExitLeavesMutexFree

-----------------------------------------------------------------------------
(* The initial state satisfies the inductive invariant.                    *)
LEMMA InitIInv == Init => IInv
<1> SUFFICES ASSUME Init PROVE IInv
  OBVIOUS
<1>1. TypeOK
  BY MaxSamplesAssumption
     DEF Init, InitCountingFrom, NoThread, TypeOK, Sems, Procs, DriverLabels,
         PlotLabels, Missing, Empty, PreviousRun
<1>2. QED
  BY <1>1 DEF Init, InitCountingFrom, NoThread, IInv, MutexAccounting,
              TokenAccounting, ShmFollowsDriver, FileFollowsPlot,
              ThreadsFollowFile, ExitLeavesMutexFree, Posted, Taken, Loads,
              InCritical, Missing, Empty, PreviousRun, Procs

(* TypeOK is inductive on its own.                                         *)
LEMMA TypeStep == TypeOK /\ [Next]_vars => TypeOK'
<1> USE SemMaxAssumption, MaxSamplesAssumption
    DEF TypeOK, Sems, Procs, DriverLabels, PlotLabels,
        Missing, Empty, PreviousRun
<1> SUFFICES ASSUME TypeOK, [Next]_vars PROVE TypeOK'
  OBVIOUS
<1> USE DEF Goto, Exit, Running, sem_take, sem_give, clientVars
<1>1. CASE child_driver_handler
  BY <1>1 DEF child_driver_handler, Measure, DriverTake, DriverStore,
              DriverGive, DriverPost, DriverPostFails
<1>2. CASE child_plot_handler
  BY <1>2 DEF child_plot_handler, PlotStart, PlotPoll, PlotTakeFull,
              PlotTakeMutex, PlotLoad, PlotGiveMutex, PlotAppend,
              PlotAppendFails
<1>3. CASE client_thread
  <2>1. CASE get_last_temp_fails
    BY <2>1 DEF get_last_temp_fails, clientVars
  <2>2. ASSUME NEW c \in Clients, get_last_temp(c) PROVE TypeOK'
    BY <2>2 DEF get_last_temp
  <2>3. ASSUME NEW c \in Clients, send_response_data(c) PROVE TypeOK'
    BY <2>3 DEF send_response_data
  <2>4. ASSUME NEW c \in Clients, ThreadError(c) PROVE TypeOK'
    BY <2>4 DEF ThreadError, NoThread
  <2>5. QED
    BY <1>3, <2>1, <2>2, <2>3, <2>4 DEF client_thread
<1>4. CASE \E p \in {"driver", "plot"} : Interrupted(p)
  BY <1>4 DEF Interrupted
<1>5. CASE \E p \in Procs : Killed(p)
  BY <1>5 DEF Killed
<1>6. CASE UNCHANGED vars
  BY <1>6 DEF vars
<1>7. QED
  BY <1>1, <1>2, <1>3, <1>4, <1>5, <1>6 DEF Next

(* A step of the driver process keeps the invariant.                       *)
LEMMA DriverStep == IInv /\ child_driver_handler => IInv'
<1> SUFFICES ASSUME IInv, child_driver_handler PROVE IInv'
  OBVIOUS
<1>1. TypeOK'
  BY TypeStep DEF IInv, Next
<1> USE <1>1 DEF IInv, TypeOK, MutexAccounting, TokenAccounting,
    ShmFollowsDriver, FileFollowsPlot, ThreadsFollowFile,
    ExitLeavesMutexFree, Posted, Taken, Loads, InCritical, clientVars, Goto,
    Exit, Running, sem_take, sem_give, Sems, Procs, DriverLabels, PlotLabels
<1>2. CASE Measure          BY <1>2 DEF Measure
<1>3. CASE DriverTake       BY <1>3 DEF DriverTake
<1>4. CASE DriverStore      BY <1>4 DEF DriverStore
<1>5. CASE DriverGive       BY <1>5 DEF DriverGive
<1>6. CASE DriverPost       BY <1>6 DEF DriverPost
<1>7. CASE DriverPostFails  BY <1>7 DEF DriverPostFails
<1>8. QED
  BY <1>2, <1>3, <1>4, <1>5, <1>6, <1>7 DEF child_driver_handler

(* A step of the plot process keeps the invariant.                         *)
LEMMA PlotStep == IInv /\ child_plot_handler => IInv'
<1> SUFFICES ASSUME IInv, child_plot_handler PROVE IInv'
  OBVIOUS
<1>1. TypeOK'
  BY TypeStep DEF IInv, Next
<1> USE <1>1 DEF IInv, TypeOK, MutexAccounting, TokenAccounting,
    ShmFollowsDriver, FileFollowsPlot, ThreadsFollowFile,
    ExitLeavesMutexFree, Posted, Taken, Loads, InCritical, clientVars, Goto,
    Exit, Running, sem_take, sem_give, Sems, Procs, DriverLabels, PlotLabels, Empty, PreviousRun
<1>2. CASE PlotStart        BY <1>2 DEF PlotStart
<1>3. CASE PlotPoll         BY <1>3 DEF PlotPoll
<1>4. CASE PlotTakeFull     BY <1>4 DEF PlotTakeFull
<1>5. CASE PlotTakeMutex    BY <1>5 DEF PlotTakeMutex
<1>6. CASE PlotLoad         BY <1>6 DEF PlotLoad
<1>7. CASE PlotGiveMutex    BY <1>7 DEF PlotGiveMutex
<1>8. CASE PlotAppend       BY <1>8 DEF PlotAppend
<1>9. CASE PlotAppendFails  BY <1>9 DEF PlotAppendFails
<1>10. QED
  BY <1>2, <1>3, <1>4, <1>5, <1>6, <1>7, <1>8, <1>9 DEF child_plot_handler

(* A client, a signal or a kill keeps the invariant.                       *)
LEMMA EnvironmentStep ==
  ASSUME IInv,
         \/ client_thread
         \/ \E p \in {"driver", "plot"} : Interrupted(p)
         \/ \E p \in Procs : Killed(p)
         \/ UNCHANGED vars
  PROVE  IInv'
<1>1. TypeOK'
  BY TypeStep DEF IInv, Next
<1> USE <1>1 DEF IInv, TypeOK, MutexAccounting, TokenAccounting,
    ShmFollowsDriver, FileFollowsPlot, ThreadsFollowFile,
    ExitLeavesMutexFree, Posted, Taken, Loads, InCritical, clientVars, Exit, Running, Sems, Procs, DriverLabels, PlotLabels,
    Empty, PreviousRun
<1>2. ASSUME NEW c \in Clients, get_last_temp(c) PROVE IInv'
  BY <1>2 DEF get_last_temp
<1>3. CASE get_last_temp_fails  BY <1>3 DEF get_last_temp_fails
<1>4. ASSUME NEW p \in {"driver", "plot"}, Interrupted(p) PROVE IInv'
  BY <1>4 DEF Interrupted, Blocked
<1>5. ASSUME NEW p \in Procs, Killed(p) PROVE IInv'
  BY <1>5 DEF Killed
<1>6. CASE UNCHANGED vars       BY <1>6 DEF vars
<1>7. ASSUME NEW c \in Clients, send_response_data(c) PROVE IInv'
  BY <1>7 DEF send_response_data
<1>8. ASSUME NEW c \in Clients, ThreadError(c) PROVE IInv'
  BY <1>8 DEF ThreadError, NoThread
<1>9. QED
  BY <1>2, <1>3, <1>4, <1>5, <1>6, <1>7, <1>8 DEF client_thread

(* IInv is an inductive invariant of the specification.                    *)
THEOREM Invariance == Spec => []IInv
<1>1. IInv /\ [Next]_vars => IInv'
  BY DriverStep, PlotStep, EnvironmentStep DEF Next
<1>2. QED
  BY InitIInv, <1>1, PTL DEF Spec

-----------------------------------------------------------------------------
(* The variables stay in their domains: no semaphore goes negative and     *)
(* each process stays within the steps of its own loop.                    *)
THEOREM TypeCorrect == Spec => []TypeOK
<1>1. IInv => TypeOK
  BY DEF IInv
<1>2. QED
  BY Invariance, <1>1, PTL

(* SEM_MUTEX excludes the two processes from each other's access to the    *)
(* shared segment, and its value always agrees with who is inside.         *)
THEOREM MutualExclusion == Spec => []MutexAccounting
<1>1. IInv => MutexAccounting
  BY DEF IInv
<1>2. QED
  BY Invariance, <1>1, PTL

(* Every exit() of the two processes happens with SEM_MUTEX given back.    *)
THEOREM ExitSafety == Spec => []ExitLeavesMutexFree
<1>1. IInv => ExitLeavesMutexFree
  BY DEF IInv
<1>2. QED
  BY Invariance, <1>1, PTL

(* The k-th line of data.dat carries at least the k-th sample.             *)
THEOREM Freshness == Spec => []LinesAreFresh
<1>1. IInv => LinesAreFresh
  BY DEF IInv, TypeOK, FileFollowsPlot, LinesAreFresh
<1>2. QED
  BY Invariance, <1>1, PTL

(* Whoever is taken up after a sample was shown is shown no older one,     *)
(* however the threads wait for their clients and overlap.                 *)
THEOREM NoOlderForLater == Spec => []LaterClientsSeeNoOlder
<1>1. IInv => LaterClientsSeeNoOlder
  BY DEF IInv, ThreadsFollowFile, LaterClientsSeeNoOlder
<1>2. QED
  BY Invariance, <1>1, PTL

-----------------------------------------------------------------------------
(* A store puts a sample into the channel, a load gets one, and every      *)
(* other step leaves the channel alone.                                    *)
LEMMA ChannelStep ==
  ASSUME IInv, [Next]_vars
  PROVE  [Channel!Next]_(Channel!chanVars)
<1> USE DEF IInv, TypeOK, TokenAccounting, ShmFollowsDriver, FileFollowsPlot,
    Posted, Taken, Loads, Goto, Exit, Running, Sems, Procs, DriverLabels,
    PlotLabels, Channel!Next, Channel!Put, Channel!Get, Channel!chanVars
<1>1. CASE DriverStore
  BY <1>1 DEF DriverStore
<1>2. CASE PlotLoad
  BY <1>2 DEF PlotLoad
<1>3. CASE PlotAppend
  BY <1>3 DEF PlotAppend
<1>4. CASE \/ Measure \/ DriverTake \/ DriverGive \/ DriverPost
           \/ DriverPostFails
  BY <1>4 DEF Measure, DriverTake, DriverGive, DriverPost, DriverPostFails
<1>5. CASE \/ PlotStart \/ PlotPoll \/ PlotTakeFull \/ PlotTakeMutex
           \/ PlotGiveMutex \/ PlotAppendFails
  BY <1>5 DEF PlotStart, PlotPoll, PlotTakeFull, PlotTakeMutex,
              PlotGiveMutex, PlotAppendFails
<1>6. CASE \/ client_thread
           \/ \E p \in {"driver", "plot"} : Interrupted(p)
           \/ \E p \in Procs : Killed(p)
           \/ UNCHANGED vars
  BY <1>6 DEF client_thread, get_last_temp, get_last_temp_fails,
              send_response_data, ThreadError, Interrupted, Killed, vars
<1>7. QED
  BY <1>1, <1>2, <1>3, <1>4, <1>5, <1>6
     DEF Next, child_driver_handler, child_plot_handler

(* The semaphores, the segment and the two loops implement the channel: a  *)
(* load is never ahead of the stores and returns the newest sample.        *)
THEOREM Refinement == Spec => ImplementsChannel
<1>1. Init => Channel!Init
  BY DEF Init, InitCountingFrom, Channel!Init, Loads
<1>2. QED
  BY <1>1, Invariance, ChannelStep, PTL
     DEF Spec, ImplementsChannel, Channel!Spec

=============================================================================
