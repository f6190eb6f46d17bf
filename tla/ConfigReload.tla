---------------------------- MODULE ConfigReload ----------------------------
(***************************************************************************)
(* How a change of ./sup/file.cfg reaches the running server: somebody     *)
(* edits the file and sends SIGUSR1 to the configuration process, whose    *)
(* loop (child_config_file, webserver.c) parses the file and writes the    *)
(* result to a pipe; the plot process takes one message from the pipe per  *)
(* round of its loop (update_ctx_from_file, functions.c), and then waits   *)
(* for the next sample of the driver process (get_current_temp).           *)
(*                                                                         *)
(* A content of the file is named by its version, 0 for what main read at  *)
(* the start, and a field of a configuration by the version it is from.    *)
(***************************************************************************)
EXTENDS Integers, Sequences

CONSTANTS
  PtrBytes,     (* sizeof of a pointer: 4 on the board, 8 on a PC          *)
  PipeMax,      (* messages a pipe holds: 64 KiB of them                   *)
  MaxVersion    (* bound of the model: edits of the file                   *)

ASSUME PtrBytesAssumption == PtrBytes \in {4, 8}
ASSUME PipeMaxAssumption == PipeMax \in Nat \ {0}
ASSUME MaxVersionAssumption == MaxVersion \in Nat

VARIABLES
  file,        (* version of ./sup/file.cfg                                *)
  flag_sigusr1,  (* the flag of the configuration process                  *)
  cpc,         (* where the configuration process is in its loop           *)
  config_file, (* what the configuration process parsed last: malloc'ed    *)
  pipe,        (* the messages in the pipe                                 *)
  ppc,         (* where the plot process is in its loop                    *)
  ctx,         (* the context of the plot process                          *)
  running,     (* which of the two processes are alive                     *)
  asked,       (* version of the file when SIGUSR1 was sent last (history) *)
  lost         (* a SIGUSR1 came after the file was parsed for the last    *)
               (* reload and before that reload cleared the flag (history) *)

vars == <<file, flag_sigusr1, cpc, config_file, pipe, ppc, ctx, running,
          asked, lost>>

Processes == {"config", "plot"}

Fields == <<"backlog", "max_conn", "read_interval", "samples">>

(* Messages are 2 * sizeof(config_file) bytes, a pointer; a field has four. *)
Message == {Fields[i] : i \in 1..((2 * PtrBytes) \div 4)}

(* What malloc returned, before the first file was parsed into it.         *)
Unread == -1

Whole(version) == [f \in {Fields[i] : i \in 1..4} |-> version]

Init ==
  /\ file = 0
  /\ flag_sigusr1 = FALSE
  /\ cpc = "check"
  /\ config_file = Unread
  /\ pipe = <<>>
  /\ ppc = "poll"
  /\ ctx = Whole(0)
  /\ running = Processes
  /\ asked = 0
  /\ lost = FALSE

-----------------------------------------------------------------------------
(* The operator.                                                           *)
Edit ==
  /\ file < MaxVersion
  /\ file' = file + 1
  /\ UNCHANGED <<flag_sigusr1, cpc, config_file, pipe, ppc, ctx, running,
                 asked, lost>>

(* SIGUSR1_handler, in the configuration process.                          *)
SIGUSR1_handler ==
  /\ "config" \in running
  /\ flag_sigusr1' = TRUE
  /\ asked' = file
  /\ lost' = (lost \/ cpc \in {"write", "clear"})
  /\ UNCHANGED <<file, cpc, config_file, pipe, ppc, ctx, running>>

(* Either process ends: it is killed, or its parent dies.                  *)
End(p) ==
  /\ p \in running
  /\ running' = running \ {p}
  /\ UNCHANGED <<file, flag_sigusr1, cpc, config_file, pipe, ppc, ctx, asked,
                 lost>>

-----------------------------------------------------------------------------
(* child_config_file.                                                      *)
Goto(from, to) ==
  /\ "config" \in running
  /\ cpc = from
  /\ cpc' = to
  /\ UNCHANGED <<ppc, running>>

(* Defect: the file is parsed into ctx->config_file of this process, and   *)
(* not into the structure that is sent.                                    *)
ReadConfigElsewhere ==
  /\ Goto("check", "write")
  /\ flag_sigusr1
  /\ lost' = FALSE
  /\ UNCHANGED <<file, flag_sigusr1, config_file, pipe, ctx, asked>>

ReadConfig ==
  /\ Goto("check", "write")
  /\ flag_sigusr1
  /\ config_file' = file
  /\ lost' = FALSE
  /\ UNCHANGED <<file, flag_sigusr1, pipe, ctx, asked>>

(* read_config_file exits when it can not open the file.                   *)
ReadConfigFails == cpc = "check" /\ flag_sigusr1 /\ End("config")

(* Defect: the pipe does not block (O_NONBLOCK), and the result of write   *)
(* is ignored as it is: into a full pipe nothing is written.               *)
WritePipeDrops ==
  /\ Goto("write", "clear")
  /\ pipe' = IF Len(pipe) < PipeMax THEN Append(pipe, config_file) ELSE pipe
  /\ UNCHANGED <<file, flag_sigusr1, config_file, ctx, asked, lost>>

(* The write blocks while the pipe is full.                                *)
WritePipe ==
  /\ Goto("write", "clear")
  /\ Len(pipe) < PipeMax
  /\ pipe' = Append(pipe, config_file)
  /\ UNCHANGED <<file, flag_sigusr1, config_file, ctx, asked, lost>>

ClearFlag ==
  /\ Goto("clear", "check")
  /\ flag_sigusr1' = FALSE
  /\ UNCHANGED <<file, config_file, pipe, ctx, asked, lost>>

child_config_file == ReadConfig \/ ReadConfigFails \/ WritePipe \/ ClearFlag

-----------------------------------------------------------------------------
(* child_plot_handler.                                                     *)
PlotGoto(from, to) ==
  /\ "plot" \in running
  /\ ppc = from
  /\ ppc' = to
  /\ UNCHANGED <<file, flag_sigusr1, cpc, config_file, running, asked, lost>>

(* Defect: the plot process reads the message and keeps its max_conn.      *)
update_ctx_forgets ==
  /\ PlotGoto("poll", "sample")
  /\ pipe' = IF pipe = <<>> THEN pipe ELSE Tail(pipe)
  /\ ctx' = [f \in DOMAIN ctx |->
               IF pipe # <<>> /\ f \in Message \ {"max_conn"} THEN Head(pipe)
                                                            ELSE ctx[f]]

(* update_ctx_from_file: poll finds a message and read takes one, or poll  *)
(* times out.                                                              *)
update_ctx_from_file ==
  /\ PlotGoto("poll", "sample")
  /\ \/ /\ pipe # <<>>
        /\ pipe' = Tail(pipe)
        /\ ctx' = [f \in DOMAIN ctx |->
                     IF f \in Message THEN Head(pipe) ELSE ctx[f]]
     \/ pipe = <<>> /\ UNCHANGED <<pipe, ctx>>

(* get_current_temp: SEM_FULL was posted, and the round ends.  Without the *)
(* driver process, or while it waits for the device, no post comes.        *)
get_current_temp ==
  /\ PlotGoto("sample", "poll")
  /\ UNCHANGED <<pipe, ctx>>

(* poll or read fails, poll for one with EINTR: SA_RESTART is not for it.  *)
(* main keeps the pipe open, so a write without a reader does not fail.    *)
update_ctx_fails == End("plot")

Next ==
  \/ Edit
  \/ SIGUSR1_handler
  \/ child_config_file
  \/ update_ctx_from_file \/ update_ctx_fails \/ get_current_temp
  \/ \E p \in Processes : End(p)

Spec == Init /\ [][Next]_vars

(* The configuration process is scheduled (WritePipe waits for room), and  *)
(* the poll of the plot process returns within its ten milliseconds.  Its  *)
(* wait for a sample has no fairness: it ends when the driver process      *)
(* posts.  The operator owes nothing.                                      *)
Fairness == WF_vars(child_config_file) /\ WF_vars(update_ctx_from_file)

FairSpec == Spec /\ Fairness

-----------------------------------------------------------------------------
TypeOK ==
  /\ file \in 0..MaxVersion
  /\ flag_sigusr1 \in BOOLEAN
  /\ cpc \in {"check", "write", "clear"}
  /\ config_file \in {Unread} \cup 0..MaxVersion
  /\ pipe \in Seq(0..MaxVersion) /\ Len(pipe) <= PipeMax
  /\ ppc \in {"poll", "sample"}
  /\ ctx \in [{Fields[i] : i \in 1..4} -> 0..MaxVersion]
  /\ running \subseteq Processes
  /\ asked \in 0..MaxVersion
  /\ lost \in BOOLEAN

(* What the plot process will have when it has emptied the pipe.           *)
Newest == IF pipe = <<>> THEN ctx["max_conn"] ELSE pipe[Len(pipe)]

(* When the configuration process waits for SIGUSR1 again, what it was     *)
(* asked for, or something newer, is the last message of the pipe or has   *)
(* arrived in the context, as long as no signal fell between its parsing   *)
(* of the file and its clearing of the flag (webserver.c 475-483).         *)
IdleMeansSent ==
  cpc = "check" /\ ~flag_sigusr1 /\ ~lost => Newest >= asked

SamplesArrive == []<><<get_current_temp>>_vars

(* As long as samples arrive, a reload that was asked for reaches the plot *)
(* process, that version or a newer one in every field a message carries,  *)
(* unless a signal was lost or one of the two processes ended; a full pipe *)
(* only delays it.                                                         *)
RequestApplied ==
  SamplesArrive =>
    \A v \in 1..MaxVersion :
      (asked >= v) ~> \/ \A f \in Message : ctx[f] >= v
                      \/ lost
                      \/ running # Processes

=============================================================================
