-------------------------- MODULE ConnectionServer --------------------------
(***************************************************************************)
(* The TCP server of webserver.c: the accept loop of main and the detached *)
(* client threads, which share the descriptors of the process, the counter *)
(* g_number_of_threads and the variable args_client of the loop.           *)
(*                                                                         *)
(* The build does not optimise (Makefile 91), so ++ and -- are a load and  *)
(* a store with the other threads in between.  A step is one such access   *)
(* or one system call; a file a thread opens and closes itself (data.dat,  *)
(* the pipe to gnuplot) needs free descriptors but is one step.            *)
(*                                                                         *)
(* A thread is named by the connection it was created for.  What the peer  *)
(* of a connection does is nondeterministic, but it sends one request at   *)
(* most: a thread reads once.  Every connection waits to be accepted.      *)
(***************************************************************************)
EXTENDS Integers, FiniteSetsExt

CONSTANTS
  Conns,    (* the connections peers make                                  *)
  MaxConn,  (* max_conn of the configuration file                          *)
  NumFds,   (* descriptors left under RLIMIT_NOFILE once main listens      *)
  Word      (* values of a uint32_t: 2^32, and a smaller power in TLC      *)

ASSUME ConnsAssumption ==
  IsFiniteSet(Conns) /\ Conns \cap {"png", "free", "none", "main"} = {}
ASSUME MaxConnAssumption == MaxConn \in Nat
ASSUME NumFdsAssumption == NumFds \in Nat \ {0}
ASSUME WordAssumption == Word \in Nat /\ Word > MaxConn + 1

VARIABLES
  peer,       (* what the other end of each connection did to it           *)
  request,    (* the request in the receive buffer, by its method          *)
  fd,         (* the descriptor table: a connection, "png" or "free"       *)
  mpc,        (* where main is in its loop                                 *)
  sock_client,  (* the descriptor accepted last, and its connection        *)
  args_client,  (* sock_fd of args_client                                  *)
  g_number_of_threads,
  tpc,        (* where each connection is, and then its client thread      *)
  sock,       (* the variable sock_client of each thread                   *)
  source,     (* what that descriptor named when the thread called read    *)
  reg,        (* the register of main's and each thread's ++ or --         *)
  server,     (* "up", or why the process ended                            *)
  incidents   (* what happened so far (history)                            *)

netVars == <<peer, request>>
mainVars == <<mpc, sock_client, args_client>>
threadVars == <<tpc, sock, source>>
countVars == <<g_number_of_threads, reg, incidents>>
vars == <<netVars, mainVars, threadVars, countVars, fd, server>>

Fds == 1..NumFds
Methods == {"GET", "POST", "other"}
Requests == Methods \cup {"blank"}  (* "blank": strtok finds no method     *)
Incidents == {"lostUpdate", "overwritten", "noThread"}
MainLabels == {"accept", "load", "store", "check", "create", "rejectLoad",
               "rejectStore"}
ThreadLabels == {"none", "accepted", "args", "temp", "read", "plot",
                 "respond", "write", "invalid", "close", "load", "store",
                 "errLoad", "errStore", "errClose", "done"}

(* Defect: the counter has no width.                                       *)
PlusUnbounded(x, n) == x + n

(* A static word of memory wraps around.                                   *)
Plus(x, n) == (x + n) % Word

Init ==
  /\ peer = [c \in Conns |-> "open"]
  /\ request = [c \in Conns |-> "none"]
  /\ fd = [f \in Fds |-> "free"]
  /\ mpc = "accept"
  /\ sock_client = [fd |-> 0, conn |-> "none"]
  /\ args_client = 0
  /\ g_number_of_threads = 0
  /\ tpc = [c \in Conns |-> "none"]
  /\ sock = [c \in Conns |-> 0]
  /\ source = [c \in Conns |-> "none"]
  /\ reg = [a \in Conns \cup {"main"} |-> 0]
  /\ server = "up"
  /\ incidents = {}

-----------------------------------------------------------------------------
MainGoto(from, to) ==
  /\ server = "up"
  /\ mpc = from
  /\ mpc' = to
  /\ UNCHANGED server

ThreadGoto(c, from, to) ==
  /\ server = "up"
  /\ tpc[c] = from
  /\ tpc' = [tpc EXCEPT ![c] = to]
  /\ UNCHANGED server

(* The process ends, and with it every thread and descriptor; its memory   *)
(* is gone, for which the initial values stand.                            *)
Die(why) ==
  /\ server = "up"
  /\ server' = why
  /\ fd' = [f \in Fds |-> "free"]
  /\ mpc' = "accept"
  /\ sock_client' = [fd |-> 0, conn |-> "none"]
  /\ args_client' = 0
  /\ g_number_of_threads' = 0
  /\ tpc' = [c \in Conns |-> "none"]
  /\ sock' = [c \in Conns |-> 0]
  /\ source' = [c \in Conns |-> "none"]
  /\ reg' = [a \in Conns \cup {"main"} |-> 0]
  /\ UNCHANGED <<netVars, incidents>>

FreeFds == {f \in Fds : fd[f] = "free"}

(* The kernel hands out the lowest free descriptor.                        *)
Allocate(what) ==
  /\ FreeFds # {}
  /\ fd' = [fd EXCEPT ![Min(FreeFds)] = what]

(* close() of a number that may be free or name something else by now.     *)
Close(f) == fd' = [fd EXCEPT ![f] = "free"]

Load(a) == reg' = [reg EXCEPT ![a] = g_number_of_threads]

(* The counter may have changed since actor a loaded it.                   *)
Store(a, n) ==
  /\ g_number_of_threads' = Plus(reg[a], n)
  /\ incidents' = incidents \cup
       (IF reg[a] # g_number_of_threads THEN {"lostUpdate"} ELSE {})
  /\ reg' = [reg EXCEPT ![a] = 0]

-----------------------------------------------------------------------------
(* The peers, which are not the program.                                   *)
Send(c, what) ==
  /\ peer[c] = "open" /\ request[c] = "none"
  /\ request' = [request EXCEPT ![c] = what]
  /\ UNCHANGED peer

(* The peer closes its end, or the connection is reset.                    *)
Leave(c, how) ==
  /\ peer[c] = "open"
  /\ peer' = [peer EXCEPT ![c] = how]
  /\ UNCHANGED request

(* A connection no descriptor and no call of read refers to is over.       *)
Matters(c) ==
  \/ tpc[c] = "none"
  \/ \E f \in Fds : fd[f] = c
  \/ \E d \in Conns : source[d] = c

Peers ==
  /\ server = "up"
  /\ \E c \in {d \in Conns : Matters(d)} :
       \/ \E what \in Requests : Send(c, what)
       \/ \E how \in {"closed", "reset"} : Leave(c, how)
  /\ UNCHANGED <<mainVars, threadVars, fd, server, countVars>>

-----------------------------------------------------------------------------
(* The accept loop of main.                                                *)
Accept(c) ==
  /\ MainGoto("accept", "load")
  /\ tpc[c] = "none"
  /\ Allocate(c)
  /\ sock_client' = [fd |-> Min(FreeFds), conn |-> c]
  /\ tpc' = [tpc EXCEPT ![c] = "accepted"]
  /\ UNCHANGED <<netVars, args_client, sock, source, countVars>>

(* accept fails with EMFILE.                                               *)
AcceptFails(c) ==
  /\ mpc = "accept"
  /\ tpc[c] = "none"
  /\ FreeFds = {}
  /\ Die("accept")

MainLoad(from, to) ==
  /\ MainGoto(from, to)
  /\ Load("main")
  /\ UNCHANGED <<netVars, sock_client, args_client, threadVars, fd,
                 g_number_of_threads, incidents>>

MainStore(from, to, n) ==
  /\ MainGoto(from, to)
  /\ Store("main", n)
  /\ UNCHANGED <<netVars, sock_client, args_client, threadVars, fd>>

CountLoad == MainLoad("load", "store")
CountStore == MainStore("store", "check", 1)

(* Defect: one thread more than max_conn is admitted.                      *)
AdmitOneMore ==
  /\ MainGoto("check", "create")
  /\ g_number_of_threads <= MaxConn + 1
  /\ UNCHANGED <<netVars, sock_client, args_client, threadVars, fd, countVars>>

Admit ==
  /\ MainGoto("check", "create")
  /\ g_number_of_threads <= MaxConn
  /\ UNCHANGED <<netVars, sock_client, args_client, threadVars, fd, countVars>>

(* Defect: a rejected connection stays counted.                            *)
RejectKeepsCount ==
  /\ MainGoto("check", "accept")
  /\ g_number_of_threads > MaxConn
  /\ Close(sock_client.fd)
  /\ tpc' = [tpc EXCEPT ![sock_client.conn] = "done"]
  /\ UNCHANGED <<netVars, sock_client, args_client, sock, source, countVars>>

Reject ==
  /\ MainGoto("check", "rejectLoad")
  /\ g_number_of_threads > MaxConn
  /\ Close(sock_client.fd)
  /\ tpc' = [tpc EXCEPT ![sock_client.conn] = "done"]
  /\ UNCHANGED <<netVars, sock_client, args_client, sock, source, countVars>>

RejectLoad == MainLoad("rejectLoad", "rejectStore")
RejectStore == MainStore("rejectStore", "accept", -1)

(* Every thread gets the address of the same args_client.  max_conn of ctx *)
(* never changes after the fork, so realloc is not reached.                *)
Create ==
  /\ MainGoto("create", "accept")
  /\ args_client' = sock_client.fd
  /\ tpc' = [tpc EXCEPT ![sock_client.conn] = "args"]
  /\ incidents' = incidents \cup
       (IF \E c \in Conns : tpc[c] = "args" THEN {"overwritten"} ELSE {})
  /\ UNCHANGED <<netVars, sock_client, sock, source, fd, g_number_of_threads,
                 reg>>

(* pthread_create returns a positive error, which is not ERROR.            *)
CreateFails ==
  /\ MainGoto("create", "accept")
  /\ args_client' = sock_client.fd
  /\ incidents' = incidents \cup {"noThread"} \cup
       (IF \E c \in Conns : tpc[c] = "args" THEN {"overwritten"} ELSE {})
  /\ UNCHANGED <<netVars, sock_client, threadVars, fd, g_number_of_threads,
                 reg>>

main ==
  \/ \E c \in Conns : Accept(c) \/ AcceptFails(c)
  \/ CountLoad \/ CountStore
  \/ Admit \/ Create \/ CreateFails
  \/ Reject \/ RejectLoad \/ RejectStore

-----------------------------------------------------------------------------
(* client_thread.                                                          *)
LoadArgs(c) ==
  /\ ThreadGoto(c, "args", "temp")
  /\ sock' = [sock EXCEPT ![c] = args_client]
  /\ UNCHANGED <<netVars, mainVars, source, fd, countVars>>

(* get_last_temp, whose file is there (see SamplePipeline), then the call  *)
(* of read, which keeps to what the descriptor names at that moment.       *)
GetLastTemp(c) ==
  /\ ThreadGoto(c, "temp", "read")
  /\ FreeFds # {}
  /\ source' = [source EXCEPT ![c] = fd[sock[c]]]
  /\ UNCHANGED <<netVars, mainVars, sock, fd, countVars>>

GetLastTempFails(c) == tpc[c] = "temp" /\ FreeFds = {} /\ Die("fopen")

NextLabel(method) ==
  CASE method = "GET" -> "plot"
    [] method = "POST" -> "invalid"
    [] method = "other" -> "close"

(* What read yields of what a descriptor names.  A leaked data.png reads   *)
(* as a request with an unknown method.                                    *)
Received(s) ==
  IF s = "png" THEN "other"
  ELSE IF s \in Conns /\ peer[s] # "reset" THEN request[s] ELSE "none"

(* The request is read by the first thread that reads the connection.      *)
Consume(s) == request' = [d \in Conns |-> IF d = s THEN "read" ELSE request[d]]

(* Defect: the thread goes on waiting after a POST.                        *)
ReadSkipsPost(c) ==
  LET method == Received(source[c]) IN
  /\ method \in Methods \ {"POST"}
  /\ ThreadGoto(c, "read", NextLabel(method))
  /\ Consume(source[c])
  /\ source' = [source EXCEPT ![c] = "none"]
  /\ UNCHANGED <<peer, mainVars, sock, fd, countVars>>

ReadRequest(c) ==
  LET method == Received(source[c]) IN
  /\ method \in Methods
  /\ ThreadGoto(c, "read", NextLabel(method))
  /\ Consume(source[c])
  /\ source' = [source EXCEPT ![c] = "none"]
  /\ UNCHANGED <<peer, mainVars, sock, fd, countVars>>

ReadEof(c) ==
  /\ source[c] \in Conns
  /\ peer[source[c]] = "closed"
  /\ request[source[c]] \notin Requests
  /\ ThreadGoto(c, "read", "errLoad")
  /\ source' = [source EXCEPT ![c] = "none"]
  /\ UNCHANGED <<netVars, mainVars, sock, fd, countVars>>

(* A request of blanks and slashes only: strtok returns a null pointer,    *)
(* which strcasecmp reads.                                                 *)
ReadBlank(c) ==
  /\ tpc[c] = "read"
  /\ Received(source[c]) = "blank"
  /\ Die("segv")

(* read returns -1, which is not <= 0 in a uint32_t: the thread compares   *)
(* the method strtok did not find, a null pointer.                         *)
ReadError(c) ==
  /\ tpc[c] = "read"
  /\ source[c] = "free" \/ (source[c] \in Conns /\ peer[source[c]] = "reset")
  /\ Die("segv")

(* generate_temperature_plot.  popen needs a pipe; its result is unchecked. *)
Plot(c) ==
  /\ ThreadGoto(c, "plot", "respond")
  /\ Cardinality(FreeFds) >= 2
  /\ UNCHANGED <<netVars, mainVars, sock, source, fd, countVars>>

PlotFails(c) == tpc[c] = "plot" /\ Cardinality(FreeFds) < 2 /\ Die("segv")

(* send_response_data opens data.png twice and closes it once.             *)
OpenPng(c) ==
  /\ ThreadGoto(c, "respond", "write")
  /\ Cardinality(FreeFds) >= 2
  /\ Allocate("png")
  /\ UNCHANGED <<netVars, mainVars, sock, source, countVars>>

OpenPngFails(c) ==
  tpc[c] = "respond" /\ Cardinality(FreeFds) < 2 /\ Die("fopen")

(* The response, whatever the descriptor names now.                        *)
Respond(c) ==
  /\ ThreadGoto(c, "write", "close")
  /\ UNCHANGED <<netVars, mainVars, sock, source, fd, countVars>>

(* Defect: the thread closes the socket here and again at thread_error.    *)
RefuseAndClose(c) ==
  /\ ThreadGoto(c, "invalid", "errLoad")
  /\ Close(sock[c])
  /\ UNCHANGED <<netVars, mainVars, sock, source, countVars>>

(* send_invalid_response, the answer to a POST.                            *)
Refuse(c) ==
  /\ ThreadGoto(c, "invalid", "errLoad")
  /\ UNCHANGED <<netVars, mainVars, sock, source, fd, countVars>>

(* SIGPIPE has its default action, and write does not always raise it on a *)
(* connection that was reset.                                              *)
BrokenPipe(c) ==
  /\ tpc[c] \in {"write", "invalid"}
  /\ fd[sock[c]] \in Conns /\ peer[fd[sock[c]]] = "reset"
  /\ Die("sigpipe")

(* The last use of the thread's descriptor.                                *)
CloseSocket(c, from, to) ==
  /\ ThreadGoto(c, from, to)
  /\ Close(sock[c])
  /\ sock' = [sock EXCEPT ![c] = 0]
  /\ UNCHANGED <<netVars, mainVars, source, countVars>>

ThreadLoad(c, from, to) ==
  /\ ThreadGoto(c, from, to)
  /\ Load(c)
  /\ UNCHANGED <<netVars, mainVars, sock, source, fd, g_number_of_threads,
                 incidents>>

ThreadStore(c, from, to) ==
  /\ ThreadGoto(c, from, to)
  /\ Store(c, -1)
  /\ UNCHANGED <<netVars, mainVars, sock, source, fd>>

(* The two ways out: after a GET or an unknown method the socket is closed *)
(* before the count goes down, at thread_error after it.                   *)
ThreadSuccess(c) ==
  \/ CloseSocket(c, "close", "load")
  \/ ThreadLoad(c, "load", "store")
  \/ ThreadStore(c, "store", "done")

(* Defect: thread_error does not close the socket.                         *)
ErrorKeepsSocket(c) ==
  \/ ThreadLoad(c, "errLoad", "errStore")
  \/ ThreadStore(c, "errStore", "done")

ThreadError(c) ==
  \/ ThreadLoad(c, "errLoad", "errStore")
  \/ ThreadStore(c, "errStore", "errClose")
  \/ CloseSocket(c, "errClose", "done")

client_thread(c) ==
  \/ LoadArgs(c)
  \/ GetLastTemp(c) \/ GetLastTempFails(c)
  \/ ReadRequest(c) \/ ReadBlank(c) \/ ReadEof(c) \/ ReadError(c)
  \/ Plot(c) \/ PlotFails(c)
  \/ OpenPng(c) \/ OpenPngFails(c)
  \/ Respond(c) \/ Refuse(c) \/ BrokenPipe(c)
  \/ ThreadSuccess(c) \/ ThreadError(c)

Next ==
  \/ main
  \/ \E c \in Conns : client_thread(c)
  \/ Peers

Spec == Init /\ [][Next]_vars

(* main and every thread are scheduled; a peer owes nothing, and           *)
(* pthread_create need not fail.                                           *)
Fairness ==
  /\ WF_vars(main)
  /\ \A c \in Conns : WF_vars(client_thread(c))

FairSpec == Spec /\ Fairness

-----------------------------------------------------------------------------
TypeOK ==
  /\ peer \in [Conns -> {"open", "closed", "reset"}]
  /\ request \in [Conns -> Requests \cup {"none", "read"}]
  /\ fd \in [Fds -> Conns \cup {"png", "free"}]
  /\ mpc \in MainLabels
  /\ sock_client \in [fd : Fds \cup {0}, conn : Conns \cup {"none"}]
  /\ args_client \in Fds \cup {0}
  /\ g_number_of_threads \in 0..(Word - 1)
  /\ tpc \in [Conns -> ThreadLabels]
  /\ sock \in [Conns -> Fds \cup {0}]
  /\ source \in [Conns -> Conns \cup {"png", "free", "none"}]
  /\ reg \in [Conns \cup {"main"} -> 0..(Word - 1)]
  /\ server \in {"up", "accept", "fopen", "segv", "sigpipe"}
  /\ incidents \subseteq Incidents

(* The connection has a thread that has not ended.                         *)
Live(c) == tpc[c] \notin {"none", "accepted", "done"}

(* The thread is counted: it has not stored its decrement.                 *)
Counted(c) == Live(c) /\ tpc[c] # "errClose"

(* main counts the connection it is about to admit or reject.              *)
CountedByMain == IF mpc \in {"check", "create", "rejectLoad", "rejectStore"}
                   THEN 1 ELSE 0

(* The thread knows its descriptor and has not closed it.                  *)
HasSocket(c) == Live(c) /\ tpc[c] \notin {"args", "load", "store"}

(* g_number_of_threads counts the client threads, and the connection main  *)
(* is busy with, as long as no ++ or -- overlapped another one and every   *)
(* pthread_create succeeded (webserver.c 407, 413, 216, 221).              *)
CountIsExact ==
  incidents \cap {"lostUpdate", "noThread"} = {} =>
    g_number_of_threads =
      Cardinality({c \in Conns : Counted(c)}) + CountedByMain

(* max_conn limits the threads that serve clients (webserver.c 409), one   *)
(* that only has its socket to close aside, as long as no update of the    *)
(* counter was lost.                                                       *)
ThreadsAreLimited ==
  "lostUpdate" \notin incidents =>
    Cardinality({c \in Conns : Counted(c)}) <= MaxConn

(* As long as main did not overwrite args_client under a thread that had   *)
(* not read it yet, every thread holds the descriptor of the connection it *)
(* was created for, from its first statement to its close: no close of     *)
(* another thread, of main or of its own takes it away.                    *)
ThreadOwnsConnection ==
  "overwritten" \notin incidents =>
    \A c \in Conns : HasSocket(c) => fd[sock[c]] = c

(* A connection that was rejected or whose thread ended is closed, under   *)
(* the same condition: a descriptor of a connection has an owner.          *)
NoConnectionLeaks ==
  incidents \cap {"overwritten", "noThread"} = {} =>
    \A f \in Fds : fd[f] \in Conns => tpc[fd[f]] # "done"

(* A client that sent a request is answered, refused or turned away, and   *)
(* its connection closed, unless the server dies, args_client was          *)
(* overwritten or a thread was not created.                                *)
RequestsEnd ==
  \A c \in Conns :
    (request[c] \in Requests) ~>
      \/ tpc[c] = "done" /\ \A f \in Fds : fd[f] # c
      \/ server # "up"
      \/ incidents \cap {"overwritten", "noThread"} # {}

(* webserver.c 157, "Thread that handles the client conection": each       *)
(* thread has the socket of its own client.                                *)
OneThreadPerClient == \A c \in Conns : HasSocket(c) => fd[sock[c]] = c

=============================================================================
