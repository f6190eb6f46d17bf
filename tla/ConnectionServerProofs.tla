----------------------- MODULE ConnectionServerProofs -----------------------
(***************************************************************************)
(* Proofs about ConnectionServer, for any connections, limits and numbers  *)
(* of descriptors.                                                         *)
(***************************************************************************)
EXTENDS ConnectionServer, FiniteSetTheorems, WellFoundedInduction, TLAPS

USE DEF netVars, mainVars, threadVars, countVars

-----------------------------------------------------------------------------
LEMMA LeastOfNaturals ==
  ASSUME NEW T \in SUBSET Nat, T # {}
  PROVE  Min(T) \in T
<1>1. \E x \in T : \A y \in T : ~(<<y, x>> \in OpToRel(<, Nat))
  BY NatLessThanWellFounded, WFMin
<1>2. PICK x \in T : \A y \in T : ~(<<y, x>> \in OpToRel(<, Nat))
  BY <1>1
<1>3. \A y \in T : x <= y
  <2> TAKE y \in T
  <2>1. <<y, x>> \in Nat \X Nat /\ ~(y < x)
    BY <1>2 DEF OpToRel
  <2>2. QED
    BY <2>1
<1>4. QED
  BY <1>3 DEF Min

(* The kernel's choice is a free descriptor.                               *)
LEMMA LowestFree ==
  ASSUME FreeFds # {}
  PROVE  Min(FreeFds) \in Fds /\ fd[Min(FreeFds)] = "free"
<1>1. FreeFds \in SUBSET Nat
  BY NumFdsAssumption DEF FreeFds, Fds
<1>2. Min(FreeFds) \in FreeFds
  BY <1>1, LeastOfNaturals
<1>3. QED
  BY <1>2 DEF FreeFds

LEMMA Counter ==
  ASSUME NEW n \in Int
  PROVE  n % Word \in 0..(Word - 1)
BY WordAssumption, MaxConnAssumption

-----------------------------------------------------------------------------
(* The ways a step is taken, which every proof below goes through: one     *)
(* case per action, the deaths of the process being one.                   *)
Deaths ==
  \E why \in {"accept", "fopen", "segv", "sigpipe"} : Die(why)

LEMMA Steps ==
  ASSUME Next
  PROVE  \/ Deaths
         \/ \E c \in Conns : Accept(c)
         \/ CountLoad \/ CountStore \/ Admit \/ Create \/ CreateFails
         \/ Reject \/ RejectLoad \/ RejectStore
         \/ \E c \in Conns :
              \/ LoadArgs(c) \/ GetLastTemp(c) \/ ReadRequest(c) \/ ReadEof(c)
              \/ Plot(c) \/ OpenPng(c) \/ Respond(c) \/ Refuse(c)
              \/ CloseSocket(c, "close", "load")
              \/ CloseSocket(c, "errClose", "done")
              \/ ThreadLoad(c, "load", "store")
              \/ ThreadLoad(c, "errLoad", "errStore")
              \/ ThreadStore(c, "store", "done")
              \/ ThreadStore(c, "errStore", "errClose")
         \/ Peers
<1>1. CASE main
  <2>1. ASSUME NEW c \in Conns, AcceptFails(c)
        PROVE  Deaths
    BY <2>1, Zenon DEF AcceptFails, Deaths
  <2>2. QED
    BY <1>1, <2>1, Zenon DEF main
<1>2. ASSUME NEW c \in Conns, client_thread(c)
      PROVE  \/ Deaths
             \/ LoadArgs(c) \/ GetLastTemp(c) \/ ReadRequest(c) \/ ReadEof(c)
             \/ Plot(c) \/ OpenPng(c) \/ Respond(c) \/ Refuse(c)
             \/ CloseSocket(c, "close", "load")
             \/ CloseSocket(c, "errClose", "done")
             \/ ThreadLoad(c, "load", "store")
             \/ ThreadLoad(c, "errLoad", "errStore")
             \/ ThreadStore(c, "store", "done")
             \/ ThreadStore(c, "errStore", "errClose")
  <2>1. GetLastTempFails(c) \/ ReadBlank(c) \/ ReadError(c) \/ PlotFails(c)
          \/ OpenPngFails(c) \/ BrokenPipe(c) => Deaths
    BY Zenon DEF GetLastTempFails, ReadBlank, ReadError, PlotFails, OpenPngFails,
         BrokenPipe, Deaths
  <2>2. QED
    BY <1>2, <2>1, Zenon DEF client_thread, ThreadSuccess, ThreadError
<1>3. QED
  BY <1>1, <1>2, Zenon DEF Next

-----------------------------------------------------------------------------
(* main holds a connection between accept and the creation of its thread.  *)
Busy == mpc \in {"load", "store", "check", "create"}

(* What main and the threads take for descriptors are descriptors, and no  *)
(* two of them are of the same connection, which was accepted.             *)
Descriptors ==
  /\ Busy => /\ sock_client.fd \in Fds
             /\ sock_client.conn \in Conns
             /\ tpc[sock_client.conn] = "accepted"
  /\ \A c \in Conns : tpc[c] = "args" => args_client \in Fds
  /\ \A c \in Conns : HasSocket(c) => sock[c] \in Fds
  /\ \A f \in Fds : fd[f] \in Conns => tpc[fd[f]] # "none"
  /\ \A f, g \in Fds : fd[f] \in Conns /\ fd[f] = fd[g] => f = g

(* Every variable keeps its type: what accept allocates is a descriptor,   *)
(* what a thread reads from is one, and the counter stays in its word.     *)
LEMMA TypeInit == Init => TypeOK /\ Descriptors
BY WordAssumption, MaxConnAssumption, ConnsAssumption
   DEF Init, TypeOK, MainLabels, ThreadLabels, Incidents, Descriptors, Busy,
       HasSocket, Live

LEMMA StoreType ==
  ASSUME TypeOK, NEW a \in Conns \cup {"main"}, NEW n \in Int, Store(a, n)
  PROVE  /\ g_number_of_threads' \in 0..(Word - 1)
         /\ reg' \in [Conns \cup {"main"} -> 0..(Word - 1)]
         /\ incidents' \subseteq Incidents
<1>1. reg[a] + n \in Int
  BY WordAssumption DEF TypeOK
<1>2. g_number_of_threads' \in 0..(Word - 1)
  BY <1>1, Counter DEF Store, Plus
<1>3. QED
  BY <1>2, WordAssumption, MaxConnAssumption DEF TypeOK, Store, Incidents

LEMMA TypeStep == TypeOK /\ Descriptors /\ [Next]_vars => TypeOK'
<1> SUFFICES ASSUME TypeOK, Descriptors, [Next]_vars
             PROVE  TypeOK'
  OBVIOUS
<1> USE DEF TypeOK, MainGoto, ThreadGoto, MainLabels, ThreadLabels
<1>1. CASE Deaths
  BY <1>1, WordAssumption, MaxConnAssumption DEF Deaths, Die
<1>2. ASSUME NEW c \in Conns, Accept(c)
      PROVE  TypeOK'
  BY <1>2, LowestFree DEF Accept, Allocate
<1>3. CASE CountLoad \/ RejectLoad
  BY <1>3 DEF CountLoad, RejectLoad, MainLoad, Load
<1>4. CASE CountStore \/ RejectStore
  <2>1. Store("main", 1) \/ Store("main", -1)
    BY <1>4 DEF CountStore, RejectStore, MainStore
  <2>2. /\ g_number_of_threads' \in 0..(Word - 1)
        /\ reg' \in [Conns \cup {"main"} -> 0..(Word - 1)]
        /\ incidents' \subseteq Incidents
    BY <2>1, StoreType DEF Store
  <2>3. QED
    BY <1>4, <2>2 DEF CountStore, RejectStore, MainStore
<1>5. CASE Admit
  BY <1>5 DEF Admit
<1>6. CASE Reject
  BY <1>6 DEF Reject, Close
<1>7. CASE Create \/ CreateFails
  BY <1>7 DEF Create, CreateFails, Incidents
<1>8. ASSUME NEW c \in Conns,
             \/ LoadArgs(c) \/ GetLastTemp(c) \/ ReadEof(c) \/ Plot(c)
             \/ Respond(c) \/ Refuse(c)
      PROVE  TypeOK'
  <2>1. CASE GetLastTemp(c)
    BY <2>1 DEF GetLastTemp, Descriptors, HasSocket, Live
  <2>2. QED
    BY <1>8, <2>1 DEF LoadArgs, ReadEof, Plot, Respond, Refuse
<1>9. ASSUME NEW c \in Conns, ReadRequest(c)
      PROVE  TypeOK'
  <2>1. NextLabel(Received(source[c])) \in ThreadLabels
    BY <1>9 DEF ReadRequest, NextLabel, Methods, Requests
  <2>2. request' \in [Conns -> Requests \cup {"none", "read"}]
    BY <1>9 DEF ReadRequest, Consume
  <2>3. QED
    BY <1>9, <2>1, <2>2 DEF ReadRequest
<1>10. ASSUME NEW c \in Conns, OpenPng(c)
       PROVE  TypeOK'
  BY <1>10, LowestFree DEF OpenPng, Allocate
<1>11. ASSUME NEW c \in Conns,
              \/ CloseSocket(c, "close", "load")
              \/ CloseSocket(c, "errClose", "done")
       PROVE  TypeOK'
  BY <1>11 DEF CloseSocket, Close
<1>12. ASSUME NEW c \in Conns,
              \/ ThreadLoad(c, "load", "store")
              \/ ThreadLoad(c, "errLoad", "errStore")
       PROVE  TypeOK'
  BY <1>12 DEF ThreadLoad, Load
<1>13. ASSUME NEW c \in Conns,
              \/ ThreadStore(c, "store", "done")
              \/ ThreadStore(c, "errStore", "errClose")
       PROVE  TypeOK'
  <2>1. Store(c, -1)
    BY <1>13 DEF ThreadStore
  <2>2. /\ g_number_of_threads' \in 0..(Word - 1)
        /\ reg' \in [Conns \cup {"main"} -> 0..(Word - 1)]
        /\ incidents' \subseteq Incidents
    BY <2>1, StoreType
  <2>3. QED
    BY <1>13, <2>2 DEF ThreadStore
<1>14. CASE Peers
  BY <1>14 DEF Peers, Send, Leave
<1>15. CASE UNCHANGED vars
  BY <1>15 DEF vars
<1>16. QED
  BY <1>1, <1>2, <1>3, <1>4, <1>5, <1>6, <1>7, <1>8, <1>9, <1>10, <1>11,
     <1>12, <1>13, <1>14, <1>15, Steps, Zenon

LEMMA DescriptorsStep == TypeOK /\ Descriptors /\ [Next]_vars => Descriptors'
<1> SUFFICES ASSUME TypeOK, Descriptors, [Next]_vars
             PROVE  Descriptors'
  OBVIOUS
<1> USE DEF TypeOK, Descriptors, Busy, HasSocket, Live, MainGoto, ThreadGoto
<1> USE ConnsAssumption
<1>1. CASE Deaths
  BY <1>1 DEF Deaths, Die
<1>2. ASSUME NEW c \in Conns, Accept(c)
      PROVE  Descriptors'
  BY <1>2, LowestFree DEF Accept, Allocate
<1>3. CASE CountLoad \/ RejectLoad
  BY <1>3 DEF CountLoad, RejectLoad, MainLoad
<1>4. CASE CountStore \/ RejectStore
  BY <1>4 DEF CountStore, RejectStore, MainStore
<1>5. CASE Admit
  BY <1>5 DEF Admit
<1>6. CASE Reject
  BY <1>6 DEF Reject, Close
<1>7. CASE Create \/ CreateFails
  BY <1>7 DEF Create, CreateFails
<1>8. ASSUME NEW c \in Conns,
             \/ LoadArgs(c) \/ GetLastTemp(c) \/ ReadEof(c) \/ Plot(c)
             \/ Respond(c) \/ Refuse(c)
      PROVE  Descriptors'
  BY <1>8 DEF LoadArgs, GetLastTemp, ReadEof, Plot, Respond, Refuse
<1>9. ASSUME NEW c \in Conns, ReadRequest(c)
      PROVE  Descriptors'
  BY <1>9 DEF ReadRequest, NextLabel, Methods, Requests
<1>10. ASSUME NEW c \in Conns, OpenPng(c)
       PROVE  Descriptors'
  BY <1>10, LowestFree DEF OpenPng, Allocate
<1>11. ASSUME NEW c \in Conns,
              \/ CloseSocket(c, "close", "load")
              \/ CloseSocket(c, "errClose", "done")
       PROVE  Descriptors'
  BY <1>11 DEF CloseSocket, Close
<1>12. ASSUME NEW c \in Conns,
              \/ ThreadLoad(c, "load", "store")
              \/ ThreadLoad(c, "errLoad", "errStore")
              \/ ThreadStore(c, "store", "done")
              \/ ThreadStore(c, "errStore", "errClose")
       PROVE  Descriptors'
  BY <1>12 DEF ThreadLoad, ThreadStore
<1>13. CASE Peers
  BY <1>13 DEF Peers
<1>14. CASE UNCHANGED vars
  BY <1>14 DEF vars
<1>15. QED
  BY <1>1, <1>2, <1>3, <1>4, <1>5, <1>6, <1>7, <1>8, <1>9, <1>10, <1>11,
     <1>12, <1>13, <1>14, Steps, Zenon

LEMMA DescriptorsInvariant == Spec => [](TypeOK /\ Descriptors)
<1>1. QED
  BY TypeInit, TypeStep, DescriptorsStep, PTL DEF Spec

(* TypeOK holds of every state the server can be in: no thread reads from  *)
(* anything but a descriptor.                                              *)
THEOREM TypeCorrect == Spec => []TypeOK
<1>1. QED
  BY DescriptorsInvariant, PTL

-----------------------------------------------------------------------------
(* As long as args_client was not overwritten under a thread, a descriptor *)
(* of a connection has one owner: main, then args_client, then the thread, *)
(* and nobody once it is closed.                                           *)
Owners ==
  /\ Busy => fd[sock_client.fd] = sock_client.conn
  /\ \A c \in Conns : tpc[c] = "args" => fd[args_client] = c
  /\ \A c \in Conns : HasSocket(c) => fd[sock[c]] = c
  /\ \A c \in Conns :
       tpc[c] \in {"load", "store", "done"} => \A f \in Fds : fd[f] # c

Ownership == "overwritten" \notin incidents => Owners

LEMMA OwnershipInit == Init => Ownership
BY DEF Init, Ownership, Owners, Busy, HasSocket, Live

LEMMA OwnershipStep ==
  TypeOK /\ Descriptors /\ Ownership /\ [Next]_vars => Ownership'
<1> SUFFICES ASSUME TypeOK, Descriptors, Ownership, [Next]_vars,
                    "overwritten" \notin incidents'
             PROVE  Owners'
  BY DEF Ownership
<1> USE DEF TypeOK, Descriptors, Ownership, Owners, Busy, HasSocket, Live,
            MainGoto, ThreadGoto
<1> USE ConnsAssumption
<1>1. CASE Deaths
  BY <1>1 DEF Deaths, Die
<1>2. ASSUME NEW c \in Conns, Accept(c)
      PROVE  Owners'
  BY <1>2, LowestFree DEF Accept, Allocate
<1>3. CASE CountLoad \/ RejectLoad
  BY <1>3 DEF CountLoad, RejectLoad, MainLoad
<1>4. CASE CountStore \/ RejectStore
  BY <1>4 DEF CountStore, RejectStore, MainStore, Store
<1>5. CASE Admit
  BY <1>5 DEF Admit
<1>6. CASE Reject
  BY <1>6 DEF Reject, Close
<1>7. CASE Create \/ CreateFails
  BY <1>7 DEF Create, CreateFails
<1>8. ASSUME NEW c \in Conns,
             \/ LoadArgs(c) \/ GetLastTemp(c) \/ ReadEof(c) \/ Plot(c)
             \/ Respond(c) \/ Refuse(c)
      PROVE  Owners'
  BY <1>8 DEF LoadArgs, GetLastTemp, ReadEof, Plot, Respond, Refuse
<1>9. ASSUME NEW c \in Conns, ReadRequest(c)
      PROVE  Owners'
  BY <1>9 DEF ReadRequest, NextLabel, Methods, Requests
<1>10. ASSUME NEW c \in Conns, OpenPng(c)
       PROVE  Owners'
  BY <1>10, LowestFree DEF OpenPng, Allocate
<1>11. ASSUME NEW c \in Conns,
              \/ CloseSocket(c, "close", "load")
              \/ CloseSocket(c, "errClose", "done")
       PROVE  Owners'
  BY <1>11 DEF CloseSocket, Close
<1>12. ASSUME NEW c \in Conns,
              \/ ThreadLoad(c, "load", "store")
              \/ ThreadLoad(c, "errLoad", "errStore")
              \/ ThreadStore(c, "store", "done")
              \/ ThreadStore(c, "errStore", "errClose")
       PROVE  Owners'
  BY <1>12 DEF ThreadLoad, ThreadStore, Store
<1>13. CASE Peers
  BY <1>13 DEF Peers
<1>14. CASE UNCHANGED vars
  BY <1>14 DEF vars
<1>15. QED
  BY <1>1, <1>2, <1>3, <1>4, <1>5, <1>6, <1>7, <1>8, <1>9, <1>10, <1>11,
     <1>12, <1>13, <1>14, Steps, Zenon

LEMMA OwnershipInvariant == Spec => [](TypeOK /\ Descriptors /\ Ownership)
<1>1. Init => TypeOK /\ Descriptors /\ Ownership
  BY TypeInit, OwnershipInit
<1>2. TypeOK /\ Descriptors /\ Ownership /\ [Next]_vars
        => (TypeOK /\ Descriptors /\ Ownership)'
  BY TypeStep, DescriptorsStep, OwnershipStep
<1>3. QED
  BY <1>1, <1>2, PTL DEF Spec

(* No thread is ever left with the descriptor of another connection, or    *)
(* with one that was closed, unless args_client was overwritten.           *)
THEOREM OneOwner == Spec => []ThreadOwnsConnection
<1>1. Ownership => ThreadOwnsConnection
  BY DEF Ownership, Owners, ThreadOwnsConnection
<1>2. QED
  BY <1>1, OwnershipInvariant, PTL

(* The connections that were turned away or served are closed.             *)
THEOREM Closed == Spec => []NoConnectionLeaks
<1>1. Ownership => NoConnectionLeaks
  BY DEF Ownership, Owners, NoConnectionLeaks
<1>2. QED
  BY <1>1, OwnershipInvariant, PTL

-----------------------------------------------------------------------------
(* The connections in the counter, the one main is busy with aside: those  *)
(* with a counted thread, and those main gave up because no thread could   *)
(* be created.                                                             *)
Held ==
  {c \in Conns : \/ Counted(c)
                 \/ tpc[c] = "accepted" /\ ~(Busy /\ sock_client.conn = c)}

Exact ==
  /\ g_number_of_threads = Cardinality(Held) + CountedByMain
  /\ Cardinality(Held) <= MaxConn
  /\ mpc = "create" => Cardinality(Held) < MaxConn

(* Without a lost update the counter is exact.                             *)
Counting == "lostUpdate" \notin incidents => Exact

(* Without a failure of pthread_create main gives nobody up.               *)
NobodyGivenUp ==
  "noThread" \notin incidents =>
    \A c \in Conns : tpc[c] = "accepted" => Busy /\ sock_client.conn = c

LEMMA HeldIsFinite == IsFiniteSet(Held) /\ Cardinality(Held) \in Nat
<1>1. Held \subseteq Conns
  BY DEF Held
<1>2. QED
  BY <1>1, ConnsAssumption, FS_Subset, FS_CardinalityType

LEMMA CountingInit == Init => Counting
<1> SUFFICES ASSUME Init
             PROVE  Counting
  OBVIOUS
<1>1. Held = {}
  BY DEF Init, Held, Counted, Live
<1>2. Cardinality(Held) = 0
  BY <1>1, FS_EmptySet
<1>3. QED
  BY <1>2, MaxConnAssumption
     DEF Init, Counting, Exact, CountedByMain

(* An access to the counter that lost nothing.                             *)
LEMMA ExactStore ==
  ASSUME NEW a, NEW n \in {1, -1}, Store(a, n),
         "lostUpdate" \notin incidents',
         g_number_of_threads \in Nat, g_number_of_threads <= MaxConn + 1,
         n = 1 => g_number_of_threads <= MaxConn,
         n = -1 => g_number_of_threads > 0
  PROVE  g_number_of_threads' = g_number_of_threads + n
<1>1. reg[a] = g_number_of_threads
  BY DEF Store
<1>2. g_number_of_threads + n \in 0..(Word - 1)
  BY WordAssumption, MaxConnAssumption
<1>3. (g_number_of_threads + n) % Word = g_number_of_threads + n
  BY <1>2, WordAssumption
<1>4. QED
  BY <1>1, <1>3 DEF Store, Plus

LEMMA IncidentsStay == [Next]_vars => incidents \subseteq incidents'
<1> SUFFICES ASSUME [Next]_vars
             PROVE  incidents \subseteq incidents'
  OBVIOUS
<1>1. CASE Next
  BY <1>1, Steps
     DEF Deaths, Die, Accept, CountLoad, CountStore, Admit, Create,
         CreateFails, Reject, RejectLoad, RejectStore, MainLoad, MainStore,
         Store, LoadArgs, GetLastTemp, ReadRequest, ReadEof, Plot, OpenPng,
         Respond, Refuse, CloseSocket, ThreadLoad, ThreadStore, Peers
<1>2. CASE UNCHANGED vars
  BY <1>2 DEF vars
<1>3. QED
  BY <1>1, <1>2

LEMMA CountingStep ==
  TypeOK /\ Descriptors /\ Counting /\ [Next]_vars => Counting'
<1> SUFFICES ASSUME TypeOK, Descriptors, Counting, [Next]_vars,
                    "lostUpdate" \notin incidents'
             PROVE  Exact'
  BY DEF Counting
<1> DEFINE n == Cardinality(Held)
<1>a. Exact /\ "lostUpdate" \notin incidents
  BY IncidentsStay DEF Counting
<1>b. IsFiniteSet(Held) /\ n \in Nat /\ MaxConn \in Nat
  BY HeldIsFinite, MaxConnAssumption
<1>c. ASSUME Held' = Held
      PROVE  Cardinality(Held)' = n
  BY <1>c
<1> HIDE DEF n
<1> DEFINE Same == Held' = Held
<1>1. CASE Deaths
  <2>1. Held' = {}
    BY <1>1 DEF Deaths, Die, Held, Counted, Live
  <2>2. Cardinality(Held)' = 0
    BY <2>1, FS_EmptySet
  <2>3. QED
    BY <1>1, <2>2, MaxConnAssumption DEF Deaths, Die, Exact, CountedByMain
<1>2. ASSUME NEW c \in Conns, Accept(c)
      PROVE  Exact'
  <2>1. Same
    BY <1>2 DEF Accept, MainGoto, Held, Counted, Live, Busy, TypeOK
  <2>2. QED
    BY <1>2, <2>1, <1>a, <1>b, <1>c
       DEF Accept, MainGoto, Exact, CountedByMain, n
<1>3. CASE CountLoad \/ RejectLoad \/ Admit
  <2>1. Same
    BY <1>3 DEF CountLoad, RejectLoad, Admit, MainLoad, MainGoto, Held,
                Counted, Live, Busy
  <2>2. CASE CountLoad \/ RejectLoad
    BY <2>2, <2>1, <1>a, <1>b, <1>c
       DEF CountLoad, RejectLoad, MainLoad, MainGoto, Exact, CountedByMain, n
  <2>3. CASE Admit
    BY <2>3, <2>1, <1>a, <1>b, <1>c
       DEF Admit, MainGoto, Exact, CountedByMain, n
  <2>4. QED
    BY <1>3, <2>2, <2>3
<1>4. CASE CountStore \/ RejectStore
  <2>1. Same
    BY <1>4 DEF CountStore, RejectStore, MainStore, MainGoto, Held, Counted,
                Live, Busy
  <2>2. CASE CountStore
    <3>1. g_number_of_threads = n
      BY <2>2, <1>a, <1>b DEF CountStore, MainStore, MainGoto, Exact,
                              CountedByMain, n
    <3>2. n <= MaxConn
      BY <1>a DEF Exact, n
    <3>3. g_number_of_threads' = n + 1
      BY <2>2, <3>1, <3>2, <1>b, ExactStore DEF CountStore, MainStore
    <3>4. QED
      BY <2>2, <3>2, <3>3, <2>1, <1>c
         DEF CountStore, MainStore, MainGoto, Exact, CountedByMain
  <2>3. CASE RejectStore
    <3>1. g_number_of_threads = n + 1
      BY <2>3, <1>a DEF RejectStore, MainStore, MainGoto, Exact,
                        CountedByMain, n
    <3>2. n <= MaxConn
      BY <1>a DEF Exact, n
    <3>3. g_number_of_threads' = n + 1 + (-1)
      BY <2>3, <3>1, <3>2, <1>b, ExactStore DEF RejectStore, MainStore
    <3>4. QED
      BY <2>3, <3>2, <3>3, <2>1, <1>b, <1>c
         DEF RejectStore, MainStore, MainGoto, Exact, CountedByMain
  <2>4. QED
    BY <1>4, <2>2, <2>3
<1>5. CASE Reject
  <2>1. Same
    BY <1>5 DEF Reject, MainGoto, Held, Counted, Live, Busy, TypeOK,
                Descriptors
  <2>2. QED
    BY <1>5, <2>1, <1>a, <1>c DEF Reject, MainGoto, Exact, CountedByMain, n
<1>6. CASE Create \/ CreateFails
  <2>1. Held' = Held \cup {sock_client.conn} /\ sock_client.conn \notin Held
    BY <1>6 DEF Create, CreateFails, MainGoto, Held, Counted, Live, Busy,
                TypeOK, Descriptors
  <2>2. Cardinality(Held)' = n + 1
    BY <2>1, <1>b, FS_AddElement DEF n
  <2>3. n < MaxConn /\ g_number_of_threads = n + 1
    BY <1>6, <1>a DEF Create, CreateFails, MainGoto, Exact, CountedByMain, n
  <2>4. QED
    BY <1>6, <2>2, <2>3, <1>b
       DEF Create, CreateFails, MainGoto, Exact, CountedByMain
<1>7. ASSUME NEW c \in Conns,
             \/ LoadArgs(c) \/ GetLastTemp(c) \/ ReadRequest(c) \/ ReadEof(c)
             \/ Plot(c) \/ OpenPng(c) \/ Respond(c) \/ Refuse(c)
             \/ CloseSocket(c, "close", "load")
             \/ CloseSocket(c, "errClose", "done")
             \/ ThreadLoad(c, "load", "store")
             \/ ThreadLoad(c, "errLoad", "errStore")
      PROVE  Exact'
  <2>1. /\ ~(tpc[c] \in {"none", "accepted", "done", "errClose"})
        /\ ~(tpc'[c] \in {"none", "accepted", "done", "errClose"})
        /\ \A d \in Conns \ {c} : tpc'[d] = tpc[d]
        \/ CloseSocket(c, "errClose", "done")
    BY <1>7 DEF LoadArgs, GetLastTemp, ReadRequest, ReadEof, Plot, OpenPng,
         Respond, Refuse, CloseSocket, ThreadLoad, ThreadGoto, NextLabel,
         Methods, TypeOK
  <2>2. UNCHANGED <<mpc, sock_client, g_number_of_threads>>
    BY <1>7 DEF LoadArgs, GetLastTemp, ReadRequest, ReadEof, Plot, OpenPng,
         Respond, Refuse, CloseSocket, ThreadLoad
  <2>3. Same
    BY <2>1, <2>2 DEF CloseSocket, ThreadGoto, Held, Counted, Live, Busy,
         TypeOK
  <2>4. QED
    BY <2>2, <2>3, <1>a, <1>c DEF Exact, CountedByMain, n
<1>8. ASSUME NEW c \in Conns,
             \/ ThreadStore(c, "store", "done")
             \/ ThreadStore(c, "errStore", "errClose")
      PROVE  Exact'
  <2>1. Held' = Held \ {c} /\ c \in Held
    BY <1>8 DEF ThreadStore, ThreadGoto, Held, Counted, Live, Busy, TypeOK
  <2>2. Cardinality(Held)' = n - 1 /\ n > 0
    <3>1. Cardinality(Held \ {c}) = n - 1
      BY <2>1, <1>b, FS_RemoveElement DEF n
    <3>2. IsFiniteSet(Held \ {c})
      BY <1>b, FS_Subset
    <3>3. n - 1 \in Nat
      BY <3>1, <3>2, FS_CardinalityType
    <3>4. QED
      BY <2>1, <3>1, <3>3, <1>b
  <2>3. g_number_of_threads = n + CountedByMain /\ n <= MaxConn
        /\ (mpc = "create" => n < MaxConn) /\ CountedByMain \in {0, 1}
    BY <1>a DEF Exact, CountedByMain, n
  <2>4. g_number_of_threads' = n + CountedByMain + (-1)
    BY <1>8, <2>2, <2>3, <1>b, ExactStore DEF ThreadStore
  <2>5. UNCHANGED <<mpc, CountedByMain>>
    BY <1>8 DEF ThreadStore, CountedByMain
  <2>6. QED
    BY <2>2, <2>3, <2>4, <2>5, <1>b DEF Exact
<1>9. CASE Peers \/ UNCHANGED vars
  <2>1. UNCHANGED <<mpc, sock_client, tpc, g_number_of_threads>>
    BY <1>9 DEF Peers, vars
  <2>2. Same
    BY <2>1 DEF Held, Counted, Live, Busy
  <2>3. QED
    BY <2>1, <2>2, <1>a, <1>c DEF Exact, CountedByMain, n
<1>10. QED
  BY <1>1, <1>2, <1>3, <1>4, <1>5, <1>6, <1>7, <1>8, <1>9, Steps, Zenon

LEMMA NobodyGivenUpStep ==
  TypeOK /\ Descriptors /\ NobodyGivenUp /\ [Next]_vars => NobodyGivenUp'
<1> SUFFICES ASSUME TypeOK, Descriptors, NobodyGivenUp, [Next]_vars,
                    "noThread" \notin incidents',
                    NEW d \in Conns, tpc'[d] = "accepted"
             PROVE  (Busy /\ sock_client.conn = d)'
  BY DEF NobodyGivenUp
<1> USE DEF TypeOK, Descriptors, NobodyGivenUp, Busy, MainGoto, ThreadGoto
<1>a. "noThread" \notin incidents
  BY IncidentsStay
<1>1. CASE Deaths
  BY <1>1 DEF Deaths, Die
<1>2. ASSUME NEW c \in Conns, Accept(c)
      PROVE  (Busy /\ sock_client.conn = d)'
  BY <1>2, <1>a DEF Accept
<1>3. CASE \/ CountLoad \/ RejectLoad \/ CountStore \/ RejectStore \/ Admit
           \/ Reject
  BY <1>3, <1>a DEF CountLoad, RejectLoad, CountStore, RejectStore, Admit,
       Reject, MainLoad, MainStore
<1>4. CASE Create \/ CreateFails
  BY <1>4, <1>a DEF Create, CreateFails
<1>5. ASSUME NEW c \in Conns,
             \/ LoadArgs(c) \/ GetLastTemp(c) \/ ReadRequest(c) \/ ReadEof(c)
             \/ Plot(c) \/ OpenPng(c) \/ Respond(c) \/ Refuse(c)
             \/ CloseSocket(c, "close", "load")
             \/ CloseSocket(c, "errClose", "done")
             \/ ThreadLoad(c, "load", "store")
             \/ ThreadLoad(c, "errLoad", "errStore")
             \/ ThreadStore(c, "store", "done")
             \/ ThreadStore(c, "errStore", "errClose")
      PROVE  (Busy /\ sock_client.conn = d)'
  BY <1>5, <1>a DEF LoadArgs, GetLastTemp, ReadRequest, ReadEof, Plot,
       OpenPng, Respond, Refuse, CloseSocket, ThreadLoad, ThreadStore,
       NextLabel, Methods
<1>6. CASE Peers \/ UNCHANGED vars
  BY <1>6, <1>a DEF Peers, vars
<1>7. QED
  BY <1>1, <1>2, <1>3, <1>4, <1>5, <1>6, Steps, Zenon

LEMMA CountingInvariant ==
  Spec => [](TypeOK /\ Descriptors /\ Counting /\ NobodyGivenUp)
<1>1. Init => NobodyGivenUp
  BY DEF Init, NobodyGivenUp
<1>2. QED
  BY <1>1, TypeInit, TypeStep, DescriptorsStep, CountingInit, CountingStep,
     NobodyGivenUpStep, PTL DEF Spec

LEMMA CountedIsHeld ==
  /\ {c \in Conns : Counted(c)} \subseteq Held
  /\ IsFiniteSet({c \in Conns : Counted(c)})
  /\ Cardinality({c \in Conns : Counted(c)}) \in Nat
  /\ Cardinality({c \in Conns : Counted(c)}) <= Cardinality(Held)
<1>1. {c \in Conns : Counted(c)} \subseteq Held
  BY DEF Held
<1>2. QED
  BY <1>1, HeldIsFinite, FS_Subset, FS_CardinalityType

(* The counter is the number of the client threads and of main's           *)
(* connection: it never wraps below zero, and no way out of a thread or of *)
(* the loop forgets or repeats its decrement.                              *)
THEOREM Exactly == Spec => []CountIsExact
<1>1. Counting /\ NobodyGivenUp => CountIsExact
  <2> SUFFICES ASSUME Counting, NobodyGivenUp,
                      incidents \cap {"lostUpdate", "noThread"} = {}
               PROVE  g_number_of_threads =
                        Cardinality({c \in Conns : Counted(c)}) + CountedByMain
    BY DEF CountIsExact
  <2>1. Held = {c \in Conns : Counted(c)}
    BY DEF Held, NobodyGivenUp
  <2>2. QED
    BY <2>1 DEF Counting, Exact
<1>2. QED
  BY <1>1, CountingInvariant, PTL

(* There are never more than max_conn counted threads.                     *)
THEOREM Limited == Spec => []ThreadsAreLimited
<1>1. Counting => ThreadsAreLimited
  BY CountedIsHeld, HeldIsFinite, MaxConnAssumption
     DEF Counting, Exact, ThreadsAreLimited
<1>2. QED
  BY <1>1, CountingInvariant, PTL

=============================================================================
