------------------------- MODULE ProcessTreeProofs -------------------------
(***************************************************************************)
(* Proofs about ProcessTree, for any number of starts.                     *)
(***************************************************************************)
EXTENDS ProcessTree, TLAPS

(* As long as no instance was started beside another one, one main runs.   *)
OneParent ==
  ~twice => \A i, j \in Instances : ParentAlive(i) /\ ParentAlive(j) => i = j

(* A bound child has a living parent.                                      *)
BoundHaveParent ==
  \A i \in Instances, c \in Children :
    child[i][c] = "bound" => ParentAlive(i)

IInv == TypeOK /\ BoundHaveParent /\ OneParent

-----------------------------------------------------------------------------
LEMMA InitIInv == Init => IInv
BY DEF Init, IInv, TypeOK, BoundHaveParent, OneParent,
       ParentAlive, Alive

(* What a step of main does that goes on, without touching a child.        *)
LEMMA GotoKeeps ==
  ASSUME IInv, NEW i \in Instances, NEW from, NEW to,
         from \notin {"none", "dead"},
         to \in {"forkPlot", "forkConfig", "forkDriver", "init", "serve",
                 "unbound"},
         ParentGoto(i, from, to), listener' \in Instances \cup {0},
         UNCHANGED child
  PROVE  IInv'
<1>1. TypeOK'
  BY DEF IInv, TypeOK, ParentGoto
<1>2. \A j \in Instances : ParentAlive(j)' <=> ParentAlive(j)
  BY DEF IInv, TypeOK, ParentGoto, ParentAlive
<1>3. BoundHaveParent' /\ OneParent'
  BY <1>2 DEF IInv, BoundHaveParent, OneParent, ParentGoto
<1>4. QED
  BY <1>1, <1>3 DEF IInv

(* What the end of main's process leaves.                                  *)
LEMMA EndKeeps ==
  ASSUME IInv, NEW i \in Instances, EndParent(i), UNCHANGED twice
  PROVE  IInv'
<1>1. TypeOK'
  BY DEF IInv, TypeOK, EndParent, Alive
<1>2. ~ParentAlive(i)' /\ \A j \in Instances \ {i} : ParentAlive(j)' <=> ParentAlive(j)
  BY DEF IInv, TypeOK, EndParent, ParentAlive
<1>3. BoundHaveParent'
  BY <1>2 DEF IInv, TypeOK, BoundHaveParent, EndParent
<1>4. OneParent'
  BY <1>2 DEF IInv, OneParent
<1>5. QED
  BY <1>1, <1>3, <1>4 DEF IInv

(* What a step of a child leaves: it is bound under a living parent only,  *)
(* and none comes back to life.                                            *)
LEMMA ChildKeeps ==
  ASSUME IInv, NEW i \in Instances, NEW c \in Children,
         NEW to \in {"bound", "orphan", "dead"},
         child[i][c] \in Alive, to = "bound" => ParentAlive(i),
         child' = [child EXCEPT ![i][c] = to],
         UNCHANGED <<parent, listener, twice>>
  PROVE  IInv'
<1>1. TypeOK'
  BY DEF IInv, TypeOK, Alive
<1>2. \A j \in Instances : ParentAlive(j)' <=> ParentAlive(j)
  BY DEF ParentAlive
<1>3. BoundHaveParent'
  BY <1>2 DEF IInv, TypeOK, BoundHaveParent
<1>4. OneParent'
  BY <1>2 DEF IInv, OneParent
<1>5. QED
  BY <1>1, <1>3, <1>4 DEF IInv

LEMMA ForkKeeps ==
  ASSUME IInv, NEW i \in Instances, NEW c \in Children,
         NEW from \in {"forkPlot", "forkConfig", "forkDriver"},
         NEW to \in {"forkConfig", "forkDriver", "init"},
         ForkChild(i, c, from, to)
  PROVE  IInv'
<1>1. TypeOK'
  BY DEF IInv, TypeOK, ForkChild, ParentGoto, Alive
<1>2. \A j \in Instances : ParentAlive(j)' <=> ParentAlive(j)
  BY DEF IInv, TypeOK, ForkChild, ParentGoto, ParentAlive
<1>3. BoundHaveParent'
  BY <1>2 DEF IInv, TypeOK, BoundHaveParent, ForkChild
<1>4. OneParent'
  BY <1>2 DEF IInv, OneParent, ForkChild, ParentGoto
<1>5. QED
  BY <1>1, <1>3, <1>4 DEF IInv

LEMMA StartKeeps ==
  ASSUME IInv, NEW i \in Instances, Start(i)
  PROVE  IInv'
<1>1. TypeOK'
  BY DEF IInv, TypeOK, Start
<1>2. \A j \in Instances \ {i} : ParentAlive(j)' <=> ParentAlive(j)
  BY DEF IInv, TypeOK, Start, ParentAlive
<1>3. ParentAlive(i)'
  BY DEF IInv, TypeOK, Start, ParentAlive
<1>4. BoundHaveParent'
  BY <1>2, <1>3 DEF IInv, BoundHaveParent, Start
<1>5. OneParent'
  BY <1>2 DEF IInv, OneParent, Start
<1>6. QED
  BY <1>1, <1>4, <1>5 DEF IInv

(* The group is gone; nothing else changes.                                *)
LEMMA SigintKeeps ==
  ASSUME IInv, NEW i \in Instances, SIGINT_handler(i)
  PROVE  IInv'
<1>1. TypeOK'
  BY DEF IInv, TypeOK, SIGINT_handler, Alive
<1>2. ~ParentAlive(i)' /\ \A j \in Instances \ {i} : ParentAlive(j)' <=> ParentAlive(j)
  BY DEF IInv, TypeOK, SIGINT_handler, ParentAlive
<1>3. BoundHaveParent'
  BY <1>2 DEF IInv, TypeOK, BoundHaveParent, SIGINT_handler, Alive
<1>4. OneParent'
  BY <1>2 DEF IInv, OneParent, SIGINT_handler
<1>5. QED
  BY <1>1, <1>3, <1>4 DEF IInv

-----------------------------------------------------------------------------
LEMMA MainKeeps ==
  ASSUME IInv, NEW i \in Instances, main(i)
  PROVE  IInv'
<1>1. CASE Setup(i)         BY <1>1, GotoKeeps DEF Setup, IInv, TypeOK
<1>2. CASE SetupFails(i)    BY <1>2, EndKeeps DEF SetupFails
<1>3. CASE Fork(i)          BY <1>3, ForkKeeps DEF Fork, Children
<1>4. CASE ForkFails(i)     BY <1>4, EndKeeps DEF ForkFails
<1>5. CASE Listen(i)        BY <1>5, GotoKeeps DEF Listen
<1>6. CASE BindFails(i)     BY <1>6, GotoKeeps DEF BindFails, IInv, TypeOK
<1>7. CASE SocketFails(i)   BY <1>7, EndKeeps DEF SocketFails
<1>8. CASE AcceptFails(i)   BY <1>8, EndKeeps DEF AcceptFails
<1>9. QED
  BY <1>1, <1>2, <1>3, <1>4, <1>5, <1>6, <1>7, <1>8 DEF main, web_server_init

LEMMA Step == IInv /\ [Next]_vars => IInv'
<1> SUFFICES ASSUME IInv, [Next]_vars PROVE IInv'
  OBVIOUS
<1>1. ASSUME NEW i \in Instances, Start(i) PROVE IInv'
  BY <1>1, StartKeeps
<1>2. ASSUME NEW i \in Instances, main(i) PROVE IInv'
  BY <1>2, MainKeeps
<1>3. ASSUME NEW i \in Instances, NEW c \in Children, Prctl(i, c) PROVE IInv'
  <2>1. CASE ParentAlive(i)    BY <1>3, <2>1, ChildKeeps DEF Prctl, Alive
  <2>2. CASE ~ParentAlive(i)   BY <1>3, <2>2, ChildKeeps DEF Prctl, Alive
  <2>3. QED
    BY <2>1, <2>2
<1>4. ASSUME NEW i \in Instances, NEW c \in Children, ChildDies(i, c) PROVE IInv'
  BY <1>4, ChildKeeps DEF ChildDies
<1>5. ASSUME NEW i \in Instances, ParentDies(i) PROVE IInv'
  BY <1>5, EndKeeps DEF ParentDies
<1>6. ASSUME NEW i \in Instances, SIGINT_handler(i) PROVE IInv'
  BY <1>6, SigintKeeps
<1>7. CASE UNCHANGED vars
  BY <1>7 DEF vars, IInv, TypeOK, BoundHaveParent, OneParent,
              ParentAlive
<1>8. QED
  BY <1>1, <1>2, <1>3, <1>4, <1>5, <1>6, <1>7 DEF Next

LEMMA Inductive == Spec => []IInv
BY InitIInv, Step, PTL DEF Spec

-----------------------------------------------------------------------------
(* Every state of the process tree is well typed, over any starts.         *)
THEOREM TypeCorrect == Spec => []TypeOK
<1>1. IInv => TypeOK
  BY DEF IInv
<1>2. QED
  BY <1>1, Inductive, PTL

(* Without orphans and second starts the segment is under one set.         *)
THEOREM OneSet == Spec => []SegmentHasOneSet
<1>1. IInv => SegmentHasOneSet
  BY DEF IInv, BoundHaveParent, OneParent, SegmentHasOneSet,
         SegmentUsers, Children
<1>2. QED
  BY <1>1, Inductive, PTL

=============================================================================
