---------------------------- MODULE ConfigProofs ----------------------------
(***************************************************************************)
(* Proofs about the configuration: ConfigReload, for any number of edits,  *)
(* any pipe and either size of a pointer, and ConfigParser, for files of   *)
(* any contents.                                                           *)
(***************************************************************************)
EXTENDS ConfigReload, ConfigParser, SequenceTheorems, WellFoundedInduction, TLAPS

-----------------------------------------------------------------------------
(* A parsed file is as new as what was asked for until it is written, and  *)
(* the pipe or the context is from then on; nothing is written before a    *)
(* file was parsed, and nobody asks for a version that does not exist.     *)
OnItsWay ==
  /\ asked <= file
  /\ cpc \in {"write", "clear"} => config_file # Unread
  /\ cpc = "write" /\ ~lost => config_file >= asked
  /\ (cpc = "clear" \/ (cpc = "check" /\ ~flag_sigusr1)) /\ ~lost
       => Newest >= asked

IInv == TypeOK /\ OnItsWay

-----------------------------------------------------------------------------
LEMMA InitIInv == Init => IInv
<1> SUFFICES ASSUME Init PROVE IInv
  OBVIOUS
<1> USE MaxVersionAssumption, PipeMaxAssumption
<1>1. TypeOK
  <2>1. 0 \in 0..MaxVersion
    OBVIOUS
  <2>2. Whole(0) \in [{Fields[i] : i \in 1..4} -> 0..MaxVersion]
    BY <2>1 DEF Whole
  <2>3. pipe \in Seq(0..MaxVersion) /\ Len(pipe) <= PipeMax
    BY DEF Init
  <2>4. QED
    BY <2>1, <2>2, <2>3, Zenon DEF Init, TypeOK
<1>2. ctx["max_conn"] = 0
  BY DEF Init, Whole, Fields
<1>3. OnItsWay
  BY <1>2 DEF Init, OnItsWay, Newest
<1>4. QED
  BY <1>1, <1>3 DEF IInv

(* The domain of the context.                                              *)
LEMMA ContextType ==
  ASSUME NEW v \in 0..MaxVersion, TypeOK,
         ctx' = [f \in DOMAIN ctx |-> IF f \in Message THEN v ELSE ctx[f]]
  PROVE  ctx' \in [{Fields[i] : i \in 1..4} -> 0..MaxVersion]
BY DEF TypeOK

(* max_conn is the second field, and in every message.                     *)
LEMMA MaxConn == "max_conn" \in Message /\ "max_conn" \in {Fields[i] : i \in 1..4}
BY PtrBytesAssumption DEF Message, Fields

(* A message that is taken out of the pipe leaves the newest what it was.  *)
LEMMA TakenIsKept ==
  ASSUME TypeOK, pipe # <<>>, pipe' = Tail(pipe),
         ctx' = [f \in DOMAIN ctx |->
                  IF f \in Message THEN Head(pipe) ELSE ctx[f]]
  PROVE  Newest' = Newest
<1>1. pipe \in Seq(0..MaxVersion)
  BY DEF TypeOK
<1>2. CASE Len(pipe) = 1
  <2>1. Tail(pipe) = <<>> /\ Head(pipe) = pipe[Len(pipe)]
    BY <1>1, <1>2
  <2>2. ctx'["max_conn"] = Head(pipe)
    BY MaxConn DEF TypeOK
  <2>3. QED
    BY <2>1, <2>2 DEF Newest
<1>3. CASE Len(pipe) # 1
  <2>1. Len(pipe) \in Nat /\ Len(pipe) > 1
    <3>1. Len(pipe) \in Nat \ {0}
      BY <1>1, EmptySeq, Zenon
    <3>2. ASSUME NEW n \in Nat \ {0}, n # 1 PROVE n > 1
      BY <3>2
    <3>3. QED
      BY <1>3, <3>1, <3>2
  <2>2. Len(Tail(pipe)) = Len(pipe) - 1
    BY <1>1
  <2>3. Tail(pipe)[Len(pipe) - 1] = pipe[Len(pipe)]
    BY <1>1, <2>1
  <2>4. Tail(pipe) # <<>>
    <3>0. ASSUME NEW n \in Nat, n > 1 PROVE n - 1 # 0
      BY <3>0
    <3>1. Len(Tail(pipe)) # 0
      BY <2>1, <2>2, <3>0, Zenon
    <3>2. QED
      BY <3>1, Zenon, EmptySeq
  <2>5. QED
    BY <2>2, <2>3, <2>4 DEF Newest
<1>4. QED
  BY <1>2, <1>3

LEMMA Step == IInv /\ [Next]_vars => IInv'
<1> SUFFICES ASSUME IInv, [Next]_vars PROVE IInv'
  OBVIOUS
<1> USE MaxVersionAssumption, PipeMaxAssumption DEF IInv, OnItsWay, Goto
<1>1. CASE Edit
  <2>1. file' \in 0..MaxVersion
    BY <1>1 DEF Edit, TypeOK
  <2>2. TypeOK'
    BY <1>1, <2>1, Zenon DEF Edit, TypeOK
  <2>3. OnItsWay'
    BY <1>1 DEF Edit, TypeOK, Newest
  <2>4. QED
    BY <2>2, <2>3
<1>2. CASE SIGUSR1_handler
  <2>1. TypeOK'
    BY <1>2, Zenon DEF SIGUSR1_handler, TypeOK
  <2>2. asked' <= file'
    BY <1>2 DEF SIGUSR1_handler, TypeOK
  <2>3. flag_sigusr1' /\ (lost' \/ cpc' \notin {"write", "clear"})
    BY <1>2, Zenon DEF SIGUSR1_handler
  <2>4. cpc' \in {"write", "clear"} => config_file' # Unread
    BY <1>2 DEF SIGUSR1_handler
  <2>5. QED
    BY <2>1, <2>2, <2>3, <2>4, Zenon
<1>3. CASE ReadConfig
  <2>1. file \in 0..MaxVersion /\ file # Unread
    BY DEF TypeOK, Unread
  <2>2. QED
    BY <1>3, <2>1 DEF ReadConfig, TypeOK
<1>4. CASE WritePipe
  <2>1. config_file \in 0..MaxVersion
    BY <1>4 DEF WritePipe, TypeOK
  <2>2. pipe' \in Seq(0..MaxVersion) /\ Len(pipe') <= PipeMax
    BY <1>4, <2>1 DEF WritePipe, TypeOK
  <2>3. TypeOK'
    BY <1>4, <2>2, Zenon DEF WritePipe, TypeOK
  <2>4. Newest' = config_file
    <3>1. pipe \in Seq(0..MaxVersion) /\ pipe' = Append(pipe, config_file)
      BY <1>4 DEF WritePipe, TypeOK
    <3>2. pipe' # <<>> /\ pipe'[Len(pipe')] = config_file
      BY <3>1, <2>1
    <3>3. QED
      BY <3>2 DEF Newest
  <2>5. OnItsWay'
    BY <1>4, <2>4 DEF WritePipe, TypeOK
  <2>6. QED
    BY <2>3, <2>5
<1>5. CASE ClearFlag
  BY <1>5 DEF ClearFlag, TypeOK, Newest
<1>6. CASE update_ctx_from_file
  <2>1. CASE pipe = <<>> /\ UNCHANGED <<pipe, ctx>>
    BY <1>6, <2>1 DEF update_ctx_from_file, PlotGoto, TypeOK, Newest
  <2>2. CASE /\ pipe # <<>>
             /\ pipe' = Tail(pipe)
             /\ ctx' = [f \in DOMAIN ctx |->
                          IF f \in Message THEN Head(pipe) ELSE ctx[f]]
    <3>1. Head(pipe) \in 0..MaxVersion /\ Tail(pipe) \in Seq(0..MaxVersion)
          /\ Len(Tail(pipe)) <= PipeMax
      BY <2>2 DEF TypeOK
    <3>2. ctx' \in [{Fields[i] : i \in 1..4} -> 0..MaxVersion]
      BY <2>2, <3>1, ContextType
    <3>3. TypeOK'
      BY <1>6, <2>2, <3>1, <3>2 DEF update_ctx_from_file, PlotGoto, TypeOK
    <3>4. Newest' = Newest
      BY <2>2, TakenIsKept
    <3>5. OnItsWay'
      BY <1>6, <3>4 DEF update_ctx_from_file, PlotGoto
    <3>6. QED
      BY <3>3, <3>5
  <2>3. QED
    BY <1>6, <2>1, <2>2 DEF update_ctx_from_file
<1>7. ASSUME NEW p, End(p)
      PROVE  IInv'
  BY <1>7 DEF End, TypeOK, Newest
<1>8. CASE UNCHANGED vars
  BY <1>8 DEF vars, TypeOK, Newest
<1>9. CASE get_current_temp
  BY <1>9 DEF get_current_temp, PlotGoto, TypeOK, Newest
<1>10. QED
  BY <1>1, <1>2, <1>3, <1>4, <1>5, <1>6, <1>7, <1>8, <1>9
     DEF Next, child_config_file, ReadConfigFails, update_ctx_fails

LEMMA Inductive == Spec => []IInv
BY InitIInv, Step, PTL DEF Spec

-----------------------------------------------------------------------------
(* The pipe never holds more than it can nor anything that was not parsed, *)
(* and every field names a version.                                        *)
THEOREM TypeCorrect == Spec => []TypeOK
<1>1. IInv => TypeOK
  BY DEF IInv
<1>2. QED
  BY <1>1, Inductive, PTL

(* When the configuration process waits again, what it was asked for is    *)
(* the last message of the pipe or in the context of the plot process,     *)
(* unless a signal fell between the parsing of the file and the clearing   *)
(* of the flag.                                                            *)
THEOREM RequestsAreSent == Spec => []IdleMeansSent
<1>1. IInv => IdleMeansSent
  BY DEF IInv, OnItsWay, IdleMeansSent
<1>2. QED
  BY <1>1, Inductive, PTL

-----------------------------------------------------------------------------
(* The lines read and those to be read are bounded together.               *)
Room == Len(seen) + Len(left) <= MaxLines

ParsingInv ==
  ParserTypeOK /\ Room /\ ParsedAsWritten /\ NeverMoreThanWritten
    /\ FittingLinesDoNotFault

-----------------------------------------------------------------------------
(* Induction over a set of numbers, in place of a predicate: a number that *)
(* is missing would have a least one.                                      *)
LEMMA Induction ==
  ASSUME NEW S, 0 \in S, \A n \in Nat : n \in S => n + 1 \in S
  PROVE  \A n \in Nat : n \in S
<1> DEFINE T == Nat \ S
<1>1. SUFFICES ASSUME T # {} PROVE FALSE
  OBVIOUS
<1>2. \E x \in T : \A y \in T : ~(<<y, x>> \in OpToRel(<, Nat))
  BY <1>1, NatLessThanWellFounded, WFMin
<1>3. PICK x \in T : \A y \in T : ~(<<y, x>> \in OpToRel(<, Nat))
  BY <1>2
<1>4. \A y \in T : ~(y < x)
  BY <1>3 DEF OpToRel
<1>5. x \in Nat /\ x # 0 /\ x \notin S
  OBVIOUS
<1>6. x - 1 \in Nat /\ x - 1 < x /\ (x - 1) + 1 = x
  BY <1>5
<1>7. x - 1 \in S
  BY <1>4, <1>6
<1>8. QED
  BY <1>5, <1>6, <1>7

(* Numbers is the function its recursion describes: one that does so       *)
(* exists, by induction on how far it is defined.                          *)
LEMMA NumbersDef ==
  ASSUME NEW s \in Seq(0..9)
  PROVE  /\ Numbers(s) \in [0..Len(s) -> Nat]
         /\ Numbers(s)[0] = 0
         /\ \A i \in 1..Len(s) : Numbers(s)[i] = 10 * Numbers(s)[i - 1] + s[i]
<1> DEFINE P(m) == \E g \in [0..m -> Nat] :
                     g[0] = 0 /\ \A i \in 1..m : g[i] = 10 * g[i - 1] + s[i]
<1> DEFINE S == {m \in Nat : m <= Len(s) => P(m)}
<1>0. Len(s) \in Nat /\ \A i \in 1..Len(s) : s[i] \in Nat
  OBVIOUS
<1> HIDE DEF P
<1>1. 0 \in S
  <2> DEFINE z == [i \in 0..0 |-> 0]
  <2>1. z \in [0..0 -> Nat] /\ z[0] = 0 /\ \A i \in 1..0 : z[i] = 10 * z[i - 1] + s[i]
    OBVIOUS
  <2>2. P(0)
    BY <2>1 DEF P
  <2>3. QED
    BY <2>2
<1>2. ASSUME NEW m \in Nat, m \in S
      PROVE  m + 1 \in S
  <2>1. SUFFICES ASSUME m + 1 <= Len(s) PROVE P(m + 1)
    OBVIOUS
  <2>2. P(m)
    BY <1>2, <2>1, <1>0
  <2>3. PICK g \in [0..m -> Nat] :
           g[0] = 0 /\ \A i \in 1..m : g[i] = 10 * g[i - 1] + s[i]
    BY <2>2 DEF P
  <2> DEFINE h == [i \in 0..(m + 1) |->
                     IF i <= m THEN g[i] ELSE 10 * g[m] + s[m + 1]]
  <2>4. h \in [0..(m + 1) -> Nat]
    BY <2>1, <2>3, <1>0
  <2>5. h[0] = 0 /\ \A i \in 1..(m + 1) : h[i] = 10 * h[i - 1] + s[i]
    BY <2>1, <2>3, <1>0
  <2> HIDE DEF h
  <2>6. QED
    BY <2>4, <2>5 DEF P
<1>3. P(Len(s))
  <2>1. \A n \in Nat : n \in S
    BY <1>1, <1>2, Induction
  <2>2. QED
    BY <2>1, <1>0
<1> DEFINE F(g) == [i \in 0..Len(s) |-> IF i = 0 THEN 0 ELSE 10 * g[i - 1] + s[i]]
<1>4. \E g : g = F(g)
  <2>1. PICK g \in [0..Len(s) -> Nat] :
           g[0] = 0 /\ \A i \in 1..Len(s) : g[i] = 10 * g[i - 1] + s[i]
    BY <1>3 DEF P
  <2>2. g = F(g)
    BY <2>1, <1>0
  <2>3. QED
    BY <2>2
<1>5. Numbers(s) = F(Numbers(s))
  BY <1>4, Zenon DEF Numbers
<1>6. DOMAIN Numbers(s) = 0..Len(s) /\ Numbers(s)[0] = 0
      /\ \A i \in 1..Len(s) : Numbers(s)[i] = 10 * Numbers(s)[i - 1] + s[i]
  BY <1>5, <1>0
<1> DEFINE R == {m \in Nat : m <= Len(s) => Numbers(s)[m] \in Nat}
<1>7. ASSUME NEW m \in Nat, m \in R
      PROVE  m + 1 \in R
  <2>1. m + 1 \in 1..Len(s) => Numbers(s)[m + 1] = 10 * Numbers(s)[m] + s[m + 1]
    BY <1>6, <1>0
  <2>2. QED
    BY <1>7, <2>1, <1>0
<1>8. \A m \in Nat : m \in R
  <2>1. 0 \in R
    BY <1>6
  <2>2. QED
    BY <1>7, <2>1, Induction
<1>9. \A m \in 0..Len(s) : Numbers(s)[m] \in Nat
  BY <1>8, <1>0
<1>10. QED
  BY <1>5, <1>6, <1>9

(* More digits do not make a number smaller.                               *)
LEMMA NumbersGrow ==
  ASSUME NEW s \in Seq(0..9), NEW i \in 0..Len(s)
  PROVE  Numbers(s)[i] <= Number(s)
<1> DEFINE N == Numbers(s)
           R == {m \in Nat : i + m <= Len(s) => N[i] <= N[i + m]}
<1>1. Len(s) \in Nat /\ i \in Nat /\ \A j \in 1..Len(s) : s[j] \in Nat
  OBVIOUS
<1>2. \A j \in 0..Len(s) : N[j] \in Nat
  BY NumbersDef
<1>3. \A j \in 1..Len(s) : N[j] = 10 * N[j - 1] + s[j]
  BY NumbersDef
<1> HIDE DEF N
<1>4. ASSUME NEW m \in Nat, m \in R
      PROVE  m + 1 \in R
  <2>1. SUFFICES ASSUME i + (m + 1) <= Len(s) PROVE N[i] <= N[i + (m + 1)]
    OBVIOUS
  <2>2. i + m \in 0..Len(s) /\ i + (m + 1) \in 1..Len(s) /\ (i + (m + 1)) - 1 = i + m
    BY <1>1, <2>1
  <2>3. N[i + (m + 1)] = 10 * N[i + m] + s[i + (m + 1)]
    BY <1>3, <2>2
  <2>4. N[i] <= N[i + m]
    BY <1>1, <1>4, <2>2
  <2>5. N[i] \in Nat /\ N[i + m] \in Nat /\ s[i + (m + 1)] \in Nat
    BY <1>1, <1>2, <2>2
  <2>6. QED
    BY <2>3, <2>4, <2>5
<1>5. \A m \in Nat : m \in R
  <2>1. 0 \in R
    BY <1>1, <1>2
  <2>2. QED
    BY <1>4, <2>1, Induction
<1>6. Len(s) - i \in Nat /\ i + (Len(s) - i) = Len(s)
  BY <1>1
<1>7. N[i] <= N[Len(s)]
  BY <1>5, <1>6
<1>8. QED
  BY <1>7 DEF N, Number

(* Part of the digits is a number no larger than all of them.              *)
LEMMA PartOfNumber ==
  ASSUME NEW s \in Seq(0..9), NEW first \in Nat \ {0}, NEW last \in Int,
         last <= Len(s)
  PROVE  /\ Number(SubSeq(s, first, last)) \in Nat
         /\ Number(SubSeq(s, first, last)) <= Number(s)
<1> DEFINE e == SubSeq(s, first, last)
<1>1. Len(s) \in Nat /\ \A i \in 1..Len(s) : s[i] \in 0..9
  OBVIOUS
<1>2. Number(s) \in Nat
  BY <1>1, NumbersDef DEF Number
<1>3. CASE last < first
  <2>1. e = <<>> /\ Len(<<>>) = 0 /\ <<>> \in Seq(0..9)
    BY <1>1, <1>3, SubSeqEmpty
  <2>2. Number(<<>>) = 0
    BY <2>1, NumbersDef DEF Number
  <2>3. QED
    BY <1>2, <2>1, <2>2
<1>4. CASE ~(last < first)
  <2>1. /\ e \in Seq(0..9) /\ Len(e) = last - first + 1 /\ Len(e) \in Nat
        /\ \A i \in 1..Len(e) : e[i] = s[first + i - 1]
    <3>1. first \in 1..(Len(s) + 1) /\ last \in (first - 1)..Len(s)
      BY <1>1, <1>4
    <3>2. QED
      BY <1>1, <1>4, <3>1, SubSeqProperties
  <2> HIDE DEF e
  <2> DEFINE E == Numbers(e)
             N == Numbers(s)
             at(m) == (first - 1) + m
             R == {m \in Nat : m <= Len(e) => E[m] <= N[at(m)]}
  <2>2. /\ \A j \in 0..Len(e) : E[j] \in Nat
        /\ \A j \in 1..Len(e) : E[j] = 10 * E[j - 1] + e[j]
        /\ E[0] = 0
    BY <2>1, NumbersDef
  <2>3. /\ \A j \in 0..Len(s) : N[j] \in Nat
        /\ \A j \in 1..Len(s) : N[j] = 10 * N[j - 1] + s[j]
    BY NumbersDef
  <2> HIDE DEF E, N
  <2>4. ASSUME NEW m \in Nat, m \in R
        PROVE  m + 1 \in R
    <3>1. SUFFICES ASSUME m + 1 <= Len(e) PROVE E[m + 1] <= N[at(m + 1)]
      OBVIOUS
    <3>2. /\ m \in 0..Len(e) /\ m + 1 \in 1..Len(e) /\ (m + 1) - 1 = m
          /\ at(m) \in 0..Len(s) /\ at(m + 1) \in 1..Len(s) /\ at(m + 1) - 1 = at(m)
          /\ first + (m + 1) - 1 = at(m + 1)
      BY <1>1, <2>1, <3>1
    <3>3. E[m + 1] = 10 * E[m] + e[m + 1] /\ e[m + 1] = s[at(m + 1)]
      BY <2>1, <2>2, <3>2
    <3>4. N[at(m + 1)] = 10 * N[at(m)] + s[at(m + 1)]
      BY <2>3, <3>2
    <3>5. E[m] <= N[at(m)]
      BY <2>4, <3>1
    <3>6. E[m] \in Nat /\ N[at(m)] \in Nat
      BY <2>2, <2>3, <3>2
    <3>7. s[at(m + 1)] \in Nat
      <4>1. s[at(m + 1)] \in 0..9
        BY <1>1, <3>2
      <4>2. QED
        BY <4>1
    <3>8. QED
      BY <3>3, <3>4, <3>5, <3>6, <3>7
  <2>5. \A m \in Nat : m \in R
    <3>1. at(0) \in 0..Len(s)
      BY <1>1, <1>4
    <3>2. 0 \in R
      BY <2>2, <2>3, <3>1
    <3>3. QED
      BY <2>4, <3>2, Induction
  <2>6. at(Len(e)) = last /\ last \in 0..Len(s)
    BY <1>1, <1>4, <2>1
  <2>7. E[Len(e)] <= N[last]
    BY <2>1, <2>5, <2>6
  <2>8. N[last] <= Number(s)
    BY <2>6, NumbersGrow DEF N
  <2>9. E[Len(e)] \in Nat /\ N[last] \in Nat
    BY <2>1, <2>2, <2>3, <2>6
  <2>10. Number(e) = E[Len(e)]
    BY DEF Number, E
  <2>11. QED
    BY <1>2, <2>7, <2>8, <2>9, <2>10 DEF e
<1>5. QED
  BY <1>3, <1>4

(* Whatever of a line strtol gets to see.                                  *)
LEMMA ValueBound ==
  ASSUME NEW l \in Line, l.key \in Keys
  PROVE  Value(l) \in Nat /\ Value(l) <= Number(l.digits)
<1> DEFINE room == Chunk - EqualAt(l) - l.gap
           first == IF l.gap = 0 THEN 2 ELSE 1
           last == IF room < Len(l.digits) THEN room ELSE Len(l.digits)
<1>1. l.indent \in Int /\ l.gap \in Int /\ l.digits \in Seq(0..9)
      /\ Len(l.digits) \in Nat
  BY DEF Line
<1>2. NameLength(l.key) \in Int
  BY DEF Keys, NameLength
<1>3. room \in Int
  BY <1>1, <1>2 DEF Chunk, EqualAt
<1>4. last \in Int /\ last <= Len(l.digits) /\ first \in Nat \ {0}
  BY <1>1, <1>3
<1>5. Value(l) = Number(SubSeq(l.digits, first, last))
  BY DEF Value
<1> HIDE DEF first, last
<1>6. QED
  BY <1>1, <1>4, <1>5, PartOfNumber

(* A line that fits has its name, its "=" and all its digits in the chunk. *)
LEMMA FittingLine ==
  ASSUME NEW l \in Line, l.key \in Keys, Fits(l)
  PROVE  Named(l) /\ HasValue(l) /\ Value(l) = Number(l.digits)
<1>1. /\ l.indent \in 0..6 /\ l.gap \in 0..2 /\ l.digits \in Seq(0..9)
      /\ Len(l.digits) \in Nat
  BY DEF Line
<1>2. NameLength(l.key) \in {7, 8, 13}
  BY DEF Keys, NameLength
<1>3. EqualAt(l) \in Nat /\ l.gap >= 1 /\ EqualAt(l) + l.gap + Len(l.digits) <= 19
  BY <1>1, <1>2 DEF EqualAt, Fits
<1>4. Named(l) /\ HasValue(l)
  <2>1. NameEnd(l) \in Nat /\ NameEnd(l) < EqualAt(l) /\ EqualAt(l) < 19
    <3>1. l.indent \in Nat /\ NameLength(l.key) \in Nat
      BY <1>1, <1>2
    <3>2. NameEnd(l) \in Nat /\ NameEnd(l) < EqualAt(l)
      BY <3>1 DEF NameEnd, EqualAt
    <3>3. l.gap \in Nat /\ Len(l.digits) \in Nat
      BY <1>1
    <3>4. QED
      BY <1>3, <3>2, <3>3
  <2>2. l.equal
    BY DEF Fits
  <2>3. QED
    BY <1>3, <2>1, <2>2 DEF Named, HasValue, Chunk
<1>5. SubSeq(l.digits, 1, Len(l.digits)) = l.digits
  BY <1>1, SubSeqFull
<1>6. Value(l) = Number(SubSeq(l.digits, 1, Len(l.digits)))
  BY <1>1, <1>3 DEF Value, Chunk
<1>7. QED
  BY <1>4, <1>5, <1>6

LEMMA InitParsing == ParserInit => ParsingInv
BY MaxLinesAssumption
   DEF ParserInit, ParsingInv, ParserTypeOK, Room, ParsedAsWritten,
       Defaults, Keys, NeverMoreThanWritten, FittingLinesDoNotFault, Garbage

(* The line parsed last takes over the field it names and no other.        *)
LEMMA ParseLineKeeps ==
  ASSUME ParsingInv, ParseLine
  PROVE  ParsingInv'
<1> DEFINE l == Head(left)
<1>0. /\ left \in Seq(Line) /\ left # <<>> /\ seen \in Seq(Line)
      /\ fields \in [Keys -> Int] /\ pc = "lines"
      /\ InUse = fields /\ InUse' = fields'
  BY DEF ParseLine, ParsingInv, ParserTypeOK, InUse
<1>1. l \in Line /\ Tail(left) \in Seq(Line) /\ Len(Tail(left)) = Len(left) - 1
      /\ Len(left) \in Nat
  BY <1>0
<1>2. seen' = Append(seen, l) /\ seen' \in Seq(Line) /\ DOMAIN seen' = 1..(Len(seen) + 1)
      /\ seen'[Len(seen) + 1] = l /\ \A n \in DOMAIN seen : seen'[n] = seen[n]
      /\ DOMAIN seen = 1..Len(seen) /\ Len(seen) \in Nat /\ Len(seen') = Len(seen) + 1
  BY <1>0, <1>1 DEF ParseLine
<1> HIDE DEF l
<1>3. fields' \in [Keys -> Int] /\ (l.key \in Keys /\ Named(l) => fields'[l.key] = Value(l))
      /\ \A k \in Keys : fields'[k] # fields[k] => k = l.key /\ Named(l)
  <2>1. l.key \in Keys => Value(l) \in Int
    BY <1>1, ValueBound
  <2>2. fields' = IF Named(l) THEN [fields EXCEPT ![l.key] = Value(l)] ELSE fields
    BY DEF ParseLine, l
  <2>3. Named(l) => l.key \in Keys
    BY DEF Named
  <2>4. QED
    BY <1>0, <2>1, <2>2, <2>3
<1>4. ParserTypeOK' /\ Room'
  <2>1. Len(seen') + Len(left') = Len(seen) + Len(left) /\ Len(left') \in Nat
        /\ left' \in Seq(Line)
    BY <1>0, <1>1, <1>2 DEF ParseLine
  <2>2. Room'
    BY <2>1 DEF ParsingInv, Room
  <2>3. Len(seen') <= MaxLines
    BY <1>2, <2>1, <2>2, MaxLinesAssumption DEF Room
  <2>4. pc' = "lines" /\ reader' = reader
    BY <1>0 DEF ParseLine
  <2>5. QED
    BY <1>2, <1>3, <2>1, <2>2, <2>3, <2>4 DEF ParseLine, ParsingInv, ParserTypeOK
<1>5. ASSUME \A n \in DOMAIN seen' : n > opened' => Fits(seen'[n]),
             NEW k \in Keys, NEW o \in DOMAIN seen', Names(o, k)'
      PROVE  LastLineDecides(k)'
  <2>0. opened' = opened /\ opened \in 0..Len(seen)
    BY DEF ParseLine, ParsingInv, ParserTypeOK
  <2>1. (\A n \in DOMAIN seen : n > opened => Fits(seen[n])) /\ Fits(l)
    BY <1>2, <1>5, <2>0
  <2>2. CASE l.key = k
    <3>1. fields'[k] = Number(l.digits)
      BY <1>1, <1>3, <2>1, <2>2, FittingLine
    <3>2. Len(seen) + 1 > opened' /\ seen'[Len(seen) + 1].key = k
      BY <1>2, <2>0, <2>2
    <3>3. \A m \in DOMAIN seen' : ~(m > Len(seen) + 1)
      BY <1>2
    <3>4. Len(seen) + 1 \in DOMAIN seen'
      BY <1>2
    <3>5. QED
      BY <1>0, <1>2, <3>1, <3>2, <3>3, <3>4 DEF LastLineDecides, Names
  <2>3. CASE l.key # k
    <3>1. fields'[k] = fields[k]
      BY <1>3, <2>3
    <3>2. o \in DOMAIN seen /\ Names(o, k)
      BY <1>2, <1>5, <2>0, <2>3 DEF Names
    <3>3. PICK n \in DOMAIN seen :
            /\ Names(n, k)
            /\ InUse[k] = Number(seen[n].digits)
            /\ \A m \in DOMAIN seen : m > n => ~Names(m, k)
      BY <2>1, <3>2 DEF ParsingInv, ParsedAsWritten, LastLineDecides
    <3>4. n \in DOMAIN seen' /\ seen'[n] = seen[n] /\ Names(n, k)'
      BY <1>2, <2>0, <3>3 DEF Names
    <3>5. \A m \in DOMAIN seen' : m > n => ~Names(m, k)'
      BY <1>2, <2>0, <2>3, <3>3 DEF Names
    <3>6. QED
      BY <1>0, <3>1, <3>3, <3>4, <3>5 DEF LastLineDecides
  <2>4. QED
    BY <2>2, <2>3
<1>6. ParsedAsWritten'
  BY <1>5, Zenon DEF ParsedAsWritten
<1>7. ASSUME NEW k \in Keys, fields'[k] # Garbage
      PROVE  \E n \in DOMAIN seen' :
               seen'[n].key = k /\ fields'[k] <= Number(seen'[n].digits)
  <2>1. CASE fields'[k] = fields[k]
    <3>1. PICK n \in DOMAIN seen :
            seen[n].key = k /\ fields[k] <= Number(seen[n].digits)
      BY <1>7, <2>1 DEF ParsingInv, NeverMoreThanWritten
    <3>2. n \in DOMAIN seen' /\ seen'[n] = seen[n]
      BY <1>2
    <3>3. QED
      BY <2>1, <3>1, <3>2
  <2>2. CASE fields'[k] # fields[k]
    <3>1. k = l.key /\ fields'[k] = Value(l)
      BY <1>3, <2>2
    <3>2. Value(l) <= Number(l.digits)
      BY <1>1, <3>1, ValueBound
    <3>3. Len(seen) + 1 \in DOMAIN seen' /\ seen'[Len(seen) + 1] = l
      BY <1>2
    <3>4. QED
      BY <3>1, <3>2, <3>3
  <2>3. QED
    BY <2>1, <2>2
<1>8. NeverMoreThanWritten'
  BY <1>7 DEF NeverMoreThanWritten, Garbage
<1>9. FittingLinesDoNotFault'
  BY <1>0 DEF ParseLine, FittingLinesDoNotFault
<1>10. QED
  BY <1>4, <1>6, <1>8, <1>9 DEF ParsingInv

(* The line with the null token is one that does not fit.                  *)
LEMMA ParseLineFaultsKeeps ==
  ASSUME ParsingInv, ParseLineFaults
  PROVE  ParsingInv'
<1>1. left[1] \in Line /\ Head(left) = left[1] /\ 1 \in DOMAIN left
  BY DEF ParseLineFaults, ParsingInv, ParserTypeOK
<1>2. ~Fits(left[1])
  BY <1>1, FittingLine DEF ParseLineFaults, Named
<1>3. FittingLinesDoNotFault'
  BY <1>1, <1>2 DEF ParseLineFaults, FittingLinesDoNotFault
<1>4. QED
  BY <1>3 DEF ParseLineFaults, ParsingInv, ParserTypeOK, Room,
              ParsedAsWritten, NeverMoreThanWritten, LastLineDecides, Names, InUse

LEMMA StepParsing == ParsingInv /\ [ParserNext]_parserVars => ParsingInv'
<1> SUFFICES ASSUME ParsingInv, [ParserNext]_parserVars PROVE ParsingInv'
  OBVIOUS
<1> USE MaxLinesAssumption
    DEF ParsingInv, ParserTypeOK, Room, ParsedAsWritten, NeverMoreThanWritten,
        LastLineDecides, Names, InUse, FittingLinesDoNotFault
<1>1. CASE Open                 BY <1>1, ContentsAssumption DEF Open
<1>2. CASE OpenFails            BY <1>2 DEF OpenFails
<1>3. CASE ParseLine            BY <1>3, ParseLineKeeps
<1>4. CASE ParseLineFaults      BY <1>4, ParseLineFaultsKeeps
<1>5. CASE Close                BY <1>5 DEF Close
<1>6. CASE StartConfigProcess   BY <1>6 DEF StartConfigProcess, Garbage
<1>7. CASE Sent                 BY <1>7 DEF Sent
<1>8. CASE Reload               BY <1>8 DEF Reload
<1>9. CASE UNCHANGED parserVars BY <1>9 DEF parserVars
<1>10. CASE UpdateContext       BY <1>10 DEF UpdateContext
<1>11. QED
  BY <1>1, <1>2, <1>3, <1>4, <1>5, <1>6, <1>7, <1>8, <1>9, <1>10
     DEF ParserNext, read_config_file

LEMMA ParsingInductive == ParserSpec => []ParsingInv
BY InitParsing, StepParsing, PTL DEF ParserSpec

-----------------------------------------------------------------------------
(* Every state of the parser is well typed: the fields are numbers, and    *)
(* no line is open outside a read.                                         *)
THEOREM ParserTypeCorrect == ParserSpec => []ParserTypeOK
<1>1. ParsingInv => ParserTypeOK
  BY DEF ParsingInv
<1>2. QED
  BY <1>1, ParsingInductive, PTL

(* Whatever the layout of the lines, no field exceeds what some line gave. *)
THEOREM NeverMore == ParserSpec => []NeverMoreThanWritten
<1>1. ParsingInv => NeverMoreThanWritten
  BY DEF ParsingInv
<1>2. QED
  BY <1>1, ParsingInductive, PTL

(* A file whose lines fit is parsed as written, whatever was read before.  *)
THEOREM Parsing == ParserSpec => []ParsedAsWritten
<1>1. ParsingInv => ParsedAsWritten
  BY DEF ParsingInv
<1>2. QED
  BY <1>1, ParsingInductive, PTL

(* And none of them crashes its reader.                                    *)
THEOREM NoFault == ParserSpec => []FittingLinesDoNotFault
<1>1. ParsingInv => FittingLinesDoNotFault
  BY DEF ParsingInv
<1>2. QED
  BY <1>1, ParsingInductive, PTL

=============================================================================
