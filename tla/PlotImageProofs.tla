-------------------------- MODULE PlotImageProofs --------------------------
(***************************************************************************)
(* Proofs about PlotImage, for any threads, number of lines, pictures and  *)
(* buffer: the encoder is right about all data, and a response of a thread *)
(* that no other gnuplot disturbed has a whole picture as new as its line. *)
(***************************************************************************)
EXTENDS PlotImage, SequenceTheorems, TLAPS

Byte == 0..255
Character == 0..Pad

-----------------------------------------------------------------------------
(* The length of the characters, and how many of them are padding.         *)
LEMMA Lengths ==
  ASSUME NEW n \in Nat
  PROVE  LET g == (n + 2) \div 3 IN
         /\ g \in Nat /\ n <= 3 * g /\ 3 * g <= n + 2
         /\ output_length(n) = 4 * g
         /\ (4 * g) % 4 = 0 /\ (4 * g) \div 4 = g
         /\ mod_table[n % 3] = 3 * g - n
<1> DEFINE g == (n + 2) \div 3
<1>1. g \in Nat /\ n <= 3 * g /\ 3 * g <= n + 2
  OBVIOUS
<1>2. (4 * g) % 4 = 0 /\ (4 * g) \div 4 = g
  BY <1>1
<1>3. mod_table[n % 3] = 3 * g - n
  <2>1. n % 3 \in 0..2 /\ mod_table[n % 3] = IF n % 3 = 0 THEN 0 ELSE 3 - (n % 3)
    BY DEF mod_table
  <2>2. QED
    BY <2>1
<1>4. QED
  BY <1>1, <1>2, <1>3 DEF output_length

LEMMA Octets ==
  ASSUME NEW data \in Seq(Byte), NEW i \in Nat \ {0}
  PROVE  /\ Octet(data, i) \in Nat /\ Octet(data, i) <= 255
         /\ i <= Len(data) => Octet(data, i) = data[i]
         /\ i > Len(data) => Octet(data, i) = 0
<1>1. Len(data) \in Nat /\ \A j \in 1..Len(data) : data[j] \in Byte
  OBVIOUS
<1>2. \A x \in Byte : x \in Nat /\ x <= 255
  BY DEF Byte
<1>3. i <= Len(data) => data[i] \in Nat /\ data[i] <= 255
  BY <1>1, <1>2
<1>4. QED
  BY <1>1, <1>3 DEF Octet

LEMMA SextetRange ==
  ASSUME NEW T \in Nat, NEW k \in 0..3
  PROVE  Sextet(T, k) \in Nat /\ Sextet(T, k) < 64
<1>1. k = 0 \/ k = 1 \/ k = 2 \/ k = 3
  OBVIOUS
<1>2. (<<262144, 4096, 64, 1>>)[k + 1] \in Nat \ {0}
  BY <1>1, SMT
<1>3. QED
  BY <1>2, SMT DEF Sextet

(* Four sextets make up a number of 24 bits.                               *)
LEMMA Sextets ==
  ASSUME NEW T \in Nat, T < 16777216
  PROVE  Sextet(T, 0) * 262144 + Sextet(T, 1) * 4096 + Sextet(T, 2) * 64
           + Sextet(T, 3) = T
<1>1. /\ Sextet(T, 0) = (T \div 262144) % 64
      /\ Sextet(T, 1) = (T \div 4096) % 64
      /\ Sextet(T, 2) = (T \div 64) % 64
      /\ Sextet(T, 3) = T % 64
  BY DEF Sextet
<1>2. ((T \div 262144) % 64) * 262144 + ((T \div 4096) % 64) * 4096
        + ((T \div 64) % 64) * 64 + (T % 64) = T
  OBVIOUS
<1>3. QED
  BY <1>1, <1>2

(* The octets of a triple.                                                 *)
LEMMA OctetsOfTriple ==
  ASSUME NEW a \in Nat, NEW b \in Nat, NEW c \in Nat,
         a <= 255, b <= 255, c <= 255
  PROVE  LET T == a * 65536 + b * 256 + c IN
         /\ T \in Nat /\ T < 16777216
         /\ (T \div 65536) % 256 = a
         /\ (T \div 256) % 256 = b
         /\ (T \div 1) % 256 = c
         /\ c = 0 => T % 64 = 0
         /\ b = 0 /\ c = 0 => (T \div 64) % 64 = 0
OBVIOUS


(* The characters of the data, one by one: their places in the groups of   *)
(* four, and that the padding is where there is no octet.                  *)
LEMMA Characters ==
  ASSUME NEW data \in Seq(Byte)
  PROVE  LET n == Len(data)
             g == (n + 2) \div 3
             chars == base64_encode(data)
         IN  /\ Len(chars) = 4 * g /\ DOMAIN chars = 1..(4 * g)
             /\ \A j \in 1..(4 * g) :
                  chars[j] = IF j > n + g THEN Pad
                             ELSE Sextet(Triple(data, (j - 1) \div 4), (j - 1) % 4)
<1> DEFINE n == Len(data)
           g == (n + 2) \div 3
<1>1. n \in Nat
  OBVIOUS
<1>2. g \in Nat /\ output_length(n) = 4 * g /\ mod_table[n % 3] = 3 * g - n
  BY <1>1, Lengths
<1> HIDE DEF g
<1>3. base64_encode(data) =
        [j \in 1..(4 * g) |->
           IF j > 4 * g - (3 * g - n) THEN Pad
           ELSE Sextet(Triple(data, (j - 1) \div 4), (j - 1) % 4)]
  BY <1>2 DEF base64_encode
<1>4. 4 * g - (3 * g - n) = n + g
  BY <1>1, <1>2
<1>5. Len(base64_encode(data)) = 4 * g
  BY <1>2, <1>3, <1>4
<1>6. QED
  BY <1>3, <1>4, <1>5 DEF g

(* Three octets, as many as there are.                                     *)
LEMMA Triples ==
  ASSUME NEW data \in Seq(Byte), NEW k \in Nat
  PROVE  /\ Triple(data, k) \in Nat /\ Triple(data, k) < 16777216
         /\ (Triple(data, k) \div 65536) % 256 = Octet(data, 3 * k + 1)
         /\ (Triple(data, k) \div 256) % 256 = Octet(data, 3 * k + 2)
         /\ (Triple(data, k) \div 1) % 256 = Octet(data, 3 * k + 3)
         /\ 3 * k + 3 > Len(data) => Sextet(Triple(data, k), 3) = 0
         /\ 3 * k + 2 > Len(data) => Sextet(Triple(data, k), 2) = 0
<1> DEFINE a == Octet(data, 3 * k + 1)
           b == Octet(data, 3 * k + 2)
           c == Octet(data, 3 * k + 3)
           T == Triple(data, k)
           n == Len(data)
<1>1. a \in Nat /\ b \in Nat /\ c \in Nat /\ a <= 255 /\ b <= 255 /\ c <= 255
  BY Octets
<1>2. n \in Nat /\ (3 * k + 3 > n => c = 0) /\ (3 * k + 2 > n => b = 0 /\ c = 0)
  <2>1. n \in Nat
    OBVIOUS
  <2>2. 3 * k + 2 \in Nat \ {0} /\ 3 * k + 3 \in Nat \ {0}
    OBVIOUS
  <2>3. (3 * k + 3 > n => c = 0) /\ (3 * k + 2 > n => b = 0)
    BY <2>2, Octets
  <2>4. 3 * k + 2 > n => 3 * k + 3 > n
    BY <2>1
  <2>5. QED
    BY <2>1, <2>3, <2>4
<1>3. T = a * 65536 + b * 256 + c
  BY SMT DEF Triple
<1> HIDE DEF a, b, c, T
<1>4. /\ T \in Nat /\ T < 16777216
      /\ (T \div 65536) % 256 = a
      /\ (T \div 256) % 256 = b
      /\ (T \div 1) % 256 = c
      /\ c = 0 => T % 64 = 0
      /\ b = 0 /\ c = 0 => (T \div 64) % 64 = 0
  BY <1>1, <1>3, OctetsOfTriple, SMT
<1>5. Sextet(T, 3) = T % 64 /\ Sextet(T, 2) = (T \div 64) % 64
  BY <1>4, SMT DEF Sextet
<1>6. (c = 0 => Sextet(T, 3) = 0) /\ (b = 0 /\ c = 0 => Sextet(T, 2) = 0)
  BY <1>4, <1>5, SMT
<1>7. (3 * k + 3 > n => Sextet(T, 3) = 0) /\ (3 * k + 2 > n => Sextet(T, 2) = 0)
  BY <1>2, <1>6, Zenon
<1>8. QED
  BY <1>4, <1>7, SMT DEF a, b, c, T

LEMMA TripleIsNat ==
  ASSUME NEW data \in Seq(Byte), NEW k \in Nat
  PROVE  Triple(data, k) \in Nat
<1> DEFINE a == Octet(data, 3 * k + 1)
           b == Octet(data, 3 * k + 2)
           c == Octet(data, 3 * k + 3)
<1>1. a \in Nat /\ b \in Nat /\ c \in Nat
  BY Octets
<1>2. Triple(data, k) = a * 65536 + b * 256 + c
  BY SMT DEF Triple
<1> HIDE DEF a, b, c
<1>3. QED
  BY <1>1, <1>2

(* The encoder is right about every sequence of bytes.                     *)
THEOREM EncoderDecodes ==
  ASSUME NEW data \in Seq(Byte)
  PROVE  Decodes(base64_encode(data), data)
<1> DEFINE n == Len(data)
           g == (n + 2) \div 3
           chars == base64_encode(data)
           value(j) == IF chars[j] = Pad THEN 0 ELSE chars[j]
           group(k) == value(4 * k + 1) * 262144 + value(4 * k + 2) * 4096
                         + value(4 * k + 3) * 64 + value(4 * k + 4)
<1>1. n \in Nat
  OBVIOUS
<1>2. g \in Nat /\ n <= 3 * g /\ 3 * g <= n + 2 /\ (4 * g) % 4 = 0 /\ (4 * g) \div 4 = g
  BY <1>1, Lengths
<1>3. /\ Len(chars) = 4 * g /\ DOMAIN chars = 1..(4 * g)
      /\ \A j \in 1..(4 * g) :
           chars[j] = IF j > n + g THEN Pad
                      ELSE Sextet(Triple(data, (j - 1) \div 4), (j - 1) % 4)
  BY Characters
<1> HIDE DEF g, chars, n
<1>4. ASSUME NEW k \in 0..(g - 1), NEW r \in 0..3
      PROVE  LET j == 4 * k + r + 1 IN
             /\ j \in 1..(4 * g)
             /\ chars[j] = Pad <=> j > n + g
             /\ value(j) = Sextet(Triple(data, k), r)
  <2> DEFINE j == 4 * k + r + 1
             T == Triple(data, k)
  <2>1. k \in Nat /\ j \in 1..(4 * g) /\ (j - 1) \div 4 = k /\ (j - 1) % 4 = r
    BY <1>2
  <2>2. /\ T \in Nat /\ T < 16777216
        /\ 3 * k + 3 > n => Sextet(T, 3) = 0
        /\ 3 * k + 2 > n => Sextet(T, 2) = 0
    BY <2>1, Triples, SMT DEF n
  <2>3. Sextet(T, r) \in Nat /\ Sextet(T, r) < 64
    <3>1. T \in Nat
      BY <2>2, SMT
    <3>2. QED
      BY <3>1, SextetRange
  <2> HIDE DEF T, j
  <2>4. chars[j] = IF j > n + g THEN Pad ELSE Sextet(T, r)
    BY <1>3, <2>1 DEF T
  <2>5. chars[j] = Pad <=> j > n + g
    BY <2>3, <2>4 DEF Pad
  <2>6. j > n + g => Sextet(T, r) = 0
    <3>1. j = 4 * k + r + 1
      BY DEF j
    <3>2. ASSUME j > n + g PROVE (r = 3 /\ 3 * k + 3 > n) \/ (r = 2 /\ 3 * k + 2 > n)
      BY <1>1, <1>2, <2>1, <3>1, <3>2
    <3>3. QED
      BY <2>2, <3>2
  <2>7. value(j) = Sextet(T, r)
    BY <2>4, <2>5, <2>6
  <2>8. QED
    BY <2>1, <2>5, <2>7 DEF j, T
<1>5. ASSUME NEW k \in 0..(g - 1)
      PROVE  group(k) = Triple(data, k)
  <2> DEFINE T == Triple(data, k)
  <2>1. k \in Nat
    BY <1>2
  <2>2. T \in Nat /\ T < 16777216
    BY <2>1, Triples, SMT
  <2>3. /\ value(4 * k + 0 + 1) = Sextet(T, 0) /\ value(4 * k + 1 + 1) = Sextet(T, 1)
        /\ value(4 * k + 2 + 1) = Sextet(T, 2) /\ value(4 * k + 3 + 1) = Sextet(T, 3)
    BY <1>4
  <2>4. /\ 4 * k + 0 + 1 = 4 * k + 1 /\ 4 * k + 1 + 1 = 4 * k + 2
        /\ 4 * k + 2 + 1 = 4 * k + 3 /\ 4 * k + 3 + 1 = 4 * k + 4
    BY <2>1
  <2>5. Sextet(T, 0) * 262144 + Sextet(T, 1) * 4096 + Sextet(T, 2) * 64
          + Sextet(T, 3) = T
    BY <2>2, Sextets, SMT
  <2> HIDE DEF T, value
  <2>6. group(k) = T
    BY <2>3, <2>4, <2>5, SMT
  <2>7. QED
    BY <2>6 DEF T
<1> HIDE DEF value, group
<1>6. ASSUME NEW i \in 1..n
      PROVE  data[i] = (group((i - 1) \div 3)
                          \div (<<65536, 256, 1>>)[((i - 1) % 3) + 1]) % 256
  <2> DEFINE k == (i - 1) \div 3
             r == (i - 1) % 3
             T == Triple(data, k)
  <2>1. k \in 0..(g - 1) /\ k \in Nat /\ r \in 0..2 /\ i = 3 * k + r + 1
    BY <1>1 DEF g
  <2>2. group(k) = T
    BY <1>5, <2>1
  <2>3. /\ (T \div 65536) % 256 = Octet(data, 3 * k + 1)
        /\ (T \div 256) % 256 = Octet(data, 3 * k + 2)
        /\ (T \div 1) % 256 = Octet(data, 3 * k + 3)
    BY <2>1, Triples, SMT
  <2>4. Octet(data, i) = data[i]
    BY <1>1, Octets DEF n
  <2> HIDE DEF k, r, T
  <2>5. (T \div (<<65536, 256, 1>>)[r + 1]) % 256 = Octet(data, i)
    <3>1. CASE r = 0   BY <2>1, <2>3, <3>1, SMT
    <3>2. CASE r = 1   BY <2>1, <2>3, <3>2, SMT
    <3>3. CASE r = 2   BY <2>1, <2>3, <3>3, SMT
    <3>4. QED
      BY <2>1, <3>1, <3>2, <3>3, SMT
  <2>6. QED
    BY <2>2, <2>4, <2>5, SMT DEF k, r
<1>7. ASSUME NEW j \in 1..(4 * g)
      PROVE  chars[j] = Pad <=> j > 4 * g - (3 * g - n)
  <2> DEFINE k == (j - 1) \div 4
             r == (j - 1) % 4
  <2>1. k \in 0..(g - 1) /\ r \in 0..3 /\ j = 4 * k + r + 1
    BY <1>2
  <2> HIDE DEF k, r
  <2>2. chars[j] = Pad <=> j > n + g
    BY <1>4, <2>1
  <2>3. QED
    BY <1>1, <1>2, <2>2
<1>8. 3 * (Len(chars) \div 4) \in n..(n + 2) /\ Len(chars) % 4 = 0
      /\ Len(chars) \div 4 = g
  BY <1>1, <1>2, <1>3
<1>9. QED
  BY <1>3, <1>6, <1>7, <1>8, SMT DEF Decodes, chars, n, value, group

-----------------------------------------------------------------------------
Types ==
  /\ up \in BOOLEAN
  /\ lines \in 0..MaxLines
  /\ png = Absent \/ png \in Seq(Byte)
  /\ tpc \in [Threads -> {"idle", "plot", "close", "stat", "encode"}]
  /\ last_temp \in [Threads -> 0..MaxLines]
  /\ gnuplot \in [Threads -> {"none", "started", "opened", "loaded", "half", "ended"}]
  /\ drawn \in [Threads -> 0..MaxLines]
  /\ page \in [Threads -> Seq(Character) \cup {NoPicture}]
  /\ clash \in [Threads -> BOOLEAN]
  /\ failed \in [Threads -> BOOLEAN]

(* gnuplot writes to a file it has truncated, and a thread encodes one it  *)
(* has found.                                                              *)
FileExists ==
  \A t \in Threads :
    gnuplot[t] \in {"opened", "loaded", "half"} \/ tpc[t] = "encode" =>
      png \in Seq(Byte)

(* A thread waits for its gnuplot.                                         *)
Waiting == \A t \in Threads : Drawing(t) => tpc[t] = "close"

(* The line shown is one of the file.                                      *)
LinesShown == \A t \in Threads : last_temp[t] <= lines

(* From popen to the encoding.                                             *)
InWindow(t) == tpc[t] \in {"close", "stat", "encode"}

(* Without a clash nobody else draws in the window of a thread.            *)
Alone ==
  \A t \in Threads :
    InWindow(t) /\ ~clash[t] => \A u \in Threads \ {t} : ~Drawing(u)

(* How far the picture is.                                                 *)
DrawnSoFar(t) ==
  /\ gnuplot[t] # "none"
  /\ gnuplot[t] \in {"opened", "loaded"} => png = <<>>
  /\ gnuplot[t] = "half" => png = SubSeq(Picture[drawn[t]], 1, 1)
  /\ gnuplot[t] = "ended" => png = Picture[drawn[t]]
  /\ gnuplot[t] \in {"loaded", "half", "ended"} =>
       last_temp[t] <= drawn[t] /\ drawn[t] <= lines

Progress ==
  \A t \in Threads : InWindow(t) /\ ~clash[t] /\ ~failed[t] => DrawnSoFar(t)

(* The page begins with the whole picture of so many lines.                *)
Shows(chars, n) ==
  LET length == 4 * ((Len(Picture[n]) + 2) \div 3) IN
  /\ length <= Len(chars)
  /\ Decodes(SubSeq(chars, 1, length), Picture[n])

Fresh ==
  \A t \in Threads :
    up /\ tpc[t] = "idle" /\ page[t] \notin {<<>>, NoPicture}
      /\ ~clash[t] /\ ~failed[t] =>
      \E n \in last_temp[t]..lines : Shows(page[t], n)

IInv ==
  Types /\ FileExists /\ Waiting /\ LinesShown /\ Alone /\ Progress /\ Fresh

LEMMA TypesOK == Types <=> TypeOK
BY DEF Types, TypeOK, Byte, Character

LEMMA FreshIsWhole == Fresh <=> PictureIsWholeAndFresh
BY DEF Fresh, PictureIsWholeAndFresh, Shows

-----------------------------------------------------------------------------
LEMMA Pictures ==
  ASSUME NEW n \in 0..MaxLines
  PROVE  Picture[n] \in Seq(Byte) /\ Picture[n] # <<>>
BY PictureAssumption DEF Byte

LEMMA AbsentIsNoFile == Absent \notin Seq(Byte)
<1> SUFFICES ASSUME Absent \in Seq(Byte) PROVE FALSE
  OBVIOUS
<1>1. Len(Absent) = 1 /\ Absent[1] = -1
  BY DEF Absent
<1>2. Absent[1] \in Byte
  BY <1>1, ElementOfSeq
<1>3. \A x \in Byte : x >= 0
  BY DEF Byte
<1>4. QED
  BY <1>1, <1>2, <1>3

(* A write keeps a file a file.                                            *)
LEMMA OverlayType ==
  ASSUME NEW file \in Seq(Byte), NEW offset \in Nat, NEW bytes \in Seq(Byte)
  PROVE  Overlay(file, offset, bytes) \in Seq(Byte)
<1> DEFINE end == offset + Len(bytes)
           length == IF Len(file) > end THEN Len(file) ELSE end
<1>1. Len(file) \in Nat /\ Len(bytes) \in Nat
      /\ (\A i \in 1..Len(file) : file[i] \in Byte)
      /\ (\A i \in 1..Len(bytes) : bytes[i] \in Byte)
  OBVIOUS
<1>2. length \in Nat /\ 0 \in Byte
  BY <1>1 DEF Byte
<1>3. ASSUME NEW i \in 1..length
      PROVE  (IF i > offset /\ i <= end THEN bytes[i - offset]
              ELSE IF i <= Len(file) THEN file[i] ELSE 0) \in Byte
  BY <1>1, <1>2
<1>4. QED
  BY <1>2, <1>3 DEF Overlay

(* The two parts of a picture make it whole.                               *)
LEMMA TwoParts ==
  ASSUME NEW p \in Seq(Byte), p # <<>>
  PROVE  /\ SubSeq(p, 1, 1) \in Seq(Byte) /\ SubSeq(p, 2, Len(p)) \in Seq(Byte)
         /\ Overlay(<<>>, 0, SubSeq(p, 1, 1)) = SubSeq(p, 1, 1)
         /\ Overlay(SubSeq(p, 1, 1), 1, SubSeq(p, 2, Len(p))) = p
<1> DEFINE a == SubSeq(p, 1, 1)
           b == SubSeq(p, 2, Len(p))
<1>1. Len(p) \in Nat \ {0} /\ \A i \in 1..Len(p) : p[i] \in Byte
  OBVIOUS
<1>2. a \in Seq(Byte) /\ Len(a) = 1 /\ a[1] = p[1]
  BY <1>1, SubSeqProperties
<1>3. b \in Seq(Byte) /\ Len(b) = Len(p) - 1
      /\ \A i \in 1..(Len(p) - 1) : b[i] = p[i + 1]
  <2>1. \A i \in 2..Len(p) : p[i] \in Byte
    BY <1>1
  <2>2. /\ b \in Seq(Byte)
        /\ Len(b) = IF 2 <= Len(p) THEN Len(p) - 2 + 1 ELSE 0
        /\ \A i \in 1..(Len(p) - 2 + 1) : b[i] = p[2 + i - 1]
    BY <1>1, <2>1, SubSeqProperties
  <2> HIDE DEF b
  <2>3. Len(b) = Len(p) - 1
    <3>1. Len(b) = IF 2 <= Len(p) THEN Len(p) - 2 + 1 ELSE 0
      BY <2>2
    <3>2. \A n \in Nat \ {0} : (IF 2 <= n THEN n - 2 + 1 ELSE 0) = n - 1
      BY SMT
    <3>3. QED
      BY <1>1, <3>1, <3>2, Zenon
  <2>4. ASSUME NEW i \in 1..(Len(p) - 1) PROVE b[i] = p[i + 1]
    <3>1. i \in 1..(Len(p) - 2 + 1) /\ 2 + i - 1 = i + 1
      BY <1>1
    <3>2. QED
      BY <2>2, <3>1
  <2>5. QED
    BY <2>2, <2>3, <2>4
<1> HIDE DEF a, b
<1>4. Overlay(<<>>, 0, a) = a
  <2>1. Overlay(<<>>, 0, a) = [i \in 1..1 |-> a[i]]
    BY <1>2 DEF Overlay
  <2>2. a = [i \in 1..1 |-> a[i]]
    BY <1>2
  <2>3. QED
    BY <2>1, <2>2
<1>5. Overlay(a, 1, b) = p
  <2>1. Overlay(a, 1, b) =
          [i \in 1..Len(p) |-> IF i > 1 /\ i <= Len(p) THEN b[i - 1]
                               ELSE IF i <= 1 THEN a[i] ELSE 0]
    BY <1>1, <1>2, <1>3 DEF Overlay
  <2>2. \A i \in 1..Len(p) : p[i] = IF i > 1 /\ i <= Len(p) THEN b[i - 1]
                                    ELSE IF i <= 1 THEN a[i] ELSE 0
    BY <1>1, <1>2, <1>3
  <2>3. p = [i \in 1..Len(p) |-> p[i]]
    OBVIOUS
  <2>4. QED
    BY <2>1, <2>2, <2>3
<1>6. QED
  BY <1>2, <1>3, <1>4, <1>5 DEF a, b

(* What is encoded are characters.                                         *)
LEMMA EncoderType ==
  ASSUME NEW data \in Seq(Byte)
  PROVE  base64_encode(data) \in Seq(Character)
<1> DEFINE n == Len(data)
           g == (n + 2) \div 3
           chars == base64_encode(data)
<1>1. n \in Nat
  OBVIOUS
<1>2. g \in Nat
  BY <1>1
<1>3. /\ Len(chars) = 4 * g /\ DOMAIN chars = 1..(4 * g)
      /\ \A j \in 1..(4 * g) :
           chars[j] = IF j > n + g THEN Pad
                      ELSE Sextet(Triple(data, (j - 1) \div 4), (j - 1) % 4)
  BY Characters
<1>4. ASSUME NEW j \in 1..(4 * g)
      PROVE  chars[j] \in Character
  <2> DEFINE T == Triple(data, (j - 1) \div 4)
             r == (j - 1) % 4
  <2>1. (j - 1) \div 4 \in Nat /\ r \in 0..3
    BY <1>2
  <2>2. T \in Nat
    BY <2>1, TripleIsNat
  <2> HIDE DEF T, r
  <2>3. Sextet(T, r) \in Nat /\ Sextet(T, r) < 64
    BY <2>1, <2>2, SextetRange
  <2>4. chars[j] = Pad \/ chars[j] = Sextet(T, r)
    BY <1>3 DEF T, r
  <2>5. \A x \in Nat : x <= 64 => x \in Character
    BY DEF Character, Pad
  <2>6. Pad \in Nat /\ Pad <= 64
    BY DEF Pad
  <2>7. QED
    BY <2>3, <2>4, <2>5, <2>6
<1> HIDE DEF chars, g
<1>5. chars = [j \in 1..(4 * g) |-> chars[j]]
  <2>1. chars = [j \in DOMAIN chars |-> chars[j]]
    BY DEF chars, base64_encode
  <2>2. QED
    BY <1>3, <2>1
<1>6. chars \in Seq(Character)
  <2> DEFINE m == 4 * g
  <2>1. m \in Nat
    BY <1>2
  <2> HIDE DEF m
  <2>2. chars \in [1..m -> Character]
    BY <1>4, <1>5 DEF m
  <2>3. QED
    BY <2>1, <2>2
<1>7. QED
  BY <1>6 DEF chars

(* A response made of a picture shows it, whatever follows.                *)
LEMMA ResponseShows ==
  ASSUME NEW n \in 0..MaxLines, NEW rest \in Seq(Character)
  PROVE  Shows(base64_encode(Picture[n]) \o rest, n)
<1> DEFINE p == Picture[n]
           chars == base64_encode(p)
           length == 4 * ((Len(p) + 2) \div 3)
<1>1. p \in Seq(Byte)
  BY Pictures
<1> HIDE DEF p
<1>2. chars \in Seq(Character) /\ Len(chars) = length /\ Decodes(chars, p)
  BY <1>1, EncoderType, Characters, EncoderDecodes
<1>3. Len(chars) \in Nat /\ Len(rest) \in Nat
  BY <1>2
<1>4. Len(chars \o rest) = Len(chars) + Len(rest)
      /\ SubSeq(chars \o rest, 1, Len(chars)) = chars
  <2> HIDE DEF chars
  <2>1. /\ chars \o rest \in Seq(Character)
        /\ Len(chars \o rest) = Len(chars) + Len(rest)
        /\ \A i \in 1..(Len(chars) + Len(rest)) :
             (chars \o rest)[i] = IF i <= Len(chars) THEN chars[i]
                                  ELSE rest[i - Len(chars)]
    BY <1>2, ConcatProperties
  <2>2. \A i \in 1..Len(chars) : (chars \o rest)[i] = chars[i]
    BY <1>3, <2>1
  <2>3. SubSeq(chars \o rest, 1, Len(chars)) = [i \in 1..Len(chars) |-> chars[i]]
    BY <1>3, <2>1, <2>2
  <2>4. QED
    BY <1>2, <2>1, <2>3
<1>5. /\ length <= Len(chars \o rest)
      /\ Decodes(SubSeq(chars \o rest, 1, length), p)
  <2> HIDE DEF length, chars
  <2>1. SubSeq(chars \o rest, 1, length) = chars
    BY <1>2, <1>4
  <2>2. length <= Len(chars \o rest)
    BY <1>2, <1>3, <1>4
  <2>3. QED
    BY <1>2, <2>1, <2>2, Zenon
<1>6. QED
  BY <1>5, Zenon DEF Shows, p

-----------------------------------------------------------------------------
LEMMA InitIInv == Init => IInv
<1> SUFFICES ASSUME Init PROVE IInv
  OBVIOUS
<1>1. 0 \in 0..MaxLines
  BY MaxLinesAssumption
<1>2. Types
  <2>1. png = Absent \/ png \in Seq(Byte)
    BY <1>1, Pictures DEF Init
  <2>2. QED
    BY <1>1, <2>1 DEF Init, Types
<1>3. FileExists /\ Waiting /\ LinesShown /\ Alone /\ Progress /\ Fresh
  BY DEF Init, FileExists, Waiting, LinesShown, Alone, Progress, Fresh, InWindow,
         Drawing
<1>4. QED
  BY <1>2, <1>3 DEF IInv

(* Numbers of lines can be compared.                                       *)
LEMMA Numbers ==
  ASSUME IInv
  PROVE  /\ lines \in Nat /\ lines <= MaxLines
         /\ \A t \in Threads : last_temp[t] \in Nat /\ drawn[t] \in Nat
                                 /\ last_temp[t] <= lines
BY MaxLinesAssumption DEF IInv, Types, LinesShown

(* Steps that leave the file and what was shown as they are.               *)
LEMMA AppendLineKeeps ==
  ASSUME IInv, AppendLine
  PROVE  IInv'
<1>1. lines' = lines + 1 /\ lines < MaxLines
      /\ UNCHANGED <<up, png, tpc, last_temp, gnuplot, drawn, page, clash, failed>>
  BY DEF AppendLine
<1>2. lines \in Nat /\ lines' \in 0..MaxLines /\ lines' \in Nat
      /\ \A t \in Threads : last_temp[t] \in Nat /\ drawn[t] \in Nat
                                 /\ last_temp[t] <= lines
  BY <1>1, Numbers, MaxLinesAssumption
<1>3. Types'
  BY <1>1, <1>2 DEF IInv, Types
<1>4. FileExists' /\ Waiting' /\ Alone'
  BY <1>1 DEF IInv, FileExists, Waiting, Alone, InWindow, Drawing
<1>5. LinesShown'
  BY <1>1, <1>2 DEF LinesShown
<1>6. Progress'
  BY <1>1, <1>2 DEF IInv, Progress, DrawnSoFar, InWindow
<1>7. Fresh'
  <2>1. \A t \in Threads : \A n \in last_temp[t]..lines : n \in last_temp'[t]..lines'
    BY <1>1, <1>2
  <2>2. QED
    BY <1>1, <2>1 DEF IInv, Fresh
<1>8. QED
  BY <1>3, <1>4, <1>5, <1>6, <1>7 DEF IInv

LEMMA DieKeeps ==
  ASSUME IInv, Die
  PROVE  IInv'
BY DEF Die, IInv, Types, FileExists, Waiting, LinesShown, Alone, Progress, Fresh,
       InWindow, Drawing, DrawnSoFar

LEMMA GetKeeps ==
  ASSUME IInv, NEW t \in Threads, get_last_temp(t)
  PROVE  IInv'
<1>1. /\ tpc[t] = "idle" /\ tpc' = [tpc EXCEPT ![t] = "plot"]
      /\ last_temp' = [last_temp EXCEPT ![t] = lines]
      /\ page' = [page EXCEPT ![t] = <<>>]
      /\ UNCHANGED <<up, lines, png, gnuplot, drawn, clash, failed>>
  BY DEF get_last_temp, ThreadGoto
<1>2. /\ <<>> \in Seq(Character) /\ tpc'[t] = "plot" /\ last_temp'[t] = lines
      /\ \A u \in Threads \ {t} :
           tpc'[u] = tpc[u] /\ last_temp'[u] = last_temp[u] /\ page'[u] = page[u]
  BY <1>1 DEF IInv, Types
<1>3. Types'
  BY <1>1, <1>2 DEF IInv, Types
<1>4. FileExists' /\ Waiting' /\ Alone'
  BY <1>1, <1>2 DEF IInv, FileExists, Waiting, Alone, InWindow, Drawing
<1>5. LinesShown'
  BY <1>1, <1>2, Numbers DEF LinesShown
<1>6. Progress'
  BY <1>1, <1>2 DEF IInv, Progress, DrawnSoFar, InWindow
<1>7. Fresh'
  BY <1>1, <1>2 DEF IInv, Fresh
<1>8. QED
  BY <1>3, <1>4, <1>5, <1>6, <1>7 DEF IInv

(* popen, which a thread calls when its last gnuplot has ended: all other  *)
(* threads in their windows are disturbed, and it is itself if one draws.  *)
LEMMA PopenKeeps ==
  ASSUME IInv, NEW t \in Threads, Popen(t)
  PROVE  IInv'
<1>1. /\ tpc[t] = "plot" /\ tpc' = [tpc EXCEPT ![t] = "close"]
      /\ gnuplot' = [gnuplot EXCEPT ![t] = "started"]
      /\ failed' = [failed EXCEPT ![t] = FALSE]
      /\ UNCHANGED <<up, lines, png, last_temp, drawn, page>>
  BY DEF Popen, ThreadGoto
<1>2. /\ clash' \in [Threads -> BOOLEAN]
      /\ clash'[t] <=> \E v \in Threads \ {t} : Drawing(v)
      /\ \A u \in Threads \ {t} : clash'[u] <=> clash[u] \/ InWindow(u)
  BY DEF Popen, InWindow, IInv, Types
<1>3. /\ tpc'[t] = "close" /\ gnuplot'[t] = "started"
      /\ \A u \in Threads \ {t} :
           /\ tpc'[u] = tpc[u] /\ gnuplot'[u] = gnuplot[u] /\ failed'[u] = failed[u]
           /\ InWindow(u)' <=> InWindow(u)
           /\ Drawing(u)' <=> Drawing(u)
  BY <1>1 DEF IInv, Types, InWindow, Drawing
<1>4. Types'
  BY <1>1, <1>2 DEF IInv, Types
<1>5. FileExists' /\ LinesShown'
  BY <1>1, <1>3 DEF IInv, FileExists, LinesShown
<1>6. Waiting'
  BY <1>3 DEF IInv, Waiting
<1>7. Alone'
  <2>1. ASSUME ~clash'[t], NEW u \in Threads \ {t}
        PROVE  ~Drawing(u)'
    BY <1>2, <1>3, <2>1
  <2>2. ASSUME NEW u \in Threads \ {t}, InWindow(u)'
        PROVE  clash'[u]
    BY <1>2, <1>3, <2>2
  <2>3. QED
    BY <2>1, <2>2 DEF Alone
<1>8. Progress'
  <2>1. DrawnSoFar(t)'
    BY <1>3 DEF DrawnSoFar
  <2>2. ASSUME NEW u \in Threads \ {t}, InWindow(u)'
        PROVE  clash'[u]
    BY <1>2, <1>3, <2>2
  <2>3. QED
    BY <2>1, <2>2 DEF Progress
<1>9. Fresh'
  <2>1. ASSUME NEW u \in Threads, tpc'[u] = "idle", ~clash'[u]
        PROVE  u # t /\ tpc[u] = "idle" /\ ~clash[u] /\ failed'[u] = failed[u]
    BY <1>2, <1>3, <2>1
  <2>2. QED
    BY <1>1, <2>1 DEF IInv, Fresh
<1>10. QED
  BY <1>4, <1>5, <1>6, <1>7, <1>8, <1>9 DEF IInv

LEMMA PcloseKeeps ==
  ASSUME IInv, NEW t \in Threads, Pclose(t)
  PROVE  IInv'
<1>1. /\ tpc[t] = "close" /\ tpc' = [tpc EXCEPT ![t] = "stat"] /\ ~Drawing(t)
      /\ UNCHANGED <<up, lines, png, last_temp, gnuplot, drawn, page, clash, failed>>
  BY DEF Pclose, ThreadGoto
<1>2. /\ tpc'[t] = "stat"
      /\ \A u \in Threads \ {t} : tpc'[u] = tpc[u]
      /\ \A u \in Threads : (InWindow(u)' <=> InWindow(u)) /\ (Drawing(u)' <=> Drawing(u))
  BY <1>1 DEF IInv, Types, InWindow, Drawing
<1>3. Types'
  BY <1>1 DEF IInv, Types
<1>4. FileExists' /\ Waiting' /\ Alone' /\ LinesShown'
  BY <1>1, <1>2 DEF IInv, FileExists, Waiting, Alone, LinesShown
<1>5. Progress'
  BY <1>1, <1>2 DEF IInv, Progress, DrawnSoFar
<1>6. Fresh'
  BY <1>1, <1>2 DEF IInv, Fresh
<1>7. QED
  BY <1>3, <1>4, <1>5, <1>6 DEF IInv

LEMMA StatKeeps ==
  ASSUME IInv, NEW t \in Threads, Stat(t)
  PROVE  IInv'
<1>1. /\ tpc[t] = "stat" /\ tpc' = [tpc EXCEPT ![t] = "encode"] /\ png # Absent
      /\ UNCHANGED <<up, lines, png, last_temp, gnuplot, drawn, page, clash, failed>>
  BY DEF Stat, ThreadGoto
<1>2. /\ tpc'[t] = "encode"
      /\ \A u \in Threads \ {t} : tpc'[u] = tpc[u]
      /\ \A u \in Threads : (InWindow(u)' <=> InWindow(u)) /\ (Drawing(u)' <=> Drawing(u))
  BY <1>1 DEF IInv, Types, InWindow, Drawing
<1>3. Types' /\ png \in Seq(Byte)
  BY <1>1 DEF IInv, Types
<1>4. FileExists' /\ Alone' /\ LinesShown'
  BY <1>1, <1>2, <1>3 DEF IInv, FileExists, Alone, LinesShown
<1>5. Waiting'
  BY <1>1, <1>2 DEF IInv, Waiting
<1>6. Progress'
  BY <1>1, <1>2 DEF IInv, Progress, DrawnSoFar
<1>7. Fresh'
  BY <1>1, <1>2 DEF IInv, Fresh
<1>8. QED
  BY <1>3, <1>4, <1>5, <1>6, <1>7 DEF IInv

(* The response of a thread that was not disturbed has the picture its     *)
(* gnuplot drew.                                                           *)
LEMMA RespondKeeps ==
  ASSUME IInv, NEW t \in Threads, Respond(t)
  PROVE  IInv'
<1>1. PICK rest \in {<<>>, <<0, 1>>} :
        page' = [page EXCEPT ![t] = base64_encode(png) \o rest]
  BY DEF Respond
<1>2. /\ tpc[t] = "encode" /\ tpc' = [tpc EXCEPT ![t] = "idle"]
      /\ UNCHANGED <<up, lines, png, last_temp, gnuplot, drawn, clash, failed>>
  BY DEF Respond, ThreadGoto
<1>3. rest \in Seq(Character) /\ png \in Seq(Byte)
  <2>1. 0 \in Character /\ 1 \in Character
    BY DEF Character, Pad
  <2>2. png \in Seq(Byte)
    BY <1>2 DEF IInv, FileExists
  <2>3. <<>> \in Seq(Character) /\ <<0, 1>> \in Seq(Character)
    BY <2>1
  <2>4. rest = <<>> \/ rest = <<0, 1>>
    OBVIOUS
  <2>5. QED
    BY <2>2, <2>3, <2>4, Zenon
<1>4. base64_encode(png) \o rest \in Seq(Character)
  <2>1. base64_encode(png) \in Seq(Character)
    BY <1>3, EncoderType
  <2>2. QED
    BY <1>3, <2>1, ConcatProperties
<1>5. /\ tpc'[t] = "idle" /\ page'[t] = base64_encode(png) \o rest
      /\ \A u \in Threads \ {t} : tpc'[u] = tpc[u] /\ page'[u] = page[u]
      /\ \A u \in Threads : (InWindow(u)' => InWindow(u)) /\ (Drawing(u)' <=> Drawing(u))
  BY <1>1, <1>2 DEF IInv, Types, InWindow, Drawing
<1>6. Types'
  <2>1. page' \in [Threads -> Seq(Character) \cup {NoPicture}]
    BY <1>1, <1>4 DEF IInv, Types
  <2>2. QED
    BY <1>2, <2>1 DEF IInv, Types
<1>7. FileExists' /\ Alone' /\ LinesShown'
  BY <1>2, <1>5 DEF IInv, FileExists, Alone, LinesShown
<1>8. ~Drawing(t)
  BY <1>2 DEF IInv, Waiting
<1>9. Waiting'
  BY <1>5, <1>8 DEF IInv, Waiting
<1>10. Progress'
  BY <1>2, <1>5 DEF IInv, Progress, DrawnSoFar
<1>11. ASSUME ~clash[t], ~failed[t]
       PROVE  drawn[t] \in last_temp[t]..lines /\ Shows(page'[t], drawn[t])
  <2>1. DrawnSoFar(t)
    BY <1>2, <1>11 DEF IInv, Progress, InWindow
  <2>2. gnuplot[t] = "ended"
    BY <1>8, <2>1 DEF DrawnSoFar, Drawing, IInv, Types
  <2>3. png = Picture[drawn[t]] /\ drawn[t] \in last_temp[t]..lines
    BY <2>1, <2>2, Numbers DEF DrawnSoFar
  <2>4. drawn[t] \in 0..MaxLines
    BY DEF IInv, Types
  <2>5. QED
    BY <1>3, <1>5, <2>3, <2>4, ResponseShows
<1>12. Fresh'
  <2>1. ASSUME NEW u \in Threads \ {t},
               up /\ tpc'[u] = "idle" /\ page'[u] \notin {<<>>, NoPicture}
                 /\ ~clash[u] /\ ~failed[u]
        PROVE  \E n \in last_temp[u]..lines : Shows(page'[u], n)
    BY <1>5, <2>1 DEF IInv, Fresh
  <2>2. QED
    BY <1>2, <1>11, <2>1 DEF Fresh
<1>13. QED
  BY <1>6, <1>7, <1>9, <1>10, <1>12 DEF IInv

(* A response without a picture ends a thread, and shows nothing.          *)
LEMMA RespondWithoutKeeps ==
  ASSUME IInv, NEW t \in Threads, RespondWithout(t)
  PROVE  IInv'
<1>1. /\ tpc[t] = "encode" /\ tpc' = [tpc EXCEPT ![t] = "idle"]
      /\ page' = [page EXCEPT ![t] = NoPicture]
      /\ UNCHANGED <<up, lines, png, last_temp, gnuplot, drawn, clash, failed>>
  BY DEF RespondWithout, ThreadGoto
<1>2. /\ tpc'[t] = "idle" /\ page'[t] = NoPicture
      /\ \A u \in Threads \ {t} : tpc'[u] = tpc[u] /\ page'[u] = page[u]
      /\ \A u \in Threads : (InWindow(u)' => InWindow(u)) /\ (Drawing(u)' <=> Drawing(u))
  BY <1>1 DEF IInv, Types, InWindow, Drawing
<1>3. Types'
  BY <1>1 DEF IInv, Types
<1>4. FileExists' /\ Alone' /\ LinesShown'
  BY <1>1, <1>2 DEF IInv, FileExists, Alone, LinesShown
<1>5. ~Drawing(t)
  BY <1>1 DEF IInv, Waiting
<1>6. Waiting'
  BY <1>2, <1>5 DEF IInv, Waiting
<1>7. Progress'
  BY <1>1, <1>2 DEF IInv, Progress, DrawnSoFar
<1>8. Fresh'
  BY <1>1, <1>2 DEF IInv, Fresh
<1>9. QED
  BY <1>3, <1>4, <1>6, <1>7, <1>8 DEF IInv

-----------------------------------------------------------------------------
(* A thread that draws is the only one to do so in an undisturbed window.  *)
LEMMA OthersAreDisturbed ==
  ASSUME IInv, NEW t \in Threads, Drawing(t), NEW u \in Threads \ {t},
         InWindow(u)
  PROVE  clash[u]
BY DEF IInv, Alone

(* What holds of any step of a gnuplot.                                    *)
LEMMA GnuplotFrame ==
  ASSUME IInv, NEW t \in Threads, NEW from, NEW to, GnuplotGoto(t, from, to),
         Drawing(t), to \in {"opened", "loaded", "half", "ended"}
  PROVE  /\ UNCHANGED <<up, lines, tpc, last_temp, page, clash>>
         /\ gnuplot'[t] = to
         /\ \A u \in Threads \ {t} : gnuplot'[u] = gnuplot[u]
         /\ gnuplot' \in [Threads -> {"none", "started", "opened", "loaded", "half", "ended"}]
         /\ \A u \in Threads : InWindow(u)' <=> InWindow(u)
         /\ \A u \in Threads : Drawing(u)' => Drawing(u)
         /\ tpc[t] = "close"
<1>1. /\ UNCHANGED <<up, lines, tpc, last_temp, page, clash>>
      /\ gnuplot' = [gnuplot EXCEPT ![t] = to]
  BY DEF GnuplotGoto
<1>2. /\ gnuplot'[t] = to
      /\ \A u \in Threads \ {t} : gnuplot'[u] = gnuplot[u]
      /\ gnuplot' \in [Threads -> {"none", "started", "opened", "loaded", "half", "ended"}]
  BY <1>1 DEF IInv, Types
<1>3. \A u \in Threads : InWindow(u)' <=> InWindow(u)
  BY <1>1 DEF InWindow
<1>4. \A u \in Threads : Drawing(u)' => Drawing(u)
  BY <1>2 DEF Drawing
<1>5. tpc[t] = "close"
  BY DEF IInv, Waiting
<1>6. QED
  BY <1>1, <1>2, <1>3, <1>4, <1>5

(* So it is enough to look at the file and at the thread whose gnuplot it  *)
(* is, with the state of that gnuplot.                                     *)
LEMMA GnuplotKeeps ==
  ASSUME IInv, NEW t \in Threads, NEW from, NEW to, GnuplotGoto(t, from, to),
         Drawing(t), to \in {"opened", "loaded", "half", "ended"},
         png' \in Seq(Byte) \/ (png' = png /\ to = "ended"),
         drawn' \in [Threads -> 0..MaxLines], failed' \in [Threads -> BOOLEAN],
         \A u \in Threads \ {t} : failed'[u] = failed[u],
         ~clash[t] /\ ~failed'[t] => DrawnSoFar(t)'
  PROVE  IInv'
<1>1. /\ UNCHANGED <<up, lines, tpc, last_temp, page, clash>>
      /\ gnuplot'[t] = to
      /\ \A u \in Threads \ {t} : gnuplot'[u] = gnuplot[u]
      /\ gnuplot' \in [Threads -> {"none", "started", "opened", "loaded", "half", "ended"}]
      /\ \A u \in Threads : InWindow(u)' <=> InWindow(u)
      /\ \A u \in Threads : Drawing(u)' => Drawing(u)
      /\ tpc[t] = "close"
  BY GnuplotFrame
<1>2. Types'
  BY <1>1 DEF IInv, Types
<1>3. FileExists'
  BY <1>1 DEF IInv, FileExists
<1>4. Waiting' /\ LinesShown'
  BY <1>1 DEF IInv, Waiting, LinesShown
<1>5. Alone'
  BY <1>1 DEF IInv, Alone
<1>6. Progress'
  <2>1. ASSUME NEW u \in Threads \ {t}, InWindow(u)'
        PROVE  clash'[u]
    BY <1>1, <2>1, OthersAreDisturbed
  <2>2. QED
    BY <1>1, <2>1 DEF Progress
<1>7. Fresh'
  <2>1. \A u \in Threads : tpc[u] = "idle" => failed'[u] = failed[u]
    BY <1>1
  <2>2. QED
    BY <1>1, <2>1 DEF IInv, Fresh
<1>8. QED
  BY <1>2, <1>3, <1>4, <1>5, <1>6, <1>7 DEF IInv

LEMMA GnuplotOpenKeeps ==
  ASSUME IInv, NEW t \in Threads, GnuplotOpen(t)
  PROVE  IInv'
<1>1. /\ GnuplotGoto(t, "started", "opened") /\ gnuplot[t] = "started"
      /\ png' = <<>> /\ UNCHANGED <<drawn, failed>>
  BY DEF GnuplotOpen, GnuplotGoto
<1>2. Drawing(t) /\ png' \in Seq(Byte)
  BY <1>1 DEF Drawing
<1>3. gnuplot'[t] = "opened"
  BY <1>1, <1>2, GnuplotFrame
<1>4. DrawnSoFar(t)'
  BY <1>1, <1>3 DEF DrawnSoFar
<1>5. /\ drawn' \in [Threads -> 0..MaxLines] /\ failed' \in [Threads -> BOOLEAN]
      /\ \A u \in Threads \ {t} : failed'[u] = failed[u]
  BY <1>1 DEF IInv, Types
<1>6. GnuplotGoto(t, "started", "opened")
  BY <1>1
<1>7. QED
  BY <1>2, <1>4, <1>5, <1>6, GnuplotKeeps

(* gnuplot loads data.dat after the thread has read its last line: it      *)
(* draws that line or more.                                                *)
LEMMA GnuplotLoadKeeps ==
  ASSUME IInv, NEW t \in Threads, GnuplotLoad(t)
  PROVE  IInv'
<1>1. /\ GnuplotGoto(t, "opened", "loaded") /\ gnuplot[t] = "opened"
      /\ drawn' = [drawn EXCEPT ![t] = lines] /\ UNCHANGED <<png, failed>>
  BY DEF GnuplotLoad, GnuplotGoto
<1>2. Drawing(t) /\ png' \in Seq(Byte)
  BY <1>1 DEF Drawing, IInv, FileExists
<1>3. /\ gnuplot'[t] = "loaded" /\ InWindow(t)
      /\ UNCHANGED <<lines, last_temp>>
  BY <1>1, <1>2, GnuplotFrame DEF InWindow
<1>4. /\ drawn' \in [Threads -> 0..MaxLines] /\ failed' \in [Threads -> BOOLEAN]
      /\ drawn'[t] = lines
      /\ \A u \in Threads \ {t} : failed'[u] = failed[u]
  BY <1>1 DEF IInv, Types
<1>5. ASSUME ~clash[t], ~failed'[t]
      PROVE  DrawnSoFar(t)'
  <2>1. DrawnSoFar(t)
    BY <1>1, <1>3, <1>5 DEF IInv, Progress
  <2>2. png' = <<>>
    BY <1>1, <2>1 DEF DrawnSoFar
  <2>3. last_temp'[t] <= drawn'[t] /\ drawn'[t] <= lines'
    BY <1>3, <1>4, Numbers
  <2>4. QED
    BY <1>3, <2>2, <2>3 DEF DrawnSoFar
<1>6. GnuplotGoto(t, "opened", "loaded")
  BY <1>1
<1>7. QED
  BY <1>2, <1>4, <1>5, <1>6, GnuplotKeeps

(* The first part of the picture goes into the empty file, the second one  *)
(* after the first.                                                        *)
LEMMA GnuplotWriteKeeps ==
  ASSUME IInv, NEW t \in Threads, GnuplotWrite(t)
  PROVE  IInv'
<1> DEFINE p == Picture[drawn[t]]
           first == SubSeq(p, 1, 1)
           rest == SubSeq(p, 2, Len(p))
<1>1. /\ UNCHANGED <<drawn, failed>>
      /\ \/ GnuplotGoto(t, "loaded", "half") /\ png' = Overlay(png, 0, first)
         \/ GnuplotGoto(t, "half", "ended") /\ png' = Overlay(png, 1, rest)
  BY DEF GnuplotWrite
<1>2. p \in Seq(Byte) /\ p # <<>> /\ first \in Seq(Byte) /\ rest \in Seq(Byte)
  <2>1. drawn[t] \in 0..MaxLines
    BY DEF IInv, Types
  <2>2. p \in Seq(Byte) /\ p # <<>>
    BY <2>1, Pictures
  <2>3. QED
    BY <2>2, TwoParts
<1>3. /\ Overlay(<<>>, 0, first) = first
      /\ Overlay(first, 1, rest) = p
  BY <1>2, TwoParts
<1>4. p = Picture[drawn[t]] /\ first = SubSeq(Picture[drawn[t]], 1, 1)
  OBVIOUS
<1> HIDE DEF p, first, rest
<1>5. /\ drawn' \in [Threads -> 0..MaxLines] /\ failed' \in [Threads -> BOOLEAN]
      /\ drawn'[t] = drawn[t]
      /\ \A u \in Threads \ {t} : failed'[u] = failed[u]
  BY <1>1 DEF IInv, Types
<1>6. CASE GnuplotGoto(t, "loaded", "half") /\ png' = Overlay(png, 0, first)
  <2>1. gnuplot[t] = "loaded"
    BY <1>6 DEF GnuplotGoto
  <2>2. Drawing(t) /\ png \in Seq(Byte)
    BY <2>1 DEF Drawing, IInv, FileExists
  <2>3. png' \in Seq(Byte)
    BY <1>2, <1>6, <2>2, OverlayType
  <2>4. /\ gnuplot'[t] = "half" /\ InWindow(t)
        /\ UNCHANGED <<lines, last_temp>>
    BY <1>6, <2>2, GnuplotFrame DEF InWindow
  <2>5. ASSUME ~clash[t], ~failed'[t]
        PROVE  DrawnSoFar(t)'
    <3>1. DrawnSoFar(t)
      BY <1>1, <2>4, <2>5 DEF IInv, Progress
    <3>2. png = <<>> /\ last_temp[t] <= drawn[t] /\ drawn[t] <= lines
      BY <2>1, <3>1 DEF DrawnSoFar
    <3>3. png' = first
      BY <1>3, <1>6, <3>2
    <3>4. png' = SubSeq(Picture[drawn'[t]], 1, 1)
      BY <1>4, <1>5, <3>3
    <3>5. last_temp'[t] <= drawn'[t] /\ drawn'[t] <= lines'
      BY <1>5, <2>4, <3>2
    <3>6. QED
      BY <2>4, <3>4, <3>5 DEF DrawnSoFar
  <2>6. QED
    BY <1>5, <1>6, <2>2, <2>3, <2>5, GnuplotKeeps
<1>7. CASE GnuplotGoto(t, "half", "ended") /\ png' = Overlay(png, 1, rest)
  <2>1. gnuplot[t] = "half"
    BY <1>7 DEF GnuplotGoto
  <2>2. Drawing(t) /\ png \in Seq(Byte)
    BY <2>1 DEF Drawing, IInv, FileExists
  <2>3. png' \in Seq(Byte)
    BY <1>2, <1>7, <2>2, OverlayType
  <2>4. /\ gnuplot'[t] = "ended" /\ InWindow(t)
        /\ UNCHANGED <<lines, last_temp>>
    BY <1>7, <2>2, GnuplotFrame DEF InWindow
  <2>5. ASSUME ~clash[t], ~failed'[t]
        PROVE  DrawnSoFar(t)'
    <3>1. DrawnSoFar(t)
      BY <1>1, <2>4, <2>5 DEF IInv, Progress
    <3>2. png = first /\ last_temp[t] <= drawn[t] /\ drawn[t] <= lines
      BY <1>4, <2>1, <3>1 DEF DrawnSoFar
    <3>3. png' = p
      BY <1>3, <1>7, <3>2
    <3>4. png' = Picture[drawn'[t]]
      BY <1>4, <1>5, <3>3
    <3>5. last_temp'[t] <= drawn'[t] /\ drawn'[t] <= lines'
      BY <1>5, <2>4, <3>2
    <3>6. QED
      BY <2>4, <3>4, <3>5 DEF DrawnSoFar
  <2>6. QED
    BY <1>5, <1>7, <2>2, <2>3, <2>5, GnuplotKeeps
<1>8. QED
  BY <1>1, <1>6, <1>7

LEMMA GnuplotFailsKeeps ==
  ASSUME IInv, NEW t \in Threads, GnuplotFails(t)
  PROVE  IInv'
<1>1. PICK at \in {"started", "opened", "loaded", "half"} :
        GnuplotGoto(t, at, "ended")
  BY DEF GnuplotFails
<1>2. failed' = [failed EXCEPT ![t] = TRUE] /\ UNCHANGED <<png, drawn>>
  BY DEF GnuplotFails
<1>3. Drawing(t)
  BY <1>1 DEF GnuplotGoto, Drawing
<1>4. /\ drawn' \in [Threads -> 0..MaxLines] /\ failed' \in [Threads -> BOOLEAN]
      /\ failed'[t] /\ \A u \in Threads \ {t} : failed'[u] = failed[u]
  BY <1>2 DEF IInv, Types
<1>5. QED
  BY <1>1, <1>2, <1>3, <1>4, GnuplotKeeps

LEMMA Step == IInv /\ [Next]_vars => IInv'
<1> SUFFICES ASSUME IInv, [Next]_vars PROVE IInv'
  OBVIOUS
<1>1. CASE AppendLine
  BY <1>1, AppendLineKeeps
<1>2. ASSUME NEW t \in Threads, client_thread(t)
      PROVE  IInv'
  BY <1>2, GetKeeps, PopenKeeps, PcloseKeeps, StatKeeps, RespondKeeps,
     RespondWithoutKeeps, DieKeeps
     DEF client_thread, PopenFails, StatFails, FileBufOverrun
<1>3. ASSUME NEW t \in Threads, Gnuplot(t)
      PROVE  IInv'
  BY <1>3, GnuplotOpenKeeps, GnuplotLoadKeeps, GnuplotWriteKeeps,
     GnuplotFailsKeeps DEF Gnuplot
<1>4. CASE UNCHANGED vars
  BY <1>4 DEF vars, IInv, Types, FileExists, Waiting, LinesShown, Alone,
              Progress, Fresh, InWindow, Drawing, DrawnSoFar
<1>5. QED
  BY <1>1, <1>2, <1>3, <1>4 DEF Next

LEMMA Inductive == Spec => []IInv
BY InitIInv, Step, PTL DEF Spec

-----------------------------------------------------------------------------
(* Every state is well typed: data.png holds bytes, however many gnuplots  *)
(* write to it, and pages hold characters of the table.                    *)
THEOREM TypeCorrect == Spec => []TypeOK
<1>1. IInv => TypeOK
  BY TypesOK DEF IInv
<1>2. QED
  BY <1>1, Inductive, PTL

(* A response with a picture whose gnuplot was alone and did not fail      *)
(* begins with the whole picture, in base64, of the line it shows or of a  *)
(* later one.                                                              *)
THEOREM WholeAndFresh == Spec => []PictureIsWholeAndFresh
<1>1. IInv => PictureIsWholeAndFresh
  BY FreshIsWhole DEF IInv
<1>2. QED
  BY <1>1, Inductive, PTL

=============================================================================
