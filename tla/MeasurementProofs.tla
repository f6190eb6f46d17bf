------------------------- MODULE MeasurementProofs -------------------------
(***************************************************************************)
(* Proofs about Measurement, for all readings of 24 bits, all windows and  *)
(* all numbers an uninitialised average may hold.                          *)
(***************************************************************************)
EXTENDS Measurement, SequenceTheorems, WellFoundedInduction, TLAPS

Between(low, x, high) == x \in Int /\ low <= x /\ x <= high

Int32(x) == Between(-2147483648, x, 2147483647)

(* The operands of the shifts in compensate_temperature.                   *)
Product1(adc_T) == (adc_T \div 8 - dig_T1 * 2) * dig_T2
Square(adc_T) == (adc_T \div 16 - dig_T1) * (adc_T \div 16 - dig_T1)
Product2(adc_T) == (Square(adc_T) \div 4096) * dig_T3

-----------------------------------------------------------------------------
(* A square of a bounded number is bounded.                                *)
LEMMA SquareBound ==
  ASSUME NEW d \in Int, -27641 <= d, d <= 37894
  PROVE  Between(0, d * d, 1435955236)
<1>1. CASE d >= 0
  <2>1. d * d <= 37894 * d /\ 37894 * d <= 37894 * 37894
    BY SMT, <1>1
  <2>2. QED
    BY SMT, <1>1, <2>1 DEF Between
<1>2. CASE d < 0
  <2>1. (-d) * (-d) <= 27641 * (-d) /\ 27641 * (-d) <= 27641 * 27641
    BY SMT, <1>2
  <2>2. d * d = (-d) * (-d)
    BY SMT
  <2>3. QED
    BY SMT, <1>2, <2>1, <2>2 DEF Between
<1>3. QED
  BY SMT, <1>1, <1>2

LEMMA Intervals ==
  ASSUME NEW adc_T \in Nat, adc_T <= 1048575
  PROVE  /\ Between(-1419862888, Product1(adc_T), 1946564676)
         /\ Between(0, Square(adc_T), 1435955236)
         /\ Between(0, Product2(adc_T), 17528750)
         /\ Between(-693293, var1(adc_T), 950471)
         /\ Between(0, var2(adc_T), 1069)
<1> DEFINE d == adc_T \div 16 - dig_T1
<1>1. Between(-1419862888, Product1(adc_T), 1946564676)
  BY SMT DEF Product1, dig_T1, dig_T2, Between
<1>2. d \in Int /\ -27641 <= d /\ d <= 37894
  BY SMT DEF dig_T1
<1>3. Square(adc_T) = d * d
  BY DEF Square
<1>4. Between(0, Square(adc_T), 1435955236)
  <2> HIDE DEF d
  <2>1. QED
    BY SMT, <1>2, <1>3, SquareBound
<1>5. Between(0, Product2(adc_T), 17528750)
  BY SMT, <1>4 DEF dig_T3, Product2, Between
<1>6. Between(-693293, var1(adc_T), 950471)
  <2>1. var1(adc_T) = Product1(adc_T) \div 2048
    BY DEF var1, Product1
  <2>2. QED
    BY SMT, <1>1, <2>1 DEF Between
<1>7. Between(0, var2(adc_T), 1069)
  <2>1. var2(adc_T) = Product2(adc_T) \div 16384
    BY DEF var2, Square, Product2
  <2>2. QED
    BY SMT, <1>5, <2>1 DEF Between
<1>8. QED
  BY <1>1, <1>4, <1>5, <1>6, <1>7

(* No intermediate result of _compensate_temperature overflows an int32_t, *)
(* and the result is a temperature, for every reading of 24 bits           *)
(* (bmp_280.c 129-154).                                                    *)
THEOREM CompensationFits ==
  ASSUME NEW raw_temp \in Nat, raw_temp < 16777216
  PROVE  LET adc_T == raw_temp \div 16 IN
         /\ Int32(Product1(adc_T))
         /\ Int32(Square(adc_T))
         /\ Int32(Product2(adc_T))
         /\ Int32((var1(adc_T) + var2(adc_T)) * 5 + 128)
         /\ compensate_temperature(raw_temp) \in Temps
<1> DEFINE adc_T == raw_temp \div 16
           t_fine == var1(adc_T) + var2(adc_T)
<1>1. adc_T \in Nat /\ adc_T <= 1048575
  BY SMT
<1>2. compensate_temperature(raw_temp) = (t_fine * 5 + 128) \div 256
  BY DEF compensate_temperature
<1> HIDE DEF adc_T
<1>3. /\ Between(-1419862888, Product1(adc_T), 1946564676)
      /\ Between(0, Square(adc_T), 1435955236)
      /\ Between(0, Product2(adc_T), 17528750)
      /\ Between(-693293, var1(adc_T), 950471)
      /\ Between(0, var2(adc_T), 1069)
  BY <1>1, Intervals
<1>4. Between(-693293, t_fine, 951540)
  BY SMT, <1>3 DEF Between
<1> HIDE DEF t_fine
<1>5. Between(-3466337, t_fine * 5 + 128, 4757828)
  BY SMT, <1>4 DEF Between
<1>6. (t_fine * 5 + 128) \div 256 \in Temps
  <2>1. /\ Between(Coldest, (t_fine * 5 + 128) \div 256, Hottest)
        /\ Coldest \in Int /\ Hottest \in Int
    BY SMT, <1>5 DEF Between, Coldest, Hottest
  <2>2. QED
    BY SMT, <2>1 DEF Temps, Between
<1>7. QED
  BY SMT, <1>2, <1>3, <1>5, <1>6 DEF Int32, Between, adc_T, t_fine

-----------------------------------------------------------------------------
(* A number that is not spoilt is there from the start, before AverageIs-  *)
(* Bounded says anything about it.                                         *)
IInv ==
  /\ TypeOK
  /\ ~spoilt => average \in Fraction
  /\ AverageIsBounded

LEMMA TempsAreNumbers == Temps \subseteq Int
<1>1. Coldest \in Int /\ Hottest \in Int
  BY SMT DEF Coldest, Hottest
<1>2. QED
  BY <1>1 DEF Temps

LEMMA Compensated ==
  ASSUME NEW reading \in Readings
  PROVE  /\ compensate_temperature(reading) \in Temps
         /\ compensate_temperature(reading) \in Int
<1>1. reading \in Nat /\ reading < 16777216
  BY ReadingsAssumption
<1>2. compensate_temperature(reading) \in Temps
  BY <1>1, CompensationFits
<1>3. QED
  BY <1>2, TempsAreNumbers

(* The weighted mean of a fraction not below t and an x not below t is not *)
(* below t.                                                                *)
LEMMA NotBelow ==
  ASSUME NEW num \in Int, NEW den \in Nat \ {0}, NEW n \in Nat \ {0},
         NEW x \in Int, NEW t \in Int, t * den <= num, t <= x
  PROVE  t * (den * n) <= num * (n - 1) + x * den
<1>1. (t * den) * (n - 1) <= num * (n - 1)
  BY SMT
<1>2. t * den <= x * den
  BY SMT
<1>3. t * (den * n) = (t * den) * (n - 1) + t * den
  BY SMT
<1>4. QED
  BY SMT, <1>1, <1>2, <1>3

LEMMA NotAbove ==
  ASSUME NEW num \in Int, NEW den \in Nat \ {0}, NEW n \in Nat \ {0},
         NEW x \in Int, NEW t \in Int, num <= t * den, x <= t
  PROVE  num * (n - 1) + x * den <= t * (den * n)
<1>1. num * (n - 1) <= (t * den) * (n - 1)
  BY SMT
<1>2. x * den <= t * den
  BY SMT
<1>3. t * (den * n) = (t * den) * (n - 1) + t * den
  BY SMT
<1>4. QED
  BY SMT, <1>1, <1>2, <1>3

(* A finite average and a window give a fraction again.                    *)
LEMMA AverageType ==
  ASSUME NEW avg \in Fraction \cup {NotFinite}, NEW input \in Int, NEW n \in Nat
  PROVE  /\ get_moving_average(avg, input, n) \in Fraction \cup {NotFinite}
         /\ avg \in Fraction /\ n # 0 =>
              /\ get_moving_average(avg, input, n) \in Fraction
              /\ get_moving_average(avg, input, n)
                   = [num |-> avg.num * (n - 1) + input * avg.den,
                      den |-> avg.den * n]
<1>1. CASE avg \in Fraction /\ n # 0
  <2>1. avg # NotFinite
    BY <1>1 DEF Fraction, NotFinite
  <2>2. /\ avg.num * (n - 1) + input * avg.den \in Int
        /\ avg.den * n \in Nat \ {0}
    <3>1. avg.num \in Int /\ avg.den \in Nat \ {0} /\ n \in Nat \ {0}
      BY <1>1 DEF Fraction
    <3>2. avg.den * n \in Nat /\ avg.den * n >= avg.den
      BY SMT, <3>1
    <3>3. QED
      BY SMT, <3>1, <3>2
  <2>3. QED
    BY <1>1, <2>1, <2>2 DEF get_moving_average, Fraction
<1>2. CASE ~(avg \in Fraction /\ n # 0)
  BY <1>2 DEF get_moving_average
<1>3. QED
  BY <1>1, <1>2

LEMMA InitIInv == Init => IInv
<1> SUFFICES ASSUME Init PROVE IInv
  OBVIOUS
<1>1. TypeOK
  BY LeftoversAssumption, MaxRoundsAssumption DEF Init, TypeOK
<1>2. QED
  BY <1>1, LeftoversAssumption DEF Init, IInv, AverageIsBounded

(* The new bounds of the average are the old ones or the new temperature.  *)
LEMMA RoundKeepsBounds ==
  ASSUME IInv, Round
  PROVE  AverageIsBounded' /\ (~spoilt' => average' \in Fraction)
<1> SUFFICES ASSUME ~spoilt'
             PROVE  AverageIsBounded' /\ average' \in Fraction
  BY DEF AverageIsBounded
<1>1. PICK reading \in Readings :
        /\ average' = get_moving_average(average, compensate_temperature(reading), window)
        /\ temps' = Append(temps, compensate_temperature(reading))
  BY DEF Round
<1> DEFINE x == compensate_temperature(reading)
<1>2. x \in Temps /\ x \in Int
  BY Compensated
<1> HIDE DEF x
<1>3. ~spoilt /\ samples # 0 /\ average \in Fraction
  BY DEF Round, IInv
<1>4. window \in Nat \ {0} /\ (nread = 1 => window = 1)
  BY <1>3, WindowsAssumption, MaxRoundsAssumption DEF IInv, TypeOK, window
<1>5. /\ average' \in Fraction
      /\ average'.num = average.num * (window - 1) + x * average.den
      /\ average'.den = average.den * window
  BY <1>1, <1>2, <1>3, <1>4, AverageType DEF x
<1>6. /\ average.num \in Int /\ average.den \in Nat \ {0}
  BY <1>3 DEF Fraction
<1>7. /\ temps \in Seq(Temps) /\ DOMAIN temps = 1..Len(temps) /\ Len(temps) \in Nat
      /\ Len(temps) = nread - 1
      /\ DOMAIN temps' = 1..(Len(temps) + 1)
      /\ temps'[Len(temps) + 1] = x
      /\ \A i \in DOMAIN temps : temps'[i] = temps[i]
  BY <1>1, <1>2 DEF IInv, TypeOK, x
<1>8. average' # NotFinite
  BY <1>5 DEF Fraction, NotFinite
<1>9. CASE temps = <<>>
  <2>1. window = 1 /\ Len(temps) = 0
    BY <1>4, <1>7, <1>9 DEF IInv, TypeOK
  <2>2. average'.num = x * average'.den
    BY SMT, <1>2, <1>5, <1>6, <2>1
  <2>3. 1 \in DOMAIN temps' /\ temps'[1] = x
    BY <1>7, <2>1
  <2>4. x * average'.den \in Int
    BY SMT, <1>2, <1>5 DEF Fraction
  <2>5. QED
    BY <1>5, <1>8, <2>2, <2>3, <2>4 DEF AverageIsBounded
<1>10. CASE temps # <<>>
  <2>1. PICK i \in DOMAIN temps : temps[i] * average.den <= average.num
    BY <1>3, <1>10 DEF IInv, AverageIsBounded
  <2>2. PICK j \in DOMAIN temps : average.num <= temps[j] * average.den
    BY <1>3, <1>10 DEF IInv, AverageIsBounded
  <2>3. temps[i] \in Int /\ temps[j] \in Int
    <3>1. temps[i] \in Temps /\ temps[j] \in Temps
      BY <1>7, <2>1, <2>2
    <3>2. QED
      BY <3>1, TempsAreNumbers
  <2>4. \E k \in DOMAIN temps' : temps'[k] * average'.den <= average'.num
    <3>1. CASE temps[i] <= x
      <4>1. temps[i] * (average.den * window)
              <= average.num * (window - 1) + x * average.den
        BY ONLY NotBelow, <1>2, <1>4, <1>6, <2>1, <2>3, <3>1
      <4>2. i \in DOMAIN temps' /\ temps'[i] = temps[i]
        BY <1>7, <2>1
      <4>3. QED
        BY <1>5, <4>1, <4>2
    <3>2. CASE x < temps[i]
      <4>1. x * average.den <= average.num
        <5>1. x * average.den <= temps[i] * average.den
          BY SMT, <1>2, <1>6, <2>3, <3>2
        <5>2. QED
          BY SMT, <1>2, <1>6, <2>1, <2>3, <5>1
      <4>2. x * (average.den * window)
              <= average.num * (window - 1) + x * average.den
        BY SMT, <1>2, <1>4, <1>6, <4>1, NotBelow
      <4>3. Len(temps) + 1 \in DOMAIN temps' /\ temps'[Len(temps) + 1] = x
        BY <1>7
      <4>4. QED
        BY <1>5, <4>2, <4>3
    <3>3. QED
      BY <1>2, <2>3, <3>1, <3>2
  <2>5. \E k \in DOMAIN temps' : average'.num <= temps'[k] * average'.den
    <3>1. CASE x <= temps[j]
      <4>1. average.num * (window - 1) + x * average.den
              <= temps[j] * (average.den * window)
        BY ONLY NotAbove, <1>2, <1>4, <1>6, <2>2, <2>3, <3>1
      <4>2. j \in DOMAIN temps' /\ temps'[j] = temps[j]
        BY <1>7, <2>2
      <4>3. QED
        BY <1>5, <4>1, <4>2
    <3>2. CASE temps[j] < x
      <4>1. average.num <= x * average.den
        <5>1. temps[j] * average.den <= x * average.den
          BY SMT, <1>2, <1>6, <2>3, <3>2
        <5>2. QED
          BY SMT, <1>2, <1>6, <2>2, <2>3, <5>1
      <4>2. average.num * (window - 1) + x * average.den
              <= x * (average.den * window)
        <5>1. x <= x
          BY <1>2
        <5>2. x \in Int /\ window \in Nat \ {0}
          BY <1>2, <1>4
        <5>3. QED
          BY ONLY NotAbove, <1>6, <4>1, <5>1, <5>2, Zenon
      <4>3. Len(temps) + 1 \in DOMAIN temps' /\ temps'[Len(temps) + 1] = x
        BY <1>7
      <4>4. QED
        BY <1>5, <4>2, <4>3
    <3>3. QED
      BY <1>2, <2>3, <3>1, <3>2
  <2>6. QED
    BY <1>5, <1>8, <2>4, <2>5 DEF AverageIsBounded
<1>11. QED
  BY <1>9, <1>10

LEMMA RoundKeepsTypes ==
  ASSUME TypeOK, Round
  PROVE  TypeOK'
<1>1. PICK reading \in Readings :
        /\ average' = get_moving_average(average, compensate_temperature(reading), window)
        /\ temps' = Append(temps, compensate_temperature(reading))
  BY DEF Round
<1>2. compensate_temperature(reading) \in Temps /\ compensate_temperature(reading) \in Int
  BY Compensated
<1>3. window \in Nat
  BY WindowsAssumption DEF TypeOK, window
<1>4. average' \in Fraction \cup {NotFinite}
  BY <1>1, <1>2, <1>3, AverageType DEF TypeOK
<1>5. temps' \in Seq(Temps) /\ Len(temps') = nread' - 1
  BY <1>1, <1>2 DEF TypeOK, Round
<1>6. QED
  BY <1>4, <1>5, MaxRoundsAssumption DEF TypeOK, Round

LEMMA NextKeepsIInv == IInv /\ [Next]_vars => IInv'
<1> SUFFICES ASSUME IInv, [Next]_vars PROVE IInv'
  OBVIOUS
<1>1. CASE Reload
  BY <1>1 DEF Reload, IInv, TypeOK, AverageIsBounded
<1>2. CASE Round
  BY <1>2, RoundKeepsBounds, RoundKeepsTypes DEF IInv
<1>3. CASE UNCHANGED vars
  BY <1>3 DEF vars, IInv, TypeOK, AverageIsBounded
<1>4. QED
  BY <1>1, <1>2, <1>3 DEF Next

LEMMA Inductive == Spec => []IInv
BY InitIInv, NextKeepsIInv, PTL DEF Spec

(* Every state is well typed: in particular every line is a temperature    *)
(* of the compensation's range.                                            *)
THEOREM TypeCorrect == Spec => []TypeOK
<1>1. IInv => TypeOK
  BY DEF IInv
<1>2. QED
  BY <1>1, Inductive, PTL

(* A line stays between the lowest and the highest temperature measured,   *)
(* for any windows and whatever the variable held at first.                *)
THEOREM Bounds == Spec => []AverageIsBounded
<1>1. IInv => AverageIsBounded
  BY DEF IInv
<1>2. QED
  BY <1>1, Inductive, PTL

-----------------------------------------------------------------------------
(* Induction over a set of numbers, in place of a predicate: a number that *)
(* is missing would have a least one.                                      *)
LEMMA Induction ==
  ASSUME NEW S, 0 \in S, \A n \in Nat : n \in S => n + 1 \in S
  PROVE  \A n \in Nat : n \in S
<1> DEFINE T == Nat \ S
<1>1. SUFFICES ASSUME T # {} PROVE FALSE
  OBVIOUS
<1>2. \E x \in T : \A y \in T : ~(<<y, x>> \in OpToRel(<, Nat))
  BY <1>1, NatLessThanWellFounded, WFMin
<1>3. PICK x \in T : \A y \in T : ~(<<y, x>> \in OpToRel(<, Nat))
  BY <1>2
<1>4. \A y \in T : ~(y < x)
  BY <1>3 DEF OpToRel
<1>5. x \in Nat /\ x # 0 /\ x \notin S
  OBVIOUS
<1>6. x - 1 \in Nat /\ x - 1 < x /\ (x - 1) + 1 = x
  BY <1>5
<1>7. x - 1 \in S
  BY <1>4, <1>6
<1>8. QED
  BY <1>5, <1>6, <1>7

(* Sums is the function its recursion describes: one that does so exists,  *)
(* by induction on how far it is defined.                                  *)
LEMMA SumsDef ==
  ASSUME NEW s \in Seq(Int)
  PROVE  /\ Sums(s) \in [0..Len(s) -> Int]
         /\ Sums(s)[0] = 0
         /\ \A i \in 1..Len(s) : Sums(s)[i] = Sums(s)[i - 1] + s[i]
<1> DEFINE P(m) == \E g \in [0..m -> Int] :
                     g[0] = 0 /\ \A i \in 1..m : g[i] = g[i - 1] + s[i]
<1> DEFINE S == {m \in Nat : m <= Len(s) => P(m)}
<1>0. Len(s) \in Nat /\ \A i \in 1..Len(s) : s[i] \in Int
  OBVIOUS
<1> HIDE DEF P
<1>1. 0 \in S
  <2> DEFINE z == [i \in 0..0 |-> 0]
  <2>1. z \in [0..0 -> Int] /\ z[0] = 0 /\ \A i \in 1..0 : z[i] = z[i - 1] + s[i]
    OBVIOUS
  <2>2. P(0)
    BY <2>1 DEF P
  <2>3. QED
    BY <2>2
<1>2. ASSUME NEW m \in Nat, m \in S
      PROVE  m + 1 \in S
  <2>1. SUFFICES ASSUME m + 1 <= Len(s) PROVE P(m + 1)
    OBVIOUS
  <2>2. P(m)
    BY <1>2, <2>1, <1>0
  <2>3. PICK g \in [0..m -> Int] :
           g[0] = 0 /\ \A i \in 1..m : g[i] = g[i - 1] + s[i]
    BY <2>2 DEF P
  <2> DEFINE h == [i \in 0..(m + 1) |-> IF i <= m THEN g[i] ELSE g[m] + s[m + 1]]
  <2>4. h \in [0..(m + 1) -> Int]
    BY <2>1, <2>3, <1>0
  <2>5. h[0] = 0 /\ \A i \in 1..(m + 1) : h[i] = h[i - 1] + s[i]
    BY <2>1, <2>3, <1>0
  <2> HIDE DEF h
  <2>6. QED
    BY <2>4, <2>5 DEF P
<1>3. P(Len(s))
  <2>1. \A n \in Nat : n \in S
    BY <1>1, <1>2, Induction
  <2>2. QED
    BY <2>1, <1>0
<1> DEFINE F(g) == [i \in 0..Len(s) |-> IF i = 0 THEN 0 ELSE g[i - 1] + s[i]]
<1>4. \E g : g = F(g)
  <2>1. PICK g \in [0..Len(s) -> Int] :
           g[0] = 0 /\ \A i \in 1..Len(s) : g[i] = g[i - 1] + s[i]
    BY <1>3 DEF P
  <2>2. g = F(g)
    BY <2>1, <1>0
  <2>3. QED
    BY <2>2
<1>5. Sums(s) = F(Sums(s))
  BY <1>4, Zenon DEF Sums
<1>6. DOMAIN Sums(s) = 0..Len(s) /\ Sums(s)[0] = 0
      /\ \A i \in 1..Len(s) : Sums(s)[i] = Sums(s)[i - 1] + s[i]
  BY <1>5, <1>0
<1> DEFINE R == {m \in Nat : m <= Len(s) => Sums(s)[m] \in Int}
<1>7. ASSUME NEW m \in Nat, m \in R
      PROVE  m + 1 \in R
  <2>1. m + 1 \in 1..Len(s) => Sums(s)[m + 1] = Sums(s)[m] + s[m + 1]
    BY <1>6, <1>0
  <2>2. QED
    BY <1>7, <2>1, <1>0
<1>8. \A m \in Nat : m \in R
  <2>1. 0 \in R
    BY <1>6
  <2>2. QED
    BY <1>7, <2>1, Induction
<1>9. \A m \in 0..Len(s) : Sums(s)[m] \in Int
  BY <1>8, <1>0
<1>10. QED
  BY <1>5, <1>6, <1>9

(* The sum of a longer sequence.                                           *)
LEMMA SumsAppend ==
  ASSUME NEW s \in Seq(Int), NEW x \in Int
  PROVE  Sums(Append(s, x))[Len(s) + 1] = Sums(s)[Len(s)] + x
<1> DEFINE t == Append(s, x)
           R == {m \in Nat : m <= Len(s) => Sums(t)[m] = Sums(s)[m]}
<1>1. /\ t \in Seq(Int) /\ Len(t) = Len(s) + 1 /\ t[Len(s) + 1] = x
      /\ Len(s) \in Nat /\ \A i \in 1..Len(s) : t[i] = s[i]
  OBVIOUS
<1> HIDE DEF t
<1>2. Sums(t)[0] = Sums(s)[0]
  BY <1>1, SumsDef
<1>3. ASSUME NEW m \in Nat, m \in R
      PROVE  m + 1 \in R
  <2>1. SUFFICES ASSUME m + 1 <= Len(s) PROVE Sums(t)[m + 1] = Sums(s)[m + 1]
    OBVIOUS
  <2>2. m + 1 \in 1..Len(s) /\ m + 1 \in 1..Len(t) /\ (m + 1) - 1 = m
    BY <1>1, <2>1
  <2>3. Sums(t)[m + 1] = Sums(t)[m] + t[m + 1] /\ Sums(s)[m + 1] = Sums(s)[m] + s[m + 1]
    BY <1>1, <2>2, SumsDef
  <2>4. QED
    BY <1>1, <1>3, <2>1, <2>2, <2>3
<1>4. \A m \in Nat : m \in R
  <2>1. 0 \in R
    BY <1>2
  <2>2. QED
    BY <1>3, <2>1, Induction
<1>5. Len(s) + 1 \in 1..Len(t) /\ (Len(s) + 1) - 1 = Len(s)
  BY <1>1
<1>6. Sums(t)[Len(s) + 1] = Sums(t)[Len(s)] + t[Len(s) + 1]
  BY <1>1, <1>5, SumsDef
<1>7. QED
  BY <1>1, <1>4, <1>6 DEF t

(* While the window fills the average is the sum over the number, from the *)
(* start on: the leftover has the weight zero.                             *)
MeanIsSum ==
  ~spoilt /\ filling =>
    average.num * Len(temps) = average.den * Sums(temps)[Len(temps)]

(* The arithmetic of one round with a window of k.                         *)
LEMMA MeanStep ==
  ASSUME NEW num \in Int, NEW den \in Int, NEW k \in Int, NEW x \in Int,
         NEW sum \in Int, num * (k - 1) = den * sum
  PROVE  (num * (k - 1) + x * den) * k = (den * k) * (sum + x)
<1>1. num * (k - 1) + x * den = den * (sum + x)
  <2>1. x * den = den * x /\ den * sum + den * x = den * (sum + x)
    OBVIOUS
  <2>2. QED
    BY <2>1
<1>2. (den * (sum + x)) * k = (den * k) * (sum + x)
  <2> DEFINE y == sum + x
  <2>1. y \in Int
    OBVIOUS
  <2> HIDE DEF y
  <2>2. (den * y) * k = (den * k) * y
    BY <2>1
  <2>3. QED
    BY <2>2 DEF y
<1>3. QED
  BY <1>1, <1>2

LEMMA RoundKeepsMean ==
  ASSUME IInv, MeanIsSum, Round
  PROVE  MeanIsSum'
<1> SUFFICES ASSUME ~spoilt', filling'
             PROVE  average'.num * Len(temps') = average'.den * Sums(temps')[Len(temps')]
  BY DEF MeanIsSum
<1>1. PICK reading \in Readings :
        /\ average' = get_moving_average(average, compensate_temperature(reading), window)
        /\ temps' = Append(temps, compensate_temperature(reading))
  BY DEF Round
<1> DEFINE x == compensate_temperature(reading)
           k == nread
           sum == Sums(temps)[Len(temps)]
<1>2. x \in Int
  BY Compensated
<1> HIDE DEF x
<1>3. ~spoilt /\ filling /\ samples # 0 /\ nread <= samples
  BY DEF Round
<1>4. /\ samples \in Nat /\ nread \in Nat /\ nread > 0 /\ temps \in Seq(Int)
      /\ Len(temps) \in Nat /\ Len(temps) = k - 1
  <2>1. samples \in Nat /\ nread \in Nat /\ nread > 0
    BY WindowsAssumption, MaxRoundsAssumption DEF IInv, TypeOK
  <2>2. temps \in Seq(Temps) /\ Len(temps) = nread - 1
    BY DEF IInv, TypeOK
  <2>3. temps \in Seq(Int)
    BY <2>2, TempsAreNumbers, SeqMonotonic
  <2>4. QED
    BY <2>1, <2>2, <2>3
<1>5. window = k
  BY <1>3, <1>4 DEF window
<1>6. average \in Fraction /\ average # NotFinite
  BY <1>3 DEF IInv, Fraction, NotFinite
<1>7. average.num \in Int /\ average.den \in Int
  BY <1>6 DEF Fraction
<1>8. average' = [num |-> average.num * (k - 1) + x * average.den,
                  den |-> average.den * k]
  BY <1>1, <1>4, <1>5, <1>6 DEF get_moving_average, x
<1>9. sum \in Int
  BY <1>4, SumsDef
<1>10. Len(temps') = k /\ Sums(temps')[k] = sum + x
  <2>1. temps' = Append(temps, x) /\ Len(temps') = Len(temps) + 1
    BY <1>1, <1>4 DEF x
  <2>2. QED
    BY <2>1, <1>2, <1>4, SumsAppend
<1>11. average.num * (k - 1) = average.den * sum
  BY <1>3, <1>4 DEF MeanIsSum
<1> HIDE DEF sum, k
<1>12. k \in Int
  BY <1>4 DEF k
<1>13. (average.num * (k - 1) + x * average.den) * k = (average.den * k) * (sum + x)
  BY <1>2, <1>7, <1>9, <1>11, <1>12, MeanStep
<1>14. QED
  BY <1>8, <1>10, <1>13

(* The average is the mean of what was measured while the window fills,    *)
(* for any number of rounds.                                               *)
THEOREM Mean == Spec => []MeanWhileFilling
<1>1. Init => MeanIsSum
  <2> SUFFICES ASSUME Init PROVE MeanIsSum
    OBVIOUS
  <2>1. temps = <<>> /\ <<>> \in Seq(Int) /\ Len(<<>>) = 0
    BY DEF Init
  <2>2. Sums(temps)[0] = 0
    BY <2>1, SumsDef
  <2>3. ~spoilt => average \in Fraction
    BY LeftoversAssumption DEF Init
  <2>4. QED
    BY <2>1, <2>2, <2>3 DEF MeanIsSum, Fraction
<1>2. IInv /\ MeanIsSum /\ [Next]_vars => MeanIsSum'
  BY RoundKeepsMean DEF Next, Reload, vars, MeanIsSum
<1>3. MeanIsSum => MeanWhileFilling
  BY DEF MeanIsSum, MeanWhileFilling
<1>4. QED
  BY <1>1, <1>2, <1>3, Inductive, PTL DEF Spec

=============================================================================
