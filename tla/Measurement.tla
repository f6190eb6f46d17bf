---------------------------- MODULE Measurement ----------------------------
(***************************************************************************)
(* From a reading of the sensor to a line of ./sup/data.dat: the driver    *)
(* process compensates the reading (bmp_280.c) and the plot process folds  *)
(* it into a moving average (plot_handler.c), over a number of samples     *)
(* that starts at one and grows to the samples of the configuration.       *)
(*                                                                         *)
(* Temperatures are in hundredths of a degree.  The average is an exact    *)
(* fraction: the rounding of float is left out.  SamplePipeline shows how  *)
(* a temperature gets from one process to the other.                       *)
(***************************************************************************)
EXTENDS Integers, Sequences

(* A value of moving_average.  NotFinite is an infinity or no number at    *)
(* all, from which no subtraction and no addition leads back.              *)
Fraction == [num : Int, den : Nat \ {0}]
NotFinite == [num |-> 0, den |-> 0]

(* What _read_bmp280_temp returns: raw_temp, which is never assigned, or   *)
(* EXIT_FAILURE if the device does not open.                               *)
read_bmp280_temp == {0, 1}

CONSTANTS
  Readings,   (* these, and what a reader that assigned it might return    *)
  Windows,    (* values of samples in ./sup/file.cfg                       *)
  Leftovers,  (* numbers an uninitialised variable may hold                *)
  PtrBytes,   (* sizeof of a pointer: 4 on the board, 8 on a PC            *)
  MaxRounds   (* bound of the model: rounds of the plot process            *)

ASSUME ReadingsAssumption ==
  /\ read_bmp280_temp \subseteq Readings
  /\ \A r \in Readings : r \in Nat /\ r < 16777216
ASSUME WindowsAssumption == Windows \subseteq Nat
ASSUME LeftoversAssumption == Leftovers \subseteq Fraction
ASSUME PtrBytesAssumption == PtrBytes \in {4, 8}
ASSUME MaxRoundsAssumption == MaxRounds \in Nat

VARIABLES
  samples,   (* ctx->samples of the plot process                           *)
  nread,     (* its number of the next sample                              *)
  average,   (* moving_average                                             *)
  temps,     (* the temperatures it took, in order (history)               *)
  filling,   (* no window was smaller than what it had read (history)      *)
  spoilt     (* moving_average started as no number, or a window was zero  *)
             (* (history)                                                  *)

vars == <<samples, nread, average, temps, filling, spoilt>>

-----------------------------------------------------------------------------
(* Compensation.  x >> n is x \div 2^n, rounded down for negative x too.   *)
(* MeasurementProofs shows that 32 bits hold every intermediate result.    *)
dig_T1 == 27641
dig_T2 == 25684
dig_T3 == 50

var1(adc_T) == ((adc_T \div 8 - dig_T1 * 2) * dig_T2) \div 2048

var2(adc_T) ==
  LET d == adc_T \div 16 - dig_T1
  IN  (((d * d) \div 4096) * dig_T3) \div 16384

(* Defect: the fine temperature, in 1/5120 degree, is returned.            *)
compensate_temperature_fine(raw_temp) ==
  var1(raw_temp \div 16) + var2(raw_temp \div 16)

compensate_temperature(raw_temp) ==
  LET adc_T == raw_temp \div 16
      t_fine == var1(adc_T) + var2(adc_T)
  IN  (t_fine * 5 + 128) \div 256

(* From -135 to 186 degrees.                                               *)
Coldest == -13541
Hottest == 18585
Temps == Coldest..Hottest

-----------------------------------------------------------------------------
(* Defect: the new value is added before the share of the old is removed.  *)
get_moving_average_swapped(avg, input, n) ==
  IF avg = NotFinite \/ n = 0
    THEN NotFinite
    ELSE [num |-> (avg.num * n + input * avg.den) * (n - 1), den |-> avg.den * n * n]

(* avg - avg / n + input / n.  A window of zero divides by zero.           *)
get_moving_average(avg, input, n) ==
  IF avg = NotFinite \/ n = 0
    THEN NotFinite
    ELSE [num |-> avg.num * (n - 1) + input * avg.den, den |-> avg.den * n]

(* moving_average is not initialised: any number, or none.                 *)
Init ==
  /\ samples \in Windows
  /\ nread = 1
  /\ average \in Leftovers \cup {NotFinite}
  /\ temps = <<>>
  /\ filling = TRUE
  /\ spoilt = (average = NotFinite)

(* update_ctx_from_file: a message carries samples where pointers have     *)
(* eight bytes (see ConfigReload).                                         *)
Reload ==
  /\ PtrBytes = 8
  /\ samples' \in Windows
  /\ UNCHANGED <<nread, average, temps, filling, spoilt>>

(* Defect: the window is the configured one from the first sample on.      *)
window_full == samples

window == IF nread < samples THEN nread ELSE samples

Round ==
  /\ nread <= MaxRounds
  /\ \E reading \in Readings :
       LET current_temp == compensate_temperature(reading)
       IN  /\ average' = get_moving_average(average, current_temp, window)
           /\ temps' = Append(temps, current_temp)
  /\ nread' = nread + 1
  /\ filling' = (filling /\ nread <= samples)
  /\ spoilt' = (spoilt \/ samples = 0)
  /\ UNCHANGED samples

Next == Reload \/ Round

Spec == Init /\ [][Next]_vars

-----------------------------------------------------------------------------
TypeOK ==
  /\ samples \in Windows
  /\ nread \in 1..(MaxRounds + 1)
  /\ average \in Fraction \cup {NotFinite}
  /\ temps \in Seq(Temps) /\ Len(temps) = nread - 1
  /\ filling \in BOOLEAN
  /\ spoilt \in BOOLEAN

(* A line shows a number between the lowest and the highest temperature    *)
(* measured so far, whatever moving_average held at the start and however  *)
(* the window was changed (plot_handler.c 74-79, 144-146).  What spoils it *)
(* is a window of zero, or a start that was no number.                     *)
AverageIsBounded ==
  temps # <<>> /\ ~spoilt =>
    /\ average # NotFinite
    /\ \E i \in DOMAIN temps : temps[i] * average.den <= average.num
    /\ \E i \in DOMAIN temps : average.num <= temps[i] * average.den

(* The sum of the first i numbers of a sequence, for each i.               *)
Sums(s) ==
  LET sum[i \in 0..Len(s)] == IF i = 0 THEN 0 ELSE sum[i - 1] + s[i]
  IN  sum

(* While no more samples were taken than the window has, the average is    *)
(* the mean of all of them: each weighs the same and nothing is left of    *)
(* the uninitialised start.                                                *)
MeanWhileFilling ==
  temps # <<>> /\ ~spoilt /\ filling =>
    average.num * Len(temps) = average.den * Sums(temps)[Len(temps)]

=============================================================================
