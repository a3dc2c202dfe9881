----------------------------- MODULE TimersProofs -----------------------------
(***************************************************************************)
(* Proofs about the clients of the tick counter, for all frequencies, bus  *)
(* rates and arguments: how early a sleep may end, how far a calibration   *)
(* may be off, and that set_frequency programs the rate it was asked for.  *)
(***************************************************************************)
EXTENDS Timers, WellFoundedInduction, TLAPS

\* The provers of the leaves that name none.
USE SMTT(30), ZenonT(30)

-----------------------------------------------------------------------------
(* Arithmetic. *)

\* Products grow with their factors.
LEMMA MulLe ==
  ASSUME NEW x \in Int, NEW y \in Int, NEW z \in Nat, x <= y
  PROVE  x * z <= y * z
OBVIOUS

\* And it keeps a strict one.
LEMMA MulLt ==
  ASSUME NEW x \in Int, NEW y \in Int, NEW z \in Nat, z > 0, x < y
  PROVE  x * z < y * z
OBVIOUS

\* A positive factor can be dropped from a comparison.
LEMMA MulCancel ==
  ASSUME NEW x \in Int, NEW y \in Int, NEW z \in Nat, x * z < y * z
  PROVE  x < y
<1>1. CASE y <= x
  BY <1>1, MulLe
<1> QED  BY <1>1

\* The result of a division of u32 or u64 values.
LEMMA Quotient ==
  ASSUME NEW x \in Nat, NEW y \in Nat, y > 0
  PROVE  /\ x \div y \in Nat
         /\ (x \div y) * y <= x /\ x < ((x \div y) + 1) * y
<1> DEFINE q == x \div y
<1>1. q \in Int /\ x % y \in 0 .. y - 1 /\ x = y * q + (x % y)
  OBVIOUS
<1>2. q >= 0
  <2> SUFFICES ASSUME q <= -1 PROVE FALSE
    BY <1>1
  <2> HIDE DEF q
  <2>1. q * y <= (-1) * y
    BY <1>1, MulLe
  <2> QED  BY <1>1, <2>1
<1> HIDE DEF q
<1>3. q * y <= x /\ x < (q + 1) * y
  BY <1>1
<1> QED  BY <1>1, <1>2, <1>3 DEF q

\* A quotient of an exact multiple.
LEMMA QuotientExact ==
  ASSUME NEW x \in Nat, NEW y \in Nat, y > 0
  PROVE  (x * y) \div y = x
<1> DEFINE q == (x * y) \div y
<1>1. x * y \in Nat
  OBVIOUS
<1>2. q \in Nat /\ q * y <= x * y /\ x * y < (q + 1) * y
  BY <1>1, Quotient
<1> HIDE DEF q
<1>3. x < q + 1
  BY <1>2, MulCancel
<1>4. CASE q > x
  <2>1. x * y < q * y
    BY <1>2, <1>4, MulLt
  <2> QED  BY <1>1, <1>2, <2>1
<1>5. q = x
  BY <1>2, <1>3, <1>4
<1> QED  BY <1>5 DEF q

\* What the constants are.
LEMMA Constants ==
  /\ TickLen \in Nat /\ TickLen > 0 /\ Freq \in Nat /\ Freq > 0 /\ MilliPerSec = Freq
  /\ MicroPerSec \in Nat /\ MicroPerSec > 0
  /\ TickedSecond = TickLen * Freq
  /\ CalibrationTicks \in Nat /\ CalibrationTicks > 0 /\ CalibrationTicks <= Freq
  /\ Lag \in Nat /\ Lag < TickLen
  /\ W32 \in Nat /\ W32 > 0 /\ MaxTicks \in Nat
  /\ MaxElapsed \in Nat /\ MaxElapsed = MaxTicks * TickLen
<1>1. /\ Freq \in Nat /\ Freq > 0 /\ MilliPerSec = Freq
      /\ MicroPerSec \in Nat /\ MicroPerSec > 0 /\ PitFreq \in Nat
      /\ CalibrationTicks \in Nat /\ CalibrationTicks > 0 /\ CalibrationTicks <= Freq
      /\ Lag \in Nat /\ Lag < TickLen
      /\ W32 \in Nat /\ W32 > 0 /\ MaxTicks \in Nat
  BY TimersAssumption
<1>2. TickLen \in Nat
  BY <1>1, Quotient DEF TickLen
<1>3. TickLen > 0
  BY <1>1, <1>2
<1>4. TickedSecond = TickLen * Freq
  BY <1>1 DEF TickedSecond, TickLen
<1>5. MaxElapsed \in Nat
  BY <1>1, <1>2 DEF MaxElapsed
<1> QED  BY <1>1, <1>2, <1>3, <1>4, <1>5 DEF MaxElapsed

-----------------------------------------------------------------------------
(* The inductive invariant. *)

PCs == {"idle", "check", "hlt", "halted", "returned", "arm", "cal_start", "cal_ticks", "spin", "cal_done"}
Lvts == [vector : Nat, mode : Modes \cup {"one_shot", "periodic"}, masked : BOOLEAN]
Cals == [start : Nat, end : Nat, ticks : Nat, lvt : Lvts, startAge : Nat, endAge : Nat]

\* The types.
TimersType ==
  /\ phase \in 0 .. TickLen - 1 /\ pending \in BOOLEAN /\ ticks \in Nat
  /\ active \in BOOLEAN /\ pc \in PCs
  /\ call \in [op : {"none", "init", "sleep_ms", "sleep_us"}, arg : Nat]
  /\ target \in Nat /\ elapsed \in Nat
  /\ lvt \in Lvts /\ divider \in Nat /\ initial \in Nat /\ age \in Nat
  /\ apicFreq \in Nat /\ hz \in Nat
  /\ cal \in Cals
  /\ rate \in BusRates

\* The edges of the timer line that were not lost.
Edges == IF pending THEN ticks + 1 ELSE ticks

\* The ticks a sleep asked for, and the time from the edge before tick t on
\* to phase p after edge e.
Asked == SleepTicks(call.op, call.arg)
Lapse(e, t, p) == (e - t) * TickLen + p

\* A sleep with an active timer: the ticks counted since it began take at
\* least their time, but for the part of a tick before it began.
SleepInv ==
  /\ pc \in {"check", "hlt", "halted"} => call.op \in {"sleep_ms", "sleep_us"}
  /\ pc = "returned" => call.op # "none"
  /\ pc \in {"check", "hlt", "halted", "returned"} /\ call.op # "init" /\ active =>
       /\ target - Asked \in Nat /\ target <= MaxTicks
       /\ elapsed = MaxElapsed \/ Lapse(Edges, target - Asked, phase) < elapsed + TickLen
       /\ pc = "returned" => ticks >= target

\* The calibration: no edge is lost, so that from the first read of the count
\* on the ticks account for the age up to a tick and a Lag, and the loop is
\* left within a Lag of the edge it waits for.
CalInv ==
  /\ pc = "arm" \/ Calibrating => hz = 0 /\ call.op = "init"
  /\ Calibrating => initial = W32 - 1
  /\ pc = "cal_start" => age <= Lag
  /\ pc \in {"cal_ticks", "spin", "cal_done"} =>
       cal.startAge <= Lag /\ cal.start = W32 - 1 - rate * cal.startAge
  /\ pc = "cal_ticks" => cal.startAge <= age /\ age <= cal.startAge + Lag
  /\ pc \in {"spin", "cal_done"} =>
       /\ target = cal.ticks + CalibrationTicks
       /\ Lapse(Edges, cal.ticks, phase) < age - cal.startAge + TickLen
  /\ pc = "spin" =>
       /\ cal.startAge <= age /\ age <= Lapse(Edges, cal.ticks, phase) + cal.startAge + Lag
       /\ Edges <= target /\ (Edges = target => phase <= Lag)
  /\ pc = "cal_done" =>
       /\ ticks >= target /\ age <= cal.endAge + Lag
       /\ cal.startAge <= cal.endAge
       /\ cal.endAge <= cal.startAge + CalibrationTicks * TickLen + 2 * Lag
       /\ cal.end = W32 - 1 - rate * cal.endAge

TimersInv == TimersType /\ SleepInv /\ CalInv /\ CalibrationClose /\ ProgrammedRate

-----------------------------------------------------------------------------
(* The calibration and the divider search, as arithmetic. *)

\* apic_ticks * 1000 / actual_pit_ticks, for k * g counts over e >= c ticks of
\* length l that account for the time g up to l and two lags of d.
LEMMA CalibrationResult ==
  ASSUME NEW k \in Nat, NEW l \in Nat, NEW c \in Nat, c > 0, NEW d \in Nat,
         NEW e \in Nat, e >= c, NEW g \in Nat, g <= c * l + 2 * d, e * l < g + l + d
  PROVE  /\ ((k * g) \div e) \in Nat
         /\ ((k * g) \div e) * c <= (k * l) * c + k * 2 * d
         /\ (((k * g) \div e) + 1) * c > (k * l) * (c - 1) - k * d
<1> DEFINE x == k * g
           a == x \div e
<1>1. x \in Nat /\ e > 0
  OBVIOUS
<1>2. a \in Nat /\ a * e <= x /\ x < (a + 1) * e
  <2> HIDE DEF x
  <2> QED  BY <1>1, Quotient
<1> HIDE DEF a
<1>3. a * c <= (k * l) * c + k * 2 * d
  <2>1. a * c <= a * e
    <3>1. c * a <= e * a
      BY <1>2, MulLe
    <3>2. c * a = a * c /\ e * a = a * e
      BY <1>2
    <3> QED  BY <3>1, <3>2
  <2>2. g * k <= (c * l + 2 * d) * k
    <3>1. c * l + 2 * d \in Int
      OBVIOUS
    <3> QED  BY <3>1, MulLe
  <2>3. (c * l + 2 * d) * k = (k * l) * c + k * 2 * d /\ g * k = x
    OBVIOUS
  <2>4. a * c \in Int /\ a * e \in Int /\ (k * l) * c + k * 2 * d \in Int
    BY <1>2
  <2> HIDE DEF x
  <2> QED  BY <1>1, <1>2, <2>1, <2>2, <2>3, <2>4
<1>4. (a + 1) * c > (k * l) * (c - 1) - k * d
  <2> DEFINE r == l + d
             u == (a + 1) * c
             v == k * (c * l - r)
             w == k * (e * l - r)
             y == (a + 1) * e
  <2>1. v = (k * l) * (c - 1) - k * d
    OBVIOUS
  <2>2. u \in Int /\ v \in Int /\ w \in Int /\ y \in Int
    BY <1>2
  <2>3. w < y
    <3>1. e * l - r < g /\ e * l - r \in Int
      OBVIOUS
    <3>2. (e * l - r) * k <= g * k
      BY <3>1, MulLe
    <3>3. (e * l - r) * k = w /\ g * k = x
      OBVIOUS
    <3> HIDE DEF x, y, w
    <3> QED  BY <1>1, <1>2, <2>2, <3>2, <3>3 DEF y
  <2>4. u * e = y * c
    BY <1>2
  <2>5. v * e <= w * c
    <3> DEFINE m == k * r
    <3>1. v * e = (k * c * l) * e - e * m /\ w * c = (k * c * l) * e - c * m
      OBVIOUS
    <3>2. m \in Nat /\ (k * c * l) * e \in Int
      OBVIOUS
    <3> HIDE DEF m
    <3>3. c * m <= e * m
      BY <3>2, MulLe
    <3>4. c * m \in Int /\ e * m \in Int
      BY <3>2
    <3> HIDE DEF v, w
    <3> QED  BY <3>1, <3>2, <3>3, <3>4
  <2> HIDE DEF u, v, w, y
  <2>6. w * c < y * c
    BY <2>2, <2>3, MulLt
  <2>7. v * e < u * e
    <3>1. v * e \in Int /\ w * c \in Int /\ y * c \in Int
      BY <2>2
    <3> QED  BY <2>4, <2>5, <2>6, <3>1
  <2>8. v < u
    BY <2>2, <2>7, MulCancel
  <2> QED  BY <2>1, <2>8 DEF u
<1> QED  BY <1>2, <1>3, <1>4 DEF a, x

\* A frequency as close to the true one as CalibrationClose says fits the
\* 32-bit count with some divider.
LEMMA FrequencyFits ==
  ASSUME NEW a \in Nat, NEW r \in Nat, NEW d \in Nat,
         r * (CalibrationTicks * TickLen + 4 * Lag) < W32,
         Freq <= CalibrationTicks * d,
         a * CalibrationTicks <= (r * TickedSecond) * CalibrationTicks + r * MilliPerSec * 2 * Lag
  PROVE  a < W32 * d
<1> DEFINE c == CalibrationTicks
           l == TickLen
           f == Freq
           w == W32
           g == Lag
           m == r * (c * l + 2 * g)
<1>1. /\ c \in Nat /\ c > 0 /\ l \in Nat /\ f \in Nat /\ f > 0 /\ w \in Nat /\ g \in Nat
      /\ TickedSecond = l * f /\ MilliPerSec = f
  BY Constants
<1>2. /\ r * (c * l + 4 * g) < w /\ f <= c * d
      /\ a * c <= (r * (l * f)) * c + r * f * 2 * g
  BY <1>1
<1> HIDE DEF c, l, f, w, g
<1>3. m \in Nat /\ r * (c * l + 4 * g) = m + 2 * (r * g) /\ r * g \in Nat
  BY <1>1
<1>4. (r * (l * f)) * c + r * f * 2 * g = m * f
  BY <1>1
<1> HIDE DEF m
<1>5. m < w
  BY <1>1, <1>2, <1>3
<1>6. m * f < w * f
  BY <1>1, <1>3, <1>5, MulLt
<1>7. f * w <= (c * d) * w
  <2>1. c * d \in Int
    BY <1>1
  <2> QED  BY <1>1, <1>2, <2>1, MulLe
<1>8. w * f = f * w /\ (c * d) * w = (w * d) * c
  BY <1>1
<1>9. a * c < (w * d) * c
  <2>1. a * c \in Int /\ m * f \in Int /\ f * w \in Int /\ (w * d) * c \in Int
    BY <1>1, <1>3
  <2> QED  BY <1>2, <1>4, <1>6, <1>7, <1>8, <2>1
<1>10. a < w * d
  <2>1. w * d \in Int
    BY <1>1
  <2> QED  BY <1>1, <1>9, <2>1, MulCancel
<1> QED  BY <1>10 DEF w

\* A set of natural numbers that is not empty has a least element.
LEMMA LeastNumber ==
  ASSUME NEW T, T \subseteq Nat, T # {}
  PROVE  Min(T) \in T /\ \A k \in T : Min(T) <= k
<1> DEFINE R == OpToRel(<, Nat)
<1>1. IsWellFoundedOn(R, Nat)
  BY NatLessThanWellFounded, Zenon
<1>2. \A x, y \in Nat : y < x => <<y, x>> \in R
  BY DEF OpToRel
<1> HIDE DEF R
<1>3. PICK m \in T : \A k \in T : ~(<<k, m>> \in R)
  BY <1>1, WFMin, Zenon
<1>4. \A k \in T : k \in Nat /\ m \in Nat
  OBVIOUS
<1>5. \A k \in T : ~(k < m)
  BY <1>2, <1>3, <1>4, Zenon
<1>6. \A k \in T : m <= k
  BY <1>4, <1>5
<1>7. \E x \in T : \A k \in T : x <= k
  BY <1>6
<1> QED  BY <1>7, Zenon DEF Min

\* set_frequency finds a divider for a calibrated frequency, its 32-bit
\* product does not wrap, and the count gives the rate asked for.
LEMMA SetFrequencyRate ==
  ASSUME apicFreq \in Nat, rate \in BusRates, apicFreq # 0, CalibrationClose,
         NEW t \in Targets
  PROVE  /\ t \in Nat /\ DividerFor(t) \in Nat /\ CountFor(t) \in Nat
         /\ CountFor(t) * DividerFor(t) * t <= apicFreq
         /\ apicFreq < (CountFor(t) + 1) * DividerFor(t) * t
<1> DEFINE a == apicFreq
           q == a \div t
           Fit == Fitting(t)
<1>1. t \in Nat /\ t > 0 /\ rate \in Nat /\ W32 \in Nat /\ W32 > 0
  BY TimersAssumption
<1>2. q \in Nat /\ q * t <= a /\ a < (q + 1) * t
  BY <1>1, Quotient
<1>3. CASE q < W32
  <2>1. DividerFor(t) = 1 /\ CountFor(t) = q
    BY <1>3 DEF DividerFor, CountFor
  <2> HIDE DEF q
  <2>2. q * 1 * t = q * t /\ (q + 1) * 1 * t = (q + 1) * t
    BY <1>1, <1>2
  <2> QED  BY <1>1, <1>2, <2>1, <2>2
<1>4. CASE ~(q < W32)
  <2>1. PICK d0 \in Dividers : MilliPerSec <= CalibrationTicks * d0
    BY TimersAssumption
  <2>2. Dividers \subseteq Nat /\ \A d \in Dividers : d \in Nat /\ d > 0 /\ d * d <= W32
    BY TimersAssumption
  <2>3. a < W32 * d0
    <3>1. /\ rate * (CalibrationTicks * TickLen + 4 * Lag) < W32
          /\ Freq <= CalibrationTicks * d0
          /\ a * CalibrationTicks
               <= (rate * TickedSecond) * CalibrationTicks + rate * MilliPerSec * 2 * Lag
      BY <2>1, TimersAssumption DEF CalibrationClose, TickedFreq
    <3>2. a \in Nat /\ d0 \in Nat
      BY <2>2
    <3> HIDE DEF a
    <3> QED  BY <1>1, <3>1, <3>2, FrequencyFits
  <2>4. t < d0
    <3> HIDE DEF q
    <3>1. W32 * t <= q * t
      BY <1>1, <1>2, <1>4, MulLe
    <3>2. W32 * t \in Int /\ q * t \in Int /\ W32 * d0 \in Int
      BY <1>1, <1>2, <2>2
    <3>3. W32 * t < W32 * d0
      BY <1>2, <2>3, <3>1, <3>2
    <3>4. W32 * t = t * W32 /\ W32 * d0 = d0 * W32 /\ d0 \in Int
      BY <1>1, <2>2
    <3> QED  BY <1>1, <3>3, <3>4, MulCancel
  <2>5. ASSUME NEW d \in Dividers, d <= d0 PROVE (t * d) % W32 = t * d /\ t * d > 0
    <3>1. d \in Nat /\ d > 0 /\ d0 \in Nat /\ d0 > 0 /\ d0 * d0 <= W32
      BY <2>2
    <3>2. t * d < d0 * d
      BY <1>1, <2>4, <3>1, MulLt
    <3>3. d * d0 <= d0 * d0 /\ d * d0 = d0 * d
      BY <2>5, <3>1, MulLe
    <3>4. t * d > 0
      BY <1>1, <3>1
    <3> DEFINE x == t * d
    <3>5. x \in Nat /\ x < W32
      <4>1. x \in Nat /\ d0 * d \in Int /\ d0 * d0 \in Int
        BY <1>1, <3>1
      <4> QED  BY <1>1, <3>1, <3>2, <3>3, <4>1
    <3> HIDE DEF x
    <3>6. x % W32 = x
      BY <1>1, <3>5
    <3> QED  BY <3>4, <3>6 DEF x
  <2>6. Fit \subseteq Nat /\ Fit \subseteq Dividers
    BY <2>2, Zenon DEF Fitting
  <2>7. \A d \in Dividers : Counts(t)[d] = a \div (IF d = 1 THEN t ELSE (t * d) % W32)
    BY DEF Counts
  <2>8. ASSUME NEW d \in Dividers, d <= d0 PROVE Counts(t)[d] = a \div (t * d)
    <3>1. (t * d) % W32 = t * d
      BY <2>5, <2>8
    <3>2. t * 1 = t
      BY <1>1
    <3> QED  BY <2>7, <3>1, <3>2
  <2>9. d0 \in Fit
    <3> DEFINE y == t * d0
               c == a \div y
    <3>1. d0 \in Nat /\ d0 <= d0
      BY <2>2
    <3>2. y \in Nat /\ y > 0 /\ Counts(t)[d0] = c
      BY <1>1, <2>5, <2>8, <3>1
    <3>3. c \in Nat /\ c * y <= a
      <4> HIDE DEF y
      <4> QED  BY <3>2, Quotient
    <3>4. d0 <= y
      <4>1. 1 * d0 <= t * d0
        BY <1>1, <3>1, MulLe
      <4> QED  BY <3>1, <4>1
    <3> HIDE DEF y, c
    <3>5. d0 * W32 <= y * W32
      BY <1>1, <3>1, <3>2, <3>4, MulLe
    <3>6. c * y < W32 * y
      <4>1. c * y \in Int /\ d0 * W32 \in Int /\ y * W32 \in Int /\ W32 * d0 = d0 * W32
            /\ W32 * y = y * W32
        BY <1>1, <3>1, <3>2, <3>3
      <4> QED  BY <2>3, <3>3, <3>5, <4>1
    <3>7. c < W32
      BY <1>1, <3>2, <3>3, <3>6, MulCancel
    <3> QED  BY <3>2, <3>7 DEF Fitting
  <2> DEFINE m == Min(Fit)
             n == a \div (t * m)
  <2>10. m \in Fit /\ m <= d0 /\ m \in Dividers /\ m \in Nat
    <3> HIDE DEF Fit
    <3> QED  BY <2>6, <2>9, LeastNumber, Zenon
  <2>11. DividerFor(t) = m /\ CountFor(t) = n
    <3>1. Fitting(t) # {}
      BY <2>9
    <3>2. DividerFor(t) = m /\ CountFor(t) = Counts(t)[m]
      BY <1>4, <3>1 DEF DividerFor, CountFor
    <3> HIDE DEF m
    <3> QED  BY <2>8, <2>10, <3>2
  <2> HIDE DEF m
  <2>12. t * m \in Nat /\ t * m > 0
    BY <1>1, <2>5, <2>10
  <2>13. n \in Nat /\ n * (t * m) <= a /\ a < (n + 1) * (t * m)
    <3> DEFINE y == t * m
    <3>1. y \in Nat /\ y > 0
      BY <2>12
    <3> HIDE DEF y
    <3>2. (a \div y) \in Nat /\ (a \div y) * y <= a /\ a < ((a \div y) + 1) * y
      BY <3>1, Quotient
    <3> QED  BY <3>2 DEF y
  <2> HIDE DEF n
  <2>14. n * m * t = n * (t * m) /\ (n + 1) * m * t = (n + 1) * (t * m)
    BY <1>1, <2>10, <2>13
  <2> QED  BY <1>1, <2>10, <2>11, <2>13, <2>14
<1> QED  BY <1>3, <1>4

\* The calibration's wait is short: the count stays below 2^32.
LEMMA CountsFit ==
  ASSUME NEW r \in BusRates, NEW g \in Nat, g <= CalibrationTicks * TickLen + 4 * Lag
  PROVE  r * g \in Nat /\ r * g < W32
<1> DEFINE n == CalibrationTicks * TickLen + 4 * Lag
<1>1. r \in Nat /\ r * n < W32 /\ W32 \in Nat
  BY TimersAssumption
<1>2. n \in Nat
  BY Constants
<1> HIDE DEF n
<1>3. g * r <= n * r
  <2>1. g <= n
    BY DEF n
  <2> QED  BY <1>1, <1>2, <2>1, MulLe
<1>4. g * r = r * g /\ n * r = r * n /\ r * g \in Nat /\ r * n \in Nat
  BY <1>1, <1>2
<1> QED  BY <1>1, <1>3, <1>4

-----------------------------------------------------------------------------
(* The steps. *)

\* Ticks times their length.
LEMMA LapseInt ==
  ASSUME NEW e \in Int, NEW t \in Int, NEW p \in Int
  PROVE  Lapse(e, t, p) \in Int /\ Lapse(e + 1, t, p) = Lapse(e, t, p) + TickLen
<1> DEFINE l == TickLen
<1>1. l \in Nat
  BY Constants
<1> HIDE DEF l
<1>2. (e - t) * l + p \in Int /\ ((e + 1) - t) * l + p = ((e - t) * l + p) + l
  BY <1>1
<1> QED  BY <1>2 DEF Lapse, l

\* The tick count of a sleep is a number.
LEMMA SleepTicksNat ==
  ASSUME NEW op, NEW n \in Nat
  PROVE  SleepTicks(op, n) \in Nat
<1> DEFINE x == (n * Freq) % W32
           y == PerSec(op)
<1>1. x \in Nat /\ y \in Nat /\ y > 0
  <2>1. n * Freq \in Nat
    BY Constants
  <2> QED  BY <2>1, Constants DEF PerSec
<1> HIDE DEF x, y
<1>2. x \div y \in Nat
  BY <1>1, Quotient
<1> QED  BY <1>2 DEF SleepTicks, x, y

\* A unit of time: one edge more or one phase further, unless an edge is lost.
LEMMA ClockLapse ==
  ASSUME TimersType, Clock
  PROVE  /\ phase' \in 0 .. TickLen - 1 /\ pending' \in BOOLEAN /\ Edges' \in Nat
         /\ Edges' = Edges \/ (Edges' = Edges + 1 /\ ~pending /\ phase' = 0)
         /\ phase + 1 # TickLen => Edges' = Edges /\ phase' = phase + 1
         /\ \A t \in Int : /\ Lapse(Edges', t, phase') <= Lapse(Edges, t, phase) + 1
                           /\ ~pending \/ phase + 1 # TickLen
                                => Lapse(Edges', t, phase') = Lapse(Edges, t, phase) + 1
<1> DEFINE l == TickLen
<1>1. l \in Nat /\ l > 0 /\ phase \in 0 .. l - 1 /\ ticks \in Nat /\ pending \in BOOLEAN
  BY Constants DEF TimersType
<1>2. phase' = (phase + 1) % l /\ pending' = (pending \/ phase + 1 = l) /\ ticks' = ticks
  BY DEF Clock
<1>3. Edges = (IF pending THEN ticks + 1 ELSE ticks)
      /\ Edges' = (IF pending' THEN ticks ELSE ticks) + (IF pending' THEN 1 ELSE 0)
  BY <1>1, <1>2 DEF Edges
<1> HIDE DEF l
<1>4. phase' = IF phase + 1 = l THEN 0 ELSE phase + 1
  <2>1. CASE phase + 1 = l
    BY <1>1, <1>2, <2>1
  <2>2. CASE phase + 1 # l
    BY <1>1, <1>2, <2>2
  <2> QED  BY <2>1, <2>2
<1>5. PICK e0 \in Nat, e1 \in Nat, p0 \in Nat, p1 \in Nat :
        e0 = Edges /\ e1 = Edges' /\ p0 = phase /\ p1 = phase'
  BY <1>1, <1>3, <1>4
<1>6. \/ e1 = e0 /\ p1 = p0 + 1 /\ phase + 1 # l
      \/ e1 = e0 + 1 /\ p0 = l - 1 /\ p1 = 0 /\ ~pending
      \/ e1 = e0 /\ p0 = l - 1 /\ p1 = 0 /\ pending
  <2>1. CASE phase + 1 = l
    <3>1. p1 = 0 /\ p0 = l - 1
      BY <1>1, <1>4, <1>5, <2>1
    <3>4. pending' = TRUE
      BY <1>2, <2>1, Zenon
    <3>5. e1 = ticks + 1
      BY <1>1, <1>3, <1>5, <3>4
    <3>2. CASE pending
      BY <1>3, <1>5, <3>1, <3>2, <3>5
    <3>3. CASE ~pending
      BY <1>3, <1>5, <3>1, <3>3, <3>5
    <3> QED  BY <3>2, <3>3
  <2>2. CASE phase + 1 # l
    <3>1. p1 = p0 + 1
      BY <1>4, <1>5, <2>2
    <3>2. CASE pending
      BY <1>1, <1>2, <1>3, <1>5, <2>2, <3>1, <3>2, Zenon
    <3>3. CASE ~pending
      <4>1. ~pending'
        BY <1>2, <2>2, <3>3, Zenon
      <4> QED  BY <1>1, <1>3, <1>5, <2>2, <3>1, <3>3, <4>1
    <3> QED  BY <3>2, <3>3
  <2> QED  BY <2>1, <2>2
<1>7. ASSUME NEW t \in Int
      PROVE  /\ Lapse(e1, t, p1) <= Lapse(e0, t, p0) + 1
             /\ ~pending \/ p0 + 1 # l => Lapse(e1, t, p1) = Lapse(e0, t, p0) + 1
  <2> DEFINE x == (e0 - t) * l
  <2>1. x \in Int /\ Lapse(e0, t, p0) = x + p0
    BY <1>1 DEF Lapse, l
  <2>2. CASE e1 = e0
    <3>1. Lapse(e1, t, p1) = x + p1
      BY <2>2 DEF Lapse, l
    <3> HIDE DEF x
    <3> QED  BY <1>1, <1>6, <2>1, <2>2, <3>1
  <2>3. CASE e1 = e0 + 1 /\ p0 = l - 1 /\ p1 = 0
    <3>1. (e1 - t) * l = x + l
      BY <1>1, <2>3
    <3>2. Lapse(e1, t, p1) = (x + l) + p1
      BY <3>1 DEF Lapse, l
    <3> HIDE DEF x
    <3> QED  BY <1>1, <2>1, <2>3, <3>2
  <2> QED  BY <1>6, <2>2, <2>3
<1>8. phase' \in 0 .. l - 1
  BY <1>1, <1>4
<1>9. pending' \in BOOLEAN
  BY <1>2
<1>10. phase + 1 # l => e1 = e0 /\ p1 = p0 + 1
  BY <1>1, <1>5, <1>6
<1> QED  BY <1>5, <1>6, <1>7, <1>8, <1>9, <1>10 DEF l

\* The clock keeps the invariant: an edge is lost only outside a calibration.
LEMMA ClockStep == TimersInv /\ Clock => TimersInv'
<1> SUFFICES ASSUME TimersInv, Clock PROVE TimersInv'
  OBVIOUS
<1>1. TimersType /\ SleepInv /\ CalInv /\ CalibrationClose /\ ProgrammedRate
  BY DEF TimersInv
<1>2. /\ ticks' = ticks /\ active' = active /\ pc' = pc /\ call' = call /\ target' = target
      /\ lvt' = lvt /\ divider' = divider /\ initial' = initial /\ apicFreq' = apicFreq
      /\ hz' = hz /\ cal' = cal /\ rate' = rate
      /\ elapsed' = (IF pc = "idle" \/ elapsed = MaxElapsed THEN elapsed ELSE elapsed + 1)
      /\ age' = (IF Calibrating THEN age + 1 ELSE age)
      /\ ~Prompt
  BY DEF Clock
<1>3. /\ phase' \in 0 .. TickLen - 1 /\ pending' \in BOOLEAN /\ Edges' \in Nat
      /\ Edges' = Edges \/ (Edges' = Edges + 1 /\ ~pending /\ phase' = 0)
      /\ phase + 1 # TickLen => Edges' = Edges /\ phase' = phase + 1
      /\ \A t \in Int : /\ Lapse(Edges', t, phase') <= Lapse(Edges, t, phase) + 1
                        /\ ~pending \/ phase + 1 # TickLen
                             => Lapse(Edges', t, phase') = Lapse(Edges, t, phase) + 1
  BY <1>1, ClockLapse
<1>4. /\ elapsed \in Nat /\ age \in Nat /\ ticks \in Nat /\ target \in Nat /\ phase \in Nat
      /\ TickLen \in Nat /\ cal.ticks \in Nat /\ Edges \in Nat /\ pending \in BOOLEAN
      /\ W32 \in Nat /\ MaxElapsed \in Nat
  <2>1. cal.ticks \in Nat
    BY <1>1 DEF TimersType, Cals
  <2> QED  BY <1>1, <2>1, Constants DEF TimersType, Edges
<1>5. TimersType'
  <2>1. elapsed' \in Nat /\ age' \in Nat
    BY <1>2, <1>4
  <2> QED  BY <1>1, <1>2, <1>3, <2>1 DEF TimersType
<1>6. SleepInv'
  <2>1. Asked' = Asked
    BY <1>2 DEF Asked
  <2>2. ASSUME pc \in {"check", "hlt", "halted", "returned"}, call.op # "init", active
        PROVE  /\ target - Asked \in Nat /\ target <= MaxTicks
               /\ elapsed' = MaxElapsed \/ Lapse(Edges', target - Asked, phase') < elapsed' + TickLen
               /\ pc = "returned" => ticks >= target
    <3>1. /\ target - Asked \in Nat /\ target <= MaxTicks
          /\ elapsed = MaxElapsed \/ Lapse(Edges, target - Asked, phase) < elapsed + TickLen
          /\ pc = "returned" => ticks >= target
      BY <1>1, <2>2 DEF SleepInv
    <3> DEFINE t == target - Asked
    <3>2. /\ Lapse(Edges', t, phase') <= Lapse(Edges, t, phase) + 1
          /\ t \in Int
      BY <1>3, <3>1
    <3>3. /\ Lapse(Edges', t, phase') \in Int /\ Lapse(Edges, t, phase) \in Int
      <4>1. Edges \in Int /\ Edges' \in Int /\ phase \in Int /\ phase' \in Int
        BY <1>3, <1>4
      <4> HIDE DEF t
      <4> QED  BY <3>2, <4>1, LapseInt
    <3>4. elapsed' = (IF elapsed = MaxElapsed THEN elapsed ELSE elapsed + 1)
      BY <1>2, <2>2
    <3> HIDE DEF t
    <3>5. elapsed' = MaxElapsed \/ Lapse(Edges', t, phase') < elapsed' + TickLen
      <4>1. elapsed = MaxElapsed \/ Lapse(Edges, t, phase) < elapsed + TickLen
        BY <3>1 DEF t
      <4> QED  BY <1>4, <3>2, <3>3, <3>4, <4>1
    <3> QED  BY <3>1, <3>5 DEF t
  <2> QED  BY <1>1, <1>2, <2>1, <2>2 DEF SleepInv
<1>7. CalInv'
  <2>1. Calibrating' = Calibrating /\ (Calibrating => age' = age + 1)
    BY <1>2 DEF Calibrating
  <2>2. /\ cal.startAge \in Nat /\ cal.endAge \in Nat /\ Lag \in Nat /\ Lag < TickLen
    BY <1>1, Constants DEF TimersType, Cals
  <2>3. /\ pc = "cal_start" => age' <= Lag
        /\ pc = "cal_ticks" => cal.startAge <= age' /\ age' <= cal.startAge + Lag
        /\ pc = "cal_done" => age' <= cal.endAge + Lag
    <3>1. /\ pc = "cal_start" => age < Lag
          /\ pc = "cal_ticks" => age < cal.startAge + Lag
          /\ pc = "cal_done" => age < cal.endAge + Lag
      BY <1>2, <1>4, <2>2 DEF Prompt
    <3>2. pc = "cal_ticks" => cal.startAge <= age
      BY <1>1 DEF CalInv
    <3>3. pc \in {"cal_start", "cal_ticks", "cal_done"} => age' = age + 1
      BY <2>1 DEF Calibrating
    <3> QED  BY <1>4, <2>2, <3>1, <3>2, <3>3
  <2>4. Lapse(Edges, cal.ticks, phase) \in Int /\ Lapse(Edges', cal.ticks, phase') \in Int
    <3>1. Edges \in Int /\ phase \in Int /\ cal.ticks \in Int /\ Edges' \in Int /\ phase' \in Int
      BY <1>3, <1>4
    <3> QED  BY <3>1, LapseInt, Zenon
  <2>5. ASSUME pc \in {"spin", "cal_done"}
        PROVE  Lapse(Edges', cal.ticks, phase') < age' - cal.startAge + TickLen
    <3>1. Lapse(Edges, cal.ticks, phase) < age - cal.startAge + TickLen /\ age' = age + 1
      BY <1>1, <2>1, <2>5 DEF CalInv, Calibrating
    <3>2. Lapse(Edges', cal.ticks, phase') <= Lapse(Edges, cal.ticks, phase) + 1
      BY <1>3, <1>4
    <3> QED  BY <1>4, <2>2, <2>4, <3>1, <3>2
  <2>6. ASSUME pc = "spin"
        PROVE  /\ cal.startAge <= age' /\ age' <= Lapse(Edges', cal.ticks, phase') + cal.startAge + Lag
               /\ Edges' <= target /\ (Edges' = target => phase' <= Lag)
    <3>1. /\ cal.startAge <= age /\ age <= Lapse(Edges, cal.ticks, phase) + cal.startAge + Lag
          /\ Edges <= target /\ age' = age + 1
      BY <1>1, <2>1, <2>6 DEF CalInv, Calibrating
    <3>2. pending \/ ticks >= target => phase < Lag
      BY <1>2, <1>4, <2>2, <2>6 DEF Prompt
    <3>3. ~pending \/ phase + 1 # TickLen
      BY <1>4, <2>2, <3>2
    <3>4. Lapse(Edges', cal.ticks, phase') = Lapse(Edges, cal.ticks, phase) + 1
      BY <1>3, <1>4, <3>3
    <3>5. CASE Edges = target
      <4>1. pending \/ ticks >= target
        BY <1>4, <3>5 DEF Edges
      <4>2. phase < Lag /\ phase + 1 # TickLen
        BY <1>4, <2>2, <3>2, <4>1
      <4> QED  BY <1>3, <1>4, <2>2, <2>4, <3>1, <3>4, <3>5, <4>2
    <3>6. CASE Edges # target
      BY <1>3, <1>4, <2>2, <2>4, <3>1, <3>4, <3>6
    <3> QED  BY <3>5, <3>6
  <2> QED  BY <1>1, <1>2, <2>1, <2>3, <2>5, <2>6 DEF CalInv
<1>8. CalibrationClose' /\ ProgrammedRate'
  BY <1>1, <1>2 DEF CalibrationClose, ProgrammedRate, TickedFreq
<1> QED  BY <1>5, <1>6, <1>7, <1>8 DEF TimersInv

\* The other actions keep the invariant.
LEMMA TickStep == TimersInv /\ Tick => TimersInv'
<1> SUFFICES ASSUME TimersInv, Tick PROVE TimersInv'
  OBVIOUS
<1>1. TimersType /\ SleepInv /\ CalInv /\ CalibrationClose /\ ProgrammedRate
  BY DEF TimersInv
<1>2. /\ pending /\ pending' = FALSE /\ ticks' = ticks + 1
      /\ pc' = (IF pc = "halted" THEN "check" ELSE pc)
      /\ phase' = phase /\ active' = active /\ call' = call /\ target' = target
      /\ elapsed' = elapsed
      /\ lvt' = lvt /\ divider' = divider /\ initial' = initial /\ age' = age
      /\ apicFreq' = apicFreq /\ hz' = hz /\ cal' = cal /\ rate' = rate
  BY DEF Tick, Woken, lapic
<1>3. Edges' = Edges /\ Edges = ticks + 1
  <2>1. Edges = ticks + 1
    BY <1>2 DEF Edges
  <2>2. Edges' = ticks'
    BY <1>2 DEF Edges
  <2> QED  BY <1>2, <2>1, <2>2
<1>4. TimersType'
  <2>1. pending' \in BOOLEAN /\ ticks' \in Nat /\ pc' \in PCs
    <3>1. pending' \in BOOLEAN
      BY <1>2, Zenon
    <3>2. ticks' \in Nat /\ pc' \in PCs
      BY <1>1, <1>2 DEF TimersType, PCs
    <3> QED  BY <3>1, <3>2
  <2> QED  BY <1>1, <1>2, <2>1 DEF TimersType
<1>5. Asked' = Asked
  BY <1>2 DEF Asked
<1>6. SleepInv'
  <2>1. ticks \in Nat /\ target \in Nat /\ pc \in PCs
    BY <1>1 DEF TimersType
  <2>2. pc' = "returned" /\ ticks >= target => ticks' >= target'
    BY <1>2, <2>1
  <2>3. pc' = "returned" <=> pc = "returned"
    BY <1>2
  <2>4. /\ pc' \in {"check", "hlt", "halted"} => pc \in {"check", "hlt", "halted"}
        /\ pc' \in {"check", "hlt", "halted", "returned"} => pc \in {"check", "hlt", "halted", "returned"}
    BY <1>2
  <2> QED  BY <1>1, <1>2, <1>3, <1>5, <2>2, <2>3, <2>4 DEF SleepInv
<1>7. CalInv'
  <2>1. pc' \in {"cal_start", "cal_ticks", "spin", "cal_done", "arm"} => pc' = pc
    BY <1>2
  <2>2. Calibrating' => Calibrating
    BY <2>1 DEF Calibrating
  <2>3. ticks >= target => ticks' >= target'
    BY <1>1, <1>2 DEF TimersType
  <2> QED  BY <1>1, <1>2, <1>3, <2>1, <2>2, <2>3 DEF CalInv
<1>8. CalibrationClose' /\ ProgrammedRate'
  BY <1>1, <1>2 DEF CalibrationClose, ProgrammedRate, TickedFreq
<1> QED  BY <1>4, <1>6, <1>7, <1>8 DEF TimersInv

\* A call of Sys::Timer's sleeps starts where the invariant says.
LEMMA SleepStep ==
  ASSUME TimersInv, NEW op \in {"sleep_ms", "sleep_us"}, NEW n \in Nat, Sleep(op, n)
  PROVE  TimersInv'
<1> DEFINE s == SleepTicks(op, n)
<1>1. TimersType /\ SleepInv /\ CalInv /\ CalibrationClose /\ ProgrammedRate
  BY DEF TimersInv
<1>2. /\ pc = "idle" /\ ~pending /\ ticks + s < MaxTicks
      /\ call' = [op |-> op, arg |-> n] /\ elapsed' = 0
      /\ target' = (IF active THEN ticks + s ELSE ticks)
      /\ pc' = (IF active THEN "check" ELSE "returned")
      /\ phase' = phase /\ pending' = pending /\ ticks' = ticks /\ active' = active
      /\ lvt' = lvt /\ divider' = divider /\ initial' = initial /\ age' = age
      /\ apicFreq' = apicFreq /\ hz' = hz /\ cal' = cal /\ rate' = rate
  BY DEF Sleep, pit, lapic
<1>3. s \in Nat /\ ticks \in Nat /\ phase \in 0 .. TickLen - 1 /\ TickLen \in Nat /\ MaxTicks \in Nat
  BY <1>1, SleepTicksNat, Constants DEF TimersType
<1>4. call'.op = op /\ call'.arg = n
  BY <1>2
<1>5. Asked' = s /\ Edges' = ticks
  BY <1>2, <1>4 DEF Asked, Edges
<1> HIDE DEF s
<1>6. TimersType'
  <2>1. target' \in Nat
    BY <1>2, <1>3
  <2> QED  BY <1>1, <1>2, <2>1 DEF TimersType, PCs
<1>7. SleepInv'
  <2>1. ASSUME active
        PROVE  /\ target' - s \in Nat /\ target' <= MaxTicks
               /\ Lapse(ticks, target' - s, phase) < 0 + TickLen
    <3>1. target' - s = ticks /\ target' <= MaxTicks
      BY <1>2, <1>3, <2>1
    <3>2. (ticks - ticks) * TickLen + phase = phase
      BY <1>3
    <3> QED  BY <1>3, <3>1, <3>2 DEF Lapse
  <2> QED  BY <1>2, <1>4, <1>5, <2>1 DEF SleepInv
<1>8. CalInv'
  BY <1>2 DEF CalInv, Calibrating
<1>9. CalibrationClose' /\ ProgrammedRate'
  BY <1>1, <1>2 DEF CalibrationClose, ProgrammedRate, TickedFreq
<1> QED  BY <1>6, <1>7, <1>8, <1>9 DEF TimersInv

\* The tests and returns of a sleep, and what leaves the call alone.
LEMMA SleepLoopStep ==
  ASSUME TimersInv, SleepCheck \/ Hlt \/ OtherInterrupt \/ Return \/ TimerInit
  PROVE  TimersInv'
<1>1. TimersType /\ SleepInv /\ CalInv /\ CalibrationClose /\ ProgrammedRate
  BY DEF TimersInv
<1>2. /\ phase' = phase /\ pending' = pending /\ ticks' = ticks
      /\ lvt' = lvt /\ divider' = divider /\ initial' = initial
      /\ apicFreq' = apicFreq /\ hz' = hz /\ rate' = rate
  BY DEF SleepCheck, Hlt, OtherInterrupt, Return, TimerInit, pit, lapic, thread
<1>3. Edges' = Edges
  BY <1>2 DEF Edges
<1>4. CalibrationClose' /\ ProgrammedRate'
  BY <1>1, <1>2 DEF CalibrationClose, ProgrammedRate, TickedFreq
<1>5. ASSUME SleepCheck \/ Hlt \/ OtherInterrupt PROVE TimersInv'
  <2>1. /\ pc \in {"check", "hlt", "halted"} /\ pc' \in {"check", "hlt", "halted", "returned"}
        /\ active' = active /\ call' = call /\ target' = target /\ elapsed' = elapsed
        /\ age' = age /\ cal' = cal
        /\ pc' = "returned" => ticks >= target
    <3>1. CASE SleepCheck
      <4>1. ticks \in Nat /\ target \in Nat
        BY <1>1 DEF TimersType
      <4> QED  BY <3>1, <4>1 DEF SleepCheck, pit, lapic
    <3>2. CASE Hlt \/ OtherInterrupt
      BY <3>2 DEF Hlt, OtherInterrupt, pit, lapic
    <3> QED  BY <1>5, <3>1, <3>2
  <2>2. Asked' = Asked
    BY <2>1 DEF Asked
  <2>3. TimersType'
    BY <1>1, <1>2, <2>1 DEF TimersType, PCs
  <2>4. SleepInv'
    BY <1>1, <1>2, <1>3, <2>1, <2>2 DEF SleepInv
  <2>5. CalInv'
    BY <2>1 DEF CalInv, Calibrating
  <2> QED  BY <1>4, <2>3, <2>4, <2>5 DEF TimersInv
<1>6. ASSUME Return PROVE TimersInv'
  <2>1. /\ pc' = "idle" /\ call' = NoCall /\ target' = 0 /\ elapsed' = 0 /\ cal' = NoCal
        /\ age' = 0 /\ active' = active
    BY <1>6 DEF Return, pit
  <2>2. TimersType'
    <3>1. call' \in [op : {"none", "init", "sleep_ms", "sleep_us"}, arg : Nat]
      BY <2>1 DEF NoCall
    <3>2. cal' \in Cals
      BY <2>1 DEF NoCal, Masked, Lvts, Cals
    <3> QED  BY <1>1, <1>2, <2>1, <3>1, <3>2 DEF TimersType, PCs
  <2>3. SleepInv' /\ CalInv'
    BY <2>1 DEF SleepInv, CalInv, Calibrating
  <2> QED  BY <1>4, <2>2, <2>3 DEF TimersInv
<1>7. ASSUME TimerInit PROVE TimersInv'
  <2>1. /\ pc = "idle" /\ pc' = pc /\ call' = call /\ target' = target /\ elapsed' = elapsed
        /\ cal' = cal /\ age' = age /\ active' = TRUE
    BY <1>7 DEF TimerInit, thread, lapic
  <2>2. TimersType'
    BY <1>1, <1>2, <2>1 DEF TimersType
  <2>3. SleepInv' /\ CalInv'
    BY <2>1 DEF SleepInv, CalInv, Calibrating
  <2> QED  BY <1>4, <2>2, <2>3 DEF TimersInv
<1> QED  BY <1>5, <1>6, <1>7

\* init, set_frequency and the mask calls.
LEMMA LapicStep == TimersInv /\ LapicCall => TimersInv'
<1> SUFFICES ASSUME TimersInv, LapicCall PROVE TimersInv'
  OBVIOUS
<1>1. TimersType /\ SleepInv /\ CalInv /\ CalibrationClose /\ ProgrammedRate
  BY DEF TimersInv
<1>2. ASSUME NEW v \in Vectors, NEW mode \in Modes, NEW d \in Dividers, LapicInit(v, mode, d)
      PROVE  TimersInv'
  <2>1. /\ pc' = "arm" /\ call' = [op |-> "init", arg |-> 0] /\ elapsed' = 0
        /\ divider' = d /\ lvt' = [vector |-> v, mode |-> mode, masked |-> FALSE]
        /\ hz' = 0
        /\ phase' = phase /\ pending' = pending /\ ticks' = ticks /\ active' = active
        /\ target' = target /\ initial' = initial /\ age' = age /\ apicFreq' = apicFreq
        /\ cal' = cal /\ rate' = rate
    BY <1>2 DEF LapicInit, pit
  <2>2. TimersType'
    <3>1. divider' \in Nat /\ lvt' \in Lvts
      BY <2>1, TimersAssumption DEF Lvts
    <3> QED  BY <1>1, <2>1, <3>1 DEF TimersType, PCs
  <2>3. SleepInv' /\ CalInv'
    BY <2>1 DEF SleepInv, CalInv, Calibrating
  <2>4. CalibrationClose' /\ ProgrammedRate'
    BY <1>1, <2>1 DEF CalibrationClose, ProgrammedRate, TickedFreq
  <2> QED  BY <2>2, <2>3, <2>4 DEF TimersInv
<1>3. ASSUME NEW t \in Targets, SetFrequency(t) PROVE TimersInv'
  <2>1. /\ pc = "idle" /\ apicFreq # 0
        /\ divider' = DividerFor(t) /\ initial' = CountFor(t) /\ hz' = t
        /\ lvt' = [vector |-> 33, mode |-> "periodic", masked |-> FALSE]
        /\ phase' = phase /\ pending' = pending /\ ticks' = ticks /\ active' = active
        /\ pc' = pc /\ call' = call /\ target' = target /\ elapsed' = elapsed
        /\ age' = age /\ apicFreq' = apicFreq /\ cal' = cal /\ rate' = rate
    BY <1>3 DEF SetFrequency, pit, thread
  <2>2. /\ t \in Nat /\ DividerFor(t) \in Nat /\ CountFor(t) \in Nat
        /\ CountFor(t) * DividerFor(t) * t <= apicFreq
        /\ apicFreq < (CountFor(t) + 1) * DividerFor(t) * t
    BY <1>1, <2>1, SetFrequencyRate DEF TimersType
  <2>3. TimersType'
    <3>1. divider' \in Nat /\ initial' \in Nat /\ hz' \in Nat /\ lvt' \in Lvts
      BY <2>1, <2>2 DEF Lvts
    <3> QED  BY <1>1, <2>1, <3>1 DEF TimersType
  <2>4. SleepInv' /\ CalInv'
    BY <2>1 DEF SleepInv, CalInv, Calibrating
  <2>5. CalibrationClose'
    BY <1>1, <2>1 DEF CalibrationClose, TickedFreq
  <2>6. ProgrammedRate'
    BY <2>1, <2>2 DEF ProgrammedRate
  <2> QED  BY <2>3, <2>4, <2>5, <2>6 DEF TimersInv
<1>4. ASSUME NEW bit \in BOOLEAN, Mask(bit) PROVE TimersInv'
  <2>1. /\ pc = "idle" /\ lvt' = [lvt EXCEPT !.masked = bit]
        /\ divider' = divider /\ initial' = initial /\ hz' = hz
        /\ phase' = phase /\ pending' = pending /\ ticks' = ticks /\ active' = active
        /\ pc' = pc /\ call' = call /\ target' = target /\ elapsed' = elapsed
        /\ age' = age /\ apicFreq' = apicFreq /\ cal' = cal /\ rate' = rate
    BY <1>4 DEF Mask, pit, thread
  <2>2. TimersType'
    <3>1. lvt' \in Lvts
      BY <1>1, <2>1 DEF TimersType, Lvts
    <3> QED  BY <1>1, <2>1, <3>1 DEF TimersType
  <2>3. SleepInv' /\ CalInv'
    BY <2>1 DEF SleepInv, CalInv, Calibrating
  <2>4. CalibrationClose' /\ ProgrammedRate'
    BY <1>1, <2>1 DEF CalibrationClose, ProgrammedRate, TickedFreq
  <2> QED  BY <2>2, <2>3, <2>4 DEF TimersInv
<1> QED  BY <1>2, <1>3, <1>4 DEF LapicCall

\* Within the time a calibration takes, the count read is the top value less
\* what the age accounts for.
LEMMA CountRead ==
  ASSUME TimersType, initial = W32 - 1, age <= CalibrationTicks * TickLen + 4 * Lag
  PROVE  CurrentCount = W32 - 1 - rate * age /\ CurrentCount \in Nat
<1>1. rate * age \in Nat /\ rate * age < W32 /\ W32 \in Nat
  BY Constants, CountsFit DEF TimersType
<1> QED  BY <1>1 DEF CurrentCount

\* The calibration up to its loop: the count starts at its top value.
LEMMA CalibrateArmStep == TimersInv /\ CalibrateArm => TimersInv'
<1> SUFFICES ASSUME TimersInv, CalibrateArm PROVE TimersInv'
  OBVIOUS
<1>1. TimersType /\ SleepInv /\ CalInv /\ CalibrationClose /\ ProgrammedRate
  BY DEF TimersInv
<1>2. /\ pc = "arm" /\ ~pending /\ pc' = "cal_start"
      /\ divider' = 1 /\ lvt' = Masked /\ cal' = [cal EXCEPT !.lvt = lvt]
      /\ initial' = W32 - 1 /\ age' = 0
      /\ phase' = phase /\ pending' = pending /\ ticks' = ticks /\ active' = active
      /\ call' = call /\ target' = target /\ elapsed' = elapsed
      /\ apicFreq' = apicFreq /\ hz' = hz /\ rate' = rate
  BY DEF CalibrateArm, pit
<1>3. hz = 0 /\ call.op = "init"
  BY <1>1, <1>2 DEF CalInv
<1>4. TimersType'
  <2>1. lvt' \in Lvts /\ divider' \in Nat /\ initial' \in Nat /\ age' \in Nat
    BY <1>2, Constants DEF Masked, Lvts
  <2>2. cal' \in Cals
    BY <1>1, <1>2 DEF TimersType, Cals
  <2> QED  BY <1>1, <1>2, <2>1, <2>2 DEF TimersType, PCs
<1>5. SleepInv'
  BY <1>2 DEF SleepInv
<1>6. CalInv'
  BY <1>2, <1>3, Constants DEF CalInv
<1>7. CalibrationClose' /\ ProgrammedRate'
  BY <1>1, <1>2, <1>3 DEF CalibrationClose, ProgrammedRate, TickedFreq
<1> QED  BY <1>4, <1>5, <1>6, <1>7 DEF TimersInv

\* The two reads in front of the loop and the one behind it.
LEMMA ReadStep == TimersInv /\ (ReadStart \/ ReadTicks \/ SpinEnds) => TimersInv'
<1> SUFFICES ASSUME TimersInv, ReadStart \/ ReadTicks \/ SpinEnds PROVE TimersInv'
  OBVIOUS
<1>1. TimersType /\ SleepInv /\ CalInv /\ CalibrationClose /\ ProgrammedRate
  BY DEF TimersInv
<1>2. /\ phase' = phase /\ pending' = pending /\ ticks' = ticks /\ active' = active
      /\ call' = call /\ elapsed' = elapsed /\ lvt' = lvt /\ divider' = divider
      /\ initial' = initial /\ age' = age /\ apicFreq' = apicFreq /\ hz' = hz /\ rate' = rate
      /\ ~pending /\ Calibrating
  BY DEF ReadStart, ReadTicks, SpinEnds, pit, Calibrating
<1>3. hz = 0 /\ call.op = "init" /\ initial = W32 - 1
  BY <1>1, <1>2 DEF CalInv
<1>4. CalibrationClose' /\ ProgrammedRate'
  BY <1>1, <1>2 DEF CalibrationClose, ProgrammedRate, TickedFreq
<1>5. /\ ticks \in Nat /\ target \in Nat /\ phase \in 0 .. TickLen - 1 /\ age \in Nat
      /\ TickLen \in Nat /\ TickLen > 0 /\ CalibrationTicks \in Nat /\ CalibrationTicks > 0
      /\ Lag \in Nat /\ cal \in Cals /\ W32 \in Nat /\ CalibrationTicks * TickLen \in Nat
  BY <1>1, Constants DEF TimersType
<1>6. Edges = ticks /\ Edges' = Edges
  BY <1>2 DEF Edges
<1>7. cal.startAge \in Nat /\ cal.ticks \in Nat
  BY <1>5 DEF Cals
<1>8. ASSUME ReadStart PROVE TimersInv'
  <2>1. /\ pc = "cal_start" /\ pc' = "cal_ticks" /\ target' = target
        /\ cal' = [cal EXCEPT !.start = CurrentCount, !.startAge = age]
    BY <1>8 DEF ReadStart
  <2>2. age <= Lag
    BY <1>1, <2>1 DEF CalInv
  <2>3. CurrentCount = W32 - 1 - rate * age /\ CurrentCount \in Nat
    <3>1. age <= CalibrationTicks * TickLen + 4 * Lag
      BY <1>5, <2>2
    <3> QED  BY <1>1, <1>3, <3>1, CountRead
  <2>4. cal' \in Cals /\ cal'.start = W32 - 1 - rate * age /\ cal'.startAge = age
    <3>1. cal' \in Cals /\ cal'.start = CurrentCount /\ cal'.startAge = age
      BY <1>5, <2>1, <2>3, ZenonT(30) DEF Cals
    <3> QED  BY <2>3, <3>1
  <2>5. TimersType'
    BY <1>1, <1>2, <2>1, <2>4 DEF TimersType, PCs
  <2>6. SleepInv'
    BY <2>1 DEF SleepInv
  <2>7. CalInv'
    <3>1. cal'.startAge <= age' /\ age' <= cal'.startAge + Lag
      BY <1>2, <1>5, <2>4
    <3> QED  BY <1>2, <1>3, <2>1, <2>2, <2>4, <3>1 DEF CalInv
  <2> QED  BY <1>4, <2>5, <2>6, <2>7 DEF TimersInv
<1>9. ASSUME ReadTicks PROVE TimersInv'
  <2>1. /\ pc = "cal_ticks" /\ pc' = "spin" /\ target' = ticks + CalibrationTicks
        /\ cal' = [cal EXCEPT !.ticks = ticks]
    BY <1>9 DEF ReadTicks
  <2>2. /\ cal.startAge <= Lag /\ cal.start = W32 - 1 - rate * cal.startAge
        /\ cal.startAge <= age /\ age <= cal.startAge + Lag
    BY <1>1, <2>1 DEF CalInv
  <2>3. cal' \in Cals /\ cal'.start = cal.start /\ cal'.startAge = cal.startAge /\ cal'.ticks = ticks
    BY <1>5, <2>1 DEF Cals
  <2>4. target' \in Nat /\ target' = cal'.ticks + CalibrationTicks /\ ticks < target'
    BY <1>5, <2>1, <2>3
  <2>5. TimersType'
    BY <1>1, <1>2, <2>1, <2>3, <2>4 DEF TimersType, PCs
  <2>6. SleepInv'
    BY <2>1 DEF SleepInv
  <2>7. Lapse(Edges', cal'.ticks, phase') = phase
    <3>1. Lapse(Edges', cal'.ticks, phase') = (ticks - ticks) * TickLen + phase
      BY <1>2, <1>6, <2>3 DEF Lapse
    <3>2. (ticks - ticks) * TickLen + phase = phase
      BY <1>5
    <3> QED  BY <3>1, <3>2
  <2>8. /\ Lapse(Edges', cal'.ticks, phase') < age' - cal'.startAge + TickLen
        /\ cal'.startAge <= age'
        /\ age' <= Lapse(Edges', cal'.ticks, phase') + cal'.startAge + Lag
        /\ Edges' < target'
    BY <1>2, <1>5, <1>6, <1>7, <2>2, <2>3, <2>4, <2>7
  <2>9. Edges' <= target' /\ Edges' # target'
    BY <1>5, <1>6, <2>4
  <2>10. /\ cal'.startAge <= Lag /\ cal'.start = W32 - 1 - rate' * cal'.startAge
    BY <1>2, <2>2, <2>3
  <2>11. CalInv'
    BY <1>2, <1>3, <2>1, <2>4, <2>8, <2>9, <2>10 DEF CalInv
  <2> QED  BY <1>4, <2>5, <2>6, <2>11 DEF TimersInv
<1>10. ASSUME SpinEnds PROVE TimersInv'
  <2> DEFINE n == CalibrationTicks * TickLen
  <2>1. /\ pc = "spin" /\ pc' = "cal_done" /\ target' = target /\ ticks >= target
        /\ cal' = [cal EXCEPT !.end = CurrentCount, !.endAge = age]
    BY <1>10 DEF SpinEnds, pit
  <2>2. /\ cal.startAge <= Lag /\ cal.start = W32 - 1 - rate * cal.startAge
        /\ target = cal.ticks + CalibrationTicks
        /\ Lapse(Edges, cal.ticks, phase) < age - cal.startAge + TickLen
        /\ cal.startAge <= age /\ age <= Lapse(Edges, cal.ticks, phase) + cal.startAge + Lag
        /\ Edges <= target /\ (Edges = target => phase <= Lag)
    BY <1>1, <2>1 DEF CalInv
  <2>3. Edges - cal.ticks = CalibrationTicks /\ phase <= Lag
    <3>1. target = cal.ticks + CalibrationTicks /\ Edges <= target /\ (Edges = target => phase <= Lag)
      BY <2>2, ZenonT(30)
    <3>2. ticks = target
      BY <1>5, <1>6, <2>1, <3>1
    <3> QED  BY <1>5, <1>6, <1>7, <3>1, <3>2
  <2>4. Lapse(Edges, cal.ticks, phase) = n + phase
    BY <2>3, ZenonT(30) DEF Lapse
  <2> HIDE DEF n
  <2>5. n \in Nat
    BY <1>5 DEF n
  <2>6. age <= cal.startAge + n + 2 * Lag /\ age <= n + 4 * Lag
    BY <1>5, <1>7, <2>2, <2>3, <2>4, <2>5
  <2>7. CurrentCount = W32 - 1 - rate * age /\ CurrentCount \in Nat
    BY <1>1, <1>3, <2>6, CountRead DEF n
  <2>8. /\ cal' \in Cals /\ cal'.start = cal.start /\ cal'.ticks = cal.ticks
        /\ cal'.startAge = cal.startAge /\ cal'.end = CurrentCount /\ cal'.endAge = age
    BY <1>5, <2>1, <2>7, ZenonT(30) DEF Cals
  <2>9. TimersType'
    BY <1>1, <1>2, <2>1, <2>8 DEF TimersType, PCs
  <2>10. SleepInv'
    BY <2>1 DEF SleepInv
  <2>11. /\ age' <= cal'.endAge + Lag /\ cal'.startAge <= cal'.endAge
         /\ cal'.endAge <= cal'.startAge + n + 2 * Lag
         /\ cal'.end = W32 - 1 - rate' * cal'.endAge
         /\ cal'.start = W32 - 1 - rate' * cal'.startAge
         /\ Lapse(Edges', cal'.ticks, phase') < age' - cal'.startAge + TickLen
    BY <1>2, <1>5, <1>6, <2>2, <2>6, <2>7, <2>8
  <2>12. CalInv'
    BY <1>2, <1>3, <2>1, <2>2, <2>8, <2>11 DEF CalInv, n
  <2> QED  BY <1>4, <2>9, <2>10, <2>12 DEF TimersInv
<1> QED  BY <1>8, <1>9, <1>10

\* The frequency is computed: the count's reads are at most CalibrationTicks
\* ticks and two Lags apart, and the ticks counted, of which there may be more,
\* at most a tick and a Lag longer.
LEMMA CalibrateEndsStep == TimersInv /\ CalibrateEnds => TimersInv'
<1> SUFFICES ASSUME TimersInv, CalibrateEnds PROVE TimersInv'
  OBVIOUS
<1> DEFINE c == CalibrationTicks
           l == TickLen
           w == W32
           e == ticks - cal.ticks
           g == cal.endAge - cal.startAge
           x == (cal.start - cal.end) % W32
<1>1. TimersType /\ SleepInv /\ CalInv /\ CalibrationClose /\ ProgrammedRate
  BY DEF TimersInv
<1>2. /\ pc = "cal_done" /\ ~pending /\ pc' = "returned"
      /\ apicFreq' = (IF e = 0 THEN 0 ELSE (x * MilliPerSec) \div e)
      /\ lvt' = [cal.lvt EXCEPT !.masked = FALSE]
      /\ phase' = phase /\ pending' = pending /\ ticks' = ticks /\ active' = active
      /\ call' = call /\ target' = target /\ elapsed' = elapsed /\ divider' = divider
      /\ initial' = initial /\ age' = age /\ hz' = hz /\ cal' = cal /\ rate' = rate
  BY DEF CalibrateEnds, pit
<1>3. /\ hz = 0 /\ call.op = "init"
      /\ cal.start = w - 1 - rate * cal.startAge /\ cal.end = w - 1 - rate * cal.endAge
      /\ target = cal.ticks + c /\ ticks >= target /\ age <= cal.endAge + Lag
      /\ cal.startAge <= cal.endAge /\ cal.endAge <= cal.startAge + c * l + 2 * Lag
      /\ Lapse(Edges, cal.ticks, phase) < age - cal.startAge + l
  BY <1>1, <1>2 DEF CalInv, Calibrating
<1>4. /\ ticks \in Nat /\ target \in Nat /\ phase \in Nat /\ rate \in Nat /\ age \in Nat
      /\ l \in Nat /\ l > 0 /\ c \in Nat /\ c > 0 /\ cal.ticks \in Nat /\ w \in Nat
      /\ cal.lvt \in Lvts /\ cal.startAge \in Nat /\ cal.endAge \in Nat /\ Lag \in Nat
      /\ c * l \in Nat
  <2>1. rate \in Nat
    BY <1>1, TimersAssumption DEF TimersType
  <2> QED  BY <1>1, <2>1, Constants DEF TimersType, Cals
<1>5. Edges = ticks
  BY <1>2 DEF Edges
<1>6. g \in Nat /\ g <= c * l + 2 * Lag /\ g <= c * l + 4 * Lag
  <2> DEFINE n == c * l
  <2>1. n \in Nat /\ cal.endAge <= cal.startAge + n + 2 * Lag
    BY <1>3, <1>4
  <2> HIDE DEF n
  <2>2. g \in Nat /\ g <= n + 2 * Lag /\ g <= n + 4 * Lag
    BY <1>3, <1>4, <2>1
  <2> QED  BY <2>2 DEF n
<1>7. x = rate * g /\ rate * g \in Nat
  <2> DEFINE a == rate * g
  <2>1. a \in Nat /\ a < w
    BY <1>1, <1>6, CountsFit DEF TimersType
  <2>2. cal.start - cal.end = a
    BY <1>3, <1>4
  <2> HIDE DEF a, w
  <2>3. a % w = a
    BY <1>4, <2>1
  <2> QED  BY <2>1, <2>2, <2>3 DEF a, w
<1>8. e \in Nat /\ e >= c /\ e # 0
  BY <1>3, <1>4
<1>9. e * l < g + l + Lag
  <2>1. e * l + phase < age - cal.startAge + l
    BY <1>3, <1>5 DEF Lapse
  <2>2. e * l \in Int
    BY <1>4, <1>8
  <2> HIDE DEF e, l
  <2> QED  BY <1>3, <1>4, <2>1, <2>2
<1>10. MilliPerSec = Freq /\ Freq \in Nat /\ TickedSecond = l * Freq
  BY Constants
<1> DEFINE k == rate * Freq
<1>11. /\ k \in Nat /\ x * MilliPerSec = k * g /\ k * l = TickedFreq
       /\ k * 2 * Lag = rate * MilliPerSec * 2 * Lag /\ k * Lag = rate * MilliPerSec * Lag
  <2> HIDE DEF g, l
  <2>1. k \in Nat /\ (rate * g) * Freq = k * g
    BY <1>4, <1>6, <1>10
  <2>2. k * l = rate * (l * Freq)
    BY <1>4, <1>10
  <2>3. k * 2 * Lag = rate * MilliPerSec * 2 * Lag /\ k * Lag = rate * MilliPerSec * Lag
    BY <1>10
  <2> QED  BY <1>7, <1>10, <2>1, <2>2, <2>3 DEF TickedFreq
<1>12. apicFreq' = (k * g) \div e
  BY <1>2, <1>8, <1>11
<1> HIDE DEF e, x, k, c, l, w, g
<1>13. /\ (k * g) \div e \in Nat
       /\ ((k * g) \div e) * c <= (k * l) * c + k * 2 * Lag
       /\ (((k * g) \div e) + 1) * c > (k * l) * (c - 1) - k * Lag
  BY <1>4, <1>6, <1>8, <1>9, <1>11, CalibrationResult
<1>14. TickedFreq' = TickedFreq
  BY <1>2 DEF TickedFreq
<1>15. CalibrationClose'
  <2>1. /\ apicFreq' * c <= TickedFreq * c + rate * MilliPerSec * 2 * Lag
        /\ (apicFreq' + 1) * c > TickedFreq * (c - 1) - rate * MilliPerSec * Lag
    BY <1>11, <1>12, <1>13
  <2> QED  BY <1>2, <1>14, <2>1 DEF CalibrationClose, c
<1>16. TimersType'
  <2>1. lvt' \in Lvts
    BY <1>2, <1>4, Zenon DEF Lvts
  <2> QED  BY <1>1, <1>2, <1>12, <1>13, <2>1 DEF TimersType, PCs
<1>17. SleepInv' /\ CalInv' /\ ProgrammedRate'
  BY <1>2, <1>3 DEF SleepInv, CalInv, Calibrating, ProgrammedRate
<1> QED  BY <1>15, <1>16, <1>17 DEF TimersInv

\* Initially the invariant holds, and every step keeps it.
LEMMA TimersInitially == Init => TimersInv
<1> SUFFICES ASSUME Init PROVE TimersInv
  OBVIOUS
<1>1. TimersType
  <2>1. call \in [op : {"none", "init", "sleep_ms", "sleep_us"}, arg : Nat]
    BY DEF Init, NoCall
  <2>2. lvt \in Lvts /\ cal \in Cals
    BY DEF Init, NoCal, Masked, Lvts, Cals
  <2>3. phase \in 0 .. TickLen - 1
    BY Constants DEF Init
  <2> QED  BY <2>1, <2>2, <2>3, Zenon DEF Init, TimersType, PCs
<1>2. SleepInv /\ CalInv /\ CalibrationClose /\ ProgrammedRate
  BY DEF Init, SleepInv, CalInv, Calibrating, CalibrationClose, ProgrammedRate
<1> QED  BY <1>1, <1>2 DEF TimersInv

\* A sleep of nanoseconds is one of a natural number of microseconds.
LEMMA WholeMicrosNat == \A n \in Nanos : WholeMicros(n) \in Nat
<1> SUFFICES ASSUME NEW n \in Nanos PROVE WholeMicros(n) \in Nat
  OBVIOUS
<1> DEFINE k == NanoPerMicro
<1>1. n \in Nat /\ k \in Nat /\ k > 0
  BY TimersAssumption
<1> HIDE DEF k
<1>2. n + k - 1 \in Nat
  BY <1>1
<1>3. (n + k - 1) \div k \in Nat
  BY <1>1, <1>2, Quotient
<1> QED  BY <1>3 DEF WholeMicros, k

\* The invariant is inductive.
LEMMA TimersStep == TimersInv /\ [Next]_vars => TimersInv'
<1> SUFFICES ASSUME TimersInv, [Next]_vars PROVE TimersInv'
  OBVIOUS
<1>1. CASE SleepCall
  <2>1. ASSUME NEW n \in Millis, Sleep("sleep_ms", n) PROVE TimersInv'
    <3>1. n \in Nat
      BY TimersAssumption
    <3> QED  BY <2>1, <3>1, SleepStep
  <2>2. ASSUME NEW n \in Micros, Sleep("sleep_us", n) PROVE TimersInv'
    <3>1. n \in Nat
      BY TimersAssumption
    <3> QED  BY <2>2, <3>1, SleepStep
  <2>3. ASSUME NEW n \in Nanos, Sleep("sleep_us", WholeMicros(n)) PROVE TimersInv'
    <3>1. WholeMicros(n) \in Nat
      BY WholeMicrosNat
    <3> QED  BY <2>3, <3>1, SleepStep
  <2> QED  BY <1>1, <2>1, <2>2, <2>3 DEF SleepCall
<1>2. CASE UNCHANGED vars
  <2>1. /\ phase' = phase /\ pending' = pending /\ ticks' = ticks /\ active' = active
        /\ pc' = pc /\ call' = call /\ target' = target /\ elapsed' = elapsed
        /\ lvt' = lvt /\ divider' = divider /\ initial' = initial /\ age' = age
        /\ apicFreq' = apicFreq /\ hz' = hz /\ cal' = cal /\ rate' = rate
    BY <1>2 DEF vars, pit, thread, lapic
  <2>2. TimersType /\ SleepInv /\ CalInv /\ CalibrationClose /\ ProgrammedRate
    BY DEF TimersInv
  <2>3. Edges' = Edges /\ Asked' = Asked /\ Calibrating' = Calibrating
    BY <2>1 DEF Edges, Asked, Calibrating
  <2>4. TimersType'
    BY <2>1, <2>2 DEF TimersType
  <2>5. SleepInv'
    BY <2>1, <2>2, <2>3 DEF SleepInv
  <2>6. CalInv'
    BY <2>1, <2>2, <2>3, ZenonT(30) DEF CalInv
  <2>7. CalibrationClose' /\ ProgrammedRate'
    BY <2>1, <2>2 DEF CalibrationClose, ProgrammedRate, TickedFreq
  <2> QED  BY <2>4, <2>5, <2>6, <2>7 DEF TimersInv
<1>3. CASE Running
  BY <1>3, SleepLoopStep, CalibrateArmStep, ReadStep, CalibrateEndsStep DEF Running
<1> QED  BY <1>1, <1>2, <1>3, ClockStep, TickStep, LapicStep, SleepLoopStep DEF Next

\* The ticks of a sleep that fits 32 bits are at most one short of its time.
LEMMA AskedCovers ==
  ASSUME NEW op \in {"sleep_ms", "sleep_us"}, NEW n \in Nat, n * Freq < W32
  PROVE  /\ PerSec(op) \in Nat /\ PerSec(op) > 0
         /\ n * TickedSecond < ((SleepTicks(op, n) + 1) * TickLen) * PerSec(op)
         /\ op = "sleep_ms" => SleepTicks(op, n) = n
<1> DEFINE f == Freq
           l == TickLen
           p == PerSec(op)
           x == n * f
           s == SleepTicks(op, n)
<1>1. f \in Nat /\ f > 0 /\ l \in Nat /\ l > 0 /\ MilliPerSec = f /\ TickedSecond = l * f
      /\ W32 \in Nat /\ x \in Nat /\ x < W32
  BY Constants
<1>2. p \in Nat /\ p > 0 /\ (op = "sleep_ms" => p = f)
  BY <1>1, Constants DEF PerSec
<1>3. s = (x % W32) \div p
  BY DEF SleepTicks
<1> HIDE DEF p, x
<1>4. x % W32 = x
  BY <1>1
<1>5. s \in Nat /\ x < (s + 1) * p
  BY <1>1, <1>2, <1>3, <1>4, Quotient
<1>6. op = "sleep_ms" => s = n
  BY <1>1, <1>2, <1>3, <1>4, QuotientExact DEF x
<1> HIDE DEF s, l, f
<1>7. x * l < ((s + 1) * p) * l
  <2>1. (s + 1) * p \in Int
    BY <1>2, <1>5
  <2> QED  BY <1>1, <1>5, <2>1, MulLt
<1>8. x * l = n * (l * f)
  BY <1>1 DEF x
<1>9. ((s + 1) * p) * l = ((s + 1) * l) * p
  BY <1>1, <1>2, <1>5
<1>10. n * (l * f) < ((s + 1) * l) * p
  BY <1>7, <1>8, <1>9
<1> QED  BY <1>1, <1>2, <1>6, <1>10 DEF p, s, l

\* What the invariant says of a sleep that returns.
LEMMA SleepsFromInv == TimersInv => SleepsLongEnough
<1> SUFFICES ASSUME TimersInv, pc = "returned", call.op # "init", active, call.arg * Freq < W32
             PROVE  /\ (elapsed + 2 * TickLen) * PerSec(call.op) > call.arg * TickedSecond
                    /\ call.op = "sleep_ms" => UptimeSlept >= call.arg
  BY DEF SleepsLongEnough
<1> DEFINE l == TickLen
           s == Asked
           t == target - Asked
           p == PerSec(call.op)
           m == call.arg * TickedSecond
<1>1. /\ call.op \in {"sleep_ms", "sleep_us"} /\ call.arg \in Nat
      /\ ticks \in Nat /\ target \in Nat /\ elapsed \in Nat /\ phase \in Nat /\ pending \in BOOLEAN
  BY DEF TimersInv, TimersType, SleepInv
<1>2. /\ t \in Nat /\ target <= MaxTicks /\ ticks >= target
      /\ elapsed = MaxElapsed \/ Lapse(Edges, t, phase) < elapsed + l
  BY DEF TimersInv, SleepInv
<1>3. l \in Nat /\ l > 0 /\ MaxTicks \in Nat /\ MaxElapsed = MaxTicks * l
      /\ Freq \in Nat /\ Freq > 0 /\ MilliPerSec = Freq /\ TickedSecond \in Nat
  <2>1. TickedSecond \in Nat
    BY Constants
  <2> QED  BY <2>1, Constants
<1>4. /\ p \in Nat /\ p > 0 /\ m < ((s + 1) * l) * p
      /\ call.op = "sleep_ms" => s = call.arg
  BY <1>1, AskedCovers DEF Asked
<1>5. s \in Nat
  BY <1>1, SleepTicksNat DEF Asked
<1>6. m \in Int
  BY <1>1, <1>3
<1>7. Edges \in Nat /\ Edges >= ticks
  BY <1>1 DEF Edges
<1>8. target = t + s
  BY <1>1, <1>5
<1>9. (s + 1) * l = s * l + l /\ s * l \in Nat
  BY <1>3, <1>5
<1>10. Lapse(Edges, t, phase) = (Edges - t) * l + phase
  BY DEF Lapse
<1> HIDE DEF l, s, t, m, p
<1>11. (s + 1) * l < elapsed + 2 * l
  <2>1. CASE elapsed = MaxElapsed
    <3>1. s <= MaxTicks
      BY <1>2, <1>3, <1>5, <1>8
    <3>2. s * l <= MaxTicks * l
      BY <1>3, <1>5, <3>1, MulLe
    <3> QED  BY <1>1, <1>3, <1>9, <2>1, <3>2
  <2>2. CASE elapsed # MaxElapsed
    <3>1. s <= Edges - t /\ Edges - t \in Int
      BY <1>1, <1>2, <1>5, <1>7, <1>8
    <3>2. s * l <= (Edges - t) * l
      BY <1>3, <1>5, <3>1, MulLe
    <3>3. (Edges - t) * l \in Int
      BY <1>3, <3>1
    <3> QED  BY <1>1, <1>2, <1>3, <1>9, <1>10, <2>2, <3>2, <3>3
  <2> QED  BY <2>1, <2>2
<1>12. (elapsed + 2 * l) * p > m
  <2> DEFINE u == (s + 1) * l
             v == elapsed + 2 * l
  <2>1. u \in Int /\ v \in Int /\ u < v /\ m < u * p
    BY <1>1, <1>3, <1>4, <1>9, <1>11
  <2> HIDE DEF u, v
  <2>2. u * p < v * p /\ u * p \in Int /\ v * p \in Int
    BY <1>4, <2>1, MulLt
  <2>3. v * p > m
    BY <1>6, <2>1, <2>2
  <2> QED  BY <2>3 DEF v
<1>13. ASSUME call.op = "sleep_ms" PROVE UptimeSlept >= call.arg
  <2>1. Uptime(ticks, MilliPerSec) = ticks /\ Uptime(t, MilliPerSec) = t
    BY <1>1, <1>2, <1>3, QuotientExact DEF Uptime
  <2>2. UptimeSlept = ticks - t
    BY <2>1 DEF UptimeSlept, t, Asked
  <2> QED  BY <1>1, <1>2, <1>4, <1>5, <1>8, <1>13, <2>2
<1> QED  BY <1>12, <1>13 DEF l, m, p

\* The invariant holds throughout.
LEMMA TimersInvariant == Spec => []TimersInv
<1> QED  BY TimersInitially, TimersStep, PTL DEF Spec

\* A sleep of any length whose product fits 32 bits is less than two ticks
\* short of its time as the ticks count it, PitFreq % Freq cycles a second less
\* than real time, and sleep_ms never short by the uptime, whatever the
\* interrupts do.
THEOREM SleepsCorrect == Spec => []SleepsLongEnough
<1> QED  BY TimersInvariant, SleepsFromInv, PTL

\* Whatever the rate of the bus, wherever in a tick the calibration's reads
\* fall, and with ticks between them: as long as no two reads are more than a
\* Lag below the length of a tick apart, its result is off by less than a tick
\* and two Lags.
THEOREM CalibrationCorrect == Spec => []CalibrationClose
<1>1. TimersInv => CalibrationClose
  BY DEF TimersInv
<1> QED  BY <1>1, TimersInvariant, PTL

\* set_frequency programs what it was asked for, for every calibrated
\* frequency and every rate.
THEOREM ProgrammedCorrect == Spec => []ProgrammedRate
<1>1. TimersInv => ProgrammedRate
  BY DEF TimersInv
<1> QED  BY <1>1, TimersInvariant, PTL
=============================================================================
