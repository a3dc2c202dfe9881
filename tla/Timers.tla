------------------------------- MODULE Timers -------------------------------
(***************************************************************************)
(* The clients of the tick counter: PIT sleeps and uptime (pit.cc,         *)
(* sys/timer.cc) and the calibration and programming of the local APIC     *)
(* timer (lapic.cc).  One processor runs one call at a time with           *)
(* interrupts enabled; a Clock step is one cycle of the PIT's oscillator,  *)
(* whose line rises every TickLen cycles.                                  *)
(***************************************************************************)
EXTENDS Integers, FiniteSetsExt

CONSTANTS
  PitFreq,            \* PIT_FREQUENCY, cycles per second (1193182)
  Freq,               \* PIT_TARGET_FREQUENCY, ticks per second (1000)
  MilliPerSec,        \* 1000
  MicroPerSec,        \* 1000000
  W32,                \* 2^32, the width of u32
  CalibrationTicks,   \* CALIBRATION_MS (10)
  Lag,                \* most cycles from one of the calibration's reads to the next
  Dividers,           \* 1, 2, 4 .. 128
  BusRates,           \* APIC counts per cycle the hardware may have
  Millis, Micros,     \* arguments of sleep_ms and sleep_us
  Nanos, NanoPerMicro,\* arguments of sleep_ns; 1000
  Vectors, Modes,     \* arguments of LAPIC::Timer::init
  Targets,            \* arguments of LAPIC::Timer::set_frequency
  MaxTicks            \* bound on ticks_since_boot

\* The divisor; PitFreq % Freq cycles of each second are left out (182).
TickLen == PitFreq \div Freq
MaxElapsed == MaxTicks * TickLen

ASSUME TimersAssumption ==
  /\ Freq \in Nat \ {0} /\ MilliPerSec = Freq /\ MicroPerSec \in Nat \ {0}
  /\ PitFreq \in Nat /\ PitFreq >= Freq
  /\ CalibrationTicks \in 1..Freq /\ W32 \in Nat \ {0}
  /\ Lag \in Nat /\ Lag < TickLen
  /\ Dividers \subseteq 1..(W32 - 1) /\ 1 \in Dividers
  /\ \E d \in Dividers : MilliPerSec <= CalibrationTicks * d
  /\ \A d \in Dividers : d * d <= W32
  /\ Millis \cup Micros \cup Nanos \subseteq Nat /\ NanoPerMicro \in Nat \ {0}
  /\ MaxTicks \in Nat
  /\ Targets \subseteq 1..(W32 - 1) /\ Vectors \subseteq Nat /\ BusRates \subseteq Nat \ {0}
  /\ \A r \in BusRates : r * (CalibrationTicks * TickLen + 4 * Lag) < W32

VARIABLES
  phase,      \* time since the last edge of the timer line
  pending,    \* a timer interrupt is requested and not yet taken
  ticks,      \* ticks_since_boot
  active,     \* active_timer = PIT (and both timer_frequency are set)
  pc, call,   \* where the running call stands, and which call it is
  target,     \* target_ticks / target_pit_ticks
  elapsed,    \* time since the call began, up to MaxElapsed
  lvt,        \* LAPIC timer entry: vector, mode, masked
  divider, initial, age,  \* divide register, initial count, time since a calibration wrote it
  apicFreq,   \* apic_timer_frequency
  hz,         \* the rate last asked of set_frequency since a calibration, 0 for none
  cal,        \* locals of calibrate_frequency, and the ages at its reads of the count
  rate        \* hardware: APIC counts per cycle

pit == <<phase, pending, ticks, active>>
thread == <<pc, call, target, elapsed>>
lapic == <<lvt, divider, initial, age, apicFreq, hz, cal>>
vars == <<pit, thread, lapic, rate>>

NoCall == [op |-> "none", arg |-> 0]
Masked == [vector |-> 0, mode |-> "one_shot", masked |-> TRUE]
NoCal == [start |-> 0, end |-> 0, ticks |-> 0, lvt |-> Masked, startAge |-> 0, endAge |-> 0]
Calibrating == pc \in {"cal_start", "cal_ticks", "spin", "cal_done"}

Init ==
  /\ phase = 0 /\ pending = FALSE /\ ticks = 0 /\ active = FALSE
  /\ pc = "idle" /\ call = NoCall /\ target = 0 /\ elapsed = 0
  /\ lvt = Masked /\ divider = 1 /\ initial = 0 /\ age = 0 /\ apicFreq = 0 /\ hz = 0
  /\ cal = NoCal
  /\ rate \in BusRates

-----------------------------------------------------------------------------
(* The hardware.  An edge while the last one is still pending is lost.       *)

\* The code around the calibration's loop goes from one read to the next within
\* Lag cycles, interrupts included, and while it spins an edge is taken, and the
\* one that ends the loop followed by end_count's read, within Lag cycles.
Prompt ==
  \/ pc = "cal_start" /\ age >= Lag
  \/ pc = "cal_ticks" /\ age >= cal.startAge + Lag
  \/ pc = "spin" /\ (pending \/ ticks >= target) /\ phase >= Lag
  \/ pc = "cal_done" /\ age >= cal.endAge + Lag

\* Bound: the ticks left for the rest of a call.
Reserve ==
  IF pc \in {"idle", "arm", "cal_start", "cal_ticks"} THEN CalibrationTicks + 1
  ELSE IF pc = "hlt" THEN 1 ELSE 0

Clock ==
  /\ ~Prompt
  /\ ticks + Reserve < MaxTicks
  /\ phase' = (phase + 1) % TickLen
  /\ pending' = (pending \/ phase + 1 = TickLen)
  /\ elapsed' = IF pc = "idle" \/ elapsed = MaxElapsed THEN elapsed ELSE elapsed + 1
  /\ age' = IF Calibrating THEN age + 1 ELSE age
  /\ UNCHANGED <<ticks, active, pc, call, target, lvt, divider, initial, apicFreq, hz, cal, rate>>

CurrentCount == IF rate * age >= initial THEN 0 ELSE initial - rate * age

\* After any interrupt a halted processor goes on behind hlt.
Woken == IF pc = "halted" THEN "check" ELSE pc

\* Timer_Handle -> PIT::tick.
Tick ==
  /\ pending
  /\ pending' = FALSE /\ ticks' = ticks + 1
  /\ pc' = Woken
  /\ UNCHANGED <<phase, active, call, target, elapsed, lapic, rate>>

\* Some other interrupt: its handler touches none of this state.
OtherInterrupt ==
  /\ pc = "halted" /\ pc' = "check"
  /\ UNCHANGED <<pit, call, target, elapsed, lapic, rate>>

-----------------------------------------------------------------------------
(* PIT and Sys::Timer.  With interrupts enabled a pending one is taken       *)
(* before the next instruction, so instructions run only when none is.       *)

TimerInit ==
  /\ pc = "idle" /\ ~pending /\ ~active
  /\ active' = TRUE
  /\ UNCHANGED <<phase, pending, ticks, thread, lapic, rate>>

\* get_uptime_ms / get_uptime_us: t ticks in units of 1/unit second.
Uptime(t, unit) == IF active THEN (t * unit) \div Freq ELSE 0

\* sleep_ns rounds up to microseconds, at least one.
WholeMicros(ns) == IF ns = 0 THEN 1 ELSE (ns + NanoPerMicro - 1) \div NanoPerMicro

PerSec(op) == IF op = "sleep_ms" THEN MilliPerSec ELSE MicroPerSec

\* Mutant: divides before it multiplies.
SleepTicksCoarse(op, n) == ((n \div PerSec(op)) * Freq) % W32

\* The u32 product, divided.
SleepTicks(op, n) == ((n * Freq) % W32) \div PerSec(op)

\* Sys::Timer::sleep_ms / sleep_us: without an active timer nothing is waited for.
Sleep(op, n) ==
  /\ pc = "idle" /\ ~pending
  /\ ticks + SleepTicks(op, n) < MaxTicks
  /\ call' = [op |-> op, arg |-> n] /\ elapsed' = 0
  /\ target' = IF active THEN ticks + SleepTicks(op, n) ELSE ticks
  /\ pc' = IF active THEN "check" ELSE "returned"
  /\ UNCHANGED <<pit, lapic, rate>>

\* Mutant: waits for the exact tick.
SleepCheckExact ==
  /\ pc = "check" /\ ~pending
  /\ pc' = IF ticks # target THEN "hlt" ELSE "returned"
  /\ UNCHANGED <<pit, call, target, elapsed, lapic, rate>>

SleepCheck ==
  /\ pc = "check" /\ ~pending
  /\ pc' = IF ticks < target THEN "hlt" ELSE "returned"
  /\ UNCHANGED <<pit, call, target, elapsed, lapic, rate>>

\* A tick that came since the test does not keep the processor from halting.
Hlt ==
  /\ pc = "hlt" /\ ~pending
  /\ pc' = "halted"
  /\ UNCHANGED <<pit, call, target, elapsed, lapic, rate>>

Return ==
  /\ pc = "returned" /\ ~pending
  /\ pc' = "idle" /\ call' = NoCall /\ target' = 0 /\ elapsed' = 0 /\ cal' = NoCal /\ age' = 0
  /\ UNCHANGED <<pit, lvt, divider, initial, apicFreq, hz, rate>>

-----------------------------------------------------------------------------
(* LAPIC::Timer. *)

\* init up to the first write of the LVT, which leaves it unmasked.
LapicInit(vector, mode, div) ==
  /\ pc = "idle" /\ ~pending /\ active
  /\ ticks + CalibrationTicks < MaxTicks
  /\ pc' = "arm" /\ call' = [op |-> "init", arg |-> 0] /\ elapsed' = 0
  /\ divider' = div
  /\ lvt' = [vector |-> vector, mode |-> mode, masked |-> FALSE]
  /\ hz' = 0
  /\ UNCHANGED <<pit, target, initial, age, apicFreq, cal, rate>>

\* calibrate_frequency: divider 1, LVT saved and masked, the count started.
CalibrateArm ==
  /\ pc = "arm" /\ ~pending
  /\ pc' = "cal_start"
  /\ divider' = 1 /\ lvt' = Masked /\ cal' = [cal EXCEPT !.lvt = lvt]
  /\ initial' = W32 - 1 /\ age' = 0
  /\ UNCHANGED <<pit, call, target, elapsed, apicFreq, hz, rate>>

ReadStart ==
  /\ pc = "cal_start" /\ ~pending
  /\ pc' = "cal_ticks" /\ cal' = [cal EXCEPT !.start = CurrentCount, !.startAge = age]
  /\ UNCHANGED <<pit, call, target, elapsed, lvt, divider, initial, age, apicFreq, hz, rate>>

ReadTicks ==
  /\ pc = "cal_ticks" /\ ~pending
  /\ pc' = "spin" /\ cal' = [cal EXCEPT !.ticks = ticks]
  /\ target' = ticks + CalibrationTicks
  /\ UNCHANGED <<pit, call, elapsed, lvt, divider, initial, age, apicFreq, hz, rate>>

\* The spin loop is left once the target is reached; end_count is read next.
SpinEnds ==
  /\ pc = "spin" /\ ~pending /\ ticks >= target
  /\ pc' = "cal_done" /\ cal' = [cal EXCEPT !.end = CurrentCount, !.endAge = age]
  /\ UNCHANGED <<pit, call, target, elapsed, lvt, divider, initial, age, apicFreq, hz, rate>>

\* Mutant: takes the counter to count up.
CalibrateEndsUpwards ==
  /\ pc = "cal_done" /\ ~pending
  /\ apicFreq' = (((cal.end - cal.start) % W32) * MilliPerSec) \div (ticks - cal.ticks)
  /\ lvt' = [cal.lvt EXCEPT !.masked = FALSE]
  /\ pc' = "returned"
  /\ UNCHANGED <<pit, call, target, elapsed, divider, initial, age, hz, cal, rate>>

\* A tick since end_count was read counts too.  Back in init: the frequency is stored and enable() clears the mask bit.
CalibrateEnds ==
  /\ pc = "cal_done" /\ ~pending
  /\ LET actual == ticks - cal.ticks
         apicTicks == (cal.start - cal.end) % W32
     IN apicFreq' = IF actual = 0 THEN 0 ELSE (apicTicks * MilliPerSec) \div actual
  /\ lvt' = [cal.lvt EXCEPT !.masked = FALSE]
  /\ pc' = "returned"
  /\ UNCHANGED <<pit, call, target, elapsed, divider, initial, age, hz, cal, rate>>

\* The divider search: only when the count does not fit with divider 1.
Counts(t) == [d \in Dividers |-> apicFreq \div (IF d = 1 THEN t ELSE (t * d) % W32)]
Fitting(t) == {d \in Dividers : Counts(t)[d] < W32}
DividerFor(t) ==
  IF apicFreq \div t < W32 THEN 1
  ELSE IF Fitting(t) # {} THEN Min(Fitting(t)) ELSE Max(Dividers)
\* Mutant: the count of divider 1 is truncated to 32 bits.
CountForTruncated(t) == (apicFreq \div t) % W32
CountFor(t) ==
  IF apicFreq \div t < W32 THEN apicFreq \div t
  ELSE IF Fitting(t) # {} THEN Counts(t)[Min(Fitting(t))] ELSE W32 - 1

\* set_frequency; it does nothing before a calibration.
SetFrequency(t) ==
  /\ pc = "idle" /\ ~pending /\ apicFreq # 0
  /\ divider' = DividerFor(t) /\ initial' = CountFor(t)
  /\ lvt' = [vector |-> 33, mode |-> "periodic", masked |-> FALSE]
  /\ hz' = t
  /\ UNCHANGED <<pit, thread, age, apicFreq, cal, rate>>

\* enable / unmask and disable / mask.
Mask(bit) ==
  /\ pc = "idle" /\ ~pending
  /\ lvt' = [lvt EXCEPT !.masked = bit]
  /\ UNCHANGED <<pit, thread, divider, initial, age, apicFreq, hz, cal, rate>>

-----------------------------------------------------------------------------
SleepCall ==
  \/ \E n \in Millis : Sleep("sleep_ms", n)
  \/ \E n \in Micros : Sleep("sleep_us", n)
  \/ \E n \in Nanos : Sleep("sleep_us", WholeMicros(n))
LapicCall ==
  \/ \E v \in Vectors, mode \in Modes, d \in Dividers : LapicInit(v, mode, d)
  \/ \E t \in Targets : SetFrequency(t)
  \/ \E bit \in BOOLEAN : Mask(bit)
Running ==
  \/ SleepCheck \/ Hlt \/ Return
  \/ CalibrateArm \/ ReadStart \/ ReadTicks \/ SpinEnds \/ CalibrateEnds

Next == Clock \/ Tick \/ OtherInterrupt \/ TimerInit \/ SleepCall \/ LapicCall \/ Running

\* The clock runs, a pending interrupt is taken, and the processor executes.
Fairness == WF_vars(Clock) /\ WF_vars(Tick) /\ WF_vars(Running)

Spec == Init /\ [][Next]_vars /\ Fairness

-----------------------------------------------------------------------------
\* The cycles in Freq ticks, PitFreq % Freq short of a second.
TickedSecond == PitFreq - (PitFreq % Freq)

UptimeSlept == Uptime(ticks, MilliPerSec) - Uptime(target - SleepTicks(call.op, call.arg), MilliPerSec)

\* A sleep of n units of 1/PerSec second whose product fits 32 bits lasts n
\* units but for less than two ticks, one lost to the fraction the division
\* drops and one to the tick under way when the call begins (PIT::sleep_ms,
\* PIT::sleep_us), and but for PitFreq % Freq cycles a second, by which Freq
\* ticks are short of one since the divisor is rounded down (PIT::set_frequency;
\* 9 ms a minute).  By the uptime, which is short by as much and with which
\* kern.cc measures its sleep of 100 ms, sleep_ms is never early.
SleepsLongEnough ==
  pc = "returned" /\ call.op # "init" /\ active /\ call.arg * Freq < W32 =>
    /\ (elapsed + 2 * TickLen) * PerSec(call.op) > call.arg * TickedSecond
    /\ call.op = "sleep_ms" => UptimeSlept >= call.arg

\* Every call returns: a tick that comes between the test of the tick counter and
\* hlt delays a sleep to the next one, but loses it no wake-up for good, and the
\* calibration's spin loop ends.
CallsReturn == pc # "idle" ~> pc = "idle"

\* The APIC's counts in Freq ticks, which the calibration takes for a second.
TickedFreq == rate * TickedSecond

\* The calibrated frequency is that of the counts in Freq ticks, at most two
\* Lags in CalibrationTicks ticks too high, and less than a tick and a Lag too
\* low: ticks may come between the reads of the two clocks before and after
\* the loop (calibrate_frequency), but no count is lost and none taken twice.
CalibrationClose ==
  apicFreq # 0 =>
    /\ apicFreq * CalibrationTicks
         <= TickedFreq * CalibrationTicks + rate * MilliPerSec * 2 * Lag
    /\ (apicFreq + 1) * CalibrationTicks
         > TickedFreq * (CalibrationTicks - 1) - rate * MilliPerSec * Lag

\* set_frequency programs the rate it was asked for, within one count: the
\* search always finds a divider for a calibrated frequency, its 32-bit
\* product never wraps, and the branch for a count too large is never taken.
ProgrammedRate ==
  hz # 0 => /\ initial * divider * hz <= apicFreq
            /\ apicFreq < (initial + 1) * divider * hz
=============================================================================
