------------------------------- MODULE Timing -------------------------------
(***************************************************************************)
(* The timing packages of the malloc lab (fsecs.c, fcyc.c, clock.c and     *)
(* ftimer.c).  MDriver composes them with the function that is timed: it   *)
(* calls fsecs, runs the function from BeginRun to EndRun until a result   *)
(* is there.  Which package is used is decided in config.h.                *)
(*                                                                         *)
(* Time is counted in cycles for fcyc, in microseconds for the others; the *)
(* averages over the runs and the conversions to seconds, which only       *)
(* divide by a constant, are left out.                                     *)
(***************************************************************************)
EXTENDS Integers, Sequences, SequencesExt

CONSTANTS Builds,        \* subset of USE_FCYC, USE_ITIMER and USE_GETTOD
          Word,          \* the cycle counter has two words of this many values
          Second,        \* microseconds in a second
          Starts,        \* what the clocks may show when fsecs is called
          Durations,     \* of one run
          TickCosts,     \* cycles that a timer interrupt takes
          Runs,          \* fsecs: the n of the timers
          kbest, maxsamples, NEVENT, RECORDTHRESH,
          Closeness      \* 1 / epsilon

\* A run is over before the two words of the counter are back where they were
ASSUME TimingAssumption ==
  /\ Word \in Nat \ {0} /\ Second \in Nat \ {0} /\ kbest \in Nat \ {0}
  /\ RECORDTHRESH \in Nat
  /\ Starts \subseteq Nat /\ Durations \subseteq Nat /\ TickCosts \subseteq Nat
  /\ \A duration \in Durations, cost \in TickCosts : duration + cost < Word * Word

MAX_ETIME == 86400

VARIABLES build,
          now, began,          \* the time, and when fsecs was called
          cyc,                 \* cyc_hi and cyc_lo
          cyc_per_tick,
          values, samplecount, \* of the sampler
          runs,                \* of the timers
          result,
          samples              \* how long each sample took (history)

timing == <<build, now, began, cyc, cyc_per_tick, values, samplecount, runs, result, samples>>

none == -1

TimingInit ==
  /\ build \in Builds
  /\ now = 0 /\ began = 0 /\ cyc = [hi |-> 0, lo |-> 0] /\ cyc_per_tick = 0
  /\ values = <<>> /\ samplecount = 0 /\ runs = 0 /\ result = none /\ samples = <<>>

-----------------------------------------------------------------------------
\* clock.c: the cycle counter
access_counter(t) == [hi |-> (t \div Word) % Word, lo |-> t % Word]

\* Mutant: the high words are subtracted without looking at the low ones
get_counter_NoBorrow(from, to) ==
  ((to.hi - from.hi) % Word) * Word + ((to.lo - from.lo) % Word)

get_counter(from, to) ==
  LET lo == (to.lo - from.lo) % Word
      borrow == IF lo > to.lo THEN 1 ELSE 0
  IN  ((to.hi - from.hi - borrow) % Word) * Word + lo

\* callibrate, with the cycles per tick of its events: the least above the
\* threshold, 0 without one
callibrate(events) ==
  LET recorded == {cpt \in ToSet(events) : cpt > RECORDTHRESH}
  IN  IF recorded = {} THEN 0 ELSE CHOOSE cpt \in recorded : \A other \in recorded : cpt <= other

\* ftimer.c: the wall clock and the interval timer, which counts down
timeval(t) == [sec |-> t \div Second, usec |-> t % Second]
gettod_diff(stv, etv) == Second * (etv.sec - stv.sec) + (etv.usec - stv.usec)
it_value(t) == timeval(MAX_ETIME * Second - (t - began))
get_etime(r_curr) == Second * (MAX_ETIME - r_curr.sec) + (0 - r_curr.usec)

\* fcyc.c: the insertion sort of add_sample, which exchanges the value at pos
\* with those before it while they are larger
Sink(vs, pos) ==
  LET place == CHOOSE k \in 1 .. pos : /\ \A j \in k .. pos - 1 : vs[j] > vs[pos]
                                       /\ k > 1 => vs[k - 1] <= vs[pos]
  IN  [j \in DOMAIN vs |-> IF j = place THEN vs[pos]
                           ELSE IF j \in place + 1 .. pos THEN vs[j - 1] ELSE vs[j]]

add_sample(val) ==
  IF samplecount < kbest THEN Sink(Append(values, val), samplecount + 1)
  ELSE IF val < values[kbest] THEN Sink([values EXCEPT ![kbest] = val], kbest)
  ELSE values

has_converged(vs, count) ==
  count >= kbest /\ (Closeness + 1) * vs[1] >= Closeness * vs[kbest]

-----------------------------------------------------------------------------
\* fsecs is called: init_sampler, or the first reading of a timer
fsecs == /\ now' \in Starts /\ began' = now'
         /\ values' = <<>> /\ samplecount' = 0 /\ runs' = 0
         /\ result' = none /\ samples' = <<>>
         /\ UNCHANGED <<build, cyc, cyc_per_tick>>

\* Before each run: start_comp_counter
BeginRun ==
  /\ result = none
  /\ IF build = "USE_FCYC"
     THEN /\ cyc' = access_counter(now)
          /\ IF cyc_per_tick = 0
             THEN \E events \in [1 .. NEVENT -> TickCosts] : cyc_per_tick' = callibrate(events)
             ELSE UNCHANGED cyc_per_tick
     ELSE UNCHANGED <<cyc, cyc_per_tick>>
  /\ UNCHANGED <<build, now, began, values, samplecount, runs, result, samples>>

\* A run took so long, ticks interrupts included; get_comp_counter
Sampled(duration, ticks) ==
  /\ samples' = Append(samples, duration - ticks * cyc_per_tick)
  /\ values' = add_sample(get_counter(cyc, access_counter(now')) - ticks * cyc_per_tick)
  /\ samplecount' = samplecount + 1
  /\ result' = IF has_converged(values', samplecount') \/ samplecount' >= maxsamples
               THEN values'[1] ELSE none
  /\ UNCHANGED runs

Timed ==
  /\ runs' = runs + 1
  /\ result' = IF runs' < Runs THEN none
               ELSE IF build = "USE_ITIMER" THEN get_etime(it_value(now'))
               ELSE gettod_diff(timeval(began), timeval(now'))
  /\ UNCHANGED <<values, samplecount, samples>>

EndRun ==
  \E duration \in Durations, ticks \in {0, 1}, cost \in TickCosts :
    /\ now' = now + duration + ticks * cost
    /\ IF build = "USE_FCYC" THEN Sampled(duration + ticks * cost, ticks)
       ELSE ticks = 0 /\ Timed
    /\ UNCHANGED <<build, began, cyc, cyc_per_tick>>

\* The result is given back, and values is freed
Done == /\ result # none
        /\ now' = 0 /\ began' = 0 /\ cyc' = [hi |-> 0, lo |-> 0]
        /\ values' = <<>> /\ samplecount' = 0 /\ runs' = 0
        /\ result' = none /\ samples' = <<>>
        /\ UNCHANGED <<build, cyc_per_tick>>

-----------------------------------------------------------------------------
\* What the sampler should keep: the kbest least samples, as they were and not
\* as a counter of two words shows them, in their order
HoldsLeast ==
  /\ Len(values) = IF Len(samples) < kbest THEN Len(samples) ELSE kbest
  /\ \A j, k \in DOMAIN values : j < k => values[j] <= values[k]
  /\ \E place \in Injection(DOMAIN values, DOMAIN samples) :
       /\ \A k \in DOMAIN values : values[k] = samples[place[k]]
       /\ \A n \in DOMAIN samples \ Range(place), k \in DOMAIN values : values[k] <= samples[n]

\* What fsecs returns is the time that has passed between its two readings; for
\* fcyc, the least sample, of which values keeps the kbest least (fcyc.c:67,
\* clock.c:53, ftimer.c:50 and 100).
MeasuredIsElapsed ==
  IF build = "USE_FCYC" THEN HoldsLeast /\ (result # none => result = values[1])
  ELSE result # none => result = now - began

=============================================================================
