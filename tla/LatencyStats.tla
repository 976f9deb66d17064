---------------------------- MODULE LatencyStats ----------------------------
(***************************************************************************)
(* include/latency_stats.hpp and the percentiles of capture_frames.  A      *)
(* sample is a whole number of microseconds; percentiles are in hundredths  *)
(* of one, so that the interpolation is exact.                              *)
(***************************************************************************)
EXTENDS Integers, Sequences, FiniteSets

CONSTANT NotFinite   \* stands for an infinite sample or one that is no number

\* add_sample_us: what is not a latency is dropped.
add_sample_us(samples, value) ==
  IF value = NotFinite \/ value < 0 THEN samples ELSE Append(samples, value)

add_samples(values) ==
  LET kept[i \in 0 .. Len(values)] ==
        IF i = 0 THEN <<>> ELSE add_sample_us(kept[i - 1], values[i])
  IN  kept[Len(values)]

\* std::sort, for values: each one goes behind those that do not exceed it.
Inserted(sorted, value) ==
  LET before == Cardinality({i \in DOMAIN sorted : sorted[i] <= value})
  IN  [i \in 1 .. Len(sorted) + 1 |-> IF i <= before THEN sorted[i]
                                      ELSE IF i = before + 1 THEN value
                                      ELSE sorted[i - 1]]

Sorted(samples) ==
  LET sorted[i \in 0 .. Len(samples)] ==
        IF i = 0 THEN <<>> ELSE Inserted(sorted[i - 1], samples[i])
  IN  sorted[Len(samples)]

Total(samples) ==
  LET sum[i \in 0 .. Len(samples)] ==
        IF i = 0 THEN 0 ELSE sum[i - 1] + samples[i]
  IN  sum[Len(samples)]

\* Mutant: the rank is taken in n instead of n - 1 positions.
PercentileOfN(sorted, quantile) ==
  LET rank == quantile * Len(sorted)
      lower == IF rank \div 100 >= Len(sorted) THEN Len(sorted) - 1
                                               ELSE rank \div 100
  IN  100 * sorted[lower + 1]

\* quantile in hundredths; indexes count from 0 as in the code.
percentile(sorted, quantile) ==
  LET rank == quantile * (Len(sorted) - 1)
      lower == rank \div 100
      upper == (rank + 99) \div 100
      fraction == rank - 100 * lower
  IN  IF Len(sorted) = 1
        THEN 100 * sorted[1]
        ELSE 100 * sorted[lower + 1]
             + (sorted[upper + 1] - sorted[lower + 1]) * fraction

\* The mean is total / sample_count; the squared deviations are kept exact as
\* multiples of 1 / sample_count^2, so jitter^2 = deviation / sample_count^3.
snapshot(samples) ==
  LET n == Len(samples)
      sorted == Sorted(samples)
      total == Total(sorted)
      delta(i) == n * sorted[i] - total
      squares == [i \in 1 .. n |-> delta(i) * delta(i)]
  IN  IF n = 0
        THEN [sample_count |-> 0, min |-> 0, total |-> 0, p50 |-> 0,
              p95 |-> 0, p99 |-> 0, max |-> 0, deviation |-> 0]
        ELSE [sample_count |-> n, min |-> sorted[1], total |-> total,
              p50 |-> percentile(sorted, 50), p95 |-> percentile(sorted, 95),
              p99 |-> percentile(sorted, 99), max |-> sorted[n],
              deviation |-> Total(squares)]

\* The lambda percentile of capture_frames cuts the rank off instead.
CapturePercentile(sorted, quantile) ==
  100 * sorted[(quantile * (Len(sorted) - 1)) \div 100 + 1]
=============================================================================
