---------------------------- MODULE TraceSummary ----------------------------
(***************************************************************************)
(* summarize_perf_trace.py and summarize_soak_trace.py: what they report   *)
(* of a window of a frame-cadence trace, of an audio trace and of a trace  *)
(* of the resident memory.                                                 *)
(*                                                                         *)
(* A trace is a sequence of rows in the order of the file, a window of it  *)
(* the family of its rows under their numbers in the trace.  A cadence row *)
(* is [ms, interval, frames, presents, mean, longest, late]: the session   *)
(* time at its end, its wall interval, presented frames, intervals between *)
(* presents with their mean and maximum, and how many of them were late;   *)
(* input polls and screen updates are summed like frames, and the two      *)
(* thresholds of lateness alike.  An audio record is [ms, gap, queue,      *)
(* peak, errors], a memory row [ms, rss].  A quotient is the pair          *)
(* <<numerator, denominator>>.                                             *)
(***************************************************************************)
EXTENDS Integers, Sequences, Functions, FiniteSetsExt

CONSTANTS
  Open,        \* no bound on this side of the window
  NothingThere \* ValueError: the window selects no usable row

ASSUME OpenAssumption == Open \notin Int

SumOf(Field(_), rows) == SumFunction([k \in DOMAIN rows |-> Field(rows[k])])
MaxOf(Field(_), rows) == Max({Field(row) : row \in Range(rows)})

Count(rows)    == Cardinality(DOMAIN rows)
FirstRow(rows) == rows[Min(DOMAIN rows)]
LastRow(rows)  == rows[Max(DOMAIN rows)]

\* Slip: the last row of the window is left out.
MutInWindow(row, from, to) == (from = Open \/ from <= row.ms) /\ (to = Open \/ row.ms < to)

\* load_rows, load_audio_records, load_memory_rows: both ends belong to it.
InWindow(row, from, to) == (from = Open \/ from <= row.ms) /\ (to = Open \/ row.ms <= to)

Selected(rows, from, to) == RestrictValues(rows, LAMBDA row : InWindow(row, from, to))

Weight(row) == row.presents * row.mean

Quotient(a, b) == IF b = 0 THEN <<0, 1>> ELSE <<a, b>>

\* summarize of summarize_perf_trace.py.
Cadence(rows) ==
  LET interval == SumOf(LAMBDA r : r.interval, rows)
      presents == SumOf(LAMBDA r : r.presents, rows)
      late     == SumOf(LAMBDA r : r.late, rows)
  IN  IF DOMAIN rows = {} \/ interval <= 0 THEN NothingThere
      ELSE [rows |-> Count(rows), start |-> FirstRow(rows).ms, end |-> LastRow(rows).ms,
            hz |-> <<SumOf(LAMBDA r : r.frames, rows) * 1000, interval>>,
            presents |-> presents, mean |-> Quotient(SumOf(Weight, rows), presents),
            longest |-> MaxOf(LAMBDA r : r.longest, rows),
            late |-> late, lateness |-> Quotient(late * 100, presents)]

\* Slip: the queue is that of the first record.
MutLatestQueue(rows) == FirstRow(rows).queue

LatestQueue(rows) == LastRow(rows).queue

Exceeds(row, ms) == IF row.gap > 1000 * ms THEN 1 ELSE 0

\* summarize_audio: 50 and 100 ms, in microseconds.
Audio(rows) ==
  IF DOMAIN rows = {} THEN NothingThere
  ELSE [rows |-> Count(rows), start |-> FirstRow(rows).ms, end |-> LastRow(rows).ms,
        longest |-> MaxOf(LAMBDA r : r.gap, rows),
        over50 |-> SumOf(LAMBDA r : Exceeds(r, 50), rows),
        over100 |-> SumOf(LAMBDA r : Exceeds(r, 100), rows),
        queue |-> LatestQueue(rows), peak |-> MaxOf(LAMBDA r : r.peak, rows),
        errors |-> SumOf(LAMBDA r : r.errors, rows)]

\* Slip: the products are taken without the mean.
MutCovariance(rows) == SumOf(LAMBDA r : r.ms * r.rss, rows)

\* The sums around the means, times the number of rows.
Covariance(rows) ==
  Count(rows) * SumOf(LAMBDA r : r.ms * r.rss, rows)
    - SumOf(LAMBDA r : r.ms, rows) * SumOf(LAMBDA r : r.rss, rows)
Variance(rows) ==
  Count(rows) * SumOf(LAMBDA r : r.ms * r.ms, rows)
    - SumOf(LAMBDA r : r.ms, rows) * SumOf(LAMBDA r : r.ms, rows)

\* summarize_memory; the slope in KiB per millisecond.
Memory(rows) ==
  IF DOMAIN rows = {} THEN NothingThere
  ELSE [rows |-> Count(rows), start |-> FirstRow(rows).ms, end |-> LastRow(rows).ms,
        first |-> FirstRow(rows).rss, last |-> LastRow(rows).rss,
        least |-> Min({r.rss : r \in Range(rows)}), most |-> MaxOf(LAMBDA r : r.rss, rows),
        delta |-> LastRow(rows).rss - FirstRow(rows).rss,
        slope |-> Quotient(Covariance(rows), Variance(rows))]

=============================================================================
