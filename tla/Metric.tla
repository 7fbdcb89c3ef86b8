-------------------------------- MODULE Metric --------------------------------
(***************************************************************************)
(* Metric<T, AvgT>: the least, the greatest and the average of the values  *)
(* added so far.  The average is kept in units of 1 / scale: scale is 1    *)
(* for Metric<Duration>, whose average is a whole number of milliseconds   *)
(* and whose division truncates; for Metric<size_t, double> it is a number *)
(* that every division of an instance divides, so that it is exact.        *)
(*                                                                         *)
(* total is history, the sum of the values.                                *)
(***************************************************************************)
EXTENDS Integers, FiniteSetsExt

\* The constructor, with the default value 0 that every metric is given.
NewMetric == [min |-> 0, max |-> 0, avg |-> 0, count |-> 0, total |-> 0]

\* A mistake for the checks to catch: the values are counted after the division.
AddValueCountedLate(m, value, scale) ==
    LET distance == value * scale - m.avg
        before == IF m.count = 0 THEN 1 ELSE m.count
    IN  [min   |-> Min({value, m.min}),
         max   |-> Max({value, m.max}),
         avg   |-> IF distance > 0 THEN m.avg + distance \div before
                                   ELSE m.avg - (-distance) \div before,
         count |-> m.count + 1,
         total |-> m.total + value]

\* AddValue.  Both divisions are of a number that is not negative: the sign is
\* settled first because Duration / size_t is a division of unsigned numbers.
AddValue(m, value, scale) ==
    LET distance == value * scale - m.avg
        count == m.count + 1
    IN  [min   |-> Min({value, m.min}),
         max   |-> Max({value, m.max}),
         avg   |-> IF distance > 0 THEN m.avg + distance \div count
                                   ELSE m.avg - (-distance) \div count,
         count |-> count,
         total |-> m.total + value]

-----------------------------------------------------------------------------
\* The average is the mean, up to the truncation of scale 1: the n-th value
\* adds less than n to n times the error, so that the average is off by at most
\* (n - 1) / 2.
MeanWithin(m, scale, drift) ==
    LET error == m.avg * m.count - m.total * scale
    IN  -drift <= error /\ error <= drift

IsMean(m, scale) == MeanWithin(m, scale, 0)
IsTruncatedMean(m) == MeanWithin(m, 1, (m.count * (m.count - 1)) \div 2)
=============================================================================
