----------------------------- MODULE MetricsProofs -----------------------------
(***************************************************************************)
(* Proofs about MetricsCollection for any calls, servers and bounds: what  *)
(* AddValue computes step by step is the mean of what was added, and the   *)
(* counts and times that are read under different locks fit together.      *)
(***************************************************************************)
EXTENDS MetricsCollection, SumTheorems

Metrics == [min : Int, max : Int, avg : Int, count : Nat, total : Int]

\* The average lies between the least and the greatest value.
InRange(m, scale) == m.min * scale <= m.avg /\ m.avg <= m.max * scale

-----------------------------------------------------------------------------
(* Arithmetic.                                                             *)

LEMMA Division ==
    ASSUME NEW d \in Int, NEW n \in Nat \ {0}
    PROVE  /\ d \div n \in Int
           /\ (d \div n) * n <= d /\ d < (d \div n) * n + n
           /\ 0 <= d => 0 <= d \div n
OBVIOUS

LEMMA ExactDivision ==
    ASSUME NEW n \in Nat \ {0}, NEW q \in Int
    PROVE  (q * n) \div n = q
OBVIOUS

LEMMA Divides ==
    ASSUME NEW d \in Int, NEW n \in Nat \ {0}, d % n = 0
    PROVE  d = (d \div n) * n
OBVIOUS

LEMMA Cancel ==
    ASSUME NEW a \in Int, NEW b \in Int, NEW n \in Nat \ {0}, a * n = b * n
    PROVE  a = b
OBVIOUS

\* The bound of the drift grows by n with the value number n + 1.
LEMMA DriftGrows ==
    ASSUME NEW n \in Nat
    PROVE  ((n + 1) * ((n + 1) - 1)) \div 2 = (n * (n - 1)) \div 2 + n
<1>1. (n + 1) * ((n + 1) - 1) = n * (n - 1) + 2 * n
  OBVIOUS
<1>2. ASSUME NEW x \in Int PROVE (x + 2 * n) \div 2 = x \div 2 + n
  OBVIOUS
<1>3. n * (n - 1) \in Int
  OBVIOUS
<1> QED BY <1>1, <1>2, <1>3

LEMMA LeastAndGreatest ==
    ASSUME NEW a \in Int, NEW b \in Int
    PROVE  /\ Min({a, b}) \in {a, b} /\ Min({a, b}) <= a /\ Min({a, b}) <= b
           /\ Max({a, b}) \in {a, b} /\ Max({a, b}) >= a /\ Max({a, b}) >= b
<1>1. \E x \in {a, b} : \A y \in {a, b} : x <= y
  OBVIOUS
<1>2. \E x \in {a, b} : \A y \in {a, b} : x >= y
  OBVIOUS
<1>3. Min({a, b}) \in {a, b} /\ \A y \in {a, b} : Min({a, b}) <= y
  BY <1>1 DEF Min
<1>4. Max({a, b}) \in {a, b} /\ \A y \in {a, b} : Max({a, b}) >= y
  BY <1>2 DEF Max
<1> QED BY <1>3, <1>4

LEMMA Monotone ==
    ASSUME NEW a \in Int, NEW b \in Int, NEW n \in Nat, a <= b
    PROVE  a * n <= b * n
OBVIOUS

-----------------------------------------------------------------------------
(* AddValue.                                                               *)

\* What a new value does to a metric: the distance d to it is covered by 1 / n
\* of it, n the new count, up to a remainder that is less than n.
Added(m, value, d, new) ==
    /\ d \in Int
    /\ new \in Metrics
    /\ new.count = m.count + 1 /\ new.total = m.total + value
    /\ new.min = Min({value, m.min}) /\ new.max = Max({value, m.max})
    /\ \E r \in 0 .. m.count, q \in Nat :
          \/ /\ d > 0 /\ q = d \div (m.count + 1) /\ d = q * (m.count + 1) + r
             /\ new.avg = m.avg + q
          \/ /\ d <= 0 /\ q = (-d) \div (m.count + 1) /\ -d = q * (m.count + 1) + r
             /\ new.avg = m.avg - q

LEMMA NewAverage ==
    ASSUME NEW m \in Metrics, NEW value \in Int, NEW scale \in Nat \ {0}
    PROVE  Added(m, value, value * scale - m.avg, AddValue(m, value, scale))
<1> DEFINE d == value * scale - m.avg
           n == m.count + 1
           new == AddValue(m, value, scale)
<1>1. /\ m.min \in Int /\ m.max \in Int /\ m.avg \in Int /\ m.count \in Nat
      /\ m.total \in Int
  BY DEF Metrics
<1>2. d \in Int /\ n \in Nat \ {0} /\ n = m.count + 1
  BY <1>1
<1>3. new = [min |-> Min({value, m.min}), max |-> Max({value, m.max}),
             avg |-> IF d > 0 THEN m.avg + d \div n ELSE m.avg - (-d) \div n,
             count |-> n, total |-> m.total + value]
  BY DEF AddValue
<1>4. Min({value, m.min}) \in Int /\ Max({value, m.max}) \in Int
  BY <1>1, LeastAndGreatest
<1> HIDE DEF d, n
<1>5. \E r \in 0 .. m.count, q \in Nat :
        \/ d > 0 /\ q = d \div n /\ d = q * n + r /\ new.avg = m.avg + q
        \/ d <= 0 /\ q = (-d) \div n /\ -d = q * n + r /\ new.avg = m.avg - q
  <2>1. CASE d > 0
    <3> DEFINE q == d \div n
    <3>1. q \in Nat /\ q * n \in Int /\ q * n <= d /\ d < q * n + n
      BY <1>2, <2>1, Division
    <3>2. new.avg = m.avg + q
      BY <1>3, <2>1
    <3> HIDE DEF q
    <3>3. d - q * n \in 0 .. m.count /\ d = q * n + (d - q * n)
      BY <1>1, <1>2, <3>1
    <3> QED BY <2>1, <3>1, <3>2, <3>3 DEF q
  <2>2. CASE ~(d > 0)
    <3> DEFINE q == (-d) \div n
    <3>0. -d \in Int /\ 0 <= -d /\ d <= 0
      BY <1>2, <2>2
    <3>1. q \in Nat /\ q * n \in Int /\ q * n <= -d /\ -d < q * n + n
      BY <1>2, <3>0, Division
    <3>2. new.avg = m.avg - q
      BY <1>3, <2>2
    <3> HIDE DEF q
    <3>3. (-d) - q * n \in 0 .. m.count /\ -d = q * n + ((-d) - q * n)
      BY <1>1, <1>2, <3>0, <3>1
    <3> QED BY <3>0, <3>1, <3>2, <3>3 DEF q
  <2> QED BY <2>1, <2>2
<1>6. new.avg \in Int
  BY <1>1, <1>5
<1>7. new.avg = IF d > 0 THEN m.avg + d \div n ELSE m.avg - (-d) \div n
  BY <1>3
<1>8. new \in Metrics
  BY <1>1, <1>2, <1>3, <1>4, <1>6, <1>7 DEF Metrics
<1>9. /\ new.count = n /\ new.total = m.total + value
      /\ new.min = Min({value, m.min}) /\ new.max = Max({value, m.max})
  BY <1>3
<1> QED BY <1>2, <1>5, <1>8, <1>9 DEF Added, d, n

\* The average stays between least and greatest.
LEMMA AddValueInRange ==
    ASSUME NEW m \in Metrics, NEW value \in Int, NEW scale \in Nat \ {0},
           InRange(m, scale)
    PROVE  InRange(AddValue(m, value, scale), scale)
<1> DEFINE d == value * scale - m.avg
           new == AddValue(m, value, scale)
<1>1. /\ m.min \in Int /\ m.max \in Int /\ m.avg \in Int /\ m.count \in Nat
  BY DEF Metrics
<1>0. /\ value * scale \in Int /\ m.min * scale \in Int /\ m.max * scale \in Int
      /\ d = value * scale - m.avg /\ Added(m, value, d, new)
  BY <1>1, NewAverage
<1> HIDE DEF d, new
<1>2. /\ new \in Metrics
      /\ new.min = Min({value, m.min}) /\ new.max = Max({value, m.max})
      /\ d \in Int
  BY <1>0 DEF Added
<1>3. PICK r \in 0 .. m.count, q \in Nat :
          \/ d > 0 /\ d = q * (m.count + 1) + r /\ new.avg = m.avg + q
          \/ d <= 0 /\ -d = q * (m.count + 1) + r /\ new.avg = m.avg - q
  BY <1>0 DEF Added
<1>4. new.min \in Int /\ new.max \in Int /\ new.avg \in Int
  BY <1>2 DEF Metrics
<1>5. /\ new.min <= value /\ new.min <= m.min
      /\ new.max >= value /\ new.max >= m.max
  <2>1. Min({value, m.min}) <= value /\ Min({value, m.min}) <= m.min
    BY <1>1, LeastAndGreatest
  <2>2. Max({value, m.max}) >= value /\ Max({value, m.max}) >= m.max
    BY <1>1, LeastAndGreatest
  <2> QED BY <1>2, <2>1, <2>2
<1>6. /\ new.min * scale <= value * scale /\ new.min * scale <= m.min * scale
      /\ value * scale <= new.max * scale /\ m.max * scale <= new.max * scale
  BY <1>1, <1>4, <1>5, Monotone
<1>7. q <= q * (m.count + 1) /\ q * (m.count + 1) \in Int
  BY <1>1
<1>8. \/ m.avg <= new.avg /\ new.avg <= value * scale
      \/ value * scale <= new.avg /\ new.avg <= m.avg
  BY <1>0, <1>1, <1>2, <1>3, <1>7
<1>9. new.min * scale \in Int /\ new.max * scale \in Int
  BY <1>4
<1>10. new.min * scale <= new.avg /\ new.avg <= new.max * scale
  BY <1>0, <1>1, <1>4, <1>6, <1>8, <1>9 DEF InRange
<1> QED BY <1>10 DEF InRange, new

\* Metric<Duration>: the n-th division loses less than n, of n times the average.
LEMMA AddValueTruncates ==
    ASSUME NEW m \in Metrics, NEW value \in Int, IsTruncatedMean(m)
    PROVE  IsTruncatedMean(AddValue(m, value, 1))
<1> DEFINE d == value * 1 - m.avg
           new == AddValue(m, value, 1)
           drift == (m.count * (m.count - 1)) \div 2
           product == m.avg * m.count
           step(q) == q * (m.count + 1)
<1>1. /\ m.avg \in Int /\ m.count \in Nat /\ m.total \in Int
  BY DEF Metrics
<1>0. d = value - m.avg /\ Added(m, value, d, new)
  BY <1>1, NewAverage
<1>4. /\ drift \in Int /\ product \in Int
      /\ -drift <= product - m.total /\ product - m.total <= drift
  <2>1. m.count * (m.count - 1) \in Int /\ drift \in Int /\ product \in Int
        /\ m.total * 1 = m.total
    BY <1>1
  <2> QED BY <2>1 DEF IsTruncatedMean, MeanWithin
<1>5. ((m.count + 1) * ((m.count + 1) - 1)) \div 2 = drift + m.count
  BY <1>1, DriftGrows
<1>6. \A q \in Nat : /\ step(q) \in Int
                     /\ (m.avg + q) * (m.count + 1) = product + m.avg + step(q)
                     /\ (m.avg - q) * (m.count + 1) = product + m.avg - step(q)
  BY <1>1
<1> HIDE DEF d, new, drift, product
<1>2. /\ new \in Metrics /\ new.count = m.count + 1
      /\ new.total = m.total + value /\ d \in Int
  BY <1>0 DEF Added
<1>3. PICK r \in 0 .. m.count, q \in Nat :
          \/ d > 0 /\ d = step(q) + r /\ new.avg = m.avg + q
          \/ d <= 0 /\ -d = step(q) + r /\ new.avg = m.avg - q
  BY <1>0 DEF Added
<1> HIDE DEF step
<1>7. \/ /\ d = step(q) + r
         /\ new.avg * (m.count + 1) = product + m.avg + step(q)
      \/ /\ -d = step(q) + r
         /\ new.avg * (m.count + 1) = product + m.avg - step(q)
  BY <1>3, <1>6
<1>8. step(q) \in Int
  BY <1>6
<1>9. /\ new.avg * (m.count + 1) - new.total \in Int
      /\ -(drift + m.count) <= new.avg * (m.count + 1) - new.total
      /\ new.avg * (m.count + 1) - new.total <= drift + m.count
  BY <1>0, <1>1, <1>2, <1>4, <1>7, <1>8
<1>10. new.total * 1 = new.total
  BY <1>1, <1>2
<1> QED BY <1>2, <1>5, <1>9, <1>10 DEF IsTruncatedMean, MeanWithin, new

\* Nothing is lost when the distance to the value is divisible by the count.
LEMMA AddValueDivides ==
    ASSUME NEW m \in Metrics, NEW value \in Int, NEW scale \in Nat \ {0},
           m.avg * m.count = m.total * scale,
           NEW k \in Int, value * scale - m.avg = k * (m.count + 1)
    PROVE  IsMean(AddValue(m, value, scale), scale)
<1> DEFINE d == value * scale - m.avg
           n == m.count + 1
           new == AddValue(m, value, scale)
<1>1. /\ m.avg \in Int /\ m.count \in Int /\ m.total \in Int /\ scale \in Int
      /\ n \in Nat \ {0} /\ n = m.count + 1
      /\ d = value * scale - m.avg /\ d \in Int
  BY DEF Metrics
<1>6. d = k * n
  OBVIOUS
<1>0. Added(m, value, d, new)
  BY NewAverage
<1> HIDE DEF new, d
<1>2. /\ new \in Metrics /\ new.count = n /\ new.total = m.total + value
      /\ new.avg \in Int
  BY <1>0 DEF Added, Metrics
<1>3. PICK r \in 0 .. m.count, q \in Nat :
          \/ d > 0 /\ q = d \div n /\ d = q * n + r /\ new.avg = m.avg + q
          \/ d <= 0 /\ q = (-d) \div n /\ -d = q * n + r /\ new.avg = m.avg - q
  BY <1>0 DEF Added
<1> HIDE DEF n
<1>7. new.avg * n = m.avg * n + d
  <2>1. CASE d > 0
    <3>1. q = k
      BY <1>1, <1>3, <1>6, <2>1, ExactDivision
    <3>2. new.avg = m.avg + k
      BY <1>3, <1>6, <2>1, <3>1
    <3> QED BY <1>1, <1>6, <3>2
  <2>2. CASE d <= 0
    <3>1. -d = (-k) * n
      BY <1>1, <1>6
    <3>2. q = -k
      BY <1>1, <1>3, <1>6, <2>2, <3>1, ExactDivision
    <3>3. new.avg = m.avg - q
      BY <1>1, <1>3, <2>2
    <3>4. new.avg = m.avg + k
      BY <1>1, <3>2, <3>3
    <3> QED BY <1>1, <1>6, <3>4
  <2> QED BY <1>3, <2>1, <2>2
<1>8. new.avg * n = new.total * scale
  <2>1. m.avg * m.count = m.total * scale
    OBVIOUS
  <2>2. \A a \in Int, c \in Int : a * (c + 1) = a * c + a
    OBVIOUS
  <2>3. m.avg * n = m.avg * m.count + m.avg
    BY <1>1, <2>2
  <2>4. \A a \in Int, b \in Int, c \in Int : (a + b) * c = a * c + b * c
    OBVIOUS
  <2>5. new.total * scale = m.total * scale + value * scale
    BY <1>1, <1>2, <2>4
  <2>6. /\ m.avg * m.count \in Int /\ m.total * scale \in Int
        /\ value * scale \in Int /\ m.avg * n \in Int
    BY <1>1
  <2> QED BY <1>1, <1>7, <2>1, <2>3, <2>5, <2>6
<1>9. new.avg * new.count - new.total * scale = 0
  <2>1. new.avg * n \in Int /\ new.total * scale \in Int
    BY <1>1, <1>2 DEF Metrics
  <2> QED BY <1>2, <1>8, <2>1
<1> QED BY <1>9 DEF IsMean, MeanWithin, new

\* Metric<size_t, double>: nothing is lost when the unit is divisible by n and
\* by n * (n - 1), n the number of values.
LEMMA AddValueIsExact ==
    ASSUME NEW m \in Metrics, NEW value \in Int, NEW scale \in Nat \ {0},
           IsMean(m, scale),
           m.count > 0 => scale % ((m.count + 1) * m.count) = 0
    PROVE  IsMean(AddValue(m, value, scale), scale)
<1> DEFINE d == value * scale - m.avg
           n == m.count + 1
<1>1. /\ m.avg \in Int /\ m.count \in Nat /\ m.total \in Int /\ n \in Nat \ {0}
  BY DEF Metrics
<1>4. m.avg * m.count = m.total * scale
  <2>1. m.avg * m.count \in Int /\ m.total * scale \in Int
    BY <1>1
  <2>2. /\ -0 <= m.avg * m.count - m.total * scale
        /\ m.avg * m.count - m.total * scale <= 0
    BY DEF IsMean, MeanWithin
  <2> QED BY <2>1, <2>2
<1>5. \E k \in Int : d = k * n
  <2>1. CASE m.count = 0
    BY <1>1, <2>1
  <2>2. CASE m.count > 0
    <3> DEFINE nm == n * m.count
               z == scale \div nm
    <3>1. nm \in Nat \ {0} /\ scale % nm = 0 /\ scale \in Int
      BY <1>1, <2>2
    <3> HIDE DEF nm
    <3>2. scale = z * nm /\ z \in Int
      BY <3>1, Divides, Division
    <3> USE DEF nm
    <3> HIDE DEF z, n
    <3>3. m.avg * m.count = (m.total * z * n) * m.count
      <4>1. m.total * (z * (n * m.count)) = (m.total * z * n) * m.count
        BY <1>1, <3>2
      <4>2. m.avg * m.count = m.total * (z * (n * m.count))
        BY <1>4, <3>2
      <4> QED BY <4>1, <4>2
    <3>4. m.avg = m.total * z * n
      <4>1. m.total * z * n \in Int
        BY <1>1, <3>2
      <4> QED BY <1>1, <2>2, <3>3, <4>1, Cancel
    <3>5. value * scale = (value * z * m.count) * n
      <4>1. value * (z * (n * m.count)) = (value * z * m.count) * n
        BY <1>1, <3>2
      <4> QED BY <3>2, <4>1
    <3>6. d = (value * z * m.count - m.total * z) * n
      <4> DEFINE a == value * z * m.count
                 b == m.total * z
      <4>1. a \in Int /\ b \in Int
        BY <1>1, <3>2
      <4>2. d = a * n - b * n
        BY <3>4, <3>5
      <4> HIDE DEF a, b, d
      <4>3. d = (a - b) * n
        BY <1>1, <4>1, <4>2
      <4> QED BY <4>3 DEF a, b
    <3>7. value * z * m.count - m.total * z \in Int
      BY <1>1, <3>2
    <3> QED BY <3>6, <3>7
  <2> QED BY <1>1, <2>1, <2>2
<1>6. PICK k \in Int : d = k * n
  BY <1>5
<1> QED BY <1>4, <1>6, AddValueDivides

-----------------------------------------------------------------------------
(* The steps, by what they leave alone.                                    *)

CallStep(c) ==
    \/ Arrive(c) \/ RecordRequestArrival(c)
    \/ \E s \in Servers : StartService(c, s)
    \/ RecordServiceStart(c) \/ HandleCall(c) \/ CompleteService(c)
    \/ RecordServiceComplete(c)
    \/ RejectCall(c) \/ RecordRequestDropout(c)

SampleStep ==
    Start \/ Stop \/ ScheduleUpdatePeriodicMetrics \/ UpdatePeriodicMetrics

ReadStep ==
    \/ MakeGetMetricsResponseBody \/ GetWaitTimeMetric \/ GetQueueSizeMetric
    \/ GetBusyServerCountMetric \/ GetServiceLoadInErlang
    \/ GetProbabilityOfLoss
    \/ ReadingDone

LEMMA Steps == Next <=> (\E c \in Calls : CallStep(c)) \/ SampleStep \/ ReadStep \/ Tick
BY DEF Next, CallStep, SampleStep, ReadStep

LEMMA CallSteps ==
    ASSUME NEW c \in Calls, CallStep(c)
    PROVE  UNCHANGED <<bound, now, started_, recording_start_time_, tasks, asking, starts,
                       reader>>
BY DEF CallStep, Arrive, RecordRequestArrival, StartService, RecordServiceStart,
       HandleCall, CompleteService, RecordServiceComplete, RejectCall,
       RecordRequestDropout, Outside, sampling_vars

LEMMA SampleSteps ==
    ASSUME SampleStep
    PROVE  UNCHANGED <<bound, now, call, dropout, first_arrival, reader>>
BY DEF SampleStep, Start, Stop, ScheduleUpdatePeriodicMetrics,
       UpdatePeriodicMetrics, Recording

LEMMA ReadSteps ==
    ASSUME ReadStep
    PROVE  UNCHANGED <<bound, now, call, queue, dropout, service, started_,
                       recording_start_time_, tasks, asking, starts, first_arrival>>
BY DEF ReadStep, MakeGetMetricsResponseBody, GetWaitTimeMetric,
       GetQueueSizeMetric, GetBusyServerCountMetric, GetServiceLoadInErlang,
       GetProbabilityOfLoss, ReadingDone, Collect, Read, locked_vars, sampling_vars

LEMMA TickSteps ==
    ASSUME Tick
    PROVE  UNCHANGED <<bound, call, queue, dropout, service, started_,
                       recording_start_time_, tasks, asking, starts, first_arrival,
                       reader>>
BY DEF Tick, locked_vars, sampling_vars

-----------------------------------------------------------------------------
(* Sampling.                                                               *)

SamplingInv ==
    /\ tasks \in [Points -> Nat]
    /\ starts \in Nat
    /\ SamplingGoesOn

\* While metrics are started a task will sample them: ScheduleUpdatePeriodic-
\* Metrics tests started_ after Start has set it, and ends a chain only when
\* Stop has cleared it; the constructor's chain is the only one until Start is
\* called again.
THEOREM SamplingGoesOnTheorem == Spec => []SamplingGoesOn
<1>1. Init => SamplingInv
  BY DEF Init, SamplingInv, SamplingGoesOn, Chains, Points
<1>2. SamplingInv /\ [Next]_vars => SamplingInv'
  <2> SUFFICES ASSUME SamplingInv, [Next]_vars PROVE SamplingInv'
    OBVIOUS
  <2> USE DEF SamplingInv, SamplingGoesOn, Chains
  <2>0. /\ "schedule" \in Points /\ "pending" \in Points /\ "sampleService" \in Points
        /\ "askServers" \in Points
    BY DEF Points
  <2>1. CASE Start
    BY <2>0, <2>1 DEF Start
  <2>2. CASE Stop
    BY <2>0, <2>2 DEF Stop
  <2>3. CASE ScheduleUpdatePeriodicMetrics
    BY <2>0, <2>3 DEF ScheduleUpdatePeriodicMetrics, Step
  <2>4. CASE UpdatePeriodicMetrics
    BY <2>0, <2>4 DEF UpdatePeriodicMetrics, Step
  <2>5. CASE UNCHANGED <<started_, tasks, starts>>
    BY <2>5
  <2>6. ASSUME NEW c \in Calls, CallStep(c) PROVE UNCHANGED <<started_, tasks, starts>>
    BY <2>6, CallSteps
  <2>7. ReadStep \/ Tick => UNCHANGED <<started_, tasks, starts>>
    BY ReadSteps, TickSteps
  <2>8. UNCHANGED vars => UNCHANGED <<started_, tasks, starts>>
    BY DEF vars, sampling_vars
  <2> QED BY <2>1, <2>2, <2>3, <2>4, <2>5, <2>6, <2>7, <2>8, Steps DEF SampleStep
<1>3. SamplingInv => SamplingGoesOn
  BY DEF SamplingInv
<1> QED BY <1>1, <1>2, <1>3, PTL DEF Spec

-----------------------------------------------------------------------------
(* The calls: their times are in order, and a server has one call at a     *)
(* time.                                                                   *)

Serving == {"starting", "assigned", "busy", "completed"}

CallType == [at : Stages, server : Servers \cup {NoServer},
             arrival : Int, start : Int, complete : Int]

TimesInOrder(c) ==
    /\ ~At(c, "new") => 0 <= call[c].arrival /\ call[c].arrival <= now
    /\ call[c].at \in Serving => /\ call[c].server \in Servers
                                 /\ 0 <= call[c].start /\ call[c].start <= now
    /\ At(c, "completed") => /\ call[c].start <= call[c].complete
                             /\ call[c].complete <= now

OneCallEach ==
    \A c \in Calls, d \in Calls :
        call[c].at \in Serving /\ call[d].at \in Serving
            /\ call[c].server = call[d].server => c = d

CallsInv ==
    /\ bound \in Bounds
    /\ now \in Nat
    /\ call \in [Calls -> CallType]
    /\ \A c \in Calls : TimesInOrder(c)
    /\ OneCallEach

LEMMA TimeTaken ==
    ASSUME NEW r \in CallType, NEW t \in Int, NEW a \in Stages
    PROVE  /\ [r EXCEPT !.at = a, !.arrival = t] \in CallType
           /\ [r EXCEPT !.at = a, !.complete = t] \in CallType
BY DEF CallType

LEMMA CallsStep ==
    ASSUME CallsInv, [Next]_vars
    PROVE  CallsInv'
<1> USE DEF CallsInv, TimesInOrder, OneCallEach, At, Move, Serving, CallType, Stages
<1>1. ASSUME NEW c \in Calls, CallStep(c) PROVE CallsInv'
  <2>0. bound' = bound /\ now' = now
    BY <1>1, CallSteps
  <2>1. CASE Arrive(c)
    <3>0. [call[c] EXCEPT !.at = "arrived", !.arrival = now] \in CallType
      <4>1. call[c] \in CallType /\ now \in Int /\ "arrived" \in Stages
        BY DEF Stages
      <4> HIDE DEF CallType, Stages
      <4> QED BY <4>1, TimeTaken
    <3>1. call' \in [Calls -> CallType]
      BY <2>1, <3>0 DEF Arrive
    <3>2. (\A other \in Calls : TimesInOrder(other))'
      BY <2>0, <2>1 DEF Arrive
    <3>3. OneCallEach'
      BY <2>0, <2>1 DEF Arrive
    <3> QED BY <2>0, <3>1, <3>2, <3>3
  <2>2. CASE RecordRequestArrival(c)
    BY <2>0, <2>2 DEF RecordRequestArrival
  <2>3. CASE \E s \in Servers : StartService(c, s)
    <3>0. PICK s \in Servers : StartService(c, s)
      BY <2>3
    <3>1. call' \in [Calls -> CallType]
      BY <3>0 DEF StartService
    <3>2. (\A other \in Calls : TimesInOrder(other))'
      BY <2>0, <3>0 DEF StartService
    <3>3. OneCallEach'
      BY <2>0, <3>0 DEF StartService
    <3> QED BY <2>0, <3>1, <3>2, <3>3
  <2>4. CASE RecordServiceStart(c)
    BY <2>0, <2>4 DEF RecordServiceStart
  <2>5. CASE HandleCall(c)
    BY <2>0, <2>5 DEF HandleCall
  <2>6. CASE CompleteService(c)
    <3>0. [call[c] EXCEPT !.at = "completed", !.complete = now] \in CallType
      <4>1. call[c] \in CallType /\ now \in Int /\ "completed" \in Stages
        BY DEF Stages
      <4> HIDE DEF CallType, Stages
      <4> QED BY <4>1, TimeTaken
    <3>1. call' \in [Calls -> CallType]
      BY <2>6, <3>0 DEF CompleteService
    <3>2. (\A other \in Calls : TimesInOrder(other))'
      BY <2>0, <2>6 DEF CompleteService
    <3>3. OneCallEach'
      BY <2>0, <2>6 DEF CompleteService
    <3> QED BY <2>0, <3>1, <3>2, <3>3
  <2>7. CASE RecordServiceComplete(c)
    <3>1. call' \in [Calls -> CallType]
      BY <2>7 DEF RecordServiceComplete
    <3>2. (\A other \in Calls : TimesInOrder(other))'
      BY <2>0, <2>7 DEF RecordServiceComplete
    <3>3. OneCallEach'
      BY <2>0, <2>7 DEF RecordServiceComplete
    <3> QED BY <2>0, <3>1, <3>2, <3>3
  <2>8. CASE RejectCall(c)
    <3>0. [call[c] EXCEPT !.at = "rejected", !.complete = now] \in CallType
      <4>1. call[c] \in CallType /\ now \in Int /\ "rejected" \in Stages
        BY DEF Stages
      <4> HIDE DEF CallType, Stages
      <4> QED BY <4>1, TimeTaken
    <3>1. call' \in [Calls -> CallType]
      BY <2>8, <3>0 DEF RejectCall
    <3>2. (\A other \in Calls : TimesInOrder(other))'
      BY <2>0, <2>8 DEF RejectCall
    <3>3. OneCallEach'
      BY <2>0, <2>8 DEF RejectCall
    <3> QED BY <2>0, <3>1, <3>2, <3>3
  <2>9. CASE RecordRequestDropout(c)
    <3>1. call' \in [Calls -> CallType]
      BY <2>9 DEF RecordRequestDropout
    <3>2. (\A other \in Calls : TimesInOrder(other))'
      BY <2>0, <2>9 DEF RecordRequestDropout
    <3>3. OneCallEach'
      BY <2>0, <2>9 DEF RecordRequestDropout
    <3> QED BY <2>0, <3>1, <3>2, <3>3
  <2> QED BY <1>1, <2>1, <2>2, <2>3, <2>4, <2>5, <2>6, <2>7, <2>8, <2>9 DEF CallStep
<1>2. CASE Tick
  BY <1>2, TickSteps DEF Tick
<1>3. CASE UNCHANGED <<bound, now, call>>
  BY <1>3
<1>4. SampleStep \/ ReadStep \/ UNCHANGED vars => UNCHANGED <<bound, now, call>>
  BY SampleSteps, ReadSteps DEF vars
<1> QED BY <1>1, <1>2, <1>3, <1>4, Steps

LEMMA CallsInvariant == Spec => []CallsInv
<1>1. Init => CallsInv
  BY DEF Init, CallsInv, TimesInOrder, OneCallEach, At, Serving, CallType, Stages, NoTime
<1>2. CallsInv /\ [Next]_vars => CallsInv'
  BY CallsStep
<1> QED BY <1>1, <1>2, PTL DEF Spec

-----------------------------------------------------------------------------
(* The metrics: averages are means, and lie between least and greatest.    *)

Durations == {m \in Metrics : IsTruncatedMean(m) /\ InRange(m, 1)}
Counts == {m \in Metrics : IsMean(m, Scale) /\ InRange(m, Scale)}

QueueType ==
    [arrival_count_ : Nat, current_queue_size_ : Int, current_in_system_count_ : Int,
     prev_arrival_ : Int, time_between_requests_ : Durations, wait_time_ : Durations,
     queue_size_ : Counts, in_system_count_ : Counts]
DropoutType == [dropout_count_ : Nat, refused_wait_time_ : Durations]
ServiceType == [servers_metrics_ : [Servers -> Durations], busy_server_count_ : Counts]

\* Each server is asked once, so that no more are counted than there are,
\* whatever the operators do meanwhile.
AskedOnce ==
    /\ asking \in [servers : SUBSET Servers, busy : Nat]
    /\ asking.busy + Cardinality(asking.servers) <= Cardinality(Servers)

\* A sample of the queue is followed by one of the servers.
MetricsInv ==
    /\ queue \in QueueType
    /\ dropout \in DropoutType
    /\ service \in ServiceType
    /\ tasks \in [Points -> Nat]
    /\ queue.in_system_count_.count = queue.queue_size_.count
    /\ queue.queue_size_.count = service.busy_server_count_.count + tasks["sampleService"]
                                    + tasks["askServers"]
    /\ queue.queue_size_.count <= bound.samples
    /\ service.busy_server_count_.max <= Cardinality(Servers)
    /\ AskedOnce

LEMMA NewMetricFits == NewMetric \in Durations /\ NewMetric \in Counts
<1> USE DEF NewMetric, Metrics, InRange
<1>1. NewMetric \in Metrics /\ InRange(NewMetric, 1)
  OBVIOUS
<1>2. InRange(NewMetric, Scale) /\ 0 * Scale = 0
  BY CollectionAssumption
<1>3. IsTruncatedMean(NewMetric)
  BY DEF IsTruncatedMean, MeanWithin
<1>4. IsMean(NewMetric, Scale)
  BY <1>2 DEF IsMean, MeanWithin
<1> QED BY <1>1, <1>2, <1>3, <1>4 DEF Durations, Counts

LEMMA DurationAdded ==
    ASSUME NEW m \in Durations, NEW value \in Int
    PROVE  AddValue(m, value, 1) \in Durations
<1>1. m \in Metrics /\ IsTruncatedMean(m) /\ InRange(m, 1) /\ 1 \in Nat \ {0}
  BY DEF Durations
<1>2. AddValue(m, value, 1) \in Metrics
  BY <1>1, NewAverage DEF Added
<1> QED BY <1>1, <1>2, AddValueTruncates, AddValueInRange DEF Durations

LEMMA CountAdded ==
    ASSUME NEW m \in Counts, NEW value \in Int,
           bound \in Bounds, m.count < bound.samples
    PROVE  /\ AddValue(m, value, Scale) \in Counts
           /\ AddValue(m, value, Scale).count = m.count + 1
           /\ AddValue(m, value, Scale).max = Max({value, m.max})
<1>1. m \in Metrics /\ IsMean(m, Scale) /\ InRange(m, Scale) /\ m.count \in Nat
  BY DEF Counts, Metrics
<1>2. Scale \in Nat \ {0} /\ bound.samples \in Nat
  BY CollectionAssumption
<1>3. /\ AddValue(m, value, Scale) \in Metrics
      /\ AddValue(m, value, Scale).count = m.count + 1
      /\ AddValue(m, value, Scale).max = Max({value, m.max})
  BY <1>1, <1>2, NewAverage DEF Added
<1>4. m.count > 0 => Scale % ((m.count + 1) * m.count) = 0
  <2> SUFFICES ASSUME m.count > 0 PROVE Scale % ((m.count + 1) * m.count) = 0
    OBVIOUS
  <2> DEFINE n == m.count + 1
  <2>1. n \in 2 .. bound.samples /\ n - 1 = m.count
    BY <1>1, <1>2
  <2>2. Scale % (n * (n - 1)) = 0
    BY <2>1, CollectionAssumption
  <2> QED BY <2>1, <2>2
<1>5. IsMean(AddValue(m, value, Scale), Scale)
  BY <1>1, <1>2, <1>4, AddValueIsExact
<1>6. InRange(AddValue(m, value, Scale), Scale)
  BY <1>1, <1>2, AddValueInRange
<1> QED BY <1>3, <1>5, <1>6 DEF Counts

LEMMA NobodyAskedFits ==
    /\ NobodyAsked \in [servers : SUBSET Servers, busy : Nat]
    /\ NobodyAsked.busy + Cardinality(NobodyAsked.servers) <= Cardinality(Servers)
<1>1. Cardinality({}) = 0 /\ Cardinality(Servers) \in Nat
  BY FS_EmptySet, FS_CardinalityType, CollectionAssumption
<1> QED BY <1>1 DEF NobodyAsked

LEMMA AllAskedFits ==
    ASSUME asking' = [servers |-> Servers, busy |-> 0]
    PROVE  AskedOnce'
<1>1. Cardinality(Servers) \in Nat
  BY FS_CardinalityType, CollectionAssumption
<1>2. asking'.servers = Servers /\ asking'.busy = 0
  OBVIOUS
<1>3. asking' \in [servers : SUBSET Servers, busy : Nat]
  OBVIOUS
<1> QED BY <1>1, <1>2, <1>3 DEF AskedOnce

\* A server is asked: it leaves those to be asked and counts for one at most.
LEMMA NextIsAsked ==
    ASSUME AskedOnce, GetCurrentBusyServerCount
    PROVE  AskedOnce'
<1> DEFINE One(s) == IF IsBusy(s) THEN 1 ELSE 0
<1>1. PICK s \in asking.servers :
         asking' = [servers |-> asking.servers \ {s}, busy |-> asking.busy + One(s)]
  BY DEF GetCurrentBusyServerCount
<1>2. One(s) \in {0, 1}
  OBVIOUS
<1> HIDE DEF One
<1>3. asking'.servers = asking.servers \ {s} /\ asking'.busy = asking.busy + One(s)
  BY <1>1
<1>4. asking.servers \in SUBSET Servers /\ asking.busy \in Nat
  BY DEF AskedOnce
<1>5. IsFiniteSet(asking.servers)
  BY <1>4, FS_Subset, CollectionAssumption
<1>6. /\ Cardinality(asking.servers \ {s}) = Cardinality(asking.servers) - 1
      /\ Cardinality(asking.servers) \in Nat /\ Cardinality(Servers) \in Nat
  BY <1>1, <1>5, FS_RemoveElement, FS_CardinalityType, CollectionAssumption
<1>7. asking' \in [servers : SUBSET Servers, busy : Nat]
  BY <1>1, <1>2, <1>4
<1>8. asking'.busy + Cardinality(asking'.servers) <= Cardinality(Servers)
  BY <1>2, <1>3, <1>4, <1>6 DEF AskedOnce
<1> QED BY <1>7, <1>8 DEF AskedOnce

LEMMA QueueChanges ==
    ASSUME NEW q \in QueueType, NEW w \in Durations
    PROVE  /\ [q EXCEPT !.arrival_count_ = @ + 1, !.current_in_system_count_ = @ + 1,
                        !.current_queue_size_ = @ + 1] \in QueueType
           /\ [q EXCEPT !.current_queue_size_ = @ - 1, !.wait_time_ = w] \in QueueType
           /\ [q EXCEPT !.current_queue_size_ = @ - 1,
                        !.current_in_system_count_ = @ - 1] \in QueueType
<1>1. q.arrival_count_ + 1 \in Nat
  BY DEF QueueType
<1>2. /\ q.current_queue_size_ + 1 \in Int /\ q.current_queue_size_ - 1 \in Int
      /\ q.current_in_system_count_ + 1 \in Int /\ q.current_in_system_count_ - 1 \in Int
  BY DEF QueueType
<1> QED BY <1>1, <1>2 DEF QueueType

LEMMA MetricsStep ==
    ASSUME CallsInv, MetricsInv, [Next]_vars
    PROVE  MetricsInv'
<1> USE DEF MetricsInv
<1>0. /\ "schedule" \in Points /\ "pending" \in Points /\ "sampleService" \in Points
      /\ "askServers" \in Points
      /\ bound \in Bounds /\ now \in Nat /\ call \in [Calls -> CallType]
  BY DEF Points, CallsInv
<1>1. ASSUME NEW c \in Calls, CallStep(c) PROVE MetricsInv'
  <2>0. UNCHANGED <<bound, tasks>> /\ AskedOnce'
    BY <1>1, CallSteps DEF AskedOnce
  <2>1. /\ call[c].arrival \in Int /\ GetWaitTime(call[c]) \in Int
        /\ GetServiceTime(call[c]) \in Int
    BY <1>0 DEF CallType, GetWaitTime, GetServiceTime
  <2>2. CASE RecordRequestArrival(c)
    <3>1. call[c].arrival - queue.prev_arrival_ \in Int
      BY <2>1 DEF QueueType
    <3>2. AddValue(queue.time_between_requests_, call[c].arrival - queue.prev_arrival_, 1)
            \in Durations
      BY <3>1, DurationAdded DEF QueueType
    <3>3. UNCHANGED <<dropout, service>>
      BY <2>2 DEF RecordRequestArrival
    <3>4. /\ queue' \in QueueType
          /\ queue'.in_system_count_ = queue.in_system_count_
          /\ queue'.queue_size_ = queue.queue_size_
      <4> DEFINE q == [queue EXCEPT !.arrival_count_ = @ + 1,
                                    !.current_in_system_count_ = @ + 1,
                                    !.current_queue_size_ = @ + 1]
      <4>0. q \in QueueType
        BY <3>2, QueueChanges
      <4>1. /\ q.prev_arrival_ = queue.prev_arrival_
            /\ q.time_between_requests_ = queue.time_between_requests_
            /\ q.in_system_count_ = queue.in_system_count_
            /\ q.queue_size_ = queue.queue_size_
        BY DEF QueueType
      <4>2. queue' = UpdateAvgTimeBetweenRequests(q, call[c].arrival)
        BY <2>2 DEF RecordRequestArrival
      <4> HIDE DEF q
      <4> QED BY <2>1, <3>2, <4>0, <4>1, <4>2 DEF QueueType, UpdateAvgTimeBetweenRequests
    <3> QED BY <2>0, <3>3, <3>4
  <2>3. CASE RecordServiceStart(c)
    <3>1. AddValue(queue.wait_time_, GetWaitTime(call[c]), 1) \in Durations
      BY <2>1, DurationAdded DEF QueueType
    <3>2. queue' \in QueueType
      BY <2>3, <3>1, QueueChanges DEF RecordServiceStart
    <3>3. /\ queue'.in_system_count_ = queue.in_system_count_
          /\ queue'.queue_size_ = queue.queue_size_
      BY <2>3 DEF RecordServiceStart, QueueType
    <3> QED BY <2>0, <2>3, <3>2, <3>3 DEF RecordServiceStart
  <2>4. CASE RecordServiceComplete(c)
    <3>1. call[c].server \in Servers
      BY <2>4 DEF RecordServiceComplete, CallsInv, TimesInOrder, At, Serving
    <3>2. AddCompletedService(service.servers_metrics_[call[c].server], call[c]) \in Durations
      BY <2>1, <3>1, DurationAdded DEF ServiceType, AddCompletedService
    <3>3. /\ service' \in ServiceType
          /\ service'.busy_server_count_ = service.busy_server_count_
      BY <2>4, <3>2 DEF RecordServiceComplete, ServiceType
    <3>4. /\ queue' \in QueueType
          /\ queue'.in_system_count_ = queue.in_system_count_
          /\ queue'.queue_size_ = queue.queue_size_
      BY <2>4 DEF RecordServiceComplete, QueueType
    <3> QED BY <2>0, <2>4, <3>3, <3>4 DEF RecordServiceComplete
  <2>5. CASE RecordRequestDropout(c)
    <3>1. AddValue(dropout.refused_wait_time_, GetWaitTime(call[c]), 1) \in Durations
      BY <2>1, DurationAdded DEF DropoutType
    <3>2. dropout' \in DropoutType
      BY <2>5, <3>1 DEF RecordRequestDropout, DropoutType
    <3>3. queue' \in QueueType
      BY <2>5, <3>1, QueueChanges DEF RecordRequestDropout
    <3>4. /\ queue'.in_system_count_ = queue.in_system_count_
          /\ queue'.queue_size_ = queue.queue_size_
      BY <2>5 DEF RecordRequestDropout, QueueType
    <3> QED BY <2>0, <2>5, <3>2, <3>3, <3>4 DEF RecordRequestDropout
  <2>6. ASSUME NEW s \in Servers, StartService(c, s)
        PROVE  UNCHANGED <<queue, dropout, service>>
    BY <2>6 DEF StartService, locked_vars
  <2>7. CASE UNCHANGED <<queue, dropout, service>>
    BY <2>0, <2>7
  <2> QED BY <1>1, <2>2, <2>3, <2>4, <2>5, <2>6, <2>7
          DEF CallStep, Arrive, HandleCall, CompleteService, RejectCall, locked_vars
<1>2. ASSUME SampleStep PROVE MetricsInv'
  <2>0. UNCHANGED <<bound, dropout>>
    BY <1>2, SampleSteps
  <2>1. CASE Start
    BY <1>0, <2>0, <2>1 DEF Start, AskedOnce
  <2>2. CASE Stop
    BY <2>0, <2>2 DEF Stop, AskedOnce
  <2>3. CASE ScheduleUpdatePeriodicMetrics
    BY <1>0, <2>0, <2>3 DEF ScheduleUpdatePeriodicMetrics, Step, AskedOnce
  <2>4. CASE UpdatePeriodicMetrics
    <3>0. /\ queue.queue_size_ \in Counts /\ queue.in_system_count_ \in Counts
          /\ service.busy_server_count_ \in Counts
          /\ queue.current_queue_size_ \in Int /\ queue.current_in_system_count_ \in Int
      BY DEF QueueType, ServiceType
    <3>2. /\ queue.queue_size_.count \in Nat /\ service.busy_server_count_.count \in Nat
          /\ queue.in_system_count_.count \in Nat /\ bound.samples \in Nat
          /\ service.busy_server_count_.max \in Int
      BY <1>0, <3>0, CollectionAssumption DEF Counts, Metrics
    <3>1. ASSUME tasks["pending"] > 0, queue.queue_size_.count < bound.samples,
                 queue' = [queue EXCEPT
                   !.queue_size_ = AddValue(@, queue.current_queue_size_, Scale),
                   !.in_system_count_ = AddValue(@, queue.current_in_system_count_, Scale)],
                 tasks' = Step("pending", "sampleService"),
                 service' = service, asking' = asking
          PROVE  MetricsInv'
      <4> DEFINE size == AddValue(queue.queue_size_, queue.current_queue_size_, Scale)
                 in == AddValue(queue.in_system_count_, queue.current_in_system_count_, Scale)
      <4>1. size \in Counts /\ size.count = queue.queue_size_.count + 1
        BY <1>0, <3>0, <3>1, CountAdded
      <4>2. in \in Counts /\ in.count = queue.in_system_count_.count + 1
        BY <1>0, <3>0, <3>1, CountAdded
      <4>3. queue' = [queue EXCEPT !.queue_size_ = size, !.in_system_count_ = in]
        BY <3>1
      <4> HIDE DEF size, in
      <4>4. queue' \in QueueType /\ queue'.queue_size_ = size /\ queue'.in_system_count_ = in
        BY <4>1, <4>2, <4>3 DEF QueueType
      <4>5. /\ tasks' \in [Points -> Nat]
            /\ tasks'["sampleService"] = tasks["sampleService"] + 1
            /\ tasks'["askServers"] = tasks["askServers"]
        BY <1>0, <3>1 DEF Step
      <4>6. AskedOnce'
        BY <3>1 DEF AskedOnce
      <4> QED BY <1>0, <2>0, <3>1, <3>2, <4>1, <4>2, <4>4, <4>5, <4>6
    <3>4. ASSUME tasks["sampleService"] > 0, asking' = [servers |-> Servers, busy |-> 0],
                 queue' = queue, service' = service,
                 tasks' = Step("sampleService", "askServers")
          PROVE  MetricsInv'
      <4>1. /\ tasks' \in [Points -> Nat]
            /\ tasks'["sampleService"] = tasks["sampleService"] - 1
            /\ tasks'["askServers"] = tasks["askServers"] + 1
        BY <1>0, <3>4 DEF Step
      <4>2. AskedOnce'
        BY <3>4, AllAskedFits
      <4> QED BY <1>0, <2>0, <3>2, <3>4, <4>1, <4>2
    <3>5. ASSUME GetCurrentBusyServerCount, UNCHANGED <<queue, service, tasks>>
          PROVE  MetricsInv'
      BY <2>0, <3>5, NextIsAsked
    <3>3. ASSUME tasks["askServers"] > 0, queue' = queue,
                 service' = [service EXCEPT
                   !.busy_server_count_ = AddValue(@, asking.busy, Scale)],
                 asking' = NobodyAsked,
                 tasks' = Step("askServers", "schedule")
          PROVE  MetricsInv'
      <4> DEFINE b == asking.busy
                 busy == AddValue(service.busy_server_count_, b, Scale)
      <4>6. b \in Int /\ b <= Cardinality(Servers) /\ Cardinality(Servers) \in Int
        <5>1. /\ asking.busy \in Nat /\ asking.servers \in SUBSET Servers
              /\ asking.busy + Cardinality(asking.servers) <= Cardinality(Servers)
          BY DEF AskedOnce
        <5>2. IsFiniteSet(asking.servers) /\ IsFiniteSet(Servers)
          BY <5>1, FS_Subset, CollectionAssumption
        <5>3. Cardinality(asking.servers) \in Nat /\ Cardinality(Servers) \in Nat
          BY <5>2, FS_CardinalityType
        <5> QED BY <5>1, <5>3
      <4>0. service.busy_server_count_.count < bound.samples
        BY <1>0, <3>2, <3>3
      <4>1. /\ busy \in Counts /\ busy.count = service.busy_server_count_.count + 1
            /\ busy.max = Max({b, service.busy_server_count_.max})
        <5> HIDE DEF b
        <5> QED BY <1>0, <3>0, <4>6, <4>0, CountAdded
      <4>3. service' = [service EXCEPT !.busy_server_count_ = busy]
        BY <3>3
      <4> HIDE DEF busy, b
      <4>2. busy.max <= Cardinality(Servers)
        BY <3>2, <4>6, <4>1, LeastAndGreatest
      <4>4. service' \in ServiceType /\ service'.busy_server_count_ = busy
        BY <4>1, <4>3 DEF ServiceType
      <4>5. /\ tasks' \in [Points -> Nat]
            /\ tasks'["sampleService"] = tasks["sampleService"]
            /\ tasks'["askServers"] = tasks["askServers"] - 1
        BY <1>0, <3>3 DEF Step
      <4>7. AskedOnce'
        BY <3>3, NobodyAskedFits DEF AskedOnce
      <4> QED BY <1>0, <2>0, <3>2, <3>3, <4>1, <4>2, <4>4, <4>5, <4>7
    <3> QED BY <2>4, <3>1, <3>3, <3>4, <3>5 DEF UpdatePeriodicMetrics
  <2> QED BY <1>2, <2>1, <2>2, <2>3, <2>4 DEF SampleStep
<1>3. CASE UNCHANGED <<bound, queue, dropout, service, tasks, asking>>
  BY <1>3 DEF AskedOnce
<1>4. ReadStep \/ Tick \/ UNCHANGED vars =>
         UNCHANGED <<bound, queue, dropout, service, tasks, asking>>
  BY ReadSteps, TickSteps DEF vars, locked_vars, sampling_vars
<1> QED BY <1>1, <1>2, <1>3, <1>4, Steps

LEMMA MetricsInvariant == Spec => [](CallsInv /\ MetricsInv)
<1>1. Init => MetricsInv
  <2> SUFFICES ASSUME Init PROVE MetricsInv
    OBVIOUS
  <2>1. queue \in QueueType /\ dropout \in DropoutType /\ service \in ServiceType
    BY NewMetricFits DEF Init, QueueType, DropoutType, ServiceType, NoTime
  <2>2. tasks \in [Points -> Nat] /\ tasks["sampleService"] = 0 /\ tasks["askServers"] = 0
    BY DEF Init, Points
  <2>3. /\ queue.in_system_count_.count = 0 /\ queue.queue_size_.count = 0
        /\ service.busy_server_count_.count = 0 /\ service.busy_server_count_.max = 0
    BY DEF Init, NewMetric
  <2>4. bound.samples \in Nat /\ Cardinality(Servers) \in Nat
    BY CollectionAssumption, FS_CardinalityType DEF Init
  <2>5. AskedOnce
    BY NobodyAskedFits DEF Init, AskedOnce
  <2> QED BY <2>1, <2>2, <2>3, <2>4, <2>5 DEF MetricsInv
<1>2. CallsInv /\ MetricsInv /\ [Next]_vars => MetricsInv'
  BY MetricsStep
<1> QED BY <1>1, <1>2, CallsInvariant, PTL DEF Spec

\* Metric::AddValue keeps the mean without keeping a sum: the averages of the
\* sampled counts are exact after any number of samples within the bound, and
\* the truncated averages of the durations are off by at most half a
\* millisecond for each value but the first, however many there are and
\* whichever sign they have.
THEOREM AveragesAreMeansTheorem == Spec => []AveragesAreMeans
<1>1. MetricsInv => AveragesAreMeans
  BY DEF MetricsInv, QueueType, DropoutType, ServiceType, Durations, Counts,
         AveragesAreMeans, DurationMetrics, GetTimeBetweenRequestsMetric,
         GetRefusedWaitTimeMetric, GetServerMetrics, GetRequestCountInSystemMetric
<1> QED BY <1>1, MetricsInvariant, PTL

-----------------------------------------------------------------------------
(* The intervals between requests.                                         *)

\* Only RecordRequestArrival changes what is known of the arrivals.
LEMMA ArrivalsStay ==
    ASSUME CallsInv, MetricsInv, [Next]_vars,
           ~ \E c \in Calls : RecordRequestArrival(c)
    PROVE  /\ queue'.arrival_count_ = queue.arrival_count_
           /\ queue'.prev_arrival_ = queue.prev_arrival_
           /\ queue'.time_between_requests_ = queue.time_between_requests_
           /\ first_arrival' = first_arrival
<1>0. queue \in QueueType
  BY DEF MetricsInv
<1>1. ASSUME NEW c \in Calls, CallStep(c)
      PROVE  /\ queue'.arrival_count_ = queue.arrival_count_
             /\ queue'.prev_arrival_ = queue.prev_arrival_
             /\ queue'.time_between_requests_ = queue.time_between_requests_
             /\ first_arrival' = first_arrival
  BY <1>0, <1>1 DEF QueueType, CallStep, Arrive, StartService, RecordServiceStart,
       HandleCall, CompleteService, RecordServiceComplete, RejectCall,
       RecordRequestDropout, locked_vars
<1>2. ASSUME SampleStep
      PROVE  /\ queue'.arrival_count_ = queue.arrival_count_
             /\ queue'.prev_arrival_ = queue.prev_arrival_
             /\ queue'.time_between_requests_ = queue.time_between_requests_
             /\ first_arrival' = first_arrival
  BY <1>0, <1>2, SampleSteps DEF QueueType, SampleStep, Start, Stop,
       ScheduleUpdatePeriodicMetrics, UpdatePeriodicMetrics
<1>3. ReadStep \/ Tick \/ UNCHANGED vars => UNCHANGED <<queue, first_arrival>>
  BY ReadSteps, TickSteps DEF vars, locked_vars
<1> QED BY <1>1, <1>2, <1>3, Steps

IntervalsInv ==
    /\ first_arrival \in Int
    /\ queue.arrival_count_ = 0 =>
          /\ first_arrival = NoTime /\ queue.prev_arrival_ = NoTime
          /\ queue.time_between_requests_.count = 0
          /\ queue.time_between_requests_.total = 0
    /\ queue.arrival_count_ > 0 => first_arrival # NoTime /\ queue.prev_arrival_ # NoTime
    /\ IntervalsAddUp

LEMMA DurationFields ==
    ASSUME NEW m \in Durations, NEW value \in Int
    PROVE  /\ AddValue(m, value, 1).count = m.count + 1
           /\ AddValue(m, value, 1).total = m.total + value
           /\ m.count \in Nat /\ m.total \in Int
<1>1. m \in Metrics /\ 1 \in Nat \ {0}
  BY DEF Durations
<1>2. Added(m, value, value * 1 - m.avg, AddValue(m, value, 1))
  BY <1>1, NewAverage
<1>3. m.count \in Nat /\ m.total \in Int
  BY <1>1 DEF Metrics
<1> QED BY <1>2, <1>3 DEF Added

\* UpdateAvgTimeBetweenRequests adds signed intervals: whatever order the
\* arrivals are recorded in, their sum telescopes to the time from the first
\* recorded arrival to the last.
THEOREM IntervalsAddUpTheorem == Spec => []IntervalsAddUp
<1>1. Init => IntervalsInv
  BY DEF Init, IntervalsInv, IntervalsAddUp, GetArrivalCount, NoTime, NewMetric
<1>2. CallsInv /\ MetricsInv /\ IntervalsInv /\ [Next]_vars => IntervalsInv'
  <2> SUFFICES ASSUME CallsInv, MetricsInv, IntervalsInv, [Next]_vars
               PROVE  IntervalsInv'
    OBVIOUS
  <2> USE DEF IntervalsInv, IntervalsAddUp, GetArrivalCount, GetTimeBetweenRequestsMetric
  <2>0. queue \in QueueType
    BY DEF MetricsInv
  <2>1. ASSUME NEW c \in Calls, RecordRequestArrival(c) PROVE IntervalsInv'
    <3> DEFINE a == call[c].arrival
               m == queue.time_between_requests_
               q == [queue EXCEPT !.arrival_count_ = @ + 1,
                                  !.current_in_system_count_ = @ + 1,
                                  !.current_queue_size_ = @ + 1]
    <3>1. a \in Int /\ a # NoTime
      BY <2>1 DEF RecordRequestArrival, CallsInv, CallType, TimesInOrder, At, NoTime
    <3>2. /\ m \in Durations /\ queue.prev_arrival_ \in Int /\ queue.arrival_count_ \in Nat
          /\ a - queue.prev_arrival_ \in Int
      BY <2>0, <3>1 DEF QueueType
    <3>3. /\ q.prev_arrival_ = queue.prev_arrival_ /\ q.time_between_requests_ = m
          /\ q.arrival_count_ = queue.arrival_count_ + 1
      BY <2>0 DEF QueueType
    <3>4. queue' = UpdateAvgTimeBetweenRequests(q, a)
      BY <2>1 DEF RecordRequestArrival
    <3>5. first_arrival' = IF first_arrival = NoTime THEN a ELSE first_arrival
      BY <2>1 DEF RecordRequestArrival
    <3>7. q = [q EXCEPT !.current_queue_size_ = @] /\ q \in QueueType
      BY <2>0, <3>2, QueueChanges DEF QueueType
    <3> HIDE DEF q, a
    <3>6. /\ queue'.prev_arrival_ = a
          /\ queue'.arrival_count_ = queue.arrival_count_ + 1
          /\ queue'.time_between_requests_ =
                IF queue.prev_arrival_ = NoTime THEN m
                ELSE AddValue(m, a - queue.prev_arrival_, 1)
      BY <3>3, <3>4, <3>7 DEF UpdateAvgTimeBetweenRequests, QueueType
    <3> HIDE DEF m
    <3>8. CASE queue.arrival_count_ = 0
      BY <3>1, <3>2, <3>5, <3>6, <3>8 DEF m
    <3>9. CASE queue.arrival_count_ > 0
      <4>1. /\ AddValue(m, a - queue.prev_arrival_, 1).count = m.count + 1
            /\ AddValue(m, a - queue.prev_arrival_, 1).total
                  = m.total + (a - queue.prev_arrival_)
            /\ m.count \in Nat /\ m.total \in Int
        BY <3>2, DurationFields
      <4>2. m.total = queue.prev_arrival_ - first_arrival
            /\ m.count = queue.arrival_count_ - 1
        BY <3>9 DEF m
      <4> QED BY <3>1, <3>2, <3>5, <3>6, <3>9, <4>1, <4>2
    <3> QED BY <3>2, <3>8, <3>9
  <2>2. CASE ~ \E c \in Calls : RecordRequestArrival(c)
    BY <2>2, ArrivalsStay
  <2> QED BY <2>1, <2>2
<1>3. IntervalsInv => IntervalsAddUp
  BY DEF IntervalsInv
<1> QED BY <1>1, <1>2, <1>3, MetricsInvariant, PTL DEF Spec

-----------------------------------------------------------------------------
(* The calls that are counted as arrived, and as serviced.                 *)

Recorded == {c \in Calls : call[c].at \notin {"new", "arrived"}}
Done == {c \in Calls : call[c].at = "done"}

CountsInv ==
    /\ IsFiniteSet(Recorded)
    /\ queue.arrival_count_ = Cardinality(Recorded)
    /\ GetServicedCount <= Cardinality(Done)

LEMMA ServicedCounts ==
    ASSUME MetricsInv
    PROVE  /\ [s \in Servers |-> GetServerMetrics(s).count] \in [Servers -> Nat]
           /\ [s \in Servers |-> GetServerMetrics(s).count] \in [Servers -> Int]
           /\ GetServicedCount \in Nat
<1>1. \A s \in Servers : GetServerMetrics(s).count \in Nat
  BY DEF MetricsInv, ServiceType, Durations, Metrics, GetServerMetrics
<1>2. [s \in Servers |-> GetServerMetrics(s).count] \in [Servers -> Nat]
  BY <1>1
<1>3. GetServicedCount \in Nat
  BY <1>2, CollectionAssumption, SumFunctionType DEF GetServicedCount
<1> QED BY <1>1, <1>2, <1>3

\* A call that is counted as serviced is counted as arrived.
LEMMA ServicedHaveArrived ==
    ASSUME CallsInv, MetricsInv, CountsInv
    PROVE  GetServicedCount <= queue.arrival_count_
<1>1. Done \in SUBSET Recorded
  BY DEF Done, Recorded
<1>2. IsFiniteSet(Done) /\ Cardinality(Done) <= Cardinality(Recorded)
  BY <1>1, FS_Subset DEF CountsInv
<1>3. Cardinality(Done) \in Nat /\ Cardinality(Recorded) \in Nat
  BY <1>2, FS_CardinalityType DEF CountsInv
<1> QED BY <1>2, <1>3, ServicedCounts DEF CountsInv

\* A call that is done, one more.
LEMMA DoneGrows ==
    ASSUME CallsInv, CountsInv, NEW c \in Calls, call[c].at \in {"completed", "dropped"},
           Move(c, "done")
    PROVE  /\ Recorded' = Recorded
           /\ Cardinality(Done') = Cardinality(Done) + 1 /\ Cardinality(Done) \in Nat
<1>1. Recorded' = Recorded
  BY DEF CallsInv, CallType, Recorded, Move
<1>2. Done' = Done \cup {c} /\ c \notin Done
  BY DEF CallsInv, CallType, Done, Move
<1>3. Done \in SUBSET Recorded
  BY DEF Done, Recorded
<1>4. IsFiniteSet(Done)
  BY <1>3, FS_Subset DEF CountsInv
<1> QED BY <1>1, <1>2, <1>4, FS_AddElement, FS_CardinalityType

\* Calls that are neither recorded for the first time nor done for the first time.
LEMMA CountsStay ==
    ASSUME CallsInv, MetricsInv, CountsInv,
           Recorded' = Recorded, Done' = Done,
           queue'.arrival_count_ = queue.arrival_count_,
           service'.servers_metrics_ = service.servers_metrics_
    PROVE  CountsInv'
<1>1. GetServicedCount' = GetServicedCount
  BY DEF GetServicedCount, GetServerMetrics
<1> QED BY <1>1 DEF CountsInv

LEMMA CountsStep ==
    ASSUME CallsInv, MetricsInv, MetricsInv', CountsInv, [Next]_vars
    PROVE  CountsInv'
<1>0. queue \in QueueType /\ service \in ServiceType /\ call \in [Calls -> CallType]
  BY DEF MetricsInv, CallsInv
<1>1. ASSUME NEW c \in Calls, CallStep(c) PROVE CountsInv'
  <2>1. CASE RecordRequestArrival(c)
    <3>1. Recorded' = Recorded \cup {c} /\ c \notin Recorded /\ Done' = Done
      BY <1>0, <2>1 DEF RecordRequestArrival, At, Move, Recorded, Done, CallType
    <3>2. /\ IsFiniteSet(Recorded')
          /\ Cardinality(Recorded') = Cardinality(Recorded) + 1
      BY <3>1, FS_AddElement DEF CountsInv
    <3>3. queue'.arrival_count_ = queue.arrival_count_ + 1
      <4> DEFINE q == [queue EXCEPT !.arrival_count_ = @ + 1,
                                    !.current_in_system_count_ = @ + 1,
                                    !.current_queue_size_ = @ + 1]
      <4>1. NewMetric \in Durations
        BY NewMetricFits
      <4>2. q.arrival_count_ = queue.arrival_count_ + 1 /\ q \in QueueType
        BY <1>0, <4>1, QueueChanges DEF QueueType
      <4>3. queue' = UpdateAvgTimeBetweenRequests(q, call[c].arrival)
        BY <2>1 DEF RecordRequestArrival
      <4> HIDE DEF q
      <4> QED BY <4>2, <4>3 DEF UpdateAvgTimeBetweenRequests, QueueType
    <3>4. GetServicedCount' = GetServicedCount
      BY <2>1 DEF RecordRequestArrival, GetServicedCount, GetServerMetrics
    <3> QED BY <3>1, <3>2, <3>3, <3>4 DEF CountsInv
  <2>2. CASE RecordServiceComplete(c)
    <3> DEFINE s == call[c].server
               f == [x \in Servers |-> GetServerMetrics(x).count]
               h == [x \in Servers |-> service'.servers_metrics_[x].count]
    <3>1. s \in Servers /\ GetServiceTime(call[c]) \in Int
      BY <1>0, <2>2 DEF RecordServiceComplete, CallsInv, TimesInOrder, At, Serving,
           CallType, GetServiceTime
    <3>2. service.servers_metrics_ \in [Servers -> Durations]
      BY <1>0 DEF ServiceType
    <3>3. service'.servers_metrics_ =
            [service.servers_metrics_ EXCEPT ![s] = AddCompletedService(@, call[c])]
      BY <1>0, <2>2 DEF RecordServiceComplete, ServiceType
    <3>4. AddCompletedService(service.servers_metrics_[s], call[c]).count
            = service.servers_metrics_[s].count + 1
      BY <3>1, <3>2, DurationFields DEF AddCompletedService
    <3>5. h[s] = f[s] + 1 /\ \A x \in Servers \ {s} : h[x] = f[x]
      BY <3>1, <3>2, <3>3, <3>4 DEF GetServerMetrics
    <3>6. f \in [Servers -> Int] /\ SumFunction(f) = GetServicedCount
          /\ SumFunction(f) \in Nat
      BY ServicedCounts DEF GetServicedCount
    <3>7. h \in [Servers -> Int] /\ SumFunction(h) = GetServicedCount'
      <4>1. \A x \in Servers : service'.servers_metrics_[x].count \in Nat
        BY DEF MetricsInv, ServiceType, Durations, Metrics
      <4> QED BY <4>1 DEF GetServicedCount, GetServerMetrics
    <3> HIDE DEF f, h
    <3>8. SumFunction(h) = SumFunction(f) + 1
      BY <3>1, <3>5, <3>6, <3>7, CollectionAssumption, SumFunctionChange
    <3>9. /\ Recorded' = Recorded
          /\ Cardinality(Done') = Cardinality(Done) + 1 /\ Cardinality(Done) \in Nat
      BY <2>2, DoneGrows DEF RecordServiceComplete, At
    <3>10. queue'.arrival_count_ = queue.arrival_count_
      BY <1>0, <2>2 DEF RecordServiceComplete, QueueType
    <3> QED BY <3>6, <3>7, <3>8, <3>9, <3>10 DEF CountsInv
  <2>3. CASE RecordRequestDropout(c) /\ At(c, "dropped")
    <3>1. /\ Recorded' = Recorded
          /\ Cardinality(Done') = Cardinality(Done) + 1 /\ Cardinality(Done) \in Nat
      BY <2>3, DoneGrows DEF RecordRequestDropout, At
    <3>2. UNCHANGED <<queue, service>>
      BY <2>3 DEF RecordRequestDropout, At
    <3>3. GetServicedCount' = GetServicedCount /\ GetServicedCount \in Nat
      BY <3>2, ServicedCounts DEF GetServicedCount, GetServerMetrics
    <3> QED BY <3>1, <3>2, <3>3 DEF CountsInv
  <2>4. CASE ~RecordRequestArrival(c) /\ ~RecordServiceComplete(c)
             /\ ~(RecordRequestDropout(c) /\ At(c, "dropped"))
    <3>1. /\ \A x \in Calls : call'[x].at = "done" <=> call[x].at = "done"
          /\ \A x \in Calls : call'[x].at \in {"new", "arrived"}
                                <=> call[x].at \in {"new", "arrived"}
      <4> USE <1>0, <2>4 DEF At, Move, CallType
      <4>1. CASE Arrive(c)
        BY <4>1 DEF Arrive
      <4>2. CASE RecordServiceStart(c)
        BY <4>2 DEF RecordServiceStart
      <4>3. CASE HandleCall(c)
        BY <4>3 DEF HandleCall
      <4>4. CASE CompleteService(c)
        BY <4>4 DEF CompleteService
      <4>5. CASE RejectCall(c)
        BY <4>5 DEF RejectCall
      <4>6. CASE RecordRequestDropout(c)
        BY <4>6 DEF RecordRequestDropout
      <4>7. CASE \E s \in Servers : StartService(c, s)
        <5>1. PICK s \in Servers : StartService(c, s)
          BY <4>7
        <5>2. /\ call[c].at = "queued" /\ call'[c].at = "starting"
              /\ \A x \in Calls \ {c} : call'[x] = call[x]
          BY <5>1 DEF StartService
        <5> QED BY <5>2
      <4> QED BY <1>1, <4>1, <4>2, <4>3, <4>4, <4>5, <4>6, <4>7 DEF CallStep
    <3>2. Recorded' = Recorded /\ Done' = Done
      BY <3>1 DEF Recorded, Done
    <3>3. queue'.arrival_count_ = queue.arrival_count_ /\ service' = service
      BY <1>0, <1>1, <2>4 DEF CallStep, Arrive, StartService, RecordServiceStart,
           HandleCall, CompleteService, RejectCall, RecordRequestDropout,
           QueueType, locked_vars
    <3> QED BY <3>2, <3>3, CountsStay
  <2> QED BY <2>1, <2>2, <2>3, <2>4
<1>2. ASSUME SampleStep PROVE CountsInv'
  <2>1. Recorded' = Recorded /\ Done' = Done
    BY <1>2, SampleSteps DEF Recorded, Done
  <2>2. /\ queue'.arrival_count_ = queue.arrival_count_
        /\ service'.servers_metrics_ = service.servers_metrics_
    BY <1>0, <1>2 DEF QueueType, ServiceType, SampleStep, Start, Stop,
       ScheduleUpdatePeriodicMetrics, UpdatePeriodicMetrics
  <2> QED BY <2>1, <2>2, CountsStay
<1>3. ReadStep \/ Tick \/ UNCHANGED vars => UNCHANGED <<queue, service, call>>
  BY ReadSteps, TickSteps DEF vars, locked_vars
<1>4. CASE UNCHANGED <<queue, service, call>>
  BY <1>4, CountsStay DEF Recorded, Done
<1> QED BY <1>1, <1>2, <1>3, <1>4, Steps

-----------------------------------------------------------------------------
(* The time that the servers have served.                                  *)

Total(s) == service.servers_metrics_[s].total

\* What a server has served lies in the past, and before its present call.
LoadInv ==
    /\ recording_start_time_ \in Nat /\ starts \in Nat
    /\ starts = 0 => recording_start_time_ = 0
    /\ \A s \in Servers : Total(s) \in Int /\ Total(s) <= now
    /\ \A c \in Calls : call[c].at \in Serving => Total(call[c].server) <= call[c].start

LEMMA LoadStep ==
    ASSUME CallsInv, MetricsInv, LoadInv, [Next]_vars
    PROVE  LoadInv'
<1>0. /\ now \in Nat /\ call \in [Calls -> CallType] /\ service \in ServiceType
      /\ service.servers_metrics_ \in [Servers -> Durations]
  BY DEF CallsInv, MetricsInv, ServiceType
<1>1. ASSUME NEW c \in Calls, CallStep(c) PROVE LoadInv'
  <2>0. UNCHANGED <<now, recording_start_time_, starts>>
    BY <1>1, CallSteps
  <2>1. CASE RecordServiceComplete(c)
    <3> DEFINE s == call[c].server
               t == GetServiceTime(call[c])
               NewTotal(x) == service'.servers_metrics_[x].total
    <3>1. s \in Servers /\ t \in Int /\ t = call[c].complete - call[c].start
          /\ call[c].complete <= now /\ call[c].complete \in Int /\ call[c].start \in Int
      BY <1>0, <2>1 DEF RecordServiceComplete, CallsInv, TimesInOrder, At, Serving,
           CallType, GetServiceTime
    <3>2. service'.servers_metrics_ =
            [service.servers_metrics_ EXCEPT ![s] = AddCompletedService(@, call[c])]
      BY <1>0, <2>1 DEF RecordServiceComplete, ServiceType
    <3>3. AddCompletedService(service.servers_metrics_[s], call[c]).total = Total(s) + t
      BY <1>0, <3>1, DurationFields DEF AddCompletedService, Total
    <3>4. NewTotal(s) = Total(s) + t /\ \A x \in Servers \ {s} : NewTotal(x) = Total(x)
      BY <1>0, <3>1, <3>2, <3>3 DEF Total
    <3>5. Total(s) <= call[c].start /\ Total(s) \in Int
      BY <2>1, <3>1 DEF LoadInv, RecordServiceComplete, At, Serving
    <3>6. \A x \in Servers : NewTotal(x) \in Int /\ NewTotal(x) <= now
      BY <1>0, <3>1, <3>4, <3>5 DEF LoadInv
    <3>7. \A d \in Calls : call'[d].at \in Serving =>
             /\ call'[d] = call[d] /\ call[d].server \in Servers /\ call[d].server # s
      BY <1>0, <2>1 DEF RecordServiceComplete, At, Move, Serving, CallType, CallsInv,
           TimesInOrder, OneCallEach
    <3>8. \A d \in Calls : call'[d].at \in Serving => NewTotal(call'[d].server) <= call'[d].start
      <4> SUFFICES ASSUME NEW d \in Calls, call'[d].at \in Serving
                   PROVE  NewTotal(call'[d].server) <= call'[d].start
        OBVIOUS
      <4>1. call'[d] = call[d] /\ call[d].server \in Servers \ {s}
        BY <3>7
      <4>2. NewTotal(call[d].server) = Total(call[d].server)
        BY <3>4, <4>1
      <4> HIDE DEF NewTotal
      <4> QED BY <4>1, <4>2 DEF LoadInv
    <3> QED BY <2>0, <3>6, <3>8 DEF LoadInv, Total
  <2>2. ASSUME NEW s \in Servers, StartService(c, s) PROVE LoadInv'
    <3>1. /\ service' = service
          /\ call'[c].server = s /\ call'[c].start = now
          /\ \A d \in Calls \ {c} : call'[d] = call[d]
      BY <1>0, <2>2 DEF StartService, locked_vars, CallType
    <3> QED BY <1>0, <2>0, <3>1 DEF LoadInv, Total
  <2>3. CASE /\ ~RecordServiceComplete(c)
             /\ ~ \E s \in Servers : StartService(c, s)
    <3>1. service'.servers_metrics_ = service.servers_metrics_
      BY <1>0, <1>1, <2>3 DEF CallStep, Arrive, RecordRequestArrival, RecordServiceStart,
           HandleCall, CompleteService, RejectCall, RecordRequestDropout, locked_vars
    <3>2. \A d \in Calls : call'[d].at \in Serving =>
             /\ call[d].at \in Serving /\ call'[d].server = call[d].server
             /\ call'[d].start = call[d].start
      <4> USE <1>0 DEF At, Move, CallType, Serving
      <4>1. CASE Arrive(c)
        BY <4>1 DEF Arrive
      <4>2. CASE RecordRequestArrival(c)
        BY <4>2 DEF RecordRequestArrival
      <4>3. CASE RecordServiceStart(c)
        BY <4>3 DEF RecordServiceStart
      <4>4. CASE HandleCall(c)
        BY <4>4 DEF HandleCall
      <4>5. CASE CompleteService(c)
        BY <4>5 DEF CompleteService
      <4>6. CASE RejectCall(c)
        BY <4>6 DEF RejectCall
      <4>7. CASE RecordRequestDropout(c)
        BY <4>7 DEF RecordRequestDropout
      <4> QED BY <1>1, <2>3, <4>1, <4>2, <4>3, <4>4, <4>5, <4>6, <4>7 DEF CallStep
    <3> QED BY <2>0, <3>1, <3>2 DEF LoadInv, Total
  <2> QED BY <2>1, <2>2, <2>3
<1>2. ASSUME SampleStep PROVE LoadInv'
  <2>1. UNCHANGED <<now, call>>
    BY <1>2, SampleSteps
  <2>2. service'.servers_metrics_ = service.servers_metrics_
    BY <1>0, <1>2 DEF ServiceType, SampleStep, Start, Stop,
       ScheduleUpdatePeriodicMetrics, UpdatePeriodicMetrics
  <2>3. /\ recording_start_time_' \in Nat /\ starts' \in Nat
        /\ starts' = 0 => recording_start_time_' = 0
    BY <1>0, <1>2 DEF LoadInv, SampleStep, Start, Stop,
       ScheduleUpdatePeriodicMetrics, UpdatePeriodicMetrics
  <2> QED BY <2>1, <2>2, <2>3 DEF LoadInv, Total
<1>3. CASE Tick
  BY <1>0, <1>3, TickSteps DEF Tick, LoadInv, Total
<1>4. CASE UNCHANGED <<now, call, service, recording_start_time_, starts>>
  BY <1>4 DEF LoadInv, Total
<1>5. ReadStep \/ UNCHANGED vars =>
        UNCHANGED <<now, call, service, recording_start_time_, starts>>
  BY ReadSteps DEF vars, locked_vars, sampling_vars
<1> QED BY <1>1, <1>2, <1>3, <1>4, <1>5, Steps

\* All servers together have served no more than each of them could have.
LEMMA FeasibleLoad ==
    ASSUME CallsInv, LoadInv, starts = 0
    PROVE  TotalServiceTime <= Cardinality(Servers) * (now - recording_start_time_)
<1> DEFINE f == [s \in Servers |-> GetServerMetrics(s).total]
<1>1. f \in [Servers -> Int] /\ \A s \in Servers : f[s] <= now
  BY DEF LoadInv, Total, GetServerMetrics
<1>2. now \in Int /\ now - recording_start_time_ = now
  BY DEF LoadInv, CallsInv
<1>3. SumFunction(f) <= Cardinality(Servers) * now
  BY <1>1, <1>2, CollectionAssumption, SumFunctionBound
<1> QED BY <1>2, <1>3 DEF TotalServiceTime

-----------------------------------------------------------------------------
(* What readers see.                                                       *)

WaitInOrder(wait) ==
    wait.min * Second <= wait.avg /\ wait.avg < (wait.max + 1) * Second
CountInOrder(count) ==
    count.min * 1000 <= count.avg /\ count.avg <= count.max * 1000

\* What may be in a report that is being collected.
ReportFits(report) ==
    /\ "wait_time" \in DOMAIN report => WaitInOrder(report["wait_time"])
    /\ "queue_size" \in DOMAIN report => CountInOrder(report["queue_size"])
    /\ "busy_operators_count" \in DOMAIN report =>
          /\ CountInOrder(report["busy_operators_count"])
          /\ report["busy_operators_count"].max <= Cardinality(Servers)
    /\ "service_load_erlang" \in DOMAIN report /\ starts = 0 =>
          report["service_load_erlang"].served
              <= Cardinality(Servers) * report["service_load_erlang"].elapsed

\* A number of serviced calls that was read stays behind the arrivals.
ReaderInv ==
    \/ reader = NotReading
    \/ /\ reader = [at |-> "collecting", report |-> reader.report]
       /\ ReportFits(reader.report)
    \/ /\ reader = [at |-> "serviced", serviced |-> reader.serviced]
       /\ reader.serviced \in Nat /\ reader.serviced <= queue.arrival_count_
    \/ /\ reader.at = "loss"
       /\ reader.serviced <= reader.arrivals

LEMMA DivisionBounds ==
    ASSUME NEW d \in Int, NEW n \in Nat \ {0}, NEW k \in Int
    PROVE  /\ k * n <= d => k <= d \div n
           /\ d < (k + 1) * n => d \div n <= k
<1> DEFINE q == d \div n
<1>1. q \in Int /\ q * n \in Int /\ k * n \in Int /\ q * n <= d /\ d < q * n + n
  BY Division
<1> HIDE DEF q
<1>2. (q + 1) * n = q * n + n /\ (k + 1) * n = k * n + n
  BY <1>1
<1>3. ASSUME NEW a \in Int, NEW b \in Int, a + 1 <= b PROVE (a + 1) * n <= b * n
  BY <1>3, Monotone
<1>4. k * n <= d => k <= q
  <2> SUFFICES ASSUME k * n <= d, ~(k <= q) PROVE FALSE
    OBVIOUS
  <2>1. (q + 1) * n <= k * n
    BY <1>1, <1>3
  <2> QED BY <1>1, <1>2, <2>1
<1>5. d < (k + 1) * n => q <= k
  <2> SUFFICES ASSUME d < (k + 1) * n, ~(q <= k) PROVE FALSE
    OBVIOUS
  <2>1. (k + 1) * n <= q * n
    BY <1>1, <1>3
  <2> QED BY <1>1, <1>2, <2>1
<1> QED BY <1>4, <1>5 DEF q

LEMMA WaitsAreReported ==
    ASSUME NEW m \in Durations
    PROVE  WaitInOrder(MetricToJson(m))
<1>1. m.min \in Int /\ m.max \in Int /\ m.avg \in Int /\ m.min <= m.avg /\ m.avg <= m.max
  BY DEF Durations, Metrics, InRange
<1>2. Second \in Nat \ {0}
  BY CollectionAssumption
<1> DEFINE least == m.min \div Second
           greatest == m.max \div Second
<1>3. /\ least \in Int /\ greatest \in Int
      /\ least * Second <= m.min /\ m.max < greatest * Second + Second
  BY <1>1, <1>2, Division
<1>4. MetricToJson(m) = [min |-> least, max |-> greatest, avg |-> m.avg]
  BY DEF MetricToJson
<1> HIDE DEF least, greatest
<1>5. /\ (greatest + 1) * Second = greatest * Second + Second
      /\ greatest * Second \in Int /\ least * Second \in Int
  BY <1>2, <1>3
<1>6. least * Second <= m.avg /\ m.avg < (greatest + 1) * Second
  BY <1>1, <1>2, <1>3, <1>5
<1> QED BY <1>4, <1>6 DEF WaitInOrder

LEMMA CountsAreReported ==
    ASSUME NEW m \in Counts
    PROVE  CountInOrder(CountMetricToJson(m)) /\ CountMetricToJson(m).max = m.max
<1> DEFINE d == 2 * 1000 * m.avg + Scale
           n == 2 * Scale
<1>1. /\ m.min \in Int /\ m.max \in Int /\ m.avg \in Int
      /\ m.min * Scale <= m.avg /\ m.avg <= m.max * Scale
  BY DEF Counts, Metrics, InRange
<1>2. Scale \in Nat \ {0} /\ d \in Int /\ n \in Nat \ {0}
  BY <1>1, CollectionAssumption
<1>3. m.min * Scale \in Int /\ m.max * Scale \in Int
  BY <1>1, <1>2
<1>4. /\ (m.min * 1000) * n = 2000 * (m.min * Scale)
      /\ (m.max * 1000 + 1) * n = 2000 * (m.max * Scale) + 2 * Scale
  BY <1>1, <1>2
<1>5. (m.min * 1000) * n <= d /\ d < (m.max * 1000 + 1) * n
  BY <1>1, <1>2, <1>3, <1>4
<1>6. m.min * 1000 \in Int /\ m.max * 1000 \in Int
  BY <1>1
<1> HIDE DEF d, n
<1>7. m.min * 1000 <= d \div n /\ d \div n <= m.max * 1000
  BY <1>2, <1>5, <1>6, DivisionBounds
<1>8. CountMetricToJson(m) = [min |-> m.min, max |-> m.max, avg |-> d \div n]
  BY DEF CountMetricToJson, RoundToThousandths, d, n
<1> QED BY <1>7, <1>8 DEF CountInOrder

\* A getter adds one value to the report, and leaves the others as they are.
LEMMA Collected ==
    ASSUME ReaderInv, NEW field, NEW value, Collect(field, value)
    PROVE  /\ reader.at = "collecting" /\ ReportFits(reader.report)
           /\ reader' = [at |-> "collecting", report |-> reader'.report]
           /\ DOMAIN reader'.report = DOMAIN reader.report \cup {field}
           /\ \A f \in DOMAIN reader'.report :
                 reader'.report[f] = IF f = field THEN value ELSE reader.report[f]
<1>1. reader.at = "collecting"
  BY DEF Collect
<1>2. /\ reader = [at |-> "collecting", report |-> reader.report]
      /\ ReportFits(reader.report)
  BY <1>1 DEF ReaderInv, NotReading
<1> DEFINE new == [f \in DOMAIN reader.report \cup {field} |->
                      IF f = field THEN value ELSE reader.report[f]]
<1>3. reader' = [reader EXCEPT !.report = new]
  BY DEF Collect, Read
<1> HIDE DEF new
<1>4. reader' = [at |-> "collecting", report |-> new]
  BY <1>2, <1>3
<1>5. reader'.report = new
  BY <1>4
<1> QED BY <1>1, <1>2, <1>4, <1>5 DEF new

LEMMA ReaderStep ==
    ASSUME CallsInv, MetricsInv, CountsInv, LoadInv, ReaderInv, [Next]_vars
    PROVE  ReaderInv'
<1>0. queue \in QueueType /\ service \in ServiceType /\ starts \in Nat
  BY DEF MetricsInv, LoadInv
<1>1. ASSUME ReadStep PROVE ReaderInv'
  <2>0. UNCHANGED <<queue, starts>>
    BY <1>1, ReadSteps
  <2>1. CASE MakeGetMetricsResponseBody
    <3>1. reader' = [at |-> "collecting", report |-> <<>>]
      BY <2>1 DEF MakeGetMetricsResponseBody, Read
    <3>2. DOMAIN <<>> = {}
      OBVIOUS
    <3> QED BY <3>1, <3>2 DEF ReaderInv, ReportFits
  <2>2. CASE GetWaitTimeMetric
    <3>1. WaitInOrder(MetricToJson(queue.wait_time_))
      BY <1>0, WaitsAreReported DEF QueueType
    <3> QED BY <2>0, <2>2, <3>1, Collected DEF GetWaitTimeMetric, ReaderInv, ReportFits
  <2>3. CASE GetQueueSizeMetric
    <3>1. CountInOrder(CountMetricToJson(queue.queue_size_))
      BY <1>0, CountsAreReported DEF QueueType
    <3> QED BY <2>0, <2>3, <3>1, Collected DEF GetQueueSizeMetric, ReaderInv, ReportFits
  <2>4. CASE GetBusyServerCountMetric
    <3> DEFINE busy == CountMetricToJson(service.busy_server_count_)
    <3>1. CountInOrder(busy) /\ busy.max <= Cardinality(Servers)
      BY <1>0, CountsAreReported DEF ServiceType, MetricsInv
    <3>2. Collect("busy_operators_count", busy)
      BY <2>4 DEF GetBusyServerCountMetric
    <3> HIDE DEF busy
    <3> QED BY <2>0, <3>1, <3>2, Collected DEF ReaderInv, ReportFits
  <2>5. CASE GetServiceLoadInErlang
    <3> DEFINE load == [served |-> TotalServiceTime, elapsed |-> now - recording_start_time_]
    <3>1. starts = 0 => load.served <= Cardinality(Servers) * load.elapsed
      BY FeasibleLoad
    <3>2. Collect("service_load_erlang", load)
      BY <2>5 DEF GetServiceLoadInErlang
    <3> HIDE DEF load
    <3> QED BY <2>0, <3>1, <3>2, Collected DEF ReaderInv, ReportFits
  <2>6. CASE GetProbabilityOfLoss
    <3>1. CASE Read("idle", [at |-> "serviced", serviced |-> GetServicedCount])
      BY <2>0, <3>1, ServicedCounts, ServicedHaveArrived DEF Read, ReaderInv
    <3>2. CASE Read("serviced", [at |-> "loss", serviced |-> reader.serviced,
                                 arrivals |-> GetArrivalCount])
      BY <2>0, <3>2 DEF Read, ReaderInv, NotReading, GetArrivalCount
    <3> QED BY <2>6, <3>1, <3>2 DEF GetProbabilityOfLoss
  <2>7. CASE ReadingDone
    BY <2>7 DEF ReadingDone, Read, ReaderInv
  <2> QED BY <1>1, <2>1, <2>2, <2>3, <2>4, <2>5, <2>6, <2>7 DEF ReadStep
<1>2. ASSUME ~ReadStep PROVE ReaderInv'
  <2>1. UNCHANGED reader
    BY <1>2, Steps, CallSteps, SampleSteps, TickSteps DEF vars
  <2>2. starts' \in Nat /\ (starts' = 0 => starts = 0)
    <3>1. CASE Start
      BY <1>0, <3>1 DEF Start
    <3>2. CASE UNCHANGED starts
      BY <1>0, <3>2
    <3>3. SampleStep /\ ~Start => UNCHANGED starts
      BY DEF SampleStep, Stop, ScheduleUpdatePeriodicMetrics, UpdatePeriodicMetrics
    <3> QED BY <1>2, <3>1, <3>2, <3>3, Steps, CallSteps, TickSteps DEF vars, sampling_vars
  <2>3. queue.arrival_count_ \in Nat /\ queue'.arrival_count_ \in Nat
        /\ queue.arrival_count_ <= queue'.arrival_count_
    <3>0. queue.arrival_count_ \in Nat
      BY <1>0 DEF QueueType
    <3>1. ASSUME NEW c \in Calls, RecordRequestArrival(c)
          PROVE  queue'.arrival_count_ = queue.arrival_count_ + 1
      <4> DEFINE q == [queue EXCEPT !.arrival_count_ = @ + 1,
                                    !.current_in_system_count_ = @ + 1,
                                    !.current_queue_size_ = @ + 1]
      <4>1. NewMetric \in Durations
        BY NewMetricFits
      <4>2. q.arrival_count_ = queue.arrival_count_ + 1 /\ q \in QueueType
        BY <1>0, <4>1, QueueChanges DEF QueueType
      <4>3. queue' = UpdateAvgTimeBetweenRequests(q, call[c].arrival)
        BY <3>1 DEF RecordRequestArrival
      <4> HIDE DEF q
      <4> QED BY <4>2, <4>3 DEF UpdateAvgTimeBetweenRequests, QueueType
    <3> QED BY <3>0, <3>1, ArrivalsStay
  <2> QED BY <2>1, <2>2, <2>3 DEF ReaderInv, ReportFits
<1> QED BY <1>1, <1>2

LEMMA ReaderInvariant == Spec => []ReaderInv
<1>1. Init => CountsInv /\ LoadInv /\ ReaderInv
  <2> SUFFICES ASSUME Init PROVE CountsInv /\ LoadInv /\ ReaderInv
    OBVIOUS
  <2>1. Recorded = {} /\ Done = {}
    BY DEF Init, Recorded, Done
  <2>2. GetServicedCount <= 0
    <3> DEFINE f == [s \in Servers |-> GetServerMetrics(s).count]
    <3>1. f \in [Servers -> Int] /\ \A s \in Servers : f[s] <= 0
      BY DEF Init, GetServerMetrics, NewMetric
    <3>2. SumFunction(f) <= Cardinality(Servers) * 0
      BY <3>1, CollectionAssumption, SumFunctionBound
    <3>3. Cardinality(Servers) * 0 = 0
      BY CollectionAssumption, FS_CardinalityType
    <3> QED BY <3>2, <3>3 DEF GetServicedCount
  <2>3. CountsInv
    BY <2>1, <2>2, FS_EmptySet DEF Init, CountsInv
  <2>4. LoadInv
    BY DEF Init, LoadInv, Total, NewMetric, Serving
  <2> QED BY <2>3, <2>4 DEF Init, ReaderInv
<1>2. CallsInv /\ MetricsInv /\ MetricsInv' /\ CountsInv /\ [Next]_vars => CountsInv'
  BY CountsStep
<1>3. CallsInv /\ MetricsInv /\ LoadInv /\ [Next]_vars => LoadInv'
  BY LoadStep
<1>4. CallsInv /\ MetricsInv /\ CountsInv /\ LoadInv /\ ReaderInv /\ [Next]_vars => ReaderInv'
  BY ReaderStep
<1> QED BY <1>1, <1>2, <1>3, <1>4, MetricsInvariant, PTL DEF Spec

\* GetProbabilityOfLoss reads the serviced calls under one lock and the arrivals
\* under another, and the quotient is a share: every serviced call was counted
\* as an arrival before, and arrivals are never forgotten.
THEOREM LossIsAShareTheorem == Spec => []LossIsAShare
<1>1. ReaderInv => LossIsAShare
  BY DEF ReaderInv, LossIsAShare, NotReading
<1> QED BY <1>1, ReaderInvariant, PTL

\* The load that GetServiceLoadInErlang states is one that the servers could
\* have carried: the service times of one server do not overlap, and lie
\* between the start of the recording and the present.
THEOREM LoadIsFeasibleTheorem == Spec => []LoadIsFeasible
<1>1. ReaderInv => LoadIsFeasible
  BY DEF ReaderInv, ReportFits, LoadIsFeasible, Reported, NotReading, Fields
<1> QED BY <1>1, ReaderInvariant, PTL

\* A report of MakeGetMetricsResponseBody is in order, whatever happens between
\* its getters: rounding to seconds and to thousandths keeps an average between
\* the least and the greatest value, and no more servers are busy than exist.
THEOREM ReportIsInOrderTheorem == Spec => []ReportIsInOrder
<1>1. ReaderInv => ReportIsInOrder
  BY DEF ReaderInv, ReportFits, WaitInOrder, CountInOrder, ReportIsInOrder,
         Reported, NotReading, Fields
<1> QED BY <1>1, ReaderInvariant, PTL
=============================================================================
