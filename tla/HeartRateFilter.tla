-------------------------- MODULE HeartRateFilter --------------------------
(***************************************************************************)
(* The smoothing of heart rates in sink_heart_rate_calc.c: a filter that   *)
(* locks on to a steady rate, follows it slowly and lets go after a run of *)
(* zeros.  All its arithmetic is that of the code's unsigned types.        *)
(***************************************************************************)
EXTENDS Integers, Sequences, FiniteSets

CONSTANTS
    UINT8, UINT16,      \* how many values the types have; 2^16 both on the XAP
    HB_MIN_VALUE, HB_SMOOTH_THRESHOLD, HB_SMOOTH_FILTER,
    HB_SMOOTH_COUNT, HB_YZERO_THRESHOLD,
    HB_SMOOTH_ORIGIN_SIZE, HB_SMOOTH_BUFF_SIZE,
    Rate                \* the values of the sensor

ASSUME WidthAssumption ==
    /\ UINT8 \in Nat /\ UINT16 \in Nat /\ UINT8 <= UINT16
    /\ Rate \subseteq Nat

\* The sensor's rates are bytes, and the types of the XAP have twice their width.
ASSUME RateAssumption == \A r \in Rate : r + HB_SMOOTH_FILTER < UINT8

ASSUME ThresholdAssumption ==
    /\ HB_MIN_VALUE \in Nat
    /\ HB_SMOOTH_THRESHOLD \in Nat /\ HB_SMOOTH_FILTER \in Nat
    /\ HB_SMOOTH_THRESHOLD < HB_SMOOTH_FILTER
    /\ HB_SMOOTH_FILTER <= HB_MIN_VALUE /\ HB_YZERO_THRESHOLD < UINT8

ASSUME SizeAssumption ==
    /\ {HB_SMOOTH_COUNT, HB_YZERO_THRESHOLD} \subseteq 1..HB_SMOOTH_ORIGIN_SIZE
    /\ HB_SMOOTH_ORIGIN_SIZE \in Nat \ {0, 1} /\ HB_SMOOTH_BUFF_SIZE \in Nat \ {0}

\* The largest sum of plausible rates fits, so that an average is one.
ASSUME SumAssumption ==
    \A r \in Rate : r * HB_SMOOTH_COUNT < UINT16 /\ r * HB_SMOOTH_BUFF_SIZE < UINT16

VARIABLES
    p_smooth_value,     \* the value given out last
    zero_num, smooth_status,
    hb_origin_buff,     \* the latest values, newest first
    hb_smooth_buff,     \* the latest corrected values, newest first
    measuring,          \* smooth_var # NULL
    lo, hi              \* history: the range of the values since the start

smooth_var == <<p_smooth_value, zero_num, smooth_status, hb_origin_buff, hb_smooth_buff>>
vars == <<smooth_var, measuring, lo, hi>>

Zeros(size) == [k \in 1..size |-> 0]

\* memset of the whole record
Cleared ==
    /\ p_smooth_value' = 0 /\ zero_num' = 0 /\ smooth_status' = "BEFORE"
    /\ hb_origin_buff' = Zeros(HB_SMOOTH_ORIGIN_SIZE)
    /\ hb_smooth_buff' = Zeros(HB_SMOOTH_BUFF_SIZE)

Init ==
    /\ p_smooth_value = 0 /\ zero_num = 0 /\ smooth_status = "BEFORE"
    /\ hb_origin_buff = Zeros(HB_SMOOTH_ORIGIN_SIZE)
    /\ hb_smooth_buff = Zeros(HB_SMOOTH_BUFF_SIZE)
    /\ measuring = FALSE /\ lo = UINT8 - 1 /\ hi = 0

-----------------------------------------------------------------------------
(* Helpers                                                                 *)

Fifo_insert(fifo, value) == <<value>> \o SubSeq(fifo, 1, Len(fifo) - 1)

Sum16(values) ==
    LET sum[n \in 0..Len(values)] ==
          IF n = 0 THEN 0 ELSE (sum[n - 1] + values[n]) % UINT16
    IN sum[Len(values)]

\* Mutant: the slots that are still empty count.
AverageOfAll(data) == Sum16(data) \div Len(data)

\* The average of the values other than 0.
Get_average(data) ==
    LET counted == Cardinality({k \in DOMAIN data : data[k] # 0})
    IN IF Sum16(data) = 0 THEN 0 ELSE (Sum16(data) \div counted) % UINT8

Distance(a, b) == IF a > b THEN a - b ELSE b - a

Latest == SubSeq(hb_origin_buff', 1, HB_SMOOTH_COUNT)

\* The last rates are those of a heart, and close to the newest.
Plausible == Sum16(Latest) \div HB_SMOOTH_COUNT >= HB_MIN_VALUE

Steady(hb_value) ==
    \A k \in 1..HB_SMOOTH_COUNT : Distance(Latest[k], hb_value) <= HB_SMOOTH_THRESHOLD

\* The thresholds around p are uint8 themselves.
Above(p, d) == (p + d) % UINT8
Below(p, d) == (p - d) % UINT8

\* Mutant: a value out of the range is taken as it is.
Unlimited(p, hb_value) == hb_value

\* A value far away moves p by a step, one not so far away is ignored.
Limited(p, hb_value) ==
    LET threshold_1 == Above(p, HB_SMOOTH_THRESHOLD)
        threshold_2 == Above(p, HB_SMOOTH_FILTER)
        threshold_3 == Below(p, HB_SMOOTH_THRESHOLD)
        threshold_4 == Below(p, HB_SMOOTH_FILTER)
    IN IF hb_value > threshold_2 THEN threshold_1
       ELSE IF hb_value < threshold_4 THEN threshold_3
       ELSE IF hb_value > threshold_1 \/ hb_value < threshold_3 THEN p
       ELSE hb_value

\* Mutant: a rate in between does not end the run of zeros.
CountOn(hb_value) == IF hb_value = 0 THEN (zero_num + 1) % UINT8 ELSE zero_num

\* hb_origin_buff[1] is the value before this one.
ZeroNum(hb_value) ==
    IF hb_value # 0 THEN zero_num
    ELSE IF hb_origin_buff[1] # 0 THEN 1
    ELSE (zero_num + 1) % UINT8

-----------------------------------------------------------------------------
(* Koovox_heartrate_smooth, stage by stage                                 *)

Insert(hb_value) ==
    /\ measuring /\ hb_origin_buff' = Fifo_insert(hb_origin_buff, hb_value)
    /\ lo' = IF hb_value < lo THEN hb_value ELSE lo
    /\ hi' = IF hb_value > hi THEN hb_value ELSE hi
    /\ UNCHANGED measuring

\* Before: nothing is given out until the average is a heart's; the values are
\* given out as they are until they are steady.
SmoothBefore(hb_value) ==
    /\ smooth_status = "BEFORE" /\ Insert(hb_value)
    /\ p_smooth_value' = IF Plausible THEN hb_value ELSE 0
    /\ IF Plausible /\ Steady(hb_value)
       THEN smooth_status' = "MIDDLE" /\ hb_smooth_buff' = Zeros(HB_SMOOTH_BUFF_SIZE)
       ELSE UNCHANGED <<smooth_status, hb_smooth_buff>>
    /\ UNCHANGED zero_num

\* Middle: the corrected values are averaged.
SmoothMiddle(hb_value) ==
    /\ smooth_status = "MIDDLE" /\ Insert(hb_value)
    /\ zero_num' = ZeroNum(hb_value)
    /\ smooth_status' = IF hb_value = 0 /\ zero_num' >= HB_YZERO_THRESHOLD
                        THEN "AFTER" ELSE "MIDDLE"
    /\ hb_smooth_buff' = Fifo_insert(hb_smooth_buff, Limited(p_smooth_value, hb_value))
    /\ p_smooth_value' = Get_average(hb_smooth_buff')

\* After: the next value, whatever it is, starts all over.
SmoothAfter(hb_value) ==
    /\ smooth_status = "AFTER" /\ measuring
    /\ Cleared
    /\ lo' = UINT8 - 1 /\ hi' = 0
    /\ UNCHANGED measuring

\* Koovox_init_smooth_var and Koovox_free_smooth_var, from the confirmation of
\* the sensor.  A second start clears the record in use.
Start == measuring' = TRUE /\ Cleared /\ lo' = UINT8 - 1 /\ hi' = 0

Stop == measuring /\ measuring' = FALSE /\ UNCHANGED <<smooth_var, lo, hi>>

Sample(hb_value) ==
    SmoothBefore(hb_value) \/ SmoothMiddle(hb_value) \/ SmoothAfter(hb_value)

Next == Start \/ Stop \/ \E v \in Rate : Sample(v)

Spec == Init /\ [][Next]_vars

-----------------------------------------------------------------------------
(* Properties                                                              *)

\* While the sensor gives rates of a heart and no zeros, the value given out is
\* between the lowest and the highest of them, or 0 at the beginning: no
\* threshold wraps.
Between == (lo >= HB_MIN_VALUE /\ p_smooth_value # 0) => p_smooth_value \in lo..hi

\* As the comment of zero_num says, "the number of consecutive zeros in the
\* buffer": a run of HB_YZERO_THRESHOLD zeros, and no other, ends the stage.
ZerosCounted ==
    LET run == CHOOSE n \in 0..HB_SMOOTH_ORIGIN_SIZE :
                 /\ \A k \in 1..n : hb_origin_buff[k] = 0
                 /\ n < HB_SMOOTH_ORIGIN_SIZE => hb_origin_buff[n + 1] # 0
    IN /\ smooth_status = "MIDDLE" => run < HB_YZERO_THRESHOLD
       /\ smooth_status = "AFTER"  => run >= HB_YZERO_THRESHOLD

\* The thresholds around p do not wrap.
NoWrap(p) == HB_SMOOTH_FILTER <= p /\ p + HB_SMOOTH_FILTER < UINT8

\* While the filter is locked on, a value, a dropout or an outlier moves what is
\* given out by a threshold at most.
SmallSteps ==
    [][(smooth_status = "MIDDLE" /\ smooth_status' # "BEFORE" /\ NoWrap(p_smooth_value))
        => Distance(p_smooth_value', p_smooth_value) <= HB_SMOOTH_THRESHOLD]_vars
=============================================================================
