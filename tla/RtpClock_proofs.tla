-------------------------- MODULE RtpClock_proofs --------------------------
(***************************************************************************)
(* Proofs about the clock of the RTP reader, for any length of the day,    *)
(* clock rate, width of the timestamps and recordings.                     *)
(***************************************************************************)
EXTENDS RtpClock, TLAPS

-----------------------------------------------------------------------------
(* Arithmetic.                                                             *)

LEMMA ProductInt ==
    ASSUME NEW a \in Int, NEW b \in Int
    PROVE  a * b \in Int
OBVIOUS

LEMMA ProductMonotone ==
    ASSUME NEW k \in Nat, NEW a \in Int, NEW b \in Int, a <= b
    PROVE  k * a <= k * b
OBVIOUS

LEMMA ProductSplit ==
    ASSUME NEW k \in Int, NEW a \in Int, NEW b \in Int
    PROVE  k * (a + b) = k * a + k * b /\ k * (a - b) = k * a - k * b
OBVIOUS

(* Division: its meaning, and that it is determined by it.                 *)
LEMMA Quotient ==
    ASSUME NEW n \in Int, NEW d \in Int, d > 0
    PROVE  /\ n \div d \in Int /\ n % d \in 0 .. (d - 1)
           /\ n = d * (n \div d) + (n % d)
<1>1. n \div d \in Int
  OBVIOUS
<1>2. n % d \in 0 .. (d - 1)
  OBVIOUS
<1>3. n = d * (n \div d) + (n % d)
  BY Z3
<1>4. QED
  BY <1>1, <1>2, <1>3

LEMMA QuotientUnique ==
    ASSUME NEW n \in Int, NEW d \in Nat \ {0}, NEW q \in Int, NEW m \in 0 .. (d - 1),
           n = d * q + m
    PROVE  n \div d = q /\ n % d = m
<1> DEFINE p == n \div d
           r == n % d
<1>1. p \in Int /\ r \in 0 .. (d - 1) /\ n = d * p + r
  BY Quotient
<1> HIDE DEF p, r
<1>2. ~(p < q)
  <2> SUFFICES ASSUME p + 1 <= q PROVE FALSE
    BY <1>1
  <2>1. d * (p + 1) <= d * q
    BY <1>1, ProductMonotone
  <2>2. d * (p + 1) = d * p + d
    BY <1>1
  <2>3. QED
    BY <1>1, <2>1, <2>2, ProductInt
<1>3. ~(q < p)
  <2> SUFFICES ASSUME q + 1 <= p PROVE FALSE
    BY <1>1
  <2>1. d * (q + 1) <= d * p
    BY <1>1, ProductMonotone
  <2>2. d * (q + 1) = d * q + d
    OBVIOUS
  <2>3. QED
    BY <1>1, <2>1, <2>2, ProductInt
<1>4. p = q
  BY <1>1, <1>2, <1>3
<1>5. r = m
  BY <1>1, <1>4, ProductInt
<1>6. QED
  BY <1>4, <1>5 DEF p, r

(* The beginning of the day is at or before the instant, by less than one. *)
LEMMA DayStartBounds ==
    ASSUME NEW t \in Int
    PROVE  /\ DayStart(t) \in Int
           /\ DayStart(t) <= t /\ t < DayStart(t) + Day
<1>1. /\ t \div Day \in Int /\ t % Day \in 0 .. (Day - 1)
      /\ t = Day * (t \div Day) + (t % Day)
  BY Quotient, ScaleAssumption
<1>2. DayStart(t) = Day * (t \div Day) /\ Day * (t \div Day) \in Int
  BY <1>1, ScaleAssumption, ProductInt DEF DayStart
<1>3. QED
  BY <1>1, <1>2, ScaleAssumption

(* A recording that begins after a midnight and ends before the next.      *)
WithinDay(r) == DayStart(r.start) < r.start /\ r.end < DayStart(r.start) + Day

LEMMA SameDay ==
    ASSUME NEW s \in Int, NEW t \in Int, DayStart(s) <= t, t < DayStart(s) + Day
    PROVE  DayStart(t) = DayStart(s)
<1>1. s \div Day \in Int /\ DayStart(s) = Day * (s \div Day) /\ DayStart(s) \in Int
  BY Quotient, DayStartBounds, ScaleAssumption DEF DayStart
<1>2. t - DayStart(s) \in 0 .. (Day - 1) /\ t = Day * (s \div Day) + (t - DayStart(s))
  BY <1>1, ScaleAssumption
<1> DEFINE q == s \div Day
           m == t - DayStart(s)
<1>3. q \in Int /\ m \in 0 .. (Day - 1) /\ t = Day * q + m
  BY <1>1, <1>2
<1> HIDE DEF q, m
<1>4. t \div Day = q
  BY <1>3, QuotientUnique, ScaleAssumption
<1>5. QED
  BY <1>4 DEF DayStart, q

(* Milliseconds and ticks.                                                 *)
LEMMA MillisInt ==
    ASSUME NEW n \in Int
    PROVE  Millis(n) \in Int
BY ScaleAssumption DEF Millis

LEMMA MillisOfTicks ==
    ASSUME NEW a \in Int
    PROVE  Rate * a \in Int /\ Millis(Rate * a) = a
<1>1. Rate * a \in Int /\ Rate \in Nat \ {0}
  BY ScaleAssumption, ProductInt
<1>2. ASSUME NEW b \in Int
      PROVE  (Rate * b) \div Rate = b
  <2>1. Rate * b \in Int /\ Rate * b = Rate * b + 0 /\ 0 \in 0 .. (Rate - 1)
    BY <1>1, ProductInt
  <2>2. QED
    BY <1>1, <2>1, QuotientUnique
<1>3. -(Rate * a) = Rate * (-a) /\ -a \in Int /\ -(-a) = a
  BY <1>1
<1>4. (Rate * a) \div Rate = a /\ (-(Rate * a)) \div Rate = -a
  BY <1>2, <1>3
<1> DEFINE n == Rate * a
<1> HIDE DEF n
<1>5. n \div Rate = a /\ (-n) \div Rate = -a /\ n \in Int
  BY <1>1, <1>4 DEF n
<1>7. Millis(n) = a
  BY <1>3, <1>5 DEF Millis
<1>6. QED
  BY <1>1, <1>7 DEF n

LEMMA MillisBelow ==
    ASSUME NEW n \in Nat
    PROVE  Millis(n) \in Nat /\ Rate * Millis(n) <= n
<1>1. n \div Rate \in Nat
  BY ScaleAssumption
<1>2. Rate * (n \div Rate) <= n
  BY Quotient, ScaleAssumption, ProductInt
<1>3. QED
  BY <1>1, <1>2 DEF Millis

LEMMA StampType ==
    ASSUME NEW t \in Int
    PROVE  Ticks(t) \in Nat /\ Stamp(t) \in 0 .. (2 * Half - 1)
<1>1. t - DayStart(t) \in Nat
  BY DayStartBounds
<1>2. Ticks(t) \in Nat
  BY <1>1, ScaleAssumption DEF Ticks
<1>3. 2 * Half \in Nat \ {0}
  BY ScaleAssumption
<1>4. QED
  BY <1>2, <1>3, Quotient DEF Stamp

LEMMA UnwrapType ==
    ASSUME NEW raw \in 0 .. (2 * Half - 1), NEW prev \in 0 .. (2 * Half - 1), NEW rtp \in Int
    PROVE  Unwrap(raw, prev, rtp) \in Int
BY ScaleAssumption DEF Unwrap

-----------------------------------------------------------------------------
(* Types.                                                                  *)
Readers == [generation : 0 .. MaxSeeks, raw : 0 .. (2 * Half - 1), rtp : Int,
            refReal : Nat, refRtp : Int, anchored : BOOLEAN]

(* A recording is made of times.                                           *)
LEMMA RecordingType ==
    ASSUME TypeOK
    PROVE  recording.start \in Nat /\ recording.end \in Nat /\ recording.start <= recording.end
BY RecordingsAssumption DEF TypeOK, Interval

LEMMA LoadedType ==
    ASSUME NEW t \in Nat, NEW r, r.end \in Nat, t < r.end
    PROVE  /\ Loaded(t, r).start = t /\ Loaded(t, r).end \in Nat
           /\ t < Loaded(t, r).end /\ Loaded(t, r).end <= r.end
           /\ Loaded(t, r) = Interval(Loaded(t, r).start, Loaded(t, r).end)
BY ScaleAssumption DEF Loaded, Interval, Least

LEMMA SyncedType ==
    ASSUME TypeOK, NEW raw \in 0 .. (2 * Half - 1)
    PROVE  Synced(raw) \in Readers
<1>1. CASE Fresh
  BY <1>1 DEF TypeOK, Synced, Readers
<1>2. CASE ~Fresh
  <2>1. Unwrap(raw, reader.raw, reader.rtp) \in Int /\ reader \in Readers
    BY UnwrapType DEF TypeOK, Readers
  <2>2. QED
    BY <1>2, <2>1 DEF Synced, Readers
<1>3. QED
  BY <1>1, <1>2

LEMMA ByTypes ==
    ASSUME TypeOK, NEW r \in Readers
    PROVE  ByRtp(r) \in Int /\ ByRef(r) \in Nat
<1>1. /\ r.rtp \in Int /\ r.refRtp \in Int /\ r.refReal \in Nat /\ span.start \in Nat
      /\ Most(r.rtp, 0) \in Int
  BY DEF TypeOK, Readers, Most
<1>2. DayStart(span.start) \in Int /\ Millis(Most(r.rtp, 0)) \in Int
  BY <1>1, DayStartBounds, MillisInt
<1>3. Millis(r.rtp - r.refRtp) \in Int
  BY <1>1, MillisInt
<1>4. QED
  BY <1>1, <1>2, <1>3 DEF ByRtp, ByRef, Most

LEMMA TypeInit == Init => TypeOK
<1> SUFFICES ASSUME Init PROVE TypeOK
  OBVIOUS
<1>1. reader \in Readers
  BY ScaleAssumption, BoundsAssumption DEF Init, Readers
<1>2. span.start = 0 /\ span.end = 0 /\ span = Interval(0, 0) /\ Within(position, span)
  BY DEF Init, Interval, Within
<1>3. QED
  BY <1>1, <1>2, BoundsAssumption DEF Init, TypeOK, Readers

LEMMA TypeStep ==
    ASSUME TypeOK, [Next]_vars
    PROVE  TypeOK'
<1>1. ASSUME NEW r \in Recordings, NEW t \in r.start .. r.end, Seek(r, t)
      PROVE  TypeOK'
  <2>1. t \in Nat /\ r.end \in Nat /\ t < r.end
    BY <1>1, RecordingsAssumption DEF Seek
  <2>2. /\ span'.start = t /\ span'.end \in Nat /\ t < span'.end
        /\ span' = Interval(span'.start, span'.end)
    BY <1>1, <2>1, LoadedType DEF Seek
  <2>3. generation' \in 0 .. MaxSeeks
    BY <1>1, BoundsAssumption DEF Seek, TypeOK
  <2>4. QED
    BY <1>1, <2>1, <2>2, <2>3 DEF Seek, TypeOK, Within
<1>2. CASE NextFragment
  <2>1. /\ span'.start = span.end /\ span'.end \in Nat /\ span.end < span'.end
        /\ span' = Interval(span'.start, span'.end) /\ span.end \in Nat
    BY <1>2, RecordingType, LoadedType DEF NextFragment, TypeOK
  <2>2. QED
    BY <1>2, <2>1 DEF NextFragment, TypeOK, Within
<1>3. ASSUME NEW c \in FrameTimes, Frame(c)
      PROVE  TypeOK'
  <2> DEFINE r == Synced(Stamp(c))
             inRange == Within(ByRtp(r), span)
  <2>1. c \in Int
    BY FramesAssumption DEF FrameTimes, TypeOK
  <2>2. c \in Nat
    BY <1>3, <2>1, RecordingType DEF Frame, Within
  <2>3. r \in Readers
    BY <2>1, StampType, SyncedType
  <2>4. ByRtp(r) \in Int /\ ByRef(r) \in Nat
    BY <2>3, ByTypes
  <2>5. span.start \in Nat /\ span.end \in Nat /\ span.start <= span.end
    BY DEF TypeOK, Within
  <2>6. /\ reader' = IF r.anchored
                     THEN r
                     ELSE [r EXCEPT !.anchored = TRUE, !.refRtp = r.rtp,
                                    !.refReal = IF inRange THEN ByRtp(r) ELSE span.start]
        /\ position' = IF inRange THEN ByRtp(r)
                       ELSE IF r.anchored
                            THEN Most(Least(ByRef(r), span.end), span.start)
                            ELSE span.start
        /\ content' = c /\ UNCHANGED <<recording, span, generation>>
    BY <1>3 DEF Frame
  <2> HIDE DEF r
  <2>7. (IF inRange THEN ByRtp(r) ELSE span.start) \in Nat
    BY <2>4, <2>5 DEF Within
  <2>8. reader' \in Readers
    BY <2>3, <2>6, <2>7 DEF Readers
  <2>9. position' \in Nat /\ Within(position', span)
    <3>1. CASE inRange
      BY <2>4, <2>5, <2>6, <3>1 DEF Within
    <3>2. CASE ~inRange /\ r.anchored
      BY <2>4, <2>5, <2>6, <3>2 DEF Within, Most, Least
    <3>3. CASE ~inRange /\ ~r.anchored
      BY <2>5, <2>6, <3>3 DEF Within
    <3>4. QED
      BY <3>1, <3>2, <3>3
  <2>10. QED
    BY <2>2, <2>6, <2>8, <2>9 DEF TypeOK, Readers
<1>4. CASE UNCHANGED vars
  BY <1>4 DEF vars, TypeOK, Within
<1>5. QED
  BY <1>1, <1>2, <1>3, <1>4 DEF Next

(* The shape of the state; the playhead never leaves the fragment being    *)
(* played, whatever the timestamps (webrtc_offer.rs:371-396).              *)
THEOREM TypeCorrect == Spec => []TypeOK
<1>1. QED
  BY TypeInit, TypeStep, PTL DEF Spec

-----------------------------------------------------------------------------
(* The playhead follows the frames, for recordings that keep to their day. *)
Daily == \A r \in Recordings : WithinDay(r)

(* Timestamps within a recording: the day has at most two wraps.           *)
LEMMA TicksWithin ==
    ASSUME Daily, NEW r \in Recordings, NEW t \in Int, Within(t, r)
    PROVE  /\ DayStart(t) = DayStart(r.start) /\ DayStart(t) \in Int
           /\ DayStart(t) < t /\ t < DayStart(t) + Day
           /\ Ticks(t) \in Nat /\ Ticks(t) < 4 * Half
<1>1. r.start \in Int /\ DayStart(r.start) < r.start /\ r.end < DayStart(r.start) + Day
      /\ r.start \in Nat /\ r.end \in Nat /\ DayStart(r.start) \in Int
  BY RecordingsAssumption, DayStartBounds DEF Daily, WithinDay
<1>2. DayStart(t) = DayStart(r.start)
  BY <1>1, SameDay, ScaleAssumption DEF Within
<1>3. DayStart(t) < t /\ t < DayStart(t) + Day
  BY <1>1, <1>2, ScaleAssumption DEF Within
<1>4. Ticks(t) \in Nat
  BY StampType
<1>5. Ticks(t) < 4 * Half
  <2>1. /\ t - DayStart(t) + 1 \in Int /\ Day + Gap \in Int
        /\ t - DayStart(t) + 1 <= Day + Gap
    BY <1>1, <1>2, <1>3, ScaleAssumption, FramesAssumption
  <2>2. Rate * (t - DayStart(t) + 1) <= Rate * (Day + Gap)
    BY <2>1, ProductMonotone, ScaleAssumption
  <2>3. Rate * (t - DayStart(t) + 1) = Ticks(t) + Rate
    BY <1>1, <1>2, ScaleAssumption DEF Ticks
  <2>4. Rate * (Day + Gap) <= 4 * Half
    BY FramesAssumption, ScaleAssumption
  <2> DEFINE p == Rate * (t - DayStart(t) + 1)
             q == Rate * (Day + Gap)
  <2>5. p <= q /\ p = Ticks(t) + Rate /\ q <= 4 * Half /\ q \in Int
    BY <2>1, <2>2, <2>3, <2>4, ProductInt, ScaleAssumption
  <2> HIDE DEF p, q
  <2>6. QED
    BY <1>4, <2>5, ScaleAssumption
<1>6. QED
  BY <1>1, <1>2, <1>3, <1>4, <1>5

(* What 32 bits leave of a time of the day.                                *)
LEMMA StampWraps ==
    ASSUME NEW n \in Nat, n < 4 * Half
    PROVE  n % (2 * Half) = IF n < 2 * Half THEN n ELSE n - 2 * Half
<1> DEFINE d == 2 * Half
<1>1. d \in Int /\ d > 0 /\ d \in Nat \ {0} /\ 4 * Half = 2 * d
  BY ScaleAssumption
<1> HIDE DEF d
<1>2. CASE n < d
  <2>1. n \in 0 .. (d - 1) /\ n = d * 0 + n
    BY <1>1, <1>2
  <2>2. n % d = n
    BY <1>1, <2>1, QuotientUnique
  <2>3. QED
    BY <1>2, <2>2 DEF d
<1>3. CASE ~(n < d)
  <2>1. n - d \in 0 .. (d - 1) /\ n = d * 1 + (n - d)
    BY <1>1, <1>3
  <2>2. n % d = n - d
    BY <1>1, <2>1, QuotientUnique
  <2>3. QED
    BY <1>3, <2>2 DEF d
<1>4. QED
  BY <1>2, <1>3

(* Between timestamps less than half the range apart, unwrapping finds the *)
(* distance, whichever of them has wrapped.                                *)
LEMMA UnwrapExact ==
    ASSUME NEW a \in Nat, NEW b \in Nat, NEW rtp \in Int,
           a < 4 * Half, b < 4 * Half, -Half < b - a, b - a < Half
    PROVE  Unwrap(b % (2 * Half), a % (2 * Half), rtp) = rtp + (b - a)
<1> DEFINE x == a % (2 * Half)
           y == b % (2 * Half)
<1>1. /\ x = IF a < 2 * Half THEN a ELSE a - 2 * Half
      /\ y = IF b < 2 * Half THEN b ELSE b - 2 * Half
  BY StampWraps
<1> HIDE DEF x, y
<1>2. Unwrap(y, x, rtp) = rtp + (b - a)
  BY <1>1, ScaleAssumption DEF Unwrap
<1>3. QED
  BY <1>2 DEF x, y

(* Frames that follow each other are that close.                           *)
LEMMA TicksClose ==
    ASSUME Daily, NEW r \in Recordings, NEW s \in Int, NEW t \in Int,
           Within(s, r), Within(t, r), t \in (s - Behind) .. (s + Ahead)
    PROVE  /\ Ticks(t) - Ticks(s) = Rate * (t - s)
           /\ -Half < Ticks(t) - Ticks(s) /\ Ticks(t) - Ticks(s) < Half
<1>1. /\ DayStart(t) = DayStart(s) /\ DayStart(s) \in Int
      /\ Ticks(s) \in Nat /\ Ticks(t) \in Nat
  BY TicksWithin
<1>2. Ticks(t) - Ticks(s) = Rate * (t - s)
  <2> DEFINE d == DayStart(s)
  <2>1. d \in Int /\ Ticks(t) = Rate * (t - d) /\ Ticks(s) = Rate * (s - d)
    BY <1>1 DEF Ticks
  <2> HIDE DEF d
  <2>2. Rate * (t - d) - Rate * (s - d) = Rate * (t - s)
    BY <2>1, ScaleAssumption
  <2>3. QED
    BY <2>1, <2>2
<1>3. Rate * (t - s) <= Rate * Ahead /\ Rate * (-Behind) <= Rate * (t - s)
  BY ProductMonotone, ScaleAssumption, FramesAssumption
<1>4. Rate * Ahead < Half /\ -Half < Rate * (-Behind)
  BY ScaleAssumption, FramesAssumption
<1>5. Rate * Ahead \in Int /\ Rate * (-Behind) \in Int /\ Rate * (t - s) \in Int
  BY ProductInt, ScaleAssumption, FramesAssumption
<1> DEFINE p == Rate * Ahead
           q == Rate * (-Behind)
           w == Rate * (t - s)
<1>6. /\ p \in Int /\ q \in Int /\ w \in Int /\ w <= p /\ q <= w /\ p < Half /\ -Half < q
      /\ Ticks(t) - Ticks(s) = w
  BY <1>2, <1>3, <1>4, <1>5
<1> HIDE DEF p, q, w
<1>7. -Half < w /\ w < Half
  BY <1>6, ScaleAssumption
<1>8. QED
  BY <1>6, <1>7 DEF w

(* The reader's count of ticks, for a frame of time c in the fragment that *)
(* begins at s: the time of the day, or less by one wrap if the timestamps *)
(* have wrapped before the fragment.                                       *)
Follows(rtp, c, s) ==
    \/ rtp = Ticks(c)
    \/ rtp = Ticks(c) - 2 * Half /\ 2 * Half <= Rate * (s - DayStart(s) + Gap)

OffsetTime(rtp, s) == DayStart(s) + Millis(Most(rtp, 0))

(* Of the two, the first tells the time of the frame, and the second names *)
(* an instant before the fragment.                                         *)
LEMMA OffsetTells ==
    ASSUME Daily, NEW r \in Recordings, NEW c \in Int, NEW s \in Int,
           Within(c, r), Within(s, r), NEW rtp \in Int
    PROVE  /\ rtp = Ticks(c) => OffsetTime(rtp, s) = c
           /\ rtp = Ticks(c) - 2 * Half /\ 2 * Half <= Rate * (s - DayStart(s) + Gap)
              => /\ OffsetTime(rtp, s) \in Int
                 /\ OffsetTime(rtp, s) < s /\ OffsetTime(rtp, s) # c
<1> DEFINE d == DayStart(s)
<1>1. /\ DayStart(c) = d /\ d \in Int /\ d < c /\ d < s /\ c < d + Day
      /\ Ticks(c) = Rate * (c - d) /\ Ticks(c) \in Nat
  BY TicksWithin DEF Ticks
<1> HIDE DEF d
<1>2. ASSUME rtp = Ticks(c)
      PROVE  OffsetTime(rtp, s) = c
  <2>1. Most(rtp, 0) = Rate * (c - d)
    BY <1>1, <1>2 DEF Most
  <2>2. Millis(Most(rtp, 0)) = c - d
    BY <1>1, <2>1, MillisOfTicks
  <2>3. QED
    BY <1>1, <2>2 DEF OffsetTime, d
<1>3. ASSUME rtp = Ticks(c) - 2 * Half, 2 * Half <= Rate * (s - d + Gap)
      PROVE  /\ OffsetTime(rtp, s) \in Int
             /\ OffsetTime(rtp, s) < s /\ OffsetTime(rtp, s) # c
  <2> DEFINE n == Most(rtp, 0)
             m == Millis(n)
  <2>1. n \in Nat /\ (n = 0 \/ n = Ticks(c) - 2 * Half)
    BY <1>3, ScaleAssumption DEF Most
  <2>2. m \in Nat /\ Rate * m <= n
    BY <2>1, MillisBelow
  <2>3. OffsetTime(rtp, s) = d + m
    BY DEF OffsetTime, d
  <2> HIDE DEF n, m
  <2>4. CASE n = 0
    <3>1. m = 0
      <4>1. Rate * 1 <= Rate * m \/ m = 0
        BY <2>2, ProductMonotone, ScaleAssumption
      <4>2. QED
        BY <2>2, <2>4, <4>1, ScaleAssumption
    <3>2. QED
      BY <1>1, <2>3, <3>1
  <2>5. CASE n = Ticks(c) - 2 * Half
    <3> DEFINE u == Rate * (c - d)
               v == Rate * (s - d)
               g == Rate * Gap
               h == Rate * m
               t == Rate * (Day + Gap)
    <3>1. u \in Int /\ v \in Int /\ g \in Int /\ h \in Int /\ t \in Int
      BY <1>1, <2>2, ProductInt, ScaleAssumption, FramesAssumption
    <3>2. h <= u - 2 * Half
      BY <1>1, <2>2, <2>5
    <3>3. 2 * Half <= v + g
      BY <1>1, <1>3, ScaleAssumption, FramesAssumption
    <3>4. u + g < t
      <4>1. Rate * (c - d + Gap + 1) <= Rate * (Day + Gap)
        BY <1>1, ProductMonotone, ScaleAssumption, FramesAssumption
      <4>2. Rate * (c - d + Gap + 1) = u + g + Rate
        BY <1>1, ScaleAssumption, FramesAssumption
      <4> HIDE DEF u, g, t
      <4>3. u + g + Rate <= t
        BY <4>1, <4>2 DEF t
      <4>4. QED
        BY <3>1, <4>3, ScaleAssumption
    <3>5. t <= 4 * Half
      BY FramesAssumption, ScaleAssumption
    <3>6. h < v /\ h < u
      <4> HIDE DEF u, v, g, h, t
      <4>1. QED
        BY <3>1, <3>2, <3>3, <3>4, <3>5, ScaleAssumption
    <3>7. m < s - d
      <4>1. s - d <= m => Rate * (s - d) <= Rate * m
        BY <1>1, <2>2, ProductMonotone, ScaleAssumption
      <4> HIDE DEF u, g, t
      <4>2. QED
        BY <1>1, <2>2, <3>1, <3>6, <4>1
    <3>8. m # c - d
      BY <3>1, <3>6
    <3>9. QED
      BY <1>1, <2>2, <2>3, <3>7, <3>8
  <2>6. QED
    BY <2>1, <2>4, <2>5
<1>4. QED
  BY <1>2, <1>3 DEF d

-----------------------------------------------------------------------------
(* The invariant: the fragment lies in the recording; the reader has the   *)
(* timestamp of the last frame, its count follows it, and the reference is *)
(* ahead of the content by no more than the first frame was.               *)
SpanRecorded ==
    generation > 0 => /\ recording \in Recordings
                      /\ Within(span.start, recording) /\ Within(span.end, recording)

Leads(r, c, k) == r.rtp - r.refRtp = Rate * (c + k - r.refReal)

ReaderFollows ==
    generation > 0 /\ ~Fresh =>
        /\ reader.anchored /\ reader.raw = Stamp(content)
        /\ Within(content, recording)
        /\ Follows(reader.rtp, content, span.start)
        /\ \E k \in (-Gap) .. Gap : Leads(reader, content, k)

ClockInv ==
    /\ TypeOK
    /\ reader.generation <= generation
    /\ SpanRecorded
    /\ ReaderFollows

(* By the reference, the playhead is ahead of the content by as much.      *)
LEMMA ReferenceLeads ==
    ASSUME NEW r \in Readers, NEW c \in Int, NEW k \in Int, Leads(r, c, k)
    PROVE  r.refReal + Millis(r.rtp - r.refRtp) = c + k
<1>1. c + k - r.refReal \in Int /\ r.refReal \in Int
  BY DEF Readers
<1>2. Millis(Rate * (c + k - r.refReal)) = c + k - r.refReal
  BY <1>1, MillisOfTicks
<1>3. QED
  BY <1>1, <1>2 DEF Leads

(* A frame, before it has become a reference.                              *)
LEMMA FrameSynced ==
    ASSUME Daily, ClockInv, NEW c \in FrameTimes, Frame(c)
    PROVE  LET r == Synced(Stamp(c)) IN
           /\ c \in Nat /\ recording \in Recordings /\ Within(c, recording)
           /\ r \in Readers /\ r.generation = generation /\ r.raw = Stamp(c)
           /\ Follows(r.rtp, c, span.start)
           /\ r.anchored <=> ~Fresh
           /\ ~Fresh => /\ r.refReal = reader.refReal /\ r.refRtp = reader.refRtp
                        /\ \A k \in Int : Leads(reader, content, k) => Leads(r, c, k)
           /\ Fresh => /\ span.start - c <= Gap /\ c - span.start <= Gap
<1> DEFINE r == Synced(Stamp(c))
<1>1. /\ c \in Int /\ generation > 0 /\ Within(c, recording) /\ recording \in Recordings
      /\ Within(span.start, recording) /\ span.start \in Nat /\ TypeOK
  BY FramesAssumption DEF FrameTimes, Frame, ClockInv, SpanRecorded, TypeOK
<1>2. c \in Nat
  BY <1>1, RecordingsAssumption DEF Within
<1>3. r \in Readers
  BY <1>1, StampType, SyncedType
<1>4. Ticks(c) \in Nat /\ Ticks(c) < 4 * Half
  BY <1>1, TicksWithin
<1>5. CASE Fresh
  <2>1. r.generation = generation /\ r.raw = Stamp(c) /\ r.rtp = Stamp(c) /\ r.anchored = FALSE
    BY <1>5 DEF Synced
  <2>2. c \in (span.start - Gap) .. (span.start + Gap)
    BY <1>5 DEF FrameTimes
  <2>3. span.start - c <= Gap /\ c - span.start <= Gap
    BY <1>1, <2>2, FramesAssumption
  <2>4. Follows(r.rtp, c, span.start)
    <3>1. CASE Ticks(c) < 2 * Half
      BY <1>4, <2>1, <3>1, StampWraps DEF Stamp, Follows
    <3>2. CASE ~(Ticks(c) < 2 * Half)
      <4>1. r.rtp = Ticks(c) - 2 * Half
        BY <1>4, <2>1, <3>2, StampWraps DEF Stamp
      <4> DEFINE d == DayStart(span.start)
      <4>2. d \in Int /\ Ticks(c) = Rate * (c - d)
        <5>1. DayStart(c) = DayStart(recording.start) /\ DayStart(c) \in Int
          BY <1>1, TicksWithin
        <5>2. DayStart(span.start) = DayStart(recording.start)
          BY <1>1, TicksWithin
        <5>3. QED
          BY <5>1, <5>2 DEF Ticks
      <4> HIDE DEF d
      <4>3. Rate * (c - d) <= Rate * (span.start - d + Gap)
        BY <1>1, <2>3, <4>2, ProductMonotone, ScaleAssumption, FramesAssumption
      <4>4. Rate * (span.start - d + Gap) \in Int
        BY <1>1, <4>2, ProductInt, ScaleAssumption, FramesAssumption
      <4> DEFINE p == Rate * (span.start - d + Gap)
                 q == Rate * (c - d)
      <4>5. p \in Int /\ q <= p /\ q = Ticks(c)
        BY <4>2, <4>3, <4>4
      <4> HIDE DEF p, q
      <4>6. 2 * Half <= p
        BY <1>4, <3>2, <4>5, ScaleAssumption
      <4>7. QED
        BY <4>1, <4>6 DEF Follows, p, d
    <3>3. QED
      BY <3>1, <3>2
  <2>5. QED
    BY <1>1, <1>2, <1>3, <1>5, <2>1, <2>3, <2>4
<1>6. CASE ~Fresh
  <2>1. /\ reader.anchored /\ reader.raw = Stamp(content) /\ Within(content, recording)
        /\ Follows(reader.rtp, content, span.start) /\ content \in Int
        /\ reader \in Readers /\ reader.rtp \in Int
    BY <1>1, <1>6 DEF ClockInv, ReaderFollows, TypeOK, Readers
  <2>2. c \in (content - Behind) .. (content + Ahead)
    BY <1>6 DEF FrameTimes
  <2>3. /\ Ticks(c) - Ticks(content) = Rate * (c - content)
        /\ -Half < Ticks(c) - Ticks(content) /\ Ticks(c) - Ticks(content) < Half
    BY <1>1, <2>1, <2>2, TicksClose
  <2>4. Ticks(content) \in Nat /\ Ticks(content) < 4 * Half
    BY <1>1, <2>1, TicksWithin
  <2>5. Unwrap(Stamp(c), Stamp(content), reader.rtp) = reader.rtp + (Ticks(c) - Ticks(content))
    BY <1>4, <2>1, <2>3, <2>4, UnwrapExact DEF Stamp
  <2>6. /\ r = [reader EXCEPT !.raw = Stamp(c), !.rtp = reader.rtp + (Ticks(c) - Ticks(content))]
    BY <1>6, <2>1, <2>5 DEF Synced
  <2>7. /\ r.generation = generation /\ r.raw = Stamp(c) /\ r.anchored
        /\ r.rtp = reader.rtp + (Ticks(c) - Ticks(content))
        /\ r.refReal = reader.refReal /\ r.refRtp = reader.refRtp
    BY <1>6, <2>1, <2>6 DEF Readers, Fresh
  <2> HIDE DEF r
  <2>8. Follows(r.rtp, c, span.start)
    BY <1>4, <2>1, <2>4, <2>7, ScaleAssumption DEF Follows
  <2>9. ASSUME NEW k \in Int, Leads(reader, content, k)
        PROVE  Leads(r, c, k)
    <3> DEFINE a == content + k - reader.refReal
               b == c - content
    <3>1. a \in Int /\ b \in Int /\ reader.refReal \in Int /\ reader.refRtp \in Int
      BY <1>1, <2>1 DEF Readers
    <3>2. Rate * (a + b) = Rate * a + Rate * b
      BY <3>1, ScaleAssumption, ProductSplit
    <3>3. a + b = c + k - reader.refReal
      BY <1>1, <2>1, <3>1
    <3>4. Rate * a = reader.rtp - reader.refRtp /\ Rate * b = r.rtp - reader.rtp
      BY <1>4, <2>1, <2>3, <2>4, <2>7, <2>9 DEF Leads
    <3>5. r.rtp \in Int
      BY <1>3 DEF Readers
    <3> DEFINE p == Rate * a
               q == Rate * b
               w == Rate * (a + b)
    <3>6. w = p + q /\ p = reader.rtp - reader.refRtp /\ q = r.rtp - reader.rtp
      BY <3>2, <3>4
    <3> HIDE DEF p, q, w
    <3>7. w = r.rtp - reader.refRtp
      BY <2>1, <3>1, <3>5, <3>6
    <3>8. QED
      BY <2>7, <3>3, <3>7 DEF w, Leads
  <2>10. QED
    BY <1>1, <1>2, <1>3, <1>6, <2>7, <2>8, <2>9 DEF r
<1>7. QED
  BY <1>5, <1>6

(* What a frame does. The timestamp places it where it belongs, or         *)
(* nowhere in the fragment; then the reference places it.                  *)
LEMMA FrameEffect ==
    ASSUME Daily, ClockInv, NEW c \in FrameTimes, Frame(c)
    PROVE  LET exact == reader'.rtp = Ticks(c)
               inside == exact /\ Within(c, span) IN
           /\ c \in Nat /\ Within(c, recording)
           /\ reader' \in Readers
           /\ reader'.generation = generation /\ reader'.anchored
           /\ reader'.raw = Stamp(c) /\ Follows(reader'.rtp, c, span.start)
           /\ Fresh => \E k \in (-Gap) .. Gap :
                          /\ Leads(reader', c, k)
                          /\ IF inside
                             THEN k = 0 /\ position' = c
                             ELSE k = span.start - c /\ position' = span.start
           /\ ~Fresh => \A k \in Int :
                          Leads(reader, content, k)
                          => /\ Leads(reader', c, k)
                             /\ position' = IF inside THEN c
                                            ELSE Most(Least(Most(0, c + k), span.end), span.start)
<1> DEFINE r == Synced(Stamp(c))
           inRange == Within(ByRtp(r), span)
           inside == r.rtp = Ticks(c) /\ Within(c, span)
<1>1. /\ c \in Nat /\ recording \in Recordings /\ Within(c, recording)
      /\ r \in Readers /\ r.generation = generation /\ r.raw = Stamp(c)
      /\ Follows(r.rtp, c, span.start)
      /\ r.anchored <=> ~Fresh
      /\ ~Fresh => /\ r.refReal = reader.refReal /\ r.refRtp = reader.refRtp
                   /\ \A k \in Int : Leads(reader, content, k) => Leads(r, c, k)
      /\ Fresh => /\ span.start - c <= Gap /\ c - span.start <= Gap
  BY FrameSynced
<1>2. /\ reader' = IF r.anchored
                   THEN r
                   ELSE [r EXCEPT !.anchored = TRUE, !.refRtp = r.rtp,
                                  !.refReal = IF inRange THEN ByRtp(r) ELSE span.start]
      /\ position' = IF inRange THEN ByRtp(r)
                     ELSE IF r.anchored
                          THEN Most(Least(ByRef(r), span.end), span.start)
                          ELSE span.start
      /\ generation > 0
  BY DEF Frame
<1> HIDE DEF r
<1>3. /\ r.rtp \in Int /\ r.refReal \in Nat /\ r.refRtp \in Int
      /\ span.start \in Nat /\ span.end \in Nat /\ Within(span.start, recording)
      /\ Ticks(c) \in Nat
  BY <1>1, <1>2, StampType DEF Readers, ClockInv, TypeOK, SpanRecorded
<1>4. (inRange <=> inside) /\ (inside => ByRtp(r) = c)
  <2>1. ByRtp(r) = OffsetTime(r.rtp, span.start)
    BY DEF ByRtp, OffsetTime
  <2>2. CASE r.rtp = Ticks(c)
    BY <1>1, <1>3, <2>1, <2>2, OffsetTells
  <2>3. CASE r.rtp # Ticks(c)
    <3>1. ByRtp(r) \in Int /\ ByRtp(r) < span.start
      BY <1>1, <1>3, <2>1, <2>3, OffsetTells DEF Follows
    <3>2. QED
      BY <1>3, <2>3, <3>1 DEF Within
  <2>4. QED
    BY <2>2, <2>3
<1> HIDE DEF inRange
<1>5. CASE Fresh
  <2> DEFINE ref == IF inRange THEN ByRtp(r) ELSE span.start
  <2>1. reader' = [r EXCEPT !.anchored = TRUE, !.refRtp = r.rtp, !.refReal = ref]
    BY <1>1, <1>2, <1>5
  <2>2. ref \in Nat /\ ref = IF inside THEN c ELSE span.start
    BY <1>1, <1>3, <1>4
  <2> HIDE DEF ref
  <2>3. /\ reader' \in Readers /\ reader'.generation = generation /\ reader'.anchored
        /\ reader'.raw = Stamp(c) /\ reader'.rtp = r.rtp
        /\ reader'.refRtp = r.rtp /\ reader'.refReal = ref
    BY <1>1, <1>3, <2>1, <2>2 DEF Readers
  <2>4. position' = IF inside THEN c ELSE span.start
    BY <1>1, <1>2, <1>4, <1>5
  <2> DEFINE k == IF inside THEN 0 ELSE span.start - c
  <2>5. k \in (-Gap) .. Gap /\ k \in Int
    BY <1>1, <1>3, <1>5, FramesAssumption
  <2>6. Leads(reader', c, k)
    <3>1. c + k - ref = 0 /\ reader'.rtp - reader'.refRtp = 0
      BY <1>1, <1>3, <2>2, <2>3, <2>5
    <3>2. QED
      BY <2>3, <3>1, ScaleAssumption DEF Leads
  <2>7. IF reader'.rtp = Ticks(c) /\ Within(c, span)
        THEN k = 0 /\ position' = c
        ELSE k = span.start - c /\ position' = span.start
    BY <2>3, <2>4
  <2> HIDE DEF k
  <2>8. QED
    BY <1>1, <1>5, <2>3, <2>5, <2>6, <2>7
<1>6. CASE ~Fresh
  <2>1. reader' = r /\ r.anchored
    BY <1>1, <1>2, <1>6
  <2>2. ASSUME NEW k \in Int, Leads(reader, content, k)
        PROVE  /\ Leads(r, c, k)
               /\ position' = IF inside THEN c
                              ELSE Most(Least(Most(0, c + k), span.end), span.start)
    <3>1. Leads(r, c, k)
      BY <1>1, <1>6, <2>2
    <3>2. ByRef(r) = Most(0, c + k)
      BY <1>1, <3>1, ReferenceLeads DEF ByRef
    <3>3. QED
      BY <1>2, <1>4, <2>1, <3>1, <3>2
  <2>3. QED
    BY <1>1, <1>6, <2>1, <2>2
<1>7. QED
  BY <1>5, <1>6

LEMMA ClockInit == Init => ClockInv
BY TypeInit DEF Init, ClockInv, SpanRecorded, ReaderFollows, Interval

(* A wrap that lies before a fragment lies before the next.                *)
LEMMA FollowsOn ==
    ASSUME Daily, NEW r \in Recordings, NEW s \in Int, NEW t \in Int, s <= t,
           Within(s, r), Within(t, r), NEW rtp, NEW c, Follows(rtp, c, s)
    PROVE  Follows(rtp, c, t)
<1> DEFINE d == DayStart(s)
<1>1. d \in Int /\ DayStart(t) = d
  BY TicksWithin
<1> HIDE DEF d
<1>2. s - d + Gap <= t - d + Gap /\ s - d + Gap \in Int /\ t - d + Gap \in Int
  BY <1>1, FramesAssumption
<1> DEFINE p == Rate * (s - d + Gap)
           q == Rate * (t - d + Gap)
<1>3. p <= q /\ p \in Int /\ q \in Int
  BY <1>2, ProductMonotone, ProductInt, ScaleAssumption
<1>4. 2 * Half <= p => 2 * Half <= q
  <2> HIDE DEF p, q
  <2>1. QED
    BY <1>3, ScaleAssumption
<1>5. QED
  BY <1>1, <1>4 DEF Follows, d

LEMMA SeekClocked ==
    ASSUME ClockInv, TypeOK', NEW r \in Recordings, NEW t \in r.start .. r.end, Seek(r, t)
    PROVE  ClockInv' /\ Fresh' /\ generation' > 0 /\ position' = span'.start
<1>1. r.start \in Nat /\ r.end \in Nat /\ t \in Nat /\ Within(t, r) /\ t < r.end
  BY RecordingsAssumption DEF Seek
<1>2. /\ generation' = generation + 1 /\ generation \in Nat /\ reader' = reader
      /\ reader.generation <= generation /\ reader.generation \in Nat
      /\ recording' = r /\ position' = t /\ span' = Loaded(t, r)
  BY DEF Seek, ClockInv, TypeOK
<1>3. span'.start = t /\ span'.end \in Nat /\ t < span'.end /\ span'.end <= r.end
  BY <1>1, <1>2, LoadedType
<1>4. Fresh' /\ generation' > 0 /\ reader'.generation <= generation'
  BY <1>2 DEF Fresh
<1>5. SpanRecorded'
  BY <1>1, <1>2, <1>3 DEF SpanRecorded, Within
<1>6. QED
  BY <1>2, <1>3, <1>4, <1>5 DEF ClockInv, ReaderFollows

LEMMA NextFragmentClocked ==
    ASSUME Daily, ClockInv, TypeOK', NextFragment
    PROVE  /\ ClockInv'
           /\ Within(span.start, recording) /\ Within(span'.start, recording)
           /\ recording \in Recordings /\ span.start \in Int /\ span'.start \in Int
<1>1. /\ generation > 0 /\ span.end < recording.end /\ span' = Loaded(span.end, recording)
      /\ UNCHANGED <<recording, content, position, generation, reader>>
      /\ span.start \in Nat /\ span.end \in Nat /\ span.start <= span.end
  BY DEF NextFragment, ClockInv, TypeOK, Within
<1>2. /\ recording \in Recordings /\ Within(span.start, recording) /\ Within(span.end, recording)
      /\ recording.start \in Nat /\ recording.end \in Nat
  BY <1>1, RecordingsAssumption DEF ClockInv, SpanRecorded
<1>3. /\ span'.start = span.end /\ span'.end \in Nat /\ span.end < span'.end
      /\ span'.end <= recording.end
  BY <1>1, <1>2, LoadedType
<1>4. SpanRecorded'
  BY <1>1, <1>2, <1>3 DEF SpanRecorded, Within
<1>5. ReaderFollows'
  <2> SUFFICES ASSUME ~Fresh
               PROVE  ReaderFollows'
    BY <1>1 DEF ReaderFollows, Fresh
  <2>1. /\ reader.anchored /\ reader.raw = Stamp(content)
        /\ Within(content, recording)
        /\ Follows(reader.rtp, content, span.start)
        /\ \E k \in (-Gap) .. Gap : Leads(reader, content, k)
    BY <1>1 DEF ClockInv, ReaderFollows
  <2>2. Follows(reader.rtp, content, span.end)
    BY <1>1, <1>2, <2>1, FollowsOn
  <2>3. QED
    BY <1>1, <1>3, <2>1, <2>2 DEF ReaderFollows
<1>6. QED
  BY <1>1, <1>2, <1>3, <1>4, <1>5 DEF ClockInv

LEMMA FrameClocked ==
    ASSUME Daily, ClockInv, TypeOK', NEW c \in FrameTimes, Frame(c)
    PROVE  ClockInv' /\ ~Fresh' /\ generation' > 0
<1>1. /\ generation > 0 /\ content' = c /\ UNCHANGED <<recording, span, generation>>
  BY DEF Frame
<1>2. /\ Within(c, recording)
      /\ reader'.generation = generation /\ reader'.anchored
      /\ reader'.raw = Stamp(c) /\ Follows(reader'.rtp, c, span.start)
  BY FrameEffect
<1>3. \E k \in (-Gap) .. Gap : Leads(reader', c, k)
  <2>1. CASE Fresh
    BY <2>1, FrameEffect
  <2>2. CASE ~Fresh
    <3>1. PICK k \in (-Gap) .. Gap : Leads(reader, content, k)
      BY <1>1, <2>2 DEF ClockInv, ReaderFollows
    <3>2. k \in Int
      BY FramesAssumption
    <3>3. Leads(reader', c, k)
      BY <2>2, <3>1, <3>2, FrameEffect
    <3>4. QED
      BY <3>3
  <2>3. QED
    BY <2>1, <2>2
<1>4. ReaderFollows'
  BY <1>1, <1>2, <1>3 DEF ReaderFollows
<1>5. SpanRecorded'
  BY <1>1 DEF ClockInv, SpanRecorded, Within
<1>6. reader'.generation <= generation' /\ ~Fresh'
  BY <1>1, <1>2 DEF Fresh, ClockInv, TypeOK
<1>7. QED
  BY <1>1, <1>4, <1>5, <1>6 DEF ClockInv

LEMMA ClockStep ==
    ASSUME Daily, ClockInv, [Next]_vars
    PROVE  ClockInv'
<1>1. TypeOK'
  BY TypeStep DEF ClockInv
<1>2. ASSUME NEW r \in Recordings, NEW t \in r.start .. r.end, Seek(r, t)
      PROVE  ClockInv'
  BY <1>1, <1>2, SeekClocked
<1>3. CASE NextFragment
  BY <1>1, <1>3, NextFragmentClocked
<1>4. ASSUME NEW c \in FrameTimes, Frame(c)
      PROVE  ClockInv'
  BY <1>1, <1>4, FrameClocked
<1>5. CASE UNCHANGED vars
  BY <1>1, <1>5 DEF vars, ClockInv, SpanRecorded, ReaderFollows, Fresh, Within
<1>6. QED
  BY <1>2, <1>3, <1>4, <1>5 DEF Next

LEMMA ClockCorrect ==
    ASSUME Daily
    PROVE  Spec => []ClockInv
<1>1. Init => ClockInv
  BY ClockInit
<1>2. ClockInv /\ [Next]_vars => ClockInv'
  BY ClockStep
<1>3. QED
  BY <1>1, <1>2, PTL DEF Spec

-----------------------------------------------------------------------------
(* The playhead follows the stream: in recordings that begin after a       *)
(* midnight and end before the next, every frame of the fragment being     *)
(* played places it no further from its own time than the first frame was  *)
(* from the instant asked for, however the timestamps wrap                 *)
(* (webrtc_offer.rs:47-60, 371-396).                                       *)
THEOREM PlayheadFollows ==
    ASSUME \A r \in Recordings : WithinDay(r)
    PROVE  Spec => NearContent
<1>0. Daily
  BY DEF Daily
<1>1. ASSUME ClockInv, [Next]_vars, reader' # reader, Within(content', span)
      PROVE  position' - content' <= Gap /\ content' - position' <= Gap
  <2>1. PICK c \in FrameTimes : Frame(c)
    BY <1>1 DEF Next, Seek, NextFragment, vars
  <2>2. content' = c /\ generation > 0 /\ Within(c, span)
    BY <1>1, <2>1 DEF Frame
  <2>3. c \in Nat /\ span.start \in Nat /\ span.end \in Nat /\ Gap \in Nat
    BY <1>0, <1>1, <2>1, FrameEffect, FramesAssumption DEF ClockInv, TypeOK
  <2>4. CASE Fresh
    <3>1. PICK k \in (-Gap) .. Gap :
             IF reader'.rtp = Ticks(c) /\ Within(c, span)
             THEN k = 0 /\ position' = c
             ELSE k = span.start - c /\ position' = span.start
      BY <1>0, <1>1, <2>1, <2>4, FrameEffect
    <3>2. QED
      BY <2>2, <2>3, <3>1
  <2>5. CASE ~Fresh
    <3>1. PICK k \in (-Gap) .. Gap : Leads(reader, content, k)
      BY <1>1, <2>2, <2>5 DEF ClockInv, ReaderFollows
    <3>2. k \in Int
      BY FramesAssumption
    <3>3. position' = IF reader'.rtp = Ticks(c) /\ Within(c, span) THEN c
                      ELSE Most(Least(Most(0, c + k), span.end), span.start)
      BY <1>0, <1>1, <2>1, <2>5, <3>1, <3>2, FrameEffect
    <3>4. QED
      BY <2>2, <2>3, <3>1, <3>3 DEF Within, Most, Least
  <2>6. QED
    BY <2>4, <2>5
<1>2. ClockInv /\ [Next]_vars
      => [reader' # reader /\ Within(content', span)
             => position' - content' <= Gap /\ content' - position' <= Gap]_vars
  BY <1>1
<1>3. Spec => []ClockInv
  BY <1>0, ClockCorrect
<1>4. QED
  BY <1>2, <1>3, PTL DEF Spec, NearContent

-----------------------------------------------------------------------------
(* The clock on content times.                                             *)

LEMMA LagIs ==
    ASSUME NEW r \in Readers, NEW c \in Int, NEW k \in Int, Leads(r, c, k)
    PROVE  r.refReal + Millis(r.rtp - r.refRtp) - c = k
<1>1. r.refReal + Millis(r.rtp - r.refRtp) = c + k
  BY ReferenceLeads
<1>2. r.refReal \in Int /\ Millis(r.rtp - r.refRtp) \in Int
  BY MillisInt DEF Readers
<1>3. ASSUME NEW a \in Int, NEW b \in Int, a + b = c + k
      PROVE  a + b - c = k
  BY <1>3
<1>4. QED
  BY <1>1, <1>2, <1>3

(* A count that has lost a wrap goes on so, until the next seek.            *)
LEMMA FrameKeepsCount ==
    ASSUME Daily, ClockInv, NEW c \in FrameTimes, Frame(c), ~Fresh
    PROVE  reader'.rtp = Ticks(c) <=> reader.rtp = Ticks(content)
<1>1. /\ generation > 0 /\ Within(c, recording) /\ recording \in Recordings
      /\ c \in Int /\ content \in Int /\ Within(content, recording)
      /\ reader.anchored /\ reader.raw = Stamp(content) /\ reader.rtp \in Int
  BY FramesAssumption
  DEF FrameTimes, Frame, ClockInv, SpanRecorded, ReaderFollows, TypeOK
<1>2. c \in (content - Behind) .. (content + Ahead)
  BY DEF FrameTimes
<1>3. /\ Ticks(c) \in Nat /\ Ticks(c) < 4 * Half
      /\ Ticks(content) \in Nat /\ Ticks(content) < 4 * Half
  BY <1>1, TicksWithin
<1>4. -Half < Ticks(c) - Ticks(content) /\ Ticks(c) - Ticks(content) < Half
  BY <1>1, <1>2, TicksClose
<1>5. Unwrap(Stamp(c), reader.raw, reader.rtp) = reader.rtp + (Ticks(c) - Ticks(content))
  BY <1>1, <1>3, <1>4, UnwrapExact DEF Stamp
<1>6. reader'.rtp = reader.rtp + (Ticks(c) - Ticks(content))
  BY <1>1, <1>5 DEF Frame, Synced, ClockInv, TypeOK
<1>7. QED
  BY <1>1, <1>3, <1>6

LEMMA SeekRefines ==
    ASSUME ClockInv, TypeOK', NEW r \in Recordings, NEW t \in r.start .. r.end, Seek(r, t)
    PROVE  Clock!Seek
<1>1. Fresh' /\ position' = span'.start
  BY SeekClocked
<1>2. UNCHANGED content /\ Exact' = FALSE
  BY <1>1 DEF Seek, Exact
<1>3. QED
  BY <1>1, <1>2 DEF Clock!Seek

LEMMA NextFragmentRefines ==
    ASSUME Daily, ClockInv, TypeOK', NextFragment
    PROVE  Clock!NextFragment
<1>1. /\ generation > 0 /\ position = span.end /\ span' = Loaded(span.end, recording)
      /\ UNCHANGED <<recording, content, position, generation, reader>>
  BY DEF NextFragment
<1>2. DayStart(span'.start) = DayStart(span.start)
  BY NextFragmentClocked, TicksWithin
<1>3. position' \in Nat /\ Within(position', span')
  BY DEF TypeOK
<1>4. Clock!Within(position, span')
  BY <1>1, <1>3 DEF Within, Clock!Within
<1>5. Fresh' = Fresh /\ Exact' = Exact /\ Lag' = Lag
  BY <1>1, <1>2 DEF Fresh, Exact, Lag
<1>6. QED
  BY <1>1, <1>4, <1>5 DEF Clock!NextFragment

LEMMA FrameRefines ==
    ASSUME Daily, ClockInv, TypeOK', NEW c \in FrameTimes, Frame(c)
    PROVE  Clock!FirstFrame \/ Clock!NextFrame
<1>1. /\ generation > 0 /\ generation' > 0 /\ generation' \in Nat /\ ~Fresh' /\ content' = c
      /\ UNCHANGED <<recording, span, generation>>
  <2>1. generation > 0 /\ content' = c /\ UNCHANGED <<recording, span, generation>>
    BY DEF Frame
  <2>2. generation' \in Nat
    BY <2>1 DEF ClockInv, TypeOK
  <2>3. QED
    BY <2>1, <2>2, FrameClocked
<1>2. /\ c \in Nat /\ Within(c, recording) /\ recording \in Recordings
      /\ reader' \in Readers /\ reader'.rtp \in Int /\ Follows(reader'.rtp, c, span.start)
      /\ span.start \in Nat /\ span.end \in Nat /\ Within(span.start, recording)
      /\ span.start <= span.end
  BY <1>1, FrameEffect DEF Readers, ClockInv, TypeOK, SpanRecorded, Within
<1>3. Exact' <=> reader'.rtp = Ticks(c)
  <2>1. OffsetTime(reader'.rtp, span.start) = c <=> reader'.rtp = Ticks(c)
    BY <1>2, OffsetTells DEF Follows
  <2>2. QED
    BY <1>1, <2>1 DEF Exact, OffsetTime
<1>4. ASSUME NEW k \in Int, Leads(reader', c, k)
      PROVE  Lag' = k
  BY <1>1, <1>2, <1>4, LagIs DEF Lag
<1>5. CASE Fresh
  <2>1. PICK k \in (-Gap) .. Gap :
           /\ Leads(reader', c, k)
           /\ IF reader'.rtp = Ticks(c) /\ Within(c, span)
              THEN k = 0 /\ position' = c
              ELSE k = span.start - c /\ position' = span.start
    BY <1>5, FrameEffect
  <2>2. Lag' = k
    BY <1>4, <2>1, FramesAssumption
  <2>3. Clock!FirstFrame
    BY <1>1, <1>3, <1>5, <2>1, <2>2 DEF Clock!FirstFrame, Within, Clock!Within
  <2>4. QED
    BY <2>3
<1>6. CASE ~Fresh
  <2>1. /\ reader \in Readers /\ reader.rtp \in Int /\ content \in Int
        /\ Follows(reader.rtp, content, span.start) /\ Within(content, recording)
    BY <1>1, <1>6 DEF ClockInv, ReaderFollows, TypeOK, Readers
  <2>2. PICK k \in (-Gap) .. Gap : Leads(reader, content, k)
    BY <1>1, <1>6 DEF ClockInv, ReaderFollows
  <2>3. k \in Int
    BY FramesAssumption
  <2>4. /\ Leads(reader', c, k)
        /\ position' = IF reader'.rtp = Ticks(c) /\ Within(c, span) THEN c
                       ELSE Most(Least(Most(0, c + k), span.end), span.start)
    BY <1>6, <2>2, <2>3, FrameEffect
  <2>5. Lag' = k /\ Lag = k
    BY <1>4, <2>1, <2>2, <2>3, <2>4, LagIs DEF Lag
  <2>6. Exact <=> reader.rtp = Ticks(content)
    <3>1. OffsetTime(reader.rtp, span.start) = content <=> reader.rtp = Ticks(content)
      BY <1>2, <2>1, OffsetTells DEF Follows
    <3>2. QED
      BY <1>1, <1>6, <3>1 DEF Exact, OffsetTime
  <2>7. reader'.rtp = Ticks(c) <=> reader.rtp = Ticks(content)
    BY <1>6, FrameKeepsCount
  <2>8. Exact' = Exact
    BY <1>3, <2>6, <2>7 DEF Exact
  <2>9. position' = IF Exact /\ Clock!Within(c, span) THEN c ELSE Clock!Clamp(c + k, span)
    BY <1>2, <2>3, <2>4, <2>6, <2>7 DEF Within, Most, Least, Clock!Within, Clock!Clamp
  <2>10. Clock!NextFrame
    BY <1>1, <1>6, <2>5, <2>8, <2>9 DEF Clock!NextFrame
  <2>11. QED
    BY <2>10
<1>7. QED
  BY <1>5, <1>6

(* In such recordings the reader's clock is a clock on content times: the  *)
(* first frame after a seek and those that follow place the playhead as if *)
(* they carried their times, or how far they are from the first            *)
(* (webrtc_offer.rs:333-408).                                              *)
THEOREM ImplementsContentClock ==
    ASSUME \A r \in Recordings : WithinDay(r)
    PROVE  Spec => ClockSpec
<1>0. Daily
  BY DEF Daily
<1>1. Init => Clock!Init
  BY DEF Init, Clock!Init, Exact, Interval
<1>2. ASSUME ClockInv, [Next]_vars
      PROVE  [Clock!Next]_(Clock!vars)
  <2>1. TypeOK'
    BY <1>2, TypeStep DEF ClockInv
  <2>2. ASSUME NEW r \in Recordings, NEW t \in r.start .. r.end, Seek(r, t)
        PROVE  Clock!Next
    BY <1>2, <2>1, <2>2, SeekRefines DEF Clock!Next
  <2>3. CASE NextFragment
    BY <1>0, <1>2, <2>1, <2>3, NextFragmentRefines DEF Clock!Next
  <2>4. ASSUME NEW c \in FrameTimes, Frame(c)
        PROVE  Clock!Next
    BY <1>0, <1>2, <2>1, <2>4, FrameRefines DEF Clock!Next
  <2>5. CASE UNCHANGED vars
    BY <2>5 DEF vars, Clock!vars, Exact, Lag, Fresh
  <2>6. QED
    BY <1>2, <2>2, <2>3, <2>4, <2>5 DEF Next
<1>3. Spec => []ClockInv
  BY <1>0, ClockCorrect
<1>4. QED
  BY <1>1, <1>2, <1>3, PTL DEF Spec, ClockSpec, Clock!Spec
=============================================================================
