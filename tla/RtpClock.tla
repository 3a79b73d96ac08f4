------------------------------ MODULE RtpClock ------------------------------
(***************************************************************************)
(* The clock of the RTP reader (src/webrtc_offer.rs). The server stamps a  *)
(* frame with the time since the beginning of its day (UTC) in ticks of    *)
(* 90 kHz, of which 32 bits are sent: they wrap after 13 hours 15 minutes. *)
(* The reader unwraps them and places the playhead by the day the fragment *)
(* being played begins in, or by a reference frame.                        *)
(*                                                                         *)
(* Times are milliseconds, scaled down with the day and the width of the   *)
(* timestamp. A packet is handled in one step (PlaybackSpan has the finer  *)
(* grain), and none of the old content comes after a seek.                 *)
(***************************************************************************)
EXTENDS Integers

CONSTANTS
    Day,        \* MS_PER_DAY
    Rate,       \* ticks in a millisecond: RTP_CLOCK_RATE_HZ / 1000
    Half,       \* half the range of a timestamp: 2^31
    Fragment,   \* FRAGMENT_DURATION_MS
    Recordings, \* the stretches of recorded content
    Gap,        \* how far from the instant asked for the first frame may be
    Ahead,      \* how far ahead of a frame the next one may be
    Behind,     \* how far behind it, when frames are not sent in their order
    MaxSeeks    \* bound: how often the user seeks

ASSUME ScaleAssumption ==
    /\ Day \in Nat \ {0} /\ Rate \in Nat \ {0} /\ Half \in Nat \ {0}
    /\ Fragment \in Nat \ {0}
ASSUME FramesAssumption ==
    /\ Gap \in Nat /\ Ahead \in Nat /\ Behind \in Nat
    /\ Ahead * Rate < Half /\ Behind * Rate < Half
    /\ (Day + Gap) * Rate <= 4 * Half \* two wraps take 26.5 hours
ASSUME RecordingsAssumption ==
    \A r \in Recordings : /\ r.start \in Nat /\ r.end \in Nat
                          /\ 0 < r.start /\ r.start < r.end
ASSUME BoundsAssumption == MaxSeeks \in Nat

VARIABLES
    recording,  \* what the server plays
    content,    \* the content time of the last frame
    span,       \* playback_start_ms, playback_end_ms
    position,   \* playback_position_ms
    generation, \* playback_generation
    reader      \* the reader's local variables

vars == <<recording, content, span, position, generation, reader>>

Interval(s, e) == [start |-> s, end |-> e]
Within(t, i) == i.start <= t /\ t <= i.end
Least(a, b) == IF a <= b THEN a ELSE b
Most(a, b) == IF a >= b THEN a ELSE b

Init ==
    /\ recording = Interval(0, 0) /\ span = Interval(0, 0)
    /\ content = 0 /\ position = 0 /\ generation = 0
    /\ reader = [generation |-> 0, raw |-> 0, rtp |-> 0, refReal |-> 0,
                 refRtp |-> 0, anchored |-> FALSE]

-----------------------------------------------------------------------------
(* Timestamps.                                                             *)

DayStart(t) == (t \div Day) * Day

(* The timestamp of a frame, external: the server's part.                  *)
Ticks(t) == Rate * (t - DayStart(t))
Stamp(t) == Ticks(t) % (2 * Half)

UnwrapForward(raw, prev, rtp) == \* mutant: a wrap is not noticed
    rtp + (raw - prev)

(* unwrap_rtp_timestamp: the nearest value with these 32 bits.             *)
Unwrap(raw, prev, rtp) ==
    LET diff == raw - prev
    IN rtp + (IF diff < -Half THEN diff + 2 * Half
              ELSE IF diff >= Half THEN diff - 2 * Half
              ELSE diff)

Millis(ticks) == IF ticks >= 0 THEN ticks \div Rate ELSE -((-ticks) \div Rate)

(* position_from_rtp and position_from_ref.                                *)
ByRtp(r) == DayStart(span.start) + Millis(Most(r.rtp, 0))
ByRef(r) == Most(0, r.refReal + Millis(r.rtp - r.refRtp))

-----------------------------------------------------------------------------
(* What a seek does to the playhead, and the fragment the server loads.    *)
Loaded(t, r) == Interval(t, Least(t + Fragment, r.end))

SeekKeepingPosition(r, t) == \* mutant: the playhead stays where it was
    /\ generation < MaxSeeks
    /\ Within(t, r) /\ t < r.end
    /\ recording' = r
    /\ span' = Loaded(t, r)
    /\ generation' = generation + 1
    /\ UNCHANGED <<content, position, reader>>

Seek(r, t) ==
    /\ generation < MaxSeeks
    /\ Within(t, r) /\ t < r.end
    /\ recording' = r
    /\ span' = Loaded(t, r)
    /\ position' = t
    /\ generation' = generation + 1
    /\ UNCHANGED <<content, reader>>

(* The playhead has reached the pending fragment, which is applied.        *)
NextFragment ==
    /\ generation > 0
    /\ position = span.end /\ span.end < recording.end
    /\ span' = Loaded(span.end, recording)
    /\ UNCHANGED <<recording, content, position, generation, reader>>

Fresh == reader.generation # generation

(* The times the next frame may have.                                      *)
FrameTimes ==
    IF Fresh THEN (span.start - Gap) .. (span.start + Gap)
             ELSE (content - Behind) .. (content + Ahead)

SyncedKeeping(raw) == \* mutant: a new generation goes on unwrapping
    IF Fresh
    THEN [generation |-> generation, raw |-> raw,
          rtp |-> Unwrap(raw, reader.raw, reader.rtp),
          refReal |-> span.start, refRtp |-> raw, anchored |-> FALSE]
    ELSE [reader EXCEPT !.raw = raw, !.rtp = Unwrap(raw, reader.raw, @)]

(* A new generation begins with the timestamp as it is.                    *)
Synced(raw) ==
    IF Fresh
    THEN [generation |-> generation, raw |-> raw, rtp |-> raw,
          refReal |-> span.start, refRtp |-> raw, anchored |-> FALSE]
    ELSE [reader EXCEPT !.raw = raw, !.rtp = Unwrap(raw, reader.raw, @)]

(* A frame is read: one turn of the reader's loop.                         *)
Frame(c) ==
    /\ generation > 0
    /\ Within(c, recording)
    /\ content' = c
    /\ LET r == Synced(Stamp(c))
           inRange == Within(ByRtp(r), span)
       IN /\ reader' = IF r.anchored
                       THEN r
                       ELSE [r EXCEPT !.anchored = TRUE, !.refRtp = r.rtp,
                                      !.refReal = IF inRange THEN ByRtp(r) ELSE span.start]
          /\ position' = IF inRange THEN ByRtp(r)
                         ELSE IF r.anchored
                              THEN Most(Least(ByRef(r), span.end), span.start)
                              ELSE span.start
    /\ UNCHANGED <<recording, span, generation>>

Next ==
    \/ \E r \in Recordings : \E t \in r.start .. r.end : Seek(r, t)
    \/ NextFragment
    \/ \E c \in FrameTimes : Frame(c)

Spec == Init /\ [][Next]_vars

-----------------------------------------------------------------------------
(* Properties.                                                             *)

(* The shape of the state; the playhead is in the fragment being played.   *)
TypeOK ==
    /\ recording \in Recordings \cup {Interval(0, 0)}
    /\ content \in Nat /\ generation \in 0 .. MaxSeeks
    /\ span.start \in Nat /\ span.end \in Nat /\ span = Interval(span.start, span.end)
    /\ position \in Nat /\ Within(position, span)
    /\ reader \in [generation : 0 .. MaxSeeks, raw : 0 .. (2 * Half - 1), rtp : Int,
                   refReal : Nat, refRtp : Int, anchored : BOOLEAN]

(* The playhead follows the stream: a frame of the fragment being played   *)
(* places it no further from its own time than the first frame was from    *)
(* the instant asked for - before the timestamps have wrapped, after they  *)
(* have, and while they do (webrtc_offer.rs:371-372).                      *)
NearContent ==
    [][reader' # reader /\ Within(content', span)
           => position' - content' <= Gap /\ content' - position' <= Gap]_vars

Exact == generation > 0 /\ ~Fresh /\ DayStart(span.start) + Millis(Most(reader.rtp, 0)) = content

(* The reader's clock is the clock on content times of ContentClock, whose *)
(* frames tell their time in some streams and in others only how far they  *)
(* are from the first.                                                     *)
Lag == reader.refReal + Millis(reader.rtp - reader.refRtp) - content

Clock == INSTANCE ContentClock WITH
    content <- content,
    span <- span,
    position <- position,
    fresh <- generation = 0 \/ Fresh,
    exact <- Exact,
    lag <- IF generation = 0 \/ Fresh THEN 0 ELSE Lag
ClockSpec == Clock!Spec

-----------------------------------------------------------------------------
(* webrtc_offer.rs:371: the position is the real time of the frame, taken  *)
(* from its timestamp.                                                     *)
PositionIsFrameTime ==
    generation > 0 /\ ~Fresh /\ Within(content, span) => position = content
=============================================================================
