---------------------------- MODULE ContentClock ----------------------------
(***************************************************************************)
(* The playhead as ArchiveLoop and PlaybackSpan see it: frames carry their *)
(* content time. RtpClock shows what the 32-bit timestamps of the stream   *)
(* leave of this.                                                          *)
(***************************************************************************)
EXTENDS Integers

VARIABLES
    content,  \* the content time of the last frame
    span,     \* the fragment being played
    position, \* the playhead
    fresh,    \* TRUE: no frame has come since the last seek
    exact,    \* TRUE: frames tell their content time
    lag       \* how far the reference is ahead of the content

vars == <<content, span, position, fresh, exact, lag>>

Within(t, i) == i.start <= t /\ t <= i.end
Clamp(t, i) == IF t > i.end THEN i.end ELSE IF t < i.start THEN i.start ELSE t

Init == fresh = TRUE /\ exact = FALSE /\ lag = 0 /\ position = span.start

Seek ==
    /\ position' = span'.start
    /\ fresh' = TRUE /\ exact' = FALSE /\ lag' = 0
    /\ UNCHANGED content

(* The first frame after a seek is at the playhead, if it is not exactly   *)
(* where it says it is.                                                    *)
FirstFrame ==
    /\ fresh = TRUE /\ fresh' = FALSE
    /\ IF exact' /\ Within(content', span)
       THEN position' = content' /\ lag' = 0
       ELSE position' = span.start /\ lag' = span.start - content'
    /\ UNCHANGED span

NextFrame ==
    /\ fresh = FALSE
    /\ position' = IF exact /\ Within(content', span)
                   THEN content'
                   ELSE Clamp(content' + lag, span)
    /\ UNCHANGED <<span, fresh, exact, lag>>

(* The playhead has reached the next fragment.                             *)
NextFragment ==
    /\ Within(position, span')
    /\ UNCHANGED <<content, position, fresh, exact, lag>>

Next == Seek \/ FirstFrame \/ NextFrame \/ NextFragment

Spec == Init /\ [][Next]_vars
=============================================================================
