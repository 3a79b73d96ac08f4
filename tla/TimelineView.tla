---------------------------- MODULE TimelineView ----------------------------
(***************************************************************************)
(* The visible window of the timeline (src/ui/timeline.rs). The archive    *)
(* loop stores the recorded ranges and then raises timeline_dirty; the GTK *)
(* thread draws, fits the window to new ranges every 50 ms, and scrolls,   *)
(* zooms and drags it. A GTK callback runs to its end before the next; it  *)
(* reads the ranges once.                                                  *)
(*                                                                         *)
(* clamp panics when its bounds are the wrong way round, and a panic in a  *)
(* GTK callback aborts the program (panicked).                             *)
(***************************************************************************)
EXTENDS Integers

CONSTANTS
    Archives,   \* what span() of the stored ranges can be
    MinView,    \* MIN_VIEW_SPAN_MS
    ZoomNum, ZoomDen, \* ZOOM_FACTOR_PER_STEP as a fraction
    PanSteps, PanDen, \* scroll amounts, and 1 / PAN_FRACTION_PER_STEP
    Width,      \* width of the track in pixels
    MaxUpdates  \* bound: how often ranges arrive

Interval(s, e) == [start |-> s, end |-> e]
Span(i) == i.end - i.start
Inside(i, j) == j.start <= i.start /\ i.end <= j.end

None == Interval(0, 0) \* no ranges yet; a view that is unset; no drag

ASSUME ArchivesAssumption ==
    \A a \in Archives : /\ a.start \in Nat /\ a.end \in Nat
                        /\ a = Interval(a.start, a.end)
                        /\ 0 < a.start /\ a.start <= a.end
ASSUME ScaleAssumption ==
    /\ MinView \in Nat \ {0} /\ Width \in Nat \ {0} /\ PanDen \in Nat \ {0}
    /\ ZoomNum \in Nat /\ ZoomDen \in Nat \ {0} /\ ZoomNum > ZoomDen
    /\ PanSteps \subseteq Int \ {0}
ASSUME BoundsAssumption == MaxUpdates \in Nat

VARIABLES
    archive,  \* span of ArchiveState.ranges
    writing,  \* TRUE: between the store of the ranges and that of the flag
    dirty,    \* timeline_dirty
    view,     \* ViewState
    drag,     \* drag_start_view
    sought,   \* the instant of the SeekTo the last callback queued, or 0
    panicked, \* TRUE: a callback has panicked, and the program is gone
    fitted,   \* history: the window was fitted to the ranges, and no gesture
              \* has begun since
    grown,    \* history: every archive was as long as the one before it, and
              \* as the narrowest window
    updates   \* how often ranges have arrived

uiVars == <<view, drag, sought, panicked, fitted>>
vars == <<archive, writing, dirty, uiVars, grown, updates>>

Init ==
    /\ archive = None /\ view = None /\ drag = None
    /\ writing = FALSE /\ dirty = FALSE
    /\ sought = 0
    /\ panicked = FALSE
    /\ fitted = FALSE /\ grown = TRUE
    /\ updates = 0

-----------------------------------------------------------------------------
(* Arithmetic.                                                             *)

Minus(a, b) == IF a > b THEN a - b ELSE 0  \* saturating_sub
Least(a, b) == IF a < b THEN a ELSE b
Most(a, b) == IF a > b THEN a ELSE b
Clamped(t, lo, hi) == Least(Most(t, lo), hi)
Share(n, d) == IF n >= 0 THEN n \div d ELSE -((-n) \div d)  \* as i64

(* x_to_timestamp: the instant under pixel x of the track, rounded.        *)
Instant(x, v) == v.start + (2 * x * Span(v) + Width) \div (2 * Width)

-----------------------------------------------------------------------------
(* The archive loop: set_ranges.                                           *)

WriteRanges(a) ==
    /\ ~panicked /\ ~writing
    /\ updates < MaxUpdates
    /\ archive' = a
    /\ grown' = (grown /\ Span(archive) <= Span(a) /\ (a = None \/ MinView <= Span(a)))
    /\ writing' = TRUE
    /\ updates' = updates + 1
    /\ UNCHANGED <<dirty, uiVars>>

RaiseDirty ==
    /\ ~panicked /\ writing
    /\ writing' = FALSE
    /\ dirty' = TRUE
    /\ UNCHANGED <<archive, uiVars, grown, updates>>

-----------------------------------------------------------------------------
(* The GTK thread.                                                         *)

HasContent == archive.start < archive.end

TickKeeping == \* mutant: a window that is set is left as it is
    /\ ~panicked /\ dirty
    /\ dirty' = FALSE
    /\ view' = IF HasContent /\ view = None THEN archive ELSE view
    /\ fitted' = (fitted \/ HasContent)
    /\ sought' = 0
    /\ UNCHANGED <<archive, writing, drag, panicked, grown, updates>>

TickFromZero == \* mutant: the window begins at zero
    /\ ~panicked /\ dirty
    /\ dirty' = FALSE
    /\ view' = IF HasContent THEN Interval(0, archive.end) ELSE view
    /\ fitted' = (fitted \/ HasContent)
    /\ sought' = 0
    /\ UNCHANGED <<archive, writing, drag, panicked, grown, updates>>

(* The 50 ms timer.                                                        *)
Tick ==
    /\ ~panicked /\ dirty
    /\ dirty' = FALSE
    /\ view' = IF HasContent THEN archive ELSE view
    /\ fitted' = (fitted \/ HasContent)
    /\ sought' = 0
    /\ UNCHANGED <<archive, writing, drag, panicked, grown, updates>>

(* The draw function.                                                      *)
Draw ==
    /\ ~panicked
    /\ HasContent
    /\ view = None \/ ~Inside(view, archive)
    /\ view' = archive
    /\ sought' = 0
    /\ UNCHANGED <<archive, writing, dirty, drag, panicked, fitted, grown, updates>>

ClickBeyond(x) == \* mutant: pixels beyond the track are not clamped to it
    /\ ~panicked /\ HasContent /\ view.start < view.end
    /\ sought' = Instant(x, view)
    /\ UNCHANGED <<archive, writing, dirty, view, drag, panicked, fitted, grown, updates>>

(* A click, x pixels from the left of the track, margins included.         *)
Click(x) ==
    /\ ~panicked /\ HasContent /\ view.start < view.end
    /\ sought' = Instant(Clamped(x, 0, Width), view)
    /\ UNCHANGED <<archive, writing, dirty, view, drag, panicked, fitted, grown, updates>>

Panic == panicked' = TRUE /\ UNCHANGED <<view, drag, fitted>>

(* Scrolling sideways, or with Shift: the window moves.                    *)
Pan(k) ==
    LET delta == Share(k * Most(Span(view), 1), PanDen)
        last == Minus(archive.end, Span(view))
        start == Clamped(Clamped(view.start + delta, archive.start, last),
                         archive.start, archive.end - 1)
    IN /\ ~panicked /\ HasContent
       /\ IF last < archive.start
          THEN Panic
          ELSE /\ view' = Interval(start, Least(start + Span(view), archive.end))
               /\ fitted' = FALSE
               /\ UNCHANGED <<drag, panicked>>
       /\ sought' = 0
       /\ UNCHANGED <<archive, writing, dirty, grown, updates>>

ZoomSpan(up) ==
    Clamped(IF up THEN (Most(Span(view), 1) * ZoomNum) \div ZoomDen
                  ELSE (Most(Span(view), 1) * ZoomDen) \div ZoomNum,
            MinView, Span(archive))

ZoomStartLeft(x, span) == \* mutant: the window is placed as if the cursor were at the left
    LET left == Instant(x, view)
    IN Most(IF left + span > archive.end THEN Minus(archive.end, span) ELSE left,
            archive.start)

(* Where a window of width span begins so that the instant under pixel x   *)
(* stays there, moved into the archive.                                    *)
ZoomStart(x, span) ==
    LET left == Minus(Instant(x, view), (x * span) \div Width)
    IN Most(IF left + span > archive.end THEN Minus(archive.end, span) ELSE left,
            archive.start)

(* Scrolling: the window grows or shrinks around the mouse at pixel x.     *)
Zoom(x, up) ==
    LET start == ZoomStart(x, ZoomSpan(up))
    IN /\ ~panicked /\ HasContent
       /\ IF Span(archive) < MinView
          THEN Panic
          ELSE /\ view' = Interval(start, Least(start + ZoomSpan(up), archive.end))
               /\ fitted' = FALSE
               /\ UNCHANGED <<drag, panicked>>
       /\ sought' = 0
       /\ UNCHANGED <<archive, writing, dirty, grown, updates>>

DragBegin ==
    /\ ~panicked /\ HasContent
    /\ drag' = view
    /\ fitted' = FALSE
    /\ sought' = 0
    /\ UNCHANGED <<archive, writing, dirty, view, panicked, grown, updates>>

(* The mouse is x pixels from where the drag began.                        *)
DragUpdate(x) ==
    LET last == Minus(archive.end, Span(drag))
        start == Clamped(drag.start - Share(x * Span(drag), Width), archive.start, last)
    IN /\ ~panicked /\ archive # None /\ Span(drag) > 0
       /\ IF last < archive.start
          THEN Panic
          ELSE /\ view' = Interval(start, start + Span(drag))
               /\ UNCHANGED <<drag, panicked, fitted>>
       /\ sought' = 0
       /\ UNCHANGED <<archive, writing, dirty, grown, updates>>

DragEnd ==
    /\ ~panicked /\ drag # None
    /\ drag' = None
    /\ sought' = 0
    /\ UNCHANGED <<archive, writing, dirty, view, panicked, fitted, grown, updates>>

Next ==
    \/ \E a \in Archives \cup {None} : WriteRanges(a)
    \/ RaiseDirty
    \/ Tick
    \/ Draw
    \/ \E x \in -1 .. (Width + 1) : Click(x)
    \/ \E k \in PanSteps : Pan(k)
    \/ \E x \in 0 .. Width, up \in BOOLEAN : Zoom(x, up)
    \/ DragBegin
    \/ \E x \in -Width .. Width : DragUpdate(x)
    \/ DragEnd

Spec == Init /\ [][Next]_vars

-----------------------------------------------------------------------------
(* Properties.                                                             *)

(* The shape of the state: no window, drag or click is at a negative time. *)
TypeOK ==
    /\ archive \in Archives \cup {None}
    /\ \A i \in {view, drag} :
          i.start \in Nat /\ i.end \in Nat /\ i = Interval(i.start, i.end) /\ i.start <= i.end
    /\ sought \in Nat
    /\ writing \in BOOLEAN /\ dirty \in BOOLEAN
    /\ panicked \in BOOLEAN /\ fitted \in BOOLEAN /\ grown \in BOOLEAN

(* Once the timer has seen an update, the window is a part of the archive, *)
(* and not an empty one, whatever gesture was or is under way, so that     *)
(* a click seeks to an instant of it.                                      *)
ViewInArchive ==
    ~writing /\ ~dirty /\ HasContent => view.start < view.end /\ Inside(view, archive)

(* timeline.rs:507, the zoom is centred under the cursor: the instant      *)
(* there moves by no more than the roundings, unless an edge is reached.   *)
ZoomKeepsInstant ==
    [][\A x \in 0 .. Width, up \in BOOLEAN :
         Zoom(x, up) /\ archive.start < view'.start /\ view'.end < archive.end
         => Instant(x, view') - Instant(x, view) \in -1 .. 1]_vars

(* As long as the archive has only grown, and was never shorter than the   *)
(* narrowest window, no callback has panicked.                             *)
NoPanic == grown => ~panicked

-----------------------------------------------------------------------------
(* What the comments say of the program, and the code does not do.         *)

(* timeline.rs:18: at least 5 seconds when zooming.                        *)
ZoomKeepsMinimum ==
    [][\A x \in 0 .. Width, up \in BOOLEAN : Zoom(x, up) => Span(view') >= MinView]_vars

(* timeline.rs:600: an update of the ranges resets the window to all of    *)
(* the archive, until the user begins to move it.                          *)
UpdateShowsAll ==
    fitted /\ ~writing /\ ~dirty /\ HasContent => view = archive
=============================================================================
