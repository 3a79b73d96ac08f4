------------------------- MODULE MainWindow_proofs -------------------------
(***************************************************************************)
(* Proofs about the main window and the timeline in it, for any archives,  *)
(* zoom factor, scroll amounts, width of the track, speeds, capacity of    *)
(* the channel, angles, sizes of the window and movements of the mouse;    *)
(* what holds of the timeline alone holds of the window.                   *)
(***************************************************************************)
EXTENDS MainWindow, TLAPS

(***************************************************************************)
(* The timeline.                                                           *)
(***************************************************************************)

-----------------------------------------------------------------------------
(* Lemmas about the arithmetic.                                            *)

(* An interval as TypeOK wants it.                                         *)
Window(i) ==
    i.start \in Nat /\ i.end \in Nat /\ i = Interval(i.start, i.end) /\ i.start <= i.end

(* A saturating difference is a natural number, and undoes a sum.          *)
LEMMA MinusNat ==
    ASSUME NEW a \in Nat, NEW b \in Nat
    PROVE  Minus(a, b) \in Nat /\ (Minus(a, b) > 0 => Minus(a, b) + b = a)
BY DEF Minus

(* A truncated quotient is an integer.                                     *)
LEMMA ShareInt ==
    ASSUME NEW n \in Int, NEW d \in Nat \ {0}
    PROVE  Share(n, d) \in Int
BY DEF Share

(* A product of natural numbers is one.                                    *)
LEMMA ProductNat ==
    ASSUME NEW a \in Nat, NEW b \in Nat
    PROVE  a * b \in Nat
OBVIOUS

(* So is a quotient.                                                       *)
LEMMA QuotientNat ==
    ASSUME NEW a \in Nat, NEW d \in Nat \ {0}
    PROVE  a \div d \in Nat
OBVIOUS

(* The instant under a pixel is a time.                                    *)
LEMMA InstantNat ==
    ASSUME NEW x \in 0 .. Width, NEW v, Window(v)
    PROVE  Instant(x, v) \in Nat
<1>1. Span(v) \in Nat
  BY DEF Span, Window
<1>2. x \in Nat /\ Width \in Nat \ {0} /\ v.start \in Nat
  BY ScaleAssumption DEF Window
<1>3. 2 * x * Span(v) \in Nat
  <2>1. 2 * x \in Nat
    BY <1>2
  <2>2. QED
    BY <1>1, <2>1, ProductNat
<1>4. 2 * x * Span(v) + Width \in Nat /\ 2 * Width \in Nat \ {0}
  BY <1>2, <1>3
<1>5. (2 * x * Span(v) + Width) \div (2 * Width) \in Nat
  BY <1>4, QuotientNat
<1>6. QED
  BY <1>2, <1>5 DEF Instant

-----------------------------------------------------------------------------
(* What a gesture makes of the window.                                     *)

(* A gesture that does not panic leaves a window inside the archive.       *)
Fits(v) == Window(v) /\ Inside(v, archive)

(* Panning.                                                                *)
LEMMA PanFits ==
    ASSUME TypeOK, NEW k \in PanSteps, Pan(k), ~panicked'
    PROVE  Fits(view') /\ Span(view') = Span(view)
<1> DEFINE delta == Share(k * Most(Span(view), 1), PanDen)
           last == Minus(archive.end, Span(view))
           start == Clamped(Clamped(view.start + delta, archive.start, last),
                            archive.start, archive.end - 1)
<1>1. /\ Window(view)
      /\ archive.start \in Nat /\ archive.end \in Nat
      /\ 0 < archive.start /\ archive.start < archive.end
  BY ArchivesAssumption DEF TypeOK, Window, Pan, HasContent, None, Interval
<1>2. Span(view) \in Nat /\ view.start \in Int
  BY <1>1 DEF Span, Window
<1>3. delta \in Int
  <2>1. k * Most(Span(view), 1) \in Int
    BY <1>2, ScaleAssumption DEF Most
  <2>2. QED
    BY <2>1, ShareInt, ScaleAssumption
<1>4. archive.start <= last /\ view' = Interval(start, Least(start + Span(view), archive.end))
  <2>1. ~(last < archive.start)
    BY DEF Pan, Panic
  <2>2. last \in Nat
    BY <1>1, <1>2, MinusNat
  <2>3. QED
    BY <1>1, <2>1, <2>2 DEF Pan
<1>5. last \in Nat /\ last + Span(view) = archive.end
  BY <1>1, <1>2, <1>4 DEF Minus
<1> DEFINE first == Clamped(view.start + delta, archive.start, last)
<1> HIDE DEF last, delta
<1>6. first \in Int /\ archive.start <= first /\ first <= last
  <2> SUFFICES ASSUME NEW t \in Int, t = view.start + delta
               PROVE  LET c == Clamped(t, archive.start, last)
                      IN c \in Int /\ archive.start <= c /\ c <= last
    BY <1>2, <1>3
  <2>1. QED
    BY <1>1, <1>4, <1>5 DEF Clamped, Least, Most
<1>7. start = Clamped(first, archive.start, archive.end - 1)
  OBVIOUS
<1> HIDE DEF start, first
<1>8. /\ start \in Int /\ archive.start <= start
      /\ start <= archive.end - 1 /\ start <= first
  BY <1>1, <1>6, <1>7 DEF Clamped, Least, Most
<1>9. start + Span(view) <= archive.end
  BY <1>1, <1>2, <1>5, <1>6, <1>8
<1>10. view' = Interval(start, start + Span(view))
  BY <1>1, <1>2, <1>4, <1>8, <1>9 DEF Least
<1>11. view'.start = start /\ view'.end = start + Span(view)
  BY <1>10 DEF Interval
<1>12. QED
  BY <1>1, <1>2, <1>8, <1>9, <1>10, <1>11 DEF Fits, Window, Inside, Span

(* Zooming: how wide the window becomes, and where it is.                   *)
LEMMA ZoomWidth ==
    ASSUME TypeOK, NEW x \in 0 .. Width, NEW up \in BOOLEAN, Zoom(x, up), ~panicked'
    PROVE  /\ ZoomSpan(up) \in Nat /\ 0 < ZoomSpan(up) /\ ZoomSpan(up) <= Span(archive)
           /\ view' = Interval(ZoomStart(x, ZoomSpan(up)),
                               Least(ZoomStart(x, ZoomSpan(up)) + ZoomSpan(up), archive.end))
<1>1. /\ Window(view)
      /\ archive.start \in Nat /\ archive.end \in Nat
      /\ 0 < archive.start /\ archive.start < archive.end
  BY ArchivesAssumption DEF TypeOK, Window, Zoom, HasContent, None, Interval
<1>2. /\ MinView <= Span(archive)
      /\ view' = Interval(ZoomStart(x, ZoomSpan(up)),
                          Least(ZoomStart(x, ZoomSpan(up)) + ZoomSpan(up), archive.end))
  <2>1. ~(Span(archive) < MinView)
    BY DEF Zoom, Panic
  <2>2. QED
    BY <1>1, <2>1, ScaleAssumption DEF Zoom, Span
<1>3. ZoomSpan(up) \in Nat /\ 0 < ZoomSpan(up) /\ ZoomSpan(up) <= Span(archive)
  <2> DEFINE s == IF up THEN (Most(Span(view), 1) * ZoomNum) \div ZoomDen
                        ELSE (Most(Span(view), 1) * ZoomDen) \div ZoomNum
  <2>1. Most(Span(view), 1) \in Nat
    BY <1>1 DEF Most, Span, Window
  <2>2. Most(Span(view), 1) * ZoomNum \in Nat /\ Most(Span(view), 1) * ZoomDen \in Nat
    BY <2>1, ProductNat, ScaleAssumption
  <2>3. ZoomNum \in Nat \ {0} /\ ZoomDen \in Nat \ {0}
    BY ScaleAssumption
  <2>4. s \in Int
    BY <2>2, <2>3, QuotientNat
  <2>5. ZoomSpan(up) = Clamped(s, MinView, Span(archive))
    BY DEF ZoomSpan
  <2>6. Span(archive) \in Int
    BY <1>1 DEF Span
  <2> HIDE DEF s
  <2>7. QED
    BY <1>2, <2>4, <2>5, <2>6, ScaleAssumption DEF Clamped, Least, Most
<1>4. QED
  BY <1>2, <1>3

(* The zoomed window is inside the archive, and not empty.                  *)
LEMMA ZoomFits ==
    ASSUME TypeOK, NEW x \in 0 .. Width, NEW up \in BOOLEAN, Zoom(x, up), ~panicked'
    PROVE  Fits(view') /\ view'.start < view'.end
<1> DEFINE width == ZoomSpan(up)
           left == Minus(Instant(x, view), (x * width) \div Width)
           start == ZoomStart(x, width)
<1>1. /\ Window(view)
      /\ archive.start \in Nat /\ archive.end \in Nat
      /\ 0 < archive.start /\ archive.start < archive.end
  BY ArchivesAssumption DEF TypeOK, Window, Zoom, HasContent, None, Interval
<1>2. view' = Interval(start, Least(start + width, archive.end))
  BY ZoomWidth
<1>3. width \in Nat /\ 0 < width /\ width <= Span(archive)
  BY ZoomWidth
<1>4. left \in Nat
  <2>1. Instant(x, view) \in Nat
    BY <1>1, InstantNat
  <2>2. x * width \in Nat
    BY <1>3, ProductNat
  <2>3. (x * width) \div Width \in Nat
    BY <2>2, QuotientNat, ScaleAssumption
  <2>4. QED
    BY <2>1, <2>3, MinusNat
<1>5. start = Most(IF left + width > archive.end THEN Minus(archive.end, width) ELSE left,
                   archive.start)
  BY DEF ZoomStart
<1> HIDE DEF width, left, start
<1>6. start \in Nat /\ archive.start <= start /\ start + width <= archive.end
  <2>1. width <= archive.end - archive.start
    BY <1>3 DEF Span
  <2>2. CASE left + width > archive.end
    BY <1>1, <1>3, <1>4, <1>5, <2>1, <2>2 DEF Most, Minus
  <2>3. CASE left + width <= archive.end
    BY <1>1, <1>3, <1>4, <1>5, <2>1, <2>3 DEF Most
  <2>4. QED
    BY <1>1, <1>3, <1>4, <2>2, <2>3
<1>7. view' = Interval(start, start + width)
  BY <1>1, <1>2, <1>3, <1>6 DEF Least
<1>8. view'.start = start /\ view'.end = start + width
  BY <1>7 DEF Interval
<1>9. QED
  BY <1>1, <1>3, <1>6, <1>7, <1>8 DEF Fits, Window, Inside

(* Dragging.                                                               *)
LEMMA DragFits ==
    ASSUME TypeOK, NEW x \in -Width .. Width, DragUpdate(x), ~panicked'
    PROVE  Fits(view') /\ Span(view') = Span(drag) /\ view'.start < view'.end
<1> DEFINE last == Minus(archive.end, Span(drag))
           moved == Share(x * Span(drag), Width)
           start == Clamped(drag.start - moved, archive.start, last)
<1>1. Window(drag) /\ archive.start \in Nat /\ archive.end \in Nat /\ 0 < archive.start
  BY ArchivesAssumption DEF TypeOK, Window, DragUpdate
<1>2. Span(drag) \in Nat /\ 0 < Span(drag) /\ drag.start \in Int
  BY <1>1 DEF Span, Window, DragUpdate
<1>3. moved \in Int
  <2>1. x * Span(drag) \in Int
    BY <1>2, ScaleAssumption
  <2>2. QED
    BY <2>1, ShareInt, ScaleAssumption
<1>4. last \in Nat
  BY <1>1, <1>2, MinusNat
<1>5. archive.start <= last /\ view' = Interval(start, start + Span(drag))
  <2>1. ~(last < archive.start)
    BY DEF DragUpdate, Panic
  <2>2. QED
    BY <1>1, <1>4, <2>1 DEF DragUpdate
<1>6. last + Span(drag) = archive.end
  BY <1>1, <1>2, <1>5 DEF Minus
<1> HIDE DEF last, moved
<1>7. start \in Int /\ archive.start <= start /\ start <= last
  <2> SUFFICES ASSUME NEW t \in Int, t = drag.start - moved
               PROVE  LET c == Clamped(t, archive.start, last)
                      IN c \in Int /\ archive.start <= c /\ c <= last
    BY <1>2, <1>3
  <2>1. QED
    BY <1>1, <1>4, <1>5 DEF Clamped, Least, Most
<1> HIDE DEF start
<1>8. view'.start = start /\ view'.end = start + Span(drag)
  BY <1>5 DEF Interval
<1>9. QED
  BY <1>1, <1>2, <1>4, <1>5, <1>6, <1>7, <1>8 DEF Fits, Window, Inside, Span

-----------------------------------------------------------------------------
(* The steps that make a window, and the others.                           *)

(* A step leaves the window, or the archive becomes the window, or it      *)
(* comes out of a gesture.                                                 *)
NewView ==
    \/ view' = view
    \/ HasContent /\ view' = archive
    \/ HasContent /\ Fits(view') /\ Span(view') = Span(view)
    \/ Fits(view') /\ view'.start < view'.end

LEMMA StepMakesView ==
    ASSUME TypeOK, [Next]_vars
    PROVE  NewView
<1>1. CASE UNCHANGED vars
  BY <1>1 DEF vars, uiVars, NewView
<1>2. ASSUME NEW a \in Archives \cup {None}, WriteRanges(a)
      PROVE  NewView
  BY <1>2 DEF WriteRanges, uiVars, NewView
<1>3. CASE RaiseDirty \/ Tick \/ Draw \/ DragBegin \/ DragEnd
  BY <1>3 DEF RaiseDirty, Tick, Draw, DragBegin, DragEnd, uiVars, NewView
<1>4. ASSUME NEW x \in -1 .. (Width + 1), Click(x)
      PROVE  NewView
  BY <1>4 DEF Click, NewView
<1>5. ASSUME NEW k \in PanSteps, Pan(k)
      PROVE  NewView
  <2>1. CASE panicked'
    <3>1. ~panicked
      BY <1>5 DEF Pan
    <3>2. view' = view
      BY <1>5, <2>1, <3>1 DEF Pan, Panic
    <3>3. QED
      BY <3>2 DEF NewView
  <2>2. CASE ~panicked'
    <3>1. HasContent
      BY <1>5 DEF Pan
    <3>2. QED
      BY <1>5, <2>2, <3>1, PanFits DEF NewView
  <2>3. QED
    BY <2>1, <2>2
<1>6. ASSUME NEW x \in 0 .. Width, NEW up \in BOOLEAN, Zoom(x, up)
      PROVE  NewView
  <2>1. CASE panicked'
    <3>1. ~panicked
      BY <1>6 DEF Zoom
    <3>2. view' = view
      BY <1>6, <2>1, <3>1 DEF Zoom, Panic
    <3>3. QED
      BY <3>2 DEF NewView
  <2>2. CASE ~panicked'
    BY <1>6, <2>2, ZoomFits DEF NewView
  <2>3. QED
    BY <2>1, <2>2
<1>7. ASSUME NEW x \in -Width .. Width, DragUpdate(x)
      PROVE  NewView
  <2>1. CASE panicked'
    <3>1. ~panicked
      BY <1>7 DEF DragUpdate
    <3>2. view' = view
      BY <1>7, <2>1, <3>1 DEF DragUpdate, Panic
    <3>3. QED
      BY <3>2 DEF NewView
  <2>2. CASE ~panicked'
    BY <1>7, <2>2, DragFits DEF NewView
  <2>3. QED
    BY <2>1, <2>2
<1>8. QED
  BY <1>1, <1>2, <1>3, <1>4, <1>5, <1>6, <1>7 DEF Next

-----------------------------------------------------------------------------
(* The theorems.                                                           *)

(* What is in the other variables after a step.                            *)
LEMMA StepKeepsOthers ==
    ASSUME TypeOK, [Next]_vars
    PROVE  /\ archive' \in Archives \cup {None}
           /\ drag' \in {drag, view, None}
           /\ sought' \in Nat
           /\ writing' \in BOOLEAN /\ dirty' \in BOOLEAN
           /\ panicked' \in BOOLEAN /\ fitted' \in BOOLEAN
<1> USE DEF TypeOK
<1>1. CASE UNCHANGED vars
  BY <1>1 DEF vars, uiVars
<1>2. ASSUME NEW a \in Archives \cup {None}, WriteRanges(a)
      PROVE  /\ archive' \in Archives \cup {None}
             /\ UNCHANGED <<drag, sought, dirty, panicked, fitted>>
             /\ writing' \in BOOLEAN
  BY <1>2 DEF WriteRanges, uiVars
<1>3. CASE RaiseDirty \/ Tick \/ Draw \/ DragBegin \/ DragEnd
  <2>1. archive' = archive
    BY <1>3 DEF RaiseDirty, Tick, Draw, DragBegin, DragEnd
  <2>2. drag' \in {drag, view, None} /\ sought' \in {sought, 0}
    BY <1>3 DEF RaiseDirty, Tick, Draw, DragBegin, DragEnd, uiVars
  <2>3. panicked' \in BOOLEAN
    BY <1>3 DEF RaiseDirty, Tick, Draw, DragBegin, DragEnd, uiVars
  <2>4. dirty' \in BOOLEAN /\ writing' \in BOOLEAN
    BY <1>3 DEF RaiseDirty, Tick, Draw, DragBegin, DragEnd
  <2>5. fitted' \in BOOLEAN
    <3>1. fitted' = fitted \/ fitted' = FALSE \/ fitted' = (fitted \/ HasContent)
      BY <1>3 DEF RaiseDirty, Tick, Draw, DragBegin, DragEnd, uiVars
    <3>2. (fitted \/ HasContent) \in BOOLEAN
      OBVIOUS
    <3>3. QED
      BY <3>1, <3>2
  <2>6. sought' \in Nat
    BY <2>2
  <2>7. QED
    BY <2>1, <2>2, <2>3, <2>4, <2>5, <2>6
<1>4. ASSUME NEW x \in -1 .. (Width + 1), Click(x)
      PROVE  sought' \in Nat /\ UNCHANGED <<archive, drag, writing, dirty, panicked, fitted>>
  <2>1. Clamped(x, 0, Width) \in 0 .. Width
    BY ScaleAssumption DEF Clamped, Least, Most
  <2>2. Window(view)
    BY DEF Window
  <2>3. Instant(Clamped(x, 0, Width), view) \in Nat
    BY <2>1, <2>2, InstantNat
  <2>4. QED
    BY <1>4, <2>3 DEF Click
<1>5. CASE \/ \E k \in PanSteps : Pan(k)
           \/ \E x \in 0 .. Width, up \in BOOLEAN : Zoom(x, up)
           \/ \E x \in -Width .. Width : DragUpdate(x)
  <2>1. /\ UNCHANGED <<archive, writing, dirty>> /\ sought' = 0
        /\ drag' = drag /\ fitted' \in {fitted, FALSE} /\ panicked' \in {panicked, TRUE}
    BY <1>5 DEF Pan, Zoom, DragUpdate, Panic
  <2>2. QED
    BY <2>1
<1>6. QED
  BY <1>1, <1>2, <1>3, <1>4, <1>5 DEF Next

LEMMA GrownBoolean ==
    ASSUME grown \in BOOLEAN, [Next]_vars
    PROVE  grown' \in BOOLEAN
<1>1. ASSUME NEW a \in Archives \cup {None}, WriteRanges(a)
      PROVE  grown' \in BOOLEAN
  <2>1. grown' = (grown /\ Span(archive) <= Span(a) /\ (a = None \/ MinView <= Span(a)))
    BY <1>1 DEF WriteRanges
  <2>2. QED
    BY <2>1
<1>2. CASE grown' = grown
  BY <1>2
<1>3. QED
  BY <1>1, <1>2 DEF Next, RaiseDirty, Tick, Draw, DragBegin, DragEnd, Click, Pan, Zoom,
                    DragUpdate, vars

LEMMA TypeInit ==
    Init => TypeOK
<1> SUFFICES ASSUME Init
             PROVE  TypeOK
  OBVIOUS
<1>1. Window(None)
  BY DEF Window, None, Interval
<1>2. archive = None /\ view = None /\ drag = None
  BY DEF Init
<1>3. sought \in Nat /\ {writing, dirty, panicked, fitted, grown} \subseteq BOOLEAN
  BY DEF Init
<1>4. QED
  BY <1>1, <1>2, <1>3 DEF TypeOK, Window

LEMMA TypeStep ==
    TypeOK /\ [Next]_vars => TypeOK'
<1> SUFFICES ASSUME TypeOK, [Next]_vars
             PROVE  TypeOK'
  OBVIOUS
<1>1. Window(view) /\ Window(drag) /\ Window(None) /\ (HasContent => Window(archive))
  BY ArchivesAssumption DEF TypeOK, Window, None, Interval, HasContent
<1>2. Window(view')
  BY <1>1, StepMakesView DEF NewView, Fits
<1>3. Window(drag')
  BY <1>1, StepKeepsOthers
<1>4. grown' \in BOOLEAN
  BY GrownBoolean DEF TypeOK
<1>5. QED
  BY <1>2, <1>3, <1>4, StepKeepsOthers DEF TypeOK, Window

(* Whatever the numbers, no window, drag or click is at a negative time.   *)
THEOREM TypeCorrect == Spec => []TypeOK
BY TypeInit, TypeStep, PTL DEF Spec

(* When a step leaves no update waiting, the archive is the one before it, *)
(* and either no update waited before it or the timer has just seen it.    *)
LEMMA SettledStep ==
    ASSUME [Next]_vars, ~writing', ~dirty'
    PROVE  /\ archive' = archive
           /\ ~writing
           /\ dirty => view' = IF HasContent THEN archive ELSE view
<1>1. CASE UNCHANGED vars
  BY <1>1 DEF vars, uiVars
<1>2. ASSUME NEW a \in Archives \cup {None}, WriteRanges(a)
      PROVE  FALSE
  BY <1>2 DEF WriteRanges
<1>3. CASE RaiseDirty
  BY <1>3 DEF RaiseDirty
<1>4. CASE Tick \/ Draw \/ DragBegin \/ DragEnd
  BY <1>4 DEF Tick, Draw, DragBegin, DragEnd
<1>5. CASE \/ \E x \in -1 .. (Width + 1) : Click(x)
           \/ \E k \in PanSteps : Pan(k)
           \/ \E x \in 0 .. Width, up \in BOOLEAN : Zoom(x, up)
           \/ \E x \in -Width .. Width : DragUpdate(x)
  BY <1>5 DEF Click, Pan, Zoom, DragUpdate
<1>6. QED
  BY <1>1, <1>2, <1>3, <1>4, <1>5 DEF Next

LEMMA ViewStep ==
    TypeOK /\ ViewInArchive /\ [Next]_vars => ViewInArchive'
<1> SUFFICES ASSUME TypeOK, ViewInArchive, [Next]_vars,
                    ~writing', ~dirty', HasContent'
             PROVE  view'.start < view'.end /\ Inside(view', archive')
  BY DEF ViewInArchive
<1>1. archive' = archive /\ ~writing /\ HasContent
  BY SettledStep DEF HasContent
<1>2. archive.start \in Nat /\ archive.end \in Nat
  BY <1>1, ArchivesAssumption DEF TypeOK, HasContent, None, Interval
<1>3. CASE dirty
  BY <1>1, <1>2, <1>3, SettledStep DEF HasContent, Inside
<1>4. CASE ~dirty
  <2>1. view.start < view.end /\ Inside(view, archive)
    BY <1>1, <1>4 DEF ViewInArchive
  <2>2. Window(view)
    BY DEF TypeOK, Window
  <2>3. CASE view' = view \/ view' = archive
    BY <1>1, <1>2, <2>1, <2>3 DEF HasContent, Inside
  <2>4. CASE Fits(view') /\ Span(view') = Span(view)
    <3>1. Span(view) > 0
      BY <2>1, <2>2 DEF Span, Window
    <3>2. Window(view')
      BY <2>4 DEF Fits
    <3>3. view'.start < view'.end
      BY <2>4, <3>1, <3>2 DEF Span, Window
    <3>4. QED
      BY <1>1, <2>4, <3>3 DEF Fits, Inside
  <2>5. CASE Fits(view') /\ view'.start < view'.end
    BY <1>1, <2>5 DEF Fits, Inside
  <2>6. QED
    BY <2>3, <2>4, <2>5, StepMakesView DEF NewView
<1>5. QED
  BY <1>3, <1>4

(* Once the timer has seen an update, the window is a part of the archive, *)
(* whatever archives replace each other and whatever the user does.        *)
THEOREM WindowCorrect == Spec => []ViewInArchive
<1>1. Init => ViewInArchive
  BY DEF Init, ViewInArchive, HasContent, None, Interval
<1>2. QED
  BY <1>1, ViewStep, TypeCorrect, PTL DEF Spec

-----------------------------------------------------------------------------
(* The zoom keeps the instant under the cursor.                            *)

(* Rounding a quotient to the nearest and rounding it down differ by one   *)
(* at most.                                                                *)
LEMMA RoundedNearFloor ==
    ASSUME NEW n \in Nat, NEW w \in Nat \ {0}
    PROVE  (2 * n + w) \div (2 * w) - n \div w \in 0 .. 1
<1> DEFINE p == (2 * n + w) \div (2 * w)
           q == n \div w
<1>1. p \in Nat /\ q \in Nat
  BY QuotientNat
<1>2. w * q <= n /\ n < w * q + w
  OBVIOUS
<1>3. 2 * w * p <= 2 * n + w /\ 2 * n + w < 2 * w * p + 2 * w
  OBVIOUS
<1> HIDE DEF p, q
<1>4. w * q \in Nat /\ w * p \in Nat /\ 2 * w * p = 2 * (w * p)
  BY <1>1, ProductNat
<1>5. 2 * (w * p) < 2 * (w * q) + 3 * w /\ 2 * (w * q) < 2 * (w * p) + w
  BY <1>2, <1>3, <1>4
<1>6. q <= p
  <2> SUFFICES ASSUME p + 1 <= q PROVE FALSE
    BY <1>1
  <2>1. w * (p + 1) <= w * q
    BY <1>1
  <2>2. w * (p + 1) = w * p + w
    BY <1>1
  <2>3. QED
    BY <1>4, <1>5, <2>1, <2>2
<1>7. p <= q + 1
  <2> SUFFICES ASSUME q + 2 <= p PROVE FALSE
    BY <1>1
  <2>1. w * (q + 2) <= w * p
    BY <1>1
  <2>2. w * (q + 2) = w * q + 2 * w
    BY <1>1
  <2>3. QED
    BY <1>4, <1>5, <2>1, <2>2
<1>8. QED
  BY <1>1, <1>6, <1>7 DEF p, q

(* It begins as far left of the cursor as rounded down, and shows it       *)
(* where rounded to the nearest.                                           *)
LEMMA ZoomCentred ==
    ASSUME TypeOK, NEW x \in 0 .. Width, NEW up \in BOOLEAN, Zoom(x, up),
           archive.start < view'.start, view'.end < archive.end
    PROVE  Instant(x, view') - Instant(x, view) \in -1 .. 1
<1> DEFINE width == ZoomSpan(up)
           floor == (x * width) \div Width
           left == Minus(Instant(x, view), floor)
           start == ZoomStart(x, width)
<1>1. /\ Window(view) /\ x \in Nat /\ Width \in Nat \ {0}
      /\ archive.start \in Nat /\ archive.end \in Nat
  BY ArchivesAssumption, ScaleAssumption DEF TypeOK, Window, Zoom, HasContent, None, Interval
<1>2. Instant(x, view) \in Nat
  BY <1>1, InstantNat
<1>3. CASE panicked'
  <2>1. view' = view
    BY <1>3 DEF Zoom, Panic
  <2>2. QED
    BY <1>2, <2>1
<1>4. CASE ~panicked'
  <2>1. width \in Nat /\ view' = Interval(start, Least(start + width, archive.end))
    BY <1>4, ZoomWidth
  <2>2. x * width \in Nat
    BY <1>1, <2>1, ProductNat
  <2>3. floor \in Nat
    BY <1>1, <2>2, QuotientNat
  <2>4. left \in Nat /\ (left > 0 => left + floor = Instant(x, view))
    BY <1>2, <2>3, MinusNat
  <2>5. start = Most(IF left + width > archive.end THEN Minus(archive.end, width) ELSE left,
                     archive.start)
    BY DEF ZoomStart
  <2>6. view'.start = start /\ view'.end = Least(start + width, archive.end)
    BY <2>1 DEF Interval
  <2>7. 2 * x * width = 2 * (x * width)
    BY <1>1, <2>1
  <2> DEFINE round == (2 * (x * width) + Width) \div (2 * Width)
  <2>8. round - floor \in 0 .. 1 /\ round \in Int
    <3>1. round - floor \in 0 .. 1
      BY <1>1, <2>2, RoundedNearFloor
    <3>2. 2 * (x * width) + Width \in Nat /\ 2 * Width \in Nat \ {0}
      BY <1>1, <2>2
    <3>3. QED
      BY <3>1, <3>2, QuotientNat
  <2>9. Span(view') = view'.end - view'.start
    BY DEF Span
  <2> HIDE DEF width, floor, left, start
  <2>10. ~(left + width > archive.end)
    <3> SUFFICES ASSUME left + width > archive.end PROVE FALSE
      OBVIOUS
    <3>1. start = Minus(archive.end, width) /\ start > 0
      <4> DEFINE m == Minus(archive.end, width)
      <4>1. m \in Nat
        BY <1>1, <2>1, MinusNat
      <4>2. start = Most(m, archive.start) /\ archive.start < start
        BY <2>5, <2>6
      <4> HIDE DEF m
      <4>3. start = m /\ start > 0
        BY <1>1, <4>1, <4>2 DEF Most
      <4>4. QED
        BY <4>3 DEF m
    <3>2. start + width = archive.end
      BY <1>1, <2>1, <3>1 DEF Minus
    <3>3. QED
      BY <1>1, <2>6, <3>2 DEF Least
  <2>11. start = left /\ left > 0
    BY <1>1, <2>4, <2>5, <2>6, <2>10 DEF Most
  <2>12. Span(view') = width
    BY <1>1, <2>1, <2>4, <2>6, <2>9, <2>10, <2>11 DEF Least
  <2>13. Instant(x, view') = left + round
    BY <2>6, <2>7, <2>11, <2>12 DEF Instant, width
  <2> HIDE DEF round
  <2>14. QED
    BY <2>3, <2>4, <2>8, <2>11, <2>13
<1>5. QED
  BY <1>3, <1>4

(* The instant under the cursor moves by no more than the roundings        *)
(* (timeline.rs:507), for any factor, window and archive.                  *)
THEOREM ZoomKeeps == Spec => ZoomKeepsInstant
<1> DEFINE Kept == \A x \in 0 .. Width, up \in BOOLEAN :
                      Zoom(x, up) /\ archive.start < view'.start /\ view'.end < archive.end
                      => Instant(x, view') - Instant(x, view) \in -1 .. 1
<1>1. TypeOK => Kept
  BY ZoomCentred
<1>2. QED
  BY <1>1, TypeCorrect, PTL DEF ZoomKeepsInstant

-----------------------------------------------------------------------------
(* No panic while the archive grows.                                       *)

(* Why: neither the window nor the one a drag began with is ever wider     *)
(* than the archive.                                                       *)
Narrow ==
    grown =>
      /\ ~panicked
      /\ archive # None => MinView <= Span(archive)
      /\ Span(view) <= Span(archive)
      /\ Span(drag) <= Span(archive)

LEMMA ArchiveGrows ==
    ASSUME TypeOK, Narrow, [Next]_vars, grown'
    PROVE  /\ grown
           /\ Span(archive) <= Span(archive')
           /\ archive' # None => MinView <= Span(archive')
<1>1. Span(archive) \in Int
  BY ArchivesAssumption DEF TypeOK, Span, None, Interval
<1>2. CASE \E a \in Archives \cup {None} : WriteRanges(a)
  BY <1>2 DEF WriteRanges
<1>3. CASE archive' = archive /\ grown' = grown
  BY <1>1, <1>3 DEF Narrow
<1>4. QED
  BY <1>2, <1>3 DEF Next, RaiseDirty, Tick, Draw, DragBegin, DragEnd, Click, Pan, Zoom, DragUpdate, vars

LEMMA NoPanicStep ==
    ASSUME TypeOK, Narrow, [Next]_vars, grown
    PROVE  ~panicked'
<1>1. CASE UNCHANGED vars
  BY <1>1 DEF vars, uiVars, Narrow
<1>2. CASE \/ \E a \in Archives \cup {None} : WriteRanges(a)
           \/ RaiseDirty \/ Tick \/ Draw \/ DragBegin \/ DragEnd
           \/ \E x \in -1 .. (Width + 1) : Click(x)
  BY <1>2 DEF WriteRanges, RaiseDirty, Tick, Draw, DragBegin, DragEnd, Click, uiVars
<1>3. /\ Window(view) /\ Window(drag)
      /\ archive # None => Window(archive) /\ 0 < archive.start /\ MinView <= Span(archive)
  BY ArchivesAssumption DEF TypeOK, Window, Narrow
<1>4. ASSUME NEW i, Window(i), Span(i) <= Span(archive), archive # None
      PROVE  ~(Minus(archive.end, Span(i)) < archive.start)
  <2>1. /\ i.start \in Nat /\ i.end \in Nat /\ i.start <= i.end
        /\ archive.start \in Nat /\ archive.end \in Nat /\ 0 < archive.start
        /\ i.end - i.start <= archive.end - archive.start
    BY <1>3, <1>4 DEF Window, Span
  <2>2. QED
    BY <2>1 DEF Minus, Span
<1>5. HasContent => archive # None
  BY DEF HasContent, None, Interval
<1>6. ASSUME NEW k \in PanSteps, Pan(k)
      PROVE  ~panicked'
  <2>1. ~(Minus(archive.end, Span(view)) < archive.start)
    BY <1>3, <1>4, <1>5, <1>6 DEF Pan, Narrow
  <2>2. QED
    BY <1>6, <2>1 DEF Pan
<1>7. ASSUME NEW x \in 0 .. Width, NEW up \in BOOLEAN, Zoom(x, up)
      PROVE  ~panicked'
  <2>1. ~(Span(archive) < MinView)
    <3>1. MinView <= Span(archive) /\ Span(archive) \in Int /\ MinView \in Int
      BY <1>3, <1>5, <1>7, ScaleAssumption DEF Zoom, Window, Span
    <3>2. QED
      BY <3>1
  <2>2. QED
    BY <1>7, <2>1 DEF Zoom
<1>8. ASSUME NEW x \in -Width .. Width, DragUpdate(x)
      PROVE  ~panicked'
  <2>1. ~(Minus(archive.end, Span(drag)) < archive.start)
    BY <1>3, <1>4, <1>8 DEF DragUpdate, Narrow
  <2>2. QED
    BY <1>8, <2>1 DEF DragUpdate
<1>9. QED
  BY <1>1, <1>2, <1>6, <1>7, <1>8 DEF Next

LEMMA NarrowStep ==
    ASSUME TypeOK, Narrow, [Next]_vars
    PROVE  Narrow'
<1> SUFFICES ASSUME grown'
             PROVE  /\ ~panicked'
                    /\ archive' # None => MinView <= Span(archive')
                    /\ Span(view') <= Span(archive')
                    /\ Span(drag') <= Span(archive')
  BY DEF Narrow, Span, None, Interval
<1> grown /\ Span(view) <= Span(archive) /\ Span(drag) <= Span(archive)
  BY ArchiveGrows DEF Narrow
<1>1. Window(view) /\ Window(drag) /\ TypeOK'
  BY TypeStep DEF TypeOK, Window
<1>2. /\ Span(archive) \in Int /\ Span(archive') \in Int
      /\ Span(view) \in Int /\ Span(drag) \in Int /\ Span(None) = 0
  <2>1. Window(archive) /\ Window(archive')
    BY <1>1, ArchivesAssumption DEF TypeOK, Window, None, Interval
  <2>2. QED
    BY <1>1, <2>1 DEF Window, Span, None, Interval
<1>3. Span(drag') <= Span(archive')
  <2>1. Span(drag') <= Span(archive)
    <3>1. drag' \in {drag, view, None}
      BY StepKeepsOthers
    <3>2. 0 <= Span(archive)
      BY <1>2, ArchivesAssumption DEF TypeOK, Span, None, Interval
    <3>3. QED
      BY <1>2, <3>1, <3>2
  <2>2. Span(drag') \in Int
    BY <1>2, StepKeepsOthers
  <2>3. QED
    BY <1>2, <2>1, <2>2, ArchiveGrows
<1>4. Span(view') <= Span(archive')
  <2>1. Span(view') \in Int /\ Span(view') <= Span(archive)
    <3>1. CASE view' = view \/ view' = archive \/ Span(view') = Span(view)
      BY <1>2, <3>1
    <3>2. CASE Fits(view')
      <4>1. Window(view') /\ Inside(view', archive)
        BY <3>2 DEF Fits
      <4>2. archive.start \in Int /\ archive.end \in Int
        BY ArchivesAssumption DEF TypeOK, None, Interval
      <4>3. QED
        BY <4>1, <4>2 DEF Window, Inside, Span
    <3>3. QED
      BY <3>1, <3>2, StepMakesView DEF NewView
  <2>2. QED
    BY <1>2, <2>1, ArchiveGrows
<1>5. QED
  BY <1>3, <1>4, NoPanicStep, ArchiveGrows

(* As long as the archive has only grown, and was never shorter than the   *)
(* narrowest window, no callback has panicked.                             *)
THEOREM NeverPanics == Spec => []NoPanic
<1>1. Init => Narrow
  BY DEF Init, Narrow, Span, None, Interval
<1>2. TypeOK /\ Narrow /\ [Next]_vars => Narrow'
  BY NarrowStep
<1>3. Narrow => NoPanic
  BY DEF Narrow, NoPanic
<1>4. QED
  BY <1>1, <1>2, <1>3, TypeCorrect, PTL DEF Spec

(***************************************************************************)
(* The window.                                                             *)
(***************************************************************************)

-----------------------------------------------------------------------------
(* The parts take turns.                                                   *)

(* A step of the window is for each part a step of its own, or none.       *)
LEMMA StepOfParts ==
    ASSUME [WindowNext]_windowVars
    PROVE  [Next]_vars /\ [SpeedNext]_speedVars /\ [PictureNext]_pictureVars
<1>1. CASE WindowNext
  BY <1>1 DEF WindowNext
<1>2. CASE UNCHANGED windowVars
  BY <1>2 DEF windowVars
<1>3. QED
  BY <1>1, <1>2

(* The window is a timeline, a speed menu and a picture.                   *)
THEOREM WindowHasParts ==
    WindowSpec => /\ Spec
                  /\ SpeedInit /\ [][SpeedNext]_speedVars
                  /\ PictureSpec
<1>1. WindowInit => Init /\ SpeedInit /\ PictureInit
  BY DEF WindowInit
<1>2. [WindowNext]_windowVars =>
          [Next]_vars /\ [SpeedNext]_speedVars /\ [PictureNext]_pictureVars
  BY StepOfParts
<1>3. QED
  BY <1>1, <1>2, PTL DEF WindowSpec, Spec, PictureSpec

-----------------------------------------------------------------------------
(* The speed menu.                                                         *)

LEMMA SpeedTypeInit == SpeedInit => SpeedTypeOK
<1> SUFFICES ASSUME SpeedInit PROVE SpeedTypeOK
  OBVIOUS
<1>1. {selected, stored, rate} \subseteq Speeds /\ sending \in Speeds \cup {NoSpeed}
  BY SpeedsAssumption DEF SpeedInit
<1>2. commands \in Seq(Speeds) /\ Len(commands) <= Capacity /\ choices \in 0 .. MaxChoices
  BY ChannelAssumption DEF SpeedInit
<1>3. notify \in {"idle", "compare", "store", "send"} /\ {dropped, missed} \subseteq BOOLEAN
      /\ channel \in {"connecting", "open", "closed"}
  BY DEF SpeedInit
<1>4. QED
  BY <1>1, <1>2, <1>3 DEF SpeedTypeOK

LEMMA SpeedTypeStep ==
    ASSUME SpeedTypeOK, [SpeedNext]_speedVars
    PROVE  SpeedTypeOK'
<1> USE ChannelAssumption DEF SpeedTypeOK, menuVars, loopVars
<1>1. ASSUME NEW s \in Speeds, Choose(s)
      PROVE  SpeedTypeOK'
  BY <1>1 DEF Choose
<1>2. CASE Reselect \/ Compare \/ Store
  BY <1>2 DEF Reselect, Compare, Store
<1>3. CASE TrySend
  <2>1. CASE Len(commands) < Capacity
    <3>1. commands' = Append(commands, selected) /\ dropped' = dropped
      BY <1>3, <2>1 DEF TrySend
    <3>2. commands' \in Seq(Speeds) /\ Len(commands') <= Capacity
      BY <2>1, <3>1
    <3>3. QED
      BY <1>3, <3>1, <3>2 DEF TrySend
  <2>2. CASE ~(Len(commands) < Capacity)
    BY <1>3, <2>2 DEF TrySend
  <2>3. QED
    BY <2>1, <2>2
<1>4. CASE Take
  <2>1. Head(commands) \in Speeds /\ Tail(commands) \in Seq(Speeds)
    BY <1>4 DEF Take
  <2>2. Len(Tail(commands)) <= Capacity
    BY <1>4 DEF Take
  <2>3. QED
    BY <1>4, <2>1, <2>2 DEF Take
<1>5. CASE SendSpeed
  BY <1>5 DEF SendSpeed
<1>6. CASE UNCHANGED speedVars
  BY <1>6 DEF speedVars
<1>7. CASE ChannelStep
  BY <1>7 DEF ChannelStep
<1>8. QED
  BY <1>1, <1>2, <1>3, <1>4, <1>5, <1>6, <1>7 DEF SpeedNext, Menu, Loop

(* Why the rate settles: once the channel is empty, the speed stored is    *)
(* the one the loop is sending, or has sent last if that send was made.    *)
Agreeing ==
    commands = <<>> /\ notify # "send" /\ ~dropped
        => IF sending = NoSpeed THEN missed \/ stored = rate ELSE stored = sending

LEMMA AgreeingStep ==
    ASSUME SpeedTypeOK, Agreeing, [SpeedNext]_speedVars
    PROVE  Agreeing'
<1> USE DEF Agreeing, menuVars, loopVars
<1>1. ASSUME NEW s \in Speeds, Choose(s)
      PROVE  Agreeing'
  BY <1>1 DEF Choose
<1>2. CASE Reselect \/ Compare \/ Store
  BY <1>2 DEF Reselect, Compare, Store
<1>3. CASE TrySend
  <2>1. Append(commands, selected) # <<>>
    BY DEF SpeedTypeOK
  <2>2. QED
    BY <1>3, <2>1 DEF TrySend
<1>4. CASE Take
  <2>1. Head(commands) # NoSpeed
    BY <1>4, SpeedsAssumption DEF Take, SpeedTypeOK
  <2>2. QED
    BY <1>4, <2>1 DEF Take
<1>5. CASE SendSpeed
  BY <1>5 DEF SendSpeed
<1>6. CASE UNCHANGED speedVars
  BY <1>6 DEF speedVars
<1>7. CASE ChannelStep
  BY <1>7 DEF ChannelStep
<1>8. QED
  BY <1>1, <1>2, <1>3, <1>4, <1>5, <1>6, <1>7 DEF SpeedNext, Menu, Loop

(* While nothing is under way the server plays at the speed stored, or the *)
(* last send of a speed has failed (timeline.rs:643, archive_loop.rs:121). *)
THEOREM RateSettles == WindowSpec => []SettledRate
<1>1. SpeedInit => Agreeing
  BY DEF SpeedInit, Agreeing
<1>2. SpeedTypeOK /\ Agreeing => SettledRate
  BY DEF SpeedTypeOK, Agreeing, SettledRate
<1>3. QED
  BY <1>1, <1>2, SpeedTypeInit, SpeedTypeStep, AgreeingStep, WindowHasParts, PTL

-----------------------------------------------------------------------------
(* The picture.                                                            *)

(* What is clamped is in between, and no further from the middle.          *)
LEMMA BoundedBetween ==
    ASSUME NEW t \in Int, NEW s \in Nat, NEW m \in Nat, -m <= t, t <= m
    PROVE  /\ Bounded(t, -s, s) \in Int
           /\ -s <= Bounded(t, -s, s) /\ Bounded(t, -s, s) <= s
           /\ -m <= Bounded(t, -s, s) /\ Bounded(t, -s, s) <= m
BY DEF Bounded

LEMMA BoundedRange ==
    ASSUME NEW t \in Int, NEW lo \in Int, NEW hi \in Int, lo <= hi
    PROVE  Bounded(t, lo, hi) \in lo .. hi
BY DEF Bounded

LEMMA SlackNat ==
    ASSUME NEW box \in Nat, NEW room \in Nat
    PROVE  Slack(box, room) \in Nat
BY DEF Slack

LEMMA SizesNat ==
    ASSUME PictureTypeOK
    PROVE  /\ AreaSize.x \in Nat /\ AreaSize.y \in Nat
           /\ DrawnSize.x \in Nat /\ DrawnSize.y \in Nat
<1>1. /\ area.x \in Nat /\ area.y \in Nat /\ zoom \in Nat
      /\ Cos[angle] \in Nat /\ Sin[angle] \in Nat /\ Full \in Nat /\ Unit \in Nat
  BY AreasAssumption, AnglesAssumption, ZoomAssumption DEF PictureTypeOK
<1>2. area.x * Full * Unit \in Nat /\ area.y * Full * Unit \in Nat
  BY <1>1, ProductNat
<1>3. /\ area.x * Cos[angle] \in Nat /\ area.y * Sin[angle] \in Nat
      /\ area.x * Sin[angle] \in Nat /\ area.y * Cos[angle] \in Nat
  BY <1>1, ProductNat
<1>4. /\ (area.x * Cos[angle] + area.y * Sin[angle]) * zoom \in Nat
      /\ (area.x * Sin[angle] + area.y * Cos[angle]) * zoom \in Nat
  <2>1. /\ area.x * Cos[angle] + area.y * Sin[angle] \in Nat
        /\ area.x * Sin[angle] + area.y * Cos[angle] \in Nat
    BY <1>3
  <2>2. QED
    BY <1>1, <2>1, ProductNat
<1>5. QED
  BY <1>2, <1>4 DEF AreaSize, DrawnSize, Point

LEMMA PictureTypeInit == PictureInit => PictureTypeOK
<1> SUFFICES ASSUME PictureInit PROVE PictureTypeOK
  OBVIOUS
<1>1. zoom \in Full .. MaxZoom /\ angle \in 0 .. (Turn - 1)
  BY ZoomAssumption, AnglesAssumption DEF PictureInit
<1>2. {pan.x, pan.y} \subseteq -MaxPan .. MaxPan /\ pan = Point(pan.x, pan.y)
  BY DragsAssumption DEF PictureInit, Point
<1>3. lastDrag \in Drags \cup {Point(0, 0)} /\ area \in Areas
  BY DEF PictureInit
<1>4. {shift_held, shift, focused} \subseteq BOOLEAN
  BY DEF PictureInit
<1>5. QED
  BY <1>1, <1>2, <1>3, <1>4 DEF PictureTypeOK

LEMMA PictureTypeStep ==
    ASSUME PictureTypeOK, [PictureNext]_pictureVars
    PROVE  PictureTypeOK'
<1> USE DEF keyVars
<1>1. CASE DrawPicture
  <2>1. /\ {ClampedPan.x, ClampedPan.y} \subseteq -MaxPan .. MaxPan
        /\ ClampedPan = Point(ClampedPan.x, ClampedPan.y)
    <3> DEFINE slackX == Slack(DrawnSize.x, AreaSize.x)
               slackY == Slack(DrawnSize.y, AreaSize.y)
    <3>1. slackX \in Nat /\ slackY \in Nat
      BY SizesNat, SlackNat
    <3>2. /\ pan.x \in Int /\ -MaxPan <= pan.x /\ pan.x <= MaxPan
          /\ pan.y \in Int /\ -MaxPan <= pan.y /\ pan.y <= MaxPan /\ MaxPan \in Nat
      BY DragsAssumption DEF PictureTypeOK
    <3>3. ClampedPan = Point(Bounded(pan.x, -slackX, slackX), Bounded(pan.y, -slackY, slackY))
      BY DEF ClampedPan
    <3> HIDE DEF slackX, slackY
    <3>4. /\ Bounded(pan.x, -slackX, slackX) \in -MaxPan .. MaxPan
          /\ Bounded(pan.y, -slackY, slackY) \in -MaxPan .. MaxPan
      BY <3>1, <3>2, BoundedBetween
    <3>5. QED
      BY <3>3, <3>4 DEF Point
  <2>2. QED
    BY <1>1, <2>1 DEF DrawPicture, PictureTypeOK
<1>2. ASSUME NEW a \in Areas, Resize(a)
      PROVE  PictureTypeOK'
  BY <1>2 DEF Resize, PictureTypeOK
<1>3. ASSUME NEW step \in {-1, 1}, Scroll(step)
      PROVE  PictureTypeOK'
  <2>1. Zoomed(step) \in Full .. MaxZoom
    <3>1. zoom + step \in Int /\ Full \in Int /\ MaxZoom \in Int /\ Full <= MaxZoom
      BY ZoomAssumption DEF PictureTypeOK
    <3>2. QED
      BY <3>1, BoundedRange DEF Zoomed
  <2>2. Turned(step) \in 0 .. (Turn - 1)
    BY AnglesAssumption DEF Turned, PictureTypeOK
  <2>3. zoom' \in Full .. MaxZoom /\ angle' \in 0 .. (Turn - 1)
    BY <1>3, <2>1, <2>2 DEF Scroll, PictureTypeOK
  <2>4. QED
    BY <1>3, <2>3 DEF Scroll, PictureTypeOK
<1>4. CASE DragStart
  BY <1>4 DEF DragStart, PictureTypeOK
<1>5. ASSUME NEW d \in Drags, DragTo(d)
      PROVE  PictureTypeOK'
  <2>1. pan' = Point(pan'.x, pan'.y)
    BY <1>5 DEF DragTo, Panned, Point
  <2>2. QED
    BY <1>5, <2>1 DEF DragTo, PictureTypeOK
<1>6. CASE Enter \/ Leave
  BY <1>6 DEF Enter, Leave, PictureTypeOK
<1>7. CASE Shift
  <2>1. shift' \in BOOLEAN /\ shift_held' \in BOOLEAN
    BY <1>7 DEF Shift, PictureTypeOK
  <2>2. QED
    BY <1>7, <2>1 DEF Shift, PictureTypeOK
<1>8. CASE UNCHANGED pictureVars
  BY <1>8 DEF pictureVars, PictureTypeOK
<1>9. QED
  BY <1>1, <1>2, <1>3, <1>4, <1>5, <1>6, <1>7, <1>8 DEF PictureNext

-----------------------------------------------------------------------------
(* The window.                                                             *)

(* The shape of the state of each part.                                    *)
THEOREM WindowTyped == WindowSpec => []WindowTypeOK
<1>1. TypeOK /\ SpeedTypeOK /\ PictureTypeOK => WindowTypeOK
  BY DEF WindowTypeOK
<1>2. QED
  BY <1>1, SpeedTypeInit, SpeedTypeStep, PictureTypeInit, PictureTypeStep, TypeCorrect,
     WindowHasParts, PTL DEF PictureSpec

(* What TimelineView_proofs says of the timeline holds in the window: it   *)
(* is inside the archive (timeline.rs:91-104), no callback panics while    *)
(* the archive grows, and the zoom keeps the instant under the cursor.     *)
THEOREM TimelineInArchive == WindowSpec => []ViewInArchive
BY WindowCorrect, WindowHasParts, PTL

THEOREM TimelineNeverPanics == WindowSpec => []NoPanic
BY NeverPanics, WindowHasParts, PTL

THEOREM TimelineZooms == WindowSpec => ZoomKeepsInstant
BY ZoomKeeps, WindowHasParts, PTL
=============================================================================
