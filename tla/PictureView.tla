---------------------------- MODULE PictureView -----------------------------
(***************************************************************************)
(* The picture in the window: zoom, rotation and panning by the mouse      *)
(* (src/ui/mod.rs) and their state, VideoViewState (src/app_state.rs). All *)
(* of it runs on the GTK thread.                                           *)
(*                                                                         *)
(* Lengths are whole numbers of halves of a pixel divided by Full and      *)
(* Unit, so that whatever is drawn is whole. One step of the wheel turns   *)
(* by one of the angles of Cos, in the code by 5 degrees.                  *)
(***************************************************************************)
EXTENDS Integers

CONSTANTS
    Full,       \* the zoom of 100 %
    MaxZoom,    \* the zoom of 400 %
    Cos, Sin,   \* by angle, absolute values, in units of Unit
    Unit,
    Turn,       \* the number of angles
    Areas,      \* the sizes the window can have, in pixels
    Drags,      \* how far the mouse may be from where a drag began
    MaxPan      \* bound: how far the picture is dragged

Point(x, y) == [x |-> x, y |-> y]

ASSUME ZoomAssumption == Full \in Nat \ {0} /\ MaxZoom \in Nat /\ Full <= MaxZoom
ASSUME AnglesAssumption ==
    /\ Turn \in Nat \ {0} /\ Unit \in Nat \ {0}
    /\ \A a \in 0 .. (Turn - 1) :
          /\ Cos[a] \in Nat /\ Sin[a] \in Nat
          /\ Sin[a] = 0 => Cos[a] = Unit
ASSUME AreasAssumption == \A a \in Areas : a.x \in Nat /\ a.y \in Nat
ASSUME DragsAssumption == MaxPan \in Nat /\ \A d \in Drags : d.x \in Int /\ d.y \in Int

VARIABLES
    zoom,       \* zoom_percent
    angle,      \* rotation_deg
    pan,        \* pan_x, pan_y
    lastDrag,   \* last_drag
    area,       \* the size of the window
    shift_held, \* what the key controller has seen
    shift,      \* TRUE: the key is down
    focused     \* TRUE: the video has the keyboard focus

keyVars == <<shift_held, shift, focused>>
pictureVars == <<zoom, angle, pan, lastDrag, area, keyVars>>

Bounded(t, lo, hi) == IF t < lo THEN lo ELSE IF t > hi THEN hi ELSE t

PictureInit ==
    /\ zoom = Full /\ angle = 0
    /\ pan = Point(0, 0) /\ lastDrag = Point(0, 0)
    /\ area \in Areas
    /\ shift_held = FALSE /\ shift = FALSE /\ focused = FALSE

-----------------------------------------------------------------------------
(* The draw function.                                                      *)

(* The area, and the box around the picture: stretched to the area, zoomed *)
(* and turned.                                                             *)
AreaSize == Point(area.x * Full * Unit, area.y * Full * Unit)
DrawnSize ==
    Point((area.x * Cos[angle] + area.y * Sin[angle]) * zoom,
          (area.x * Sin[angle] + area.y * Cos[angle]) * zoom)

(* clamp_pan_to_frame: how far the picture may be off the middle.          *)
Slack(box, room) == IF box >= room THEN box - room ELSE 0
ClampedPan ==
    LET slackX == Slack(DrawnSize.x, AreaSize.x)
        slackY == Slack(DrawnSize.y, AreaSize.y)
    IN Point(Bounded(pan.x, -slackX, slackX), Bounded(pan.y, -slackY, slackY))

DrawPicture ==
    /\ pan' = ClampedPan
    /\ UNCHANGED <<zoom, angle, lastDrag, area, keyVars>>

-----------------------------------------------------------------------------
(* Gestures. The wheel and the drag need no focus.                         *)

Resize(a) ==
    /\ a # area /\ area' = a
    /\ UNCHANGED <<zoom, angle, pan, lastDrag, keyVars>>

Zoomed(step) == Bounded(zoom + step, Full, MaxZoom)     \* zoom_in, zoom_out
Turned(step) == (angle + step) % Turn                   \* rotate_5_cw, rotate_5_ccw

(* The wheel over the video.                                               *)
Scroll(step) ==
    /\ IF shift_held
       THEN angle' = Turned(step) /\ UNCHANGED zoom
       ELSE zoom' = Zoomed(step) /\ UNCHANGED angle
    /\ UNCHANGED <<pan, lastDrag, area, keyVars>>

DragStart ==
    /\ lastDrag' = Point(0, 0)
    /\ UNCHANGED <<zoom, angle, pan, area, keyVars>>

(* add_pan *)
Panned(by) == Point(pan.x + 2 * Full * Unit * by.x, pan.y + 2 * Full * Unit * by.y)

(* The mouse is at d from where the drag began.                            *)
DragTo(d) ==
    /\ pan' = Panned(Point(d.x - lastDrag.x, d.y - lastDrag.y))
    /\ {pan'.x, pan'.y} \subseteq -MaxPan .. MaxPan
    /\ lastDrag' = d
    /\ UNCHANGED <<zoom, angle, area, keyVars>>

-----------------------------------------------------------------------------
(* The keyboard: the video is told of a key only while it has the focus,   *)
(* which it takes when the mouse enters it.                                *)

Enter ==
    /\ ~focused /\ focused' = TRUE
    /\ UNCHANGED <<zoom, angle, pan, lastDrag, area, shift_held, shift>>

Leave == \* the user turns to another control
    /\ focused /\ focused' = FALSE
    /\ UNCHANGED <<zoom, angle, pan, lastDrag, area, shift_held, shift>>

Shift ==
    /\ shift' = ~shift
    /\ shift_held' = IF focused THEN shift' ELSE shift_held
    /\ UNCHANGED <<zoom, angle, pan, lastDrag, area, focused>>

PictureNext ==
    \/ DrawPicture
    \/ \E a \in Areas : Resize(a)
    \/ \E step \in {-1, 1} : Scroll(step)
    \/ DragStart
    \/ \E d \in Drags : DragTo(d)
    \/ Enter
    \/ Leave
    \/ Shift

PictureSpec == PictureInit /\ [][PictureNext]_pictureVars

-----------------------------------------------------------------------------
(* Properties.                                                             *)

PictureTypeOK ==
    /\ zoom \in Full .. MaxZoom /\ angle \in 0 .. (Turn - 1)
    /\ {pan.x, pan.y} \subseteq -MaxPan .. MaxPan /\ pan = Point(pan.x, pan.y)
    /\ lastDrag \in Drags \cup {Point(0, 0)} /\ area \in Areas
    /\ {shift_held, shift, focused} \subseteq BOOLEAN

-----------------------------------------------------------------------------
(* What a comment says and the code does not do. ui/mod.rs:171: the wheel  *)
(* zooms, and turns with Shift.                                            *)
TurnsWithShift == [][angle' # angle => shift]_pictureVars
=============================================================================
