----------------------------- MODULE MainWindow -----------------------------
(***************************************************************************)
(* The main window: the timeline, the speed menu beside it and the picture *)
(* above. Their callbacks take turns on the GTK thread and share no state, *)
(* so what holds of each while the others rest holds of them together: in  *)
(* a behaviour one part is at work.                                        *)
(***************************************************************************)
EXTENDS TimelineView, SpeedControl, PictureView

VARIABLE part

windowVars == <<vars, speedVars, pictureVars, part>>

WindowInit ==
    /\ Init /\ SpeedInit /\ PictureInit
    /\ part \in {"timeline", "speed", "picture"}

WindowNext ==
    /\ \/ part = "timeline" /\ Next /\ UNCHANGED <<speedVars, pictureVars>>
       \/ part = "speed" /\ SpeedNext /\ UNCHANGED <<vars, pictureVars>>
       \/ part = "picture" /\ PictureNext /\ UNCHANGED <<vars, speedVars>>
    /\ UNCHANGED part

WindowSpec == WindowInit /\ [][WindowNext]_windowVars /\ SpeedFairness

-----------------------------------------------------------------------------
(* The shape of the state of each part.                                    *)
WindowTypeOK == TypeOK /\ SpeedTypeOK /\ PictureTypeOK
=============================================================================
