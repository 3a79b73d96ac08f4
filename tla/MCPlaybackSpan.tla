--------------------------- MODULE MCPlaybackSpan ---------------------------
(* Values for the constants of PlaybackSpan.                               *)
EXTENDS PlaybackSpan

Bounds(seeks, replies, stops, packets) ==
    [seeks |-> seeks, replies |-> replies, stops |-> stops, packets |-> packets]

FewCalm == Bounds(2, 3, 1, 5)
FewRaces == Bounds(2, 3, 0, 4)
OneSeek == Bounds(1, 3, 0, 4)
OnePacket == Bounds(2, 1, 0, 1)
SlowStream == Bounds(1, 3, 0, 5)
LatePacket == Bounds(2, 1, 0, 3)
Nothing == Bounds(0, 0, 0, 0)
=============================================================================
