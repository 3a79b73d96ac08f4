---------------------------- MODULE MCMainWindow ----------------------------
(* Values for the constants of MainWindow. Archives of any length, short    *)
(* and empty ones included; eight angles, of which four are right ones.     *)
EXTENDS MainWindow

AnyArchives == {Interval(1, 9), Interval(3, 12), Interval(5, 7), Interval(6, 6)}
Steps == {-6, -2, 2, 6}

Around(quarter) == [a \in 0 .. 7 |-> quarter[(a % 4) + 1]]
Cosines == Around(<<5, 3, 0, 3>>)
Sines == Around(<<0, 4, 5, 4>>)
Sizes == {Point(2, 1), Point(1, 2)}
Offsets == {Point(-1, 1), Point(1, 0)}
=============================================================================
