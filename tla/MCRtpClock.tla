----------------------------- MODULE MCRtpClock -----------------------------
(* Values for the constants of RtpClock: a day of 14, timestamps that wrap  *)
(* after 8 2/3.                                                             *)
EXTENDS RtpClock

WithinDays == {Interval(1, 13), Interval(15, 27)}
AcrossMidnight == {Interval(9, 20)}
=============================================================================
