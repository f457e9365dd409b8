-------------------------- MODULE MCFeedCollection --------------------------
(* Small instances of FeedCollection.  One unit of time is five minutes, so *)
(* the code's retry delays of 5, 15, 45... minutes are 1, 3, 9... units.    *)
EXTENDS FeedCollection

CONSTANTS f1, f2, f3

MCIntervals == {2, 4}
MCDeclaredInterval == [f \in Feed |-> IF f = f1 THEN 4 ELSE 2]
=============================================================================
