---------------------------- MODULE MCIntervals ----------------------------
(***************************************************************************)
(* Instances of Intervals for TLC: lists of up to three intervals, shorter *)
(* and longer than the counters.                                           *)
(***************************************************************************)
EXTENDS Intervals

CONSTANTS Counts, Lists

MCLists == {<<>>, <<5>>, <<5, 10>>, <<5, 10, 15>>}
MCFull == MCLists \ {<<>>}
MCPlans == [retries : Counts, retryIntervals : Lists,
            times : Counts, repeatIntervals : Lists,
            max : Counts \ {0}, returnedIntervals : Lists]

=============================================================================
