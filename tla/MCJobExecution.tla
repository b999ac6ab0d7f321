--------------------------- MODULE MCJobExecution ---------------------------
(***************************************************************************)
(* Instances of JobExecution for TLC.                                      *)
(***************************************************************************)
EXTENDS JobExecution

CONSTANTS Failures, Losts, Kills, Stops, Sigrtmins, Races

MCBudget == [drop |-> Failures, lost |-> Losts, kill |-> Kills, stop |-> Stops,
             sigrtmin |-> Sigrtmins, race |-> Races]

=============================================================================
