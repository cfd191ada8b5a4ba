------------------------------ MODULE MCDisplay ------------------------------
(* A small instance of Display for TLC.                                    *)
EXTENDS Display, TLC

Fan(speed, timer, fault) == [speed |-> speed, timer |-> timer, fault |-> fault]

\* A fan that is off, one that runs with and without a timer.
ThreeSnapshots == {Fan(0, 0, FALSE), Fan(2, 0, FALSE), Fan(2, 1, FALSE)}

\* The setup sequence and the panel share the key and nothing else.  Attempts at the
\* sequence are therefore explored on a panel on which no write has failed and that has
\* shown no change of the fan yet, and failures and changes without such attempts.
SetupWithoutFailures == threads = {} \/ (failures = 0 /\ publications = 0)
=============================================================================
