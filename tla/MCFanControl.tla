---------------------------- MODULE MCFanControl ----------------------------
(* Small instances of FanControl for TLC.                                  *)
EXTENDS FanControl, TLC

CONSTANTS touch, rest, worker

SetSpeed(speed, cancel) == [action |-> "SET_SPEED", speed |-> speed, cancel |-> cancel]
Press(action)           == [action |-> action, speed |-> OFF, cancel |-> FALSE]

\* controller_key_pressed on the main task, controller_set_fan on the HTTP task.
\* Speeds 1 and turbo differ in both driven address bits.
SpeedCommands == {Press("CYCLE_NORMAL"), Press("TOGGLE_TURBO"), SetSpeed(OFF, TRUE)}
TimerCommands == {Press("CYCLE_NORMAL"), Press("TOGGLE_TURBO"), Press("CYCLE_TIMER"),
                  SetSpeed(3, TRUE), SetSpeed(OFF, TRUE)}
OneCommand    == {SetSpeed(1, TRUE)}

ShortDurations == [mode \in 0 .. 2 |-> 1]
TimedDurations == [mode \in 0 .. 2 |-> mode + 2]

Tasks == {touch, rest}
=============================================================================
