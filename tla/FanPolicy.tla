------------------------------ MODULE FanPolicy ------------------------------
(***************************************************************************)
(* The pure rules of the fan: components/fan_policy/fan_policy.c and the   *)
(* output table of main/fan_select.c.  The two 32-bit counters keep their  *)
(* wrap-around; their width is a parameter so that TLC reaches the wrap.   *)
(***************************************************************************)
EXTENDS Integers

CONSTANTS
    SeqMax,     \* largest command sequence number; UINT32_MAX in the code
    TickMod     \* number of tick values; 2^32 in the code

ASSUME SeqMaxAssumption == SeqMax \in Nat \ {0}
ASSUME TickModAssumption == TickMod \in Nat \ {0}

\* fan_speed_t: FAN_SPEED_OFF and four speeds, the fourth one being turbo.
OFF    == 0
TURBO  == 4
Speeds == 0 .. 4

\* The command sequence number; 0 means that no command was ever issued.
Seqs  == 0 .. SeqMax
Ticks == 0 .. TickMod - 1

\* The touch button cycles OFF, 1, 2, 3; turbo also goes to OFF.
NextNormalSpeed(speed) == IF speed \in 0 .. 2 THEN speed + 1 ELSE OFF

ToggleTurbo(speed) == IF speed = TURBO THEN OFF ELSE TURBO

\* Mutant: the sum of the start and the duration is compared with now.
TickElapsedBySum(now, started, duration) == now >= started + duration

\* (uint32_t)(now - started) >= duration
TickElapsed(now, started, duration) == (now - started) % TickMod >= duration

\* Mutant: 0, the number of no command, is not skipped.
NextSequenceWithZero(current) == (current + 1) % (SeqMax + 1)

\* current + 1 in 32 bits, and 0 is skipped.
NextSequence(current) == IF current = SeqMax THEN 1 ELSE current + 1

\* output_map: the decoder address of each speed (A0 is wired to 0).
OutputMap == [speed \in Speeds |-> IF speed = OFF THEN 0 ELSE 2 * (speed - 1)]
=============================================================================
