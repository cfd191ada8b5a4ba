--------------------------- MODULE RecoveryPolicy ---------------------------
(***************************************************************************)
(* components/recovery_policy/recovery_policy.c: when a peripheral or a    *)
(* service that did not start is tried again.  A policy is a record with   *)
(* the fields of recovery_policy_t.  Times are ticks of the wrapping       *)
(* counter; its width is a parameter so that TLC reaches the wrap.         *)
(***************************************************************************)
EXTENDS Integers, Sequences

CONSTANTS
    TickMod,    \* number of tick values; 2^32 in the code
    Delays      \* s_delays_seconds, in ticks; <<1, 5, 30, 60>> seconds in the code

Ticks == 0 .. TickMod - 1

\* A deadline is told from a past one by the sign of a 32-bit difference, so it
\* has to lie within half of the counter's range.
ASSUME TickModAssumption == TickMod \in Nat \ {0} /\ TickMod % 2 = 0
ASSUME DelaysAssumption ==
    /\ Delays \in Seq(Nat) /\ Len(Delays) > 0
    /\ \A i \in 1 .. Len(Delays) : Delays[i] < TickMod \div 2

PolicyT == [ready : BOOLEAN, retryAt : Ticks, backoff : 1 .. Len(Delays)]

\* retry_state_t led_retry = { 0 } in app_main.
NewPolicy == [ready |-> FALSE, retryAt |-> 0, backoff |-> 1]

After(now, delay) == (now + delay) % TickMod

\* Mutant: the deadline is compared as an unsigned number.
ReachedUnsigned(now, at) == now >= at

\* (int32_t)(now - at) >= 0
Reached(now, at) == (now - at) % TickMod < TickMod \div 2

MarkFailed(p, now) ==
    [ready   |-> FALSE,
     retryAt |-> After(now, Delays[p.backoff]),
     backoff |-> IF p.backoff < Len(Delays) THEN p.backoff + 1 ELSE p.backoff]

IsDue(p, now) == ~p.ready /\ Reached(now, p.retryAt)

MarkReady(p) == [p EXCEPT !.ready = TRUE, !.backoff = 1]
=============================================================================
