---------------------------- MODULE TouchPanel ----------------------------
(***************************************************************************)
(* The local control panel: the touch sensor's callbacks, which run in an  *)
(* interrupt and put edges into a short queue (components/touch/touch.c),  *)
(* and the gesture recognizer that the main loop polls and that turns      *)
(* edges into keys (components/touch_gesture/touch_gesture.c).             *)
(*                                                                         *)
(* Time is counted in ticks of the recognizer's clock, which wraps.  The   *)
(* main loop is a task of low priority: callbacks and ticks fall between   *)
(* any two of its steps.                                                   *)
(***************************************************************************)
EXTENDS Integers, Sequences

CONSTANTS
    Keys,               \* the pads that are touched, a subset of 1 .. 6
    QueueLength,        \* KEY_EVENT_QUEUE_LENGTH
    ACTIVE_STABLE,      \* ACTIVE_STABLE_MS in ticks
    RELEASE_STABLE,     \* RELEASE_STABLE_MS in ticks
    TickMod,            \* the number of values of the clock (2^32 in the code)
    MaxLag,             \* bound: ticks that pass between two polls
    MaxEdges            \* bound: edges that the sensor reports within one tick

NoKey == 0

ASSUME TouchAssumption ==
    /\ Keys \subseteq 1 .. 6
    /\ QueueLength \in Nat \ {0}
    /\ ACTIVE_STABLE \in Nat \ {0} /\ RELEASE_STABLE \in Nat \ {0}
    /\ MaxLag \in Nat \ {0} /\ MaxEdges \in Nat \ {0}
    /\ TickMod \in Nat
    /\ TickMod > ACTIVE_STABLE + MaxLag /\ TickMod > RELEASE_STABLE + MaxLag

Edge == [key : Keys, active : BOOLEAN]

Ticks == 0 .. TickMod - 1

\* touch_gesture_t.  started is candidate_started while the gesture is armed and
\* release_started while it is not: neither is read in the other case.
GestureT ==
    [active_mask : SUBSET Keys, candidate_key : Keys \cup {NoKey}, armed : BOOLEAN,
     release_pending : BOOLEAN, started : Ticks]

VARIABLES
    held,       \* the pads that the sensor reports as touched
    queue,      \* s_key_event_queue
    overflow,   \* s_event_overflow
    driver,     \* "absent", "starting" (scanning, in touch_sens_init) or "ready"
    gesture,    \* s_gesture
    now,        \* the clock
    pc,         \* where app_main is
    polled,     \* now_ms of touch_sens_get_key_num
    lag,        \* ticks since the last poll
    edges,      \* edges within this tick
    since       \* history since the last key was accepted (see HistoryT)

vars == <<held, queue, overflow, driver, gesture, now, pc, polled, lag, edges, since>>

\* What happened since the last accepted key: the pads that were touched anew,
\* whether all pads were released at once, and whether an edge was dropped, with no
\* moment since at which nothing was touched and no recovery due; and the ticks since
\* the poll that accepted it, as far as KeysApart counts them.
KeySpacing == ACTIVE_STABLE + RELEASE_STABLE

HistoryT ==
    [touched : SUBSET Keys, released : BOOLEAN, dropped : BOOLEAN,
     age : 0 .. KeySpacing + MaxLag]

----------------------------------------------------------------------------
(* touch_gesture.c                                                         *)

\* (uint32_t)(now - started) >= interval
elapsed(t, started, interval) == (t - started) % TickMod >= interval

ZeroGesture ==
    [active_mask |-> {}, candidate_key |-> NoKey, armed |-> FALSE,
     release_pending |-> FALSE, started |-> 0]

touch_gesture_init == [ZeroGesture EXCEPT !.armed = TRUE]

\* An edge to active: the first pad of an armed gesture becomes the candidate, a
\* second one makes the gesture ambiguous.
EdgeActive(g, key, t) ==
    LET seen == [g EXCEPT !.active_mask = @ \cup {key}, !.release_pending = FALSE]
    IN  IF key \in g.active_mask THEN g
        ELSE IF ~g.armed THEN seen
        ELSE IF seen.active_mask = {key} /\ g.candidate_key = NoKey
             THEN [seen EXCEPT !.candidate_key = key, !.started = t]
             ELSE [seen EXCEPT !.candidate_key = NoKey, !.armed = FALSE]

\* An edge to inactive: the candidate is given up; the last pad starts the wait
\* for a stable release.
EdgeInactive(g, key, t) ==
    LET left == g.active_mask \ {key}
        quiet == ~g.armed /\ left = {}
    IN  [g EXCEPT !.active_mask = left,
                  !.candidate_key = IF g.armed /\ @ = key THEN NoKey ELSE @,
                  !.release_pending = @ \/ quiet,
                  !.started = IF quiet THEN t ELSE @]

touch_gesture_edge(g, e, t) ==
    IF e.active THEN EdgeActive(g, e.key, t) ELSE EdgeInactive(g, e.key, t)

\* The key that a poll accepts.
PollKey(g, t) ==
    IF /\ g.armed /\ g.candidate_key # NoKey
       /\ g.active_mask = {g.candidate_key}
       /\ elapsed(t, g.started, ACTIVE_STABLE)
    THEN g.candidate_key ELSE NoKey

\* Mutant: an accepted candidate is not cleared.
PollKeepsCandidate(g, t) ==
    IF /\ ~g.armed /\ g.release_pending /\ g.active_mask = {}
       /\ elapsed(t, g.started, RELEASE_STABLE)
    THEN [g EXCEPT !.armed = TRUE, !.release_pending = FALSE]
    ELSE g

\* What a poll leaves: disarmed by a key, armed by a stable release.
PollGesture(g, t) ==
    IF PollKey(g, t) # NoKey
    THEN [g EXCEPT !.candidate_key = NoKey, !.armed = FALSE, !.release_pending = FALSE]
    ELSE IF /\ ~g.armed /\ g.release_pending /\ g.active_mask = {}
            /\ elapsed(t, g.started, RELEASE_STABLE)
    THEN [g EXCEPT !.armed = TRUE, !.release_pending = FALSE]
    ELSE g

\* Mutant: the pads that were touched before the overflow are kept.
DiscardKeepsMask(g, t) ==
    [ZeroGesture EXCEPT !.active_mask = g.active_mask, !.release_pending = TRUE, !.started = t]

\* Mutant: the wait for quiet is not started.
DiscardWithoutWait(g, t) == ZeroGesture

\* Mutant: an overflow starts the gesture anew.
DiscardRearms(g, t) == touch_gesture_init

\* After an overflow: nothing is known to be touched, and the wait for a stable
\* release begins.
touch_gesture_discard_until_quiet(g, t) ==
    [ZeroGesture EXCEPT !.release_pending = TRUE, !.started = t]

----------------------------------------------------------------------------
(* The sensor and its callbacks                                            *)

Init ==
    /\ held = {} /\ queue = <<>> /\ overflow = FALSE
    /\ driver = "absent" /\ gesture = ZeroGesture
    /\ now = 0 /\ pc = "loop" /\ polled = 0 /\ lag = 0 /\ edges = 0
    /\ since = [touched |-> {}, released |-> TRUE, dropped |-> FALSE,
                age |-> KeySpacing + MaxLag]

\* xQueueSendFromISR finds a free place.
HasRoom == Len(queue) < QueueLength

\* xQueueSendFromISR fails on a full queue: the edge is lost and the flag is set.
QueueEdge(key, active) ==
    IF HasRoom
    THEN /\ queue' = Append(queue, [key |-> key, active |-> active])
         /\ UNCHANGED overflow
    ELSE /\ overflow' = TRUE
         /\ UNCHANGED queue

\* A pad becomes active or inactive and the sensor calls on_active or on_inactive.
\* Fewer edges than the queue holds fall between the start of the scan and the end
\* of touch_sens_init (a bound of the model: a few instructions).
Report(key, active) ==
    /\ driver # "absent" /\ edges < MaxEdges
    /\ driver = "starting" => HasRoom
    /\ active = (key \notin held)
    /\ held' = IF active THEN held \cup {key} ELSE held \ {key}
    /\ QueueEdge(key, active)
    /\ edges' = edges + 1
    /\ since' = [since EXCEPT
            !.touched = IF active THEN @ \cup {key} ELSE @,
            !.released = @ \/ held' = {},
            !.dropped = \/ ~HasRoom
                        \/ @ /\ (held' # {} \/ overflow \/ pc = "discard")]
    /\ UNCHANGED <<driver, gesture, now, pc, polled, lag>>

OnActive(key) == Report(key, TRUE)

OnInactive(key) == Report(key, FALSE)

\* The clock.  The loop comes back within MaxLag ticks; it is not polled before the
\* sensor is ready.
Tick ==
    /\ driver = "ready" => lag < MaxLag
    /\ now' = (now + 1) % TickMod
    /\ lag' = IF driver = "ready" THEN lag + 1 ELSE 0
    /\ edges' = 0
    /\ since' = [since EXCEPT !.age = IF @ < KeySpacing + MaxLag THEN @ + 1 ELSE @]
    /\ UNCHANGED <<held, queue, overflow, driver, gesture, pc, polled>>

----------------------------------------------------------------------------
(* touch_sens_init, called at boot and by the main loop's retries          *)

\* One of the calls fails: cleanup_touch.
InitFails ==
    /\ driver = "absent"
    /\ held' = {} /\ queue' = <<>> /\ overflow' = FALSE
    /\ gesture' = touch_gesture_init
    /\ UNCHANGED <<driver, now, pc, polled, lag, edges, since>>

\* The queue exists, the callbacks are registered and the sensor scans.
InitStarts ==
    /\ driver = "absent"
    /\ driver' = "starting" /\ queue' = <<>>
    /\ UNCHANGED <<held, overflow, gesture, now, pc, polled, lag, edges, since>>

\* The rest of touch_sens_init, after the sensor has started.
InitEnds ==
    /\ driver = "starting"
    /\ driver' = "ready"
    /\ gesture' = touch_gesture_init
    /\ overflow' = FALSE
    /\ UNCHANGED <<held, queue, now, pc, polled, lag, edges, since>>

----------------------------------------------------------------------------
(* touch_sens_get_key_num, called by the main loop                         *)

\* now_ms is read and the overflow flag is taken.
PollStarts ==
    /\ driver = "ready" /\ pc = "loop"
    /\ polled' = now /\ lag' = 0
    /\ overflow' = FALSE
    /\ pc' = IF overflow THEN "discard" ELSE "drain"
    /\ UNCHANGED <<held, queue, driver, gesture, now, edges, since>>

DiscardEdge ==
    /\ pc = "discard" /\ queue # <<>>
    /\ queue' = Tail(queue)
    /\ UNCHANGED <<held, overflow, driver, gesture, now, pc, polled, lag, edges, since>>

\* The queue is empty; the gesture is discarded and no key is returned.
DiscardEnds ==
    /\ pc = "discard" /\ queue = <<>>
    /\ gesture' = touch_gesture_discard_until_quiet(gesture, polled)
    /\ pc' = "loop"
    /\ UNCHANGED <<held, queue, overflow, driver, now, polled, lag, edges, since>>

TakeEdge ==
    /\ pc = "drain" /\ queue # <<>>
    /\ queue' = Tail(queue)
    /\ gesture' = touch_gesture_edge(gesture, Head(queue), polled)
    /\ UNCHANGED <<held, overflow, driver, now, pc, polled, lag, edges, since>>

\* The queue is empty: touch_gesture_poll.
Poll ==
    /\ pc = "drain" /\ queue = <<>>
    /\ gesture' = PollGesture(gesture, polled)
    /\ pc' = "loop"
    /\ UNCHANGED <<held, queue, overflow, driver, now, polled, lag, edges>>

PollWithoutKey ==
    /\ Poll /\ PollKey(gesture, polled) = NoKey
    /\ UNCHANGED since

\* A key is returned; the history starts anew with it.
PollWithKey ==
    LET key == PollKey(gesture, polled)
    IN  /\ Poll /\ key # NoKey
        /\ since' = [since EXCEPT !.touched = @ \ {key}, !.released = (held = {}),
                                    !.age = lag]

MainStep ==
    \/ InitEnds \/ PollStarts \/ DiscardEdge \/ DiscardEnds \/ TakeEdge
    \/ PollWithoutKey \/ PollWithKey

Next ==
    \/ \E key \in Keys : OnActive(key) \/ OnInactive(key)
    \/ Tick
    \/ InitFails \/ InitStarts
    \/ MainStep

\* The main loop and the clock never stop for good.  A touch, and the success of
\* the sensor's start, are nobody's duty.
Spec == Init /\ [][Next]_vars /\ WF_vars(MainStep) /\ WF_vars(Tick)

----------------------------------------------------------------------------
(* Properties                                                              *)

\* Every variable keeps its type, and the queue its length.
TypeOK ==
    /\ held \subseteq Keys
    /\ queue \in Seq(Edge) /\ Len(queue) <= QueueLength
    /\ overflow \in BOOLEAN
    /\ driver \in {"absent", "starting", "ready"}
    /\ gesture \in GestureT
    /\ now \in Ticks /\ polled \in Ticks
    /\ pc \in {"loop", "drain", "discard"}
    /\ lag \in 0 .. MaxLag /\ edges \in 0 .. MaxEdges
    /\ since \in HistoryT

\* The pads that the recognizer will believe to be touched once the queue is empty.
Believed ==
    LET \* the last edge of a pad in the queue decides
        Last(key) == {i \in 1 .. Len(queue) : queue[i].key = key
                         /\ \A j \in i + 1 .. Len(queue) : queue[j].key # key}
    IN  {key \in Keys : \/ \E i \in Last(key) : queue[i].active
                        \/ Last(key) = {} /\ key \in gesture.active_mask}

\* "queue overflow recovery cannot synthesize a press"
\* (components/touch_gesture/test/test_touch_gesture.c:37): unless a recovery is
\* still due, every pad that the recognizer takes for touched is touched.
NoPhantomPad ==
    driver = "ready" /\ ~overflow /\ pc # "discard" => Believed \subseteq held

Accepts(key) == Poll /\ PollKey(gesture, polled) = key

\* A touch gives at most one key: a second key needs another touch of its pad
\* and, unless edges were lost meanwhile, the release of all pads.
OneKeyPerTouch ==
    [][\A key \in Keys : Accepts(key) =>
           key \in since.touched /\ (since.released \/ since.dropped)]_vars

\* Two keys are polled at least the times of a stable release and a stable touch apart,
\* whatever is lost in between: the debounce of controller_handle_key, which is shorter,
\* never drops a key.
KeysApart ==
    [][\A key \in Keys : Accepts(key) => since.age - lag >= KeySpacing]_vars

\* Once all pads stay released, the panel accepts touches again: neither a lost
\* edge nor an ambiguous gesture locks it.
RearmsAfterRelease ==
    <>[](driver = "ready" /\ held = {}) => []<>gesture.armed
=============================================================================
