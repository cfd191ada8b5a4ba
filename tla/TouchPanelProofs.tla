--------------------------- MODULE TouchPanelProofs ---------------------------
(***************************************************************************)
(* Proofs about TouchPanel, for every set of pads, every length of the     *)
(* queue, all intervals and every width of the clock: lost edges never     *)
(* invent a touch, a touch gives one key, and keys are apart.              *)
(***************************************************************************)
EXTENDS TouchPanel, SequenceTheorems, WellFoundedInduction, TLAPS

\* The i-th of the first n edges of q is the last one of its pad.
LastTo(q, n, key, i) ==
    /\ i \in 1 .. n /\ q[i].key = key
    /\ \A j \in i + 1 .. n : q[j].key # key

\* The pads of a mask after n edges of q.
MaskAfter(q, mask, n) ==
    {key \in Keys :
        \/ \E i \in 1 .. n : LastTo(q, n, key, i) /\ q[i].active
        \/ (\A i \in 1 .. n : q[i].key # key) /\ key \in mask}

\* What the recognizer will believe after n edges of the queue.
BelievedTo(n) == MaskAfter(queue, gesture.active_mask, n)

\* Until touch_sens_init has ended nothing was lost, recognized or accepted.
StartInv ==
    /\ driver = "absent" => held = {} /\ queue = <<>>
    /\ driver # "ready" =>
          /\ ~overflow /\ pc = "loop" /\ lag = 0
          /\ gesture.active_mask = {} /\ gesture.candidate_key = NoKey
          /\ since.released /\ ~since.dropped /\ since.age = KeySpacing + MaxLag

\* Unless a recovery is due the recognizer's belief lies within the truth, and it is the
\* truth unless an edge was lost since nothing was touched.
BeliefInv ==
    /\ ~overflow /\ pc # "discard" => BelievedTo(Len(queue)) \subseteq held
    /\ ~since.dropped =>
          ~overflow /\ pc # "discard" /\ held \subseteq BelievedTo(Len(queue))

\* A candidate, and every touch in the queue, is newer than the last key; only an armed
\* gesture has a candidate.
TouchedInv ==
    /\ gesture.armed \/ gesture.candidate_key = NoKey
    /\ gesture.candidate_key # NoKey => gesture.candidate_key \in since.touched
    /\ \A i \in 1 .. Len(queue) : queue[i].active => queue[i].key \in since.touched

\* A gesture that is armed or waits for a stable release has seen all pads released
\* since the last key, and so has one that will believe so after some edge.
ReleasedInv ==
    LET released == since.released \/ since.dropped
    IN  /\ gesture.armed \/ gesture.release_pending => released
        /\ \A n \in 1 .. Len(queue) : BelievedTo(n) = {} => released

\* During a poll, and after a poll that accepted a key, the last poll started lag ticks
\* ago, also across the wrap.
ClockInv ==
    pc # "loop" \/ since.age # KeySpacing + MaxLag =>
        now = IF polled + lag < TickMod THEN polled + lag ELSE polled + lag - TickMod

\* The wrapped time from the gesture's time stamp to the last poll.
Waited == (polled - gesture.started) % TickMod

\* The time from the last key to the last poll covers the times that the recognizer has
\* measured since, unless it is as long as is counted.
SpacingInv ==
    LET apart == since.age - lag
        capped == since.age = KeySpacing + MaxLag
    IN  \/ capped
        \/ /\ apart >= 0
           /\ gesture.armed => apart >= RELEASE_STABLE
           /\ gesture.armed /\ gesture.candidate_key # NoKey =>
                 apart >= RELEASE_STABLE + Waited
           /\ ~gesture.armed /\ gesture.release_pending => apart >= Waited

\* The inductive invariant.
PanelInv == StartInv /\ BeliefInv /\ TouchedInv /\ ReleasedInv /\ ClockInv /\ SpacingInv

----------------------------------------------------------------------------
(* Arithmetic.                                                             *)

\* The constants are numbers.
LEMMA ConstantFacts ==
    /\ QueueLength \in Nat \ {0} /\ MaxEdges \in Nat \ {0} /\ MaxLag \in Nat \ {0}
    /\ ACTIVE_STABLE \in Nat \ {0} /\ RELEASE_STABLE \in Nat \ {0}
    /\ KeySpacing \in Nat
    /\ TickMod \in Nat \ {0} /\ TickMod > MaxLag
    /\ Keys \subseteq 1 .. 6 /\ NoKey \notin Keys /\ 0 \in Ticks
BY TouchAssumption DEF KeySpacing, NoKey, Ticks

\* The wrapped difference and the wrapped successor, by cases.
LEMMA WrapFacts ==
    /\ \A x, y \in Ticks : (x - y) % TickMod = IF x >= y THEN x - y ELSE x - y + TickMod
    /\ \A x \in Ticks : (x + 1) % TickMod = IF x = TickMod - 1 THEN 0 ELSE x + 1
<1>1. \A x, y \in 0 .. TickMod - 1 :
            (x - y) % TickMod = IF x >= y THEN x - y ELSE x - y + TickMod
    BY ConstantFacts
<1>2. \A x \in 0 .. TickMod - 1 : (x + 1) % TickMod = IF x = TickMod - 1 THEN 0 ELSE x + 1
    BY ConstantFacts
<1> QED BY <1>1, <1>2 DEF Ticks

\* A nonempty set of numbers has a least element.
LEMMA HasMin ==
    ASSUME NEW T, T \subseteq Nat, T # {}
    PROVE  \E x \in T : \A y \in T : x <= y
<1> DEFINE R == {p \in Nat \X Nat : p[1] < p[2]}
<1>1. R = OpToRel(<, Nat)
    BY DEF OpToRel
<1>2. IsWellFoundedOn(R, Nat)
    BY <1>1, NatLessThanWellFounded
<1>3. \A x, y \in Nat : <<y, x>> \in R <=> y < x
    OBVIOUS
<1> HIDE DEF R
<1>4. \E x \in T : \A y \in T : ~ (<<y, x>> \in R)
    BY <1>2, WFMin
<1>5. PICK x \in T : \A y \in T : ~ (<<y, x>> \in R)
    BY <1>4
<1>6. ASSUME NEW y \in T PROVE x <= y
    <2>1. x \in Nat /\ y \in Nat
        OBVIOUS
    <2>2. ~ (y < x)
        BY <1>3, <1>5, <2>1, Zenon
    <2> QED BY <2>1, <2>2
<1> QED BY <1>6

\* What is left of a queue when its first element is taken.
LEMMA TailFacts ==
    ASSUME NEW S, NEW q \in Seq(S), q # <<>>
    PROVE  /\ Len(q) \in Nat \ {0} /\ Head(q) = q[1] /\ q[1] \in S
           /\ Tail(q) \in Seq(S) /\ Len(Tail(q)) = Len(q) - 1
           /\ \A i \in 1 .. Len(q) - 1 : Tail(q)[i] = q[i + 1]
<1>1. Len(q) \in Nat \ {0}
    BY EmptySeq
<1>2. Head(q) = q[1] /\ q[1] \in S
    BY <1>1
<1>3. Tail(q) \in Seq(S) /\ Len(Tail(q)) = Len(q) - 1
    BY <1>1
<1>4. \A i \in 1 .. Len(q) - 1 : Tail(q)[i] = q[i + 1]
    BY <1>1
<1> QED BY <1>1, <1>2, <1>3, <1>4

\* What is in a queue when an element has been appended.
LEMMA AppendFacts ==
    ASSUME NEW S, NEW q \in Seq(S), NEW e \in S
    PROVE  /\ Len(q) \in Nat
           /\ Append(q, e) \in Seq(S) /\ Len(Append(q, e)) = Len(q) + 1
           /\ Append(q, e)[Len(q) + 1] = e
           /\ \A i \in 1 .. Len(q) : Append(q, e)[i] = q[i]
OBVIOUS

----------------------------------------------------------------------------
(* The recognizer's operators.                                             *)

\* A gesture stays a gesture.
LEMMA GestureTypes ==
    /\ ZeroGesture \in GestureT /\ touch_gesture_init \in GestureT
    /\ \A g \in GestureT, t \in Ticks :
          /\ touch_gesture_discard_until_quiet(g, t) \in GestureT
          /\ PollGesture(g, t) \in GestureT
          /\ \A e \in Edge : touch_gesture_edge(g, e, t) \in GestureT
<1>1. ZeroGesture \in GestureT /\ touch_gesture_init \in GestureT
    BY ConstantFacts DEF ZeroGesture, touch_gesture_init, GestureT
<1>2. ASSUME NEW g \in GestureT, NEW t \in Ticks
      PROVE  /\ touch_gesture_discard_until_quiet(g, t) \in GestureT
             /\ PollGesture(g, t) \in GestureT
             /\ \A e \in Edge : touch_gesture_edge(g, e, t) \in GestureT
    <2>1. touch_gesture_discard_until_quiet(g, t) \in GestureT
        BY ConstantFacts DEF touch_gesture_discard_until_quiet, ZeroGesture, GestureT
    <2>2. PollGesture(g, t) \in GestureT
        BY DEF PollGesture, GestureT
    <2>3. ASSUME NEW e \in Edge PROVE touch_gesture_edge(g, e, t) \in GestureT
        <3>1. EdgeActive(g, e.key, t) \in GestureT
            BY DEF EdgeActive, GestureT, Edge
        <3>2. EdgeInactive(g, e.key, t) \in GestureT
            BY DEF EdgeInactive, GestureT, Edge
        <3> QED BY <3>1, <3>2 DEF touch_gesture_edge
    <2> QED BY <2>1, <2>2, <2>3
<1> QED BY <1>1, <1>2

----------------------------------------------------------------------------
(* Types.                                                                  *)

\* What a callback does to the queue and the pads.
LEMMA ReportFacts ==
    ASSUME TypeOK, NEW key \in Keys, NEW active \in BOOLEAN, Report(key, active)
    PROVE  /\ active <=> key \notin held
           /\ held' = IF active THEN held \cup {key} ELSE held \ {key}
           /\ \/ /\ HasRoom /\ queue' = Append(queue, [key |-> key, active |-> active])
                 /\ UNCHANGED overflow
              \/ ~HasRoom /\ overflow' = TRUE /\ UNCHANGED queue /\ driver = "ready"
           /\ UNCHANGED <<driver, gesture, now, pc, polled, lag>>
BY DEF Report, QueueEdge, HasRoom, TypeOK

\* What a callback does to the history.
LEMMA ReportHistory ==
    ASSUME TypeOK, NEW key \in Keys, NEW active \in BOOLEAN, Report(key, active)
    PROVE  /\ since'.touched = IF active THEN since.touched \cup {key} ELSE since.touched
           /\ since'.released <=> since.released \/ held' = {}
           /\ since'.dropped <=>
                 \/ ~HasRoom
                 \/ since.dropped /\ (held' # {} \/ overflow \/ pc = "discard")
           /\ since'.age = since.age
<1> DEFINE touched == IF active THEN since.touched \cup {key} ELSE since.touched
           released == since.released \/ held' = {}
           dropped == ~HasRoom \/ (since.dropped /\ (held' # {} \/ overflow \/ pc = "discard"))
<1>1. since' = [since EXCEPT !.touched = touched, !.released = released, !.dropped = dropped]
    BY DEF Report
<1>2. since \in HistoryT
    BY DEF TypeOK
<1> HIDE DEF touched, released, dropped
<1>3. /\ since'.touched = touched /\ since'.released = released /\ since'.dropped = dropped
      /\ since'.age = since.age
    BY <1>1, <1>2 DEF HistoryT
<1> QED BY <1>3 DEF touched, released, dropped

\* A callback keeps the types.
LEMMA ReportType ==
    ASSUME TypeOK, NEW key \in Keys, NEW active \in BOOLEAN, Report(key, active)
    PROVE  TypeOK'
<1> USE DEF TypeOK
<1>1. held' \subseteq Keys
    BY ReportFacts
<1>2. queue' \in Seq(Edge) /\ Len(queue') <= QueueLength
    <2>1. [key |-> key, active |-> active] \in Edge
        BY DEF Edge
    <2>2. \/ queue' = queue
          \/ Len(queue) < QueueLength /\ queue' = Append(queue, [key |-> key, active |-> active])
        BY ReportFacts DEF HasRoom
    <2>3. CASE queue' = queue
        BY <2>3
    <2>4. CASE Len(queue) < QueueLength /\ queue' = Append(queue, [key |-> key, active |-> active])
        BY <2>1, <2>4, AppendFacts, ConstantFacts
    <2> QED BY <2>2, <2>3, <2>4
<1>3. overflow' \in BOOLEAN
    <2>1. overflow' = TRUE \/ overflow' = overflow
        BY ReportFacts
    <2> QED BY <2>1, Zenon
<1>4. edges' \in 0 .. MaxEdges
    BY ConstantFacts DEF Report
<1>5. since' \in HistoryT
    <2>1. since \in HistoryT
        OBVIOUS
    <2>2. (since.released \/ held' = {}) \in BOOLEAN
        OBVIOUS
    <2>3. (IF active THEN since.touched \cup {key} ELSE since.touched) \in SUBSET Keys
        BY <2>1 DEF HistoryT
    <2>4. (~HasRoom \/ (since.dropped /\ (held' # {} \/ overflow \/ pc = "discard"))) \in BOOLEAN
        OBVIOUS
    <2> QED BY <2>1, <2>2, <2>3, <2>4 DEF HistoryT, Report
<1>6. /\ driver' \in {"absent", "starting", "ready"} /\ gesture' \in GestureT
      /\ now' \in Ticks /\ polled' \in Ticks /\ pc' \in {"loop", "drain", "discard"}
      /\ lag' \in 0 .. MaxLag
    BY ReportFacts
<1> QED BY <1>1, <1>2, <1>3, <1>4, <1>5, <1>6

\* Initially every variable has its type.
LEMMA TypeInit == Init => TypeOK
<1> SUFFICES ASSUME Init PROVE TypeOK
    OBVIOUS
<1>1. since \in HistoryT
    BY ConstantFacts DEF Init, HistoryT
<1>2. overflow \in BOOLEAN
    BY Zenon DEF Init
<1>3. gesture \in GestureT
    BY GestureTypes DEF Init
<1> QED BY <1>1, <1>2, <1>3, ConstantFacts DEF Init, TypeOK

\* Every step keeps the types.
LEMMA TypeStep == TypeOK /\ [Next]_vars => TypeOK'
<1> SUFFICES ASSUME TypeOK, [Next]_vars PROVE TypeOK'
    OBVIOUS
<1>s. /\ held \subseteq Keys /\ queue \in Seq(Edge) /\ Len(queue) <= QueueLength
      /\ overflow \in BOOLEAN /\ driver \in {"absent", "starting", "ready"}
      /\ gesture \in GestureT /\ now \in Ticks /\ polled \in Ticks
      /\ pc \in {"loop", "drain", "discard"}
      /\ lag \in 0 .. MaxLag /\ edges \in 0 .. MaxEdges /\ since \in HistoryT
    BY DEF TypeOK
<1>f. FALSE \in BOOLEAN
    OBVIOUS
<1>1. ASSUME NEW key \in Keys, OnActive(key) \/ OnInactive(key) PROVE TypeOK'
    BY <1>1, ReportType DEF OnActive, OnInactive
<1>2. CASE Tick
    <2>1. now' \in Ticks
        <3>1. now' = IF now = TickMod - 1 THEN 0 ELSE now + 1
            BY <1>2, <1>s, WrapFacts DEF Tick
        <3> QED BY <3>1, <1>s, ConstantFacts DEF Ticks
    <2>2. since' \in HistoryT
        <3>1. since' = [since EXCEPT !.age = since'.age]
            BY <1>2, <1>s DEF Tick, HistoryT
        <3>2. since'.age \in 0 .. KeySpacing + MaxLag
            BY <1>2, <1>s, ConstantFacts DEF Tick, HistoryT
        <3> QED BY <1>s, <3>1, <3>2 DEF HistoryT
    <2>3. lag' \in 0 .. MaxLag /\ edges' \in 0 .. MaxEdges
        BY <1>2, <1>s, ConstantFacts DEF Tick
    <2> QED BY <1>2, <1>s, <2>1, <2>2, <2>3 DEF Tick, TypeOK
<1>3. CASE InitFails
    <2>1. overflow' \in BOOLEAN
        BY <1>3, <1>f, Zenon DEF InitFails
    <2> QED BY <1>3, <1>s, <2>1, GestureTypes, ConstantFacts DEF InitFails, TypeOK
<1>4. CASE InitStarts
    BY <1>4, <1>s, ConstantFacts DEF InitStarts, TypeOK
<1>5. CASE InitEnds
    <2>1. overflow' \in BOOLEAN
        BY <1>5, <1>f, Zenon DEF InitEnds
    <2> QED BY <1>5, <1>s, <2>1, GestureTypes DEF InitEnds, TypeOK
<1>6. CASE PollStarts
    <2>1. overflow' \in BOOLEAN
        BY <1>6, <1>f, Zenon DEF PollStarts
    <2> QED BY <1>6, <1>s, <2>1, ConstantFacts DEF PollStarts, TypeOK
<1>7. CASE DiscardEdge
    <2>1. Tail(queue) \in Seq(Edge) /\ Len(Tail(queue)) <= QueueLength
        BY <1>7, <1>s, TailFacts, ConstantFacts DEF DiscardEdge
    <2> QED BY <1>7, <1>s, <2>1 DEF DiscardEdge, TypeOK
<1>8. CASE DiscardEnds
    BY <1>8, <1>s, GestureTypes DEF DiscardEnds, TypeOK
<1>9. CASE TakeEdge
    <2>1. Head(queue) \in Edge /\ Tail(queue) \in Seq(Edge) /\ Len(Tail(queue)) <= QueueLength
        BY <1>9, <1>s, TailFacts, ConstantFacts DEF TakeEdge
    <2>2. gesture' \in GestureT
        BY <1>9, <1>s, <2>1, GestureTypes DEF TakeEdge
    <2> QED BY <1>9, <1>s, <2>1, <2>2 DEF TakeEdge, TypeOK
<1>10. CASE PollWithoutKey
    BY <1>10, <1>s, GestureTypes DEF PollWithoutKey, Poll, TypeOK
<1>11. CASE PollWithKey
    <2>1. since' \in HistoryT
        <3>1. lag \in 0 .. KeySpacing + MaxLag /\ (held = {}) \in BOOLEAN
            BY <1>s, ConstantFacts
        <3> DEFINE key == PollKey(gesture, polled)
        <3>2. since' = [since EXCEPT !.touched = @ \ {key}, !.released = (held = {}), !.age = lag]
            BY <1>11 DEF PollWithKey
        <3> HIDE DEF key
        <3> QED BY <1>s, <3>1, <3>2 DEF HistoryT
    <2> QED BY <1>11, <1>s, <2>1, GestureTypes DEF PollWithKey, Poll, TypeOK
<1>12. CASE UNCHANGED vars
    BY <1>12, <1>s DEF vars, TypeOK
<1> QED BY <1>1, <1>2, <1>3, <1>4, <1>5, <1>6, <1>7, <1>8, <1>9, <1>10, <1>11, <1>12
        DEF Next, MainStep

----------------------------------------------------------------------------
(* The recognizer's belief.                                                *)

\* The mask after one edge.
MaskStep(mask, e) == IF e.active THEN mask \cup {e.key} ELSE mask \ {e.key}

\* What an edge does: the mask follows it; a gesture is not armed by it; a candidate is
\* the pad of the edge, or was there before with its time stamp; a wait for a stable
\* release begins only with no pad left.
LEMMA TakeFacts ==
    ASSUME TypeOK, TakeEdge
    PROVE  LET e == queue[1]
           IN  /\ e \in Edge /\ gesture' \in GestureT
               /\ gesture'.active_mask = MaskStep(gesture.active_mask, e)
               /\ gesture'.armed => gesture.armed
               /\ gesture'.candidate_key # NoKey =>
                     \/ /\ gesture'.candidate_key = gesture.candidate_key
                        /\ gesture'.armed => gesture'.started = gesture.started
                     \/ e.active /\ gesture'.candidate_key = e.key /\ gesture'.started = polled
               /\ gesture'.release_pending =>
                     \/ gesture.release_pending /\ gesture'.started = gesture.started
                     \/ ~e.active /\ gesture'.active_mask = {} /\ gesture'.started = polled
               /\ gesture'.release_pending /\ ~gesture'.armed => ~gesture.armed
               /\ gesture.armed \/ gesture.candidate_key = NoKey =>
                     gesture'.armed \/ gesture'.candidate_key = NoKey
<1> DEFINE e == queue[1]
<1>1. gesture \in GestureT /\ polled \in Ticks /\ e \in Edge /\ Head(queue) = e
    BY TailFacts DEF TypeOK, TakeEdge
<1>2. gesture' = touch_gesture_edge(gesture, e, polled)
    BY <1>1 DEF TakeEdge
<1>3. gesture' \in GestureT
    BY <1>1, <1>2, GestureTypes
<1> HIDE DEF e
<1>4. e.key \in Keys /\ e.active \in BOOLEAN /\ NoKey \notin Keys
    BY <1>1, ConstantFacts DEF Edge
<1>5. CASE e.active
    <2>1. gesture' = EdgeActive(gesture, e.key, polled)
        BY <1>2, <1>5 DEF touch_gesture_edge
    <2>2. /\ gesture'.active_mask = gesture.active_mask \cup {e.key}
          /\ gesture'.armed => gesture.armed
          /\ gesture'.candidate_key # NoKey =>
                \/ /\ gesture'.candidate_key = gesture.candidate_key
                   /\ gesture'.armed => gesture'.started = gesture.started
                \/ gesture'.candidate_key = e.key /\ gesture'.started = polled
          /\ gesture'.release_pending => gesture.release_pending /\ gesture'.started = gesture.started
          /\ gesture'.release_pending /\ ~gesture'.armed => ~gesture.armed
          /\ gesture.armed \/ gesture.candidate_key = NoKey =>
                gesture'.armed \/ gesture'.candidate_key = NoKey
        BY <1>1, <1>4, <2>1 DEF EdgeActive, GestureT
    <2> QED BY <1>1, <1>3, <1>5, <2>2 DEF MaskStep, e
<1>6. CASE ~e.active
    <2>1. gesture' = EdgeInactive(gesture, e.key, polled)
        BY <1>2, <1>6 DEF touch_gesture_edge
    <2>2. /\ gesture'.active_mask = gesture.active_mask \ {e.key}
          /\ gesture'.armed <=> gesture.armed
          /\ gesture'.candidate_key # NoKey => gesture'.candidate_key = gesture.candidate_key
          /\ gesture'.armed => gesture'.started = gesture.started
          /\ gesture'.release_pending =>
                \/ gesture.release_pending /\ gesture'.started = gesture.started
                \/ gesture'.active_mask = {} /\ gesture'.started = polled
        BY <1>1, <1>4, <2>1 DEF EdgeInactive, GestureT
    <2> QED BY <1>1, <1>3, <1>6, <2>2 DEF MaskStep, e
<1> QED BY <1>5, <1>6

\* With no edges the mask is what it was.
LEMMA MaskAfterNone == \A q : \A mask \in SUBSET Keys : MaskAfter(q, mask, 0) = mask
BY DEF MaskAfter

\* An edge that is appended counts after all others.
LEMMA MaskAfterAppend ==
    ASSUME NEW q \in Seq(Edge), NEW e \in Edge, NEW mask \in SUBSET Keys
    PROVE  /\ \A n \in 0 .. Len(q) : MaskAfter(Append(q, e), mask, n) = MaskAfter(q, mask, n)
           /\ MaskAfter(Append(q, e), mask, Len(q) + 1)
                = MaskStep(MaskAfter(q, mask, Len(q)), e)
<1> DEFINE r == Append(q, e)
           N == Len(q)
<1>1. N \in Nat /\ r[N + 1] = e /\ \A i \in 1 .. N : r[i] = q[i]
    BY AppendFacts
<1> HIDE DEF r, N
<1>2. ASSUME NEW n \in 0 .. N, NEW key \in Keys
      PROVE  key \in MaskAfter(r, mask, n) <=> key \in MaskAfter(q, mask, n)
    BY <1>1 DEF MaskAfter, LastTo
<1>3. ASSUME NEW key \in Keys, key # e.key
      PROVE  key \in MaskAfter(r, mask, N + 1) <=> key \in MaskAfter(q, mask, N)
    <2>1. \A i \in 1 .. N : LastTo(r, N + 1, key, i) <=> LastTo(q, N, key, i)
        BY <1>1, <1>3 DEF LastTo
    <2>2. ~LastTo(r, N + 1, key, N + 1)
        BY <1>1, <1>3 DEF LastTo
    <2>3. (\A i \in 1 .. N + 1 : r[i].key # key) <=> (\A i \in 1 .. N : q[i].key # key)
        BY <1>1, <1>3
    <2>4. (\E i \in 1 .. N + 1 : LastTo(r, N + 1, key, i) /\ r[i].active)
            <=> (\E i \in 1 .. N : LastTo(q, N, key, i) /\ q[i].active)
        BY <1>1, <2>1, <2>2
    <2> QED BY <2>3, <2>4 DEF MaskAfter
<1>4. e.key \in MaskAfter(r, mask, N + 1) <=> e.active
    <2>1. LastTo(r, N + 1, e.key, N + 1)
        BY <1>1 DEF LastTo
    <2>2. \A i \in 1 .. N + 1 : LastTo(r, N + 1, e.key, i) => i = N + 1
        BY <1>1 DEF LastTo
    <2>3. N + 1 \in 1 .. N + 1 /\ r[N + 1].key = e.key
        BY <1>1
    <2> QED BY <1>1, <2>1, <2>2, <2>3 DEF MaskAfter, Edge
<1>5. \A n : MaskAfter(r, mask, n) \subseteq Keys /\ MaskAfter(q, mask, n) \subseteq Keys
    BY DEF MaskAfter
<1>6. e.key \in Keys
    BY DEF Edge
<1>7. MaskAfter(r, mask, N + 1) = MaskStep(MaskAfter(q, mask, N), e)
    <2> SUFFICES ASSUME NEW key \in Keys
                 PROVE  key \in MaskAfter(r, mask, N + 1)
                            <=> key \in MaskStep(MaskAfter(q, mask, N), e)
        BY <1>5, <1>6 DEF MaskStep
    <2>1. CASE key = e.key
        BY <1>4, <2>1 DEF MaskStep
    <2>2. CASE key # e.key
        BY <1>3, <2>2 DEF MaskStep
    <2> QED BY <2>1, <2>2
<1> QED BY <1>2, <1>5, <1>7 DEF r, N

\* Taking the first edge and applying it to the mask leaves the same belief.
LEMMA MaskAfterTail ==
    ASSUME NEW q \in Seq(Edge), q # <<>>, NEW mask \in SUBSET Keys
    PROVE  \A n \in 0 .. Len(q) - 1 :
               MaskAfter(Tail(q), MaskStep(mask, q[1]), n) = MaskAfter(q, mask, n + 1)
<1> DEFINE r == Tail(q)
           new == MaskStep(mask, q[1])
           N == Len(q)
<1>1. N \in Nat \ {0} /\ q[1] \in Edge /\ \A i \in 1 .. N - 1 : r[i] = q[i + 1]
    BY TailFacts
<1>2. q[1].key \in Keys /\ new \subseteq Keys
    BY <1>1 DEF Edge, MaskStep
<1> HIDE DEF r, N
<1>3. ASSUME NEW n \in 0 .. N - 1, NEW key \in Keys
      PROVE  key \in MaskAfter(r, new, n) <=> key \in MaskAfter(q, mask, n + 1)
    <2>0. n \in Nat /\ \A i \in 1 .. n : r[i] = q[i + 1] /\ i \in Nat
        BY <1>1
    <2>1. \A i \in 1 .. n : LastTo(r, n, key, i) <=> LastTo(q, n + 1, key, i + 1)
        <3> SUFFICES ASSUME NEW i \in 1 .. n
                     PROVE  LastTo(r, n, key, i) <=> LastTo(q, n + 1, key, i + 1)
            OBVIOUS
        <3>1. (\A j \in i + 1 .. n : r[j].key # key)
                <=> (\A j \in i + 2 .. n + 1 : q[j].key # key)
            <4>1. ASSUME \A j \in i + 1 .. n : r[j].key # key, NEW j \in i + 2 .. n + 1
                  PROVE  q[j].key # key
                <5>1. j - 1 \in i + 1 .. n /\ j - 1 \in 1 .. n /\ (j - 1) + 1 = j
                    BY <2>0
                <5> QED BY <4>1, <5>1, <2>0
            <4>2. ASSUME \A j \in i + 2 .. n + 1 : q[j].key # key, NEW j \in i + 1 .. n
                  PROVE  r[j].key # key
                BY <4>2, <2>0
            <4> QED BY <4>1, <4>2
        <3> QED BY <3>1, <2>0 DEF LastTo
    <2>2. (\E i \in 1 .. n + 1 : LastTo(q, n + 1, key, i) /\ q[i].active)
            <=> \/ \E i \in 1 .. n : LastTo(r, n, key, i) /\ r[i].active
                \/ LastTo(q, n + 1, key, 1) /\ q[1].active
        <3>1. ASSUME NEW i \in 1 .. n + 1, i # 1 PROVE i - 1 \in 1 .. n /\ (i - 1) + 1 = i
            BY <2>0, <3>1
        <3>2. \A i \in 1 .. n : i + 1 \in 1 .. n + 1
            BY <2>0
        <3>3. 1 \in 1 .. n + 1
            BY <2>0
        <3> QED BY <2>0, <2>1, <3>1, <3>2, <3>3
    <2>3. LastTo(q, n + 1, key, 1) <=> q[1].key = key /\ \A i \in 1 .. n : r[i].key # key
        <3>1. (\A i \in 1 .. n : r[i].key # key) <=> (\A j \in 2 .. n + 1 : q[j].key # key)
            <4>1. ASSUME NEW j \in 2 .. n + 1 PROVE j - 1 \in 1 .. n /\ (j - 1) + 1 = j
                BY <2>0
            <4>2. \A i \in 1 .. n : i + 1 \in 2 .. n + 1
                BY <2>0
            <4>3. ASSUME \A i \in 1 .. n : r[i].key # key, NEW j \in 2 .. n + 1
                  PROVE  q[j].key # key
                BY <2>0, <4>1, <4>3
            <4>4. ASSUME \A j \in 2 .. n + 1 : q[j].key # key, NEW i \in 1 .. n
                  PROVE  r[i].key # key
                BY <2>0, <4>2, <4>4
            <4> QED BY <4>3, <4>4
        <3> QED BY <3>1, <2>0 DEF LastTo
    <2>4. (\A i \in 1 .. n + 1 : q[i].key # key)
            <=> q[1].key # key /\ \A i \in 1 .. n : r[i].key # key
        <3>1. ASSUME NEW i \in 1 .. n + 1, i # 1 PROVE i - 1 \in 1 .. n /\ (i - 1) + 1 = i
            BY <2>0, <3>1
        <3>2. \A i \in 1 .. n : i + 1 \in 1 .. n + 1
            BY <2>0
        <3>3. 1 \in 1 .. n + 1
            BY <2>0
        <3>4. ASSUME \A i \in 1 .. n + 1 : q[i].key # key
              PROVE  q[1].key # key /\ \A i \in 1 .. n : r[i].key # key
            BY <2>0, <3>2, <3>3, <3>4
        <3>5. ASSUME q[1].key # key, \A i \in 1 .. n : r[i].key # key, NEW i \in 1 .. n + 1
              PROVE  q[i].key # key
            <4>1. CASE i # 1
                <5>1. i - 1 \in 1 .. n /\ q[(i - 1) + 1] = q[i]
                    BY <4>1, <3>1
                <5>2. r[i - 1] = q[i]
                    BY <5>1, <2>0
                <5> QED BY <3>5, <5>1, <5>2
            <4> QED BY <3>5, <4>1
        <3> QED BY <3>4, <3>5
    <2>5. key \in new <=> IF q[1].key = key THEN q[1].active ELSE key \in mask
        BY <1>1 DEF MaskStep, Edge
    <2> QED BY <2>2, <2>3, <2>4, <2>5 DEF MaskAfter
<1> QED BY <1>3 DEF MaskAfter, r, N

\* Believed of the model is the belief after all edges.
LEMMA BelievedIsLast ==
    ASSUME TypeOK
    PROVE  Believed = BelievedTo(Len(queue))
<1> DEFINE N == Len(queue)
           Last(key) == {i \in 1 .. N : queue[i].key = key
                            /\ \A j \in i + 1 .. N : queue[j].key # key}
<1>1. N \in Nat
    BY DEF TypeOK
<1> HIDE DEF N
<1>2. ASSUME NEW key, Last(key) = {}
      PROVE  \A i \in 1 .. N : queue[i].key # key
    <2> SUFFICES ASSUME NEW i \in 1 .. N, queue[i].key = key PROVE FALSE
        OBVIOUS
    <2> DEFINE T == {N - k : k \in {j \in 1 .. N : queue[j].key = key}}
    <2>1. T \subseteq Nat /\ T # {}
        BY <1>1
    <2>2. PICK m \in T : \A y \in T : m <= y
        <3> HIDE DEF T
        <3> QED BY <2>1, HasMin
    <2>3. PICK k \in 1 .. N : queue[k].key = key /\ m = N - k
        OBVIOUS
    <2>4. \A j \in k + 1 .. N : queue[j].key # key
        <3> SUFFICES ASSUME NEW j \in k + 1 .. N, queue[j].key = key PROVE FALSE
            OBVIOUS
        <3>1. N - j \in T
            BY <1>1, <2>3
        <3> HIDE DEF T
        <3> QED BY <1>1, <2>2, <2>3, <3>1
    <2> QED BY <1>2, <2>3, <2>4
<1>3. ASSUME NEW key \in Keys
      PROVE  (\/ \E i \in Last(key) : queue[i].active
              \/ Last(key) = {} /\ key \in gesture.active_mask)
                <=> key \in MaskAfter(queue, gesture.active_mask, N)
    <2>1. \A i \in 1 .. N : i \in Last(key) <=> LastTo(queue, N, key, i)
        BY DEF LastTo
    <2>2. Last(key) = {} <=> \A i \in 1 .. N : queue[i].key # key
        BY <1>2
    <2>3. \A i : i \in Last(key) => i \in 1 .. N
        OBVIOUS
    <2> HIDE DEF Last
    <2> QED BY <2>1, <2>2, <2>3 DEF MaskAfter
<1> QED BY <1>3 DEF Believed, BelievedTo, MaskAfter, N

----------------------------------------------------------------------------
(* The steps of the invariants.                                            *)

\* What a poll does to the gesture: the mask stays, and it is armed only by a stable
\* release or as before.
LEMMA PollFacts ==
    ASSUME TypeOK
    PROVE  LET h == PollGesture(gesture, polled)
               key == PollKey(gesture, polled)
           IN  /\ h.active_mask = gesture.active_mask
               /\ key # NoKey =>
                     /\ gesture.armed /\ gesture.candidate_key = key /\ key \in Keys
                     /\ Waited >= ACTIVE_STABLE
                     /\ ~h.armed /\ ~h.release_pending /\ h.candidate_key = NoKey
               /\ key = NoKey =>
                     \/ h = gesture
                     \/ /\ ~gesture.armed /\ gesture.release_pending
                        /\ Waited >= RELEASE_STABLE
                        /\ h.armed /\ ~h.release_pending
                        /\ h.candidate_key = gesture.candidate_key
                        /\ h.started = gesture.started
BY DEF TypeOK, GestureT, PollGesture, PollKey, elapsed, Waited

\* Every step keeps what holds until the driver is ready.
LEMMA StartStep == TypeOK /\ StartInv /\ [Next]_vars => StartInv'
<1> SUFFICES ASSUME TypeOK, StartInv, [Next]_vars PROVE StartInv'
    OBVIOUS
<1> USE DEF StartInv
<1>t. gesture \in GestureT /\ since \in HistoryT
    BY DEF TypeOK
<1>1. ASSUME NEW key \in Keys, NEW active \in BOOLEAN, Report(key, active) PROVE StartInv'
    <2>1. driver # "absent" /\ UNCHANGED <<driver, gesture, pc, lag>>
        BY <1>1 DEF Report
    <2>2. CASE driver = "ready"
        BY <2>1, <2>2
    <2>3. CASE driver # "ready"
        <3>1. HasRoom /\ UNCHANGED overflow
            BY <1>1, <2>3, ReportFacts
        <3>2. since'.released /\ ~since'.dropped /\ since'.age = since.age
            BY <1>1, <2>3, <3>1, ReportHistory
        <3> QED BY <2>1, <2>3, <3>1, <3>2
    <2> QED BY <2>2, <2>3
<1>2. CASE Tick
    <2>1. since'.released = since.released /\ since'.dropped = since.dropped
        BY <1>2, <1>t DEF Tick, HistoryT
    <2>2. since.age = KeySpacing + MaxLag => since'.age = since.age
        BY <1>2, <1>t, ConstantFacts DEF Tick, HistoryT
    <2> QED BY <1>2, <2>1, <2>2 DEF Tick
<1>3. CASE InitFails
    BY <1>3 DEF InitFails, touch_gesture_init, ZeroGesture
<1>4. CASE InitStarts
    BY <1>4 DEF InitStarts
<1>5. CASE InitEnds
    BY <1>5 DEF InitEnds
<1>6. CASE PollStarts
    BY <1>6 DEF PollStarts
<1>7. CASE DiscardEdge
    BY <1>7 DEF DiscardEdge
<1>8. CASE DiscardEnds
    BY <1>8 DEF DiscardEnds
<1>9. CASE TakeEdge
    BY <1>9 DEF TakeEdge
<1>10. CASE PollWithoutKey \/ PollWithKey
    BY <1>10 DEF PollWithoutKey, PollWithKey, Poll
<1>11. CASE UNCHANGED vars
    BY <1>11 DEF vars
<1> QED BY <1>1, <1>2, <1>3, <1>4, <1>5, <1>6, <1>7, <1>8, <1>9, <1>10, <1>11
        DEF Next, MainStep, OnActive, OnInactive

\* A callback that finds room adds its edge to the belief.
LEMMA ReportBelieved ==
    ASSUME TypeOK, NEW key \in Keys, NEW active \in BOOLEAN, Report(key, active), HasRoom
    PROVE  /\ Len(queue)' = Len(queue) + 1
           /\ \A n \in 1 .. Len(queue) : BelievedTo(n)' = BelievedTo(n)
           /\ BelievedTo(Len(queue))' = IF active THEN BelievedTo(Len(queue)) \cup {key}
                                        ELSE BelievedTo(Len(queue)) \ {key}
<1> DEFINE e == [key |-> key, active |-> active]
<1>1. queue \in Seq(Edge) /\ gesture.active_mask \in SUBSET Keys /\ e \in Edge
    BY DEF TypeOK, GestureT, Edge
<1>2. queue' = Append(queue, e) /\ gesture' = gesture
    BY ReportFacts
<1>3. e.key = key /\ e.active = active
    OBVIOUS
<1> HIDE DEF e
<1>4. Len(queue) \in Nat /\ Len(queue)' = Len(queue) + 1
    BY <1>1, <1>2, AppendFacts
<1>5. \A n \in 0 .. Len(queue) : MaskAfter(queue', gesture.active_mask, n)
                                    = MaskAfter(queue, gesture.active_mask, n)
    BY <1>1, <1>2, MaskAfterAppend
<1>6. MaskAfter(queue', gesture.active_mask, Len(queue) + 1)
        = MaskStep(MaskAfter(queue, gesture.active_mask, Len(queue)), e)
    BY <1>1, <1>2, MaskAfterAppend
<1>7. \A n : BelievedTo(n)' = MaskAfter(queue', gesture.active_mask, n)
    BY <1>2 DEF BelievedTo, MaskAfter, LastTo
<1>8. \A n \in 1 .. Len(queue) : BelievedTo(n)' = BelievedTo(n)
    BY <1>4, <1>5, <1>7 DEF BelievedTo
<1>9. BelievedTo(Len(queue))' = MaskAfter(queue', gesture.active_mask, Len(queue) + 1)
    BY <1>2, <1>4 DEF BelievedTo
<1> QED BY <1>3, <1>4, <1>6, <1>8, <1>9 DEF BelievedTo, MaskStep

\* Taking an edge does not change the belief.
LEMMA TakeBelieved ==
    ASSUME TypeOK, TakeEdge
    PROVE  /\ Len(queue) \in Nat \ {0} /\ Len(queue)' = Len(queue) - 1
           /\ \A n \in 0 .. Len(queue) - 1 : BelievedTo(n)' = BelievedTo(n + 1)
           /\ gesture'.active_mask = BelievedTo(1)
<1>1. queue \in Seq(Edge) /\ queue # <<>> /\ gesture \in GestureT /\ polled \in Ticks
    BY DEF TypeOK, TakeEdge
<1>2. /\ Len(queue) \in Nat \ {0} /\ Len(queue)' = Len(queue) - 1
      /\ Head(queue) = queue[1] /\ queue[1] \in Edge
    BY <1>1, TailFacts DEF TakeEdge
<1>3. gesture' \in GestureT /\ gesture'.active_mask = MaskStep(gesture.active_mask, queue[1])
    BY TakeFacts
<1>4. gesture.active_mask \in SUBSET Keys /\ gesture'.active_mask \in SUBSET Keys
    BY <1>1, <1>3 DEF GestureT
<1>5. \A n \in 0 .. Len(queue) - 1 :
            MaskAfter(queue', gesture'.active_mask, n) = MaskAfter(queue, gesture.active_mask, n + 1)
    BY <1>1, <1>3, <1>4, MaskAfterTail DEF TakeEdge
<1>6. \A n : BelievedTo(n)' = MaskAfter(queue', gesture'.active_mask, n)
    BY DEF BelievedTo, MaskAfter, LastTo
<1>7. 0 \in 0 .. Len(queue) - 1 /\ 0 + 1 = 1
    BY <1>2
<1>8. MaskAfter(queue', gesture'.active_mask, 0) = gesture'.active_mask
    BY <1>4, MaskAfterNone
<1> QED BY <1>2, <1>5, <1>6, <1>7, <1>8 DEF BelievedTo

\* With an empty queue the recognizer believes its mask.
LEMMA EmptyBelieved ==
    /\ TypeOK /\ queue = <<>> => BelievedTo(Len(queue)) = gesture.active_mask
    /\ TypeOK' /\ queue' = <<>> => BelievedTo(Len(queue))' = gesture'.active_mask
<1>1. TypeOK /\ queue = <<>> => BelievedTo(Len(queue)) = gesture.active_mask
    BY MaskAfterNone, EmptySeq DEF TypeOK, GestureT, BelievedTo
<1>2. TypeOK' /\ queue' = <<>> => BelievedTo(Len(queue))' = gesture'.active_mask
    <2> SUFFICES ASSUME TypeOK', queue' = <<>>
                 PROVE  BelievedTo(Len(queue))' = gesture'.active_mask
        OBVIOUS
    <2>1. gesture'.active_mask \in SUBSET Keys
        BY DEF TypeOK, GestureT
    <2>2. Len(queue') = 0
        BY EmptySeq
    <2>3. BelievedTo(Len(queue))' = MaskAfter(queue', gesture'.active_mask, Len(queue'))
        BY DEF BelievedTo, MaskAfter, LastTo
    <2> QED BY <2>1, <2>2, <2>3, MaskAfterNone
<1> QED BY <1>1, <1>2

\* Queue and mask decide.
LEMMA SameBelieved ==
    ASSUME UNCHANGED queue, gesture'.active_mask = gesture.active_mask
    PROVE  Len(queue)' = Len(queue) /\ \A n : BelievedTo(n)' = BelievedTo(n)
BY DEF BelievedTo, MaskAfter, LastTo

\* Every step keeps the belief within the truth.
LEMMA BeliefStep == TypeOK /\ StartInv /\ BeliefInv /\ [Next]_vars => BeliefInv'
<1> SUFFICES ASSUME TypeOK, StartInv, BeliefInv, [Next]_vars PROVE BeliefInv'
    OBVIOUS
<1>t. gesture \in GestureT /\ since \in HistoryT /\ queue \in Seq(Edge) /\ held \subseteq Keys
    BY DEF TypeOK
<1>p. TypeOK'
    BY TypeStep
<1>1. ASSUME NEW key \in Keys, NEW active \in BOOLEAN, Report(key, active) PROVE BeliefInv'
    <2>1. UNCHANGED pc /\ held' = IF active THEN held \cup {key} ELSE held \ {key}
        BY <1>1, ReportFacts
    <2>2. since'.dropped <=>
            ~HasRoom \/ (since.dropped /\ (held' # {} \/ overflow \/ pc = "discard"))
        BY <1>1, ReportHistory
    <2>3. CASE ~HasRoom
        <3>1. overflow'
            BY <1>1, <2>3, ReportFacts
        <3>2. since'.dropped
            BY <2>2, <2>3
        <3> QED BY <3>1, <3>2 DEF BeliefInv
    <2>4. CASE HasRoom
        <3>1. UNCHANGED overflow
            BY <1>1, <2>4, ReportFacts
        <3>2. BelievedTo(Len(queue))' = IF active THEN BelievedTo(Len(queue)) \cup {key}
                                        ELSE BelievedTo(Len(queue)) \ {key}
            BY <1>1, <2>4, ReportBelieved
        <3>3. ~overflow' /\ pc' # "discard" => BelievedTo(Len(queue))' \subseteq held'
            BY <2>1, <3>1, <3>2 DEF BeliefInv
        <3>4. ASSUME ~since'.dropped
              PROVE  ~overflow' /\ pc' # "discard" /\ held' \subseteq BelievedTo(Len(queue))'
            <4>1. CASE ~since.dropped
                BY <2>1, <3>1, <3>2, <4>1 DEF BeliefInv
            <4>2. CASE since.dropped
                BY <2>1, <2>2, <2>4, <3>1, <3>4, <4>2
            <4> QED BY <4>1, <4>2
        <3> QED BY <3>3, <3>4 DEF BeliefInv
    <2> QED BY <2>3, <2>4
<1>2. CASE Tick
    <2>1. since'.dropped = since.dropped /\ UNCHANGED <<held, queue, overflow, gesture, pc>>
        BY <1>2, <1>t DEF Tick, HistoryT
    <2> QED BY <2>1, SameBelieved DEF BeliefInv
<1>3. CASE InitFails
    <2>1. gesture'.active_mask = {} /\ queue' = <<>> /\ held' = {}
        BY <1>3 DEF InitFails, touch_gesture_init, ZeroGesture
    <2>2. BelievedTo(Len(queue))' = {}
        BY <1>p, <2>1, EmptyBelieved
    <2> QED BY <1>3, <2>1, <2>2 DEF InitFails, BeliefInv, StartInv
<1>4. CASE InitStarts
    <2>1. gesture'.active_mask = {} /\ queue' = <<>> /\ held' = {}
        BY <1>4 DEF InitStarts, StartInv
    <2>2. BelievedTo(Len(queue))' = {}
        BY <1>p, <2>1, EmptyBelieved
    <2> QED BY <1>4, <2>1, <2>2 DEF InitStarts, BeliefInv, StartInv
<1>5. CASE InitEnds
    <2>1. gesture'.active_mask = gesture.active_mask /\ UNCHANGED <<held, queue, pc, since>>
        BY <1>5 DEF InitEnds, StartInv, touch_gesture_init, ZeroGesture
    <2> QED BY <1>5, <2>1, SameBelieved DEF InitEnds, StartInv, BeliefInv
<1>6. CASE PollStarts
    <2>1. UNCHANGED <<held, queue, gesture, since>> /\ ~overflow'
        BY <1>6 DEF PollStarts
    <2>2. pc' = IF overflow THEN "discard" ELSE "drain"
        BY <1>6 DEF PollStarts
    <2>3. pc = "loop"
        BY <1>6 DEF PollStarts
    <2> QED BY <2>1, <2>2, <2>3, SameBelieved DEF BeliefInv
<1>7. CASE DiscardEdge
    BY <1>7 DEF DiscardEdge, BeliefInv
<1>8. CASE DiscardEnds
    <2>1. gesture'.active_mask = {} /\ queue' = <<>>
        BY <1>8 DEF DiscardEnds, touch_gesture_discard_until_quiet, ZeroGesture
    <2>2. BelievedTo(Len(queue))' = {}
        BY <1>p, <2>1, EmptyBelieved
    <2>3. since'.dropped
        BY <1>8 DEF DiscardEnds, BeliefInv
    <2> QED BY <2>2, <2>3 DEF BeliefInv
<1>9. CASE TakeEdge
    <2>1. BelievedTo(Len(queue))' = BelievedTo(Len(queue))
        <3> DEFINE N == Len(queue)
        <3>1. N \in Nat \ {0} /\ Len(queue)' = N - 1
            BY <1>9, TakeBelieved
        <3>2. N - 1 \in 0 .. N - 1 /\ (N - 1) + 1 = N
            BY <3>1
        <3>3. BelievedTo(Len(queue))' = MaskAfter(queue', gesture'.active_mask, N - 1)
            BY <3>1 DEF BelievedTo, MaskAfter, LastTo
        <3>4. \A n \in 0 .. N - 1 : BelievedTo(n)' = BelievedTo(n + 1)
            BY <1>9, TakeBelieved
        <3>5. \A n \in 0 .. N - 1 : BelievedTo(n)' = MaskAfter(queue', gesture'.active_mask, n)
            BY DEF BelievedTo, MaskAfter, LastTo
        <3> HIDE DEF N
        <3>6. MaskAfter(queue', gesture'.active_mask, N - 1) = BelievedTo(N)
            BY <3>2, <3>4, <3>5
        <3> QED BY <3>3, <3>6 DEF N
    <2> QED BY <1>9, <2>1 DEF TakeEdge, BeliefInv
<1>10. CASE PollWithoutKey \/ PollWithKey
    <2>1. UNCHANGED <<held, queue, overflow>> /\ pc # "discard" /\ pc' # "discard"
        BY <1>10 DEF PollWithoutKey, PollWithKey, Poll
    <2>2. gesture'.active_mask = gesture.active_mask
        BY <1>10, PollFacts DEF PollWithoutKey, PollWithKey, Poll
    <2>3. since'.dropped = since.dropped
        BY <1>10, <1>t DEF PollWithoutKey, PollWithKey, HistoryT
    <2> QED BY <2>1, <2>2, <2>3, SameBelieved DEF BeliefInv
<1>11. CASE UNCHANGED vars
    BY <1>11, SameBelieved DEF vars, BeliefInv
<1> QED BY <1>1, <1>2, <1>3, <1>4, <1>5, <1>6, <1>7, <1>8, <1>9, <1>10, <1>11
        DEF Next, MainStep, OnActive, OnInactive

\* Every step keeps candidates and queued touches newer than the last key.
LEMMA TouchedStep == TypeOK /\ StartInv /\ TouchedInv /\ [Next]_vars => TouchedInv'
<1> SUFFICES ASSUME TypeOK, StartInv, TouchedInv, [Next]_vars PROVE TouchedInv'
    OBVIOUS
<1>t. /\ gesture \in GestureT /\ since \in HistoryT /\ queue \in Seq(Edge) /\ polled \in Ticks
      /\ Len(queue) \in Nat
    BY DEF TypeOK
<1>1. ASSUME NEW key \in Keys, NEW active \in BOOLEAN, Report(key, active) PROVE TouchedInv'
    <2>1. since'.touched = IF active THEN since.touched \cup {key} ELSE since.touched
        BY <1>1, ReportHistory
    <2>2. UNCHANGED gesture
        BY <1>1, ReportFacts
    <2>3. CASE UNCHANGED queue
        BY <2>1, <2>2, <2>3 DEF TouchedInv
    <2>4. CASE queue' = Append(queue, [key |-> key, active |-> active])
        <3> DEFINE e == [key |-> key, active |-> active]
        <3>1. e \in Edge /\ e.key = key /\ e.active = active
            BY DEF Edge
        <3> HIDE DEF e
        <3>2. Len(queue') = Len(queue) + 1 /\ queue'[Len(queue) + 1] = e
            BY <1>t, <2>4, <3>1, AppendFacts DEF e
        <3>3. \A i \in 1 .. Len(queue) : queue'[i] = queue[i]
            BY <1>t, <2>4, <3>1, AppendFacts DEF e
        <3> QED BY <1>t, <2>1, <2>2, <3>1, <3>2, <3>3 DEF TouchedInv
    <2> QED BY <1>1, <2>3, <2>4, ReportFacts
<1>2. CASE Tick
    BY <1>2, <1>t DEF Tick, HistoryT, TouchedInv
<1>3. CASE InitFails
    BY <1>3, EmptySeq DEF InitFails, TouchedInv, touch_gesture_init, ZeroGesture
<1>4. CASE InitStarts
    BY <1>4, EmptySeq DEF InitStarts, TouchedInv
<1>5. CASE InitEnds
    BY <1>5 DEF InitEnds, TouchedInv, touch_gesture_init, ZeroGesture
<1>6. CASE PollStarts
    BY <1>6 DEF PollStarts, TouchedInv
<1>7. CASE DiscardEdge
    <2>1. /\ Len(queue') = Len(queue) - 1
          /\ \A i \in 1 .. Len(queue) - 1 : queue'[i] = queue[i + 1]
        BY <1>7, <1>t, TailFacts DEF DiscardEdge
    <2> QED BY <1>7, <1>t, <2>1 DEF DiscardEdge, TouchedInv
<1>8. CASE DiscardEnds
    BY <1>8 DEF DiscardEnds, TouchedInv, touch_gesture_discard_until_quiet, ZeroGesture
<1>9. CASE TakeEdge
    <2>1. /\ Len(queue) \in Nat \ {0} /\ Len(queue') = Len(queue) - 1
          /\ Head(queue) = queue[1] /\ queue[1] \in Edge
          /\ \A i \in 1 .. Len(queue) - 1 : queue'[i] = queue[i + 1]
        BY <1>9, <1>t, TailFacts DEF TakeEdge
    <2>2. gesture'.candidate_key # NoKey =>
            \/ gesture'.candidate_key = gesture.candidate_key
            \/ queue[1].active /\ gesture'.candidate_key = queue[1].key
        BY <1>9, TakeFacts
    <2>4. gesture'.armed \/ gesture'.candidate_key = NoKey
        BY <1>9, TakeFacts DEF TouchedInv
    <2>3. UNCHANGED since
        BY <1>9 DEF TakeEdge
    <2> QED BY <1>t, <2>1, <2>2, <2>3, <2>4 DEF TouchedInv
<1>10. CASE PollWithoutKey
    <2>1. /\ UNCHANGED <<queue, since>> /\ gesture'.candidate_key = gesture.candidate_key
          /\ gesture.armed => gesture'.armed
        BY <1>10, PollFacts DEF PollWithoutKey, Poll
    <2> QED BY <2>1 DEF TouchedInv
<1>11. CASE PollWithKey
    <2>1. queue' = <<>> /\ gesture'.candidate_key = NoKey
        BY <1>11, PollFacts DEF PollWithKey, Poll
    <2> QED BY <2>1, EmptySeq DEF TouchedInv
<1>12. CASE UNCHANGED vars
    BY <1>12 DEF vars, TouchedInv
<1> QED BY <1>1, <1>2, <1>3, <1>4, <1>5, <1>6, <1>7, <1>8, <1>9, <1>10, <1>11, <1>12
        DEF Next, MainStep, OnActive, OnInactive

\* Every step keeps the releases.
LEMMA ReleasedStep ==
    TypeOK /\ StartInv /\ BeliefInv /\ ReleasedInv /\ [Next]_vars => ReleasedInv'
<1> SUFFICES ASSUME TypeOK, StartInv, BeliefInv, ReleasedInv, [Next]_vars PROVE ReleasedInv'
    OBVIOUS
<1>t. gesture \in GestureT /\ since \in HistoryT /\ queue \in Seq(Edge) /\ Len(queue) \in Nat
    BY DEF TypeOK
<1>1. ASSUME NEW key \in Keys, NEW active \in BOOLEAN, Report(key, active) PROVE ReleasedInv'
    <2>1. UNCHANGED gesture
        BY <1>1, ReportFacts
    <2>2. since.released \/ since.dropped => since'.released \/ since'.dropped
        BY <1>1, ReportHistory
    <2>3. CASE ~HasRoom
        BY <1>1, <2>3, ReportHistory DEF ReleasedInv
    <2>4. CASE HasRoom
        <3>1. /\ Len(queue)' = Len(queue) + 1
              /\ \A n \in 1 .. Len(queue) : BelievedTo(n)' = BelievedTo(n)
            BY <1>1, <2>4, ReportBelieved
        <3>2. BelievedTo(Len(queue))' = {} => since'.released \/ since'.dropped
            <4>1. BeliefInv'
                BY BeliefStep
            <4>2. ~since'.dropped /\ BelievedTo(Len(queue))' = {} => held' = {}
                BY <4>1 DEF BeliefInv
            <4> QED BY <1>1, <4>2, ReportHistory
        <3>3. \A n : BelievedTo(n)' = MaskAfter(queue', gesture'.active_mask, n)
            BY DEF BelievedTo, MaskAfter, LastTo
        <3>4. BelievedTo(Len(queue))' = MaskAfter(queue', gesture'.active_mask, Len(queue'))
            BY DEF BelievedTo, MaskAfter, LastTo
        <3>5. ASSUME NEW n \in 1 .. Len(queue'), BelievedTo(n)' = {}
              PROVE  since'.released \/ since'.dropped
            <4>1. CASE n = Len(queue')
                BY <3>2, <3>3, <3>4, <3>5, <4>1
            <4>2. CASE n # Len(queue')
                <5>1. n \in 1 .. Len(queue)
                    BY <1>t, <3>1, <4>2
                <5> QED BY <2>2, <3>1, <3>5, <5>1 DEF ReleasedInv
            <4> QED BY <4>1, <4>2
        <3> QED BY <2>1, <2>2, <3>5 DEF ReleasedInv
    <2> QED BY <2>3, <2>4
<1>2. CASE Tick
    <2>1. since'.dropped = since.dropped /\ since'.released = since.released
        BY <1>2, <1>t DEF Tick, HistoryT
    <2>2. UNCHANGED <<queue, gesture>>
        BY <1>2 DEF Tick
    <2> QED BY <2>1, <2>2, SameBelieved DEF ReleasedInv
<1>3. CASE InitFails
    BY <1>3, EmptySeq DEF InitFails, StartInv, ReleasedInv
<1>4. CASE InitStarts
    BY <1>4, EmptySeq DEF InitStarts, StartInv, ReleasedInv
<1>5. CASE InitEnds
    BY <1>5 DEF InitEnds, StartInv, ReleasedInv
<1>6. CASE PollStarts
    <2>1. UNCHANGED <<queue, gesture, since>>
        BY <1>6 DEF PollStarts
    <2> QED BY <2>1, SameBelieved DEF ReleasedInv
<1>7. CASE DiscardEdge \/ DiscardEnds
    <2>1. since.dropped /\ UNCHANGED since
        BY <1>7 DEF DiscardEdge, DiscardEnds, BeliefInv
    <2> QED BY <2>1 DEF ReleasedInv
<1>8. CASE TakeEdge
    <2>1. UNCHANGED since
        BY <1>8 DEF TakeEdge
    <2>2. /\ Len(queue) \in Nat \ {0} /\ Len(queue)' = Len(queue) - 1
          /\ \A n \in 0 .. Len(queue) - 1 : BelievedTo(n)' = BelievedTo(n + 1)
          /\ gesture'.active_mask = BelievedTo(1)
        BY <1>8, TakeBelieved
    <2>3. gesture'.armed \/ gesture'.release_pending => since.released \/ since.dropped
        BY <1>8, <2>2, TakeFacts DEF ReleasedInv
    <2>4. ASSUME NEW n \in 1 .. Len(queue'), BelievedTo(n)' = {}
          PROVE  since.released \/ since.dropped
        <3>1. n \in 0 .. Len(queue) - 1 /\ n + 1 \in 1 .. Len(queue)
            BY <2>2
        <3>2. BelievedTo(n + 1) = {}
            BY <2>2, <2>4, <3>1
        <3> QED BY <3>1, <3>2 DEF ReleasedInv
    <2> QED BY <2>1, <2>3, <2>4 DEF ReleasedInv
<1>9. CASE PollWithoutKey
    <2>1. UNCHANGED <<queue, since>>
        BY <1>9 DEF PollWithoutKey, Poll
    <2>2. /\ gesture'.active_mask = gesture.active_mask
          /\ gesture'.armed \/ gesture'.release_pending => gesture.armed \/ gesture.release_pending
        BY <1>9, PollFacts DEF PollWithoutKey, Poll
    <2> QED BY <2>1, <2>2, SameBelieved DEF ReleasedInv
<1>10. CASE PollWithKey
    <2>1. queue' = <<>> /\ ~gesture'.armed /\ ~gesture'.release_pending
        BY <1>10, PollFacts DEF PollWithKey, Poll
    <2> QED BY <2>1, EmptySeq DEF ReleasedInv
<1>11. CASE UNCHANGED vars
    BY <1>11, SameBelieved DEF vars, ReleasedInv
<1> QED BY <1>1, <1>2, <1>3, <1>4, <1>5, <1>6, <1>7, <1>8, <1>9, <1>10, <1>11
        DEF Next, MainStep, OnActive, OnInactive

\* Every step keeps the clock of the polls.
LEMMA ClockStep == TypeOK /\ StartInv /\ ClockInv /\ [Next]_vars => ClockInv'
<1> SUFFICES ASSUME TypeOK, StartInv, ClockInv, [Next]_vars PROVE ClockInv'
    OBVIOUS
<1>t. /\ since \in HistoryT /\ now \in Ticks /\ polled \in Ticks /\ lag \in 0 .. MaxLag
      /\ TickMod \in Nat \ {0} /\ TickMod > MaxLag /\ MaxLag \in Nat
    BY ConstantFacts DEF TypeOK
<1>1. ASSUME NEW key \in Keys, NEW active \in BOOLEAN, Report(key, active) PROVE ClockInv'
    <2>1. since'.age = since.age /\ UNCHANGED <<pc, now, polled, lag>>
        BY <1>1, ReportHistory, ReportFacts
    <2> QED BY <2>1 DEF ClockInv
<1>2. CASE Tick
    <2>1. now' = (IF now = TickMod - 1 THEN 0 ELSE now + 1) /\ UNCHANGED <<polled, pc, driver>>
        BY <1>2, <1>t, WrapFacts DEF Tick
    <2>2. since.age = KeySpacing + MaxLag => since'.age = since.age
        BY <1>2, <1>t, ConstantFacts DEF Tick, HistoryT
    <2>3. pc # "loop" \/ since.age # KeySpacing + MaxLag => lag' = lag + 1
        BY <1>2 DEF Tick, StartInv
    <2> QED BY <1>t, <2>1, <2>2, <2>3 DEF ClockInv, Ticks
<1>3. CASE InitFails \/ InitStarts \/ InitEnds
    BY <1>3 DEF InitFails, InitStarts, InitEnds, StartInv, ClockInv
<1>4. CASE PollStarts
    BY <1>4, <1>t DEF PollStarts, ClockInv, Ticks
<1>5. CASE DiscardEdge \/ DiscardEnds \/ TakeEdge
    BY <1>5 DEF DiscardEdge, DiscardEnds, TakeEdge, ClockInv
<1>6. CASE PollWithoutKey \/ PollWithKey
    BY <1>6 DEF PollWithoutKey, PollWithKey, Poll, ClockInv
<1>7. CASE UNCHANGED vars
    BY <1>7 DEF vars, ClockInv
<1> QED BY <1>1, <1>2, <1>3, <1>4, <1>5, <1>6, <1>7
        DEF Next, MainStep, OnActive, OnInactive

\* A later poll has waited at most longer by the ticks in between.
LEMMA WaitedGrows ==
    ASSUME TypeOK, now = IF polled + lag < TickMod THEN polled + lag ELSE polled + lag - TickMod
    PROVE  /\ Waited \in Nat
           /\ (now - gesture.started) % TickMod <= Waited + lag
<1>1. /\ now \in Ticks /\ polled \in Ticks /\ gesture.started \in Ticks
      /\ lag \in 0 .. MaxLag /\ MaxLag \in Nat /\ TickMod \in Nat \ {0} /\ TickMod > MaxLag
    BY ConstantFacts DEF TypeOK, GestureT
<1> DEFINE started == gesture.started
<1>2. Waited = IF polled >= started THEN polled - started ELSE polled - started + TickMod
    BY <1>1, WrapFacts DEF Waited
<1>3. (now - started) % TickMod = IF now >= started THEN now - started ELSE now - started + TickMod
    BY <1>1, WrapFacts
<1> DEFINE wait == (now - started) % TickMod
<1> HIDE DEF started, wait
<1>4. started \in Ticks /\ wait = IF now >= started THEN now - started ELSE now - started + TickMod
    BY <1>1, <1>3 DEF started, wait
<1>5. Waited \in Nat /\ wait <= Waited + lag
    BY <1>1, <1>2, <1>4 DEF Ticks
<1> QED BY <1>5 DEF wait, started

\* Every step keeps the spacing.
LEMMA SpacingStep ==
    TypeOK /\ StartInv /\ TouchedInv /\ ClockInv /\ SpacingInv /\ [Next]_vars => SpacingInv'
<1> SUFFICES ASSUME TypeOK, StartInv, TouchedInv, ClockInv, SpacingInv, [Next]_vars PROVE SpacingInv'
    OBVIOUS
<1> DEFINE Cap == KeySpacing + MaxLag
<1>t. /\ since \in HistoryT /\ now \in Ticks /\ polled \in Ticks /\ lag \in 0 .. MaxLag
      /\ gesture \in GestureT /\ since.age \in 0 .. Cap
      /\ TickMod \in Nat \ {0} /\ MaxLag \in Nat /\ Cap \in Nat /\ RELEASE_STABLE \in Nat
    BY ConstantFacts DEF TypeOK, HistoryT
<1>c. since.age # Cap =>
        /\ since.age - lag >= 0
        /\ gesture.armed => since.age - lag >= RELEASE_STABLE
        /\ gesture.armed /\ gesture.candidate_key # NoKey =>
              since.age - lag >= RELEASE_STABLE + Waited
        /\ ~gesture.armed /\ gesture.release_pending => since.age - lag >= Waited
    BY DEF SpacingInv
<1>0. ASSUME since'.age = since.age, UNCHANGED <<gesture, polled, lag>> PROVE SpacingInv'
    BY <1>0 DEF SpacingInv, Waited
<1>1. ASSUME NEW key \in Keys, NEW active \in BOOLEAN, Report(key, active) PROVE SpacingInv'
    BY <1>0, <1>1, ReportHistory, ReportFacts
<1>2. CASE Tick
    <2>1. UNCHANGED <<gesture, polled>> /\ Waited' = Waited
        BY <1>2 DEF Tick, Waited
    <2>2. since'.age = IF since.age < Cap THEN since.age + 1 ELSE since.age
        BY <1>2, <1>t DEF Tick, HistoryT
    <2>3. since.age # Cap => lag' = lag + 1
        BY <1>2 DEF Tick, StartInv
    <2>4. since.age = Cap => since'.age = Cap
        BY <2>2, <1>t
    <2>5. since.age # Cap => since'.age - lag' = since.age - lag
        BY <2>2, <2>3, <1>t
    <2> QED BY <1>c, <2>1, <2>4, <2>5 DEF SpacingInv
<1>3. CASE InitFails \/ InitStarts \/ InitEnds
    BY <1>3 DEF InitFails, InitStarts, InitEnds, StartInv, SpacingInv
<1>4. CASE PollStarts
    <2>1. UNCHANGED <<gesture, since>> /\ polled' = now /\ lag' = 0
        BY <1>4 DEF PollStarts
    <2>2. CASE since.age = Cap
        BY <2>1, <2>2 DEF SpacingInv
    <2>3. CASE since.age # Cap
        <3>1. Waited \in Nat /\ (now - gesture.started) % TickMod <= Waited + lag
            BY <2>3, WaitedGrows DEF ClockInv
        <3>2. Waited' = (now - gesture.started) % TickMod
            BY <2>1 DEF Waited
        <3>3. (now - gesture.started) % TickMod \in Int
            BY <1>t DEF GestureT, Ticks
        <3>4. Waited' <= Waited + lag /\ Waited' \in Int
            BY <3>1, <3>2, <3>3
        <3>5. since'.age - lag' = (since.age - lag) + lag
            BY <1>t, <2>1
        <3> QED BY <1>c, <1>t, <2>1, <2>3, <3>1, <3>4, <3>5 DEF SpacingInv
    <2> QED BY <2>2, <2>3
<1>5. CASE DiscardEdge
    BY <1>0, <1>5 DEF DiscardEdge
<1>n. (polled - polled) % TickMod = 0
    BY <1>t, WrapFacts DEF Ticks
<1>6. CASE DiscardEnds
    <2>1. /\ ~gesture'.armed /\ gesture'.started = polled
          /\ UNCHANGED <<since, polled, lag>>
        BY <1>6 DEF DiscardEnds, touch_gesture_discard_until_quiet, ZeroGesture
    <2>2. Waited' = 0
        BY <1>n, <2>1 DEF Waited
    <2> QED BY <1>c, <2>1, <2>2 DEF SpacingInv
<1>7. CASE TakeEdge
    <2>1. UNCHANGED <<since, polled, lag>>
        BY <1>7 DEF TakeEdge
    <2>2. Waited' = (polled - gesture'.started) % TickMod
        BY <2>1 DEF Waited
    <2>3. gesture'.started = polled => Waited' = 0
        BY <1>n, <2>2
    <2>4. gesture'.started = gesture.started => Waited' = Waited
        BY <2>2 DEF Waited
    <2>5. /\ gesture'.armed => gesture.armed
          /\ gesture'.candidate_key # NoKey =>
                \/ /\ gesture'.candidate_key = gesture.candidate_key
                   /\ gesture'.armed => gesture'.started = gesture.started
                \/ gesture'.started = polled
          /\ gesture'.release_pending /\ ~gesture'.armed =>
                /\ ~gesture.armed
                /\ \/ gesture.release_pending /\ gesture'.started = gesture.started
                   \/ gesture'.started = polled
        BY <1>7, TakeFacts
    <2> QED BY <1>c, <1>t, <2>1, <2>3, <2>4, <2>5 DEF SpacingInv
<1>8. CASE PollWithoutKey
    <2>1. UNCHANGED <<since, polled, lag>>
        BY <1>8 DEF PollWithoutKey, Poll
    <2>2. \/ gesture' = gesture
          \/ /\ ~gesture.armed /\ gesture.release_pending /\ Waited >= RELEASE_STABLE
             /\ gesture'.armed /\ gesture'.candidate_key = gesture.candidate_key
        BY <1>8, PollFacts DEF PollWithoutKey, Poll
    <2>3. CASE gesture' = gesture
        BY <1>0, <2>1, <2>3
    <2>4. CASE gesture' # gesture
        <3>1. gesture'.armed /\ gesture'.candidate_key = NoKey
            BY <2>2, <2>4 DEF TouchedInv
        <3>2. since.age # Cap => since.age - lag >= Waited
            BY <1>c, <2>2, <2>4
        <3>3. Waited \in Int /\ Waited >= RELEASE_STABLE
            BY <1>t, <2>2, <2>4 DEF Waited, GestureT, Ticks
        <3>4. since.age # Cap => since.age - lag >= RELEASE_STABLE /\ since.age - lag >= 0
            BY <1>t, <3>2, <3>3
        <3> QED BY <2>1, <3>1, <3>4 DEF SpacingInv
    <2> QED BY <2>3, <2>4
<1>9. CASE PollWithKey
    <2>1. ~gesture'.armed /\ ~gesture'.release_pending
        BY <1>9, PollFacts DEF PollWithKey, Poll
    <2>2. since'.age = lag /\ lag' = lag
        BY <1>9, <1>t DEF PollWithKey, Poll, HistoryT
    <2> QED BY <1>t, <2>1, <2>2 DEF SpacingInv
<1>10. CASE UNCHANGED vars
    BY <1>0, <1>10 DEF vars
<1> QED BY <1>1, <1>2, <1>3, <1>4, <1>5, <1>6, <1>7, <1>8, <1>9, <1>10
        DEF Next, MainStep, OnActive, OnInactive

\* The invariants hold before the sensor is started.
LEMMA PanelInit == Init => TypeOK /\ PanelInv
<1> SUFFICES ASSUME Init PROVE TypeOK /\ PanelInv
    OBVIOUS
<1>1. TypeOK
    BY TypeInit
<1>2. /\ gesture.active_mask = {} /\ gesture.candidate_key = NoKey
      /\ ~gesture.armed /\ ~gesture.release_pending
      /\ since.released /\ ~since.dropped /\ since.age = KeySpacing + MaxLag
      /\ held = {} /\ queue = <<>> /\ driver = "absent" /\ pc = "loop" /\ lag = 0
      /\ ~overflow
    BY DEF Init, ZeroGesture
<1>3. BelievedTo(Len(queue)) = {}
    BY <1>1, <1>2, EmptyBelieved
<1>4. StartInv
    BY <1>2 DEF StartInv
<1>5. BeliefInv
    BY <1>2, <1>3 DEF BeliefInv
<1>6. TouchedInv
    BY <1>2, EmptySeq DEF TouchedInv
<1>7. ReleasedInv
    BY <1>2, EmptySeq DEF ReleasedInv
<1>8. ClockInv /\ SpacingInv
    BY <1>2 DEF ClockInv, SpacingInv
<1> QED BY <1>1, <1>4, <1>5, <1>6, <1>7, <1>8 DEF PanelInv

----------------------------------------------------------------------------
(* The theorems.                                                           *)

\* The queue, the recognizer and the history keep their types and the invariants, for
\* every set of pads, every length of the queue and every wrap of the clock.
THEOREM PanelInvariant == Spec => [](TypeOK /\ PanelInv)
<1>1. Init => TypeOK /\ PanelInv
    BY PanelInit
<1>2. TypeOK /\ PanelInv /\ [Next]_vars => (TypeOK /\ PanelInv)'
    BY TypeStep, StartStep, BeliefStep, TouchedStep, ReleasedStep, ClockStep, SpacingStep
       DEF PanelInv
<1> QED BY <1>1, <1>2, PTL DEF Spec

\* The recovery from a full queue invents no touch: unless a recovery is still due, every
\* pad that touch_gesture takes, or will take, for touched is touched.
THEOREM NoPadIsInvented == Spec => []NoPhantomPad
<1>1. TypeOK /\ PanelInv => NoPhantomPad
    BY BelievedIsLast DEF PanelInv, BeliefInv, NoPhantomPad
<1> QED BY <1>1, PanelInvariant, PTL

\* touch_sens_get_key_num returns a key only for a touch since the last key and, unless
\* edges were lost, only after all pads were released.
THEOREM TouchGivesOneKey == Spec => OneKeyPerTouch
<1>1. TypeOK /\ PanelInv /\ [Next]_vars =>
        [\A key \in Keys : Accepts(key) =>
            key \in since.touched /\ (since.released \/ since.dropped)]_vars
    <2> SUFFICES ASSUME TypeOK, PanelInv, NEW key \in Keys, Accepts(key)
                 PROVE  key \in since.touched /\ (since.released \/ since.dropped)
        OBVIOUS
    <2>1. PollKey(gesture, polled) = key /\ key # NoKey
        BY ConstantFacts DEF Accepts
    <2>2. gesture.armed /\ gesture.candidate_key = key
        BY <2>1, PollFacts
    <2> QED BY <2>1, <2>2 DEF PanelInv, TouchedInv, ReleasedInv
<1> QED BY <1>1, PanelInvariant, PTL DEF OneKeyPerTouch, Spec

\* Two keys are polled at least the stable touch and the stable release apart, also when
\* the clock wraps in between and when edges are lost.
THEOREM KeysAreApart == Spec => KeysApart
<1>1. TypeOK /\ PanelInv /\ [Next]_vars =>
        [\A key \in Keys : Accepts(key) => since.age - lag >= KeySpacing]_vars
    <2> SUFFICES ASSUME TypeOK, PanelInv, NEW key \in Keys, Accepts(key)
                 PROVE  since.age - lag >= KeySpacing
        OBVIOUS
    <2>1. PollKey(gesture, polled) = key /\ key # NoKey
        BY ConstantFacts DEF Accepts
    <2>2. gesture.armed /\ gesture.candidate_key # NoKey /\ Waited >= ACTIVE_STABLE
        BY <2>1, PollFacts
    <2>3. /\ since.age \in 0 .. KeySpacing + MaxLag /\ lag \in 0 .. MaxLag
          /\ Waited \in Int
        BY ConstantFacts DEF TypeOK, HistoryT, GestureT, Ticks, Waited
    <2>4. since.age = KeySpacing + MaxLag \/ since.age - lag >= RELEASE_STABLE + Waited
        BY <2>2 DEF PanelInv, SpacingInv
    <2> QED BY <2>2, <2>3, <2>4, ConstantFacts DEF KeySpacing
<1> QED BY <1>1, PanelInvariant, PTL DEF KeysApart, Spec
===============================================================================
