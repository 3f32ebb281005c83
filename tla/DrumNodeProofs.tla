--------------------------- MODULE DrumNodeProofs ---------------------------
(***************************************************************************)
(* Proofs about the reels, for any number of drums, slots and unfinished   *)
(* moves.  The argument of the inductive invariant: delayed starts are     *)
(* pending for a suffix of the drums and stopped drums are a prefix of     *)
(* them, so that when the last drum stops nothing is left to stop or to    *)
(* start.                                                                  *)
(***************************************************************************)
EXTENDS DrumNode, TLAPS

\* A drum of the present spin that has already stopped.
Stopped(d) == ~started /\ d \notin pending /\ ~drumRotate[d]

\* The delayed starts fire from left to right, after the first update.
StartsFromLeft ==
    /\ started => pending = {} /\ \A d \in Drum : ~drumRotate[d]
    /\ \A d \in pending : ~drumRotate[d]
    /\ \A d \in pending, e \in Drum : d < e => e \in pending

\* A drum has no target until stopRotate gives it one, and none has stopped.
SpinHasNoTarget ==
    caller = "spin" => \A d \in Drum : drumSlotTarget[d] = UNKNOW /\ ~Stopped(d)

\* After stopRotate each drum is on its way to its target, or has passed it
\* by the one move of its stop, and the stopped drums are the leftmost ones.
StopsFromLeft ==
    caller = "stop" =>
        /\ ~Stopped(DRUM_COUNT - 1)
        /\ \A d \in Drum : asked[d] \in Slot
        /\ \A d \in Drum : ~Stopped(d) => drumSlotTarget[d] = asked[d]
        /\ \A d \in Drum : Stopped(d) => /\ drumSlotTarget[d] = UNKNOW
                                         /\ drumSlot[d] = After(asked[d])
                                         /\ \A e \in Drum : e < d => Stopped(e)

\* At rest the count of every drum is one past the slot it was asked for.
RestIsPastTarget ==
    caller = "rest" =>
        \A d \in Drum : asked[d] # UNKNOW => drumSlot[d] = After(asked[d])

StopInv ==
    /\ TypeOK
    /\ RestIsRest
    /\ StartsFromLeft
    /\ SpinHasNoTarget
    /\ StopsFromLeft
    /\ RestIsPastTarget

-----------------------------------------------------------------------------
\* The slot after a slot is a slot, and two slots have different successors.
LEMMA AfterType == \A s \in Slot : After(s) \in Slot /\ After(s) = IF s + 1 = SLOT_COUNT THEN 0 ELSE s + 1
  <1>. SUFFICES ASSUME NEW s \in Slot
       PROVE After(s) \in Slot /\ After(s) = IF s + 1 = SLOT_COUNT THEN 0 ELSE s + 1
    OBVIOUS
  <1>. USE SlotAssumption DEF Slot, After
  <1>1. CASE s + 1 = SLOT_COUNT
    <2>1. SLOT_COUNT % SLOT_COUNT = 0
      OBVIOUS
    <2>. QED BY <1>1, <2>1
  <1>2. CASE s + 1 < SLOT_COUNT
    <2>1. (s + 1) % SLOT_COUNT = s + 1
      BY <1>2
    <2>. QED BY <1>2, <2>1
  <1>. QED BY <1>1, <1>2

LEMMA AfterInjective == \A r, s \in Slot : After(r) = After(s) => r = s
  BY AfterType, SlotAssumption DEF Slot

\* What animationRotateNex makes of the counts.
LEMMA RotateType ==
    ASSUME TypeOK, NEW drums, AnimationRotateNex(drums)
    PROVE  /\ drumSlot' \in [Drum -> Slot]
           /\ moving' \in [Drum -> Nat]
           /\ drumRotatedStatus' \in [Drum -> BOOLEAN]
  <1>1. \A d \in Drum : After(drumSlot[d]) \in Slot
    BY AfterType DEF TypeOK
  <1>. QED BY <1>1 DEF TypeOK, AnimationRotateNex

-----------------------------------------------------------------------------
LEMMA InitType == Init => TypeOK
  <1>1. 0 \in Slot /\ 1 \in Slot
    BY SlotAssumption DEF Slot
  <1>. SUFFICES ASSUME Init PROVE TypeOK
    OBVIOUS
  <1>2. drumRotate \in [Drum -> BOOLEAN] /\ drumRotatedStatus \in [Drum -> BOOLEAN]
    BY DEF Init
  <1>3. drumSlot \in [Drum -> Slot] /\ shown \in [Drum -> Slot]
    BY <1>1 DEF Init
  <1>. QED BY <1>2, <1>3 DEF Init, TypeOK

LEMMA NextType == TypeOK /\ [Next]_vars => TypeOK'
  <1>. SUFFICES ASSUME TypeOK, [Next]_vars PROVE TypeOK'
    OBVIOUS
  <1>. USE SlotAssumption, DrumAssumption
  <1>1. CASE StartRotate
    BY <1>1 DEF StartRotate, TypeOK, UNKNOW
  <1>2. ASSUME NEW slots \in [Drum -> Slot], StopRotate(slots) PROVE TypeOK'
    BY <1>2 DEF StopRotate, TypeOK
  <1>3. ASSUME NEW d \in Drum, FinishMove(d) PROVE TypeOK'
    <2>1. After(shown[d]) \in Slot
      BY AfterType DEF TypeOK
    <2>2. moving[d] - 1 \in Nat
      BY <1>3 DEF FinishMove, TypeOK
    <2>. QED BY <1>3, <2>1, <2>2 DEF FinishMove, TypeOK
  <1>4. ASSUME NEW d \in Drum, FireStart(d) PROVE TypeOK'
    <2>1. AnimationRotateNex({d})
      BY <1>4 DEF FireStart
    <2>. QED BY <1>4, <2>1, RotateType DEF FireStart, TypeOK
  <1>5. CASE Update
    <2>1. PICK drums : AnimationRotateNex(drums)
      BY <1>5 DEF Update
    <2>2. /\ drumRotate' \in [Drum -> BOOLEAN]
          /\ drumSlotTarget' \in [Drum -> Slot \cup {UNKNOW}]
          /\ pending' \subseteq Drum
          /\ started' \in BOOLEAN
          /\ caller' \in {"rest", "spin", "stop"}
          /\ UNCHANGED <<shown, asked>>
      BY <1>5 DEF Update, TypeOK
    <2>. QED BY <2>1, <2>2, RotateType DEF TypeOK
  <1>6. CASE UNCHANGED vars
    BY <1>6 DEF vars, TypeOK
  <1>. QED BY <1>1, <1>2, <1>3, <1>4, <1>5, <1>6 DEF Next

\* Every state of the reels is well typed.
THEOREM TypeCorrect == Spec => []TypeOK
  BY InitType, NextType, PTL DEF Spec

-----------------------------------------------------------------------------
\* The picture.

\* Division with remainder is unique.
LEMMA RemainderUnique ==
    ASSUME NEW n \in Nat \ {0}, NEW q \in Nat, NEW r \in 0..(n - 1)
    PROVE  (n * q + r) % n = r
  <1>. DEFINE x == n * q + r
              p == x \div n
              t == x % n
  <1>1. x \in Nat /\ p \in Nat /\ t \in 0..(n - 1) /\ x = n * p + t
    OBVIOUS
  <1>. HIDE DEF p, t
  <1>2. n * q + r = n * p + t
    BY <1>1
  <1>. HIDE DEF x
  <1>3. ~(q < p)
    <2>. SUFFICES ASSUME q < p PROVE FALSE
      OBVIOUS
    <2>1. PICK e \in Nat : p = q + 1 + e
      <3>1. p - q - 1 \in Nat /\ p = q + 1 + (p - q - 1)
        BY <1>1
      <3>. QED BY <3>1
    <2>2. n * p = n * q + n + n * e /\ n * e \in Nat
      BY <2>1
    <2>. QED BY <1>1, <1>2, <2>2
  <1>4. ~(p < q)
    <2>. SUFFICES ASSUME p < q PROVE FALSE
      OBVIOUS
    <2>1. PICK e \in Nat : q = p + 1 + e
      <3>1. q - p - 1 \in Nat /\ q = p + 1 + (q - p - 1)
        BY <1>1
      <3>. QED BY <3>1
    <2>2. n * q = n * p + n + n * e /\ n * e \in Nat
      BY <2>1, <1>1
    <2>. QED BY <1>1, <1>2, <2>2
  <1>5. p = q
    BY <1>1, <1>3, <1>4
  <1>6. t = r
    BY <1>1, <1>2, <1>5
  <1>. QED BY <1>6 DEF t, x

\* Counting on from the remainder of a count, as the code does at the end of
\* the ring, is counting on from the count itself.
LEMMA RingStep ==
    \A s \in Slot, m \in Nat : (After(s) + m) % SLOT_COUNT = (s + 1 + m) % SLOT_COUNT
  <1>. SUFFICES ASSUME NEW s \in Slot, NEW m \in Nat
       PROVE (After(s) + m) % SLOT_COUNT = (s + 1 + m) % SLOT_COUNT
    OBVIOUS
  <1>1. CASE s + 1 = SLOT_COUNT
    <2>. DEFINE p == m \div SLOT_COUNT
                t == m % SLOT_COUNT
    <2>1. p \in Nat /\ t \in 0..(SLOT_COUNT - 1) /\ m = SLOT_COUNT * p + t
      BY SlotAssumption
    <2>. HIDE DEF p
    <2>2. SLOT_COUNT + m = SLOT_COUNT * (p + 1) + t
      BY <2>1, SlotAssumption
    <2>3. (SLOT_COUNT * (p + 1) + t) % SLOT_COUNT = t
      <3>. HIDE DEF t
      <3>. QED BY <2>1, RemainderUnique, SlotAssumption
    <2>4. (SLOT_COUNT + m) % SLOT_COUNT = m % SLOT_COUNT
      BY <2>2, <2>3
    <2>5. After(s) + m = m /\ s + 1 + m = SLOT_COUNT + m
      <3>1. After(s) = 0
        BY <1>1, AfterType
      <3>. QED BY <1>1, <3>1 DEF Slot
    <2>. HIDE DEF t
    <2>. QED BY <2>4, <2>5
  <1>2. CASE s + 1 # SLOT_COUNT
    BY <1>2, AfterType, SlotAssumption DEF Slot
  <1>. QED BY <1>1, <1>2

\* A number's successor has the successor of its remainder.
LEMMA AfterRemainder ==
    \A k \in Nat : After(k % SLOT_COUNT) = (k + 1) % SLOT_COUNT
  <1>. SUFFICES ASSUME NEW k \in Nat
       PROVE After(k % SLOT_COUNT) = (k + 1) % SLOT_COUNT
    OBVIOUS
  <1>. USE SlotAssumption
  <1>. DEFINE r == k % SLOT_COUNT
              q == k \div SLOT_COUNT
  <1>1. r \in Slot /\ q \in Nat /\ k = SLOT_COUNT * q + r
    BY DEF Slot
  <1>. HIDE DEF r, q
  <1>2. CASE r + 1 = SLOT_COUNT
    <2>1. k + 1 = SLOT_COUNT * (q + 1)
      BY <1>1, <1>2 DEF Slot
    <2>2. (k + 1) % SLOT_COUNT = 0
      BY <2>1, <1>1, RemainderUnique
    <2>. QED BY <2>2, <1>1, <1>2, AfterType DEF r
  <1>3. CASE r + 1 # SLOT_COUNT
    <2>1. k + 1 = SLOT_COUNT * q + (r + 1) /\ r + 1 \in 0..(SLOT_COUNT - 1)
      BY <1>1, <1>3 DEF Slot
    <2>2. (SLOT_COUNT * q + (r + 1)) % SLOT_COUNT = r + 1
      <3>. DEFINE n == r + 1
      <3>1. n \in 0..(SLOT_COUNT - 1)
        BY <2>1
      <3>. HIDE DEF n
      <3>2. (SLOT_COUNT * q + n) % SLOT_COUNT = n
        BY <1>1, <3>1, RemainderUnique
      <3>. QED BY <3>2 DEF n
    <2>3. (k + 1) % SLOT_COUNT = r + 1
      BY <2>1, <2>2
    <2>. QED BY <2>3, <1>1, <1>3, AfterType DEF r
  <1>. QED BY <1>2, <1>3

LEMMA RotateKeepsPicture ==
    ASSUME TypeOK, PictureFollowsCount, NEW drums, AnimationRotateNex(drums),
           UNCHANGED shown
    PROVE  PictureFollowsCount'
  <1>. SUFFICES ASSUME NEW d \in Drum
       PROVE drumSlot'[d] = (shown[d] + 1 + moving'[d]) % SLOT_COUNT
    BY DEF PictureFollowsCount
  <1>1. drumSlot[d] = (shown[d] + 1 + moving[d]) % SLOT_COUNT
    BY DEF PictureFollowsCount
  <1>2. moving[d] \in Nat /\ shown[d] \in Nat
    BY SlotAssumption DEF TypeOK, Slot
  <1>3. CASE d \in drums
    <2>1. drumSlot'[d] = After(drumSlot[d]) /\ moving'[d] = moving[d] + 1
      BY <1>3 DEF AnimationRotateNex
    <2>2. After((shown[d] + 1 + moving[d]) % SLOT_COUNT) = (shown[d] + 1 + moving[d] + 1) % SLOT_COUNT
      BY <1>2, AfterRemainder
    <2>. QED BY <1>1, <1>2, <2>1, <2>2
  <1>4. CASE d \notin drums
    <2>1. drumSlot'[d] = drumSlot[d] /\ moving'[d] = moving[d]
      BY <1>4 DEF AnimationRotateNex, TypeOK
    <2>. QED BY <1>1, <2>1
  <1>. QED BY <1>3, <1>4

\* The picture of every drum is where the code's count says it is.
THEOREM PictureCounted == Spec => []PictureFollowsCount
  <1>1. Init => PictureFollowsCount
    <2>1. 1 % SLOT_COUNT = 1
      BY SlotAssumption
    <2>. QED BY <2>1 DEF Init, PictureFollowsCount
  <1>2. TypeOK /\ PictureFollowsCount /\ [Next]_vars => PictureFollowsCount'
    <2>. SUFFICES ASSUME TypeOK, PictureFollowsCount, [Next]_vars
         PROVE PictureFollowsCount'
      OBVIOUS
    <2>1. CASE UNCHANGED <<drumSlot, shown, moving>>
      BY <2>1 DEF PictureFollowsCount
    <2>2. ASSUME NEW d \in Drum, FinishMove(d) PROVE PictureFollowsCount'
      <3>. SUFFICES ASSUME NEW e \in Drum
           PROVE drumSlot[e] = (shown'[e] + 1 + moving'[e]) % SLOT_COUNT
        BY <2>2 DEF FinishMove, PictureFollowsCount
      <3>1. drumSlot[e] = (shown[e] + 1 + moving[e]) % SLOT_COUNT
        BY DEF PictureFollowsCount
      <3>2. CASE e = d
        <4>1. moving[d] \in Nat /\ moving[d] > 0 /\ moving'[d] = moving[d] - 1 /\ shown'[d] = After(shown[d])
          BY <2>2 DEF FinishMove, TypeOK
        <4>2. (After(shown[d]) + moving[d]) % SLOT_COUNT = (shown[d] + 1 + moving[d]) % SLOT_COUNT
          BY <4>1, RingStep DEF TypeOK
        <4>3. After(shown[d]) + 1 + (moving[d] - 1) = After(shown[d]) + moving[d]
          <5>1. After(shown[d]) \in Nat
            BY AfterType, SlotAssumption DEF TypeOK, Slot
          <5>. QED BY <4>1, <5>1
        <4>. QED BY <3>1, <3>2, <4>1, <4>2, <4>3
      <3>3. CASE e # d
        BY <2>2, <3>1, <3>3 DEF FinishMove, TypeOK
      <3>. QED BY <3>2, <3>3
    <2>3. ASSUME NEW d \in Drum, FireStart(d) PROVE PictureFollowsCount'
      BY <2>3, RotateKeepsPicture DEF FireStart
    <2>4. CASE Update
      <3>1. PICK drums : AnimationRotateNex(drums)
        BY <2>4 DEF Update
      <3>2. UNCHANGED shown
        BY <2>4 DEF Update
      <3>. QED BY <3>1, <3>2, RotateKeepsPicture
    <2>. QED BY <2>1, <2>2, <2>3, <2>4 DEF Next, StartRotate, StopRotate, vars
  <1>. QED BY <1>1, <1>2, TypeCorrect, PTL DEF Spec

-----------------------------------------------------------------------------
\* The stop.

\* The drums that stop rotate now, are at their targets, and with each of
\* them the drums before it stop or have stopped.
LEMMA StoppingDrums ==
    ASSUME StopInv, NEW d \in Stopping
    PROVE  /\ d \in Drum /\ AtTarget(d) /\ caller = "stop" /\ ~started /\ d \notin pending
           /\ \A e \in Drum : e < d => e \notin pending /\ (e \in Stopping \/ Stopped(e))
  <1>1. PICK first \in 0..d : /\ first = 0 \/ ~drumRotate[first - 1]
                              /\ \A e \in first..d : AtTarget(e)
    BY DEF Stopping
  <1>2. d \in Drum /\ d \in Nat /\ first \in Drum
    BY <1>1, DrumAssumption DEF Stopping, Drum
  <1>3. AtTarget(d) /\ AtTarget(first)
    BY <1>1, <1>2
  <1>4. caller = "stop"
    <2>1. drumRotate[d] /\ drumSlotTarget[d] \in Slot
      BY <1>2, <1>3 DEF AtTarget, StopInv, TypeOK
    <2>2. UNKNOW \notin Slot
      BY SlotAssumption DEF UNKNOW, Slot
    <2>. QED BY <1>2, <2>1, <2>2 DEF StopInv, RestIsRest, SpinHasNoTarget, TypeOK
  <1>5. ~started /\ d \notin pending /\ first \notin pending
    BY <1>2, <1>3 DEF AtTarget, StopInv, StartsFromLeft
  <1>6. ASSUME NEW e \in Drum, e < d PROVE e \in Stopping \/ Stopped(e)
    <2>1. CASE first <= e
      <3>1. first \in 0..e /\ \A g \in first..e : g \in first..d
        BY <1>1, <1>2, <1>6, <2>1, DrumAssumption DEF Drum
      <3>. QED BY <1>1, <3>1 DEF Stopping
    <2>2. CASE e < first
      <3>1. first - 1 \in Drum /\ first - 1 < first /\ (e < first - 1 \/ e = first - 1) /\ ~drumRotate[first - 1]
        BY <1>1, <1>2, <2>2, DrumAssumption DEF Drum
      <3>2. Stopped(first - 1)
        BY <1>2, <1>5, <3>1 DEF Stopped, StopInv, StartsFromLeft
      <3>. QED BY <1>4, <3>1, <3>2 DEF StopInv, StopsFromLeft
    <2>. QED BY <1>2, <2>1, <2>2, DrumAssumption DEF Drum
  <1>7. \A e \in Drum : e < d => e \notin pending
    BY <1>2, <1>5 DEF StopInv, StartsFromLeft
  <1>. QED BY <1>2, <1>3, <1>4, <1>5, <1>6, <1>7

-----------------------------------------------------------------------------
LEMMA InitStop == Init => StopInv
  <1>. SUFFICES ASSUME Init PROVE StopInv
    OBVIOUS
  <1>1. RestIsRest /\ StartsFromLeft /\ SpinHasNoTarget /\ StopsFromLeft
    BY DEF Init, RestIsRest, StartsFromLeft, SpinHasNoTarget, StopsFromLeft
  <1>2. RestIsPastTarget
    BY DEF Init, RestIsPastTarget
  <1>. QED BY <1>1, <1>2, InitType DEF StopInv

LEMMA UpdateKeepsStop == StopInv /\ Update => StopInv'
  <1>. SUFFICES ASSUME StopInv, Update PROVE StopInv'
    OBVIOUS
  <1>. DEFINE moved == {d \in Drum : drumRotate[d] /\ ~drumRotatedStatus[d]}
              last == DRUM_COUNT - 1
  <1>1. TypeOK'
    BY NextType DEF Next, StopInv
  <1>2. last \in Drum /\ \A d \in Drum : d # last => d < last
    BY DrumAssumption DEF Drum
  <1>3. \A d \in Drum :
          /\ drumRotate'[d] = (drumRotate[d] /\ d \notin Stopping)
          /\ drumSlotTarget'[d] = IF d \in Stopping THEN UNKNOW ELSE drumSlotTarget[d]
          /\ drumSlot'[d] = IF d \in moved THEN After(drumSlot[d]) ELSE drumSlot[d]
    BY DEF Update, AnimationRotateNex
  <1>4. /\ caller' = (IF last \in Stopping THEN "rest" ELSE caller)
        /\ UNCHANGED asked
    BY DEF Update
  <1>5. /\ pending' = (IF started THEN pending \cup {d \in Drum : ~drumRotate'[d]} ELSE pending)
        /\ started' = (started /\ \A d \in Drum : drumRotate'[d])
    BY <1>3 DEF Update
  <1>6. Stopping # {} => caller = "stop" /\ ~started
    BY StoppingDrums
  <1>7. caller \in {"rest", "spin", "stop"}
    BY DEF StopInv, TypeOK
  <1>8. CASE started
    <2>1. Stopping = {} /\ moved = {} /\ caller \in {"spin", "stop"} /\ pending = {}
      BY <1>6, <1>7, <1>8 DEF StopInv, RestIsRest, StartsFromLeft
    <2>2. \A d \in Drum : ~drumRotate[d] /\ ~drumRotate'[d]
      BY <1>3, <1>8 DEF StopInv, StartsFromLeft
    <2>3. pending' = Drum /\ ~started'
      BY <1>2, <1>5, <1>8, <2>1, <2>2
    <2>4. \A d \in Drum : /\ drumSlot'[d] = drumSlot[d]
                          /\ drumSlotTarget'[d] = drumSlotTarget[d]
                          /\ ~Stopped(d) /\ ~Stopped(d)'
      BY <1>3, <1>8, <2>1, <2>3 DEF Stopped
    <2>5. caller' = caller
      BY <1>4, <2>1
    <2>6. RestIsRest' /\ RestIsPastTarget'
      BY <2>1, <2>5 DEF RestIsRest, RestIsPastTarget
    <2>7. StartsFromLeft'
      BY <2>2, <2>3 DEF StartsFromLeft
    <2>8. SpinHasNoTarget'
      BY <2>4, <2>5 DEF StopInv, SpinHasNoTarget
    <2>9. StopsFromLeft'
      BY <1>2, <1>4, <2>4, <2>5 DEF StopInv, StopsFromLeft
    <2>. QED BY <1>1, <2>6, <2>7, <2>8, <2>9 DEF StopInv
  <1>9. CASE ~started
    <2>1. ~started' /\ pending' = pending
      BY <1>5, <1>9
    <2>2. \A d \in Drum : d \in Stopping => /\ drumRotate[d] /\ d \in moved
                                            /\ drumSlotTarget[d] = drumSlot[d]
                                            /\ d \notin pending
      BY StoppingDrums DEF AtTarget
    <2>3. \A d \in Drum : Stopped(d)' <=> Stopped(d) \/ d \in Stopping
      BY <1>3, <1>9, <2>1, <2>2 DEF Stopped
    <2>4. StartsFromLeft'
      BY <1>3, <2>1 DEF StopInv, StartsFromLeft, TypeOK
    <2>5. CASE last \in Stopping
      <3>1. caller = "stop" /\ caller' = "rest"
        BY <1>4, <2>5, StoppingDrums
      <3>2. \A d \in Drum : d \notin pending /\ (d \in Stopping \/ Stopped(d))
        BY <1>2, <2>5, StoppingDrums
      <3>3. RestIsRest'
        <4>1. pending = {}
          BY <3>2 DEF StopInv, TypeOK
        <4>2. \A d \in Drum : ~drumRotate'[d]
          BY <1>3, <3>2 DEF Stopped
        <4>. QED BY <2>1, <4>1, <4>2 DEF RestIsRest
      <3>4. RestIsPastTarget'
        <4>. SUFFICES ASSUME NEW d \in Drum PROVE drumSlot'[d] = After(asked[d])
          BY <1>4 DEF RestIsPastTarget
        <4>1. CASE d \in Stopping
          <5>1. ~Stopped(d)
            BY <2>2, <4>1 DEF Stopped
          <5>2. drumSlot[d] = asked[d]
            BY <2>2, <3>1, <4>1, <5>1 DEF StopInv, StopsFromLeft
          <5>. QED BY <1>3, <2>2, <4>1, <5>2
        <4>2. CASE Stopped(d)
          <5>1. d \notin moved
            BY <4>2 DEF Stopped
          <5>. QED BY <1>3, <3>1, <4>2, <5>1 DEF StopInv, StopsFromLeft
        <4>. QED BY <3>2, <4>1, <4>2
      <3>5. SpinHasNoTarget' /\ StopsFromLeft'
        BY <3>1 DEF SpinHasNoTarget, StopsFromLeft
      <3>. QED BY <1>1, <2>4, <3>3, <3>4, <3>5 DEF StopInv
    <2>6. CASE last \notin Stopping
      <3>1. caller' = caller
        BY <1>4, <2>6
      <3>2. ASSUME caller = "rest" PROVE RestIsRest' /\ RestIsPastTarget'
        <4>1. Stopping = {} /\ \A d \in Drum : ~drumRotate[d] /\ d \notin moved
          BY <1>6, <3>2 DEF StopInv, RestIsRest
        <4>. QED BY <1>3, <1>4, <2>1, <3>1, <4>1 DEF StopInv, RestIsRest, RestIsPastTarget
      <3>3. ASSUME caller = "spin" PROVE SpinHasNoTarget'
        <4>1. Stopping = {}
          BY <1>6, <3>3
        <4>. QED BY <1>3, <2>3, <3>3, <4>1 DEF StopInv, SpinHasNoTarget
      <3>4. ASSUME caller = "stop" PROVE StopsFromLeft'
        <4>1. ~Stopped(last)'
          BY <1>2, <2>3, <2>6, <3>4 DEF StopInv, StopsFromLeft
        <4>2. ASSUME NEW d \in Drum, ~Stopped(d)' PROVE drumSlotTarget'[d] = asked[d]
          BY <1>3, <2>3, <3>4, <4>2 DEF StopInv, StopsFromLeft
        <4>3. ASSUME NEW d \in Drum, Stopped(d)'
              PROVE /\ drumSlotTarget'[d] = UNKNOW
                    /\ drumSlot'[d] = After(asked[d])
                    /\ \A e \in Drum : e < d => Stopped(e)'
          <5>1. CASE d \in Stopping
            <6>1. ~Stopped(d)
              BY <2>2, <5>1 DEF Stopped
            <6>2. drumSlot[d] = asked[d]
              BY <2>2, <3>4, <5>1, <6>1 DEF StopInv, StopsFromLeft
            <6>3. \A e \in Drum : e < d => Stopped(e)'
              BY <2>3, <5>1, StoppingDrums
            <6>. QED BY <1>3, <2>2, <5>1, <6>2, <6>3
          <5>2. CASE Stopped(d)
            <6>1. d \notin moved /\ d \notin Stopping
              BY <2>2, <5>2 DEF Stopped
            <6>. QED BY <1>3, <2>3, <3>4, <5>2, <6>1 DEF StopInv, StopsFromLeft
          <5>. QED BY <2>3, <4>3, <5>1, <5>2
        <4>. QED BY <1>4, <3>4, <4>1, <4>2, <4>3 DEF StopInv, StopsFromLeft
      <3>. QED BY <1>1, <1>7, <2>4, <3>1, <3>2, <3>3, <3>4
               DEF StopInv, RestIsRest, RestIsPastTarget, SpinHasNoTarget, StopsFromLeft
    <2>. QED BY <2>5, <2>6
  <1>. QED BY <1>8, <1>9

LEMMA NextStop == StopInv /\ [Next]_vars => StopInv'
  <1>. SUFFICES ASSUME StopInv, [Next]_vars PROVE StopInv'
    OBVIOUS
  <1>1. TypeOK'
    BY NextType DEF StopInv
  <1>2. DRUM_COUNT - 1 \in Drum
    BY DrumAssumption DEF Drum
  <1>3. CASE StartRotate
    <2>1. caller = "rest" /\ caller' = "spin" /\ started'
          /\ UNCHANGED <<drumSlot, drumRotate, pending>>
          /\ \A d \in Drum : drumSlotTarget'[d] = UNKNOW
      BY <1>3 DEF StartRotate
    <2>2. StartsFromLeft'
      BY <2>1 DEF StopInv, StartsFromLeft, RestIsRest
    <2>3. \A d \in Drum : ~Stopped(d)'
      BY <2>1 DEF Stopped
    <2>. QED BY <1>1, <2>1, <2>2, <2>3
             DEF StopInv, RestIsRest, SpinHasNoTarget, StopsFromLeft, RestIsPastTarget
  <1>4. ASSUME NEW slots \in [Drum -> Slot], StopRotate(slots) PROVE StopInv'
    <2>1. caller = "spin" /\ caller' = "stop" /\ asked' = slots /\ drumSlotTarget' = slots
          /\ UNCHANGED <<drumSlot, drumRotate, pending, started>>
      BY <1>4 DEF StopRotate
    <2>2. StartsFromLeft'
      BY <2>1 DEF StopInv, StartsFromLeft
    <2>3. \A d \in Drum : ~Stopped(d)'
      BY <2>1 DEF StopInv, SpinHasNoTarget, Stopped
    <2>4. StopsFromLeft'
      BY <1>2, <2>1, <2>3 DEF StopsFromLeft
    <2>. QED BY <1>1, <2>1, <2>2, <2>4
             DEF StopInv, RestIsRest, SpinHasNoTarget, RestIsPastTarget
  <1>5. ASSUME NEW d \in Drum, FireStart(d) PROVE StopInv'
    <2>1. /\ d \in pending
          /\ \A e \in pending : d <= e
          /\ pending' = pending \ {d}
          /\ drumRotate' = [drumRotate EXCEPT ![d] = TRUE]
          /\ AnimationRotateNex({d})
          /\ UNCHANGED <<drumSlotTarget, started, caller, asked>>
      BY <1>5 DEF FireStart
    <2>2. caller # "rest" /\ ~started
      BY <2>1 DEF StopInv, RestIsRest, StartsFromLeft
    <2>3. \A e \in Drum : drumRotate'[e] = IF e = d THEN TRUE ELSE drumRotate[e]
      BY <2>1 DEF StopInv, TypeOK
    <2>4. \A e \in Drum : e # d => drumSlot'[e] = drumSlot[e]
      BY <2>1 DEF AnimationRotateNex
    <2>5. \A e \in Drum : Stopped(e)' <=> Stopped(e)
      BY <2>1, <2>3 DEF Stopped
    <2>6. ~Stopped(d)
      BY <2>1 DEF Stopped
    <2>7. StartsFromLeft'
      <3>1. \A p \in pending', e \in Drum : p < e => e # d
        BY <2>1, DrumAssumption DEF StopInv, TypeOK, Drum
      <3>. QED BY <2>1, <2>2, <2>3, <3>1 DEF StopInv, StartsFromLeft, TypeOK
    <2>8. SpinHasNoTarget'
      BY <2>1, <2>5 DEF StopInv, SpinHasNoTarget
    <2>9. StopsFromLeft'
      BY <1>2, <2>1, <2>4, <2>5, <2>6 DEF StopInv, StopsFromLeft
    <2>. QED BY <1>1, <2>1, <2>2, <2>7, <2>8, <2>9
             DEF StopInv, RestIsRest, RestIsPastTarget
  <1>6. CASE Update
    BY <1>6, UpdateKeepsStop
  <1>7. CASE UNCHANGED <<drumSlot, drumSlotTarget, drumRotate, started, pending, caller, asked>>
    BY <1>1, <1>7 DEF StopInv, RestIsRest, StartsFromLeft, SpinHasNoTarget,
                      StopsFromLeft, RestIsPastTarget, Stopped
  <1>. QED BY <1>3, <1>4, <1>5, <1>6, <1>7 DEF Next, FinishMove, vars

LEMMA StopInvariant == Spec => []StopInv
  BY InitStop, NextStop, PTL DEF Spec

\* When GameScene is told that the reels have stopped, none of them rotates
\* and none is about to start.
THEOREM StoppedMeansStopped == Spec => []RestIsRest
  BY StopInvariant, PTL DEF StopInv

\* The reels come to rest on the combination they were given, whatever the
\* moment it was given at.
THEOREM RestShowsAnswer == Spec => []ShowsWhatWasAsked
  <1>1. StopInv /\ PictureFollowsCount => ShowsWhatWasAsked
    <2>. SUFFICES ASSUME StopInv, PictureFollowsCount, caller = "rest",
                         NEW d \in Drum, moving[d] = 0, asked[d] # UNKNOW
         PROVE shown[d] = asked[d]
      BY DEF ShowsWhatWasAsked
    <2>1. shown[d] \in Slot /\ asked[d] \in Slot
      BY DEF StopInv, TypeOK
    <2>2. drumSlot[d] = After(asked[d])
      BY DEF StopInv, RestIsPastTarget
    <2>3. drumSlot[d] = After(shown[d])
      <3>1. drumSlot[d] = (shown[d] + 1 + 0) % SLOT_COUNT
        BY DEF PictureFollowsCount
      <3>2. shown[d] + 1 + 0 = shown[d] + 1
        BY <2>1, SlotAssumption DEF Slot
      <3>. QED BY <3>1, <3>2 DEF After
    <2>. QED BY <2>1, <2>2, <2>3, AfterInjective
  <1>. QED BY <1>1, StopInvariant, PictureCounted, PTL

\* The drums stop from left to right.
THEOREM StopOrder == Spec => StopsLeftToRight
  <1>. DEFINE LeftFirst == \A d \in Drum : drumRotate[d] /\ ~drumRotate'[d]
                  => \A e \in Drum : e < d => ~drumRotate'[e] /\ e \notin pending'
  <1>1. StopInv /\ [Next]_vars => [LeftFirst]_vars
    <2>. SUFFICES ASSUME StopInv, Next, NEW d \in Drum, drumRotate[d], ~drumRotate'[d],
                         NEW e \in Drum, e < d
         PROVE ~drumRotate'[e] /\ e \notin pending'
      OBVIOUS
    <2>1. Update
      <3>1. ASSUME NEW f \in Drum, FireStart(f) PROVE FALSE
        BY <3>1 DEF FireStart, StopInv, TypeOK
      <3>. QED BY <3>1 DEF Next, StartRotate, StopRotate, FinishMove
    <2>2. d \in Stopping
      BY <2>1 DEF Update
    <2>3. ~started /\ e \notin pending /\ (e \in Stopping \/ Stopped(e))
      BY <2>2, StoppingDrums
    <2>. QED BY <2>1, <2>3 DEF Update, Stopped
  <1>. QED BY <1>1, StopInvariant, PTL DEF Spec, StopsLeftToRight
=============================================================================
