------------------------------ MODULE DrumNode ------------------------------
(***************************************************************************)
(* DrumNode (Classes/DrumNode.cpp): the five reels on the screen.  The     *)
(* scheduler of cocos2d runs, every frame, first the actions that are due  *)
(* (a reel's move of one slot ends, a delayed start fires) and then        *)
(* update; startRotate and stopRotate are called by GameScene between      *)
(* frames, when an answer of the server is dispatched.                     *)
(*                                                                         *)
(* A reel is a ring of sprites that moves down one slot at a time; what is *)
(* modelled of their positions is the slot in the lowest row (shown) and   *)
(* the moves of one slot that are not yet finished (moving).  Drums and    *)
(* slots have the numbers of the code, from 0.                             *)
(*                                                                         *)
(* The caller: GameScene starts the reels only when the last reel has      *)
(* stopped, and stops them once for every start (caller).                  *)
(***************************************************************************)
EXTENDS Integers

CONSTANTS
    DRUM_COUNT,   \* int(DrumID::COUNT)
    SLOT_COUNT,   \* int(SlotID::COUNT)
    MaxUnfinished \* bound: moves of a drum not yet finished at a new start

ASSUME DrumAssumption == DRUM_COUNT \in Nat \ {0}
ASSUME SlotAssumption == SLOT_COUNT \in Nat /\ SLOT_COUNT >= 2
ASSUME UnfinishedAssumption == MaxUnfinished \in Nat

VARIABLES
    drumSlot,          \* the slot each drum counts as its current one
    drumSlotTarget,    \* the slot each drum shall stop at, or UNKNOW
    drumRotate,        \* does the drum rotate?
    drumRotatedStatus, \* is a move of the drum under way?
    started,           \* has startRotate been called and no update run?
    pending,           \* the drums whose delayed start is scheduled
    shown,             \* the slot in the lowest row of the drum's picture
    moving,            \* the unfinished moves of the drum's sprites
    caller,            \* what GameScene expects: rest, spin, stop
    asked              \* the slots of the last stopRotate, or UNKNOW

vars == <<drumSlot, drumSlotTarget, drumRotate, drumRotatedStatus, started,
          pending, shown, moving, caller, asked>>

Drum == 0..(DRUM_COUNT - 1)
Slot == 0..(SLOT_COUNT - 1)
UNKNOW == SLOT_COUNT

\* The slot after s on the ring.
After(s) == (s + 1) % SLOT_COUNT

-----------------------------------------------------------------------------
Init ==
    /\ drumSlot = [d \in Drum |-> 1]
    /\ drumSlotTarget = [d \in Drum |-> UNKNOW]
    /\ drumRotate = [d \in Drum |-> FALSE]
    /\ drumRotatedStatus = [d \in Drum |-> FALSE]
    /\ started = FALSE
    /\ pending = {}
    /\ shown = [d \in Drum |-> 0]
    /\ moving = [d \in Drum |-> 0]
    /\ caller = "rest"
    /\ asked = [d \in Drum |-> UNKNOW]

\* Mutant: a drum whose sprites still move is not counted on.
AnimationRotateNexOnce(drums) ==
    /\ drumSlot' = [d \in Drum |-> IF d \in drums /\ moving[d] = 0 THEN After(drumSlot[d])
                                   ELSE drumSlot[d]]
    /\ moving' = [d \in Drum |-> IF d \in drums THEN moving[d] + 1 ELSE moving[d]]
    /\ drumRotatedStatus' = [d \in Drum |-> d \in drums \/ drumRotatedStatus[d]]

\* animationRotateNex for each drum of a set: count one slot further and let
\* the sprites move down by one.
AnimationRotateNex(drums) ==
    /\ drumSlot' = [d \in Drum |-> IF d \in drums THEN After(drumSlot[d]) ELSE drumSlot[d]]
    /\ moving' = [d \in Drum |-> IF d \in drums THEN moving[d] + 1 ELSE moving[d]]
    /\ drumRotatedStatus' = [d \in Drum |-> d \in drums \/ drumRotatedStatus[d]]

\* GameScene starts the reels (onSpinStart).  The player may be so quick that
\* the last move of the spin before is not finished yet; each such start adds
\* a move to those under way, so their number needs a bound.
StartRotate ==
    /\ caller = "rest"
    /\ \A d \in Drum : moving[d] <= MaxUnfinished
    /\ caller' = "spin"
    /\ drumSlotTarget' = [d \in Drum |-> UNKNOW]
    /\ started' = TRUE
    /\ UNCHANGED <<drumSlot, drumRotate, drumRotatedStatus, pending, shown, moving, asked>>

\* GameScene stops the reels at a combination (onSpinStop), however early.
StopRotate(slots) ==
    /\ caller = "spin"
    /\ caller' = "stop"
    /\ drumSlotTarget' = slots
    /\ asked' = slots
    /\ UNCHANGED <<drumSlot, drumRotate, drumRotatedStatus, started, pending, shown, moving>>

\* Mutant: the CallFunc is missing.
FinishMoveSilently(d) ==
    /\ moving[d] > 0
    /\ moving' = [moving EXCEPT ![d] = @ - 1]
    /\ shown' = [shown EXCEPT ![d] = After(@)]
    /\ UNCHANGED <<drumSlot, drumSlotTarget, drumRotate, drumRotatedStatus, started, pending,
                   caller, asked>>

\* The MoveBy of a drum's sprites ends and its CallFunc runs.
FinishMove(d) ==
    /\ moving[d] > 0
    /\ moving' = [moving EXCEPT ![d] = @ - 1]
    /\ shown' = [shown EXCEPT ![d] = After(@)]
    /\ drumRotatedStatus' = [drumRotatedStatus EXCEPT ![d] = FALSE]
    /\ UNCHANGED <<drumSlot, drumSlotTarget, drumRotate, started, pending, caller, asked>>

\* The delayed start of a drum fires.  The delay grows with the drum's
\* number, so the starts fire in the order of the numbers.
FireStart(d) ==
    /\ d \in pending
    /\ \A e \in pending : d <= e
    /\ pending' = pending \ {d}
    /\ drumRotate' = [drumRotate EXCEPT ![d] = TRUE]
    /\ AnimationRotateNex({d})
    /\ UNCHANGED <<drumSlotTarget, started, shown, caller, asked>>

\* A drum that update finds at its target between two moves.
AtTarget(d) ==
    /\ drumRotate[d]
    /\ ~drumRotatedStatus[d]
    /\ drumSlotTarget[d] = drumSlot[d]

\* Mutant: a drum does not wait for the one before it.
StoppingAtOnce == {d \in Drum : AtTarget(d)}

\* The drums that stop in this update.  update goes through them from left
\* to right and stops one at its target when the one before it does not
\* rotate, possibly because it has just been stopped.
Stopping ==
    {d \in Drum : \E first \in 0..d : /\ first = 0 \/ ~drumRotate[first - 1]
                                      /\ \A e \in first..d : AtTarget(e)}

\* Mutant: a drum that is stopped makes no further move.
UpdateStopsShort ==
    LET rotating == [d \in Drum |-> drumRotate[d] /\ d \notin Stopping]
    IN  /\ drumRotate' = rotating
        /\ drumSlotTarget' = [d \in Drum |-> IF d \in Stopping THEN UNKNOW
                                             ELSE drumSlotTarget[d]]
        /\ AnimationRotateNex({d \in Drum : rotating[d] /\ ~drumRotatedStatus[d]})
        /\ pending' = IF started THEN pending \cup {d \in Drum : ~rotating[d]} ELSE pending
        /\ started' = (started /\ \A d \in Drum : rotating[d])
        /\ caller' = IF DRUM_COUNT - 1 \in Stopping THEN "rest" ELSE caller
        /\ UNCHANGED <<shown, asked>>

\* One frame's update: stop drums, let every drum that is between two moves
\* make one more (also the one that has just been stopped), schedule the
\* delayed starts, and call onStopped when the last drum stops.
Update ==
    LET rotating == [d \in Drum |-> drumRotate[d] /\ d \notin Stopping]
    IN  /\ drumRotate' = rotating
        /\ drumSlotTarget' = [d \in Drum |-> IF d \in Stopping THEN UNKNOW
                                             ELSE drumSlotTarget[d]]
        /\ AnimationRotateNex({d \in Drum : drumRotate[d] /\ ~drumRotatedStatus[d]})
        /\ pending' = IF started THEN pending \cup {d \in Drum : ~rotating[d]} ELSE pending
        /\ started' = (started /\ \A d \in Drum : rotating[d])
        /\ caller' = IF DRUM_COUNT - 1 \in Stopping THEN "rest" ELSE caller
        /\ UNCHANGED <<shown, asked>>

Next ==
    \/ StartRotate
    \/ \E slots \in [Drum -> Slot] : StopRotate(slots)
    \/ \E d \in Drum : FinishMove(d)
    \/ \E d \in Drum : FireStart(d)
    \/ Update

\* The main loop of cocos2d runs frame after frame: due actions run and so
\* does update.  Nothing makes the player start or stop the reels.
Fairness ==
    /\ WF_vars(Update)
    /\ \A d \in Drum : WF_vars(FinishMove(d)) /\ WF_vars(FireStart(d))

Spec == Init /\ [][Next]_vars
FairSpec == Spec /\ Fairness

-----------------------------------------------------------------------------
\* The types of the state.
TypeOK ==
    /\ drumSlot \in [Drum -> Slot]
    /\ drumSlotTarget \in [Drum -> Slot \cup {UNKNOW}]
    /\ drumRotate \in [Drum -> BOOLEAN]
    /\ drumRotatedStatus \in [Drum -> BOOLEAN]
    /\ started \in BOOLEAN
    /\ pending \subseteq Drum
    /\ shown \in [Drum -> Slot]
    /\ moving \in [Drum -> Nat]
    /\ caller \in {"rest", "spin", "stop"}
    /\ asked \in [Drum -> Slot \cup {UNKNOW}]

\* The count of the code and the picture go together: the current slot of a
\* drum is one ahead of the picture (DrumNode.cpp:37) plus one for every
\* move that is still under way, also when a new spin begins while the last
\* move of the old one is unfinished.
PictureFollowsCount ==
    \A d \in Drum : drumSlot[d] = (shown[d] + 1 + moving[d]) % SLOT_COUNT

\* onStopped tells GameScene the truth: when it has been called, no drum
\* rotates, none is about to start, and no start is remembered
\* (DrumNode.cpp:171-174), however early the stop came.
RestIsRest ==
    caller = "rest" =>
        ~started /\ pending = {} /\ \A d \in Drum : ~drumRotate[d]

\* The drums come to rest on the slots that stopRotate asked for: the extra
\* move after the stop makes up for the count that is one ahead.
ShowsWhatWasAsked ==
    caller = "rest" =>
        \A d \in Drum : moving[d] = 0 /\ asked[d] # UNKNOW => shown[d] = asked[d]

\* The drums stop from left to right: a drum stops only when every drum
\* before it has started and stopped.
StopsLeftToRight ==
    [][\A d \in Drum : drumRotate[d] /\ ~drumRotate'[d]
          => \A e \in Drum : e < d => ~drumRotate'[e] /\ e \notin pending']_vars

\* Once the server's result is there, the reels do come to rest.
StopLeadsToRest == caller = "stop" ~> caller = "rest"
=============================================================================
