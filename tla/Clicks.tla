------------------------------- MODULE Clicks -------------------------------
(***************************************************************************)
(* What the touch driver promises to its listeners: a gesture is a CLICK,  *)
(* then TOUCH and HOLD events while the finger stays, then a RELEASE.  A   *)
(* HOLD comes after HoldAfter TOUCH events, and then after every HoldEvery *)
(* of them.  The hits of a gesture are 1, or one more than those of the    *)
(* gesture before (a double click, a triple click, ...).                   *)
(***************************************************************************)
EXTENDS Naturals

CONSTANTS HoldAfter, HoldEvery, Word

VARIABLES event,   \* the last event
          hits,    \* TouchPointTypeDef::hits of the last event
          left     \* how many TOUCH events come before the next HOLD

Down == {"CLICK", "TOUCH", "HOLD"}

Init ==
    /\ event = "NONE"
    /\ hits = 0
    /\ left = HoldAfter

Click ==
    /\ event \notin Down
    /\ event' = "CLICK"
    /\ hits' \in {1, (hits + 1) % Word}
    /\ UNCHANGED left

Touch ==
    /\ event \in Down
    /\ left > 0
    /\ event' = "TOUCH"
    /\ left' = left - 1
    /\ UNCHANGED hits

Hold ==
    /\ event \in Down
    /\ left = 0
    /\ event' = "HOLD"
    /\ left' = HoldEvery
    /\ UNCHANGED hits

Release ==
    /\ event \in Down
    /\ event' = "RELEASE"
    /\ left' = HoldAfter
    /\ UNCHANGED hits

Next == Click \/ Touch \/ Hold \/ Release

Spec == Init /\ [][Next]_<<event, hits, left>>

=============================================================================
