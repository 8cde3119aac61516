-------------------------- MODULE PageScriptProofs --------------------------
(***************************************************************************)
(* Proofs about the two parts of dsh-lan-guard that run inside DSH's own   *)
(* page and know nothing of each other: TurnRail, the script added to the  *)
(* served page, and WorkspacePicker, the flow occupant with its route.     *)
(*                                                                         *)
(* TurnRail, for any conversation, window, summaries, polls and number of  *)
(* fingers and gestures:                                                   *)
(*                                                                         *)
(* Quiet: a gesture that slides has an open card, so whatever closes the   *)
(* card also ends what was running for it.  With the finger that a hold    *)
(* timer waits for (Held), only that finger or a step's frame reopens it.  *)
(*                                                                         *)
(* Held: a touch that was held or dragged with no other finger down is the *)
(* captured one and its gesture is still under way, so its end takes the   *)
(* click away.                                                             *)
(*                                                                         *)
(* Card: a tooltip is believed only for the mark it was committed for or   *)
(* for the current turn, so what is stored for a turn the transcript has   *)
(* not been at is that turn's own summary.                                 *)
(*                                                                         *)
(* WorkspacePicker, for any file trees, fence, policies and numbers of     *)
(* requests and flows:                                                     *)
(*                                                                         *)
(* Sound: what is under way is a request, a path that passed the fence or  *)
(* an answer with a listing of such a path or a known reason, so whichever *)
(* answer lands, for whichever click, the sheet holds one of the two.      *)
(*                                                                         *)
(* Follows: where a walk along links stands no link is before it, and what *)
(* it has left to read is what so many hops lead to, so a walk that ends   *)
(* has found what the links lead to.  The inductions over the steps of a   *)
(* walk go by the least number that would be an exception.                 *)
(***************************************************************************)
EXTENDS TurnRail, WorkspacePicker, SequenceTheorems, FiniteSetTheorems,
        WellFoundedInduction, TLAPS

FingerMoves ==
    \E f \in Fingers :
      \/ \E p \in 1..Window : DownOnMark(f, p) \/ MoveScrub(f, p)
      \/ DownElsewhere(f) \/ MoveDrag(f)
      \/ \E cancelled \in BOOLEAN : Release(f, cancelled)

Timers ==
    HoldFires \/ AutoScroll \/ SwallowExpires \/ StepFrame(-1) \/ StepFrame(1)
      \/ Commit \/ Poll \/ SettleFires

Buttons == CloseCard \/ Jump \/ Step(-1) \/ Step(1)

LEMMA Steps == [Next]_vars => FingerMoves \/ Timers \/ Buttons \/ UNCHANGED vars
BY DEF Next, FingerMoves, Timers, Buttons

----------------------------------------------------------------------------
(* Quiet *)

CardOfGesture == mode = "scrub" => shown

QuietInv == CardAtRest /\ CardOfGesture

\* A preview opens the card, and starts no timer of the gesture.
LEMMA PreviewShows ==
    ASSUME NEW n, NEW stored, Preview(n, stored)
    PROVE  shown'
BY DEF Preview, Paint

LEMMA QuietFingers == QuietInv /\ FingerMoves => QuietInv'
<1> SUFFICES ASSUME QuietInv, NEW f \in Fingers,
                    \/ \E p \in 1..Window : DownOnMark(f, p) \/ MoveScrub(f, p)
                    \/ DownElsewhere(f) \/ MoveDrag(f)
                    \/ \E cancelled \in BOOLEAN : Release(f, cancelled)
             PROVE  QuietInv'
  BY DEF FingerMoves
<1> USE DEF QuietInv, CardAtRest, CardOfGesture
<1>1. ASSUME NEW p \in 1..Window, DownOnMark(f, p)
      PROVE  QuietInv'
  BY <1>1, RailAssumption DEF DownOnMark, HideCard, preview, Still, Unwatched
<1>2. ASSUME NEW p \in 1..Window, MoveScrub(f, p)
      PROVE  QuietInv'
  <2>1. shown' /\ mode' = "scrub" /\ hold' = hold
    BY <1>2, PreviewShows DEF MoveScrub, NoPreview, preview
  <2> QED BY <1>2, <2>1 DEF MoveScrub
<1>3. CASE DownElsewhere(f)
  BY <1>3 DEF DownElsewhere, Hide, HideCard, EndGesture, gesture, preview, Unwatched, Still
<1>4. CASE MoveDrag(f)
  BY <1>4 DEF MoveDrag, NoPreview, preview
<1>5. ASSUME NEW cancelled \in BOOLEAN, Release(f, cancelled)
      PROVE  QuietInv'
  <2>1. /\ shown' = shown /\ watch' = watch /\ mark' = mark
        /\ settle' = settle \/ mode = "scrub"
        /\ \/ mode' = "none" /\ hold' = 0 /\ scroll' = Still
           \/ UNCHANGED gesture
    BY <1>5 DEF Release, EndGesture, preview
  <2> QED BY <2>1 DEF gesture, Still
<1> QED BY <1>1, <1>2, <1>3, <1>4, <1>5

LEMMA QuietTimers == QuietInv /\ Timers => QuietInv'
<1> SUFFICES ASSUME QuietInv, Timers PROVE QuietInv'
  OBVIOUS
<1> USE DEF QuietInv, CardAtRest, CardOfGesture
<1>1. CASE HoldFires
  <2>1. CASE mode = "armed"
    BY <1>1, <2>1, PreviewShows DEF HoldFires
  <2>2. CASE mode # "armed"
    BY <1>1, <2>2 DEF HoldFires, NoPreview, preview
  <2> QED BY <2>1, <2>2
<1>2. CASE AutoScroll
  <2>1. shown' /\ hold' = hold /\ mode' = mode /\ pointer' = pointer
    BY <1>2, PreviewShows DEF AutoScroll, NoPreview, preview
  <2> QED BY <2>1
<1>3. CASE StepFrame(-1) \/ StepFrame(1)
  <2>1. shown' /\ UNCHANGED gesture
    BY <1>3, PreviewShows DEF StepFrame
  <2> QED BY <2>1 DEF gesture
<1>4. CASE Poll
  <2>1. watch.due /\ shown
    BY <1>4 DEF Poll
  <2>2. shown' /\ UNCHANGED gesture
    BY <1>4, <2>1 DEF Poll, Paint
  <2> QED BY <2>2 DEF gesture
<1>5. CASE SwallowExpires \/ Commit \/ SettleFires
  BY <1>5 DEF SwallowExpires, Commit, SettleFires, gesture, preview
<1> QED BY <1>1, <1>2, <1>3, <1>4, <1>5 DEF Timers

LEMMA QuietButtons == QuietInv /\ Buttons => QuietInv'
<1> SUFFICES ASSUME QuietInv, Buttons PROVE QuietInv'
  OBVIOUS
<1> USE DEF QuietInv, CardAtRest, CardOfGesture
<1>1. CASE CloseCard \/ Jump
  BY <1>1 DEF CloseCard, Jump, Hide, HideCard, EndGesture, Unwatched, Still
<1>2. ASSUME NEW dir, Step(dir)
      PROVE  QuietInv'
  <2>1. shown' /\ UNCHANGED gesture
    BY <1>2, PreviewShows DEF Step, Tap, NoPreview, preview
  <2> QED BY <2>1 DEF gesture
<1> QED BY <1>1, <1>2 DEF Buttons

LEMMA QuietHolds == Spec => []QuietInv
<1>1. Init => QuietInv
  BY DEF Init, QuietInv, CardAtRest, CardOfGesture, Unwatched, Still
<1>2. QuietInv /\ [Next]_vars => QuietInv'
  <2>1. QuietInv /\ UNCHANGED vars => QuietInv'
    BY DEF QuietInv, CardAtRest, CardOfGesture, vars, gesture, preview
  <2> QED BY <2>1, Steps, QuietFingers, QuietTimers, QuietButtons
<1> QED BY <1>1, <1>2, PTL DEF Spec

----------------------------------------------------------------------------
(* Held *)

Finger == [on : BOOLEAN, held : BOOLEAN, alone : BOOLEAN, turn : Int]

Positions == top \in Int /\ down \in [Fingers -> Finger]

\* A finger beside another one is not alone.
AloneIsAlone ==
    \A f, g \in Fingers : f # g /\ down[f].on /\ down[g].on => ~down[f].alone

Captured ==
    /\ mode # "none" => pointer \in Fingers
    /\ hold # 0 => mode = "armed" /\ \E g \in Fingers : HeldBy(g, hold)

\* The gesture of a touch that was held by itself is under way.
HeldIsCaptured ==
    \A f \in Fingers :
      down[f].on /\ down[f].held /\ down[f].alone =>
        mode \in {"scrub", "drag"} /\ pointer = f

HeldInv ==
    Positions /\ AloneIsAlone /\ Captured /\ HeldIsCaptured /\ HeldNeverNavigates

\* Another finger arrives: it is alone or nobody is.
LEMMA TouchAlone ==
    ASSUME Positions, AloneIsAlone, HeldIsCaptured,
           NEW f \in Fingers, NEW turn \in Int, Touch(f, turn), top' \in Int
    PROVE  /\ Positions' /\ AloneIsAlone'
           /\ \A g \in Fingers : ~(down'[g].on /\ down'[g].held /\ down'[g].alone)
           /\ down'[f].on /\ down'[f].turn = turn
           /\ \A g \in Fingers :
                down[g].on => down'[g].on /\ down'[g].turn = down[g].turn
<1> DEFINE mine == [Up EXCEPT !.on = TRUE, !.turn = turn,
                              !.alone = \A o \in Fingers : ~down[o].on]
           other(g) == [down[g] EXCEPT !.alone = FALSE]
<1> DEFINE nobody == \A o \in Fingers : ~down[o].on
<1>1. /\ mine \in Finger /\ mine.on /\ ~mine.held /\ mine.turn = turn
      /\ mine.alone <=> nobody
  <2>1. \A b \in BOOLEAN :
          LET m == [Up EXCEPT !.on = TRUE, !.turn = turn, !.alone = b]
          IN  /\ m \in Finger /\ m.on = TRUE /\ m.held = FALSE
              /\ m.alone = b /\ m.turn = turn
    BY DEF Up, Finger
  <2>2. nobody \in BOOLEAN
    OBVIOUS
  <2> QED BY <2>1, <2>2
<1>2. \A g \in Fingers :
         /\ other(g) \in Finger /\ ~other(g).alone /\ other(g).on = down[g].on
         /\ other(g).turn = down[g].turn
  BY DEF Positions, Finger
<1>3. down' = [g \in Fingers |-> IF g = f THEN mine ELSE other(g)]
  BY DEF Touch
<1> HIDE DEF mine, other
<1>5. Positions'
  BY <1>1, <1>2, <1>3 DEF Positions
<1>6. \A g \in Fingers : g # f => ~down'[g].alone /\ down'[g].on = down[g].on
  BY <1>2, <1>3
<1>7. ~down'[f].held /\ (down'[f].alone <=> \A o \in Fingers : ~down[o].on)
  BY <1>1, <1>3
<1>8. AloneIsAlone'
  BY <1>6, <1>7 DEF AloneIsAlone
<1>9. ~down[f].on
  BY DEF Touch
<1> QED BY <1>1, <1>2, <1>3, <1>5, <1>6, <1>7, <1>8, <1>9

\* A finger that taps a button leaves none of the others alone.
LEMMA TapAlone ==
    ASSUME Positions, Tap, top' \in Int
    PROVE  /\ Positions' /\ AloneIsAlone'
           /\ \A g \in Fingers :
                /\ ~(down'[g].on /\ down'[g].alone)
                /\ down'[g].on = down[g].on /\ down'[g].turn = down[g].turn
<1>1. \A g \in Fingers :
        LET d == [down[g] EXCEPT !.alone = ~down[g].on]
        IN  /\ d \in Finger /\ ~(d.on /\ d.alone)
            /\ d.on = down[g].on /\ d.turn = down[g].turn
  BY DEF Positions, Finger
<1>2. \A g \in Fingers :
        /\ down'[g] \in Finger /\ ~(down'[g].on /\ down'[g].alone)
        /\ down'[g].on = down[g].on /\ down'[g].turn = down[g].turn
  BY <1>1 DEF Tap
<1>3. down' \in [Fingers -> Finger]
  BY <1>2 DEF Tap
<1> QED BY <1>2, <1>3 DEF Positions, AloneIsAlone

\* A touch becomes a gesture, or ends.
LEMMA MarkHeld ==
    ASSUME Positions, AloneIsAlone, NEW f \in Fingers, down[f].on, top' \in Int,
           down' = [down EXCEPT ![f].held = TRUE]
    PROVE  /\ Positions' /\ AloneIsAlone'
           /\ \A g \in Fingers : g # f => ~(down'[g].on /\ down'[g].alone)
<1>1. [down[f] EXCEPT !.held = TRUE] \in Finger
      /\ [down[f] EXCEPT !.held = TRUE].on = down[f].on
      /\ [down[f] EXCEPT !.held = TRUE].alone = down[f].alone
  BY DEF Positions, Finger
<1>2. down' = [down EXCEPT ![f] = [down[f] EXCEPT !.held = TRUE]]
  BY DEF Positions
<1>3. \A g \in Fingers : down'[g].on = down[g].on /\ down'[g].alone = down[g].alone
  BY <1>1, <1>2 DEF Positions
<1>4. Positions'
  BY <1>1, <1>2 DEF Positions
<1> QED BY <1>3, <1>4 DEF AloneIsAlone

LEMMA LiftFinger ==
    ASSUME Positions, AloneIsAlone, NEW f \in Fingers, down' = [down EXCEPT ![f] = Up],
           top' \in Int
    PROVE  /\ Positions' /\ AloneIsAlone' /\ ~down'[f].on
           /\ \A g \in Fingers : g # f => down'[g] = down[g]
BY DEF Positions, AloneIsAlone, Up, Finger

LEMMA HeldFingers == HeldInv /\ FingerMoves => HeldInv'
<1> SUFFICES ASSUME HeldInv, NEW f \in Fingers,
                    \/ \E p \in 1..Window : DownOnMark(f, p) \/ MoveScrub(f, p)
                    \/ DownElsewhere(f) \/ MoveDrag(f)
                    \/ \E cancelled \in BOOLEAN : Release(f, cancelled)
             PROVE  HeldInv'
  BY DEF FingerMoves
<1> USE DEF HeldInv
<1>1. ASSUME NEW p \in 1..Window, DownOnMark(f, p)
      PROVE  HeldInv'
  <2>1. Touch(f, top + p) /\ top' = top /\ top + p \in Int
    BY <1>1 DEF DownOnMark, official, Positions
  <2>2. down'[f].on /\ down'[f].turn = top + p
    BY <2>1, TouchAlone DEF Positions
  <2>3. Captured' /\ strayed' = strayed
    BY <1>1, <2>2 DEF DownOnMark, Captured, HeldBy
  <2> QED BY <2>1, <2>3, TouchAlone DEF HeldIsCaptured, HeldNeverNavigates, Positions
<1>2. ASSUME NEW p \in 1..Window, MoveScrub(f, p)
      PROVE  HeldInv'
  BY <1>2 DEF MoveScrub, Positions, AloneIsAlone, Captured, HeldBy, HeldIsCaptured,
              HeldNeverNavigates
<1>3. CASE DownElsewhere(f)
  <2>1. Touch(f, 0) /\ top' = top /\ strayed' = strayed
    BY <1>3 DEF DownElsewhere, official
  <2>2. \A g \in Fingers : down[g].on => down'[g].on /\ down'[g].turn = down[g].turn
    BY <2>1, TouchAlone DEF Positions
  <2>3. Captured'
    BY <1>3, <2>2 DEF DownElsewhere, Hide, EndGesture, Captured, HeldBy, gesture
  <2> QED BY <2>1, <2>3, TouchAlone DEF HeldIsCaptured, HeldNeverNavigates, Positions
<1>4. CASE MoveDrag(f)
  <2>1. /\ down[f].on /\ mode # "none" /\ pointer \in {0, f} /\ pointer' = pointer
        /\ mode' = "drag" /\ down' = [down EXCEPT ![f].held = TRUE]
        /\ strayed' = strayed /\ hold' = 0
    BY <1>4 DEF MoveDrag, Heard, Captured
  <2>2. top' \in Int
    BY <1>4 DEF MoveDrag, Slide, Positions
  <2>3. pointer = f
    BY <2>1, RailAssumption DEF Captured
  <2>4. /\ Positions' /\ AloneIsAlone'
        /\ \A g \in Fingers : g # f => ~(down'[g].on /\ down'[g].alone)
    BY <2>1, <2>2, MarkHeld
  <2> QED BY <2>1, <2>3, <2>4 DEF Captured, HeldIsCaptured, HeldNeverNavigates
<1>5. ASSUME NEW cancelled \in BOOLEAN, Release(f, cancelled)
      PROVE  HeldInv'
  <2> DEFINE taken == swallow \/ (Swallows(cancelled) /\ (cancelled \/ Heard(f)))
  <2>1. /\ down[f].on /\ down' = [down EXCEPT ![f] = Up] /\ top' = top
        /\ IF cancelled \/ Heard(f) THEN EndGesture ELSE UNCHANGED gesture
        /\ Click(f, taken) \/ strayed' = strayed
    BY <1>5 DEF Release, NoClickFollows
  <2>2. /\ Positions' /\ AloneIsAlone' /\ ~down'[f].on
        /\ \A g \in Fingers : g # f => down'[g] = down[g]
    BY <2>1, LiftFinger DEF Positions
  <2>3. ~strayed'
    <3>1. down[f].held /\ down[f].alone => taken
      BY <2>1 DEF HeldIsCaptured, Swallows, Heard
    <3> QED BY <2>1, <3>1 DEF Click, HeldNeverNavigates
  <2>4. Captured'
    <3>1. CASE cancelled \/ Heard(f)
      BY <2>1, <3>1 DEF Captured, EndGesture
    <3>2. CASE ~Heard(f) /\ UNCHANGED gesture
      <4>1. \A g \in Fingers : HeldBy(g, hold) => down'[g] = down[g]
        BY <2>1, <2>2, <3>2 DEF HeldBy, Heard
      <4> QED BY <3>2, <4>1 DEF Captured, HeldBy, gesture
    <3> QED BY <2>1, <3>1, <3>2
  <2>5. HeldIsCaptured'
    <3>1. \A g \in Fingers : ~(down'[g].on /\ down'[g].alone /\ g # f)
      BY <2>1, <2>2 DEF AloneIsAlone
    <3> QED BY <2>2, <3>1 DEF HeldIsCaptured
  <2> QED BY <2>2, <2>3, <2>4, <2>5 DEF HeldNeverNavigates
<1> QED BY <1>1, <1>2, <1>3, <1>4, <1>5

LEMMA HeldTimers == HeldInv /\ Timers => HeldInv'
<1> SUFFICES ASSUME HeldInv, Timers PROVE HeldInv'
  OBVIOUS
<1> USE DEF HeldInv
<1>1. CASE HoldFires
  <2>1. /\ mode = "armed" /\ mode' = "scrub" /\ hold' = 0 /\ pointer' = pointer
        /\ top' = top /\ strayed' = strayed
        /\ down' = [g \in Fingers |->
              IF g = pointer THEN [down[g] EXCEPT !.held = TRUE] ELSE down[g]]
    BY <1>1 DEF HoldFires, Captured
  <2>2. pointer \in Fingers
    BY <2>1 DEF Captured
  <2>3. \A g \in Fingers :
           /\ down'[g] \in Finger
           /\ down'[g].on = down[g].on /\ down'[g].alone = down[g].alone
           /\ g # pointer => down'[g].held = down[g].held
    BY <2>1 DEF Positions, Finger
  <2>4. down' \in [Fingers -> Finger]
    BY <2>1, <2>3
  <2>5. \A g \in Fingers : g # pointer => ~(down[g].on /\ down[g].held /\ down[g].alone)
    BY <2>1 DEF HeldIsCaptured
  <2> QED BY <2>1, <2>2, <2>3, <2>4, <2>5
          DEF Positions, AloneIsAlone, Captured, HeldIsCaptured, HeldNeverNavigates
<1>2. CASE AutoScroll
  <2>1. /\ top' \in Int
        /\ UNCHANGED <<mode, hold, pointer, down, strayed>>
    BY <1>2 DEF AutoScroll, Positions
  <2> QED BY <2>1 DEF Positions, AloneIsAlone, Captured, HeldBy, HeldIsCaptured, HeldNeverNavigates
<1>3. CASE SwallowExpires \/ StepFrame(-1) \/ StepFrame(1) \/ Commit \/ Poll \/ SettleFires
  <2>1. UNCHANGED <<mode, hold, pointer, top, down, strayed>>
    BY <1>3 DEF SwallowExpires, StepFrame, Commit, Poll, SettleFires, gesture, official
  <2> QED BY <2>1 DEF Positions, AloneIsAlone, Captured, HeldBy, HeldIsCaptured, HeldNeverNavigates
<1> QED BY <1>1, <1>2, <1>3 DEF Timers

LEMMA HeldButtons == HeldInv /\ Buttons => HeldInv'
<1> SUFFICES ASSUME HeldInv, Buttons PROVE HeldInv'
  OBVIOUS
<1> USE DEF HeldInv
<1>1. Tap /\ strayed' = strayed
  BY DEF Buttons, CloseCard, Jump, Step
<1>2. top' \in Int
  <2>1. CASE CloseCard \/ Jump
    BY <2>1 DEF CloseCard, Jump, official, Positions
  <2>2. ASSUME NEW dir \in Int, Step(dir)
        PROVE  top' \in Int
    BY <2>2 DEF Step, Slide, Positions
  <2> QED BY <2>1, <2>2 DEF Buttons
<1>3. \A g \in Fingers : down'[g].on = down[g].on /\ down'[g].turn = down[g].turn
  BY <1>1, <1>2, TapAlone
<1>4. Captured'
  BY <1>3 DEF Buttons, CloseCard, Jump, Step, Hide, EndGesture, gesture, Captured, HeldBy
<1> QED BY <1>1, <1>2, <1>4, TapAlone DEF HeldIsCaptured, HeldNeverNavigates

LEMMA HeldHolds == Spec => []HeldInv
<1>1. Init => HeldInv
  <2> SUFFICES ASSUME Init PROVE HeldInv
    OBVIOUS
  <2>1. Up \in Finger /\ ~Up.on
    BY DEF Up, Finger
  <2>2. Positions
    BY <2>1 DEF Init, Positions
  <2> QED BY <2>1, <2>2 DEF Init, HeldInv, AloneIsAlone, Captured, HeldIsCaptured,
                            HeldNeverNavigates
<1>2. HeldInv /\ [Next]_vars => HeldInv'
  <2>1. HeldInv /\ UNCHANGED vars => HeldInv'
    BY DEF HeldInv, Positions, AloneIsAlone, Captured, HeldBy, HeldIsCaptured,
           HeldNeverNavigates, vars, gesture, official
  <2> QED BY <2>1, Steps, HeldFingers, HeldTimers, HeldButtons
<1> QED BY <1>1, <1>2, PTL DEF Spec

\* Holding or dragging never navigates, also when the system takes the pointer
\* away: the click that follows such a touch is swallowed (finish, cancel).
THEOREM HoldingIsSafe == Spec => []HeldNeverNavigates
<1>1. HeldInv => HeldNeverNavigates
  BY DEF HeldInv
<1> QED BY <1>1, HeldHolds, PTL

\* A step that shows a hidden card is the hold timer, for a finger that is
\* still on its mark, or the frame of a step.
LEMMA WhatReopens == QuietInv /\ HeldInv /\ [Next]_vars => Reopens
<1> SUFFICES ASSUME QuietInv, HeldInv, [Next]_vars, ~shown, shown'
             PROVE  \/ hold # 0 /\ \E f \in Fingers : HeldBy(f, mark')
                    \/ \E dir \in frame : frame' = frame \ {dir}
  BY DEF Reopens
<1>1. mode # "scrub" /\ ~scroll.due /\ ~watch.due
  BY DEF QuietInv, CardOfGesture, CardAtRest
<1>2. ~FingerMoves
  BY <1>1 DEF FingerMoves, DownOnMark, MoveScrub, DownElsewhere, MoveDrag, Release,
              NoPreview, preview, Hide, HideCard
<1>3. ~Buttons
  BY DEF Buttons, CloseCard, Jump, Step, Tap
<1>4. CASE HoldFires
  BY <1>4 DEF HoldFires, HeldInv, Captured, Preview, NoPreview, preview
<1>5. CASE StepFrame(-1) \/ StepFrame(1)
  BY <1>5 DEF StepFrame
<1>6. ~(AutoScroll \/ Poll)
  BY <1>1 DEF AutoScroll, Poll
<1>7. ~(SwallowExpires \/ Commit \/ SettleFires \/ UNCHANGED vars)
  BY DEF SwallowExpires, Commit, SettleFires, preview, vars
<1> QED BY <1>2, <1>3, <1>4, <1>5, <1>6, <1>7, Steps DEF Timers

\* The close button, an outside tap and the jump end the card's polling, its
\* settle timer and the edge scrolling together (hide), and afterwards only a
\* finger holding a mark, or the frame of a step tapped before, shows a card.
THEOREM HiddenIsQuiet == Spec => HiddenStaysHidden
<1>1. QuietInv /\ QuietInv' /\ HeldInv /\ [Next]_vars =>
        [CardAtRest' /\ Reopens]_vars
  BY WhatReopens DEF QuietInv
<1> QED BY <1>1, QuietHolds, HeldHolds, PTL DEF Spec, HiddenStaysHidden

----------------------------------------------------------------------------
(* Card *)

Places ==
    /\ top \in 0..(Turns - Window) /\ at \in 1..Window
    /\ hold \in 0..Turns /\ mark \in 0..Turns
    /\ shown => mark # 0
    /\ current \in visited

\* What is stored for a turn the transcript has not been at is its summary.
CacheTells ==
    /\ cache = [t \in 1..Turns |-> cache[t]]
    /\ \A t \in 1..Turns : t \notin visited => cache[t] \in {Pending, Text[t]}

CardInv == Places /\ CacheTells /\ CardTellsTheTurn

\* A rendered mark is that of a turn.
LEMMA MarksAreTurns ==
    ASSUME NEW t \in 0..(Turns - Window), NEW p \in 1..Window
    PROVE  t + p \in 1..Turns
BY RailAssumption

LEMMA SlideStays ==
    ASSUME Places, NEW to, Slide(to)
    PROVE  top' \in 0..(Turns - Window)
BY DEF Slide, Places

\* Painting the card of a turn.
LEMMA PaintTells ==
    ASSUME CardInv, NEW n \in 1..Turns, NEW base, NEW same, Paint(n, base, same, cache),
           visited' = visited
    PROVE  CacheTells' /\ (n \notin visited => text' \in {Pending, Text[n]}) /\ shown'
<1>1. CASE Readable(n, base, same)
  <2>1. n \notin visited => Text[tip] = Text[n]
    BY <1>1 DEF Readable, PreviewReady, CardInv, Places
  <2>2. text' = Text[tip] /\ cache' = [cache EXCEPT ![n] = Text[tip]] /\ shown'
    BY <1>1 DEF Paint
  <2> QED BY <2>1, <2>2 DEF CardInv, CacheTells
<1>2. CASE ~Readable(n, base, same)
  BY <1>2 DEF Paint, CardInv, CacheTells
<1> QED BY <1>1, <1>2

\* A preview of a rendered mark, from a place that stays one.
LEMMA PreviewTells ==
    ASSUME CardInv, NEW n \in 1..Turns, Preview(n, cache),
           visited' = visited, current' = current,
           top' \in 0..(Turns - Window), at' \in 1..Window, hold' \in 0..Turns
    PROVE  CardInv'
<1>1. PICK base : mark' = n /\ Paint(n, base, 0 >= SameAfter, cache)
  BY DEF Preview
<1>2. CacheTells' /\ (n \notin visited => text' \in {Pending, Text[n]}) /\ shown'
  BY <1>1, PaintTells
<1> QED BY <1>1, <1>2, RailAssumption DEF CardInv, Places, CardTellsTheTurn

\* A card that stays as it is goes on telling its turn: the transcript has
\* been at more turns, never at fewer.
LEMMA SameCard ==
    ASSUME CardInv, UNCHANGED <<shown, text, mark, cache>>,
           visited \subseteq visited', current' \in visited',
           top' \in 0..(Turns - Window), at' \in 1..Window, hold' \in 0..Turns
    PROVE  CardInv'
BY DEF CardInv, Places, CacheTells, CardTellsTheTurn

LEMMA HiddenCard ==
    ASSUME CardInv, HideCard, current' \in visited',
           top' \in 0..(Turns - Window), at' \in 1..Window, hold' \in 0..Turns
    PROVE  CardInv'
BY RailAssumption DEF CardInv, HideCard, NoCache, Pending, Places, CacheTells, CardTellsTheTurn

LEMMA CardFingers == CardInv /\ FingerMoves => CardInv'
<1> SUFFICES ASSUME CardInv, NEW f \in Fingers,
                    \/ \E p \in 1..Window : DownOnMark(f, p) \/ MoveScrub(f, p)
                    \/ DownElsewhere(f) \/ MoveDrag(f)
                    \/ \E cancelled \in BOOLEAN : Release(f, cancelled)
             PROVE  CardInv'
  BY DEF FingerMoves
<1>0. Places /\ 1 \in 1..Window /\ 0 \in 0..Turns
  BY RailAssumption DEF CardInv
<1>1. ASSUME NEW p \in 1..Window, DownOnMark(f, p)
      PROVE  CardInv'
  <2>1. top + p \in 1..Turns
    BY <1>0, MarksAreTurns DEF Places
  <2>2. /\ top' = top /\ at' = p /\ hold' = top + p /\ hold' \in 0..Turns
        /\ current' = current /\ visited' = visited
        /\ HideCard \/ UNCHANGED preview
    BY <1>1, <2>1 DEF DownOnMark, official
  <2> QED BY <1>0, <2>2, SameCard, HiddenCard DEF Places, preview
<1>2. ASSUME NEW p \in 1..Window, MoveScrub(f, p)
      PROVE  CardInv'
  <2>1. top + p \in 1..Turns
    BY <1>0, MarksAreTurns DEF Places
  <2>2. /\ top' = top /\ at' = p /\ hold' = hold /\ current' = current /\ visited' = visited
        /\ Preview(top + p, cache) \/ UNCHANGED preview
    BY <1>2 DEF MoveScrub, NoPreview
  <2> QED BY <1>0, <2>1, <2>2, PreviewTells, SameCard DEF Places, preview
<1>3. CASE DownElsewhere(f)
  <2>1. /\ top' = top /\ current' = current /\ visited' = visited
        /\ \/ HideCard /\ at' = 1 /\ hold' = 0
           \/ UNCHANGED preview /\ at' = at /\ hold' = hold
    BY <1>3 DEF DownElsewhere, Hide, EndGesture, gesture, official
  <2> QED BY <1>0, <2>1, SameCard, HiddenCard DEF Places, preview
<1>4. CASE MoveDrag(f)
  <2>1. /\ at' = at /\ hold' \in {0, hold} /\ current' = current /\ visited' = visited
        /\ UNCHANGED preview /\ \E to : Slide(to)
    BY <1>4 DEF MoveDrag, NoPreview
  <2> QED BY <1>0, <2>1, SlideStays, SameCard DEF Places, preview
<1>5. ASSUME NEW cancelled \in BOOLEAN, Release(f, cancelled)
      PROVE  CardInv'
  <2>1. /\ top' = top /\ UNCHANGED preview
        /\ \/ at' = 1 /\ hold' = 0
           \/ at' = at /\ hold' = hold
    BY <1>5 DEF Release, EndGesture, gesture
  <2>2. visited \subseteq visited' /\ current' \in visited'
    BY <1>0, <1>5 DEF Release, Click, NoClickFollows, Places
  <2> QED BY <1>0, <2>1, <2>2, SameCard DEF Places, preview
<1> QED BY <1>1, <1>2, <1>3, <1>4, <1>5

LEMMA CardTimers == CardInv /\ Timers => CardInv'
<1> SUFFICES ASSUME CardInv, Timers PROVE CardInv'
  OBVIOUS
<1>0. Places /\ 0 \in 0..Turns
  BY RailAssumption DEF CardInv
<1>1. CASE HoldFires
  <2>1. /\ hold # 0 /\ hold' = 0 /\ top' = top /\ at' = at
        /\ current' = current /\ visited' = visited
        /\ Preview(hold, cache) \/ UNCHANGED preview
    BY <1>1 DEF HoldFires, NoPreview
  <2>2. hold \in 1..Turns
    BY <1>0, <2>1 DEF Places
  <2> QED BY <1>0, <2>1, <2>2, PreviewTells, SameCard DEF Places, preview
<1>2. CASE AutoScroll
  <2>1. /\ hold' = hold /\ at' = at /\ current' = current /\ visited' = visited
        /\ top' \in 0..(Turns - Window)
        /\ UNCHANGED preview \/ Preview(top' + at, cache)
    BY <1>0, <1>2 DEF AutoScroll, NoPreview, Places
  <2>2. top' + at \in 1..Turns
    BY <1>0, <2>1, MarksAreTurns DEF Places
  <2> QED BY <1>0, <2>1, <2>2, PreviewTells, SameCard DEF Places, preview
<1>3. CASE StepFrame(-1) \/ StepFrame(1)
  <2>1. /\ UNCHANGED gesture /\ top' = top /\ current' = current /\ visited' = visited
        /\ \E p \in {1, Window} : Preview(top + p, cache)
    BY <1>3 DEF StepFrame
  <2>2. \A p \in {1, Window} : top + p \in 1..Turns
    BY <1>0, MarksAreTurns, RailAssumption DEF Places
  <2> QED BY <1>0, <2>1, <2>2, PreviewTells DEF Places, gesture
<1>4. CASE Commit
  <2>1. UNCHANGED <<gesture, shown, mark, current, top, visited>>
    BY <1>4 DEF Commit
  <2>2. CASE /\ watch.node # 0 /\ watch.node = mark /\ shown
             /\ (hovered = mark \/ current = mark) /\ Text[hovered] # baseline
    <3>1. text' = Text[hovered] /\ cache' = [cache EXCEPT ![mark] = Text[hovered]]
      BY <1>4, <2>2 DEF Commit
    <3>2. mark \notin visited => Text[hovered] = Text[mark]
      BY <1>0, <2>2 DEF Places
    <3> QED BY <1>0, <2>1, <3>1, <3>2
            DEF CardInv, Places, CacheTells, CardTellsTheTurn, gesture
  <2>3. CASE text' = cache[mark] /\ cache' = cache /\ shown
    <3>1. mark \in 1..Turns
      BY <1>0, <2>3 DEF Places
    <3> QED BY <1>0, <2>1, <2>3, <3>1
            DEF CardInv, Places, CacheTells, CardTellsTheTurn, gesture
  <2>4. CASE UNCHANGED <<text, cache>>
    BY <1>0, <2>1, <2>4, SameCard DEF Places, gesture
  <2> QED BY <1>4, <2>2, <2>3, <2>4 DEF Commit
<1>5. CASE Poll
  <2>1. UNCHANGED <<gesture, mark, current, top, visited>>
    BY <1>5 DEF Poll
  <2>2. CASE shown /\ mark = watch.node
    <3>1. Paint(mark, baseline, watch.polls >= SameAfter, cache) /\ mark \in 1..Turns
      BY <1>0, <1>5, <2>2 DEF Poll, Places
    <3>2. CacheTells' /\ (mark \notin visited => text' \in {Pending, Text[mark]})
      BY <2>1, <3>1, PaintTells
    <3> QED BY <1>0, <2>1, <3>1, <3>2
            DEF CardInv, Places, CardTellsTheTurn, gesture
  <2>3. CASE ~(shown /\ mark = watch.node)
    <3>1. UNCHANGED <<shown, text, cache>>
      BY <1>5, <2>3 DEF Poll
    <3> QED BY <1>0, <2>1, <3>1, SameCard DEF Places, gesture
  <2> QED BY <2>2, <2>3
<1>6. CASE SwallowExpires \/ SettleFires
  <2>1. UNCHANGED <<gesture, preview, current, top, visited>>
    BY <1>6 DEF SwallowExpires, SettleFires, official
  <2> QED BY <1>0, <2>1, SameCard DEF Places, gesture, preview
<1> QED BY <1>1, <1>2, <1>3, <1>4, <1>5, <1>6 DEF Timers

LEMMA CardButtons == CardInv /\ Buttons => CardInv'
<1> SUFFICES ASSUME CardInv, Buttons PROVE CardInv'
  OBVIOUS
<1>0. Places /\ 1 \in 1..Window /\ 0 \in 0..Turns
  BY RailAssumption DEF CardInv
<1>1. CASE CloseCard \/ Jump
  <2>1. HideCard /\ at' = 1 /\ hold' = 0 /\ top' = top /\ current' \in visited'
    BY <1>0, <1>1 DEF CloseCard, Jump, Hide, EndGesture, official, Places
  <2> QED BY <1>0, <2>1, HiddenCard DEF Places
<1>2. ASSUME NEW dir \in Int, Step(dir)
      PROVE  CardInv'
  <2> DEFINE i == IF mark \in Rendered THEN mark - top ELSE 0
  <2>1. UNCHANGED gesture /\ current' = current /\ visited' = visited
    BY <1>2 DEF Step
  <2>2. CASE i + dir \in 1..Window
    <3>1. Preview(top + i + dir, cache) /\ top' = top
      BY <1>2, <2>2 DEF Step
    <3>2. i \in Int
      BY <1>0 DEF Places
    <3>3. top + i + dir = top + (i + dir)
      BY <1>0, <3>2 DEF Places
    <3>4. top + i + dir \in 1..Turns
      BY <1>0, <2>2, <3>3, MarksAreTurns DEF Places
    <3> QED BY <1>0, <2>1, <3>1, <3>4, PreviewTells DEF Places, gesture
  <2>3. CASE i + dir \notin 1..Window
    <3>1. Slide(top + dir) /\ UNCHANGED preview
      BY <1>2, <2>3 DEF Step, NoPreview
    <3> QED BY <1>0, <2>1, <3>1, SlideStays, SameCard DEF Places, gesture, preview
  <2> QED BY <2>2, <2>3
<1> QED BY <1>1, <1>2 DEF Buttons

\* However late the official component commits a preview, the card of a turn
\* shows its own summary or that it is being read, for every turn the
\* transcript has not been at (previewReady, paint).
THEOREM CardIsItsTurns == Spec => []CardTellsTheTurn
<1>1. Init => CardInv
  BY RailAssumption
     DEF Init, CardInv, Places, CacheTells, CardTellsTheTurn, NoCache, Pending
<1>2. CardInv /\ [Next]_vars => CardInv'
  <2>1. CardInv /\ UNCHANGED vars => CardInv'
    BY SameCard DEF CardInv, Places, vars, gesture, preview, official
  <2> QED BY <2>1, Steps, CardFingers, CardTimers, CardButtons
<1>3. CardInv => CardTellsTheTurn
  BY DEF CardInv
<1> QED BY <1>1, <1>2, <1>3, PTL DEF Spec

----------------------------------------------------------------------------
(* Induction *)

LEMMA LeastNumber ==
    ASSUME NEW T, T \subseteq Nat, T # {}
    PROVE  \E x \in T : \A y \in T : x <= y
<1> DEFINE R == OpToRel(<, Nat)
<1>1. IsWellFoundedOn(R, Nat)
  BY NatLessThanWellFounded
<1>2. \A x, y \in Nat : <<y, x>> \in R <=> y < x
  BY DEF OpToRel
<1> HIDE DEF R
<1>3. PICK x \in T : \A y \in T : ~(<<y, x>> \in R)
  BY <1>1, WFMin
<1>4. ASSUME NEW y \in T PROVE x <= y
  <2>1. x \in Nat /\ y \in Nat
    OBVIOUS
  <2>2. ~(<<y, x>> \in R)
    BY <1>3
  <2>3. ~(y < x)
    BY <1>2, <2>1, <2>2
  <2> QED
    BY <2>1, <2>3
<1> QED
  BY <1>4

\* Induction up to a bound, for a set instead of a predicate.
LEMMA UpTo ==
    ASSUME NEW m \in Nat, NEW n \in Nat, NEW S, m <= n => m \in S,
           \A k \in m..(n - 1) : k \in S => k + 1 \in S
    PROVE  \A k \in m..n : k \in S
<1> DEFINE T == {k \in m..n : k \notin S}
<1> SUFFICES ASSUME T # {} PROVE FALSE
  OBVIOUS
<1>1. T \subseteq Nat
  OBVIOUS
<1>2. PICK x \in T : \A y \in T : x <= y
  BY <1>1, LeastNumber
<1>3. x # m /\ x - 1 \in m..(n - 1) /\ x - 1 \notin T
  BY <1>2
<1> QED
  BY <1>3

\* The functions that apply `step` up to n times to `start`; there is one.
Runs(D, step, start, n) ==
    {f \in [0..n -> D] :
       f[0] = start /\ \A i \in 1..n : f[i] = step[f[i - 1]]}

LEMMA Iterates ==
    ASSUME NEW D, NEW step \in [D -> D], NEW start \in D, NEW n \in Nat
    PROVE  Runs(D, step, start, n) # {}
<1> DEFINE Made(k) ==
      \E f \in [0..k -> D] :
        f[0] = start /\ \A i \in 1..k : f[i] = step[f[i - 1]]
<1> DEFINE S == {k \in 0..n : Made(k)}
<1>1. Made(0)
  <2> DEFINE f == [i \in 0..0 |-> start]
  <2>1. f \in [0..0 -> D] /\ f[0] = start
    OBVIOUS
  <2> HIDE DEF f
  <2> QED
    BY <2>1
<1>2. ASSUME NEW k \in 0..(n - 1), Made(k)
      PROVE  Made(k + 1)
  <2>1. PICK f \in [0..k -> D] :
          f[0] = start /\ \A i \in 1..k : f[i] = step[f[i - 1]]
    BY <1>2
  <2> DEFINE g == [i \in 0..(k + 1) |-> IF i \in 0..k THEN f[i] ELSE step[f[k]]]
  <2>2. g \in [0..(k + 1) -> D] /\ g[0] = start
    BY <2>1
  <2>3. \A i \in 1..(k + 1) : g[i] = step[g[i - 1]]
    <3> TAKE i \in 1..(k + 1)
    <3>1. CASE i \in 1..k
      <4>1. f[i] = step[f[i - 1]]
        BY <2>1, <3>1
      <4>2. g[i] = f[i] /\ g[i - 1] = f[i - 1]
        BY <3>1
      <4> QED
        BY <4>1, <4>2
    <3>2. CASE i = k + 1
      BY <3>2
    <3> QED
      BY <3>1, <3>2
  <2> HIDE DEF g
  <2> QED
    BY <2>2, <2>3
<1> HIDE DEF Made
<1>3. /\ 0 \in S
      /\ \A k \in 0..(n - 1) : k \in S => k + 1 \in S
  BY <1>1, <1>2
<1> HIDE DEF S
<1>4. \A k \in 0..n : k \in S
  BY <1>3, UpTo
<1>5. Made(n)
  BY <1>4 DEF S
<1> QED
  BY <1>5 DEF Made, Runs

----------------------------------------------------------------------------
(* A walk and its hops, step by step *)

Walkers == [at : Paths, rest : Paths, left : 0..LinkLimit,
            end : {"ok", "missing", "loop"}]

\* No segment of the path is a link.
Physical(t, path) ==
    \A i \in 1..Len(path) : /\ SubSeq(path, 1, i) \in DOMAIN t
                            /\ t[SubSeq(path, 1, i)].kind # "link"

LEMMA LongestIsNat == \A path \in Paths : Longest(path) \in Nat
<1>1. LinkLimit * MaxTarget \in Nat
  BY BrowserAssumption
<1> QED
  BY <1>1 DEF Longest, Paths

LEMMA StepStays ==
    ASSUME NEW t, FileTree(t), NEW w \in Walkers
    PROVE  WalkStep(t, w) \in Walkers
<1> DEFINE here == Append(w.at, Head(w.rest))
<1>1. CASE w.rest = <<>> \/ w.end # "ok"
  BY <1>1 DEF WalkStep
<1>2. CASE ~(w.rest = <<>> \/ w.end # "ok")
  <2>1. Tail(w.rest) \in Paths
    BY <1>2 DEF Walkers, Paths
  <2>2. CASE here \notin DOMAIN t
    BY <1>2, <2>2 DEF WalkStep, Walkers
  <2>3. CASE here \in DOMAIN t /\ t[here].kind # "link"
    <3>1. here \in Paths
      BY <2>3 DEF FileTree
    <3> QED
      BY <1>2, <2>1, <2>3, <3>1 DEF WalkStep, Walkers
  <2>4. CASE here \in DOMAIN t /\ t[here].kind = "link"
    <3>1. t[here].to \in Paths
      BY <2>4 DEF FileTree
    <3>2. t[here].to \o Tail(w.rest) \in Paths /\ <<>> \in Paths
      BY <2>1, <3>1 DEF Paths
    <3>3. CASE w.left = 0
      BY <1>2, <2>4, <3>3 DEF WalkStep, Walkers
    <3>4. CASE w.left # 0
      <4>1. w.left - 1 \in 0..LinkLimit
        BY <3>4, BrowserAssumption DEF Walkers
      <4> QED
        BY <1>2, <2>4, <3>2, <3>4, <4>1 DEF WalkStep, Walkers
    <3> QED
      BY <3>3, <3>4
  <2> QED
    BY <2>2, <2>3, <2>4
<1> QED
  BY <1>1, <1>2

LEMMA WalkIs ==
    ASSUME NEW t, FileTree(t), NEW path \in Paths
    PROVE  /\ Walk(t, path) \in [0..Longest(path) -> Walkers]
           /\ Walk(t, path)[0] = Walker(path)
           /\ \A n \in 0..(Longest(path) - 1) :
                Walk(t, path)[n + 1] = WalkStep(t, Walk(t, path)[n])
<1> DEFINE N == Longest(path)
           step == [w \in Walkers |-> WalkStep(t, w)]
           Body(f) == [n \in 0..N |-> IF n = 0 THEN Walker(path)
                       ELSE CHOOSE w \in {WalkStep(t, v) : v \in {f[n - 1]}} : TRUE]
<1>1. N \in Nat
  BY LongestIsNat
<1>2. step \in [Walkers -> Walkers] /\ Walker(path) \in Walkers
  BY StepStays, BrowserAssumption DEF Walker, Walkers, Paths
<1> HIDE DEF N
<1>3. PICK f \in [0..N -> Walkers] :
        /\ f[0] = Walker(path)
        /\ \A n \in 1..N : f[n] = step[f[n - 1]]
  <2> HIDE DEF step
  <2>1. PICK f \in Runs(Walkers, step, Walker(path), N) : TRUE
    BY <1>1, <1>2, Iterates
  <2> QED
    BY <2>1 DEF Runs
<1>5. \A v : (CHOOSE w \in {WalkStep(t, u) : u \in {v}} : TRUE) = WalkStep(t, v)
  OBVIOUS
<1>6. \A n \in 1..N : f[n] = WalkStep(t, f[n - 1])
  <2> TAKE n \in 1..N
  <2>1. f[n - 1] \in Walkers
    BY <1>1
  <2> QED
    BY <1>3, <2>1
<1>7. f = Body(f)
  <2>1. \A n \in 0..N : f[n] = Body(f)[n]
    BY <1>1, <1>3, <1>5, <1>6
  <2> QED
    BY <2>1
<1>8. Walk(t, path) = CHOOSE g : g = Body(g)
  BY DEF Walk, N
<1>9. Walk(t, path) = Body(Walk(t, path))
  <2> HIDE DEF Body
  <2> QED
    BY <1>7, <1>8
<1> DEFINE W == Walk(t, path)
<1>10. \A n \in 0..N : W[n] = IF n = 0 THEN Walker(path) ELSE WalkStep(t, W[n - 1])
  <2> HIDE DEF W
  <2> SUFFICES ASSUME NEW n \in 0..N
               PROVE  W[n] = IF n = 0 THEN Walker(path) ELSE WalkStep(t, W[n - 1])
    OBVIOUS
  <2>1. W = Body(W)
    BY <1>9 DEF W
  <2> QED
    BY <1>5, <2>1
<1>11. \A n \in 0..N : W[n] \in Walkers
  <2> DEFINE S == {n \in 0..N : W[n] \in Walkers}
  <2> HIDE DEF W
  <2>1. \A w \in Walkers : WalkStep(t, w) \in Walkers
    BY StepStays
  <2>2. W[0] \in Walkers /\ 0 \in 0..N
    BY <1>1, <1>2, <1>10
  <2>3. ASSUME NEW n \in 0..(N - 1), W[n] \in Walkers
        PROVE  W[n + 1] \in Walkers /\ n + 1 \in 0..N
    <3>1. n + 1 \in 0..N /\ n + 1 # 0 /\ (n + 1) - 1 = n
      BY <1>1
    <3>2. W[n + 1] = WalkStep(t, W[n])
      BY <1>10, <3>1
    <3> QED
      BY <2>1, <2>3, <3>1, <3>2
  <2>4. 0 \in S /\ \A n \in 0..(N - 1) : n \in S => n + 1 \in S
    BY <2>2, <2>3
  <2> HIDE DEF S
  <2>5. \A n \in 0..N : n \in S
    BY <1>1, <2>4, UpTo
  <2> QED
    BY <2>5 DEF S
<1>12. DOMAIN W = 0..N /\ W = [n \in 0..N |-> W[n]]
  <2> HIDE DEF W
  <2>1. W = Body(W)
    BY <1>9 DEF W
  <2>2. Body(W) = [n \in 0..N |-> Body(W)[n]]
    OBVIOUS
  <2> QED
    BY <2>1, <2>2
<1> HIDE DEF W
<1>13. W \in [0..N -> Walkers]
  BY <1>11, <1>12
<1>14. /\ W[0] = Walker(path)
       /\ \A n \in 0..(N - 1) : W[n + 1] = WalkStep(t, W[n])
  BY <1>1, <1>10
<1> QED
  BY <1>13, <1>14 DEF W, N

\* Where a path leads when its first link is known, and when it has none.
LEMMA HopAtFirst ==
    ASSUME NEW t, NEW path \in Paths, NEW i \in Links(t, path),
           \A j \in Links(t, path) : i <= j
    PROVE  Hop(t, path) = t[SubSeq(path, 1, i)].to
                            \o SubSeq(path, i + 1, Len(path))
<1>1. Links(t, path) \subseteq Int
  BY DEF Links, Paths
<1>2. i = CHOOSE j \in Links(t, path) : \A k \in Links(t, path) : j <= k
  <2>1. \A j \in Links(t, path) : (\A k \in Links(t, path) : j <= k) => j = i
    BY <1>1
  <2> QED
    BY <2>1
<1> QED
  BY <1>2 DEF Hop

LEMMA HopNowhere ==
    ASSUME NEW t, NEW path, Links(t, path) = {}
    PROVE  Hop(t, path) = path
BY DEF Hop

LEMMA HopStays ==
    ASSUME NEW t, FileTree(t), NEW path \in Paths
    PROVE  Hop(t, path) \in Paths
<1>1. CASE Links(t, path) = {}
  BY <1>1, HopNowhere
<1>2. CASE Links(t, path) # {}
  <2>1. Links(t, path) \subseteq Nat
    BY DEF Links, Paths
  <2>2. PICK i \in Links(t, path) : \A j \in Links(t, path) : i <= j
    BY <1>2, <2>1, LeastNumber
  <2>3. /\ i \in 1..Len(path)
        /\ SubSeq(path, 1, i) \in DOMAIN t
        /\ t[SubSeq(path, 1, i)].kind = "link"
    BY DEF Links
  <2>4. t[SubSeq(path, 1, i)].to \in Paths
    BY <2>3 DEF FileTree
  <2>5. SubSeq(path, i + 1, Len(path)) \in Paths
    BY <2>3 DEF Paths
  <2>6. t[SubSeq(path, 1, i)].to \o SubSeq(path, i + 1, Len(path)) \in Paths
    BY <2>4, <2>5, ConcatProperties DEF Paths
  <2> QED
    BY <2>2, <2>6, HopAtFirst
<1> QED
  BY <1>1, <1>2

LEMMA HopsAre ==
    ASSUME NEW t, FileTree(t), NEW path \in Paths
    PROVE  /\ Hops(t, path) \in [0..LinkLimit -> Paths]
           /\ Hops(t, path)[0] = path
           /\ \A n \in 0..(LinkLimit - 1) :
                Hops(t, path)[n + 1] = Hop(t, Hops(t, path)[n])
<1> DEFINE step == [p \in Paths |-> Hop(t, p)]
           Body(f) == [n \in 0..LinkLimit |-> IF n = 0 THEN path
                       ELSE CHOOSE p \in {Hop(t, q) : q \in {f[n - 1]}} : TRUE]
           H == Hops(t, path)
<1>1. LinkLimit \in Nat
  BY BrowserAssumption
<1>2. step \in [Paths -> Paths]
  BY HopStays
<1>3. PICK f \in [0..LinkLimit -> Paths] :
        f[0] = path /\ \A n \in 1..LinkLimit : f[n] = step[f[n - 1]]
  <2> HIDE DEF step
  <2>1. PICK f \in Runs(Paths, step, path, LinkLimit) : TRUE
    BY <1>1, <1>2, Iterates
  <2> QED
    BY <2>1 DEF Runs
<1>4. \A q : (CHOOSE p \in {Hop(t, r) : r \in {q}} : TRUE) = Hop(t, q)
  OBVIOUS
<1>5. \A n \in 1..LinkLimit : f[n] = Hop(t, f[n - 1])
  <2> TAKE n \in 1..LinkLimit
  <2>1. f[n - 1] \in Paths
    BY <1>1
  <2> QED
    BY <1>3, <2>1
<1>6. f = Body(f)
  <2>1. \A n \in 0..LinkLimit : f[n] = Body(f)[n]
    BY <1>1, <1>3, <1>4, <1>5
  <2> QED
    BY <2>1
<1>7. H = CHOOSE g : g = Body(g)
  BY DEF Hops
<1>8. H = Body(H)
  <2> HIDE DEF Body, H
  <2> QED
    BY <1>6, <1>7
<1> HIDE DEF H
<1>9. \A n \in 0..LinkLimit : H[n] = IF n = 0 THEN path ELSE Hop(t, H[n - 1])
  BY <1>4, <1>8
<1>10. \A n \in 0..LinkLimit : H[n] \in Paths
  <2> DEFINE S == {n \in 0..LinkLimit : H[n] \in Paths}
  <2>1. 0 \in S /\ \A n \in 0..(LinkLimit - 1) : n \in S => n + 1 \in S
    BY <1>1, <1>9, HopStays
  <2> HIDE DEF S
  <2>2. \A n \in 0..LinkLimit : n \in S
    BY <1>1, <2>1, UpTo
  <2> QED
    BY <2>2 DEF S
<1>11. H = [n \in 0..LinkLimit |-> H[n]]
  <2>1. Body(H) = [n \in 0..LinkLimit |-> Body(H)[n]]
    OBVIOUS
  <2> QED
    BY <1>8, <2>1
<1>12. H \in [0..LinkLimit -> Paths]
  BY <1>10, <1>11
<1>13. H[0] = path /\ \A n \in 0..(LinkLimit - 1) : H[n + 1] = Hop(t, H[n])
  BY <1>1, <1>9
<1> QED
  BY <1>12, <1>13 DEF H

\* A path without a link stays where it is, however many hops are left.
LEMMA HopsStop ==
    ASSUME NEW t, FileTree(t), NEW path \in Paths, NEW k \in 0..LinkLimit,
           Links(t, Hops(t, path)[k]) = {}
    PROVE  Hops(t, path)[LinkLimit] = Hops(t, path)[k]
<1> DEFINE H == Hops(t, path)
           S == {n \in k..LinkLimit : H[n] = H[k]}
<1>1. LinkLimit \in Nat /\ k \in Nat /\ k <= LinkLimit
  BY BrowserAssumption
<1>2. \A n \in 0..(LinkLimit - 1) : H[n + 1] = Hop(t, H[n])
  BY HopsAre
<1>3. Hop(t, H[k]) = H[k]
  BY HopNowhere
<1> HIDE DEF H
<1>4. k \in S /\ \A n \in k..(LinkLimit - 1) : n \in S => n + 1 \in S
  BY <1>1, <1>2, <1>3
<1> HIDE DEF S
<1>5. \A n \in k..LinkLimit : n \in S
  BY <1>1, <1>4, UpTo
<1>6. LinkLimit \in S
  BY <1>1, <1>5
<1> QED
  BY <1>6 DEF S, H

\* A path cut in two: the start `a`, the next segment and what is left of `r`.
LEMMA CutPath ==
    ASSUME NEW a \in Paths, NEW r \in Paths, r # <<>>
    PROVE  LET p == a \o r
               here == Append(a, Head(r))
           IN /\ p \in Paths /\ Len(p) = Len(a) + Len(r) /\ Len(r) \in Nat \ {0}
              /\ here \in Paths /\ Len(here) = Len(a) + 1
              /\ \A i \in 0..Len(a) : /\ SubSeq(p, 1, i) = SubSeq(a, 1, i)
                                      /\ SubSeq(here, 1, i) = SubSeq(a, 1, i)
              /\ SubSeq(p, 1, Len(a) + 1) = here
              /\ SubSeq(here, 1, Len(a) + 1) = here
              /\ SubSeq(p, Len(a) + 2, Len(p)) = Tail(r)
              /\ here \o Tail(r) = p
<1> DEFINE p == a \o r
           h == Head(r)
           tail == Tail(r)
           here == Append(a, h)
           N == ToSet(NameOrder)
<1>1. /\ a \in Seq(N) /\ r \in Seq(N) /\ h \in N /\ tail \in Seq(N)
      /\ Len(a) \in Nat /\ Len(r) \in Nat \ {0} /\ Len(tail) = Len(r) - 1
      /\ h = r[1]
  BY EmptySeq, HeadTailProperties DEF Paths
<1>2. here \in Seq(N) /\ Len(here) = Len(a) + 1
  BY <1>1, AppendProperties
<1>3. p \in Seq(N) /\ Len(p) = Len(a) + Len(r)
  BY <1>1, ConcatProperties
<1>4. here \o tail = p
  <2>1. r = <<h>> \o tail
    <3>1. tail = SubSeq(r, 2, Len(r))
      BY <1>1, TailIsSubSeq
    <3>2. SubSeq(r, 1, Len(r)) = <<r[1]>> \o SubSeq(r, 1 + 1, Len(r))
      BY <1>1, SubSeqRecursiveFirst
    <3>3. SubSeq(r, 1, Len(r)) = r
      BY <1>1, SubSeqFull
    <3> QED
      BY <1>1, <3>1, <3>2, <3>3
  <2>2. <<h>> \in Seq(N)
    BY <1>1
  <2>3. (a \o <<h>>) \o tail = a \o (<<h>> \o tail)
    BY <1>1, <2>2, ConcatAssociative
  <2>4. here = a \o <<h>>
    BY <1>1, AppendIsConcat
  <2> QED
    BY <2>1, <2>3, <2>4
<1> HIDE DEF p, here, h, tail, N
<1>5. ASSUME NEW i \in 0..Len(a)
      PROVE  SubSeq(p, 1, i) = SubSeq(a, 1, i) /\ SubSeq(here, 1, i) = SubSeq(a, 1, i)
  <2>1. CASE i = 0
    BY <2>1, SubSeqEmpty
  <2>2. CASE i # 0
    <3>1. 1 \in 1..Len(a) /\ i \in 1..Len(a)
      BY <1>1, <2>2
    <3>2. SubSeq(a \o r, 1, i) = SubSeq(a, 1, i)
      BY <1>1, <3>1, SubSeqOfConcat1
    <3>3. <<h>> \in Seq(N) /\ here = a \o <<h>>
      BY <1>1, AppendIsConcat DEF here
    <3>4. SubSeq(a \o <<h>>, 1, i) = SubSeq(a, 1, i)
      BY <1>1, <3>1, <3>3, SubSeqOfConcat1
    <3> QED
      BY <3>2, <3>3, <3>4 DEF p
  <2> QED
    BY <2>1, <2>2
<1>6. SubSeq(here, 1, Len(a) + 1) = here
  BY <1>2, SubSeqFull
<1>7. SubSeq(p, 1, Len(a) + 1) = here
  <2>1. 1 \in 1..Len(here) /\ Len(a) + 1 \in 1..Len(here)
    BY <1>1, <1>2
  <2>2. SubSeq(here \o tail, 1, Len(a) + 1) = SubSeq(here, 1, Len(a) + 1)
    BY <1>1, <1>2, <2>1, SubSeqOfConcat1
  <2> QED
    BY <1>4, <1>6, <2>2
<1>8. SubSeq(p, Len(a) + 2, Len(p)) = tail
  <2>1. CASE tail = <<>>
    <3>1. Len(tail) = 0
      BY <2>1, EmptySeq
    <3>2. /\ Len(p) < Len(a) + 2
          /\ Len(p) \in Int /\ Len(a) + 2 \in Int
      <4>1. \A x \in Nat \ {0} : 0 = x - 1 => x = 1
        OBVIOUS
      <4>2. Len(r) = 1
        BY <1>1, <3>1, <4>1
      <4>3. Len(p) = Len(a) + 1
        BY <1>3, <4>2
      <4> QED
        BY <1>1, <4>3
    <3> QED
      BY <2>1, <3>2, SubSeqEmpty
  <2>2. CASE tail # <<>>
    <3>1. Len(tail) \in Nat \ {0}
      BY <1>1, <2>2, EmptySeq
    <3> DEFINE m == Len(a) + 2
    <3>2. /\ Len(p) = Len(here) + Len(tail)
          /\ m = Len(here) + 1
          /\ m \in Len(here) + 1..Len(here) + Len(tail)
          /\ Len(p) \in Len(here) + 1..Len(here) + Len(tail)
          /\ m - Len(here) = 1 /\ Len(p) - Len(here) = Len(tail)
      BY <1>1, <1>2, <1>3, <3>1
    <3> HIDE DEF m
    <3>3. SubSeq(here \o tail, m, Len(p))
            = SubSeq(tail, m - Len(here), Len(p) - Len(here))
      BY <1>1, <1>2, <3>2, SubSeqOfConcat2
    <3>4. SubSeq(tail, 1, Len(tail)) = tail
      BY <1>1, SubSeqFull
    <3> QED
      BY <1>4, <3>2, <3>3, <3>4 DEF m
  <2> QED
    BY <2>1, <2>2
<1> QED
  BY <1>1, <1>2, <1>3, <1>4, <1>5, <1>6, <1>7, <1>8
     DEF p, here, h, tail, N, Paths

LEMMA PrefixOfPrefix ==
    ASSUME NEW path \in Paths, NEW j \in 1..Len(path), NEW i \in 1..Len(path),
           i <= j
    PROVE  SubSeq(SubSeq(path, 1, j), 1, i) = SubSeq(path, 1, i)
<1> DEFINE q == SubSeq(path, 1, j)
<1>1. /\ q \in Paths /\ Len(q) = j
      /\ \A k \in 1..j : q[k] = path[k]
  BY DEF Paths
<1> HIDE DEF q
<1>2. /\ SubSeq(q, 1, i) \in Paths /\ Len(SubSeq(q, 1, i)) = i
      /\ \A k \in 1..i : SubSeq(q, 1, i)[k] = q[k]
  BY <1>1 DEF Paths
<1>3. /\ SubSeq(path, 1, i) \in Paths /\ Len(SubSeq(path, 1, i)) = i
      /\ \A k \in 1..i : SubSeq(path, 1, i)[k] = path[k]
  BY DEF Paths
<1>4. SubSeq(q, 1, i) = SubSeq(path, 1, i)
  BY <1>1, <1>2, <1>3, SeqEqual DEF Paths
<1> QED
  BY <1>4 DEF q

\* Below a path that stands without links nothing is a link that has the
\* missing, or the linked, next segment before it.
LEMMA LinksOfCut ==
    ASSUME NEW t, FileTree(t), NEW a \in Paths, NEW r \in Paths, r # <<>>,
           Physical(t, a)
    PROVE  LET p == a \o r
               here == Append(a, Head(r))
           IN /\ here \notin DOMAIN t => Links(t, p) = {} /\ p \notin DOMAIN t
              /\ here \in DOMAIN t /\ t[here].kind = "link" =>
                   /\ Len(a) + 1 \in Links(t, p)
                   /\ \A j \in Links(t, p) : Len(a) + 1 <= j
                   /\ Hop(t, p) = t[here].to \o Tail(r)
              /\ here \in DOMAIN t /\ t[here].kind # "link" => Physical(t, here)
<1> DEFINE p == a \o r
           here == Append(a, Head(r))
<1>1. /\ p \in Paths /\ Len(p) = Len(a) + Len(r) /\ Len(r) \in Nat \ {0}
      /\ here \in Paths /\ Len(here) = Len(a) + 1
      /\ \A i \in 0..Len(a) : /\ SubSeq(p, 1, i) = SubSeq(a, 1, i)
                              /\ SubSeq(here, 1, i) = SubSeq(a, 1, i)
      /\ SubSeq(p, 1, Len(a) + 1) = here
      /\ SubSeq(here, 1, Len(a) + 1) = here
      /\ SubSeq(p, Len(a) + 2, Len(p)) = Tail(r)
  BY CutPath
<1>2. Len(a) \in Nat
  BY DEF Paths
<1> HIDE DEF p, here
<1>3. \A j \in Links(t, p) : j \in 1..Len(p) /\ Len(a) + 1 <= j
  <2> SUFFICES ASSUME NEW j \in Links(t, p), j < Len(a) + 1
               PROVE  FALSE
    BY <1>1, <1>2 DEF Links
  <2>1. j \in 1..Len(a)
    BY <1>1, <1>2 DEF Links
  <2>2. t[SubSeq(a, 1, j)].kind = "link"
    <3>1. j \in 0..Len(a)
      BY <2>1
    <3>2. SubSeq(p, 1, j) = SubSeq(a, 1, j)
      BY <1>1, <3>1
    <3>3. t[SubSeq(p, 1, j)].kind = "link"
      BY DEF Links
    <3> QED
      BY <3>2, <3>3
  <2> QED
    BY <2>1, <2>2 DEF Physical
<1>4. ASSUME here \notin DOMAIN t
      PROVE  Links(t, p) = {} /\ p \notin DOMAIN t
  <2>1. ASSUME NEW j \in 1..Len(p), j >= Len(a) + 1, SubSeq(p, 1, j) \in DOMAIN t
        PROVE  FALSE
    <3> DEFINE q == SubSeq(p, 1, j)
    <3>1. Len(q) = j /\ q \in Paths
      BY <1>1 DEF Paths
    <3>2. CASE j = Len(a) + 1
      BY <1>1, <1>4, <2>1, <3>2
    <3>3. CASE j # Len(a) + 1
      <4>1. Len(a) + 1 \in 0..(Len(q) - 1)
        BY <1>1, <1>2, <2>1, <3>1, <3>3
      <4>2. SubSeq(q, 1, Len(a) + 1) \in DOMAIN t
        BY <2>1, <4>1 DEF FileTree
      <4>3. SubSeq(q, 1, Len(a) + 1) = SubSeq(p, 1, Len(a) + 1)
        <5>1. Len(a) + 1 \in 1..Len(p) /\ Len(a) + 1 <= j
          BY <1>1, <1>2, <2>1
        <5> QED
          BY <1>1, <5>1, PrefixOfPrefix
      <4> QED
        BY <1>1, <1>4, <4>2, <4>3
    <3> QED
      BY <3>2, <3>3
  <2>2. Links(t, p) = {}
    BY <1>2, <1>3, <2>1 DEF Links
  <2>3. SubSeq(p, 1, Len(p)) = p /\ Len(p) \in 1..Len(p) /\ Len(p) >= Len(a) + 1
    BY <1>1, <1>2, SubSeqFull DEF Paths
  <2> QED
    BY <2>1, <2>2, <2>3
<1>5. ASSUME here \in DOMAIN t, t[here].kind = "link"
      PROVE  /\ Len(a) + 1 \in Links(t, p)
             /\ \A j \in Links(t, p) : Len(a) + 1 <= j
             /\ Hop(t, p) = t[here].to \o Tail(r)
  <2>1. Len(a) + 1 \in 1..Len(p)
    BY <1>1, <1>2
  <2>2. Len(a) + 1 \in Links(t, p)
    BY <1>1, <1>5, <2>1 DEF Links
  <2> DEFINE i == Len(a) + 1
  <2>3. i + 1 = Len(a) + 2
    BY <1>2
  <2> HIDE DEF i
  <2>4. Hop(t, p) = t[SubSeq(p, 1, i)].to \o SubSeq(p, i + 1, Len(p))
    BY <1>1, <1>3, <2>2, HopAtFirst DEF i
  <2> QED
    BY <1>1, <1>3, <2>2, <2>3, <2>4 DEF i
<1>6. ASSUME here \in DOMAIN t, t[here].kind # "link"
      PROVE  Physical(t, here)
  <2> SUFFICES ASSUME NEW i \in 1..(Len(a) + 1)
               PROVE  /\ SubSeq(here, 1, i) \in DOMAIN t
                      /\ t[SubSeq(here, 1, i)].kind # "link"
    BY <1>1 DEF Physical
  <2>1. CASE i = Len(a) + 1
    BY <1>1, <1>6, <2>1
  <2>2. CASE i # Len(a) + 1
    <3>1. i \in 1..Len(a) /\ i \in 0..Len(a)
      BY <1>2, <2>2
    <3> QED
      BY <1>1, <3>1 DEF Physical
  <2> QED
    BY <2>1, <2>2
<1> QED
  BY <1>4, <1>5, <1>6 DEF p, here

\* What a walk of n steps knows: where it stands there is no link before it,
\* and what it has left to read is what so many hops lead to.
Follows(t, path, w, n) ==
    /\ w \in Walkers
    /\ Physical(t, w.at)
    /\ Hops(t, path)[LinkLimit - w.left] = w.at \o w.rest
    /\ w.end = "ok" => \/ w.rest = <<>>
                       \/ n + Len(w.rest) + w.left * MaxTarget <= Longest(path)
    /\ w.end # "ok" => w.rest # <<>>
    /\ w.end = "missing" => Append(w.at, Head(w.rest)) \notin DOMAIN t
    /\ w.end = "loop" =>
         /\ w.left = 0
         /\ Append(w.at, Head(w.rest)) \in DOMAIN t
         /\ t[Append(w.at, Head(w.rest))].kind = "link"

LEMMA FollowsStarts ==
    ASSUME NEW t, FileTree(t), NEW path \in Paths
    PROVE  Follows(t, path, Walker(path), 0)
<1> DEFINE w == Walker(path)
<1>1. /\ w.at = <<>> /\ w.rest = path /\ w.left = LinkLimit /\ w.end = "ok"
      /\ w \in Walkers
  BY BrowserAssumption DEF Walker, Walkers, Paths
<1>2. Physical(t, <<>>)
  BY DEF Physical
<1>3. Hops(t, path)[LinkLimit - LinkLimit] = <<>> \o path
  <2>1. LinkLimit - LinkLimit = 0
    BY BrowserAssumption
  <2>2. <<>> \o path = path
    BY ConcatEmptySeq DEF Paths
  <2> QED
    BY <2>1, <2>2, HopsAre
<1>4. 0 + Len(path) + LinkLimit * MaxTarget <= Longest(path)
  <2>1. LinkLimit * MaxTarget \in Nat /\ Len(path) \in Nat
    BY BrowserAssumption DEF Paths
  <2> QED
    BY <2>1 DEF Longest
<1> HIDE DEF w
<1> QED
  BY <1>1, <1>2, <1>3, <1>4 DEF Follows, w

LEMMA RoomAfterStep ==
    \A n, x, m, u \in Nat :
       n + x + m <= u => \A y \in Nat : y = x - 1 => n + 1 + y + m <= u
OBVIOUS

LEMMA RoomAfterLink ==
    \A n, x, m, u, y, b \in Nat :
       n + x + m <= u /\ y <= b =>
         \A z, k \in Int : z = y + x - 1 /\ k = m - b => n + 1 + z + k <= u
OBVIOUS

LEMMA FollowsSteps ==
    ASSUME NEW t, FileTree(t), NEW path \in Paths, NEW w,
           NEW n \in 0..(Longest(path) - 1), Follows(t, path, w, n)
    PROVE  Follows(t, path, WalkStep(t, w), n + 1)
<1> DEFINE v == WalkStep(t, w)
           H == Hops(t, path)
           h == Head(w.rest)
           here == Append(w.at, h)
<1>1. /\ w \in Walkers /\ v \in Walkers
      /\ w.at \in Paths /\ w.rest \in Paths /\ w.left \in 0..LinkLimit
  BY StepStays DEF Follows, Walkers
<1>2. CASE w.rest = <<>> \/ w.end # "ok"
  <2>1. v = w
    BY <1>2 DEF WalkStep
  <2>2. w.end = "ok" => w.rest = <<>>
    BY <1>2
  <2> HIDE DEF v
  <2> QED
    BY <2>1, <2>2 DEF Follows, v
<1>3. CASE w.rest # <<>> /\ w.end = "ok"
  <2>1. /\ LinkLimit \in Nat /\ w.left \in Nat /\ n \in Nat
        /\ Len(w.rest) \in Nat \ {0} /\ Len(Tail(w.rest)) = Len(w.rest) - 1
        /\ Tail(w.rest) \in Paths /\ Len(Tail(w.rest)) \in Nat
    BY <1>1, <1>3, BrowserAssumption, LongestIsNat, HeadTailProperties, EmptySeq
       DEF Paths
  <2>2. n + Len(w.rest) + w.left * MaxTarget <= Longest(path)
    BY <1>3 DEF Follows
  <2>3. CASE here \notin DOMAIN t
    <3>1. v = [w EXCEPT !.end = "missing"]
      BY <1>3, <2>3 DEF WalkStep
    <3>2. v.at = w.at /\ v.rest = w.rest /\ v.left = w.left /\ v.end = "missing"
      BY <1>1, <3>1 DEF Walkers
    <3> HIDE DEF v
    <3> QED
      BY <1>1, <1>3, <2>3, <3>2 DEF Follows, v
  <2>4. CASE here \in DOMAIN t /\ t[here].kind # "link"
    <3>1. v = [w EXCEPT !.at = here, !.rest = Tail(@)]
      BY <1>3, <2>4 DEF WalkStep
    <3>2. /\ v.at = here /\ v.rest = Tail(w.rest) /\ v.left = w.left
          /\ v.end = "ok"
      BY <1>1, <1>3, <3>1 DEF Walkers
    <3>3. here \o Tail(w.rest) = w.at \o w.rest
      BY <1>1, <1>3, CutPath
    <3>4. Physical(t, here)
      BY <1>1, <1>3, <2>4, LinksOfCut DEF Follows
    <3>5. n + 1 + Len(Tail(w.rest)) + w.left * MaxTarget <= Longest(path)
      <4>1. w.left * MaxTarget \in Nat /\ Longest(path) \in Nat
        BY <2>1, BrowserAssumption, LongestIsNat
      <4>2. Longest(path) \in Nat /\ n \in Nat /\ Len(w.rest) \in Nat
        BY <2>1, <4>1
      <4> QED
        BY <2>1, <2>2, <4>1, <4>2, RoomAfterStep
    <3>6. H[LinkLimit - w.left] = w.at \o w.rest
      BY DEF Follows
    <3> HIDE DEF v, here, H
    <3> QED
      BY <1>1, <3>2, <3>3, <3>4, <3>5, <3>6 DEF Follows, v, H
  <2>5. CASE here \in DOMAIN t /\ t[here].kind = "link" /\ w.left = 0
    <3>1. v = [w EXCEPT !.end = "loop"]
      BY <1>3, <2>5 DEF WalkStep
    <3>2. v.at = w.at /\ v.rest = w.rest /\ v.left = w.left /\ v.end = "loop"
      BY <1>1, <3>1 DEF Walkers
    <3> HIDE DEF v
    <3> QED
      BY <1>1, <1>3, <2>5, <3>2 DEF Follows, v
  <2>6. CASE here \in DOMAIN t /\ t[here].kind = "link" /\ w.left # 0
    <3> DEFINE to == t[here].to
               rest == to \o Tail(w.rest)
    <3>1. v = [w EXCEPT !.at = <<>>, !.left = @ - 1, !.rest = rest]
      BY <1>3, <2>6 DEF WalkStep
    <3>2. /\ v.at = <<>> /\ v.rest = rest /\ v.left = w.left - 1
          /\ v.end = "ok"
      BY <1>1, <1>3, <3>1 DEF Walkers
    <3>3. to \in Paths /\ Len(to) <= MaxTarget /\ Len(to) \in Nat
      BY <2>6 DEF FileTree, Paths
    <3>4. rest \in Paths /\ Len(rest) = Len(to) + Len(w.rest) - 1
      BY <2>1, <3>3, ConcatProperties DEF Paths
    <3>5. Hop(t, w.at \o w.rest) = rest
      BY <1>1, <1>3, <2>6, LinksOfCut DEF Follows
    <3>6. H[LinkLimit - w.left] = w.at \o w.rest
      BY DEF Follows
    <3>7. H[LinkLimit - (w.left - 1)] = rest
      <4> DEFINE k == LinkLimit - w.left
      <4>1. /\ k \in 0..(LinkLimit - 1)
            /\ LinkLimit - (w.left - 1) = k + 1
        BY <1>1, <2>1, <2>6
      <4> HIDE DEF k
      <4>2. H[k + 1] = Hop(t, H[k])
        BY <4>1, HopsAre
      <4>3. H[k] = w.at \o w.rest
        BY <3>6 DEF k
      <4> QED
        BY <3>5, <4>1, <4>2, <4>3
    <3>8. <<>> \o rest = rest /\ Physical(t, <<>>)
      BY <3>4, ConcatEmptySeq DEF Paths, Physical
    <3>9. n + 1 + Len(rest) + (w.left - 1) * MaxTarget <= Longest(path)
      <4> DEFINE m == w.left * MaxTarget
                 k == (w.left - 1) * MaxTarget
      <4>1. /\ m \in Nat /\ Longest(path) \in Nat /\ MaxTarget \in Nat
            /\ n \in Nat /\ Len(w.rest) \in Nat
        BY <2>1, BrowserAssumption, LongestIsNat
      <4>2. k \in Int /\ k = m - MaxTarget
        BY <2>1, BrowserAssumption
      <4> DEFINE z == Len(rest)
                 y == Len(to)
                 x == Len(w.rest)
                 u == Longest(path)
      <4>3. z = y + x - 1 /\ y \in Nat /\ y <= MaxTarget
        BY <3>3, <3>4
      <4>4. n + x + m <= u
        BY <2>2
      <4> HIDE DEF m, k, x, y, z, u
      <4>5. x \in Nat /\ u \in Nat
        BY <4>1 DEF x, u
      <4>6. z \in Int
        BY <4>3, <4>5
      <4>7. n + 1 + z + k <= u
        BY <4>1, <4>2, <4>3, <4>4, <4>5, <4>6, RoomAfterLink
      <4> QED
        BY <4>7 DEF k, z, u
    <3> HIDE DEF v, H, rest
    <3> QED
      BY <1>1, <3>2, <3>7, <3>8, <3>9 DEF Follows, v, H
  <2> QED
    BY <2>3, <2>4, <2>5, <2>6
<1> QED
  BY <1>2, <1>3

\* The walk is long enough: it has nothing left to read, or has failed.
LEMMA RealpathEnds ==
    ASSUME NEW t, FileTree(t), NEW path \in Paths
    PROVE  LET w == Realpath(t, path)
           IN /\ Follows(t, path, w, Longest(path))
              /\ w.end = "ok" => w.rest = <<>>
<1> DEFINE N == Longest(path)
           W == Walk(t, path)
           w == W[N]
           S == {n \in 0..N : Follows(t, path, W[n], n)}
<1>1. N \in Nat
  BY LongestIsNat
<1>2. /\ W[0] = Walker(path)
      /\ \A n \in 0..(N - 1) : W[n + 1] = WalkStep(t, W[n])
  BY WalkIs
<1>3. \A n \in 0..(N - 1) :
        Follows(t, path, W[n], n) => Follows(t, path, W[n + 1], n + 1)
  <2> SUFFICES ASSUME NEW n \in 0..(N - 1), Follows(t, path, W[n], n)
               PROVE  Follows(t, path, WalkStep(t, W[n]), n + 1)
    BY <1>2
  <2> HIDE DEF W
  <2> QED
    BY FollowsSteps
<1>4. Follows(t, path, W[0], 0)
  BY <1>2, FollowsStarts
<1> HIDE DEF W, N
<1>5. 0 \in S /\ \A n \in 0..(N - 1) : n \in S => n + 1 \in S
  BY <1>1, <1>3, <1>4
<1> HIDE DEF S
<1>6. \A n \in 0..N : n \in S
  BY <1>1, <1>5, UpTo
<1>7. Follows(t, path, w, N)
  BY <1>1, <1>6 DEF S
<1>8. ASSUME w.end = "ok", w.rest # <<>> PROVE FALSE
  <2>1. w.rest \in Paths /\ w.left \in 0..LinkLimit
    BY <1>7 DEF Follows, Walkers
  <2>2. Len(w.rest) \in Nat \ {0}
    BY <1>8, <2>1, EmptySeq DEF Paths
  <2>3. w.left * MaxTarget \in Nat
    BY <2>1, BrowserAssumption
  <2>4. N + Len(w.rest) + w.left * MaxTarget <= N
    BY <1>7, <1>8 DEF Follows, N
  <2> DEFINE x == Len(w.rest)
             m == w.left * MaxTarget
  <2> HIDE DEF x, m
  <2>5. x \in Nat \ {0} /\ m \in Nat /\ N + x + m <= N
    BY <2>2, <2>3, <2>4 DEF x, m
  <2> QED
    BY <1>1, <2>5
<1>9. Realpath(t, path) = w
  BY DEF Realpath, W, N
<1> QED
  BY <1>7, <1>8, <1>9 DEF N

LEMMA RealpathLeads ==
    ASSUME NEW t, FileTree(t), NEW path \in Paths
    PROVE  LET w == Realpath(t, path)
           IN /\ w \in Walkers
              /\ w.end = "ok" => /\ LeadsTo(t, path) = {w.at} \cap DOMAIN t
                                 /\ Physical(t, w.at)
              /\ w.end # "ok" => LeadsTo(t, path) = {}
<1> DEFINE w == Realpath(t, path)
           H == Hops(t, path)
           k == LinkLimit - w.left
           p == w.at \o w.rest
<1>1. Follows(t, path, w, Longest(path)) /\ (w.end = "ok" => w.rest = <<>>)
  BY RealpathEnds
<1> HIDE DEF w
<1>2. /\ w \in Walkers /\ w.at \in Paths /\ w.rest \in Paths
      /\ Physical(t, w.at)
  BY <1>1 DEF Follows, Walkers
<1>3. k \in 0..LinkLimit /\ H[k] = p
  BY <1>1, <1>2, BrowserAssumption DEF Follows, Walkers
<1>4. Links(t, p) = {} => LeadsTo(t, path) = {p} \cap DOMAIN t
  <2> HAVE Links(t, p) = {}
  <2> HIDE DEF k, p
  <2>1. H[LinkLimit] = p
    BY <1>3, HopsStop
  <2> QED
    BY <2>1 DEF LeadsTo
<1>5. CASE w.end = "ok"
  <2>1. p = w.at
    BY <1>1, <1>2, <1>5, ConcatEmptySeq DEF Paths
  <2>2. Links(t, w.at) = {}
    BY <1>2 DEF Physical, Links
  <2> QED
    BY <1>2, <1>4, <1>5, <2>1, <2>2 DEF w
<1>6. CASE w.end = "missing"
  <2>1. w.rest # <<>> /\ Append(w.at, Head(w.rest)) \notin DOMAIN t
    BY <1>1, <1>6 DEF Follows
  <2>2. Links(t, p) = {} /\ p \notin DOMAIN t
    BY <1>2, <2>1, LinksOfCut
  <2> QED
    BY <1>2, <1>4, <1>6, <2>2 DEF w
<1>7. CASE w.end = "loop"
  <2>1. /\ w.rest # <<>> /\ w.left = 0
        /\ Append(w.at, Head(w.rest)) \in DOMAIN t
        /\ t[Append(w.at, Head(w.rest))].kind = "link"
    BY <1>1, <1>7 DEF Follows
  <2>2. Links(t, p) # {}
    BY <1>2, <2>1, LinksOfCut
  <2>3. k = LinkLimit
    BY <2>1, BrowserAssumption
  <2>4. H[LinkLimit] = p
    BY <1>3, <2>3
  <2> HIDE DEF p
  <2>5. LeadsTo(t, path) = {}
    BY <2>2, <2>4 DEF LeadsTo
  <2> QED
    BY <1>2, <1>7, <2>5 DEF w
<1> QED
  BY <1>2, <1>5, <1>6, <1>7 DEF w, Walkers

\* The code's answer for a link and the reader's agree.
LEMMA ResolveMeets ==
    ASSUME NEW t, FileTree(t), NEW path \in Paths
    PROVE  Resolve(t, path).ok <=>
             \E p \in LeadsTo(t, path) :
                IsDirectory(t[p]) /\ ~Fenced(p) /\ ~Fenced(path)
<1> DEFINE w == Realpath(t, path)
<1>1. /\ w \in Walkers
      /\ w.end = "ok" => LeadsTo(t, path) = {w.at} \cap DOMAIN t
      /\ w.end # "ok" => LeadsTo(t, path) = {}
  BY RealpathLeads
<1> HIDE DEF w
<1>2. \A code : Failure(code).ok = FALSE
  BY DEF Failure
<1>3. CASE Fenced(path)
  BY <1>2, <1>3 DEF Resolve, w
<1>4. CASE ~Fenced(path) /\ w.end # "ok"
  <2>1. w.end \in {"missing", "loop"}
    BY <1>1, <1>4 DEF Walkers
  <2>2. Resolve(t, path).ok = FALSE
    BY <1>2, <1>4, <2>1 DEF Resolve, w
  <2> QED
    BY <1>1, <1>4, <2>2
<1>5. CASE ~Fenced(path) /\ w.end = "ok"
  <2>1. Resolve(t, path) = Screened(t, w.at)
    BY <1>5 DEF Resolve, w
  <2>2. Screened(t, w.at).ok <=>
          ~Fenced(w.at) /\ w.at \in DOMAIN t /\ IsDirectory(t[w.at])
    <3>1. CASE Fenced(w.at)
      BY <1>2, <3>1 DEF Screened
    <3>2. CASE ~Fenced(w.at) /\ ~(w.at \in DOMAIN t /\ IsDirectory(t[w.at]))
      BY <1>2, <3>2 DEF Screened, Directory
    <3>3. CASE ~Fenced(w.at) /\ w.at \in DOMAIN t /\ IsDirectory(t[w.at])
      BY <3>3 DEF Screened, Directory
    <3> QED
      BY <3>1, <3>2, <3>3
  <2> QED
    BY <1>1, <1>5, <2>1, <2>2
<1> QED
  BY <1>3, <1>4, <1>5

\* What the second screen sees is the place itself: a path that resolves has no
\* link left in it, exists, is a directory and passes the fence
\* (resolveBrowsablePath), for every tree and path.
THEOREM ScreenedIsReal ==
    ASSUME NEW t, FileTree(t), NEW path \in Paths, Resolve(t, path).ok
    PROVE  LET p == Resolve(t, path).path
           IN Physical(t, p) /\ p \in DOMAIN t /\ IsDirectory(t[p]) /\ ~Fenced(p)
<1> DEFINE w == Realpath(t, path)
<1>1. w \in Walkers /\ (w.end = "ok" => Physical(t, w.at))
  BY RealpathLeads
<1> HIDE DEF w
<1>2. \A code : Failure(code).ok = FALSE
  BY DEF Failure
<1>3. ~Fenced(path) /\ w.end = "ok"
  <2>1. w.end \in {"ok", "missing", "loop"}
    BY <1>1 DEF Walkers
  <2> QED
    BY <1>2, <2>1 DEF Resolve, w
<1>4. Resolve(t, path) = Screened(t, w.at)
  BY <1>3 DEF Resolve, w
<1>5. ~Fenced(w.at) /\ w.at \in DOMAIN t /\ IsDirectory(t[w.at])
  BY <1>2, <1>4 DEF Screened, Directory
<1>6. Resolve(t, path).path = w.at
  BY <1>4, <1>5 DEF Screened, Directory
<1> QED
  BY <1>1, <1>3, <1>5, <1>6

----------------------------------------------------------------------------
(* The rows of a listing *)

LEMMA UpToIsFinite ==
    ASSUME NEW n \in Nat
    PROVE  IsFiniteSet(1..n)
<1>1. 1 \in Int /\ n \in Int
  OBVIOUS
<1> QED
  BY <1>1, FS_Interval, Zenon

LEMMA NamesAreFinite == IsFiniteSet(DOMAIN NameOrder)
<1>1. DOMAIN NameOrder = 1..Len(NameOrder) /\ Len(NameOrder) \in Nat
  BY BrowserAssumption
<1> QED
  BY <1>1, UpToIsFinite, Zenon

LEMMA LevelRowsAreRight ==
    ASSUME NEW t, FileTree(t), NEW base \in Paths
    PROVE  RowsAreRight(t, base)
<1> DEFINE rows == {i \in DOMAIN NameOrder : HasRow(t, base, NameOrder[i])}
           kept == {i \in rows : Cardinality({j \in rows : j < i}) < MaxEntries}
           level == ReadLevel(t, base)
<1> SUFFICES ASSUME level.ok, ~level.truncated,
                    NEW name \in ToSet(NameOrder) \ Sensitive,
                    Entry(t, base, name) \in DOMAIN t,
                    t[Entry(t, base, name)].kind = "link"
             PROVE  Append(base, name) \in level.rows <=>
                      \E p \in LeadsTo(t, Append(base, name)) :
                         /\ IsDirectory(t[p]) /\ ~Fenced(p)
                         /\ ~Fenced(Append(base, name))
  BY DEF RowsAreRight
<1>1. /\ level.rows = {Append(base, NameOrder[i]) : i \in kept}
      /\ level.truncated = (Cardinality(rows) > MaxEntries)
  BY DEF ReadLevel, Failure
<1>2. IsFiniteSet(rows) /\ Cardinality(rows) \in Nat
  <2>1. IsFiniteSet(DOMAIN NameOrder)
    BY NamesAreFinite
  <2> QED
    BY <2>1, FS_Subset, FS_CardinalityType
<1>3. kept = rows
  <2> SUFFICES ASSUME NEW i \in rows
               PROVE  Cardinality({j \in rows : j < i}) < MaxEntries
    OBVIOUS
  <2> DEFINE before == {j \in rows : j < i}
  <2>1. Cardinality(rows) <= MaxEntries
    <3>1. ~(Cardinality(rows) > MaxEntries)
      BY <1>1
    <3> HIDE DEF rows
    <3> QED
      BY <1>2, <3>1, BrowserAssumption
  <2>2. i \in Nat
    BY BrowserAssumption
  <2>3. before \subseteq rows /\ before # rows
    BY <2>2
  <2> HIDE DEF before, rows
  <2>4. /\ Cardinality(before) \in Nat
        /\ Cardinality(before) <= Cardinality(rows)
        /\ Cardinality(before) # Cardinality(rows)
    BY <1>2, <2>3, FS_Subset, FS_CardinalityType
  <2> QED
    BY <1>2, <2>1, <2>4, BrowserAssumption DEF before
<1>4. Append(base, name) \in level.rows <=> HasRow(t, base, name)
  <2>1. name \in ToSet(NameOrder)
    OBVIOUS
  <2>2. PICK i \in DOMAIN NameOrder : NameOrder[i] = name
    BY <2>1 DEF ToSet
  <2>3. ASSUME HasRow(t, base, name)
        PROVE  Append(base, name) \in level.rows
    BY <1>1, <1>3, <2>2, <2>3
  <2>4. ASSUME Append(base, name) \in level.rows
        PROVE  HasRow(t, base, name)
    <3>1. PICK j \in rows : Append(base, NameOrder[j]) = Append(base, name)
      BY <1>1, <1>3, <2>4
    <3>2. NameOrder[j] \in ToSet(NameOrder)
      BY DEF ToSet
    <3>3. NameOrder[j] = name
      BY <2>1, <3>1, <3>2, AppendInjective DEF Paths
    <3> QED
      BY <3>3
  <2> QED
    BY <2>3, <2>4
<1>5. HasRow(t, base, name) <=> Resolve(t, Append(base, name)).ok
  BY DEF HasRow, IsDirectory
<1>6. Append(base, name) \in Paths
  BY AppendProperties DEF Paths
<1> QED
  BY <1>4, <1>5, <1>6, ResolveMeets

----------------------------------------------------------------------------
(* The workspace picker *)

\* An answer of the route: a listing the fence lets through, or a reason.
Sound(answer) ==
    \/ answer.ok = TRUE /\ answer.path \in Paths /\ ~Fenced(answer.path)
    \/ answer.ok = FALSE /\ answer.error \in Codes

\* What is under way is a request, a path that passed the fence, or a sound
\* answer.
WireSound ==
    /\ wire = [s \in Slots |-> wire[s]]
    /\ \A s \in Slots :
         /\ wire[s].pc = "reading" =>
              wire[s].path \in Paths /\ ~Fenced(wire[s].path)
         /\ wire[s].pc = "answered" => Sound(wire[s].answer)

SheetSound ==
    /\ listing.ok => listing.path \in Paths /\ ~Fenced(listing.path)
    /\ listing.ok \in BOOLEAN

OutcomeSound ==
    /\ ~native /\ outcome # None => ~Fenced(outcome)
    /\ ~native => dialogs = {}

PInv ==
    /\ tree \in Trees
    /\ WireSound
    /\ SheetSound
    /\ OutcomeSound
    /\ NeverStuck

----------------------------------------------------------------------------
(* The fence *)

\* Every way up from an allowed path is allowed.
LEMMA WaysUp ==
    ASSUME NEW path \in Paths, ~Fenced(path)
    PROVE  \A p \in ToSet(Crumbs(path)) : ~Fenced(p)
<1> SUFFICES ASSUME NEW i \in 1..(Len(path) + 1),
                    Fenced(SubSeq(path, 1, i - 1))
             PROVE  FALSE
  BY DEF ToSet, Crumbs
<1> DEFINE p == SubSeq(path, 1, i - 1)
<1>1. /\ p \in Paths /\ Len(p) = i - 1 /\ Len(p) <= Len(path)
      /\ \A j \in 1..Len(p) : p[j] = path[j]
  BY DEF Paths
<1>2. CASE SensitivePath(p)
  BY <1>1, <1>2 DEF SensitivePath, Fenced, Paths
<1>3. CASE BlockedPath(p)
  <2>1. PICK prefix \in BlockedPrefixes : IsPrefix(prefix, p)
    BY <1>3 DEF BlockedPath
  <2>2. prefix \in Paths
    BY BrowserAssumption DEF Paths
  <2>3. /\ Len(prefix) <= Len(path)
        /\ \A j \in 1..Len(prefix) : prefix[j] = path[j]
    BY <1>1, <2>1, <2>2 DEF IsPrefix, Paths
  <2>4. IsPrefix(prefix, path)
    BY <2>2, <2>3 DEF IsPrefix, Paths
  <2> QED
    BY <2>4 DEF BlockedPath, Fenced
<1> QED
  BY <1>2, <1>3 DEF Fenced

LEMMA FailuresAreSound == \A code \in Codes : Sound(Failure(code))
BY DEF Sound, Failure

\* Whatever a path leads to, through whichever links, what is resolved passes
\* the fence and stands in the tree.
LEMMA ResolvedIsSound ==
    ASSUME NEW t \in Trees, NEW path
    PROVE  Sound(Resolve(t, path))
<1>1. \A code \in {"blocked", "not_found", "unreadable", "not_a_directory"} :
         Sound(Failure(code))
  BY FailuresAreSound DEF Codes
<1>2. ASSUME NEW canonical
      PROVE  Sound(Screened(t, canonical))
  <2>1. CASE canonical \in DOMAIN t /\ ~Fenced(canonical)
    <3>1. canonical \in Paths
      BY <2>1, PickerAssumption DEF FileTree
    <3>2. Sound([ok |-> TRUE, path |-> canonical])
      BY <2>1, <3>1 DEF Sound
    <3> QED
      BY <1>1, <2>1, <3>2 DEF Screened, Directory
  <2>2. CASE canonical \notin DOMAIN t \/ Fenced(canonical)
    BY <1>1, <2>2 DEF Screened, Directory
  <2> QED
    BY <2>1, <2>2
<1> QED
  BY <1>1, <1>2 DEF Resolve

LEMMA LevelIsSound ==
    ASSUME NEW t, NEW path \in Paths, ~Fenced(path)
    PROVE  Sound(ReadLevel(t, path))
<1>1. Sound(Failure("unreadable"))
  BY FailuresAreSound DEF Codes
<1>2. CASE Realpath(t, path).end # "ok"
             \/ t[Realpath(t, path).at].kind # "dir"
  BY <1>1, <1>2 DEF ReadLevel
<1>3. CASE ~(Realpath(t, path).end # "ok"
               \/ t[Realpath(t, path).at].kind # "dir")
  <2>1. ReadLevel(t, path).ok = TRUE /\ ReadLevel(t, path).path = path
    BY <1>3 DEF ReadLevel
  <2> QED
    BY <2>1 DEF Sound
<1> QED
  BY <1>2, <1>3

----------------------------------------------------------------------------
(* The steps *)

LEMMA PickerStarts == PickerInit => PInv
BY DEF PickerInit, PInv, WireSound, SheetSound, OutcomeSound, NeverStuck,
       Idle, NoListing

\* Whatever starts a listing leaves one on its way, and no notice.
LEMMA LoadLeaves ==
    ASSUME WireSound, NEW path, Load(path)
    PROVE  /\ WireSound'
           /\ \E s \in Slots : wire'[s] # Idle
           /\ notice' = None
<1>1. PICK s \in Slots :
        wire' = [wire EXCEPT ![s] =
                   [pc |-> "sent", path |-> IF path = None THEN Home ELSE path]]
  BY DEF Load
<1>2. /\ wire' = [r \in Slots |-> wire'[r]]
      /\ wire'[s].pc = "sent" /\ wire'[s] # Idle
      /\ \A r \in Slots \ {s} : wire'[r] = wire[r]
  BY <1>1 DEF WireSound, Idle
<1>3. WireSound'
  BY <1>2 DEF WireSound
<1> QED
  BY <1>2, <1>3 DEF Load

\* The host answers soundly or reads on, and what is under way stays so.
LEMMA HostMoves ==
    ASSUME WireSound, NEW s \in Slots, NEW entry,
           wire' = [wire EXCEPT ![s] = entry],
           \/ entry.pc = "answered" /\ Sound(entry.answer)
           \/ /\ entry.pc = "reading"
              /\ entry.path \in Paths /\ ~Fenced(entry.path)
    PROVE  WireSound' /\ \E r \in Slots : wire'[r] # Idle
<1>1. /\ wire' = [r \in Slots |-> wire'[r]]
      /\ wire'[s] = entry
      /\ \A r \in Slots \ {s} : wire'[r] = wire[r]
  BY DEF WireSound
<1>2. WireSound'
  BY <1>1 DEF WireSound
<1> QED
  BY <1>1, <1>2 DEF Idle

LEMMA SoundAnswer ==
    ASSUME WireSound, NEW s \in Slots, NEW a, Sound(a), Answer(s, a)
    PROVE  WireSound' /\ \E r \in Slots : wire'[r] # Idle
<1> DEFINE entry == [pc |-> "answered", answer |-> a]
<1>1. entry.pc = "answered" /\ entry.answer = a
  OBVIOUS
<1>2. wire' = [wire EXCEPT ![s] = entry]
  BY DEF Answer
<1> HIDE DEF entry
<1> QED
  BY <1>1, <1>2, HostMoves

\* A handler of the host that leaves the sheet and the owner alone.
LEMMA HostKeeps ==
    ASSUME PInv, WireSound', \E r \in Slots : wire'[r] # Idle,
           tree' = tree, UNCHANGED <<owner, native, sheet, dialogs>>
    PROVE  PInv'
<1> USE DEF PInv, owner, sheet
<1>1. SheetSound' /\ OutcomeSound'
  BY DEF SheetSound, OutcomeSound
<1>2. NeverStuck'
  BY DEF NeverStuck
<1> QED
  BY <1>1, <1>2

\* A closed flow shows nothing; nothing is owed to it.
LEMMA BlankKeeps ==
    ASSUME PInv, Blank, UNCHANGED <<outcome, native, wire, tree>>,
           dialogs' \subseteq dialogs
    PROVE  PInv'
BY DEF PInv, Blank, WireSound, SheetSound, OutcomeSound, NeverStuck, NoListing

LEMMA PickerStep == PInv /\ [PickerNext]_pickerVars => PInv'
<1> SUFFICES ASSUME PInv, [PickerNext]_pickerVars PROVE PInv'
  OBVIOUS
<1> USE DEF PInv
<1>1. CASE OpenFlow
  <2>1. CASE native
    BY <1>1, <2>1 DEF OpenFlow, WireSound, SheetSound, OutcomeSound,
                      NeverStuck, sheet, host
  <2>2. CASE ~native
    <3>1. Load(None) /\ UNCHANGED <<listing, dialogs, native, tree>>
      BY <1>1, <2>2 DEF OpenFlow, host
    <3>2. WireSound' /\ \E s \in Slots : wire'[s] # Idle
      BY <3>1, LoadLeaves
    <3>3. open' = TRUE /\ outcome' = None
      BY <1>1 DEF OpenFlow
    <3> QED
      BY <3>1, <3>2, <3>3 DEF SheetSound, OutcomeSound, NeverStuck
  <2> QED
    BY <2>1, <2>2
<1>2. CASE NoPicker
  <2>1. CASE open
    BY <1>2, <2>1, BlankKeeps DEF NoPicker, Cancelled, host
  <2> QED
    BY <1>2, <2>1 DEF NoPicker
<1>3. ASSUME NEW f \in dialogs, DialogAnswered(f)
      PROVE  PInv'
  <2>1. native /\ native' = native
    BY <1>3 DEF DialogAnswered, OutcomeSound
  <2>2. CASE Cancelled /\ open
    BY <1>3, <2>2, BlankKeeps DEF DialogAnswered, Cancelled, host
  <2>3. CASE ~(Cancelled /\ open)
    <3>1. UNCHANGED <<open, sheet, wire, tree>>
      BY <1>3, <2>3 DEF DialogAnswered, Cancelled, Picked, host, owner
    <3> QED
      BY <2>1, <3>1 DEF WireSound, SheetSound, OutcomeSound, NeverStuck, sheet
  <2> QED
    BY <2>2, <2>3
<1>4. ASSUME ClickTarget \/ TryAgain
      PROVE  PInv'
  <2>1. PICK path : Load(path)
    BY <1>4 DEF ClickTarget, TryAgain
  <2>2. WireSound' /\ \E s \in Slots : wire'[s] # Idle
    BY <2>1, LoadLeaves
  <2>3. /\ open' = open /\ open
        /\ UNCHANGED <<outcome, native, listing, dialogs, tree>>
    BY <1>4 DEF ClickTarget, TryAgain, owner, host, Showing
  <2> QED
    BY <2>2, <2>3 DEF SheetSound, OutcomeSound, NeverStuck
<1>5. CASE UsePath
  <2>1. /\ outcome' = listing.path /\ ~Fenced(listing.path)
        /\ UNCHANGED <<open, sheet, native, wire, dialogs, tree>>
    BY <1>5 DEF UsePath, Picked, Showing, SheetSound, host
  <2> QED
    BY <2>1 DEF WireSound, SheetSound, OutcomeSound, NeverStuck, sheet
<1>6. CASE CancelSheet
  BY <1>6, BlankKeeps DEF CancelSheet, Cancelled, Showing, host
<1>7. CASE OwnerCloses
  BY <1>7, BlankKeeps DEF OwnerCloses, host
<1>8. ASSUME UNCHANGED <<owner, native, sheet, wire, dialogs>>, tree' \in Trees
      PROVE  PInv'
  BY <1>8 DEF WireSound, SheetSound, OutcomeSound, NeverStuck, owner, sheet
<1>9. CASE SubmitUnlock \/ UnlockFails \/ ServeUnlock \/ RefuseUnlock
             \/ WorldMoves \/ OthersBrowse \/ NewWindow
  BY <1>8, <1>9 DEF SubmitUnlock, UnlockFails, ServeUnlock, RefuseUnlock,
                    WorldMoves, OthersBrowse, NewWindow, host
<1>10. CASE UnlockLands
  <2>1. Load(lastPath) /\ UNCHANGED <<owner, native, listing, dialogs, tree>>
    BY <1>10 DEF UnlockLands, host
  <2>2. /\ WireSound' /\ \E s \in Slots : wire'[s] # Idle
        /\ notice' = None
    BY <2>1, LoadLeaves
  <2> QED
    BY <2>1, <2>2 DEF SheetSound, OutcomeSound, NeverStuck, owner
<1>11. ASSUME NEW s \in Slots, Land(s)
       PROVE  PInv'
  <2> DEFINE answer == wire[s].answer
  <2>1. Sound(answer)
    BY <1>11 DEF Land, WireSound
  <2>2. /\ wire' = [wire EXCEPT ![s] = Idle]
        /\ UNCHANGED <<owner, native, dialogs, tree>>
    BY <1>11 DEF Land, host
  <2>3. WireSound'
    <3>1. /\ wire' = [r \in Slots |-> wire'[r]]
          /\ wire'[s] = Idle
          /\ \A r \in Slots \ {s} : wire'[r] = wire[r]
      BY <2>2 DEF WireSound
    <3> QED
      BY <3>1 DEF WireSound, Idle
  <2>4. OutcomeSound'
    BY <2>2 DEF OutcomeSound, owner
  <2>5. CASE ~open
    BY <1>11, <2>2, <2>3, <2>4, <2>5 DEF Land, SheetSound, NeverStuck, owner
  <2>6. CASE open /\ answer.ok
    <3>1. listing' = answer /\ loading' = FALSE
      BY <1>11, <2>6 DEF Land
    <3>2. SheetSound' /\ NeverStuck'
      BY <2>1, <2>2, <2>6, <3>1 DEF Sound, SheetSound, NeverStuck, owner
    <3> QED
      BY <2>2, <2>3, <2>4, <3>2
  <2>7. CASE open /\ ~answer.ok
    <3>1. notice' = answer.error /\ loading' = FALSE /\ listing' = listing
      BY <1>11, <2>7 DEF Land
    <3>2. notice' # None
      BY <2>1, <2>7, <3>1, PickerAssumption DEF Sound
    <3>3. SheetSound' /\ NeverStuck'
      BY <2>2, <2>7, <3>1, <3>2 DEF SheetSound, NeverStuck, owner
    <3> QED
      BY <2>2, <2>3, <2>4, <3>3
  <2> QED
    BY <2>5, <2>6, <2>7
<1>12. ASSUME NEW s \in Slots, Refuse(s)
       PROVE  PInv'
  <2>1. PICK code \in Codes : Answer(s, Failure(code))
    BY <1>12 DEF Refuse, Codes
  <2>2. WireSound' /\ \E r \in Slots : wire'[r] # Idle
    BY <2>1, FailuresAreSound, SoundAnswer
  <2> QED
    BY <1>12, <2>2, HostKeeps DEF Refuse
<1>13. ASSUME NEW s \in Slots, ResolvePath(s)
       PROVE  PInv'
  <2> DEFINE r == Resolve(tree, wire[s].path)
  <2>1. Sound(r)
    BY ResolvedIsSound
  <2>2. CASE r.ok
    <3> DEFINE entry == [pc |-> "reading", path |-> r.path]
    <3>1. wire' = [wire EXCEPT ![s] = entry]
      BY <1>13, <2>2 DEF ResolvePath
    <3>2. /\ entry.pc = "reading"
          /\ entry.path \in Paths /\ ~Fenced(entry.path)
      BY <2>1, <2>2 DEF Sound
    <3> HIDE DEF entry
    <3>3. WireSound' /\ \E q \in Slots : wire'[q] # Idle
      BY <3>1, <3>2, HostMoves
    <3> QED
      BY <1>13, <3>3, HostKeeps DEF ResolvePath
  <2>3. CASE ~r.ok
    <3>1. Answer(s, r)
      BY <1>13, <2>3 DEF ResolvePath
    <3>2. WireSound' /\ \E q \in Slots : wire'[q] # Idle
      BY <2>1, <3>1, SoundAnswer
    <3> QED
      BY <1>13, <3>2, HostKeeps DEF ResolvePath
  <2> QED
    BY <2>2, <2>3
<1>14. ASSUME NEW s \in Slots, Read(s)
       PROVE  PInv'
  <2>1. wire[s].path \in Paths /\ ~Fenced(wire[s].path)
    BY <1>14 DEF Read, WireSound
  <2>2. Sound(ReadLevel(tree, wire[s].path))
    BY <2>1, LevelIsSound
  <2>3. WireSound' /\ \E q \in Slots : wire'[q] # Idle
    BY <1>14, <2>2, SoundAnswer DEF Read
  <2> QED
    BY <1>14, <2>3, HostKeeps DEF Read, host
<1>15. ASSUME NEW s \in Slots, Break(s)
       PROVE  PInv'
  <2>1. Sound(Failure("unauthorized"))
    BY FailuresAreSound DEF Codes
  <2>2. WireSound' /\ \E q \in Slots : wire'[q] # Idle
    BY <1>15, <2>1, SoundAnswer DEF Break
  <2> QED
    BY <1>15, <2>2, HostKeeps DEF Break, host
<1>16. CASE UNCHANGED pickerVars
  BY <1>8, <1>16 DEF pickerVars, host
<1> QED
  BY <1>1, <1>2, <1>3, <1>4, <1>5, <1>6, <1>7, <1>9, <1>10, <1>11, <1>12,
     <1>13, <1>14, <1>15, <1>16 DEF PickerNext

LEMMA PickerInvariant == PickerSpec => []PInv
BY PickerStarts, PickerStep, PTL DEF PickerSpec

\* NeverStuck: on the sheet there is always a listing under way, a listing or
\* a notice, and a closed flow shows nothing (the effects and the guards on
\* `open` of workspace-flow.ts), for any number of requests and flows.
THEOREM SheetNeverStuck == PickerSpec => []NeverStuck
BY PickerInvariant, PTL DEF PInv

\* FenceHolds: whatever the trees link where and however they change between
\* the resolve and the read, the picked path, the listing and every crumb of
\* it pass the fence of browse.ts.
THEOREM FenceAlwaysHolds == PickerSpec => []FenceHolds
<1>1. PInv => FenceHolds
  <2> SUFFICES ASSUME PInv PROVE FenceHolds
    OBVIOUS
  <2>1. ASSUME listing.ok
        PROVE  /\ ~Fenced(listing.path)
               /\ \A p \in ToSet(Crumbs(listing.path)) : ~Fenced(p)
    BY <2>1, WaysUp DEF PInv, SheetSound
  <2> QED
    BY <2>1 DEF PInv, OutcomeSound, FenceHolds
<1> QED
  BY <1>1, PickerInvariant, PTL

\* RowsLead: a link is listed when, and only when, a chain of at most
\* LinkLimit links leads from it to a directory outside the fence
\* (listDirectories of browse.ts), for every tree, however its links chain,
\* end nowhere or lead round in a circle.
THEOREM RowsAlwaysLead == PickerSpec => []RowsLead
<1>1. PInv => RowsLead
  <2> SUFFICES ASSUME PInv, listing.ok
               PROVE  RowsAreRight(tree, listing.path)
    BY DEF RowsLead
  <2>1. FileTree(tree) /\ listing.path \in Paths
    BY PickerAssumption DEF PInv, SheetSound
  <2> QED
    BY <2>1, LevelRowsAreRight
<1> QED
  BY <1>1, PickerInvariant, PTL
=============================================================================
