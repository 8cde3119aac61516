------------------------------ MODULE TurnRail ------------------------------
(***************************************************************************)
(* The touch layer of the turn rail (mobileTurnRailTouchScript in          *)
(* src/settings/index-tap.ts), a script of the served page: holding a mark *)
(* of the rail opens a card with that turn's summary, sliding moves the    *)
(* card from mark to mark, a quick drag scrolls, a tap navigates.          *)
(*                                                                         *)
(* The summary is read off the official tooltip.  The official component   *)
(* is asked for it by a synthetic pointer event and commits it later, so   *)
(* until then the tooltip of another turn may still be mounted.  Timers    *)
(* and commits happen in any order; how long they take is left out.        *)
(*                                                                         *)
(* The rail is virtualised: of the turns 1..Turns only Window marks are    *)
(* rendered, from the turn after `top`.  A finger is at a position of the  *)
(* window; the first and the last one are the edges that scroll.           *)
(***************************************************************************)
EXTENDS Integers, FiniteSets

CONSTANTS
    Fingers,     \* pointers of the touch screen
    Turns,       \* number of turns of the conversation
    Window,      \* marks rendered at once
    Text,        \* the summary of each turn; two turns may share one
    SameAfter,   \* polls after which an unchanged summary is accepted
    MaxPolls,    \* polls of one preview
    MaxGestures  \* bound: fingers put down in a run

ASSUME RailAssumption ==
    /\ Turns \in Nat /\ Window \in 1..Turns
    /\ Text \in [1..Turns -> Nat \ {0}]
    /\ SameAfter \in 0..MaxPolls /\ MaxPolls \in Nat \ {0}
    /\ MaxGestures \in Nat
    /\ 0 \notin Fingers

VARIABLES
    \* the gesture
    mode,      \* armed, scrubbing and dragScrolling of the script, or none
    hold,      \* the mark the hold timer will open, 0 without a timer
    pointer,   \* pointerId: the finger captured, 0 without one
    at,        \* lastY
    scroll,    \* scrubDir and whether autoScroll is scheduled
    \* the card
    shown, text, mark, baseline, cache,
    watch,     \* the mark watched, the polls made and whether one is due
    settle,    \* whether the settle timer runs
    frame,     \* the directions of the steps waiting for the next frame
    swallow,   \* whether a click is swallowed when it comes
    \* the official component and the page
    hovered,   \* the turn it was last asked to preview
    tip,       \* the turn whose tooltip and markPreview class are committed
    current,   \* the turn the transcript is at: its mark has aria-current
    top,       \* scroll position of the rail
    \* history
    down,      \* the fingers on the screen, and what their touch became
    strayed,   \* whether a touch that was a gesture of its own navigated
    visited,   \* the turns that have been current
    gestures   \* fingers put down, out of MaxGestures

gesture == <<mode, hold, pointer, at, scroll>>
preview == <<shown, text, mark, baseline, cache, watch>>
official == <<hovered, tip, current, top, visited>>
vars == <<gesture, preview, settle, frame, swallow, official, down, strayed,
          gestures>>

Pending == 0  \* the card says that the summary is being read

Rendered == (top + 1)..(top + Window)

Unwatched == [node |-> 0, polls |-> 0, due |-> FALSE]
Still == [dir |-> 0, due |-> FALSE]
NoCache == [t \in 1..Turns |-> 0]
Up == [on |-> FALSE, held |-> FALSE, alone |-> TRUE, turn |-> 0]

Init ==
    /\ mode = "none" /\ hold = 0 /\ pointer = 0 /\ at = 1 /\ scroll = Still
    /\ shown = FALSE /\ text = Pending /\ mark = 0 /\ baseline = 0
    /\ cache = NoCache /\ watch = Unwatched
    /\ settle = FALSE /\ frame = {} /\ swallow = FALSE
    /\ hovered = 0 /\ tip = 0 /\ top = 0
    /\ current \in 1..Turns /\ visited = {current}
    /\ down = [f \in Fingers |-> Up]
    /\ strayed = FALSE
    /\ gestures = 0

----------------------------------------------------------------------------
(* The card *)

\* Mutant: the tooltip is read before it was committed for this mark.
PreviewReady_Always(n) == TRUE

\* previewReady: the commit that put the class on the mark also changed the
\* tooltip.  The mark of the current turn passes without it.
PreviewReady(n) == tip = n \/ current = n

\* paint: the tooltip where it may be taken for the summary of mark n, else
\* what was stored for n before.
Readable(n, base, same) ==
    tip # 0 /\ PreviewReady(n) /\ (same \/ Text[tip] # base)

Paint(n, base, same, stored) ==
    /\ shown' = TRUE
    /\ IF Readable(n, base, same)
       THEN /\ text' = Text[tip]
            /\ cache' = [stored EXCEPT ![n] = Text[tip]]
       ELSE /\ text' = stored[n]
            /\ cache' = stored

\* previewMark: the official component is asked, and the tooltip read at once,
\* at every poll and whenever it changes.
Preview(n, stored) ==
    LET base == IF mark # 0 /\ tip # 0 THEN Text[tip] ELSE 0 IN
    /\ baseline' = base
    /\ mark' = n
    /\ hovered' = n
    /\ Paint(n, base, 0 >= SameAfter, stored)
    /\ watch' = [node |-> n, polls |-> 1, due |-> 1 < MaxPolls]
    /\ settle' = FALSE

NoPreview == UNCHANGED <<preview, settle, hovered>>

\* Mutant: hiding the card leaves its polling and its settle timer running.
HideCard_KeepsWatch ==
    /\ shown' = FALSE /\ mark' = 0 /\ baseline' = 0 /\ cache' = NoCache
    /\ text' = Pending /\ UNCHANGED <<watch, settle>>

HideCard ==
    /\ shown' = FALSE /\ mark' = 0 /\ baseline' = 0 /\ cache' = NoCache
    /\ watch' = Unwatched /\ settle' = FALSE /\ text' = Pending

\* Mutant: a touch that ends leaves its hold timer running.
EndGesture_KeepsHold ==
    /\ pointer' = 0 /\ scroll' = Still /\ at' = 1 /\ UNCHANGED <<mode, hold>>

\* Where the finger was last matters to a gesture only.
EndGesture ==
    /\ mode' = "none" /\ hold' = 0 /\ pointer' = 0 /\ scroll' = Still
    /\ at' = 1

\* hide: the card, the gesture and every timer.
Hide == HideCard /\ EndGesture

----------------------------------------------------------------------------
(* Fingers *)

\* Bound: so many gestures.  Another finger means none is alone any more.
Touch(f, turn) ==
    /\ ~down[f].on
    /\ gestures < MaxGestures /\ gestures' = gestures + 1
    /\ down' = [g \in Fingers |->
         IF g = f THEN [Up EXCEPT !.on = TRUE, !.turn = turn,
                                  !.alone = \A o \in Fingers : ~down[o].on]
         ELSE [down[g] EXCEPT !.alone = FALSE]]

\* onDown on a mark: an open card closes, the hold timer starts.
DownOnMark(f, p) ==
    /\ Touch(f, top + p)
    /\ IF shown THEN HideCard ELSE UNCHANGED <<preview, settle>>
    /\ mode' = "armed" /\ hold' = top + p /\ pointer' = f /\ at' = p
    /\ scroll' = IF shown THEN Still ELSE scroll
    /\ UNCHANGED <<frame, swallow, official, strayed>>

\* onDown anywhere else but on the card.
DownElsewhere(f) ==
    /\ Touch(f, 0)
    /\ IF shown THEN Hide
                ELSE UNCHANGED <<gesture, preview, settle>>
    /\ UNCHANGED <<frame, swallow, official, strayed>>

\* The hold timer: open, the card of the mark held.
HoldFires ==
    /\ hold # 0
    /\ hold' = 0
    /\ IF mode = "armed"
       THEN /\ mode' = "scrub"
            /\ Preview(hold, cache)
            /\ down' = [f \in Fingers |->
                 IF f = pointer THEN [down[f] EXCEPT !.held = TRUE] ELSE down[f]]
       ELSE NoPreview /\ UNCHANGED <<mode, down>>
    /\ UNCHANGED <<pointer, at, scroll, frame, swallow, tip, current, visited,
                   top, strayed, gestures>>

\* Another finger than the captured one is not listened to.
Heard(f) == down[f].on /\ pointer \in {0, f}

Slide(to) == top' = IF to \in 0..(Turns - Window) THEN to ELSE top

\* onMove beyond the slop before the hold timer: the touch scrolls the rail.
MoveDrag(f) ==
    /\ Heard(f) /\ mode \in {"armed", "drag"}
    /\ mode' = "drag" /\ hold' = IF mode = "armed" THEN 0 ELSE hold
    /\ \E to \in {top - 1, top + 1} : Slide(to)
    /\ down' = [down EXCEPT ![f].held = TRUE]
    /\ NoPreview
    /\ UNCHANGED <<pointer, at, scroll, frame, swallow, tip, current, visited,
                   strayed, gestures>>

\* updateAuto: the edges of the rail scroll it while the finger stays there.
Edge(p) == IF p = 1 THEN -1 ELSE IF p = Window THEN 1 ELSE 0

\* onMove once the card is open: the mark under the finger, also when the
\* finger stayed on it and a step of the card went elsewhere meanwhile.
MoveScrub(f, p) ==
    /\ Heard(f) /\ mode = "scrub"
    /\ at' = p
    /\ IF top + p # mark THEN Preview(top + p, cache) ELSE NoPreview
    /\ scroll' = IF Edge(p) = scroll.dir THEN scroll
                 ELSE [dir |-> Edge(p), due |-> Edge(p) # 0]
    /\ UNCHANGED <<mode, hold, pointer, frame, swallow, tip, current, visited,
                   top, down, strayed, gestures>>

AutoScroll ==
    /\ scroll.due
    /\ LET to == top + scroll.dir IN
       IF mode # "scrub" \/ to \notin 0..(Turns - Window)
       THEN /\ scroll' = IF mode # "scrub" THEN [scroll EXCEPT !.due = FALSE]
                                          ELSE Still
            /\ NoPreview /\ UNCHANGED top
       ELSE /\ top' = to
            /\ IF to + at # mark THEN Preview(to + at, cache) ELSE NoPreview
            /\ UNCHANGED scroll
    /\ UNCHANGED <<mode, hold, pointer, at, frame, swallow, tip, current,
                   visited, down, strayed, gestures>>

\* The click a touch ends in, if the browser makes one: a handler of an
\* earlier gesture, or of this one, swallows it; else the official mark
\* navigates to its turn.
Click(f, swallowing) ==
    LET navigated == ~swallowing /\ down[f].turn # 0 IN
    /\ strayed' = (strayed \/ (navigated /\ down[f].held /\ down[f].alone))
    /\ swallow' = FALSE
    /\ IF navigated THEN /\ current' = down[f].turn
                         /\ visited' = visited \cup {down[f].turn}
                    ELSE UNCHANGED <<current, visited>>

NoClickFollows(swallowing) ==
    swallow' = swallowing /\ UNCHANGED <<strayed, current, visited>>

\* Mutant: a pointer taken away by the system leaves its click alone.
Swallows_NotOnCancel(cancelled) == ~cancelled /\ mode \in {"scrub", "drag"}

\* finish and cancel: only a touch that became a gesture has its click taken.
Swallows(cancelled) == mode \in {"scrub", "drag"}

\* A finger is lifted (cancelled = FALSE) or its stream is cancelled by the
\* system, which nobody compares with the finger captured.
Release(f, cancelled) ==
    /\ down[f].on
    /\ LET taken == swallow \/ (Swallows(cancelled) /\ (cancelled \/ Heard(f)))
       IN \/ Click(f, taken)
          \/ (down[f].held \/ cancelled) /\ NoClickFollows(taken)
    /\ IF cancelled \/ Heard(f) THEN EndGesture ELSE UNCHANGED gesture
    /\ IF ~cancelled /\ Heard(f) /\ mode = "scrub" /\ mark # 0
       THEN settle' = TRUE /\ hovered' = mark
       ELSE UNCHANGED <<settle, hovered>>
    /\ down' = [down EXCEPT ![f] = Up]
    /\ UNCHANGED <<preview, frame, tip, top, gestures>>

SwallowExpires ==
    /\ swallow /\ swallow' = FALSE
    /\ UNCHANGED <<gesture, preview, settle, frame, official, down, strayed, gestures>>

----------------------------------------------------------------------------
(* The buttons of the card *)

\* Tapping one takes a finger that is free.
Tap ==
    /\ shown
    /\ \E f \in Fingers : ~down[f].on
    /\ down' = [g \in Fingers |-> [down[g] EXCEPT !.alone = ~down[g].on]]

CloseCard ==
    /\ Tap
    /\ Hide
    /\ UNCHANGED <<frame, swallow, official, strayed, gestures>>

\* The jump button clicks the official mark itself.
Jump ==
    /\ Tap
    /\ Hide
    /\ IF swallow THEN swallow' = FALSE /\ UNCHANGED <<current, visited>>
       ELSE /\ current' = mark /\ visited' = visited \cup {mark}
            /\ UNCHANGED swallow
    /\ UNCHANGED <<frame, hovered, tip, top, strayed, gestures>>

\* step: to the neighbour among the marks rendered; a mark that is rendered no
\* more counts as the one before the first.  At the end the rail scrolls.
Step(dir) ==
    /\ Tap
    /\ LET i == IF mark \in Rendered THEN mark - top ELSE 0 IN
       IF i + dir \in 1..Window
       THEN Preview(top + i + dir, cache) /\ UNCHANGED <<frame, top>>
       ELSE frame' = frame \cup {dir} /\ Slide(top + dir) /\ NoPreview
    /\ UNCHANGED <<gesture, swallow, tip, current, visited, strayed, gestures>>

\* The frame after it previews the outermost mark, whatever happened meanwhile:
\* hide does not cancel it, and the preview shows the card.
StepFrame(dir) ==
    /\ dir \in frame
    /\ frame' = frame \ {dir}
    /\ Preview(IF dir < 0 THEN top + Window ELSE top + 1, cache)
    /\ UNCHANGED <<gesture, swallow, tip, current, visited, top, down, strayed,
                   gestures>>

----------------------------------------------------------------------------
(* The official component and the timers of the preview *)

\* React commits the preview asked for last; the observers read it.
Commit ==
    /\ tip # hovered
    /\ tip' = hovered
    /\ IF watch.node # 0 /\ watch.node = mark /\ shown
       THEN IF (hovered = mark \/ current = mark) /\ Text[hovered] # baseline
            THEN text' = Text[hovered] /\ cache' = [cache EXCEPT ![mark] = Text[hovered]]
            ELSE text' = cache[mark] /\ UNCHANGED cache
       ELSE UNCHANGED <<text, cache>>
    /\ UNCHANGED <<gesture, shown, mark, baseline, watch, settle, frame, swallow,
                   hovered, current, top, visited, down, strayed, gestures>>

\* retry: ask again and read, so many times.
Poll ==
    /\ watch.due
    /\ IF shown /\ mark = watch.node
       THEN /\ hovered' = mark
            /\ Paint(mark, baseline, watch.polls >= SameAfter, cache)
            /\ watch' = [watch EXCEPT !.polls = @ + 1, !.due = @ /\ watch.polls + 1 < MaxPolls]
       ELSE /\ watch' = [watch EXCEPT !.due = FALSE]
            /\ UNCHANGED <<hovered, shown, text, cache>>
    /\ UNCHANGED <<gesture, mark, baseline, settle, frame, swallow, tip, current,
                   top, visited, down, strayed, gestures>>

SettleFires ==
    /\ settle /\ settle' = FALSE
    /\ hovered' = IF shown /\ mark # 0 THEN mark ELSE hovered
    /\ UNCHANGED <<gesture, preview, frame, swallow, tip, current, top, visited,
                   down, strayed, gestures>>

Next ==
    \/ \E f \in Fingers :
         \/ \E p \in 1..Window : DownOnMark(f, p) \/ MoveScrub(f, p)
         \/ DownElsewhere(f) \/ MoveDrag(f)
         \/ \E cancelled \in BOOLEAN : Release(f, cancelled)
    \/ HoldFires \/ AutoScroll \/ SwallowExpires
    \/ CloseCard \/ Jump \/ Step(-1) \/ Step(1)
    \/ StepFrame(-1) \/ StepFrame(1)
    \/ Commit \/ Poll \/ SettleFires

Spec == Init /\ [][Next]_vars

----------------------------------------------------------------------------
(* Properties *)

\* The card of a turn shows that turn's summary or none at all, however the
\* commits of the official component fall between the moves of the finger;
\* the turns the transcript has been at are another matter.
CardTellsTheTurn ==
    shown /\ mark \notin visited => text \in {Pending, Text[mark]}

\* A touch that was held or dragged, with no other finger on the screen, does
\* not navigate when it ends, also when the system took the pointer away.
HeldNeverNavigates == ~strayed

\* What ends with the card: its polling, its settle timer and the scrolling of
\* the rail.  The animation frame of a step does not.
CardAtRest == ~shown => ~watch.due /\ ~settle /\ ~scroll.due /\ mark = 0

\* The finger that holds mark n is still on the screen.
HeldBy(f, n) == f = pointer /\ down[f].on /\ down[f].turn = n

\* A card that was hidden comes back in two ways only: a finger is still on
\* the mark whose card opens, or a step was waiting for its frame, which hide
\* leaves running.  No poll, no timer and no touch that has ended shows it.
Reopens ==
    ~shown /\ shown' =>
      \/ hold # 0 /\ \E f \in Fingers : HeldBy(f, mark')
      \/ \E dir \in frame : frame' = frame \ {dir}

\* Hiding the card ends all that runs for it but the frame of a step, and only
\* that frame or a finger holding a mark brings it back.
HiddenStaysHidden == [][CardAtRest' /\ Reopens]_vars
=============================================================================
