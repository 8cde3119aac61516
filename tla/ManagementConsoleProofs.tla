----------------------- MODULE ManagementConsoleProofs -----------------------
(***************************************************************************)
(* Proofs about ManagementConsole, for any pages, kinds of changes, events *)
(* and troubles.                                                           *)
(*                                                                         *)
(* Saved: a call goes on to read the settings again only after the host    *)
(* said that the change was made.                                          *)
(*                                                                         *)
(* Current: a page with one call under way reads with the cookie it has,   *)
(* and whatever another page or the clock changes in the view of this one  *)
(* counts up `rev`: the cookies of two browsers differ, so locking and     *)
(* unlocking elsewhere does not reach this browser's session.              *)
(***************************************************************************)
EXTENDS ManagementConsole, TLAPS

Views ==
    [hasPassword : BOOLEAN, adminRequired : BOOLEAN, readOnly : BOOLEAN,
     adminUnlocked : BOOLEAN, link : BOOLEAN, rev : Nat]

PageRecord ==
    [snapshot : Views \cup {None}, error : BOOLEAN, busy : BOOLEAN,
     notice : {"none", "hint", "saved"}, timers : SUBSET {"own", "older"}]

Shapes ==
    /\ rev \in Nat
    /\ calls = [c \in Calls |-> calls[c]]
    /\ page \in [Pages -> PageRecord]
    /\ \A c \in Calls :
         /\ calls[c].pc \in {"post", "body"} =>
              calls[c] = [pc |-> calls[c].pc, kind |-> calls[c].kind,
                          value |-> calls[c].value, cookie |-> calls[c].cookie,
                          done |-> calls[c].done]
         /\ calls[c].pc = "view" => calls[c].view \in Views

LEMMA CallsOfPages ==
    ASSUME NEW c \in Calls
    PROVE  c[1] \in Pages /\ c[2] \in Slots(c[1]) /\ c = <<c[1], c[2]>>
BY DEF Calls

LEMMA SlotsAreCalls ==
    ASSUME NEW p \in Pages, NEW s \in Slots(p)
    PROVE  <<p, s>> \in Calls
BY DEF Calls

LEMMA ShapesInit == Init => Shapes
<1> SUFFICES ASSUME Init PROVE Shapes
  OBVIOUS
<1>1. Blank \in PageRecord
  BY DEF PageRecord, Blank
<1>2. page \in [Pages -> PageRecord]
  BY <1>1 DEF Init, Start
<1>3. calls = [c \in Calls |-> calls[c]]
      /\ \A c \in Calls : calls[c].pc \in {"get", "idle"}
  BY DEF Init, Loading, Idle
<1> QED BY <1>2, <1>3 DEF Shapes, Init, Start

LEMMA ViewsAreViews == \A p, k : rev \in Nat => View(p, k) \in Views
<1> SUFFICES ASSUME NEW p, NEW k, rev \in Nat PROVE View(p, k) \in Views
  OBVIOUS
<1>1. /\ (access # 0) \in BOOLEAN /\ (AdminState(p, k) = "locked") \in BOOLEAN
      /\ (AdminState(p, k) = "readonly") \in BOOLEAN /\ MayManage(p, k) \in BOOLEAN
  BY DEF MayManage
<1>2. AdminUnlocked(k) \in BOOLEAN
  BY DEF AdminUnlocked
<1> QED BY <1>1, <1>2 DEF View, Views

----------------------------------------------------------------------------
(* What a call leaves of its page *)

\* Whatever the call was, the page has the snapshot, and either the notice it
\* had or the confirmation with its own timer.
LEMMA RereadPage ==
    ASSUME NEW pg \in PageRecord, NEW call, call.view \in Views
    PROVE  /\ Reread(pg, call) \in PageRecord
           /\ Reread(pg, call).snapshot = call.view
           /\ \/ Reread(pg, call).notice = pg.notice /\ Reread(pg, call).timers = pg.timers
              \/ Reread(pg, call).notice = "saved" /\ Reread(pg, call).timers = {"own"}
BY DEF Reread, Flash, PageRecord

LEMMA FailedPage ==
    ASSUME Shapes, NEW c \in Calls, Failed(c)
    PROVE  /\ calls' = [calls EXCEPT ![c] = Idle]
           /\ page' \in [Pages -> PageRecord]
           /\ \A p \in Pages : p # c[1] => page'[p] = page[p]
           /\ page'[c[1]].error = TRUE
           /\ page'[c[1]].snapshot = page[c[1]].snapshot
           /\ page'[c[1]].notice = page[c[1]].notice
           /\ page'[c[1]].timers = page[c[1]].timers
<1> DEFINE p == c[1]
           pg == [page[p] EXCEPT !.error = TRUE, !.busy = FALSE]
<1>1. p \in Pages /\ page[p] \in PageRecord
  BY CallsOfPages DEF Shapes
<1>2. /\ pg \in PageRecord /\ pg.error = TRUE /\ pg.snapshot = page[p].snapshot
      /\ pg.notice = page[p].notice /\ pg.timers = page[p].timers
  BY <1>1 DEF PageRecord
<1>3. page' = [page EXCEPT ![p] = pg] /\ calls' = [calls EXCEPT ![c] = Idle]
  BY <1>1 DEF Failed, Shapes
<1> HIDE DEF p, pg
<1>4. page' \in [Pages -> PageRecord] /\ page'[p] = pg
      /\ \A q \in Pages : q # p => page'[q] = page[q]
  BY <1>1, <1>2, <1>3 DEF Shapes
<1> QED BY <1>2, <1>3, <1>4 DEF p

LEMMA ShownPage ==
    ASSUME Shapes, NEW c \in Calls, Shown(c), calls[c].ok
    PROVE  /\ calls' = [calls EXCEPT ![c] = Idle]
           /\ page' \in [Pages -> PageRecord]
           /\ \A p \in Pages : p # c[1] => page'[p] = page[p]
           /\ page'[c[1]] = Reread(page[c[1]], calls[c])
           /\ page'[c[1]].snapshot = calls[c].view
<1>1. /\ calls' = [calls EXCEPT ![c] = Idle] /\ calls[c].pc = "view"
      /\ page' = [page EXCEPT ![c[1]] = Reread(page[c[1]], calls[c])]
  BY DEF Shown
<1>2. c[1] \in Pages /\ page[c[1]] \in PageRecord /\ calls[c].view \in Views
  BY <1>1, CallsOfPages DEF Shapes
<1> QED BY <1>1, <1>2, RereadPage DEF Shapes

----------------------------------------------------------------------------

\* What a page does of its own, what a call does, what the world does.
LEMMA Steps ==
    ASSUME [Next]_vars
    PROVE  \/ \E p \in Pages : Person(p) \/ TimerFires(p)
           \/ \E c \in Calls : Progress(c) \/ Throws(c) \/ Lose(c)
           \/ Expire \/ Elsewhere
           \/ UNCHANGED vars
BY DEF Next

LEMMA ShapesPerson ==
    ASSUME Shapes, NEW p \in Pages, Person(p) \/ TimerFires(p)
    PROVE  Shapes'
<1>1. ASSUME NEW kind, NEW value, Send(p, kind, value)
      PROVE  Shapes'
  <2>1. PICK s \in Slots(p) :
            calls' = [calls EXCEPT ![<<p, s>>] =
                        [pc |-> "post", kind |-> kind, value |-> value,
                         cookie |-> jar[p], done |-> FALSE]]
    BY <1>1 DEF Send
  <2>2. page' = [page EXCEPT ![p].busy = TRUE] /\ rev' = rev
    BY <1>1 DEF Send, host
  <2>3. <<p, s>> \in Calls
    BY SlotsAreCalls
  <2>4. [page[p] EXCEPT !.busy = TRUE] \in PageRecord
    BY DEF Shapes, PageRecord
  <2>5. page' \in [Pages -> PageRecord]
    BY <2>2, <2>4 DEF Shapes
  <2> QED BY <2>1, <2>2, <2>3, <2>5 DEF Shapes
<1>2. CASE Hint(p) \/ DismissNotice(p) \/ DismissError(p) \/ TimerFires(p)
  <2>1. PICK pg : page' = [page EXCEPT ![p] = pg] /\ pg \in PageRecord
    <3>1. page[p] \in PageRecord
      BY DEF Shapes
    <3>2. CASE Hint(p)
      <4> DEFINE t == IF page[p].timers = {} THEN {} ELSE {"older"}
                 pg == [page[p] EXCEPT !.notice = "hint", !.timers = t]
      <4>1. t \in SUBSET {"own", "older"}
        OBVIOUS
      <4>2. page' = [page EXCEPT ![p] = pg]
        BY <3>2 DEF Hint, Shapes
      <4> HIDE DEF t
      <4>3. pg \in PageRecord
        BY <3>1, <4>1 DEF PageRecord
      <4> QED BY <4>2, <4>3
    <3>3. CASE DismissNotice(p)
      <4> DEFINE pg == [page[p] EXCEPT !.notice = "none", !.timers = {}]
      <4>1. page' = [page EXCEPT ![p] = pg]
        BY <3>3 DEF DismissNotice, Shapes
      <4>2. pg \in PageRecord
        BY <3>1 DEF PageRecord
      <4> QED BY <4>1, <4>2
    <3>4. CASE DismissError(p)
      <4> DEFINE pg == [page[p] EXCEPT !.error = FALSE]
      <4>1. page' = [page EXCEPT ![p] = pg]
        BY <3>4 DEF DismissError, Shapes
      <4>2. pg \in PageRecord
        BY <3>1 DEF PageRecord
      <4> QED BY <4>1, <4>2
    <3>5. CASE TimerFires(p)
      <4>1. PICK t \in page[p].timers :
               page' = [page EXCEPT ![p].notice = "none", ![p].timers = @ \ {t}]
        BY <3>5 DEF TimerFires
      <4> DEFINE pg == [page[p] EXCEPT !.notice = "none", !.timers = page[p].timers \ {t}]
      <4>2. page' = [page EXCEPT ![p] = pg]
        BY <4>1 DEF Shapes
      <4>3. pg \in PageRecord
        BY <3>1 DEF PageRecord
      <4> QED BY <4>2, <4>3
    <3> QED BY <1>2, <3>2, <3>3, <3>4, <3>5
  <2> QED BY <1>2, <2>1 DEF Hint, DismissNotice, DismissError, TimerFires, Shapes, host
<1>3. CASE Reload(p)
  <2>1. page' \in [Pages -> PageRecord]
    BY <1>3 DEF Reload, Blank, Shapes, PageRecord
  <2>2. calls' = [calls EXCEPT ![<<p, 1>>] = [Loading EXCEPT !.cookie = jar[p]]] /\ rev' = rev
    BY <1>3 DEF Reload
  <2>3. [Loading EXCEPT !.cookie = jar[p]].pc = "get"
    BY DEF Loading
  <2>4. <<p, 1>> \in Calls
    BY SlotsAreCalls DEF Slots
  <2> QED BY <2>1, <2>2, <2>3, <2>4 DEF Shapes
<1> QED BY <1>1, <1>2, <1>3 DEF Person, Unlock, Mistype, Change

\* A call gets its answer, with what it sets: an error unless the change is made.
Answering(c, set) ==
    /\ calls' = [calls EXCEPT ![c] = calls'[c]]
    /\ calls'[c].pc = "answer"
    /\ calls'[c].cookie = calls[c].cookie
    /\ calls'[c].set = set
    /\ calls'[c].ok => calls'[c].done

LEMMA Refuses ==
    ASSUME Shapes, NEW c \in Calls, Refuse(c)
    PROVE  Answering(c, "keep")
BY DEF Refuse, Respond, Answering, Shapes

\* However the link fares, the answer to a change that was made is sent.
LEMMA Finishes ==
    ASSUME Shapes, NEW c \in Calls, NEW set, Finish(c, set)
    PROVE  Answering(c, set) \/ Answering(c, "keep")
<1>1. PICK saved \in BOOLEAN :
         Respond(c, saved, IF saved THEN set ELSE "keep", TRUE)
  BY DEF Finish
<1>2. CASE saved
  BY <1>1, <1>2 DEF Respond, Answering, Shapes
<1>3. CASE ~saved
  BY <1>1, <1>3 DEF Respond, Answering, Shapes
<1> QED BY <1>2, <1>3

\* The setter of the first password goes on to unlock.
GoesOn(c) ==
    calls' = [calls EXCEPT ![c] =
       [pc |-> "work", kind |-> "unlock", value |-> None,
        cookie |-> @.cookie, done |-> TRUE, good |-> admin = 0, first |-> TRUE]]

LEMMA ChangeAnswers ==
    ASSUME Shapes, NEW c \in Calls, Preferred(c) \/ PasswordSet(c) \/ Saved(c)
    PROVE  Answering(c, "keep") \/ GoesOn(c)
<1>1. ASSUME Respond(c, TRUE, "keep", TRUE) \/ Respond(c, FALSE, "keep", TRUE)
      PROVE  Answering(c, "keep")
  BY <1>1 DEF Respond, Answering, Shapes
<1> QED BY <1>1, Finishes DEF Preferred, PasswordSet, Saved, GoesOn

LEMMA UnlockAnswers ==
    ASSUME Shapes, NEW c \in Calls, Unlocked(c)
    PROVE  \E set : Answering(c, set)
BY Finishes, Refuses DEF Unlocked

\* What a step of the host that works on a change does to the calls.
LEMMA WorkAnswers ==
    ASSUME Shapes, NEW c \in Calls,
           Unlocked(c) \/ Preferred(c) \/ PasswordSet(c) \/ Saved(c) \/ Throws(c)
    PROVE  (\E set : Answering(c, set)) \/ GoesOn(c)
BY ChangeAnswers, UnlockAnswers, Refuses DEF Throws

LEMMA ShapesCall ==
    ASSUME Shapes, NEW c \in Calls, Progress(c) \/ Throws(c) \/ Lose(c)
    PROVE  Shapes'
<1>1. CASE Arrive(c)
  BY <1>1 DEF Arrive, Refuse, Respond, Shapes, host
<1>2. CASE Begin(c)
  BY <1>2, Finishes, Refuses DEF Begin, Answering, Shapes
<1>3. CASE Unlocked(c) \/ Preferred(c) \/ PasswordSet(c) \/ Saved(c) \/ Throws(c)
  <2>1. page' = page /\ rev' \in {rev, rev + 1}
    BY <1>3 DEF Unlocked, Preferred, PasswordSet, Saved, Throws, Changed, host
  <2> QED BY <1>3, <2>1, WorkAnswers DEF Answering, GoesOn, Shapes
<1>4. CASE Serve(c)
  <2>1. View(c[1], calls[c].cookie) \in Views
    BY ViewsAreViews DEF Shapes
  <2> QED BY <1>4, <2>1 DEF Serve, Shapes, host
<1>5. CASE Answered(c) /\ ~Failed(c)
  BY <1>5 DEF Answered, Shapes, host
<1>6. CASE Shown(c) /\ calls[c].ok
  <2>1. rev' = rev
    BY <1>6 DEF Shown, host
  <2> QED BY <1>6, <2>1, ShownPage DEF Idle, Shapes
<1>7. CASE Failed(c) /\ rev' = rev
  <2>1. calls' = [calls EXCEPT ![c] = Idle] /\ page' \in [Pages -> PageRecord]
    BY <1>7, FailedPage
  <2> QED BY <1>7, <2>1 DEF Idle, Shapes
<1>8. CASE Answered(c) \/ Shown(c) \/ Lose(c)
  BY <1>5, <1>6, <1>7, <1>8 DEF Answered, Shown, Lose, host
<1> QED BY <1>1, <1>2, <1>3, <1>4, <1>8 DEF Progress, HostStep

LEMMA ShapesNext == Shapes /\ [Next]_vars => Shapes'
<1> SUFFICES ASSUME Shapes, [Next]_vars PROVE Shapes'
  OBVIOUS
<1>1. CASE Expire \/ Elsewhere \/ UNCHANGED vars
  BY <1>1 DEF Expire, Elsewhere, vars, Shapes, host
<1> QED BY <1>1, Steps, ShapesPerson, ShapesCall

LEMMA ShapesHold == Spec => []Shapes
BY ShapesInit, ShapesNext, PTL DEF Spec

----------------------------------------------------------------------------
(* Saved *)

\* A call reads the settings again only for a change that was made.
Done ==
    \A c \in Calls :
      /\ calls[c].pc = "answer" /\ calls[c].ok => calls[c].done
      /\ calls[c].pc \in {"get", "view"} /\ calls[c].kind \notin {"load", "device"} =>
           calls[c].done

LEMMA DonePerson ==
    ASSUME Shapes, Done, NEW p \in Pages, Person(p) \/ TimerFires(p)
    PROVE  Done'
<1>1. ASSUME NEW kind, NEW value, Send(p, kind, value)
      PROVE  Done'
  <2>1. PICK s \in Slots(p) :
            calls' = [calls EXCEPT ![<<p, s>>] =
                        [pc |-> "post", kind |-> kind, value |-> value,
                         cookie |-> jar[p], done |-> FALSE]]
    BY <1>1 DEF Send
  <2> QED BY <2>1 DEF Shapes, Done
<1>2. CASE UNCHANGED calls
  BY <1>2 DEF Done
<1>3. CASE Reload(p)
  <2>1. calls' = [calls EXCEPT ![<<p, 1>>] = [Loading EXCEPT !.cookie = jar[p]]]
    BY <1>3 DEF Reload
  <2>2. [Loading EXCEPT !.cookie = jar[p]].pc = "get"
        /\ [Loading EXCEPT !.cookie = jar[p]].kind = "load"
    BY DEF Loading
  <2> QED BY <2>1, <2>2 DEF Shapes, Done
<1> QED BY <1>1, <1>2, <1>3 DEF Person, Unlock, Mistype, Change, Hint, DismissNotice,
                                DismissError, TimerFires

LEMMA DoneCall ==
    ASSUME Shapes, Done, NEW c \in Calls, Progress(c) \/ Throws(c) \/ Lose(c)
    PROVE  Done'
<1>1. CASE Arrive(c) \/ Begin(c)
  <2>1. ASSUME NEW set, Answering(c, set)
        PROVE  Done'
    BY <2>1 DEF Answering, Shapes, Done
  <2> QED BY <1>1, <2>1, Finishes, Refuses DEF Arrive, Begin, Shapes, Done
<1>2. CASE Unlocked(c) \/ Preferred(c) \/ PasswordSet(c) \/ Saved(c) \/ Throws(c)
  BY <1>2, WorkAnswers DEF Answering, GoesOn, Shapes, Done
<1>3. CASE Serve(c)
  BY <1>3 DEF Serve, Shapes, Done
<1>4. CASE Answered(c) /\ ~Failed(c)
  BY <1>4 DEF Answered, Shapes, Done
<1>5. CASE calls' = [calls EXCEPT ![c] = Idle]
  BY <1>5 DEF Idle, Shapes, Done
<1> QED BY <1>1, <1>2, <1>3, <1>4, <1>5
        DEF Progress, HostStep, Answered, Shown, Lose, Failed

\* The confirmation is shown for a change the host made: it comes with the
\* re-read, which follows only an accepted answer (write).
THEOREM SavedIsDone == Spec => SavedMeansDone
<1> DEFINE A == \A c \in DOMAIN calls :
                  (calls[c].pc \in {"answer", "view"} /\ calls'[c] = Idle
                     /\ calls[c].kind \notin {"load", "device"}
                     /\ page'[c[1]].notice = "saved" /\ page'[c[1]].error = FALSE)
                    => calls[c].done
<1>1. Init => Done
  BY DEF Init, Done, Loading, Idle
<1>2. Shapes /\ Done /\ [Next]_vars => Done'
  <2> SUFFICES ASSUME Shapes, Done, [Next]_vars PROVE Done'
    OBVIOUS
  <2>1. CASE Expire \/ Elsewhere \/ UNCHANGED vars
    BY <2>1 DEF Expire, Elsewhere, vars, Done
  <2> QED BY <2>1, Steps, DonePerson, DoneCall
<1>3. Shapes /\ Done /\ [Next]_vars => [A]_vars
  <2> SUFFICES ASSUME Shapes, Done, [Next]_vars, NEW c \in Calls,
                      calls[c].pc \in {"answer", "view"}, calls'[c] = Idle,
                      calls[c].kind \notin {"load", "device"},
                      page'[c[1]].error = FALSE
               PROVE  calls[c].done
    BY DEF Shapes
  <2>1. calls[c] # Idle
    BY DEF Idle
  <2>2. ASSUME NEW p \in Pages, Person(p) \/ TimerFires(p)
        PROVE  FALSE
    <3>1. ASSUME NEW kind, NEW value, Send(p, kind, value)
          PROVE  FALSE
      <4>1. PICK s \in Slots(p) :
                calls' = [calls EXCEPT ![<<p, s>>] =
                            [pc |-> "post", kind |-> kind, value |-> value,
                             cookie |-> jar[p], done |-> FALSE]]
        BY <3>1 DEF Send
      <4> QED BY <2>1, <4>1 DEF Shapes, Idle
    <3>2. CASE UNCHANGED calls
      BY <2>1, <3>2
    <3>3. CASE Reload(p)
      <4>1. calls' = [calls EXCEPT ![<<p, 1>>] = [Loading EXCEPT !.cookie = jar[p]]]
        BY <3>3 DEF Reload
      <4>2. [Loading EXCEPT !.cookie = jar[p]].pc = "get"
        BY DEF Loading
      <4> QED BY <2>1, <4>1, <4>2 DEF Shapes, Idle
    <3> QED BY <2>2, <3>1, <3>2, <3>3
            DEF Person, Unlock, Mistype, Change, Hint, DismissNotice, DismissError, TimerFires
  <2>3. ASSUME NEW d \in Calls, Progress(d) \/ Throws(d) \/ Lose(d)
        PROVE  calls[c].done
    <3>1. \A x \in Calls : x # d => calls'[x] = calls[x]
      BY <2>3, WorkAnswers, Finishes, Refuses
         DEF Progress, HostStep, Arrive, Begin, Serve, Answered, Shown, Lose, Failed,
             Answering, GoesOn, Shapes
    <3>2. c = d
      BY <2>1, <3>1
    <3>3. ~Failed(c)
      BY FailedPage
    <3> QED BY <2>3, <3>2, <3>3
            DEF Progress, HostStep, Arrive, Begin, Unlocked, Preferred, PasswordSet,
                Saved, Serve, Throws, Answered, Shown, Lose, Done
  <2>4. CASE Expire \/ Elsewhere \/ UNCHANGED vars
    BY <2>1, <2>4 DEF Expire, Elsewhere, vars
  <2> QED BY <2>2, <2>3, <2>4, Steps
<1> QED BY <1>1, <1>2, <1>3, ShapesHold, PTL DEF Spec, SavedMeansDone

----------------------------------------------------------------------------
(* Notices *)

\* What a person and a timer do to the page.
LEMMA PersonPage ==
    ASSUME Shapes, NEW p \in Pages, Person(p) \/ TimerFires(p)
    PROVE  /\ \A q \in Pages : q # p => page'[q] = page[q]
           /\ \/ Reload(p) /\ page'[p] = Blank
              \/ /\ page'[p].snapshot = page[p].snapshot
                 /\ \/ page'[p].notice = page[p].notice /\ page'[p].timers = page[p].timers
                    \/ page'[p].notice = "hint"
                    \/ page'[p].notice = "none" /\ page'[p].timers = {}
                    \/ /\ page'[p].notice = "none"
                       /\ \E t \in page[p].timers : page'[p].timers = page[p].timers \ {t}
<1>1. page[p] \in PageRecord
  BY DEF Shapes
<1>2. ASSUME NEW pg, page' = [page EXCEPT ![p] = pg]
      PROVE  page'[p] = pg /\ \A q \in Pages : q # p => page'[q] = page[q]
  BY <1>2 DEF Shapes
<1>3. ASSUME NEW kind, NEW value, Send(p, kind, value)
      PROVE  /\ \A q \in Pages : q # p => page'[q] = page[q]
             /\ page'[p].snapshot = page[p].snapshot
             /\ page'[p].notice = page[p].notice /\ page'[p].timers = page[p].timers
  <2> DEFINE pg == [page[p] EXCEPT !.busy = TRUE]
  <2>1. page' = [page EXCEPT ![p] = pg]
    BY <1>3 DEF Send, Shapes
  <2>2. pg.snapshot = page[p].snapshot /\ pg.notice = page[p].notice /\ pg.timers = page[p].timers
    BY <1>1 DEF PageRecord
  <2> HIDE DEF pg
  <2> QED BY <1>2, <2>1, <2>2
<1>4. CASE Hint(p)
  <2> DEFINE t == IF page[p].timers = {} THEN {} ELSE {"older"}
             pg == [page[p] EXCEPT !.notice = "hint", !.timers = t]
  <2>1. page' = [page EXCEPT ![p] = pg]
    BY <1>4 DEF Hint, Shapes
  <2> HIDE DEF t
  <2>2. pg.snapshot = page[p].snapshot /\ pg.notice = "hint"
    BY <1>1 DEF PageRecord
  <2> HIDE DEF pg
  <2> QED BY <1>2, <2>1, <2>2
<1>5. CASE DismissNotice(p)
  <2> DEFINE pg == [page[p] EXCEPT !.notice = "none", !.timers = {}]
  <2>1. page' = [page EXCEPT ![p] = pg]
    BY <1>5 DEF DismissNotice, Shapes
  <2>2. pg.snapshot = page[p].snapshot /\ pg.notice = "none" /\ pg.timers = {}
    BY <1>1 DEF PageRecord
  <2> HIDE DEF pg
  <2> QED BY <1>2, <2>1, <2>2
<1>6. CASE DismissError(p)
  <2> DEFINE pg == [page[p] EXCEPT !.error = FALSE]
  <2>1. page' = [page EXCEPT ![p] = pg]
    BY <1>6 DEF DismissError, Shapes
  <2>2. pg.snapshot = page[p].snapshot /\ pg.notice = page[p].notice /\ pg.timers = page[p].timers
    BY <1>1 DEF PageRecord
  <2> HIDE DEF pg
  <2> QED BY <1>2, <2>1, <2>2
<1>7. CASE TimerFires(p)
  <2>1. PICK t \in page[p].timers :
           page' = [page EXCEPT ![p].notice = "none", ![p].timers = @ \ {t}]
    BY <1>7 DEF TimerFires
  <2> DEFINE pg == [page[p] EXCEPT !.notice = "none", !.timers = page[p].timers \ {t}]
  <2>2. page' = [page EXCEPT ![p] = pg]
    BY <2>1 DEF Shapes
  <2>3. pg.snapshot = page[p].snapshot /\ pg.notice = "none" /\ pg.timers = page[p].timers \ {t}
    BY <1>1 DEF PageRecord
  <2> HIDE DEF pg
  <2> QED BY <1>2, <2>1, <2>2, <2>3
<1>8. CASE Reload(p)
  <2>1. page' = [page EXCEPT ![p] = Blank]
    BY <1>8 DEF Reload
  <2> QED BY <1>2, <1>8, <2>1
<1> QED BY <1>3, <1>4, <1>5, <1>6, <1>7, <1>8 DEF Person, Unlock, Mistype, Change

\* A confirmation has its own timer and no other.
Own == \A p \in Pages : page[p].notice = "saved" => "older" \notin page[p].timers

\* The pages a call may change, and how.
LEMMA CallPage ==
    ASSUME Shapes, NEW c \in Calls, Progress(c) \/ Throws(c) \/ Lose(c)
    PROVE  /\ \A q \in Pages : q # c[1] => page'[q] = page[q]
           /\ \/ page'[c[1]].notice = page[c[1]].notice /\ page'[c[1]].timers = page[c[1]].timers
              \/ page'[c[1]].notice = "saved" /\ page'[c[1]].timers = {"own"}
<1>1. CASE UNCHANGED page
  BY <1>1
<1>2. CASE Failed(c)
  BY <1>2, FailedPage
<1>3. CASE Shown(c) /\ calls[c].ok
  <2>1. calls[c].view \in Views /\ page[c[1]] \in PageRecord
    BY <1>3, CallsOfPages DEF Shown, Shapes
  <2> QED BY <1>3, <2>1, ShownPage, RereadPage
<1> QED BY <1>1, <1>2, <1>3
        DEF Progress, HostStep, Arrive, Begin, Unlocked, Preferred, PasswordSet,
            Saved, Serve, Throws, Answered, Shown, Lose

\* A confirmation is taken away by its own timer or by the person, never by the
\* timer of the notice it replaced (flash).
THEOREM ConfirmationsStay == Spec => ConfirmationsLast
<1> DEFINE A == \A p \in Pages :
                  (page[p].notice = "saved" /\ page'[p].notice = "none")
                    => "own" \notin page'[p].timers
<1>1. Init => Own
  BY DEF Init, Start, Own, Blank
<1>2. Shapes /\ Own /\ [Next]_vars => Own'
  <2> SUFFICES ASSUME Shapes, Own, [Next]_vars PROVE Own'
    OBVIOUS
  <2>1. ASSUME NEW p \in Pages, Person(p) \/ TimerFires(p)
        PROVE  Own'
    <3>1. page'[p].notice = "saved" => "older" \notin page'[p].timers
      BY <2>1, PersonPage DEF Blank, Own
    <3>2. \A q \in Pages : q # p => page'[q] = page[q]
      BY <2>1, PersonPage
    <3> QED BY <3>1, <3>2 DEF Own
  <2>2. ASSUME NEW c \in Calls, Progress(c) \/ Throws(c) \/ Lose(c)
        PROVE  Own'
    <3>1. c[1] \in Pages
      BY CallsOfPages
    <3>2. /\ \A q \in Pages : q # c[1] => page'[q] = page[q]
          /\ \/ page'[c[1]].notice = page[c[1]].notice /\ page'[c[1]].timers = page[c[1]].timers
             \/ page'[c[1]].notice = "saved" /\ page'[c[1]].timers = {"own"}
      BY <2>2, CallPage
    <3>3. page'[c[1]].notice = "saved" => "older" \notin page'[c[1]].timers
      BY <3>1, <3>2 DEF Own
    <3> QED BY <3>2, <3>3 DEF Own
  <2>3. CASE Expire \/ Elsewhere \/ UNCHANGED vars
    BY <2>3 DEF Expire, Elsewhere, vars, Own
  <2> QED BY <2>1, <2>2, <2>3, Steps
<1>3. Shapes /\ Own /\ [Next]_vars => [A]_vars
  <2> SUFFICES ASSUME Shapes, Own, [Next]_vars, NEW p \in Pages,
                      page[p].notice = "saved", page'[p].notice = "none"
               PROVE  "own" \notin page'[p].timers
    OBVIOUS
  <2>0. page[p].timers \subseteq {"own", "older"} /\ "older" \notin page[p].timers
    BY DEF Own, Shapes, PageRecord
  <2>1. ASSUME NEW q \in Pages, Person(q) \/ TimerFires(q)
        PROVE  "own" \notin page'[p].timers
    <3>1. p = q
      BY <2>1, PersonPage
    <3>2. Blank.timers = {}
      BY DEF Blank
    <3> QED BY <2>0, <2>1, <3>1, <3>2, PersonPage
  <2>2. ASSUME NEW c \in Calls, Progress(c) \/ Throws(c) \/ Lose(c)
        PROVE  FALSE
    BY <2>2, CallPage
  <2>3. CASE Expire \/ Elsewhere \/ UNCHANGED vars
    BY <2>3 DEF Expire, Elsewhere, vars
  <2> QED BY <2>1, <2>2, <2>3, Steps
<1> QED BY <1>1, <1>2, <1>3, ShapesHold, PTL DEF Spec, ConfirmationsLast

----------------------------------------------------------------------------
(* Current *)

Ledgers ==
    /\ jar = [p \in Pages |-> jar[p]]
    /\ mine \in [Pages -> Nat] /\ mixed \in [Pages -> BOOLEAN]
    /\ sessions \subseteq Cookies

\* The cookies of a browser: in its jar, sent with a call, set by an answer.
Holds(p, k) ==
    \/ jar[p] = k
    \/ \E c \in Calls :
         /\ c[1] = p /\ calls[c] # Idle
         /\ \/ calls[c].cookie = k
            \/ calls[c].pc = "answer" /\ calls[c].set = k

Distinct ==
    \A p, q \in Pages : \A k \in Cookies : Holds(p, k) /\ Holds(q, k) => p = q

Quiet(p) == \A c \in Calls : c[1] = p => calls[c] = Idle

\* What a page read is not behind its own changes, nor behind any when the
\* host has not counted up since.
Fresh(p, v) ==
    /\ mine[p] <= v.rev /\ v.rev <= rev
    /\ v.rev = rev => v = View(p, jar[p])

PageCurrent(p) ==
    /\ mine[p] <= rev
    /\ ~mixed[p] =>
         /\ \A c, d \in Calls :
              c[1] = p /\ d[1] = p /\ calls[c] # Idle /\ calls[d] # Idle => c = d
         /\ \A c \in Calls :
              c[1] = p => /\ calls[c].pc = "get" => calls[c].cookie = jar[p]
                          /\ calls[c].pc = "view" /\ calls[c].ok => Fresh(p, calls[c].view)
         /\ Quiet(p) /\ page[p].snapshot # None => Fresh(p, page[p].snapshot)

CurrentInv == Ledgers /\ Distinct /\ \A p \in Pages : PageCurrent(p)

LEMMA QuietMeansNothingUnderWay ==
    ASSUME NEW p \in Pages
    PROVE  UnderWay(p) <=> ~Quiet(p)
<1>1. ASSUME NEW s \in Slots(p), calls[p, s] # Idle
      PROVE  ~Quiet(p)
  BY <1>1, SlotsAreCalls DEF Quiet
<1>2. ASSUME NEW c \in Calls, c[1] = p, calls[c] # Idle
      PROVE  UnderWay(p)
  BY <1>2, CallsOfPages DEF UnderWay
<1> QED BY <1>1, <1>2 DEF UnderWay, Quiet

\* What a view shows besides the count.
LEMMA ViewsDependOn ==
    ASSUME NEW p, NEW k, policy' = policy, protection' = protection, access' = access,
           rev' = rev, k \in sessions' <=> k \in sessions
    PROVE  View(p, k)' = View(p, k)
<1>1. AdminUnlocked(k)' = AdminUnlocked(k)
  BY DEF AdminUnlocked
<1>2. AdminState(p, k)' = AdminState(p, k)
  BY <1>1 DEF AdminState
<1>3. MayManage(p, k)' = MayManage(p, k)
  BY <1>2 DEF MayManage
<1> QED BY <1>1, <1>2, <1>3 DEF View

\* A page that does not move: what moves the host either counts up or leaves
\* its view alone.
LEMMA BystanderStays ==
    ASSUME Shapes, Ledgers, NEW q \in Pages, PageCurrent(q),
           \A d \in Calls : d[1] = q => calls'[d] = calls[d],
           page'[q].snapshot = page[q].snapshot, jar'[q] = jar[q],
           mine'[q] = mine[q], mixed'[q] = mixed[q],
           rev' \in Nat, rev <= rev',
           rev' = rev => View(q, jar[q])' = View(q, jar[q])
    PROVE  PageCurrent(q)'
<1>1. mine[q] \in Nat /\ rev \in Nat
  BY DEF Ledgers, Shapes
<1>2. \A v \in Views : Fresh(q, v) => Fresh(q, v)'
  <2> SUFFICES ASSUME NEW v \in Views, Fresh(q, v) PROVE Fresh(q, v)'
    OBVIOUS
  <2>1. v.rev \in Nat
    BY DEF Views
  <2>2. CASE rev' = rev
    BY <2>2 DEF Fresh
  <2>3. CASE rev' # rev
    BY <1>1, <2>1, <2>3 DEF Fresh
  <2> QED BY <2>2, <2>3
<1>3. Quiet(q)' <=> Quiet(q)
  BY DEF Quiet
<1>4. page[q].snapshot \in Views \cup {None}
  BY DEF Shapes, PageRecord
<1>5. \A c \in Calls : calls[c].pc = "view" => calls[c].view \in Views
  BY DEF Shapes
<1>6. mine'[q] <= rev'
  BY <1>1 DEF PageCurrent
<1>7. ASSUME ~mixed[q], NEW c \in Calls, c[1] = q
      PROVE  /\ calls'[c].pc = "get" => calls'[c].cookie = jar'[q]
             /\ calls'[c].pc = "view" /\ calls'[c].ok => Fresh(q, calls[c].view)'
  BY <1>2, <1>5, <1>7 DEF PageCurrent
<1>8. ASSUME ~mixed[q], Quiet(q)', page'[q].snapshot # None
      PROVE  Fresh(q, page[q].snapshot)'
  BY <1>2, <1>3, <1>4, <1>8 DEF PageCurrent
<1> QED BY <1>6, <1>7, <1>8 DEF PageCurrent, Fresh

\* The page of a call that moves.
LEMMA ActorStays ==
    ASSUME NEW c \in Calls, PageCurrent(c[1]), calls[c] # Idle,
           \A d \in Calls : d # c => calls'[d] = calls[d],
           mine'[c[1]] <= rev',
           ~mixed'[c[1]] =>
             /\ ~mixed[c[1]]
             /\ calls'[c].pc = "get" => calls'[c].cookie = jar'[c[1]]
             /\ calls'[c].pc = "view" /\ calls'[c].ok => Fresh(c[1], calls[c].view)'
             /\ calls'[c] = Idle /\ page'[c[1]].snapshot # None
                  => Fresh(c[1], page[c[1]].snapshot)'
    PROVE  PageCurrent(c[1])'
<1> DEFINE p == c[1]
<1>1. CASE mixed'[p]
  BY <1>1 DEF PageCurrent
<1>2. CASE ~mixed'[p]
  <2>1. \A d \in Calls : d[1] = p /\ d # c => calls[d] = Idle /\ calls'[d] = Idle
    BY <1>2 DEF PageCurrent
  <2>2. Idle.pc = "idle"
    BY DEF Idle
  <2>3. ASSUME NEW d \in Calls, d[1] = p
        PROVE  /\ calls'[d].pc = "get" => calls'[d].cookie = jar'[p]
               /\ calls'[d].pc = "view" /\ calls'[d].ok => Fresh(p, calls[d].view)'
    BY <1>2, <2>1, <2>2, <2>3
  <2>4. Quiet(p)' => calls'[c] = Idle
    BY DEF Quiet
  <2>5. \A x, y \in Calls :
           x[1] = p /\ y[1] = p /\ calls'[x] # Idle /\ calls'[y] # Idle => x = y
    BY <2>1
  <2>6. Quiet(p)' /\ page'[p].snapshot # None => Fresh(p, page[p].snapshot)'
    BY <1>2, <2>4
  <2>7. Idle' = Idle
    BY DEF Idle
  <2> HIDE DEF p
  <2> QED BY <1>2, <2>3, <2>5, <2>6, <2>7 DEF PageCurrent, p
<1> QED BY <1>1, <1>2

\* What a call under way may change of the browsers and of the sessions.
Moves(c) ==
    /\ calls[c] # Idle
    /\ \A d \in Calls : d # c => calls'[d] = calls[d]
    /\ \A q \in Pages : q # c[1] =>
         /\ jar'[q] = jar[q] /\ mine'[q] = mine[q] /\ mixed'[q] = mixed[q]
         /\ page'[q] = page[q]
    /\ Ledgers'
    /\ rev' \in Nat /\ rev <= rev'
    /\ rev' = rev =>
         /\ policy' = policy /\ protection' = protection /\ access' = access
         /\ \A q \in Pages : q # c[1] => (jar[q] \in sessions' <=> jar[q] \in sessions)
    /\ \A k \in Cookies :
         Holds(c[1], k)' => Holds(c[1], k) \/ \A q \in Pages : ~Holds(q, k)

LEMMA MovesKeep ==
    ASSUME Shapes, CurrentInv, NEW c \in Calls, Moves(c), PageCurrent(c[1])'
    PROVE  CurrentInv'
<1>1. ASSUME NEW q \in Pages, q # c[1]
      PROVE  PageCurrent(q)'
  <2>1. \A d \in Calls : d[1] = q => calls'[d] = calls[d]
    BY <1>1 DEF Moves
  <2>2. rev' = rev => View(q, jar[q])' = View(q, jar[q])
    <3> SUFFICES ASSUME rev' = rev PROVE View(q, jar[q])' = View(q, jar[q])
      OBVIOUS
    <3>2. jar'[q] = jar[q]
      BY <1>1 DEF Moves
    <3>3. /\ policy' = policy /\ protection' = protection /\ access' = access
          /\ jar[q] \in sessions' <=> jar[q] \in sessions
      BY <1>1 DEF Moves
    <3> QED BY <3>2, <3>3, ViewsDependOn DEF View, AdminState, MayManage, AdminUnlocked
  <2>3. PageCurrent(q) /\ Ledgers
    BY DEF CurrentInv
  <2> QED BY <1>1, <2>1, <2>2, <2>3, BystanderStays DEF Moves
<1>2. Distinct'
  <2>1. \A q \in Pages : \A k \in Cookies : q # c[1] => (Holds(q, k)' <=> Holds(q, k))
    BY DEF Moves, Holds, Idle
  <2>2. c[1] \in Pages
    BY CallsOfPages
  <2> QED BY <2>1, <2>2 DEF Moves, Distinct, CurrentInv
<1> QED BY <1>1, <1>2 DEF CurrentInv, Moves

LEMMA CurrentInit == Init => CurrentInv
<1> SUFFICES ASSUME Init PROVE CurrentInv
  OBVIOUS
<1>1. /\ jar = [p \in Pages |-> None] /\ mine = [p \in Pages |-> 0]
      /\ mixed = [p \in Pages |-> FALSE] /\ sessions = {} /\ rev = 0
      /\ page = [p \in Pages |-> Blank]
      /\ calls = [c \in Calls |-> IF c[2] = 1 THEN Loading ELSE Idle]
  BY DEF Init, Start
<1>2. Ledgers
  BY <1>1 DEF Ledgers
<1>3. \A p \in Pages : \A k \in Cookies : ~Holds(p, k)
  BY <1>1, ConsoleAssumption DEF Holds, Loading, Idle
<1>4. ASSUME NEW p \in Pages
      PROVE  PageCurrent(p)
  <2>1. \A c, d \in Calls :
           c[1] = p /\ d[1] = p /\ calls[c] # Idle /\ calls[d] # Idle => c = d
    BY <1>1, CallsOfPages
  <2>2. ~Quiet(p)
    BY <1>1, SlotsAreCalls DEF Quiet, Slots, Loading, Idle
  <2> QED BY <1>1, <2>1, <2>2 DEF PageCurrent, Loading, Idle
<1> QED BY <1>2, <1>3, <1>4 DEF CurrentInv, Distinct

\* A step of the host for a call: it leaves the browsers alone, keeps the
\* cookie of the call, and sets none that a browser holds.
HostOnly(c) ==
    /\ calls[c] # Idle /\ calls'[c] # Idle
    /\ \A d \in Calls : d # c => calls'[d] = calls[d]
    /\ jar' = jar /\ page' = page /\ mixed' = mixed
    /\ calls'[c].cookie = calls[c].cookie
    /\ calls'[c].pc = "answer" /\ calls'[c].set \in Cookies =>
         \A q \in Pages : ~Holds(q, calls'[c].set)
    /\ sessions' \subseteq Cookies
    /\ calls'[c].pc # "get"

LEMMA HostKeepsHolds ==
    ASSUME CurrentInv, NEW c \in Calls, HostOnly(c)
    PROVE  \A k \in Cookies :
             Holds(c[1], k)' => Holds(c[1], k) \/ \A q \in Pages : ~Holds(q, k)
<1> SUFFICES ASSUME NEW k \in Cookies, Holds(c[1], k)', ~Holds(c[1], k)
             PROVE  \A q \in Pages : ~Holds(q, k)
  OBVIOUS
<1>1. jar'[c[1]] # k
  BY DEF Holds, HostOnly
<1>2. PICK d \in Calls : /\ d[1] = c[1] /\ calls'[d] # Idle
                         /\ \/ calls'[d].cookie = k
                            \/ calls'[d].pc = "answer" /\ calls'[d].set = k
  BY <1>1 DEF Holds, Idle
<1>3. d = c
  BY <1>2 DEF Holds, HostOnly
<1>4. calls'[c].pc = "answer" /\ calls'[c].set = k
  BY <1>2, <1>3 DEF Holds, HostOnly
<1> QED BY <1>4 DEF HostOnly

\* What counts up.
LEMMA CountedMoves ==
    ASSUME Shapes, CurrentInv, NEW c \in Calls, HostOnly(c), Changed(c),
           calls'[c].pc # "view"
    PROVE  Moves(c) /\ PageCurrent(c[1])'
<1>1. c[1] \in Pages /\ rev \in Nat /\ mine \in [Pages -> Nat]
  BY CallsOfPages DEF CurrentInv, Ledgers, Shapes
<1>2. rev' = rev + 1 /\ mine' = [mine EXCEPT ![c[1]] = rev + 1]
  BY DEF Changed
<1>3. /\ mine' \in [Pages -> Nat] /\ mine'[c[1]] <= rev'
      /\ \A q \in Pages : q # c[1] => mine'[q] = mine[q]
      /\ rev' \in Nat /\ rev <= rev' /\ rev' # rev
  BY <1>1, <1>2
<1>4. Ledgers'
  BY <1>3 DEF CurrentInv, Ledgers, HostOnly
<1>5. Moves(c)
  BY <1>3, <1>4, HostKeepsHolds DEF Moves, HostOnly
<1>6. PageCurrent(c[1])'
  BY <1>1, <1>3, ActorStays DEF HostOnly, CurrentInv
<1> QED BY <1>5, <1>6

\* What does not: the locks of the other browsers are as they were.
LEMMA UncountedMoves ==
    ASSUME Shapes, CurrentInv, NEW c \in Calls, HostOnly(c), mine' = mine, rev' = rev,
           policy' = policy, protection' = protection, access' = access,
           \A q \in Pages : q # c[1] => (jar[q] \in sessions' <=> jar[q] \in sessions),
           calls'[c].pc = "view" =>
             calls[c].pc = "get" /\ calls'[c].view = View(c[1], calls[c].cookie)'
    PROVE  Moves(c) /\ PageCurrent(c[1])'
<1>1. c[1] \in Pages /\ rev \in Nat /\ PageCurrent(c[1])
  BY CallsOfPages DEF CurrentInv, Shapes
<1>2. Ledgers'
  BY DEF CurrentInv, Ledgers, HostOnly
<1>3. Moves(c)
  BY <1>1, <1>2, HostKeepsHolds DEF Moves, HostOnly
<1>4. ASSUME ~mixed[c[1]], calls'[c].pc = "view"
      PROVE  Fresh(c[1], calls[c].view)'
  <2>1. calls[c].cookie = jar[c[1]] /\ calls'[c].view = View(c[1], calls[c].cookie)'
    BY <1>1, <1>4 DEF PageCurrent
  <2>2. calls'[c].cookie = jar'[c[1]]
    BY <2>1 DEF HostOnly
  <2>3. View(c[1], calls[c].cookie)' = View(c[1], jar[c[1]])'
    BY <2>2
  <2>4. calls'[c].view = View(c[1], jar[c[1]])'
    BY <2>1, <2>3
  <2>5. View(c[1], jar[c[1]]).rev = rev
    BY DEF View
  <2>6. (View(c[1], jar[c[1]]).rev = rev)'
    BY <1>1 DEF View
  <2>7. mine'[c[1]] <= rev'
    BY <1>1 DEF PageCurrent
  <2> QED BY <1>1, <2>4, <2>6, <2>7 DEF Fresh
<1>5. mine'[c[1]] <= rev'
  BY <1>1 DEF PageCurrent
<1>6. PageCurrent(c[1])'
  BY <1>1, <1>4, <1>5, ActorStays DEF HostOnly
<1> QED BY <1>3, <1>6

\* A cookie that a browser holds is in use.
LEMMA HeldIsInUse ==
    ASSUME Shapes, NEW q \in Pages, NEW k, Holds(q, k)
    PROVE  k \in InUse
BY DEF Holds, InUse, Shapes

LEMMA HostSteps ==
    ASSUME Shapes, CurrentInv, NEW c \in Calls, HostStep(c) \/ Throws(c)
    PROVE  Moves(c) /\ PageCurrent(c[1])'
<1>0. /\ sessions \subseteq Cookies /\ c[1] \in Pages /\ Idle.pc = "idle"
      /\ "keep" \notin Cookies /\ None \notin Cookies /\ DOMAIN calls = Calls
  BY CallsOfPages, ConsoleAssumption
     DEF HostStep, Throws, Arrive, Begin, Unlocked, Preferred, PasswordSet, Saved, Serve,
         CurrentInv, Ledgers, Idle, Shapes
<1>1. ASSUME NEW set, calls[c] # Idle, Answering(c, set),
             jar' = jar, page' = page, mixed' = mixed, sessions' \subseteq Cookies,
             set \in Cookies => \A q \in Pages : ~Holds(q, set)
      PROVE  HostOnly(c) /\ calls'[c].pc = "answer"
  BY <1>0, <1>1 DEF Answering, HostOnly, Shapes
<1>2. CASE Arrive(c)
  <2>1. CASE Refuse(c)
    BY <1>0, <1>1, <1>2, <2>1, Refuses, UncountedMoves DEF Arrive, host, switches, secrets
  <2>2. CASE calls' = [calls EXCEPT ![c].pc = "body"]
    <3>1. /\ calls[c].pc = "post" /\ calls'[c].pc = "body"
          /\ calls'[c].cookie = calls[c].cookie
          /\ \A d \in Calls : d # c => calls'[d] = calls[d]
      BY <1>2, <2>2 DEF Arrive, Shapes
    <3>2. HostOnly(c)
      BY <1>0, <1>2, <3>1 DEF HostOnly, Arrive, host
    <3> QED BY <1>2, <3>1, <3>2, UncountedMoves DEF Arrive, host, switches, secrets
  <2> QED BY <1>2, <2>1, <2>2 DEF Arrive
<1>3. CASE Begin(c)
  <2>0. calls[c] # Idle /\ jar' = jar /\ page' = page /\ mixed' = mixed /\ mine' = mine
        /\ rev' = rev /\ policy' = policy /\ protection' = protection /\ access' = access
    BY <1>0, <1>3 DEF Begin, switches, secrets
  <2>1. CASE Refuse(c) /\ UNCHANGED sessions
    BY <1>0, <1>1, <2>0, <2>1, Refuses, UncountedMoves
  <2>2. CASE sessions' = sessions \ {calls[c].cookie} /\ Finish(c, None)
    <3>1. HostOnly(c) /\ calls'[c].pc = "answer"
      BY <1>0, <1>1, <2>0, <2>2, Finishes
    <3>2. ASSUME NEW q \in Pages, q # c[1]
          PROVE  jar[q] \in sessions' <=> jar[q] \in sessions
      <4>1. Holds(q, jar[q]) /\ Holds(c[1], calls[c].cookie)
        BY <2>0 DEF Holds
      <4>2. jar[q] \in sessions => jar[q] # calls[c].cookie
        BY <1>0, <3>2, <4>1 DEF CurrentInv, Distinct
      <4> QED BY <2>2, <4>2
    <3> QED BY <2>0, <3>1, <3>2, UncountedMoves
  <2>3. CASE /\ calls' = [calls EXCEPT ![c] =
                 [pc |-> "work", kind |-> @.kind, value |-> @.value,
                  cookie |-> @.cookie, done |-> FALSE,
                  good |-> @.kind = "unlock" /\ HasSecret /\ @.value = Secret,
                  first |-> access = 0]]
             /\ UNCHANGED sessions
    <3>1. /\ calls'[c].pc = "work" /\ calls'[c].cookie = calls[c].cookie
          /\ \A d \in Calls : d # c => calls'[d] = calls[d]
      BY <2>3 DEF Shapes
    <3>2. HostOnly(c)
      BY <1>0, <2>0, <2>3, <3>1 DEF HostOnly
    <3> QED BY <2>0, <2>3, <3>1, <3>2, UncountedMoves
  <2> QED BY <1>3, <2>1, <2>2, <2>3 DEF Begin
<1>4. CASE Unlocked(c)
  <2>0. calls[c] # Idle /\ jar' = jar /\ page' = page /\ mixed' = mixed /\ mine' = mine
        /\ rev' = rev /\ policy' = policy /\ protection' = protection /\ access' = access
    BY <1>0, <1>4 DEF Unlocked, switches, secrets
  <2>1. CASE Refuse(c) /\ UNCHANGED sessions
    BY <1>0, <1>1, <2>0, <2>1, Refuses, UncountedMoves
  <2>2. ASSUME NEW k \in Cookies \ InUse, sessions' = (sessions \cap InUse) \cup {k},
               Finish(c, k)
        PROVE  Moves(c) /\ PageCurrent(c[1])'
    <3>1. \A q \in Pages : ~Holds(q, k)
      BY HeldIsInUse
    <3>2. HostOnly(c) /\ calls'[c].pc = "answer"
      BY <1>0, <1>1, <2>0, <2>2, <3>1, Finishes
    <3>3. ASSUME NEW q \in Pages
          PROVE  jar[q] \in sessions' <=> jar[q] \in sessions
      <4>1. Holds(q, jar[q]) /\ jar[q] \in InUse
        BY HeldIsInUse DEF Holds
      <4> QED BY <2>2, <4>1
    <3> QED BY <2>0, <3>2, <3>3, UncountedMoves
  <2> QED BY <1>4, <2>1, <2>2 DEF Unlocked
<1>5. CASE Preferred(c) \/ PasswordSet(c) \/ Saved(c)
  <2>0. /\ calls[c] # Idle /\ jar' = jar /\ page' = page /\ mixed' = mixed
        /\ sessions' \subseteq Cookies /\ Changed(c)
    BY <1>0, <1>5 DEF Preferred, PasswordSet, Saved, Revoke
  <2>1. ASSUME Answering(c, "keep")
        PROVE  Moves(c) /\ PageCurrent(c[1])'
    BY <1>0, <1>1, <2>0, <2>1, CountedMoves
  <2>2. CASE GoesOn(c)
    <3>1. /\ calls'[c].pc = "work" /\ calls'[c].cookie = calls[c].cookie
          /\ \A d \in Calls : d # c => calls'[d] = calls[d]
      BY <2>2 DEF GoesOn, Shapes
    <3>2. HostOnly(c)
      BY <1>0, <2>0, <3>1 DEF HostOnly
    <3> QED BY <2>0, <3>1, <3>2, CountedMoves
  <2> QED BY <1>5, <2>1, <2>2, ChangeAnswers
<1>6. CASE Serve(c)
  <2>1. /\ calls[c].pc = "get" /\ calls'[c].pc = "view"
        /\ calls'[c].cookie = calls[c].cookie
        /\ calls'[c].view = View(c[1], calls[c].cookie)
        /\ \A d \in Calls : d # c => calls'[d] = calls[d]
    BY <1>6 DEF Serve, Shapes
  <2>2. HostOnly(c)
    BY <1>0, <1>6, <2>1 DEF HostOnly, Serve, host
  <2>3. UNCHANGED <<policy, protection, access, sessions, rev, mine>>
    BY <1>6 DEF Serve, host, switches, secrets
  <2>4. View(c[1], calls[c].cookie)' = View(c[1], calls[c].cookie)
    BY <2>1, <2>3, ViewsDependOn DEF View, AdminState, MayManage, AdminUnlocked
  <2> QED BY <2>1, <2>2, <2>3, <2>4, UncountedMoves
<1>7. CASE Throws(c)
  BY <1>0, <1>1, <1>7, Refuses, UncountedMoves DEF Throws, host, switches, secrets
<1> QED BY <1>2, <1>3, <1>4, <1>5, <1>6, <1>7 DEF HostStep

\* A call that ends badly leaves its page mixed, and every cookie where it was.
LEMMA FailedMoves ==
    ASSUME Shapes, CurrentInv, NEW c \in Calls, Failed(c), calls[c] # Idle,
           UNCHANGED <<host, mine>>, jar' = [jar EXCEPT ![c[1]] = jar'[c[1]]],
           \A k \in Cookies : jar'[c[1]] = k => Holds(c[1], k)
    PROVE  Moves(c) /\ PageCurrent(c[1])'
<1>1. c[1] \in Pages /\ rev \in Nat /\ PageCurrent(c[1])
  BY CallsOfPages DEF CurrentInv, Shapes
<1>2. /\ calls' = [calls EXCEPT ![c] = Idle]
      /\ \A p \in Pages : p # c[1] => page'[p] = page[p]
  BY FailedPage
<1>3. mixed' = [mixed EXCEPT ![c[1]] = TRUE]
  BY DEF Failed
<1>4. Ledgers'
  BY <1>1, <1>3 DEF CurrentInv, Ledgers, host
<1>5. \A d \in Calls : d # c => calls'[d] = calls[d]
  BY <1>2 DEF Shapes
<1>6. calls'[c] = Idle
  BY <1>2 DEF Shapes
<1>7. \A k \in Cookies : Holds(c[1], k)' => Holds(c[1], k)
  BY <1>5, <1>6 DEF Holds, Idle
<1>8. \A q \in Pages : q # c[1] => jar'[q] = jar[q] /\ mixed'[q] = mixed[q]
  BY <1>1, <1>3 DEF CurrentInv, Ledgers
<1>9. mixed'[c[1]] = TRUE /\ mine'[c[1]] <= rev'
  BY <1>1, <1>3 DEF CurrentInv, Ledgers, PageCurrent, host
<1>10. Moves(c)
  BY <1>1, <1>2, <1>4, <1>5, <1>7, <1>8 DEF Moves, host, switches, secrets
<1>11. PageCurrent(c[1])'
  BY <1>1, <1>5, <1>9, ActorStays
<1> QED BY <1>10, <1>11

LEMMA BrowserSteps ==
    ASSUME Shapes, CurrentInv, NEW c \in Calls, Answered(c) \/ Shown(c) \/ Lose(c)
    PROVE  Moves(c) /\ PageCurrent(c[1])'
<1>1. /\ c[1] \in Pages /\ rev \in Nat /\ PageCurrent(c[1]) /\ calls[c] # Idle
      /\ jar = [p \in Pages |-> jar[p]] /\ UNCHANGED <<host, mine>>
  BY CallsOfPages DEF CurrentInv, Ledgers, Shapes, Answered, Shown, Lose, Idle
<1>2. CASE Answered(c)
  <2>1. jar' = [jar EXCEPT ![c[1]] = Jar(c)] /\ calls[c].pc = "answer"
    BY <1>2 DEF Answered
  <2>2. jar'[c[1]] = Jar(c) /\ \A q \in Pages : q # c[1] => jar'[q] = jar[q]
    BY <1>1, <2>1
  <2>3. \A k \in Cookies : Jar(c) = k => Holds(c[1], k)
    BY <1>1, <2>1 DEF Jar, Holds
  <2>4. CASE Failed(c)
    BY <1>1, <2>1, <2>2, <2>3, <2>4, FailedMoves
  <2>5. CASE /\ calls' = [calls EXCEPT ![c] =
                 [pc |-> "get", kind |-> @.kind, cookie |-> Jar(c), done |-> @.done]]
             /\ UNCHANGED <<page, mixed>>
    <3>1. /\ calls'[c].pc = "get" /\ calls'[c].cookie = Jar(c) /\ calls'[c] # Idle
          /\ \A d \in Calls : d # c => calls'[d] = calls[d]
      BY <2>5 DEF Shapes, Idle
    <3>2. \A k \in Cookies : Holds(c[1], k)' => Holds(c[1], k)
      BY <2>2, <2>3, <3>1 DEF Holds
    <3>3. Ledgers'
      BY <1>1, <2>1, <2>5 DEF CurrentInv, Ledgers, host
    <3>4. Moves(c)
      BY <1>1, <2>2, <2>5, <3>1, <3>2, <3>3 DEF Moves, host, switches, secrets
    <3>5. mine'[c[1]] <= rev'
      BY <1>1 DEF PageCurrent, host
    <3>6. PageCurrent(c[1])'
      BY <1>1, <2>2, <2>5, <3>1, <3>5, ActorStays
    <3> QED BY <3>4, <3>6
  <2> QED BY <1>2, <2>4, <2>5 DEF Answered
<1>3. CASE Shown(c) /\ calls[c].ok
  <2>1. /\ calls' = [calls EXCEPT ![c] = Idle]
        /\ \A p \in Pages : p # c[1] => page'[p] = page[p]
        /\ page'[c[1]].snapshot = calls[c].view
    BY <1>3, ShownPage
  <2>2. calls[c].pc = "view" /\ jar' = jar /\ mixed' = mixed
    BY <1>3 DEF Shown
  <2>3. calls'[c] = Idle /\ \A d \in Calls : d # c => calls'[d] = calls[d]
    BY <2>1 DEF Shapes
  <2>4. \A k \in Cookies : Holds(c[1], k)' => Holds(c[1], k)
    BY <2>2, <2>3 DEF Holds
  <2>5. Ledgers'
    BY <1>1, <2>2 DEF CurrentInv, Ledgers, host
  <2>6. Moves(c)
    BY <1>1, <2>1, <2>2, <2>3, <2>4, <2>5 DEF Moves, host, switches, secrets
  <2>7. ASSUME ~mixed[c[1]]
        PROVE  Fresh(c[1], page[c[1]].snapshot)'
    <3>1. Fresh(c[1], calls[c].view)
      BY <1>1, <1>3, <2>2, <2>7 DEF PageCurrent
    <3>2. page'[c[1]].snapshot = calls[c].view /\ mine' = mine /\ rev' = rev
          /\ jar' = jar /\ UNCHANGED <<policy, protection, access, sessions>>
      BY <1>1, <2>1, <2>2 DEF host, switches, secrets
    <3>3. View(c[1], jar[c[1]])' = View(c[1], jar[c[1]])
      BY <3>2, ViewsDependOn DEF View, AdminState, MayManage, AdminUnlocked
    <3> QED BY <3>1, <3>2, <3>3 DEF Fresh
  <2>8. mine'[c[1]] <= rev'
    BY <1>1 DEF PageCurrent, host
  <2>9. PageCurrent(c[1])'
    BY <1>1, <2>2, <2>3, <2>7, <2>8, ActorStays DEF Idle
  <2> QED BY <2>6, <2>9
<1>4. CASE Failed(c) /\ jar' = jar
  BY <1>1, <1>4, FailedMoves DEF Holds
<1> QED BY <1>2, <1>3, <1>4 DEF Shown, Lose, Answered

LEMMA PersonSteps ==
    ASSUME Shapes, CurrentInv, NEW p \in Pages, Person(p) \/ TimerFires(p)
    PROVE  CurrentInv'
<1>1. /\ UNCHANGED <<switches, secrets, sessions, rev, jar, mine>>
      /\ \A q \in Pages : q # p => page'[q] = page[q]
      /\ PageCurrent(p) /\ Ledgers /\ Distinct /\ rev \in Nat
  BY PersonPage DEF Person, Unlock, Mistype, Change, Send, Hint, DismissNotice, DismissError,
                    Reload, TimerFires, CurrentInv, Shapes, host
<1>2. ASSUME NEW s \in Slots(p), calls'[p, s] # Idle, calls'[p, s].cookie = jar[p],
             calls'[p, s].pc \in {"post", "get"},
             \A d \in Calls : d # <<p, s>> => calls'[d] = calls[d],
             mixed' = [mixed EXCEPT ![p] = UnderWay(p)]
      PROVE  CurrentInv'
  <2>1. <<p, s>> \in Calls /\ <<p, s>>[1] = p
    BY SlotsAreCalls
  <2>2. Ledgers'
    <3>1. UnderWay(p) \in BOOLEAN
      BY DEF UnderWay
    <3> QED BY <1>1, <1>2, <3>1 DEF Ledgers
  <2>3. \A q \in Pages : \A k \in Cookies : Holds(q, k)' => Holds(q, k)
    <3> SUFFICES ASSUME NEW q \in Pages, NEW k \in Cookies, Holds(q, k)', jar'[q] # k
                 PROVE  Holds(q, k)
      BY <1>1 DEF Holds
    <3>1. PICK d \in Calls : /\ d[1] = q /\ calls'[d] # Idle
                             /\ \/ calls'[d].cookie = k
                                \/ calls'[d].pc = "answer" /\ calls'[d].set = k
      BY DEF Holds, Idle
    <3>2. CASE d = <<p, s>>
      BY <1>1, <1>2, <2>1, <3>1, <3>2
    <3>3. CASE d # <<p, s>>
      BY <1>2, <3>1, <3>3 DEF Holds
    <3> QED BY <3>2, <3>3
  <2>4. PageCurrent(p)'
    <3>1. mixed'[p] = UnderWay(p)
      BY <1>1, <1>2 DEF Ledgers
    <3>2. CASE UnderWay(p)
      BY <1>1, <3>1, <3>2 DEF PageCurrent
    <3>3. CASE ~UnderWay(p)
      <4>1. \A d \in Calls : d[1] = p => calls[d] = Idle
        BY <3>3, QuietMeansNothingUnderWay DEF Quiet
      <4>2. \A d \in Calls : d[1] = p /\ d # <<p, s>> => calls'[d] = Idle
        BY <1>2, <4>1
      <4>3. ~Quiet(p)'
        BY <1>2, <2>1 DEF Quiet, Idle
      <4>4. Idle' = Idle /\ Idle.pc = "idle"
        BY DEF Idle
      <4> QED BY <1>1, <1>2, <4>2, <4>3, <4>4 DEF PageCurrent
    <3> QED BY <3>2, <3>3
  <2>5. ASSUME NEW q \in Pages, q # p
        PROVE  PageCurrent(q)'
    <3>1. \A d \in Calls : d[1] = q => calls'[d] = calls[d]
      BY <1>2, <2>1, <2>5
    <3>2. mixed'[q] = mixed[q]
      BY <1>1, <1>2, <2>5 DEF Ledgers
    <3>3. View(q, jar[q])' = View(q, jar[q])
      BY <1>1, ViewsDependOn DEF View, AdminState, MayManage, AdminUnlocked, switches, secrets
    <3>4. PageCurrent(q)
      BY DEF CurrentInv
    <3> QED BY <1>1, <2>5, <3>1, <3>2, <3>3, <3>4, BystanderStays
  <2> QED BY <1>1, <2>2, <2>3, <2>4, <2>5 DEF CurrentInv, Distinct
<1>3. ASSUME NEW kind, NEW value, Send(p, kind, value)
      PROVE  CurrentInv'
  <2>1. PICK s \in Slots(p) :
            calls' = [calls EXCEPT ![<<p, s>>] =
                        [pc |-> "post", kind |-> kind, value |-> value,
                         cookie |-> jar[p], done |-> FALSE]]
    BY <1>3 DEF Send
  <2>2. /\ calls'[p, s] # Idle /\ calls'[p, s].cookie = jar[p] /\ calls'[p, s].pc = "post"
        /\ \A d \in Calls : d # <<p, s>> => calls'[d] = calls[d]
    BY <2>1, SlotsAreCalls DEF Shapes, Idle
  <2> QED BY <1>2, <1>3, <2>2 DEF Send
<1>4. CASE Reload(p)
  <2>1. calls' = [calls EXCEPT ![<<p, 1>>] = [Loading EXCEPT !.cookie = jar[p]]]
    BY <1>4 DEF Reload
  <2>2. /\ [Loading EXCEPT !.cookie = jar[p]].pc = "get"
        /\ [Loading EXCEPT !.cookie = jar[p]].cookie = jar[p]
        /\ [Loading EXCEPT !.cookie = jar[p]] # Idle
    BY DEF Loading, Idle
  <2>3. /\ calls'[p, 1] # Idle /\ calls'[p, 1].cookie = jar[p] /\ calls'[p, 1].pc = "get"
        /\ \A d \in Calls : d # <<p, 1>> => calls'[d] = calls[d]
    BY <2>1, <2>2, SlotsAreCalls DEF Shapes, Slots
  <2>4. mixed' = [mixed EXCEPT ![p] = UnderWay(p)]
    BY <1>4 DEF Reload, UnderWay
  <2>5. 1 \in Slots(p)
    BY DEF Slots
  <2> QED BY <1>2, <2>3, <2>4, <2>5
<1>5. CASE /\ UNCHANGED <<calls, mixed>>
           /\ page'[p].snapshot = page[p].snapshot
  <2>1. ASSUME NEW q \in Pages
        PROVE  PageCurrent(q)'
    <3>1. View(q, jar[q])' = View(q, jar[q])
      BY <1>1, ViewsDependOn DEF View, AdminState, MayManage, AdminUnlocked, switches, secrets
    <3>2. PageCurrent(q)
      BY DEF CurrentInv
    <3>3. page'[q].snapshot = page[q].snapshot
      BY <1>1, <1>5
    <3> QED BY <1>1, <1>5, <3>1, <3>2, <3>3, BystanderStays
  <2>2. Ledgers' /\ Distinct'
    BY <1>1, <1>5 DEF Ledgers, Distinct, Holds
  <2> QED BY <2>1, <2>2 DEF CurrentInv
<1>6. CASE Hint(p) \/ DismissNotice(p) \/ DismissError(p) \/ TimerFires(p)
  <2>1. UNCHANGED <<calls, mixed>>
    BY <1>6 DEF Hint, DismissNotice, DismissError, TimerFires
  <2> QED BY <1>4, <1>5, <1>6, <2>1, PersonPage DEF Person
<1> QED BY <1>3, <1>4, <1>6 DEF Person, Unlock, Mistype, Change

LEMMA WorldSteps ==
    ASSUME Shapes, CurrentInv, Expire \/ Elsewhere
    PROVE  CurrentInv'
<1>1. /\ UNCHANGED <<jar, page, calls, mine, mixed>> /\ rev' = rev + 1 /\ rev \in Nat
      /\ sessions' \subseteq sessions /\ Ledgers /\ Distinct
  BY DEF Expire, Elsewhere, Revoke, Shapes, CurrentInv
<1>2. ASSUME NEW q \in Pages
      PROVE  PageCurrent(q)'
  <2>1. rev' \in Nat /\ rev <= rev' /\ rev' # rev
    BY <1>1
  <2>2. PageCurrent(q)
    BY DEF CurrentInv
  <2> QED BY <1>1, <2>1, <2>2, BystanderStays
<1> QED BY <1>1, <1>2 DEF CurrentInv, Ledgers, Distinct, Holds

\* What a page shows after a call that went through alone: it reads again with
\* the cookie it has after the answer, and what anybody else does to its view
\* counts up (client.ts:629).
THEOREM PagesAreCurrent == Spec => []ViewIsCurrent
<1>1. Shapes /\ CurrentInv /\ [Next]_vars => CurrentInv'
  <2> SUFFICES ASSUME Shapes, CurrentInv, [Next]_vars PROVE CurrentInv'
    OBVIOUS
  <2>1. ASSUME NEW c \in Calls, Progress(c) \/ Throws(c) \/ Lose(c)
        PROVE  CurrentInv'
    BY <2>1, HostSteps, BrowserSteps, MovesKeep DEF Progress
  <2>2. CASE UNCHANGED vars
    <3>1. UNCHANGED <<switches, secrets, sessions, rev, jar, page, calls, mine, mixed>>
      BY <2>2 DEF vars, host
    <3>2. ASSUME NEW q \in Pages
          PROVE  PageCurrent(q)'
      <4>1. View(q, jar[q])' = View(q, jar[q])
        BY <3>1, ViewsDependOn DEF View, AdminState, MayManage, AdminUnlocked, switches, secrets
      <4>2. PageCurrent(q) /\ Ledgers /\ rev \in Nat
        BY DEF CurrentInv, Shapes
      <4> QED BY <3>1, <4>1, <4>2, BystanderStays
    <3> QED BY <3>1, <3>2 DEF CurrentInv, Ledgers, Distinct, Holds
  <2> QED BY <2>1, <2>2, PersonSteps, WorldSteps, Steps
<1>2. CurrentInv => ViewIsCurrent
  <2> SUFFICES ASSUME CurrentInv, NEW p \in Pages, ~mixed[p], Quiet(p),
                      page[p].snapshot # None
               PROVE  Fresh(p, page[p].snapshot)
    BY QuietMeansNothingUnderWay DEF ViewIsCurrent, Fresh
  <2> QED BY DEF CurrentInv, PageCurrent
<1> QED BY <1>1, <1>2, CurrentInit, ShapesHold, PTL DEF Spec
=============================================================================
