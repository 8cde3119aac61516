---------------------------- MODULE VisitorGate ----------------------------
(***************************************************************************)
(* The paired devices (src/store/devices.ts) and the gate that asks them   *)
(* (src/auth/gate.ts): browsers that navigate, log in, follow links, name  *)
(* their device and fire background requests, and an operator who approves,*)
(* blocks, unblocks, revokes and deletes devices and changes the switches. *)
(*                                                                         *)
(* Sessions, passwords and lockouts are AuthManager's: here a browser      *)
(* holds a session the gate accepts or it does not, and its person knows   *)
(* the access password.  The saves of the device list are those of         *)
(* AtomicStore: each takes effect at any moment before its answer.         *)
(***************************************************************************)
EXTENDS Integers, FiniteSets

CONSTANTS
    Browsers,  \* visitors' browsers, one page each
    Extras,    \* background requests under way: page resources, sockets
    Console,   \* the operator's request
    Ids,       \* device identities, id and token together
    None,      \* no device cookie, no device link
    NoRecord,  \* the list holds no record of an identity
    Modes,     \* the credential modes the operator uses
    Whims,     \* events nothing obliges: see EventKinds
    MaxEvents  \* bound: such events in a run

AuthModes == {"password", "token", "token_and_password"}
EventKinds == {"decide", "switch", "sessionEnds", "openForm", "link",
               "restart", "saveFails"}

ASSUME GateAssumption ==
    /\ Browsers \cap Extras = {}
    /\ Console \notin Browsers \cup Extras
    /\ None \notin Ids
    /\ Modes \subseteq AuthModes /\ Modes # {}
    /\ Whims \subseteq EventKinds
    /\ MaxEvents \in Nat

VARIABLES
    records,   \* #devices: the record of each identity
    stored,    \* devices.json
    calls,     \* the requests suspended at an await
    jar,       \* the device cookie of each browser
    session,   \* whether a browser holds a live session cookie
    page,      \* what a browser shows
    settings,  \* the live switches
    drawn,     \* history: the identities given out
    ledger,    \* history: the list as pairings and the operator left it
    events     \* events spent, out of MaxEvents

vars == <<records, stored, calls, jar, session, page, settings, drawn,
          ledger, events>>

----------------------------------------------------------------------------

Callers == Browsers \cup Extras \cup {Console}

Record == [status : {"pending", "approved", "blocked"}, revoked : BOOLEAN]

ASSUME NoRecordAssumption == NoRecord \notin Record

DeviceList == [Ids -> Record \cup {NoRecord}]

Settings == [mode : Modes, pairing : BOOLEAN, approval : BOOLEAN]

Pages == {"blank", "app", "login", "inactive", "pairing", "waiting",
          "removed", "redirect", "error"}

Idle == [pc |-> "idle"]

\* `device` is the id a request looked up, `body` the list it is saving.
Suspended ==
    [pc : {"touch", "pair", "pairTouch"}, device : Ids, body : DeviceList]
      \cup [pc : {"link"}, device : Ids \cup {None}]
      \cup [pc : {"login", "form", "revoke"}]
      \cup [pc : {"linkTouch", "decide"}, body : DeviceList]

Saving(c) ==
    calls[c].pc \in {"touch", "pair", "pairTouch", "linkTouch", "decide"}

Init ==
    /\ records = [d \in Ids |-> NoRecord]
    /\ stored = records
    /\ calls = [c \in Callers |-> Idle]
    /\ jar = [b \in Browsers |-> None]
    /\ session = [b \in Browsers |-> FALSE]
    /\ page = [b \in Browsers |-> "blank"]
    /\ settings \in Settings
    /\ drawn = {}
    /\ ledger = records
    /\ events = 0

Call(c, r) == calls' = [calls EXCEPT ![c] = r]

Show(b, p) == page' = [page EXCEPT ![b] = p]

\* Bound: an event of a kind the instance allows, while some are left.
Event(kind) ==
    /\ kind \in Whims
    /\ events < MaxEvents
    /\ events' = events + 1

\* Bound: a pairing starts only while an identity is left for it.
Room ==
    Cardinality(drawn) + Cardinality({b \in Browsers : calls[b].pc = "form"})
        < Cardinality(Ids)

----------------------------------------------------------------------------
(* Verdicts: what the gate answers a request with *)

\* lookup: the record behind the device cookie, whatever its state.
DeviceOf(b) == IF jar[b] = None THEN NoRecord ELSE records[jar[b]]

Refused(r) == r.revoked \/ r.status = "blocked"

\* An identity that has a record decides alone.
DeviceVerdict(r) ==
    CASE Refused(r) -> "removed"
      [] ~Refused(r) /\ r.status = "pending" -> "waiting"
      [] OTHER -> "app"

\* verifyRequest and #afterVerdict: an accepted session of a browser without
\* a name must still pair.
AfterVerdict == IF settings.pairing THEN "pairing" ELSE "app"

SessionVerdict(b) == IF session[b] THEN AfterVerdict ELSE "login"

\* Mutant: a device cookie that names no record is refused.
HttpVerdict_Stranded(b) ==
    IF jar[b] # None /\ DeviceOf(b) = NoRecord THEN "removed"
    ELSE IF DeviceOf(b) # NoRecord THEN DeviceVerdict(DeviceOf(b))
    ELSE SessionVerdict(b)

\* handleHttp, up to the page or the decision to forward.
HttpVerdict(b) ==
    IF DeviceOf(b) # NoRecord THEN DeviceVerdict(DeviceOf(b))
                              ELSE SessionVerdict(b)

\* Mutant: a link that decides nothing lets a session through unnamed.
InertLinkVerdict_SkipsPairing(b) ==
    IF DeviceOf(b) # NoRecord THEN DeviceVerdict(DeviceOf(b))
    ELSE IF session[b] THEN "app" ELSE "inactive"

\* The same request with an `?auth=` that the mode ignores or nobody knows.
InertLinkVerdict(b) ==
    IF DeviceOf(b) # NoRecord THEN DeviceVerdict(DeviceOf(b))
    ELSE IF session[b] THEN AfterVerdict ELSE "inactive"

\* verifyUpgrade.
UpgradeVerdict(b) ==
    IF DeviceOf(b) # NoRecord
    THEN IF DeviceVerdict(DeviceOf(b)) = "app" THEN "open" ELSE "refused"
    ELSE IF session[b] /\ ~settings.pairing THEN "open" ELSE "refused"

\* verify: the identity whose token a link may carry.
LinkAccepted(d) ==
    records[d] # NoRecord /\ ~Refused(records[d])
        /\ records[d].status = "approved"

----------------------------------------------------------------------------
(* Requests *)

\* A page request the gate answers at once: with a page of its own, or, when
\* nothing has to be written about the device, by letting it through.
Navigate(b) ==
    /\ calls[b] = Idle
    /\ Show(b, HttpVerdict(b))
    /\ UNCHANGED <<records, stored, calls, jar, session, settings, drawn,
                   ledger, events>>

\* touch of an approved device not seen lately: the list is saved as it is
\* (the time of the visit is left out), and the request goes on when it is.
Touching(c, b) ==
    /\ calls[c] = Idle
    /\ DeviceOf(b) # NoRecord
    /\ HttpVerdict(b) = "app"
    /\ Call(c, [pc |-> "touch", device |-> jar[b], body |-> records])
    /\ UNCHANGED <<records, stored, jar, session, page, settings, drawn,
                   ledger, events>>

NavigateTouching(b) == Touching(b, b)

\* A resource of the page, or an upgrade: answered like a page.
Fetch(x, b) == page[b] = "app" /\ Touching(x, b)

\* A person opens the login page or the naming page directly.
OpenForm(b) ==
    /\ Event("openForm")
    /\ calls[b] = Idle
    /\ \E p \in {"login", "pairing"} : Show(b, p)
    /\ UNCHANGED <<records, stored, calls, jar, session, settings, drawn,
                   ledger>>

\* The login form with the right password (the form is absent in token mode).
Login(b) ==
    /\ calls[b] = Idle
    /\ page[b] \in {"login", "inactive"}
    /\ settings.mode # "token"
    /\ Call(b, [pc |-> "login"])
    /\ UNCHANGED <<records, stored, jar, session, page, settings, drawn,
                   ledger, events>>

LoginDone(b) ==
    /\ calls[b].pc = "login"
    /\ Call(b, Idle)
    /\ session' = [session EXCEPT ![b] = TRUE]
    /\ Show(b, "redirect")
    /\ UNCHANGED <<records, stored, jar, settings, drawn, ledger, events>>

\* The list of sessions cannot be saved: the session is never handed out.
SessionSaveFail(b) ==
    /\ Event("saveFails")
    /\ calls[b].pc \in {"login", "link"}
    /\ Call(b, Idle)
    /\ Show(b, "error")
    /\ UNCHANGED <<records, stored, jar, session, settings, drawn, ledger>>

\* A link nobody accepts, or one the mode ignores.
InertLink(b) ==
    /\ Event("link")
    /\ calls[b] = Idle
    /\ Show(b, InertLinkVerdict(b))
    /\ UNCHANGED <<records, stored, calls, jar, session, settings, drawn,
                   ledger>>

\* The master link (None) or the link of an approved device: issueSession.
\* A browser whose device has a record never gets this far.
Link(b, d) ==
    /\ Event("link")
    /\ calls[b] = Idle
    /\ DeviceOf(b) = NoRecord
    /\ settings.mode # "password"
    /\ d # None => LinkAccepted(d)
    /\ Call(b, [pc |-> "link", device |-> d])
    /\ UNCHANGED <<records, stored, jar, session, page, settings, drawn,
                   ledger>>

LinkEnd(b) ==
    /\ Call(b, Idle)
    /\ session' = [session EXCEPT ![b] = TRUE]
    /\ Show(b, "redirect")

\* The session is issued.  The device that lent its link is touched: by id,
\* in the list as it is now.
LinkTouch(b) ==
    LET d == calls[b].device
    IN  /\ calls[b].pc = "link"
        /\ d # None
        /\ records[d] # NoRecord
        /\ Call(b, [pc |-> "linkTouch", body |-> records])
        /\ UNCHANGED <<records, stored, jar, session, page, settings, drawn,
                       ledger, events>>

\* The master link, a device deleted meanwhile or one seen lately: no save.
LinkNoTouch(b) ==
    /\ calls[b].pc = "link"
    /\ LinkEnd(b)
    /\ UNCHANGED <<records, stored, jar, settings, drawn, ledger, events>>

\* The naming form: the session is checked before the body is read.
Pair(b) ==
    /\ calls[b] = Idle
    /\ page[b] = "pairing"
    /\ Room
    /\ IF session[b]
       THEN Call(b, [pc |-> "form"]) /\ UNCHANGED page
       ELSE Show(b, "login") /\ UNCHANGED calls
    /\ UNCHANGED <<records, stored, jar, session, settings, drawn,
                   ledger, events>>

\* add: a new identity, waiting for approval when the switch says so NOW.
PairAdd(b, d) ==
    LET r == [status |-> IF settings.approval THEN "pending" ELSE "approved",
              revoked |-> FALSE]
    IN  /\ calls[b].pc = "form"
        /\ d \notin drawn
        /\ drawn' = drawn \cup {d}
        /\ records' = [records EXCEPT ![d] = r]
        /\ ledger' = [ledger EXCEPT ![d] = r]
        /\ Call(b, [pc |-> "pair", device |-> d, body |-> records'])
        /\ UNCHANGED <<stored, jar, session, page, settings, events>>

PairEnd(b, d) ==
    /\ Call(b, Idle)
    /\ jar' = [jar EXCEPT ![b] = d]
    /\ Show(b, "redirect")

----------------------------------------------------------------------------
(* The end of a save *)

\* What a request does once its save has ended well.
AfterSave(c) ==
    LET r == calls[c]
    IN  \/ /\ r.pc = "touch"
           /\ Call(c, Idle)
           /\ IF c \in Browsers THEN Show(c, "app") ELSE UNCHANGED page
           /\ UNCHANGED <<jar, session>>
        \/ /\ r.pc = "pair"
           /\ IF records[r.device] # NoRecord
              THEN /\ Call(c, [pc |-> "pairTouch", device |-> r.device,
                               body |-> records])
                   /\ UNCHANGED <<jar, page>>
              ELSE PairEnd(c, r.device)
           /\ UNCHANGED session
        \/ /\ r.pc = "pairTouch"
           /\ PairEnd(c, r.device)
           /\ UNCHANGED session
        \/ /\ r.pc = "linkTouch"
           /\ LinkEnd(c)
           /\ UNCHANGED <<jar>>
        \/ /\ r.pc = "decide"
           /\ Call(c, Idle)
           /\ UNCHANGED <<jar, session, page>>

\* Mutant: the list in memory is replaced once the new one has been saved.
SaveDone_AssignsAfter(c) ==
    /\ Saving(c)
    /\ stored' = calls[c].body
    /\ records' = calls[c].body
    /\ AfterSave(c)
    /\ UNCHANGED <<settings, drawn, ledger, events>>

SaveDone(c) ==
    /\ Saving(c)
    /\ stored' = calls[c].body
    /\ AfterSave(c)
    /\ UNCHANGED <<records, settings, drawn, ledger, events>>

\* A touch that cannot be written is ignored, except after a link, where the
\* rejection fails the request like that of a pairing.  The list in memory
\* keeps every change.
SaveFail(c) ==
    /\ Event("saveFails")
    /\ Saving(c)
    /\ stored' \in {stored, calls[c].body}
    /\ IF calls[c].pc \in {"pair", "linkTouch"}
       THEN /\ Call(c, Idle)
            /\ Show(c, "error")
            /\ UNCHANGED <<jar, session>>
       ELSE AfterSave(c)
    /\ UNCHANGED <<records, settings, drawn, ledger>>

----------------------------------------------------------------------------
(* The operator and the host *)

\* What the device route does to a record: setStatus clears a revocation.
Decisions(r) ==
    {[status |-> s, revoked |-> FALSE] :
        s \in {"pending", "approved", "blocked"} \ {r.status}}
      \cup (IF r.revoked THEN {} ELSE {[r EXCEPT !.revoked = TRUE]})
      \cup {NoRecord}

Decide(d) ==
    /\ Event("decide")
    /\ calls[Console] = Idle
    /\ records[d] # NoRecord
    /\ \E r \in Decisions(records[d]) :
          /\ records' = [records EXCEPT ![d] = r]
          /\ ledger' = [ledger EXCEPT ![d] = r]
    /\ Call(Console, [pc |-> "decide", body |-> records'])
    /\ UNCHANGED <<stored, jar, session, page, settings, drawn>>

\* The switches change.  A form that names the mode, another or the same, goes
\* on to end the sessions once the switches are saved.
Switch ==
    /\ Event("switch")
    /\ calls[Console] = Idle
    /\ \E s \in Settings, named \in BOOLEAN :
          /\ s # settings
          /\ s.mode # settings.mode => named
          /\ settings' = s
          /\ IF named THEN Call(Console, [pc |-> "revoke"])
                      ELSE UNCHANGED calls
    /\ UNCHANGED <<records, stored, jar, session, page, drawn, ledger>>

\* revokeAllSessions: the sessions end here, whether or not that is saved.
Revoke ==
    /\ calls[Console].pc = "revoke"
    /\ Call(Console, Idle)
    /\ session' = [b \in Browsers |-> FALSE]
    /\ UNCHANGED <<records, stored, jar, page, settings, drawn, ledger, events>>

\* The session expires or is revoked.
SessionEnds(b) ==
    /\ Event("sessionEnds")
    /\ session[b]
    /\ session' = [session EXCEPT ![b] = FALSE]
    /\ UNCHANGED <<records, stored, calls, jar, page, settings, drawn,
                   ledger>>

\* The process ends and starts again: the list is what was stored.
Restart ==
    /\ Event("restart")
    /\ records' = stored
    /\ ledger' = stored
    /\ calls' = [c \in Callers |-> Idle]
    /\ page' = [b \in Browsers |->
                   IF calls[b] = Idle THEN page[b] ELSE "error"]
    /\ UNCHANGED <<stored, jar, session, settings, drawn>>

----------------------------------------------------------------------------

\* What the event loop owes a suspended request.
Resume(c) ==
    \/ c \in Browsers /\ (LoginDone(c) \/ LinkTouch(c) \/ LinkNoTouch(c))
    \/ c \in Browsers /\ \E d \in Ids : PairAdd(c, d)
    \/ SaveDone(c)
    \/ c = Console /\ Revoke

\* What a person does with the page that is shown.
FollowPage(b) ==
    \/ page[b] \notin {"app", "login", "inactive", "pairing"} /\ Navigate(b)
    \/ Login(b)
    \/ Pair(b)

Next ==
    \/ \E b \in Browsers :
          \/ Navigate(b) \/ NavigateTouching(b) \/ OpenForm(b) \/ Login(b)
          \/ InertLink(b) \/ Pair(b) \/ SessionEnds(b) \/ SessionSaveFail(b)
          \/ \E d \in Ids \cup {None} : Link(b, d)
          \/ \E x \in Extras : Fetch(x, b)
    \/ \E c \in Callers : Resume(c) \/ SaveFail(c)
    \/ \E d \in Ids : Decide(d)
    \/ Switch
    \/ Restart

Spec == Init /\ [][Next]_vars

\* File operations and hashing end.
Resumes(c) == WF_vars(Resume(c))

\* A person keeps following what is shown.
Follows(b) == WF_vars(FollowPage(b))

FairSpec ==
    /\ Spec
    /\ \A c \in Callers : Resumes(c)
    /\ \A b \in Browsers : Follows(b)

----------------------------------------------------------------------------
(* What the component promises *)

\* Every variable has the shape the code gives it.
TypeOK ==
    /\ records \in DeviceList
    /\ stored \in DeviceList
    /\ calls \in [Callers -> {Idle} \cup Suspended]
    /\ jar \in [Browsers -> Ids \cup {None}]
    /\ session \in [Browsers -> BOOLEAN]
    /\ page \in [Browsers -> Pages]
    /\ settings \in Settings
    /\ drawn \subseteq Ids
    /\ ledger \in DeviceList
    /\ events \in 0 .. MaxEvents

\* Traffic never undoes what the operator decided: while the process lives
\* the list is what pairings and the operator made it, whatever touches of
\* the same device were under way when the decision was taken.
DecisionsStand == records = ledger

\* The ways into the application agree: a link that decides nothing opens no
\* page a plain request would not open, and a browser gets its socket exactly
\* when it gets its page (otherwise the page is left blank).
EntryPointsAgree ==
    \A b \in Browsers :
        /\ InertLinkVerdict(b) = "app" <=> HttpVerdict(b) = "app"
        /\ UpgradeVerdict(b) = "open" <=> HttpVerdict(b) = "app"

\* A browser that the operator does not keep out, and that can log in again.
Admissible(b) ==
    /\ settings.mode # "token"
    /\ DeviceOf(b) # NoRecord => DeviceVerdict(DeviceOf(b)) = "app"

CanGoOn(c) == ENABLED <<Resume(c)>>_vars

\* No page is a dead end and no request hangs: whatever is suspended can go
\* on, and every page shown to a browser that may come in offers a next step.
NobodyStranded ==
    /\ \A c \in Callers : calls[c] # Idle => CanGoOn(c)
    /\ \A b \in Browsers :
          calls[b] = Idle /\ Admissible(b) /\ page[b] # "app"
             => ENABLED <<FollowPage(b)>>_vars

\* A browser that the operator does not keep out gets in again: whatever
\* record was deleted, session lost or save undone, following the pages shown
\* leads to the application.
Recoverable ==
    \A b \in Browsers : <>[]Admissible(b) => []<>(page[b] = "app")

============================================================================
