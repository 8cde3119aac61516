------------------------- MODULE ManagementConsole -------------------------
(***************************************************************************)
(* The settings page (SettingsSection of src/client.ts) in several browsers*)
(* and the routes that serve it (handleConfig and handleDevices of         *)
(* src/settings/routes.ts).  A change is a POST followed by a GET that     *)
(* re-reads what the page shows; calls of one page overlap, other pages    *)
(* change the host meanwhile, and either half of a call can fail.          *)
(*                                                                         *)
(* The credentials behind the routes are AuthManager's and the device list *)
(* is VisitorGate's: here a change counts up `rev`, which stands for every *)
(* datum of the snapshot that the locks of the console do not depend on.   *)
(***************************************************************************)
EXTENDS Integers, FiniteSets

CONSTANTS
    Pages,       \* the browsers that have the settings page open
    Local,       \* those that reach DSH directly on its own machine
    Paired,      \* those the gate lets in by their device identity
    Hurried,     \* bound: pages whose calls overlap, two at a time
    Cookies,     \* admin session cookies
    None,        \* no cookie, no snapshot
    Kinds,       \* the changes the persons make
    Policies,    \* the admin policies they choose from
    MaxEvents,   \* bound: changes tried and sessions expired
    MaxTroubles  \* bound: failures of the network and of saves

AllKinds == {"unlock", "lock", "policy", "protection", "mode", "switch",
             "setPassword", "setAdminPassword", "rotate", "device"}

ASSUME ConsoleAssumption ==
    /\ Local \subseteq Pages /\ Paired \subseteq Pages /\ Hurried \subseteq Pages
    /\ None \notin Cookies /\ "keep" \notin Cookies
    /\ Kinds \subseteq AllKinds
    /\ Policies \subseteq {"open", "local_only", "password_unlock"}
    /\ MaxEvents \in Nat /\ MaxTroubles \in Nat

VARIABLES
    \* the host
    policy, protection,  \* live switches
    access, admin,       \* the passwords, 0 for one that is not set
    link,                \* whether a token link was made
    sessions,            \* #adminSessions
    rev,                 \* counts the changes of what a snapshot shows
    \* the browsers
    visitor,             \* whether a browser holds a live visitor session
    jar,                 \* its admin cookie
    page,                \* snapshot, error, busy, notice and its timers
    calls,               \* the calls of the pages
    \* bookkeeping
    mine,                \* history: the last change made by a page's calls
    mixed,               \* history: calls of the page overlapped, or the last one failed
    events, troubles     \* spent, out of MaxEvents and MaxTroubles

switches == <<policy, protection>>
secrets == <<access, admin, link>>
host == <<switches, secrets, sessions, rev, visitor>>
bounds == <<events, troubles>>
vars == <<host, jar, page, calls, mine, mixed, bounds>>

----------------------------------------------------------------------------

Idle == [pc |-> "idle"]

Slots(p) == IF p \in Hurried THEN {1, 2} ELSE {1}

Calls == UNION {{p} \X Slots(p) : p \in Pages}

\* Bound: a change or an expiry, while some are left.
Event == events < MaxEvents /\ events' = events + 1

\* Bound: a failure, while some are left.
Trouble == troubles < MaxTroubles /\ troubles' = troubles + 1

Blank == [snapshot |-> None, error |-> FALSE, busy |-> FALSE,
          notice |-> "none", timers |-> {}]

\* The call that reads the settings when a page opens.
Loading == [pc |-> "get", kind |-> "load", cookie |-> None, done |-> FALSE]

Start ==
    /\ policy \in Policies
    /\ protection \in BOOLEAN
    /\ access \in {0, 1} /\ admin = 0
    /\ link \in BOOLEAN
    /\ sessions = {}
    /\ rev = 0
    /\ visitor = [p \in Pages |-> access # 0]
    /\ jar = [p \in Pages |-> None]
    /\ page = [p \in Pages |-> Blank]
    /\ mine = [p \in Pages |-> 0]
    /\ mixed = [p \in Pages |-> FALSE]
    /\ events = 0 /\ troubles = 0

Init ==
    /\ Start
    /\ calls = [c \in Calls |-> IF c[2] = 1 THEN Loading ELSE Idle]

----------------------------------------------------------------------------
(* Authority: what the host holds of a request of page p with a cookie *)

\* isAdminUnlocked: without protection every session counts as unlocked.
AdminUnlocked(cookie) == ~protection \/ cookie \in sessions

AdminState(p, cookie) ==
    CASE policy = "open"                               -> "open"
      [] policy # "open" /\ p \in Local                -> "local"
      [] policy = "local_only" /\ p \notin Local       -> "readonly"
      [] policy = "password_unlock" /\ p \notin Local  ->
           IF AdminUnlocked(cookie) THEN "open" ELSE "locked"

MayManage(p, cookie) == AdminState(p, cookie) \in {"open", "local"}

NeedsAdmin(p, cookie) == protection /\ AdminState(p, cookie) = "locked"

\* The gate in front of the routes, for a browser that comes through it.
Admitted(p) == p \in Local \cup Paired \/ visitor[p]

\* The password that unlocks: the admin one, or else the access one.
Secret == IF admin # 0 THEN <<"admin", admin>> ELSE <<"access", access>>
HasSecret == admin # 0 \/ access # 0

\* snapshotOf, as far as the page decides by it.
View(p, cookie) ==
    [hasPassword   |-> access # 0,
     adminRequired |-> AdminState(p, cookie) = "locked",
     readOnly      |-> AdminState(p, cookie) = "readonly",
     adminUnlocked |-> AdminUnlocked(cookie),
     link          |-> MayManage(p, cookie),
     rev           |-> rev]

----------------------------------------------------------------------------
(* The page *)

\* Mutant: a console without a password is locked like any other.
LockedView_FirstRunToo(v) == v.adminRequired /\ ~v.adminUnlocked

\* The lock card replaces the tabs once there is a password to ask for.
LockedView(v) == v.hasPassword /\ v.adminRequired /\ ~v.adminUnlocked

Locked(p) == page[p].snapshot # None /\ LockedView(page[p].snapshot)

AccessTab(v) == IF v.link THEN {"rotate"} ELSE {}

SecurityTab == {"mode", "setPassword", "setAdminPassword", "switch",
                "policy", "protection"}

DevicesTab == {"switch", "device"}

ConnectionTab == {"switch"}

UnlockBanner(p, v) ==
    IF v.adminUnlocked /\ ~LockedView(v) /\ p \notin Local THEN {"lock"} ELSE {}

\* What a page offers, whatever tab is open.
Controls(p, v) ==
    AccessTab(v) \cup UnlockBanner(p, v)
      \cup IF LockedView(v) THEN {"unlock"}
           ELSE SecurityTab \cup DevicesTab \cup ConnectionTab

\* The button that locks again and the Enter key of the lock card are the
\* controls a call under way does not disable.
Offered(p, kind) ==
    /\ page[p].snapshot # None
    /\ kind \in Kinds \cap Controls(p, page[p].snapshot)
    /\ page[p].busy => kind \in {"unlock", "lock"}

UnderWay(p) == \E s \in Slots(p) : calls[p, s] # Idle

\* A call under way as the s-th of its page, the first that is free.
Free(p, s) ==
    calls[p, s] = Idle /\ \A t \in 1..(s - 1) : calls[p, t] # Idle

\* write, deviceAction: the page is busy and a POST leaves with the cookie of
\* this moment.
Send(p, kind, value) ==
    /\ Offered(p, kind)
    /\ \E s \in Slots(p) :
         /\ Free(p, s)
         /\ calls' = [calls EXCEPT ![<<p, s>>] =
                        [pc |-> "post", kind |-> kind, value |-> value,
                         cookie |-> jar[p], done |-> FALSE]]
    /\ page' = [page EXCEPT ![p].busy = TRUE]
    /\ mixed' = [mixed EXCEPT ![p] = UnderWay(p)]
    /\ UNCHANGED <<host, jar, mine, troubles>>

\* The person types the password that unlocks.
Unlock(p) == Send(p, "unlock", Secret) /\ UNCHANGED events

Mistype(p) == Event /\ Send(p, "unlock", <<"wrong", 0>>)

Change(p) ==
    /\ Event
    /\ \E kind \in Kinds \ {"unlock"} :
         \E value \in IF kind = "policy" THEN Policies ELSE {None} :
            Send(p, kind, value)

\* Mutant: the timer of the notice before is not cleared.
Flash_KeepsTimer(pg) ==
    [pg EXCEPT !.notice = "saved",
               !.timers = {"own"} \cup IF @ = {} THEN {} ELSE {"older"}]

\* flash: one timer, always replaced.
Flash(pg) == [pg EXCEPT !.notice = "saved", !.timers = {"own"}]

\* setNotice with no timer of its own: a hint about an empty field, a link
\* that could not be copied, a choice that does nothing yet.
Hint(p) ==
    /\ Event
    /\ page[p].snapshot # None
    /\ page' = [page EXCEPT ![p].notice = "hint",
                            ![p].timers = IF @ = {} THEN {} ELSE {"older"}]
    /\ UNCHANGED <<host, jar, calls, mine, mixed, troubles>>

\* A timer goes off and takes the notice that is there.
TimerFires(p) ==
    /\ \E t \in page[p].timers :
         page' = [page EXCEPT ![p].notice = "none", ![p].timers = @ \ {t}]
    /\ UNCHANGED <<host, jar, calls, mine, mixed, bounds>>

\* dismissNotice.
DismissNotice(p) ==
    /\ page[p].notice # "none"
    /\ page' = [page EXCEPT ![p].notice = "none", ![p].timers = {}]
    /\ UNCHANGED <<host, jar, calls, mine, mixed, bounds>>

\* The error has a button only beside a snapshot: without one it is the page.
DismissError(p) ==
    /\ page[p].error /\ page[p].snapshot # None
    /\ page' = [page EXCEPT ![p].error = FALSE]
    /\ UNCHANGED <<host, jar, calls, mine, mixed, bounds>>

\* A call ends in its catch and its finally.
Failed(c) ==
    /\ calls' = [calls EXCEPT ![c] = Idle]
    /\ page' = [page EXCEPT ![c[1]].error = TRUE, ![c[1]].busy = FALSE]
    /\ mixed' = [mixed EXCEPT ![c[1]] = TRUE]

\* What a response leaves in the jar.
Jar(c) == IF calls[c].set = "keep" THEN jar[c[1]] ELSE calls[c].set

\* Mutant: the page shows the snapshot that came with the answer.
Answered_TrustsAnswer(c) ==
    /\ calls[c].pc = "answer"
    /\ jar' = [jar EXCEPT ![c[1]] = Jar(c)]
    /\ IF calls[c].ok \/ calls[c].kind = "device"
       THEN /\ calls' = [calls EXCEPT ![c] = Idle]
            /\ page' = [page EXCEPT ![c[1]] =
                 Flash([@ EXCEPT !.snapshot = View(c[1], calls[c].cookie),
                                 !.busy = FALSE, !.error = FALSE])]
            /\ UNCHANGED mixed
       ELSE Failed(c)
    /\ UNCHANGED <<host, mine, bounds>>

\* Mutant: nobody looks at the status of the answer.
Answered_AnyStatus(c) ==
    /\ calls[c].pc = "answer"
    /\ jar' = [jar EXCEPT ![c[1]] = Jar(c)]
    /\ calls' = [calls EXCEPT ![c] =
         [pc |-> "get", kind |-> @.kind, cookie |-> Jar(c), done |-> @.done]]
    /\ UNCHANGED <<host, page, mixed, mine, bounds>>

\* The answer to a POST: its cookie is stored, and the snapshot is read again
\* with it, unless the host refused the change.  The device buttons read it
\* again whatever the answer was.
Answered(c) ==
    /\ calls[c].pc = "answer"
    /\ jar' = [jar EXCEPT ![c[1]] = Jar(c)]
    /\ IF calls[c].ok \/ calls[c].kind = "device"
       THEN /\ calls' = [calls EXCEPT ![c] =
                 [pc |-> "get", kind |-> @.kind, cookie |-> Jar(c), done |-> @.done]]
            /\ UNCHANGED <<page, mixed>>
       ELSE Failed(c)
    /\ UNCHANGED <<host, mine, bounds>>

\* What the page shows of a call that read the settings.
Reread(pg, call) ==
    LET read == [pg EXCEPT !.snapshot = call.view]
    IN  CASE call.kind = "load"   -> [read EXCEPT !.error = FALSE]
          [] call.kind = "device" -> Flash([read EXCEPT !.busy = FALSE])
          [] OTHER -> Flash([read EXCEPT !.busy = FALSE, !.error = FALSE])

\* The snapshot that a call read again, or a page read first, is shown.
Shown(c) ==
    /\ calls[c].pc = "view"
    /\ IF calls[c].ok
       THEN /\ calls' = [calls EXCEPT ![c] = Idle]
            /\ page' = [page EXCEPT ![c[1]] = Reread(@, calls[c])]
            /\ UNCHANGED mixed
       ELSE Failed(c)
    /\ UNCHANGED <<host, jar, mine, bounds>>

\* The person loads the page anew after an error; a browser the gate no
\* longer knows logs in first.
Reload(p) ==
    /\ page[p].error
    /\ ~UnderWay(p)
    /\ calls' = [calls EXCEPT ![<<p, 1>>] = [Loading EXCEPT !.cookie = jar[p]]]
    /\ page' = [page EXCEPT ![p] = Blank]
    /\ visitor' = [visitor EXCEPT ![p] = @ \/ access # 0]
    /\ mixed' = [mixed EXCEPT ![p] = FALSE]
    /\ UNCHANGED <<switches, secrets, sessions, rev, jar, mine, bounds>>

----------------------------------------------------------------------------
(* The routes *)

\* A response on its way, with the cookie it sets.
Respond(c, ok, set, done) ==
    calls' = [calls EXCEPT ![c] =
      [pc |-> "answer", kind |-> @.kind, cookie |-> @.cookie, ok |-> ok,
       set |-> set, done |-> done]]

Refuse(c) == Respond(c, FALSE, "keep", FALSE)

\* ensureSecretToken: the first request of someone who may manage makes the
\* link.  A link that was not saved is one all the same, in memory.
EnsureLink(manages, saved) ==
    /\ link' = (link \/ manages)
    /\ IF saved THEN UNCHANGED troubles ELSE ~link /\ manages /\ Trouble

\* The change is made, and the answer is on its way; it is an error without a
\* cookie when the link has to be made and cannot be saved.
Finish(c, set) ==
    \E saved \in BOOLEAN, k \in {calls[c].cookie} :
        /\ EnsureLink(MayManage(c[1], k)', saved)
        /\ Respond(c, saved, IF saved THEN set ELSE "keep", TRUE)

\* The checks before the body is read; the device route asks for the unlock
\* here, the other one with the part of the body that needs it.
Arrive(c) ==
    LET p == c[1]  k == calls[c].cookie IN
    /\ calls[c].pc = "post"
    /\ IF \/ ~Admitted(p)
          \/ AdminState(p, k) = "readonly"
          \/ calls[c].kind = "device" /\ NeedsAdmin(p, k)
       THEN Refuse(c)
       ELSE calls' = [calls EXCEPT ![c].pc = "body"]
    /\ UNCHANGED <<host, jar, page, mine, mixed, bounds>>

\* Which parts of a body the caller may ask for.  Unlocking never needs an
\* unlocked console, nor does a first password.
Allowed(c) ==
    LET p == c[1]  k == calls[c].cookie IN
    CASE calls[c].kind \in {"unlock", "lock", "device"} -> TRUE
      [] calls[c].kind = "setPassword"      -> access = 0 \/ MayManage(p, k)
      [] calls[c].kind = "setAdminPassword" -> admin = 0 \/ MayManage(p, k)
      [] OTHER -> ~NeedsAdmin(p, k)

\* The body is read and its part begun: a password is hashed or compared with
\* the one of this moment, the settings service asked, a document saved.
Begin(c) ==
    /\ calls[c].pc = "body"
    /\ UNCHANGED <<switches, access, admin, rev, visitor, jar, page, mine, mixed, events>>
    /\ IF ~Allowed(c) THEN Refuse(c) /\ UNCHANGED <<sessions, link, troubles>>
       ELSE IF calls[c].kind = "lock"
       THEN /\ sessions' = sessions \ {calls[c].cookie}
            /\ Finish(c, None)
       ELSE /\ calls' = [calls EXCEPT ![c] =
                 [pc |-> "work", kind |-> @.kind, value |-> @.value,
                  cookie |-> @.cookie, done |-> FALSE,
                  good |-> @.kind = "unlock" /\ HasSecret /\ @.value = Secret,
                  first |-> access = 0]]
            /\ UNCHANGED <<sessions, link, troubles>>

InUse == {jar[p] : p \in Pages}
           \cup {calls[c].cookie : c \in {d \in DOMAIN calls : calls[d] # Idle}}
           \cup {calls[c].set : c \in {d \in DOMAIN calls : calls[d].pc = "answer"}}

\* revokeAllSessions: the sessions of visitors and of the console.
Revoke == sessions' = {} /\ visitor' = [p \in Pages |-> FALSE]

Changed(c) == rev' = rev + 1 /\ mine' = [mine EXCEPT ![c[1]] = rev + 1]

\* unlockAdmin answers with a session for the password it compared.
Unlocked(c) ==
    /\ calls[c].pc = "work" /\ calls[c].kind = "unlock"
    /\ UNCHANGED <<switches, access, admin, rev, visitor, jar, page, mine, mixed, events>>
    /\ IF calls[c].good
       THEN \E k \in Cookies \ InUse :
              /\ sessions' = (sessions \cap InUse) \cup {k}
              /\ Finish(c, k)
       ELSE Refuse(c) /\ UNCHANGED <<sessions, link, troubles>>

\* The settings service has saved the switches; a new mode revokes.
Preferred(c) ==
    /\ calls[c].pc = "work"
    /\ calls[c].kind \in {"policy", "protection", "mode", "switch"}
    /\ policy' = IF calls[c].kind = "policy" THEN calls[c].value ELSE policy
    /\ protection' = IF calls[c].kind = "protection" THEN ~protection ELSE protection
    /\ IF calls[c].kind = "mode" THEN Revoke ELSE UNCHANGED <<sessions, visitor>>
    /\ Changed(c)
    /\ \/ Finish(c, "keep")
       \/ /\ calls[c].kind = "mode"
          /\ Trouble
          /\ Respond(c, FALSE, "keep", TRUE)
          /\ UNCHANGED link
    /\ UNCHANGED <<access, admin, jar, page, mixed, events>>

\* A password is hashed, filed and every session revoked; the one who set the
\* first password goes on to unlock with it.
PasswordSet(c) ==
    /\ calls[c].pc = "work" /\ calls[c].kind = "setPassword"
    /\ access' = access + 1
    /\ Revoke
    /\ Changed(c)
    /\ UNCHANGED <<switches, admin, jar, page, mixed, events>>
    /\ \/ /\ calls[c].first
          /\ calls' = [calls EXCEPT ![c] =
                 [pc |-> "work", kind |-> "unlock", value |-> None,
                  cookie |-> @.cookie, done |-> TRUE,
                  good |-> admin = 0, first |-> TRUE]]
          /\ UNCHANGED <<link, troubles>>
       \/ ~calls[c].first /\ Finish(c, "keep")
       \/ Trouble /\ Respond(c, FALSE, "keep", TRUE) /\ UNCHANGED link

\* The other changes: a password for the console, a new link, a device.
Saved(c) ==
    /\ calls[c].pc = "work"
    /\ calls[c].kind \in {"setAdminPassword", "rotate", "device"}
    /\ admin' = IF calls[c].kind = "setAdminPassword" THEN admin + 1 ELSE admin
    /\ Changed(c)
    /\ UNCHANGED <<switches, access, sessions, visitor, jar, page, mixed, events>>
    /\ IF calls[c].kind = "setAdminPassword" THEN Finish(c, "keep")
       ELSE /\ Respond(c, TRUE, "keep", TRUE)
            /\ link' = (link \/ calls[c].kind = "rotate")
            /\ UNCHANGED troubles

\* A hash, the settings service or a save throws, or the device is unknown:
\* nothing was changed.
Throws(c) ==
    /\ Trouble
    /\ calls[c].pc = "work" /\ calls[c].kind # "unlock"
    /\ Refuse(c)
    /\ UNCHANGED <<host, jar, page, mine, mixed, events>>

\* The GET: the token link is made for those who may manage, and the snapshot
\* read for the cookie of this request.
Serve(c) ==
    LET p == c[1]  k == calls[c].cookie IN
    /\ calls[c].pc = "get"
    /\ \E saved \in BOOLEAN :
         /\ EnsureLink(Admitted(p) /\ MayManage(p, k), saved)
         /\ calls' = [calls EXCEPT ![c] =
              [pc |-> "view", kind |-> @.kind, cookie |-> k, done |-> @.done,
               ok |-> Admitted(p) /\ saved, view |-> View(p, k)]]
    /\ UNCHANGED <<switches, access, admin, sessions, rev, visitor, jar, page,
                   mine, mixed, events>>

\* A request or a response is lost: the page's fetch rejects.
Lose(c) ==
    /\ Trouble
    /\ calls[c].pc \in {"post", "answer", "get", "view"}
    /\ Failed(c)
    /\ UNCHANGED <<host, jar, mine, events>>

\* An admin session passes its age.
Expire ==
    /\ Event
    /\ \E k \in sessions : sessions' = sessions \ {k}
    /\ rev' = rev + 1
    /\ UNCHANGED <<switches, secrets, visitor, jar, page, calls, mine, mixed, troubles>>

\* The operator changes something in another browser, allowed and answered.
Elsewhere ==
    /\ Event
    /\ rev' = rev + 1
    /\ \/ policy' \in Policies \ {policy}
          /\ UNCHANGED <<protection, secrets, sessions, visitor>>
       \/ protection' = ~protection
          /\ UNCHANGED <<policy, secrets, sessions, visitor>>
       \/ Revoke /\ access' = access + 1 /\ UNCHANGED <<switches, admin, link>>
       \/ admin' = admin + 1 /\ UNCHANGED <<switches, access, link, sessions, visitor>>
    /\ UNCHANGED <<jar, page, calls, mine, mixed, troubles>>

----------------------------------------------------------------------------

Person(p) ==
    \/ Unlock(p) \/ Mistype(p) \/ Change(p) \/ Hint(p)
    \/ DismissNotice(p) \/ DismissError(p) \/ Reload(p)

HostStep(c) ==
    \/ Arrive(c) \/ Begin(c) \/ Unlocked(c) \/ Preferred(c)
    \/ PasswordSet(c) \/ Saved(c) \/ Serve(c)

Progress(c) == HostStep(c) \/ Answered(c) \/ Shown(c)

Next ==
    \/ \E p \in Pages : Person(p) \/ TimerFires(p)
    \/ \E c \in Calls : Progress(c) \/ Throws(c) \/ Lose(c)
    \/ Expire \/ Elsewhere

Spec == Init /\ [][Next]_vars

\* Calls in motion end, and a person who wants to manage keeps typing the
\* right password, and loads a page anew that shows nothing but an error.
FairSpec ==
    /\ Spec
    /\ \A c \in Calls : WF_vars(Progress(c))
    /\ \A p \in Pages : WF_vars(Unlock(p)) /\ WF_vars(Reload(p))

----------------------------------------------------------------------------

\* A page whose last call went through and overlapped no other shows the
\* console as the host has it for this browser: it misses no change of its
\* own, and if nobody changed anything since, nothing of it, its lock and its
\* unlock included, is out of date.  (The re-read of client.ts:629.)
ViewIsCurrent ==
    \A p \in Pages :
      ~mixed[p] /\ ~UnderWay(p) /\ page[p].snapshot # None =>
        /\ page[p].snapshot.rev >= mine[p]
        /\ page[p].snapshot.rev = rev => page[p].snapshot = View(p, jar[p])

\* "Saved" is shown for a change the host made: a refusal, a failure half-way
\* or a lost answer never ends in the confirmation.  (The device buttons,
\* which do not look at the answer, are left out.)
SavedMeansDone ==
    [][\A c \in DOMAIN calls :
         (calls[c].pc \in {"answer", "view"} /\ calls'[c] = Idle
            /\ calls[c].kind \notin {"load", "device"}
            /\ page'[c[1]].notice = "saved" /\ page'[c[1]].error = FALSE)
           => calls[c].done]_vars

\* A confirmation leaves when its own time is over or when it is dismissed,
\* never by the timer of a notice before it.  (client.ts:584.)
ConfirmationsLast ==
    [][\A p \in Pages :
         (page[p].notice = "saved" /\ page'[p].notice = "none")
           => "own" \notin page'[p].timers]_vars

\* Whatever the policy, the passwords and the failures: a person who knows the
\* password gets past the lock card, on a page that shows the settings, unless
\* the console has become one that only the machine's own operator manages.
LockedConsoleOpens ==
    \A p \in Pages :
      Locked(p) ~> /\ page[p].snapshot # None
                   /\ ~Locked(p) \/ AdminState(p, jar[p]) = "readonly"

============================================================================
