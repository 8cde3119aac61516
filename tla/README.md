# dsh-lan-guard in TLA+

dsh-lan-guard puts a guarded proxy on the local network in front of DSH, a web
application that listens on loopback only.  A visitor's request passes the
*gate* (password, passwordless link, paired device), is forwarded with a
*loopback session* that the proxy holds with DSH, and comes back through the
proxy; WebSocket upgrades take the same way.  An operator manages credentials,
devices and switches through routes mounted on DSH's own server.  Everything
runs in one Node process: JavaScript runs one callback at a time, and every
`await` is a place where another request may run in between.  That, failing
file operations and restarts of either process are what the modules here are
about.

All paths below are relative to the repository's root.

## 1. Inventory

| Component (source) | State | Operations | Talks to |
|---|---|---|---|
| Document store (`src/store/secrets.ts`) | three JSON files; per file a chain of promises | `saveX` / `loadX` through `writeJson` / `readJson` | file system; called by the two keepers below |
| Credentials and sessions (`src/auth/manager.ts`) | `#secrets`, `#sessions`, `#adminSessions`, `#failures`, a timer | `login`, `issueSession`, `verifyRequest`, `unlockAdmin`, `lockAdmin`, `setPassword`, `setAdminPassword`, `ensure/rotateSecretToken`, `revokeAllSessions`, `#sweep` | store; called by gate and routes |
| Paired devices (`src/store/devices.ts`) | `#devices` | `add`, `touch`, `setStatus`, `revoke`, `remove`, `lookup`, `verify` | store; called by gate and routes |
| Visitor gate (`src/auth/gate.ts`) | none of its own; live switches | `handleHttp`, `verifyUpgrade` and the login, pairing and link flows | credentials, devices |
| Management routes (`src/settings/routes.ts`) | none | `handleConfig`, `handleDevices`, `handleWorkspaces`; authority by policy, place and unlock | credentials, devices, host settings, directory listing |
| Settings page (`src/client.ts`) | per browser: snapshot, error, busy, notice and its timer | `refresh`, `write`, `deviceAction`, lock card, notices | the routes, over a network that loses calls |
| Workspace picker (`src/client/workspace-flow.ts`, `src/client/picker-logic.ts`, `src/workspace/browse.ts`) | the open flow, its sheet, listing, unlock card; a budget per window | load, pick, cancel, unlock in place, list a directory behind a fence | browse route, file system, the page that asked |
| Turn rail (touch layer of `src/settings/index-tap.ts`) | gesture, hold timer, preview card, watch, settle timer, auto-scroll frame, click swallower | pointer events, preview, jump, step | the official component's nodes and tooltip |
| Upstream session (`src/upstream-auth.ts`) | `#session`, `#inflight` | `cookieHeader`, `invalidate`, `#exchange` | DSH |
| HTTP forwarding (`src/proxy.ts`) | per request | `forwardHttp` with one retry | gate, upstream session, DSH |
| WebSocket relay (`src/proxy.ts`, `src/websocket.ts`) | `wsActive`, `wsUpgrades`, `wsRefused`, `recent` | upgrade handler, `forwardUpgrade`, `report`, `close` | gate, upstream session, DSH |
| Lifecycle (`src/index.ts`, port walk of `src/proxy.ts`) | stage of the start, the bound port | start, stop, restart on a changed switch | all |
| TLS material (`src/tls`) | key and certificate files of the authority and the leaf | `ensureCa`, `ensureLeaf` | file system; used by the start |
| Preferences and configuration (`src/config.ts`, `src/store/preferences.ts`) | the configuration on disk, live switches | parse at a start, check and apply a page's patch | start, routes |
| Heartbeat answering (`src/ws-heartbeat.ts`) | frame parser | `observe` | a tunnel |
| Socket watchdog (`src/settings/index-tap.ts`) | script state in the page | probe, reload with cooldown | browser |
| Headers, discovery, update check, markup, QR, log | values | pure functions, plain I/O | |

### Where it is hard

* **Awaits between a read and its use.**  `login` reads the password hash,
  awaits the comparison, and mints; `setAdminPassword` copies the secrets and
  awaits the hash; the gate takes its verdict on a device and awaits a save.
* **Overlapping saves** of one file from dozens of parallel requests.
* **Failures between two steps**: a password change saves two documents; a
  pairing saves before it hands the token out.
* **Restarts** of the plugin (memory becomes what was stored) and of DSH (the
  launch token and every cookie change).
* **Shared work**: many requests share one token exchange, and a late 401 can
  invalidate a session that is newer than the cookie it is about.
* **Events in any order** on the two sockets of an upgrade, and of fingers,
  frames, timers and late commits on the rail.
* **Answers out of order**: directory listings of older clicks or of picks that
  were cancelled; the two halves of a change of the settings page, overlapping
  with other calls and other browsers.
* **Files that belong together**: key and certificate, authority and leaf, are
  written in place one after the other, and a start can die anywhere.
* **Ways that need each other**: unlocking needs a password, the first password
  needs a page that is not locked.

### What makes each component correct

* store: a reader finds a whole document; saves are serial; every save is
  answered, an accepted one has taken effect;
* credentials: revoked cookies stay revoked, nobody else's session is lost,
  the budget of failed attempts is kept, lockouts last, changes of one secret
  leave the others alone and reach the disk;
* devices and gate: the operator's decision stands, all ways in agree, a
  browser that is not kept out can get back in;
* upstream session and forwarding: one exchange, no request carried out twice,
  a restart of DSH noticed, every request answered, reloading heals;
* relay: every upgrade is counted once, the two ends of a tunnel go together;
* settings page: what a page shows after a change is what the host holds,
  "saved" is true, a locked console opens to who knows the password;
* picker: no dead end, no late answer on a closed flow, no path behind the
  fence, and an unlock in place leads on;
* rail: the card tells its own turn, holding never navigates, hiding the card
  ends what runs for it, but for the frame of a step;
* start: the authority a phone trusts survives crashes, the port walk skips only
  what is taken, and the listener comes back.

## 2. The modules

| Module | Models | Run by |
|---|---|---|
| `AtomicStore` | what the store promises of one document | refined by `JsonStore` |
| `JsonStore` | `writeJson` | itself |
| `SessionLedger` | what the manager promises of the cookies it gives out | refined by `AuthManager` |
| `AuthManager` | `AuthManager` and the route sequences that change credentials | `MCAuthManager` |
| `VisitorGate` | `VisitorGate`, `DeviceRegistry`, the device route, a browser and its person | itself |
| `UpstreamProxy` | `UpstreamAuth` and `forwardHttp` | itself |
| `UpgradeRelay` | the upgrade handler, `forwardUpgrade`, the counters | `MCUpgradeRelay` |
| `ManagementConsole` | `SettingsSection` in several browsers, `handleConfig`, `handleDevices` | itself |
| `DirectoryBrowser` | `listDirectories`, `resolveBrowsablePath` as operators over a tree with links | extended by `WorkspacePicker` |
| `WorkspacePicker` | the flow, its sheet, `handleWorkspaces` and its budget | `MCWorkspacePicker` |
| `TurnRail` | the touch layer of the rail and the official component's commits | `MCTurnRail` |
| `Lifecycle` | `startLanGuard`, `ensureCa`, `ensureLeaf`, the port walk, the page's patch | itself |
| `*Proofs` | theorems about the module they are named after; `PageScriptProofs` about `TurnRail` and `WorkspacePicker` | |

The MC modules add symmetry sets, and for the picker and the rail the trees and
the summaries of an instance.

How they compose.  `AuthManager` and `VisitorGate` do not repeat the writing of
files: a save there takes effect at one moment between its call and its answer
and may be rejected with or without effect.  That is `AtomicStore`, and
`StoreImplementsAtomic` shows that `writeJson` keeps it.  `VisitorGate` knows of
sessions only whether a browser holds an accepted one; how sessions come and go
is `AuthManager`.  `UpstreamProxy` and `UpgradeRelay` start where the gate has
let a request through.  `ManagementConsole` keeps of the credentials only
whether a password is set, how often it changed and which cookies are unlocked,
because that is what its locks are made of; everything else a snapshot shows is
one counter, `rev`.  `WorkspacePicker` extends `DirectoryBrowser` and asks it
anew for each listing, on the tree as it is at that moment.  `Lifecycle` ends
where the listener is up, which is where the others begin, and takes from the
page only the fields of the configuration that a start looks at.

**Atomicity.**  One action is the code between two awaits.  A method that is
suspended is a record in `calls` that holds exactly its local variables:
`calls[c].spread` is the copy of the secrets that `setPassword` made before it
awaited the hash, `calls[c].body` is the document a save was called with.

**State and code.**

* `AuthManager`: `secrets`, `sessions`, `adminSessions`, `failures` are the
  fields of those names; `disk` is what the two files hold; `now` is the
  injected clock.  `LoginBegin` is `login` up to its await, `LoginOk` /
  `LoginFail` what follows; `SetPasswordBegin`, `SetPasswordHashed`, `SaveDone`
  are the three turns of a password change, ending with `RevokeAll` and, for
  the first password, the unlocking of the console.  `Restart` is a new process
  that runs `init` on what is on disk, where a save it was suspended in may or
  may not have replaced its document (`LeftBehind`); `Damage` leaves secrets that
  do not parse or that carry another version, which `init` refuses, or a session
  list that loads as empty.  `drawn`, `used`, `revoked` and the field `basis` of a
  session are history.  `Ledger` maps the manager to `SessionLedger`: what is
  accepted are the values in the two session lists, what a restart may bring
  back (`StoredTokens`) those on disk and in the document of a save under way.
* `VisitorGate`: `records` is `#devices`, `stored` the file.  `HttpVerdict`,
  `InertLinkVerdict` and `UpgradeVerdict` are the gate's three decisions as
  functions of the state; `Navigate`, `Touching`, `Login`, `Link`, `Pair` are
  the requests.  A change of the mode is two steps, `Switch` (the switches are
  saved and take effect) and `Revoke` (the sessions end), with anything between
  them; `SessionSaveFail` answers a login or a link with an error.  `page` and `jar` are the browser's side.  `ledger` is history.
* `UpstreamProxy`: `session` is `#session`, `inflight` is `#inflight`,
  `requests` holds the locals of `forwardHttp`.  `launch` and `epoch` are DSH's:
  the launch token on offer and the generation of cookies it accepts.  A request
  finds no token on offer when it arrives (`ForwardWithoutToken`) or when it is
  sent again (`RetryWithoutToken`).
* `UpgradeRelay`: the counters and the ring by their own names; `pc`, `visitor`
  and `upstream` are the handler's position and its two sockets.  `log` is
  history.
* `ManagementConsole`: `page[p]` holds the React state of a browser, `jar` its
  admin cookie.  A call is a record in `calls` that moves through `post`
  (`Arrive`: the checks before the body), `body` (`Begin`: the checks of the
  part), `work` (the await of a hash, of the settings service or of a save),
  `answer`, `get` (`Serve`: the snapshot computed for the cookie of this
  request) and `view`.  `View` is `snapshotOf`.  `link` says whether the link's
  token exists: the first request of someone who may manage makes and saves it
  (`EnsureLink`), and a failing save turns its answer into an error, without the
  cookie of an unlock (`Finish`).  `mine` and `mixed` are history.
* `DirectoryBrowser`: a tree is a function from paths to directories, files,
  links and directories that cannot be read.  `Realpath` is the operating
  system's, a walk of single steps (`WalkStep`) that gives up after `LinkLimit`
  links; `Fenced` is the two lists of the fence, `Resolve` screens before and
  after the walk, `ReadLevel` makes the rows, of the directory a link leads to
  where one has taken the place of what was resolved (`Entry`).  `LeadsTo` is a second reader, for
  the property only: it replaces the first link of a path by its target until no
  link is left.
* `WorkspacePicker`: `open`, `native`, `listing`, `notice`, `loading`, `busy` are
  the flow's fields; `wire` holds the requests under way and how far each is
  (`sent`, `reading` after the path was resolved, `answered`), `dialogs` the
  native dialogs not answered.  `used` is the bucket all proxied visitors share:
  `OthersBrowse` spends it as well.
* `TurnRail`: `mode`, `pointer`, `hold`, `scroll` are the gesture's closure
  variables, `shown`, `mark`, `text`, `baseline`, `watch`, `settle`, `frame` the
  card's (`frame` holds the directions of the steps whose animation frame is
  still to come); `tip`, `hovered` and the mounted window belong to the official
  component, which commits late (`Commit`).  `visited`, `down` and `strayed` are
  history.
* `Lifecycle`: `phase` is the await at which the start is suspended.  A file is
  absent, `Torn` (emptied, not yet filled) or whole, so that each write is two
  steps and the process can die between them.  `trusted` is the first authority
  a visitor saw.
* `JsonStore`: `stage[w]` is the await at which a `writeJson` is suspended; the
  chain of promises is a pair of counters, `joined` and `settled`, and a number
  per save.

## 3. What is checked

Passing runs (half a minute each at most; `AuthTraffic`, `ConsolePages`, `Starts`,
`RailTouch` and `WorkspacePick` take one to two minutes):

| Run | Instance | Shows |
|---|---|---|
| `AuthTraffic` | 2 calls, 1 address, 2 passwords, 2 cookie values, clock 0..2, limit 2, three kinds of fault | `LedgerSpec`, `FailureBudget`, `RevokedStayRevoked`, `SessionsKept`, `QuietLockoutHolds` |
| `AuthSerial` | 1 call, all nine requests, 2 passwords, 2 cookie values, 1 link, limit 1, no fault | `SecretsDurable`, `OldSessionsAreGone`, `OtherSecretsKept`, `ExpiredReclaimed` |
| `StoreSaves` | 3 callers, 2 values, 3 saves, every failure and crashes | `NewerStays`, `AtomicSpec`, `EverySaveAnswered` |
| `GateTraffic` | 1 browser, 1 background request, the operator, 3 identities, 3 modes, 2 events of any kind | `DecisionsStand`, `EntryPointsAgree`, `NobodyStranded`, `Recoverable` |
| `ProxyRequests` | 2 reloading requests and 1 post, 2 faults of seven kinds | `OneExchange`, `NoSecondEffect`, `RestartNoticed`, `NobodyStuck`, `RequestsAnswered`, `SessionHeals` |
| `RelayBooks` | 3 upgrades, ring of 2 | `EachUpgradeCountedOnce`, `RecentIsNewestFirst`, `ActiveCountsTunnels` |
| `ConsolePages` | 1 phone with two calls at a time, all ten changes, two policies, 1 event, 1 trouble | `ViewIsCurrent`, `SavedMeansDone`, `ConfirmationsLast`, `LockedConsoleOpens` |
| `WorkspacePick` | 2 flows, 2 requests under way, 4 trees, two policies, 1 listing per window, 1 event | `NeverStuck`, `FenceHolds`, `RowsLead`, `UnlockLeadsIn` |
| `RailTouch` | 3 turns of which 2 are mounted, 2 fingers, 2 gestures | `CardTellsTheTurn`, `HeldNeverNavigates`, `HiddenStaysHidden` |
| `Starts` | 4 ports of which DSH has one, 2 addresses, 3 events | `PhonesKeepTrust`, `WalkSkipsOnlyTaken`, `FailsForReason`, `ComesBack` |

Runs that find a disagreement (each checks one sentence of the repository):

| Run | Sentence | What happens |
|---|---|---|
| `AuthOldSessions` | `src/settings/routes.ts:470` | a login with the old password is being compared while the password changes; its session appears after the revocation |
| `PageBoot` | `src/settings/routes.ts:432` | the page accepts DSH's own port, and an address on the network without TLS; the next start is refused by `parseConfig` |

`AuthSerial` checks the refuted sentence about sessions, and the one about lost
updates (section 6), with one request at a time: they hold there, so what
refutes them is the overlap and nothing else.  `QuietLockoutHolds` and
`ActiveCountsTunnels` are what is left of two others: lockouts are stable once
no comparison is under way, and the counter is exact for tunnels whose visitor
was there when the 101 came.  `HiddenStaysHidden` says what hiding the card does
end (its poll, its settle timer, the edge scrolling) and that two things alone
bring it back: a finger on the mark it holds, and the animation frame of a step,
which `hide` leaves running (`src/settings/index-tap.ts:631`).  `NobodyStranded`
asks of every suspended call, the operator's too, that it can go on, and of every
page that it offers a way.

**Bounds.**  Two calls are enough for every overlap of two turns.  Cookie
values, identities and links are drawn once and never again; a request starts
only while one is left (`Room`), so no run is cut off inside a request.
`MaxEvents` and `MaxFaults` of two allow a fault within the handling of another;
the actions that a fault is not are unbounded.  In `GateTraffic` the identities
are one more than the events, so that nobody is kept out for want of an identity.
The clock of `AuthTraffic` lets a session of age 2 and a lockout of length 1
expire during a run.  `AuthSerial` has the two cookies that a sweep needs to
find one expired while it saves the loss of another; with its one link a
rotation never replaces another, which the theorems `AnsweredSecretsSurvive` and
`AdminChangeKeepsOthers` cover, for any `Links`.  The ring limit 2 stands for 12: the code looks only at
whether it is reached.  In `ConsolePages` the calls of a page have two slots,
because two controls stay enabled while a call is under way; three cookies are
the one in the jar, the one an overlapping unlock is bringing and the one to be
minted (an unlock that overlaps a third, older cookie waits until that is out
of use); one event is another operator's change, an expiry, a mistyped password or a
change of the person, in the midst of unlocks and reloads, which are unbounded.
Another browser is there as `Elsewhere`; the theorems hold for any number of
pages with calls of their own.  In `WorkspacePick` two flows and two requests
let an answer of the first flow arrive in the second; the four trees turn the
link into each thing a link can be, itself included, and a folder into a file, a
sealed one and a link to its own parent; `MaxTarget`, the most segments of a
target, is the longest of theirs, and `LinkLimit` of two lets a row of that last
tree be reached through two links.  One listing per window is enough to find the
budget spent, by this page or by another visitor.  In `RailTouch` the first and the third turn
have the same summary, which is what the check for a stale tooltip compares,
and a mounted window of two lets the marks under a finger change.  In `Starts`
three events are a crash, a move and a restart; the walk of three tries over four
ports passes DSH's own port, runs out, and reaches the last port.
Deadlock checking is off only where a run uses up its cookie values, links,
upgrades, gestures or events.

**Fairness.**  Every file operation, hash and exchange ends, well or badly
(the exchange has a timeout of its own, the others are the platform's): weak
fairness of `Progress`, `Resume` and `ExchangeStep`.  `setInterval` keeps
firing: weak fairness of `Sweep`.  DSH answers what it is sent: weak fairness
of `RequestStep`.  The picker's requests arrive, are served and delivered: weak
fairness of each request's steps and of the unlock's.  A start that began goes
on, and whoever runs DSH starts it again: weak fairness of `Starting`.
`Recoverable`, `SessionHeals` and `LockedConsoleOpens` also need a person, who
follows the page that is shown, reloads, or keeps typing the right password and
loads the page anew after an error (`FollowPage`, `Forward` of a safe request,
`Unlock` and `Reload`); without one nothing is promised.  Nothing is assumed of
the operator, of DSH's restarts, of failures, of posts, of the picker's owner or
of the fingers on the rail.

## 4. What is proved

TLAPS checks these for every value of the constants: any number of callers,
addresses, browsers, requests, any limits, any choice of faults.

| Module | Theorem | Statement |
|---|---|---|
| `JsonStoreProofs` | `TypesHold`, `ReadersFindWholeDocuments`, `WritesAreSerial` | `TypeOK`, `DocumentWhole`, `OneWriter` |
| | `DocumentMovesForward` | `NewerStays` |
| | `StoreImplementsAtomic` | `AtomicSpec`: the refinement |
| `AuthManagerProofs` | `TypesHold`, `FailuresStayInBudget`, `RevocationIsFinal` | `TypeOK`, `FailureBudget`, `RevokedStayRevoked` |
| | `VisitorsKeepSessions`, `QuietLockoutsHold` | `SessionsKept`, `QuietLockoutHolds` |
| | `ImplementsLedger` | `LedgerSpec`: the refinement |
| | `CookieKindsApart` | `Ledger!KindsApart`, `Ledger!Given` |
| | `AdminChangeKeepsOthers` | `OtherSecretsKept`, while `CopiesApart` |
| | `AnsweredSecretsSurvive` | `SecretsDurable`, while `ChangesApart`, no failing write, no damaged document |
| | `OldSessionsGo` | `OldSessionsAreGone`, while `CopiesApart` and `LoginsApart`, no failing write, no restart |
| `VisitorGateProofs` | `TypesHold`, `DecisionsAreKept`, `WaysInAgree` | `TypeOK`, `DecisionsStand`, `EntryPointsAgree` |
| | `IdentitiesApart` | an identity is one browser's, and was given out |
| | `FollowingLeadsIn` | `Recoverable`, from `NobodyStranded`, once events cease |
| `UpstreamProxyProofs` | `TypesHold`, `ExchangeIsShared`, `EffectsHappenOnce`, `RestartsAreNoticed` | `TypeOK`, `OneExchange`, `NoSecondEffect`, `RestartNoticed` |
| | `EveryRequestAnswered` | `RequestsAnswered`, from `NobodyStuck` |
| | `HealsOnceQuiet` | `SessionHeals`, from `NobodyStuck`, once faults cease |
| `UpgradeRelayProofs` | `TypesHold`, `BooksBalance` | `TypeOK`, `EachUpgradeCountedOnce` |
| | `RingIsTheTail`, `TunnelsAreCounted` | `RecentIsNewestFirst`, `ActiveCountsTunnels` |
| `ManagementConsoleProofs` | `PagesAreCurrent` | `ViewIsCurrent` |
| | `SavedIsDone`, `ConfirmationsStay` | `SavedMeansDone`, `ConfirmationsLast` |
| `LifecycleProofs` | `TrustSurvives`, `WalkIsGapless` | `PhonesKeepTrust`, `WalkSkipsOnlyTaken` |
| | `StartsFailForReason` | `FailsForReason` |
| | `PageBreaksInTwoWays` | what is left of `PageKeepsBootable` |
| `PageScriptProofs` | `SheetNeverStuck`, `FenceAlwaysHolds` | `NeverStuck`, `FenceHolds` |
| | `RowsAlwaysLead` | `RowsLead` |
| | `ScreenedIsReal` | a resolved path has no link left in it |
| | `CardIsItsTurns`, `HoldingIsSafe`, `HiddenIsQuiet` | `CardTellsTheTurn`, `HeldNeverNavigates`, `HiddenStaysHidden` |

The assumptions are the named ASSUMEs of the modules (distinct constants,
positive limits, kinds of requests and faults, and for the picker that what
exists lies below directories, `FileTree`).  Some invariants are proved and no
run repeats them: `TypeOK` of `JsonStore`, `AuthManager` and `UpstreamProxy`;
`DocumentWhole`, which `AtomicSpec` implies; `OneWriter`, whose effect on what
readers find is `NewerStays`.

*Store.*  `OneWriter` is not inductive.  `IInv` adds that saves in the chain
hold distinct numbers (`TurnsDistinct`) between `settled` and `joined`
(`TurnsAhead`), that whoever works on the files holds the number `settled`
(`WriterHasTurn`) and that the temporary file to be renamed is whole
(`BodiesWhole`).  The document then goes forward because `stored <= settled`.
For the refinement, a save is "begun" until its rename, "committed" until its
answer; `Rename` is the abstract `Commit`, and every other step is a begin, an
answer, a crash or a stutter.

*Credentials.*  That a revoked cookie stays revoked rests on where values may
be: in memory, on disk, or in the body of a save under way, and all of those
have been drawn before (`LiveDrawn`, `DiskDrawn`, `BodiesDrawn`), so a fresh
value is none of them; values come back from disk only in a restart, which
starts a new process.  `AdminApart` is needed for `LockAdmin`, which revokes one
value.  `QuietLockoutsHold` has an invariant of its own: the timer's call never
compares a password.  For `ImplementsLedger` every step of the manager is an
`Issue`, an `Unlock`, a `Drop`, a `Restart` or a stutter of the ledger, with the
step's own draw as the value given out; `CookieKindsApart` is then proved of the
ledger alone, where three sets and `given` are all there is, and holds of the
manager through the refinement.

Three properties of credentials are false of `Spec` in general, and section 6
and `AuthOldSessions` say what refutes them.  The theorems say how little has to
be excluded.  Their premises are invariants over whole behaviours, in terms of
calls only: `CopiesApart`, no change of the secrets overlaps one that waits for
its hash; `ChangesApart`, the same for the saves as well; `LoginsApart`, no login
is being compared while a new access password is hashed.  Everything else may
overlap, the timer's sweep included, in any number.  Under them a copy that waits
for its hash is what memory holds (`CopyIsCurrent`); a document under way is what
memory holds, and so is the one on disk when none is (`DiskFollows`); a
comparison that will succeed is about the present password, and a session of
another one lives only while a revocation is on its way (`PasswordsCurrent`).
A failing write is excluded where memory and disk would part (the code changes
memory first), a restart where it would cut a password change in two.

*Gate.*  `DecisionsStand` is inductive: every step changes `records` and
`ledger` alike, and what has to be looked at is each save that resumes with a
list it captured earlier; it goes to the file and never back into memory.
`IdentitiesApart` follows an identity from its drawing over the save of a pairing
into a jar: on its way it is in no jar (`OnTheWay`), and every list in memory, on
disk or on its way there names identities that were drawn (`ListsDrawn`).

`FollowingLeadsIn` ranks where a browser can stand: thirteen stages (`Stage`),
from a link being redeemed down to a visit being noted, the last before the
application.  A revocation that a change of the mode still owes comes first: it
ends, and no other follows without an event (`RevokesOnce`).  While no event happens the browser's own step takes it to a lower
stage or inside (`NavigateLeads`, `PageLeads`, `ResumeLeads`), and no step of
anybody else moves it (`OthersLeave`): a record it depends on is its own, by
`IdentityInv`, and is changed by the operator only.  A detour is among the
stages: a pairing whose record was deleted while it was saved (11) ends in a
cookie that names nothing, and leads, over the login page where the session is
gone too, to a new pairing.

*Forwarding.*  While `#inflight` is set exactly one exchange is on the wire
(`SharedExchange`) and every waiting request waits on it (`WaitersShare`).
`RetryBudget` counts what a request may still send, `EffectsToCome` says that a
request still under way has not been carried out.  `RestartsAreNoticed` adds
that no cookie is older than the launch token it is filed under (`Noticed`),
because a token is taken only while it is on offer.  `NoSecondEffect` also says
that nothing is sent more often than the code retries: one retry of a safe
request, none of another (`RetryBudget`).

`EveryRequestAnswered` takes a request through its stages: waiting for an
exchange, or for the cookie of one; with the upstream; once more with a second
cookie; answered.  `HealsOnceQuiet` goes on from there.  When faults have ceased
an exchange for an earlier token ends and no other begins (`Clean`); from then
on a cookie that waits to be used is of the present epoch, so a second 401
cannot come, and a request that was not served loads again.

*Liveness.*  `EveryRequestAnswered`, `HealsOnceQuiet` and `FollowingLeadsIn`
have premises the prover cannot discharge.  `NobodyStuck` and `NobodyStranded`
say which actions are ENABLED where; TLC checks both as invariants, and with
them the fairness of section 3 is all that is used.  That faults or events cease
(`<>[][UNCHANGED faults]_vars`) is the code's own condition: nothing is promised
to a visitor while DSH keeps restarting.  `MaxFaults` and `MaxEvents` make it
true of every behaviour of an instance, which is why the runs check the
properties without it; deriving that is an induction over a number of events
still to come.

*Relay.*  Nothing of an upgrade is in the books before its handling is over
(`LoggedAreOver`), so each entry adds an upgrade that was not in them, and
`report`'s flag is set exactly where a second event may still come (`FlagTells`).
`Books` gives the counters by cardinalities; the proof moves one upgrade from
the tunnels to the endings and cites the library's facts on finite sets.

*Settings page.*  `PagesAreCurrent` rests on `CurrentInv`: the cookies of two
browsers differ (`Distinct`: a cookie is in one jar, in that browser's calls and
in answers to it, and nowhere else), and a page that is not mixed has at most one
call under way, which reads with the cookie of the jar (`PageCurrent`).  A step of
the host for another page then either counts up `rev` or leaves this page's view
alone; that is what `CountedMoves` and `UncountedMoves` say, and `ActorStays` and
`BystanderStays` divide each step between the page it is about and the others.
The other two theorems need one fact each: a call that reads again was answered
well (`Done`), and a confirmation has no timer but its own (`Own`).

*Start.*  An authority that was shown is the one on disk (`AuthorityStands`), as
one is made only while a file of it is missing; `MaterialReady` says what the
start holds at each of its awaits.  The walk keeps that everything below the next
port was refused (`Walked`).  `StartsFailForReason` goes through the awaits that can end a start: a walk
that gives up has seen every port it may try refused (`WalkExhausted`), and a key
and a certificate that do not belong together are the two files as they were
found, never a pair the start made itself (`LeafInv`).  `PageKeepsBootable` is refuted by `PageBoot`;
`PageBreaksInTwoWays` says that the two ways it shows are all there are: a
start has checked the gate of a listener on the network, and no patch of the page
undoes that (`Guarded`).

*Rail.*  An open gesture has an open card, so what closes the card ends what ran
for it (`QuietHolds`), and `WhatReopens` goes through the steps that show a card:
only a hold that fires on the finger's own mark and a step's frame find it
hidden.  For `HoldingIsSafe` a touch that was held or dragged alone is the
captured one and its gesture is under way (`HeldIsCaptured`), whichever order
the fingers come in.  For `CardIsItsTurns` what is kept of a turn that was never
current is its own summary (`CacheTells`): a tooltip is believed only once the
component has marked the turn it belongs to.

*Picker.*  `PInv` says of every request under way that it is a path that passed
the fence, or an answer that is a listing of such a path or a reason the sheet
has a notice for (`Sound`, `WireSound`); whichever answer lands, for whichever
click or flow, the sheet then holds a listing that passed or a notice.  Every
ancestor of a path that passed passes too (`WaysUp`), and so do the crumbs.
Between the resolve and the read the tree may change: that the fence holds then
rests on the resolved path being screened as text, not on what it leads to; that
this text is the place itself, with no link left in it, is `ScreenedIsReal`.

`RowsLead` compares two readers of links, and both recurse.  They are recursive
functions on the numbers of steps, and the inductions go by the least number that
would be an exception (`LeastNumber`, from the well-foundedness of `<`, and
`UpTo`), which needs no theorem with an operator for a parameter.  `WalkIs` and
`HopsAre` show that the two definitions have a value at all and unfold by one
step.  `Follows` is the invariant of the walk: nothing before the place where it
stands is a link, and that place with the rest is what the second reader has
after as many hops; the room `Longest` leaves for steps is never used up
(`RealpathEnds`).  A walk that ends has therefore found the only place
`LeadsTo` can hold, one that fails has shown it empty (`RealpathLeads`), and the
second screen of `Resolve` asks of that place what `RowsLead` asks
(`ResolveMeets`).  What decides is the row's own path, whether or not the
directory above it has become a link since.  A listing that was not cut keeps every row, by cardinalities.

Only model-checked: `EverySaveAnswered`, `ExpiredReclaimed`,
`LockedConsoleOpens`, `UnlockLeadsIn` and `ComesBack`.  Each needs ENABLED as the
three theorems above do, and most need more that is out of reach: a save's place
in the chain and the ports a walk has left are counted down by an induction, and
the picker's listing is carried by whichever slot was free, so that the fairness
used depends on the state.  Every safety property of a passing run is a theorem,
`NobodyStuck` and `NobodyStranded` apart, which are made of ENABLED.

## 5. What is abstracted, and what is not modelled

* A hash is compared by the password it was made from.  The comparison uses
  the hash read when it started, as in the code; its outcome is fixed there.
* Cookie text, header rewriting, HTML, labels, addresses and times of device
  visits, bytes and durations.
* Loopback visitors and a switched-off gate: `verifyRequest` lets them through
  before it looks at any state.
* Admin policies and the unlock check of the routes: `AuthManager` lets any
  management request come, so what it shows does not rest on them; they are
  `ManagementConsole`'s.
* A POST of the settings page carries one part.  The route would take several,
  and apply them in its order until one is refused; no page sends such a body.
* A response body that breaks off after its head.
* The picker's labels, Windows paths and the texts of its notices; the rail's
  geometry (a scroll position and a window of marks stand for it), styles and
  durations: a timer that runs may fire at any moment.
* A certificate is its key, its signer, its addresses and whether it is old.

Not modelled, and why:

* `tls.mode` "provided", mDNS and the sweep timer within a start: the first reads
  two files it never writes, the others have nothing a start waits for.
* Heartbeat answering: a parser of frames over byte chunks; every state is data.
* Socket watchdog: its only guards are durations, which a model without time
  leaves open.
* Header rewriting, discovery, the login and pairing markup, QR codes, logging:
  pure functions or plain output.
* Update check, doctor, port check: one request and one answer that nothing else
  waits for.

## 6. Disagreements seen, without a run

Credentials, gate, store and proxy:

* `src/auth/manager.ts:11`: a failed comparison that was under way when a lockout
  engaged overwrites it (445), and a success deletes it.
* `src/auth/manager.ts:324` and `tests/gate.test.ts:191`: a login begun before
  a lockout is still answered during it, also with a session.
* `src/auth/manager.ts:250-253`: a link rotated while an admin password is hashed
  comes back; `setPassword` has the same shape, so that one of two concurrent
  changes is lost.
* `src/settings/routes.ts:461`: whether a password is set is read before the hash
  is awaited; of two first passwords set at once the later replaces the other
  without asking for it.
* `src/settings/routes.ts:469-471`: two documents are saved one after the
  other; after a crash between the two the new password is stored with the
  sessions of the old one, against the comment at 470.
* `src/store/secrets.ts:117`: `mkdir` is awaited before a save joins the chain;
  nothing orders two `mkdir` calls, so the document may end with the body of
  the save that was called first.
* `src/store/secrets.ts:122`: a write that fails or is interrupted leaves its
  temporary file, under a random name nobody removes.
* `src/store/secrets.ts:169-170` says that an unreadable document refuses to
  start; a document that is not JSON loads as an empty one (line 174).
* `src/auth/gate.ts:157` calls a failed touch harmless; the touch after a
  device's link (371) has no `catch`, and a failed write answers 500.
* `src/auth/gate.ts:158`, `README.md:274`: a device blocked while its touch is
  being saved gets that one request through.
* `src/store/devices.ts:166-167`: a blocked device that drops its cookie pairs
  again as a new device.
* `src/auth/manager.ts:198`: nobody handles the sweep's rejection; a failed
  save of the sessions ends the host process (`SaveFail` of the timer).
* `src/proxy.ts:116`, `src/websocket.ts:148`: a visitor gone before the 101 is
  counted as an open tunnel for good (`ActiveCountsTunnels` states the rest).
* `src/proxy.ts:352`: the close listener goes on after the cookie is awaited; of a
  visitor that left before, the request is sent and destroyed by nobody.
* `src/proxy.ts:344`: an upstream that breaks off within a body ends the pipe
  and not the visitor's response.

Settings page:

* `src/client.ts:643-678`: the device buttons never look at `response.ok`, so a
  refusal is followed by a confirmation (`SavedMeansDone` leaves them out).
* `src/client.ts:800`, `848`, `1444`: notices set without a timer stay, or are
  taken away by the timer of the notice before.
* A browser without a device identity that changes the mode or the password
  loses its own session: the re-read is refused, and the page shows an error for
  a change that was saved.
* `src/client.ts:833`: a page whose lock card is up while the policy becomes
  `local_only` keeps asking for a password (`LockedConsoleOpens` excepts it).
* The button that locks again and the Enter key of the lock card are not
  disabled by a call under way; what the page shows after two overlapping calls
  is the later answer, not the later state (`mixed`).
* `README.md:300` and the recovery text of the page say that deleting the
  document makes the gate refuse every device; paired devices are still let in by
  their identity.

Picker, rail and start:

* `src/client/workspace-flow.ts:263-264`: an answer checks only that *a* sheet is
  open, so a listing of a cancelled pick repaints the sheet opened after it.
* `src/settings/index-tap.ts:530` ("a pending tooltip must never show an old
  turn's text"): `previewReady` accepts a mark with `aria-current` (480), whose
  tooltip may be another's; `CardTellsTheTurn` excepts the turns the transcript
  has been at.
* A second finger, or a drag whose capture the system took away, breaks "holding
  never navigates"; a click within 500 ms of a drag is swallowed though it was a
  tap of its own; a step's frame opens a card that was closed meanwhile
  (`src/settings/index-tap.ts:631-634` after `hide`, 439-441), the exception that
  `HiddenStaysHidden` names.
* `src/settings/routes.ts:432`: see `PageBoot`.
* Port 0 always reports that a fallback port was taken; the page
  (`src/client.ts:1415`) says that ten ports are tried, the walk tries eleven.
* `src/tls/ca.ts`: an authority of which one file is torn makes every later
  start fail (`Stuck`).
* `src/tls/leaf.ts`: a crash between the leaf's key and its certificate leaves a
  new key beside the old certificate; when the addresses are again what the
  certificate says it counts as reusable, and the TLS server cannot be made with
  the two (`Stuck`).
* `src/index.ts:165`: a start that fails leaves the sweep timer of the
  credentials running, and the listener when the routes cannot be registered.
* `src/update-check.ts`: a failed check is cached with its time, which the
  document calls the time of the last success.

## 7. Plan

Done: the store, credentials, gate with devices, forwarding, relay, settings
page, picker with its directory listing, rail, start with its TLS files, and the
theorems of section 4.  What is left, in this order:

1. A body with several parts (`src/settings/routes.ts:440-500`): partial
   application and what the page says of it.
2. A refinement of the gate's device list to a ledger that the operator and the
   pairings alone write, composed with `AtomicStore`.
3. `PingAnswerer` (`src/ws-heartbeat.ts`): the frame parser as a function over
   chunks, against a reference definition on the whole stream.
4. `SocketWatchdog`: reload and its cooldown, with durations as an explicit
   clock.
