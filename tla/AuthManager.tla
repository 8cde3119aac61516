---------------------------- MODULE AuthManager ----------------------------
(***************************************************************************)
(* The credential keeper of the visitor gate (src/auth/manager.ts): the    *)
(* secrets document, the visitor and admin sessions and the per-address    *)
(* lockout, with the management route sequences that change credentials    *)
(* (src/settings/routes.ts).                                               *)
(*                                                                         *)
(* JavaScript runs one callback at a time, so everything between two       *)
(* awaits is one action.  An asynchronous method is a call of the set      *)
(* Calls; the record calls[c] holds what the method keeps in its local     *)
(* variables while it is suspended.  Passwords are compared through a hash *)
(* computed off the event loop, with the hash and salt read when it        *)
(* started: its outcome is fixed at the start (ok) and known at the end.   *)
(*                                                                         *)
(* A save is an atomic replacement of one document of disk at any moment   *)
(* between the call and its answer (AtomicStore.tla states this promise    *)
(* and JsonStore.tla shows that the store keeps it).                       *)
(***************************************************************************)
EXTENDS Integers, FiniteSets

CONSTANTS
    Calls,         \* concurrent invocations of asynchronous methods
    Timer,         \* the invocation the sweep timer owns
    Addresses,     \* client addresses
    Passwords,     \* candidate passwords, the configured ones among them
    Tokens,        \* values a session cookie can be drawn from
    Links,         \* values the passwordless-link token can be drawn from
    None,          \* null: not configured, not applicable
    Unreadable,    \* a secrets document that is not JSON
    OtherVersion,  \* a secrets document of a version init does not know
    SessionMaxAge, \* auth.sessionMaxAgeMs
    AdminMaxAge,   \* auth.adminSessionMaxAgeMs
    MaxFailed,     \* auth.maxFailedAttempts
    LockoutMs,     \* auth.lockoutMs
    MaxTime,       \* bound of the clock
    Requests,      \* the requests the environment makes
    Faults         \* the faults that may happen

RequestKinds == {"login", "link", "unlock", "lock", "setPassword",
                 "setAdminPassword", "ensureLink", "rotateLink", "revoke"}
FaultKinds == {"save", "restart", "damage"}

ASSUME LimitsAssumption ==
    /\ SessionMaxAge \in Nat \ {0}
    /\ AdminMaxAge \in Nat \ {0}
    /\ MaxFailed \in Nat \ {0}
    /\ LockoutMs \in Nat
    /\ MaxTime \in Nat

ASSUME ValuesAssumption ==
    /\ None \notin Passwords \cup Links \cup Tokens
    /\ Timer \notin Calls
    /\ Requests \subseteq RequestKinds
    /\ Faults \subseteq FaultKinds

VARIABLES
    now,           \* the clock (#now)
    secrets,       \* #secrets
    sessions,      \* #sessions
    adminSessions, \* #adminSessions
    failures,      \* #failures; an absent entry reads as count 0, no lock
    calls,         \* the suspended methods
    disk,          \* what a restart would load
    drawn,         \* history: the cookie values given out so far
    used,          \* history: the link tokens ever generated
    revoked        \* history: the cookies dropped by revokeAllSessions or
                   \* lockAdmin since the process started

vars == <<now, secrets, sessions, adminSessions, failures, calls, disk,
          drawn, used, revoked>>

----------------------------------------------------------------------------
(* Documents, sessions and suspended calls *)

Credential == Passwords \cup {None}

SecretsFile == [password : Credential, adminPassword : Credential,
                link : Links \cup {None}]

EmptySecrets == [password |-> None, adminPassword |-> None, link |-> None]

\* The two are no secrets document.
ASSUME DamageAssumption == {Unreadable, OtherVersion} \cap SecretsFile = {}

\* A visitor session.  `basis` is a history field: the password the session
\* was minted from, None for a passwordless link.
Session == [token : Tokens, expires : Nat, basis : Credential]

AdminSession == [token : Tokens, expires : Nat]

\* What the store may hold of the secrets and the sessions.
Documents == [secrets : SecretsFile \cup {Unreadable, OtherVersion},
              sessions : SUBSET Session]

\* What a method does once the document it saves is on disk.
Then == {"answer", "revoke", "revokeUnlock", "unlock", "sweep"}

Idle == [pc |-> "idle"]

Suspended ==
    [pc : {"login"}, address : Addresses, at : Nat, ok : BOOLEAN,
     basis : Passwords]
      \cup [pc : {"link"}]
      \cup [pc : {"unlock"}, ok : BOOLEAN]
      \cup [pc : {"hash", "hashAdmin"}, spread : SecretsFile,
            next : Passwords, bootstrap : BOOLEAN]
      \cup [pc : {"saveSecrets"}, body : SecretsFile, then : Then,
            next : Credential]
      \cup [pc : {"saveSessions"}, body : SUBSET Session, then : Then,
            next : Credential]

TokensOf(S) == {s.token : s \in S}

\* Methods run by requests and by the timer.
Methods == Calls \cup {Timer}

\* randomBytes(32): a value never given out before.
Fresh(t) == t \notin drawn

\* The suspended methods that may still give out a cookie.
MayMint(r) ==
    \/ r.pc \in {"login", "link", "unlock"}
    \/ r.pc = "hash" /\ r.bootstrap
    \/ r.pc = "saveSecrets" /\ r.then = "revokeUnlock"
    \/ r.pc = "saveSessions" /\ r.then = "unlock"

\* Bound: a request starts only while a cookie value is left for it.
Room == Cardinality(drawn) + Cardinality({c \in Calls : MayMint(calls[c])})
            < Cardinality(Tokens)

Locked(address) == failures[address].until > now

Expired(s) == s.expires <= now

\* verifyAdminPassword and unlockAdmin fall back to the access password.
AdminCredential ==
    IF secrets.adminPassword # None THEN secrets.adminPassword
                                    ELSE secrets.password

----------------------------------------------------------------------------
(* Start of the process *)

\* init(): the secrets document as stored, an empty one when it is absent or
\* not JSON; only the sessions that have not expired.  Admin sessions and
\* lockouts live in memory and start empty.
LoadSecrets(stored) == IF stored = Unreadable THEN EmptySecrets ELSE stored

Init ==
    /\ now = 0
    /\ \E p \in Credential :
          secrets = [password |-> p, adminPassword |-> None, link |-> None]
    /\ disk = [secrets |-> secrets, sessions |-> {}]
    /\ sessions = {}
    /\ adminSessions = {}
    /\ failures = [a \in Addresses |-> [count |-> 0, until |-> 0]]
    /\ calls = [c \in Methods |-> Idle]
    /\ drawn = {}
    /\ used = {}
    /\ revoked = {}

Saving(c) == calls[c].pc \in {"saveSecrets", "saveSessions"}

Written(c) ==
    IF calls[c].pc = "saveSecrets"
    THEN [disk EXCEPT !.secrets = calls[c].body]
    ELSE [disk EXCEPT !.sessions = calls[c].body]

\* What a process may leave behind: a save it was suspended in may have
\* replaced its document already.
LeftBehind == {disk} \cup {Written(c) : c \in {d \in Methods : Saving(d)}}

\* The host starts the plugin again, with the documents it finds.  Secrets of
\* another version are refused, and nothing runs until somebody replaces them.
RestartEffect ==
    /\ disk'.secrets # OtherVersion
    /\ secrets' = LoadSecrets(disk'.secrets)
    /\ sessions' = {s \in disk'.sessions : ~Expired(s)}
    /\ adminSessions' = {}
    /\ failures' = [a \in Addresses |-> [count |-> 0, until |-> 0]]
    /\ calls' = [c \in Methods |-> Idle]
    /\ revoked' = {}
    /\ UNCHANGED <<now, drawn, used>>

\* The process ends at any moment.
Restart == "restart" \in Faults /\ disk' \in LeftBehind /\ RestartEffect

\* A stored document stops being one that init can read (a power loss before
\* its bytes reach the disk, a hand edit, another version of the plugin).
\* Sessions that cannot be read load as none.
Damage ==
    /\ "damage" \in Faults
    /\ \/ \E d \in {Unreadable, OtherVersion} :
             disk' = [disk EXCEPT !.secrets = d]
       \/ disk' = [disk EXCEPT !.sessions = {}]
    /\ disk' # disk
    /\ UNCHANGED <<now, secrets, sessions, adminSessions, failures, calls,
                   drawn, used, revoked>>

Tick ==
    /\ now < MaxTime
    /\ now' = now + 1
    /\ UNCHANGED <<secrets, sessions, adminSessions, failures, calls, disk,
                   drawn, used, revoked>>

----------------------------------------------------------------------------
(* Saves *)

Call(c, r) == calls' = [calls EXCEPT ![c] = r]

\* #persistSessions(): the document is the session map at the time of the call.
PersistSessions(c, body, then, next) ==
    Call(c, [pc |-> "saveSessions", body |-> body, then |-> then,
             next |-> next])

SaveSecrets(c, body, then, next) ==
    Call(c, [pc |-> "saveSecrets", body |-> body, then |-> then,
             next |-> next])

----------------------------------------------------------------------------
(* Requests a visitor makes *)

\* verifyRequest: an expired session cookie is forgotten when it is shown.  A
\* locked address is refused before its cookie is looked at.  The other
\* outcomes of verifyRequest change nothing.
Visit(address, s) ==
    /\ ~Locked(address)
    /\ s \in sessions
    /\ Expired(s)
    /\ sessions' = sessions \ {s}
    /\ UNCHANGED <<now, secrets, adminSessions, failures, calls, disk, drawn,
                   used, revoked>>

\* Mutant: the lockout is not looked at.
LoginBegin_Unlocked(c, address, candidate) ==
    /\ "login" \in Requests
    /\ calls[c] = Idle
    /\ secrets.password # None
    /\ Room
    /\ Call(c, [pc |-> "login", address |-> address, at |-> now,
                ok |-> candidate = secrets.password, basis |-> candidate])
    /\ UNCHANGED <<now, secrets, sessions, adminSessions, failures, disk,
                   drawn, used, revoked>>

\* login up to the comparison.  A locked address and an unset password are
\* answered at once.
LoginBegin(c, address, candidate) ==
    /\ "login" \in Requests
    /\ calls[c] = Idle
    /\ ~Locked(address)
    /\ secrets.password # None
    /\ Room
    /\ Call(c, [pc |-> "login", address |-> address, at |-> now,
                ok |-> candidate = secrets.password, basis |-> candidate])
    /\ UNCHANGED <<now, secrets, sessions, adminSessions, failures, disk,
                   drawn, used, revoked>>

\* Mutant: the session map is rebuilt from the saved one.
LoginOk_FromDisk(c, t) ==
    LET l == calls[c]
        s == [token |-> t, expires |-> l.at + SessionMaxAge,
              basis |-> l.basis]
    IN  /\ l.pc = "login"
        /\ l.ok
        /\ Fresh(t)
        /\ failures' = [failures EXCEPT ![l.address] =
                           [count |-> 0, until |-> 0]]
        /\ sessions' = disk.sessions \cup {s}
        /\ drawn' = drawn \cup {t}
        /\ PersistSessions(c, sessions', "answer", None)
        /\ UNCHANGED <<now, secrets, adminSessions, disk, used, revoked>>

\* login after a matching comparison: the failures of the address are
\* forgotten and a session is minted that expires counting from the START of
\* the login.
LoginOk(c, t) ==
    LET l == calls[c]
        s == [token |-> t, expires |-> l.at + SessionMaxAge,
              basis |-> l.basis]
    IN  /\ l.pc = "login"
        /\ l.ok
        /\ Fresh(t)
        /\ failures' = [failures EXCEPT ![l.address] =
                           [count |-> 0, until |-> 0]]
        /\ sessions' = sessions \cup {s}
        /\ drawn' = drawn \cup {t}
        /\ PersistSessions(c, sessions', "answer", None)
        /\ UNCHANGED <<now, secrets, adminSessions, disk, used, revoked>>

\* Mutant: one attempt too many.
NextFailure_OffByOne(f) ==
    IF f.count + 1 > MaxFailed
    THEN [count |-> 0, until |-> now + LockoutMs]
    ELSE [count |-> f.count + 1, until |-> 0]

\* #recordFailure: the entry that replaces the one of the address.
NextFailure(f) ==
    IF f.count + 1 >= MaxFailed
    THEN [count |-> 0, until |-> now + LockoutMs]
    ELSE [count |-> f.count + 1, until |-> 0]

\* login after a comparison that failed.
LoginFail(c) ==
    LET l == calls[c]
    IN  /\ l.pc = "login"
        /\ ~l.ok
        /\ failures' = [failures EXCEPT ![l.address] = NextFailure(@)]
        /\ Call(c, Idle)
        /\ UNCHANGED <<now, secrets, sessions, adminSessions, disk, drawn,
                       used, revoked>>

\* verifySecretToken accepted the link: the gate resumes in a later turn.
LinkBegin(c) ==
    /\ "link" \in Requests
    /\ calls[c] = Idle
    /\ secrets.link # None
    /\ Room
    /\ Call(c, [pc |-> "link"])
    /\ UNCHANGED <<now, secrets, sessions, adminSessions, failures, disk,
                   drawn, used, revoked>>

\* issueSession: a session without a password.
LinkIssue(c, t) ==
    LET s == [token |-> t, expires |-> now + SessionMaxAge, basis |-> None]
    IN  /\ calls[c].pc = "link"
        /\ Fresh(t)
        /\ sessions' = sessions \cup {s}
        /\ drawn' = drawn \cup {t}
        /\ PersistSessions(c, sessions', "answer", None)
        /\ UNCHANGED <<now, secrets, adminSessions, failures, disk, used,
                       revoked>>

----------------------------------------------------------------------------
(* Requests the management console makes *)

\* unlockAdmin up to the comparison.
StartUnlock(c, candidate) ==
    Call(c, [pc |-> "unlock", ok |-> candidate = AdminCredential])

UnlockBegin(c, candidate) ==
    /\ "unlock" \in Requests
    /\ calls[c] = Idle
    /\ Room
    /\ StartUnlock(c, candidate)
    /\ UNCHANGED <<now, secrets, sessions, adminSessions, failures, disk,
                   drawn, used, revoked>>

UnlockOk(c, t) ==
    /\ calls[c].pc = "unlock"
    /\ calls[c].ok
    /\ Fresh(t)
    /\ adminSessions' = adminSessions \cup
          {[token |-> t, expires |-> now + AdminMaxAge]}
    /\ drawn' = drawn \cup {t}
    /\ Call(c, Idle)
    /\ UNCHANGED <<now, secrets, sessions, failures, disk, used, revoked>>

UnlockFail(c) ==
    /\ calls[c].pc = "unlock"
    /\ ~calls[c].ok
    /\ Call(c, Idle)
    /\ UNCHANGED <<now, secrets, sessions, adminSessions, failures, disk,
                   drawn, used, revoked>>

\* isAdminUnlocked: an expired admin cookie is forgotten when it is shown.
AdminVisit(s) ==
    /\ s \in adminSessions
    /\ Expired(s)
    /\ adminSessions' = adminSessions \ {s}
    /\ UNCHANGED <<now, secrets, sessions, failures, calls, disk, drawn,
                   used, revoked>>

LockAdmin(s) ==
    /\ "lock" \in Requests
    /\ s \in adminSessions
    /\ adminSessions' = adminSessions \ {s}
    /\ revoked' = revoked \cup {s.token}
    /\ UNCHANGED <<now, secrets, sessions, failures, calls, disk, drawn, used>>

\* The route's setPassword branch, once the caller is allowed to: the object
\* literal copies #secrets BEFORE it awaits the hash.  `bootstrap` remembers
\* that there was no password.
SetPasswordBegin(c, next) ==
    /\ "setPassword" \in Requests
    /\ calls[c] = Idle
    /\ secrets.password = None => Room
    /\ Call(c, [pc |-> "hash", spread |-> secrets, next |-> next,
                bootstrap |-> secrets.password = None])
    /\ UNCHANGED <<now, secrets, sessions, adminSessions, failures, disk,
                   drawn, used, revoked>>

\* Mutant: the sessions are left alone.
SetPasswordHashed_NoRevoke(c) ==
    LET h == calls[c]
    IN  /\ h.pc = "hash"
        /\ secrets' = [h.spread EXCEPT !.password = h.next]
        /\ SaveSecrets(c, secrets', "answer", None)
        /\ UNCHANGED <<now, sessions, adminSessions, failures, disk, drawn,
                       used, revoked>>

\* setPassword after the hash: the new object replaces #secrets whole.
SetPasswordHashed(c) ==
    LET h == calls[c]
    IN  /\ h.pc = "hash"
        /\ secrets' = [h.spread EXCEPT !.password = h.next]
        /\ SaveSecrets(c, secrets',
              IF h.bootstrap THEN "revokeUnlock" ELSE "revoke", h.next)
        /\ UNCHANGED <<now, sessions, adminSessions, failures, disk, drawn,
                       used, revoked>>

SetAdminPasswordBegin(c, next) ==
    /\ "setAdminPassword" \in Requests
    /\ calls[c] = Idle
    /\ Call(c, [pc |-> "hashAdmin", spread |-> secrets, next |-> next,
                bootstrap |-> FALSE])
    /\ UNCHANGED <<now, secrets, sessions, adminSessions, failures, disk,
                   drawn, used, revoked>>

\* Mutant: the copy is left out of the new object.
SetAdminPasswordHashed_NoSpread(c) ==
    LET h == calls[c]
    IN  /\ h.pc = "hashAdmin"
        /\ secrets' = [EmptySecrets EXCEPT !.adminPassword = h.next]
        /\ SaveSecrets(c, secrets', "answer", None)
        /\ UNCHANGED <<now, sessions, adminSessions, failures, disk, drawn,
                       used, revoked>>

\* setAdminPassword after the hash.
SetAdminPasswordHashed(c) ==
    LET h == calls[c]
    IN  /\ h.pc = "hashAdmin"
        /\ secrets' = [h.spread EXCEPT !.adminPassword = h.next]
        /\ SaveSecrets(c, secrets', "answer", None)
        /\ UNCHANGED <<now, sessions, adminSessions, failures, disk, drawn,
                       used, revoked>>

\* Mutant: the document is saved without the new link.
NewLink_SavesOld(c, link) ==
    /\ calls[c] = Idle
    /\ link \notin used
    /\ used' = used \cup {link}
    /\ secrets' = [secrets EXCEPT !.link = link]
    /\ SaveSecrets(c, secrets, "answer", None)
    /\ UNCHANGED <<now, sessions, adminSessions, failures, disk, drawn,
                   revoked>>

\* A new link token replaces the present one, in the same turn as the call.
NewLink(c, link) ==
    /\ calls[c] = Idle
    /\ link \notin used
    /\ used' = used \cup {link}
    /\ secrets' = [secrets EXCEPT !.link = link]
    /\ SaveSecrets(c, secrets', "answer", None)
    /\ UNCHANGED <<now, sessions, adminSessions, failures, disk, drawn,
                   revoked>>

EnsureLink(c, link) ==
    "ensureLink" \in Requests /\ secrets.link = None /\ NewLink(c, link)

RotateLink(c, link) == "rotateLink" \in Requests /\ NewLink(c, link)

\* Mutant: the unlocked consoles are left alone.
RevokeAll_KeepsAdmin(c, then, next) ==
    /\ sessions' = {}
    /\ adminSessions' = adminSessions
    /\ revoked' = revoked \cup TokensOf(sessions) \cup TokensOf(adminSessions)
    /\ PersistSessions(c, {}, then, next)

\* revokeAllSessions: every session, visitor's and admin's, is dropped and
\* the empty map is saved.
RevokeAll(c, then, next) ==
    /\ sessions' = {}
    /\ adminSessions' = {}
    /\ revoked' = revoked \cup TokensOf(sessions) \cup TokensOf(adminSessions)
    /\ PersistSessions(c, {}, then, next)

\* The route's preferences branch, after the login mode has changed.
RevokeBegin(c) ==
    /\ "revoke" \in Requests
    /\ calls[c] = Idle
    /\ RevokeAll(c, "answer", None)
    /\ UNCHANGED <<now, secrets, failures, disk, drawn, used>>

----------------------------------------------------------------------------
(* The hourly sweep *)

\* Mutant: the admin sessions are not swept.
Sweep_NoAdmin ==
    /\ calls[Timer] = Idle
    /\ \E s \in sessions : Expired(s)
    /\ sessions' = {s \in sessions : ~Expired(s)}
    /\ PersistSessions(Timer, sessions', "sweep", None)
    /\ UNCHANGED <<now, secrets, adminSessions, failures, disk, drawn, used,
                   revoked>>

\* #sweep: expired sessions of both kinds go; only a change of the visitor
\* sessions is saved.
Sweep ==
    /\ calls[Timer] = Idle
    /\ \E s \in sessions \cup adminSessions : Expired(s)
    /\ sessions' = {s \in sessions : ~Expired(s)}
    /\ adminSessions' = {s \in adminSessions : ~Expired(s)}
    /\ IF sessions' # sessions
       THEN PersistSessions(Timer, sessions', "sweep", None)
       ELSE calls' = calls
    /\ UNCHANGED <<now, secrets, failures, disk, drawn, used, revoked>>

----------------------------------------------------------------------------
(* The end of a save *)

\* The document is on disk and the method goes on: changing the password
\* revokes every session, and the first password also unlocks the console.
SaveDone(c) ==
    LET s == calls[c]
    IN  /\ Saving(c)
        /\ disk' = Written(c)
        /\ \/ /\ s.then \in {"answer", "sweep"}
              /\ Call(c, Idle)
              /\ UNCHANGED <<sessions, adminSessions, revoked>>
           \/ /\ s.then = "revoke"
              /\ RevokeAll(c, "answer", None)
           \/ /\ s.then = "revokeUnlock"
              /\ RevokeAll(c, "unlock", s.next)
           \/ /\ s.then = "unlock"
              /\ StartUnlock(c, s.next)
              /\ UNCHANGED <<sessions, adminSessions, revoked>>
        /\ UNCHANGED <<now, secrets, failures, drawn, used>>

\* The write failed, before or after the document was replaced: the rejection
\* ends the method and what follows the save never happens; memory keeps the
\* change.  Nobody awaits the sweep, so its rejection is unhandled and ends
\* the process.
SaveFail(c) ==
    /\ "save" \in Faults
    /\ Saving(c)
    /\ IF calls[c].then = "sweep"
       THEN disk' \in LeftBehind /\ RestartEffect
       ELSE /\ disk' \in {disk, Written(c)}
            /\ Call(c, Idle)
            /\ UNCHANGED <<now, secrets, sessions, adminSessions, failures,
                           drawn, used, revoked>>

----------------------------------------------------------------------------

VisitorRequest(c) ==
    \/ \E a \in Addresses, p \in Passwords : LoginBegin(c, a, p)
    \/ LinkBegin(c)

ConsoleRequest(c) ==
    \/ \E p \in Passwords : UnlockBegin(c, p)
    \/ \E p \in Passwords : SetPasswordBegin(c, p)
    \/ \E p \in Passwords : SetAdminPasswordBegin(c, p)
    \/ \E k \in Links : EnsureLink(c, k)
    \/ \E k \in Links : RotateLink(c, k)
    \/ RevokeBegin(c)

\* What the event loop owes a suspended call.
Resume(c) ==
    \/ \E t \in Tokens : LoginOk(c, t) \/ LinkIssue(c, t) \/ UnlockOk(c, t)
    \/ LoginFail(c)
    \/ UnlockFail(c)
    \/ SetPasswordHashed(c)
    \/ SetAdminPasswordHashed(c)
    \/ SaveDone(c)

Next ==
    \/ Tick
    \/ Restart
    \/ Damage
    \/ \E a \in Addresses, s \in sessions : Visit(a, s)
    \/ \E s \in adminSessions : AdminVisit(s) \/ LockAdmin(s)
    \/ \E c \in Calls : VisitorRequest(c) \/ ConsoleRequest(c)
    \/ Sweep
    \/ \E c \in Methods : Resume(c) \/ SaveFail(c)

Spec == Init /\ [][Next]_vars

\* Hashing and file operations always end, and the interval timer of the
\* sweep keeps firing.
Fairness ==
    /\ \A c \in Methods : WF_vars(Resume(c))
    /\ WF_vars(Sweep)

FairSpec == Spec /\ Fairness

----------------------------------------------------------------------------
(* What the component promises *)

\* Every variable has the shape the code gives it.
TypeOK ==
    /\ now \in Nat
    /\ secrets \in SecretsFile
    /\ sessions \subseteq Session
    /\ adminSessions \subseteq AdminSession
    /\ failures \in [Addresses -> [count : Nat, until : Nat]]
    /\ calls \in [Methods -> {Idle} \cup Suspended]
    /\ disk \in Documents
    /\ drawn \subseteq Tokens
    /\ used \subseteq Links
    /\ revoked \subseteq drawn

\* The failures counted against an address never reach the limit (reaching it
\* is what engages the lockout), an address is never both counted and locked,
\* and no lockout reaches further than lockoutMs from now.
FailureBudget ==
    \A a \in Addresses :
        /\ failures[a].count < MaxFailed
        /\ failures[a].count > 0 => failures[a].until = 0
        /\ failures[a].until <= now + LockoutMs

\* A cookie dropped by revokeAllSessions or lockAdmin is not accepted again
\* while the process lives, whatever logins, links, unlocks, sweeps and saves
\* were under way when it was dropped.
RevokedStayRevoked ==
    \A s \in sessions \cup adminSessions : s.token \notin revoked

\* A visitor is put out by expiry, by a revocation or by a restart only: no
\* login, link or sweep that overlaps another loses its session.
SessionsKept ==
    [][\/ RestartEffect
       \/ \A s \in sessions :
             s \in sessions' \/ Expired(s) \/ s.token \in revoked']_vars

\* With one request at a time and no failing save, an answered request has
\* left on disk what is in memory, whichever of the five ways it changed it.
SecretsDurable ==
    (\A c \in Calls : calls[c].pc # "saveSecrets") => disk.secrets = secrets

\* A lockout with no comparison under way stays as it is until the clock ends
\* it: no new comparison starts for the address and nothing else rewrites its
\* entry.  (Lockouts live in memory: a restart forgets them.)
Comparing(a) ==
    \E c \in Calls : calls[c].pc = "login" /\ calls[c].address = a

QuietLockoutHolds ==
    [][\/ RestartEffect
       \/ \A a \in Addresses :
             Locked(a) /\ ~Comparing(a)
               => ~Comparing(a)' /\ failures'[a] = failures[a]]_vars

\* The sweep gives the memory of every expired session back, whether or not
\* its cookie is ever shown again.
ExpiredReclaimed ==
    \A t \in Tokens :
        (\E s \in sessions \cup adminSessions : s.token = t /\ Expired(s))
          ~> t \notin TokensOf(sessions \cup adminSessions)

----------------------------------------------------------------------------
(* What comments and tests of the repository say of credential changes: it  *)
(* holds while management requests come one at a time.                     *)

\* "Changing the password invalidates every existing visitor session": once
\* the change is complete, no session minted from another password is held.
PasswordChanging ==
    \E c \in Calls : \/ calls[c].pc \in {"hash", "saveSecrets"}

OldSessionsAreGone ==
    ~PasswordChanging =>
        \A s \in sessions : s.basis \in {None, secrets.password}

\* "Set (or replace) the independent admin password": doing so leaves the
\* access password and the link as they are.
OtherSecretsKept ==
    [][\A c \in Calls :
          calls[c].pc = "hashAdmin" /\ calls'[c].pc = "saveSecrets"
            => /\ secrets'.password = secrets.password
               /\ secrets'.link = secrets.link]_vars

----------------------------------------------------------------------------
(* The cookies, seen from outside *)

\* The values a restart may accept: those on disk and those of a document on
\* its way there.
StoredTokens ==
    TokensOf(disk.sessions)
      \cup UNION {TokensOf(calls[c].body) :
                    c \in {d \in Methods : calls[d].pc = "saveSessions"}}

Ledger == INSTANCE SessionLedger WITH visitors <- TokensOf(sessions),
                                      admins   <- TokensOf(adminSessions),
                                      stored   <- StoredTokens,
                                      given    <- drawn

\* Whatever overlaps, fails or restarts, a cookie value is accepted only after
\* it was given out, is given out once, serves one kind of cookie only, and
\* comes back after a restart only if it was accepted before.
LedgerSpec == Ledger!Spec

============================================================================
