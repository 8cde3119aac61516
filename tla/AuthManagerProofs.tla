------------------------- MODULE AuthManagerProofs -------------------------
(***************************************************************************)
(* Proofs about AuthManager, for any addresses, passwords, limits, number  *)
(* of concurrent calls and choice of requests and faults.                  *)
(*                                                                         *)
(* That a dropped cookie stays dropped rests on where cookie values may    *)
(* be: every value in memory, on disk or on its way to the disk has been   *)
(* drawn, so a fresh value meets none of them, and a value on its way to   *)
(* the disk comes back to memory by a restart only, which forgets what was *)
(* dropped.                                                                *)
(***************************************************************************)
EXTENDS AuthManager, TLAPS

LiveDrawn == \A s \in sessions \cup adminSessions : s.token \in drawn

DiskDrawn == \A s \in disk.sessions : s.token \in drawn

BodiesDrawn ==
    \A c \in Methods : calls[c].pc = "saveSessions" =>
        \A s \in calls[c].body : s.token \in drawn

\* The value of an admin session is no other session's: dropping it drops it.
AdminApart ==
    /\ \A s \in adminSessions, o \in sessions : s.token # o.token
    /\ \A s, o \in adminSessions : s.token = o.token => s = o

IInv ==
    /\ TypeOK
    /\ LiveDrawn
    /\ DiskDrawn
    /\ BodiesDrawn
    /\ AdminApart
    /\ RevokedStayRevoked
    /\ FailureBudget

----------------------------------------------------------------------------
(* Suspended calls *)

Record == {Idle} \cup Suspended

LEMMA CallSet ==
    ASSUME TypeOK, NEW c \in Methods, NEW r \in Record, Call(c, r)
    PROVE  /\ calls' \in [Methods -> Record]
           /\ calls'[c] = r
           /\ \A d \in Methods \ {c} : calls'[d] = calls[d]
BY DEF TypeOK, Call, Record

\* What the code keeps while it is suspended, by the kind of suspension.
LEMMA Kept ==
    ASSUME TypeOK, NEW c \in Methods
    PROVE  /\ calls[c].pc = "login" =>
                /\ calls[c].address \in Addresses
                /\ calls[c].at \in Nat
                /\ calls[c].basis \in Passwords
           /\ calls[c].pc \in {"hash", "hashAdmin"} =>
                /\ calls[c].spread \in SecretsFile
                /\ calls[c].next \in Passwords
           /\ calls[c].pc = "saveSecrets" =>
                /\ calls[c].body \in SecretsFile
                /\ calls[c].then \in Then
                /\ calls[c].next \in Credential
           /\ calls[c].pc = "saveSessions" =>
                /\ calls[c].body \in SUBSET Session
                /\ calls[c].then \in Then
                /\ calls[c].next \in Credential
<1>1. calls[c] \in {Idle} \cup Suspended
  BY DEF TypeOK
<1> QED
  BY <1>1 DEF Idle, Suspended

LEMMA SavesAreRecords ==
    ASSUME NEW then \in Then, NEW next \in Credential
    PROVE  /\ \A body \in SecretsFile :
                [pc |-> "saveSecrets", body |-> body, then |-> then,
                 next |-> next] \in Record
           /\ \A body \in SUBSET Session :
                [pc |-> "saveSessions", body |-> body, then |-> then,
                 next |-> next] \in Record
BY DEF Record, Suspended

LEMMA StepsAreRecords ==
    /\ Idle \in Record
    /\ [pc |-> "link"] \in Record
    /\ \A ok \in BOOLEAN : [pc |-> "unlock", ok |-> ok] \in Record
    /\ \A address \in Addresses, at \in Nat, ok \in BOOLEAN,
          basis \in Passwords :
          [pc |-> "login", address |-> address, at |-> at, ok |-> ok,
           basis |-> basis] \in Record
    /\ \A pc \in {"hash", "hashAdmin"}, spread \in SecretsFile,
          next \in Passwords, bootstrap \in BOOLEAN :
          [pc |-> pc, spread |-> spread, next |-> next,
           bootstrap |-> bootstrap] \in Record
BY DEF Record, Suspended, Idle

----------------------------------------------------------------------------
(* Kinds of steps *)

\* A step of a method that mints and drops nothing and saves no sessions.
LEMMA PlainStep ==
    ASSUME IInv, NEW c \in Methods, NEW r \in Record, Call(c, r),
           r.pc # "saveSessions",
           secrets' \in SecretsFile, used' \subseteq Links,
           UNCHANGED <<now, sessions, adminSessions, failures, disk, drawn,
                       revoked>>
    PROVE  IInv'
<1>1. /\ calls' \in [Methods -> Record]
      /\ calls'[c] = r
      /\ \A d \in Methods \ {c} : calls'[d] = calls[d]
  BY CallSet DEF IInv
<1>2. TypeOK'
  BY <1>1 DEF IInv, TypeOK, Record
<1>3. BodiesDrawn'
  BY <1>1 DEF IInv, BodiesDrawn
<1> QED
  BY <1>2, <1>3 DEF IInv, LiveDrawn, DiskDrawn, AdminApart,
                    RevokedStayRevoked, FailureBudget

\* The sessions after a mint are saved by the call that minted.
LEMMA MintStep ==
    ASSUME IInv, NEW c \in Methods, NEW t \in Tokens, Fresh(t),
           NEW s \in Session, s.token = t,
           sessions' = sessions \cup {s}, drawn' = drawn \cup {t},
           PersistSessions(c, sessions', "answer", None),
           failures' \in [Addresses -> [count : Nat, until : Nat]],
           FailureBudget',
           UNCHANGED <<now, secrets, adminSessions, disk, used, revoked>>
    PROVE  IInv'
<1>1. [pc |-> "saveSessions", body |-> sessions', then |-> "answer",
       next |-> None] \in Record
  BY SavesAreRecords DEF Then, Credential, IInv, TypeOK
<1>2. /\ calls' \in [Methods -> Record]
      /\ calls'[c].body = sessions'
      /\ \A d \in Methods \ {c} : calls'[d] = calls[d]
  BY <1>1, CallSet DEF IInv, PersistSessions
<1>3. TypeOK'
  BY <1>2 DEF IInv, TypeOK, Record
<1>4. LiveDrawn' /\ DiskDrawn'
  BY DEF IInv, LiveDrawn, DiskDrawn
<1>5. BodiesDrawn'
  BY <1>2 DEF IInv, BodiesDrawn, LiveDrawn
<1>6. AdminApart'
  BY DEF IInv, AdminApart, LiveDrawn, Fresh
<1>7. RevokedStayRevoked'
  BY DEF IInv, TypeOK, RevokedStayRevoked, Fresh
<1> QED
  BY <1>3, <1>4, <1>5, <1>6, <1>7 DEF IInv

\* revokeAllSessions, after a write to disk or on its own.
LEMMA RevokeStep ==
    ASSUME IInv, NEW c \in Methods, NEW then \in Then, NEW next \in Credential,
           RevokeAll(c, then, next),
           disk' \in Documents,
           \A s \in disk'.sessions : s.token \in drawn,
           UNCHANGED <<now, secrets, failures, drawn, used>>
    PROVE  IInv'
<1>1. [pc |-> "saveSessions", body |-> {}, then |-> then, next |-> next]
         \in Record
  BY SavesAreRecords
<1>2. /\ calls' \in [Methods -> Record]
      /\ calls'[c].body = {}
      /\ \A d \in Methods \ {c} : calls'[d] = calls[d]
  BY <1>1, CallSet DEF IInv, RevokeAll, PersistSessions
<1>3. revoked' \subseteq drawn'
  BY DEF RevokeAll, TokensOf, IInv, TypeOK, LiveDrawn
<1>4. TypeOK'
  BY <1>2, <1>3 DEF IInv, TypeOK, Record, RevokeAll
<1>5. BodiesDrawn'
  BY <1>2 DEF IInv, BodiesDrawn
<1>6. LiveDrawn' /\ DiskDrawn' /\ AdminApart' /\ RevokedStayRevoked'
  BY DEF RevokeAll, LiveDrawn, DiskDrawn, AdminApart, RevokedStayRevoked
<1>7. FailureBudget'
  BY DEF IInv, FailureBudget
<1> QED
  BY <1>4, <1>5, <1>6, <1>7 DEF IInv

\* Sessions expire: some go, and the call that noticed may save the rest.
LEMMA ExpiryStep ==
    ASSUME IInv, sessions' \subseteq sessions,
           adminSessions' \subseteq adminSessions,
           \/ calls' = calls
           \/ PersistSessions(Timer, sessions', "sweep", None),
           UNCHANGED <<now, secrets, failures, disk, drawn, used, revoked>>
    PROVE  IInv'
<1>1. sessions' \subseteq Session /\ adminSessions' \subseteq AdminSession
  BY DEF IInv, TypeOK
<1>2. /\ calls' \in [Methods -> Record]
      /\ BodiesDrawn'
  <2>1. CASE calls' = calls
    BY <2>1 DEF IInv, TypeOK, Record, BodiesDrawn
  <2>2. CASE PersistSessions(Timer, sessions', "sweep", None)
    <3>1. [pc |-> "saveSessions", body |-> sessions', then |-> "sweep",
           next |-> None] \in Record
      BY <1>1, SavesAreRecords DEF Then, Credential
    <3>2. Timer \in Methods
      BY DEF Methods
    <3>3. /\ calls' \in [Methods -> Record]
          /\ calls'[Timer].body = sessions'
          /\ \A d \in Methods \ {Timer} : calls'[d] = calls[d]
      BY <2>2, <3>1, <3>2, CallSet DEF IInv, PersistSessions
    <3> QED
      BY <3>3 DEF IInv, BodiesDrawn, LiveDrawn
  <2> QED
    BY <2>1, <2>2
<1>3. TypeOK'
  BY <1>1, <1>2 DEF IInv, TypeOK, Record
<1> QED
  BY <1>2, <1>3 DEF IInv, LiveDrawn, DiskDrawn, AdminApart,
                    RevokedStayRevoked, FailureBudget

----------------------------------------------------------------------------
(* Actions *)

LEMMA LoginOkIInv ==
    ASSUME IInv, NEW c \in Methods, NEW t \in Tokens, LoginOk(c, t)
    PROVE  IInv'
<1> DEFINE l == calls[c]
           s == [token |-> t, expires |-> l.at + SessionMaxAge,
                 basis |-> l.basis]
<1>1. /\ l.address \in Addresses
      /\ l.at \in Nat
      /\ l.basis \in Passwords
  BY Kept DEF IInv, LoginOk
<1>2. s \in Session /\ s.token = t
  BY <1>1, LimitsAssumption DEF Session, Credential
<1>3. /\ failures' \in [Addresses -> [count : Nat, until : Nat]]
      /\ FailureBudget'
  BY <1>1, LimitsAssumption DEF IInv, TypeOK, FailureBudget, LoginOk
<1>4. /\ Fresh(t)
      /\ sessions' = sessions \cup {s}
      /\ drawn' = drawn \cup {t}
      /\ PersistSessions(c, sessions', "answer", None)
      /\ UNCHANGED <<now, secrets, adminSessions, disk, used, revoked>>
  BY DEF LoginOk
<1> HIDE DEF s
<1> QED
  BY <1>2, <1>3, <1>4, MintStep

LEMMA LinkIssueIInv ==
    ASSUME IInv, NEW c \in Methods, NEW t \in Tokens, LinkIssue(c, t)
    PROVE  IInv'
<1> DEFINE s == [token |-> t, expires |-> now + SessionMaxAge, basis |-> None]
<1>1. s \in Session /\ s.token = t
  BY LimitsAssumption DEF Session, Credential, IInv, TypeOK
<1>2. /\ failures' \in [Addresses -> [count : Nat, until : Nat]]
      /\ FailureBudget'
  BY DEF IInv, TypeOK, FailureBudget, LinkIssue
<1>3. /\ Fresh(t)
      /\ sessions' = sessions \cup {s}
      /\ drawn' = drawn \cup {t}
      /\ PersistSessions(c, sessions', "answer", None)
      /\ UNCHANGED <<now, secrets, adminSessions, disk, used, revoked>>
  BY DEF LinkIssue
<1> HIDE DEF s
<1> QED
  BY <1>1, <1>2, <1>3, MintStep

LEMMA UnlockOkIInv ==
    ASSUME IInv, NEW c \in Methods, NEW t \in Tokens, UnlockOk(c, t)
    PROVE  IInv'
<1> DEFINE s == [token |-> t, expires |-> now + AdminMaxAge]
<1>1. s \in AdminSession /\ s.token = t
  BY LimitsAssumption DEF AdminSession, IInv, TypeOK
<1>2. /\ Fresh(t)
      /\ adminSessions' = adminSessions \cup {s}
      /\ drawn' = drawn \cup {t}
      /\ Call(c, Idle)
      /\ UNCHANGED <<now, secrets, sessions, failures, disk, used, revoked>>
  BY DEF UnlockOk
<1> HIDE DEF s
<1>3. /\ calls' \in [Methods -> Record]
      /\ calls'[c] = Idle
      /\ \A d \in Methods \ {c} : calls'[d] = calls[d]
  BY <1>2, CallSet, StepsAreRecords DEF IInv
<1>4. TypeOK'
  BY <1>1, <1>2, <1>3 DEF IInv, TypeOK, Record
<1>5. BodiesDrawn'
  BY <1>2, <1>3 DEF IInv, BodiesDrawn, Idle
<1>6. LiveDrawn' /\ DiskDrawn'
  BY <1>1, <1>2 DEF IInv, LiveDrawn, DiskDrawn
<1>7. AdminApart'
  BY <1>1, <1>2 DEF IInv, AdminApart, LiveDrawn, Fresh
<1>8. RevokedStayRevoked' /\ FailureBudget'
  BY <1>1, <1>2 DEF IInv, TypeOK, RevokedStayRevoked, FailureBudget, Fresh
<1> QED
  BY <1>4, <1>5, <1>6, <1>7, <1>8 DEF IInv

\* The failures of an address stay below the limit: the one that reaches it
\* is replaced by a lockout.
LEMMA LoginFailIInv ==
    ASSUME IInv, NEW c \in Methods, LoginFail(c)
    PROVE  IInv'
<1> DEFINE a == calls[c].address
<1>1. a \in Addresses
  BY Kept DEF IInv, LoginFail
<1>2. /\ failures[a].count \in Nat /\ failures[a].count < MaxFailed
      /\ MaxFailed \in Nat /\ LockoutMs \in Nat /\ now \in Nat
  BY <1>1, LimitsAssumption DEF IInv, TypeOK, FailureBudget
<1>3. /\ NextFailure(failures[a]) \in [count : Nat, until : Nat]
      /\ NextFailure(failures[a]).count < MaxFailed
      /\ NextFailure(failures[a]).count > 0
            => NextFailure(failures[a]).until = 0
      /\ NextFailure(failures[a]).until <= now + LockoutMs
  BY <1>2, LimitsAssumption DEF NextFailure
<1>4. failures' = [failures EXCEPT ![a] = NextFailure(failures[a])]
  BY DEF LoginFail
<1>5. /\ failures' \in [Addresses -> [count : Nat, until : Nat]]
      /\ FailureBudget'
  BY <1>1, <1>3, <1>4 DEF IInv, TypeOK, FailureBudget, LoginFail
<1>6. /\ calls' \in [Methods -> Record]
      /\ calls'[c] = Idle
      /\ \A d \in Methods \ {c} : calls'[d] = calls[d]
  BY CallSet, StepsAreRecords DEF IInv, LoginFail
<1>7. TypeOK'
  BY <1>5, <1>6 DEF IInv, TypeOK, Record, LoginFail
<1>8. BodiesDrawn'
  BY <1>6 DEF IInv, BodiesDrawn, Idle, LoginFail
<1> QED
  BY <1>5, <1>7, <1>8 DEF IInv, LiveDrawn, DiskDrawn, AdminApart,
                          RevokedStayRevoked, LoginFail

LEMMA VisitorRequestIInv ==
    ASSUME IInv, NEW c \in Calls, VisitorRequest(c)
    PROVE  IInv'
<1>1. c \in Methods
  BY DEF Methods
<1>2. ASSUME NEW a \in Addresses, NEW p \in Passwords, LoginBegin(c, a, p)
      PROVE  IInv'
  <2>1. [pc |-> "login", address |-> a, at |-> now,
         ok |-> p = secrets.password, basis |-> p] \in Record
    BY StepsAreRecords DEF IInv, TypeOK
  <2> QED
    BY <1>1, <1>2, <2>1, PlainStep DEF LoginBegin, IInv, TypeOK
<1>3. CASE LinkBegin(c)
  BY <1>1, <1>3, StepsAreRecords, PlainStep DEF LinkBegin, IInv, TypeOK
<1> QED
  BY <1>2, <1>3 DEF VisitorRequest

LEMMA NewLinkIInv ==
    ASSUME IInv, NEW c \in Methods, NEW k \in Links, NewLink(c, k)
    PROVE  IInv'
<1>1. secrets' \in SecretsFile /\ used' \subseteq Links
  BY DEF NewLink, IInv, TypeOK, SecretsFile
<1>2. [pc |-> "saveSecrets", body |-> secrets', then |-> "answer",
       next |-> None] \in Record
  BY <1>1, SavesAreRecords DEF Then, Credential
<1> QED
  BY <1>1, <1>2, PlainStep DEF NewLink, SaveSecrets

LEMMA ConsoleRequestIInv ==
    ASSUME IInv, NEW c \in Calls, ConsoleRequest(c)
    PROVE  IInv'
<1>1. c \in Methods
  BY DEF Methods
<1>2. ASSUME NEW p \in Passwords, UnlockBegin(c, p)
      PROVE  IInv'
  <2>1. [pc |-> "unlock", ok |-> p = AdminCredential] \in Record
    BY StepsAreRecords
  <2> QED
    BY <1>1, <1>2, <2>1, PlainStep
       DEF UnlockBegin, StartUnlock, IInv, TypeOK
<1>3. ASSUME NEW p \in Passwords, SetPasswordBegin(c, p)
      PROVE  IInv'
  <2>1. [pc |-> "hash", spread |-> secrets, next |-> p,
         bootstrap |-> secrets.password = None] \in Record
    BY StepsAreRecords DEF IInv, TypeOK
  <2> QED
    BY <1>1, <1>3, <2>1, PlainStep DEF SetPasswordBegin, IInv, TypeOK
<1>4. ASSUME NEW p \in Passwords, SetAdminPasswordBegin(c, p)
      PROVE  IInv'
  <2>1. [pc |-> "hashAdmin", spread |-> secrets, next |-> p,
         bootstrap |-> FALSE] \in Record
    BY StepsAreRecords DEF IInv, TypeOK
  <2> QED
    BY <1>1, <1>4, <2>1, PlainStep DEF SetAdminPasswordBegin, IInv, TypeOK
<1>5. ASSUME NEW k \in Links, EnsureLink(c, k) \/ RotateLink(c, k)
      PROVE  IInv'
  BY <1>1, <1>5, NewLinkIInv DEF EnsureLink, RotateLink
<1>6. CASE RevokeBegin(c)
  BY <1>1, <1>6, RevokeStep
     DEF RevokeBegin, Then, Credential, IInv, TypeOK, DiskDrawn
<1> QED
  BY <1>2, <1>3, <1>4, <1>5, <1>6 DEF ConsoleRequest

LEMMA HashedIInv ==
    ASSUME IInv, NEW c \in Methods,
           SetPasswordHashed(c) \/ SetAdminPasswordHashed(c)
    PROVE  IInv'
<1>1. calls[c].spread \in SecretsFile /\ calls[c].next \in Passwords
  BY Kept DEF IInv, SetPasswordHashed, SetAdminPasswordHashed
<1>2. secrets' \in SecretsFile
  BY <1>1 DEF SetPasswordHashed, SetAdminPasswordHashed, SecretsFile,
              Credential
<1>3. \E then \in Then, next \in Credential :
         Call(c, [pc |-> "saveSecrets", body |-> secrets', then |-> then,
                  next |-> next])
  BY <1>1 DEF SetPasswordHashed, SetAdminPasswordHashed, SaveSecrets, Then,
              Credential
<1>4. PICK then \in Then, next \in Credential :
         Call(c, [pc |-> "saveSecrets", body |-> secrets', then |-> then,
                  next |-> next])
  BY <1>3
<1>5. [pc |-> "saveSecrets", body |-> secrets', then |-> then,
       next |-> next] \in Record
  BY <1>2, SavesAreRecords
<1> QED
  BY <1>2, <1>4, <1>5, PlainStep
     DEF SetPasswordHashed, SetAdminPasswordHashed, IInv, TypeOK

\* What a save puts on disk has been drawn.
LEMMA WrittenIsDrawn ==
    ASSUME IInv, NEW c \in Methods, Saving(c)
    PROVE  /\ Written(c) \in Documents
           /\ \A s \in Written(c).sessions : s.token \in drawn
BY Kept DEF IInv, TypeOK, Documents, Saving, Written, DiskDrawn, BodiesDrawn

\* So has what a process leaves behind.
LEMMA LeftIsDrawn ==
    ASSUME IInv, NEW d \in LeftBehind
    PROVE  d \in Documents /\ \A s \in d.sessions : s.token \in drawn
BY WrittenIsDrawn DEF LeftBehind, IInv, TypeOK, DiskDrawn

\* The process starts again with what is on disk.
LEMMA RestartStep ==
    ASSUME IInv, disk' \in LeftBehind, RestartEffect
    PROVE  IInv'
<1>1. disk' \in Documents /\ \A s \in disk'.sessions : s.token \in drawn
  BY LeftIsDrawn
<1>2. /\ secrets' \in SecretsFile
      /\ sessions' \subseteq disk'.sessions
      /\ sessions' \subseteq Session
  BY <1>1 DEF Documents, RestartEffect, LoadSecrets, EmptySecrets, SecretsFile,
              Credential
<1>3. calls' \in [Methods -> Record] /\ \A c \in Methods : calls'[c] = Idle
  BY StepsAreRecords DEF RestartEffect
<1>4. TypeOK'
  BY <1>1, <1>2, <1>3 DEF IInv, TypeOK, RestartEffect, Record
<1>5. LiveDrawn' /\ DiskDrawn'
  BY <1>1, <1>2 DEF DiskDrawn, LiveDrawn, RestartEffect
<1>6. BodiesDrawn'
  BY <1>3 DEF BodiesDrawn, Idle
<1>7. AdminApart' /\ RevokedStayRevoked'
  BY DEF AdminApart, RevokedStayRevoked, RestartEffect
<1>8. FailureBudget'
  BY LimitsAssumption DEF IInv, TypeOK, FailureBudget, RestartEffect
<1> QED
  BY <1>4, <1>5, <1>6, <1>7, <1>8 DEF IInv

\* Only the call and the disk change at the end of a save.
LEMMA SavedStep ==
    ASSUME IInv, NEW c \in Methods, NEW r \in Record, Call(c, r),
           r.pc # "saveSessions",
           disk' \in Documents,
           \A s \in disk'.sessions : s.token \in drawn,
           UNCHANGED <<now, secrets, sessions, adminSessions, failures,
                       drawn, used, revoked>>
    PROVE  IInv'
<1>1. /\ calls' \in [Methods -> Record]
      /\ calls'[c] = r
      /\ \A d \in Methods \ {c} : calls'[d] = calls[d]
  BY CallSet DEF IInv
<1>2. TypeOK'
  BY <1>1 DEF IInv, TypeOK, Record
<1>3. BodiesDrawn'
  BY <1>1 DEF IInv, BodiesDrawn
<1> QED
  BY <1>2, <1>3 DEF IInv, LiveDrawn, DiskDrawn, AdminApart,
                    RevokedStayRevoked, FailureBudget

LEMMA SaveDoneIInv ==
    ASSUME IInv, NEW c \in Methods, SaveDone(c)
    PROVE  IInv'
<1>1. /\ disk' \in Documents
      /\ \A s \in disk'.sessions : s.token \in drawn
  BY WrittenIsDrawn DEF SaveDone
<1>2. calls[c].next \in Credential
  BY Kept DEF IInv, SaveDone, Saving
<1>3. CASE calls[c].then \in {"answer", "sweep"}
  BY <1>1, <1>3, StepsAreRecords, SavedStep DEF SaveDone, Idle
<1>4. CASE calls[c].then = "revoke"
  BY <1>1, <1>4, RevokeStep DEF SaveDone, Then, Credential
<1>5. CASE calls[c].then = "revokeUnlock"
  BY <1>1, <1>2, <1>5, RevokeStep DEF SaveDone, Then
<1>6. CASE calls[c].then = "unlock"
  <2>1. [pc |-> "unlock", ok |-> calls[c].next = AdminCredential] \in Record
    BY StepsAreRecords
  <2> QED
    BY <1>1, <1>6, <2>1, SavedStep DEF SaveDone, StartUnlock
<1> QED
  BY <1>3, <1>4, <1>5, <1>6 DEF SaveDone

LEMMA SaveFailIInv ==
    ASSUME IInv, NEW c \in Methods, SaveFail(c)
    PROVE  IInv'
<1>1. CASE calls[c].then = "sweep"
  BY <1>1, RestartStep DEF SaveFail
<1>2. CASE calls[c].then # "sweep"
  <2>1. /\ disk' \in Documents
        /\ \A s \in disk'.sessions : s.token \in drawn
    BY <1>2, WrittenIsDrawn DEF SaveFail, IInv, TypeOK, DiskDrawn
  <2> QED
    BY <1>2, <2>1, StepsAreRecords, SavedStep DEF SaveFail, Idle
<1> QED
  BY <1>1, <1>2

LEMMA LockAdminIInv ==
    ASSUME IInv, NEW s \in adminSessions, LockAdmin(s)
    PROVE  IInv'
<1>1. TypeOK'
  BY DEF IInv, TypeOK, LiveDrawn, LockAdmin
<1>2. RevokedStayRevoked'
  BY DEF IInv, RevokedStayRevoked, AdminApart, LockAdmin
<1> QED
  BY <1>1, <1>2 DEF IInv, LiveDrawn, DiskDrawn, BodiesDrawn, AdminApart,
                    FailureBudget, LockAdmin

\* The clock and a damaged document.
LEMMA OutsideIInv ==
    ASSUME IInv, Tick \/ Damage
    PROVE  IInv'
<1>1. TypeOK'
  BY DEF IInv, TypeOK, Documents, Tick, Damage
<1>2. LiveDrawn' /\ DiskDrawn' /\ BodiesDrawn' /\ AdminApart'
        /\ RevokedStayRevoked'
  BY DEF IInv, TypeOK, LiveDrawn, DiskDrawn, BodiesDrawn, AdminApart,
         RevokedStayRevoked, Documents, Tick, Damage
<1>3. FailureBudget'
  BY LimitsAssumption DEF IInv, TypeOK, FailureBudget, Tick, Damage
<1> QED
  BY <1>1, <1>2, <1>3 DEF IInv

----------------------------------------------------------------------------
(* The inductive invariant *)

LEMMA InitIInv == Init => IInv
<1> SUFFICES ASSUME Init
             PROVE  IInv
  OBVIOUS
<1>1. TypeOK
  BY DEF Init, TypeOK, Documents, SecretsFile, Credential
<1>2. FailureBudget
  BY LimitsAssumption DEF Init, FailureBudget
<1> QED
  BY <1>1, <1>2 DEF Init, IInv, LiveDrawn, DiskDrawn, BodiesDrawn, Idle,
                    AdminApart, RevokedStayRevoked

LEMMA NextIInv == IInv /\ [Next]_vars => IInv'
<1> SUFFICES ASSUME IInv, [Next]_vars
             PROVE  IInv'
  OBVIOUS
<1>1. CASE Tick \/ Damage
  BY <1>1, OutsideIInv
<1>2. CASE Restart
  BY <1>2, RestartStep DEF Restart
<1>3. ASSUME NEW a \in Addresses, NEW s \in sessions, Visit(a, s)
      PROVE  IInv'
  BY <1>3, ExpiryStep DEF Visit
<1>4. ASSUME NEW s \in adminSessions, AdminVisit(s)
      PROVE  IInv'
  BY <1>4, ExpiryStep DEF AdminVisit
<1>5. ASSUME NEW s \in adminSessions, LockAdmin(s)
      PROVE  IInv'
  BY <1>5, LockAdminIInv
<1>6. ASSUME NEW c \in Calls, VisitorRequest(c) \/ ConsoleRequest(c)
      PROVE  IInv'
  BY <1>6, VisitorRequestIInv, ConsoleRequestIInv
<1>7. CASE Sweep
  BY <1>7, ExpiryStep DEF Sweep
<1>8. ASSUME NEW c \in Methods, Resume(c)
      PROVE  IInv'
  <2>1. ASSUME NEW t \in Tokens,
               LoginOk(c, t) \/ LinkIssue(c, t) \/ UnlockOk(c, t)
        PROVE  IInv'
    BY <2>1, LoginOkIInv, LinkIssueIInv, UnlockOkIInv
  <2>2. CASE LoginFail(c)
    BY <2>2, LoginFailIInv
  <2>3. CASE UnlockFail(c)
    BY <2>3, StepsAreRecords, PlainStep DEF UnlockFail, Idle, IInv, TypeOK
  <2>4. CASE SetPasswordHashed(c) \/ SetAdminPasswordHashed(c)
    BY <2>4, HashedIInv
  <2>5. CASE SaveDone(c)
    BY <2>5, SaveDoneIInv
  <2> QED
    BY <1>8, <2>1, <2>2, <2>3, <2>4, <2>5 DEF Resume
<1>9. ASSUME NEW c \in Methods, SaveFail(c)
      PROVE  IInv'
  BY <1>9, SaveFailIInv
<1>10. CASE UNCHANGED vars
  BY <1>10 DEF vars, IInv, TypeOK, LiveDrawn, DiskDrawn, BodiesDrawn,
               AdminApart, RevokedStayRevoked, FailureBudget
<1> QED
  BY <1>1, <1>2, <1>3, <1>4, <1>5, <1>6, <1>7, <1>8, <1>9, <1>10 DEF Next

\* IInv holds in every reachable state.
THEOREM Invariance == Spec => []IInv
BY InitIInv, NextIInv, PTL DEF Spec

----------------------------------------------------------------------------
(* What follows *)

\* The variables of the manager keep their types, whatever is read from disk.
THEOREM TypesHold == Spec => []TypeOK
<1>1. IInv => TypeOK
  BY DEF IInv
<1> QED
  BY <1>1, Invariance, PTL

\* An address never has maxFailedAttempts failures counted without a lockout,
\* and no lockout is longer than lockoutMs (#recordFailure).
THEOREM FailuresStayInBudget == Spec => []FailureBudget
<1>1. IInv => FailureBudget
  BY DEF IInv
<1> QED
  BY <1>1, Invariance, PTL

\* A cookie dropped by revokeAllSessions or lockAdmin is never accepted again
\* while the process lives.
THEOREM RevocationIsFinal == Spec => []RevokedStayRevoked
<1>1. IInv => RevokedStayRevoked
  BY DEF IInv
<1> QED
  BY <1>1, Invariance, PTL
----------------------------------------------------------------------------
(* Who is put out *)

\* The steps that are not a revocation, an expiry or a restart.
LEMMA OthersKeepSessions ==
    ASSUME NEW c \in Methods,
           \/ c \in Calls /\ VisitorRequest(c)
           \/ \E p \in Passwords : \/ UnlockBegin(c, p)
                                   \/ SetPasswordBegin(c, p)
                                   \/ SetAdminPasswordBegin(c, p)
           \/ \E k \in Links : EnsureLink(c, k) \/ RotateLink(c, k)
           \/ \E t \in Tokens : \/ LoginOk(c, t)
                              \/ LinkIssue(c, t)
                              \/ UnlockOk(c, t)
           \/ LoginFail(c) \/ UnlockFail(c)
           \/ SetPasswordHashed(c) \/ SetAdminPasswordHashed(c)
    PROVE  sessions \subseteq sessions'
BY DEF VisitorRequest, LoginBegin, LinkBegin, UnlockBegin, SetPasswordBegin,
       SetAdminPasswordBegin, EnsureLink, RotateLink, NewLink, LoginOk,
       LinkIssue, UnlockOk, LoginFail, UnlockFail, SetPasswordHashed,
       SetAdminPasswordHashed

LEMMA RevokeAllAccounts ==
    ASSUME NEW c, NEW then, NEW next, RevokeAll(c, then, next)
    PROVE  \A s \in sessions : s.token \in revoked'
BY DEF RevokeAll, TokensOf

\* While the process lives a visitor loses its session by expiry or by a
\* revocation only, whichever calls overlap (the rejected save of a sweep is a
\* restart).
THEOREM VisitorsKeepSessions == Spec => SessionsKept
<1> DEFINE Kept1 == \A s \in sessions :
                       s \in sessions' \/ Expired(s) \/ s.token \in revoked'
<1>1. [Next]_vars => [RestartEffect \/ Kept1]_vars
  <2> SUFFICES ASSUME Next, ~RestartEffect
               PROVE  Kept1
    OBVIOUS
  <2>1. CASE Tick \/ Restart \/ Damage
    BY <2>1 DEF Tick, Restart, Damage
  <2>2. CASE \E a \in Addresses, s \in sessions : Visit(a, s)
    BY <2>2 DEF Visit
  <2>3. CASE \E s \in adminSessions : AdminVisit(s) \/ LockAdmin(s)
    BY <2>3 DEF AdminVisit, LockAdmin
  <2>4. CASE Sweep
    BY <2>4 DEF Sweep
  <2>5. ASSUME NEW c \in Calls, VisitorRequest(c) \/ ConsoleRequest(c)
        PROVE  Kept1
    <3>1. c \in Methods
      BY DEF Methods
    <3>2. CASE RevokeBegin(c)
      BY <3>2, RevokeAllAccounts DEF RevokeBegin
    <3> QED
      BY <2>5, <3>1, <3>2, OthersKeepSessions DEF ConsoleRequest
  <2>6. ASSUME NEW c \in Methods, Resume(c) \/ SaveFail(c)
        PROVE  Kept1
    <3>1. CASE SaveDone(c)
      BY <3>1, RevokeAllAccounts DEF SaveDone
    <3> QED
      BY <2>6, <3>1, OthersKeepSessions DEF Resume, SaveFail
  <2> QED
    BY <2>1, <2>2, <2>3, <2>4, <2>5, <2>6 DEF Next
<1> QED
  BY <1>1, PTL DEF Spec, SessionsKept

----------------------------------------------------------------------------
(* Lockouts *)

\* The timer runs sweeps and nothing else.
TimerSweeps ==
    \/ calls[Timer] = Idle
    \/ calls[Timer].pc = "saveSessions" /\ calls[Timer].then = "sweep"

LEMMA TimerInvariance == Spec => [](TypeOK /\ TimerSweeps)
<1>1. Init => TimerSweeps
  BY DEF Init, TimerSweeps, Methods
<1>2. TypeOK /\ TimerSweeps /\ [Next]_vars => TimerSweeps'
  <2> SUFFICES ASSUME TypeOK, TimerSweeps, [Next]_vars
               PROVE  TimerSweeps'
    OBVIOUS
  <2> USE DEF TimerSweeps
  <2>1. Timer \in Methods /\ Timer \notin Calls
    BY ValuesAssumption DEF Methods
  <2>2. \A c \in Methods : \A r :
          Call(c, r) /\ c # Timer => calls'[Timer] = calls[Timer]
    BY <2>1 DEF Call, TypeOK
  <2>3. \A r : Call(Timer, r) => calls'[Timer] = r
    BY <2>1 DEF Call, TypeOK
  <2>4. RestartEffect => TimerSweeps'
    BY <2>1 DEF RestartEffect
  <2>5. CASE Tick \/ Restart \/ Damage \/ UNCHANGED vars
    BY <2>4, <2>5 DEF Tick, Restart, Damage, vars
  <2>6. CASE \/ \E a \in Addresses, s \in sessions : Visit(a, s)
             \/ \E s \in adminSessions : AdminVisit(s) \/ LockAdmin(s)
    BY <2>6 DEF Visit, AdminVisit, LockAdmin
  <2>7. CASE Sweep
    BY <2>3, <2>7 DEF Sweep, PersistSessions
  <2>8. ASSUME NEW c \in Calls, VisitorRequest(c) \/ ConsoleRequest(c)
        PROVE  TimerSweeps'
    <3>1. \E r : Call(c, r)
      BY <2>8 DEF VisitorRequest, LoginBegin, LinkBegin, ConsoleRequest,
                  UnlockBegin, StartUnlock, SetPasswordBegin,
                  SetAdminPasswordBegin, EnsureLink, RotateLink, NewLink,
                  SaveSecrets, RevokeBegin, RevokeAll, PersistSessions
    <3> QED
      BY <2>1, <2>2, <3>1 DEF Methods
  <2>9. ASSUME NEW c \in Methods, Resume(c) \/ SaveFail(c)
        PROVE  TimerSweeps'
    <3>1. CASE c = Timer
      BY <2>3, <2>4, <2>9, <3>1
         DEF Resume, SaveFail, SaveDone, Saving, Idle, LoginOk, LinkIssue,
             UnlockOk, LoginFail, UnlockFail, SetPasswordHashed,
             SetAdminPasswordHashed
    <3>2. CASE c # Timer
      <4>1. RestartEffect \/ \E r : Call(c, r)
        BY <2>9 DEF Resume, SaveFail, SaveDone, LoginOk, LinkIssue, UnlockOk,
                    LoginFail, UnlockFail, SetPasswordHashed,
                    SetAdminPasswordHashed, PersistSessions, SaveSecrets,
                    RevokeAll, StartUnlock
      <4> QED
        BY <2>2, <2>4, <3>2, <4>1
    <3> QED
      BY <3>1, <3>2
  <2> QED
    BY <2>5, <2>6, <2>7, <2>8, <2>9 DEF Next
<1> QED
  BY <1>1, <1>2, TypesHold, PTL DEF Spec

\* A lockout that finds no comparison under way stands until its time: no
\* comparison starts for the address and nothing touches its entry.
THEOREM QuietLockoutsHold == Spec => QuietLockoutHolds
<1> DEFINE Holds == \A a \in Addresses :
              Locked(a) /\ ~Comparing(a)
                => ~Comparing(a)' /\ failures'[a] = failures[a]
<1>1. TypeOK /\ TimerSweeps /\ [Next]_vars => [RestartEffect \/ Holds]_vars
  <2> SUFFICES ASSUME TypeOK, TimerSweeps, Next, ~RestartEffect,
                      NEW a \in Addresses, Locked(a), ~Comparing(a)
               PROVE  ~Comparing(a)' /\ failures'[a] = failures[a]
    OBVIOUS
  <2>1. \A c \in Methods : ~(calls[c].pc = "login" /\ calls[c].address = a)
    BY DEF Comparing, TimerSweeps, Methods, Idle
  <2>2. ASSUME NEW c \in Methods, NEW r, Call(c, r),
               r.pc # "login" \/ r.address # a
        PROVE  ~Comparing(a)'
    BY <2>1, <2>2 DEF Comparing, Call, TypeOK, Methods
  <2>3. ASSUME calls' = calls
        PROVE  ~Comparing(a)'
    BY <2>3 DEF Comparing
  <2>4. CASE Tick \/ Restart \/ Damage
    BY <2>3, <2>4 DEF Tick, Restart, Damage
  <2>5. CASE \/ \E b \in Addresses, s \in sessions : Visit(b, s)
             \/ \E s \in adminSessions : AdminVisit(s) \/ LockAdmin(s)
    BY <2>3, <2>5 DEF Visit, AdminVisit, LockAdmin
  <2>6. CASE Sweep
    BY <2>2, <2>3, <2>6 DEF Sweep, PersistSessions, Methods
  <2>7. ASSUME NEW c \in Calls, VisitorRequest(c)
        PROVE  ~Comparing(a)' /\ failures'[a] = failures[a]
    <3>1. ASSUME NEW b \in Addresses, NEW p \in Passwords, LoginBegin(c, b, p)
          PROVE  ~Comparing(a)' /\ failures'[a] = failures[a]
      <4>1. b # a
        BY <3>1 DEF LoginBegin
      <4> QED
        BY <2>2, <3>1, <4>1 DEF LoginBegin, Methods
    <3>2. CASE LinkBegin(c)
      BY <2>2, <3>2 DEF LinkBegin, Methods
    <3> QED
      BY <2>7, <3>1, <3>2 DEF VisitorRequest
  <2>8. ASSUME NEW c \in Calls, ConsoleRequest(c)
        PROVE  ~Comparing(a)' /\ failures'[a] = failures[a]
    BY <2>2, <2>8
       DEF ConsoleRequest, UnlockBegin, StartUnlock, SetPasswordBegin,
           SetAdminPasswordBegin, EnsureLink, RotateLink, NewLink,
           SaveSecrets, RevokeBegin, RevokeAll, PersistSessions, Methods
  <2>9. ASSUME NEW c \in Methods, LoginFail(c)
        PROVE  ~Comparing(a)' /\ failures'[a] = failures[a]
    <3>1. calls[c].address # a
      BY <2>1, <2>9 DEF LoginFail
    <3> QED
      BY <2>2, <2>9, <3>1 DEF LoginFail, Idle, TypeOK
  <2>10. ASSUME NEW c \in Methods, NEW t \in Tokens, LoginOk(c, t)
         PROVE  ~Comparing(a)' /\ failures'[a] = failures[a]
    <3>1. calls[c].address # a
      BY <2>1, <2>10 DEF LoginOk
    <3> QED
      BY <2>2, <2>10, <3>1 DEF LoginOk, PersistSessions, TypeOK
  <2>11. ASSUME NEW c \in Methods, Resume(c)
         PROVE  ~Comparing(a)' /\ failures'[a] = failures[a]
    BY <2>2, <2>9, <2>10, <2>11
       DEF Resume, LinkIssue, UnlockOk, UnlockFail, SetPasswordHashed,
           SetAdminPasswordHashed, SaveDone, PersistSessions, SaveSecrets,
           RevokeAll, StartUnlock, Idle
  <2>12. ASSUME NEW c \in Methods, SaveFail(c)
         PROVE  ~Comparing(a)' /\ failures'[a] = failures[a]
    BY <2>2, <2>12 DEF SaveFail, Idle
  <2> QED
    BY <2>4, <2>5, <2>6, <2>7, <2>8, <2>11, <2>12 DEF Next
<1> QED
  BY <1>1, TimerInvariance, PTL DEF Spec, QuietLockoutHolds

----------------------------------------------------------------------------
(* Credential changes that do not overlap                                   *)
(*                                                                         *)
(* What the comments of the repository say of a credential change is false *)
(* of overlapping ones (run AuthOldSessions): setPassword and              *)
(* setAdminPassword copy the secrets before they await the hash.  The      *)
(* theorems below say which overlap has to be kept out, and that nothing   *)
(* else does: logins, links, unlocks, revocations and the sweep may run at *)
(* any moment of a change unless a hypothesis says otherwise.              *)

Copying(r) == r.pc \in {"hash", "hashAdmin"}

Changing(r) == Copying(r) \/ r.pc = "saveSecrets"

\* While one call holds a copy of the secrets no other changes them.
CopiesApart ==
    \A c, d \in Calls : Copying(calls[c]) /\ Changing(calls[d]) => c = d

\* Changes of the secrets come one at a time, their saves included.
ChangesApart ==
    \A c, d \in Calls : Changing(calls[c]) /\ Changing(calls[d]) => c = d

\* No login is being compared while a new access password is hashed.
LoginsApart ==
    \A c, d \in Calls : ~(calls[c].pc = "login" /\ calls[d].pc = "hash")

\* The invariant of the change: a copy that waits for its hash is current.
CopyIsCurrent ==
    \A c \in Calls : Copying(calls[c]) => calls[c].spread = secrets

\* A restart that the faults allow.
Restarting ==
    /\ "save" \in Faults \/ "restart" \in Faults
    /\ disk' \in LeftBehind
    /\ RestartEffect

\* A step that starts a copy, and one that ends the save of the secrets.
CopyStep(c) ==
    \E p \in Passwords : SetPasswordBegin(c, p) \/ SetAdminPasswordBegin(c, p)

SavedSecrets(c) ==
    /\ calls[c].pc = "saveSecrets"
    /\ SaveDone(c) \/ (SaveFail(c) /\ calls[c].then # "sweep")
    /\ ~Changing(calls'[c])
    /\ \A d \in Calls \ {c} : calls'[d] = calls[d]

\* A step that has nothing to do with the secrets.
AsideStep ==
    /\ secrets' = secrets
    /\ disk'.secrets = disk.secrets \/ Damage
    /\ \A c \in Calls :
          Changing(calls[c]) \/ Changing(calls'[c]) => calls'[c] = calls[c]

LEMMA OneCall ==
    ASSUME TypeOK, NEW c \in Methods, NEW r, Call(c, r)
    PROVE  calls'[c] = r /\ \A d \in Methods \ {c} : calls'[d] = calls[d]
BY DEF TypeOK, Call

\* A call that neither was nor becomes a change of the secrets.
LEMMA AsideCall ==
    ASSUME TypeOK, NEW c \in Methods, NEW r, Call(c, r),
           ~Changing(calls[c]), ~Changing(r),
           secrets' = secrets, disk'.secrets = disk.secrets
    PROVE  AsideStep
BY OneCall DEF AsideStep, Methods

\* The end of a save.
LEMMA SavedMoves ==
    ASSUME TypeOK, TimerSweeps, NEW c \in Methods,
           SaveDone(c) \/ SaveFail(c), ~Restarting
    PROVE  (c \in Calls /\ SavedSecrets(c)) \/ AsideStep
<1>1. PICK r : Call(c, r) /\ ~Changing(r) /\ secrets' = secrets
  BY DEF SaveDone, SaveFail, Restarting, RevokeAll, PersistSessions,
         StartUnlock, Idle, Changing, Copying
<1>2. calls'[c] = r /\ \A d \in Methods \ {c} : calls'[d] = calls[d]
  BY <1>1, OneCall
<1>3. CASE calls[c].pc = "saveSecrets"
  BY <1>1, <1>2, <1>3
     DEF SavedSecrets, SaveFail, Restarting, TimerSweeps, Idle, Methods
<1>4. CASE calls[c].pc = "saveSessions"
  <2>1. disk'.secrets = disk.secrets
    BY <1>4 DEF SaveDone, SaveFail, Restarting, Written, TypeOK, Documents
  <2> QED
    BY <1>1, <1>4, <2>1, AsideCall DEF Changing, Copying
<1> QED
  BY <1>3, <1>4 DEF SaveDone, SaveFail, Saving

\* Every step, by what it does to the secrets.
LEMMA SecretsMove ==
    ASSUME TypeOK, TimerSweeps, [Next]_vars
    PROVE  \/ Restarting
           \/ \E c \in Calls : \/ SetPasswordHashed(c)
                               \/ SetAdminPasswordHashed(c)
                               \/ \E k \in Links : NewLink(c, k)
                               \/ CopyStep(c)
                               \/ SavedSecrets(c)
           \/ AsideStep
<1>1. \A c \in Calls : c \in Methods
  BY DEF Methods
<1>2. ASSUME calls' = calls, secrets' = secrets,
             disk'.secrets = disk.secrets \/ Damage
      PROVE  AsideStep
  BY <1>2 DEF AsideStep
<1>3. CASE Tick \/ Restart \/ Damage \/ UNCHANGED vars
  BY <1>2, <1>3 DEF Tick, Restart, Restarting, Damage, vars
<1>4. CASE \/ \E a \in Addresses, s \in sessions : Visit(a, s)
           \/ \E s \in adminSessions : AdminVisit(s) \/ LockAdmin(s)
  BY <1>2, <1>4 DEF Visit, AdminVisit, LockAdmin
<1>5. ASSUME NEW c \in Calls, VisitorRequest(c) \/ ConsoleRequest(c)
      PROVE  \/ \E k \in Links : NewLink(c, k)
             \/ CopyStep(c)
             \/ AsideStep
  <2>1. CASE \/ VisitorRequest(c)
             \/ \E p \in Passwords : UnlockBegin(c, p)
             \/ RevokeBegin(c)
    <3> USE <1>1, AsideCall DEF Idle, Changing, Copying
    <3>1. CASE VisitorRequest(c)
      <4>1. ASSUME NEW a \in Addresses, NEW p \in Passwords,
                   LoginBegin(c, a, p)
            PROVE  AsideStep
        BY <4>1 DEF LoginBegin
      <4>2. CASE LinkBegin(c)
        BY <4>2 DEF LinkBegin
      <4> QED
        BY <3>1, <4>1, <4>2 DEF VisitorRequest
    <3>2. ASSUME NEW p \in Passwords, UnlockBegin(c, p)
          PROVE  AsideStep
      BY <3>2 DEF UnlockBegin, StartUnlock
    <3>3. CASE RevokeBegin(c)
      BY <3>3 DEF RevokeBegin, RevokeAll, PersistSessions
    <3> QED
      BY <2>1, <3>1, <3>2, <3>3
  <2> QED
    BY <1>5, <2>1 DEF ConsoleRequest, CopyStep, EnsureLink, RotateLink
<1>6. CASE Sweep
  <2>1. CASE calls' = calls
    BY <1>2, <1>6, <2>1 DEF Sweep
  <2>2. CASE PersistSessions(Timer, sessions', "sweep", None)
    BY <1>6, <2>2, AsideCall
       DEF Sweep, PersistSessions, Idle, Changing, Copying, Methods
  <2> QED
    BY <1>6, <2>1, <2>2 DEF Sweep
<1>7. ASSUME NEW c \in Methods, Resume(c) \/ SaveFail(c), ~Restarting
      PROVE  \/ c \in Calls /\ (\/ SetPasswordHashed(c)
                                \/ SetAdminPasswordHashed(c)
                                \/ SavedSecrets(c))
             \/ AsideStep
  <2>1. CASE SaveDone(c) \/ SaveFail(c)
    BY <1>7, <2>1, SavedMoves
  <2>2. CASE SetPasswordHashed(c) \/ SetAdminPasswordHashed(c)
    BY <2>2 DEF SetPasswordHashed, SetAdminPasswordHashed, TimerSweeps, Idle,
                Methods
  <2>3. CASE \E t \in Tokens : LoginOk(c, t) \/ LinkIssue(c, t)
    BY <2>3, AsideCall
       DEF LoginOk, LinkIssue, PersistSessions, Changing, Copying
  <2>4. CASE \/ \E t \in Tokens : UnlockOk(c, t)
             \/ LoginFail(c) \/ UnlockFail(c)
    BY <2>4, AsideCall
       DEF UnlockOk, LoginFail, UnlockFail, Idle, Changing, Copying
  <2> QED
    BY <1>7, <2>1, <2>2, <2>3, <2>4 DEF Resume
<1> QED
  BY <1>3, <1>4, <1>5, <1>6, <1>7 DEF Next

LEMMA CopyIsCurrentStep ==
    ASSUME TypeOK, TimerSweeps, CopyIsCurrent, CopiesApart, CopiesApart',
           [Next]_vars
    PROVE  CopyIsCurrent'
<1> USE DEF CopyIsCurrent
<1>1. \A c \in Calls : c \in Methods
  BY DEF Methods
<1>2. CASE Restarting
  BY <1>1, <1>2 DEF Restarting, RestartEffect, Idle, Copying
<1>3. ASSUME NEW c \in Calls,
             \/ SetPasswordHashed(c)
             \/ SetAdminPasswordHashed(c)
             \/ \E k \in Links : NewLink(c, k)
      PROVE  CopyIsCurrent'
  <2>1. PICK r : Call(c, r) /\ r.pc = "saveSecrets"
    BY <1>3 DEF SetPasswordHashed, SetAdminPasswordHashed, NewLink,
                SaveSecrets
  <2>2. calls'[c] = r
    BY <1>1, <2>1, OneCall
  <2>3. ASSUME NEW d \in Calls, Copying(calls'[d])
        PROVE  FALSE
    BY <2>1, <2>2, <2>3 DEF CopiesApart, Changing, Copying
  <2> QED
    BY <2>3
<1>4. ASSUME NEW c \in Calls, CopyStep(c)
      PROVE  CopyIsCurrent'
  <2>1. PICK r : Call(c, r) /\ r.spread = secrets /\ secrets' = secrets
    BY <1>4 DEF CopyStep, SetPasswordBegin, SetAdminPasswordBegin
  <2>2. calls'[c] = r /\ \A d \in Methods \ {c} : calls'[d] = calls[d]
    BY <1>1, <2>1, OneCall
  <2> QED
    BY <1>1, <2>1, <2>2
<1>5. ASSUME NEW c \in Calls, SavedSecrets(c)
      PROVE  CopyIsCurrent'
  <2>1. secrets' = secrets
    BY <1>5 DEF SavedSecrets, SaveDone, SaveFail
  <2> QED
    BY <1>5, <2>1 DEF SavedSecrets, Changing
<1>6. CASE AsideStep
  BY <1>6 DEF AsideStep, Changing
<1> QED
  BY <1>2, <1>3, <1>4, <1>5, <1>6, SecretsMove

LEMMA CopyInvariance ==
    Spec /\ []CopiesApart => [](TypeOK /\ TimerSweeps /\ CopyIsCurrent)
<1>1. Init => CopyIsCurrent
  BY DEF Init, CopyIsCurrent, Copying, Idle, Methods
<1>2. TypeOK /\ TimerSweeps /\ CopyIsCurrent /\ CopiesApart /\ CopiesApart'
        /\ [Next]_vars => CopyIsCurrent'
  BY CopyIsCurrentStep
<1> QED
  BY <1>1, <1>2, TimerInvariance, PTL DEF Spec

\* Setting the admin password leaves the access password and the link as they
\* are, whatever faults happen, if no other change of the secrets overlaps its
\* hash: the copy it writes back is current.
THEOREM AdminChangeKeepsOthers ==
    Spec /\ []CopiesApart => OtherSecretsKept
<1> DEFINE Keeps ==
      \A c \in Calls :
          calls[c].pc = "hashAdmin" /\ calls'[c].pc = "saveSecrets"
            => /\ secrets'.password = secrets.password
               /\ secrets'.link = secrets.link
<1>1. TypeOK /\ TimerSweeps /\ CopyIsCurrent /\ [Next]_vars => [Keeps]_vars
  <2> SUFFICES ASSUME TypeOK, TimerSweeps, CopyIsCurrent, [Next]_vars,
                      NEW c \in Calls, calls[c].pc = "hashAdmin",
                      calls'[c].pc = "saveSecrets"
               PROVE  /\ secrets'.password = secrets.password
                      /\ secrets'.link = secrets.link
    OBVIOUS
  <2>1. \A d \in Calls : d \in Methods
    BY DEF Methods
  <2>2. ~Restarting
    BY <2>1 DEF Restarting, RestartEffect, Idle
  <2>3. ~AsideStep
    BY DEF AsideStep, Changing, Copying
  <2>4. \A d \in Calls : ~SavedSecrets(d)
    BY DEF SavedSecrets
  <2>5. ASSUME NEW d \in Calls, NEW r, Call(d, r)
        PROVE  d = c
    BY <2>1, <2>5, OneCall
  <2>6. ASSUME NEW d \in Calls,
               \/ SetPasswordHashed(d)
               \/ \E k \in Links : NewLink(d, k)
               \/ CopyStep(d)
        PROVE  FALSE
    <3>1. \E r : Call(d, r)
      BY <2>6 DEF SetPasswordHashed, NewLink, CopyStep, SetPasswordBegin,
                  SetAdminPasswordBegin, SaveSecrets
    <3>2. calls[d].pc = "hash" \/ calls[d] = Idle
      BY <2>6 DEF SetPasswordHashed, NewLink, CopyStep, SetPasswordBegin,
                  SetAdminPasswordBegin
    <3> QED
      BY <2>5, <3>1, <3>2 DEF Idle
  <2>7. PICK d \in Calls : SetAdminPasswordHashed(d)
    BY <2>2, <2>3, <2>4, <2>6, SecretsMove
  <2>8. d = c
    BY <2>5, <2>7 DEF SetAdminPasswordHashed, SaveSecrets
  <2>9. secrets' = [secrets EXCEPT !.adminPassword = calls[c].next]
    BY <2>7, <2>8 DEF SetAdminPasswordHashed, CopyIsCurrent, Copying
  <2> QED
    BY <2>9 DEF TypeOK, SecretsFile
<1> QED
  BY <1>1, CopyInvariance, PTL DEF Spec, OtherSecretsKept

\* The invariant of a save: memory and the document on its way agree, and a
\* document nobody is saving is on disk.
DiskFollows ==
    /\ disk.secrets \in SecretsFile
    /\ \A c \in Calls : calls[c].pc = "saveSecrets" => calls[c].body = secrets
    /\ (\A c \in Calls : calls[c].pc # "saveSecrets") => disk.secrets = secrets

LEMMA DiskFollowsStep ==
    ASSUME "save" \notin Faults, "damage" \notin Faults, TypeOK, TimerSweeps,
           DiskFollows, ChangesApart, ChangesApart', [Next]_vars
    PROVE  DiskFollows'
<1> USE DEF DiskFollows
<1>1. \A c \in Calls : c \in Methods
  BY DEF Methods
<1>2. CASE Restarting
  <2>1. disk'.secrets \in SecretsFile
    <3>1. CASE disk' = disk
      BY <3>1
    <3>2. ASSUME NEW c \in Methods, Saving(c), disk' = Written(c)
          PROVE  disk'.secrets \in SecretsFile
      BY <3>2 DEF Written, Saving, TypeOK, Documents, TimerSweeps, Idle, Methods
    <3> QED BY <1>2, <3>1, <3>2 DEF Restarting, LeftBehind
  <2>2. secrets' = disk'.secrets
    BY <1>2, <2>1, DamageAssumption DEF Restarting, RestartEffect, LoadSecrets
  <2> QED BY <1>1, <1>2, <2>1, <2>2 DEF Restarting, RestartEffect, Idle
<1>3. ASSUME NEW c \in Calls, NEW r, Call(c, r), r.pc = "saveSecrets",
             r.body = secrets', disk' = disk
      PROVE  DiskFollows'
  <2>1. calls'[c] = r
    BY <1>1, <1>3, OneCall
  <2>2. \A d \in Calls : calls'[d].pc = "saveSecrets" => d = c
    BY <1>3, <2>1 DEF ChangesApart, Changing
  <2> QED
    BY <1>3, <2>1, <2>2
<1>4. ASSUME NEW c \in Calls,
             \/ SetPasswordHashed(c)
             \/ SetAdminPasswordHashed(c)
             \/ \E k \in Links : NewLink(c, k)
      PROVE  DiskFollows'
  BY <1>3, <1>4 DEF SetPasswordHashed, SetAdminPasswordHashed, NewLink,
                    SaveSecrets
<1>5. ASSUME NEW c \in Calls, CopyStep(c)
      PROVE  DiskFollows'
  <2>1. PICK r : /\ Call(c, r) /\ r.pc # "saveSecrets"
                 /\ calls[c] = Idle /\ secrets' = secrets /\ disk' = disk
    BY <1>5 DEF CopyStep, SetPasswordBegin, SetAdminPasswordBegin
  <2>2. calls'[c] = r /\ \A d \in Methods \ {c} : calls'[d] = calls[d]
    BY <1>1, <2>1, OneCall
  <2> QED
    BY <1>1, <2>1, <2>2 DEF Idle
<1>6. ASSUME NEW c \in Calls, SavedSecrets(c)
      PROVE  DiskFollows'
  <2>1. SaveDone(c)
    BY <1>6 DEF SavedSecrets, SaveFail
  <2>2. disk'.secrets = calls[c].body /\ secrets' = secrets
    BY <1>6, <2>1 DEF SaveDone, SavedSecrets, Written, TypeOK
  <2>3. \A d \in Calls : calls'[d].pc # "saveSecrets"
    BY <1>6 DEF SavedSecrets, ChangesApart, Changing
  <2>4. secrets \in SecretsFile
    BY DEF TypeOK
  <2> QED
    BY <1>6, <2>2, <2>3, <2>4, DamageAssumption DEF SavedSecrets
<1>7. CASE AsideStep
  <2>1. disk'.secrets = disk.secrets /\ secrets' = secrets
    BY <1>7 DEF AsideStep, Damage
  <2>2. \A c \in Calls :
           \/ calls[c].pc = "saveSecrets"
           \/ calls'[c].pc = "saveSecrets"
           => calls'[c] = calls[c]
    BY <1>7 DEF AsideStep, Changing
  <2> QED
    BY <2>1, <2>2
<1> QED
  BY <1>2, <1>4, <1>5, <1>6, <1>7, SecretsMove

\* With changes one at a time and no failing write, whatever else overlaps
\* them and however often the process restarts, the secrets on disk are those
\* in memory when no save is under way: an answered change survives.
THEOREM AnsweredSecretsSurvive ==
    ASSUME "save" \notin Faults, "damage" \notin Faults
    PROVE  Spec /\ []ChangesApart => []SecretsDurable
<1>1. Init => DiskFollows
  <2> SUFFICES ASSUME Init
               PROVE  DiskFollows
    OBVIOUS
  <2>1. secrets \in SecretsFile /\ disk.secrets = secrets
    BY DEF Init, SecretsFile, Credential
  <2>2. \A c \in Calls : calls[c].pc = "idle"
    BY DEF Init, Idle, Methods
  <2> QED
    BY <2>1, <2>2, DamageAssumption DEF DiskFollows
<1>2. TypeOK /\ TimerSweeps /\ DiskFollows /\ ChangesApart /\ ChangesApart'
        /\ [Next]_vars => DiskFollows'
  BY DiskFollowsStep
<1>3. DiskFollows => SecretsDurable
  BY DEF DiskFollows, SecretsDurable
<1> QED
  BY <1>1, <1>2, <1>3, TimerInvariance, PTL DEF Spec

\* A change of the access password that has still to drop the sessions.
Revoking ==
    \E c \in Calls : /\ calls[c].pc = "saveSecrets"
                    /\ calls[c].then \in {"revoke", "revokeUnlock"}

\* The invariant of a password change: a comparison that will succeed was made
\* with the present password, and a session of another password lives only
\* until the change that is under way drops it.
PasswordsCurrent ==
    /\ \A c \in Calls : calls[c].pc = "login" /\ calls[c].ok
                           => calls[c].basis = secrets.password
    /\ ~Revoking => \A s \in sessions : s.basis \in {None, secrets.password}

\* Where a session and a comparison come from.
LEMMA SessionSources ==
    ASSUME TypeOK, TimerSweeps, [Next]_vars, ~Restarting
    PROVE  /\ \A s \in sessions' :
                 \/ s \in sessions
                 \/ s.basis = None
                 \/ \E c \in Calls : /\ calls[c].pc = "login" /\ calls[c].ok
                                     /\ s.basis = calls[c].basis
           /\ \A c \in Calls :
                 calls'[c].pc = "login" /\ calls'[c] # calls[c]
                   => /\ calls'[c].ok => calls'[c].basis = secrets.password
                      /\ secrets' = secrets
<1> DEFINE Sessions == \A s \in sessions' :
                 \/ s \in sessions
                 \/ s.basis = None
                 \/ \E c \in Calls : /\ calls[c].pc = "login" /\ calls[c].ok
                                     /\ s.basis = calls[c].basis
           Logins == \A c \in Calls :
                 calls'[c].pc = "login" /\ calls'[c] # calls[c]
                   => /\ calls'[c].ok => calls'[c].basis = secrets.password
                      /\ secrets' = secrets
<1>1. \A c \in Calls : c \in Methods
  BY DEF Methods
<1> SUFFICES Sessions /\ Logins
  OBVIOUS
<1>2. ASSUME calls' = calls
      PROVE  Logins
  BY <1>2
<1>3. ASSUME NEW c \in Methods, NEW r, Call(c, r), r.pc # "login"
      PROVE  Logins
  BY <1>1, <1>3, OneCall
<1>4. ASSUME sessions' \subseteq sessions
      PROVE  Sessions
  BY <1>4
<1> HIDE DEF Sessions, Logins
<1>5. CASE Tick \/ Restart \/ Damage \/ UNCHANGED vars
  BY <1>2, <1>4, <1>5 DEF Tick, Restart, Restarting, Damage, vars
<1>6. CASE \/ \E a \in Addresses, s \in sessions : Visit(a, s)
           \/ \E s \in adminSessions : AdminVisit(s) \/ LockAdmin(s)
  BY <1>2, <1>4, <1>6 DEF Visit, AdminVisit, LockAdmin
<1>7. CASE Sweep
  <2>1. Timer \in Methods /\ sessions' \subseteq sessions
    BY <1>7 DEF Methods, Sweep
  <2>2. CASE calls' = calls
    BY <1>2, <1>4, <2>1, <2>2
  <2>3. CASE PersistSessions(Timer, sessions', "sweep", None)
    BY <1>3, <1>4, <2>1, <2>3 DEF PersistSessions
  <2> QED
    BY <1>7, <2>2, <2>3 DEF Sweep
<1>8. ASSUME NEW c \in Calls, VisitorRequest(c) \/ ConsoleRequest(c)
      PROVE  Sessions /\ Logins
  <2>1. Sessions
    BY <1>4, <1>8 DEF VisitorRequest, LoginBegin, LinkBegin, ConsoleRequest,
                      UnlockBegin, SetPasswordBegin, SetAdminPasswordBegin,
                      EnsureLink, RotateLink, NewLink, RevokeBegin, RevokeAll
  <2>2. ASSUME NEW a \in Addresses, NEW p \in Passwords, LoginBegin(c, a, p)
        PROVE  Logins
    <3> DEFINE r == [pc |-> "login", address |-> a, at |-> now,
                     ok |-> p = secrets.password, basis |-> p]
    <3>1. Call(c, r) /\ secrets' = secrets
      BY <2>2 DEF LoginBegin
    <3>2. r.ok => r.basis = secrets.password
      OBVIOUS
    <3> HIDE DEF r
    <3> QED
      BY <1>1, <3>1, <3>2, OneCall DEF Logins
  <2>3. CASE LinkBegin(c) \/ ConsoleRequest(c)
    <3> USE <1>1, <1>3, <2>1
    <3>1. CASE LinkBegin(c)
      BY <3>1 DEF LinkBegin
    <3>2. ASSUME NEW p \in Passwords, UnlockBegin(c, p)
          PROVE  Logins
      BY <3>2 DEF UnlockBegin, StartUnlock
    <3>3. CASE CopyStep(c)
      BY <3>3 DEF CopyStep, SetPasswordBegin, SetAdminPasswordBegin
    <3>4. ASSUME NEW k \in Links, NewLink(c, k)
          PROVE  Logins
      BY <3>4 DEF NewLink, SaveSecrets
    <3>5. CASE RevokeBegin(c)
      BY <3>5 DEF RevokeBegin, RevokeAll, PersistSessions
    <3> QED
      BY <2>3, <3>1, <3>2, <3>3, <3>4, <3>5
         DEF ConsoleRequest, CopyStep, EnsureLink, RotateLink
  <2> QED
    BY <1>8, <2>1, <2>2, <2>3 DEF VisitorRequest
<1>9. ASSUME NEW c \in Methods, Resume(c) \/ SaveFail(c)
      PROVE  Sessions /\ Logins
  <2>1. Logins
    BY <1>3, <1>9
       DEF Resume, SaveFail, Restarting, SaveDone, LoginOk, LinkIssue,
           UnlockOk, LoginFail, UnlockFail, SetPasswordHashed,
           SetAdminPasswordHashed, SaveSecrets, RevokeAll, PersistSessions,
           StartUnlock, Idle
  <2>2. ASSUME NEW t \in Tokens, LoginOk(c, t)
        PROVE  Sessions
    <3>1. c \in Calls
      BY <2>2 DEF LoginOk, TimerSweeps, Idle, Methods
    <3> QED
      BY <2>2, <3>1 DEF LoginOk, Sessions
  <2>3. ASSUME NEW t \in Tokens, LinkIssue(c, t)
        PROVE  Sessions
    BY <2>3 DEF LinkIssue, Sessions
  <2>4. CASE \/ \E t \in Tokens : UnlockOk(c, t)
             \/ LoginFail(c) \/ UnlockFail(c)
             \/ SetPasswordHashed(c) \/ SetAdminPasswordHashed(c)
             \/ SaveDone(c) \/ SaveFail(c)
    <3>1. sessions' \subseteq sessions
      BY <2>4 DEF UnlockOk, LoginFail, UnlockFail, SetPasswordHashed,
                  SetAdminPasswordHashed, SaveDone, SaveFail, Restarting,
                  RevokeAll
    <3> QED
      BY <1>4, <2>1, <3>1
  <2> QED
    BY <1>9, <2>1, <2>2, <2>3, <2>4 DEF Resume
<1> QED
  BY <1>5, <1>6, <1>7, <1>8, <1>9 DEF Next

\* Comparisons that were and stay under way keep the password they matched.
LEMMA LoginsStayCurrent ==
    ASSUME TypeOK, TimerSweeps, [Next]_vars, ~Restarting, PasswordsCurrent,
           secrets'.password = secrets.password
    PROVE  \A c \in Calls : calls'[c].pc = "login" /\ calls'[c].ok
                              => calls'[c].basis = secrets'.password
BY SessionSources DEF PasswordsCurrent

\* Sessions gained while the password stays are of the present password.
LEMMA SessionsStayCurrent ==
    ASSUME TypeOK, TimerSweeps, [Next]_vars, ~Restarting, PasswordsCurrent,
           ~Revoking, secrets'.password = secrets.password
    PROVE  \A s \in sessions' : s.basis \in {None, secrets'.password}
BY SessionSources DEF PasswordsCurrent

LEMMA PasswordsCurrentStep ==
    ASSUME "save" \notin Faults, "restart" \notin Faults, TypeOK, TimerSweeps,
           CopyIsCurrent, PasswordsCurrent, LoginsApart, [Next]_vars
    PROVE  PasswordsCurrent'
<1>1. \A c \in Calls : c \in Methods
  BY DEF Methods
<1>2. ~Restarting
  BY DEF Restarting
<1>4. ASSUME secrets'.password = secrets.password,
             Revoking => Revoking'
      PROVE  PasswordsCurrent'
  BY <1>2, <1>4, LoginsStayCurrent, SessionsStayCurrent DEF PasswordsCurrent
<1>5. ASSUME NEW c \in Calls, NEW r, Call(c, r),
             calls[c].pc # "saveSecrets" \/ calls[c].then = "answer"
      PROVE  Revoking => Revoking'
  <2>1. calls'[c] = r /\ \A d \in Methods \ {c} : calls'[d] = calls[d]
    BY <1>1, <1>5, OneCall
  <2> QED
    BY <1>1, <1>5, <2>1 DEF Revoking
<1>6. ASSUME NEW c \in Calls, SetPasswordHashed(c)
      PROVE  PasswordsCurrent'
  <2> DEFINE r == [pc |-> "saveSecrets", body |-> secrets',
                   then |-> IF calls[c].bootstrap THEN "revokeUnlock"
                                                  ELSE "revoke",
                   next |-> calls[c].next]
  <2>1. Call(c, r) /\ calls[c].pc = "hash"
    BY <1>6 DEF SetPasswordHashed, SaveSecrets
  <2>2. r.pc = "saveSecrets" /\ r.then \in {"revoke", "revokeUnlock"}
    OBVIOUS
  <2> HIDE DEF r
  <2>3. calls'[c] = r /\ \A d \in Methods \ {c} : calls'[d] = calls[d]
    BY <1>1, <2>1, OneCall
  <2>4. Revoking'
    BY <2>2, <2>3 DEF Revoking
  <2>5. \A d \in Calls : calls'[d].pc # "login"
    BY <1>1, <2>1, <2>2, <2>3 DEF LoginsApart
  <2> QED
    BY <2>4, <2>5 DEF PasswordsCurrent
<1>7. ASSUME NEW c \in Calls, SetAdminPasswordHashed(c)
      PROVE  PasswordsCurrent'
  <2>1. calls[c].pc = "hashAdmin" /\ \E r : Call(c, r)
    BY <1>7 DEF SetAdminPasswordHashed, SaveSecrets
  <2>2. secrets' = [secrets EXCEPT !.adminPassword = calls[c].next]
    BY <1>7 DEF SetAdminPasswordHashed, CopyIsCurrent, Copying
  <2>3. secrets'.password = secrets.password
    BY <2>2 DEF TypeOK, SecretsFile
  <2> QED
    BY <1>4, <1>5, <2>1, <2>3
<1>8. ASSUME NEW c \in Calls, NEW k \in Links, NewLink(c, k)
      PROVE  PasswordsCurrent'
  <2>1. calls[c].pc = "idle" /\ \E r : Call(c, r)
    BY <1>8 DEF NewLink, SaveSecrets, Idle
  <2>2. secrets'.password = secrets.password
    BY <1>8 DEF NewLink, TypeOK, SecretsFile
  <2> QED
    BY <1>4, <1>5, <2>1, <2>2
<1>9. ASSUME NEW c \in Calls, CopyStep(c)
      PROVE  PasswordsCurrent'
  <2>1. calls[c].pc = "idle" /\ (\E r : Call(c, r)) /\ secrets' = secrets
    BY <1>9 DEF CopyStep, SetPasswordBegin, SetAdminPasswordBegin, Idle
  <2> QED
    BY <1>4, <1>5, <2>1
<1>10. ASSUME NEW c \in Calls, SavedSecrets(c)
       PROVE  PasswordsCurrent'
  <2>1. SaveDone(c) /\ secrets' = secrets
    BY <1>10 DEF SavedSecrets, SaveDone, SaveFail
  <2>2. CASE calls[c].then \in {"revoke", "revokeUnlock"}
    <3>1. sessions' = {}
      BY <2>1, <2>2 DEF SaveDone, RevokeAll
    <3> QED
      BY <1>2, <2>1, <3>1, LoginsStayCurrent DEF PasswordsCurrent
  <2>3. CASE calls[c].then \notin {"revoke", "revokeUnlock"}
    <3>1. Revoking => Revoking'
      BY <1>10, <2>3 DEF SavedSecrets, Revoking
    <3> QED
      BY <1>4, <2>1, <3>1
  <2> QED
    BY <2>2, <2>3
<1>11. CASE AsideStep
  <2>1. Revoking => Revoking'
    BY <1>11 DEF AsideStep, Revoking, Changing
  <2> QED
    BY <1>4, <1>11, <2>1 DEF AsideStep
<1> QED
  BY <1>2, <1>6, <1>7, <1>8, <1>9, <1>10, <1>11, SecretsMove

\* Once a change of the access password is complete no session minted from
\* another password is held, if no write fails, the process does not restart
\* between the two saves of the change, no other change overlaps its hash and
\* no login is being compared when the hash is ready.
THEOREM OldSessionsGo ==
    ASSUME "save" \notin Faults, "restart" \notin Faults
    PROVE  Spec /\ []CopiesApart /\ []LoginsApart => []OldSessionsAreGone
<1>1. Init => PasswordsCurrent
  BY DEF Init, PasswordsCurrent, Idle, Methods
<1>2. TypeOK /\ TimerSweeps /\ CopyIsCurrent /\ PasswordsCurrent /\ LoginsApart
        /\ [Next]_vars => PasswordsCurrent'
  BY PasswordsCurrentStep
<1>3. PasswordsCurrent => OldSessionsAreGone
  BY DEF PasswordsCurrent, OldSessionsAreGone, PasswordChanging, Revoking
<1> QED
  BY <1>1, <1>2, <1>3, CopyInvariance, PTL DEF Spec

----------------------------------------------------------------------------
(* The manager implements the ledger of its cookies                         *)

LEMMA InStored ==
    \A t : t \in StoredTokens <=>
        \/ \E s \in disk.sessions : s.token = t
        \/ \E c \in Methods : /\ calls[c].pc = "saveSessions"
                             /\ \E s \in calls[c].body : s.token = t
BY DEF StoredTokens, TokensOf

LEMMA InStoredNext ==
    \A t : t \in StoredTokens' <=>
        \/ \E s \in disk'.sessions : s.token = t
        \/ \E c \in Methods : /\ calls'[c].pc = "saveSessions"
                             /\ \E s \in calls'[c].body : s.token = t
BY DEF StoredTokens, TokensOf

\* A call that saves B, or that ends its save, stores nothing else.
LEMMA StoredStep ==
    ASSUME TypeOK, NEW c \in Methods, NEW r, Call(c, r), NEW B,
           r.pc = "saveSessions" => r.body = B,
           \/ disk'.sessions = disk.sessions
           \/ /\ calls[c].pc = "saveSessions"
              /\ disk'.sessions = calls[c].body
    PROVE  StoredTokens' \subseteq StoredTokens \cup TokensOf(B)
<1>1. calls'[c] = r /\ \A d \in Methods \ {c} : calls'[d] = calls[d]
  BY OneCall
<1>2. SUFFICES ASSUME NEW t \in StoredTokens', t \notin TokensOf(B)
               PROVE  t \in StoredTokens
  OBVIOUS
<1>3. CASE \E s \in disk'.sessions : s.token = t
  BY <1>3, InStored
<1>4. CASE \E d \in Methods : /\ calls'[d].pc = "saveSessions"
                            /\ \E s \in calls'[d].body : s.token = t
  <2>1. PICK d \in Methods : /\ calls'[d].pc = "saveSessions"
                             /\ \E s \in calls'[d].body : s.token = t
    BY <1>4
  <2>2. d # c
    BY <1>1, <1>2, <2>1 DEF TokensOf
  <2> QED
    BY <1>1, <2>1, <2>2, InStored
<1> QED
  BY <1>3, <1>4, InStoredNext

LEMMA StoredSame ==
    ASSUME calls' = calls, disk'.sessions \subseteq disk.sessions
    PROVE  StoredTokens' \subseteq StoredTokens
BY InStored, InStoredNext

\* Steps that give out nothing.
LEMMA LedgerDrop ==
    ASSUME sessions' \subseteq sessions, adminSessions' \subseteq adminSessions,
           StoredTokens' \subseteq StoredTokens \cup TokensOf(sessions),
           drawn' = drawn
    PROVE  Ledger!Next
BY DEF Ledger!Next, Ledger!Drop, TokensOf

LEMMA LedgerDropCall ==
    ASSUME TypeOK, NEW c \in Methods, NEW r, Call(c, r),
           NEW B \in SUBSET sessions,
           r.pc = "saveSessions" => r.body = B,
           \/ disk'.sessions = disk.sessions
           \/ /\ calls[c].pc = "saveSessions"
              /\ disk'.sessions = calls[c].body,
           sessions' \subseteq sessions, adminSessions' \subseteq adminSessions,
           drawn' = drawn
    PROVE  Ledger!Next
<1>1. StoredTokens' \subseteq StoredTokens \cup TokensOf(B)
  BY StoredStep
<1>2. TokensOf(B) \subseteq TokensOf(sessions)
  BY DEF TokensOf
<1> QED
  BY <1>1, <1>2, LedgerDrop

LEMMA LedgerRestart ==
    ASSUME disk' \in LeftBehind, RestartEffect, TypeOK
    PROVE  Ledger!Next
<1>0. TokensOf(disk'.sessions) \subseteq StoredTokens
  <2>1. CASE disk' = disk
    BY <2>1, InStored DEF TokensOf
  <2>2. ASSUME NEW c \in Methods, Saving(c), disk' = Written(c)
        PROVE  TokensOf(disk'.sessions) \subseteq StoredTokens
    BY <2>2, InStored DEF Written, Saving, TypeOK, Documents, TokensOf
  <2> QED BY <2>1, <2>2 DEF LeftBehind
<1>1. TokensOf(sessions)' \subseteq StoredTokens
  BY <1>0 DEF RestartEffect, TokensOf
<1>2. TokensOf(adminSessions)' = {}
  BY DEF RestartEffect, TokensOf
<1>3. StoredTokens' \subseteq StoredTokens
  BY <1>0, InStoredNext DEF RestartEffect, Idle, TokensOf
<1> QED
  BY <1>1, <1>2, <1>3 DEF Ledger!Next, Ledger!Restart, RestartEffect

\* A visitor's cookie is given out and the sessions with it are saved.
LEMMA LedgerIssue ==
    ASSUME TypeOK, NEW c \in Methods, NEW t \in Tokens, Fresh(t), NEW s,
           s.token = t, sessions' = sessions \cup {s}, drawn' = drawn \cup {t},
           PersistSessions(c, sessions', "answer", None),
           UNCHANGED <<adminSessions, disk>>
    PROVE  Ledger!Next
<1>1. StoredTokens' \subseteq StoredTokens \cup TokensOf(sessions')
  BY StoredStep DEF PersistSessions
<1>2. TokensOf(sessions)' = TokensOf(sessions) \cup {t}
  BY DEF TokensOf
<1>3. TokensOf(sessions') = TokensOf(sessions)'
  BY DEF TokensOf
<1>4. TokensOf(adminSessions)' = TokensOf(adminSessions)
  BY DEF TokensOf
<1> QED
  BY <1>1, <1>2, <1>3, <1>4 DEF Ledger!Next, Ledger!Issue, Fresh

LEMMA LedgerUnlock ==
    ASSUME TypeOK, NEW c \in Methods, NEW t \in Tokens, UnlockOk(c, t)
    PROVE  Ledger!Next
<1>1. StoredTokens' \subseteq StoredTokens
  <2>1. StoredTokens' \subseteq StoredTokens \cup TokensOf({})
    BY StoredStep DEF UnlockOk, Idle
  <2> QED
    BY <2>1 DEF TokensOf
<1>2. TokensOf(adminSessions)' = TokensOf(adminSessions) \cup {t}
  <2> DEFINE s == [token |-> t, expires |-> now + AdminMaxAge]
  <2>1. adminSessions' = adminSessions \cup {s} /\ s.token = t
    BY DEF UnlockOk
  <2> HIDE DEF s
  <2> QED
    BY <2>1 DEF TokensOf
<1>3. TokensOf(sessions)' = TokensOf(sessions)
  BY DEF UnlockOk, TokensOf
<1> QED
  BY <1>1, <1>2, <1>3 DEF Ledger!Next, Ledger!Unlock, UnlockOk, Fresh

LEMMA LedgerSave ==
    ASSUME TypeOK, NEW c \in Methods, SaveDone(c) \/ SaveFail(c)
    PROVE  Ledger!Next
<1>1. CASE RestartEffect
  <2>1. disk' \in LeftBehind
    BY DEF SaveDone, SaveFail, Saving, LeftBehind
  <2> QED BY <1>1, <2>1, LedgerRestart
<1>2. CASE ~RestartEffect
  <2>1. PICK r : Call(c, r) /\ (r.pc = "saveSessions" => r.body = {})
    BY <1>2 DEF SaveDone, SaveFail, RevokeAll, PersistSessions, StartUnlock,
                Idle
  <2>2. /\ sessions' \subseteq sessions
        /\ adminSessions' \subseteq adminSessions
        /\ drawn' = drawn
    BY <1>2 DEF SaveDone, SaveFail, RevokeAll
  <2>3. \/ disk'.sessions = disk.sessions
        \/ /\ calls[c].pc = "saveSessions"
           /\ disk'.sessions = calls[c].body
    BY <1>2 DEF SaveDone, SaveFail, Saving, Written, TypeOK, Documents
  <2> QED
    BY <2>1, <2>2, <2>3, LedgerDropCall
<1> QED
  BY <1>1, <1>2

LEMMA LedgerRequest ==
    ASSUME TypeOK, NEW c \in Calls, VisitorRequest(c) \/ ConsoleRequest(c)
    PROVE  Ledger!Next
<1>1. c \in Methods /\ {} \in SUBSET sessions
  BY DEF Methods
<1>2. ASSUME NEW r, Call(c, r), r.pc = "saveSessions" => r.body = {},
             disk' = disk, sessions' \subseteq sessions,
             adminSessions' \subseteq adminSessions, drawn' = drawn
      PROVE  Ledger!Next
  BY <1>1, <1>2, LedgerDropCall
<1>3. CASE VisitorRequest(c)
  BY <1>2, <1>3 DEF VisitorRequest, LoginBegin, LinkBegin
<1>4. ASSUME NEW p \in Passwords, UnlockBegin(c, p)
      PROVE  Ledger!Next
  BY <1>2, <1>4 DEF UnlockBegin, StartUnlock
<1>5. CASE CopyStep(c)
  BY <1>2, <1>5 DEF CopyStep, SetPasswordBegin, SetAdminPasswordBegin
<1>6. ASSUME NEW k \in Links, NewLink(c, k)
      PROVE  Ledger!Next
  BY <1>2, <1>6 DEF NewLink, SaveSecrets
<1>7. CASE RevokeBegin(c)
  BY <1>2, <1>7 DEF RevokeBegin, RevokeAll, PersistSessions
<1> QED
  BY <1>3, <1>4, <1>5, <1>6, <1>7
     DEF ConsoleRequest, CopyStep, EnsureLink, RotateLink

LEMMA LedgerStep ==
    TypeOK /\ [Next]_vars => Ledger!Next
<1> SUFFICES ASSUME TypeOK, [Next]_vars
             PROVE  Ledger!Next
  OBVIOUS
<1>1. CASE Tick \/ Damage \/ UNCHANGED vars
  <2>1. /\ UNCHANGED <<sessions, adminSessions, calls, drawn>>
        /\ disk'.sessions \subseteq disk.sessions
    BY <1>1 DEF Tick, Damage, vars, TypeOK, Documents
  <2> QED BY <2>1, StoredSame, LedgerDrop
<1>2. CASE Restart
  BY <1>2, LedgerRestart DEF Restart
<1>3. CASE \/ \E a \in Addresses, s \in sessions : Visit(a, s)
           \/ \E s \in adminSessions : AdminVisit(s) \/ LockAdmin(s)
  BY <1>3, StoredSame, LedgerDrop DEF Visit, AdminVisit, LockAdmin
<1>4. CASE Sweep
  <2>1. /\ sessions' \in SUBSET sessions
        /\ adminSessions' \subseteq adminSessions
        /\ drawn' = drawn /\ disk' = disk /\ Timer \in Methods
    BY <1>4 DEF Sweep, Methods
  <2>2. CASE calls' = calls
    BY <2>1, <2>2, StoredSame, LedgerDrop
  <2>3. CASE PersistSessions(Timer, sessions', "sweep", None)
    BY <2>1, <2>3, LedgerDropCall DEF PersistSessions
  <2> QED
    BY <1>4, <2>2, <2>3 DEF Sweep
<1>5. ASSUME NEW c \in Calls, VisitorRequest(c) \/ ConsoleRequest(c)
      PROVE  Ledger!Next
  BY <1>5, LedgerRequest
<1>6. ASSUME NEW c \in Methods, Resume(c) \/ SaveFail(c)
      PROVE  Ledger!Next
  <2>1. ASSUME NEW t \in Tokens, LoginOk(c, t)
        PROVE  Ledger!Next
    BY <2>1, LedgerIssue DEF LoginOk
  <2>2. ASSUME NEW t \in Tokens, LinkIssue(c, t)
        PROVE  Ledger!Next
    BY <2>2, LedgerIssue DEF LinkIssue
  <2>3. ASSUME NEW t \in Tokens, UnlockOk(c, t)
        PROVE  Ledger!Next
    BY <2>3, LedgerUnlock
  <2>4. ASSUME NEW r, Call(c, r), r.pc # "saveSessions", disk' = disk,
               UNCHANGED <<sessions, adminSessions, drawn>>
        PROVE  Ledger!Next
    <3>1. {} \in SUBSET sessions
      OBVIOUS
    <3> QED
      BY <2>4, <3>1, LedgerDropCall
  <2>5. CASE \/ LoginFail(c) \/ UnlockFail(c)
             \/ SetPasswordHashed(c) \/ SetAdminPasswordHashed(c)
    BY <2>4, <2>5 DEF LoginFail, UnlockFail, SetPasswordHashed,
                      SetAdminPasswordHashed, SaveSecrets, Idle
  <2>6. CASE SaveDone(c) \/ SaveFail(c)
    BY <2>6, LedgerSave
  <2> QED
    BY <1>6, <2>1, <2>2, <2>3, <2>5, <2>6 DEF Resume
<1> QED
  BY <1>1, <1>2, <1>3, <1>4, <1>5, <1>6 DEF Next

\* The manager keeps the promise of SessionLedger for any number of calls,
\* faults and restarts: a cookie value is accepted only after it was given out,
\* is given out once, and comes back by a restart only if it was stored.
THEOREM ImplementsLedger == Spec => LedgerSpec
<1>1. Init => Ledger!Init
  BY DEF Init, Ledger!Init, StoredTokens, TokensOf, Idle
<1>2. TypeOK /\ [Next]_vars => [Ledger!Next]_(Ledger!ledgerVars)
  BY LedgerStep
<1> QED
  BY <1>1, <1>2, TypesHold, PTL DEF Spec, LedgerSpec, Ledger!Spec

\* What holds of the ledger holds of the manager: no value is ever both a
\* visitor's and a console's, not even through the documents a restart reads,
\* and whatever is accepted or stored was given out.
THEOREM CookieKindsApart == Spec => [](Ledger!KindsApart /\ Ledger!Given)
<1> DEFINE Apart == Ledger!KindsApart /\ Ledger!Given
<1> USE DEF Ledger!KindsApart, Ledger!Given
<1>1. Ledger!Init => Apart
  BY DEF Ledger!Init
<1>2. Apart /\ [Ledger!Next]_(Ledger!ledgerVars) => Apart'
  BY DEF Ledger!Next, Ledger!Issue, Ledger!Unlock, Ledger!Drop,
         Ledger!Restart, Ledger!ledgerVars
<1> HIDE DEF Apart
<1>3. Ledger!Spec => []Apart
  BY <1>1, <1>2, PTL DEF Ledger!Spec
<1> QED
  BY <1>3, ImplementsLedger, PTL DEF LedgerSpec, Apart
============================================================================
