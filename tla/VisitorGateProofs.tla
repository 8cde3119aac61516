------------------------- MODULE VisitorGateProofs -------------------------
(***************************************************************************)
(* Proofs about VisitorGate, for any browsers, background requests,        *)
(* identities, modes and number of events.                                 *)
(***************************************************************************)
EXTENDS VisitorGate, TLAPS

CallRecord == {Idle} \cup Suspended

LEMMA CallSet ==
    ASSUME TypeOK, NEW c \in Callers, NEW r \in CallRecord, Call(c, r)
    PROVE  calls' \in [Callers -> CallRecord]
BY DEF TypeOK, Call, CallRecord

LEMMA CallsAreRecords ==
    /\ Idle \in CallRecord
    /\ \A pc \in {"login", "form", "revoke"} : [pc |-> pc] \in CallRecord
    /\ \A d \in Ids, body \in DeviceList, pc \in {"touch", "pair", "pairTouch"} :
          [pc |-> pc, device |-> d, body |-> body] \in CallRecord
    /\ \A body \in DeviceList, pc \in {"linkTouch", "decide"} :
          [pc |-> pc, body |-> body] \in CallRecord
    /\ \A d \in Ids \cup {None} : [pc |-> "link", device |-> d] \in CallRecord
BY DEF CallRecord, Suspended, Idle

\* What a request keeps while it is suspended.
LEMMA Kept ==
    ASSUME TypeOK, NEW c \in Callers
    PROVE  /\ calls[c].pc \in {"touch", "pair", "pairTouch"} =>
                calls[c].device \in Ids
           /\ calls[c].pc = "link" => calls[c].device \in Ids \cup {None}
           /\ Saving(c) => calls[c].body \in DeviceList
<1>1. calls[c] \in {Idle} \cup Suspended
  BY DEF TypeOK
<1> QED
  BY <1>1 DEF Idle, Suspended, Saving

LEMMA VerdictsArePages ==
    ASSUME TypeOK, NEW b \in Browsers
    PROVE  /\ HttpVerdict(b) \in Pages
           /\ InertLinkVerdict(b) \in Pages
BY DEF HttpVerdict, InertLinkVerdict, DeviceVerdict, SessionVerdict,
       AfterVerdict, Pages, Refused

\* The pages and the records the operator and the pairings leave.
LEMMA DecisionsAreRecords ==
    ASSUME NEW r \in Record, NEW q \in Decisions(r)
    PROVE  q \in Record \cup {NoRecord}
<1>1. [r EXCEPT !.revoked = TRUE] \in Record
  BY DEF Record
<1>2. \A s \in {"pending", "approved", "blocked"} :
         [status |-> s, revoked |-> FALSE] \in Record
  BY DEF Record
<1> QED
  BY <1>1, <1>2 DEF Decisions

----------------------------------------------------------------------------

LEMMA TouchingTypes ==
    ASSUME TypeOK, NEW c \in Browsers \cup Extras, NEW b \in Browsers,
           Touching(c, b)
    PROVE  TypeOK'
<1>1. jar[b] \in Ids
  BY DEF Touching, DeviceOf, TypeOK
<1>2. c \in Callers
  BY DEF Callers
<1>3. calls' \in [Callers -> CallRecord]
  BY <1>1, <1>2, CallSet, CallsAreRecords DEF Touching, TypeOK
<1> QED
  BY <1>3 DEF Touching, TypeOK, CallRecord

LEMMA AfterSaveTypes ==
    ASSUME TypeOK, NEW c \in Callers, Saving(c), AfterSave(c)
    PROVE  /\ calls' \in [Callers -> CallRecord]
           /\ jar' \in [Browsers -> Ids \cup {None}]
           /\ session' \in [Browsers -> BOOLEAN]
           /\ page' \in [Browsers -> Pages]
<1>1. CASE calls[c].pc = "touch"
  BY <1>1, CallSet, CallsAreRecords DEF AfterSave, TypeOK, Show, Pages
<1>2. CASE calls[c].pc = "pair"
  <2>1. calls[c].device \in Ids
    BY <1>2, Kept
  <2>2. CASE records[calls[c].device] # NoRecord
    <3>1. [pc |-> "pairTouch", device |-> calls[c].device, body |-> records]
             \in CallRecord
      BY <2>1, CallsAreRecords DEF TypeOK
    <3>2. Call(c, [pc |-> "pairTouch", device |-> calls[c].device,
                   body |-> records])
          /\ UNCHANGED <<jar, session, page>>
      BY <1>2, <2>2 DEF AfterSave
    <3> QED
      BY <3>1, <3>2, CallSet DEF TypeOK
  <2>3. CASE records[calls[c].device] = NoRecord
    BY <1>2, <2>1, <2>3, CallSet, CallsAreRecords
       DEF AfterSave, PairEnd, TypeOK, Show, Pages
  <2> QED
    BY <2>2, <2>3
<1>3. CASE calls[c].pc = "pairTouch"
  <2>1. calls[c].device \in Ids
    BY <1>3, Kept
  <2> QED
    BY <1>3, <2>1, CallSet, CallsAreRecords
       DEF AfterSave, PairEnd, TypeOK, Show, Pages
<1>4. CASE calls[c].pc = "linkTouch"
  BY <1>4, CallSet, CallsAreRecords
     DEF AfterSave, LinkEnd, TypeOK, Show, Pages
<1>5. CASE calls[c].pc = "decide"
  BY <1>5, CallSet, CallsAreRecords DEF AfterSave, TypeOK
<1> QED
  BY <1>1, <1>2, <1>3, <1>4, <1>5 DEF Saving

LEMMA SaveTypes ==
    ASSUME TypeOK, NEW c \in Callers, SaveDone(c) \/ SaveFail(c)
    PROVE  TypeOK'
<1>1. Saving(c) /\ calls[c].body \in DeviceList
  BY Kept DEF SaveDone, SaveFail
<1>2. /\ stored' \in DeviceList
      /\ UNCHANGED <<records, settings, drawn, ledger>>
  BY <1>1 DEF SaveDone, SaveFail, TypeOK
<1>3. events' \in 0 .. MaxEvents
  BY GateAssumption DEF SaveDone, SaveFail, Event, TypeOK
<1>4. CASE AfterSave(c)
  BY <1>1, <1>2, <1>3, <1>4, AfterSaveTypes DEF TypeOK, CallRecord
<1>5. CASE ~AfterSave(c)
  <2>1. Call(c, Idle) /\ Show(c, "error") /\ UNCHANGED <<jar, session>>
    BY <1>5 DEF SaveDone, SaveFail
  <2>2. calls' \in [Callers -> CallRecord]
    BY <2>1, CallSet, CallsAreRecords
  <2>3. page' \in [Browsers -> Pages]
    BY <2>1 DEF TypeOK, Show, Pages
  <2> QED
    BY <1>2, <1>3, <2>1, <2>2, <2>3 DEF TypeOK, CallRecord
<1> QED
  BY <1>4, <1>5

\* Requests that end or begin without a save.
LEMMA PageTypes ==
    ASSUME TypeOK, NEW b \in Browsers,
           \/ Navigate(b) \/ OpenForm(b) \/ InertLink(b) \/ SessionEnds(b)
           \/ Login(b) \/ LoginDone(b) \/ LinkNoTouch(b) \/ Pair(b)
           \/ SessionSaveFail(b)
    PROVE  TypeOK'
<1>1. b \in Callers
  BY DEF Callers
<1>2. CASE Navigate(b) \/ OpenForm(b) \/ InertLink(b) \/ SessionEnds(b)
  <2>1. page' \in [Browsers -> Pages]
    <3>1. \/ page' = page
          \/ \E p \in Pages : Show(b, p)
      BY <1>2, VerdictsArePages
         DEF Navigate, OpenForm, InertLink, SessionEnds, Pages
    <3> QED
      BY <3>1 DEF Show, TypeOK
  <2>2. session' \in [Browsers -> BOOLEAN]
    BY <1>2 DEF Navigate, OpenForm, InertLink, SessionEnds, TypeOK
  <2>3. events' \in 0 .. MaxEvents
    BY <1>2, GateAssumption
       DEF Navigate, OpenForm, InertLink, SessionEnds, Event, TypeOK
  <2> QED
    BY <1>2, <2>1, <2>2, <2>3
       DEF Navigate, OpenForm, InertLink, SessionEnds, TypeOK
<1>3. CASE Login(b) \/ Pair(b)
  <2>1. calls' \in [Callers -> CallRecord]
    BY <1>1, <1>3, CallSet, CallsAreRecords
       DEF Login, Pair, TypeOK, CallRecord
  <2> QED
    BY <1>3, <2>1 DEF Login, Pair, Show, TypeOK, Pages, CallRecord
<1>4. CASE LoginDone(b) \/ LinkNoTouch(b)
  <2>1. calls' \in [Callers -> CallRecord]
    BY <1>1, <1>4, CallSet, CallsAreRecords DEF LoginDone, LinkNoTouch, LinkEnd
  <2> QED
    BY <1>4, <2>1
       DEF LoginDone, LinkNoTouch, LinkEnd, Show, TypeOK, Pages, CallRecord
<1>5. CASE SessionSaveFail(b)
  <2>1. calls' \in [Callers -> CallRecord]
    BY <1>1, <1>5, CallSet, CallsAreRecords DEF SessionSaveFail
  <2> QED
    BY <1>5, <2>1, GateAssumption
       DEF SessionSaveFail, Event, Show, TypeOK, Pages, CallRecord
<1> QED
  BY <1>2, <1>3, <1>4, <1>5

LEMMA LinkTypes ==
    ASSUME TypeOK, NEW b \in Browsers,
           LinkTouch(b) \/ \E d \in Ids \cup {None} : Link(b, d)
    PROVE  TypeOK'
<1>1. b \in Callers
  BY DEF Callers
<1>2. CASE LinkTouch(b)
  <2>1. calls' \in [Callers -> CallRecord]
    BY <1>1, <1>2, CallSet, CallsAreRecords DEF LinkTouch, TypeOK
  <2> QED
    BY <1>2, <2>1 DEF LinkTouch, TypeOK, CallRecord
<1>3. ASSUME NEW d \in Ids \cup {None}, Link(b, d)
      PROVE  TypeOK'
  <2>1. calls' \in [Callers -> CallRecord]
    BY <1>1, <1>3, CallsAreRecords, CallSet DEF Link
  <2> QED
    BY <1>3, <2>1, GateAssumption DEF Link, Event, TypeOK, CallRecord
<1> QED
  BY <1>2, <1>3

LEMMA PairAddTypes ==
    ASSUME TypeOK, NEW b \in Browsers, NEW d \in Ids, PairAdd(b, d)
    PROVE  TypeOK'
<1>1. b \in Callers
  BY DEF Callers
<1>2. records' \in DeviceList /\ ledger' \in DeviceList /\ drawn' \subseteq Ids
  BY DEF PairAdd, TypeOK, DeviceList, Record
<1>3. calls' \in [Callers -> CallRecord]
  BY <1>1, <1>2, CallSet, CallsAreRecords DEF PairAdd
<1> QED
  BY <1>2, <1>3 DEF PairAdd, TypeOK, CallRecord

LEMMA DecideTypes ==
    ASSUME TypeOK, NEW d \in Ids, Decide(d)
    PROVE  TypeOK'
<1>1. PICK r \in Decisions(records[d]) :
         /\ records' = [records EXCEPT ![d] = r]
         /\ ledger' = [ledger EXCEPT ![d] = r]
  BY DEF Decide
<1>2. r \in Record \cup {NoRecord}
  BY DecisionsAreRecords DEF Decide, TypeOK, DeviceList
<1>3. records' \in DeviceList /\ ledger' \in DeviceList
  BY <1>1, <1>2 DEF TypeOK, DeviceList
<1>4. calls' \in [Callers -> CallRecord]
  BY <1>3, CallSet, CallsAreRecords DEF Decide, Callers
<1> QED
  BY <1>3, <1>4, GateAssumption DEF Decide, Event, TypeOK, CallRecord

LEMMA HostTypes ==
    ASSUME TypeOK, Switch \/ Revoke \/ Restart
    PROVE  TypeOK'
<1>1. CASE Switch
  <2>1. settings' \in Settings
    BY <1>1 DEF Switch
  <2>2. calls' = calls \/ Call(Console, [pc |-> "revoke"])
    BY <1>1 DEF Switch
  <2>3. calls' \in [Callers -> CallRecord]
    BY <2>2, CallSet, CallsAreRecords DEF Callers, TypeOK, CallRecord
  <2> QED
    BY <1>1, <2>1, <2>3, GateAssumption DEF Switch, Event, TypeOK, CallRecord
<1>2. CASE Restart
  <2>1. page' \in [Browsers -> Pages]
    BY <1>2 DEF Restart, TypeOK, Pages
  <2>2. calls' \in [Callers -> {Idle} \cup Suspended]
    BY <1>2 DEF Restart
  <2> QED
    BY <1>2, <2>1, <2>2, GateAssumption DEF Restart, Event, TypeOK
<1>3. CASE Revoke
  <2>1. calls' \in [Callers -> CallRecord]
    BY <1>3, CallSet, CallsAreRecords DEF Revoke, Callers
  <2> QED
    BY <1>3, <2>1 DEF Revoke, TypeOK, CallRecord
<1> QED
  BY <1>1, <1>2, <1>3

LEMMA InitTypes == Init => TypeOK
BY GateAssumption
   DEF Init, TypeOK, DeviceList, Pages, Callers

LEMMA NextTypes == TypeOK /\ [Next]_vars => TypeOK'
<1> SUFFICES ASSUME TypeOK, [Next]_vars
             PROVE  TypeOK'
  OBVIOUS
<1>1. ASSUME NEW b \in Browsers,
             \/ Navigate(b) \/ NavigateTouching(b) \/ OpenForm(b) \/ Login(b)
             \/ InertLink(b) \/ Pair(b) \/ SessionEnds(b) \/ SessionSaveFail(b)
             \/ \E d \in Ids \cup {None} : Link(b, d)
             \/ \E x \in Extras : Fetch(x, b)
      PROVE  TypeOK'
  BY <1>1, PageTypes, LinkTypes, TouchingTypes DEF NavigateTouching, Fetch
<1>2. ASSUME NEW c \in Callers, Resume(c) \/ SaveFail(c)
      PROVE  TypeOK'
  BY <1>2, PageTypes, LinkTypes, PairAddTypes, SaveTypes, HostTypes DEF Resume
<1>3. ASSUME NEW d \in Ids, Decide(d)
      PROVE  TypeOK'
  BY <1>3, DecideTypes
<1>4. CASE Switch \/ Restart
  BY <1>4, HostTypes
<1>5. CASE UNCHANGED vars
  BY <1>5 DEF vars, TypeOK
<1> QED
  BY <1>1, <1>2, <1>3, <1>4, <1>5 DEF Next

\* The variables of the gate keep their types.
THEOREM TypesHold == Spec => []TypeOK
BY InitTypes, NextTypes, PTL DEF Spec

----------------------------------------------------------------------------

LEMMA NextDecisions == DecisionsStand /\ [Next]_vars => DecisionsStand'
<1> SUFFICES ASSUME DecisionsStand, [Next]_vars
             PROVE  DecisionsStand'
  OBVIOUS
<1> USE DEF DecisionsStand
<1>1. ASSUME NEW b \in Browsers,
             \/ Navigate(b) \/ NavigateTouching(b) \/ OpenForm(b) \/ Login(b)
             \/ InertLink(b) \/ Pair(b) \/ SessionEnds(b) \/ SessionSaveFail(b)
             \/ \E d \in Ids \cup {None} : Link(b, d)
             \/ \E x \in Extras : Fetch(x, b)
      PROVE  DecisionsStand'
  BY <1>1 DEF Navigate, NavigateTouching, Touching, OpenForm, Login, InertLink,
              Pair, SessionEnds, SessionSaveFail, Link, Fetch
<1>2. ASSUME NEW c \in Callers, Resume(c) \/ SaveFail(c)
      PROVE  DecisionsStand'
  BY <1>2 DEF Resume, LoginDone, LinkTouch, LinkNoTouch, PairAdd, SaveDone,
              SaveFail, Revoke
<1>3. ASSUME NEW d \in Ids, Decide(d)
      PROVE  DecisionsStand'
  BY <1>3 DEF Decide
<1>4. CASE Switch \/ Restart \/ UNCHANGED vars
  BY <1>4 DEF Switch, Restart, vars
<1> QED
  BY <1>1, <1>2, <1>3, <1>4 DEF Next

\* No request of a visitor undoes what the operator decided: a touch takes the
\* device from the list as it is, not as it was when the request looked it up.
THEOREM DecisionsAreKept == Spec => []DecisionsStand
<1>1. Init => DecisionsStand
  BY DEF Init, DecisionsStand
<1> QED
  BY <1>1, NextDecisions, PTL DEF Spec

----------------------------------------------------------------------------

\* The page, an inert link and a socket of one browser are let through
\* together, in every state: with a record the device decides for all three,
\* without one the session does, and pairing holds back all of them.
THEOREM WaysInAgree == Spec => []EntryPointsAgree
<1>1. ASSUME TypeOK
      PROVE  EntryPointsAgree
  <2> SUFFICES ASSUME NEW b \in Browsers
               PROVE  /\ InertLinkVerdict(b) = "app" <=> HttpVerdict(b) = "app"
                      /\ UpgradeVerdict(b) = "open" <=> HttpVerdict(b) = "app"
    BY DEF EntryPointsAgree
  <2>1. CASE DeviceOf(b) # NoRecord
    BY <2>1 DEF InertLinkVerdict, HttpVerdict, UpgradeVerdict
  <2>2. CASE DeviceOf(b) = NoRecord
    <3>1. settings.pairing \in BOOLEAN /\ session[b] \in BOOLEAN
      BY <1>1 DEF TypeOK, Settings
    <3> QED
      BY <2>2, <3>1 DEF InertLinkVerdict, HttpVerdict, UpgradeVerdict,
                        SessionVerdict, AfterVerdict
  <2> QED
    BY <2>1, <2>2
<1> QED
  BY <1>1, TypesHold, PTL

----------------------------------------------------------------------------
(* Whose an identity is *)

Listed(list) == {d \in Ids : list[d] # NoRecord}

\* A request whose answer will carry a device cookie.
Pairing(c) == calls[c].pc \in {"pair", "pairTouch"}

\* Whatever a list names was given out: in memory, on disk, on its way there.
ListsDrawn ==
    /\ Listed(records) \subseteq drawn
    /\ Listed(stored) \subseteq drawn
    /\ \A c \in Callers : Saving(c) => Listed(calls[c].body) \subseteq drawn

\* An identity on its way to a browser is on its way to one, and in no jar.
OnTheWay ==
    /\ \A c \in Callers : Pairing(c) =>
         /\ c \in Browsers
         /\ calls[c].device \in drawn
         /\ \A b \in Browsers : jar[b] # calls[c].device
    /\ \A c, e \in Callers :
         Pairing(c) /\ Pairing(e) /\ calls[c].device = calls[e].device => c = e

\* An identity is in one jar.
JarsApart ==
    /\ \A b \in Browsers : jar[b] # None => jar[b] \in drawn
    /\ \A b, c \in Browsers : jar[b] = jar[c] /\ jar[b] # None => b = c

IdentityInv == TypeOK /\ ListsDrawn /\ OnTheWay /\ JarsApart

\* A step that draws nothing, starts no pairing, fills no jar and saves no list
\* but that in memory.
LEMMA PlainStep ==
    ASSUME IdentityInv, drawn' = drawn, jar' = jar,
           Listed(records') \subseteq drawn, Listed(stored') \subseteq drawn,
           \A c \in Callers :
              \/ calls'[c] = calls[c]
              \/ /\ ~Pairing(c)'
                 /\ Saving(c)' => calls'[c].body = records
              \/ /\ Pairing(c) /\ Pairing(c)'
                 /\ calls'[c].device = calls[c].device
                 /\ calls'[c].body = records
    PROVE  ListsDrawn' /\ OnTheWay' /\ JarsApart'
<1>1. ListsDrawn'
  <2>1. ASSUME NEW c \in Callers, Saving(c)'
        PROVE  Listed(calls'[c].body) \subseteq drawn
    BY <2>1 DEF IdentityInv, ListsDrawn, Saving
  <2> QED
    BY <2>1 DEF IdentityInv, ListsDrawn, Listed
<1>2. \A c \in Callers : Pairing(c)' =>
         Pairing(c) /\ calls'[c].device = calls[c].device
  BY DEF Pairing
<1>3. OnTheWay'
  BY <1>2 DEF IdentityInv, OnTheWay
<1>4. JarsApart'
  BY DEF IdentityInv, JarsApart
<1> QED
  BY <1>1, <1>3, <1>4

LEMMA CallEffect ==
    ASSUME TypeOK, NEW c \in Callers, NEW r, Call(c, r)
    PROVE  calls'[c] = r /\ \A e \in Callers \ {c} : calls'[e] = calls[e]
BY DEF TypeOK, Call

\* The answer to a pairing puts its identity into the jar.
LEMMA PairEnds ==
    ASSUME IdentityInv, NEW c \in Callers, Pairing(c),
           PairEnd(c, calls[c].device), drawn' = drawn, records' = records,
           Listed(stored') \subseteq drawn
    PROVE  ListsDrawn' /\ OnTheWay' /\ JarsApart'
<1> DEFINE d == calls[c].device
<1>1. /\ calls'[c] = Idle /\ \A e \in Callers \ {c} : calls'[e] = calls[e]
      /\ c \in Browsers
  BY CallEffect DEF PairEnd, IdentityInv, OnTheWay
<1>2. jar' = [jar EXCEPT ![c] = d]
  BY DEF PairEnd
<1>3. jar'[c] = d /\ \A b \in Browsers \ {c} : jar'[b] = jar[b]
  BY <1>1, <1>2 DEF IdentityInv, TypeOK
<1>4. ~Pairing(c)' /\ ~Saving(c)'
  BY <1>1 DEF Pairing, Saving, Idle
<1>5. ListsDrawn'
  BY <1>1, <1>4 DEF IdentityInv, ListsDrawn, Listed, Saving
<1>6. d \in drawn /\ \A b \in Browsers : jar[b] # d
  BY DEF IdentityInv, OnTheWay
<1>7. \A e \in Callers \ {c} : Pairing(e)' => Pairing(e) /\ calls[e].device # d
  BY <1>1 DEF IdentityInv, OnTheWay, Pairing
<1>8. OnTheWay'
  <2>1. ASSUME NEW e \in Callers, Pairing(e)'
        PROVE  /\ e \in Browsers /\ calls'[e].device \in drawn
               /\ \A b \in Browsers : jar'[b] # calls'[e].device
    <3>1. e # c /\ calls'[e] = calls[e] /\ Pairing(e) /\ calls[e].device # d
      BY <1>1, <1>4, <1>7, <2>1
    <3> QED
      BY <1>3, <3>1 DEF IdentityInv, OnTheWay
  <2>2. ASSUME NEW e \in Callers, NEW f \in Callers, Pairing(e)', Pairing(f)',
               calls'[e].device = calls'[f].device
        PROVE  e = f
    <3>1. e # c /\ f # c /\ Pairing(e) /\ Pairing(f)
          /\ calls'[e] = calls[e] /\ calls'[f] = calls[f]
      BY <1>1, <1>4, <1>7, <2>2
    <3> QED
      BY <2>2, <3>1 DEF IdentityInv, OnTheWay
  <2> QED
    BY <2>1, <2>2 DEF OnTheWay
<1>9. JarsApart'
  BY <1>1, <1>3, <1>6 DEF IdentityInv, JarsApart
<1> QED
  BY <1>5, <1>8, <1>9

LEMMA SavesKeepIdentities ==
    ASSUME IdentityInv, NEW c \in Callers, SaveDone(c) \/ SaveFail(c)
    PROVE  ListsDrawn' /\ OnTheWay' /\ JarsApart'
<1>1. /\ Saving(c) /\ drawn' = drawn /\ records' = records
      /\ stored' \in {stored, calls[c].body}
  BY DEF SaveDone, SaveFail
<1>2. /\ Listed(stored') \subseteq drawn /\ Listed(records') \subseteq drawn
  BY <1>1 DEF IdentityInv, ListsDrawn
<1>3. ASSUME NEW r, Call(c, r), r = Idle, jar' = jar
      PROVE  ListsDrawn' /\ OnTheWay' /\ JarsApart'
  <2>1. calls'[c] = Idle /\ \A e \in Callers \ {c} : calls'[e] = calls[e]
    BY <1>3, CallEffect DEF IdentityInv
  <2>2. ~Pairing(c)' /\ ~Saving(c)'
    BY <2>1 DEF Pairing, Saving, Idle
  <2> QED
    BY <1>1, <1>2, <1>3, <2>1, <2>2, PlainStep
<1>4. CASE Pairing(c) /\ PairEnd(c, calls[c].device)
  BY <1>1, <1>2, <1>4, PairEnds
<1>5. CASE /\ calls[c].pc = "pair" /\ jar' = jar
           /\ Call(c, [pc |-> "pairTouch", device |-> calls[c].device,
                       body |-> records])
  <2>1. /\ calls'[c] = [pc |-> "pairTouch", device |-> calls[c].device,
                        body |-> records]
        /\ \A e \in Callers \ {c} : calls'[e] = calls[e]
    BY <1>5, CallEffect DEF IdentityInv
  <2>2. Pairing(c) /\ Pairing(c)' /\ calls'[c].device = calls[c].device
        /\ calls'[c].body = records
    BY <1>5, <2>1 DEF Pairing
  <2> QED
    BY <1>1, <1>2, <1>5, <2>1, <2>2, PlainStep
<1>6. \/ Call(c, Idle) /\ jar' = jar
      \/ Pairing(c) /\ PairEnd(c, calls[c].device)
      \/ /\ calls[c].pc = "pair" /\ jar' = jar
         /\ Call(c, [pc |-> "pairTouch", device |-> calls[c].device,
                     body |-> records])
  BY DEF SaveDone, SaveFail, AfterSave, LinkEnd, Pairing
<1> QED
  BY <1>3, <1>4, <1>5, <1>6

LEMMA PairingKeepsIdentities ==
    ASSUME IdentityInv, NEW b \in Browsers, NEW d \in Ids, PairAdd(b, d)
    PROVE  ListsDrawn' /\ OnTheWay' /\ JarsApart'
<1>1. b \in Callers
  BY DEF Callers
<1>2. /\ d \notin drawn /\ drawn' = drawn \cup {d} /\ jar' = jar
      /\ stored' = stored
      /\ \A e \in Ids \ {d} : records'[e] = records[e]
      /\ Call(b, [pc |-> "pair", device |-> d, body |-> records'])
  BY DEF PairAdd, IdentityInv, TypeOK, DeviceList
<1>3. /\ calls'[b] = [pc |-> "pair", device |-> d, body |-> records']
      /\ \A e \in Callers \ {b} : calls'[e] = calls[e]
  BY <1>1, <1>2, CallEffect DEF IdentityInv
<1>4. Listed(records') \subseteq drawn'
  BY <1>2 DEF IdentityInv, ListsDrawn, Listed
<1>5. ListsDrawn'
  <2>1. ASSUME NEW e \in Callers, Saving(e)'
        PROVE  Listed(calls'[e].body) \subseteq drawn'
    BY <1>2, <1>3, <1>4, <2>1 DEF IdentityInv, ListsDrawn, Saving
  <2> QED
    BY <1>2, <1>4, <2>1 DEF IdentityInv, ListsDrawn, Listed
<1>6. \A c \in Browsers : jar[c] # d
  BY <1>2, GateAssumption DEF IdentityInv, JarsApart, TypeOK
<1>7. \A e \in Callers \ {b} :
         Pairing(e)' => Pairing(e) /\ calls'[e] = calls[e] /\ calls[e].device # d
  BY <1>2, <1>3 DEF IdentityInv, OnTheWay, Pairing
<1>8. calls'[b].device = d
  BY <1>3
<1>9. OnTheWay'
  <2>1. ASSUME NEW e \in Callers, Pairing(e)'
        PROVE  /\ e \in Browsers /\ calls'[e].device \in drawn'
               /\ \A c \in Browsers : jar'[c] # calls'[e].device
    BY <1>2, <1>6, <1>7, <1>8, <2>1 DEF IdentityInv, OnTheWay
  <2>2. ASSUME NEW e \in Callers, NEW f \in Callers, Pairing(e)', Pairing(f)',
               calls'[e].device = calls'[f].device
        PROVE  e = f
    BY <1>7, <1>8, <2>2 DEF IdentityInv, OnTheWay
  <2> QED
    BY <2>1, <2>2 DEF OnTheWay
<1>10. JarsApart'
  BY <1>2 DEF IdentityInv, JarsApart
<1> QED
  BY <1>5, <1>9, <1>10

LEMMA InitIdentities == Init => IdentityInv
<1> SUFFICES ASSUME Init PROVE IdentityInv
  OBVIOUS
<1>1. \A c \in Callers : calls[c] = Idle
  BY DEF Init
<1>2. ListsDrawn /\ OnTheWay /\ JarsApart
  BY <1>1 DEF Init, ListsDrawn, OnTheWay, JarsApart, Listed, Saving, Pairing,
              Idle
<1> QED
  BY <1>2, InitTypes DEF IdentityInv

LEMMA IdentitySteps == IdentityInv /\ [Next]_vars => IdentityInv'
<1> SUFFICES ASSUME IdentityInv, [Next]_vars
             PROVE  ListsDrawn' /\ OnTheWay' /\ JarsApart'
  BY NextTypes DEF IdentityInv
<1>1. ASSUME drawn' = drawn, jar' = jar, records' = records, stored' = stored,
             NEW c \in Callers, NEW r, Call(c, r),
             r.pc \notin {"pair", "pairTouch"},
             r.pc \in {"touch", "linkTouch", "decide"} => r.body = records
      PROVE  ListsDrawn' /\ OnTheWay' /\ JarsApart'
  <2>1. calls'[c] = r /\ \A e \in Callers \ {c} : calls'[e] = calls[e]
    BY <1>1, CallEffect DEF IdentityInv
  <2>2. ~Pairing(c)' /\ (Saving(c)' => calls'[c].body = records)
    BY <1>1, <2>1 DEF Pairing, Saving
  <2>3. Listed(records') \subseteq drawn /\ Listed(stored') \subseteq drawn
    BY <1>1 DEF IdentityInv, ListsDrawn
  <2> QED
    BY <1>1, <2>1, <2>2, <2>3, PlainStep
<1>2. ASSUME UNCHANGED <<drawn, jar, records, stored, calls>>
      PROVE  ListsDrawn' /\ OnTheWay' /\ JarsApart'
  <2>1. Listed(records') \subseteq drawn /\ Listed(stored') \subseteq drawn
    BY <1>2 DEF IdentityInv, ListsDrawn
  <2> QED
    BY <1>2, <2>1, PlainStep
<1>3. ASSUME NEW b \in Browsers,
             Navigate(b) \/ OpenForm(b) \/ InertLink(b) \/ SessionEnds(b)
      PROVE  ListsDrawn' /\ OnTheWay' /\ JarsApart'
  BY <1>2, <1>3 DEF Navigate, OpenForm, InertLink, SessionEnds
<1>4. ASSUME NEW c \in Browsers \cup Extras, NEW b \in Browsers, Touching(c, b)
      PROVE  ListsDrawn' /\ OnTheWay' /\ JarsApart'
  BY <1>1, <1>4 DEF Touching, Callers
<1>5. ASSUME NEW b \in Browsers,
             \/ Login(b) \/ LoginDone(b) \/ LinkNoTouch(b) \/ LinkTouch(b)
             \/ Pair(b) \/ SessionSaveFail(b)
             \/ \E d \in Ids \cup {None} : Link(b, d)
      PROVE  ListsDrawn' /\ OnTheWay' /\ JarsApart'
  <2>1. b \in Callers
    BY DEF Callers
  <2>2. CASE Pair(b)
    BY <1>1, <1>2, <2>1, <2>2 DEF Pair
  <2>3. CASE Login(b) \/ LoginDone(b) \/ LinkNoTouch(b) \/ SessionSaveFail(b)
    BY <1>1, <2>1, <2>3
       DEF Login, LoginDone, LinkNoTouch, LinkEnd, SessionSaveFail, Idle
  <2>4. CASE LinkTouch(b) \/ \E d \in Ids \cup {None} : Link(b, d)
    BY <1>1, <2>1, <2>4 DEF LinkTouch, Link
  <2> QED
    BY <1>5, <2>2, <2>3, <2>4
<1>6. ASSUME NEW d \in Ids, Decide(d)
      PROVE  ListsDrawn' /\ OnTheWay' /\ JarsApart'
  <2>1. /\ Console \in Callers
        /\ Call(Console, [pc |-> "decide", body |-> records'])
        /\ drawn' = drawn /\ jar' = jar /\ stored' = stored
    BY <1>6 DEF Decide, Callers
  <2>2. /\ calls'[Console] = [pc |-> "decide", body |-> records']
        /\ \A e \in Callers \ {Console} : calls'[e] = calls[e]
    BY <2>1, CallEffect DEF IdentityInv
  <2>3. Listed(records') \subseteq drawn
    BY <1>6 DEF Decide, IdentityInv, ListsDrawn, Listed, TypeOK, DeviceList
  <2>4. ~Pairing(Console)'
    BY <2>2 DEF Pairing
  <2>5. ListsDrawn'
    BY <2>1, <2>2, <2>3 DEF IdentityInv, ListsDrawn, Listed, Saving
  <2>6. OnTheWay'
    BY <2>1, <2>2, <2>4 DEF IdentityInv, OnTheWay, Pairing
  <2>7. JarsApart'
    BY <2>1 DEF IdentityInv, JarsApart
  <2> QED
    BY <2>5, <2>6, <2>7
<1>7. CASE Restart
  <2>1. \A c \in Callers : calls'[c] = Idle
    BY <1>7 DEF Restart
  <2>2. \A c \in Callers : ~Pairing(c)' /\ ~Saving(c)'
    BY <2>1 DEF Pairing, Saving, Idle
  <2> QED
    BY <1>7, <2>2, PlainStep DEF Restart, IdentityInv, ListsDrawn
<1>8. CASE Switch \/ Revoke \/ UNCHANGED vars
  <2>1. Console \in Callers
    BY DEF Callers
  <2>2. CASE Switch
    BY <1>1, <1>2, <2>1, <2>2 DEF Switch
  <2>3. CASE Revoke
    BY <1>1, <2>1, <2>3 DEF Revoke, Idle
  <2> QED
    BY <1>2, <1>8, <2>2, <2>3 DEF vars
<1>9. ASSUME NEW c \in Callers, Resume(c) \/ SaveFail(c)
      PROVE  ListsDrawn' /\ OnTheWay' /\ JarsApart'
  BY <1>5, <1>8, <1>9, SavesKeepIdentities, PairingKeepsIdentities DEF Resume
<1> QED
  BY <1>3, <1>4, <1>5, <1>6, <1>7, <1>8, <1>9
     DEF Next, NavigateTouching, Fetch

\* An identity is in one browser's jar: what the operator decides about a
\* device is about that browser, and following a device's link lends a session
\* and never the identity (#handleAuthLink, #handlePair).  No list, not even one read
\* after a restart, names an identity that was not given out.
THEOREM IdentitiesApart ==
    Spec => [](/\ \A b, c \in Browsers : jar[b] = jar[c] /\ jar[b] # None => b = c
               /\ Listed(records) \cup Listed(stored) \subseteq drawn)
<1>1. Init => IdentityInv
  BY InitIdentities
<1>2. IdentityInv => /\ \A b, c \in Browsers :
                          jar[b] = jar[c] /\ jar[b] # None => b = c
                     /\ Listed(records) \cup Listed(stored) \subseteq drawn
  BY DEF IdentityInv, ListsDrawn, JarsApart
<1> QED
  BY <1>1, <1>2, IdentitySteps, PTL DEF Spec

----------------------------------------------------------------------------
(* Whoever is let in finds the way *)

Named(b) == DeviceOf(b) # NoRecord

\* Pages that ask for nothing.
Passive == {"blank", "waiting", "removed", "redirect", "error"}

\* How far a browser is from the application.
Stage(b, n) ==
    \/ n = 1 /\ calls[b].pc = "touch"
    \/ n = 2 /\ calls[b] = Idle /\ page[b] \in Passive /\ Named(b)
    \/ n = 3 /\ calls[b].pc = "pairTouch" /\ records[calls[b].device] # NoRecord
    \/ n = 4 /\ calls[b].pc = "pair" /\ records[calls[b].device] # NoRecord
    \/ n = 5 /\ calls[b].pc = "form"
    \/ n = 6 /\ calls[b] = Idle /\ page[b] = "pairing" /\ session[b]
    \/ n = 7 /\ calls[b] = Idle /\ page[b] \in Passive /\ ~Named(b) /\ session[b]
    \/ n = 8 /\ calls[b].pc = "login"
    \/ n = 9 /\ calls[b] = Idle /\ page[b] \in {"login", "inactive"}
    \/ n = 10 /\ calls[b] = Idle /\ page[b] = "pairing" /\ ~session[b]
    \/ n = 10 /\ calls[b] = Idle /\ page[b] \in Passive /\ ~Named(b) /\ ~session[b]
    \/ n = 11 /\ Pairing(b) /\ records[calls[b].device] = NoRecord
    \/ n = 12 /\ calls[b].pc = "linkTouch"
    \/ n = 13 /\ calls[b].pc = "link"

Inside(b) == page[b] = "app"

Nearer(b, n) == Inside(b) \/ \E m \in 1 .. (n - 1) : Stage(b, m)

\* Only the operator decides and ends the sessions.
WayInv ==
    IdentityInv /\ \A b \in Browsers : calls[b].pc \notin {"decide", "revoke"}

LEMMA SomeStage ==
    ASSUME WayInv, NEW b \in Browsers
    PROVE  Inside(b) \/ \E n \in 1 .. 13 : Stage(b, n)
<1>1. /\ calls[b] \in {Idle} \cup Suspended
      /\ page[b] \in Pages
      /\ session[b] \in BOOLEAN
      /\ calls[b].pc \notin {"decide", "revoke"}
  BY DEF WayInv, IdentityInv, TypeOK, Callers
<1>2. CASE calls[b] = Idle
  <2>1. page[b] \in Passive \cup {"app", "login", "inactive", "pairing"}
    BY <1>1 DEF Pages, Passive
  <2>2. Inside(b) \/ Stage(b, 2) \/ Stage(b, 6) \/ Stage(b, 7) \/ Stage(b, 9)
        \/ Stage(b, 10)
    BY <1>1, <1>2, <2>1 DEF Inside, Stage
  <2> QED
    BY <2>2
<1>3. CASE calls[b] \in Suspended
  <2>1. calls[b].pc \in {"touch", "pair", "pairTouch", "link", "login", "form",
                         "linkTouch"}
    BY <1>1, <1>3 DEF Suspended
  <2>2. \/ Stage(b, 1) \/ Stage(b, 3) \/ Stage(b, 4) \/ Stage(b, 5)
        \/ Stage(b, 8) \/ Stage(b, 11) \/ Stage(b, 12) \/ Stage(b, 13)
    BY <2>1 DEF Stage, Pairing
  <2> QED
    BY <2>2
<1> QED
  BY <1>1, <1>2, <1>3

\* What a browser's own steps leave alone in another, and what no quiet step
\* changes.
Same(b) ==
    /\ calls'[b] = calls[b]
    /\ jar'[b] = jar[b]
    /\ session'[b] = session[b]
    /\ page'[b] = page[b]

OwnStep(b) ==
    \/ Navigate(b) \/ NavigateTouching(b) \/ Login(b) \/ Pair(b)
    \/ Resume(b)

LEMMA OthersLeave ==
    ASSUME TypeOK, NEW b \in Browsers, NEW c \in Callers \ {b},
           \/ c \in Browsers /\ OwnStep(c)
           \/ c \in Extras /\ \E a \in Browsers : Fetch(c, a)
           \/ Resume(c) /\ ~Revoke
    PROVE  Same(b)
<1>1. ASSUME NEW r, Call(c, r)
      PROVE  calls'[b] = calls[b]
  BY <1>1 DEF Call, TypeOK, Callers
<1>2. ASSUME NEW p, Show(c, p)
      PROVE  page'[b] = page[b]
  BY <1>2 DEF Show, TypeOK
<1>3. ASSUME NEW d, PairEnd(c, d)
      PROVE  calls'[b] = calls[b] /\ jar'[b] = jar[b] /\ page'[b] = page[b]
  BY <1>1, <1>2, <1>3 DEF PairEnd, TypeOK
<1>4. ASSUME LinkEnd(c)
      PROVE  calls'[b] = calls[b] /\ session'[b] = session[b]
             /\ page'[b] = page[b]
  BY <1>1, <1>2, <1>4 DEF LinkEnd, TypeOK
<1>5. CASE Navigate(c)
  BY <1>2, <1>5 DEF Navigate, Same
<1>6. CASE \E a \in Browsers : Touching(c, a)
  BY <1>1, <1>6 DEF Touching, Same
<1>7. CASE Login(c) \/ Pair(c)
  BY <1>1, <1>2, <1>7 DEF Login, Pair, Same
<1>8. CASE LoginDone(c)
  BY <1>1, <1>2, <1>8 DEF LoginDone, Same, TypeOK
<1>9. CASE LinkTouch(c) \/ LinkNoTouch(c)
  BY <1>1, <1>4, <1>9 DEF LinkTouch, LinkNoTouch, Same
<1>10. CASE \E d \in Ids : PairAdd(c, d)
  BY <1>1, <1>10 DEF PairAdd, Same
<1>11. CASE SaveDone(c)
  BY <1>1, <1>2, <1>3, <1>4, <1>11 DEF SaveDone, AfterSave, Same
<1> QED
  BY <1>5, <1>6, <1>7, <1>8, <1>9, <1>10, <1>11, GateAssumption
     DEF OwnStep, NavigateTouching, Fetch, Resume

\* The operator's request has sessions left to end.
Revoking == calls[Console].pc = "revoke"

LEMMA QuietGate ==
    ASSUME TypeOK, [Next]_vars, UNCHANGED events, ~Revoking, NEW b \in Browsers
    PROVE  /\ UNCHANGED settings
           /\ \A d \in drawn : records'[d] = records[d]
           /\ Same(b) \/ OwnStep(b)
<1>1. \A kind : ~Event(kind)
  BY DEF Event, TypeOK
<1>2. \/ \E c \in Browsers : OwnStep(c)
      \/ \E x \in Extras, a \in Browsers : Fetch(x, a)
      \/ \E c \in Callers : Resume(c)
      \/ UNCHANGED vars
  BY <1>1 DEF Next, OpenForm, InertLink, SessionEnds, Link, SaveFail, Decide,
              Switch, Restart, SessionSaveFail, OwnStep
<1>3. Browsers \subseteq Callers /\ Extras \subseteq Callers /\ ~Revoke
  BY DEF Callers, Revoke, Revoking
<1>4. Same(b) \/ OwnStep(b)
  <2>1. UNCHANGED vars => Same(b)
    BY DEF vars, Same
  <2>2. b \notin Extras
    BY GateAssumption
  <2>3. Resume(b) => OwnStep(b)
    BY DEF OwnStep
  <2> QED
    BY <1>2, <1>3, <2>1, <2>2, <2>3, OthersLeave
<1>5. ASSUME NEW c, Resume(c)
      PROVE  UNCHANGED settings /\ \A d \in drawn : records'[d] = records[d]
  <2>1. CASE \E d \in Ids : PairAdd(c, d)
    BY <2>1 DEF PairAdd, TypeOK
  <2>2. CASE LoginDone(c) \/ LinkTouch(c) \/ LinkNoTouch(c) \/ SaveDone(c)
    BY <2>2 DEF LoginDone, LinkTouch, LinkNoTouch, SaveDone
  <2> QED
    BY <1>3, <1>5, <2>1, <2>2 DEF Resume
<1>6. ASSUME \/ \E c \in Browsers : \/ Navigate(c) \/ NavigateTouching(c)
                                   \/ Login(c) \/ Pair(c)
             \/ \E x \in Extras, a \in Browsers : Fetch(x, a)
             \/ UNCHANGED vars
      PROVE  UNCHANGED <<settings, records>>
  BY <1>6 DEF Navigate, NavigateTouching, Touching, Login, Pair, Fetch, vars
<1>7. UNCHANGED settings /\ \A d \in drawn : records'[d] = records[d]
  BY <1>2, <1>5, <1>6 DEF OwnStep
<1> QED
  BY <1>4, <1>7

\* What a plain request of a browser that may come in is answered with.
LEMMA VerdictOfAdmitted ==
    ASSUME NEW b \in Browsers, Admissible(b)
    PROVE  /\ Named(b) => HttpVerdict(b) = "app"
           /\ ~Named(b) /\ session[b] => HttpVerdict(b) \in {"pairing", "app"}
           /\ ~Named(b) /\ ~session[b] => HttpVerdict(b) = "login"
  BY DEF Named, Admissible, HttpVerdict, SessionVerdict, AfterVerdict

\* A browser that does nothing stays where it is.
LEMMA StandStill ==
    ASSUME WayInv, NEW b \in Browsers, NEW n \in 1 .. 13, Stage(b, n), Same(b),
           \A d \in drawn : records'[d] = records[d]
    PROVE  Stage(b, n)'
<1>1. Named(b)' <=> Named(b)
  <2>1. jar[b] = None \/ records'[jar[b]] = records[jar[b]]
    BY DEF WayInv, IdentityInv, JarsApart
  <2> QED
    BY <2>1 DEF Same, Named, DeviceOf
<1>2. Pairing(b) => records'[calls[b].device] = records[calls[b].device]
  BY DEF WayInv, IdentityInv, OnTheWay, Callers
<1>3. calls'[b] = calls[b] /\ session'[b] = session[b] /\ page'[b] = page[b]
  BY DEF Same
<1> QED
  BY <1>1, <1>2, <1>3 DEF Stage, Pairing

\* A page that is asked for, by hand or by the page before it.
LEMMA NavigateLeads ==
    ASSUME TypeOK, NEW b \in Browsers, NEW n \in 1 .. 13, Stage(b, n),
           Admissible(b), Navigate(b)
    PROVE  /\ Stage(b, n)' \/ Nearer(b, n)'
           /\ page[b] \in Passive => Nearer(b, n)'
<1>1. /\ calls[b] = Idle /\ calls'[b] = Idle
      /\ page'[b] = HttpVerdict(b)
      /\ session'[b] = session[b]
      /\ Named(b)' <=> Named(b)
  BY DEF Navigate, Show, TypeOK, Named, DeviceOf
<1>2. n \in {2, 6, 7, 9, 10}
  BY <1>1 DEF Stage, Idle, Pairing
<1>3. page'[b] = "app" => Inside(b)'
  BY DEF Inside
<1>4. page'[b] = "pairing" /\ session[b] => Stage(b, 6)'
  BY <1>1 DEF Stage
<1>5. page'[b] = "login" => Stage(b, 9)'
  BY <1>1 DEF Stage
<1>6. CASE Named(b)
  BY <1>1, <1>3, <1>6, VerdictOfAdmitted DEF Nearer
<1>7. CASE ~Named(b) /\ session[b]
  <2>1. Inside(b)' \/ Stage(b, 6)'
    BY <1>1, <1>3, <1>4, <1>7, VerdictOfAdmitted
  <2>2. n \in {6, 7, 9}
    BY <1>1, <1>7 DEF Stage, Idle, Pairing
  <2>3. n = 6 => page[b] \notin Passive
    BY <1>1 DEF Stage, Passive, Idle, Pairing
  <2> QED
    BY <2>1, <2>2, <2>3 DEF Nearer
<1>8. CASE ~Named(b) /\ ~session[b]
  <2>1. Stage(b, 9)'
    BY <1>1, <1>5, <1>8, VerdictOfAdmitted
  <2>2. n \in {9, 10}
    BY <1>1, <1>8 DEF Stage, Idle, Pairing
  <2>3. n = 9 => page[b] \notin Passive
    BY <1>1 DEF Stage, Passive, Idle, Pairing
  <2> QED
    BY <2>1, <2>2, <2>3 DEF Nearer
<1> QED
  BY <1>6, <1>7, <1>8

\* The other things a person does with a page.
LEMMA PageLeads ==
    ASSUME TypeOK, NEW b \in Browsers, NEW n \in 1 .. 13, Stage(b, n),
           NavigateTouching(b) \/ Login(b) \/ Pair(b)
    PROVE  Nearer(b, n)'
<1>1. calls[b] = Idle
  BY DEF NavigateTouching, Touching, Login, Pair
<1>2. n \in {2, 6, 7, 9, 10}
  BY <1>1 DEF Stage, Idle, Pairing
<1>3. CASE NavigateTouching(b)
  <2>1. Stage(b, 1)'
    BY <1>3 DEF NavigateTouching, Touching, Call, Stage, TypeOK, Callers
  <2> QED
    BY <1>2, <2>1 DEF Nearer
<1>4. CASE Login(b)
  <2>1. Stage(b, 8)'
    BY <1>4 DEF Login, Call, Stage, TypeOK, Callers
  <2>2. n = 9
    BY <1>1, <1>4 DEF Login, Stage, Passive, Idle, Pairing
  <2> QED
    BY <2>1, <2>2 DEF Nearer
<1>5. CASE Pair(b) /\ session[b]
  <2>1. Stage(b, 5)'
    BY <1>5 DEF Pair, Call, Stage, TypeOK, Callers
  <2>2. n = 6
    BY <1>1, <1>5 DEF Pair, Stage, Passive, Idle, Pairing
  <2> QED
    BY <2>1, <2>2 DEF Nearer
<1>6. CASE Pair(b) /\ ~session[b]
  <2>1. Stage(b, 9)'
    BY <1>1, <1>6 DEF Pair, Show, Stage, TypeOK
  <2>2. n = 10
    BY <1>1, <1>6 DEF Pair, Stage, Passive, Idle, Pairing
  <2> QED
    BY <2>1, <2>2 DEF Nearer
<1> QED
  BY <1>3, <1>4, <1>5, <1>6

\* Sent back to the page it wanted, a browser asks for it again.
LEMMA Redirected ==
    ASSUME NEW b \in Browsers, calls'[b] = Idle, page'[b] = "redirect"
    PROVE  /\ Named(b)' => Stage(b, 2)'
           /\ session'[b] => Stage(b, 2)' \/ Stage(b, 7)'
           /\ Stage(b, 2)' \/ Stage(b, 7)' \/ Stage(b, 10)'
  BY DEF Stage, Passive

\* A request whose save has ended.
LEMMA SaveLeads ==
    ASSUME WayInv, NEW b \in Browsers, NEW n \in 1 .. 13, Stage(b, n),
           SaveDone(b)
    PROVE  Nearer(b, n)'
<1> USE DEF WayInv, IdentityInv
<1>1. /\ Saving(b) /\ AfterSave(b)
      /\ records' = records
      /\ calls[b].pc # "decide"
      /\ b \in Callers
  BY DEF SaveDone, Callers
<1>2. ASSUME NEW d \in Ids, PairEnd(b, d), records[d] # NoRecord
      PROVE  Stage(b, 2)'
  <2>1. calls'[b] = Idle /\ page'[b] = "redirect" /\ jar'[b] = d
    BY <1>1, <1>2 DEF PairEnd, Call, Show, TypeOK
  <2>2. DeviceOf(b)' = IF d = None THEN NoRecord ELSE records[d]
    BY <1>1, <2>1 DEF DeviceOf
  <2>3. Named(b)'
    BY <1>2, <2>2, GateAssumption DEF Named
  <2> QED
    BY <2>1, <2>3, Redirected
<1>3. ASSUME NEW d \in Ids, PairEnd(b, d)
      PROVE  Stage(b, 2)' \/ Stage(b, 7)' \/ Stage(b, 10)'
  BY <1>1, <1>3, Redirected DEF PairEnd, Call, Show, TypeOK
<1>4. calls[b].pc \in {"pair", "pairTouch"} => calls[b].device \in Ids
  BY <1>1 DEF TypeOK, Suspended, Idle
<1>5. CASE calls[b].pc = "touch"
  <2>1. n = 1
    BY <1>5 DEF Stage, Idle, Pairing
  <2>2. Inside(b)'
    BY <1>1, <1>5 DEF AfterSave, Show, TypeOK, Inside
  <2> QED
    BY <2>2 DEF Nearer
<1>6. CASE calls[b].pc = "pair" /\ records[calls[b].device] # NoRecord
  <2>1. n = 4
    BY <1>6 DEF Stage, Idle, Pairing
  <2>2. calls'[b].pc = "pairTouch" /\ calls'[b].device = calls[b].device
    BY <1>1, <1>6 DEF AfterSave, Call, TypeOK
  <2>3. Stage(b, 3)'
    BY <1>1, <1>6, <2>2 DEF Stage
  <2> QED
    BY <2>1, <2>3 DEF Nearer
<1>7. CASE calls[b].pc = "pairTouch" /\ records[calls[b].device] # NoRecord
  <2>1. n = 3
    BY <1>7 DEF Stage, Idle, Pairing
  <2>2. PairEnd(b, calls[b].device)
    BY <1>1, <1>7 DEF AfterSave
  <2>3. Stage(b, 2)'
    BY <1>2, <1>4, <1>7, <2>2
  <2> QED
    BY <2>1, <2>3 DEF Nearer
<1>8. CASE Pairing(b) /\ records[calls[b].device] = NoRecord
  <2>1. n = 11
    BY <1>8 DEF Stage, Idle, Pairing
  <2>2. PairEnd(b, calls[b].device)
    BY <1>1, <1>8 DEF AfterSave, Pairing
  <2>3. Stage(b, 2)' \/ Stage(b, 7)' \/ Stage(b, 10)'
    BY <1>3, <1>4, <1>8, <2>2 DEF Pairing
  <2> QED
    BY <2>1, <2>3 DEF Nearer
<1>9. CASE calls[b].pc = "linkTouch"
  <2>1. n = 12
    BY <1>9 DEF Stage, Idle, Pairing
  <2>2. LinkEnd(b)
    BY <1>1, <1>9 DEF AfterSave
  <2>3. calls'[b] = Idle /\ page'[b] = "redirect" /\ session'[b]
    BY <1>1, <2>2 DEF LinkEnd, Call, Show, TypeOK
  <2>4. Stage(b, 2)' \/ Stage(b, 7)'
    BY <2>3, Redirected
  <2> QED
    BY <2>1, <2>4 DEF Nearer
<1> QED
  BY <1>1, <1>5, <1>6, <1>7, <1>8, <1>9 DEF Saving, Pairing

\* Every suspended request brings its browser nearer when it goes on.
LEMMA ResumeLeads ==
    ASSUME WayInv, NEW b \in Browsers, NEW n \in 1 .. 13, Stage(b, n),
           Resume(b)
    PROVE  Nearer(b, n)'
<1> USE DEF WayInv, IdentityInv
<1>1. b \in Callers
  BY DEF Callers
<1>2. CASE LoginDone(b)
  <2>1. n = 8
    BY <1>2 DEF LoginDone, Stage, Idle, Pairing
  <2>2. calls'[b] = Idle /\ page'[b] = "redirect" /\ session'[b]
    BY <1>1, <1>2 DEF LoginDone, Call, Show, TypeOK
  <2>3. Stage(b, 2)' \/ Stage(b, 7)'
    BY <2>2, Redirected
  <2> QED
    BY <2>1, <2>3 DEF Nearer
<1>3. CASE LinkTouch(b)
  <2>1. n = 13
    BY <1>3 DEF LinkTouch, Stage, Idle, Pairing
  <2>2. calls'[b].pc = "linkTouch"
    BY <1>1, <1>3 DEF LinkTouch, Call, TypeOK
  <2>3. Stage(b, 12)'
    BY <2>2 DEF Stage
  <2> QED
    BY <2>1, <2>3 DEF Nearer
<1>4. CASE LinkNoTouch(b)
  <2>1. n = 13
    BY <1>4 DEF LinkNoTouch, Stage, Idle, Pairing
  <2>2. calls'[b] = Idle /\ page'[b] = "redirect" /\ session'[b]
    BY <1>1, <1>4 DEF LinkNoTouch, LinkEnd, Call, Show, TypeOK
  <2>3. Stage(b, 2)' \/ Stage(b, 7)'
    BY <2>2, Redirected
  <2> QED
    BY <2>1, <2>3 DEF Nearer
<1>5. ASSUME NEW d \in Ids, PairAdd(b, d)
      PROVE  Nearer(b, n)'
  <2>1. n = 5
    BY <1>5 DEF PairAdd, Stage, Idle, Pairing
  <2>2. calls'[b].pc = "pair" /\ calls'[b].device = d
    BY <1>1, <1>5 DEF PairAdd, Call, TypeOK
  <2>3. records'[d] # NoRecord
    <3>1. records'[d].status \in {"pending", "approved"} /\ records'[d] \in Record
      BY <1>5 DEF PairAdd, TypeOK, DeviceList, Record
    <3> QED
      BY <3>1, NoRecordAssumption
  <2>4. Stage(b, 4)'
    BY <2>2, <2>3 DEF Stage
  <2> QED
    BY <2>1, <2>4 DEF Nearer
<1> QED
  BY <1>2, <1>3, <1>4, <1>5, SaveLeads, GateAssumption DEF Resume

\* Quiet, no step takes a browser that may come in further away, and each of
\* its own brings it nearer.
LEMMA StageStep ==
    ASSUME WayInv, [Next]_vars, UNCHANGED events, ~Revoking,
           NEW b \in Browsers, NEW n \in 1 .. 13, Stage(b, n), Admissible(b)
    PROVE  /\ Stage(b, n)' \/ Nearer(b, n)'
           /\ Resume(b) \/ (FollowPage(b) /\ ~Inside(b)) => Nearer(b, n)'
<1> USE DEF WayInv, IdentityInv
<1>1. /\ \A d \in drawn : records'[d] = records[d]
      /\ Same(b) \/ OwnStep(b)
  BY QuietGate
<1>2. Same(b) => Stage(b, n)'
  BY <1>1, StandStill
<1>3. Resume(b) => Nearer(b, n)'
  BY ResumeLeads
<1>4. NavigateTouching(b) \/ Login(b) \/ Pair(b) => Nearer(b, n)'
  BY PageLeads
<1>5. Navigate(b) => /\ Stage(b, n)' \/ Nearer(b, n)'
                     /\ page[b] \in Passive => Nearer(b, n)'
  BY NavigateLeads
<1>6. FollowPage(b) =>
         \/ Login(b) \/ Pair(b)
         \/ Navigate(b) /\ page[b] \in Passive
  BY DEF FollowPage, TypeOK, Pages, Passive
<1> QED
  BY <1>1, <1>2, <1>3, <1>4, <1>5, <1>6 DEF OwnStep

\* No browser's request does the operator's part.
LEMMA WaySteps == WayInv /\ [Next]_vars => WayInv'
<1> SUFFICES ASSUME WayInv, [Next]_vars, NEW b \in Browsers
             PROVE  calls'[b].pc \notin {"decide", "revoke"}
  BY IdentitySteps DEF WayInv
<1> USE DEF WayInv, IdentityInv
<1>1. ASSUME NEW c \in Callers, NEW r, Call(c, r), r.pc \notin {"decide", "revoke"}
      PROVE  calls'[b].pc \notin {"decide", "revoke"}
  BY <1>1 DEF Call, TypeOK
<1>2. Idle.pc \notin {"decide", "revoke"}
  BY DEF Idle
<1>3. Browsers \subseteq Callers /\ Extras \subseteq Callers
      /\ Console \in Callers /\ Console # b
  BY GateAssumption DEF Callers
<1>4. ASSUME UNCHANGED calls PROVE calls'[b].pc \notin {"decide", "revoke"}
  BY <1>4
<1>5. ASSUME NEW c \in Callers, NEW a, Touching(c, a)
      PROVE  calls'[b].pc \notin {"decide", "revoke"}
  BY <1>1, <1>5 DEF Touching
<1>6. ASSUME NEW c \in Callers, Resume(c) \/ SaveFail(c)
      PROVE  calls'[b].pc \notin {"decide", "revoke"}
  <2>1. ASSUME NEW d, PairEnd(c, d) PROVE calls'[b].pc \notin {"decide", "revoke"}
    BY <1>1, <1>2, <2>1 DEF PairEnd
  <2>2. LinkEnd(c) => calls'[b].pc \notin {"decide", "revoke"}
    BY <1>1, <1>2 DEF LinkEnd
  <2>3. AfterSave(c) => calls'[b].pc \notin {"decide", "revoke"}
    BY <1>1, <1>2, <2>1, <2>2 DEF AfterSave
  <2>4. SaveDone(c) \/ SaveFail(c) => calls'[b].pc \notin {"decide", "revoke"}
    BY <1>1, <1>2, <2>3 DEF SaveDone, SaveFail
  <2>5. LoginDone(c) \/ LinkTouch(c) \/ LinkNoTouch(c) =>
           calls'[b].pc \notin {"decide", "revoke"}
    BY <1>1, <1>2, <2>2 DEF LoginDone, LinkTouch, LinkNoTouch
  <2>6. ASSUME NEW d \in Ids, PairAdd(c, d) PROVE calls'[b].pc \notin {"decide", "revoke"}
    BY <1>1, <2>6 DEF PairAdd
  <2>7. Revoke => calls'[b].pc \notin {"decide", "revoke"}
    BY <1>1, <1>2, <1>3 DEF Revoke
  <2> QED
    BY <1>6, <2>4, <2>5, <2>6, <2>7 DEF Resume
<1>7. ASSUME NEW a \in Browsers, Login(a) \/ Pair(a) \/ SessionSaveFail(a)
      PROVE  calls'[b].pc \notin {"decide", "revoke"}
  BY <1>1, <1>2, <1>3, <1>7 DEF Login, Pair, SessionSaveFail
<1>8. ASSUME NEW a \in Browsers, NEW d \in Ids \cup {None}, Link(a, d)
      PROVE  calls'[b].pc \notin {"decide", "revoke"}
  BY <1>1, <1>3, <1>8 DEF Link
<1>9. ASSUME NEW d \in Ids, Decide(d) PROVE calls'[b].pc \notin {"decide", "revoke"}
  BY <1>3, <1>9 DEF Decide, Call, TypeOK
<1>12. ASSUME Switch PROVE calls'[b].pc \notin {"decide", "revoke"}
  BY <1>3, <1>12 DEF Switch, Call, TypeOK
<1>10. ASSUME Restart PROVE calls'[b].pc \notin {"decide", "revoke"}
  BY <1>2, <1>3, <1>10 DEF Restart
<1>11. ASSUME \/ UNCHANGED vars
              \/ \E a \in Browsers : \/ Navigate(a) \/ OpenForm(a)
                                    \/ InertLink(a) \/ SessionEnds(a)
       PROVE  UNCHANGED calls
  BY <1>11 DEF vars, Navigate, OpenForm, InertLink, SessionEnds
<1> QED
  BY <1>3, <1>4, <1>5, <1>6, <1>7, <1>8, <1>9, <1>10, <1>11,
     <1>12
     DEF Next, NavigateTouching, Fetch

\* Without events no session is left to be ended once those in hand have been.
LEMMA RevokesOnce ==
    ASSUME WayInv, [Next]_vars, UNCHANGED events
    PROVE  /\ Revoking' => Revoking
           /\ Resume(Console) => ~Revoking'
<1> USE DEF WayInv, IdentityInv
<1>1. Console \in Callers /\ Idle.pc # "revoke"
  BY DEF Callers, Idle
<1>2. ASSUME NEW c, NEW r, Call(c, r), r.pc # "revoke"
      PROVE  Revoking' => Revoking /\ c # Console
  BY <1>1, <1>2 DEF Call, TypeOK, Revoking
<1>3. ASSUME NEW c, AfterSave(c)
      PROVE  Revoking' => Revoking /\ c # Console
  BY <1>1, <1>2, <1>3 DEF AfterSave, PairEnd, LinkEnd
<1>4. ASSUME NEW c, Resume(c)
      PROVE  Revoking' => Revoking /\ c # Console
  <2>1. SaveDone(c) => (Revoking' => Revoking /\ c # Console)
    BY <1>3 DEF SaveDone
  <2>2. LoginDone(c) \/ LinkTouch(c) \/ LinkNoTouch(c) =>
           (Revoking' => Revoking /\ c # Console)
    BY <1>1, <1>2 DEF LoginDone, LinkTouch, LinkNoTouch, LinkEnd
  <2>3. ASSUME NEW d, PairAdd(c, d)
        PROVE  Revoking' => Revoking /\ c # Console
    BY <1>2, <2>3 DEF PairAdd
  <2>4. Revoke => ~Revoking'
    BY <1>1 DEF Revoke, Revoking, Call, TypeOK
  <2> QED
    BY <1>4, <2>1, <2>2, <2>3, <2>4 DEF Resume
<1>5. ASSUME NEW a, NEW c, Touching(c, a)
      PROVE  Revoking' => Revoking
  BY <1>2, <1>5 DEF Touching
<1>6. ASSUME NEW a, Login(a) \/ Pair(a)
      PROVE  Revoking' => Revoking
  BY <1>2, <1>6 DEF Login, Pair, Revoking
<1>7. ASSUME UNCHANGED calls
      PROVE  Revoking' => Revoking
  BY <1>7 DEF Revoking
<1>8. \A kind : ~Event(kind)
  BY DEF Event, TypeOK
<1>9. \/ \E a \in Browsers :
            Navigate(a) \/ NavigateTouching(a) \/ Login(a) \/ Pair(a)
      \/ \E x \in Extras, a \in Browsers : Fetch(x, a)
      \/ \E c \in Callers : Resume(c)
      \/ UNCHANGED vars
  BY <1>8 DEF Next, OpenForm, InertLink, SessionEnds, Link, SaveFail, Decide,
              Switch, Restart, SessionSaveFail
<1>10. Revoking' => Revoking
  BY <1>4, <1>5, <1>6, <1>7, <1>9 DEF Navigate, NavigateTouching, Fetch, vars
<1> QED
  BY <1>4, <1>10

\* A run that has grown quiet, for a browser that may come in.
Running(b) ==
    /\ []WayInv
    /\ [][Next]_vars
    /\ [][UNCHANGED events]_vars
    /\ []NobodyStranded
    /\ []~Revoking
    /\ []Admissible(b)
    /\ Resumes(b)
    /\ Follows(b)

ComesNearer(b, n) == Stage(b, n) ~> Nearer(b, n)

\* A suspended request goes on, and a person follows the page that is shown.
LEMMA StageLeads ==
    ASSUME NEW b \in Browsers, NEW n \in 1 .. 13
    PROVE  Running(b) => ComesNearer(b, n)
<1>1. WayInv /\ [Next]_vars /\ [UNCHANGED events]_vars /\ ~Revoking /\
      Admissible(b) /\ Stage(b, n) =>
         /\ Stage(b, n)' \/ Nearer(b, n)'
         /\ Resume(b) => Nearer(b, n)'
         /\ FollowPage(b) /\ ~Inside(b) => Nearer(b, n)'
  BY StageStep DEF vars
<1>2. Inside(b) => Nearer(b, n)
  BY DEF Nearer
<1>3. CASE n \in {2, 6, 7, 9, 10}
  <2>1. NobodyStranded /\ Admissible(b) /\ Stage(b, n) =>
           ENABLED <<FollowPage(b)>>_vars
    BY <1>3 DEF NobodyStranded, Stage, Passive
  <2> QED
    BY <1>1, <1>2, <2>1, PTL DEF Running, Follows, ComesNearer
<1>4. CASE n \notin {2, 6, 7, 9, 10}
  <2>1. NobodyStranded /\ Stage(b, n) => ENABLED <<Resume(b)>>_vars
    <3>1. NobodyStranded /\ Stage(b, n) => CanGoOn(b)
      BY <1>4 DEF NobodyStranded, Stage, Idle, Pairing, Callers
    <3> QED
      BY <3>1 DEF CanGoOn
  <2> QED
    BY <1>1, <1>2, <2>1, PTL DEF Running, Resumes, ComesNearer
<1> QED
  BY <1>3, <1>4

ComesIn(b, n) == Nearer(b, n) ~> Inside(b)

LEMMA OneStageMore ==
    ASSUME NEW b \in Browsers, NEW n \in 1 .. 13
    PROVE  Running(b) /\ ComesIn(b, n) => ComesIn(b, n + 1)
<1>1. Running(b) => ComesNearer(b, n)
  BY StageLeads
<1>2. Nearer(b, n + 1) => Nearer(b, n) \/ Stage(b, n)
  BY DEF Nearer
<1> QED
  BY <1>1, <1>2, PTL DEF ComesNearer, ComesIn

\* From wherever it stands, and again and again.
LEMMA InsideAgain ==
    ASSUME NEW b \in Browsers PROVE Running(b) => []<>Inside(b)
<1>1. Nearer(b, 1) => Inside(b)
  BY DEF Nearer
<1>2. ComesIn(b, 1)
  BY <1>1, PTL DEF ComesIn
<1>3. Running(b) => ComesIn(b, 4)
  BY <1>2, OneStageMore
<1>4. Running(b) => ComesIn(b, 7)
  BY <1>3, OneStageMore
<1>5. Running(b) => ComesIn(b, 10)
  BY <1>4, OneStageMore
<1>6. Running(b) => ComesIn(b, 14)
  BY <1>5, OneStageMore
<1>7. WayInv => Nearer(b, 14)
  BY SomeStage DEF Nearer
<1> QED
  BY <1>6, <1>7, PTL DEF Running, ComesIn

\* Once nothing happens that nothing obliges, a browser the operator does not
\* keep out reaches the application again and again by following what it is
\* shown, whatever was deleted, lost or undone before (the pages of handleHttp,
\* the login and the pairing handlers).
THEOREM FollowingLeadsIn ==
    FairSpec /\ []NobodyStranded /\ <>[][UNCHANGED events]_vars => Recoverable
<1> SUFFICES ASSUME NEW b \in Browsers
             PROVE  FairSpec /\ []NobodyStranded /\
                    <>[][UNCHANGED events]_vars =>
                       (<>[]Admissible(b) => []<>(page[b] = "app"))
  BY DEF Recoverable
<1>1. FairSpec => Spec /\ Resumes(Console) /\ Resumes(b) /\ Follows(b)
  BY DEF FairSpec, Callers
<1>2. Init => WayInv
  <2>1. Init => IdentityInv
    BY InitIdentities
  <2> QED
    BY <2>1 DEF WayInv, Init, Idle, Callers
<1>3. Spec => []WayInv
  BY <1>2, WaySteps, PTL DEF Spec
<1>7. Spec /\ Resumes(Console) /\ []NobodyStranded /\
      <>[][UNCHANGED events]_vars => <>[]~Revoking
  <2>1. WayInv /\ [Next]_vars /\ [UNCHANGED events]_vars =>
           /\ ~Revoking => ~Revoking'
           /\ Resume(Console) => ~Revoking'
    <3>1. UNCHANGED vars => Revoking' = Revoking
      BY DEF vars, Revoking
    <3>2. UNCHANGED vars => UNCHANGED events
      BY DEF vars
    <3> QED
      BY <3>1, <3>2, RevokesOnce
  <2>2. NobodyStranded /\ Revoking => ENABLED <<Resume(Console)>>_vars
    <3>1. NobodyStranded /\ Revoking => CanGoOn(Console)
      BY DEF NobodyStranded, Revoking, Idle, Callers
    <3> QED
      BY <3>1 DEF CanGoOn
  <2> QED
    BY <1>3, <2>1, <2>2, PTL DEF Spec, Resumes
<1>4. Spec /\ <>[]~Revoking /\ Resumes(b) /\ Follows(b) /\ []NobodyStranded /\
      <>[][UNCHANGED events]_vars /\ <>[]Admissible(b) => <>Running(b)
  BY <1>3, PTL DEF Spec, Resumes, Follows, Running
<1>5. Running(b) => []<>Inside(b)
  BY InsideAgain
<1>6. Inside(b) <=> page[b] = "app"
  BY DEF Inside
<1> QED
  BY <1>1, <1>4, <1>5, <1>6, <1>7, PTL
============================================================================
