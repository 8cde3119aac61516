------------------------- MODULE UpgradeRelayProofs -------------------------
(***************************************************************************)
(* Proofs about UpgradeRelay, for any finite set of upgrades and any       *)
(* length of the ring.                                                     *)
(*                                                                         *)
(* The argument is where an upgrade may be when its outcome is recorded:   *)
(* nothing is recorded before its handling has ended, so each recording    *)
(* adds an upgrade to the books that was not in them; and the flag of      *)
(* report() is what keeps the one that declines and then errs from being   *)
(* entered twice.  Open tunnels are then counted by the place they are at. *)
(***************************************************************************)
EXTENDS UpgradeRelay, FiniteSetTheorems, SequenceTheorems, TLAPS

Outcomes == [upgrade : Upgrades, upgraded : BOOLEAN]

Tunnels == {u \in Upgrades : pc[u] = "tunnel"}

\* The upgrades with an outcome, by its kind.
Refusals == WithOutcome(FALSE)
Endings == WithOutcome(TRUE)

\* No outcome of an upgrade is recorded while it is under way.
LoggedAreOver ==
    \A i \in DOMAIN log :
       pc[log[i].upgrade] \in {"declined", "over"}

\* report() has been called exactly where its flag matters.
FlagTells ==
    \A u \in Upgrades :
       /\ pc[u] \in {"idle", "gate", "cookie", "asking", "tunnel"} => ~reported[u]
       /\ pc[u] = "declined" => reported[u]

\* The upstream side of an upgrade is open within its tunnel only, and there
\* as long as the visitor's is.
EndsAgree ==
    \A u \in Upgrades :
       /\ upstream[u] = "open" => pc[u] = "tunnel"
       /\ pc[u] = "tunnel" /\ visitor[u] = "open" => upstream[u] = "open"

OneOutcomeEach ==
    \A i, j \in DOMAIN log : log[i].upgrade = log[j].upgrade => i = j

Books ==
    /\ wsRefused = Cardinality(Refusals)
    /\ wsUpgrades = Cardinality(Endings) + Cardinality(Tunnels)
    /\ wsActive = Cardinality(Tunnels)

IInv ==
    /\ TypeOK /\ LoggedAreOver /\ FlagTells /\ EndsAgree
    /\ OneOutcomeEach /\ Books /\ RecentIsNewestFirst

----------------------------------------------------------------------------

\* Sets of upgrades are finite.
LEMMA SubsetsFinite ==
    ASSUME NEW S, S \subseteq Upgrades
    PROVE  IsFiniteSet(S) /\ Cardinality(S) \in Nat
BY RelayAssumption, FS_Subset, FS_CardinalityType

LEMMA LogNames ==
    ASSUME TypeOK
    PROVE  \A i \in DOMAIN log : log[i].upgrade \in Upgrades
<1>1. log \in Seq(Outcomes) /\ DOMAIN log = 1..Len(log)
  BY DEF TypeOK, Outcomes
<1>2. \A i \in DOMAIN log : log[i] \in Outcomes
  BY <1>1, ElementOfSeq
<1> QED BY <1>2 DEF Outcomes

\* The ring after an outcome is the outcome and what was there, cut at the
\* limit (recent.unshift, recent.pop).
LEMMA RingTurns ==
    ASSUME TypeOK, RecentIsNewestFirst, NEW o \in Outcomes, Remember(o),
           log' = Append(log, o)
    PROVE  /\ recent' \in Seq(Outcomes)
           /\ RecentIsNewestFirst'
<1> USE RelayAssumption
<1>1. /\ recent \in Seq(Outcomes) /\ log \in Seq(Outcomes)
      /\ Len(recent) \in Nat /\ Len(log) \in Nat
      /\ DOMAIN recent = 1..Len(recent)
  BY DEF TypeOK, Outcomes
<1>2. /\ Len(log') = Len(log) + 1
      /\ \A i \in 1..Len(log) : log'[i] = log[i]
      /\ log'[Len(log) + 1] = o
  BY <1>1
<1>3. \A kept \in Seq(Outcomes) :
        /\ <<o>> \o kept \in Seq(Outcomes)
        /\ Len(<<o>> \o kept) = Len(kept) + 1
        /\ (<<o>> \o kept)[1] = o
        /\ \A i \in 2..(Len(kept) + 1) : (<<o>> \o kept)[i] = kept[i - 1]
  <2> SUFFICES ASSUME NEW kept \in Seq(Outcomes)
               PROVE  /\ <<o>> \o kept \in Seq(Outcomes)
                      /\ Len(<<o>> \o kept) = Len(kept) + 1
                      /\ (<<o>> \o kept)[1] = o
                      /\ \A i \in 2..(Len(kept) + 1) : (<<o>> \o kept)[i] = kept[i - 1]
    OBVIOUS
  <2>1. <<o>> \in Seq(Outcomes) /\ Len(<<o>>) = 1 /\ <<o>>[1] = o
    OBVIOUS
  <2>2. Len(kept) \in Nat
    OBVIOUS
  <2> QED BY <2>1, <2>2, ConcatProperties
<1>4. \E kept \in Seq(Outcomes) :
        /\ recent' = <<o>> \o kept
        /\ Len(kept) = IF Len(recent) = RecentLimit THEN Len(recent) - 1 ELSE Len(recent)
        /\ \A i \in 1..Len(kept) : kept[i] = recent[i]
  <2>1. CASE Len(recent) = RecentLimit
    <3>1. \A i \in 1..(Len(recent) - 1) : recent[i] \in Outcomes
      BY <1>1, ElementOfSeq
    <3>2. /\ Front(recent) \in Seq(Outcomes)
          /\ Len(Front(recent)) = Len(recent) - 1
          /\ \A i \in 1..(Len(recent) - 1) : Front(recent)[i] = recent[i]
      BY <1>1, <2>1, <3>1, SubSeqProperties DEF Front
    <3> QED BY <2>1, <3>2 DEF Remember
  <2>2. CASE Len(recent) # RecentLimit
    BY <1>1, <2>2 DEF Remember
  <2> QED BY <2>1, <2>2
<1>5. PICK kept \in Seq(Outcomes) :
        /\ recent' = <<o>> \o kept
        /\ Len(kept) = IF Len(recent) = RecentLimit THEN Len(recent) - 1 ELSE Len(recent)
        /\ \A i \in 1..Len(kept) : kept[i] = recent[i]
  BY <1>4
<1>6. /\ recent' \in Seq(Outcomes)
      /\ Len(recent') = Len(kept) + 1
      /\ DOMAIN recent' = 1..(Len(kept) + 1)
      /\ recent'[1] = o
      /\ \A i \in 2..(Len(kept) + 1) : recent'[i] = kept[i - 1]
  BY <1>3, <1>5
<1>7. Len(recent') = IF Len(log') < RecentLimit THEN Len(log') ELSE RecentLimit
  BY <1>1, <1>2, <1>5, <1>6 DEF RecentIsNewestFirst
<1>8. ASSUME NEW i \in DOMAIN recent'
      PROVE  recent'[i] = log'[Len(log') + 1 - i]
  <2>1. CASE i = 1
    BY <1>1, <1>2, <1>6, <2>1
  <2>2. CASE i # 1
    <3>0. Len(kept) \in Nat /\ Len(kept) <= Len(recent)
      <4>1. Len(kept) \in Nat
        BY LenProperties
      <4>2. Len(kept) \in {Len(recent), Len(recent) - 1}
        BY <1>5
      <4>3. Len(recent) \in Nat
        BY <1>1
      <4> QED BY <4>1, <4>2, <4>3
    <3>1. i \in 2..(Len(kept) + 1) /\ i - 1 \in 1..Len(kept) /\ i - 1 \in DOMAIN recent
      <4>1. i \in 1..(Len(kept) + 1)
        BY <1>6
      <4> QED BY <1>1, <2>2, <3>0, <4>1
    <3>2. recent'[i] = log[Len(log) + 1 - (i - 1)]
      BY <1>5, <1>6, <3>1 DEF RecentIsNewestFirst
    <3>3. Len(log) + 1 - (i - 1) \in 1..Len(log)
      BY <1>1, <3>1 DEF RecentIsNewestFirst
    <3>4. Len(log') + 1 - i = Len(log) + 1 - (i - 1)
      BY <1>1, <1>2, <3>1
    <3> QED BY <1>2, <3>2, <3>3, <3>4
  <2> QED BY <2>1, <2>2
<1> QED BY <1>6, <1>7, <1>8 DEF RecentIsNewestFirst

\* An outcome of an upgrade that had none enters the books once.
LEMMA RecordEnters ==
    ASSUME TypeOK, OneOutcomeEach, RecentIsNewestFirst,
           NEW u \in Upgrades, NEW b \in BOOLEAN,
           \A i \in DOMAIN log : log[i].upgrade # u,
           Record(u, b)
    PROVE  /\ recent' \in Seq(Outcomes) /\ log' \in Seq(Outcomes)
           /\ RecentIsNewestFirst'
           /\ OneOutcomeEach'
           /\ \A i \in DOMAIN log' :
                 log'[i].upgrade = u \/ (i \in DOMAIN log /\ log'[i] = log[i])
           /\ WithOutcome(b)' = WithOutcome(b) \cup {u}
           /\ u \notin WithOutcome(b)
           /\ WithOutcome(~b)' = WithOutcome(~b)
<1> DEFINE o == Outcome(u, b)
<1>1. o \in Outcomes /\ o.upgrade = u /\ o.upgraded = b
  BY DEF Outcome, Outcomes
<1>2. /\ log \in Seq(Outcomes) /\ Len(log) \in Nat
      /\ DOMAIN log = 1..Len(log)
      /\ log' = Append(log, o)
  BY DEF TypeOK, Outcomes, Record
<1>3. /\ log' \in Seq(Outcomes)
      /\ DOMAIN log' = 1..(Len(log) + 1)
      /\ \A i \in DOMAIN log : i \in DOMAIN log' /\ log'[i] = log[i]
      /\ log'[Len(log) + 1] = o
  BY <1>1, <1>2
<1>4. recent' \in Seq(Outcomes) /\ RecentIsNewestFirst'
  BY <1>1, <1>2, RingTurns DEF Record
<1>5. \A i \in DOMAIN log' : i \in DOMAIN log \/ (i = Len(log) + 1 /\ log'[i] = o)
  BY <1>2, <1>3
<1>6. OneOutcomeEach'
  BY <1>1, <1>3, <1>5 DEF OneOutcomeEach
<1>7. WithOutcome(b)' = WithOutcome(b) \cup {u}
  <2>1. \A v \in Upgrades :
          (\E i \in DOMAIN log' : log'[i] = Outcome(v, b))
            <=> (\E i \in DOMAIN log : log[i] = Outcome(v, b)) \/ v = u
    <3>1. Len(log) + 1 \in DOMAIN log'
      BY <1>2, <1>3
    <3> QED BY <1>1, <1>3, <1>5, <3>1 DEF Outcome
  <2> QED BY <2>1 DEF WithOutcome
<1>8. u \notin WithOutcome(b)
  BY DEF WithOutcome, Outcome
<1>9. WithOutcome(~b)' = WithOutcome(~b)
  <2>1. \A v \in Upgrades :
          (\E i \in DOMAIN log' : log'[i] = Outcome(v, ~b))
            <=> (\E i \in DOMAIN log : log[i] = Outcome(v, ~b))
    BY <1>1, <1>3, <1>5 DEF Outcome
  <2> QED BY <2>1 DEF WithOutcome
<1> QED BY <1>1, <1>3, <1>4, <1>5, <1>6, <1>7, <1>8, <1>9

\* A record of a refusal, and of a tunnel that ended.
LEMMA RefusalCounted ==
    ASSUME IInv, NEW u \in Upgrades, pc[u] \in {"gate", "cookie", "asking"},
           Record(u, FALSE), pc' \in [Upgrades -> Steps],
           pc'[u] \in {"declined", "over"},
           \A v \in Upgrades \ {u} : pc'[v] = pc[v]
    PROVE  /\ wsActive' \in Nat /\ wsUpgrades' \in Nat /\ wsRefused' \in Nat
           /\ recent' \in Seq(Outcomes) /\ log' \in Seq(Outcomes)
           /\ LoggedAreOver' /\ OneOutcomeEach' /\ Books' /\ RecentIsNewestFirst'
<1>1. \A i \in DOMAIN log : log[i].upgrade # u
  BY DEF IInv, LoggedAreOver
<1>2. /\ recent' \in Seq(Outcomes) /\ log' \in Seq(Outcomes)
      /\ RecentIsNewestFirst' /\ OneOutcomeEach'
      /\ \A i \in DOMAIN log' :
            log'[i].upgrade = u \/ (i \in DOMAIN log /\ log'[i] = log[i])
      /\ Refusals' = Refusals \cup {u}
      /\ u \notin Refusals
      /\ Endings' = Endings
  <2>1. (~FALSE) = TRUE
    OBVIOUS
  <2> QED BY <1>1, <2>1, RecordEnters DEF IInv, Refusals, Endings
<1>3. LoggedAreOver'
  <2> SUFFICES ASSUME NEW i \in DOMAIN log'
               PROVE  pc'[log'[i].upgrade] \in {"declined", "over"}
    BY DEF LoggedAreOver
  <2>1. CASE log'[i].upgrade = u
    BY <2>1
  <2>2. CASE i \in DOMAIN log /\ log'[i] = log[i]
    <3>1. log[i].upgrade \in Upgrades \ {u}
      BY <1>1, <2>2, LogNames DEF IInv
    <3> QED BY <2>2, <3>1 DEF IInv, LoggedAreOver
  <2> QED BY <1>2, <2>1, <2>2
<1>4. Tunnels' = Tunnels
  BY DEF Tunnels, IInv, TypeOK
<1>5. Cardinality(Refusals \cup {u}) = Cardinality(Refusals) + 1
  <2>1. IsFiniteSet(Refusals)
    BY SubsetsFinite DEF WithOutcome, Refusals, Endings
  <2> QED BY <1>2, <2>1, FS_AddElement
<1>6. /\ wsActive' = wsActive /\ wsUpgrades' = wsUpgrades
      /\ wsRefused' = wsRefused + 1
  BY DEF Record
<1>7. Books'
  BY <1>2, <1>4, <1>5, <1>6 DEF IInv, Books
<1>8. wsActive' \in Nat /\ wsUpgrades' \in Nat /\ wsRefused' \in Nat
  BY <1>6 DEF IInv, TypeOK
<1> QED BY <1>2, <1>3, <1>7, <1>8

LEMMA EndCounted ==
    ASSUME IInv, NEW u \in Upgrades, pc[u] = "tunnel",
           Record(u, TRUE), pc' = [pc EXCEPT ![u] = "over"]
    PROVE  /\ wsActive' \in Nat /\ wsUpgrades' \in Nat /\ wsRefused' \in Nat
           /\ recent' \in Seq(Outcomes) /\ log' \in Seq(Outcomes)
           /\ LoggedAreOver' /\ OneOutcomeEach' /\ Books' /\ RecentIsNewestFirst'
<1>1. \A i \in DOMAIN log : log[i].upgrade # u
  BY DEF IInv, LoggedAreOver
<1>2. /\ recent' \in Seq(Outcomes) /\ log' \in Seq(Outcomes)
      /\ RecentIsNewestFirst' /\ OneOutcomeEach'
      /\ \A i \in DOMAIN log' :
            log'[i].upgrade = u \/ (i \in DOMAIN log /\ log'[i] = log[i])
      /\ Endings' = Endings \cup {u}
      /\ u \notin Endings
      /\ Refusals' = Refusals
  <2>1. (~TRUE) = FALSE
    OBVIOUS
  <2> QED BY <1>1, <2>1, RecordEnters DEF IInv, Refusals, Endings
<1>3. LoggedAreOver'
  <2> SUFFICES ASSUME NEW i \in DOMAIN log'
               PROVE  pc'[log'[i].upgrade] \in {"declined", "over"}
    BY DEF LoggedAreOver
  <2>1. CASE log'[i].upgrade = u
    BY <2>1 DEF IInv, TypeOK
  <2>2. CASE i \in DOMAIN log /\ log'[i] = log[i]
    <3>1. log[i].upgrade \in Upgrades \ {u}
      BY <1>1, <2>2, LogNames DEF IInv
    <3> QED BY <2>2, <3>1 DEF IInv, TypeOK, LoggedAreOver
  <2> QED BY <1>2, <2>1, <2>2
<1>4. Tunnels' = Tunnels \ {u} /\ u \in Tunnels
  BY DEF Tunnels, IInv, TypeOK
<1>5. IsFiniteSet(Tunnels) /\ Cardinality(Tunnels) \in Nat
  BY SubsetsFinite DEF Tunnels
<1>6. /\ Cardinality(Tunnels') = Cardinality(Tunnels) - 1
      /\ Cardinality(Tunnels') \in Nat
  <2>1. IsFiniteSet(Tunnels \ {u})
    BY <1>5, FS_RemoveElement
  <2> QED BY <1>4, <1>5, <2>1, FS_RemoveElement, FS_CardinalityType
<1>7. Cardinality(Endings \cup {u}) = Cardinality(Endings) + 1
  <2>1. IsFiniteSet(Endings)
    BY SubsetsFinite DEF WithOutcome, Refusals, Endings
  <2> QED BY <1>2, <2>1, FS_AddElement
<1>8. Cardinality(Endings) \in Nat
  BY SubsetsFinite DEF WithOutcome, Refusals, Endings
<1>9. /\ wsActive' = wsActive - 1 /\ wsUpgrades' = wsUpgrades
      /\ wsRefused' = wsRefused
  BY <1>5, <1>6 DEF Record, IInv, Books
<1>10. Books'
  <2>1. wsRefused' = Cardinality(Refusals')
    BY <1>2, <1>9 DEF IInv, Books
  <2>2. wsActive' = Cardinality(Tunnels')
    BY <1>6, <1>9 DEF IInv, Books
  <2>3. wsUpgrades = Cardinality(Endings) + Cardinality(Tunnels)
    BY DEF IInv, Books
  <2>4. wsUpgrades' = Cardinality(Endings') + Cardinality(Tunnels')
    BY <1>2, <1>5, <1>6, <1>7, <1>8, <1>9, <2>3
  <2> QED BY <2>1, <2>2, <2>4 DEF Books
<1>11. wsActive' \in Nat /\ wsUpgrades' \in Nat /\ wsRefused' \in Nat
  BY <1>6, <1>9, <1>10 DEF IInv, TypeOK, Books
<1> QED BY <1>2, <1>3, <1>10, <1>11

----------------------------------------------------------------------------

LEMMA Initially == Init => IInv
<1> SUFFICES ASSUME Init PROVE IInv
  OBVIOUS
<1>1. TypeOK
  <2>1. <<>> \in Seq([upgrade : Upgrades, upgraded : BOOLEAN])
    BY EmptySeq
  <2> QED BY <2>1 DEF Init, TypeOK, Steps
<1>2. LoggedAreOver /\ FlagTells /\ EndsAgree /\ OneOutcomeEach
  BY DEF Init, LoggedAreOver, FlagTells, EndsAgree, OneOutcomeEach
<1>3. Books
  <2>1. Refusals = {} /\ Endings = {} /\ Tunnels = {}
    BY DEF Init, WithOutcome, Refusals, Endings, Tunnels
  <2>2. Cardinality({}) = 0
    BY FS_EmptySet
  <2>3. wsRefused = 0 /\ wsUpgrades = 0 /\ wsActive = 0
    BY DEF Init
  <2> QED BY <2>1, <2>2, <2>3 DEF Books
<1>4. RecentIsNewestFirst
  BY RelayAssumption DEF Init, RecentIsNewestFirst
<1> QED BY <1>1, <1>2, <1>3, <1>4 DEF IInv

\* A step that records nothing and leaves the tunnels as they are keeps the
\* books.
LEMMA BooksUntouched ==
    ASSUME IInv, NoRecord, pc' \in [Upgrades -> Steps],
           Tunnels' = Tunnels,
           \A v \in Upgrades : pc[v] \in {"declined", "over"} => pc'[v] \in {"declined", "over"}
    PROVE  LoggedAreOver' /\ OneOutcomeEach' /\ Books' /\ RecentIsNewestFirst'
<1>1. Endings' = Endings /\ Refusals' = Refusals
  BY DEF NoRecord, WithOutcome, Refusals, Endings
<1>2. LoggedAreOver'
  <2>1. \A i \in DOMAIN log : log[i].upgrade \in Upgrades
    BY LogNames DEF IInv
  <2> QED BY <2>1 DEF IInv, LoggedAreOver, NoRecord
<1>3. OneOutcomeEach' /\ RecentIsNewestFirst'
  BY DEF IInv, NoRecord, OneOutcomeEach, RecentIsNewestFirst
<1>4. Books'
  BY <1>1 DEF IInv, NoRecord, Books
<1> QED BY <1>2, <1>3, <1>4

LEMMA StepsKeep == IInv /\ [Next]_vars => IInv'
<1> SUFFICES ASSUME IInv, [Next]_vars PROVE IInv'
  OBVIOUS
<1> USE DEF Steps
<1>0. CASE UNCHANGED vars
  BY <1>0 DEF vars, IInv, TypeOK, LoggedAreOver, FlagTells, EndsAgree, OneOutcomeEach,
              Books, WithOutcome, Refusals, Endings, Tunnels, RecentIsNewestFirst
<1>1. ASSUME NEW u \in Upgrades, Upgrade(u) \/ Allow(u) \/ Ask(u)
      PROVE  IInv'
  <2>1. TypeOK' /\ FlagTells' /\ EndsAgree'
    BY <1>1 DEF IInv, TypeOK, FlagTells, EndsAgree, Upgrade, Allow, Ask, Goto,
                SetUpstream, NoRecord
  <2>2. NoRecord
    BY <1>1 DEF Upgrade, Allow, Ask, NoRecord
  <2>3. /\ Tunnels' = Tunnels
        /\ \A v \in Upgrades : pc[v] \in {"declined", "over"} => pc'[v] \in {"declined", "over"}
    BY <1>1 DEF IInv, TypeOK, Tunnels, Upgrade, Allow, Ask, Goto
  <2>4. pc' \in [Upgrades -> Steps]
    BY <2>1 DEF TypeOK
  <2> QED BY <2>1, <2>2, <2>3, <2>4, BooksUntouched DEF IInv
<1>2. ASSUME NEW u \in Upgrades, Refuse(u)
      PROVE  IInv'
  <2>1. /\ pc' \in [Upgrades -> Steps] /\ pc'[u] = "over"
        /\ \A v \in Upgrades \ {u} : pc'[v] = pc[v]
        /\ pc[u] \in {"gate", "cookie", "asking"} /\ Record(u, FALSE)
    BY <1>2 DEF IInv, TypeOK, Refuse, Goto
  <2>2. /\ wsActive' \in Nat /\ wsUpgrades' \in Nat /\ wsRefused' \in Nat
        /\ recent' \in Seq(Outcomes) /\ log' \in Seq(Outcomes)
        /\ LoggedAreOver' /\ OneOutcomeEach' /\ Books' /\ RecentIsNewestFirst'
    BY <2>1, RefusalCounted
  <2>3. TypeOK'
    BY <1>2, <2>1, <2>2 DEF IInv, TypeOK, Outcomes, Refuse, CloseVisitor
  <2>4. FlagTells' /\ EndsAgree'
    BY <1>2, <2>1 DEF IInv, TypeOK, FlagTells, EndsAgree, Refuse, CloseVisitor
  <2> QED BY <2>2, <2>3, <2>4 DEF IInv
<1>3. ASSUME NEW u \in Upgrades, Upgraded(u)
      PROVE  IInv'
  <2>1. TypeOK' /\ FlagTells' /\ EndsAgree'
    BY <1>3 DEF IInv, TypeOK, FlagTells, EndsAgree, Upgraded, Goto, SetUpstream
  <2>2. Tunnels' = Tunnels \cup {u} /\ u \notin Tunnels
    BY <1>3 DEF IInv, TypeOK, Tunnels, Upgraded, Goto
  <2>3. IsFiniteSet(Tunnels) /\ Cardinality(Tunnels) \in Nat
    BY SubsetsFinite DEF Tunnels
  <2>4. Cardinality(Tunnels') = Cardinality(Tunnels) + 1
    BY <2>2, <2>3, FS_AddElement
  <2>5. Endings' = Endings /\ Refusals' = Refusals
    BY <1>3 DEF Upgraded, WithOutcome, Refusals, Endings
  <2>6. Cardinality(Endings) \in Nat
    BY SubsetsFinite DEF WithOutcome, Refusals, Endings
  <2>7. Books'
    <3>1. /\ wsActive' = wsActive + 1 /\ wsUpgrades' = wsUpgrades + 1
          /\ wsRefused' = wsRefused
      BY <1>3 DEF Upgraded
    <3>2. wsRefused' = Cardinality(Refusals')
      BY <2>5, <3>1 DEF IInv, Books
    <3>3. wsActive' = Cardinality(Tunnels')
      BY <2>3, <2>4, <3>1 DEF IInv, Books
    <3>4. wsUpgrades = Cardinality(Endings) + Cardinality(Tunnels)
      BY DEF IInv, Books
    <3>5. wsUpgrades' = Cardinality(Endings') + Cardinality(Tunnels')
      BY <2>3, <2>4, <2>5, <2>6, <3>1, <3>4
    <3> QED BY <3>2, <3>3, <3>5 DEF Books
  <2>8. LoggedAreOver' /\ OneOutcomeEach' /\ RecentIsNewestFirst'
    <3>1. \A i \in DOMAIN log : log[i].upgrade \in Upgrades
      BY LogNames DEF IInv
    <3> QED BY <1>3, <3>1 DEF IInv, TypeOK, LoggedAreOver, OneOutcomeEach,
                              RecentIsNewestFirst, Upgraded, Goto
  <2> QED BY <2>1, <2>7, <2>8 DEF IInv
<1>4. ASSUME NEW u \in Upgrades, Declined(u) \/ UpstreamError(u), pc[u] = "asking"
      PROVE  IInv'
  <2>1. /\ pc' \in [Upgrades -> Steps] /\ pc'[u] \in {"declined", "over"}
        /\ \A v \in Upgrades \ {u} : pc'[v] = pc[v]
        /\ Record(u, FALSE) /\ reported' = [reported EXCEPT ![u] = TRUE]
    BY <1>4 DEF IInv, TypeOK, FlagTells, Declined, UpstreamError, Report, Goto
  <2>2. /\ wsActive' \in Nat /\ wsUpgrades' \in Nat /\ wsRefused' \in Nat
        /\ recent' \in Seq(Outcomes) /\ log' \in Seq(Outcomes)
        /\ LoggedAreOver' /\ OneOutcomeEach' /\ Books' /\ RecentIsNewestFirst'
    BY <1>4, <2>1, RefusalCounted
  <2>3. /\ visitor' = [visitor EXCEPT ![u] = "closed"]
        /\ upstream' = [upstream EXCEPT ![u] = "closed"]
        /\ stopped' = stopped
    BY <1>4 DEF Declined, UpstreamError, CloseVisitor, SetUpstream
  <2>4. TypeOK'
    BY <2>1, <2>2, <2>3 DEF IInv, TypeOK, Outcomes
  <2>5. FlagTells' /\ EndsAgree'
    BY <1>4, <2>1, <2>3 DEF IInv, TypeOK, FlagTells, EndsAgree
  <2> QED BY <2>2, <2>4, <2>5 DEF IInv
<1>5. ASSUME NEW u \in Upgrades, UpstreamError(u), pc[u] = "declined"
      PROVE  IInv'
  <2>1. /\ NoRecord /\ reported' = reported
        /\ pc' = [pc EXCEPT ![u] = "over"]
        /\ visitor' = [visitor EXCEPT ![u] = "closed"]
        /\ upstream' = [upstream EXCEPT ![u] = "closed"]
        /\ stopped' = stopped
    BY <1>5 DEF IInv, FlagTells, UpstreamError, Report, Goto, CloseVisitor, SetUpstream
  <2>2. TypeOK' /\ FlagTells' /\ EndsAgree'
    BY <1>5, <2>1 DEF IInv, TypeOK, FlagTells, EndsAgree, NoRecord
  <2>3. /\ Tunnels' = Tunnels
        /\ \A v \in Upgrades : pc[v] \in {"declined", "over"} => pc'[v] \in {"declined", "over"}
    BY <1>5, <2>1 DEF IInv, TypeOK, Tunnels
  <2>4. pc' \in [Upgrades -> Steps]
    BY <2>2 DEF TypeOK
  <2> QED BY <2>1, <2>2, <2>3, <2>4, BooksUntouched DEF IInv
<1>6. ASSUME NEW u \in Upgrades, TunnelCloses(u), visitor[u] = "open"
      PROVE  IInv'
  <2>1. /\ pc[u] = "tunnel" /\ pc' = [pc EXCEPT ![u] = "over"]
        /\ Record(u, TRUE) /\ reported' = [reported EXCEPT ![u] = TRUE]
        /\ visitor' = [visitor EXCEPT ![u] = "closed"]
        /\ upstream' = [upstream EXCEPT ![u] = "closed"]
        /\ stopped' = stopped
    BY <1>6 DEF IInv, FlagTells, TunnelCloses, Report, Goto, CloseVisitor, SetUpstream
  <2>2. /\ wsActive' \in Nat /\ wsUpgrades' \in Nat /\ wsRefused' \in Nat
        /\ recent' \in Seq(Outcomes) /\ log' \in Seq(Outcomes)
        /\ LoggedAreOver' /\ OneOutcomeEach' /\ Books' /\ RecentIsNewestFirst'
    BY <2>1, EndCounted
  <2>3. TypeOK'
    BY <2>1, <2>2 DEF IInv, TypeOK, Outcomes
  <2>4. FlagTells' /\ EndsAgree'
    BY <2>1 DEF IInv, TypeOK, FlagTells, EndsAgree
  <2> QED BY <2>2, <2>3, <2>4 DEF IInv
<1>7. ASSUME NEW u \in Upgrades,
             (TunnelCloses(u) /\ visitor[u] # "open") \/ VisitorLeavesEarly(u)
      PROVE  IInv'
  <2>1. /\ NoRecord /\ pc' = pc /\ reported' = reported /\ stopped' = stopped
        /\ visitor' = [visitor EXCEPT ![u] = "closed"]
        /\ upstream' \in {upstream, [upstream EXCEPT ![u] = "closed"]}
        /\ upstream' = upstream => pc[u] \in {"gate", "cookie", "asking"}
    BY <1>7 DEF IInv, TypeOK, TunnelCloses, VisitorLeavesEarly, CloseVisitor, SetUpstream
  <2>2. TypeOK' /\ FlagTells'
    BY <2>1 DEF IInv, TypeOK, FlagTells, NoRecord
  <2>3. EndsAgree'
    BY <2>1 DEF IInv, TypeOK, EndsAgree
  <2>4. Tunnels' = Tunnels /\ pc' \in [Upgrades -> Steps]
    BY <2>1, <2>2 DEF Tunnels, TypeOK
  <2> QED BY <2>1, <2>2, <2>3, <2>4, BooksUntouched DEF IInv
<1>8. CASE Stop
  <2>1. TypeOK' /\ FlagTells' /\ EndsAgree' /\ NoRecord /\ pc' = pc
    BY <1>8 DEF IInv, TypeOK, FlagTells, EndsAgree, Stop, NoRecord
  <2>2. Tunnels' = Tunnels /\ pc' \in [Upgrades -> Steps]
    BY <2>1 DEF Tunnels, TypeOK
  <2> QED BY <2>1, <2>2, BooksUntouched DEF IInv
<1> QED
  <2>1. ASSUME NEW u \in Upgrades, Declined(u) \/ UpstreamError(u) PROVE IInv'
    BY <1>4, <1>5, <2>1 DEF Declined, UpstreamError
  <2>2. ASSUME NEW u \in Upgrades, TunnelCloses(u) \/ VisitorLeavesEarly(u) PROVE IInv'
    BY <1>6, <1>7, <2>2
  <2> QED BY <1>0, <1>1, <1>2, <1>3, <1>8, <2>1, <2>2 DEF Next

LEMMA InvariantHolds == Spec => []IInv
<1>1. Init => IInv
  BY Initially
<1>2. IInv /\ [Next]_vars => IInv'
  BY StepsKeep
<1> QED BY <1>1, <1>2, PTL DEF Spec

----------------------------------------------------------------------------

\* The variables of the relay keep their shapes; in particular no counter of
\* the console goes below zero (recordRelay, recordRefusal, onUpgraded).
THEOREM TypesHold == Spec => []TypeOK
<1>1. IInv => TypeOK
  BY DEF IInv
<1> QED BY <1>1, InvariantHolds, PTL

\* Whatever the order of answers, errors and closes, the books balance: one
\* outcome at most for an upgrade, and each counted once (report).
THEOREM BooksBalance == Spec => []EachUpgradeCountedOnce
<1>1. IInv => EachUpgradeCountedOnce
  BY DEF IInv, OneOutcomeEach, Books, Tunnels, Refusals, Endings, EachUpgradeCountedOnce
<1> QED BY <1>1, InvariantHolds, PTL

\* The console's ring is the reversed tail of all outcomes, for any length of
\* it (recent.unshift, recent.pop).
THEOREM RingIsTheTail == Spec => []RecentIsNewestFirst
<1>1. IInv => RecentIsNewestFirst
  BY DEF IInv
<1> QED BY <1>1, InvariantHolds, PTL

\* wsActive is the number of open tunnels, the ones whose visitor had gone
\* before the 101 included, and no end of a tunnel outlives the other.
THEOREM TunnelsAreCounted == Spec => []ActiveCountsTunnels
<1>1. IInv => ActiveCountsTunnels
  <2> SUFFICES ASSUME IInv PROVE ActiveCountsTunnels
    OBVIOUS
  <2>1. \A u \in Upgrades :
          /\ (upstream[u] = "open") \/ (pc[u] = "tunnel" /\ visitor[u] = "closed")
               <=> pc[u] = "tunnel"
          /\ \/ pc[u] = "tunnel" /\ visitor[u] = "closed"
             \/ (upstream[u] = "open") = (pc[u] = "tunnel" /\ visitor[u] = "open")
    BY DEF IInv, TypeOK, EndsAgree
  <2>2. Tunnels = {u \in Upgrades :
                     (pc[u] = "tunnel" /\ visitor[u] = "closed") \/ upstream[u] = "open"}
    BY <2>1 DEF Tunnels
  <2> QED BY <2>1, <2>2 DEF ActiveCountsTunnels, IInv, Books
<1> QED BY <1>1, InvariantHolds, PTL
=============================================================================
