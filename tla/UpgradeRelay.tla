---------------------------- MODULE UpgradeRelay ----------------------------
(***************************************************************************)
(* The WebSocket upgrades of the proxy: the upgrade handler of             *)
(* src/proxy.ts, forwardUpgrade of src/websocket.ts and the counters the   *)
(* management console shows.                                               *)
(*                                                                         *)
(* A socket is open until it is destroyed, and emits its close event once, *)
(* then: a listener attached after that is never called.  The gate and the *)
(* cookie are awaited (VisitorGate, UpstreamProxy) and answer anything.    *)
(***************************************************************************)
EXTENDS Integers, Sequences, FiniteSets, SequencesExt

CONSTANTS
    Upgrades,     \* the upgrade requests of a run
    RecentLimit,  \* outcomes the console shows
    Hasty         \* may a visitor leave before the upstream has answered?

ASSUME RelayAssumption ==
    /\ IsFiniteSet(Upgrades)
    /\ RecentLimit \in Nat \ {0}
    /\ Hasty \in BOOLEAN

VARIABLES
    pc,         \* where the handling of each upgrade is
    visitor,    \* the visitor's socket: "open", "closed"
    upstream,   \* the upstream side: "none", "asked", "open", "closed"
    reported,   \* the flag of report()
    wsActive, wsUpgrades, wsRefused,
    recent,     \* the last outcomes, newest first
    log,        \* history: every outcome, oldest first
    stopped     \* the listener has been closed

vars == <<pc, visitor, upstream, reported, wsActive,
          wsUpgrades, wsRefused, recent, log, stopped>>

Steps == {"idle", "gate", "cookie", "asking", "tunnel",
          "declined", "over"}

\* An outcome: which upgrade, and whether it had been upgraded.
Outcome(u, upgraded) == [upgrade |-> u, upgraded |-> upgraded]

Init ==
    /\ pc = [u \in Upgrades |-> "idle"]
    /\ visitor = [u \in Upgrades |-> "open"]
    /\ upstream = [u \in Upgrades |-> "none"]
    /\ reported = [u \in Upgrades |-> FALSE]
    /\ wsActive = 0 /\ wsUpgrades = 0 /\ wsRefused = 0
    /\ recent = <<>>
    /\ log = <<>>
    /\ stopped = FALSE

Goto(u, step) == pc' = [pc EXCEPT ![u] = step]
CloseVisitor(u) == visitor' = [visitor EXCEPT ![u] = "closed"]
SetUpstream(u, state) == upstream' = [upstream EXCEPT ![u] = state]

----------------------------------------------------------------------------
(* Counters *)

\* Mutant: one outcome too many is kept.
Remember_TooMany(outcome) ==
    recent' = IF Len(recent) > RecentLimit
              THEN <<outcome>> \o Front(recent)
              ELSE <<outcome>> \o recent

\* unshift, then pop what is beyond the limit.
Remember(outcome) ==
    recent' = IF Len(recent) = RecentLimit
              THEN <<outcome>> \o Front(recent)
              ELSE <<outcome>> \o recent

\* recordRefusal and recordRelay.
Record(u, upgraded) ==
    /\ Remember(Outcome(u, upgraded))
    /\ log' = Append(log, Outcome(u, upgraded))
    /\ IF upgraded
       THEN /\ wsActive' = IF wsActive = 0 THEN 0 ELSE wsActive - 1
            /\ UNCHANGED wsRefused
       ELSE wsRefused' = wsRefused + 1 /\ UNCHANGED wsActive
    /\ UNCHANGED wsUpgrades

NoRecord == UNCHANGED <<wsActive, wsUpgrades, wsRefused, recent, log>>

\* Mutant: an outcome is reported as often as it is noticed.
Report_Again(u, upgraded) ==
    /\ Record(u, upgraded)
    /\ reported' = [reported EXCEPT ![u] = TRUE]

\* report(): the first outcome of an upgrade is the one that counts.
Report(u, upgraded) ==
    IF reported[u]
    THEN NoRecord /\ UNCHANGED reported
    ELSE Record(u, upgraded) /\ reported' = [reported EXCEPT ![u] = TRUE]

----------------------------------------------------------------------------
(* The upgrade handler *)

Upgrade(u) ==
    /\ pc[u] = "idle"
    /\ ~stopped
    /\ Goto(u, "gate")
    /\ UNCHANGED <<visitor, upstream, reported, wsActive,
                   wsUpgrades, wsRefused, recent, log, stopped>>

\* The gate refuses, or the upstream session cannot be had.
Refuse(u) ==
    /\ pc[u] \in {"gate", "cookie"}
    /\ Record(u, FALSE)
    /\ Goto(u, "over")
    /\ CloseVisitor(u)
    /\ UNCHANGED <<upstream, reported, stopped>>

Allow(u) ==
    /\ pc[u] = "gate"
    /\ Goto(u, "cookie")
    /\ NoRecord
    /\ UNCHANGED <<visitor, upstream, reported, stopped>>

\* forwardUpgrade: the upstream is asked, whether or not the visitor is still
\* there.
Ask(u) ==
    /\ pc[u] = "cookie"
    /\ Goto(u, "asking")
    /\ SetUpstream(u, "asked")
    /\ NoRecord
    /\ UNCHANGED <<visitor, reported, stopped>>

----------------------------------------------------------------------------
(* The upstream answers *)

\* 101: the close listeners go on, the visitor gets the head, the counters
\* move.
Upgraded(u) ==
    /\ pc[u] = "asking"
    /\ Goto(u, "tunnel")
    /\ SetUpstream(u, "open")
    /\ wsActive' = wsActive + 1
    /\ wsUpgrades' = wsUpgrades + 1
    /\ UNCHANGED <<visitor, reported, wsRefused, recent,
                   log, stopped>>

\* Any other answer.
Declined(u) ==
    /\ pc[u] = "asking"
    /\ Report(u, FALSE)
    /\ Goto(u, "declined")
    /\ SetUpstream(u, "closed")
    /\ CloseVisitor(u)
    /\ UNCHANGED <<stopped>>

\* The error event of the upstream request: instead of an answer, or after
\* one that declined.
UpstreamError(u) ==
    /\ pc[u] \in {"asking", "declined"}
    /\ Report(u, FALSE)
    /\ Goto(u, "over")
    /\ SetUpstream(u, "closed")
    /\ CloseVisitor(u)
    /\ UNCHANGED <<stopped>>

----------------------------------------------------------------------------
(* Sockets close *)

\* Mutant: only the visitor's end of a tunnel closes.
TunnelCloses_OneSided(u) ==
    /\ pc[u] = "tunnel"
    /\ visitor[u] = "open"
    /\ Report(u, TRUE)
    /\ Goto(u, "over")
    /\ CloseVisitor(u)
    /\ UNCHANGED <<upstream, stopped>>

\* Either end of a tunnel closes: each destroys the other, and the close event
\* of the visitor's socket reports.  When the visitor was gone before the 101
\* that event is past, so only the upstream side can close and nothing is
\* reported.
TunnelCloses(u) ==
    /\ pc[u] = "tunnel"
    /\ upstream[u] = "open"
    /\ SetUpstream(u, "closed")
    /\ CloseVisitor(u)
    /\ IF visitor[u] = "open"
       THEN Report(u, TRUE) /\ Goto(u, "over")
       ELSE NoRecord /\ UNCHANGED <<pc, reported>>
    /\ UNCHANGED <<stopped>>

\* Before the 101 only the error guard listens: nothing else happens.  Either
\* the connection is reset or close() destroys it.
VisitorLeavesEarly(u) ==
    /\ Hasty
    /\ pc[u] \in {"gate", "cookie", "asking"}
    /\ visitor[u] = "open"
    /\ CloseVisitor(u)
    /\ NoRecord
    /\ UNCHANGED <<pc, upstream, reported, stopped>>

\* close(): no further upgrade comes in, and the visitors' sockets are
\* destroyed (TunnelCloses, VisitorLeavesEarly).
Stop ==
    /\ ~stopped
    /\ stopped' = TRUE
    /\ NoRecord
    /\ UNCHANGED <<pc, visitor, upstream, reported>>

Next ==
    \/ \E u \in Upgrades :
          \/ Upgrade(u) \/ Refuse(u) \/ Allow(u) \/ Ask(u)
          \/ Upgraded(u) \/ Declined(u) \/ UpstreamError(u)
          \/ TunnelCloses(u) \/ VisitorLeavesEarly(u)
    \/ Stop

Spec == Init /\ [][Next]_vars

----------------------------------------------------------------------------
(* Properties *)

\* The shapes of the variables (one conjunct per variable of the proxy).
TypeOK ==
    /\ pc \in [Upgrades -> Steps]
    /\ visitor \in [Upgrades -> {"open", "closed"}]
    /\ upstream \in [Upgrades -> {"none", "asked", "open", "closed"}]
    /\ reported \in [Upgrades -> BOOLEAN]
    /\ wsActive \in Nat /\ wsUpgrades \in Nat /\ wsRefused \in Nat
    /\ recent \in Seq([upgrade : Upgrades, upgraded : BOOLEAN])
    /\ log \in Seq([upgrade : Upgrades, upgraded : BOOLEAN])
    /\ stopped \in BOOLEAN

\* The upgrades with an outcome of the given kind.
WithOutcome(upgraded) ==
    {u \in Upgrades : \E i \in DOMAIN log : log[i] = Outcome(u, upgraded)}

\* The console's books balance whatever the order in which answers, errors and
\* closes arrive: every upgrade leaves at most one outcome, a refused one is
\* counted once, an accepted one is counted once and has its outcome when its
\* tunnel is over (recordRelay, recordRefusal, onUpgraded, report).
EachUpgradeCountedOnce ==
    /\ \A i, j \in DOMAIN log : log[i].upgrade = log[j].upgrade => i = j
    /\ wsRefused = Cardinality(WithOutcome(FALSE))
    /\ wsUpgrades = Cardinality(WithOutcome(TRUE))
                     + Cardinality({u \in Upgrades : pc[u] = "tunnel"})

\* "The last few outcomes, newest first": the ring the console shows is the
\* reversed tail of everything that happened, cut at the limit
\* (recent.unshift and recent.pop).
RecentIsNewestFirst ==
    /\ Len(recent) = (IF Len(log) < RecentLimit THEN Len(log) ELSE RecentLimit)
    /\ \A i \in DOMAIN recent : recent[i] = log[Len(log) + 1 - i]

\* Neither end of a tunnel outlives the other, and the open-tunnel counter is
\* exact but for one case: an upgrade whose visitor was gone before the 101
\* stays counted for good, because the close event that would count it off is
\* past when the listener goes on (onUpgraded, the close listeners, report).
ActiveCountsTunnels ==
    LET leftBefore(u) == pc[u] = "tunnel" /\ visitor[u] = "closed"
    IN  /\ \A u \in Upgrades : \/ leftBefore(u)
                               \/ (upstream[u] = "open")
                                   = (pc[u] = "tunnel" /\ visitor[u] = "open")
        /\ wsActive = Cardinality({u \in Upgrades :
                                     leftBefore(u) \/ upstream[u] = "open"})

============================================================================
