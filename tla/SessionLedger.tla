---------------------------- MODULE SessionLedger ----------------------------
(***************************************************************************)
(* What src/auth/manager.ts promises of the cookies it gives out, whatever *)
(* overlaps, fails or restarts inside it: which cookie values are accepted *)
(* and how that may change.  AuthManager.tla implements this module.       *)
(***************************************************************************)
EXTENDS Integers

CONSTANT Tokens   \* values a cookie can be drawn from

VARIABLES
    visitors,  \* the values accepted as a visitor's cookie
    admins,    \* the values accepted as an unlocked console's cookie
    stored,    \* the values a restart may accept as a visitor's cookie
    given      \* the values given out so far

ledgerVars == <<visitors, admins, stored, given>>

Init == visitors = {} /\ admins = {} /\ stored = {} /\ given = {}

\* A value is given out once, to a visitor.
Issue(t) ==
    /\ t \notin given
    /\ given' = given \cup {t}
    /\ visitors' = visitors \cup {t}
    /\ stored' \subseteq stored \cup visitors'
    /\ UNCHANGED admins

\* A value is given out once, to an unlocked console; it is never stored.
Unlock(t) ==
    /\ t \notin given
    /\ given' = given \cup {t}
    /\ admins' = admins \cup {t}
    /\ stored' \subseteq stored
    /\ UNCHANGED visitors

\* Values are dropped, and what is accepted may be stored.
Drop ==
    /\ visitors' \subseteq visitors
    /\ admins' \subseteq admins
    /\ stored' \subseteq stored \cup visitors
    /\ UNCHANGED given

\* The process starts again: every console is locked.
Restart ==
    /\ visitors' \subseteq stored
    /\ admins' = {}
    /\ stored' \subseteq stored
    /\ UNCHANGED given

Next ==
    \/ \E t \in Tokens : Issue(t) \/ Unlock(t)
    \/ Drop
    \/ Restart

Spec == Init /\ [][Next]_ledgerVars

\* A value serves one of the two cookies, now and after any restart.
KindsApart == admins \cap (visitors \cup stored) = {}

\* Nothing is accepted that was not given out.
Given == visitors \cup admins \cup stored \subseteq given
=============================================================================
