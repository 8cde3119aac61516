----------------------------- MODULE JsonStore -----------------------------
(***************************************************************************)
(* writeJson of src/store/secrets.ts for one document.  A save waits for   *)
(* mkdir, joins the document's chain of promises, and when every save that *)
(* joined before it has settled writes its body to a temporary file of its *)
(* own, renames it over the document and sets its mode.  Every file        *)
(* operation can fail: the save is then rejected and the chain goes on.    *)
(*                                                                         *)
(* The chain is modelled by numbers: the saves are numbered in the order   *)
(* they join, and the one whose number is `settled` has its turn.          *)
(*                                                                         *)
(* A temporary name is random, so a save never meets another's file; the   *)
(* one a failure leaves behind is never read again.                        *)
(***************************************************************************)
EXTENDS Integers, FiniteSets

CONSTANTS
    Writers,    \* callers with a save under way
    Bodies,     \* values of the document
    NoDocument, \* the document (or the temporary file) does not exist
    Partial,    \* the file holds part of a body
    MaxSaves    \* bound: saves that join the chain in a run

ASSUME StoreAssumption ==
    /\ MaxSaves \in Nat
    /\ NoDocument \notin Bodies
    /\ Partial \notin Bodies \cup {NoDocument}

VARIABLES
    document,  \* the file under the document's own name
    stage,     \* where the save of each writer is
    body,      \* the value it saves
    temporary, \* its temporary file
    turn,      \* its number in the chain
    joined,    \* how many saves have joined the chain
    settled,   \* how many of them have settled
    stored     \* history: the number of the save the document comes from

vars == <<document, stage, body, temporary, turn, joined, settled, stored>>

Stages == {"idle", "mkdir", "chained", "writing", "renaming", "chmod",
           "accepted", "rejected"}
Resting == {"idle", "accepted", "rejected"}

Init ==
    /\ document \in Bodies \cup {NoDocument}
    /\ stage = [w \in Writers |-> "idle"]
    /\ body = [w \in Writers |-> NoDocument]
    /\ temporary = [w \in Writers |-> NoDocument]
    /\ turn = [w \in Writers |-> 0]
    /\ joined = 0
    /\ settled = 0
    /\ stored = -1

\* Bound: saves already in the chain and on their way to it.
SavesLeft ==
    joined + Cardinality({w \in Writers : stage[w] = "mkdir"}) < MaxSaves

Goto(w, s) == stage' = [stage EXCEPT ![w] = s]

\* The call, up to its first await.
Save(w) ==
    /\ stage[w] \in Resting
    /\ SavesLeft
    /\ Goto(w, "mkdir")
    /\ \E b \in Bodies : body' = [body EXCEPT ![w] = b]
    /\ temporary' = [temporary EXCEPT ![w] = NoDocument]
    /\ UNCHANGED <<document, turn, joined, settled, stored>>

\* mkdir calls end in any order: the order of joining is not that of calling.
Join(w) ==
    /\ stage[w] = "mkdir"
    /\ Goto(w, "chained")
    /\ turn' = [turn EXCEPT ![w] = joined]
    /\ joined' = joined + 1
    /\ UNCHANGED <<document, body, temporary, settled, stored>>

\* Mutant: the failure of mkdir is swallowed.
MkdirFail_Swallowed(w) ==
    /\ stage[w] = "mkdir"
    /\ Goto(w, "accepted")
    /\ UNCHANGED <<document, body, temporary, turn, joined, settled, stored>>

MkdirFail(w) ==
    /\ stage[w] = "mkdir"
    /\ Goto(w, "rejected")
    /\ UNCHANGED <<document, body, temporary, turn, joined, settled, stored>>

\* Mutant: the chain is not waited for.
MyTurn_Always(w) == stage[w] = "chained"

\* previous.then(...): every save that joined before has settled.
MyTurn(w) == stage[w] = "chained" /\ turn[w] = settled

\* Mutant: the document is written in place.
OpenTemporary_InPlace(w) ==
    /\ MyTurn(w)
    /\ Goto(w, "writing")
    /\ document' = Partial
    /\ UNCHANGED <<body, temporary, turn, joined, settled, stored>>

OpenTemporary(w) ==
    /\ MyTurn(w)
    /\ Goto(w, "writing")
    /\ temporary' = [temporary EXCEPT ![w] = Partial]
    /\ UNCHANGED <<document, body, turn, joined, settled, stored>>

WriteTemporary(w) ==
    /\ stage[w] = "writing"
    /\ Goto(w, "renaming")
    /\ temporary' = [temporary EXCEPT ![w] = body[w]]
    /\ UNCHANGED <<document, body, turn, joined, settled, stored>>

Rename(w) ==
    /\ stage[w] = "renaming"
    /\ Goto(w, "chmod")
    /\ document' = temporary[w]
    /\ temporary' = [temporary EXCEPT ![w] = NoDocument]
    /\ stored' = turn[w]
    /\ UNCHANGED <<body, turn, joined, settled>>

\* The save settles and the next of the chain has its turn.
Settle(w, answer) ==
    /\ Goto(w, answer)
    /\ settled' = settled + 1
    /\ UNCHANGED <<document, body, temporary, turn, joined, stored>>

Chmod(w) == stage[w] = "chmod" /\ Settle(w, "accepted")

\* Mutant: a failure leaves the chain waiting.
FileFail_BreaksChain(w) ==
    /\ stage[w] \in {"writing", "renaming", "chmod"}
    /\ Goto(w, "rejected")
    /\ UNCHANGED <<document, body, temporary, turn, joined, settled, stored>>

\* writeFile, rename or chmod fails.  A failed chmod rejects a save whose
\* body is already the document.
FileFail(w) ==
    /\ stage[w] \in {"writing", "renaming", "chmod"}
    /\ Settle(w, "rejected")

\* The process ends: its calls and its chain are gone, the files stay.
Crash ==
    /\ stage' = [w \in Writers |-> "idle"]
    /\ settled' = joined
    /\ UNCHANGED <<document, body, temporary, turn, joined, stored>>

Progress(w) ==
    \/ Join(w) \/ MkdirFail(w)
    \/ OpenTemporary(w) \/ WriteTemporary(w) \/ Rename(w) \/ Chmod(w)
    \/ FileFail(w)

Next == Crash \/ \E w \in Writers : Save(w) \/ Progress(w)

Spec == Init /\ [][Next]_vars

\* Every file operation ends, well or badly.
FairSpec == Spec /\ \A w \in Writers : WF_vars(Progress(w))

----------------------------------------------------------------------------
(* What the store promises *)

\* Types, and a turn count that stays within the chain.
TypeOK ==
    /\ document \in Bodies \cup {NoDocument, Partial}
    /\ stage \in [Writers -> Stages]
    /\ body \in [Writers -> Bodies \cup {NoDocument}]
    /\ temporary \in [Writers -> Bodies \cup {NoDocument, Partial}]
    /\ turn \in [Writers -> Nat]
    /\ joined \in Nat
    /\ settled \in 0 .. joined
    /\ stored \in Nat \cup {-1}

\* Whatever fails and whenever the process dies, a reader finds no document
\* or a whole one.
DocumentWhole == document # Partial

Writing(w) == stage[w] \in {"writing", "renaming", "chmod"}

\* One save at a time touches the files of a document (the rejection of two
\* that met once ended the whole host process).
OneWriter ==
    \A v, w \in Writers : Writing(v) /\ Writing(w) => v = w

\* A save never replaces the document of one that joined the chain after it.
NewerStays == [][stored' >= stored]_vars

\* Every save is answered, whatever failed before it.
EverySaveAnswered ==
    \A w \in Writers : stage[w] = "mkdir" ~> stage[w] \in Resting

\* The store keeps the promise of AtomicStore.
AbstractSave(w) ==
    CASE stage[w] \in Resting ->
            [status |-> stage[w], body |-> NoDocument]
      [] stage[w] \in {"mkdir", "chained", "writing", "renaming"} ->
            [status |-> "begun", body |-> body[w]]
      [] stage[w] = "chmod" -> [status |-> "committed", body |-> body[w]]

Atomic == INSTANCE AtomicStore
              WITH save <- [w \in Writers |-> AbstractSave(w)]

AtomicSpec == Atomic!Spec
============================================================================
