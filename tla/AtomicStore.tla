---------------------------- MODULE AtomicStore ----------------------------
(***************************************************************************)
(* What the store promises of one document of the data directory           *)
(* (src/store/secrets.ts, writeJson): a save replaces the document whole,  *)
(* at one moment between its call and its answer.  An accepted save has    *)
(* replaced it; a rejected one may or may not have.  The saves of several  *)
(* callers take effect in any order.  A crash loses the saves under way.   *)
(***************************************************************************)
CONSTANTS
    Writers,   \* callers with a save under way
    Bodies,    \* values of the document
    NoDocument \* the document has never been written

VARIABLES
    document,  \* the document a reader finds
    save       \* the save of each writer

Begun(b) == [status |-> "begun", body |-> b]
Committed(b) == [status |-> "committed", body |-> b]
Quiet(status) == [status |-> status, body |-> NoDocument]
Resting == {Quiet("idle"), Quiet("accepted"), Quiet("rejected")}

Init ==
    /\ document \in Bodies \cup {NoDocument}
    /\ save = [w \in Writers |-> Quiet("idle")]

Begin(w) ==
    /\ save[w] \in Resting
    /\ \E b \in Bodies : save' = [save EXCEPT ![w] = Begun(b)]
    /\ UNCHANGED document

Commit(w) ==
    /\ save[w].status = "begun"
    /\ document' = save[w].body
    /\ save' = [save EXCEPT ![w] = Committed(save[w].body)]

Accept(w) ==
    /\ save[w].status = "committed"
    /\ save' = [save EXCEPT ![w] = Quiet("accepted")]
    /\ UNCHANGED document

Reject(w) ==
    /\ save[w].status \in {"begun", "committed"}
    /\ save' = [save EXCEPT ![w] = Quiet("rejected")]
    /\ UNCHANGED document

Crash ==
    /\ save' = [w \in Writers |-> Quiet("idle")]
    /\ UNCHANGED document

Next ==
    \/ \E w \in Writers : Begin(w) \/ Commit(w) \/ Accept(w) \/ Reject(w)
    \/ Crash

Spec == Init /\ [][Next]_<<document, save>>
============================================================================
