-------------------------- MODULE JsonStoreProofs --------------------------
(***************************************************************************)
(* Proofs about JsonStore, for any callers, values and number of saves.    *)
(*                                                                         *)
(* The argument is the chain's: the saves that have joined and not settled *)
(* hold distinct numbers, none of them below the one whose turn it is, so  *)
(* the save that works on the files is the one that holds that number.     *)
(***************************************************************************)
EXTENDS JsonStore, TLAPS

InChain(w) == stage[w] \in {"chained", "writing", "renaming", "chmod"}

\* The numbers of the saves in the chain.
TurnsDistinct ==
    \A v, w \in Writers : InChain(v) /\ InChain(w) /\ turn[v] = turn[w] => v = w

TurnsAhead ==
    \A w \in Writers : InChain(w) => settled <= turn[w] /\ turn[w] < joined

WriterHasTurn == \A w \in Writers : Writing(w) => turn[w] = settled

\* What a save is about to put in place.
BodiesWhole ==
    \A w \in Writers :
       /\ stage[w] = "mkdir" \/ InChain(w) => body[w] \in Bodies
       /\ stage[w] = "renaming" => temporary[w] = body[w]

IInv ==
    /\ TypeOK
    /\ DocumentWhole
    /\ TurnsDistinct
    /\ TurnsAhead
    /\ WriterHasTurn
    /\ BodiesWhole
    /\ stored <= settled

----------------------------------------------------------------------------
(* The inductive invariant *)

LEMMA InitIInv == Init => IInv
BY StoreAssumption
   DEF Init, IInv, TypeOK, Stages, DocumentWhole, TurnsDistinct, TurnsAhead,
       WriterHasTurn, Writing, BodiesWhole, InChain

\* A save that settles holds the turn, and the others come later.
LEMMA SettleIInv ==
    ASSUME IInv, NEW w \in Writers, Writing(w),
           NEW answer \in {"accepted", "rejected"}, Settle(w, answer)
    PROVE  IInv'
<1>1. /\ turn[w] = settled
      /\ settled < joined
      /\ InChain(w)
  BY DEF IInv, WriterHasTurn, TurnsAhead, Writing, InChain
<1>2. \A v \in Writers : InChain(v)' => v # w /\ InChain(v)
  BY DEF Settle, Goto, InChain, IInv, TypeOK
<1>3. TypeOK'
  BY <1>1 DEF IInv, TypeOK, Settle, Goto, Stages
<1>4. TurnsAhead'
  <2> SUFFICES ASSUME NEW v \in Writers, InChain(v)'
               PROVE  settled' <= turn'[v] /\ turn'[v] < joined'
    BY DEF TurnsAhead
  <2>1. turn[v] # turn[w] /\ settled <= turn[v] /\ turn[v] < joined
    BY <1>1, <1>2 DEF IInv, TurnsDistinct, TurnsAhead
  <2> QED
    BY <2>1, <1>1 DEF Settle, IInv, TypeOK
<1>5. WriterHasTurn'
  <2> SUFFICES ASSUME NEW v \in Writers, Writing(v)'
               PROVE  FALSE
    BY DEF WriterHasTurn
  <2>1. v # w /\ Writing(v)
    BY DEF Settle, Goto, Writing, IInv, TypeOK
  <2>2. InChain(v) /\ turn[v] = turn[w]
    BY <2>1, <1>1 DEF IInv, WriterHasTurn, Writing, InChain
  <2> QED
    BY <2>1, <2>2, <1>1 DEF IInv, TurnsDistinct
<1>6. TurnsDistinct'
  BY <1>2 DEF IInv, TurnsDistinct, Settle
<1>7. BodiesWhole' /\ DocumentWhole'
  BY <1>2 DEF IInv, BodiesWhole, DocumentWhole, Settle, Goto, InChain, TypeOK
<1>8. stored' <= settled'
  BY DEF IInv, TypeOK, Settle
<1> QED
  BY <1>3, <1>4, <1>5, <1>6, <1>7, <1>8 DEF IInv

LEMMA JoinIInv ==
    ASSUME IInv, NEW w \in Writers, Join(w)
    PROVE  IInv'
<1>1. /\ ~InChain(w) /\ InChain(w)' /\ ~Writing(w)'
      /\ turn'[w] = joined
      /\ \A v \in Writers \ {w} : stage'[v] = stage[v] /\ turn'[v] = turn[v]
  BY DEF Join, Goto, InChain, Writing, IInv, TypeOK
<1>2. TypeOK'
  BY DEF IInv, TypeOK, Join, Goto, Stages
<1>3. TurnsDistinct'
  BY <1>1 DEF IInv, TypeOK, TurnsDistinct, TurnsAhead, InChain
<1>4. TurnsAhead'
  BY <1>1 DEF IInv, TypeOK, TurnsAhead, Join, InChain
<1>5. WriterHasTurn'
  BY <1>1 DEF IInv, WriterHasTurn, Writing, Join
<1>6. BodiesWhole' /\ DocumentWhole' /\ stored' <= settled'
  BY <1>1 DEF IInv, BodiesWhole, DocumentWhole, Join, Goto, InChain, TypeOK
<1> QED
  BY <1>2, <1>3, <1>4, <1>5, <1>6 DEF IInv

LEMMA OpenIInv ==
    ASSUME IInv, NEW w \in Writers, OpenTemporary(w)
    PROVE  IInv'
<1>1. /\ turn[w] = settled
      /\ \A v \in Writers : InChain(v)' <=> InChain(v)
      /\ \A v \in Writers : Writing(v)' => v = w \/ Writing(v)
  BY DEF OpenTemporary, MyTurn, Goto, InChain, Writing, IInv, TypeOK
<1>2. TypeOK'
  BY DEF IInv, TypeOK, OpenTemporary, MyTurn, Goto, Stages
<1>3. TurnsDistinct' /\ TurnsAhead' /\ WriterHasTurn'
  BY <1>1 DEF IInv, TurnsDistinct, TurnsAhead, WriterHasTurn, OpenTemporary
<1>4. BodiesWhole' /\ DocumentWhole' /\ stored' <= settled'
  BY <1>1 DEF IInv, BodiesWhole, DocumentWhole, OpenTemporary, MyTurn, Goto,
              InChain, TypeOK
<1> QED
  BY <1>2, <1>3, <1>4 DEF IInv

LEMMA WriteIInv ==
    ASSUME IInv, NEW w \in Writers, WriteTemporary(w)
    PROVE  IInv'
<1>1. /\ \A v \in Writers : InChain(v)' <=> InChain(v)
      /\ \A v \in Writers : Writing(v)' <=> Writing(v)
  BY DEF WriteTemporary, Goto, InChain, Writing, IInv, TypeOK
<1>2. TypeOK'
  BY DEF IInv, TypeOK, WriteTemporary, Goto, Stages
<1>3. TurnsDistinct' /\ TurnsAhead' /\ WriterHasTurn'
  BY <1>1 DEF IInv, TurnsDistinct, TurnsAhead, WriterHasTurn, WriteTemporary
<1>4. BodiesWhole' /\ DocumentWhole' /\ stored' <= settled'
  BY <1>1 DEF IInv, BodiesWhole, DocumentWhole, WriteTemporary, Goto, InChain,
              TypeOK
<1> QED
  BY <1>2, <1>3, <1>4 DEF IInv

LEMMA RenameIInv ==
    ASSUME IInv, NEW w \in Writers, Rename(w)
    PROVE  IInv'
<1>1. /\ \A v \in Writers : InChain(v)' <=> InChain(v)
      /\ \A v \in Writers : Writing(v)' <=> Writing(v)
      /\ turn[w] = settled
      /\ temporary[w] \in Bodies
  BY DEF Rename, Goto, InChain, Writing, IInv, TypeOK, WriterHasTurn,
         BodiesWhole
<1>2. TypeOK'
  BY <1>1 DEF IInv, TypeOK, Rename, Goto, Stages
<1>3. TurnsDistinct' /\ TurnsAhead' /\ WriterHasTurn'
  BY <1>1 DEF IInv, TurnsDistinct, TurnsAhead, WriterHasTurn, Rename
<1>4. BodiesWhole' /\ DocumentWhole' /\ stored' <= settled'
  BY <1>1, StoreAssumption
     DEF IInv, BodiesWhole, DocumentWhole, Rename, Goto, InChain, TypeOK
<1> QED
  BY <1>2, <1>3, <1>4 DEF IInv

LEMMA SaveIInv ==
    ASSUME IInv, NEW w \in Writers, Save(w)
    PROVE  IInv'
<1>1. /\ \A v \in Writers : InChain(v)' <=> InChain(v)
      /\ \A v \in Writers : Writing(v)' <=> Writing(v)
      /\ ~InChain(w)
  BY DEF Save, Resting, Goto, InChain, Writing, IInv, TypeOK
<1>2. TypeOK'
  BY DEF IInv, TypeOK, Save, Goto, Stages
<1>3. TurnsDistinct' /\ TurnsAhead' /\ WriterHasTurn'
  BY <1>1 DEF IInv, TurnsDistinct, TurnsAhead, WriterHasTurn, Save
<1>4. BodiesWhole' /\ DocumentWhole' /\ stored' <= settled'
  BY <1>1 DEF IInv, BodiesWhole, DocumentWhole, Save, Goto, InChain, TypeOK
<1> QED
  BY <1>2, <1>3, <1>4 DEF IInv

\* mkdir fails, or the process ends: saves only leave.
LEMMA LeaveIInv ==
    ASSUME IInv, Crash \/ \E w \in Writers : MkdirFail(w)
    PROVE  IInv'
<1>1. CASE Crash
  BY <1>1 DEF Crash, IInv, TypeOK, Stages, DocumentWhole, TurnsDistinct,
              TurnsAhead, WriterHasTurn, Writing, BodiesWhole, InChain
<1>2. ASSUME NEW w \in Writers, MkdirFail(w)
      PROVE  IInv'
  BY <1>2 DEF MkdirFail, Goto, IInv, TypeOK, Stages, DocumentWhole,
              TurnsDistinct, TurnsAhead, WriterHasTurn, Writing, BodiesWhole,
              InChain
<1> QED
  BY <1>1, <1>2

LEMMA NextIInv == IInv /\ [Next]_vars => IInv'
<1> SUFFICES ASSUME IInv, [Next]_vars
             PROVE  IInv'
  OBVIOUS
<1>1. CASE Crash
  BY <1>1, LeaveIInv
<1>2. ASSUME NEW w \in Writers, Save(w)
      PROVE  IInv'
  BY <1>2, SaveIInv
<1>3. ASSUME NEW w \in Writers, Progress(w)
      PROVE  IInv'
  <2>1. CASE Join(w)
    BY <2>1, JoinIInv
  <2>2. CASE MkdirFail(w)
    BY <2>2, LeaveIInv
  <2>3. CASE OpenTemporary(w)
    BY <2>3, OpenIInv
  <2>4. CASE WriteTemporary(w)
    BY <2>4, WriteIInv
  <2>5. CASE Rename(w)
    BY <2>5, RenameIInv
  <2>6. CASE Chmod(w)
    BY <2>6, SettleIInv DEF Chmod, Writing
  <2>7. CASE FileFail(w)
    BY <2>7, SettleIInv DEF FileFail, Writing
  <2> QED
    BY <1>3, <2>1, <2>2, <2>3, <2>4, <2>5, <2>6, <2>7 DEF Progress
<1>4. CASE UNCHANGED vars
  BY <1>4 DEF vars, IInv, TypeOK, DocumentWhole, TurnsDistinct, TurnsAhead,
              WriterHasTurn, Writing, BodiesWhole, InChain
<1> QED
  BY <1>1, <1>2, <1>3, <1>4 DEF Next

\* IInv holds in every reachable state.
THEOREM Invariance == Spec => []IInv
BY InitIInv, NextIInv, PTL DEF Spec

----------------------------------------------------------------------------
(* What follows *)

\* The variables of the store keep their types, and the chain its bounds.
THEOREM TypesHold == Spec => []TypeOK
<1>1. IInv => TypeOK
  BY DEF IInv
<1> QED
  BY <1>1, Invariance, PTL

\* No failure and no crash leaves a partial document (writeFile to a temporary
\* file, then rename).
THEOREM ReadersFindWholeDocuments == Spec => []DocumentWhole
<1>1. IInv => DocumentWhole
  BY DEF IInv
<1> QED
  BY <1>1, Invariance, PTL

\* Two saves of one document are never at work on its files together
\* (writeQueues).
THEOREM WritesAreSerial == Spec => []OneWriter
<1>1. IInv => OneWriter
  BY DEF IInv, OneWriter, WriterHasTurn, TurnsDistinct, Writing, InChain
<1> QED
  BY <1>1, Invariance, PTL

\* The document never goes back to a save that joined the chain earlier.
THEOREM DocumentMovesForward == Spec => NewerStays
<1>1. IInv /\ [Next]_vars => [stored' >= stored]_vars
  <2> SUFFICES ASSUME IInv, Next
               PROVE  stored' >= stored
    OBVIOUS
  <2>1. stored' = stored \/ \E w \in Writers : Rename(w)
    BY DEF Next, Crash, Save, Progress, Join, MkdirFail, OpenTemporary,
           WriteTemporary, Chmod, FileFail, Settle
  <2>2. ASSUME NEW w \in Writers, Rename(w)
        PROVE  stored' >= stored
    BY <2>2 DEF Rename, IInv, TypeOK, WriterHasTurn, Writing
  <2> QED
    BY <2>1, <2>2 DEF IInv, TypeOK
<1> QED
  BY <1>1, Invariance, PTL DEF Spec, NewerStays

----------------------------------------------------------------------------
(* The store keeps the promise of AtomicStore *)

Abstraction == [w \in Writers |-> AbstractSave(w)]

\* A caller's abstract save depends on its own stage and body.
LEMMA OthersKeepTheirSave ==
    ASSUME TypeOK, TypeOK', NEW v \in Writers,
           stage'[v] = stage[v], body'[v] = body[v]
    PROVE  AbstractSave(v)' = AbstractSave(v)
BY DEF AbstractSave, Resting

\* The abstract save of each stage.
LEMMA AbstractSaveOf ==
    ASSUME NEW v \in Writers
    PROVE  /\ stage[v] \in Resting =>
                AbstractSave(v) = [status |-> stage[v], body |-> NoDocument]
           /\ stage[v] \in {"mkdir", "chained", "writing", "renaming"} =>
                AbstractSave(v) = [status |-> "begun", body |-> body[v]]
           /\ stage[v] = "chmod" =>
                AbstractSave(v) = [status |-> "committed", body |-> body[v]]
BY DEF AbstractSave, Resting

\* A step of one caller changes the abstract saves at that caller only.
LEMMA OneSaveChanges ==
    ASSUME TypeOK, TypeOK', NEW w \in Writers, NEW to,
           \A v \in Writers \ {w} : stage'[v] = stage[v] /\ body'[v] = body[v],
           AbstractSave(w)' = to
    PROVE  Abstraction' = [Abstraction EXCEPT ![w] = to]
<1>1. \A v \in Writers \ {w} : AbstractSave(v)' = AbstractSave(v)
  BY OthersKeepTheirSave
<1> QED
  BY <1>1 DEF Abstraction

LEMMA InitRefines == Init => Atomic!Init
<1> SUFFICES ASSUME Init
             PROVE  Atomic!Init
  OBVIOUS
<1>1. \A w \in Writers :
         AbstractSave(w) = [status |-> "idle", body |-> NoDocument]
  BY AbstractSaveOf DEF Init, Resting
<1> QED
  BY <1>1 DEF Init, Atomic!Init, Atomic!Quiet

LEMMA StepRefines ==
    IInv /\ IInv' /\ [Next]_vars => [Atomic!Next]_<<document, Abstraction>>
<1> SUFFICES ASSUME IInv, IInv', [Next]_vars
             PROVE  [Atomic!Next]_<<document, Abstraction>>
  OBVIOUS
<1> USE DEF IInv
<1>1. CASE Crash
  <2>1. \A w \in Writers :
           AbstractSave(w)' = [status |-> "idle", body |-> NoDocument]
    BY <1>1, AbstractSaveOf DEF Crash, AbstractSave, Resting
  <2>2. Atomic!Crash
    BY <1>1, <2>1 DEF Crash, Atomic!Crash, Atomic!Quiet
  <2> QED
    BY <2>2 DEF Atomic!Next
<1>2. ASSUME NEW w \in Writers, Save(w)
      PROVE  Atomic!Next
  <2>1. PICK b \in Bodies : body' = [body EXCEPT ![w] = b]
    BY <1>2 DEF Save
  <2>2. AbstractSave(w) \in Atomic!Resting
    BY <1>2, AbstractSaveOf DEF Save, Resting, Atomic!Resting, Atomic!Quiet
  <2>3. AbstractSave(w)' = Atomic!Begun(b)
    BY <1>2, <2>1 DEF Save, Goto, AbstractSave, Resting, TypeOK, Atomic!Begun
  <2>4. Abstraction' = [Abstraction EXCEPT ![w] = Atomic!Begun(b)]
    BY <1>2, <2>1, <2>3, OneSaveChanges DEF Save, Goto, TypeOK
  <2>5. Atomic!Begin(w)
    BY <1>2, <2>2, <2>4 DEF Save, Atomic!Begin, Abstraction
  <2> QED
    BY <2>5 DEF Atomic!Next
<1>3. ASSUME NEW w \in Writers,
             Join(w) \/ OpenTemporary(w) \/ WriteTemporary(w)
      PROVE  UNCHANGED <<document, Abstraction>>
  <2>1. AbstractSave(w)' = AbstractSave(w)
    BY <1>3 DEF Join, OpenTemporary, MyTurn, WriteTemporary, Goto,
                AbstractSave, Resting, TypeOK
  <2>2. Abstraction' = [Abstraction EXCEPT ![w] = AbstractSave(w)]
    BY <1>3, <2>1, OneSaveChanges
       DEF Join, OpenTemporary, WriteTemporary, Goto, TypeOK
  <2> QED
    BY <1>3, <2>2 DEF Join, OpenTemporary, WriteTemporary, Abstraction
<1>4. ASSUME NEW w \in Writers, Rename(w)
      PROVE  Atomic!Next
  <2>1. /\ AbstractSave(w).status = "begun"
        /\ AbstractSave(w).body = body[w]
        /\ temporary[w] = body[w]
    BY <1>4, AbstractSaveOf DEF Rename, BodiesWhole
  <2>2. AbstractSave(w)' = Atomic!Committed(body[w])
    BY <1>4 DEF Rename, Goto, AbstractSave, Resting, TypeOK, Atomic!Committed
  <2>3. Abstraction' = [Abstraction EXCEPT ![w] = Atomic!Committed(body[w])]
    BY <1>4, <2>2, OneSaveChanges DEF Rename, Goto, TypeOK
  <2>4. Atomic!Commit(w)
    BY <1>4, <2>1, <2>3 DEF Rename, Atomic!Commit, Abstraction
  <2> QED
    BY <2>4 DEF Atomic!Next
<1>5. ASSUME NEW w \in Writers, Chmod(w)
      PROVE  Atomic!Next
  <2>1. AbstractSave(w).status = "committed"
    BY <1>5, AbstractSaveOf DEF Chmod
  <2>2. AbstractSave(w)' = Atomic!Quiet("accepted")
    BY <1>5 DEF Chmod, Settle, Goto, AbstractSave, Resting, TypeOK,
                Atomic!Quiet
  <2>3. Abstraction' = [Abstraction EXCEPT ![w] = Atomic!Quiet("accepted")]
    BY <1>5, <2>2, OneSaveChanges DEF Chmod, Settle, Goto, TypeOK
  <2>4. Atomic!Accept(w)
    BY <1>5, <2>1, <2>3 DEF Chmod, Settle, Atomic!Accept, Abstraction
  <2> QED
    BY <2>4 DEF Atomic!Next
<1>6. ASSUME NEW w \in Writers, MkdirFail(w) \/ FileFail(w)
      PROVE  Atomic!Next
  <2>1. AbstractSave(w).status \in {"begun", "committed"}
    BY <1>6, AbstractSaveOf DEF MkdirFail, FileFail
  <2>2. AbstractSave(w)' = Atomic!Quiet("rejected")
    BY <1>6 DEF MkdirFail, FileFail, Settle, Goto, AbstractSave, Resting,
                TypeOK, Atomic!Quiet
  <2>3. Abstraction' = [Abstraction EXCEPT ![w] = Atomic!Quiet("rejected")]
    BY <1>6, <2>2, OneSaveChanges DEF MkdirFail, FileFail, Settle, Goto, TypeOK
  <2>4. Atomic!Reject(w)
    BY <1>6, <2>1, <2>3
       DEF MkdirFail, FileFail, Settle, Atomic!Reject, Abstraction
  <2> QED
    BY <2>4 DEF Atomic!Next
<1>7. CASE UNCHANGED vars
  <2>1. \A w \in Writers : AbstractSave(w)' = AbstractSave(w)
    BY <1>7, OthersKeepTheirSave DEF vars
  <2> QED
    BY <1>7, <2>1 DEF vars, Abstraction
<1> QED
  BY <1>1, <1>2, <1>3, <1>4, <1>5, <1>6, <1>7 DEF Next, Progress

\* Seen through its callers and its readers the store is AtomicStore: a save
\* takes effect whole, at one moment, before it is accepted.
THEOREM StoreImplementsAtomic == Spec => AtomicSpec
<1>1. IInv /\ IInv' /\ [Next]_vars
      => [Atomic!Next]_<<document, [w \in Writers |-> AbstractSave(w)]>>
  BY StepRefines DEF Abstraction
<1> QED
  BY <1>1, InitRefines, Invariance, PTL DEF Spec, AtomicSpec, Atomic!Spec
============================================================================
