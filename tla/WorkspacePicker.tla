--------------------------- MODULE WorkspacePicker ---------------------------
(***************************************************************************)
(* Picking a workspace directory from a browser: the flow occupant that    *)
(* renders the sheet (src/client/workspace-flow.ts with picker-logic.ts),  *)
(* the route that serves one level per request (handleWorkspaces of        *)
(* src/settings/routes.ts) and the owner, DSH's own page, that opens and   *)
(* closes the flow and takes its outcome.                                  *)
(*                                                                         *)
(* Listings and the answer to an unlock arrive whenever they arrive: after *)
(* other clicks, after the flow was closed, after it was opened again.     *)
(* The file tree changes and the console locks meanwhile.                  *)
(***************************************************************************)
EXTENDS DirectoryBrowser

CONSTANTS
    Slots,        \* bound: listings under way at once
    None,         \* no notice, no path, no outcome
    Trees,        \* the file trees the host may have
    Policies,     \* the admin policies in use
    BrowseLimit,  \* BROWSE_RATE_LIMIT
    MaxFlows,     \* bound: flows opened
    MaxEvents     \* bound: events nothing obliges

\* The reasons that reach the sheet as a notice.
Codes == {"read_only_remote", "admin_required", "rate_limited", "blocked",
          "not_found", "not_a_directory", "unreadable", "unauthorized"}

ASSUME PickerAssumption ==
    /\ None \notin Codes
    /\ \A t \in Trees : FileTree(t)
    /\ Policies \subseteq {"open", "local_only", "password_unlock"}
    /\ BrowseLimit \in Nat /\ MaxFlows \in Nat /\ MaxEvents \in Nat

VARIABLES
    \* the owner
    open, busy, outcome,
    \* the occupant
    native, listing, notice, loading, unlock, lastPath,
    wire,      \* the listings under way
    dialogs,   \* the system dialogs open for a pick, by the flow they are of
    \* the host
    tree, policy, unlocked, used,
    flow,      \* history: the flow that is open, or was last
    events     \* events spent, out of MaxEvents

owner == <<open, busy, outcome>>
sheet == <<listing, notice, loading, lastPath>>
host == <<tree, policy, unlocked, used>>
pickerVars ==
    <<owner, native, sheet, unlock, wire, dialogs, host, flow, events>>

----------------------------------------------------------------------------

Idle == [pc |-> "idle"]

\* Bound: an event of the world, while some are left.
Event == events < MaxEvents /\ events' = events + 1

\* The sheet before it has read anything.
NoListing == [ok |-> FALSE]

PickerInit ==
    /\ open = FALSE /\ busy = FALSE /\ outcome = None
    /\ native \in BOOLEAN
    /\ listing = NoListing /\ notice = None /\ loading = FALSE
    /\ unlock = "idle"
    /\ lastPath = None
    /\ wire = [s \in Slots |-> Idle]
    /\ dialogs = {}
    /\ tree \in Trees
    /\ policy \in Policies
    /\ unlocked = FALSE /\ used = 0
    /\ flow = 0 /\ events = 0

----------------------------------------------------------------------------
(* The occupant *)

\* load: `path` None asks for the home directory.  A notice goes, the last
\* listing stays behind the hint that one is being read.
Load(path) ==
    /\ \E s \in Slots :
         /\ wire[s] = Idle
         /\ wire' = [wire EXCEPT ![s] =
                       [pc |-> "sent",
                        path |-> IF path = None THEN Home ELSE path]]
    /\ lastPath' = IF path = None THEN lastPath ELSE path
    /\ loading' = TRUE
    /\ notice' = None

\* The owner opens a pick and the effect of the occupant runs: the system's
\* dialog where the person sits at the host, else the home directory.
OpenFlow ==
    /\ ~open /\ flow < MaxFlows
    /\ open' = TRUE /\ outcome' = None /\ flow' = flow + 1
    /\ IF native
       THEN dialogs' = dialogs \cup {flow'} /\ UNCHANGED <<sheet, wire>>
       ELSE Load(None) /\ UNCHANGED <<listing, dialogs>>
    /\ UNCHANGED <<busy, native, unlock, host, events>>

\* The effect of a closed flow: everything the sheet showed is forgotten.
Blank ==
    /\ open' = FALSE /\ busy' = FALSE
    /\ listing' = NoListing /\ notice' = None /\ loading' = FALSE
    /\ lastPath' = None

\* What the owner does with an outcome: it adopts a picked path, showing the
\* sheet as busy, and closes the flow on a cancellation or an error.
Picked(path) ==
    IF open THEN /\ outcome' = path /\ busy' = TRUE
                 /\ UNCHANGED <<open, sheet>>
            ELSE UNCHANGED <<owner, sheet>>

Cancelled == IF open THEN Blank /\ UNCHANGED outcome
                     ELSE UNCHANGED <<owner, sheet>>

\* pick() throws where this browser has no picker at all.
NoPicker ==
    /\ native /\ open /\ flow \in dialogs /\ Event
    /\ dialogs' = dialogs \ {flow}
    /\ Cancelled
    /\ UNCHANGED <<native, unlock, wire, host, flow>>

\* The dialog of flow f is answered: a path, no path, or an error.
DialogAnswered(f) ==
    /\ f \in dialogs
    /\ dialogs' = dialogs \ {f}
    /\ Picked(Home) \/ Cancelled
    /\ UNCHANGED <<native, unlock, wire, host, flow, events>>

\* The sheet takes clicks while the owner is not adopting.
Showing == open /\ ~native /\ ~busy

\* Bound: one slot stays free for the listing after an unlock.
Spare == Cardinality({s \in Slots : wire[s] = Idle}) > 1

\* The targets on the sheet: crumbs and shortcuts of the listing, and its
\* rows unless another listing is being read.
Targets ==
    IF ~listing.ok THEN {}
    ELSE ToSet(Crumbs(listing.path)) \cup listing.quick
           \cup (IF loading THEN {} ELSE listing.rows)

ClickTarget ==
    /\ Showing /\ Spare
    /\ \E path \in Targets : Load(path)
    /\ UNCHANGED <<owner, native, listing, unlock, dialogs, host, flow, events>>

\* The notice offers another try, or the unlock of the console.
TryAgain ==
    /\ Showing /\ Spare
    /\ notice \notin {None, "admin_required"}
    /\ Load(lastPath)
    /\ UNCHANGED <<owner, native, listing, unlock, dialogs, host, flow, events>>

UsePath ==
    /\ Showing /\ listing.ok
    /\ Picked(listing.path)
    /\ UNCHANGED <<native, unlock, wire, dialogs, host, flow, events>>

CancelSheet ==
    /\ Showing
    /\ Cancelled
    /\ UNCHANGED <<native, unlock, wire, dialogs, host, flow, events>>

\* The owner is done adopting, or withdraws the flow on its own.
OwnerCloses ==
    /\ open
    /\ IF busy THEN UNCHANGED events ELSE Event
    /\ Blank
    /\ UNCHANGED <<outcome, native, unlock, wire, dialogs, host, flow>>

SubmitUnlock ==
    /\ Showing /\ notice = "admin_required" /\ unlock = "idle"
    /\ unlock' = "posting"
    /\ UNCHANGED <<owner, native, sheet, wire, dialogs, host, flow, events>>

----------------------------------------------------------------------------
(* Answers that arrive at the occupant *)

\* Mutant: a listing that lands after the flow was closed is not dropped.
Land_Undropped(s) ==
    /\ wire[s].pc = "answered"
    /\ LET answer == wire[s].answer IN
       /\ IF answer.ok THEN listing' = answer /\ UNCHANGED notice
                       ELSE notice' = answer.error /\ UNCHANGED listing
       /\ loading' = FALSE
    /\ wire' = [wire EXCEPT ![s] = Idle]
    /\ UNCHANGED <<owner, native, unlock, lastPath, dialogs, host, flow,
                   events>>

\* The listing, or the reason there is none.  It is dropped when no flow is
\* open; which flow and which click asked for it is not looked at.
Land(s) ==
    /\ wire[s].pc = "answered"
    /\ LET answer == wire[s].answer IN
       IF open
       THEN /\ IF answer.ok THEN listing' = answer /\ UNCHANGED notice
                            ELSE notice' = answer.error /\ UNCHANGED listing
            /\ loading' = FALSE
       ELSE UNCHANGED <<listing, notice, loading>>
    /\ wire' = [wire EXCEPT ![s] = Idle]
    /\ UNCHANGED <<owner, native, unlock, lastPath, dialogs, host, flow,
                   events>>

\* Mutant: an unlock in place does not list the directory again.
UnlockLands_NoReload ==
    /\ unlock = "granted"
    /\ unlock' = "idle"
    /\ UNCHANGED <<owner, native, sheet, wire, dialogs, host, flow, events>>

\* The unlock was accepted: the last directory is listed again, whether or
\* not a flow is open by now.
UnlockLands ==
    /\ unlock = "granted"
    /\ unlock' = "idle"
    /\ Load(lastPath)
    /\ UNCHANGED <<owner, native, listing, dialogs, host, flow, events>>

\* It was not: the reason is shown next to the field.
UnlockFails ==
    /\ unlock = "refused"
    /\ unlock' = "idle"
    /\ UNCHANGED <<owner, native, sheet, wire, dialogs, host, flow, events>>

----------------------------------------------------------------------------
(* The host *)

\* adminStateOf of a visitor's request; needsAdmin with the protection on.
ReadOnly == policy = "local_only"
NeedsAdmin == policy = "password_unlock" /\ ~unlocked

Answer(s, a) ==
    wire' = [wire EXCEPT ![s] = [pc |-> "answered", answer |-> a]]

\* handleWorkspaces refuses before it touches the file system.  A request
\* beyond the budget still counts; the count stays where it matters no more.
Refuse(s) ==
    /\ wire[s].pc = "sent"
    /\ \/ ReadOnly /\ Answer(s, Failure("read_only_remote")) /\ UNCHANGED used
       \/ ~ReadOnly /\ NeedsAdmin /\ Answer(s, Failure("admin_required"))
            /\ UNCHANGED used
       \/ ~ReadOnly /\ ~NeedsAdmin /\ used >= BrowseLimit
            /\ Answer(s, Failure("rate_limited")) /\ UNCHANGED used
    /\ UNCHANGED <<owner, native, sheet, unlock, dialogs, tree, policy,
                   unlocked, flow, events>>

\* ... or resolves the path, and reads the level once that is answered.
ResolvePath(s) ==
    /\ wire[s].pc = "sent"
    /\ ~ReadOnly /\ ~NeedsAdmin /\ used < BrowseLimit
    /\ used' = used + 1
    /\ LET r == Resolve(tree, wire[s].path) IN
       IF r.ok
       THEN wire' = [wire EXCEPT ![s] = [pc |-> "reading", path |-> r.path]]
       ELSE Answer(s, r)
    /\ UNCHANGED <<owner, native, sheet, unlock, dialogs, tree, policy,
                   unlocked, flow, events>>

Read(s) ==
    /\ wire[s].pc = "reading"
    /\ Answer(s, ReadLevel(tree, wire[s].path))
    /\ UNCHANGED <<owner, native, sheet, unlock, dialogs, host, flow, events>>

\* The connection fails, or DSH's own fence refuses: readBrowseResponse and
\* codeOf make a code of either.
Break(s) ==
    /\ wire[s].pc \in {"sent", "reading"} /\ Event
    /\ Answer(s, Failure("unauthorized"))
    /\ UNCHANGED <<owner, native, sheet, unlock, dialogs, host, flow>>

\* The unlock is the one write that needs no unlocked console.
ServeUnlock ==
    /\ unlock = "posting"
    /\ \/ /\ ~ReadOnly /\ unlock' = "granted" /\ unlocked' = TRUE
          /\ UNCHANGED events
       \/ Event /\ unlock' = "refused" /\ UNCHANGED unlocked
    /\ UNCHANGED <<owner, native, sheet, wire, dialogs, tree, policy, used,
                   flow>>

\* A read-only console refuses every write.
RefuseUnlock ==
    /\ unlock = "posting" /\ ReadOnly
    /\ unlock' = "refused"
    /\ UNCHANGED <<owner, native, sheet, wire, dialogs, host, flow, events>>

\* The world of the host moves on.
WorldMoves ==
    /\ Event
    /\ \/ tree' \in Trees \ {tree} /\ UNCHANGED <<policy, unlocked, used>>
       \/ policy' \in Policies \ {policy} /\ UNCHANGED <<tree, unlocked, used>>
       \/ unlocked /\ unlocked' = FALSE /\ UNCHANGED <<tree, policy, used>>
    /\ UNCHANGED <<owner, native, sheet, unlock, wire, dialogs, flow>>

\* One bucket serves every proxied visitor: others spend it as well.
OthersBrowse ==
    /\ used < BrowseLimit /\ used' = used + 1
    /\ UNCHANGED <<owner, native, sheet, unlock, wire, dialogs, tree, policy,
                   unlocked, flow, events>>

\* The window of the budget ends.
NewWindow ==
    /\ used > 0 /\ used' = 0
    /\ UNCHANGED <<owner, native, sheet, unlock, wire, dialogs, tree, policy,
                   unlocked, flow, events>>

----------------------------------------------------------------------------

PickerNext ==
    \/ OpenFlow \/ NoPicker \/ \E f \in dialogs : DialogAnswered(f)
    \/ ClickTarget \/ TryAgain \/ UsePath \/ CancelSheet \/ OwnerCloses
    \/ SubmitUnlock \/ UnlockLands \/ UnlockFails
    \/ \E s \in Slots : Land(s) \/ Refuse(s) \/ ResolvePath(s) \/ Read(s)
                          \/ Break(s)
    \/ ServeUnlock \/ RefuseUnlock \/ WorldMoves \/ OthersBrowse \/ NewWindow

PickerSpec == PickerInit /\ [][PickerNext]_pickerVars

\* What is on its way arrives: the host answers and the browser delivers.
\* Nothing obliges a person, the owner or the clock of the budget.
FairPickerSpec ==
    /\ PickerSpec
    /\ \A s \in Slots :
         WF_pickerVars(Land(s) \/ Refuse(s) \/ ResolvePath(s) \/ Read(s))
    /\ WF_pickerVars(ServeUnlock \/ RefuseUnlock)
    /\ WF_pickerVars(UnlockLands \/ UnlockFails)

----------------------------------------------------------------------------
(* Properties *)

\* A person who looks at the sheet always has something to go on with: a
\* listing being read is really on its way, and when none is there is a
\* listing or a notice that says why not.  And a closed flow shows nothing:
\* an answer that arrives late does not repaint it.
NeverStuck ==
    /\ open /\ ~native =>
         \/ \E s \in Slots : wire[s] # Idle
         \/ ~loading /\ (listing.ok \/ notice # None)
    /\ ~open => ~listing.ok /\ notice = None

\* The fence of resolveBrowsablePath holds on what the sheet shows and hands
\* to the owner: the picked path, the listing behind it and every way up from
\* it are outside the system locations and the sensitive names, whatever was
\* linked where when it was listed.  (The system's own dialog has no fence.)
FenceHolds ==
    /\ listing.ok => /\ ~Fenced(listing.path)
                     /\ \A p \in ToSet(Crumbs(listing.path)) : ~Fenced(p)
    /\ ~native /\ outcome # None => ~Fenced(outcome)

\* On the tree as it stands each row of a link can be entered, and no link
\* that could be is left out.
RowsLead == listing.ok => RowsAreRight(tree, listing.path)

\* Unlocking the console in the sheet leads out of the notice that asked for
\* it: to a listing, to another reason, or the flow was closed, unless the
\* console locked again.
UnlockLeadsIn ==
    (open /\ ~busy /\ unlock = "granted") ~>
      (\/ ~open \/ busy \/ ~unlocked
       \/ listing.ok \/ notice \notin {None, "admin_required"})
=============================================================================
