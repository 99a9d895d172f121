----------------------------- MODULE Selection -----------------------------
(***************************************************************************)
(* What the user chooses a model from: the drafted provider, model and     *)
(* agent of crates/gritt-harness/src/tui/app.rs, the two model lists, the  *)
(* picker and the setup form above it, against answers that arrive after   *)
(* the user, or a session change, has moved on.                            *)
(*                                                                         *)
(* A list is the ids in it; Home says whose list an id belongs to.  The    *)
(* rows of a picker are what was in force when they were built.  Effort,   *)
(* prices, search and the other pickers are left out, and so are turns: a  *)
(* running turn only refuses what a session change refuses.                *)
(***************************************************************************)
EXTENDS Naturals

CONSTANTS
    Profiles,      \* the configured providers
    Agents,        \* the installed agents, none of them a provider
    Ids,           \* the model ids of all lists
    Home,          \* Home[id]: the provider or agent whose list has it
    Default,       \* "__default__", the first row of every agent's list
    Keyless,       \* the providers whose key is missing
    None,          \* an empty Option
    MaxSelection   \* bound on App::selection

VARIABLES
    draft,         \* draft.profile and draft.model
    choice,        \* connector_choice and connector_model
    catalog,       \* the provider's list: ModelCatalogView
    agentList,     \* the agent's list: ConnectorCatalogView
    selection,     \* App::selection
    picker,        \* the model picker on screen: whose it says it is, and its rows
    form,          \* the setup form above it
    session,       \* the live session
    pinned,        \* session_pinned
    work,          \* the ordinary request in flight (Runtime::work)
    opening,       \* the session change in flight (Runtime::pending_open)
    launched       \* history: what the last session change asked for

vars == <<draft, choice, catalog, agentList, selection, picker, form,
          session, pinned, work, opening, launched>>

ListOf(owner) == {id \in Ids : Home[id] = owner}
NoCatalog == [profile |-> None, models |-> {}, state |-> None, loading |-> FALSE]
EmptyList == [agent |-> None, models |-> {}, loading |-> FALSE]
NoChoice == [agent |-> None, model |-> None]
Native(s) == s # None /\ s.profile \in Profiles
Pair(owner, model) == [profile |-> owner, model |-> model]

(* settings_are_editable, with no turn and no approval about. *)
Editable == opening # None => opening.kind = "switch"

NoOverlay == picker = None /\ form = None

(* is_native_setting: an agent's session refuses /connect and /models. *)
OwnsItsModel == session # None /\ session.profile \in Agents

-----------------------------------------------------------------------------
(* The picker and the requests behind it.                                  *)

(* model_picker, connector_model_picker: the title and the rows. *)
Built(d, ch, cat, al) ==
    IF ch.agent # None THEN [owner |-> ch.agent, rows |-> al.models \cup {Default}]
    ELSE [owner |-> d.profile, rows |-> cat.models]

(* refresh_open_picker: only the overlay on top is rebuilt. *)
Refreshed(open, f, built) == IF open # None /\ f = None THEN built ELSE open

(* request_catalog: a list already there is not asked for again. *)
Wanted(d, cat) == d.profile # None /\ ~(cat.profile = d.profile /\ cat.state # None)

RequestCatalog(d, cat, sel) ==
    IF Wanted(d, cat)
    THEN /\ catalog' = [cat EXCEPT !.profile = d.profile, !.loading = TRUE]
         /\ work' = [kind |-> "catalog", target |-> d.profile, selection |-> sel]
    ELSE catalog' = cat /\ UNCHANGED work

(* Faulty variant: the list of the agent that was asked before stays. *)
AskedListKeeping(a) == [agentList EXCEPT !.agent = a, !.loading = TRUE]

(* request_connector_catalog: another agent's list is dropped at once. *)
AskedList(a) ==
    IF agentList.agent = a THEN [agentList EXCEPT !.loading = TRUE]
    ELSE [agent |-> a, models |-> {}, loading |-> TRUE]

RequestAgentList(a) ==
    /\ selection < MaxSelection
    /\ selection' = selection + 1
    /\ agentList' = AskedList(a)
    /\ work' = [kind |-> "agent", target |-> a, selection |-> selection']

(* with_profile: a model belongs to the provider it was chosen under. *)
WithProfile(p) == Pair(p, IF draft.profile = p THEN draft.model ELSE None)

-----------------------------------------------------------------------------
(* The user.                                                               *)

(* A provider row of /connect: select_profile, then the model picker. *)
ChooseProfile(p) ==
    LET moves == catalog.profile # p
        cat == IF moves THEN [NoCatalog EXCEPT !.profile = p] ELSE catalog
        sel == IF moves THEN selection + 1 ELSE selection
    IN
    /\ NoOverlay /\ Editable /\ ~OwnsItsModel
    /\ sel <= MaxSelection
    /\ choice' = NoChoice
    /\ draft' = WithProfile(p)
    /\ selection' = sel
    /\ picker' = Built(draft', choice', cat, agentList)
    /\ RequestCatalog(draft', cat, sel)
    /\ UNCHANGED <<agentList, form, session, pinned, opening, launched>>

(* An agent row of /connect. *)
ChooseAgent(a) ==
    /\ NoOverlay /\ Editable /\ ~OwnsItsModel
    /\ choice' = [agent |-> a, model |-> None]
    /\ RequestAgentList(a)
    /\ picker' = Built(draft, choice', catalog, agentList')
    /\ UNCHANGED <<draft, catalog, form, session, pinned, opening, launched>>

(* /models. *)
OpenModels ==
    /\ NoOverlay /\ Editable /\ ~OwnsItsModel
    /\ \/ /\ choice.agent # None
          /\ RequestAgentList(choice.agent)
          /\ picker' = Built(draft, choice, catalog, agentList')
          /\ UNCHANGED catalog
       \/ /\ choice.agent = None /\ draft.profile # None
          /\ picker' = Built(draft, choice, catalog, agentList)
          /\ RequestCatalog(draft, catalog, selection)
          /\ UNCHANGED <<selection, agentList>>
    /\ UNCHANGED <<draft, choice, form, session, pinned, opening, launched>>

(* Ctrl-R in an agent's picker. *)
RefreshList ==
    /\ picker # None /\ form = None /\ choice.agent # None
    /\ RequestAgentList(choice.agent)
    /\ picker' = Built(draft, choice, catalog, agentList')
    /\ UNCHANGED <<draft, choice, catalog, form, session, pinned, opening, launched>>

(* Escape closes what is on top; a save in flight goes on. *)
CloseOverlay ==
    /\ ~NoOverlay
    /\ IF form # None THEN form' = None /\ UNCHANGED picker ELSE picker' = None /\ UNCHANGED form
    /\ UNCHANGED <<draft, choice, catalog, agentList, selection, session, pinned, work,
                   opening, launched>>

Launch(kind, owner, model) ==
    /\ opening' = [kind |-> kind, to |-> Pair(owner, model)]
    /\ launched' = opening'

(* Enter on a row of the model picker: choose, then SelectConnector or     *)
(* SwitchNative.  Both refuse while a session change is in flight, and the *)
(* picker has closed all the same.                                         *)
PickModel(id) ==
    /\ form = None /\ picker # None /\ id \in picker.rows
    /\ picker' = None
    /\ \/ /\ choice.agent # None
          /\ choice' = [choice EXCEPT !.model = IF id = Default THEN None ELSE id]
          /\ IF opening = None THEN Launch("agent", choice.agent, choice'.model)
             ELSE UNCHANGED <<opening, launched>>
          /\ UNCHANGED draft
       \/ /\ choice.agent = None
          /\ IF pinned /\ session # Pair(draft.profile, id)
             THEN /\ IF opening = None THEN Launch("switch", draft.profile, id)
                     ELSE UNCHANGED <<opening, launched>>
                  /\ UNCHANGED draft
             ELSE draft' = [draft EXCEPT !.model = id] /\ UNCHANGED <<opening, launched>>
          /\ UNCHANGED choice
    /\ UNCHANGED <<catalog, agentList, selection, form, session, pinned, work>>

(* The setup row of the picker, a preset or a custom endpoint of /connect. *)
OpenForm(p) ==
    /\ form = None
    /\ \/ picker # None /\ choice.agent = None /\ draft.profile = p /\ p \in Keyless
       \/ NoOverlay /\ Editable /\ ~OwnsItsModel
    /\ form' = [profile |-> p, saving |-> FALSE]
    /\ UNCHANGED <<draft, choice, catalog, agentList, selection, picker, session, pinned,
                   work, opening, launched>>

SaveProfile ==
    /\ form # None /\ ~form.saving
    /\ form' = [form EXCEPT !.saving = TRUE]
    /\ work' = [kind |-> "setup", target |-> form.profile, selection |-> selection]
    /\ UNCHANGED <<draft, choice, catalog, agentList, selection, picker, session, pinned,
                   opening, launched>>

(* The session list, a diff, a version: any other ordinary request takes   *)
(* the slot, and the request it supersedes is aborted.                     *)
AskOther ==
    /\ NoOverlay
    /\ work' = [kind |-> "other", target |-> None, selection |-> selection]
    /\ UNCHANGED <<draft, choice, catalog, agentList, selection, picker, form, session, pinned,
                   opening, launched>>

(* Escape with nothing open. *)
Cancel ==
    /\ NoOverlay /\ (work # None \/ opening # None)
    /\ work' = None /\ opening' = None
    /\ UNCHANGED <<draft, choice, catalog, agentList, selection, picker, form, session, pinned,
                   launched>>

(* Resume, or the first prompt: some session, native or an agent's. *)
OpenSession ==
    /\ NoOverlay /\ opening = None
    /\ opening' = [kind |-> "open", to |-> None]
    /\ launched' = opening'
    /\ UNCHANGED <<draft, choice, catalog, agentList, selection, picker, form, session, pinned,
                   work>>

(* /new: start_new_draft keeps the provider and the model. *)
NewSession ==
    /\ NoOverlay /\ Editable /\ session # None
    /\ choice' = NoChoice /\ agentList' = EmptyList
    /\ session' = None /\ pinned' = FALSE
    /\ work' = None /\ opening' = None
    /\ UNCHANGED <<draft, catalog, selection, picker, form, launched>>

-----------------------------------------------------------------------------
(* Answers.                                                                *)

(* apply_catalog, catalog_failed: the selection and the provider it was    *)
(* asked under are still the user's.                                       *)
StillWanted == work.selection = selection /\ draft.profile = work.target

(* UiMsg::Catalog. *)
CatalogAnswer(arrived) ==
    LET cat == IF arrived
               THEN [profile |-> work.target, models |-> ListOf(work.target),
                     state |-> "fresh", loading |-> FALSE]
               ELSE [catalog EXCEPT !.loading = FALSE, !.state = "failed"]
    IN
    /\ work # None /\ work.kind = "catalog"
    /\ work' = None
    /\ IF StillWanted
       THEN /\ catalog' = cat
            /\ picker' = Refreshed(picker, form, Built(draft, choice, cat, agentList))
       ELSE UNCHANGED <<catalog, picker>>
    /\ UNCHANGED <<draft, choice, agentList, selection, form, session, pinned, opening, launched>>

(* UiMsg::ConnectorCatalog: a failed discovery is a list with nothing in it. *)
AgentAnswer(arrived) ==
    LET al == [agent |-> work.target, models |-> IF arrived THEN ListOf(work.target) ELSE {},
               loading |-> FALSE]
    IN
    /\ work # None /\ work.kind = "agent"
    /\ work' = None
    /\ IF work.selection = selection /\ choice.agent = work.target
       THEN /\ agentList' = al
            /\ picker' = Refreshed(picker, form, Built(draft, choice, catalog, al))
       ELSE UNCHANGED <<agentList, picker>>
    /\ UNCHANGED <<draft, choice, catalog, selection, form, session, pinned, opening, launched>>

(* UiMsg::Setup: setup_outcome looks for whichever form is open. *)
SetupAnswer(saved) ==
    LET moves == catalog.profile = form.profile
        cat == IF moves THEN [NoCatalog EXCEPT !.profile = form.profile] ELSE catalog
        sel == IF moves THEN selection + 1 ELSE selection
    IN
    /\ work # None /\ work.kind = "setup"
    /\ \/ form = None /\ work' = None /\ UNCHANGED <<draft, catalog, selection, picker, form>>
       \/ /\ form # None /\ ~saved
          /\ work' = None
          /\ form' = [form EXCEPT !.saving = FALSE]
          /\ UNCHANGED <<draft, catalog, selection, picker>>
       \/ /\ form # None /\ saved
          /\ sel <= MaxSelection
          /\ form' = None
          /\ draft' = WithProfile(form.profile)
          /\ selection' = sel
          /\ picker' = Refreshed(picker, None, Built(draft', choice, cat, agentList))
          /\ IF Wanted(draft', cat) THEN RequestCatalog(draft', cat, sel)
             ELSE catalog' = cat /\ work' = None
    /\ UNCHANGED <<choice, agentList, session, pinned, opening, launched>>

OtherAnswer ==
    /\ work # None /\ work.kind = "other"
    /\ work' = None
    /\ UNCHANGED <<draft, choice, catalog, agentList, selection, picker, form, session, pinned,
                   opening, launched>>

(* set_session: the overlays are left as they are. *)
SetSession(s) ==
    /\ selection < MaxSelection
    /\ selection' = selection + 1
    /\ choice' = NoChoice /\ agentList' = EmptyList
    /\ session' = s
    /\ draft' = IF Native(s) THEN s ELSE draft

(* UiMsg::Opened: adopt the session that was found or created. *)
Adopt(s) ==
    /\ opening # None /\ opening.kind \in {"open", "agent"}
    /\ opening.kind = "agent" => s = opening.to
    /\ SetSession(s)
    /\ pinned' \in IF opening.kind = "agent" THEN {FALSE} ELSE BOOLEAN
    /\ opening' = None
    /\ UNCHANGED <<catalog, picker, form, work, launched>>

(* UiMsg::SwitchReady: the live session moved to the pair. *)
Switched ==
    /\ opening # None /\ opening.kind = "switch"
    /\ SetSession(opening.to)
    /\ opening' = None
    /\ UNCHANGED <<catalog, picker, form, pinned, work, launched>>

(* A turn leaves history: the session is pinned. *)
TurnEnds ==
    /\ session # None /\ opening = None /\ ~pinned
    /\ pinned' = TRUE
    /\ UNCHANGED <<draft, choice, catalog, agentList, selection, picker, form, session, work,
                   opening, launched>>

OpenFails ==
    /\ opening # None
    /\ opening' = None
    /\ UNCHANGED <<draft, choice, catalog, agentList, selection, picker, form, session, pinned,
                   work, launched>>

Sessions == {Pair(Home[id], id) : id \in Ids} \cup {Pair(a, None) : a \in Agents}

(* seed_draft: nothing, or a configured provider with or without a model. *)
Init ==
    /\ draft \in {Pair(None, None)} \cup {s \in Sessions : s.profile \in Profiles}
                 \cup {Pair(p, None) : p \in Profiles}
    /\ choice = NoChoice /\ catalog = NoCatalog /\ agentList = EmptyList /\ selection = 0
    /\ picker = None /\ form = None /\ session = None /\ pinned = FALSE
    /\ work = None /\ opening = None /\ launched = None

User ==
    \/ \E p \in Profiles : ChooseProfile(p) \/ OpenForm(p)
    \/ \E a \in Agents : ChooseAgent(a)
    \/ \E id \in Ids \cup {Default} : PickModel(id)
    \/ OpenModels \/ RefreshList \/ CloseOverlay \/ SaveProfile \/ AskOther \/ Cancel
    \/ OpenSession \/ NewSession

Answer ==
    \/ \E ok \in BOOLEAN : CatalogAnswer(ok) \/ AgentAnswer(ok) \/ SetupAnswer(ok)
    \/ \E s \in Sessions : Adopt(s)
    \/ OtherAnswer \/ Switched \/ TurnEnds \/ OpenFails

Next == User \/ Answer

Spec == Init /\ [][Next]_vars

-----------------------------------------------------------------------------
(* Properties.                                                             *)

(* An agent is started with a model of its own list, or none; and a list   *)
(* that says it is loaded is its provider's or its agent's: whatever the   *)
(* order of answers, choices, saves and session changes (app.rs, the       *)
(* comments on selection and connector_model).                             *)
AgentGetsItsModel ==
    /\ launched # None /\ launched.kind = "agent" =>
         launched.to.model \in ListOf(launched.to.profile) \cup {None}
    /\ choice.model \in ListOf(choice.agent) \cup {None}
    /\ agentList.models \subseteq ListOf(agentList.agent)
    /\ catalog.state = "fresh" /\ ~catalog.loading =>
         catalog.models \subseteq ListOf(catalog.profile)
=============================================================================
