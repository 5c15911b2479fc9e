----------------------------- MODULE ReviewCenter -----------------------------
(***************************************************************************)
(* The review center (components/remediation): the list of proposals, the  *)
(* proposal in the detail pane and the dialog that approves or rejects it. *)
(* Every choice of a filter or of a proposal loads the list again, the     *)
(* answers come in any order, and others decide on the proposals meanwhile *)
(* (module Remediation).  A decision is sent without a version: the server *)
(* applies it to whatever the proposal has become.                         *)
(***************************************************************************)
EXTENDS Integers, FiniteSets, FiniteSetsExt

CONSTANTS
  Proposals,  \* ids of the proposals of the organization, in the order of their creation
  Own,        \* those the user has created
  Role,       \* the role of the user: "MEMBER", "ADMIN" or "OWNER"
  Filters,    \* the status filters the user turns to: DOMAIN Statuses, or fewer
  MaxLoads,   \* bound: lists on their way
  MaxSent,    \* bound: decisions on their way
  MaxChanges, \* bound: what others do to the proposals
  Nobody      \* no proposal

VARIABLES
  rows,      \* remediation_proposals on the server
  listed,    \* proposals, the list in the page
  selection, \* selectedProposalId
  filter,    \* statusFilter
  lists,     \* loadProposals() under way
  reloads,   \* reloadProposal() under way, for each proposal
  dialog,    \* the approval dialog: what it was opened on
  sent,      \* the decisions sent to the server
  changes    \* how often others changed a proposal

vars == <<rows, listed, selection, filter, lists, reloads, dialog, sent, changes>>

\* As far as the page tells them apart: proposed and reviewed, of a low or medium
\* and of a high or critical risk; approved; the final statuses.
Open == {"ordinary", "elevated"}
Row  == Open \cup {"approved", "final"}

Decisions == {"approve", "reject"}
NoRow   == "absent"
Listing == [Proposals -> Row \cup {NoRow}]
Nothing == [p \in Proposals |-> NoRow]
Idle    == [step |-> "off", filter |-> "all", first |-> FALSE, list |-> Nothing]
Closed  == [proposal |-> Nobody, decision |-> "approve", seen |-> NoRow]
Reading(step, row) == [step |-> step, row |-> row]

Slots == 1..MaxLoads

TypeOK ==
  /\ rows \in Listing /\ listed \in Listing
  /\ selection \in Proposals \cup {Nobody} /\ filter \in Filters
  /\ lists \in [Slots -> [step : {"off", "asked", "answered"}, filter : Filters,
                          first : BOOLEAN, list : Listing]]
  /\ DOMAIN reloads = Proposals
  /\ dialog.proposal \in Proposals \cup {Nobody} /\ dialog.decision \in Decisions

-----------------------------------------------------------------------------
(* The page. *)

On(list) == {p \in Proposals : list[p] # NoRow}

\* The server lists the newest first.
Newest(list) == IF On(list) = {} THEN Nobody ELSE Max(On(list))

\* selectedProposal: where the selected one is not listed, the first of the list.
Focus == IF selection \in On(listed) THEN selection ELSE Newest(listed)

\* What a status filter lets through.
Statuses == [all |-> Row, open |-> Open, approved |-> {"approved"}, final |-> {"final"}]

Matches(row, wanted) == row \in Statuses[wanted]

\* canApprove and canReject of the detail pane.
HasRequiredRole(row) == row = "elevated" => Role \in {"ADMIN", "OWNER"}

\* Mutant: the pane does not look at the role.
OffersToEveryRole(decision, p) ==
  listed[p] \in Open /\ (decision = "approve" => p \notin Own)

Offers(decision, p) ==
  /\ listed[p] \in Open
  /\ decision = "approve" => p \notin Own /\ HasRequiredRole(listed[p])

Asked(wanted, chosen) ==
  [step |-> "asked", filter |-> wanted, first |-> chosen = Nobody, list |-> Nothing]

Init ==
  /\ rows \in Listing /\ \A p \in Proposals : rows[p] \in Open \cup {NoRow}
  /\ listed = Nothing
  /\ selection = Nobody /\ filter = "all"
  /\ lists = [n \in Slots |-> IF n = 1 THEN Asked("all", Nobody) ELSE Idle]
  /\ reloads = [p \in Proposals |-> Reading("off", NoRow)]
  /\ dialog = Closed
  /\ sent = {} /\ changes = 0

Load(n, wanted, chosen) ==
  /\ lists[n].step = "off"
  /\ lists' = [lists EXCEPT ![n] = Asked(wanted, chosen)]

PageUnchanged == UNCHANGED <<listed, selection, filter, dialog>>

\* The dialog covers the page.
Refresh(n) ==
  /\ dialog = Closed
  /\ Load(n, filter, selection)
  /\ PageUnchanged /\ UNCHANGED <<rows, reloads, sent, changes>>

SetFilter(n, wanted) ==
  /\ dialog = Closed /\ wanted # filter
  /\ filter' = wanted
  /\ Load(n, wanted, selection)
  /\ UNCHANGED <<rows, listed, selection, reloads, dialog, sent, changes>>

\* The list is filtered in the page as well.
Select(n, p) ==
  /\ dialog = Closed /\ p # selection /\ Matches(listed[p], filter)
  /\ selection' = p
  /\ Load(n, filter, p)
  /\ UNCHANGED <<rows, listed, filter, reloads, dialog, sent, changes>>

\* list_proposals.
AnswerList(n) ==
  /\ lists[n].step = "asked"
  /\ lists' = [lists EXCEPT ![n].step = "answered",
                 ![n].list = [p \in Proposals |->
                                IF Matches(rows[p], lists[n].filter) THEN rows[p] ELSE NoRow]]
  /\ PageUnchanged /\ UNCHANGED <<rows, reloads, sent, changes>>

\* Without a proposal the pane is gone, and the dialog with it.
Left(d, list) == IF On(list) = {} THEN Closed ELSE d
Orphaned(requests, list) ==
  IF On(list) = {} THEN {[r EXCEPT !.awaited = FALSE] : r \in requests} ELSE requests

\* The first answer selects a proposal, and a new selection loads the list again.
ShowList(n) ==
  /\ lists[n].step = "answered"
  /\ LET list == lists[n].list
         chosen == IF lists[n].first /\ On(list) # {} THEN Newest(list) ELSE selection
     IN /\ listed' = list
        /\ selection' = chosen
        /\ lists' = [lists EXCEPT ![n] = IF chosen = selection THEN Idle ELSE Asked(filter, chosen)]
        /\ dialog' = Left(dialog, list)
        /\ sent' = Orphaned(sent, list)
  /\ UNCHANGED <<rows, filter, reloads, changes>>

\* The page keeps its proposals and shows an error instead of the cards, until the
\* next load; the model lets the user choose one all the same.
ListFails(n) ==
  /\ lists[n].step # "off"
  /\ lists' = [lists EXCEPT ![n] = Idle]
  /\ PageUnchanged /\ UNCHANGED <<rows, reloads, sent, changes>>

-----------------------------------------------------------------------------
(* Decisions. *)

OpenDialog(decision) ==
  /\ dialog = Closed /\ Focus # Nobody
  /\ Offers(decision, Focus)
  /\ dialog' = [proposal |-> Focus, decision |-> decision, seen |-> listed[Focus]]
  /\ UNCHANGED <<rows, listed, selection, filter, lists, reloads, sent, changes>>

CloseDialog ==
  /\ dialog # Closed
  /\ dialog' = Closed
  /\ UNCHANGED <<rows, listed, selection, filter, lists, reloads, sent, changes>>

IsSubmitting == \E r \in sent : r.awaited

\* The decision is on the proposal the pane shows by now.
Submit ==
  /\ dialog # Closed /\ ~IsSubmitting
  /\ Cardinality(sent) < MaxSent
  /\ sent' = sent \cup {[proposal |-> Focus, decision |-> dialog.decision, step |-> "asked",
                         awaited |-> TRUE, opened |-> dialog.proposal, seen |-> dialog.seen,
                         found |-> NoRow]}
  /\ PageUnchanged /\ UNCHANGED <<rows, lists, reloads, changes>>

\* approve_proposal with its policy, reject_proposal.
Accepts(decision, p) ==
  IF decision = "approve"
  THEN rows[p] \in Open /\ p \notin Own /\ (rows[p] = "elevated" => Role \in {"ADMIN", "OWNER"})
  ELSE rows[p] # "final"

Decided(decision) == IF decision = "approve" THEN "approved" ELSE "final"

Become(r, s) == sent' = (sent \ {r}) \cup {s}

Decide(r) ==
  /\ r.step = "asked"
  /\ LET row == rows[r.proposal]
         accepted == Accepts(r.decision, r.proposal)
     IN /\ rows' = [rows EXCEPT ![r.proposal] = IF accepted THEN Decided(r.decision) ELSE row]
        /\ Become(r, [r EXCEPT !.step = IF accepted THEN "accepted" ELSE "refused", !.found = row])
  /\ PageUnchanged /\ UNCHANGED <<lists, reloads, changes>>

\* onSuccess reloads the proposal, onClose closes the dialog, the one that is
\* open by now.
ShowAccepted(r) ==
  /\ r.step = "accepted" /\ reloads[r.proposal].step = "off"
  /\ sent' = sent \ {r}
  /\ reloads' = [reloads EXCEPT ![r.proposal] = Reading("asked", NoRow)]
  /\ dialog' = IF r.awaited THEN Closed ELSE dialog
  /\ UNCHANGED <<rows, listed, selection, filter, lists, changes>>

\* The dialog shows the error.  A conflict is told by the code "HTTP_409", and
\* the server's is "CONFLICT": the proposal is not reloaded.
ShowRefused(r) ==
  /\ r.step = "refused"
  /\ sent' = sent \ {r}
  /\ PageUnchanged /\ UNCHANGED <<rows, lists, reloads, changes>>

\* The connection breaks before the server has decided or after.
DecisionFails(r) ==
  /\ r.step # "refused"
  /\ sent' = sent \ {r}
  /\ PageUnchanged /\ UNCHANGED <<rows, lists, reloads, changes>>

AnswerReload(p) ==
  /\ reloads[p].step = "asked"
  /\ reloads' = [reloads EXCEPT ![p] = Reading("answered", rows[p])]
  /\ PageUnchanged /\ UNCHANGED <<rows, lists, sent, changes>>

\* handleProposalUpdated replaces the proposal where it is listed.
ShowReload(p) ==
  /\ reloads[p].step = "answered"
  /\ listed' = IF p \in On(listed) THEN [listed EXCEPT ![p] = reloads[p].row] ELSE listed
  /\ reloads' = [reloads EXCEPT ![p] = Reading("off", NoRow)]
  /\ UNCHANGED <<rows, selection, filter, lists, dialog, sent, changes>>

ReloadFails(p) ==
  /\ reloads[p].step # "off"
  /\ reloads' = [reloads EXCEPT ![p] = Reading("off", NoRow)]
  /\ PageUnchanged /\ UNCHANGED <<rows, lists, sent, changes>>

-----------------------------------------------------------------------------
\* What others make of a proposal (Remediation, Allowed; a new risk of an
\* approved proposal opens it again).
Leads(row, after) ==
  IF row = NoRow THEN after \in Open ELSE row # "final"

OthersChange(p, after) ==
  /\ changes < MaxChanges /\ changes' = changes + 1
  /\ rows[p] # after /\ Leads(rows[p], after)
  /\ rows' = [rows EXCEPT ![p] = after]
  /\ PageUnchanged /\ UNCHANGED <<lists, reloads, sent>>

Next ==
  \/ \E n \in Slots :
       \/ Refresh(n) \/ AnswerList(n) \/ ShowList(n) \/ ListFails(n)
       \/ \E wanted \in Filters : SetFilter(n, wanted)
       \/ \E p \in Proposals : Select(n, p)
  \/ \E decision \in Decisions : OpenDialog(decision)
  \/ CloseDialog \/ Submit
  \/ \E r \in sent : Decide(r) \/ ShowAccepted(r) \/ ShowRefused(r) \/ DecisionFails(r)
  \/ \E p \in Proposals : AnswerReload(p) \/ ShowReload(p) \/ ReloadFails(p)
  \/ \E p \in Proposals, after \in Row : OthersChange(p, after)

Spec == Init /\ [][Next]_vars

-----------------------------------------------------------------------------
(* Properties. *)

\* The server refuses a decision the page offered only if the proposal is no
\* longer the one the dialog was opened on, by an answer that came late, or no
\* longer what the page showed then (ProposalDetailView.tsx:93-106 against
\* remediation/policy.py:58-171 and remediation/service.py:606-750).
OfferedIsAccepted ==
  \A r \in sent :
    r.step = "refused" /\ r.proposal = r.opened => r.found # r.seen
=============================================================================
