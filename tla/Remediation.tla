------------------------------ MODULE Remediation ------------------------------
(***************************************************************************)
(* Remediation proposals: their lifecycle, the human decisions on them and *)
(* the audit trail.  Each request loads the proposal first and decides on  *)
(* that copy.  Only approval and rejection lock the row, and the lock does *)
(* not refresh the copy; a commit then writes the columns that differ from *)
(* the copy, whatever the row has become.                                  *)
(***************************************************************************)
EXTENDS Naturals, Sequences, FiniteSets

CONSTANTS
  Proposals,   \* remediation proposals
  Users,       \* members of the organization
  Admins,      \* those whose role is ADMIN or OWNER
  Clients,     \* requests the server handles at the same time
  MaxVersion,  \* bound: revisions of a proposal
  MaxTrail,    \* bound: audit entries of a proposal
  None         \* null

ASSUME RolesAssumption == Admins \subseteq Users
ASSUME RemediationBoundsAssumption == MaxVersion \in Nat \ {0} /\ MaxTrail \in Nat \ {0}
ASSUME RemediationNoneAssumption == None \notin Users /\ None \notin Proposals

VARIABLES
  proposals,    \* remediation_proposals
  decisions,    \* remediation_approvals, in the order they are recorded
  trail,        \* remediation_audit_events, those about the status
  sessions,     \* what each request has loaded
  overwritten   \* history: proposals written from an outdated copy

vars == <<proposals, decisions, trail, sessions, overwritten>>

\* ALLOWED_TRANSITIONS; no proposal is ever a draft.
Allowed ==
  [absent     |-> {},
   proposed   |-> {"reviewed", "approved", "rejected", "superseded", "cancelled", "expired"},
   reviewed   |-> {"approved", "rejected", "superseded", "cancelled", "expired"},
   approved   |-> {"proposed", "superseded", "cancelled"},
   rejected   |-> {}, superseded |-> {}, cancelled |-> {}, expired |-> {}]

Statuses == DOMAIN Allowed
Final    == {"rejected", "superseded", "cancelled", "expired"}

\* The risk levels, as far as the roles they ask for tell them apart:
\* low and medium, high and critical.
Risks == {"ordinary", "elevated"}

Row      == [status : Statuses, version : 1..MaxVersion, creator : Users \cup {None},
             approver : Users \cup {None}, risk : Risks]
Decision == [made : {"approved", "rejected"}, version : 1..MaxVersion, reviewer : Users, risk : Risks]

\* The audit events about the status.  invalidates: approval_invalidated; the
\* others are proposal_created, status_changed, proposal_approved and
\* proposal_rejected.
Entry    == [from : Statuses, to : Statuses, version : 1..MaxVersion, invalidates : BOOLEAN]
Session  == [proposal : Proposals, user : Users, row : Row]

TypeOK ==
  /\ proposals \in [Proposals -> Row]
  /\ decisions \in [Proposals -> Seq(Decision)]
  /\ trail \in [Proposals -> Seq(Entry)]
  /\ sessions \in [Clients -> Session \cup {None}]
  /\ overwritten \subseteq Proposals

AbsentRow == [status |-> "absent", version |-> 1, creator |-> None, approver |-> None, risk |-> "ordinary"]

Init ==
  /\ proposals = [p \in Proposals |-> AbsentRow]
  /\ decisions = [p \in Proposals |-> <<>>]
  /\ trail = [p \in Proposals |-> <<>>]
  /\ sessions = [c \in Clients |-> None]
  /\ overwritten = {}

-----------------------------------------------------------------------------
(* What the operations make of a proposal. *)

TransitionedRow(row, target) ==
  IF row.status = "approved"
  THEN [row EXCEPT !.status = target, !.version = @ + 1, !.approver = None]
  ELSE [row EXCEPT !.status = target]

\* Mutant: the approval survives the recalculation.
RecalculatedRowKeepsApproval(row, risk) == [row EXCEPT !.risk = risk]

RecalculatedRow(row, risk) ==
  IF row.status = "approved"
  THEN [row EXCEPT !.status = "proposed", !.version = @ + 1, !.approver = None, !.risk = risk]
  ELSE [row EXCEPT !.risk = risk]

ApprovedRow(row, user) == [row EXCEPT !.status = "approved", !.approver = user]
RejectedRow(row)       == [row EXCEPT !.status = "rejected"]

\* ApprovalPolicyService.evaluate.  Every proposal has a risk assessment.
MayApprove(user, row) ==
  /\ row.status \in {"proposed", "reviewed"}
  /\ user # row.creator
  /\ row.risk = "elevated" => user \in Admins

\* Mutant: earlier decisions are not looked up.
NotLookedUp(p, version) == FALSE

ApprovedBefore(p, version) ==
  \E n \in DOMAIN decisions[p] :
    decisions[p][n].made = "approved" /\ decisions[p][n].version = version

-----------------------------------------------------------------------------
(* Requests. *)

StatusEntry(before, after) ==
  [from |-> before.status, to |-> after.status, version |-> after.version, invalidates |-> FALSE]

Invalidation(before, after) == [StatusEntry(before, after) EXCEPT !.invalidates = TRUE]

\* POST /incidents/{id}/remediations, and the generation from a hypothesis.
CreateProposal(p, user, risk) ==
  /\ proposals[p].status = "absent"
  /\ LET row == [AbsentRow EXCEPT !.status = "proposed", !.creator = user, !.risk = risk] IN
       /\ proposals' = [proposals EXCEPT ![p] = row]
       /\ trail' = [trail EXCEPT ![p] = Append(@, StatusEntry(AbsentRow, row))]
  /\ UNCHANGED <<decisions, sessions, overwritten>>

\* get_remediation_proposal_or_404.
LoadProposal(c, p, user) ==
  /\ sessions[c] = None
  /\ proposals[p].status # "absent"
  /\ sessions' = [sessions EXCEPT ![c] = [proposal |-> p, user |-> user, row |-> proposals[p]]]
  /\ UNCHANGED <<proposals, decisions, trail, overwritten>>

\* The answer to a read, or the refusal of a request.
Answer(c) ==
  /\ sessions[c] # None
  /\ sessions' = [sessions EXCEPT ![c] = None]
  /\ UNCHANGED <<proposals, decisions, trail, overwritten>>

\* The flush of the session: the columns of after that differ from the copy.
Flushed(row, copy, after) ==
  [column \in DOMAIN row |->
     IF after[column] = copy[column] THEN row[column] ELSE after[column]]

Commit(c, after, events) ==
  LET s == sessions[c] IN
  /\ Len(trail[s.proposal]) + Len(events) <= MaxTrail
  /\ after.version <= MaxVersion
  /\ proposals' = [proposals EXCEPT ![s.proposal] = Flushed(@, s.row, after)]
  /\ trail' = [trail EXCEPT ![s.proposal] = @ \o events]
  /\ sessions' = [sessions EXCEPT ![c] = None]
  /\ overwritten' = IF proposals[s.proposal] = s.row THEN overwritten
                                                    ELSE overwritten \cup {s.proposal}

TransitionStatus(c, target) ==
  /\ sessions[c] # None
  /\ target \in Allowed[sessions[c].row.status]
  /\ LET row == sessions[c].row
         after == TransitionedRow(row, target)
     IN Commit(c, after, (IF row.status = "approved" THEN <<Invalidation(row, after)>> ELSE <<>>)
                           \o <<StatusEntry(row, after)>>)
  /\ UNCHANGED decisions

RecalculateRisk(c, risk) ==
  /\ sessions[c] # None
  /\ LET row == sessions[c].row
         after == RecalculatedRow(row, risk)
     IN Commit(c, after, IF row.status = "approved" THEN <<Invalidation(row, after)>> ELSE <<>>)
  /\ UNCHANGED decisions

Record(c, made) ==
  LET s == sessions[c] IN
  decisions' = [decisions EXCEPT ![s.proposal] =
    Append(@, [made |-> made, version |-> s.row.version, reviewer |-> s.user, risk |-> s.row.risk])]

\* The row is locked from the look-up of earlier approvals to the commit.
ApproveProposal(c) ==
  /\ sessions[c] # None
  /\ LET row == sessions[c].row
         after == ApprovedRow(row, sessions[c].user)
     IN /\ ~ApprovedBefore(sessions[c].proposal, row.version)
        /\ row.status # "approved"
        /\ MayApprove(sessions[c].user, row)
        /\ Commit(c, after, <<StatusEntry(row, after)>>)
  /\ Record(c, "approved")

\* Mutant: the decision is recorded, the event is not.
RejectUnaudited(c) ==
  /\ sessions[c] # None
  /\ sessions[c].row.status \notin Final
  /\ Commit(c, RejectedRow(sessions[c].row), <<>>)
  /\ Record(c, "rejected")

RejectProposal(c) ==
  /\ sessions[c] # None
  /\ LET row == sessions[c].row
         after == RejectedRow(row)
     IN /\ row.status \notin Final
        /\ Commit(c, after, <<StatusEntry(row, after)>>)
  /\ Record(c, "rejected")

Next ==
  \/ \E p \in Proposals, user \in Users, risk \in Risks : CreateProposal(p, user, risk)
  \/ \E c \in Clients, p \in Proposals, user \in Users : LoadProposal(c, p, user)
  \/ \E c \in Clients :
       \/ Answer(c) \/ ApproveProposal(c) \/ RejectProposal(c)
       \/ \E target \in Statuses : TransitionStatus(c, target)
       \/ \E risk \in Risks : RecalculateRisk(c, risk)

Spec == Init /\ [][Next]_vars

-----------------------------------------------------------------------------
(* Properties.  overwritten marks the proposals some request wrote without  *)
(* having seen the last write; what needs each request to see it says so.   *)

\* No version of a proposal is approved twice, whoever races: the look-up of
\* approve_proposal is made under the row lock.
OneApprovalPerVersion ==
  \A p \in Proposals : \A m, n \in DOMAIN decisions[p] :
    /\ decisions[p][m].made = "approved" /\ decisions[p][n].made = "approved"
    /\ decisions[p][m].version = decisions[p][n].version
    => m = n

\* The approver a proposal names, whoever races, has approved it, is not its
\* creator and has the role the risk asked for at that decision.  Unless an
\* outdated copy overwrote the proposal the decision is about the version it
\* is in, and a mutation has taken back every other approval: either the
\* proposal is still approved, at the risk it was approved at, or that very
\* version was rejected later (reject_proposal leaves version and approver).
StandingApproval ==
  \A p \in Proposals :
    LET row == proposals[p] IN
    row.approver # None =>
      \E n \in DOMAIN decisions[p] :
        LET decision == decisions[p][n] IN
        /\ decision.made = "approved" /\ decision.reviewer = row.approver
        /\ MayApprove(row.approver, [row EXCEPT !.status = "reviewed", !.risk = decision.risk])
        /\ p \notin overwritten =>
             /\ decision.version = row.version
             /\ \/ row.status = "approved" /\ row.risk = decision.risk
                \/ /\ row.status = "rejected"
                   /\ \E m \in DOMAIN decisions[p] :
                        /\ m > n /\ decisions[p][m].made = "rejected"
                        /\ decisions[p][m].version = row.version

\* An event starts where the one before it led to.  It invalidates an approval,
\* and then raises the version, exactly when it leaves "approved" other than by
\* a rejection; transition_status writes such an event a second time, as a
\* change of status.
Follows(entry, previous) ==
  \/ /\ entry.from = previous.to
     /\ entry.invalidates <=> entry.from = "approved" /\ entry.to # "rejected"
     /\ entry.version = previous.version + (IF entry.invalidates THEN 1 ELSE 0)
  \/ previous.invalidates /\ entry = [previous EXCEPT !.invalidates = FALSE]

\* The audit trail ends with the status of the proposal, whoever races.  Unless
\* an outdated copy overwrote the proposal it also ends with its version, and
\* its events follow each other: no approval is given up and no version is
\* left without the event that says so.
TrailTellsStatus ==
  \A p \in Proposals :
    LET events == trail[p]
        last   == events[Len(events)]
    IN events # <<>> =>
         /\ last.to = proposals[p].status
         /\ p \notin overwritten =>
              /\ last.version = proposals[p].version
              /\ \A n \in 2..Len(events) : Follows(events[n], events[n - 1])

\* A terminal proposal is never approved, whoever races: the row lock is there
\* to guard approval against a concurrent rejection.
NoApprovalOfFinal ==
  [][\A p \in Proposals :
       proposals[p].status \in Final =>
         \A n \in DOMAIN decisions'[p] \ DOMAIN decisions[p] : decisions'[p][n].made = "rejected"]_vars

\* Any mutation of an approved proposal invalidates the approval: it raises the
\* version, takes the approver away and says so in the trail
\* (ARCHITECTURE.md:191, of transition_status, recalculate_risk and rejection).
MutationInvalidates ==
  [][\A p \in Proposals :
       /\ proposals[p].status = "approved" /\ proposals[p].approver # None
       /\ proposals'[p] # proposals[p]
       => /\ proposals'[p].version = proposals[p].version + 1
          /\ proposals'[p].approver = None
          /\ \E n \in DOMAIN trail'[p] \ DOMAIN trail[p] : trail'[p][n].invalidates]_vars
=============================================================================
