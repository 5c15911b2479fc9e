---------------------------- MODULE Reviews_proofs ----------------------------
(***************************************************************************)
(* Machine-checked facts about the reviews of remediation proposals: the   *)
(* server, for every number of proposals, users and concurrent requests;   *)
(* the page, for every number of proposals, lists and decisions on their   *)
(* way, and for every role; and Reviews, which follows either.             *)
(***************************************************************************)
EXTENDS Reviews, SequenceTheorems, TLAPS

-----------------------------------------------------------------------------
(* Type correctness.                                                       *)

LEMMA StatusNames ==
  Statuses = {"absent", "proposed", "reviewed", "approved"} \cup Final
  BY DEF Statuses, Allowed, Final

\* What a request makes of its copy is a row again, within the bound that
\* Commit checks.
LEMMA RowUpdates ==
  ASSUME NEW row \in Row
  PROVE  /\ \A target \in Statuses :
              TransitionedRow(row, target).version <= MaxVersion => TransitionedRow(row, target) \in Row
         /\ \A risk \in Risks :
              RecalculatedRow(row, risk).version <= MaxVersion => RecalculatedRow(row, risk) \in Row
         /\ \A user \in Users : ApprovedRow(row, user) \in Row
         /\ RejectedRow(row) \in Row
<1> USE RemediationBoundsAssumption, StatusNames DEF Row, Final
<1>1. ASSUME NEW target \in Statuses, TransitionedRow(row, target).version <= MaxVersion
      PROVE  TransitionedRow(row, target) \in Row
  <2>1. CASE row.status = "approved"
    <3>1. row.version + 1 \in 1..MaxVersion
      BY <1>1, <2>1 DEF TransitionedRow
    <3> QED BY <2>1, <3>1 DEF TransitionedRow
  <2>2. CASE row.status # "approved"
    BY <2>2 DEF TransitionedRow
  <2> QED BY <2>1, <2>2
<1>2. ASSUME NEW risk \in Risks, RecalculatedRow(row, risk).version <= MaxVersion
      PROVE  RecalculatedRow(row, risk) \in Row
  <2>1. CASE row.status = "approved"
    <3>1. row.version + 1 \in 1..MaxVersion
      BY <1>2, <2>1 DEF RecalculatedRow
    <3> QED BY <2>1, <3>1 DEF RecalculatedRow
  <2>2. CASE row.status # "approved"
    BY <2>2 DEF RecalculatedRow
  <2> QED BY <2>1, <2>2
<1>3. \A user \in Users : ApprovedRow(row, user) \in Row
  BY DEF ApprovedRow
<1>4. RejectedRow(row) \in Row
  BY DEF RejectedRow
<1> QED BY <1>1, <1>2, <1>3, <1>4

LEMMA EntryOfRows ==
  ASSUME NEW before \in Row, NEW after \in Row
  PROVE  StatusEntry(before, after) \in Entry /\ Invalidation(before, after) \in Entry
  BY DEF StatusEntry, Invalidation, Entry, Row

\* The events of transition_status: leaving "approved" is recorded twice.
TransitionEvents(before, after) ==
  IF before.status = "approved"
  THEN <<Invalidation(before, after), StatusEntry(before, after)>>
  ELSE <<StatusEntry(before, after)>>

LEMMA EventsOfTransition ==
  ASSUME NEW before \in Row, NEW after \in Row
  PROVE  /\ (IF before.status = "approved" THEN <<Invalidation(before, after)>> ELSE <<>>)
              \o <<StatusEntry(before, after)>> = TransitionEvents(before, after)
         /\ TransitionEvents(before, after) \in Seq(Entry)
<1>1. StatusEntry(before, after) \in Entry /\ Invalidation(before, after) \in Entry
  BY EntryOfRows
<1> DEFINE a == Invalidation(before, after)
           b == StatusEntry(before, after)
<1> HIDE DEF a, b
<1>2. CASE before.status = "approved"
  <2>1. <<a>> \in Seq(Entry) /\ <<a, b>> \in Seq(Entry)
    BY <1>1 DEF a, b
  <2>2. <<a>> \o <<b>> = Append(<<a>>, b)
    BY <1>1, <2>1, AppendIsConcat DEF a, b
  <2>3. Append(<<a>>, b) = <<a, b>>
    <3>1. /\ Append(<<a>>, b) \in Seq(Entry) /\ Len(Append(<<a>>, b)) = 2
          /\ Append(<<a>>, b)[1] = a /\ Append(<<a>>, b)[2] = b
      BY <1>1, <2>1, AppendProperties DEF a, b
    <3>2. Len(<<a, b>>) = 2 /\ <<a, b>>[1] = a /\ <<a, b>>[2] = b
      OBVIOUS
    <3>3. \A n \in 1..2 : n = 1 \/ n = 2
      OBVIOUS
    <3>4. \A n \in 1..Len(Append(<<a>>, b)) : Append(<<a>>, b)[n] = <<a, b>>[n]
      BY <3>1, <3>2, <3>3
    <3> QED BY <2>1, <3>1, <3>2, <3>4, SeqEqual
  <2> QED BY <1>2, <2>1, <2>2, <2>3 DEF TransitionEvents, a, b
<1>3. CASE before.status # "approved"
  <2>1. <<b>> \in Seq(Entry)
    BY <1>1 DEF b
  <2>2. <<>> \o <<b>> = <<b>>
    BY <2>1, ConcatEmptySeq
  <2> QED BY <1>3, <2>1, <2>2 DEF TransitionEvents, b
<1> QED BY <1>2, <1>3

LEMMA FlushedIsRow ==
  ASSUME NEW row \in Row, NEW copy \in Row, NEW after \in Row
  PROVE  Flushed(row, copy, after) \in Row
  BY DEF Flushed, Row

LEMMA CommitType ==
  ASSUME TypeOK, NEW c \in Clients, sessions[c] # None,
         NEW after \in Row, NEW events \in Seq(Entry), Commit(c, after, events)
  PROVE  /\ proposals' \in [Proposals -> Row]
         /\ trail' \in [Proposals -> Seq(Entry)]
         /\ sessions' \in [Clients -> Session \cup {None}]
         /\ overwritten' \subseteq Proposals
<1> DEFINE s == sessions[c]
<1>1. s \in Session /\ s.proposal \in Proposals /\ s.row \in Row
  BY DEF TypeOK, Session
<1>2. Flushed(proposals[s.proposal], s.row, after) \in Row
  BY <1>1, FlushedIsRow DEF TypeOK
<1>3. proposals' \in [Proposals -> Row]
  BY <1>1, <1>2 DEF Commit, TypeOK
<1>4. trail' \in [Proposals -> Seq(Entry)]
  BY <1>1 DEF Commit, TypeOK
<1>5. sessions' \in [Clients -> Session \cup {None}] /\ overwritten' \subseteq Proposals
  BY <1>1 DEF Commit, TypeOK
<1> QED BY <1>3, <1>4, <1>5

LEMMA RecordType ==
  ASSUME TypeOK, NEW c \in Clients, sessions[c] # None,
         NEW made \in {"approved", "rejected"}, Record(c, made)
  PROVE  decisions' \in [Proposals -> Seq(Decision)]
<1> DEFINE s == sessions[c]
           d == [made |-> made, version |-> s.row.version, reviewer |-> s.user, risk |-> s.row.risk]
<1>1. s \in Session
  BY DEF TypeOK
<1>2. d \in Decision
  BY <1>1 DEF Session, Row, Decision
<1> QED BY <1>1, <1>2 DEF Record, TypeOK, Session

LEMMA TypeStep ==
  ASSUME TypeOK, [Next]_vars
  PROVE  TypeOK'
<1>1. ASSUME NEW p \in Proposals, NEW user \in Users, NEW risk \in Risks, CreateProposal(p, user, risk)
      PROVE  TypeOK'
  <2> DEFINE row == [AbsentRow EXCEPT !.status = "proposed", !.creator = user, !.risk = risk]
  <2>1. AbsentRow \in Row /\ row \in Row
    <3>1. 1 \in 1..MaxVersion /\ {"absent", "proposed"} \subseteq Statuses /\ "ordinary" \in Risks
      BY StatusNames, RemediationBoundsAssumption DEF Risks
    <3>2. AbsentRow \in Row
      BY <3>1 DEF AbsentRow, Row
    <3> QED BY <3>1, <3>2 DEF Row
  <2>2. StatusEntry(AbsentRow, row) \in Entry
    BY <2>1, EntryOfRows
  <2>3. proposals' = [proposals EXCEPT ![p] = row]
        /\ trail' = [trail EXCEPT ![p] = Append(@, StatusEntry(AbsentRow, row))]
        /\ UNCHANGED <<decisions, sessions, overwritten>>
    BY <1>1 DEF CreateProposal
  <2> HIDE DEF row
  <2> QED BY <2>1, <2>2, <2>3 DEF TypeOK
<1>2. ASSUME NEW c \in Clients, NEW p \in Proposals, NEW user \in Users, LoadProposal(c, p, user)
      PROVE  TypeOK'
  BY <1>2 DEF LoadProposal, TypeOK, Session
<1>3. ASSUME NEW c \in Clients, Answer(c) PROVE TypeOK'
  BY <1>3 DEF Answer, TypeOK
<1>4. ASSUME NEW c \in Clients, NEW target \in Statuses, TransitionStatus(c, target)
      PROVE  TypeOK'
  <2> DEFINE row == sessions[c].row
             after == TransitionedRow(row, target)
             events == (IF row.status = "approved" THEN <<Invalidation(row, after)>> ELSE <<>>)
                         \o <<StatusEntry(row, after)>>
  <2>1. sessions[c] # None /\ row \in Row
    BY <1>4 DEF TransitionStatus, TypeOK, Session
  <2>2. Commit(c, after, events) /\ UNCHANGED decisions
    BY <1>4 DEF TransitionStatus
  <2>3. after \in Row
    BY <2>1, <2>2, RowUpdates DEF Commit
  <2>4. events \in Seq(Entry)
    BY <2>1, <2>3, EventsOfTransition
  <2> HIDE DEF row, after, events
  <2> QED BY <2>1, <2>2, <2>3, <2>4, CommitType DEF TypeOK
<1>5. ASSUME NEW c \in Clients, NEW risk \in Risks, RecalculateRisk(c, risk)
      PROVE  TypeOK'
  <2> DEFINE row == sessions[c].row
             after == RecalculatedRow(row, risk)
             events == IF row.status = "approved" THEN <<Invalidation(row, after)>> ELSE <<>>
  <2>1. sessions[c] # None /\ row \in Row
    BY <1>5 DEF RecalculateRisk, TypeOK, Session
  <2>2. Commit(c, after, events) /\ UNCHANGED decisions
    BY <1>5 DEF RecalculateRisk
  <2>3. after \in Row
    BY <2>1, <2>2, RowUpdates DEF Commit
  <2>4. events \in Seq(Entry)
    BY <2>1, <2>3, EntryOfRows
  <2> HIDE DEF row, after, events
  <2> QED BY <2>1, <2>2, <2>3, <2>4, CommitType DEF TypeOK
<1>6. ASSUME NEW c \in Clients, ApproveProposal(c) PROVE TypeOK'
  <2> DEFINE row == sessions[c].row
             after == ApprovedRow(row, sessions[c].user)
  <2>1. sessions[c] # None /\ row \in Row /\ sessions[c].user \in Users
    BY <1>6 DEF ApproveProposal, TypeOK, Session
  <2>2. Commit(c, after, <<StatusEntry(row, after)>>) /\ Record(c, "approved")
    BY <1>6 DEF ApproveProposal
  <2>3. after \in Row
    BY <2>1, RowUpdates
  <2>4. <<StatusEntry(row, after)>> \in Seq(Entry)
    BY <2>1, <2>3, EntryOfRows
  <2>5. decisions' \in [Proposals -> Seq(Decision)]
    BY <2>1, <2>2, RecordType
  <2> HIDE DEF row, after
  <2> QED BY <2>1, <2>2, <2>3, <2>4, <2>5, CommitType DEF TypeOK
<1>7. ASSUME NEW c \in Clients, RejectProposal(c) PROVE TypeOK'
  <2> DEFINE row == sessions[c].row
             after == RejectedRow(row)
  <2>1. sessions[c] # None /\ row \in Row
    BY <1>7 DEF RejectProposal, TypeOK, Session
  <2>2. Commit(c, after, <<StatusEntry(row, after)>>) /\ Record(c, "rejected")
    BY <1>7 DEF RejectProposal
  <2>3. after \in Row
    BY <2>1, RowUpdates
  <2>4. <<StatusEntry(row, after)>> \in Seq(Entry)
    BY <2>1, <2>3, EntryOfRows
  <2>5. decisions' \in [Proposals -> Seq(Decision)]
    BY <2>1, <2>2, RecordType
  <2> HIDE DEF row, after
  <2> QED BY <2>1, <2>2, <2>3, <2>4, <2>5, CommitType DEF TypeOK
<1>8. CASE UNCHANGED vars
  BY <1>8 DEF vars, TypeOK
<1> QED BY <1>1, <1>2, <1>3, <1>4, <1>5, <1>6, <1>7, <1>8 DEF Next

\* Every row, decision and audit entry has the type the schema gives it,
\* whatever the requests overwrite.
THEOREM RowsTyped == Spec => []TypeOK
<1>1. Init => TypeOK
  BY StatusNames, RemediationBoundsAssumption DEF Init, TypeOK, AbsentRow, Row, Risks
<1>2. TypeOK /\ [Next]_vars => TypeOK'
  BY TypeStep
<1> QED BY <1>1, <1>2, PTL DEF Spec

-----------------------------------------------------------------------------
(* At most one approval of a version.                                      *)

\* Decisions are only appended, and an approval only where the look-up under
\* the lock found none of that version.
LEMMA RecordKeepsOneApproval ==
  ASSUME TypeOK, OneApprovalPerVersion, NEW c \in Clients, sessions[c] # None,
         NEW made \in {"approved", "rejected"}, Record(c, made),
         made = "approved" => ~ApprovedBefore(sessions[c].proposal, sessions[c].row.version)
  PROVE  OneApprovalPerVersion'
<1> DEFINE q == sessions[c].proposal
           d == [made |-> made, version |-> sessions[c].row.version,
                 reviewer |-> sessions[c].user, risk |-> sessions[c].row.risk]
           last == Len(decisions[q]) + 1
<1>1. q \in Proposals
  BY DEF TypeOK, Session
<1>2. decisions' = [decisions EXCEPT ![q] = Append(decisions[q], d)]
  BY DEF Record
<1>3. decisions[q] \in Seq(Decision) /\ d.made = made /\ d.version = sessions[c].row.version
  BY <1>1 DEF TypeOK
<1> HIDE DEF q, d
<1>4. /\ DOMAIN decisions'[q] = DOMAIN decisions[q] \cup {last}
      /\ \A n \in DOMAIN decisions[q] : decisions'[q][n] = decisions[q][n]
      /\ decisions'[q][last] = d
  BY <1>1, <1>2, <1>3 DEF TypeOK
<1>5. \A p \in Proposals \ {q} : decisions'[p] = decisions[p]
  BY <1>2 DEF TypeOK
<1>6. \A n \in DOMAIN decisions[q] :
        ~(made = "approved" /\ decisions[q][n].made = "approved" /\ decisions[q][n].version = d.version)
  BY <1>3 DEF ApprovedBefore, q
<1> SUFFICES ASSUME NEW p \in Proposals, NEW m \in DOMAIN decisions'[p], NEW n \in DOMAIN decisions'[p],
                    decisions'[p][m].made = "approved", decisions'[p][n].made = "approved",
                    decisions'[p][m].version = decisions'[p][n].version
             PROVE  m = n
  BY DEF OneApprovalPerVersion
<1>7. CASE p # q
  BY <1>5, <1>7 DEF OneApprovalPerVersion
<1>8. CASE p = q /\ m # last /\ n # last
  BY <1>4, <1>8 DEF OneApprovalPerVersion
<1>9. CASE p = q /\ (m = last \/ n = last)
  BY <1>3, <1>4, <1>6, <1>9
<1> QED BY <1>7, <1>8, <1>9

\* No version of a proposal is approved twice, for any number of concurrent
\* requests and although every one of them decides on a copy of the row.
THEOREM ApprovedOnce == Spec => []OneApprovalPerVersion
<1>1. Init => OneApprovalPerVersion
  BY DEF Init, OneApprovalPerVersion
<1>2. ASSUME TypeOK, OneApprovalPerVersion, [Next]_vars
      PROVE  OneApprovalPerVersion'
  <2>1. CASE UNCHANGED decisions
    BY <1>2, <2>1 DEF OneApprovalPerVersion
  <2>2. ASSUME NEW c \in Clients, ApproveProposal(c) PROVE OneApprovalPerVersion'
    <3>1. /\ sessions[c] # None /\ Record(c, "approved")
          /\ ~ApprovedBefore(sessions[c].proposal, sessions[c].row.version)
      BY <2>2 DEF ApproveProposal
    <3> QED BY <1>2, <3>1, RecordKeepsOneApproval
  <2>3. ASSUME NEW c \in Clients, RejectProposal(c) PROVE OneApprovalPerVersion'
    <3>1. sessions[c] # None /\ Record(c, "rejected")
      BY <2>3 DEF RejectProposal
    <3> QED BY <1>2, <3>1, RecordKeepsOneApproval
  <2> QED
    BY <1>2, <2>1, <2>2, <2>3
       DEF Next, vars, CreateProposal, LoadProposal, Answer, TransitionStatus, RecalculateRisk
<1> QED BY <1>1, <1>2, RowsTyped, PTL DEF Spec

-----------------------------------------------------------------------------
(* What a request makes of its copy, and the events it records for it.     *)

\* The events tell what a commit does to the status and the version.
Recorded(row, after, events) ==
  \/ events = <<>> /\ after.status = row.status /\ after.version = row.version
  \/ /\ events = <<StatusEntry(row, after)>> /\ after.version = row.version
     /\ after.status # row.status
     /\ row.status = "approved" => after.status = "rejected"
  \/ /\ events \in {<<Invalidation(row, after)>>,
                    <<Invalidation(row, after), StatusEntry(row, after)>>}
     /\ row.status = "approved" /\ after.version = row.version + 1
     /\ after.status \notin {"approved", "rejected"}

Outcome(c, after, events) ==
  /\ sessions[c] # None /\ Commit(c, after, events)
  /\ after.creator = sessions[c].row.creator
  /\ sessions[c].row.status # "absent" => after.status # "absent"
  /\ Recorded(sessions[c].row, after, events)

LEMMA TransitionOutcome ==
  ASSUME TypeOK, NEW c \in Clients, NEW target \in Statuses, TransitionStatus(c, target)
  PROVE  LET row == sessions[c].row
             after == TransitionedRow(row, target)
         IN  /\ row \in Row /\ after \in Row /\ row.status # "rejected"
             /\ Outcome(c, after, TransitionEvents(row, after))
<1> DEFINE row == sessions[c].row
           after == TransitionedRow(row, target)
<1>1. /\ sessions[c] # None /\ row \in Row /\ target \in Allowed[row.status]
      /\ Commit(c, after, (IF row.status = "approved" THEN <<Invalidation(row, after)>> ELSE <<>>)
                            \o <<StatusEntry(row, after)>>)
  BY DEF TransitionStatus, TypeOK, Session
<1>2. after \in Row
  BY <1>1, RowUpdates DEF Commit
<1>3. Commit(c, after, TransitionEvents(row, after))
  BY <1>1, <1>2, EventsOfTransition
<1>4. /\ after.status = target /\ after.creator = row.creator
      /\ after.version = IF row.status = "approved" THEN row.version + 1 ELSE row.version
  BY <1>1 DEF TransitionedRow, Row
<1>5. /\ target # row.status /\ target # "absent" /\ row.status # "rejected"
      /\ row.status = "approved" => target \notin {"approved", "rejected"}
  BY <1>1, StatusNames DEF Allowed, Row, Final
<1>6. Recorded(row, after, TransitionEvents(row, after))
  <2> HIDE DEF row, after
  <2> QED BY <1>4, <1>5 DEF Recorded, TransitionEvents
<1> QED BY <1>1, <1>2, <1>3, <1>4, <1>5, <1>6 DEF Outcome

LEMMA RecalculationOutcome ==
  ASSUME TypeOK, NEW c \in Clients, NEW risk \in Risks, RecalculateRisk(c, risk)
  PROVE  LET row == sessions[c].row
             after == RecalculatedRow(row, risk)
         IN  /\ row \in Row /\ after \in Row
             /\ Outcome(c, after, IF row.status = "approved" THEN <<Invalidation(row, after)>>
                                                             ELSE <<>>)
<1> DEFINE row == sessions[c].row
           after == RecalculatedRow(row, risk)
           events == IF row.status = "approved" THEN <<Invalidation(row, after)>> ELSE <<>>
<1>1. sessions[c] # None /\ row \in Row /\ Commit(c, after, events)
  BY DEF RecalculateRisk, TypeOK, Session
<1>2. after \in Row
  BY <1>1, RowUpdates DEF Commit
<1>3. /\ after.creator = row.creator
      /\ after.status = IF row.status = "approved" THEN "proposed" ELSE row.status
      /\ after.version = IF row.status = "approved" THEN row.version + 1 ELSE row.version
  BY <1>1 DEF RecalculatedRow, Row
<1>4. Recorded(row, after, events)
  <2> HIDE DEF row, after
  <2> QED BY <1>3 DEF Recorded
<1> QED BY <1>1, <1>2, <1>3, <1>4 DEF Outcome

LEMMA ApprovalOutcome ==
  ASSUME TypeOK, NEW c \in Clients, ApproveProposal(c)
  PROVE  LET row == sessions[c].row
             after == ApprovedRow(row, sessions[c].user)
         IN  /\ row \in Row /\ after \in Row
             /\ Outcome(c, after, <<StatusEntry(row, after)>>)
<1> DEFINE row == sessions[c].row
           after == ApprovedRow(row, sessions[c].user)
<1>1. /\ sessions[c] # None /\ row \in Row /\ sessions[c].user \in Users
      /\ row.status # "approved" /\ Commit(c, after, <<StatusEntry(row, after)>>)
  BY DEF ApproveProposal, TypeOK, Session
<1>2. /\ after \in Row /\ after.status = "approved" /\ after.creator = row.creator
      /\ after.version = row.version
  BY <1>1, RowUpdates DEF ApprovedRow, Row
<1>3. Recorded(row, after, <<StatusEntry(row, after)>>)
  <2> HIDE DEF row, after
  <2> QED BY <1>1, <1>2 DEF Recorded
<1> QED BY <1>1, <1>2, <1>3 DEF Outcome

LEMMA RejectionOutcome ==
  ASSUME TypeOK, NEW c \in Clients, RejectProposal(c)
  PROVE  LET row == sessions[c].row
             after == RejectedRow(row)
         IN  /\ row \in Row /\ after \in Row
             /\ Outcome(c, after, <<StatusEntry(row, after)>>)
<1> DEFINE row == sessions[c].row
           after == RejectedRow(row)
<1>1. /\ sessions[c] # None /\ row \in Row /\ row.status \notin Final
      /\ Commit(c, after, <<StatusEntry(row, after)>>)
  BY DEF RejectProposal, TypeOK, Session
<1>2. /\ after \in Row /\ after.status = "rejected" /\ after.creator = row.creator
      /\ after.version = row.version
  BY <1>1, RowUpdates DEF RejectedRow, Row
<1>3. Recorded(row, after, <<StatusEntry(row, after)>>)
  <2> HIDE DEF row, after
  <2> QED BY <1>1, <1>2 DEF Recorded, Final
<1> QED BY <1>1, <1>2, <1>3 DEF Outcome

\* Every step creates a proposal, loads or answers, or is one of the four.
LEMMA StepOutcomes ==
  ASSUME TypeOK, [Next]_vars
  PROVE  \/ \E p \in Proposals, user \in Users, risk \in Risks : CreateProposal(p, user, risk)
         \/ \E c \in Clients, p \in Proposals, user \in Users : LoadProposal(c, p, user)
         \/ \E c \in Clients : Answer(c)
         \/ \E c \in Clients, after \in Row : \E events : Outcome(c, after, events)
         \/ UNCHANGED vars
  BY TransitionOutcome, RecalculationOutcome, ApprovalOutcome, RejectionOutcome DEF Next

-----------------------------------------------------------------------------
(* A request works on a proposal that is there and keeps its creator.      *)

CopiesPresent ==
  \A c \in Clients : sessions[c] # None =>
    /\ sessions[c].row.status # "absent"
    /\ proposals[sessions[c].proposal].status # "absent"
    /\ sessions[c].row.creator = proposals[sessions[c].proposal].creator

PresentInv ==
  CopiesPresent /\ \A p \in Proposals : proposals[p].status = "absent" => trail[p] = <<>>

\* What a commit does to the tables.
LEMMA CommitEffect ==
  ASSUME TypeOK, NEW c \in Clients, sessions[c] # None,
         NEW after \in Row, NEW events, Commit(c, after, events)
  PROVE  LET q == sessions[c].proposal
             copy == sessions[c].row
         IN  /\ q \in Proposals /\ copy \in Row /\ proposals[q] \in Row
             /\ trail[q] \in Seq(Entry) /\ trail'[q] = trail[q] \o events
             /\ \A p \in Proposals \ {q} :
                  proposals'[p] = proposals[p] /\ trail'[p] = trail[p]
             /\ sessions'[c] = None
             /\ \A d \in Clients \ {c} : sessions'[d] = sessions[d]
             /\ overwritten \subseteq overwritten'
             /\ q \notin overwritten' => proposals[q] = copy /\ proposals'[q] = after
             /\ proposals'[q].status =
                  IF after.status = copy.status THEN proposals[q].status ELSE after.status
             /\ proposals'[q].creator =
                  IF after.creator = copy.creator THEN proposals[q].creator ELSE after.creator
             /\ proposals'[q].approver =
                  IF after.approver = copy.approver THEN proposals[q].approver ELSE after.approver
<1> DEFINE q == sessions[c].proposal
           copy == sessions[c].row
<1>1. q \in Proposals /\ copy \in Row /\ proposals[q] \in Row /\ trail[q] \in Seq(Entry)
  BY DEF TypeOK, Session
<1>2. /\ proposals' = [proposals EXCEPT ![q] = Flushed(proposals[q], copy, after)]
      /\ trail' = [trail EXCEPT ![q] = trail[q] \o events]
      /\ sessions' = [sessions EXCEPT ![c] = None]
      /\ overwritten' = IF proposals[q] = copy THEN overwritten ELSE overwritten \cup {q}
  BY DEF Commit
<1> HIDE DEF q, copy
<1>3. /\ trail'[q] = trail[q] \o events /\ proposals'[q] = Flushed(proposals[q], copy, after)
      /\ \A p \in Proposals \ {q} : proposals'[p] = proposals[p] /\ trail'[p] = trail[p]
      /\ sessions'[c] = None /\ \A d \in Clients \ {c} : sessions'[d] = sessions[d]
      /\ overwritten \subseteq overwritten'
  BY <1>1, <1>2 DEF TypeOK
<1>4. \A column \in {"status", "creator", "approver"} :
        proposals'[q][column] =
          IF after[column] = copy[column] THEN proposals[q][column] ELSE after[column]
  BY <1>1, <1>3 DEF Flushed, Row
<1>5. ASSUME q \notin overwritten' PROVE proposals[q] = copy /\ proposals'[q] = after
  <2>1. proposals[q] = copy
    BY <1>2, <1>5
  <2>2. Flushed(copy, copy, after) = after
    BY <1>1 DEF Flushed, Row
  <2> QED BY <1>3, <2>1, <2>2
<1>6. /\ proposals'[q].status =
           IF after.status = copy.status THEN proposals[q].status ELSE after.status
      /\ proposals'[q].creator =
           IF after.creator = copy.creator THEN proposals[q].creator ELSE after.creator
      /\ proposals'[q].approver =
           IF after.approver = copy.approver THEN proposals[q].approver ELSE after.approver
  BY <1>4
<1> QED BY <1>1, <1>3, <1>5, <1>6 DEF q, copy

LEMMA NextPresentInv ==
  ASSUME TypeOK, PresentInv, [Next]_vars
  PROVE  PresentInv'
<1>1. ASSUME NEW p \in Proposals, NEW user \in Users, NEW risk \in Risks, CreateProposal(p, user, risk)
      PROVE  PresentInv'
  <2>1. /\ proposals[p].status = "absent" /\ proposals'[p].status = "proposed"
        /\ \A q \in Proposals \ {p} : proposals'[q] = proposals[q] /\ trail'[q] = trail[q]
        /\ sessions' = sessions
    BY <1>1 DEF CreateProposal, AbsentRow, TypeOK
  <2>2. \A c \in Clients : sessions[c] # None =>
          sessions[c].proposal \in Proposals /\ sessions[c].proposal # p
    BY <2>1 DEF PresentInv, CopiesPresent, TypeOK, Session
  <2> QED BY <2>1, <2>2 DEF PresentInv, CopiesPresent
<1>2. ASSUME NEW c \in Clients, NEW p \in Proposals, NEW user \in Users, LoadProposal(c, p, user)
      PROVE  PresentInv'
  <2>1. /\ proposals' = proposals /\ trail' = trail /\ proposals[p].status # "absent"
        /\ sessions'[c] = [proposal |-> p, user |-> user, row |-> proposals[p]]
        /\ \A d \in Clients \ {c} : sessions'[d] = sessions[d]
    BY <1>2 DEF LoadProposal, TypeOK
  <2> QED BY <2>1 DEF PresentInv, CopiesPresent
<1>3. ASSUME NEW c \in Clients, Answer(c) PROVE PresentInv'
  BY <1>3 DEF Answer, TypeOK, PresentInv, CopiesPresent
<1>4. ASSUME NEW c \in Clients, NEW after \in Row, NEW events, Outcome(c, after, events)
      PROVE  PresentInv'
  <2> DEFINE q == sessions[c].proposal
             copy == sessions[c].row
  <2>1. /\ q \in Proposals
        /\ \A p \in Proposals \ {q} : proposals'[p] = proposals[p] /\ trail'[p] = trail[p]
        /\ sessions'[c] = None
        /\ \A d \in Clients \ {c} : sessions'[d] = sessions[d]
        /\ proposals'[q].status =
             IF after.status = copy.status THEN proposals[q].status ELSE after.status
        /\ proposals'[q].creator =
             IF after.creator = copy.creator THEN proposals[q].creator ELSE after.creator
    BY <1>4, CommitEffect DEF Outcome
  <2>2. proposals'[q].status # "absent" /\ proposals'[q].creator = proposals[q].creator
    BY <1>4, <2>1 DEF Outcome, PresentInv, CopiesPresent
  <2> HIDE DEF q, copy
  <2>3. \A d \in Clients : sessions[d] # None => sessions[d].proposal \in Proposals
    BY DEF TypeOK, Session
  <2>4. CopiesPresent'
    BY <2>1, <2>2, <2>3 DEF PresentInv, CopiesPresent
  <2> QED BY <2>1, <2>2, <2>4 DEF PresentInv
<1>5. CASE UNCHANGED vars
  BY <1>5 DEF vars, PresentInv, CopiesPresent
<1> QED BY <1>1, <1>2, <1>3, <1>4, <1>5, StepOutcomes

LEMMA CopiesArePresent == Spec => []PresentInv
<1>1. Init => PresentInv
  BY DEF Init, PresentInv, CopiesPresent
<1> QED BY <1>1, NextPresentInv, RowsTyped, PTL DEF Spec

-----------------------------------------------------------------------------
(* What the approver of a proposal stands for.                             *)

\* The approver has made the decision, on a proposal not his own and with the
\* role that the risk of the decision asks for.
MadeBy(row, decision) ==
  /\ decision.made = "approved" /\ decision.reviewer = row.approver
  /\ row.approver # row.creator
  /\ decision.risk = "elevated" => row.approver \in Admins

HasApproved(row, list) ==
  row.approver # None => \E n \in DOMAIN list : MadeBy(row, list[n])

\* It is about the version the proposal is in, at the risk it shows; or it was
\* followed by a rejection of that version.
Stands(row, list) ==
  row.approver # None =>
    \E n \in DOMAIN list :
      /\ MadeBy(row, list[n]) /\ list[n].version = row.version
      /\ \/ row.status = "approved" /\ row.risk = list[n].risk
         \/ /\ row.status = "rejected"
            /\ \E m \in DOMAIN list :
                 m > n /\ list[m].made = "rejected" /\ list[m].version = row.version

ApprovalInv ==
  \A p \in Proposals :
    /\ HasApproved(proposals[p], decisions[p])
    /\ p \notin overwritten => Stands(proposals[p], decisions[p])

Extends(list, longer) ==
  \A n \in DOMAIN list : n \in DOMAIN longer /\ longer[n] = list[n]

LEMMA StandsLonger ==
  ASSUME NEW row, NEW list, NEW longer, Extends(list, longer)
  PROVE  /\ HasApproved(row, list) => HasApproved(row, longer)
         /\ Stands(row, list) => Stands(row, longer)
<1>1. HasApproved(row, list) => HasApproved(row, longer)
  BY DEF HasApproved, Extends
<1>2. Stands(row, list) => Stands(row, longer)
  BY DEF Stands, Extends
<1> QED BY <1>1, <1>2

LEMMA RecordExtends ==
  ASSUME TypeOK, NEW c \in Clients, sessions[c] # None, NEW made, Record(c, made)
  PROVE  /\ \A p \in Proposals : Extends(decisions[p], decisions'[p])
         /\ \E last \in DOMAIN decisions'[sessions[c].proposal] :
              /\ decisions'[sessions[c].proposal][last] =
                   [made |-> made, version |-> sessions[c].row.version,
                    reviewer |-> sessions[c].user, risk |-> sessions[c].row.risk]
              /\ \A n \in DOMAIN decisions[sessions[c].proposal] : last > n
<1> DEFINE q == sessions[c].proposal
           d == [made |-> made, version |-> sessions[c].row.version,
                 reviewer |-> sessions[c].user, risk |-> sessions[c].row.risk]
<1>1. q \in Proposals
  BY DEF TypeOK, Session
<1>2. decisions' = [decisions EXCEPT ![q] = Append(decisions[q], d)]
  BY DEF Record
<1>3. decisions[q] \in Seq(Decision)
  BY <1>1 DEF TypeOK
<1> HIDE DEF q, d
<1>4. decisions'[q] = Append(decisions[q], d) /\ \A p \in Proposals \ {q} : decisions'[p] = decisions[p]
  BY <1>1, <1>2 DEF TypeOK
<1>5. Extends(decisions[q], decisions'[q])
  BY <1>3, <1>4 DEF Extends
<1>6. \A p \in Proposals : Extends(decisions[p], decisions'[p])
  BY <1>4, <1>5 DEF Extends
<1> DEFINE last == Len(decisions[q]) + 1
<1>7. /\ last \in DOMAIN decisions'[q] /\ decisions'[q][last] = d
      /\ \A n \in DOMAIN decisions[q] : last > n
  BY <1>3, <1>4
<1> HIDE DEF last
<1> QED BY <1>6, <1>7 DEF q, d

LEMMA CommitStands ==
  ASSUME TypeOK, PresentInv, ApprovalInv, NEW c \in Clients,
         NEW after \in Row, NEW events, Outcome(c, after, events),
         \A p \in Proposals : Extends(decisions[p], decisions'[p]),
         \/ after.approver = sessions[c].row.approver
         \/ HasApproved(after, decisions'[sessions[c].proposal]),
         Stands(sessions[c].row, decisions[sessions[c].proposal])
           => Stands(after, decisions'[sessions[c].proposal])
  PROVE  ApprovalInv'
<1> DEFINE q == sessions[c].proposal
           copy == sessions[c].row
<1>1. /\ q \in Proposals
      /\ \A p \in Proposals \ {q} : proposals'[p] = proposals[p]
      /\ overwritten \subseteq overwritten'
      /\ q \notin overwritten' => proposals[q] = copy /\ proposals'[q] = after
      /\ proposals'[q].creator =
           IF after.creator = copy.creator THEN proposals[q].creator ELSE after.creator
      /\ proposals'[q].approver =
           IF after.approver = copy.approver THEN proposals[q].approver ELSE after.approver
  BY CommitEffect DEF Outcome
<1>2. after.creator = copy.creator /\ copy.creator = proposals[q].creator
  BY DEF Outcome, PresentInv, CopiesPresent
<1>3. after.approver = copy.approver \/ HasApproved(after, decisions'[q])
  OBVIOUS
<1>4. Stands(copy, decisions[q]) => Stands(after, decisions'[q])
  OBVIOUS
<1> HIDE DEF q, copy
<1>5. \A p \in Proposals : /\ HasApproved(proposals[p], decisions'[p])
                           /\ p \notin overwritten => Stands(proposals[p], decisions'[p])
  BY StandsLonger DEF ApprovalInv
<1>6. HasApproved(proposals'[q], decisions'[q])
  <2>1. CASE after.approver = copy.approver
    BY <1>1, <1>2, <1>5, <2>1 DEF HasApproved, MadeBy
  <2>2. CASE after.approver # copy.approver
    BY <1>1, <1>2, <1>3, <2>2 DEF HasApproved, MadeBy
  <2> QED BY <2>1, <2>2
<1>7. q \notin overwritten' => Stands(proposals'[q], decisions'[q])
  BY <1>1, <1>4 DEF ApprovalInv
<1> QED BY <1>1, <1>5, <1>6, <1>7 DEF ApprovalInv

LEMMA NextApprovalInv ==
  ASSUME TypeOK, PresentInv, ApprovalInv, [Next]_vars
  PROVE  ApprovalInv'
<1>0. \A p \in Proposals : Extends(decisions[p], decisions[p])
  BY DEF Extends
<1>1. ASSUME NEW p \in Proposals, NEW user \in Users, NEW risk \in Risks, CreateProposal(p, user, risk)
      PROVE  ApprovalInv'
  <2>1. proposals'[p].approver = None /\ \A q \in Proposals \ {p} : proposals'[q] = proposals[q]
    BY <1>1 DEF CreateProposal, AbsentRow, TypeOK
  <2>2. UNCHANGED <<decisions, overwritten>>
    BY <1>1 DEF CreateProposal
  <2>3. HasApproved(proposals'[p], decisions'[p]) /\ Stands(proposals'[p], decisions'[p])
    BY <2>1 DEF HasApproved, Stands
  <2> QED BY <2>1, <2>2, <2>3 DEF ApprovalInv
<1>2. CASE UNCHANGED <<proposals, decisions, overwritten>>
  BY <1>2 DEF ApprovalInv
<1>3. ASSUME NEW c \in Clients, NEW target \in Statuses, TransitionStatus(c, target)
      PROVE  ApprovalInv'
  <2> DEFINE row == sessions[c].row
             after == TransitionedRow(row, target)
             events == TransitionEvents(row, after)
  <2>1. /\ row \in Row /\ after \in Row /\ row.status # "rejected" /\ Outcome(c, after, events)
        /\ UNCHANGED decisions
    BY <1>3, TransitionOutcome DEF TransitionStatus
  <2>2. after.approver = IF row.status = "approved" THEN None ELSE row.approver
    BY <2>1 DEF TransitionedRow, Row
  <2> HIDE DEF after, events
  <2>3. after.approver = row.approver \/ HasApproved(after, decisions'[sessions[c].proposal])
    BY <2>2 DEF HasApproved
  <2>4. \A list : Stands(row, list) => Stands(after, list)
    BY <2>1, <2>2 DEF Stands
  <2> QED BY <1>0, <2>1, <2>3, <2>4, CommitStands
<1>4. ASSUME NEW c \in Clients, NEW risk \in Risks, RecalculateRisk(c, risk)
      PROVE  ApprovalInv'
  <2> DEFINE row == sessions[c].row
             after == RecalculatedRow(row, risk)
             events == IF row.status = "approved" THEN <<Invalidation(row, after)>> ELSE <<>>
  <2>1. row \in Row /\ after \in Row /\ Outcome(c, after, events) /\ UNCHANGED decisions
    BY <1>4, RecalculationOutcome DEF RecalculateRisk
  <2>2. /\ after.approver = IF row.status = "approved" THEN None ELSE row.approver
        /\ row.status # "approved" =>
             after.status = row.status /\ after.creator = row.creator /\ after.version = row.version
    BY <2>1 DEF RecalculatedRow, Row
  <2> HIDE DEF after, events
  <2>3. after.approver = row.approver \/ HasApproved(after, decisions'[sessions[c].proposal])
    BY <2>2 DEF HasApproved
  <2>4. ASSUME NEW list, Stands(row, list) PROVE Stands(after, list)
    <3>1. CASE row.status = "approved"
      BY <2>2, <3>1 DEF Stands
    <3>2. CASE row.status # "approved"
      BY <2>2, <2>4, <3>2 DEF Stands, MadeBy
    <3> QED BY <3>1, <3>2
  <2> QED BY <1>0, <2>1, <2>3, <2>4, CommitStands
<1>5. ASSUME NEW c \in Clients, ApproveProposal(c) PROVE ApprovalInv'
  <2> DEFINE row == sessions[c].row
             after == ApprovedRow(row, sessions[c].user)
             events == <<StatusEntry(row, after)>>
             list == decisions'[sessions[c].proposal]
  <2>1. row \in Row /\ after \in Row /\ Outcome(c, after, events)
    BY <1>5, ApprovalOutcome
  <2>2. sessions[c] # None /\ MayApprove(sessions[c].user, row) /\ Record(c, "approved")
    BY <1>5 DEF ApproveProposal
  <2>3. /\ after.status = "approved" /\ after.approver = sessions[c].user
        /\ after.version = row.version /\ after.risk = row.risk /\ after.creator = row.creator
    BY <2>1 DEF ApprovedRow, Row
  <2>4. \A p \in Proposals : Extends(decisions[p], decisions'[p])
    BY <2>2, RecordExtends
  <2>5. PICK last \in DOMAIN list :
          list[last] = [made |-> "approved", version |-> row.version,
                        reviewer |-> sessions[c].user, risk |-> row.risk]
    BY <2>2, RecordExtends
  <2> HIDE DEF after, events, list
  <2>6. MadeBy(after, list[last]) /\ list[last].version = after.version /\ after.risk = list[last].risk
    BY <2>2, <2>3, <2>5 DEF MadeBy, MayApprove
  <2>7. HasApproved(after, list) /\ Stands(after, list)
    BY <2>3, <2>6 DEF HasApproved, Stands
  <2> QED BY <2>1, <2>4, <2>7, CommitStands DEF list
<1>6. ASSUME NEW c \in Clients, RejectProposal(c) PROVE ApprovalInv'
  <2> DEFINE row == sessions[c].row
             after == RejectedRow(row)
             events == <<StatusEntry(row, after)>>
             before == decisions[sessions[c].proposal]
             list == decisions'[sessions[c].proposal]
  <2>1. row \in Row /\ after \in Row /\ Outcome(c, after, events)
    BY <1>6, RejectionOutcome
  <2>2. sessions[c] # None /\ row.status # "rejected" /\ Record(c, "rejected")
    BY <1>6 DEF RejectProposal, Final
  <2>3. /\ after.status = "rejected" /\ after.approver = row.approver
        /\ after.version = row.version /\ after.creator = row.creator
    BY <2>1 DEF RejectedRow, Row
  <2>4. \A p \in Proposals : Extends(decisions[p], decisions'[p])
    BY <2>2, RecordExtends
  <2>5. PICK last \in DOMAIN list :
          /\ list[last] = [made |-> "rejected", version |-> row.version,
                           reviewer |-> sessions[c].user, risk |-> row.risk]
          /\ \A n \in DOMAIN before : last > n
    BY <2>2, RecordExtends
  <2>6. Extends(before, list)
    BY <2>2, <2>4 DEF TypeOK, Session
  <2> HIDE DEF row, after, events, before, list
  <2>7. ASSUME Stands(row, before), after.approver # None PROVE Stands(after, list)
    <3>1. PICK n \in DOMAIN before : MadeBy(row, before[n]) /\ before[n].version = row.version
      BY <2>3, <2>7 DEF Stands
    <3>2. n \in DOMAIN list /\ list[n] = before[n] /\ last > n
      BY <2>5, <2>6, <3>1 DEF Extends
    <3>3. MadeBy(after, list[n]) /\ list[n].version = after.version
      BY <2>3, <3>1, <3>2 DEF MadeBy
    <3>4. list[last].made = "rejected" /\ list[last].version = after.version
      BY <2>3, <2>5
    <3> QED BY <2>3, <2>5, <3>2, <3>3, <3>4 DEF Stands
  <2>8. Stands(row, before) => Stands(after, list)
    BY <2>7 DEF Stands
  <2> QED BY <2>1, <2>3, <2>4, <2>8, CommitStands DEF row, before, list
<1> QED BY <1>1, <1>2, <1>3, <1>4, <1>5, <1>6 DEF Next, vars, LoadProposal, Answer

\* The approver a proposal names has approved it, may do so, and did not create
\* it, whatever requests overwrite; and while none has overwritten it, the
\* approval is of the version and the risk the proposal is in, or was followed
\* by a rejection of that version.
THEOREM ApprovalStands == Spec => []StandingApproval
<1>1. Init => ApprovalInv
  BY DEF Init, ApprovalInv, HasApproved, Stands, AbsentRow
<1>2. TypeOK /\ PresentInv /\ ApprovalInv /\ [Next]_vars => ApprovalInv'
  BY NextApprovalInv
<1>3. TypeOK /\ ApprovalInv => StandingApproval
  <2> SUFFICES ASSUME TypeOK, ApprovalInv, NEW p \in Proposals, proposals[p].approver # None
               PROVE  \E n \in DOMAIN decisions[p] :
                 LET row == proposals[p]
                     decision == decisions[p][n]
                 IN /\ decision.made = "approved" /\ decision.reviewer = row.approver
                    /\ MayApprove(row.approver, [row EXCEPT !.status = "reviewed", !.risk = decision.risk])
                    /\ p \notin overwritten =>
                         /\ decision.version = row.version
                         /\ \/ row.status = "approved" /\ row.risk = decision.risk
                            \/ /\ row.status = "rejected"
                               /\ \E m \in DOMAIN decisions[p] :
                                    /\ m > n /\ decisions[p][m].made = "rejected"
                                    /\ decisions[p][m].version = row.version
    BY DEF StandingApproval
  <2>1. ASSUME NEW n \in DOMAIN decisions[p], MadeBy(proposals[p], decisions[p][n])
        PROVE  MayApprove(proposals[p].approver,
                          [proposals[p] EXCEPT !.status = "reviewed", !.risk = decisions[p][n].risk])
    <3> DEFINE row == proposals[p]
               seen == [row EXCEPT !.status = "reviewed", !.risk = decisions[p][n].risk]
    <3>1. row \in Row
      BY DEF TypeOK
    <3>2. seen.status = "reviewed" /\ seen.risk = decisions[p][n].risk /\ seen.creator = row.creator
      BY <3>1 DEF Row
    <3> HIDE DEF seen
    <3> QED BY <2>1, <3>2 DEF MadeBy, MayApprove
  <2>2. CASE p \in overwritten
    BY <2>1, <2>2 DEF ApprovalInv, HasApproved, MadeBy
  <2>3. CASE p \notin overwritten
    <3>1. PICK n \in DOMAIN decisions[p] :
            /\ MadeBy(proposals[p], decisions[p][n]) /\ decisions[p][n].version = proposals[p].version
            /\ \/ proposals[p].status = "approved" /\ proposals[p].risk = decisions[p][n].risk
               \/ /\ proposals[p].status = "rejected"
                  /\ \E m \in DOMAIN decisions[p] :
                       /\ m > n /\ decisions[p][m].made = "rejected"
                       /\ decisions[p][m].version = proposals[p].version
      BY <2>3 DEF ApprovalInv, Stands
    <3> QED BY <2>1, <3>1 DEF MadeBy
  <2> QED BY <2>2, <2>3
<1> QED BY <1>1, <1>2, <1>3, RowsTyped, CopiesArePresent, PTL DEF Spec

-----------------------------------------------------------------------------
(* What the audit trail tells.                                             *)

Chained(list) == \A n \in 2..Len(list) : Follows(list[n], list[n - 1])

EndsIn(list, row) ==
  list # <<>> => list[Len(list)].to = row.status /\ list[Len(list)].version = row.version

LEMMA AppendChain ==
  ASSUME NEW list \in Seq(Entry), NEW entry \in Entry, Chained(list),
         list # <<>> => Follows(entry, list[Len(list)])
  PROVE  Chained(Append(list, entry))
<1> DEFINE longer == Append(list, entry)
<1>1. /\ Len(longer) = Len(list) + 1 /\ Len(list) \in Nat /\ longer[Len(list) + 1] = entry
      /\ \A n \in 1..Len(list) : longer[n] = list[n]
  OBVIOUS
<1> HIDE DEF longer
<1> SUFFICES ASSUME NEW n \in 2..Len(longer) PROVE Follows(longer[n], longer[n - 1])
  BY DEF Chained, longer
<1>2. CASE n = Len(list) + 1
  <2>1. list # <<>> /\ n - 1 = Len(list) /\ n - 1 \in 1..Len(list)
    BY <1>1, <1>2
  <2> QED BY <1>1, <1>2, <2>1
<1>3. CASE n # Len(list) + 1
  <2>1. n \in 2..Len(list) /\ n \in 1..Len(list) /\ n - 1 \in 1..Len(list)
    BY <1>1, <1>3
  <2> QED BY <1>1, <2>1 DEF Chained
<1> QED BY <1>2, <1>3

\* The last entry of a trail that grew by the events of a commit.
LEMMA GrownTrail ==
  ASSUME NEW list \in Seq(Entry), NEW row \in Row, NEW after \in Row,
         NEW events, Recorded(row, after, events)
  PROVE  /\ events = <<>> => list \o events = list
         /\ events # <<>> =>
              LET longer == list \o events
              IN  /\ longer # <<>> /\ longer[Len(longer)].to = after.status
                  /\ longer[Len(longer)].version = after.version
         /\ Chained(list) /\ EndsIn(list, row) => Chained(list \o events)
<1> DEFINE entry == StatusEntry(row, after)
           inval == Invalidation(row, after)
<1>1. /\ entry \in Entry /\ entry.from = row.status /\ entry.to = after.status
      /\ entry.version = after.version /\ entry.invalidates = FALSE
      /\ inval \in Entry /\ inval.from = row.status /\ inval.to = after.status
      /\ inval.version = after.version /\ inval.invalidates = TRUE
  BY EntryOfRows DEF StatusEntry, Invalidation
<1>2. entry = [inval EXCEPT !.invalidates = FALSE]
  <2>1. entry \in Entry /\ inval = [entry EXCEPT !.invalidates = TRUE] /\ entry.invalidates = FALSE
    BY <1>1 DEF Invalidation
  <2> HIDE DEF entry, inval
  <2> QED BY <2>1 DEF Entry
<1>3. \/ events = <<>> /\ after.status = row.status /\ after.version = row.version
      \/ /\ events = <<entry>> /\ after.version = row.version /\ after.status # row.status
         /\ row.status = "approved" => after.status = "rejected"
      \/ /\ events \in {<<inval>>, <<inval, entry>>}
         /\ row.status = "approved" /\ after.version = row.version + 1
         /\ after.status \notin {"approved", "rejected"}
  BY DEF Recorded
<1> HIDE DEF entry, inval
<1>4. CASE events = <<>>
  BY <1>4
<1>5. CASE events = <<entry>>
  <2>1. /\ list \o events = Append(list, entry)
        /\ Append(list, entry) # <<>>
        /\ Append(list, entry)[Len(Append(list, entry))] = entry
    BY <1>1, <1>5, AppendProperties, AppendIsConcat
  <2>2. EndsIn(list, row) /\ list # <<>> => Follows(entry, list[Len(list)])
    <3>1. \/ row.status # "approved" /\ after.version = row.version
          \/ row.status = "approved" /\ after.status = "rejected" /\ after.version = row.version
      <4>1. events # <<inval>> /\ events # <<inval, entry>> /\ events # <<>>
        BY <1>1, <1>5
      <4> QED BY <1>3, <4>1
    <3>2. row.version \in Nat
      BY DEF Row
    <3> QED BY <1>1, <3>1, <3>2 DEF EndsIn, Follows
  <2>3. Chained(list) /\ EndsIn(list, row) => Chained(Append(list, entry))
    <3>1. CASE list = <<>>
      BY <1>1, <3>1, AppendChain
    <3> QED BY <1>1, <2>2, <3>1, AppendChain
  <2> QED BY <1>1, <1>5, <2>1, <2>3
<1>6. CASE events \in {<<inval>>, <<inval, entry>>} /\ events # <<>> /\ events # <<entry>>
  <2> DEFINE longer == Append(list, inval)
  <2>1. /\ row.status = "approved" /\ after.version = row.version + 1
        /\ after.status \notin {"approved", "rejected"}
    BY <1>3, <1>6
  <2>2. longer \in Seq(Entry) /\ longer # <<>> /\ longer[Len(longer)] = inval
    BY <1>1
  <2>3. EndsIn(list, row) /\ list # <<>> => Follows(inval, list[Len(list)])
    BY <1>1, <2>1 DEF EndsIn, Follows
  <2>4. Chained(list) /\ EndsIn(list, row) => Chained(longer)
    BY <1>1, <2>3, AppendChain
  <2>5. Follows(entry, longer[Len(longer)])
    BY <1>1, <1>2, <2>2 DEF Follows
  <2> HIDE DEF longer
  <2>6. Chained(longer) => Chained(Append(longer, entry))
    BY <1>1, <2>2, <2>5, AppendChain
  <2>7. CASE events = <<inval>>
    <3>1. list \o events = longer
      BY <1>1, <2>7 DEF longer
    <3> QED BY <1>1, <1>6, <2>2, <2>4, <3>1
  <2>8. CASE events = <<inval, entry>>
    <3>1. list \o events = Append(longer, entry)
      BY <1>1, <2>8 DEF longer
    <3>2. Append(longer, entry) # <<>> /\ Append(longer, entry)[Len(Append(longer, entry))] = entry
      BY <1>1, <2>2
    <3> QED BY <1>1, <1>6, <2>4, <2>6, <3>1, <3>2
  <2> QED BY <1>6, <2>7, <2>8
<1> QED BY <1>3, <1>4, <1>5, <1>6

\* Of one proposal: the row, its trail, and whether it was overwritten.
Tells(row, list, lost) ==
  /\ list # <<>> => list[Len(list)].to = row.status
  /\ ~lost => Chained(list) /\ EndsIn(list, row)

TrailInv == \A p \in Proposals : Tells(proposals[p], trail[p], p \in overwritten)

LEMMA CommitTells ==
  ASSUME TypeOK, TrailInv, NEW c \in Clients,
         NEW after \in Row, NEW events, Outcome(c, after, events)
  PROVE  TrailInv'
<1> DEFINE q == sessions[c].proposal
           copy == sessions[c].row
<1>1. /\ q \in Proposals /\ copy \in Row /\ trail[q] \in Seq(Entry)
      /\ trail'[q] = trail[q] \o events
      /\ \A p \in Proposals \ {q} : proposals'[p] = proposals[p] /\ trail'[p] = trail[p]
      /\ overwritten \subseteq overwritten'
      /\ q \notin overwritten' => proposals[q] = copy /\ proposals'[q] = after
      /\ proposals'[q].status =
           IF after.status = copy.status THEN proposals[q].status ELSE after.status
  BY CommitEffect DEF Outcome
<1>2. Recorded(copy, after, events)
  BY DEF Outcome
<1> HIDE DEF q, copy
<1>3. \A p \in Proposals \ {q} : Tells(proposals[p], trail[p], p \in overwritten')
  BY <1>1 DEF TrailInv, Tells
<1>4. /\ trail[q] # <<>> => trail[q][Len(trail[q])].to = proposals[q].status
      /\ q \notin overwritten' => Chained(trail[q]) /\ EndsIn(trail[q], copy)
  BY <1>1 DEF TrailInv, Tells
<1>5. /\ events = <<>> => trail'[q] = trail[q]
      /\ events # <<>> => /\ trail'[q] # <<>> /\ trail'[q][Len(trail'[q])].to = after.status
                          /\ trail'[q][Len(trail'[q])].version = after.version
      /\ Chained(trail[q]) /\ EndsIn(trail[q], copy) => Chained(trail'[q])
  BY <1>1, <1>2, GrownTrail
<1>6. /\ events = <<>> => after.status = copy.status /\ after.version = copy.version
      /\ events # <<>> => after.status # copy.status
  BY <1>2 DEF Recorded
<1>7. trail'[q] # <<>> => trail'[q][Len(trail'[q])].to = proposals'[q].status
  <2>1. CASE events = <<>>
    BY <1>1, <1>4, <1>5, <1>6, <2>1
  <2>2. CASE events # <<>>
    BY <1>1, <1>5, <1>6, <2>2
  <2> QED BY <2>1, <2>2
<1>8. ASSUME q \notin overwritten' PROVE Chained(trail'[q]) /\ EndsIn(trail'[q], proposals'[q])
  <2>1. CASE events = <<>>
    BY <1>1, <1>4, <1>5, <1>6, <1>8, <2>1 DEF EndsIn
  <2>2. CASE events # <<>>
    BY <1>1, <1>4, <1>5, <1>8, <2>2 DEF EndsIn
  <2> QED BY <2>1, <2>2
<1>9. Tells(proposals'[q], trail'[q], q \in overwritten')
  BY <1>7, <1>8 DEF Tells
<1> QED BY <1>1, <1>3, <1>9 DEF TrailInv

\* The audit trail ends with the status of the proposal although commits mix
\* columns; and unless a request wrote from an outdated copy, every approval
\* that was given up and every new version has the event that says so, and each
\* event starts where the one before it led to.
THEOREM TrailTells == Spec => []TrailTellsStatus
<1>1. Init => TrailInv
  <2> SUFFICES ASSUME Init, NEW p \in Proposals PROVE Tells(proposals[p], trail[p], p \in overwritten)
    BY DEF TrailInv
  <2>1. trail[p] = <<>>
    BY DEF Init
  <2> QED BY <2>1 DEF Tells, Chained, EndsIn
<1>2. ASSUME TypeOK, PresentInv, TrailInv, [Next]_vars PROVE TrailInv'
  <2>1. ASSUME NEW p \in Proposals, NEW user \in Users, NEW risk \in Risks, CreateProposal(p, user, risk)
        PROVE  TrailInv'
    <3> DEFINE row == [AbsentRow EXCEPT !.status = "proposed", !.creator = user, !.risk = risk]
               entry == StatusEntry(AbsentRow, row)
    <3>1. entry.to = "proposed" /\ entry.version = 1 /\ row.status = "proposed" /\ row.version = 1
      BY DEF StatusEntry, AbsentRow
    <3>2. /\ proposals[p].status = "absent"
          /\ proposals'[p] = row /\ trail'[p] = Append(trail[p], entry)
          /\ \A q \in Proposals \ {p} : proposals'[q] = proposals[q] /\ trail'[q] = trail[q]
          /\ overwritten' = overwritten
      BY <1>2, <2>1 DEF CreateProposal, TypeOK
    <3> HIDE DEF row, entry
    <3>3. trail'[p] = <<entry>>
      <4>1. trail[p] = <<>>
        BY <1>2, <3>2 DEF PresentInv
      <4> QED BY <3>2, <4>1
    <3>4. Tells(proposals'[p], trail'[p], p \in overwritten')
      BY <3>1, <3>2, <3>3 DEF Tells, Chained, EndsIn
    <3> QED BY <1>2, <3>2, <3>4 DEF TrailInv
  <2>2. CASE UNCHANGED <<proposals, trail, overwritten>>
    BY <1>2, <2>2 DEF TrailInv
  <2>3. ASSUME NEW c \in Clients, NEW after \in Row, NEW events, Outcome(c, after, events)
        PROVE  TrailInv'
    BY <1>2, <2>3, CommitTells
  <2> QED BY <1>2, <2>1, <2>2, <2>3, StepOutcomes DEF vars, LoadProposal, Answer
<1>3. TrailInv => TrailTellsStatus
  BY DEF TrailInv, Tells, Chained, EndsIn, TrailTellsStatus
<1> QED BY <1>1, <1>2, <1>3, RowsTyped, CopiesArePresent, PTL DEF Spec

-----------------------------------------------------------------------------
(* The page: a decision is offered on what the server will accept.         *)

\* What the policy asks of a decision, for a proposal as it was seen.
Entitled(decision, p, seen) ==
  /\ seen \in Page!Open
  /\ decision = "approve" => p \notin Own /\ (seen = "elevated" => Role \in {"ADMIN", "OWNER"})

\* A request is a record of these fields, whatever their values.
Request(values) ==
  [proposal : values, decision : values, step : values, awaited : values, opened : values,
   seen : values, found : values]
IsRequest(r) == \E values : r \in Request(values)

RefusedForAReason(r) == r.step = "refused" /\ r.proposal = r.opened => r.found # r.seen

\* A dialog is open on what was offered, and a decision carries it along.
DialogOffered == dialog = Page!Closed \/ Entitled(dialog.decision, dialog.proposal, dialog.seen)
SentOffered ==
  \A r \in sent : /\ IsRequest(r) /\ Entitled(r.decision, r.opened, r.seen)
                  /\ RefusedForAReason(r)

OfferInv == DialogOffered /\ SentOffered

LEMMA InitOfferInv == Page!Init => OfferInv
BY DEF Page!Init, OfferInv, DialogOffered, SentOffered

\* A request is marked by what becomes of it; what was offered stays.
SameOffer(s, r) ==
  /\ s.proposal = r.proposal /\ s.opened = r.opened
  /\ s.decision = r.decision /\ s.seen = r.seen

LEMMA Marked ==
  ASSUME NEW r, IsRequest(r), NEW step, NEW found
  PROVE  LET s == [r EXCEPT !.step = step, !.found = found]
         IN  IsRequest(s) /\ s.step = step /\ s.found = found /\ SameOffer(s, r)
<1>1. PICK values : r \in Request(values)
  BY Zenon DEF IsRequest
<1> DEFINE more == values \cup {step, found}
<1>2. r \in Request(more) /\ step \in more /\ found \in more
  BY <1>1 DEF Request
<1> HIDE DEF more
<1>3. LET s == [r EXCEPT !.step = step, !.found = found]
      IN  s \in Request(more) /\ s.step = step /\ s.found = found /\ SameOffer(s, r)
  BY <1>2 DEF Request, SameOffer
<1> QED BY <1>3, Zenon DEF IsRequest

LEMMA Orphan ==
  ASSUME NEW r, IsRequest(r)
  PROVE  LET s == [r EXCEPT !.awaited = FALSE]
         IN  IsRequest(s) /\ s.step = r.step /\ s.found = r.found /\ SameOffer(s, r)
<1>1. PICK values : r \in Request(values)
  BY Zenon DEF IsRequest
<1> DEFINE more == values \cup {FALSE}
<1>2. r \in Request(more) /\ FALSE \in more
  BY <1>1 DEF Request
<1> HIDE DEF more
<1>3. LET s == [r EXCEPT !.awaited = FALSE]
      IN  s \in Request(more) /\ s.step = r.step /\ s.found = r.found /\ SameOffer(s, r)
  BY <1>2 DEF Request, SameOffer
<1> QED BY <1>3, Zenon DEF IsRequest

LEMMA DecideStep ==
  ASSUME OfferInv, NEW r \in sent, Page!Decide(r)
  PROVE  OfferInv'
<1> DEFINE row == rows[r.proposal]
           accepted == Page!Accepts(r.decision, r.proposal)
           step == IF accepted THEN "accepted" ELSE "refused"
           s == [r EXCEPT !.step = step, !.found = row]
<1>1. IsRequest(r) /\ Entitled(r.decision, r.opened, r.seen)
  BY DEF OfferInv, SentOffered
<1>2. IsRequest(s) /\ s.step = step /\ s.found = row /\ SameOffer(s, r)
  <2> HIDE DEF row, step
  <2> QED BY <1>1, Marked
<1>3. sent' = (sent \ {r}) \cup {s} /\ dialog' = dialog
  BY Zenon DEF Page!Decide, Page!Become, Page!PageUnchanged
<1> HIDE DEF s
<1>4. RefusedForAReason(s)
  <2> SUFFICES ASSUME ~accepted, r.proposal = r.opened, row = r.seen PROVE FALSE
    BY <1>2 DEF RefusedForAReason, SameOffer
  <2> QED BY <1>1 DEF Page!Accepts, Entitled, Page!Open
<1>5. SentOffered'
  BY <1>1, <1>2, <1>3, <1>4 DEF OfferInv, SentOffered, SameOffer
<1>6. DialogOffered'
  BY <1>3 DEF OfferInv, DialogOffered
<1> QED BY <1>5, <1>6 DEF OfferInv

LEMMA ShowListStep ==
  ASSUME OfferInv, NEW n \in Page!Slots, Page!ShowList(n)
  PROVE  OfferInv'
<1> DEFINE list == lists[n].list
<1>1. dialog' = dialog \/ dialog' = Page!Closed
  BY DEF Page!ShowList, Page!Left
<1>2. \A s \in sent' : \E r \in sent : s = r \/ s = [r EXCEPT !.awaited = FALSE]
  <2>1. sent' = IF Page!On(list) = {} THEN {[r EXCEPT !.awaited = FALSE] : r \in sent} ELSE sent
    BY Zenon DEF Page!ShowList, Page!Orphaned
  <2> QED BY <2>1, Zenon
<1>3. SentOffered'
  <2> SUFFICES ASSUME NEW s \in sent'
               PROVE  /\ IsRequest(s) /\ Entitled(s.decision, s.opened, s.seen)
                      /\ RefusedForAReason(s)
    BY DEF SentOffered
  <2>1. PICK r \in sent : s = r \/ s = [r EXCEPT !.awaited = FALSE]
    BY <1>2, Zenon
  <2>2. IsRequest(r) /\ Entitled(r.decision, r.opened, r.seen) /\ RefusedForAReason(r)
    BY DEF OfferInv, SentOffered
  <2>3. IsRequest(s) /\ s.step = r.step /\ s.found = r.found /\ SameOffer(s, r)
    <3>1. CASE s = r
      BY <2>2, <3>1 DEF SameOffer
    <3>2. CASE s = [r EXCEPT !.awaited = FALSE]
      BY <2>2, <3>2, Orphan, Zenon
    <3> QED BY <2>1, <3>1, <3>2
  <2> QED BY <2>2, <2>3 DEF RefusedForAReason, SameOffer
<1>4. DialogOffered'
  BY <1>1 DEF OfferInv, DialogOffered
<1> QED BY <1>3, <1>4 DEF OfferInv

LEMMA NextOfferInv ==
  ASSUME OfferInv, [Page!Next]_(Page!vars)
  PROVE  OfferInv'
<1>1. ASSUME dialog' = dialog \/ dialog' = Page!Closed, sent' \subseteq sent PROVE OfferInv'
  BY <1>1 DEF OfferInv, DialogOffered, SentOffered
<1>2. ASSUME NEW n \in Page!Slots, Page!Refresh(n) \/ Page!AnswerList(n) \/ Page!ListFails(n) PROVE OfferInv'
  BY <1>1, <1>2 DEF Page!Refresh, Page!AnswerList, Page!ListFails, Page!PageUnchanged
<1>3. ASSUME NEW n \in Page!Slots, NEW wanted \in Filters, Page!SetFilter(n, wanted) PROVE OfferInv'
  BY <1>1, <1>3 DEF Page!SetFilter
<1>4. ASSUME NEW n \in Page!Slots, NEW p \in Shown, Page!Select(n, p) PROVE OfferInv'
  BY <1>1, <1>4 DEF Page!Select
<1>5. ASSUME NEW decision \in Page!Decisions, Page!OpenDialog(decision) PROVE OfferInv'
  <2>1. Entitled(decision, Page!Focus, listed[Page!Focus]) /\ sent' = sent
    BY <1>5 DEF Page!OpenDialog, Page!Offers, Page!HasRequiredRole, Entitled
  <2>2. dialog' = [proposal |-> Page!Focus, decision |-> decision, seen |-> listed[Page!Focus]]
    BY <1>5 DEF Page!OpenDialog
  <2> QED BY <2>1, <2>2 DEF OfferInv, DialogOffered, SentOffered
<1>6. CASE Page!CloseDialog
  BY <1>1, <1>6 DEF Page!CloseDialog
<1>7. CASE Page!Submit
  <2> DEFINE s == [proposal |-> Page!Focus, decision |-> dialog.decision, step |-> "asked",
                   awaited |-> TRUE, opened |-> dialog.proposal, seen |-> dialog.seen,
                   found |-> Page!NoRow]
  <2>1. sent' = sent \cup {s} /\ dialog' = dialog /\ dialog # Page!Closed
    BY <1>7 DEF Page!Submit, Page!PageUnchanged
  <2>2. /\ IsRequest(s) /\ s.step = "asked" /\ s.decision = dialog.decision
        /\ s.opened = dialog.proposal /\ s.seen = dialog.seen
    <3> DEFINE values == {Page!Focus, dialog.decision, "asked", TRUE, dialog.proposal, dialog.seen, Page!NoRow}
    <3>1. s \in Request(values)
      BY DEF Request
    <3> QED BY <3>1, Zenon DEF IsRequest
  <2> HIDE DEF s
  <2>3. Entitled(s.decision, s.opened, s.seen) /\ RefusedForAReason(s)
    BY <2>1, <2>2 DEF OfferInv, DialogOffered, RefusedForAReason
  <2> QED BY <2>1, <2>2, <2>3 DEF OfferInv, DialogOffered, SentOffered
<1>8. ASSUME NEW r \in sent, Page!ShowAccepted(r) \/ Page!ShowRefused(r) \/ Page!DecisionFails(r)
      PROVE  OfferInv'
  BY <1>1, <1>8 DEF Page!ShowAccepted, Page!ShowRefused, Page!DecisionFails, Page!PageUnchanged
<1>9. ASSUME NEW p \in Shown, Page!AnswerReload(p) \/ Page!ShowReload(p) \/ Page!ReloadFails(p)
      PROVE  OfferInv'
  BY <1>1, <1>9 DEF Page!AnswerReload, Page!ShowReload, Page!ReloadFails, Page!PageUnchanged
<1>10. ASSUME NEW p \in Shown, NEW after \in Page!Row, Page!OthersChange(p, after) PROVE OfferInv'
  BY <1>1, <1>10 DEF Page!OthersChange, Page!PageUnchanged
<1>11. CASE UNCHANGED Page!vars
  BY <1>1, <1>11 DEF Page!vars
<1> QED
  BY <1>2, <1>3, <1>4, <1>5, <1>6, <1>7, <1>8, <1>9, <1>10, <1>11, DecideStep, ShowListStep
     DEF Page!Next

LEMMA PageOffers == Page!Spec => []Page!OfferedIsAccepted
<1>1. OfferInv => Page!OfferedIsAccepted
  BY DEF OfferInv, SentOffered, RefusedForAReason, Page!OfferedIsAccepted
<1> QED BY InitOfferInv, NextOfferInv, <1>1, PTL DEF Page!Spec

-----------------------------------------------------------------------------
(* Either end.                                                             *)

(* Reviews is Remediation at one end and ReviewCenter at the other: every    *)
(* step of Reviews is a step of each or leaves it alone, so that what holds  *)
(* of the server or of the page holds of the reviews.                        *)
THEOREM ReviewsHaveTwoEnds == ReviewsSpec => Spec /\ Page!Spec
<1>1. ReviewsInit => Init /\ Page!Init
  BY DEF ReviewsInit
<1>2. [ReviewsNext]_reviewsVars => [Next]_vars /\ [Page!Next]_(Page!vars)
  BY DEF ReviewsNext, AtServer, AtPage, reviewsVars, pageVars, Page!vars
<1> QED BY <1>1, <1>2, PTL DEF ReviewsSpec, Spec, Page!Spec

(* What the page offers, the server accepts, unless the dialog has moved to  *)
(* another proposal or somebody else was faster: with any number of lists    *)
(* and decisions on their way.                                               *)
THEOREM OffersHold == ReviewsSpec => []OfferedIsAccepted
BY ReviewsHaveTwoEnds, PageOffers, PTL DEF OfferedIsAccepted
=============================================================================
