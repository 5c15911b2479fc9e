-------------------------------- MODULE Reviews --------------------------------
(***************************************************************************)
(* The reviews of remediation proposals from either end: the requests that *)
(* race on the server (Remediation), or the page of one reviewer while the *)
(* others change the proposals (ReviewCenter).  What the page asks of the  *)
(* server are requests of Remediation; a behaviour follows one of the two. *)
(***************************************************************************)
EXTENDS Remediation

CONSTANTS Shown, Own, Role, Filters, MaxLoads, MaxSent, MaxChanges, Nobody

ASSUME ReviewsAssumption ==
  /\ Shown \subseteq Nat /\ Own \subseteq Shown /\ Nobody \notin Nat
  /\ Role \in {"MEMBER", "ADMIN", "OWNER"} /\ "all" \in Filters
  /\ {MaxLoads, MaxSent} \subseteq Nat \ {0} /\ MaxChanges \in Nat

VARIABLES
  end,  \* the end that is followed
  rows, listed, selection, filter, lists, reloads, dialog, sent, changes

Page == INSTANCE ReviewCenter WITH Proposals <- Shown

pageVars    == <<rows, listed, selection, filter, lists, reloads, dialog, sent, changes>>
reviewsVars == <<vars, end, pageVars>>

ReviewsInit ==
  /\ end \in {"server", "page"}
  /\ Init /\ Page!Init
  /\ (end = "server") => (rows = Page!Nothing)

AtServer == end = "server" /\ UNCHANGED <<end, pageVars>>
AtPage   == end = "page" /\ UNCHANGED <<end, vars>>

ReviewsNext ==
  \/ AtServer /\ Next
  \/ AtPage /\ Page!Next

ReviewsSpec == ReviewsInit /\ [][ReviewsNext]_reviewsVars

-----------------------------------------------------------------------------
(* Properties. *)

\* The server refuses a decision the page offered only if the dialog has moved
\* to another proposal or the proposal is no longer what the page showed
\* (ReviewCenter: ProposalDetailView.tsx:93-106 against policy.py:58-171).
OfferedIsAccepted == Page!OfferedIsAccepted
=============================================================================
