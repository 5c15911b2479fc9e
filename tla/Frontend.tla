------------------------------- MODULE Frontend -------------------------------
(***************************************************************************)
(* The views of the browser (App.tsx, activeView): the chat, or the        *)
(* documents of a knowledge base; and the account they need, whose tokens  *)
(* the users' browsers obtain and rotate (Accounts).  The three share no   *)
(* state, so a behaviour follows one of them: their interleavings would    *)
(* add nothing.                                                            *)
(***************************************************************************)
EXTENDS Accounts

CONSTANTS MaxTurns, Earlier, KnowledgeBases, Documents, Views

ASSUME FrontendAssumption ==
  /\ MaxTurns \in Nat \ {0} /\ {Earlier, None} \cap 1..MaxTurns = {} /\ None # Earlier

VARIABLES
  view,  \* activeView, "account" while the sign-in is followed
  active, shown, loading, draft, ref, aborter, streams, asked, stored, gets, disturbed,
  served, selected, docs, loads, working, poll

Page  == INSTANCE ChatPage WITH Existing <- Earlier
Panel == INSTANCE DocumentPanel

pageVars  == <<active, shown, loading, draft, ref, aborter, streams, asked, stored, gets,
               disturbed>>
panelVars == <<served, selected, docs, loads, working, poll>>
viewVars  == <<view, vars, pageVars, panelVars>>

ViewInit ==
  view \in {"account", "chat", "knowledge"} /\ Init /\ Page!Init /\ Panel!Init

InAccount   == view = "account" /\ UNCHANGED <<view, pageVars, panelVars>>
InChat      == view = "chat" /\ UNCHANGED <<view, vars, panelVars>>
InKnowledge == view = "knowledge" /\ UNCHANGED <<view, vars, pageVars>>

ViewNext ==
  \/ InAccount /\ Next
  \/ InChat /\ Page!Next
  \/ InKnowledge /\ Panel!Next

\* The fairness of the pages, each in its view.
ViewSpec ==
  /\ ViewInit /\ [][ViewNext]_viewVars
  /\ WF_viewVars(InChat /\ Page!SomeStreamEnds)
  /\ WF_viewVars(InKnowledge /\ Panel!PollTick)
  /\ SF_viewVars(InKnowledge /\ Panel!AnswerPoll)
  /\ SF_viewVars(InKnowledge /\ Panel!ShowPoll)

-----------------------------------------------------------------------------
(* Properties. *)

\* A turn the user stays with is on the screen as it ended, once
\* (ChatPage: App.tsx:201-252, :345-368).
TurnIsShownOnce == Page!TurnIsShownOnce

\* Once the server has nothing in processing in the knowledge base the user
\* stays on, the panel shows nothing in processing and stops polling
\* (DocumentPanel.tsx:43-129).
PanelCatchesUp == view = "knowledge" => Panel!PanelCatchesUp
=============================================================================
