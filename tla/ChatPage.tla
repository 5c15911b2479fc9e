------------------------------- MODULE ChatPage -------------------------------
(***************************************************************************)
(* The chat in the browser (frontend/src/App.tsx): the conversation on the *)
(* screen, the question being answered, and the events of its stream.  All *)
(* streams write to one streamRef, and nothing keeps the user from going   *)
(* elsewhere while a stream is open.  The server is reduced to what it     *)
(* stores and the events it sends for a turn.                              *)
(***************************************************************************)
EXTENDS Naturals, Sequences, FiniteSets, SequencesExt

CONSTANTS
  MaxTurns,  \* bound: questions the user sends
  Existing,  \* a conversation that exists from the start
  None

Turns == 1..MaxTurns

VARIABLES
  active,    \* activeConversationId; a new conversation is named after its turn
  shown,     \* messages
  loading,   \* isLoading
  draft,     \* turn whose streamingMessage is on the screen
  ref,       \* streamRef.current
  aborter,   \* abortRef.current, by the turn it aborts
  streams,   \* the stream of each turn
  asked,     \* activeConversationId when the turn was sent
  stored,    \* what the server has stored of each turn
  gets,      \* conversations whose GET is on its way
  disturbed  \* history: turns during or after which the screen went elsewhere, or
             \* whose stream was open together with another

vars == <<active, shown, loading, draft, ref, aborter, streams, asked, stored, gets,
          disturbed>>

Conversations == Turns \cup {Existing}
Phases == {"idle", "sent", "open", "tokens", "ended", "stopped", "closed"}
Kinds  == {"question", "answer", "partial", "error"}
Line   == [turn : Turns, kind : Kinds]

TypeOK ==
  /\ active \in Conversations \cup {None}
  /\ shown \in Seq(Line)
  /\ loading \in BOOLEAN
  /\ draft \in Turns \cup {None}
  /\ ref \in [turn : Turns \cup {None}, text : BOOLEAN, finalized : BOOLEAN]
  /\ aborter \in Turns \cup {None}
  /\ streams \in [Turns -> Phases]
  /\ asked \in [Turns -> Conversations \cup {None}]
  /\ stored \in [Turns -> {"nothing", "question", "answer"}]
  /\ gets \subseteq Conversations
  /\ disturbed \subseteq Turns

Init ==
  /\ active = None /\ shown = <<>> /\ loading = FALSE /\ draft = None
  /\ ref = [turn |-> None, text |-> FALSE, finalized |-> FALSE]
  /\ aborter = None
  /\ streams = [t \in Turns |-> "idle"]
  /\ asked = [t \in Turns |-> None]
  /\ stored = [t \in Turns |-> "nothing"]
  /\ gets = {} /\ disturbed = {}

Sent     == {t \in Turns : streams[t] # "idle"}
OpenNow  == {t \in Turns : streams[t] \notin {"idle", "closed"}}
ConvOf(t) == IF asked[t] = None THEN t ELSE asked[t]

Phase(t, phase) == streams' = [streams EXCEPT ![t] = phase]
Show(t, kind)   == shown' = Append(shown, [turn |-> t, kind |-> kind])

NavigationUnchanged == UNCHANGED <<active, gets, disturbed, asked>>

-----------------------------------------------------------------------------
(* Sending. *)

\* handleSendMessage, after the echo: the stream and what is known of it are new.
OpenStream(t) ==
  /\ ~loading /\ streams[t] = "idle"
  /\ \A u \in 1..t - 1 : streams[u] # "idle"
  /\ loading' = TRUE
  /\ ref' = [turn |-> t, text |-> FALSE, finalized |-> FALSE]
  /\ aborter' = t
  /\ Phase(t, "sent")
  /\ asked' = [asked EXCEPT ![t] = active]
  /\ UNCHANGED <<active, draft, stored, gets>>

Send(t) ==
  /\ OpenStream(t)
  /\ Show(t, "question")
  /\ disturbed' = IF OpenNow = {} THEN disturbed ELSE disturbed \cup OpenNow \cup {t}

Questions == {n \in DOMAIN shown : shown[n].kind = "question"}

\* handleRegenerate: the answers behind the last question go, it is sent again.
Regenerate(t) ==
  /\ Questions # {}
  /\ OpenStream(t)
  /\ shown' = SubSeq(shown, 1, CHOOSE n \in Questions : \A m \in Questions : m <= n)
  /\ disturbed' = disturbed \cup Sent \cup {t}

-----------------------------------------------------------------------------
(* The events of a stream. *)

Started(t) ==
  /\ streams[t] = "sent"
  /\ Phase(t, "open")
  /\ stored' = [stored EXCEPT ![t] = "question"]
  /\ active' = IF asked[t] = None THEN t ELSE active
  /\ UNCHANGED <<shown, loading, draft, ref, aborter, asked, gets, disturbed>>

Token(t) ==
  /\ streams[t] = "open"
  /\ Phase(t, "tokens")
  /\ ref' = [ref EXCEPT !.text = TRUE]
  /\ draft' = t
  /\ UNCHANGED <<shown, loading, aborter, stored>> /\ NavigationUnchanged

\* The server stores the answer before it says "done", also when nobody listens.
Store(t) ==
  /\ streams[t] \in {"open", "tokens", "stopped"} /\ stored[t] = "question"
  /\ stored' = [stored EXCEPT ![t] = "answer"]
  /\ UNCHANGED <<shown, loading, draft, ref, aborter, streams>> /\ NavigationUnchanged

\* Mutant: an answer is added whether or not the turn was finalized.
FinalizeAgain(kind) ==
  /\ ref' = [ref EXCEPT !.finalized = TRUE]
  /\ draft' = None /\ loading' = FALSE
  /\ IF ref.text
     THEN Show(ref.turn, kind) /\ aborter' = None
     ELSE UNCHANGED <<shown, aborter>>

\* finalizeAssistant: what streamRef holds becomes a message, unless it is empty.
Finalize(kind) ==
  IF ref.finalized THEN UNCHANGED <<ref, shown, draft, loading, aborter>>
  ELSE /\ ref' = [ref EXCEPT !.finalized = TRUE]
       /\ draft' = None /\ loading' = FALSE
       /\ IF ref.text
          THEN Show(ref.turn, kind) /\ aborter' = None
          ELSE UNCHANGED <<shown, aborter>>

\* onError, which asks for no flag.
ShowError(t) ==
  /\ ref' = [ref EXCEPT !.finalized = TRUE]
  /\ aborter' = None
  /\ Show(t, "error")
  /\ draft' = None /\ loading' = FALSE

DoneEvent(t) ==
  /\ streams[t] \in {"open", "tokens"} /\ stored[t] = "answer"
  /\ Phase(t, "ended")
  /\ Finalize("answer")
  /\ UNCHANGED stored /\ NavigationUnchanged

ErrorEvent(t) ==
  /\ streams[t] \in {"open", "tokens"} /\ stored[t] = "question"
  /\ Phase(t, "ended")
  /\ ShowError(t)
  /\ UNCHANGED stored /\ NavigationUnchanged

\* The response ends, with or without a last event (onComplete).
Complete(t) ==
  /\ streams[t] \in {"open", "tokens", "ended"}
  /\ Phase(t, "closed")
  /\ Finalize("partial")
  /\ UNCHANGED stored /\ NavigationUnchanged

\* No response, an error status, or a connection that breaks.
Break(t) ==
  /\ streams[t] \in {"sent", "open", "tokens", "ended"}
  /\ Phase(t, "closed")
  /\ ShowError(t)
  /\ UNCHANGED stored /\ NavigationUnchanged

\* handleStop; aborting a stream that has ended does nothing.
Stop ==
  /\ aborter # None /\ streams[aborter] \in {"sent", "open", "tokens", "ended"}
  /\ Phase(aborter, "stopped")
  /\ UNCHANGED <<shown, loading, draft, ref, aborter, stored>> /\ NavigationUnchanged

Stopped(t) ==
  /\ streams[t] = "stopped"
  /\ Phase(t, "closed")
  /\ Finalize("partial")
  /\ UNCHANGED stored /\ NavigationUnchanged

-----------------------------------------------------------------------------
(* Navigation, which knows nothing of the stream. *)

\* What GET /conversations/{id} answers.
Lines(t) ==
  CASE stored[t] = "nothing"  -> <<>>
    [] stored[t] = "question" -> <<[turn |-> t, kind |-> "question"]>>
    [] stored[t] = "answer"   -> <<[turn |-> t, kind |-> "question"], [turn |-> t, kind |-> "answer"]>>

\* Bound: one GET at a time.
Select(c) ==
  /\ gets = {}
  /\ c \in {Existing} \cup {t \in Turns : stored[t] # "nothing"}
  /\ active' = c
  /\ gets' = {c}
  /\ disturbed' = disturbed \cup Sent
  /\ UNCHANGED <<shown, loading, draft, ref, aborter, streams, asked, stored>>

\* The answer is shown whatever is selected by now; a failed GET shows a banner.
Loaded(c) ==
  /\ c \in gets
  /\ gets' = gets \ {c}
  /\ \/ UNCHANGED shown
     \/ shown' = FlattenSeq([t \in Turns |-> IF ConvOf(t) = c THEN Lines(t) ELSE <<>>])
  /\ disturbed' = disturbed \cup Sent
  /\ UNCHANGED <<active, loading, draft, ref, aborter, streams, asked, stored>>

\* handleNewChat, also after the active conversation was deleted.
NewChat ==
  /\ active' = None /\ shown' = <<>> /\ draft' = None
  /\ disturbed' = disturbed \cup Sent
  /\ UNCHANGED <<loading, ref, aborter, streams, asked, stored, gets>>

\* handleLogout keeps the active conversation and the stream.
Logout ==
  /\ shown' = <<>>
  /\ disturbed' = disturbed \cup Sent
  /\ UNCHANGED <<active, loading, draft, ref, aborter, streams, asked, stored, gets>>

User ==
  \/ \E t \in Turns : Send(t) \/ Regenerate(t)
  \/ Stop \/ NewChat \/ Logout
  \/ \E c \in Conversations : Select(c)

Network ==
  \/ \E t \in Turns : Started(t) \/ Token(t) \/ Store(t) \/ DoneEvent(t) \/ ErrorEvent(t)
                      \/ Complete(t) \/ Break(t) \/ Stopped(t)
  \/ \E c \in Conversations : Loaded(c)

Next == User \/ Network

SomeStreamEnds == \E t \in Turns : Complete(t) \/ Break(t) \/ Stopped(t)

\* Every response ends, or its connection breaks: there are finitely many turns,
\* and each ends once.
Spec == Init /\ [][Next]_vars /\ WF_vars(SomeStreamEnds)

-----------------------------------------------------------------------------
(* Properties. *)

Count(t, kinds) == Cardinality({n \in DOMAIN shown : shown[n].turn = t /\ shown[n].kind \in kinds})

\* A turn that was left alone is on the screen as it ended: its question once,
\* at most one answer, never an answer beside a partial one, and the whole
\* answer when "done" has arrived.  Done, error, end and Stop may come in any
\* order and two of them finalize (App.tsx:205-252, :346-369).
TurnIsShownOnce ==
  \A t \in Turns \ disturbed : streams[t] # "idle" =>
    /\ Count(t, {"question"}) = 1
    /\ Count(t, {"answer", "partial"}) <= 1
    /\ streams[t] = "ended" /\ stored[t] = "answer" /\ ref.text => Count(t, {"answer"}) = 1
=============================================================================
