------------------------------- MODULE RagChat -------------------------------
(***************************************************************************)
(* Chat turns over a knowledge base, answered at once or as a stream of    *)
(* events (services/rag/service.py), with the conversations they write to  *)
(* and the embedding cache they share.  A turn embeds its question in a    *)
(* task of its own, the cache's call of the same name, while it checks the *)
(* access to the knowledge bases, and reads the history in another.        *)
(* Settings are the defaults: query intelligence, adaptive retrieval and   *)
(* arXiv off, cache on.                                                    *)
(***************************************************************************)
EXTENDS QueryEmbeddingCache

CONSTANTS
  Existing,   \* a conversation that exists from the start
  MaxHistory  \* MAX_HISTORY_MESSAGES

Turns == Calls

ASSUME MaxHistoryAssumption == MaxHistory \in Nat \ {0}
ASSUME ExistingAssumption == Existing \notin Calls

VARIABLES
  conversations,  \* committed conversations; a new one is named after its turn
  messages,       \* messages of each, in the order of created_at
  turns,          \* where each turn is
  offered         \* history: the messages a turn's history could be taken from

chatVars == <<conversations, messages, turns, offered>>
vars     == <<cacheVars, chatVars>>

Conversations == Turns \cup {Existing}

Init ==
  /\ CacheInit
  /\ conversations = {Existing}
  /\ messages = [c \in Conversations |-> <<>>]
  /\ turns = [t \in Turns |->
       [kind |-> "stream", conversation |-> Existing, step |-> "idle", outcome |-> "open",
        connected |-> TRUE, read |-> "no", history |-> <<>>]]
  /\ offered = [t \in Turns |-> <<>>]

-----------------------------------------------------------------------------
(* Messages and how a turn ends. *)

At(t, step)   == turns[t].step = step
Go(t, step)   == turns' = [turns EXCEPT ![t].step = step]
Streamed(t)   == turns[t].kind = "stream"
ConvOf(t)     == turns[t].conversation
IsNew(t)      == ConvOf(t) = t

Message  == [turn : Turns, role : {"user", "assistant"}, committed : BOOLEAN]
IsStored == {m \in Message : m.committed}

Own(t, role, committed) == [turn |-> t, role |-> role, committed |-> committed]

\* The messages of s that are in K, in their order.
Kept(s, K) ==
  LET kept[n \in 0..Len(s)] ==
        IF n = 0 THEN <<>> ELSE IF s[n] \in K THEN Append(kept[n - 1], s[n]) ELSE kept[n - 1]
  IN kept[Len(s)]

Committed(s) == Kept(s, IsStored)
Newest(s, n) == SubSeq(s, IF Len(s) > n THEN Len(s) - n + 1 ELSE 1, Len(s))
Others(s, t) == Kept(s, {m \in Message : m.turn # t \/ m.role # "user"})

\* What the session has not committed goes with the turn.
RolledBack(t) ==
  [messages EXCEPT ![ConvOf(t)] = Kept(@, {m \in Message : m.committed \/ m.turn # t})]

Finish(t, outcome) == turns' = [turns EXCEPT ![t].step = "ended", ![t].outcome = outcome]

\* An exception: an error event or an error response, and no commit after it.
Fail(t) ==
  /\ Finish(t, "error")
  /\ messages' = RolledBack(t)
  /\ UNCHANGED <<conversations, offered>>

\* A foreign key needs the conversation, which a new one brings along.
CanCommit(t) == IsNew(t) \/ ConvOf(t) \in conversations

-----------------------------------------------------------------------------
(* The question. *)

\* get_or_create_conversation, add_message.
BeginTurn(t, kind, c) ==
  /\ At(t, "idle")
  /\ c \in {t, Existing}
  /\ turns' = [turns EXCEPT
       ![t].kind = kind, ![t].conversation = c,
       ![t].step = IF c = t \/ c \in conversations THEN "loaded" ELSE "ended",
       ![t].outcome = IF c = t \/ c \in conversations THEN "open" ELSE "error"]
  /\ messages' = IF c = t \/ c \in conversations
                 THEN [messages EXCEPT ![c] = Append(@, Own(t, "user", FALSE))]
                 ELSE messages
  /\ UNCHANGED <<cacheVars, conversations, offered>>

\* Everything the session holds becomes visible.
Commit(t) ==
  /\ CanCommit(t)
  /\ conversations' = conversations \cup {ConvOf(t)}
  /\ messages' = [messages EXCEPT ![ConvOf(t)] =
       [n \in DOMAIN @ |-> IF @[n].turn = t THEN [@[n] EXCEPT !.committed = TRUE] ELSE @[n]]]

\* A stream commits the question first, then chooses the provider and starts.
AskStreamed(t) ==
  /\ At(t, "loaded") /\ Streamed(t)
  /\ Commit(t) /\ Go(t, "asked")
  /\ UNCHANGED <<cacheVars, offered>>

AskSync(t) ==
  /\ At(t, "loaded") /\ ~Streamed(t)
  /\ Go(t, "asked")
  /\ UNCHANGED <<cacheVars, conversations, messages, offered>>

\* A commit that fails, an unknown provider or model, no access to a knowledge base.
FailEarly(t) ==
  /\ At(t, "loaded") \/ At(t, "asked")
  /\ Fail(t)
  /\ UNCHANGED cacheVars

-----------------------------------------------------------------------------
(* Retrieval and history. *)

\* The embedding starts before the access is checked.
BeginSearch(t, q) ==
  /\ At(t, "asked")
  /\ StartCall(t, q)
  /\ turns' = [turns EXCEPT ![t].step = "authorizing", ![t].read = IF IsNew(t) THEN "yes" ELSE "no"]
  /\ UNCHANGED <<conversations, messages, offered>>

Authorize(t) ==
  /\ At(t, "authorizing")
  /\ Go(t, "embedding")
  /\ UNCHANGED <<cacheVars, conversations, messages, offered>>

\* validate_knowledge_bases_access raises: the embedding is not left behind.
Refuse(t) ==
  /\ At(t, "authorizing")
  /\ Fail(t)
  /\ IF Running(t) THEN CancelCall(t) ELSE UNCHANGED cacheVars

\* The call of the turn has ended: its vector, its error or its cancellation.
Embedded(t) ==
  /\ At(t, "embedding")
  /\ \/ calls[t].at = "returned" /\ Go(t, "searching")
     \/ calls[t].at = "cancelled" /\ Finish(t, "cancelled")
  /\ messages' = IF calls[t].at = "cancelled" THEN RolledBack(t) ELSE messages
  /\ UNCHANGED <<cacheVars, conversations, offered>>

EmbeddingFailed(t) ==
  /\ At(t, "embedding") /\ calls[t].at = "failed"
  /\ Fail(t)
  /\ UNCHANGED cacheVars

Search(t) ==
  /\ At(t, "searching")
  /\ Go(t, "retrieved")
  /\ UNCHANGED <<cacheVars, conversations, messages, offered>>

\* Mutant: the own question counts against the limit.
RecentTooFew(t) == Newest(Committed(messages[ConvOf(t)]), MaxHistory)

\* get_recent_messages(limit = MAX_HISTORY_MESSAGES + 1), on a session of its own.
Recent(t) == Newest(Committed(messages[ConvOf(t)]), MaxHistory + 1)

\* The limit of the prompt is applied when it is built.
ReadHistory(t) ==
  /\ turns[t].step \in {"authorizing", "embedding", "searching", "retrieved"}
  /\ turns[t].read = "no"
  /\ turns' = [turns EXCEPT ![t].read = "yes",
                            ![t].history = Newest(Others(Recent(t), t), MaxHistory)]
  /\ offered' = [offered EXCEPT ![t] = Others(Committed(messages[ConvOf(t)]), t)]
  /\ UNCHANGED <<cacheVars, conversations, messages>>

HistoryFails(t) ==
  /\ turns[t].step \in {"authorizing", "embedding", "searching", "retrieved"}
  /\ turns[t].read = "no"
  /\ turns' = [turns EXCEPT ![t].read = "failed"]
  /\ UNCHANGED <<cacheVars, conversations, messages, offered>>

\* The history is awaited, and the connection released by a commit: for a
\* synchronous turn it is the one that stores the question.
Prompt(t) ==
  /\ At(t, "retrieved") /\ turns[t].read = "yes"
  /\ Go(t, "prompted")
  /\ IF Streamed(t) THEN UNCHANGED <<conversations, messages>> ELSE Commit(t)
  /\ UNCHANGED <<cacheVars, offered>>

\* A search, a history or a commit that fails.
FailRetrieval(t) ==
  /\ \/ At(t, "searching")
     \/ At(t, "retrieved") /\ turns[t].read # "no"
  /\ Fail(t)
  /\ UNCHANGED cacheVars

-----------------------------------------------------------------------------
(* The answer. *)

\* The language model has answered; citations and groundedness are computed.
Generate(t) ==
  /\ At(t, "prompted")
  /\ Go(t, "answered")
  /\ messages' = [messages EXCEPT ![ConvOf(t)] = Append(@, Own(t, "assistant", FALSE))]
  /\ UNCHANGED <<cacheVars, conversations, offered>>

GenerationFails(t) ==
  /\ At(t, "prompted")
  /\ Fail(t)
  /\ UNCHANGED cacheVars

\* Mutant: the answer is reported before it is stored.
SaveAnswerLater(t) ==
  /\ At(t, "answered")
  /\ Go(t, "saved")
  /\ UNCHANGED <<cacheVars, conversations, messages, offered>>

\* The conversation must still be there.
SaveAnswer(t) ==
  /\ At(t, "answered") /\ ConvOf(t) \in conversations
  /\ Commit(t)
  /\ Go(t, "saved")
  /\ UNCHANGED <<cacheVars, offered>>

SaveFails(t) ==
  /\ At(t, "answered")
  /\ Fail(t)
  /\ UNCHANGED cacheVars

Done(t) ==
  /\ At(t, "saved")
  /\ Finish(t, "done")
  /\ UNCHANGED <<cacheVars, conversations, messages, offered>>

-----------------------------------------------------------------------------
(* Clients and conversations. *)

Open(t) == ~At(t, "idle") /\ ~At(t, "ended")

\* The client of a stream goes away and the task that sends is cancelled: with
\* what it awaits, but not with an embedding it does not await yet.
Disconnect(t) ==
  /\ Open(t) /\ Streamed(t)
  /\ turns' = [turns EXCEPT ![t].step = "ended", ![t].outcome = "cancelled", ![t].connected = FALSE]
  /\ messages' = RolledBack(t)
  /\ IF At(t, "embedding") /\ Running(t) THEN CancelCall(t) ELSE UNCHANGED cacheVars
  /\ UNCHANGED <<conversations, offered>>

\* With all its messages.
DeleteConversation(c) ==
  /\ c \in conversations
  /\ conversations' = conversations \ {c}
  /\ messages' = [messages EXCEPT ![c] = Kept(@, Message \ IsStored)]
  /\ UNCHANGED <<cacheVars, turns, offered>>

ServeCall(t) == Serve(t) /\ UNCHANGED chatVars

\* What the server does by itself for a turn.
Handle(t) ==
  \/ AskStreamed(t) \/ AskSync(t) \/ FailEarly(t)
  \/ \E q \in Queries : BeginSearch(t, q)
  \/ Authorize(t) \/ Refuse(t) \/ Embedded(t) \/ EmbeddingFailed(t) \/ Search(t)
  \/ Prompt(t) \/ FailRetrieval(t)
  \/ Generate(t) \/ GenerationFails(t) \/ SaveAnswer(t) \/ SaveFails(t) \/ Done(t)

History(t) == ReadHistory(t) \/ HistoryFails(t)

Next ==
  \/ \E t \in Turns : \/ \E kind \in {"stream", "sync"}, c \in Conversations : BeginTurn(t, kind, c)
                      \/ Handle(t) \/ History(t) \/ ServeCall(t) \/ Disconnect(t)
  \/ \E c \in Conversations : DeleteConversation(c)

\* Database, embedding provider and language model answer or fail within their
\* timeouts, and the event loop runs every task that can run.
Fairness ==
  \A t \in Turns : WF_vars(Handle(t)) /\ WF_vars(History(t)) /\ WF_vars(ServeCall(t))

Spec == Init /\ [][Next]_vars /\ Fairness

-----------------------------------------------------------------------------
(* Properties. *)

Has(t, role) ==
  \E c \in Conversations : \E n \in DOMAIN messages[c] :
    messages[c][n].turn = t /\ messages[c][n].role = role /\ messages[c][n].committed

Deleted(t) == ConvOf(t) \notin conversations

\* "done" and the answer of a synchronous turn mean that the answer is stored;
\* an error means that it is not; an answer is stored behind its question
\* (rag/service.py:1168-1233, :592-630).  A deleted conversation has neither.
OutcomeMatchesStore ==
  \A t \in Turns :
    /\ turns[t].outcome = "done" /\ ~Deleted(t) => Has(t, "assistant")
    /\ turns[t].outcome = "error" => ~Has(t, "assistant")
    /\ Has(t, "assistant") => Has(t, "user")
    /\ \A c \in Conversations : c \notin conversations => Committed(messages[c]) = <<>>

\* The prompt gets the newest MAX_HISTORY_MESSAGES messages that were stored
\* when the history was read, and never the turn's own question, although a
\* stream has committed it by then and a synchronous turn has not
\* (rag/service.py:755, :935, :179, :370).
PromptHasNewestHistory ==
  \A t \in Turns : turns[t].read = "yes" /\ ~IsNew(t) =>
    turns[t].history = Newest(offered[t], MaxHistory)

\* Every turn ends, whatever fails or is cancelled around it: no turn waits
\* for an embedding that nobody computes (cache.py:145).
EveryTurnEnds == \A t \in Turns : Open(t) ~> ~Open(t)
=============================================================================
