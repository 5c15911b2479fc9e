---------------------------- MODULE AnswerSources ----------------------------
(***************************************************************************)
(* What an answer of the chat rests on (services/rag): the passages a turn *)
(* retrieves, with the fallbacks of retrieval, those the prompt has room   *)
(* for, the ones the answer cites, and the evidence it is verified on.     *)
(***************************************************************************)
EXTENDS Integers, FiniteSets, SequencesExt

CONSTANTS
  Requests,   \* the turns considered, a set of records of Request
  Answers,    \* what the model may say, a set of records of Answer
  Budget,     \* MAX_CONTEXT_TOKENS * 4, in characters
  NotAsked    \* a request that is at rest, and no outcome

\* A passage is known by its origin and its place there, and its length is that
\* of its formatted block.
Passage == [origin : {"adaptive", "hybrid", "arxiv"}, place : Nat \ {0}, length : Nat \ {0}]

\* What each search would find, and whether it raises; an arXiv entry without a
\* title or a summary is no passage but takes a place.
Request ==
  [adaptive : {"off", "answers", "raises"}, hybridRaises : BOOLEAN, arxiv : {"off", "answers", "late"},
   finds : [{"adaptive", "hybrid", "arxiv"} -> Seq(Passage)], grounded : {"off", "verified", "raises"}]

\* The numbers in brackets; refuses when it contains the agreed sentence.
Answer == [numbers : SUBSET Nat, refuses : BOOLEAN]

ASSUME SourcesAssumption ==
  /\ Requests # {} /\ \A r \in Requests : r \in Request
  /\ \A a \in Answers : a \in Answer
  /\ Budget \in Nat

VARIABLES
  request, turnStep,
  found,      \* retrieval_resp.results
  prompt,     \* the sources of the AssembledContext, by citation_id
  answer, citations,
  checked    \* what the answer was verified on
sourceVars == <<request, turnStep, found, prompt, answer, citations, checked>>

SourcesInit(requests) ==
  /\ request \in requests
  /\ turnStep = "search"
  /\ found = <<>> /\ prompt = <<>> /\ answer = NotAsked /\ citations = {} /\ checked = {}

Goto(s) == turnStep = s /\ UNCHANGED request

-----------------------------------------------------------------------------
(* Retrieval: the adaptive service where it is on, hybrid where it is off or  *)
(* raised, arXiv where nothing was found.                                     *)

Receives(origin) ==
  /\ found' = request.finds[origin]
  /\ turnStep' = IF found' = <<>> /\ origin # "arxiv" THEN "ask arXiv" ELSE "assemble"
  /\ UNCHANGED <<prompt, answer, citations, checked>>

SearchAdaptive == Goto("search") /\ request.adaptive = "answers" /\ Receives("adaptive")

SearchHybrid ==
  Goto("search") /\ request.adaptive # "answers" /\ ~request.hybridRaises /\ Receives("hybrid")

\* No second search stands behind this one: the turn fails.
SearchRaises ==
  /\ Goto("search")
  /\ request.adaptive # "answers" /\ request.hybridRaises
  /\ turnStep' = "failed"
  /\ UNCHANGED <<found, prompt, answer, citations, checked>>

AskArxiv == Goto("ask arXiv") /\ request.arxiv = "answers" /\ Receives("arxiv")

\* Off, or not answered within its two seconds: the turn goes on without.
ArxivSilent ==
  /\ Goto("ask arXiv")
  /\ request.arxiv # "answers"
  /\ turnStep' = "assemble"
  /\ UNCHANGED <<found, prompt, answer, citations, checked>>

-----------------------------------------------------------------------------
(* ContextBuilder.assemble. *)

Counted == 2  \* what assemble counts for a separator, which has 7 characters

\* What it counts for the first n blocks.
Together(passages, n) == FoldLeft(LAMBDA sum, p : sum + p.length + Counted, 0, SubSeq(passages, 1, n))

\* As many of the best as fit, and always the first.
Included(passages) ==
  LET fits(n) == n <= 1 \/ Together(passages, n) <= Budget
      n == CHOOSE n \in 0 .. Len(passages) :
             (\A k \in 1 .. n : fits(k)) /\ (n < Len(passages) => ~fits(n + 1))
  IN SubSeq(passages, 1, n)

Assemble ==
  /\ Goto("assemble")
  /\ prompt' = Included(found)
  /\ turnStep' = "generate"
  /\ UNCHANGED <<found, answer, citations, checked>>

Generate ==
  /\ Goto("generate")
  /\ answer' \in Answers
  /\ turnStep' = "cite"
  /\ UNCHANGED <<found, prompt, citations, checked>>

-----------------------------------------------------------------------------
(* CitationBuilder.build_citations. *)

Citation(passages, n) == [number |-> n, passage |-> passages[n]]

Fallback == {Citation(prompt, n) : n \in DOMAIN prompt \cap 1 .. 3}

\* Mutant: a number is looked up among all that was found.
BuildAmongFound(a) ==
  LET named == {Citation(found, n) : n \in DOMAIN found \cap a.numbers}
  IN IF named = {} /\ ~a.refuses THEN Fallback ELSE named

\* The sources of the prompt the answer names; where it names none and does not
\* say that it knows nothing, the best three.
Build(a) ==
  LET named == {Citation(prompt, n) : n \in DOMAIN prompt \cap a.numbers}
  IN IF named = {} /\ ~a.refuses THEN Fallback ELSE named

Cite ==
  /\ Goto("cite")
  /\ citations' = Build(answer)
  /\ turnStep' = "verify"
  /\ UNCHANGED <<found, prompt, answer, checked>>

\* All that was found is evidence, in the prompt or not; an error leaves the
\* answer without a verdict.
Verify ==
  /\ Goto("verify")
  /\ checked' = IF request.grounded = "verified" THEN ToSet(found) ELSE {}
  /\ turnStep' = "done"
  /\ UNCHANGED <<found, prompt, answer, citations>>

SourcesNext ==
  \/ SearchAdaptive \/ SearchHybrid \/ SearchRaises \/ AskArxiv \/ ArxivSilent
  \/ Assemble \/ Generate \/ Cite \/ Verify

-----------------------------------------------------------------------------
(* Properties. *)

\* A citation shown with an answer is the passage the model read under that
\* number, and the verifier had it too: whichever search found the passages and
\* wherever the budget cut them.  Unless it refuses, an answer that had sources
\* shows some, and it shows none it does not name if it names one.
CitationsAreSources ==
  turnStep = "done" =>
    LET shown == {c.number : c \in citations}
        named == answer.numbers \cap DOMAIN prompt
    IN /\ \A c \in citations : c.number \in DOMAIN prompt /\ prompt[c.number] = c.passage
       /\ request.grounded = "verified" => \A c \in citations : c.passage \in checked
       /\ prompt # <<>> /\ ~answer.refuses => shown # {}
       /\ named # {} => shown = named
=============================================================================
