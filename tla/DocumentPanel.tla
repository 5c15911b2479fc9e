---------------------------- MODULE DocumentPanel ----------------------------
(***************************************************************************)
(* The panel that lists the documents of the selected knowledge base.  It  *)
(* loads the list when a base is selected and after its own operations,    *)
(* and polls it only while a listed document is being processed.  What the *)
(* server lists may change in any way between two reads.                   *)
(***************************************************************************)
EXTENDS FiniteSets

CONSTANTS
  KnowledgeBases, \* knowledge bases the user switches between
  Documents,      \* documents listed in any of them
  Views,          \* what a document can look like: [status, embedding]
  None            \* no knowledge base is selected; not listed

VARIABLES
  served,   \* what the server would list now
  selected, \* kbId
  docs,     \* the list on the screen
  loads,    \* load() for each knowledge base, with the answer on its way
  working,  \* bases for which an upload or a processing request is under way
  poll      \* the polling effect, with the answer on its way

vars == <<served, selected, docs, loads, working, poll>>

List == [Documents -> Views \cup {None}]
Empty == [d \in Documents |-> None]

Fetch(steps) == [step : steps, list : List]
At(step)     == [step |-> step, list |-> Empty]
Answer(list) == [step |-> "answered", list |-> list]

TypeOK ==
  /\ served \in [KnowledgeBases -> List]
  /\ selected \in KnowledgeBases \cup {None}
  /\ docs \in List
  /\ loads \in [KnowledgeBases -> Fetch({"off", "asked", "answered"})]
  /\ working \subseteq KnowledgeBases
  /\ poll \in Fetch({"off", "timer", "asked", "answered"})

IsProcessing(view) ==
  /\ view # None
  /\ view.status \notin {"FAILED", "ARCHIVED"}
  /\ ~(view.status = "READY" /\ view.embedding = "FAILED")
  /\ view.status \in {"PROCESSING", "UPLOADING"} \/ view.embedding \in {"PROCESSING", "PENDING"}

HasActiveProcessing(list) == \E d \in Documents : IsProcessing(list[d])

Init ==
  /\ served = [k \in KnowledgeBases |-> Empty]
  /\ selected = None
  /\ docs = Empty
  /\ loads = [k \in KnowledgeBases |-> At("off")]
  /\ working = {}
  /\ poll = At("off")

-----------------------------------------------------------------------------
\* Mutant: a new list never starts the polling again.
PollAfterNeverRestarts(list) == IF HasActiveProcessing(list) THEN poll ELSE At("off")

\* The effect depends on whether something is being processed: a new list leaves
\* it alone, starts it, or cleans it up together with its pending poll.
PollAfter(list) ==
  IF ~HasActiveProcessing(list) THEN At("off")
  ELSE IF HasActiveProcessing(docs) THEN poll ELSE At("timer")

\* The knowledge bases change on the server.
Change(k, list) ==
  /\ served' = [served EXCEPT ![k] = list]
  /\ UNCHANGED <<selected, docs, loads, working, poll>>

\* kbId changes (bound: one load of a base at a time): load() starts for the new
\* base, and the polling effect starts over if the list, still that of the old
\* base, has something in processing.
SelectKb(k) ==
  /\ k # selected /\ loads[k].step = "off"
  /\ selected' = k
  /\ loads' = [loads EXCEPT ![k] = At("asked")]
  /\ poll' = IF HasActiveProcessing(docs) THEN At("timer") ELSE At("off")
  /\ UNCHANGED <<served, docs, working>>

Deselect ==
  /\ selected # None
  /\ selected' = None
  /\ docs' = Empty
  /\ poll' = At("off")
  /\ UNCHANGED <<served, loads, working>>

Operate ==
  /\ selected # None /\ selected \notin working
  /\ working' = working \cup {selected}
  /\ UNCHANGED <<served, selected, docs, loads, poll>>

\* The end of an upload or of a processing request loads the list of the base it
\* was for, whatever is selected by now.
Reload(k) ==
  /\ k \in working /\ loads[k].step = "off"
  /\ working' = working \ {k}
  /\ loads' = [loads EXCEPT ![k] = At("asked")]
  /\ UNCHANGED <<served, selected, docs, poll>>

\* A processing request that fails loads nothing.
OperationFails(k) ==
  /\ k \in working
  /\ working' = working \ {k}
  /\ UNCHANGED <<served, selected, docs, loads, poll>>

AnswerLoad(k) ==
  /\ loads[k].step = "asked"
  /\ loads' = [loads EXCEPT ![k] = Answer(served[k])]
  /\ UNCHANGED <<served, selected, docs, poll, working>>

\* The answer is shown whatever knowledge base is selected by now.
ShowLoad(k) ==
  /\ loads[k].step = "answered"
  /\ docs' = loads[k].list
  /\ poll' = IF selected = None THEN At("off") ELSE PollAfter(loads[k].list)
  /\ loads' = [loads EXCEPT ![k] = At("off")]
  /\ UNCHANGED <<served, selected, working>>

LoadFails(k) ==
  /\ loads[k].step # "off"
  /\ loads' = [loads EXCEPT ![k] = At("off")]
  /\ UNCHANGED <<served, selected, docs, poll, working>>

\* handleDelete takes the document off the list itself.
RemoveDeleted(d) ==
  LET list == [docs EXCEPT ![d] = None] IN
  /\ selected # None /\ docs[d] # None /\ served[selected][d] = None
  /\ docs' = list
  /\ poll' = PollAfter(list)
  /\ UNCHANGED <<served, selected, loads, working>>

PollTick ==
  /\ poll.step = "timer"
  /\ poll' = At("asked")
  /\ UNCHANGED <<served, selected, docs, loads, working>>

AnswerPoll ==
  /\ poll.step = "asked"
  /\ poll' = Answer(served[selected])
  /\ UNCHANGED <<served, selected, docs, loads, working>>

ShowPoll ==
  /\ poll.step = "answered"
  /\ docs' = poll.list
  /\ poll' = IF HasActiveProcessing(poll.list) THEN At("timer") ELSE At("off")
  /\ UNCHANGED <<served, selected, loads, working>>

PollFails ==
  /\ poll.step \in {"asked", "answered"}
  /\ poll' = At("timer")
  /\ UNCHANGED <<served, selected, docs, loads, working>>

Panel ==
  \/ \E k \in KnowledgeBases : SelectKb(k) \/ AnswerLoad(k) \/ ShowLoad(k) \/ LoadFails(k)
                               \/ Reload(k) \/ OperationFails(k)
  \/ Deselect \/ Operate
  \/ \E d \in Documents : RemoveDeleted(d)
  \/ PollTick \/ AnswerPoll \/ ShowPoll \/ PollFails

Next == Panel \/ \E k \in KnowledgeBases, list \in List : Change(k, list)

\* Timers fire and requests are answered; of repeated polls some succeed.
Spec ==
  /\ Init /\ [][Next]_vars
  /\ WF_vars(PollTick) /\ SF_vars(AnswerPoll) /\ SF_vars(ShowPoll)

-----------------------------------------------------------------------------
(* Properties. *)

SettlesOn(k) == selected = k /\ ~HasActiveProcessing(served[k])

\* When the server has nothing in processing any more in the knowledge base the
\* user stays on, the panel does not keep a document in processing on the
\* screen, even when a late load() of another base has put it there, and the
\* polling stops (DocumentPanel.tsx:85-129).
PanelCatchesUp ==
  \A k \in KnowledgeBases :
    <>[]SettlesOn(k) => <>[](~HasActiveProcessing(docs) /\ poll.step = "off")
=============================================================================
