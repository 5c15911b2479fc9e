-------------------------- MODULE InvestigationStream --------------------------
(***************************************************************************)
(* Watching an investigation job: the SSE generator that polls its row,    *)
(* the connection, and the React hook that applies the events, reconnects, *)
(* and falls back to REST polling.  The job moves as JobLifecycle says.    *)
(* The hook watches one selected job at a time.  Not every disturbance is  *)
(* survived, so the constant Disturbances says which ones may happen.      *)
(***************************************************************************)
EXTENDS Naturals, Sequences, FiniteSets

CONSTANTS
  Jobs,           \* investigation jobs
  MaxAttempts,    \* investigation_jobs.max_attempts
  MaxReconnect,   \* maxReconnectAttempts of the hook
  Disturbances,   \* see AllDisturbances
  MaxMark,        \* bound: progress values a running job goes through
  MaxWire,        \* bound: events in transit on the connection
  MaxGets,        \* bound: REST reads in flight
  MaxBreaks,      \* bound: connection failures
  MaxMet,         \* bound: kinds of disturbance while one job is selected
  None            \* null

\* "silent_end": the generator ends without a terminal event (time limit of
\*   the stream, or its first read fails);
\* "refresh": the user asks for a REST read beside the stream, or cancels (the
\*   answer is a read);
\* "overlap": a poll takes longer than the polling interval;
\* "switch": the user selects another job;
\* "rerender": the caller passes a new onTerminal with every render.
AllDisturbances == {"silent_end", "refresh", "overlap", "switch", "rerender"}

ASSUME DisturbancesAssumption == Disturbances \subseteq AllDisturbances
ASSUME WatchBoundsAssumption ==
  /\ MaxReconnect \in Nat /\ MaxBreaks \in Nat /\ MaxMet \in Nat
  /\ MaxMark \in Nat \ {0} /\ MaxWire \in Nat \ {0} /\ MaxGets \in Nat \ {0}
ASSUME WatchNoneAssumption == None \notin Jobs

VARIABLES
  phase, tries, shown,   \* the jobs, as in JobLifecycle
  mark,      \* progress of each job
  server,    \* the generator behind the current connection
  wire,      \* events sent and not yet received
  sel,       \* jobId of the hook
  conn,      \* what the hook is waiting for: a stream, a timer, or nothing
  tried,     \* attemptsRef
  ui,        \* status and progress the hook shows, and the job they are of
  terminal,  \* isTerminalRef
  gets,      \* REST reads in flight; state is None until the server has read
  breaks,    \* connection failures so far
  met,       \* history: disturbances met while this job is selected
  told       \* history: the end of the selected job has been on the screen

jobVars    == <<phase, tries, shown, mark>>
serverVars == <<server, wire>>
hookVars   == <<sel, conn, tried, ui, terminal>>
vars       == <<jobVars, serverVars, hookVars, gets, breaks, met, told>>

Job == INSTANCE JobLifecycle

Settled == {"completed", "failed", "cancelled"}
State   == [status : Job!Phases, mark : 0..MaxMark]
Ui      == [job : Jobs, state : State]
Now(j)  == [status |-> phase[j], mark |-> mark[j]]

Kinds   == {"connected", "snapshot", "progress", "terminal"}
Event   == [kind : Kinds, job : Jobs, state : State]
EventAt(kind, j) == [kind |-> kind, job |-> j, state |-> Now(j)]

NoServer == [pc |-> "none", job |-> None, last |-> None]

TypeOK ==
  /\ Job!LifecycleTypeOK
  /\ mark \in [Jobs -> 0..MaxMark]
  /\ server \in [pc : {"none", "opening", "streaming", "ended"}, job : Jobs \cup {None},
                 last : State \cup {None}]
  /\ wire \in Seq(Event)
  /\ sel \in Jobs \cup {None}
  /\ conn \in {"none", "open", "retry", "polling"}
  /\ tried \in 0..MaxReconnect
  /\ ui \in Ui \cup {None}
  /\ terminal \in BOOLEAN
  /\ gets \in SUBSET [job : Jobs, state : State \cup {None}]
  /\ breaks \in 0..MaxBreaks
  /\ met \subseteq Disturbances
  /\ told \in BOOLEAN

Meet(disturbance) ==
  /\ disturbance \in Disturbances
  /\ met' = met \cup {disturbance}
  /\ Cardinality(met') <= MaxMet

Init ==
  /\ Job!LifecycleInit
  /\ mark = [j \in Jobs |-> 0]
  /\ server = NoServer /\ wire = <<>>
  /\ sel = None /\ conn = "none" /\ tried = 0 /\ ui = None /\ terminal = FALSE
  /\ gets = {} /\ breaks = 0 /\ met = {} /\ told = FALSE

-----------------------------------------------------------------------------
(* The job.  Its progress, in marks above the start of the attempt, restarts *)
(* with every change of status but the failure.                              *)

MoveJob ==
  /\ Job!LifecycleNext
  /\ mark' = [j \in Jobs |->
       CASE phase'[j] = phase[j] -> mark[j]
         [] phase'[j] = "completed" -> MaxMark
         [] phase'[j] = "failed" -> mark[j]
         [] OTHER -> 0]
  /\ UNCHANGED <<serverVars, hookVars, gets, breaks, met, told>>

Progress(j) ==
  /\ phase[j] = "running" /\ mark[j] < MaxMark
  /\ mark' = [mark EXCEPT ![j] = @ + 1]
  /\ UNCHANGED <<phase, tries, shown, serverVars, hookVars, gets, breaks, met, told>>

-----------------------------------------------------------------------------
(* stream_investigation_events.  A read that fails is retried at the next   *)
(* poll, and a poll that finds no change sends at most a comment line.      *)

Send(events, pc) ==
  /\ wire' = wire \o events
  /\ server' = [server EXCEPT !.pc = pc, !.last = Now(server.job)]

OpenStream ==
  LET j == server.job IN
  /\ server.pc = "opening"
  /\ IF phase[j] \in Settled
     THEN Send(<<EventAt("connected", j), EventAt("snapshot", j), EventAt("terminal", j)>>, "ended")
     ELSE Send(<<EventAt("connected", j), EventAt("snapshot", j)>>, "streaming")
  /\ UNCHANGED <<jobVars, hookVars, gets, breaks, met, told>>

\* Mutant: a change is seen by its progress only.
PollJobByProgress ==
  LET j == server.job IN
  /\ server.pc = "streaming"
  /\ Len(wire) < MaxWire
  /\ mark[j] # server.last.mark
  /\ IF phase[j] \in Settled THEN Send(<<EventAt("terminal", j)>>, "ended")
                             ELSE Send(<<EventAt("progress", j)>>, "streaming")
  /\ UNCHANGED <<jobVars, hookVars, gets, breaks, met, told>>

PollJob ==
  LET j == server.job IN
  /\ server.pc = "streaming"
  /\ Len(wire) < MaxWire
  /\ Now(j) # server.last
  /\ IF phase[j] \in Settled THEN Send(<<EventAt("terminal", j)>>, "ended")
                             ELSE Send(<<EventAt("progress", j)>>, "streaming")
  /\ UNCHANGED <<jobVars, hookVars, gets, breaks, met, told>>

EndSilently ==
  /\ Meet("silent_end")
  /\ server.pc \in {"opening", "streaming"}
  /\ server' = [server EXCEPT !.pc = "ended"]
  /\ UNCHANGED <<jobVars, wire, hookVars, gets, breaks, told>>

-----------------------------------------------------------------------------
(* useInvestigationStream.                                                  *)

Get(j) == [job |-> j, state |-> None]

\* REST reads the hook starts, in addition to those in flight.
Start(reads) == gets' = gets \cup reads

\* Mutant: the old stream is not aborted.
ConnectBesideOldStream(j) ==
  /\ server' = [pc |-> "opening", job |-> j, last |-> None]
  /\ UNCHANGED wire
  /\ conn' = "open"

\* connect: a new request replaces the stream there is.
Connect(j) ==
  /\ server' = [pc |-> "opening", job |-> j, last |-> None]
  /\ wire' = <<>>
  /\ conn' = "open"

\* applyPayload and applyJobState; the end of the job clears the timers.
Apply(j, state) ==
  /\ ui' = [job |-> j, state |-> state]
  /\ terminal' = (terminal \/ state.status \in Settled)
  /\ told' = (told \/ (j = sel /\ state.status \in Settled))
  /\ conn' = IF state.status \in Settled /\ conn \in {"retry", "polling"} THEN "none" ELSE conn

\* The effect on jobId: forget everything, abort the stream, connect.  The
\* aborted request ends in onComplete, which re-reads the job it was for.
ResetFor(j) ==
  /\ sel' = j
  /\ Connect(j)
  /\ tried' = 0 /\ ui' = None /\ terminal' = FALSE /\ told' = FALSE
  /\ Start(IF conn = "open" THEN {Get(sel)} ELSE {})

\* Bound: the jobs are alike, so one of them is the first to be selected.
Select(j) ==
  /\ sel # j
  /\ sel = None => j = CHOOSE k \in Jobs : TRUE
  /\ sel = None \/ "switch" \in Disturbances
  /\ phase[j] # "absent"
  /\ Cardinality(gets) < MaxGets
  /\ ResetFor(j)
  /\ met' = IF sel = None THEN {} ELSE {"switch"}
  /\ UNCHANGED <<jobVars, breaks>>

\* Each render brings a new onTerminal, so a new connect, so the effect runs
\* again.  A reset that changes nothing renders nothing.
Rerender ==
  /\ Meet("rerender")
  /\ ui # None
  /\ Cardinality(gets) < MaxGets
  /\ ResetFor(sel)
  /\ UNCHANGED <<jobVars, breaks>>

Receive ==
  /\ conn = "open" /\ wire # <<>>
  /\ Apply(Head(wire).job, Head(wire).state)
  /\ wire' = Tail(wire)
  /\ tried' = IF Head(wire).kind = "connected" THEN 0 ELSE tried
  /\ UNCHANGED <<jobVars, server, sel, gets, breaks, met>>

\* onComplete: without a terminal event the job is read once more.
StreamEnds ==
  /\ conn = "open" /\ wire = <<>> /\ server.pc = "ended"
  /\ Cardinality(gets) < MaxGets
  /\ conn' = "none"
  /\ Start(IF terminal THEN {} ELSE {Get(sel)})
  /\ UNCHANGED <<jobVars, serverVars, sel, tried, ui, terminal, breaks, met, told>>

\* Mutant: no polling when the reconnections are used up.
StreamBreaksForGood ==
  /\ conn = "open" /\ breaks < MaxBreaks
  /\ breaks' = breaks + 1
  /\ server' = NoServer /\ wire' = <<>>
  /\ IF ~terminal /\ tried < MaxReconnect
     THEN conn' = "retry" /\ tried' = tried + 1
     ELSE conn' = "none" /\ UNCHANGED tried
  /\ UNCHANGED <<jobVars, sel, ui, terminal, gets, met, told>>

\* onError: the request is refused or the connection fails.  Reconnect after
\* a delay, and after MaxReconnect failures in a row poll instead.
StreamBreaks ==
  /\ conn = "open" /\ breaks < MaxBreaks
  /\ breaks' = breaks + 1
  /\ server' = NoServer /\ wire' = <<>>
  /\ \/ terminal /\ conn' = "none" /\ UNCHANGED <<tried, gets>>
     \/ ~terminal /\ tried < MaxReconnect
        /\ conn' = "retry" /\ tried' = tried + 1 /\ UNCHANGED gets
     \/ ~terminal /\ tried = MaxReconnect
        /\ conn' = "polling" /\ Start({Get(sel)}) /\ UNCHANGED tried
  /\ UNCHANGED <<jobVars, sel, ui, terminal, met, told>>

Reconnect ==
  /\ conn = "retry" /\ ~terminal
  /\ Connect(sel)
  /\ UNCHANGED <<jobVars, sel, tried, ui, terminal, gets, breaks, met, told>>

PollTick ==
  /\ conn = "polling" /\ ~terminal
  /\ IF gets = {} THEN UNCHANGED met ELSE Meet("overlap")
  /\ Cardinality(gets) < MaxGets
  /\ Start({Get(sel)})
  /\ UNCHANGED <<jobVars, serverVars, hookVars, breaks, told>>

Refresh ==
  /\ Meet("refresh")
  /\ sel # None
  /\ Cardinality(gets) < MaxGets
  /\ Start({Get(sel)})
  /\ UNCHANGED <<jobVars, serverVars, hookVars, breaks, told>>

\* GET /investigations/{id} reads the row; later its response arrives.
ReadJob ==
  /\ \E g \in gets :
       /\ g.state = None
       /\ gets' = (gets \ {g}) \cup {[g EXCEPT !.state = Now(g.job)]}
  /\ UNCHANGED <<jobVars, serverVars, hookVars, breaks, met, told>>

Respond ==
  /\ \E g \in gets :
       /\ g.state # None
       /\ gets' = gets \ {g}
       /\ Apply(g.job, g.state)
  /\ UNCHANGED <<jobVars, serverVars, sel, tried, breaks, met>>

\* A REST read fails: the hook only keeps the message.
GetFails ==
  /\ breaks < MaxBreaks
  /\ breaks' = breaks + 1
  /\ \E g \in gets : gets' = gets \ {g}
  /\ UNCHANGED <<jobVars, serverVars, hookVars, met, told>>

-----------------------------------------------------------------------------

ServerStep == OpenStream \/ PollJob
HookStep   == Receive \/ StreamEnds \/ Reconnect \/ PollTick \/ ReadJob \/ Respond

Next ==
  \/ MoveJob \/ \E j \in Jobs : Progress(j)
  \/ ServerStep \/ EndSilently
  \/ \E j \in Jobs : Select(j)
  \/ HookStep \/ Rerender \/ Refresh \/ StreamBreaks \/ GetFails

Spec == Init /\ [][Next]_vars

\* The generator polls on, the browser runs its timers and delivers what
\* arrives.  Jobs, users and failures owe nothing.
WatchFairness ==
  /\ WF_vars(OpenStream) /\ WF_vars(PollJob)
  /\ WF_vars(Receive) /\ WF_vars(StreamEnds) /\ WF_vars(Reconnect)
  /\ WF_vars(PollTick) /\ WF_vars(ReadJob) /\ WF_vars(Respond)

FairSpec == Spec /\ WatchFairness

-----------------------------------------------------------------------------
(* Properties, each with the disturbances it does not survive.              *)

\* The stream behind the screen is of the selected job: aborting the old
\* connection leaves none of its events behind.
StreamIsOfSelected ==
  /\ conn = "open" => server.job = sel
  /\ \A n \in DOMAIN wire : wire[n].job = sel

\* Until the end of the selected job has been shown, the hook waits for a
\* stream, a timer or a response: it never stops watching, unless a stream ended
\* without saying why, or a connection failed after a switch.
NeverStranded ==
  sel # None /\ ~told =>
    \/ conn # "none" \/ gets # {}
    \/ "silent_end" \in met
    \/ "switch" \in met /\ breaks > 0

\* The end of the selected job reaches the screen, through reconnections, the
\* polling fallback, refreshes, new renders and switches, but for the two cases
\* NeverStranded names.
EndIsShown ==
  \A j \in Jobs :
    sel = j /\ phase[j] \in Settled
      ~> \/ sel # j \/ told
         \/ "silent_end" \in met
         \/ "switch" \in met /\ breaks > 0
=============================================================================
