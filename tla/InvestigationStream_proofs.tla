---------------------- MODULE InvestigationStream_proofs ----------------------
(***************************************************************************)
(* Machine-checked facts about InvestigationStream, for every number of    *)
(* jobs, reconnections, connection failures, reads and disturbances.       *)
(***************************************************************************)
EXTENDS InvestigationStream, TLAPS

-----------------------------------------------------------------------------
(* Type correctness of what the watching depends on: TypeOK but for the     *)
(* attempts and results of the jobs, which JobLifecycle keeps to itself.    *)

Read   == [job : Jobs, state : State \cup {None}]
Server == [pc : {"none", "opening", "streaming", "ended"}, job : Jobs \cup {None},
           last : State \cup {None}]

JobsTyped == phase \in [Jobs -> Job!Phases] /\ mark \in [Jobs -> 0..MaxMark]
HookTyped ==
  /\ sel \in Jobs \cup {None}
  /\ conn \in {"none", "open", "retry", "polling"}
  /\ tried \in 0..MaxReconnect
  /\ ui \in Ui \cup {None}
  /\ terminal \in BOOLEAN
  /\ told \in BOOLEAN
WireTyped == server \in Server /\ wire \in Seq(Event)
RestTyped == gets \in SUBSET Read /\ breaks \in 0..MaxBreaks /\ met \in SUBSET Disturbances

WatchTyped == JobsTyped /\ HookTyped /\ WireTyped /\ RestTyped

\* A generator that polls has a job; before the first selection the hook waits
\* for nothing and shows nothing.
Serving  == server.pc \in {"opening", "streaming"} => server.job \in Jobs
Watching == sel = None => conn = "none" /\ gets = {} /\ ui = None

TypeInv == WatchTyped /\ Serving /\ Watching

LEMMA NowTyped == ASSUME JobsTyped, NEW j \in Jobs PROVE Now(j) \in State
BY DEF JobsTyped, Now, State

LEMMA EventTyped ==
  ASSUME JobsTyped, NEW j \in Jobs, NEW kind \in Kinds
  PROVE  EventAt(kind, j) \in Event
BY NowTyped DEF EventAt, Event

LEMMA InitTyped == Init => TypeInv
<1> SUFFICES ASSUME Init PROVE TypeInv
  OBVIOUS
<1> USE WatchBoundsAssumption DEF Init
<1>1. JobsTyped
  BY DEF JobsTyped, Job!LifecycleInit, Job!Phases
<1>2. HookTyped
  <2>1. tried \in 0..MaxReconnect /\ sel \in Jobs \cup {None} /\ conn = "none" /\ ui = None
    OBVIOUS
  <2>2. terminal \in BOOLEAN /\ told \in BOOLEAN
    BY Zenon
  <2> QED BY <2>1, <2>2 DEF HookTyped
<1>3. WireTyped /\ Serving /\ Watching
  BY DEF WireTyped, Server, NoServer, Serving, Watching
<1>4. RestTyped
  BY DEF RestTyped
<1> QED BY <1>1, <1>2, <1>3, <1>4 DEF TypeInv, WatchTyped

LEMMA MoveTyped == ASSUME JobsTyped, MoveJob PROVE JobsTyped'
<1> USE DEF JobsTyped
<1>1. phase' \in [Jobs -> Job!Phases]
  <2>1. ASSUME NEW j \in Jobs, NEW from, NEW to \in Job!Phases, Job!Move(j, from, to)
        PROVE  phase' \in [Jobs -> Job!Phases]
    BY <2>1 DEF Job!Move
  <2>2. ASSUME NEW S \in SUBSET Jobs, Job!Reclaim(S) PROVE phase' \in [Jobs -> Job!Phases]
    BY <2>2 DEF Job!Reclaim, Job!Phases
  <2> QED BY <2>1, <2>2 DEF MoveJob, Job!LifecycleNext, Job!Submit, Job!Cancel, Job!Start,
             Job!Complete, Job!Fail, Job!Phases
<1>2. mark' \in [Jobs -> 0..MaxMark]
  BY WatchBoundsAssumption DEF MoveJob
<1> QED BY <1>1, <1>2

LEMMA SendTyped ==
  ASSUME JobsTyped, WireTyped, server.job \in Jobs,
         NEW events \in Seq(Event), NEW pc \in {"streaming", "ended"}, Send(events, pc)
  PROVE  WireTyped' /\ Serving'
<1>1. Now(server.job) \in State
  BY NowTyped
<1>2. server' \in Server /\ server'.job \in Jobs
  BY <1>1 DEF Send, WireTyped, Server
<1>3. wire' \in Seq(Event)
  BY DEF Send, WireTyped
<1> QED BY <1>2, <1>3 DEF WireTyped, Serving

LEMMA ConnectTyped ==
  ASSUME TypeInv, NEW j \in Jobs, Connect(j)
  PROVE  WireTyped' /\ Serving' /\ conn' = "open"
BY DEF Connect, WireTyped, Serving, Server

LEMMA ApplyTyped ==
  ASSUME HookTyped, NEW j \in Jobs, NEW state \in State, Apply(j, state), UNCHANGED sel,
         tried' \in 0..MaxReconnect
  PROVE  HookTyped'
<1>1. ui' \in Ui /\ conn' \in {"none", "open", "retry", "polling"}
  BY DEF Apply, HookTyped, Ui
<1>2. terminal' \in BOOLEAN /\ told' \in BOOLEAN
  BY Zenon DEF Apply, HookTyped
<1> QED BY <1>1, <1>2 DEF HookTyped

LEMMA ResetTyped ==
  ASSUME TypeInv, NEW j \in Jobs, ResetFor(j)
  PROVE  HookTyped' /\ WireTyped' /\ Serving' /\ Watching' /\ gets' \in SUBSET Read
<1>1. WireTyped' /\ Serving' /\ conn' = "open"
  BY ConnectTyped DEF ResetFor
<1>2. tried' = 0 /\ ui' = None /\ terminal' = FALSE /\ told' = FALSE /\ sel' = j
  BY DEF ResetFor
<1>3. HookTyped' /\ Watching'
  <2>1. terminal' \in BOOLEAN /\ told' \in BOOLEAN
    BY <1>2, Zenon
  <2>2. tried' \in 0..MaxReconnect /\ sel' # None
    BY <1>2, WatchBoundsAssumption, WatchNoneAssumption
  <2> QED BY <1>1, <1>2, <2>1, <2>2 DEF HookTyped, Watching
<1>4. gets' \in SUBSET Read
  <2>1. \A k \in Jobs : Get(k) \in Read
    BY DEF Get, Read
  <2>2. conn = "open" => sel \in Jobs
    BY DEF TypeInv, WatchTyped, HookTyped, Watching
  <2> QED BY <2>1, <2>2 DEF ResetFor, Start, TypeInv, WatchTyped, RestTyped
<1> QED BY <1>1, <1>3, <1>4

LEMMA TypeStep ==
  ASSUME TypeInv, [Next]_vars
  PROVE  TypeInv'
<1> USE DEF jobVars, serverVars, hookVars
<1>0. JobsTyped /\ HookTyped /\ WireTyped /\ RestTyped /\ Serving /\ Watching
  BY DEF TypeInv, WatchTyped
<1>a. ASSUME UNCHANGED jobVars PROVE JobsTyped'
  BY <1>0, <1>a DEF JobsTyped
<1>b. ASSUME UNCHANGED serverVars PROVE WireTyped' /\ Serving'
  BY <1>0, <1>b DEF WireTyped, Serving
<1>c. ASSUME UNCHANGED <<hookVars, told>> PROVE HookTyped'
  BY <1>0, <1>c DEF HookTyped
<1>h. ASSUME UNCHANGED <<hookVars, gets>> PROVE Watching'
  BY <1>0, <1>h DEF Watching
<1>i. sel # None => sel \in Jobs
  BY <1>0 DEF HookTyped
<1>j. ASSUME sel # None, sel' = sel PROVE Watching'
  BY <1>j DEF Watching
<1>d. ASSUME UNCHANGED <<gets, breaks, met>> PROVE RestTyped'
  BY <1>0, <1>d DEF RestTyped
<1>e. ASSUME NEW disturbance, Meet(disturbance) PROVE met' \in SUBSET Disturbances
  BY <1>0, <1>e DEF Meet, RestTyped
<1>f. \A k \in Jobs : Get(k) \in Read
  BY DEF Get, Read
<1>g. ASSUME breaks < MaxBreaks, breaks' = breaks + 1 PROVE breaks' \in 0..MaxBreaks
  BY <1>0, <1>g, WatchBoundsAssumption DEF RestTyped
<1>1. CASE UNCHANGED vars
  BY <1>1, <1>a, <1>b, <1>c, <1>d, <1>h DEF vars, TypeInv, WatchTyped
<1>2. CASE MoveJob
  BY <1>0, <1>2, <1>b, <1>c, <1>d, <1>h, MoveTyped DEF MoveJob, TypeInv, WatchTyped
<1>3. ASSUME NEW j \in Jobs, Progress(j) PROVE TypeInv'
  <2>1. JobsTyped'
    BY <1>0, <1>3, WatchBoundsAssumption DEF Progress, JobsTyped
  <2> QED BY <1>3, <1>b, <1>c, <1>d, <1>h, <2>1 DEF Progress, TypeInv, WatchTyped
<1>4. CASE OpenStream \/ PollJob
  <2>1. server.job \in Jobs
    BY <1>0, <1>4 DEF OpenStream, PollJob, Serving
  <2>2. WireTyped' /\ Serving'
    <3>1. EventAt("connected", server.job) \in Event /\ EventAt("snapshot", server.job) \in Event
          /\ EventAt("progress", server.job) \in Event /\ EventAt("terminal", server.job) \in Event
      BY <1>0, <2>1, EventTyped DEF Kinds
    <3>2. CASE OpenStream
      <4>1. \/ Send(<<EventAt("connected", server.job), EventAt("snapshot", server.job),
                     EventAt("terminal", server.job)>>, "ended")
            \/ Send(<<EventAt("connected", server.job), EventAt("snapshot", server.job)>>, "streaming")
        BY <3>2, Zenon DEF OpenStream
      <4> DEFINE three == <<EventAt("connected", server.job), EventAt("snapshot", server.job),
                            EventAt("terminal", server.job)>>
                 two   == <<EventAt("connected", server.job), EventAt("snapshot", server.job)>>
      <4>2. three \in Seq(Event) /\ two \in Seq(Event)
        BY <3>1
      <4>3. ASSUME Send(three, "ended") PROVE WireTyped' /\ Serving'
        <5> HIDE DEF three
        <5> QED BY <1>0, <2>1, <4>2, <4>3, SendTyped
      <4>4. ASSUME Send(two, "streaming") PROVE WireTyped' /\ Serving'
        <5> HIDE DEF two
        <5> QED BY <1>0, <2>1, <4>2, <4>4, SendTyped
      <4> QED BY <4>1, <4>3, <4>4
    <3>3. CASE PollJob
      <4> DEFINE one(kind) == <<EventAt(kind, server.job)>>
      <4>1. Send(one("terminal"), "ended") \/ Send(one("progress"), "streaming")
        BY <3>3, Zenon DEF PollJob
      <4>2. one("terminal") \in Seq(Event) /\ one("progress") \in Seq(Event)
        BY <3>1
      <4> HIDE DEF one
      <4> QED BY <1>0, <2>1, <4>1, <4>2, SendTyped
    <3> QED BY <1>4, <3>2, <3>3
  <2> QED BY <1>4, <1>a, <1>c, <1>d, <1>h, <2>2 DEF OpenStream, PollJob, TypeInv, WatchTyped
<1>5. CASE EndSilently
  <2>1. WireTyped' /\ Serving'
    BY <1>0, <1>5 DEF EndSilently, WireTyped, Server, Serving
  <2>2. RestTyped'
    BY <1>0, <1>5, <1>e DEF EndSilently, RestTyped
  <2> QED BY <1>5, <1>a, <1>c, <1>h, <2>1, <2>2 DEF EndSilently, TypeInv, WatchTyped
<1>6. ASSUME NEW j \in Jobs, Select(j) PROVE TypeInv'
  <2>1. HookTyped' /\ WireTyped' /\ Serving' /\ Watching' /\ gets' \in SUBSET Read
    BY <1>6, ResetTyped DEF Select
  <2>2. met' \in SUBSET Disturbances
    BY <1>6 DEF Select
  <2>3. RestTyped'
    BY <1>0, <1>6, <2>1, <2>2 DEF Select, RestTyped
  <2> QED BY <1>6, <1>a, <2>1, <2>3 DEF Select, TypeInv, WatchTyped
<1>7. CASE Rerender
  <2>1. sel \in Jobs
    BY <1>0, <1>7, <1>i DEF Rerender, Watching
  <2>2. HookTyped' /\ WireTyped' /\ Serving' /\ Watching' /\ gets' \in SUBSET Read
    BY <1>7, <2>1, ResetTyped DEF Rerender
  <2>3. RestTyped'
    BY <1>0, <1>7, <1>e, <2>2 DEF Rerender, RestTyped
  <2> QED BY <1>7, <1>a, <2>2, <2>3 DEF Rerender, TypeInv, WatchTyped
<1>8. CASE Receive
  <2>1. Head(wire) \in Event /\ Tail(wire) \in Seq(Event)
    BY <1>0, <1>8 DEF Receive, WireTyped
  <2>2. HookTyped'
    BY <1>0, <1>8, <2>1, ApplyTyped, WatchBoundsAssumption DEF Receive, Event, HookTyped
  <2>3. WireTyped' /\ Serving'
    BY <1>0, <1>8, <2>1 DEF Receive, WireTyped, Serving
  <2>4. Watching'
    BY <1>0, <1>8, <1>j DEF Receive, Watching
  <2> QED BY <1>8, <1>a, <1>d, <2>2, <2>3, <2>4 DEF Receive, TypeInv, WatchTyped
<1>9. CASE StreamEnds
  <2>1. sel \in Jobs
    BY <1>0, <1>9, <1>i DEF StreamEnds, Watching
  <2>2. HookTyped' /\ Watching'
    BY <1>0, <1>9, <1>j, <2>1, WatchNoneAssumption DEF StreamEnds, HookTyped
  <2>3. RestTyped'
    BY <1>0, <1>9, <1>f, <2>1 DEF StreamEnds, Start, RestTyped
  <2> QED BY <1>9, <1>a, <1>b, <2>2, <2>3 DEF StreamEnds, TypeInv, WatchTyped
<1>10. CASE StreamBreaks
  <2>1. sel \in Jobs /\ sel # None /\ breaks' \in 0..MaxBreaks
    BY <1>0, <1>10, <1>g, <1>i DEF StreamBreaks, Watching
  <2>2. HookTyped' /\ Watching'
    <3>1. tried' \in 0..MaxReconnect /\ conn' \in {"none", "retry", "polling"}
      BY <1>0, <1>10, WatchBoundsAssumption DEF StreamBreaks, HookTyped
    <3> QED BY <1>0, <1>10, <1>j, <2>1, <3>1 DEF StreamBreaks, HookTyped
  <2>3. WireTyped' /\ Serving'
    BY <1>10 DEF StreamBreaks, WireTyped, Server, Serving, NoServer
  <2>4. RestTyped'
    BY <1>0, <1>10, <1>f, <2>1 DEF StreamBreaks, Start, RestTyped
  <2> QED BY <1>10, <1>a, <2>2, <2>3, <2>4 DEF StreamBreaks, TypeInv, WatchTyped
<1>11. CASE Reconnect
  <2>1. sel \in Jobs /\ sel # None
    BY <1>0, <1>11, <1>i DEF Reconnect, Watching
  <2>2. WireTyped' /\ Serving' /\ conn' = "open"
    BY <1>11, <2>1, ConnectTyped DEF Reconnect
  <2>3. HookTyped' /\ Watching'
    BY <1>0, <1>11, <1>j, <2>1, <2>2 DEF Reconnect, HookTyped
  <2> QED BY <1>11, <1>a, <1>d, <2>2, <2>3 DEF Reconnect, TypeInv, WatchTyped
<1>12. CASE PollTick \/ Refresh
  <2>1. sel \in Jobs /\ Watching'
    BY <1>0, <1>12, <1>i, <1>j DEF PollTick, Refresh, Watching
  <2>2. RestTyped'
    BY <1>0, <1>12, <1>e, <1>f, <2>1 DEF PollTick, Refresh, Start, RestTyped
  <2> QED BY <1>12, <1>a, <1>b, <1>c, <2>1, <2>2 DEF PollTick, Refresh, TypeInv, WatchTyped
<1>13. CASE ReadJob
  <2>1. PICK g \in gets : gets' = (gets \ {g}) \cup {[g EXCEPT !.state = Now(g.job)]}
    BY <1>13 DEF ReadJob
  <2>2. g \in Read /\ Now(g.job) \in State
    BY <1>0, <2>1, NowTyped DEF RestTyped, Read
  <2>3. [g EXCEPT !.state = Now(g.job)] \in Read
    BY <2>2 DEF Read
  <2>4. RestTyped'
    BY <1>0, <1>13, <2>1, <2>3 DEF ReadJob, RestTyped
  <2>5. Watching'
    BY <1>0, <1>13, <1>j, <2>1 DEF ReadJob, Watching
  <2> QED BY <1>13, <1>a, <1>b, <1>c, <2>4, <2>5 DEF ReadJob, TypeInv, WatchTyped
<1>14. CASE Respond
  <2>1. PICK g \in gets : g.state # None /\ gets' = gets \ {g} /\ Apply(g.job, g.state)
    BY <1>14 DEF Respond
  <2>2. g.job \in Jobs /\ g.state \in State
    BY <1>0, <2>1 DEF RestTyped, Read
  <2>3. HookTyped'
    BY <1>0, <1>14, <2>1, <2>2, ApplyTyped DEF Respond, HookTyped
  <2>4. Watching'
    BY <1>0, <1>14, <1>j, <2>1 DEF Respond, Watching
  <2>5. RestTyped'
    BY <1>0, <1>14, <2>1 DEF Respond, RestTyped
  <2> QED BY <1>14, <1>a, <1>b, <2>3, <2>4, <2>5 DEF Respond, TypeInv, WatchTyped
<1>15. CASE GetFails
  <2>1. RestTyped'
    BY <1>0, <1>15, <1>g DEF GetFails, RestTyped
  <2>2. Watching'
    BY <1>0, <1>15, <1>j DEF GetFails, Watching
  <2> QED BY <1>15, <1>a, <1>b, <1>c, <2>1, <2>2 DEF GetFails, TypeInv, WatchTyped
<1> QED BY <1>1, <1>2, <1>3, <1>4, <1>5, <1>6, <1>7, <1>8, <1>9, <1>10, <1>11, <1>12, <1>13, <1>14, <1>15
        DEF Next, ServerStep, HookStep

\* Events, reads and what the hook shows are of jobs, and whoever polls or waits
\* has a job, whatever fails, ends or is selected.
THEOREM WatchIsTyped == Spec => []TypeInv
BY InitTyped, TypeStep, PTL DEF Spec

-----------------------------------------------------------------------------
(* The stream behind the screen is of the selected job.  Nothing is sent or *)
(* left on the wire once the hook has given the connection up.              *)

HeldStream == conn = "open" => server.job = sel
GivenUp    == conn # "open" => wire = <<>> /\ server.pc \notin {"opening", "streaming"}
WireOfSel  == \A n \in DOMAIN wire : wire[n].job = sel

StreamInv == HeldStream /\ GivenUp /\ WireOfSel

\* A generator that still polls is the one the hook listens to.
LEMMA PollsForHook ==
  ASSUME StreamInv, server.pc \in {"opening", "streaming"}
  PROVE  conn = "open" /\ server.job = sel
BY DEF StreamInv, HeldStream, GivenUp

LEMMA SendOfSel ==
  ASSUME StreamInv, WireTyped, conn = "open", server.job = sel, UNCHANGED <<sel, conn>>,
         NEW events \in Seq(Event), NEW pc, Send(events, pc),
         \A n \in DOMAIN events : events[n].job = sel
  PROVE  StreamInv'
<1>1. HeldStream' /\ GivenUp'
  BY DEF StreamInv, HeldStream, GivenUp, Send, WireTyped, Server
<1>2. WireOfSel'
  <2>1. wire \in Seq(Event) /\ wire' = wire \o events
    BY DEF WireTyped, Send
  <2> SUFFICES ASSUME NEW n \in DOMAIN wire' PROVE wire'[n].job = sel
    BY DEF WireOfSel
  <2>2. CASE n <= Len(wire)
    <3>1. n \in DOMAIN wire /\ wire'[n] = wire[n]
      BY <2>1, <2>2
    <3> QED BY <3>1 DEF StreamInv, WireOfSel
  <2>3. CASE n > Len(wire)
    <3>1. n - Len(wire) \in DOMAIN events /\ wire'[n] = events[n - Len(wire)]
      BY <2>1, <2>3
    <3> QED BY <3>1
  <2> QED BY <2>1, <2>2, <2>3
<1> QED BY <1>1, <1>2 DEF StreamInv

\* What a generator sends: events of its job, the last of which tells the end
\* when it ends by itself.
LEMMA ServerSends ==
  ASSUME TypeInv, ServerStep
  PROVE  \E events \in Seq(Event), pc \in {"streaming", "ended"} :
           /\ Send(events, pc)
           /\ server.pc \in {"opening", "streaming"}
           /\ UNCHANGED <<jobVars, hookVars, gets, breaks, met, told>>
           /\ \A n \in DOMAIN events : events[n].job = server.job
           /\ pc = "ended" => \E n \in DOMAIN events : events[n].state.status \in Settled
<1>1. server.job \in Jobs /\ JobsTyped
  BY DEF ServerStep, OpenStream, PollJob, TypeInv, Serving, WatchTyped
<1>2. \A kind \in Kinds : /\ EventAt(kind, server.job) \in Event
                          /\ EventAt(kind, server.job).job = server.job
                          /\ EventAt(kind, server.job).state.status = phase[server.job]
  <2> TAKE kind \in Kinds
  <2>1. EventAt(kind, server.job) \in Event
    BY <1>1, EventTyped
  <2> QED BY <2>1 DEF EventAt, Now
<1> DEFINE at(kind) == EventAt(kind, server.job)
           three == <<at("connected"), at("snapshot"), at("terminal")>>
           two   == <<at("connected"), at("snapshot")>>
           one(kind) == <<at(kind)>>
           Sent(events, pc) ==
             /\ \A n \in DOMAIN events : events[n].job = server.job
             /\ pc = "ended" => \E n \in DOMAIN events : events[n].state.status \in Settled
<1>3. /\ at("connected") \in Event /\ at("connected").job = server.job
      /\ at("snapshot") \in Event /\ at("snapshot").job = server.job
      /\ at("progress") \in Event /\ at("progress").job = server.job
      /\ at("terminal") \in Event /\ at("terminal").job = server.job
      /\ at("terminal").state.status = phase[server.job]
  BY <1>2 DEF Kinds
<1> HIDE DEF at
<1>4. /\ three \in Seq(Event) /\ two \in Seq(Event)
      /\ one("progress") \in Seq(Event) /\ one("terminal") \in Seq(Event)
  BY <1>3
<1>5. phase[server.job] \in Settled => Sent(three, "ended") /\ Sent(one("terminal"), "ended")
  <2>1. three[3] = at("terminal") /\ 3 \in DOMAIN three
    OBVIOUS
  <2>2. one("terminal")[1] = at("terminal") /\ 1 \in DOMAIN one("terminal")
    OBVIOUS
  <2>3. \A n \in DOMAIN three : three[n].job = server.job
    BY <1>3
  <2>4. \A n \in DOMAIN one("terminal") : one("terminal")[n].job = server.job
    BY <1>3
  <2> QED BY <1>3, <2>1, <2>2, <2>3, <2>4
<1>6. Sent(two, "streaming") /\ Sent(one("progress"), "streaming")
  BY <1>3
<1>7. CASE OpenStream
  <2>1. \/ phase[server.job] \in Settled /\ Send(three, "ended")
        \/ Send(two, "streaming")
    BY <1>7, Zenon DEF OpenStream, at
  <2>2. /\ server.pc \in {"opening", "streaming"}
        /\ UNCHANGED <<jobVars, hookVars, gets, breaks, met, told>>
    BY <1>7, Zenon DEF OpenStream
  <2> HIDE DEF three, two
  <2> QED BY <1>4, <1>5, <1>6, <2>1, <2>2, Zenon
<1>8. CASE PollJob
  <2>1. \/ phase[server.job] \in Settled /\ Send(one("terminal"), "ended")
        \/ Send(one("progress"), "streaming")
    BY <1>8, Zenon DEF PollJob, at
  <2>2. /\ server.pc \in {"opening", "streaming"}
        /\ UNCHANGED <<jobVars, hookVars, gets, breaks, met, told>>
    BY <1>8, Zenon DEF PollJob
  <2> HIDE DEF one
  <2> QED BY <1>4, <1>5, <1>6, <2>1, <2>2, Zenon
<1> QED BY <1>7, <1>8 DEF ServerStep

LEMMA StreamStep ==
  ASSUME TypeInv, StreamInv, [Next]_vars
  PROVE  StreamInv'
<1> USE DEF jobVars, serverVars, hookVars
<1>0. WireTyped /\ HeldStream /\ GivenUp /\ WireOfSel
  BY DEF TypeInv, WatchTyped, StreamInv
<1>a. ASSUME UNCHANGED <<serverVars, sel, conn>> PROVE StreamInv'
  BY <1>0, <1>a DEF StreamInv, HeldStream, GivenUp, WireOfSel
<1>b. ASSUME NEW j, sel' = j, Connect(j) PROVE StreamInv'
  BY <1>b DEF Connect, StreamInv, HeldStream, GivenUp, WireOfSel
<1>c. ASSUME conn' # "open", wire' = <<>>, server'.pc \notin {"opening", "streaming"} PROVE StreamInv'
  BY <1>c DEF StreamInv, HeldStream, GivenUp, WireOfSel
<1>1. CASE \/ UNCHANGED vars \/ MoveJob \/ \E j \in Jobs : Progress(j)
           \/ Refresh \/ PollTick \/ ReadJob \/ GetFails
  BY <1>1, <1>a DEF vars, MoveJob, Progress, Refresh, PollTick, ReadJob, GetFails
<1>2. CASE ServerStep
  <2>1. PICK events \in Seq(Event), pc \in {"streaming", "ended"} :
          /\ Send(events, pc)
          /\ server.pc \in {"opening", "streaming"}
          /\ UNCHANGED <<jobVars, hookVars, gets, breaks, met, told>>
          /\ \A n \in DOMAIN events : events[n].job = server.job
    BY <1>2, ServerSends
  <2>2. conn = "open" /\ server.job = sel
    BY <2>1, PollsForHook
  <2> QED BY <1>0, <2>1, <2>2, SendOfSel
<1>3. CASE EndSilently
  BY <1>0, <1>3 DEF EndSilently, WireTyped, Server, StreamInv, HeldStream, GivenUp, WireOfSel
<1>4. CASE (\E j \in Jobs : Select(j)) \/ Rerender
  BY <1>4, <1>b DEF Select, Rerender, ResetFor
<1>5. CASE Reconnect
  BY <1>5, <1>b DEF Reconnect
<1>6. CASE Receive
  <2>1. wire \in Seq(Event) /\ wire # <<>> /\ wire' = Tail(wire) /\ conn = "open" /\ UNCHANGED <<server, sel>>
    BY <1>0, <1>6 DEF Receive, WireTyped
  <2>2. conn' = "open"
    BY <1>6 DEF Receive, Apply
  <2>3. WireOfSel'
    <3>1. \A n \in DOMAIN Tail(wire) : n + 1 \in DOMAIN wire /\ Tail(wire)[n] = wire[n + 1]
      BY <2>1
    <3> QED BY <1>0, <2>1, <3>1 DEF WireOfSel
  <2> QED BY <1>0, <2>1, <2>2, <2>3 DEF StreamInv, HeldStream, GivenUp
<1>7. CASE StreamEnds
  BY <1>7, <1>c DEF StreamEnds
<1>8. CASE StreamBreaks
  BY <1>8, <1>c DEF StreamBreaks, NoServer
<1>9. CASE Respond
  <2>1. UNCHANGED <<serverVars, sel>> /\ (conn' = conn \/ (conn # "open" /\ conn' = "none"))
    BY <1>9 DEF Respond, Apply
  <2> QED BY <1>0, <2>1, <1>a, <1>c DEF GivenUp
<1> QED BY <1>1, <1>2, <1>3, <1>4, <1>5, <1>6, <1>7, <1>8, <1>9 DEF Next, HookStep

\* The stream behind the screen, and every event still on its way, is of the job
\* that is selected, through switches, new renders, failures and reconnections.
THEOREM StreamFollowsSelection == Spec => []StreamIsOfSelected
<1>1. Init => StreamInv
  BY DEF Init, NoServer, StreamInv, HeldStream, GivenUp, WireOfSel
<1>2. StreamInv => StreamIsOfSelected
  BY DEF StreamInv, HeldStream, WireOfSel, StreamIsOfSelected
<1>3. Spec => []TypeInv
  BY WatchIsTyped
<1> QED BY <1>1, <1>2, <1>3, StreamStep, PTL DEF Spec

-----------------------------------------------------------------------------
(* The hook stops waiting only for a reason.  What it reads besides the     *)
(* stream is of the selected job, what it takes for the end has been shown, *)
(* a timer runs only after a failure, and a stream that ended by itself has *)
(* told the end or still carries it.  Only a switch spoils the first two.   *)

ReadsOfSel    == \A g \in gets : g.job = sel \/ "switch" \in met
EndWasShown   == terminal => told \/ "switch" \in met
TimersBroke   == conn \in {"retry", "polling"} => breaks > 0
CarriesTheEnd ==
  conn = "open" /\ server.pc = "ended" =>
    \/ told \/ "silent_end" \in met
    \/ \E n \in DOMAIN wire : wire[n].state.status \in Settled
StoppedForReason ==
  sel # None /\ ~told /\ conn = "none" =>
    "silent_end" \in met \/ ("switch" \in met /\ breaks > 0)

WatchInv == ReadsOfSel /\ EndWasShown /\ TimersBroke /\ CarriesTheEnd /\ StoppedForReason

\* Applying an answer, or an event, of the job that is selected.
LEMMA ApplyOfSel ==
  ASSUME NEW j, NEW state, Apply(j, state), HookTyped, EndWasShown, UNCHANGED met,
         j = sel \/ "switch" \in met
  PROVE  /\ EndWasShown'
         /\ told => told'
         /\ state.status \in Settled => told' \/ "switch" \in met
         /\ state.status \in Settled /\ j = sel => told'
         /\ \/ conn' = conn
            \/ state.status \in Settled /\ conn \in {"retry", "polling"} /\ conn' = "none"
<1>1. told' <=> (told \/ (j = sel /\ state.status \in Settled))
  BY Zenon DEF Apply, HookTyped
<1>2. terminal' <=> (terminal \/ state.status \in Settled)
  BY Zenon DEF Apply, HookTyped
<1>3. \/ conn' = conn
      \/ state.status \in Settled /\ conn \in {"retry", "polling"} /\ conn' = "none"
  BY Zenon DEF Apply
<1> QED BY <1>1, <1>2, <1>3, Zenon DEF EndWasShown

LEMMA ResetInv ==
  ASSUME TypeInv, WatchInv, NEW j \in Jobs, ResetFor(j), UNCHANGED breaks,
         \/ j = sel /\ met \subseteq met'
         \/ sel # None /\ "switch" \in met'
         \/ sel = None
  PROVE  WatchInv'
<1>1. conn' = "open" /\ server'.pc = "opening" /\ terminal' = FALSE /\ sel' = j
  BY DEF ResetFor, Connect
<1>2. ReadsOfSel'
  <2>1. sel = None => gets' = {}
    BY DEF TypeInv, Watching, ResetFor, Start
  <2>2. gets' \subseteq gets \cup {Get(sel)}
    BY DEF ResetFor, Start
  <2>3. Get(sel).job = sel
    BY DEF Get
  <2> QED BY <1>1, <2>1, <2>2, <2>3 DEF WatchInv, ReadsOfSel
<1> QED BY <1>1, <1>2 DEF WatchInv, EndWasShown, TimersBroke, CarriesTheEnd, StoppedForReason

LEMMA WatchStep ==
  ASSUME TypeInv, StreamInv, WatchInv, [Next]_vars
  PROVE  WatchInv'
<1> USE DEF jobVars, serverVars, hookVars
<1>0. /\ HookTyped /\ WireTyped /\ RestTyped /\ breaks \in Nat
      /\ ReadsOfSel /\ EndWasShown /\ TimersBroke /\ CarriesTheEnd /\ StoppedForReason
  BY WatchBoundsAssumption DEF TypeInv, WatchTyped, RestTyped, WatchInv
<1> DEFINE Grown == gets' \subseteq gets \cup {Get(sel)} /\ met \subseteq met' /\ breaks' = breaks
<1>a. ASSUME Grown, sel' = sel PROVE ReadsOfSel'
  <2>1. Get(sel).job = sel
    BY DEF Get
  <2> QED BY <1>0, <1>a, <2>1 DEF ReadsOfSel
<1>b. ASSUME Grown, UNCHANGED <<hookVars, told, serverVars>> PROVE WatchInv'
  <2>1. ReadsOfSel'
    BY <1>a, <1>b
  <2>2. EndWasShown' /\ StoppedForReason'
    BY <1>0, <1>b, Zenon DEF EndWasShown, StoppedForReason
  <2>3. TimersBroke' /\ CarriesTheEnd'
    BY <1>0, <1>b, Zenon DEF TimersBroke, CarriesTheEnd
  <2> QED BY <2>1, <2>2, <2>3 DEF WatchInv
<1>1. CASE UNCHANGED vars \/ MoveJob \/ \E j \in Jobs : Progress(j)
  BY <1>1, <1>b DEF vars, MoveJob, Progress
<1>2. CASE PollTick \/ Refresh
  BY <1>2, <1>b DEF PollTick, Refresh, Meet, Start
<1>3. CASE ServerStep
  <2>1. PICK events \in Seq(Event), pc \in {"streaming", "ended"} :
          /\ Send(events, pc)
          /\ UNCHANGED <<hookVars, gets, breaks, met, told>>
          /\ pc = "ended" => \E n \in DOMAIN events : events[n].state.status \in Settled
    BY <1>3, ServerSends
  <2>2. CarriesTheEnd'
    <3>1. wire \in Seq(Event) /\ wire' = wire \o events /\ server'.pc = pc
      BY <1>0, <2>1 DEF WireTyped, Server, Send
    <3>2. \A n \in DOMAIN events : Len(wire) + n \in DOMAIN wire' /\ wire'[Len(wire) + n] = events[n]
      BY <3>1
    <3> QED BY <2>1, <3>1, <3>2 DEF CarriesTheEnd
  <2> QED BY <1>0, <2>1, <2>2 DEF WatchInv, ReadsOfSel, EndWasShown, TimersBroke, StoppedForReason
<1>4. CASE EndSilently
  BY <1>0, <1>4 DEF EndSilently, Meet, WatchInv, ReadsOfSel, EndWasShown, TimersBroke, CarriesTheEnd,
                    StoppedForReason
<1>5. ASSUME NEW j \in Jobs, Select(j) PROVE WatchInv'
  BY <1>5, ResetInv DEF Select
<1>6. CASE Rerender
  <2>1. sel \in Jobs
    BY <1>0, <1>6 DEF Rerender, HookTyped, TypeInv, Watching
  <2> QED BY <1>6, <2>1, ResetInv DEF Rerender, Meet
<1>7. CASE Receive
  <2>1. /\ conn = "open" /\ wire # <<>> /\ wire \in Seq(Event) /\ wire' = Tail(wire)
        /\ Apply(Head(wire).job, Head(wire).state)
        /\ UNCHANGED <<server, sel, gets, breaks, met>>
    BY <1>0, <1>7 DEF Receive, WireTyped
  <2>2. Head(wire).job = sel
    BY <2>1 DEF StreamInv, WireOfSel
  <2>3. /\ EndWasShown' /\ conn' = "open" /\ (told => told')
        /\ Head(wire).state.status \in Settled => told'
    BY <1>0, <2>1, <2>2, ApplyOfSel
  <2>4. CarriesTheEnd'
    <3>1. ASSUME NEW n \in DOMAIN wire, wire[n].state.status \in Settled
          PROVE  told' \/ \E m \in DOMAIN wire' : wire'[m].state.status \in Settled
      <4>1. CASE n = 1
        BY <2>1, <2>3, <3>1, <4>1
      <4>2. CASE n # 1
        <5>1. n - 1 \in DOMAIN Tail(wire) /\ Tail(wire)[n - 1] = wire[n]
          BY <2>1, <4>2
        <5> QED BY <2>1, <3>1, <5>1
      <4> QED BY <4>1, <4>2
    <3> QED BY <1>0, <2>1, <2>3, <3>1, Zenon DEF CarriesTheEnd
  <2> QED BY <1>0, <2>1, <2>3, <2>4 DEF WatchInv, ReadsOfSel, TimersBroke, StoppedForReason
<1>8. CASE StreamEnds
  <2>1. Grown /\ sel' = sel
    BY <1>8 DEF StreamEnds, Start
  <2>2. told' \/ "silent_end" \in met'
    BY <1>0, <1>8 DEF StreamEnds, CarriesTheEnd
  <2>3. EndWasShown' /\ conn' = "none"
    BY <1>0, <1>8, Zenon DEF StreamEnds, EndWasShown
  <2> QED BY <1>a, <2>1, <2>2, <2>3 DEF WatchInv, TimersBroke, CarriesTheEnd, StoppedForReason
<1>9. CASE StreamBreaks
  <2>1. gets' \subseteq gets \cup {Get(sel)} /\ breaks' > 0 /\ UNCHANGED <<sel, terminal, met, told>>
    BY <1>0, <1>9 DEF StreamBreaks, Start
  <2>2. conn' = "none" => terminal
    BY <1>9, Zenon DEF StreamBreaks
  <2>3. conn' # "open"
    BY <1>9 DEF StreamBreaks
  <2>4. ReadsOfSel'
    <3>1. Get(sel).job = sel
      BY DEF Get
    <3> QED BY <1>0, <2>1, <3>1 DEF ReadsOfSel
  <2> QED BY <1>0, <2>1, <2>2, <2>3, <2>4 DEF WatchInv, EndWasShown, TimersBroke, CarriesTheEnd,
                                              StoppedForReason
<1>10. CASE Reconnect
  BY <1>0, <1>10 DEF Reconnect, Connect, WatchInv, ReadsOfSel, EndWasShown, TimersBroke, CarriesTheEnd,
                     StoppedForReason
<1>11. CASE ReadJob
  <2>1. PICK g \in gets : gets' = (gets \ {g}) \cup {[g EXCEPT !.state = Now(g.job)]}
    BY <1>11 DEF ReadJob
  <2>2. [g EXCEPT !.state = Now(g.job)].job = g.job
    BY <1>0, <2>1 DEF RestTyped, Read
  <2>3. ReadsOfSel'
    BY <1>0, <1>11, <2>1, <2>2 DEF ReadJob, ReadsOfSel
  <2> QED BY <1>0, <1>11, <2>3 DEF ReadJob, WatchInv, EndWasShown, TimersBroke, CarriesTheEnd,
                                   StoppedForReason
<1>12. CASE Respond
  <2>1. PICK g \in gets : gets' = gets \ {g} /\ Apply(g.job, g.state)
    BY <1>12 DEF Respond
  <2>2. UNCHANGED <<serverVars, sel, breaks, met>>
    BY <1>12 DEF Respond
  <2>3. g.job = sel \/ "switch" \in met
    BY <1>0, <2>1 DEF ReadsOfSel
  <2>4. /\ EndWasShown' /\ (told => told')
        /\ g.state.status \in Settled => told' \/ "switch" \in met
        /\ \/ conn' = conn
           \/ g.state.status \in Settled /\ conn \in {"retry", "polling"} /\ conn' = "none"
    BY <1>0, <2>1, <2>2, <2>3, ApplyOfSel
  <2>5. ReadsOfSel' /\ TimersBroke' /\ CarriesTheEnd'
    BY <1>0, <2>1, <2>2, <2>4 DEF ReadsOfSel, TimersBroke, CarriesTheEnd
  <2>6. StoppedForReason'
    BY <1>0, <2>2, <2>4 DEF TimersBroke, StoppedForReason
  <2> QED BY <2>4, <2>5, <2>6 DEF WatchInv
<1>13. CASE GetFails
  <2>1. gets' \subseteq gets /\ breaks' > 0 /\ UNCHANGED <<serverVars, hookVars, met, told>>
    BY <1>0, <1>13 DEF GetFails
  <2> QED BY <1>0, <2>1 DEF WatchInv, ReadsOfSel, EndWasShown, TimersBroke, CarriesTheEnd, StoppedForReason
<1> QED BY <1>1, <1>2, <1>3, <1>4, <1>5, <1>6, <1>7, <1>8, <1>9, <1>10, <1>11, <1>12, <1>13 DEF Next, HookStep

\* Until its end has been shown the selected job is watched, unless a stream
\* ended without saying why, or a connection failed after a switch.
THEOREM KeepsWatching == Spec => []NeverStranded
<1>1. Init => StreamInv /\ WatchInv
  BY DEF Init, NoServer, StreamInv, HeldStream, GivenUp, WireOfSel, WatchInv, ReadsOfSel, EndWasShown,
         TimersBroke, CarriesTheEnd, StoppedForReason
<1>2. WatchInv => NeverStranded
  BY DEF WatchInv, StoppedForReason, NeverStranded
<1>3. Spec => []TypeInv
  BY WatchIsTyped
<1> QED BY <1>1, <1>2, <1>3, StreamStep, WatchStep, PTL DEF Spec
=============================================================================
