---------------------------- MODULE Evidence_proofs ----------------------------
(***************************************************************************)
(* Machine-checked facts about the ingestion and the embedding of          *)
(* evidence, for every number of clients, events, keys and batches of any  *)
(* length, every size of the backfill's batches and any number of faults.  *)
(***************************************************************************)
EXTENDS Evidence, TLAPS

-----------------------------------------------------------------------------
(* Clients and their answers.                                              *)

Client == [batch : Batches, step : ClientSteps, session : {"good", "broken"},
           event : Events, results : Seq(Result), marks : SUBSET Marks]

EvidenceTypes ==
  /\ rows \in [Events -> Row]
  /\ client \in [Clients -> Client]
  /\ faults \in Nat

Given(c, n)    == n \in DOMAIN client[c].results /\ client[c].results[n].status # "FAILED"
Accepted(c, n) == n \in DOMAIN client[c].results /\ client[c].results[n].status = "ACCEPTED"
Named(c, n)    == client[c].results[n].event
Working(c)     == client[c].step \in {"embedding", "saving"}
Holds(table, e, key) == table[e].stored /\ table[e].key = key

\* Whoever has not answered has an item left.
ItemsLeft ==
  \A c \in Clients : client[c].step # "answered" =>
    Len(client[c].results) + 1 \in DOMAIN client[c].batch

ToldIsStored ==
  \A c \in Clients : \A n \in DOMAIN client[c].results :
    n \in DOMAIN client[c].batch /\ (Given(c, n) => Holds(rows, Named(c, n), client[c].batch[n]))

WorkIsStored == \A c \in Clients : Working(c) => Holds(rows, client[c].event, Item(c))

AcceptedOnce ==
  \A c, d \in Clients : \A n \in DOMAIN client[c].results, m \in DOMAIN client[d].results :
    Accepted(c, n) /\ Accepted(d, m) /\ Named(c, n) = Named(d, m) => c = d /\ n = m

\* What is being embedded has not been answered for, and by nobody else.
WorkIsOwn ==
  \A c \in Clients : Working(c) =>
    /\ \A d \in Clients : \A n \in DOMAIN client[d].results :
         Accepted(d, n) => Named(d, n) # client[c].event
    /\ \A d \in Clients \ {c} : Working(d) => client[d].event # client[c].event

\* What a failure of item n is put down to.
Blamed(marks, n) ==
  <<"provider", n>> \in marks \/ \E m \in 1..n : <<"statement", m>> \in marks

FailuresMarked ==
  \A c \in Clients :
    /\ client[c].session = "broken" =>
         \E m \in 1..Len(client[c].results) : <<"statement", m>> \in client[c].marks
    /\ \A n \in DOMAIN client[c].results : ~Given(c, n) => Blamed(client[c].marks, n)

IngestInv ==
  /\ EvidenceTypes /\ ItemsLeft /\ ToldIsStored /\ WorkIsStored
  /\ AcceptedOnce /\ WorkIsOwn /\ FailuresMarked

LEMMA ResultTypes ==
  ASSUME NEW r \in Result
  PROVE  /\ r.status \in {"ACCEPTED", "DUPLICATE", "FAILED"}
         /\ r.status # "FAILED" => r.event \in Events
BY DEF Result

LEMMA InitIngestInv == Init => IngestInv
<1> SUFFICES ASSUME Init PROVE IngestInv
  OBVIOUS
<1>1. (CHOOSE e \in Events : TRUE) \in Events /\ <<>> \in Seq(Result)
  BY EvidenceAssumption
<1>2. NoRow \in Row
  BY DEF NoRow, Row
<1>3. \A c \in Clients : /\ client[c] \in Client /\ client[c].step = "checking"
                         /\ client[c].session = "good" /\ client[c].results = <<>>
                         /\ client[c].batch \in Batches
  <2> SUFFICES ASSUME NEW c \in Clients
               PROVE  /\ client[c] \in Client /\ client[c].step = "checking"
                      /\ client[c].session = "good" /\ client[c].results = <<>>
                      /\ client[c].batch \in Batches
    OBVIOUS
  <2> DEFINE e0 == CHOOSE e \in Events : TRUE
  <2>1. PICK b \in Batches : client[c] = [batch |-> b, step |-> "checking", session |-> "good",
                                          event |-> e0, results |-> <<>>,
                                          marks |-> {}]
    BY DEF Init
  <2>2. e0 \in Events
    BY <1>1
  <2> HIDE DEF e0
  <2>3. {} \in SUBSET Marks
    OBVIOUS
  <2> QED BY <1>1, <2>1, <2>2, <2>3 DEF Client, ClientSteps
<1>4. EvidenceTypes
  <2>1. client = [c \in Clients |-> client[c]]
    BY Zenon DEF Init
  <2>2. client \in [Clients -> Client]
    BY <1>3, <2>1
  <2> QED BY <1>2, <2>2 DEF Init, EvidenceTypes
<1>5. ItemsLeft
  <2> SUFFICES ASSUME NEW c \in Clients PROVE Len(client[c].results) + 1 \in DOMAIN client[c].batch
    BY DEF ItemsLeft
  <2>1. client[c].batch \in Seq(Keys \cup {NoKey}) /\ client[c].batch # <<>> /\ Len(client[c].results) = 0
    BY <1>3, EvidenceAssumption
  <2> QED BY <2>1
<1>6. ToldIsStored /\ WorkIsStored /\ AcceptedOnce /\ WorkIsOwn /\ FailuresMarked
  BY <1>3 DEF ToldIsStored, WorkIsStored, AcceptedOnce, WorkIsOwn, FailuresMarked, Working
<1> QED BY <1>4, <1>5, <1>6 DEF IngestInv

-----------------------------------------------------------------------------
(* What the steps of a client leave of it.                                 *)

LEMMA ClientEnters ==
  ASSUME IngestInv, NEW c \in Clients, NEW s \in ClientSteps, Enter(c, s)
  PROVE  \E r \in Client : /\ client' = [client EXCEPT ![c] = r] /\ r.step = s
                           /\ r.batch = client[c].batch /\ r.session = client[c].session
                           /\ r.event = client[c].event /\ r.results = client[c].results
                           /\ r.marks = client[c].marks
<1> DEFINE r == [client[c] EXCEPT !.step = s]
<1>1. client[c] \in Client
  BY DEF IngestInv, EvidenceTypes
<1>2. /\ r \in Client /\ r.step = s /\ r.batch = client[c].batch /\ r.session = client[c].session
      /\ r.event = client[c].event /\ r.results = client[c].results /\ r.marks = client[c].marks
  BY <1>1 DEF Client
<1>3. client' = [client EXCEPT ![c] = r]
  BY Zenon DEF Enter
<1> HIDE DEF r
<1> QED BY <1>2, <1>3

LEMMA ClientAnswers ==
  ASSUME IngestInv, NEW c \in Clients, NEW result \in Result, NEW session \in {"good", "broken"},
         NEW marks \in SUBSET Marks, AnswerMarked(c, result, session, marks)
  PROVE  \E r \in Client : /\ client' = [client EXCEPT ![c] = r]
                           /\ r.step \in {"checking", "answered"}
                           /\ (r.step = "checking" <=> Len(client[c].results) + 1 < Len(client[c].batch))
                           /\ r.batch = client[c].batch /\ r.session = session
                           /\ r.event = client[c].event
                           /\ r.results = Append(client[c].results, result)
                           /\ r.marks = client[c].marks \cup marks
<1> DEFINE step == IF Len(client[c].results) + 1 < Len(client[c].batch) THEN "checking" ELSE "answered"
           results == Append(client[c].results, result)
           blame == client[c].marks \cup marks
           r == [client[c] EXCEPT !.results = results, !.session = session, !.marks = blame, !.step = step]
<1>1. client[c] \in Client
  BY DEF IngestInv, EvidenceTypes
<1>2. results \in Seq(Result) /\ step \in ClientSteps /\ blame \in SUBSET Marks
  BY <1>1 DEF Client, ClientSteps
<1>3. client' = [client EXCEPT ![c] = r]
  <2> HIDE DEF step
  <2>1. client' = [client EXCEPT ![c].results = Append(@, result), ![c].session = session,
                                             ![c].marks = @ \cup marks, ![c].step = step]
    BY DEF AnswerMarked, step
  <2> QED BY <1>1, <2>1 DEF IngestInv, EvidenceTypes, Client
<1>4. /\ step \in {"checking", "answered"}
      /\ (step = "checking" <=> Len(client[c].results) + 1 < Len(client[c].batch))
  OBVIOUS
<1> HIDE DEF step
<1>5. /\ r \in Client /\ r.step = step /\ r.batch = client[c].batch /\ r.session = session
      /\ r.event = client[c].event /\ r.results = results /\ r.marks = blame
  <2> HIDE DEF results, blame
  <2> QED BY <1>1, <1>2 DEF Client
<1> HIDE DEF r
<1> QED BY <1>3, <1>4, <1>5


-----------------------------------------------------------------------------
(* What the steps preserve.                                                *)

\* A client goes on with its item, the rows stay.
LEMMA EnterStep ==
  ASSUME IngestInv, NEW c \in Clients, NEW s \in {"inserting", "rereading", "saving"}, Enter(c, s),
         UNCHANGED <<rows, faults>>, client[c].step # "answered",
         s = "saving" => client[c].step = "embedding"
  PROVE  IngestInv'
<1>0. s \in ClientSteps
  BY DEF ClientSteps
<1>1. PICK r \in Client : /\ client' = [client EXCEPT ![c] = r] /\ r.step = s
                          /\ r.batch = client[c].batch /\ r.session = client[c].session
                          /\ r.event = client[c].event /\ r.results = client[c].results
                          /\ r.marks = client[c].marks
  BY <1>0, ClientEnters
<1>2. client'[c] = r /\ (\A d \in Clients : d # c => client'[d] = client[d]) /\ client' \in [Clients -> Client]
  BY <1>1 DEF IngestInv, EvidenceTypes
<1>3. \A d \in Clients :
        /\ client'[d].batch = client[d].batch /\ client'[d].session = client[d].session
        /\ client'[d].event = client[d].event /\ client'[d].results = client[d].results
        /\ client'[d].marks = client[d].marks
        /\ Working(d)' => Working(d)
        /\ client'[d].step # "answered" => client[d].step # "answered"
  BY <1>1, <1>2 DEF Working
<1>4. EvidenceTypes' /\ ItemsLeft'
  BY <1>2, <1>3 DEF IngestInv, EvidenceTypes, ItemsLeft
<1>5. ToldIsStored' /\ WorkIsStored'
  BY SMTT(30), <1>3 DEF IngestInv, ToldIsStored, WorkIsStored, Given, Named, Item, Holds
<1>6. AcceptedOnce'
  BY <1>3 DEF IngestInv, AcceptedOnce, Accepted, Named
<1>7. WorkIsOwn'
  BY <1>3 DEF IngestInv, WorkIsOwn, Accepted, Named
<1>8. FailuresMarked'
  BY <1>3 DEF IngestInv, FailuresMarked, Given
<1> QED BY <1>4, <1>5, <1>6, <1>7, <1>8 DEF IngestInv

\* An item gets its result.
LEMMA AnswerStep ==
  ASSUME IngestInv, NEW c \in Clients, NEW result \in Result, NEW session \in {"good", "broken"},
         NEW marks \in SUBSET Marks, AnswerMarked(c, result, session, marks), client[c].step # "answered",
         rows' \in [Events -> Row], faults' \in Nat,
         \A e \in Events : \A key : Holds(rows, e, key) => Holds(rows', e, key),
         result.status # "FAILED" => Holds(rows', result.event, Item(c)),
         result.status = "ACCEPTED" => Working(c) /\ result.event = client[c].event,
         session = "broken" =>
           \E m \in 1..Number(c) : <<"statement", m>> \in client[c].marks \cup marks,
         result.status = "FAILED" => Blamed(client[c].marks \cup marks, Number(c))
  PROVE  IngestInv'
<1>1. PICK r \in Client : /\ client' = [client EXCEPT ![c] = r]
                          /\ r.step \in {"checking", "answered"}
                          /\ (r.step = "checking" <=> Len(client[c].results) + 1 < Len(client[c].batch))
                          /\ r.batch = client[c].batch /\ r.session = session
                          /\ r.event = client[c].event
                          /\ r.results = Append(client[c].results, result)
                          /\ r.marks = client[c].marks \cup marks
  BY ClientAnswers
<1>2. client'[c] = r /\ (\A d \in Clients : d # c => client'[d] = client[d]) /\ client' \in [Clients -> Client]
  BY <1>1 DEF IngestInv, EvidenceTypes
<1>3. client[c] \in Client /\ client[c].results \in Seq(Result) /\ client[c].batch \in Seq(Keys \cup {NoKey})
  BY EvidenceAssumption DEF IngestInv, EvidenceTypes, Client
<1> DEFINE l == Len(client[c].results)
           old == client[c].results
           new == r.results
<1>4. /\ l \in Nat /\ new \in Seq(Result) /\ Len(new) = l + 1 /\ DOMAIN new = DOMAIN old \cup {l + 1}
      /\ l + 1 \notin DOMAIN old /\ new[l + 1] = result /\ \A n \in DOMAIN old : new[n] = old[n]
  <2>1. old \in Seq(Result) /\ new = Append(old, result) /\ l \in Nat
    BY <1>1, <1>3
  <2> HIDE DEF old, new
  <2>2. new \in Seq(Result) /\ Len(new) = Len(old) + 1 /\ Len(old) \in Nat
    BY <2>1
  <2>3. DOMAIN new = 1 .. Len(old) + 1 /\ DOMAIN old = 1 .. Len(old)
    BY <2>1, <2>2
  <2>4. new[Len(old) + 1] = result /\ \A n \in 1 .. Len(old) : new[n] = old[n]
    BY <2>1
  <2> QED BY SMTT(30), <2>2, <2>3, <2>4 DEF old
<1>5. l + 1 \in DOMAIN client[c].batch
  BY DEF IngestInv, ItemsLeft
<1>6. ~Working(c)' /\ \A d \in Clients : d # c => (Working(d)' <=> Working(d))
  BY <1>1, <1>2 DEF Working
<1>7. EvidenceTypes'
  BY <1>2 DEF EvidenceTypes
<1>8. ItemsLeft'
  <2> SUFFICES ASSUME NEW d \in Clients, client'[d].step # "answered"
               PROVE  Len(client'[d].results) + 1 \in DOMAIN client'[d].batch
    BY DEF ItemsLeft
  <2>1. CASE d = c
    <3>1. l + 1 < Len(client[c].batch) /\ client'[c].results = new /\ client'[c].batch = client[c].batch
      BY <1>1, <1>2, <2>1
    <3> QED BY <1>3, <1>4, <2>1, <3>1
  <2>2. CASE d # c
    BY <1>2, <2>2 DEF IngestInv, ItemsLeft
  <2> QED BY <2>1, <2>2
\* Every answer is an old one, or that of the item.
<1>9. \A d \in Clients : \A n \in DOMAIN client'[d].results :
        \/ n \in DOMAIN client[d].results /\ client'[d].results[n] = client[d].results[n]
        \/ d = c /\ n = l + 1 /\ client'[d].results[n] = result
  BY <1>1, <1>2, <1>4
<1>10. \A d \in Clients : client'[d].batch = client[d].batch /\ client'[d].event = client[d].event
  BY <1>1, <1>2
<1> HIDE DEF l, old, new
<1>11. \A d \in Clients : \A n \in DOMAIN client[d].results :
         Given(d, n) => client[d].results[n].event \in Events
  <2> SUFFICES ASSUME NEW d \in Clients, NEW n \in DOMAIN client[d].results, Given(d, n)
               PROVE  client[d].results[n].event \in Events
    OBVIOUS
  <2>1. client[d].results[n] \in Result
    BY DEF IngestInv, EvidenceTypes, Client
  <2> QED BY <2>1, ResultTypes DEF Given
<1>12. ToldIsStored'
  <2> SUFFICES ASSUME NEW d \in Clients, NEW n \in DOMAIN client'[d].results
               PROVE  /\ n \in DOMAIN client'[d].batch
                      /\ client'[d].results[n].status # "FAILED"
                         => Holds(rows', client'[d].results[n].event, client'[d].batch[n])
    BY DEF ToldIsStored, Named, Given, Holds
  <2>1. CASE n \in DOMAIN client[d].results /\ client'[d].results[n] = client[d].results[n]
    <3>1. n \in DOMAIN client[d].batch
          /\ (Given(d, n) => Holds(rows, client[d].results[n].event, client[d].batch[n]))
      BY <2>1 DEF IngestInv, ToldIsStored, Named
    <3>2. ASSUME client'[d].results[n].status # "FAILED"
          PROVE  Holds(rows', client'[d].results[n].event, client'[d].batch[n])
      <4>1. Given(d, n)
        BY <2>1, <3>2 DEF Given
      <4>2. Holds(rows', client[d].results[n].event, client[d].batch[n])
        BY <1>11, <2>1, <3>1, <4>1
      <4> QED BY <1>10, <2>1, <4>2
    <3> QED BY <1>10, <3>1, <3>2
  <2>2. CASE d = c /\ n = l + 1 /\ client'[d].results[n] = result
    <3>1. n \in DOMAIN client'[d].batch /\ Item(c) = client'[d].batch[n]
      BY <1>5, <1>10, <2>2 DEF l, Item
    <3> QED BY <2>2, <3>1
  <2> QED BY <1>9, <2>1, <2>2
<1>13. \A d \in Clients : Working(d)' => /\ d # c /\ Working(d)
                                          /\ client'[d].event = client[d].event
                                          /\ client[d].event \in Events
                                          /\ Item(d)' = Item(d)
  BY <1>2, <1>6 DEF IngestInv, EvidenceTypes, Client, Item
<1>14. WorkIsStored'
  <2> SUFFICES ASSUME NEW d \in Clients, Working(d)'
               PROVE  Holds(rows', client'[d].event, Item(d)')
    BY DEF WorkIsStored, Holds
  <2>1. Holds(rows, client[d].event, Item(d)) /\ client[d].event \in Events
    BY <1>13 DEF IngestInv, WorkIsStored
  <2>2. Holds(rows', client[d].event, Item(d))
    BY <2>1
  <2> QED BY <1>13, <2>2
\* An accepted item names the event of its work, which nobody was told before.
<1>15. AcceptedOnce'
  <2> SUFFICES ASSUME NEW d \in Clients, NEW e \in Clients,
                      NEW n \in DOMAIN client'[d].results, NEW m \in DOMAIN client'[e].results,
                      client'[d].results[n].status = "ACCEPTED", client'[e].results[m].status = "ACCEPTED",
                      client'[d].results[n].event = client'[e].results[m].event
               PROVE  d = e /\ n = m
    BY DEF AcceptedOnce, Accepted, Named
  <2>1. \A f \in Clients : \A k \in DOMAIN client[f].results :
          client[f].results[k].status = "ACCEPTED" /\ result.status = "ACCEPTED"
          => client[f].results[k].event # result.event
    BY DEF IngestInv, WorkIsOwn, Accepted, Named
  <2>2. \A f, g \in Clients : \A k \in DOMAIN client[f].results, j \in DOMAIN client[g].results :
          /\ client[f].results[k].status = "ACCEPTED" /\ client[g].results[j].status = "ACCEPTED"
          /\ client[f].results[k].event = client[g].results[j].event
          => f = g /\ k = j
    BY DEF IngestInv, AcceptedOnce, Accepted, Named
  <2>3. CASE n \in DOMAIN client[d].results /\ client'[d].results[n] = client[d].results[n]
    <3>1. CASE m \in DOMAIN client[e].results /\ client'[e].results[m] = client[e].results[m]
      BY <2>2, <2>3, <3>1
    <3>2. CASE e = c /\ m = l + 1 /\ client'[e].results[m] = result
      BY <2>1, <2>3, <3>2
    <3> QED BY <1>9, <3>1, <3>2
  <2>4. CASE d = c /\ n = l + 1 /\ client'[d].results[n] = result
    <3>1. CASE m \in DOMAIN client[e].results /\ client'[e].results[m] = client[e].results[m]
      BY <2>1, <2>4, <3>1
    <3>2. CASE e = c /\ m = l + 1 /\ client'[e].results[m] = result
      BY <2>4, <3>2
    <3> QED BY <1>9, <3>1, <3>2
  <2> QED BY <1>9, <2>3, <2>4
<1>16. WorkIsOwn'
  <2> SUFFICES ASSUME NEW d \in Clients, Working(d)'
               PROVE  /\ \A e \in Clients : \A n \in DOMAIN client'[e].results :
                           client'[e].results[n].status = "ACCEPTED"
                           => client'[e].results[n].event # client'[d].event
                      /\ \A e \in Clients \ {d} : Working(e)' => client'[e].event # client'[d].event
    BY DEF WorkIsOwn, Accepted, Named
  <2>1. /\ d # c /\ Working(d) /\ client'[d].event = client[d].event
        /\ \A e \in Clients : \A n \in DOMAIN client[e].results :
             client[e].results[n].status = "ACCEPTED" => client[e].results[n].event # client[d].event
        /\ \A e \in Clients \ {d} : Working(e) => client[e].event # client[d].event
    BY <1>13 DEF IngestInv, WorkIsOwn, Accepted, Named
  <2>2. result.status = "ACCEPTED" => result.event # client[d].event
    BY <2>1
  <2>3. ASSUME NEW e \in Clients, NEW n \in DOMAIN client'[e].results,
               client'[e].results[n].status = "ACCEPTED"
        PROVE  client'[e].results[n].event # client'[d].event
    BY <1>9, <2>1, <2>2, <2>3
  <2> QED BY <1>13, <2>1, <2>3
<1>17. FailuresMarked'
  <2> SUFFICES ASSUME NEW d \in Clients
               PROVE  /\ client'[d].session = "broken" =>
                           \E m \in 1..Len(client'[d].results) : <<"statement", m>> \in client'[d].marks
                      /\ \A n \in DOMAIN client'[d].results :
                           client'[d].results[n].status = "FAILED" => Blamed(client'[d].marks, n)
    BY DEF FailuresMarked, Given
  <2>1. CASE d # c
    BY <1>2, <2>1 DEF IngestInv, FailuresMarked, Given
  <2>2. CASE d = c
    <3>1. /\ client'[c].marks = client[c].marks \cup marks /\ client'[c].session = session
          /\ Len(client'[c].results) = l + 1 /\ Number(c) = l + 1
      BY <1>1, <1>2, <1>4 DEF l, new, Number
    <3>2. ASSUME NEW n \in DOMAIN client'[c].results, client'[c].results[n].status = "FAILED"
          PROVE  Blamed(client'[c].marks, n)
      <4>1. CASE n \in DOMAIN client[c].results /\ client'[c].results[n] = client[c].results[n]
        <5>1. Blamed(client[c].marks, n)
          BY <3>2, <4>1 DEF IngestInv, FailuresMarked, Given
        <5> QED BY <3>1, <5>1 DEF Blamed
      <4>2. CASE n = l + 1 /\ client'[c].results[n] = result
        BY <3>1, <3>2, <4>2
      <4> QED BY <1>9, <3>2, <4>1, <4>2
    <3> QED BY <2>2, <3>1, <3>2
  <2> QED BY <2>1, <2>2
<1> QED BY <1>7, <1>8, <1>12, <1>14, <1>15, <1>16, <1>17 DEF IngestInv


\* An item that is accepted, or is a duplicate, leaves no mark.
LEMMA GivenStep ==
  ASSUME IngestInv, NEW c \in Clients, NEW result \in Result, result.status # "FAILED",
         Answer(c, result, "good"), client[c].step # "answered",
         rows' \in [Events -> Row], faults' \in Nat,
         \A e \in Events : \A key : Holds(rows, e, key) => Holds(rows', e, key),
         Holds(rows', result.event, Item(c)),
         result.status = "ACCEPTED" => Working(c) /\ result.event = client[c].event
  PROVE  IngestInv'
<1> DEFINE none == {}
<1>1. none \in SUBSET Marks /\ AnswerMarked(c, result, "good", none)
  BY DEF Answer
<1> HIDE DEF none
<1> QED BY <1>1, AnswerStep

\* A new row is stored for the item.
LEMMA InsertStep ==
  ASSUME IngestInv, NEW c \in Clients, Insert(c)
  PROVE  IngestInv'
<1>1. PICK e \in Events \ Stored :
        /\ rows' = [rows EXCEPT ![e] = [key |-> Item(c), stored |-> TRUE, embedded |-> FALSE]]
        /\ client' = [client EXCEPT ![c].event = e, ![c].step = "embedding"]
  BY DEF Insert
<1> DEFINE row == [key |-> Item(c), stored |-> TRUE, embedded |-> FALSE]
           r == [client[c] EXCEPT !.event = e, !.step = "embedding"]
<1>2. client[c] \in Client /\ client[c].batch \in Seq(Keys \cup {NoKey}) /\ client[c].step = "inserting"
  BY EvidenceAssumption DEF IngestInv, EvidenceTypes, Client, Insert, InStep
<1>3. Len(client[c].results) + 1 \in DOMAIN client[c].batch
  BY <1>2 DEF IngestInv, ItemsLeft
<1>4. row \in Row /\ row.stored = TRUE /\ row.key = Item(c)
  <2>1. Item(c) \in Keys \cup {NoKey}
    BY <1>2, <1>3 DEF Item
  <2> QED BY <2>1 DEF Row
<1>5. /\ r \in Client /\ r.step = "embedding" /\ r.batch = client[c].batch
      /\ r.session = client[c].session /\ r.event = e /\ r.results = client[c].results
      /\ r.marks = client[c].marks
  BY <1>2 DEF Client, ClientSteps
<1>6. client' = [client EXCEPT ![c] = r] /\ rows' = [rows EXCEPT ![e] = row]
  BY <1>1, <1>2 DEF IngestInv, EvidenceTypes, Client
<1> HIDE DEF row, r
<1>7. /\ client'[c] = r /\ (\A d \in Clients : d # c => client'[d] = client[d])
      /\ client' \in [Clients -> Client]
      /\ rows'[e] = row /\ (\A f \in Events : f # e => rows'[f] = rows[f]) /\ rows' \in [Events -> Row]
  BY <1>4, <1>5, <1>6 DEF IngestInv, EvidenceTypes
<1>8. faults' = faults
  BY DEF Insert
<1>9. \A f \in Events : \A key : Holds(rows, f, key) => f # e /\ Holds(rows', f, key)
  BY <1>1, <1>7 DEF Holds, Stored
<1>10. \A d \in Clients :
         /\ client'[d].batch = client[d].batch /\ client'[d].session = client[d].session
         /\ client'[d].results = client[d].results /\ client'[d].marks = client[d].marks
         /\ client[d].event \in Events
         /\ Item(d)' = Item(d)
         /\ d # c => client'[d].event = client[d].event /\ (Working(d)' <=> Working(d))
         /\ client'[d].step # "answered" => client[d].step # "answered"
  BY <1>2, <1>5, <1>7 DEF Working, IngestInv, EvidenceTypes, Client, Item
\* What is named or worked on is stored, so it is not the new event.
<1>11. \A d \in Clients : \A n \in DOMAIN client[d].results :
         client[d].results[n].status # "FAILED" =>
           /\ client[d].results[n].event # e
           /\ Holds(rows', client[d].results[n].event, client[d].batch[n])
  <2> SUFFICES ASSUME NEW d \in Clients, NEW n \in DOMAIN client[d].results,
                      client[d].results[n].status # "FAILED"
               PROVE  /\ client[d].results[n].event # e
                      /\ Holds(rows', client[d].results[n].event, client[d].batch[n])
    OBVIOUS
  <2>1. client[d].results[n] \in Result
    BY DEF IngestInv, EvidenceTypes, Client
  <2>2. Holds(rows, client[d].results[n].event, client[d].batch[n])
    BY DEF IngestInv, ToldIsStored, Given, Named
  <2>3. client[d].results[n].event \in Events
    BY <2>1, ResultTypes
  <2> QED BY <1>9, <2>2, <2>3
<1>12. \A d \in Clients : d # c /\ Working(d) =>
         client[d].event # e /\ Holds(rows', client[d].event, Item(d))
  BY <1>9, <1>10 DEF IngestInv, WorkIsStored
<1>13. EvidenceTypes'
  BY <1>7, <1>8 DEF IngestInv, EvidenceTypes
<1>14. ItemsLeft'
  BY <1>10 DEF IngestInv, ItemsLeft
<1>15. ToldIsStored'
  BY <1>10, <1>11 DEF IngestInv, ToldIsStored, Given, Named, Holds
<1>16. WorkIsStored'
  <2> SUFFICES ASSUME NEW d \in Clients, Working(d)'
               PROVE  Holds(rows', client'[d].event, Item(d)')
    BY DEF WorkIsStored, Holds
  <2>1. CASE d = c
    BY <1>4, <1>5, <1>7, <1>10, <2>1 DEF Holds
  <2>2. CASE d # c
    BY <1>10, <1>12, <2>2
  <2> QED BY <2>1, <2>2
<1>17. AcceptedOnce'
  BY <1>10 DEF IngestInv, AcceptedOnce, Accepted, Named
<1>18. WorkIsOwn'
  <2> SUFFICES ASSUME NEW d \in Clients, Working(d)'
               PROVE  /\ \A f \in Clients : \A n \in DOMAIN client'[f].results :
                           client'[f].results[n].status = "ACCEPTED"
                           => client'[f].results[n].event # client'[d].event
                      /\ \A f \in Clients \ {d} : Working(f)' => client'[f].event # client'[d].event
    BY DEF WorkIsOwn, Accepted, Named
  <2>1. CASE d = c
    BY <1>5, <1>7, <1>10, <1>11, <1>12, <2>1
  <2>2. CASE d # c
    <3>1. /\ \A f \in Clients : \A n \in DOMAIN client[f].results :
               client[f].results[n].status = "ACCEPTED" => client[f].results[n].event # client[d].event
          /\ \A f \in Clients \ {d} : Working(f) => client[f].event # client[d].event
      BY <1>10, <2>2 DEF IngestInv, WorkIsOwn, Accepted, Named
    <3>2. client'[d].event = client[d].event /\ client[d].event # e /\ client'[c].event = e
      BY <1>5, <1>7, <1>10, <1>12, <2>2
    <3> QED BY <1>10, <3>1, <3>2
  <2> QED BY <2>1, <2>2
<1>19. FailuresMarked'
  BY <1>10 DEF IngestInv, FailuresMarked, Given
<1> QED BY <1>13, <1>14, <1>15, <1>16, <1>17, <1>18, <1>19 DEF IngestInv

\* No client moves; the rows keep their keys and stay stored.
LEMMA RowsStep ==
  ASSUME IngestInv, UNCHANGED client, rows' \in [Events -> Row], faults' \in Nat,
         \A e \in Events : rows'[e].key = rows[e].key /\ (rows[e].stored => rows'[e].stored)
  PROVE  IngestInv'
<1>1. EvidenceTypes' /\ ItemsLeft'
  BY DEF IngestInv, EvidenceTypes, ItemsLeft
<1>2. ToldIsStored'
  <2> SUFFICES ASSUME NEW d \in Clients, NEW n \in DOMAIN client[d].results
               PROVE  /\ n \in DOMAIN client[d].batch
                      /\ client[d].results[n].status # "FAILED"
                         => Holds(rows', client[d].results[n].event, client[d].batch[n])
    BY DEF ToldIsStored, Given, Named, Holds
  <2>1. client[d].results[n] \in Result
    BY DEF IngestInv, EvidenceTypes, Client
  <2>2. client[d].results[n].status # "FAILED" => client[d].results[n].event \in Events
    BY <2>1, ResultTypes
  <2> QED BY <2>2 DEF IngestInv, ToldIsStored, Given, Named, Holds
<1>3. WorkIsStored'
  <2> SUFFICES ASSUME NEW d \in Clients, Working(d)
               PROVE  Holds(rows', client[d].event, Item(d))
    BY DEF WorkIsStored, Holds, Working, Item
  <2>1. client[d].event \in Events
    BY DEF IngestInv, EvidenceTypes, Client
  <2> QED BY <2>1 DEF IngestInv, WorkIsStored, Holds
<1>4. AcceptedOnce' /\ WorkIsOwn'
  BY DEF IngestInv, AcceptedOnce, WorkIsOwn, Accepted, Named, Working
<1>5. FailuresMarked'
  BY DEF IngestInv, FailuresMarked, Given
<1> QED BY <1>1, <1>2, <1>3, <1>4, <1>5 DEF IngestInv


LEMMA NextIngestInv == IngestInv /\ [Next]_vars => IngestInv'
<1> SUFFICES ASSUME IngestInv, [Next]_vars PROVE IngestInv'
  OBVIOUS
<1> USE DEF InStep
<1>0. /\ rows \in [Events -> Row] /\ faults \in Nat
      /\ \A c \in Clients : client[c] \in Client
  BY DEF IngestInv, EvidenceTypes
<1>1. \A e \in Events : \A key : Holds(rows, e, key) => Holds(rows, e, key)
  OBVIOUS
<1>2. Fault => faults' \in Nat
  BY <1>0 DEF Fault
\* What a client may find under the key of its item.
<1>3. \A c \in Clients : \A e \in HasKey(Item(c)) :
        /\ e \in Events /\ Holds(rows, e, Item(c))
        /\ [status |-> "DUPLICATE", event |-> e] \in Result
  BY DEF HasKey, Stored, Holds, Result
<1>4. [status |-> "FAILED"] \in Result /\ \A e \in Events : [status |-> "ACCEPTED", event |-> e] \in Result
  BY DEF Result
<1>20. \A c \in Clients : Number(c) \in Nat \ {0} /\ Len(client[c].results) \in Nat
  BY <1>0 DEF Number, Client
<1>5. ASSUME NEW c \in Clients, Check(c) PROVE IngestInv'
  <2>1. CASE HasKey(Item(c)) = {}
    BY <1>5, <2>1, EnterStep DEF Check
  <2>2. CASE HasKey(Item(c)) # {}
    <3>1. PICK e \in HasKey(Item(c)) : Answer(c, [status |-> "DUPLICATE", event |-> e], "good")
      BY <1>5, <2>2 DEF Check
    <3> DEFINE result == [status |-> "DUPLICATE", event |-> e]
    <3>2. result \in Result /\ result.status = "DUPLICATE" /\ result.event = e /\ Holds(rows, e, Item(c))
      BY <1>3
    <3>3. rows' = rows /\ faults' = faults /\ client[c].step # "answered" /\ Answer(c, result, "good")
      BY <1>5, <3>1 DEF Check
    <3> HIDE DEF result
    <3> QED BY <1>0, <3>2, <3>3, GivenStep
  <2> QED BY <2>1, <2>2
<1>6. ASSUME NEW c \in Clients, Insert(c) PROVE IngestInv'
  BY <1>6, InsertStep
<1>7. ASSUME NEW c \in Clients, Conflict(c) PROVE IngestInv'
  BY <1>7, EnterStep DEF Conflict
<1>8. ASSUME NEW c \in Clients, Reread(c) PROVE IngestInv'
  <2>1. PICK e \in HasKey(Item(c)) : Answer(c, [status |-> "DUPLICATE", event |-> e], "good")
    BY <1>8 DEF Reread
  <2> DEFINE result == [status |-> "DUPLICATE", event |-> e]
  <2>2. result \in Result /\ result.status = "DUPLICATE" /\ result.event = e /\ Holds(rows, e, Item(c))
    BY <1>3
  <2>3. rows' = rows /\ faults' = faults /\ client[c].step # "answered" /\ Answer(c, result, "good")
    BY <1>8, <2>1 DEF Reread
  <2> HIDE DEF result
  <2> QED BY <1>0, <2>2, <2>3, GivenStep
\* The result of an item that was inserted.
<1>9. ASSUME NEW c \in Clients, Working(c), rows' \in [Events -> Row], faults' = faults,
             Answer(c, [status |-> "ACCEPTED", event |-> client[c].event], "good"),
             \A e \in Events : rows'[e].key = rows[e].key /\ (rows[e].stored => rows'[e].stored)
      PROVE  IngestInv'
  <2> DEFINE result == [status |-> "ACCEPTED", event |-> client[c].event]
  <2>1. client[c].event \in Events
    BY <1>0 DEF Client
  <2>2. result \in Result /\ result.status = "ACCEPTED" /\ result.event = client[c].event
    BY <1>4, <2>1
  <2>3. Holds(rows, client[c].event, Item(c))
    BY <1>9 DEF IngestInv, WorkIsStored
  <2>4. \A e \in Events : \A key : Holds(rows, e, key) => Holds(rows', e, key)
    BY <1>9 DEF Holds
  <2>5. client[c].step # "answered" /\ Answer(c, result, "good")
    BY <1>9 DEF Working
  <2> HIDE DEF result
  <2> QED BY <1>0, <1>9, <2>1, <2>2, <2>3, <2>4, <2>5, GivenStep
<1>10. ASSUME NEW c \in Clients, Embed(c) PROVE IngestInv'
  <2>1. CASE Enter(c, "saving")
    BY <1>10, <2>1, EnterStep DEF Embed
  <2>2. CASE Answer(c, [status |-> "ACCEPTED", event |-> client[c].event], "good")
    BY <1>0, <1>9, <1>10, <2>2 DEF Embed, Working
  <2>3. CASE AnswerMarked(c, [status |-> "FAILED"], "good", {<<"provider", Number(c)>>})
    <3> DEFINE result == [status |-> "FAILED"]
               marks == {<<"provider", Number(c)>>}
    <3>1. /\ result \in Result /\ result.status = "FAILED" /\ AnswerMarked(c, result, "good", marks)
          /\ rows' = rows /\ faults' = faults /\ client[c].step # "answered"
      BY <1>4, <1>10, <2>3 DEF Embed
    <3>2. marks \in SUBSET Marks /\ Blamed(client[c].marks \cup marks, Number(c))
      BY <1>20 DEF Marks, Blamed
    <3> HIDE DEF result, marks
    <3> QED BY <1>0, <3>1, <3>2, AnswerStep
  <2> QED BY <1>10, <2>1, <2>2, <2>3 DEF Embed
<1>11. ASSUME NEW c \in Clients, SaveVector(c) PROVE IngestInv'
  <2>1. client[c].event \in Events
    BY <1>0 DEF Client
  <2>2. /\ rows' \in [Events -> Row]
        /\ \A e \in Events : rows'[e].key = rows[e].key /\ rows'[e].stored = rows[e].stored
    BY <1>0, <1>11, <2>1 DEF SaveVector, Row
  <2> QED BY <1>9, <1>11, <2>2 DEF SaveVector, Working
<1>12. ASSUME NEW c \in Clients, ItemFails(c) PROVE IngestInv'
  <2> DEFINE result == [status |-> "FAILED"]
             marks == {<<"statement", Number(c)>>}
  <2>1. /\ result \in Result /\ result.status = "FAILED" /\ AnswerMarked(c, result, "broken", marks)
        /\ rows' = rows /\ client[c].step # "answered" /\ faults' \in Nat
    BY <1>2, <1>4, <1>12 DEF ItemFails
  <2>2. marks \in SUBSET Marks
    BY <1>20 DEF Marks
  <2>3. \E m \in 1..Number(c) : <<"statement", m>> \in client[c].marks \cup marks
    <3>1. Number(c) \in 1..Number(c)
      BY <1>20
    <3> QED BY <3>1
  <2> HIDE DEF result, marks
  <2> QED BY <1>0, <1>1, <2>1, <2>2, <2>3, AnswerStep DEF Blamed
<1>13. ASSUME NEW c \in Clients, ItemRefused(c) PROVE IngestInv'
  <2> DEFINE result == [status |-> "FAILED"]
             none == {}
  <2>1. /\ result \in Result /\ result.status = "FAILED" /\ AnswerMarked(c, result, "broken", none)
        /\ rows' = rows /\ client[c].step # "answered" /\ faults' \in Nat /\ client[c].session = "broken"
    BY <1>0, <1>4, <1>13 DEF ItemRefused, Answer
  <2>2. \E m \in 1..Number(c) : <<"statement", m>> \in client[c].marks \cup none
    <3>1. PICK m \in 1..Len(client[c].results) : <<"statement", m>> \in client[c].marks
      BY <2>1 DEF IngestInv, FailuresMarked
    <3>2. m \in 1..Number(c)
      BY <1>20 DEF Number
    <3> QED BY <3>1, <3>2
  <2>3. none \in SUBSET Marks
    OBVIOUS
  <2> HIDE DEF result, none
  <2> QED BY <1>0, <1>1, <2>1, <2>2, <2>3, AnswerStep DEF Blamed
<1>14. ASSUME SaveBatch PROVE IngestInv'
  <2>1. /\ rows' \in [Events -> Row]
        /\ \A e \in Events : rows'[e].key = rows[e].key /\ rows'[e].stored = rows[e].stored
    BY <1>0, <1>14 DEF SaveBatch, Row
  <2> QED BY <1>0, <1>14, <2>1, RowsStep DEF SaveBatch, BackfillOnly
<1>15. ASSUME UNCHANGED <<rows, client>>, faults' \in Nat PROVE IngestInv'
  BY <1>0, <1>15, RowsStep
<1>16. CASE BackfillStep
  <2>1. CASE StartBackfill
    BY <1>0, <1>15, <2>1 DEF StartBackfill, BackfillOnly
  <2>2. CASE EmbedBatch
    BY <1>0, <1>15, <2>2 DEF EmbedBatch, BackfillOnly
  <2>3. CASE SaveBatchFails
    BY <1>2, <1>15, <2>3 DEF SaveBatchFails, BackfillOnly
  <2> QED BY <1>14, <1>16, <2>1, <2>2, <2>3 DEF BackfillStep
<1>17. CASE InvestigationStep
  <2>1. UNCHANGED <<rows, client>> /\ (Fault \/ faults' = faults)
    BY <1>17 DEF InvestigationStep, InvestigationOnly, Claimed, Fetch, EmbedQuery, Compare,
                 CompareFails, Fuse, Progress, Runbooks
  <2> QED BY <1>0, <1>2, <1>15, <2>1
<1>18. CASE UNCHANGED vars
  BY <1>0, <1>15, <1>18 DEF vars
<1>19. ASSUME NEW c \in Clients, ClientStep(c) PROVE IngestInv'
  BY <1>5, <1>6, <1>7, <1>8, <1>10, <1>11, <1>12, <1>13, <1>19 DEF ClientStep
<1> QED BY <1>16, <1>17, <1>18, <1>19 DEF Next

LEMMA IngestHolds == Spec => []IngestInv
<1> QED BY InitIngestInv, NextIngestInv, PTL DEF Spec

\* What a client is told is what the table holds, and only one item is told
\* that an event is its own: the key is looked up, inserted under a unique
\* constraint and looked up again by requests that do not wait for each other
\* (services/incidents/service.py, create_evidence_event).
THEOREM AnswersAreTrue == Spec => []AnswersMatchRows
<1>1. IngestInv => AnswersMatchRows
  <2> SUFFICES ASSUME IngestInv PROVE AnswersMatchRows
    OBVIOUS
  <2> DEFINE Answers == UNION {{c} \X Answered(c) : c \in Clients}
             Told(p) == client[p[1]].results[p[2]]
  <2>1. \A p \in Answers : p[1] \in Clients /\ p[2] \in Answered(p[1]) /\ p = <<p[1], p[2]>>
    OBVIOUS
  <2>2. ASSUME NEW p \in Answers
        PROVE  rows[Told(p).event].stored /\ rows[Told(p).event].key = client[p[1]].batch[p[2]]
    BY <2>1, <2>2 DEF IngestInv, ToldIsStored, Given, Named, Holds, Answered
  <2>3. ASSUME NEW p \in Answers, NEW q \in Answers, Told(p).status = "ACCEPTED", Told(q).status = "ACCEPTED",
               Told(p).event = Told(q).event
        PROVE  p = q
    <3>1. p[1] = q[1] /\ p[2] = q[2]
      BY <2>1, <2>3 DEF IngestInv, AcceptedOnce, Accepted, Named, Answered
    <3> QED BY <2>1, <3>1
  <2> QED BY <2>2, <2>3 DEF AnswersMatchRows
<1> QED BY <1>1, IngestHolds, PTL

\* A lost race for a key is answered as a duplicate, never as a failure: every
\* failed item has a provider that could not be had for it, or a statement that
\* failed at it or before it in its batch (services/incidents/service.py:205-232,
\* :269-283, :353-370).
THEOREM RacesAreNoFailure == Spec => []RaceIsNoFailure
<1>1. IngestInv => RaceIsNoFailure
  BY DEF IngestInv, FailuresMarked, Blamed, Given, RaceIsNoFailure, Answered
<1> QED BY <1>1, IngestHolds, PTL

-----------------------------------------------------------------------------
(* The backfill.  An event keeps its vector, so the batches that are done     *)
(* stay done whatever the clients insert and embed meanwhile.                *)

BackfillTypes ==
  backfill \in [step : {"idle", "embedding", "saving", "done", "died"}, todo : SUBSET Events,
                vectors : SUBSET Events, found : SUBSET Events, refused : SUBSET Events, runs : Nat]

BackfillOwes ==
  /\ backfill.todo \subseteq Stored
  /\ backfill.step \in {"embedding", "saving"} =>
       backfill.found \subseteq Embedded \cup backfill.refused \cup backfill.todo
  /\ backfill.step = "saving" =>
       backfill.vectors \subseteq Batch /\ Batch \subseteq backfill.vectors \cup backfill.refused

BackfillInv == BackfillTypes /\ BackfillOwes /\ BackfillCovers

LEMMA BatchIsTodo == Batch \subseteq backfill.todo
BY DEF Batch, Earliest

LEMMA InitBackfillInv == Init => BackfillInv
BY DEF Init, BackfillInv, BackfillTypes, BackfillOwes, BackfillCovers

\* Whatever happens, what is stored stays so, and what has a vector keeps it.
LEMMA VectorsStay ==
  ASSUME IngestInv, [Next]_vars
  PROVE  Stored \subseteq Stored' /\ Embedded \subseteq Embedded'
<1>0. /\ rows \in [Events -> Row]
      /\ \A c \in Clients : client[c].event \in Events
  BY DEF IngestInv, EvidenceTypes, Client
<1>1. ASSUME NEW c \in Clients, Insert(c) PROVE Stored \subseteq Stored' /\ Embedded \subseteq Embedded'
  <2>1. PICK e \in Events \ Stored :
          rows' = [rows EXCEPT ![e] = [key |-> Item(c), stored |-> TRUE, embedded |-> FALSE]]
    BY <1>1 DEF Insert
  <2>2. /\ rows'[e].stored = TRUE
        /\ \A f \in Events : f # e => rows'[f] = rows[f]
    BY <1>0, <2>1
  <2> QED BY <2>1, <2>2 DEF Stored, Embedded
<1>2. ASSUME NEW c \in Clients, SaveVector(c) PROVE Stored \subseteq Stored' /\ Embedded \subseteq Embedded'
  <2>1. \A e \in Events : /\ rows'[e].stored = rows[e].stored
                          /\ rows'[e].embedded = rows[e].embedded \/ rows'[e].embedded = TRUE
    BY <1>0, <1>2 DEF SaveVector, Row
  <2> QED BY <2>1 DEF Stored, Embedded
<1>3. ASSUME SaveBatch PROVE Stored \subseteq Stored' /\ Embedded \subseteq Embedded'
  <2>1. \A e \in Events : /\ rows'[e].stored = rows[e].stored
                          /\ rows'[e].embedded = rows[e].embedded \/ rows'[e].embedded = TRUE
    BY <1>0, <1>3 DEF SaveBatch, Row
  <2> QED BY <2>1 DEF Stored, Embedded
<1>4. ASSUME UNCHANGED rows PROVE Stored \subseteq Stored' /\ Embedded \subseteq Embedded'
  BY <1>4 DEF Stored, Embedded
<1>5. CASE \E c \in Clients : ClientStep(c)
  BY <1>1, <1>2, <1>4, <1>5 DEF ClientStep, Check, Conflict, Reread, Embed, ItemFails, ItemRefused
<1>6. CASE BackfillStep
  BY <1>3, <1>4, <1>6 DEF BackfillStep, StartBackfill, EmbedBatch, SaveBatchFails
<1>7. CASE InvestigationStep
  BY <1>4, <1>7 DEF InvestigationStep, InvestigationOnly, Claimed, Fetch, EmbedQuery, Compare,
                    CompareFails, Fuse, Progress, Runbooks
<1>8. CASE UNCHANGED vars
  BY <1>4, <1>8 DEF vars
<1> QED BY <1>5, <1>6, <1>7, <1>8 DEF Next


LEMMA NextBackfillInv == IngestInv /\ BackfillInv /\ [Next]_vars => BackfillInv'
<1> SUFFICES ASSUME IngestInv, BackfillInv, [Next]_vars PROVE BackfillInv'
  OBVIOUS
<1> USE DEF BackfillInv
<1>1. Stored \subseteq Stored' /\ Embedded \subseteq Embedded'
  BY VectorsStay
<1>2. Stored \subseteq Events /\ Batch \subseteq backfill.todo /\ rows \in [Events -> Row]
  BY BatchIsTodo DEF Stored, IngestInv, EvidenceTypes
<1>3. ASSUME UNCHANGED backfill PROVE BackfillInv'
  <2>1. BackfillTypes' /\ Batch' = Batch
    BY <1>3 DEF BackfillTypes, Batch, Earliest
  <2>2. BackfillOwes' /\ BackfillCovers'
    BY <1>1, <1>3, <2>1 DEF BackfillOwes, BackfillCovers
  <2> QED BY <2>1, <2>2
<1>4. ASSUME StartBackfill PROVE BackfillInv'
  <2> DEFINE todo == Stored \ Embedded
             step == IF todo = {} THEN "done" ELSE "embedding"
  <2>1. /\ backfill' = [step |-> step, todo |-> todo, vectors |-> {}, found |-> todo, refused |-> {},
                        runs |-> backfill.runs + 1]
        /\ rows' = rows
    BY <1>4 DEF StartBackfill
  <2>2. /\ step \in {"done", "embedding"} /\ (step = "done" => todo = {})
        /\ todo \subseteq Stored /\ todo \subseteq Events
    BY <1>2
  <2>3. Stored' = Stored
    BY <2>1 DEF Stored
  <2> HIDE DEF step, todo
  <2> QED BY <2>1, <2>2, <2>3 DEF BackfillTypes, BackfillOwes, BackfillCovers
<1>5. ASSUME EmbedBatch PROVE BackfillInv'
  <2>1. PICK got \in SUBSET Batch :
          backfill' = [backfill EXCEPT !.step = "saving", !.vectors = got,
                                       !.refused = @ \cup (Batch \ got)]
    BY <1>5 DEF EmbedBatch
  <2>2. /\ backfill'.step = "saving" /\ backfill'.vectors = got /\ backfill'.todo = backfill.todo
        /\ backfill'.refused = backfill.refused \cup (Batch \ got) /\ backfill'.found = backfill.found
        /\ backfill'.runs = backfill.runs /\ backfill.step = "embedding"
    BY <1>5, <2>1 DEF EmbedBatch, BackfillTypes
  <2>3. BackfillTypes'
    BY <1>2, <2>1 DEF BackfillTypes
  <2>4. Batch' = Batch
    BY <2>2 DEF Batch, Earliest
  <2> HIDE DEF BackfillInv
  <2>5. BackfillOwes'
    BY <1>1, <2>2, <2>4 DEF BackfillInv, BackfillOwes
  <2> QED BY <2>2, <2>3, <2>5 DEF BackfillInv, BackfillCovers
<1>6. ASSUME SaveBatch PROVE BackfillInv'
  <2> DEFINE step == IF Rest = {} THEN "done" ELSE "embedding"
  <2>1. backfill' = [backfill EXCEPT !.todo = Rest, !.step = step] /\ backfill.step = "saving"
    BY <1>6 DEF SaveBatch
  <2>2. step \in {"done", "embedding"} /\ (step = "done" => Rest = {})
    OBVIOUS
  <2> HIDE DEF step
  <2>3. Rest \subseteq backfill.todo /\ backfill.todo \subseteq Batch \cup Rest
    BY DEF Rest
  <2>4. BackfillTypes' /\ backfill'.step = step /\ backfill'.todo = Rest
        /\ backfill'.refused = backfill.refused /\ backfill'.found = backfill.found
    BY <2>1, <2>2, <2>3 DEF BackfillTypes
  <2>5. backfill.vectors \subseteq Embedded'
    <3> SUFFICES ASSUME NEW e \in backfill.vectors PROVE e \in Embedded'
      OBVIOUS
    <3>1. e \in Stored /\ e \in Events
      BY <1>2, <2>1 DEF BackfillOwes
    <3>2. rows'[e].embedded = TRUE /\ rows'[e].stored = rows[e].stored
      BY <1>2, <1>6, <3>1 DEF SaveBatch, Row
    <3> QED BY <3>1, <3>2 DEF Embedded, Stored
  <2>6. backfill.found \subseteq Embedded' \cup backfill.refused \cup Rest
    BY <1>1, <2>1, <2>3, <2>5 DEF BackfillOwes
  <2>7. BackfillOwes'
    BY <1>1, <2>2, <2>3, <2>4, <2>6 DEF BackfillOwes
  <2>8. BackfillCovers'
    BY <2>2, <2>4, <2>6 DEF BackfillCovers
  <2> QED BY <2>4, <2>7, <2>8
<1>7. ASSUME SaveBatchFails PROVE BackfillInv'
  <2> DEFINE step == IF Rest = {} THEN "done" ELSE "died"
  <2>1. /\ backfill' = [backfill EXCEPT !.step = step, !.todo = Rest, !.refused = @ \cup Batch]
        /\ backfill.step = "saving" /\ rows' = rows
    BY <1>7 DEF SaveBatchFails
  <2>2. step \in {"done", "died"} /\ (step = "done" => Rest = {})
    OBVIOUS
  <2> HIDE DEF step
  <2>3. Rest \subseteq backfill.todo /\ backfill.todo \subseteq Batch \cup Rest
    BY DEF Rest
  <2>4. BackfillTypes' /\ backfill'.step = step /\ backfill'.todo = Rest
        /\ backfill'.refused = backfill.refused \cup Batch /\ backfill'.found = backfill.found
    BY <1>2, <2>1, <2>2, <2>3 DEF BackfillTypes
  <2>5. BackfillOwes'
    BY <1>1, <2>2, <2>3, <2>4 DEF BackfillOwes
  <2>6. BackfillCovers'
    BY <1>1, <2>1, <2>2, <2>3, <2>4 DEF BackfillOwes, BackfillCovers
  <2> QED BY <2>4, <2>5, <2>6
<1>8. CASE \E c \in Clients : ClientStep(c)
  BY <1>3, <1>8 DEF ClientStep, Check, Insert, Conflict, Reread, Embed, SaveVector, ItemFails, ItemRefused,
                    IngestOnly
<1>9. CASE BackfillStep
  BY <1>4, <1>5, <1>6, <1>7, <1>9 DEF BackfillStep
<1>10. CASE InvestigationStep
  BY <1>3, <1>10 DEF InvestigationStep, InvestigationOnly, Claimed, Fetch, EmbedQuery, Compare,
                     CompareFails, Fuse, Progress, Runbooks
<1>11. CASE UNCHANGED vars
  BY <1>3, <1>11 DEF vars
<1> QED BY <1>8, <1>9, <1>10, <1>11 DEF Next

\* A backfill that ran to its end owes no event a vector: what it found is
\* embedded, or was refused by the provider or with a failed commit
\* (scripts/backfill_evidence_embeddings.py).
THEOREM BackfillsCover == Spec => []BackfillCovers
<1>1. BackfillInv => BackfillCovers
  BY DEF BackfillInv
<1> QED BY <1>1, IngestHolds, InitBackfillInv, NextBackfillInv, PTL DEF Spec
=============================================================================
