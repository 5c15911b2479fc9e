---------------------------- MODULE RagChat_proofs ----------------------------
(***************************************************************************)
(* Machine-checked facts about the embedding cache, for every number of    *)
(* calls, queries and entries, alone and driven by the turns of RagChat,   *)
(* and about the turns: the history a prompt gets, and that what a client  *)
(* is told of a turn is what the conversation has.                         *)
(***************************************************************************)
EXTENDS RagChat, SequenceTheorems, FiniteSetTheorems, WellFoundedInduction, TLAPS

-----------------------------------------------------------------------------
(* Futures.                                                                *)

FutureTypes ==
  /\ inFlight \in [Queries -> Calls \cup {None}]
  /\ futures \in [Calls -> FutureStates]
  /\ calls \in [Calls -> Call]

\* A call that has not looked up yet has no future, and what is in flight or
\* waited for has been made.
FuturesMade ==
  /\ \A c \in Calls : calls[c].at \in {"idle", "started"} => futures[c] = "none"
  /\ \A c \in Calls : calls[c].at # "idle" => calls[c].query \in Queries
  /\ \A q \in Queries : inFlight[q] # None => futures[inFlight[q]] # "none"
  /\ \A c \in Calls : calls[c].at = "waiting" =>
       calls[c].on \in Calls /\ futures[calls[c].on] # "none"

FutureInv == FutureTypes /\ FuturesMade /\ NobodyWaitsInVain

LEMMA InitFutureInv == CacheInit => FutureInv
BY NoneAssumption DEF CacheInit, FutureInv, FutureTypes, FuturesMade, NobodyWaitsInVain,
   FutureStates, Call, CallStates

\* A step of one call that leaves the futures alone.
LEMMA CallStep ==
  ASSUME FutureInv, NEW c \in Calls, NEW x \in Call,
         calls' = [calls EXCEPT ![c] = x], UNCHANGED <<inFlight, futures>>,
         x.at \in {"idle", "started"} => futures[c] = "none",
         x.at # "idle" => x.query \in Queries,
         x.at = "waiting" => /\ x.on \in Calls /\ futures[x.on] # "none"
                             /\ futures[x.on] = "pending" => inFlight[x.query] = x.on,
         \A q \in Queries : inFlight[q] = c /\ futures[c] = "pending" =>
           x.at = "computing" /\ x.query = q
  PROVE  FutureInv'
<1> USE NoneAssumption DEF FutureInv
<1>1. FutureTypes'
  BY DEF FutureTypes
<1>2. calls'[c] = x /\ \A d \in Calls : d # c => calls'[d] = calls[d]
  BY DEF FutureTypes
<1>3. FuturesMade'
  BY <1>2 DEF FuturesMade
<1>4. NobodyWaitsInVain'
  BY <1>2 DEF NobodyWaitsInVain, FutureTypes
<1> QED BY <1>1, <1>3, <1>4

LEMMA CallUpdates ==
  ASSUME NEW x \in Call
  PROVE  /\ \A at \in CallStates : [x EXCEPT !.at = at] \in Call
         /\ \A at \in CallStates : LET y == [x EXCEPT !.at = at]
                                   IN  y.at = at /\ y.query = x.query /\ y.on = x.on
BY DEF Call

\* A call leaves for an end, or to compute on its own.
LEMMA GotoStep ==
  ASSUME FutureInv, NEW c \in Calls, NEW at \in {"returned", "failed", "cancelled", "computing"},
         Goto(c, at), UNCHANGED <<inFlight, futures>>, calls[c].at \in {"started", "waiting"}
  PROVE  FutureInv'
<1> DEFINE x == [calls[c] EXCEPT !.at = at]
<1>1. calls[c] \in Call /\ at \in CallStates
  BY DEF FutureInv, FutureTypes, CallStates
<1>2. x \in Call /\ x.at = at /\ x.query = calls[c].query /\ x.on = calls[c].on
  BY <1>1, CallUpdates, Zenon
<1>3. calls' = [calls EXCEPT ![c] = x]
  BY Zenon DEF Goto
<1> HIDE DEF x
<1>4. \A q \in Queries : ~(inFlight[q] = c /\ futures[c] = "pending")
  BY NoneAssumption DEF FutureInv, NobodyWaitsInVain, FutureTypes
<1>5. calls[c].query \in Queries
  BY DEF FutureInv, FuturesMade
<1> QED BY ZenonT(30), <1>2, <1>3, <1>4, <1>5, CallStep

\* Whoever pops the future of its query resolves it, and only it.
LEMMA PopStep ==
  ASSUME FutureInv, NEW c \in Calls, calls[c].at = "computing",
         NEW outcome \in {"result", "error", "cancelled"}, Pop(calls[c].query, outcome),
         NEW at \in {"returned", "failed", "cancelled"}, Goto(c, at)
  PROVE  FutureInv'
<1> DEFINE x == [calls[c] EXCEPT !.at = at]
           q == calls[c].query
           f == inFlight[q]
<1>1. calls[c] \in Call /\ at \in CallStates /\ q \in Queries
  BY DEF FutureInv, FutureTypes, FuturesMade, CallStates
<1>2. x \in Call /\ x.at = at /\ x.query = q /\ x.on = calls[c].on
  BY <1>1, CallUpdates, Zenon
<1>3. calls' = [calls EXCEPT ![c] = x]
  BY Zenon DEF Goto
<1> HIDE DEF x
<1>4. calls'[c] = x /\ \A d \in Calls : d # c => calls'[d] = calls[d]
  BY <1>3 DEF FutureInv, FutureTypes
<1>5. /\ inFlight' = [inFlight EXCEPT ![q] = None]
      /\ futures' = IF f # None /\ futures[f] = "pending"
                    THEN [futures EXCEPT ![f] = outcome] ELSE futures
  BY DEF Pop
<1>6. f \in Calls \cup {None}
  BY <1>1 DEF FutureInv, FutureTypes
<1>7. FutureTypes'
  BY <1>2, <1>3, <1>5, <1>6 DEF FutureInv, FutureTypes, FutureStates
<1>8. \A d \in Calls : \/ futures'[d] = futures[d]
                       \/ d = f /\ futures[d] = "pending" /\ futures'[d] = outcome
  BY <1>5, <1>6 DEF FutureInv, FutureTypes
<1>9. /\ inFlight'[q] = None
      /\ \A r \in Queries : r # q => inFlight'[r] = inFlight[r]
      /\ \A r \in Queries : inFlight[r] \in Calls \cup {None}
  BY <1>1, <1>5 DEF FutureInv, FutureTypes
<1>10. f # None => f \in Calls /\ futures'[f] # "pending"
  BY <1>5, <1>6 DEF FutureInv, FutureTypes
<1> HIDE DEF q, f
<1>11. FuturesMade'
  BY <1>1, <1>2, <1>4, <1>8, <1>9, NoneAssumption DEF FutureInv, FuturesMade, q
<1>12. NobodyWaitsInVain'
  <2>1. ASSUME NEW r \in Queries, inFlight'[r] # None, futures'[inFlight'[r]] = "pending"
        PROVE  calls'[inFlight'[r]].at = "computing" /\ calls'[inFlight'[r]].query = r
    <3>1. r # q /\ inFlight'[r] = inFlight[r] /\ inFlight[r] \in Calls
      BY <1>9, <2>1
    <3>2. futures[inFlight[r]] = "pending"
      BY <1>8, <2>1, <3>1
    <3>3. calls[inFlight[r]].at = "computing" /\ calls[inFlight[r]].query = r
      BY <2>1, <3>1, <3>2 DEF FutureInv, NobodyWaitsInVain
    <3>4. inFlight[r] # c
      BY <3>1, <3>3 DEF q
    <3> QED BY <1>4, <3>1, <3>3, <3>4
  <2>2. ASSUME NEW d \in Calls, calls'[d].at = "waiting", futures'[calls'[d].on] = "pending"
        PROVE  inFlight'[calls'[d].query] = calls'[d].on
    <3>1. d # c /\ calls'[d] = calls[d]
      BY <1>2, <1>4, <2>2
    <3>2. calls[d].on \in Calls /\ calls[d].query \in Queries
      BY <2>2, <3>1 DEF FutureInv, FuturesMade
    <3>3. futures[calls[d].on] = "pending"
      BY <1>8, <2>2, <3>1, <3>2
    <3>4. inFlight[calls[d].query] = calls[d].on
      BY <2>2, <3>1, <3>3 DEF FutureInv, NobodyWaitsInVain
    <3>5. calls[d].query # q
      BY <1>10, <2>2, <3>1, <3>2, <3>4, NoneAssumption DEF f
    <3> QED BY <1>9, <3>1, <3>2, <3>4, <3>5
  <2> QED BY <2>1, <2>2 DEF NobodyWaitsInVain
<1> QED BY <1>7, <1>11, <1>12 DEF FutureInv

LEMMA StartStep ==
  ASSUME FutureInv, NEW c \in Calls, NEW q \in Queries, StartCall(c, q)
  PROVE  FutureInv'
<1> DEFINE x == [calls[c] EXCEPT !.at = "started", !.query = q]
<1>1. \A y \in Call : LET z == [y EXCEPT !.at = "started", !.query = q]
                     IN  z \in Call /\ z.at = "started" /\ z.query = q
  BY DEF Call, CallStates
<1>2. x \in Call /\ x.at = "started" /\ x.query = q
  BY <1>1, Zenon DEF FutureInv, FutureTypes
<1>3. calls' = [calls EXCEPT ![c] = x] /\ UNCHANGED <<inFlight, futures>>
  BY Zenon DEF StartCall
<1> HIDE DEF x
<1>4. futures[c] = "none"
  BY DEF FutureInv, FuturesMade, StartCall
<1> QED BY <1>2, <1>3, <1>4, CallStep

\* A wait for what is in flight, whether pending or cancelled by another waiter.
WaitFor(c, f) == calls' = [calls EXCEPT ![c].at = "waiting", ![c].on = f]

LEMMA WaitStep ==
  ASSUME FutureInv, NEW c \in Calls, calls[c].at = "started",
         inFlight[calls[c].query] # None, UNCHANGED <<inFlight, futures>>,
         WaitFor(c, inFlight[calls[c].query])
  PROVE  FutureInv'
<1> DEFINE q == calls[c].query
           x == [calls[c] EXCEPT !.at = "waiting", !.on = inFlight[q]]
<1>1. q \in Queries /\ inFlight[q] \in Calls /\ futures[inFlight[q]] # "none"
  BY DEF FutureInv, FuturesMade, FutureTypes
<1>2. \A y \in Call, d \in Calls :
        LET z == [y EXCEPT !.at = "waiting", !.on = d]
        IN  z \in Call /\ z.at = "waiting" /\ z.on = d /\ z.query = y.query
  BY DEF Call, CallStates
<1>3. x \in Call /\ x.at = "waiting" /\ x.on = inFlight[q] /\ x.query = q
  BY <1>1, <1>2, Zenon DEF FutureInv, FutureTypes
<1>4. calls' = [calls EXCEPT ![c] = x]
  BY Zenon DEF WaitFor
<1>5. futures[c] = "none"
  BY DEF FutureInv, FuturesMade
<1> HIDE DEF x
<1> QED BY <1>1, <1>3, <1>4, <1>5, CallStep

\* A computation that others can wait for.
LEMMA RegisterStep ==
  ASSUME FutureInv, NEW c \in Calls, calls[c].at = "started",
         inFlight[calls[c].query] = None, inFlight' = [inFlight EXCEPT ![calls[c].query] = c],
         futures' = [futures EXCEPT ![c] = "pending"], Goto(c, "computing")
  PROVE  FutureInv'
<1> DEFINE q == calls[c].query
           x == [calls[c] EXCEPT !.at = "computing"]
<1>1. q \in Queries /\ futures[c] = "none" /\ calls[c] \in Call /\ "computing" \in CallStates
  BY DEF FutureInv, FuturesMade, FutureTypes, CallStates
<1>2. x \in Call /\ x.at = "computing" /\ x.query = q
  BY <1>1, CallUpdates, Zenon
<1>3. calls' = [calls EXCEPT ![c] = x]
  BY Zenon DEF Goto
<1> HIDE DEF x
<1>4. calls'[c] = x /\ \A d \in Calls : d # c => calls'[d] = calls[d]
  BY <1>3 DEF FutureInv, FutureTypes
<1>5. futures'[c] = "pending" /\ \A d \in Calls : d # c => futures'[d] = futures[d]
  BY DEF FutureInv, FutureTypes
<1>6. /\ inFlight'[q] = c /\ \A r \in Queries : r # q => inFlight'[r] = inFlight[r]
      /\ \A r \in Queries : inFlight[r] \in Calls \cup {None}
  BY <1>1 DEF FutureInv, FutureTypes
<1>7. FutureTypes'
  BY <1>1, <1>2, <1>3 DEF FutureInv, FutureTypes, FutureStates
<1> HIDE DEF q
<1>8. FuturesMade'
  BY <1>1, <1>2, <1>4, <1>5, <1>6 DEF FutureInv, FuturesMade
<1>9. NobodyWaitsInVain'
  <2>1. \A r \in Queries : inFlight[r] # c
    BY <1>1, NoneAssumption DEF FutureInv, FuturesMade
  <2>2. \A d \in Calls : calls[d].at = "waiting" => calls[d].on # c
    BY <1>1 DEF FutureInv, FuturesMade
  <2>3. ASSUME NEW r \in Queries, inFlight'[r] # None, futures'[inFlight'[r]] = "pending"
        PROVE  calls'[inFlight'[r]].at = "computing" /\ calls'[inFlight'[r]].query = r
    BY <1>2, <1>4, <1>5, <1>6, <2>1, <2>3 DEF FutureInv, NobodyWaitsInVain
  <2>4. ASSUME NEW d \in Calls, calls'[d].at = "waiting", futures'[calls'[d].on] = "pending"
        PROVE  inFlight'[calls'[d].query] = calls'[d].on
    <3>1. d # c /\ calls'[d] = calls[d] /\ calls[d].on \in Calls /\ calls[d].query \in Queries
      BY <1>2, <1>4, <2>4 DEF FutureInv, FuturesMade
    <3>2. inFlight[calls[d].query] = calls[d].on
      BY <1>5, <2>2, <2>4, <3>1 DEF FutureInv, NobodyWaitsInVain
    <3>3. calls[d].query # q
      BY <3>1, <3>2, NoneAssumption DEF q
    <3> QED BY <1>6, <3>1, <3>2, <3>3
  <2> QED BY <2>3, <2>4 DEF NobodyWaitsInVain
<1> QED BY <1>7, <1>8, <1>9 DEF FutureInv

\* A waiter takes the future it shares with it.
LEMMA CancelWaitingStep ==
  ASSUME FutureInv, NEW c \in Calls, CancelWaiting(c)
  PROVE  FutureInv'
<1> DEFINE f == calls[c].on
           x == [calls[c] EXCEPT !.at = "cancelled"]
<1>1. /\ f \in Calls /\ futures[f] # "none" /\ calls[c] \in Call
      /\ "cancelled" \in CallStates /\ calls[c].query \in Queries
  BY DEF CancelWaiting, FutureInv, FuturesMade, FutureTypes, CallStates
<1>2. x \in Call /\ x.at = "cancelled" /\ x.query = calls[c].query
  BY <1>1, CallUpdates, Zenon
<1>3. calls' = [calls EXCEPT ![c] = x] /\ inFlight' = inFlight
  BY Zenon DEF CancelWaiting, Goto
<1>4. calls[c].at = "waiting"
  BY DEF CancelWaiting
<1> HIDE DEF x
<1>5. calls'[c] = x /\ \A d \in Calls : d # c => calls'[d] = calls[d]
  BY <1>3 DEF FutureInv, FutureTypes
<1>6. \A d \in Calls : \/ futures'[d] = futures[d]
                       \/ d = f /\ futures[d] = "pending" /\ futures'[d] = "cancelled"
  BY <1>1 DEF CancelWaiting, FutureInv, FutureTypes
<1>7. FutureTypes'
  BY <1>1, <1>2, <1>3 DEF CancelWaiting, FutureInv, FutureTypes, FutureStates
<1>8. \A q \in Queries : inFlight[q] \in Calls \cup {None}
  BY DEF FutureInv, FutureTypes
<1> HIDE DEF f
<1>9. FuturesMade'
  BY <1>1, <1>2, <1>3, <1>5, <1>6, <1>8 DEF FutureInv, FuturesMade
<1>10. NobodyWaitsInVain'
  BY <1>2, <1>3, <1>4, <1>5, <1>6, <1>8, <1>9
     DEF FutureInv, NobodyWaitsInVain, FuturesMade
<1> QED BY <1>7, <1>9, <1>10 DEF FutureInv

LEMMA NextFutureInv ==
  ASSUME FutureInv, [CacheNext]_cacheVars
  PROVE  FutureInv'
<1>1. ASSUME NEW c \in Calls, LookUp(c) PROVE FutureInv'
  <2>1. CASE Goto(c, "returned") /\ UNCHANGED <<inFlight, futures>>
    BY <1>1, <2>1, GotoStep DEF LookUp
  <2>2. CASE /\ inFlight[calls[c].query] # None /\ UNCHANGED <<inFlight, futures>>
             /\ calls' = [calls EXCEPT ![c].at = "waiting", ![c].on = inFlight[calls[c].query]]
    <3>1. calls[c].at = "started"
      BY <1>1 DEF LookUp
    <3> QED BY <2>2, <3>1, WaitStep, Zenon DEF WaitFor
  <2>3. CASE /\ inFlight[calls[c].query] = None /\ Goto(c, "computing")
             /\ inFlight' = [inFlight EXCEPT ![calls[c].query] = c]
             /\ futures' = [futures EXCEPT ![c] = "pending"]
    <3>1. calls[c].at = "started"
      BY <1>1 DEF LookUp
    <3> QED BY <2>3, <3>1, RegisterStep, Zenon
  <2> QED BY <1>1, <2>1, <2>2, <2>3, Zenon DEF LookUp
<1>2. ASSUME NEW c \in Calls, WakeUp(c) PROVE FutureInv'
  BY <1>2, GotoStep DEF WakeUp
<1>3. ASSUME NEW c \in Calls, Compute(c) \/ ComputeFails(c) \/ CancelComputing(c)
      PROVE  FutureInv'
  BY <1>3, PopStep DEF Compute, ComputeFails, CancelComputing
<1>4. ASSUME NEW c \in Calls, CancelStarted(c) PROVE FutureInv'
  BY <1>4, GotoStep DEF CancelStarted
<1>5. CASE UNCHANGED cacheVars
  BY <1>5 DEF cacheVars, FutureInv, FutureTypes, FuturesMade, NobodyWaitsInVain
<1> QED
  BY <1>1, <1>2, <1>3, <1>4, <1>5, StartStep, CancelWaitingStep DEF CacheNext, Serve, CancelCall

(* Whoever waits for an embedding waits for a call that computes it, however *)
(* many calls start, fail and are cancelled.                                 *)
THEOREM CacheServesWaiters == CacheSpec => []NobodyWaitsInVain
<1>1. FutureInv => NobodyWaitsInVain
  BY DEF FutureInv
<1> QED BY InitFutureInv, NextFutureInv, <1>1, PTL DEF CacheSpec

-----------------------------------------------------------------------------
(* The size of the cache.                                                  *)

BoundInv == cached \in Seq(Queries) /\ CacheBounded

Distinct(s) == \A m, n \in DOMAIN s : s[m] = s[n] => m = n

LEMMA Removed ==
  ASSUME NEW s \in Seq(Queries), NEW n \in 1..Len(s)
  PROVE  /\ RemoveAt(s, n) \in Seq(Queries)
         /\ Len(RemoveAt(s, n)) = Len(s) - 1
         /\ \A i \in 1..Len(s) - 1 : RemoveAt(s, n)[i] = IF i < n THEN s[i] ELSE s[i + 1]
<1> DEFINE a == SubSeq(s, 1, n - 1)
           b == SubSeq(s, n + 1, Len(s))
<1>1. a \in Seq(Queries) /\ Len(a) = n - 1 /\ \A i \in 1..n - 1 : a[i] = s[i]
  OBVIOUS
<1>2. b \in Seq(Queries) /\ Len(b) = Len(s) - n /\ \A i \in 1..Len(s) - n : b[i] = s[n + i]
  OBVIOUS
<1>3. RemoveAt(s, n) = a \o b
  BY DEF RemoveAt
<1> HIDE DEF a, b
<1>4. a \o b \in Seq(Queries) /\ Len(a \o b) = Len(s) - 1
  <2>1. a \o b \in Seq(Queries) /\ Len(a \o b) = Len(a) + Len(b)
    BY <1>1, <1>2, ConcatProperties
  <2>2. Len(s) \in Nat
    OBVIOUS
  <2> QED BY <1>1, <1>2, <2>1, <2>2
<1>5. \A i \in 1..Len(s) - 1 : (a \o b)[i] = IF i < n THEN s[i] ELSE s[i + 1]
  <2> SUFFICES ASSUME NEW i \in 1..Len(s) - 1
               PROVE  (a \o b)[i] = IF i < n THEN s[i] ELSE s[i + 1]
    OBVIOUS
  <2>1. CASE i < n
    BY <1>1, <1>2, <2>1
  <2>2. CASE ~(i < n)
    <3>1. (a \o b)[i] = b[i - (n - 1)]
      BY <1>1, <1>2, <2>2
    <3>2. i - (n - 1) \in 1..Len(s) - n /\ n + (i - (n - 1)) = i + 1
      BY <2>2
    <3> QED BY <1>2, <2>2, <3>1, <3>2
  <2> QED BY <2>1, <2>2
<1> QED BY <1>3, <1>4, <1>5

\* A hit moves an entry; nothing comes or goes.
LEMMA TouchStep ==
  ASSUME BoundInv, NEW n \in DOMAIN cached, Touch(n)
  PROVE  BoundInv'
<1> DEFINE s == RemoveAt(cached, n)
<1>1. n \in 1..Len(cached) /\ cached \in Seq(Queries) /\ Len(cached) <= MaxSize
      /\ Distinct(cached) /\ cached[n] \in Queries /\ MaxSize \in Nat
  BY MaxSizeAssumption DEF BoundInv, CacheBounded, Distinct
<1>2. s \in Seq(Queries) /\ Len(s) = Len(cached) - 1
      /\ \A i \in 1..Len(cached) - 1 : s[i] = IF i < n THEN cached[i] ELSE cached[i + 1]
  BY <1>1, Removed
<1>3. cached' = Append(s, cached[n])
  BY DEF Touch
<1> HIDE DEF s
<1>4. cached' \in Seq(Queries) /\ Len(cached') = Len(cached)
  BY <1>1, <1>2, <1>3
<1>5. /\ cached'[Len(cached)] = cached[n]
      /\ \A i \in 1..Len(cached) - 1 : cached'[i] = IF i < n THEN cached[i] ELSE cached[i + 1]
  BY <1>1, <1>2, <1>3
<1>6. Distinct(cached')
  <2> DEFINE from(i) == IF i = Len(cached) THEN n ELSE IF i < n THEN i ELSE i + 1
  <2>1. \A i \in 1..Len(cached) : from(i) \in 1..Len(cached) /\ cached'[i] = cached[from(i)]
    BY <1>1, <1>5
  <2>2. \A i, j \in 1..Len(cached) : from(i) = from(j) => i = j
    BY <1>1
  <2> HIDE DEF from
  <2>3. DOMAIN cached' = 1..Len(cached) /\ DOMAIN cached = 1..Len(cached)
    BY <1>1, <1>4
  <2> SUFFICES ASSUME NEW i \in 1..Len(cached), NEW j \in 1..Len(cached), cached'[i] = cached'[j]
               PROVE  i = j
    BY <2>3 DEF Distinct
  <2>4. cached[from(i)] = cached[from(j)]
    BY <2>1
  <2>5. from(i) = from(j)
    BY <1>1, <2>1, <2>3, <2>4 DEF Distinct
  <2> QED BY <2>2, <2>5
<1> QED BY <1>1, <1>4, <1>6 DEF BoundInv, CacheBounded, Distinct

\* The least recently used entry makes room.
LEMMA StoredStep ==
  ASSUME BoundInv, NEW q \in Queries, cached' = Stored(q)
  PROVE  BoundInv'
<1> DEFINE kept == IF Len(cached) >= MaxSize THEN Tail(cached) ELSE cached
<1>1. cached \in Seq(Queries) /\ Len(cached) <= MaxSize /\ Distinct(cached) /\ MaxSize \in Nat \ {0}
  BY MaxSizeAssumption DEF BoundInv, CacheBounded, Distinct
<1>2. CASE Cached(q)
  <2>1. cached' = cached
    BY <1>2 DEF Stored
  <2> QED BY <2>1 DEF BoundInv, CacheBounded
<1>3. CASE ~Cached(q)
  <2>1. cached' = Append(kept, q)
    BY <1>3 DEF Stored
  <2>2. /\ kept \in Seq(Queries) /\ Len(kept) < MaxSize
        /\ Distinct(kept) /\ \A i \in DOMAIN kept : kept[i] # q
    <3>1. CASE Len(cached) >= MaxSize
      <4> DEFINE rest == Tail(cached)
      <4>1. rest \in Seq(Queries) /\ Len(rest) = Len(cached) - 1
            /\ \A i \in 1..Len(cached) - 1 : rest[i] = cached[i + 1]
        BY <1>1, <3>1, HeadTailProperties
      <4>2. kept = rest
        BY <3>1
      <4> HIDE DEF rest, kept
      <4>3. DOMAIN kept = 1..Len(cached) - 1 /\ Len(cached) \in Nat
        BY <1>1, <4>1, <4>2
      <4>4. Distinct(kept)
        <5> SUFFICES ASSUME NEW i \in DOMAIN kept, NEW j \in DOMAIN kept, kept[i] = kept[j]
                     PROVE  i = j
          BY DEF Distinct
        <5>1. cached[i + 1] = cached[j + 1] /\ {i + 1, j + 1} \subseteq DOMAIN cached
          BY <1>1, <4>1, <4>2, <4>3
        <5> QED BY <1>1, <4>3, <5>1 DEF Distinct
      <4>5. \A i \in DOMAIN kept : kept[i] # q
        <5> SUFFICES ASSUME NEW i \in DOMAIN kept PROVE kept[i] # q
          OBVIOUS
        <5>1. kept[i] = cached[i + 1] /\ i + 1 \in DOMAIN cached
          BY <1>1, <4>1, <4>2, <4>3
        <5> QED BY <1>3, <5>1 DEF Cached
      <4> QED BY <1>1, <4>1, <4>2, <4>3, <4>4, <4>5
    <3>2. CASE ~(Len(cached) >= MaxSize)
      BY <1>1, <1>3, <3>2 DEF Cached
    <3> QED BY <3>1, <3>2
  <2> HIDE DEF kept
  <2>3. cached' \in Seq(Queries) /\ Len(cached') = Len(kept) + 1
        /\ cached'[Len(kept) + 1] = q /\ \A i \in 1..Len(kept) : cached'[i] = kept[i]
    BY <2>1, <2>2
  <2> QED BY <1>1, <2>2, <2>3 DEF BoundInv, CacheBounded, Distinct
<1> QED BY <1>2, <1>3

(* The cache never holds more vectors than its size, nor one twice, and all  *)
(* of its state keeps its type.                                              *)
THEOREM CacheStaysBounded == CacheSpec => [](CacheTypeOK /\ CacheBounded)
<1>1. CacheInit => BoundInv
  BY MaxSizeAssumption DEF CacheInit, BoundInv, CacheBounded
<1>2. FutureInv /\ BoundInv /\ [CacheNext]_cacheVars => BoundInv'
  <2> SUFFICES ASSUME FutureInv, BoundInv, [CacheNext]_cacheVars PROVE BoundInv'
    OBVIOUS
  <2>1. CASE UNCHANGED cached
    BY <2>1 DEF BoundInv, CacheBounded
  <2>2. ASSUME NEW c \in Calls, LookUp(c) PROVE BoundInv'
    BY <2>1, <2>2, TouchStep DEF LookUp
  <2>3. ASSUME NEW c \in Calls, Compute(c) PROVE BoundInv'
    <3>1. calls[c].query \in Queries /\ cached' = Stored(calls[c].query)
      BY <2>3 DEF Compute, FutureInv, FuturesMade
    <3> QED BY <3>1, StoredStep
  <2>4. ASSUME NEW c \in Calls, WakeUp(c) \/ ComputeFails(c) \/ CancelCall(c) PROVE BoundInv'
    BY <2>1, <2>4 DEF WakeUp, ComputeFails, CancelCall, CancelStarted, CancelWaiting,
       CancelComputing
  <2>5. ASSUME NEW c \in Calls, NEW q \in Queries, StartCall(c, q) PROVE BoundInv'
    BY <2>1, <2>5 DEF StartCall
  <2>6. CASE UNCHANGED cacheVars
    BY <2>1, <2>6 DEF cacheVars
  <2> QED BY <2>2, <2>3, <2>4, <2>5, <2>6 DEF CacheNext, Serve
<1>3. FutureInv /\ BoundInv => CacheTypeOK /\ CacheBounded
  BY DEF FutureInv, FutureTypes, BoundInv, CacheTypeOK
<1> QED BY InitFutureInv, NextFutureInv, <1>1, <1>2, <1>3, PTL DEF CacheSpec

-----------------------------------------------------------------------------
(* The turns.                                                              *)

(* The chat uses the cache as the cache is meant to be used: whatever turns  *)
(* do, including cancelling, is a behaviour of the cache's own specification.*)
THEOREM ChatImplementsCache == Spec => CacheSpec
<1>1. Init => CacheInit
  BY DEF Init
<1>2. [Next]_vars => [CacheNext]_cacheVars
  <2> SUFFICES ASSUME Next PROVE CacheNext \/ UNCHANGED cacheVars
    BY DEF vars, cacheVars
  <2>1. ASSUME NEW t \in Turns, Handle(t) PROVE CacheNext \/ UNCHANGED cacheVars
    <3>1. CASE \E q \in Queries : BeginSearch(t, q)
      BY <3>1 DEF BeginSearch, CacheNext, Turns
    <3>2. CASE Refuse(t)
      BY <3>2 DEF Refuse, CacheNext, Turns
    <3> QED
      BY <2>1, <3>1, <3>2 DEF Handle, AskStreamed, AskSync, FailEarly, Authorize, Embedded,
         EmbeddingFailed, Search, Prompt, FailRetrieval, Generate, GenerationFails, SaveAnswer,
         SaveFails, Done
  <2>2. ASSUME NEW t \in Turns, History(t) \/ ServeCall(t) \/ Disconnect(t)
        PROVE  CacheNext \/ UNCHANGED cacheVars
    BY <2>2 DEF History, ReadHistory, HistoryFails, ServeCall, Disconnect, CacheNext, Turns
  <2>3. ASSUME NEW t \in Turns, NEW kind \in {"stream", "sync"}, NEW c \in Conversations,
               BeginTurn(t, kind, c)
        PROVE  UNCHANGED cacheVars
    BY <2>3 DEF BeginTurn
  <2>4. ASSUME NEW c \in Conversations, DeleteConversation(c) PROVE UNCHANGED cacheVars
    BY <2>4 DEF DeleteConversation
  <2> QED BY <2>1, <2>2, <2>3, <2>4 DEF Next
<1> QED BY <1>1, <1>2, PTL DEF Spec, CacheSpec

(* No turn waits for an embedding that nobody computes.                      *)
THEOREM TurnsAreServed == Spec => []NobodyWaitsInVain
BY ChatImplementsCache, CacheServesWaiters, PTL

-----------------------------------------------------------------------------
(* Parts of a sequence, and its newest elements.                           *)

\* Of any natural numbers one is the least.
LEMMA LeastNatural ==
  ASSUME NEW T \in SUBSET Nat, T # {}
  PROVE  \E m \in T : \A n \in T : m <= n
<1>1. PICK m \in T : \A n \in T : ~(<<n, m>> \in OpToRel(<, Nat))
  BY NatLessThanWellFounded, WFMin
<1>2. \A n \in T : ~(n < m)
  BY <1>1 DEF OpToRel
<1> QED
  BY <1>2

\* What is kept of the first n elements.
KeepsUpTo(f, s, K, m) ==
  f = [n \in 0..m |->
        IF n = 0 THEN <<>> ELSE IF s[n] \in K THEN Append(f[n - 1], s[n]) ELSE f[n - 1]]

LEMMA KeepsExists ==
  ASSUME NEW s, NEW K, NEW m \in Nat
  PROVE  \E f : KeepsUpTo(f, s, K, m)
<1> DEFINE T == {n \in Nat : ~\E f : KeepsUpTo(f, s, K, n)}
<1> SUFFICES ASSUME T # {} PROVE FALSE
  OBVIOUS
<1>1. PICK n \in T : \A k \in T : n <= k
  BY LeastNatural
<1>2. CASE n = 0
  <2>1. KeepsUpTo([i \in 0..0 |-> <<>>], s, K, 0)
    BY DEF KeepsUpTo
  <2> QED BY <1>2, <2>1
<1>3. CASE n # 0
  <2>1. n - 1 \in Nat /\ n - 1 \notin T
    BY <1>1, <1>3
  <2>2. PICK f : KeepsUpTo(f, s, K, n - 1)
    BY <2>1
  <2> DEFINE step(h, i) == IF i = 0 THEN <<>> ELSE IF s[i] \in K THEN Append(h[i - 1], s[i]) ELSE h[i - 1]
             g == [i \in 0..n |-> step(f, i)]
  <2>3. \A i \in 0..n - 1 : g[i] = f[i]
    <3> SUFFICES ASSUME NEW i \in 0..n - 1 PROVE g[i] = f[i]
      OBVIOUS
    <3>1. f[i] = step(f, i)
      BY <2>2 DEF KeepsUpTo
    <3>2. i \in 0..n
      BY <2>1
    <3> QED BY <3>1, <3>2
  <2>4. \A i \in 0..n : step(g, i) = step(f, i)
    <3> HIDE DEF g
    <3> SUFFICES ASSUME NEW i \in 0..n, i # 0 PROVE step(g, i) = step(f, i)
      OBVIOUS
    <3>1. i - 1 \in 0..n - 1
      BY <2>1
    <3> QED BY <2>3, <3>1
  <2> HIDE DEF step
  <2>5. g = [i \in 0..n |-> step(g, i)]
    BY <2>4
  <2> HIDE DEF g
  <2>6. KeepsUpTo(g, s, K, n)
    BY <2>5, Zenon DEF step, KeepsUpTo
  <2> QED BY <2>6
<1> QED BY <1>2, <1>3

LEMMA KeptKeeps ==
  ASSUME NEW S, NEW s \in Seq(S), NEW K
  PROVE  \E f : KeepsUpTo(f, s, K, Len(s)) /\ Kept(s, K) = f[Len(s)]
<1> DEFINE f == CHOOSE g : KeepsUpTo(g, s, K, Len(s))
<1>1. Len(s) \in Nat
  OBVIOUS
<1>2. KeepsUpTo(f, s, K, Len(s))
  BY <1>1, KeepsExists
<1>3. Kept(s, K) = f[Len(s)]
  BY Zenon DEF Kept, KeepsUpTo
<1> QED BY <1>2, <1>3

LEMMA KeepsNext ==
  ASSUME NEW f, NEW s, NEW K, NEW m \in Nat, KeepsUpTo(f, s, K, m)
  PROVE  /\ f[0] = <<>>
         /\ \A n \in 1..m : f[n] = IF s[n] \in K THEN Append(f[n - 1], s[n]) ELSE f[n - 1]
<1> DEFINE step(n) == IF n = 0 THEN <<>> ELSE IF s[n] \in K THEN Append(f[n - 1], s[n]) ELSE f[n - 1]
<1>1. f = [n \in 0..m |-> step(n)]
  BY Zenon DEF KeepsUpTo
<1> HIDE DEF step
<1>2. \A n \in 0..m : f[n] = step(n)
  BY <1>1
<1> QED BY <1>2 DEF step

\* Exactly the elements that are in K are kept.
LEMMA KeptElements ==
  ASSUME NEW S, NEW s \in Seq(S), NEW K
  PROVE  /\ Kept(s, K) \in Seq(S)
         /\ \A i \in DOMAIN Kept(s, K) :
              Kept(s, K)[i] \in K /\ \E j \in DOMAIN s : s[j] = Kept(s, K)[i]
         /\ \A j \in DOMAIN s : s[j] \in K => \E i \in DOMAIN Kept(s, K) : Kept(s, K)[i] = s[j]
<1>1. PICK f : KeepsUpTo(f, s, K, Len(s)) /\ Kept(s, K) = f[Len(s)]
  BY KeptKeeps
<1>2. Len(s) \in Nat /\ DOMAIN s = 1..Len(s)
  OBVIOUS
<1>3. /\ f[0] = <<>>
      /\ \A n \in 1..Len(s) : f[n] = IF s[n] \in K THEN Append(f[n - 1], s[n]) ELSE f[n - 1]
  BY <1>1, <1>2, KeepsNext
<1> DEFINE Fits(n) ==
             /\ f[n] \in Seq(S)
             /\ \A i \in DOMAIN f[n] : f[n][i] \in K /\ \E j \in 1..n : s[j] = f[n][i]
             /\ \A j \in 1..n : s[j] \in K => \E i \in DOMAIN f[n] : f[n][i] = s[j]
           T == {n \in 0..Len(s) : ~Fits(n)}
<1>4. T = {}
  <2> SUFFICES ASSUME T # {} PROVE FALSE
    OBVIOUS
  <2>1. PICK n \in T : \A k \in T : n <= k
    <3>1. T \in SUBSET Nat
      BY <1>2
    <3> HIDE DEF T
    <3> QED BY <3>1, LeastNatural
  <2>2. CASE n = 0
    <3>1. Fits(0)
      BY <1>3
    <3> QED BY <2>2, <3>1
  <2>3. CASE n # 0
    <3>1. n \in 1..Len(s) /\ n - 1 \in 0..Len(s) /\ s[n] \in S
      BY <1>2, <2>3
    <3>2. Fits(n - 1)
      BY <2>1, <3>1
    <3> DEFINE r == f[n - 1]
    <3>3. /\ r \in Seq(S) /\ f[n] = IF s[n] \in K THEN Append(r, s[n]) ELSE r
          /\ \A i \in DOMAIN r : r[i] \in K /\ \E j \in 1..n - 1 : s[j] = r[i]
          /\ \A j \in 1..n - 1 : s[j] \in K => \E i \in DOMAIN r : r[i] = s[j]
      BY <1>3, <3>1, <3>2
    <3> HIDE DEF r
    <3>4. \A j \in 1..n : j = n \/ j \in 1..n - 1
      BY <3>1
    <3>5. \A j \in 1..n - 1 : j \in 1..n
      BY <3>1
    <3>6. CASE s[n] \in K
      <4>1. /\ f[n] \in Seq(S) /\ DOMAIN f[n] = DOMAIN r \cup {Len(r) + 1}
            /\ f[n][Len(r) + 1] = s[n] /\ \A i \in DOMAIN r : f[n][i] = r[i]
        BY <3>1, <3>3, <3>6
      <4> HIDE DEF Fits
      <4>2. \A i \in DOMAIN f[n] : f[n][i] \in K /\ \E j \in 1..n : s[j] = f[n][i]
        <5> SUFFICES ASSUME NEW i \in DOMAIN f[n]
                     PROVE  f[n][i] \in K /\ \E j \in 1..n : s[j] = f[n][i]
          OBVIOUS
        <5>1. CASE i = Len(r) + 1
          <6>1. n \in 1..n
            BY <3>1
          <6> QED BY <3>6, <4>1, <5>1, <6>1
        <5>2. CASE i \in DOMAIN r
          BY <3>3, <3>5, <4>1, <5>2
        <5> QED BY <4>1, <5>1, <5>2
      <4>3. \A j \in 1..n : s[j] \in K => \E i \in DOMAIN f[n] : f[n][i] = s[j]
        BY ZenonT(30), <3>3, <3>4, <4>1
      <4>4. Fits(n)
        BY <4>1, <4>2, <4>3 DEF Fits
      <4> QED BY <4>4
    <3>7. CASE s[n] \notin K
      <4>1. f[n] = r
        BY <3>3, <3>7
      <4>2. Fits(n)
        BY <3>3, <3>4, <3>5, <3>7, <4>1
      <4> QED BY <4>2
    <3> QED BY <3>6, <3>7
  <2> QED BY <2>2, <2>3
<1>5. Fits(Len(s))
  BY <1>2, <1>4
<1> QED BY <1>1, <1>2, <1>5

\* At most one element of s is in P.
AtMostOne(s, P) == \A i, j \in DOMAIN s : s[i] \in P /\ s[j] \in P => i = j

LEMMA KeptAtMostOne ==
  ASSUME NEW S, NEW s \in Seq(S), NEW K, NEW P, AtMostOne(s, P)
  PROVE  AtMostOne(Kept(s, K), P)
<1>1. PICK f : KeepsUpTo(f, s, K, Len(s)) /\ Kept(s, K) = f[Len(s)]
  BY KeptKeeps
<1>2. Len(s) \in Nat /\ DOMAIN s = 1..Len(s)
  OBVIOUS
<1>3. /\ f[0] = <<>>
      /\ \A n \in 1..Len(s) : f[n] = IF s[n] \in K THEN Append(f[n - 1], s[n]) ELSE f[n - 1]
  BY <1>1, <1>2, KeepsNext
<1> DEFINE Fits(n) ==
             /\ f[n] \in Seq(S) /\ AtMostOne(f[n], P)
             /\ \A i \in DOMAIN f[n] : \E j \in 1..n : s[j] = f[n][i]
           T == {n \in 0..Len(s) : ~Fits(n)}
<1>4. T = {}
  <2> SUFFICES ASSUME T # {} PROVE FALSE
    OBVIOUS
  <2>1. PICK n \in T : \A k \in T : n <= k
    <3>1. T \in SUBSET Nat
      BY <1>2
    <3> HIDE DEF T
    <3> QED BY <3>1, LeastNatural
  <2>2. CASE n = 0
    <3>1. Fits(0)
      BY <1>3 DEF AtMostOne
    <3> QED BY <2>2, <3>1
  <2>3. CASE n # 0
    <3>1. n \in 1..Len(s) /\ n - 1 \in 0..Len(s) /\ s[n] \in S
      BY <1>2, <2>3
    <3>2. Fits(n - 1)
      BY <2>1, <3>1
    <3> DEFINE r == f[n - 1]
    <3>3. /\ r \in Seq(S) /\ f[n] = IF s[n] \in K THEN Append(r, s[n]) ELSE r
          /\ AtMostOne(r, P) /\ \A i \in DOMAIN r : \E j \in 1..n - 1 : s[j] = r[i]
      BY <1>3, <3>1, <3>2
    <3> HIDE DEF r
    <3>4. \A j \in 1..n - 1 : j \in 1..n /\ j # n /\ j \in DOMAIN s /\ n \in DOMAIN s
      BY <1>2, <3>1
    <3>5. CASE s[n] \in K
      <4>1. /\ f[n] \in Seq(S) /\ DOMAIN f[n] = DOMAIN r \cup {Len(r) + 1}
            /\ f[n][Len(r) + 1] = s[n] /\ \A i \in DOMAIN r : f[n][i] = r[i]
        BY <3>1, <3>3, <3>5
      <4>2. s[n] \in P => \A i \in DOMAIN r : r[i] \notin P
        BY <3>3, <3>4 DEF AtMostOne
      <4>3. AtMostOne(f[n], P)
        BY <3>3, <4>1, <4>2 DEF AtMostOne
      <4> HIDE DEF Fits
      <4>4. \A i \in DOMAIN f[n] : \E j \in 1..n : s[j] = f[n][i]
        BY SMTT(30), <3>1, <3>3, <3>4, <4>1
      <4>5. Fits(n)
        BY <4>1, <4>3, <4>4 DEF Fits
      <4> QED BY <4>5
    <3>6. CASE s[n] \notin K
      BY <3>3, <3>4, <3>6
    <3> QED BY <3>5, <3>6
  <2> QED BY <2>2, <2>3
<1>5. Fits(Len(s))
  BY <1>2, <1>4
<1> QED BY <1>1, <1>5


\* An element appended to a concatenation is appended to its second part.
LEMMA AppendToConcat ==
  ASSUME NEW S, NEW a \in Seq(S), NEW r \in Seq(S), NEW x \in S
  PROVE  Append(a \o r, x) = a \o Append(r, x) /\ Append(r, x) \in Seq(S)
<1>1. a \o r \in Seq(S) /\ Append(r, x) \in Seq(S) /\ <<x>> \in Seq(S)
  OBVIOUS
<1>2. Append(a \o r, x) = (a \o r) \o <<x>> /\ Append(r, x) = r \o <<x>>
  BY <1>1, AppendIsConcat
<1>3. (a \o r) \o <<x>> = a \o (r \o <<x>>)
  BY <1>1, ConcatAssociative
<1> QED
  BY <1>1, <1>2, <1>3

\* What is kept of a sequence ends with what is kept of its end.
LEMMA KeptOfEnd ==
  ASSUME NEW S, NEW s \in Seq(S), NEW K, NEW k \in 0..Len(s)
  PROVE  \E a \in Seq(S) : Kept(s, K) = a \o Kept(SubSeq(s, k + 1, Len(s)), K)
<1> DEFINE e == SubSeq(s, k + 1, Len(s))
<1>1. Len(s) \in Nat /\ e \in Seq(S) /\ Len(e) = Len(s) - k /\ \A n \in 1..Len(e) : e[n] = s[k + n]
  OBVIOUS
<1> HIDE DEF e
<1>2. PICK f : KeepsUpTo(f, s, K, Len(s)) /\ Kept(s, K) = f[Len(s)]
  BY KeptKeeps
<1>3. PICK g : KeepsUpTo(g, e, K, Len(e)) /\ Kept(e, K) = g[Len(e)]
  BY <1>1, KeptKeeps
<1>4. /\ f[0] = <<>>
      /\ \A n \in 1..Len(s) : f[n] = IF s[n] \in K THEN Append(f[n - 1], s[n]) ELSE f[n - 1]
  BY <1>1, <1>2, KeepsNext
<1>5. /\ g[0] = <<>>
      /\ \A n \in 1..Len(e) : g[n] = IF e[n] \in K THEN Append(g[n - 1], e[n]) ELSE g[n - 1]
  BY <1>1, <1>3, KeepsNext
<1>6. f[k] \in Seq(S)
  <2> DEFINE T == {n \in 0..Len(s) : f[n] \notin Seq(S)}
  <2> SUFFICES ASSUME T # {} PROVE FALSE
    BY <1>1
  <2>1. PICK n \in T : \A m \in T : n <= m
    <3>1. T \in SUBSET Nat
      BY <1>1
    <3> HIDE DEF T
    <3> QED BY <3>1, LeastNatural
  <2>2. n \in 0..Len(s) /\ f[n] \notin Seq(S)
    BY <2>1
  <2>3. \A m \in 0..Len(s) : m < n => f[m] \in Seq(S)
    <3>1. \A m \in 0..Len(s) : f[m] \notin Seq(S) => n <= m
      BY <2>1
    <3> QED BY <1>1, <2>2, <3>1
  <2> HIDE DEF T
  <2>4. n # 0
    <3>1. <<>> \in Seq(S)
      OBVIOUS
    <3> QED BY <1>4, <2>2, <3>1
  <2>5. n \in 1..Len(s) /\ n - 1 \in 0..Len(s) /\ n - 1 < n
    BY <1>1, <2>2, <2>4
  <2>6. f[n - 1] \in Seq(S) /\ s[n] \in S
    BY <2>3, <2>5
  <2>7. Append(f[n - 1], s[n]) \in Seq(S)
    BY <2>6
  <2> QED BY <1>4, <2>2, <2>5, <2>6, <2>7
<1> DEFINE a == f[k]
           Fits(n) == g[n] \in Seq(S) /\ f[k + n] = a \o g[n]
           T == {n \in 0..Len(e) : ~Fits(n)}
<1>7. T = {}
  <2> SUFFICES ASSUME T # {} PROVE FALSE
    OBVIOUS
  <2> HIDE DEF Fits
  <2>1. PICK n \in T : \A m \in T : n <= m
    <3>1. T \in SUBSET Nat
      BY <1>1
    <3> HIDE DEF T
    <3> QED BY <3>1, LeastNatural
  <2>0. /\ n \in 0..Len(e) /\ ~Fits(n)
        /\ \A m \in 0..Len(e) : ~Fits(m) => n <= m
    BY <2>1
  <2> HIDE DEF T
  <2>2. CASE n = 0
    <3>1. g[0] \in Seq(S) /\ f[k + 0] = f[k] /\ f[k] \o <<>> = f[k]
      <4>1. <<>> \in Seq(S)
        OBVIOUS
      <4>2. k + 0 = k
        BY <1>1
      <4>3. f[k] \o <<>> = f[k]
        BY <1>6, ConcatEmptySeq
      <4> QED BY <1>5, <4>1, <4>2, <4>3
    <3>2. Fits(0)
      BY <1>5, <3>1 DEF Fits
    <3> QED BY <2>0, <2>2, <3>2
  <2>3. CASE n # 0
    <3>1. n \in 1..Len(e) /\ n - 1 \in 0..Len(e) /\ e[n] \in S /\ k + n \in 1..Len(s) /\ k + n - 1 = k + (n - 1)
      BY <1>1, <2>0, <2>3
    <3>2. Fits(n - 1)
      <4>1. n - 1 < n
        BY <3>1
      <4> QED BY <1>1, <2>0, <3>1, <4>1
    <3>3. e[n] = s[k + n]
      BY <1>1, <3>1
    <3>4. f[k + n] = IF e[n] \in K THEN Append(f[k + (n - 1)], e[n]) ELSE f[k + (n - 1)]
      BY <1>4, <3>1, <3>3
    <3>5. g[n] = IF e[n] \in K THEN Append(g[n - 1], e[n]) ELSE g[n - 1]
      BY <1>5, <3>1
    <3> DEFINE r == g[n - 1]
    <3>6. r \in Seq(S) /\ f[k + (n - 1)] = a \o r
      BY <3>2 DEF Fits
    <3>7. Append(a \o r, e[n]) = a \o Append(r, e[n]) /\ Append(r, e[n]) \in Seq(S)
      <4> HIDE DEF r, a
      <4>1. a \in Seq(S)
        BY <1>6 DEF a
      <4>2. \A u, v \in Seq(S) : \A x \in S :
              Append(u \o v, x) = u \o Append(v, x) /\ Append(v, x) \in Seq(S)
        BY AppendToConcat
      <4>3. r \in Seq(S) /\ e[n] \in S
        BY <3>1, <3>6
      <4> QED BY <4>1, <4>2, <4>3, Zenon
    <3>8. Fits(n)
      <4> HIDE DEF a
      <4>1. CASE e[n] \in K
        BY <3>4, <3>5, <3>6, <3>7, <4>1 DEF Fits
      <4>2. CASE e[n] \notin K
        BY <3>4, <3>5, <3>6, <4>2 DEF Fits
      <4> QED BY <4>1, <4>2
    <3> QED BY <2>0, <3>8
  <2> QED BY <2>2, <2>3
<1>8. g[Len(e)] \in Seq(S) /\ f[k + Len(e)] = a \o g[Len(e)] /\ k + Len(e) = Len(s)
  <2>1. Len(e) \in 0..Len(e) /\ k + Len(e) = Len(s)
    BY <1>1
  <2> HIDE DEF Fits
  <2>2. Fits(Len(e))
    BY <1>7, <2>1
  <2> HIDE DEF a
  <2> QED BY <2>1, <2>2 DEF Fits
<1> QED BY <1>2, <1>3, <1>6, <1>8 DEF e

\* Where at most one element is left out, at most one is missing.
LEMMA KeptAllButOne ==
  ASSUME NEW S, NEW s \in Seq(S), NEW K, AtMostOne(s, S \ K)
  PROVE  Len(Kept(s, K)) \in Nat /\ Len(Kept(s, K)) >= Len(s) - 1
<1>1. PICK f : KeepsUpTo(f, s, K, Len(s)) /\ Kept(s, K) = f[Len(s)]
  BY KeptKeeps
<1>2. Len(s) \in Nat /\ DOMAIN s = 1..Len(s) /\ \A n \in 1..Len(s) : s[n] \in S
  OBVIOUS
<1>3. /\ f[0] = <<>>
      /\ \A n \in 1..Len(s) : f[n] = IF s[n] \in K THEN Append(f[n - 1], s[n]) ELSE f[n - 1]
  BY <1>1, <1>2, KeepsNext
<1> DEFINE Whole(n) == \A j \in 1..n : s[j] \in K
           Fits(n) == /\ f[n] \in Seq(S) /\ Len(f[n]) >= n - 1
                      /\ Whole(n) => Len(f[n]) >= n
           T == {n \in 0..Len(s) : ~Fits(n)}
<1>4. T = {}
  <2> SUFFICES ASSUME T # {} PROVE FALSE
    OBVIOUS
  <2> HIDE DEF Fits
  <2>1. PICK n \in T : \A k \in T : n <= k
    <3>1. T \in SUBSET Nat
      BY <1>2
    <3> HIDE DEF T
    <3> QED BY <3>1, LeastNatural
  <2>0. /\ n \in 0..Len(s) /\ ~Fits(n)
        /\ \A k \in 0..Len(s) : ~Fits(k) => n <= k
    BY <2>1
  <2> HIDE DEF T
  <2>2. CASE n = 0
    <3>1. Fits(0)
      BY <1>3 DEF Fits
    <3> QED BY <2>0, <2>2, <3>1
  <2>3. CASE n # 0
    <3>1. n \in 1..Len(s) /\ n - 1 \in 0..Len(s) /\ s[n] \in S /\ n \in Nat
      BY <1>2, <2>0, <2>3
    <3>2. Fits(n - 1)
      <4>1. n - 1 < n
        BY <3>1
      <4> QED BY <1>2, <2>0, <3>1, <4>1
    <3> DEFINE r == f[n - 1]
    <3>3. /\ r \in Seq(S) /\ Len(r) \in Nat /\ f[n] = IF s[n] \in K THEN Append(r, s[n]) ELSE r
          /\ Len(r) >= n - 2 /\ (Whole(n - 1) => Len(r) >= n - 1)
      <4> HIDE DEF Whole
      <4>1. r \in Seq(S) /\ Len(r) >= (n - 1) - 1 /\ (Whole(n - 1) => Len(r) >= n - 1)
        BY <3>2 DEF Fits
      <4>2. f[n] = IF s[n] \in K THEN Append(r, s[n]) ELSE r
        BY <1>3, <3>1
      <4> HIDE DEF r
      <4> QED BY <3>1, <4>1, <4>2
    <3> HIDE DEF r
    <3>4. Whole(n) => Whole(n - 1)
      BY <3>1
    <3>5. s[n] \notin K => Whole(n - 1)
      <4> SUFFICES ASSUME s[n] \notin K, NEW j \in 1..n - 1 PROVE s[j] \in K
        OBVIOUS
      <4>1. j \in DOMAIN s /\ n \in DOMAIN s /\ j # n /\ s[j] \in S
        BY <1>2, <3>1
      <4> QED BY <3>1, <4>1 DEF AtMostOne
    <3>6. Whole(n) => s[n] \in K
      BY <3>1
    <3> HIDE DEF Whole
    <3>7. CASE s[n] \in K
      <4>1. f[n] \in Seq(S) /\ Len(f[n]) = Len(r) + 1
        BY <3>1, <3>3, <3>7
      <4>2. Len(f[n]) >= n - 1 /\ (Whole(n) => Len(f[n]) >= n)
        BY <3>1, <3>3, <3>4, <4>1
      <4> QED BY <2>0, <4>1, <4>2 DEF Fits
    <3>8. CASE s[n] \notin K
      <4>1. f[n] = r /\ ~Whole(n) /\ Len(r) >= n - 1
        BY <3>3, <3>5, <3>6, <3>8
      <4> QED BY <2>0, <3>3, <4>1 DEF Fits
    <3> QED BY <3>7, <3>8
  <2> QED BY <2>2, <2>3
<1>5. f[Len(s)] \in Seq(S) /\ Len(f[Len(s)]) >= Len(s) - 1
  <2> HIDE DEF Fits
  <2>1. Fits(Len(s))
    BY <1>2, <1>4
  <2> HIDE DEF Whole
  <2> QED BY <2>1 DEF Fits
<1> QED BY <1>1, <1>2, <1>5

\* Of the newest n + 1 elements, where at most one is left out, the newest n
\* are the newest n of all that are kept.
LEMMA NewestKept ==
  ASSUME NEW S, NEW s \in Seq(S), NEW K, AtMostOne(s, S \ K), NEW n \in Nat
  PROVE  Newest(Kept(Newest(s, n + 1), K), n) = Newest(Kept(s, K), n)
<1>1. Len(s) \in Nat
  OBVIOUS
<1>2. CASE Len(s) <= n + 1
  <2>1. Newest(s, n + 1) = SubSeq(s, 1, Len(s))
    <3>1. ~(Len(s) > n + 1)
      BY <1>1, <1>2
    <3> QED BY <3>1, Zenon DEF Newest
  <2>2. SubSeq(s, 1, Len(s)) = s
    OBVIOUS
  <2> QED BY <2>1, <2>2
<1>3. CASE Len(s) > n + 1
  <2> DEFINE k == Len(s) - (n + 1)
             e == SubSeq(s, k + 1, Len(s))
  <2>1. k \in 0..Len(s) /\ k \in Nat
    BY <1>1, <1>3
  <2>2. Newest(s, n + 1) = e
    BY <1>1, <1>3 DEF Newest
  <2>3. e \in Seq(S) /\ Len(e) = n + 1 /\ \A i \in 1..n + 1 : e[i] = s[k + i] /\ k + i \in 1..Len(s)
    BY <1>1, <1>3, <2>1
  <2>4. AtMostOne(e, S \ K)
    <3> SUFFICES ASSUME NEW i \in DOMAIN e, NEW j \in DOMAIN e, e[i] \in S \ K, e[j] \in S \ K
                 PROVE  i = j
      BY DEF AtMostOne
    <3> HIDE DEF e
    <3>1. i \in 1..n + 1 /\ j \in 1..n + 1
      BY <2>3
    <3> HIDE DEF k
    <3>2. k + i \in DOMAIN s /\ k + j \in DOMAIN s /\ s[k + i] = e[i] /\ s[k + j] = e[j]
      BY <2>3, <3>1
    <3>3. k + i = k + j
      BY <3>2 DEF AtMostOne
    <3> QED BY <2>1, <3>1, <3>3
  <2>5. PICK a \in Seq(S) : Kept(s, K) = a \o Kept(e, K)
    BY ZenonT(30), <2>1, KeptOfEnd
  <2> HIDE DEF e, k
  <2>6. Len(Kept(e, K)) \in Nat /\ Len(Kept(e, K)) >= n
    BY <2>3, <2>4, KeptAllButOne
  <2>7. Kept(e, K) \in Seq(S)
    BY <2>3, KeptElements
  <2>8. \A b \in Seq(S) : Len(b) >= n => Newest(a \o b, n) = Newest(b, n)
    <3> SUFFICES ASSUME NEW b \in Seq(S), Len(b) >= n PROVE Newest(a \o b, n) = Newest(b, n)
      OBVIOUS
    <3>1. /\ Len(a) \in Nat /\ Len(b) \in Nat /\ a \o b \in Seq(S) /\ Len(a \o b) = Len(a) + Len(b)
      OBVIOUS
    <3>2. \A i \in 1..Len(b) : (a \o b)[Len(a) + i] = b[i]
      BY <3>1
    <3>3. Newest(a \o b, n) = SubSeq(a \o b, Len(a) + (Len(b) - n) + 1, Len(a) + Len(b))
      <4>1. CASE Len(a) + Len(b) > n
        BY SMTT(30), <3>1, <4>1 DEF Newest
      <4>2. CASE ~(Len(a) + Len(b) > n)
        <5>1. Len(a) = 0 /\ Len(b) = n
          BY <3>1, <4>2
        <5> QED BY <3>1, <4>2, <5>1 DEF Newest
      <4> QED BY <4>1, <4>2
    <3>4. Newest(b, n) = SubSeq(b, (Len(b) - n) + 1, Len(b))
      <4>1. CASE Len(b) > n
        BY <3>1, <4>1 DEF Newest
      <4>2. CASE ~(Len(b) > n)
        <5>1. (Len(b) - n) + 1 = 1
          BY <3>1, <4>2
        <5>2. Newest(b, n) = SubSeq(b, 1, Len(b))
          BY <4>2, Zenon DEF Newest
        <5> QED BY <5>1, <5>2
      <4> QED BY <4>1, <4>2
    <3> DEFINE x == SubSeq(a \o b, Len(a) + (Len(b) - n) + 1, Len(a) + Len(b))
               y == SubSeq(b, (Len(b) - n) + 1, Len(b))
    <3>5. /\ x \in Seq(S) /\ Len(x) = n
          /\ \A i \in 1..n : x[i] = (a \o b)[Len(a) + (Len(b) - n) + i]
      BY <3>1
    <3>6. y \in Seq(S) /\ Len(y) = n /\ \A i \in 1..n : y[i] = b[(Len(b) - n) + i]
      BY <3>1
    <3>7. \A i \in 1..n : (a \o b)[Len(a) + (Len(b) - n) + i] = b[(Len(b) - n) + i]
      <4> SUFFICES ASSUME NEW i \in 1..n
                   PROVE  (a \o b)[Len(a) + (Len(b) - n) + i] = b[(Len(b) - n) + i]
        OBVIOUS
      <4>1. (Len(b) - n) + i \in 1..Len(b) /\ Len(a) + (Len(b) - n) + i = Len(a) + ((Len(b) - n) + i)
        BY <3>1
      <4> QED BY <3>2, <4>1
    <3> HIDE DEF x, y
    <3>8. \A i \in 1..n : x[i] = y[i]
      BY <3>5, <3>6, <3>7
    <3>9. x = y
      BY <3>5, <3>6, <3>8, SeqEqual
    <3> QED BY <3>3, <3>4, <3>9 DEF x, y
  <2> QED BY <2>2, <2>5, <2>6, <2>7, <2>8
<1> QED BY <1>1, <1>2, <1>3


-----------------------------------------------------------------------------
(* Messages and turns.                                                     *)

Steps == {"idle", "loaded", "asked", "authorizing", "embedding", "searching",
          "retrieved", "prompted", "answered", "saved", "ended"}

Turn == [kind : {"stream", "sync"}, conversation : Conversations, step : Steps,
         outcome : {"open", "error", "done", "cancelled"}, connected : BOOLEAN,
         read : {"no", "yes", "failed"}, history : Seq(Message)]

ChatTypeOK ==
  /\ conversations \subseteq Conversations
  /\ messages \in [Conversations -> Seq(Message)]
  /\ turns \in [Turns -> Turn]
  /\ offered \in [Turns -> Seq(Message)]

\* A turn whose question has been committed.
Asked(t) ==
  \/ turns[t].step \in {"prompted", "answered", "saved"}
  \/ Streamed(t) /\ turns[t].step \in {"asked", "authorizing", "embedding", "searching", "retrieved"}

\* A turn that may have a committed answer.
Answered(t) ==
  \/ At(t, "saved")
  \/ At(t, "ended") /\ turns[t].outcome \in {"done", "cancelled"}

\* Where a message can be.
Placed(c, m) ==
  /\ ~At(m.turn, "idle") /\ ConvOf(m.turn) = c
  /\ m.role = "assistant" => turns[m.turn].step \in {"answered", "saved", "ended"}
  /\ m.committed => c \in conversations /\ (Asked(m.turn) \/ At(m.turn, "ended"))
  /\ m.committed /\ m.role = "assistant" => Answered(m.turn)

Of(t, role) == {m \in Message : m.turn = t /\ m.role = role}

MessagesPlaced == \A c \in Conversations : \A m \in Range(messages[c]) : Placed(c, m)

OneQuestion ==
  \A c \in Conversations, t \in Turns : AtMostOne(messages[c], Of(t, "user"))

AnswersFollow ==
  \A c \in Conversations, t \in Turns :
    Own(t, "assistant", TRUE) \in Range(messages[c]) => Own(t, "user", TRUE) \in Range(messages[c])

AnswersKept ==
  \A t \in Turns :
    /\ At(t, "answered") => Own(t, "assistant", FALSE) \in Range(messages[ConvOf(t)])
    /\ (At(t, "saved") \/ turns[t].outcome = "done") /\ ConvOf(t) \in conversations =>
         Own(t, "assistant", TRUE) \in Range(messages[ConvOf(t)])

QuestionsKept ==
  \A t \in Turns : Open(t) =>
    \/ \E b \in BOOLEAN : Own(t, "user", b) \in Range(messages[ConvOf(t)])
    \/ Asked(t) /\ ConvOf(t) \notin conversations

TurnsFit ==
  \A t \in Turns :
    /\ ConvOf(t) \in {t, Existing}
    /\ turns[t].outcome # "open" => At(t, "ended")
    /\ turns[t].step \in {"idle", "loaded", "asked"} => turns[t].read = "no"

ChatInv ==
  /\ ChatTypeOK /\ TurnsFit /\ MessagesPlaced /\ OneQuestion
  /\ AnswersFollow /\ AnswersKept /\ QuestionsKept /\ PromptHasNewestHistory

-----------------------------------------------------------------------------
(* The elements of a sequence of messages.                                 *)

LEMMA RangeOf ==
  ASSUME NEW S, NEW s \in Seq(S)
  PROVE  Range(s) \subseteq S /\ \A x : x \in Range(s) <=> \E n \in DOMAIN s : s[n] = x
BY DEF Range

LEMMA RangeOfKept ==
  ASSUME NEW S, NEW s \in Seq(S), NEW K
  PROVE  Kept(s, K) \in Seq(S) /\ Range(Kept(s, K)) = Range(s) \cap K
<1>1. \A x : x \in Range(Kept(s, K)) <=> \E n \in DOMAIN Kept(s, K) : Kept(s, K)[n] = x
  BY DEF Range
<1>2. \A x : x \in Range(s) <=> \E n \in DOMAIN s : s[n] = x
  BY DEF Range
<1> QED BY <1>1, <1>2, KeptElements

LEMMA RangeOfAppend ==
  ASSUME NEW S, NEW s \in Seq(S), NEW x \in S
  PROVE  Append(s, x) \in Seq(S) /\ Range(Append(s, x)) = Range(s) \cup {x}
<1>1. /\ Append(s, x) \in Seq(S) /\ DOMAIN Append(s, x) = DOMAIN s \cup {Len(s) + 1}
      /\ Append(s, x)[Len(s) + 1] = x /\ \A n \in DOMAIN s : Append(s, x)[n] = s[n]
  OBVIOUS
<1> QED BY <1>1 DEF Range

LEMMA AtMostOneAppended ==
  ASSUME NEW S, NEW s \in Seq(S), NEW x \in S, NEW P, AtMostOne(s, P),
         x \in P => Range(s) \cap P = {}
  PROVE  AtMostOne(Append(s, x), P)
<1>1. /\ DOMAIN Append(s, x) = DOMAIN s \cup {Len(s) + 1}
      /\ Append(s, x)[Len(s) + 1] = x /\ \A n \in DOMAIN s : Append(s, x)[n] = s[n]
  OBVIOUS
<1>2. x \in P => \A n \in DOMAIN s : s[n] \notin P
  BY DEF Range
<1> QED BY <1>1, <1>2 DEF AtMostOne

\* What a commit by turn t makes of a message.
Marked(m, t) == IF m.turn = t THEN [m EXCEPT !.committed = TRUE] ELSE m

LEMMA MarkedMessage ==
  ASSUME NEW m \in Message, NEW t \in Turns
  PROVE  /\ Marked(m, t) \in Message
         /\ Marked(m, t).turn = m.turn /\ Marked(m, t).role = m.role
         /\ m.turn # t => Marked(m, t) = m
         /\ m.turn = t => Marked(m, t) = Own(t, m.role, TRUE)
         /\ \A u \in Turns, role \in {"user", "assistant"} :
              Marked(m, t) \in Of(u, role) <=> m \in Of(u, role)
BY DEF Marked, Message, Own, Of

\* A message is known by its turn, its role and whether it is committed.
LEMMA MessageIsOwn ==
  ASSUME NEW m \in Message
  PROVE  /\ m = Own(m.turn, m.role, m.committed)
         /\ m.turn \in Turns /\ m.role \in {"user", "assistant"} /\ m.committed \in BOOLEAN
BY DEF Message, Own

LEMMA OwnIsMessage ==
  ASSUME NEW t \in Turns, NEW role \in {"user", "assistant"}, NEW b \in BOOLEAN
  PROVE  /\ Own(t, role, b) \in Message /\ Own(t, role, b).turn = t
         /\ Own(t, role, b).role = role /\ Own(t, role, b).committed = b
         /\ \A u \in Turns, r \in {"user", "assistant"} :
              Own(t, role, b) \in Of(u, r) <=> u = t /\ r = role
BY DEF Message, Own, Of

LEMMA MarkedAll ==
  ASSUME NEW s \in Seq(Message), NEW t \in Turns
  PROVE  LET x == [n \in DOMAIN s |-> IF s[n].turn = t THEN [s[n] EXCEPT !.committed = TRUE] ELSE s[n]]
         IN  /\ x \in Seq(Message)
             /\ Range(x) = {Marked(m, t) : m \in Range(s)}
             /\ \A u \in Turns, role \in {"user", "assistant"} :
                  AtMostOne(s, Of(u, role)) => AtMostOne(x, Of(u, role))
<1> DEFINE x == [n \in DOMAIN s |-> Marked(s[n], t)]
<1>1. Len(s) \in Nat /\ DOMAIN s = 1..Len(s) /\ \A n \in DOMAIN s : s[n] \in Message
  OBVIOUS
<1>2. DOMAIN x = DOMAIN s /\ \A n \in DOMAIN s : x[n] = Marked(s[n], t)
  OBVIOUS
<1>3. x \in Seq(Message)
  <2>1. \A n \in 1..Len(s) : Marked(s[n], t) \in Message
    BY <1>1, MarkedMessage
  <2>2. x = [n \in 1..Len(s) |-> Marked(s[n], t)]
    BY <1>1
  <2> QED BY <1>1, <2>1, <2>2, IsASeq
<1> HIDE DEF x
<1>4. Range(x) = {Marked(m, t) : m \in Range(s)}
  BY <1>2 DEF Range
<1>5. ASSUME NEW u \in Turns, NEW role \in {"user", "assistant"}, AtMostOne(s, Of(u, role))
      PROVE  AtMostOne(x, Of(u, role))
  <2>1. \A n \in DOMAIN s : x[n] \in Of(u, role) <=> s[n] \in Of(u, role)
    <3>1. \A m \in Message : Marked(m, t) \in Of(u, role) <=> m \in Of(u, role)
      BY MarkedMessage
    <3> QED BY <1>1, <1>2, <3>1
  <2> QED BY <1>2, <1>5, <2>1 DEF AtMostOne
<1> QED BY <1>3, <1>4, <1>5, Zenon DEF x, Marked

-----------------------------------------------------------------------------
(* The type of a turn.                                                     *)

LEMMA TurnFields ==
  ASSUME NEW r \in Turn
  PROVE  /\ r.kind \in {"stream", "sync"} /\ r.conversation \in Conversations /\ r.step \in Steps
         /\ r.outcome \in {"open", "error", "done", "cancelled"}
         /\ r.read \in {"no", "yes", "failed"} /\ r.history \in Seq(Message)
BY DEF Turn

LEMMA TurnMoves ==
  ASSUME NEW r \in Turn, NEW s \in Steps
  PROVE  LET x == [r EXCEPT !.step = s]
         IN  /\ x \in Turn /\ x.step = s /\ x.kind = r.kind /\ x.conversation = r.conversation
             /\ x.outcome = r.outcome /\ x.read = r.read /\ x.history = r.history
BY DEF Turn

\* What a step to another place leaves of a turn.
LEMMA GoStep ==
  ASSUME ChatInv, NEW t \in Turns, NEW s \in Steps, Go(t, s)
  PROVE  \E r \in Turn : /\ turns' = [turns EXCEPT ![t] = r] /\ r.step = s
                         /\ r.conversation = ConvOf(t) /\ r.outcome = turns[t].outcome
                         /\ r.read = turns[t].read /\ r.history = turns[t].history
                         /\ r.kind = turns[t].kind
<1> DEFINE r == [turns[t] EXCEPT !.step = s]
<1>1. turns[t] \in Turn
  BY DEF ChatInv, ChatTypeOK
<1>2. /\ r \in Turn /\ r.step = s /\ r.kind = turns[t].kind
      /\ r.conversation = turns[t].conversation
      /\ r.outcome = turns[t].outcome /\ r.read = turns[t].read /\ r.history = turns[t].history
  BY <1>1, TurnMoves
<1>3. turns' = [turns EXCEPT ![t] = r]
  BY Zenon DEF Go
<1> HIDE DEF r
<1> QED BY <1>2, <1>3 DEF ConvOf

\* What the end leaves of a turn.
LEMMA FinishStep ==
  ASSUME ChatInv, NEW t \in Turns, NEW o \in {"error", "done", "cancelled"},
         \/ Finish(t, o)
         \/ turns' = [turns EXCEPT ![t].step = "ended", ![t].outcome = o, ![t].connected = FALSE]
  PROVE  \E r \in Turn : /\ turns' = [turns EXCEPT ![t] = r] /\ r.step = "ended" /\ r.outcome = o
                         /\ r.conversation = ConvOf(t)
                         /\ r.read = turns[t].read /\ r.history = turns[t].history
                         /\ r.kind = turns[t].kind
<1> DEFINE r == [turns[t] EXCEPT !.step = "ended", !.outcome = o]
           d == [turns[t] EXCEPT !.step = "ended", !.outcome = o, !.connected = FALSE]
<1>1. turns[t] \in Turn
  BY DEF ChatInv, ChatTypeOK
<1>2. \A x \in {r, d} :
        /\ x \in Turn /\ x.step = "ended" /\ x.kind = turns[t].kind
        /\ x.conversation = turns[t].conversation
        /\ x.outcome = o /\ x.read = turns[t].read /\ x.history = turns[t].history
  BY ZenonT(30), <1>1 DEF Turn, Steps
<1>3. turns' = [turns EXCEPT ![t] = r] \/ turns' = [turns EXCEPT ![t] = d]
  <2>1. Finish(t, o) => turns' = [turns EXCEPT ![t] = r]
    BY <1>1 DEF Finish, ChatInv, ChatTypeOK
  <2>2. turns' = [turns EXCEPT ![t].step = "ended", ![t].outcome = o, ![t].connected = FALSE]
          => turns' = [turns EXCEPT ![t] = d]
    BY <1>1 DEF ChatInv, ChatTypeOK
  <2> QED BY <2>1, <2>2
<1> HIDE DEF r, d
<1> QED BY <1>2, <1>3 DEF ConvOf

LEMMA InitChatInv == Init => ChatInv
<1> SUFFICES ASSUME Init PROVE ChatInv
  OBVIOUS
<1> USE DEF Init
<1>1. <<>> \in Seq(Message) /\ Range(<<>>) = {} /\ DOMAIN <<>> = {}
  BY DEF Range
<1>2. Existing \in Conversations
  BY DEF Conversations
<1>3. \A t \in Turns : /\ turns[t].step = "idle" /\ turns[t].outcome = "open" /\ turns[t].read = "no"
                       /\ turns[t].conversation = Existing
  OBVIOUS
<1>4. \A c \in Conversations : messages[c] = <<>>
  OBVIOUS
<1>5. ChatTypeOK
  BY <1>1, <1>2 DEF ChatTypeOK, Turn, Steps
<1>6. TurnsFit
  BY <1>3 DEF TurnsFit, ConvOf
<1>7. MessagesPlaced /\ OneQuestion /\ AnswersFollow
  BY <1>1, <1>4 DEF MessagesPlaced, OneQuestion, AnswersFollow, AtMostOne
<1>8. AnswersKept /\ QuestionsKept /\ PromptHasNewestHistory
  BY <1>3 DEF AnswersKept, QuestionsKept, PromptHasNewestHistory, At, Open
<1> QED BY <1>5, <1>6, <1>7, <1>8 DEF ChatInv


-----------------------------------------------------------------------------
(* What the steps of a turn do to conversations and messages.               *)

\* What the history of a turn says after a step that leaves it alone.
LEMMA HistoryStays ==
  ASSUME ChatInv, NEW t \in Turns, NEW r \in Turn, turns' = [turns EXCEPT ![t] = r],
         UNCHANGED offered,
         r.read = "yes" /\ r.conversation # t =>
           /\ turns[t].read = "yes" /\ ~IsNew(t)
           /\ r.history = turns[t].history
  PROVE  PromptHasNewestHistory'
<1>1. turns'[t] = r /\ \A u \in Turns : u # t => turns'[u] = turns[u]
  BY DEF ChatInv, ChatTypeOK
<1> SUFFICES ASSUME NEW u \in Turns, turns'[u].read = "yes", turns'[u].conversation # u
             PROVE  turns'[u].history = Newest(offered[u], MaxHistory)
  BY DEF PromptHasNewestHistory, IsNew, ConvOf
<1>2. turns[u].read = "yes" /\ ~IsNew(u) /\ turns'[u].history = turns[u].history
  BY <1>1 DEF IsNew, ConvOf
<1> QED BY <1>2 DEF ChatInv, PromptHasNewestHistory

\* A step of turn t alone.
LEMMA MoveStep ==
  ASSUME ChatInv, NEW t \in Turns, NEW r \in Turn, turns' = [turns EXCEPT ![t] = r],
         UNCHANGED <<conversations, messages>>, offered' \in [Turns -> Seq(Message)],
         PromptHasNewestHistory',
         r.conversation = ConvOf(t), Open(t), r.step # "idle",
         r.outcome # "open" => r.step = "ended",
         r.step \in {"idle", "loaded", "asked"} => r.read = "no",
         turns[t].step \in {"answered", "saved", "ended"} => r.step \in {"answered", "saved", "ended"},
         Asked(t) => Asked(t)' \/ r.step = "ended",
         At(t, "saved") => Answered(t)',
         r.step = "answered" => At(t, "answered"),
         r.step = "saved" \/ r.outcome = "done" => At(t, "saved")
  PROVE  ChatInv'
<1>1. turns'[t] = r /\ \A u \in Turns : u # t => turns'[u] = turns[u]
  BY DEF ChatInv, ChatTypeOK
<1>2. \A u \in Turns : u # t => (Asked(u)' <=> Asked(u)) /\ (Answered(u)' <=> Answered(u))
  BY <1>1 DEF Asked, Answered, Streamed, At
<1>3. \A u \in Turns : ConvOf(u)' = ConvOf(u) /\ ConvOf(u) \in Conversations
  BY <1>1, TurnFields DEF ConvOf, ChatInv, ChatTypeOK
<1>4. ChatTypeOK'
  BY DEF ChatInv, ChatTypeOK
<1>5. TurnsFit'
  BY <1>1, <1>3 DEF ChatInv, TurnsFit, At, ConvOf
<1>6. MessagesPlaced'
  <2> SUFFICES ASSUME NEW c \in Conversations, NEW m \in Range(messages[c]) PROVE Placed(c, m)'
    BY DEF MessagesPlaced
  <2>1. Placed(c, m) /\ m \in Message /\ m.turn \in Turns
    BY RangeOf, MessageIsOwn DEF ChatInv, ChatTypeOK, MessagesPlaced
  <2>2. CASE m.turn # t
    BY <1>1, <1>2, <1>3, <2>1, <2>2, Zenon DEF Placed, At
  <2>3. CASE m.turn = t
    <3>1. ~At(t, "idle")' /\ ConvOf(t)' = c /\ ~At(t, "ended")
      BY <1>1, <1>3, <2>1, <2>3 DEF Placed, At, Open
    <3>2. m.role = "assistant" => turns'[t].step \in {"answered", "saved", "ended"}
      BY <1>1, <2>1, <2>3 DEF Placed
    <3>3. m.committed => c \in conversations /\ (Asked(t)' \/ At(t, "ended")')
      BY <1>1, <2>1, <2>3, <3>1 DEF Placed, At
    <3>4. m.committed /\ m.role = "assistant" => Answered(t)'
      BY <2>1, <2>3, <3>1 DEF Placed, Answered
    <3> QED BY <2>3, <3>1, <3>2, <3>3, <3>4, Zenon DEF Placed
  <2> QED BY <2>2, <2>3
<1>7. OneQuestion' /\ AnswersFollow'
  BY DEF ChatInv, OneQuestion, AnswersFollow
<1>8. AnswersKept'
  <2> SUFFICES ASSUME NEW u \in Turns
               PROVE  /\ At(u, "answered")' => Own(u, "assistant", FALSE) \in Range(messages[ConvOf(u)])
                      /\ (At(u, "saved")' \/ turns'[u].outcome = "done") /\ ConvOf(u) \in conversations =>
                           Own(u, "assistant", TRUE) \in Range(messages[ConvOf(u)])
    BY <1>3 DEF AnswersKept
  <2>1. /\ At(u, "answered")' => At(u, "answered")
        /\ At(u, "saved")' \/ turns'[u].outcome = "done" => At(u, "saved") \/ turns[u].outcome = "done"
    BY <1>1 DEF At
  <2> QED BY <2>1 DEF ChatInv, AnswersKept
<1>9. QuestionsKept'
  <2> SUFFICES ASSUME NEW u \in Turns, Open(u)'
               PROVE  \/ \E b \in BOOLEAN : Own(u, "user", b) \in Range(messages[ConvOf(u)])
                      \/ Asked(u)' /\ ConvOf(u) \notin conversations
    BY <1>3 DEF QuestionsKept
  <2>1. Open(u) /\ (Asked(u) => Asked(u)')
    BY <1>1, <1>2 DEF Open, At
  <2> QED BY <2>1 DEF ChatInv, QuestionsKept
<1> QED BY <1>4, <1>5, <1>6, <1>7, <1>8, <1>9 DEF ChatInv

\* A turn that ends without an answer: what it has not committed is gone.
LEMMA DropStep ==
  ASSUME ChatInv, NEW t \in Turns, NEW r \in Turn, turns' = [turns EXCEPT ![t] = r],
         messages' = RolledBack(t), UNCHANGED <<conversations, offered>>,
         Open(t), r.conversation = ConvOf(t), r.step = "ended", r.read = turns[t].read,
         r.history = turns[t].history,
         r.outcome \in {"error", "cancelled"}, At(t, "saved") => r.outcome = "cancelled"
  PROVE  ChatInv'
<1>1. turns'[t] = r /\ \A u \in Turns : u # t => turns'[u] = turns[u]
  BY DEF ChatInv, ChatTypeOK
<1>2. \A u \in Turns : u # t => (Asked(u)' <=> Asked(u)) /\ (Answered(u)' <=> Answered(u))
  BY <1>1 DEF Asked, Answered, Streamed, At
<1>3. \A u \in Turns : ConvOf(u)' = ConvOf(u) /\ ConvOf(u) \in Conversations
  BY <1>1, TurnFields DEF ConvOf, ChatInv, ChatTypeOK
<1> DEFINE K == {m \in Message : m.committed \/ m.turn # t}
           k == ConvOf(t)
<1>4. /\ messages' = [messages EXCEPT ![k] = Kept(messages[k], K)]
      /\ \A c \in Conversations : messages[c] \in Seq(Message)
      /\ k \in Conversations /\ messages \in [Conversations -> Seq(Message)]
  BY <1>3, Zenon DEF RolledBack, ChatInv, ChatTypeOK
<1>5. /\ Kept(messages[k], K) \in Seq(Message)
      /\ Range(Kept(messages[k], K)) = Range(messages[k]) \cap K
  BY <1>4, RangeOfKept
<1>6. /\ messages'[k] = Kept(messages[k], K)
      /\ \A c \in Conversations : c # k => messages'[c] = messages[c]
      /\ messages' \in [Conversations -> Seq(Message)]
  BY <1>4, <1>5
<1>7. \A c \in Conversations : \A m \in Message :
        /\ m \in Range(messages'[c]) => m \in Range(messages[c])
        /\ m \in Range(messages[c]) /\ (m.committed \/ m.turn # t) => m \in Range(messages'[c])
        /\ m \in Range(messages'[c]) /\ m.turn = t => m.committed
  <2> SUFFICES ASSUME NEW c \in Conversations, NEW m \in Message
               PROVE  /\ m \in Range(messages'[c]) => m \in Range(messages[c])
                      /\ m \in Range(messages[c]) /\ (m.committed \/ m.turn # t) => m \in Range(messages'[c])
                      /\ m \in Range(messages'[c]) /\ m.turn = t => m.committed
    OBVIOUS
  <2>1. CASE c = k
    BY <1>5, <1>6, <2>1
  <2>2. CASE c # k
    <3>1. messages'[c] = messages[c]
      BY <1>6, <2>2
    <3>2. m \in Range(messages[c]) => m.turn # t
      BY <2>2 DEF ChatInv, MessagesPlaced, Placed
    <3> QED BY <3>1, <3>2
  <2> QED BY <2>1, <2>2
<1> HIDE DEF K, k
<1>8. ChatTypeOK'
  BY <1>6 DEF ChatInv, ChatTypeOK
<1>9. TurnsFit'
  BY <1>1, <1>3 DEF ChatInv, TurnsFit, At, ConvOf, Open
<1>10. MessagesPlaced'
  <2> SUFFICES ASSUME NEW c \in Conversations, NEW m \in Range(messages'[c]) PROVE Placed(c, m)'
    BY DEF MessagesPlaced
  <2>1. m \in Message
    BY <1>6, RangeOf
  <2>2. Placed(c, m) /\ m.turn \in Turns /\ (m.turn = t => m.committed)
    BY <1>7, <2>1, MessageIsOwn DEF ChatInv, MessagesPlaced
  <2>3. CASE m.turn # t
    BY <1>1, <1>2, <1>3, <2>2, <2>3, Zenon DEF Placed, At
  <2>4. CASE m.turn = t
    <3>1. At(t, "ended")' /\ ~At(t, "idle")' /\ turns'[t].step = "ended"
      BY <1>1 DEF At
    <3>2. m.role = "assistant" => Answered(t)'
      BY <1>1, <2>2, <2>4, <3>1 DEF Placed, Answered, Open
    <3> QED BY <1>3, <2>2, <2>4, <3>1, <3>2, Zenon DEF Placed
  <2> QED BY <2>3, <2>4
<1>11. OneQuestion'
  <2> SUFFICES ASSUME NEW c \in Conversations, NEW u \in Turns
               PROVE  AtMostOne(messages'[c], Of(u, "user"))
    BY DEF OneQuestion
  <2>1. AtMostOne(messages[c], Of(u, "user"))
    BY DEF ChatInv, OneQuestion
  <2>2. messages'[c] = messages[c] \/ messages'[c] = Kept(messages[c], K)
    BY <1>6
  <2> QED BY <1>4, <2>1, <2>2, KeptAtMostOne
<1>12. AnswersFollow'
  <2> SUFFICES ASSUME NEW c \in Conversations, NEW u \in Turns,
                      Own(u, "assistant", TRUE) \in Range(messages'[c])
               PROVE  Own(u, "user", TRUE) \in Range(messages'[c])
    BY DEF AnswersFollow
  <2>1. Own(u, "user", TRUE) \in Range(messages[c])
    BY <1>7, OwnIsMessage DEF ChatInv, AnswersFollow
  <2> QED BY <1>7, <2>1, OwnIsMessage
<1>13. AnswersKept'
  <2> SUFFICES ASSUME NEW u \in Turns
               PROVE  /\ At(u, "answered")' => Own(u, "assistant", FALSE) \in Range(messages'[ConvOf(u)])
                      /\ (At(u, "saved")' \/ turns'[u].outcome = "done") /\ ConvOf(u) \in conversations =>
                           Own(u, "assistant", TRUE) \in Range(messages'[ConvOf(u)])
    BY <1>3 DEF AnswersKept
  <2>1. CASE u = t
    <3>1. ~At(t, "answered")' /\ ~At(t, "saved")' /\ turns'[t].outcome # "done"
      BY <1>1 DEF At
    <3> QED BY <2>1, <3>1
  <2>2. CASE u # t
    <3>1. (At(u, "answered")' <=> At(u, "answered")) /\ (At(u, "saved")' <=> At(u, "saved"))
      BY <1>1, <2>2 DEF At
    <3>2. \A b \in BOOLEAN : Own(u, "assistant", b) \in Range(messages[ConvOf(u)]) =>
                             Own(u, "assistant", b) \in Range(messages'[ConvOf(u)])
      BY <1>3, <1>7, <2>2, OwnIsMessage
    <3> QED BY <1>1, <2>2, <3>1, <3>2 DEF ChatInv, AnswersKept
  <2> QED BY <2>1, <2>2
<1>14. QuestionsKept'
  <2> SUFFICES ASSUME NEW u \in Turns, Open(u)'
               PROVE  \/ \E b \in BOOLEAN : Own(u, "user", b) \in Range(messages'[ConvOf(u)])
                      \/ Asked(u)' /\ ConvOf(u) \notin conversations
    BY <1>3 DEF QuestionsKept
  <2>1. u # t /\ Open(u)
    BY <1>1 DEF Open, At
  <2>2. \A b \in BOOLEAN : Own(u, "user", b) \in Range(messages[ConvOf(u)]) =>
                           Own(u, "user", b) \in Range(messages'[ConvOf(u)])
    BY <1>3, <1>7, <2>1, OwnIsMessage
  <2> QED BY <1>2, <2>1, <2>2 DEF ChatInv, QuestionsKept
<1>15. PromptHasNewestHistory'
  BY HistoryStays DEF IsNew, ConvOf
<1> QED BY <1>8, <1>9, <1>10, <1>11, <1>12, <1>13, <1>14, <1>15 DEF ChatInv


\* Turn t commits what its session holds.
LEMMA CommitStep ==
  ASSUME ChatInv, NEW t \in Turns, NEW r \in Turn, turns' = [turns EXCEPT ![t] = r],
         Commit(t), UNCHANGED offered,
         Open(t), r.conversation = ConvOf(t), r.read = turns[t].read, r.history = turns[t].history,
         r.outcome = turns[t].outcome, r.step \notin {"idle", "ended", "answered"},
         r.step \in {"idle", "loaded", "asked"} => At(t, "loaded"),
         Asked(t)', ~At(t, "saved"),
         At(t, "answered") \/ r.step = "saved" => At(t, "answered") /\ r.step = "saved",
         Asked(t) => ConvOf(t) \in conversations
  PROVE  ChatInv'
<1>1. turns'[t] = r /\ \A u \in Turns : u # t => turns'[u] = turns[u]
  BY DEF ChatInv, ChatTypeOK
<1>2. \A u \in Turns : u # t => (Asked(u)' <=> Asked(u)) /\ (Answered(u)' <=> Answered(u))
  BY <1>1 DEF Asked, Answered, Streamed, At
<1>3. \A u \in Turns : ConvOf(u)' = ConvOf(u) /\ ConvOf(u) \in Conversations
  BY <1>1, TurnFields DEF ConvOf, ChatInv, ChatTypeOK
<1> DEFINE k == ConvOf(t)
           s == messages[k]
           x == [n \in DOMAIN s |-> IF s[n].turn = t THEN [s[n] EXCEPT !.committed = TRUE] ELSE s[n]]
<1>4. /\ messages' = [messages EXCEPT ![k] = x] /\ conversations' = conversations \cup {k}
      /\ \A c \in Conversations : messages[c] \in Seq(Message)
      /\ k \in Conversations /\ messages \in [Conversations -> Seq(Message)]
  BY <1>3, Zenon DEF Commit, ChatInv, ChatTypeOK
<1>5. /\ x \in Seq(Message) /\ Range(x) = {Marked(m, t) : m \in Range(s)}
      /\ \A u \in Turns, role \in {"user", "assistant"} :
           AtMostOne(s, Of(u, role)) => AtMostOne(x, Of(u, role))
  BY <1>4, MarkedAll, Zenon
<1> HIDE DEF x
<1>6. /\ messages'[k] = x
      /\ \A c \in Conversations : c # k => messages'[c] = messages[c]
      /\ messages' \in [Conversations -> Seq(Message)]
  BY <1>4, <1>5
\* A conversation that is new belongs to one turn.
<1>7. \A u \in Turns : u # t /\ ConvOf(u) = k => k \in conversations
  <2>1. CanCommit(t)
    BY DEF Commit
  <2>2. \A u \in Turns : u # t /\ ConvOf(u) = t => FALSE
    BY ExistingAssumption DEF ChatInv, TurnsFit, Turns
  <2> QED BY <2>1, <2>2 DEF CanCommit, IsNew
<1>8. \A c \in Conversations : \A m \in Message :
        /\ m \in Range(messages'[c]) => \E b \in BOOLEAN : Own(m.turn, m.role, b) \in Range(messages[c])
        /\ m \in Range(messages'[c]) /\ m.turn = t => m.committed
        /\ m \in Range(messages'[c]) /\ m.turn # t => m \in Range(messages[c])
        /\ m \in Range(messages[c]) /\ m.turn # t => m \in Range(messages'[c])
  <2> SUFFICES ASSUME NEW c \in Conversations, NEW m \in Message
               PROVE  /\ m \in Range(messages'[c]) => \E b \in BOOLEAN : Own(m.turn, m.role, b) \in Range(messages[c])
                      /\ m \in Range(messages'[c]) /\ m.turn = t => m.committed
                      /\ m \in Range(messages'[c]) /\ m.turn # t => m \in Range(messages[c])
                      /\ m \in Range(messages[c]) /\ m.turn # t => m \in Range(messages'[c])
    OBVIOUS
  <2>1. m = Own(m.turn, m.role, m.committed) /\ m.committed \in BOOLEAN
    BY MessageIsOwn
  <2>2. CASE c = k
    <3>1. m \in Range(messages'[c]) <=> \E y \in Range(messages[c]) : m = Marked(y, t)
      BY <1>5, <1>6, <2>2
    <3>2. ASSUME NEW y \in Range(messages[c]), m = Marked(y, t)
          PROVE  /\ \E b \in BOOLEAN : Own(m.turn, m.role, b) \in Range(messages[c])
                 /\ m.turn = t => m.committed
                 /\ m.turn # t => m \in Range(messages[c])
      <4>1. y \in Message /\ y = Own(y.turn, y.role, y.committed) /\ y.committed \in BOOLEAN
            /\ y.turn \in Turns /\ y.role \in {"user", "assistant"}
        BY <1>4, RangeOf, MessageIsOwn
      <4>2. m.turn = y.turn /\ m.role = y.role /\ (m.turn # t => m = y)
            /\ (m.turn = t => m = Own(t, y.role, TRUE))
        BY ZenonT(30), <3>2, <4>1, MarkedMessage
      <4>3. m.turn = t => m.committed
        BY <4>2 DEF Own
      <4> QED BY <4>1, <4>2, <4>3
    <3>3. m \in Range(messages[c]) /\ m.turn # t => m \in Range(messages'[c])
      BY <3>1, MarkedMessage
    <3> QED BY <3>1, <3>2, <3>3
  <2>3. CASE c # k
    <3>1. messages'[c] = messages[c]
      BY <1>6, <2>3
    <3>2. m \in Range(messages[c]) => m.turn # t
      BY <2>3 DEF ChatInv, MessagesPlaced, Placed
    <3> QED BY <2>1, <3>1, <3>2
  <2> QED BY <2>2, <2>3
\* What is committed stays, and what turn t holds becomes committed.
<1>9. \A role \in {"user", "assistant"}, b \in BOOLEAN :
        Own(t, role, b) \in Range(s) => Own(t, role, TRUE) \in Range(messages'[k])
  <2> SUFFICES ASSUME NEW role \in {"user", "assistant"}, NEW b \in BOOLEAN, Own(t, role, b) \in Range(s)
               PROVE  Own(t, role, TRUE) \in Range(messages'[k])
    OBVIOUS
  <2> DEFINE m == Own(t, role, b)
  <2>1. m \in Message /\ m.turn = t /\ m.role = role
    BY OwnIsMessage
  <2> HIDE DEF m
  <2>2. Marked(m, t) = Own(t, role, TRUE)
    BY <2>1, MarkedMessage
  <2>3. Marked(m, t) \in Range(messages'[k])
    BY <1>5, <1>6 DEF m
  <2> QED BY <2>2, <2>3
<1>10. ChatTypeOK'
  BY <1>4, <1>6 DEF ChatInv, ChatTypeOK
<1>11. TurnsFit'
  <2>1. r.outcome # "open" => r.step = "ended"
    BY DEF ChatInv, TurnsFit, At, Open
  <2>2. r.step \in {"idle", "loaded", "asked"} => r.read = "no"
    BY DEF ChatInv, TurnsFit, At
  <2> QED BY <1>1, <1>3, <2>1, <2>2 DEF ChatInv, TurnsFit, At, ConvOf
<1>12. MessagesPlaced'
  <2> SUFFICES ASSUME NEW c \in Conversations, NEW m \in Range(messages'[c]) PROVE Placed(c, m)'
    BY DEF MessagesPlaced
  <2>1. m \in Message /\ m.turn \in Turns /\ m.role \in {"user", "assistant"} /\ m.committed \in BOOLEAN
    BY <1>6, RangeOf, MessageIsOwn
  <2>2. PICK b \in BOOLEAN : Own(m.turn, m.role, b) \in Range(messages[c])
    BY <1>8, <2>1
  <2>3. Placed(c, Own(m.turn, m.role, b))
    BY <2>2 DEF ChatInv, MessagesPlaced
  <2>4. ~At(m.turn, "idle") /\ ConvOf(m.turn) = c
        /\ (m.role = "assistant" => turns[m.turn].step \in {"answered", "saved", "ended"})
    BY <2>1, <2>3, OwnIsMessage DEF Placed
  <2>5. CASE m.turn # t
    <3>1. Placed(c, m)
      BY <1>8, <2>1, <2>5 DEF ChatInv, MessagesPlaced
    <3> QED BY <1>1, <1>2, <1>3, <1>4, <2>1, <2>5, <3>1, Zenon DEF Placed, At
  <2>6. CASE m.turn = t
    <3>1. c = k /\ c \in conversations'
      BY <1>4, <2>4, <2>6
    <3>2. m.role = "assistant" => turns'[t].step = "saved"
      BY <1>1, <2>4, <2>6 DEF Open, At
    <3>3. ~At(t, "idle")' /\ ConvOf(t)' = c
      BY <1>1, <1>3, <3>1 DEF At
    <3>4. m.role = "assistant" => Answered(t)'
      BY <3>2 DEF Answered, At
    <3> QED BY <2>6, <3>1, <3>2, <3>3, <3>4 DEF Placed
  <2> QED BY <2>5, <2>6
<1>13. OneQuestion'
  <2> SUFFICES ASSUME NEW c \in Conversations, NEW u \in Turns
               PROVE  AtMostOne(messages'[c], Of(u, "user"))
    BY DEF OneQuestion
  <2>1. AtMostOne(messages[c], Of(u, "user"))
    BY DEF ChatInv, OneQuestion
  <2>2. messages'[c] = messages[c] \/ (c = k /\ messages'[c] = x)
    BY <1>6
  <2> QED BY <1>5, <2>1, <2>2
<1>14. At(t, "answered") => \E b \in BOOLEAN : Own(t, "user", b) \in Range(s)
  BY DEF ChatInv, QuestionsKept, Asked, At
<1>15. AnswersFollow'
  <2> SUFFICES ASSUME NEW c \in Conversations, NEW u \in Turns,
                      Own(u, "assistant", TRUE) \in Range(messages'[c])
               PROVE  Own(u, "user", TRUE) \in Range(messages'[c])
    BY DEF AnswersFollow
  <2>1. CASE u # t
    <3>1. /\ Own(u, "assistant", TRUE) \in Message /\ Own(u, "assistant", TRUE).turn = u
          /\ Own(u, "user", TRUE) \in Message /\ Own(u, "user", TRUE).turn = u
      BY OwnIsMessage
    <3>2. Own(u, "assistant", TRUE) \in Range(messages[c])
      BY <1>8, <2>1, <3>1
    <3>3. Own(u, "user", TRUE) \in Range(messages[c])
      BY <3>2 DEF ChatInv, AnswersFollow
    <3> QED BY <1>8, <2>1, <3>1, <3>3
  <2>2. CASE u = t
    <3>1. PICK b \in BOOLEAN : Own(t, "assistant", b) \in Range(messages[c])
      BY <1>8, <2>2, OwnIsMessage
    <3>2. c = k /\ turns[t].step \in {"answered", "saved", "ended"}
      BY <3>1, OwnIsMessage DEF ChatInv, MessagesPlaced, Placed
    <3>3. At(t, "answered")
      BY <3>2 DEF At, Open
    <3>4. PICK d \in BOOLEAN : Own(t, "user", d) \in Range(s)
      BY <1>14, <3>3
    <3> QED BY <1>9, <2>2, <3>2, <3>4
  <2> QED BY <2>1, <2>2
<1>16. AnswersKept'
  <2> SUFFICES ASSUME NEW u \in Turns
               PROVE  /\ At(u, "answered")' => Own(u, "assistant", FALSE) \in Range(messages'[ConvOf(u)])
                      /\ (At(u, "saved")' \/ turns'[u].outcome = "done") /\ ConvOf(u) \in conversations' =>
                           Own(u, "assistant", TRUE) \in Range(messages'[ConvOf(u)])
    BY <1>3 DEF AnswersKept
  <2>1. CASE u = t
    <3>1. ~At(t, "answered")' /\ (At(t, "saved")' => At(t, "answered")) /\ turns'[t].outcome # "done"
      <4>1. turns[t].outcome = "open"
        BY TurnFields DEF ChatInv, ChatTypeOK, TurnsFit, Open
      <4> QED BY <1>1, <4>1 DEF At
    <3>2. At(t, "answered") => Own(t, "assistant", FALSE) \in Range(s)
      BY DEF ChatInv, AnswersKept
    <3> QED BY <1>9, <2>1, <3>1, <3>2
  <2>2. CASE u # t
    <3>1. (At(u, "answered")' <=> At(u, "answered")) /\ (At(u, "saved")' <=> At(u, "saved"))
      BY <1>1, <2>2 DEF At
    <3>2. \A b \in BOOLEAN : Own(u, "assistant", b) \in Range(messages[ConvOf(u)]) =>
                             Own(u, "assistant", b) \in Range(messages'[ConvOf(u)])
      BY <1>3, <1>8, <2>2, OwnIsMessage
    <3>3. ConvOf(u) \in conversations' => ConvOf(u) \in conversations
      BY <1>4, <1>7, <2>2
    <3> QED BY <1>1, <2>2, <3>1, <3>2, <3>3 DEF ChatInv, AnswersKept
  <2> QED BY <2>1, <2>2
<1>17. QuestionsKept'
  <2> SUFFICES ASSUME NEW u \in Turns, Open(u)'
               PROVE  \/ \E b \in BOOLEAN : Own(u, "user", b) \in Range(messages'[ConvOf(u)])
                      \/ Asked(u)' /\ ConvOf(u) \notin conversations'
    BY <1>3 DEF QuestionsKept
  <2>1. CASE u = t
    <3>1. \E b \in BOOLEAN : Own(t, "user", b) \in Range(s)
      BY DEF ChatInv, QuestionsKept
    <3> QED BY <1>9, <2>1, <3>1
  <2>2. CASE u # t
    <3>1. \A b \in BOOLEAN : Own(u, "user", b) \in Range(messages[ConvOf(u)]) =>
                             Own(u, "user", b) \in Range(messages'[ConvOf(u)])
      BY <1>3, <1>8, <2>2, OwnIsMessage
    <3>2. ConvOf(u) \in conversations' => ConvOf(u) \in conversations
      BY <1>4, <1>7, <2>2
    <3>3. Open(u)
      BY <1>1, <2>2 DEF Open, At
    <3> QED BY <1>2, <2>2, <3>1, <3>2, <3>3 DEF ChatInv, QuestionsKept
  <2> QED BY <2>1, <2>2
<1>18. PromptHasNewestHistory'
  BY HistoryStays DEF IsNew, ConvOf
<1> QED BY <1>10, <1>11, <1>12, <1>13, <1>15, <1>16, <1>17, <1>18 DEF ChatInv


\* Turn t adds a message of its own to the conversation k.
LEMMA MessageAdded ==
  ASSUME ChatInv, NEW t \in Turns, NEW k \in Conversations, NEW role \in {"user", "assistant"},
         messages' = [messages EXCEPT ![k] = Append(@, Own(t, role, FALSE))],
         \A m \in Range(messages[k]) : m.turn = t => role # "user"
  PROVE  /\ messages' \in [Conversations -> Seq(Message)]
         /\ \A c \in Conversations : \A m \in Message :
              m \in Range(messages'[c]) <=>
                m \in Range(messages[c]) \/ (c = k /\ m = Own(t, role, FALSE))
         /\ OneQuestion'
<1> DEFINE x == Own(t, role, FALSE)
<1>1. /\ \A c \in Conversations : messages[c] \in Seq(Message)
      /\ messages \in [Conversations -> Seq(Message)]
  BY DEF ChatInv, ChatTypeOK
<1>2. x \in Message /\ \A u \in Turns : x \in Of(u, "user") => u = t /\ role = "user"
  BY ZenonT(30), OwnIsMessage
<1> HIDE DEF x
<1>3. /\ Append(messages[k], x) \in Seq(Message)
      /\ Range(Append(messages[k], x)) = Range(messages[k]) \cup {x}
  BY <1>1, <1>2, RangeOfAppend
<1>4. messages' = [messages EXCEPT ![k] = Append(messages[k], x)]
  BY DEF x
<1>5. /\ messages'[k] = Append(messages[k], x) /\ messages' \in [Conversations -> Seq(Message)]
      /\ \A c \in Conversations : c # k => messages'[c] = messages[c]
  BY <1>1, <1>3, <1>4
<1>6. \A c \in Conversations : \A m \in Message :
        m \in Range(messages'[c]) <=> m \in Range(messages[c]) \/ (c = k /\ m = x)
  BY <1>3, <1>5
<1>7. OneQuestion'
  <2> SUFFICES ASSUME NEW c \in Conversations, NEW u \in Turns
               PROVE  AtMostOne(messages'[c], Of(u, "user"))
    BY DEF OneQuestion
  <2>1. AtMostOne(messages[c], Of(u, "user"))
    BY DEF ChatInv, OneQuestion
  <2>2. CASE c # k
    BY <1>5, <2>1, <2>2
  <2>3. CASE c = k
    <3>1. x \in Of(u, "user") => Range(messages[k]) \cap Of(u, "user") = {}
      BY <1>2 DEF Of
    <3>2. AtMostOne(Append(messages[k], x), Of(u, "user"))
      BY <1>1, <1>2, <2>1, <2>3, <3>1, AtMostOneAppended
    <3> QED BY <1>5, <2>3, <3>2
  <2> QED BY <2>2, <2>3
<1> QED BY <1>5, <1>6, <1>7 DEF x

\* A turn that begins with its question in the conversation.
LEMMA BeginStep ==
  ASSUME ChatInv, NEW t \in Turns, NEW c \in Conversations, NEW r \in Turn,
         turns' = [turns EXCEPT ![t] = r], UNCHANGED <<conversations, offered>>,
         At(t, "idle"), c \in {t, Existing}, r.conversation = c, r.read = turns[t].read,
         \/ /\ r.step = "loaded" /\ r.outcome = "open"
            /\ messages' = [messages EXCEPT ![c] = Append(@, Own(t, "user", FALSE))]
         \/ r.step = "ended" /\ r.outcome = "error" /\ UNCHANGED messages
  PROVE  ChatInv'
<1>1. turns'[t] = r /\ \A u \in Turns : u # t => turns'[u] = turns[u]
  BY DEF ChatInv, ChatTypeOK
<1>2. \A u \in Turns : u # t => (Asked(u)' <=> Asked(u)) /\ (Answered(u)' <=> Answered(u))
                                /\ ConvOf(u)' = ConvOf(u) /\ (Open(u)' <=> Open(u))
  BY <1>1 DEF Asked, Answered, Streamed, At, ConvOf, Open
<1>3. \A u \in Turns : ConvOf(u) \in Conversations
  BY TurnFields DEF ConvOf, ChatInv, ChatTypeOK
<1>4. turns[t].read = "no" /\ ConvOf(t)' = c
  BY <1>1 DEF ChatInv, TurnsFit, At, ConvOf
<1>5. \A d \in Conversations : \A m \in Range(messages[d]) : m.turn # t
  BY DEF ChatInv, MessagesPlaced, Placed
<1> DEFINE q == Own(t, "user", FALSE)
<1>6. q \in Message /\ q.turn = t /\ q.role = "user" /\ ~q.committed
  BY OwnIsMessage DEF Own
<1>7. /\ messages' \in [Conversations -> Seq(Message)]
      /\ \A d \in Conversations : \A m \in Message :
           /\ m \in Range(messages[d]) => m \in Range(messages'[d])
           /\ m \in Range(messages'[d]) => m \in Range(messages[d]) \/ (d = c /\ m = q /\ r.step = "loaded")
      /\ r.step = "loaded" => q \in Range(messages'[c])
      /\ OneQuestion'
  <2>1. CASE r.step = "loaded"
    <3>1. messages' = [messages EXCEPT ![c] = Append(@, Own(t, "user", FALSE))]
      BY <2>1
    <3>2. /\ messages' \in [Conversations -> Seq(Message)]
          /\ \A d \in Conversations : \A m \in Message :
               m \in Range(messages'[d]) <=>
                 m \in Range(messages[d]) \/ (d = c /\ m = Own(t, "user", FALSE))
          /\ OneQuestion'
      <4>1. \A m \in Range(messages[c]) : m.turn = t => "user" # "user"
        BY <1>5
      <4>2. \A k \in Conversations, role \in {"user", "assistant"} :
              /\ messages' = [messages EXCEPT ![k] = Append(@, Own(t, role, FALSE))]
              /\ \A m \in Range(messages[k]) : m.turn = t => role # "user"
              => /\ messages' \in [Conversations -> Seq(Message)]
                 /\ \A d \in Conversations : \A m \in Message :
                      m \in Range(messages'[d]) <=>
                        m \in Range(messages[d]) \/ (d = k /\ m = Own(t, role, FALSE))
                 /\ OneQuestion'
        BY ZenonT(30), MessageAdded
      <4> QED BY <3>1, <4>1, <4>2
    <3> QED BY <1>6, <2>1, <3>2
  <2>2. CASE r.step = "ended"
    <3>1. messages' = messages
      BY <2>2
    <3>2. OneQuestion'
      BY <3>1 DEF ChatInv, OneQuestion
    <3> QED BY <2>2, <3>1, <3>2 DEF ChatInv, ChatTypeOK
  <2> QED BY <2>1, <2>2
<1> HIDE DEF q
<1>8. ChatTypeOK'
  BY <1>7 DEF ChatInv, ChatTypeOK
<1>9. TurnsFit'
  BY ZenonT(30), <1>1, <1>2, <1>4 DEF ChatInv, TurnsFit, At, ConvOf
<1>10. MessagesPlaced'
  <2> SUFFICES ASSUME NEW d \in Conversations, NEW m \in Range(messages'[d]) PROVE Placed(d, m)'
    BY DEF MessagesPlaced
  <2>1. m \in Message
    BY <1>7, RangeOf
  <2>2. CASE m \in Range(messages[d])
    <3>1. Placed(d, m) /\ m.turn # t /\ m.turn \in Turns
      BY <1>5, <2>1, <2>2, MessageIsOwn DEF ChatInv, MessagesPlaced
    <3> QED BY <1>1, <1>2, <3>1, Zenon DEF Placed, At
  <2>3. CASE d = c /\ m = q /\ r.step = "loaded"
    <3>1. m.turn = t /\ ~At(t, "idle")' /\ ConvOf(t)' = d /\ m.role # "assistant" /\ ~m.committed
      BY <1>1, <1>4, <1>6, <2>3 DEF At
    <3> QED BY <3>1 DEF Placed
  <2> QED BY <1>7, <2>1, <2>2, <2>3
<1>11. AnswersFollow'
  <2> SUFFICES ASSUME NEW d \in Conversations, NEW u \in Turns,
                      Own(u, "assistant", TRUE) \in Range(messages'[d])
               PROVE  Own(u, "user", TRUE) \in Range(messages'[d])
    BY DEF AnswersFollow
  <2>1. /\ Own(u, "assistant", TRUE) \in Message /\ Own(u, "assistant", TRUE).role = "assistant"
        /\ Own(u, "user", TRUE) \in Message
    BY OwnIsMessage
  <2>2. Own(u, "assistant", TRUE) \in Range(messages[d])
    BY <1>6, <1>7, <2>1
  <2> QED BY <1>7, <2>1, <2>2 DEF ChatInv, AnswersFollow
<1>12. \A u \in Turns, role \in {"user", "assistant"}, b \in BOOLEAN :
         Own(u, role, b) \in Range(messages[ConvOf(u)]) => Own(u, role, b) \in Range(messages'[ConvOf(u)])
  BY <1>3, <1>7, OwnIsMessage
<1>13. AnswersKept'
  <2> SUFFICES ASSUME NEW u \in Turns
               PROVE  /\ At(u, "answered")' => Own(u, "assistant", FALSE) \in Range(messages'[ConvOf(u)'])
                      /\ (At(u, "saved")' \/ turns'[u].outcome = "done") /\ ConvOf(u)' \in conversations =>
                           Own(u, "assistant", TRUE) \in Range(messages'[ConvOf(u)'])
    BY DEF AnswersKept
  <2>1. CASE u = t
    BY <1>1, <2>1 DEF At
  <2>2. CASE u # t
    <3>1. (At(u, "answered")' <=> At(u, "answered")) /\ (At(u, "saved")' <=> At(u, "saved"))
      BY <1>1, <2>2 DEF At
    <3> QED BY <1>1, <1>2, <1>12, <2>2, <3>1 DEF ChatInv, AnswersKept
  <2> QED BY <2>1, <2>2
<1>14. QuestionsKept'
  <2> SUFFICES ASSUME NEW u \in Turns, Open(u)'
               PROVE  \/ \E b \in BOOLEAN : Own(u, "user", b) \in Range(messages'[ConvOf(u)'])
                      \/ Asked(u)' /\ ConvOf(u)' \notin conversations
    BY DEF QuestionsKept
  <2>1. CASE u = t
    <3>1. r.step = "loaded"
      BY <1>1, <2>1 DEF Open, At
    <3> QED BY <1>4, <1>7, <2>1, <3>1 DEF q
  <2>2. CASE u # t
    BY <1>2, <1>12, <2>2 DEF ChatInv, QuestionsKept
  <2> QED BY <2>1, <2>2
<1>15. PromptHasNewestHistory'
  BY <1>4, HistoryStays
<1> QED BY <1>7, <1>8, <1>9, <1>10, <1>11, <1>13, <1>14, <1>15 DEF ChatInv

\* A turn that has its answer.
LEMMA GenerateStep ==
  ASSUME ChatInv, NEW t \in Turns, Generate(t)
  PROVE  ChatInv'
<1> DEFINE k == ConvOf(t)
           a == Own(t, "assistant", FALSE)
<1>0. PICK r \in Turn : /\ turns' = [turns EXCEPT ![t] = r] /\ r.step = "answered"
                        /\ r.conversation = k /\ r.outcome = turns[t].outcome
                        /\ r.read = turns[t].read /\ r.history = turns[t].history
                        /\ r.kind = turns[t].kind
  BY GoStep DEF Generate, Steps
<1>1. /\ r \in Turn /\ r.step = "answered" /\ r.conversation = k /\ r.outcome = turns[t].outcome
      /\ r.read = turns[t].read /\ r.history = turns[t].history /\ r.kind = turns[t].kind
      /\ turns[t] \in Turn /\ k \in Conversations
  BY <1>0, TurnFields DEF ChatInv, ChatTypeOK, ConvOf
<1>2. /\ turns' = [turns EXCEPT ![t] = r] /\ turns[t].step = "prompted"
      /\ messages' = [messages EXCEPT ![k] = Append(@, a)] /\ UNCHANGED <<conversations, offered>>
  BY <1>0 DEF Generate, At
<1>3. turns'[t] = r /\ \A u \in Turns : u # t => turns'[u] = turns[u]
  BY <1>2 DEF ChatInv, ChatTypeOK
<1>4. \A u \in Turns : /\ ConvOf(u)' = ConvOf(u) /\ ConvOf(u) \in Conversations
                       /\ Asked(u)' <=> Asked(u)
                       /\ Open(u)' <=> Open(u)
                       /\ Answered(u)' <=> Answered(u)
  <2> SUFFICES ASSUME NEW u \in Turns
               PROVE  /\ ConvOf(u)' = ConvOf(u) /\ ConvOf(u) \in Conversations
                      /\ Asked(u)' <=> Asked(u)
                      /\ Open(u)' <=> Open(u)
                      /\ Answered(u)' <=> Answered(u)
    OBVIOUS
  <2>1. ConvOf(u) \in Conversations
    BY TurnFields DEF ConvOf, ChatInv, ChatTypeOK
  <2>2. CASE u # t
    BY <1>3, <2>1, <2>2 DEF Asked, Answered, Streamed, At, ConvOf, Open
  <2>3. CASE u = t
    BY <1>1, <1>2, <1>3, <2>1, <2>3 DEF Asked, Answered, Streamed, At, ConvOf, Open
  <2> QED BY <2>2, <2>3
<1>5. a \in Message /\ a.turn = t /\ a.role = "assistant" /\ ~a.committed
  BY OwnIsMessage DEF Own
<1>6. /\ messages' \in [Conversations -> Seq(Message)] /\ OneQuestion'
      /\ \A d \in Conversations : \A m \in Message :
           m \in Range(messages'[d]) <=> m \in Range(messages[d]) \/ (d = k /\ m = a)
  <2>1. "assistant" \in {"user", "assistant"} /\ "assistant" # "user"
    OBVIOUS
  <2> QED BY <1>1, <1>2, <2>1, MessageAdded
<1> HIDE DEF a
<1>7. ChatTypeOK'
  BY <1>1, <1>2, <1>6 DEF ChatInv, ChatTypeOK
<1>8. TurnsFit'
  BY <1>1, <1>2, <1>3, <1>4 DEF ChatInv, TurnsFit, At, ConvOf
<1>9. MessagesPlaced'
  <2> SUFFICES ASSUME NEW d \in Conversations, NEW m \in Range(messages'[d]) PROVE Placed(d, m)'
    BY DEF MessagesPlaced
  <2>1. m \in Message /\ m.turn \in Turns
    BY <1>6, RangeOf, MessageIsOwn
  <2>2. CASE m \in Range(messages[d])
    <3>1. Placed(d, m)
      BY <2>2 DEF ChatInv, MessagesPlaced
    <3>2. CASE m.turn # t
      <4>1. turns'[m.turn] = turns[m.turn]
        BY <1>3, <2>1, <3>2
      <4> QED BY <1>2, <1>4, <2>1, <3>1, <4>1, Zenon DEF Placed, At
    <3>3. CASE m.turn = t
      <4>1. m.role # "assistant" /\ ~At(t, "idle")' /\ (At(t, "ended") => FALSE)
        BY <1>1, <1>2, <1>3, <3>1, <3>3 DEF Placed, At
      <4> QED BY <1>2, <1>4, <3>1, <3>3, <4>1, Zenon DEF Placed
    <3> QED BY <3>2, <3>3
  <2>3. CASE d = k /\ m = a
    <3>1. m.turn = t /\ ~At(t, "idle")' /\ turns'[t].step = "answered" /\ ConvOf(t)' = d /\ ~m.committed
      BY <1>1, <1>3, <1>4, <1>5, <2>3 DEF At
    <3> QED BY <3>1 DEF Placed
  <2> QED BY <1>6, <2>1, <2>2, <2>3
<1>10. AnswersFollow'
  <2> SUFFICES ASSUME NEW d \in Conversations, NEW u \in Turns,
                      Own(u, "assistant", TRUE) \in Range(messages'[d])
               PROVE  Own(u, "user", TRUE) \in Range(messages'[d])
    BY DEF AnswersFollow
  <2>1. /\ Own(u, "assistant", TRUE) \in Message /\ Own(u, "assistant", TRUE).committed
        /\ Own(u, "user", TRUE) \in Message
    BY OwnIsMessage DEF Own
  <2>2. Own(u, "assistant", TRUE) # a
    BY <1>5, <2>1
  <2>3. Own(u, "assistant", TRUE) \in Range(messages[d])
    BY <1>6, <2>1, <2>2
  <2> QED BY <1>6, <2>1, <2>3 DEF ChatInv, AnswersFollow
<1>11. \A u \in Turns, role \in {"user", "assistant"}, b \in BOOLEAN :
         Own(u, role, b) \in Range(messages[ConvOf(u)]) => Own(u, role, b) \in Range(messages'[ConvOf(u)])
  BY <1>4, <1>6, OwnIsMessage
<1>12. AnswersKept'
  <2> SUFFICES ASSUME NEW u \in Turns
               PROVE  /\ At(u, "answered")' => Own(u, "assistant", FALSE) \in Range(messages'[ConvOf(u)])
                      /\ (At(u, "saved")' \/ turns'[u].outcome = "done") /\ ConvOf(u) \in conversations =>
                           Own(u, "assistant", TRUE) \in Range(messages'[ConvOf(u)])
    BY <1>2, <1>4 DEF AnswersKept
  <2>1. CASE u = t
    <3>1. a \in Range(messages'[k])
      BY <1>1, <1>5, <1>6
    <3>2. ~At(t, "saved")' /\ turns'[t].outcome = turns[t].outcome
      BY <1>1, <1>3 DEF At
    <3>3. turns[t].outcome # "done"
      BY <1>2 DEF ChatInv, TurnsFit, At
    <3> QED BY <2>1, <3>1, <3>2, <3>3 DEF a
  <2>2. CASE u # t
    <3>1. (At(u, "answered")' <=> At(u, "answered")) /\ (At(u, "saved")' <=> At(u, "saved"))
      BY <1>3, <2>2 DEF At
    <3> QED BY <1>3, <1>11, <2>2, <3>1 DEF ChatInv, AnswersKept
  <2> QED BY <2>1, <2>2
<1>13. QuestionsKept'
  <2> SUFFICES ASSUME NEW u \in Turns, Open(u)
               PROVE  \/ \E b \in BOOLEAN : Own(u, "user", b) \in Range(messages'[ConvOf(u)])
                      \/ Asked(u)' /\ ConvOf(u) \notin conversations
    BY <1>2, <1>4 DEF QuestionsKept
  <2> QED BY <1>4, <1>11 DEF ChatInv, QuestionsKept
<1>14. PromptHasNewestHistory'
  BY <1>1, <1>2, HistoryStays DEF IsNew
<1> QED BY <1>6, <1>7, <1>8, <1>9, <1>10, <1>12, <1>13, <1>14 DEF ChatInv


\* A conversation is deleted with all that is committed in it.
LEMMA DeleteStep ==
  ASSUME ChatInv, NEW k \in Conversations, DeleteConversation(k)
  PROVE  ChatInv'
<1> DEFINE K == Message \ IsStored
<1>1. /\ messages' = [messages EXCEPT ![k] = Kept(messages[k], K)]
      /\ conversations' = conversations \ {k} /\ turns' = turns /\ offered' = offered
  BY Zenon DEF DeleteConversation
<1>2. /\ \A c \in Conversations : messages[c] \in Seq(Message)
      /\ messages \in [Conversations -> Seq(Message)]
  BY DEF ChatInv, ChatTypeOK
<1>3. /\ Kept(messages[k], K) \in Seq(Message)
      /\ Range(Kept(messages[k], K)) = Range(messages[k]) \cap K
  BY <1>2, RangeOfKept
<1>4. \A m \in Message : m \in K <=> ~m.committed
  BY DEF IsStored
<1> HIDE DEF K
<1>5. /\ messages'[k] = Kept(messages[k], K) /\ messages' \in [Conversations -> Seq(Message)]
      /\ \A c \in Conversations : c # k => messages'[c] = messages[c]
  BY <1>1, <1>2, <1>3
<1>6. \A c \in Conversations : \A m \in Message :
        /\ m \in Range(messages'[c]) => m \in Range(messages[c]) /\ (c = k => ~m.committed)
        /\ m \in Range(messages[c]) /\ (~m.committed \/ c # k) => m \in Range(messages'[c])
  BY <1>3, <1>4, <1>5
<1>7. \A t \in Turns : ConvOf(t)' = ConvOf(t) /\ ConvOf(t) \in Conversations
  BY <1>1, TurnFields DEF ConvOf, ChatInv, ChatTypeOK
<1>8. \A t \in Turns : (Asked(t)' <=> Asked(t)) /\ (Answered(t)' <=> Answered(t)) /\ (Open(t)' <=> Open(t))
  BY <1>1 DEF Asked, Answered, Streamed, At, Open
<1>9. ChatTypeOK' /\ TurnsFit' /\ PromptHasNewestHistory'
  BY <1>1, <1>5 DEF ChatInv, ChatTypeOK, TurnsFit, PromptHasNewestHistory, At, ConvOf, IsNew
<1>10. MessagesPlaced'
  <2> SUFFICES ASSUME NEW c \in Conversations, NEW m \in Range(messages'[c]) PROVE Placed(c, m)'
    BY DEF MessagesPlaced
  <2>1. m \in Message /\ m.turn \in Turns
    BY <1>5, RangeOf, MessageIsOwn
  <2>2. Placed(c, m) /\ (c = k => ~m.committed)
    BY <1>6, <2>1 DEF ChatInv, MessagesPlaced
  <2>3. /\ ~At(m.turn, "idle")' /\ ConvOf(m.turn)' = c
        /\ m.role = "assistant" => turns'[m.turn].step \in {"answered", "saved", "ended"}
        /\ At(m.turn, "ended")' <=> At(m.turn, "ended")
    BY <1>1, <1>7, <2>1, <2>2 DEF Placed, At
  <2>4. m.committed => c \in conversations'
    BY <1>1, <2>2 DEF Placed
  <2> QED BY <1>8, <2>1, <2>2, <2>3, <2>4, Zenon DEF Placed
<1>11. OneQuestion'
  <2> SUFFICES ASSUME NEW c \in Conversations, NEW u \in Turns
               PROVE  AtMostOne(messages'[c], Of(u, "user"))
    BY DEF OneQuestion
  <2>1. AtMostOne(messages[c], Of(u, "user"))
    BY DEF ChatInv, OneQuestion
  <2>2. messages'[c] = messages[c] \/ messages'[c] = Kept(messages[c], K)
    BY <1>5
  <2> QED BY <1>2, <2>1, <2>2, KeptAtMostOne
<1>12. AnswersFollow'
  <2> SUFFICES ASSUME NEW c \in Conversations, NEW u \in Turns,
                      Own(u, "assistant", TRUE) \in Range(messages'[c])
               PROVE  Own(u, "user", TRUE) \in Range(messages'[c])
    BY DEF AnswersFollow
  <2>1. /\ Own(u, "assistant", TRUE) \in Message /\ Own(u, "assistant", TRUE).committed
        /\ Own(u, "user", TRUE) \in Message
    BY OwnIsMessage DEF Own
  <2>2. Own(u, "assistant", TRUE) \in Range(messages[c]) /\ c # k
    BY <1>6, <2>1
  <2> QED BY <1>6, <2>1, <2>2 DEF ChatInv, AnswersFollow
<1>13. AnswersKept'
  <2> SUFFICES ASSUME NEW u \in Turns
               PROVE  /\ At(u, "answered") => Own(u, "assistant", FALSE) \in Range(messages'[ConvOf(u)])
                      /\ (At(u, "saved") \/ turns[u].outcome = "done") /\ ConvOf(u) \in conversations' =>
                           Own(u, "assistant", TRUE) \in Range(messages'[ConvOf(u)])
    BY <1>1, <1>7 DEF AnswersKept, At
  <2>1. /\ Own(u, "assistant", FALSE) \in Message /\ ~Own(u, "assistant", FALSE).committed
        /\ Own(u, "assistant", TRUE) \in Message
    BY OwnIsMessage DEF Own
  <2>2. ConvOf(u) \in conversations' => ConvOf(u) \in conversations /\ ConvOf(u) # k
    BY <1>1
  <2> QED BY <1>6, <1>7, <2>1, <2>2 DEF ChatInv, AnswersKept
<1>14. QuestionsKept'
  <2> SUFFICES ASSUME NEW u \in Turns, Open(u)
               PROVE  \/ \E b \in BOOLEAN : Own(u, "user", b) \in Range(messages'[ConvOf(u)])
                      \/ Asked(u) /\ ConvOf(u) \notin conversations'
    BY <1>7, <1>8 DEF QuestionsKept
  <2>1. ASSUME NEW b \in BOOLEAN, Own(u, "user", b) \in Range(messages[ConvOf(u)])
        PROVE  \/ Own(u, "user", b) \in Range(messages'[ConvOf(u)])
               \/ Asked(u) /\ ConvOf(u) \notin conversations'
    <3> DEFINE m == Own(u, "user", b)
    <3>1. m \in Message /\ m.turn = u
      BY OwnIsMessage
    <3> HIDE DEF m
    <3>2. CASE ~m.committed \/ ConvOf(u) # k
      BY <1>6, <1>7, <2>1, <3>1, <3>2 DEF m
    <3>3. CASE m.committed /\ ConvOf(u) = k
      <4>1. Placed(k, m)
        BY <2>1, <3>3 DEF ChatInv, MessagesPlaced, m
      <4>2. Asked(u)
        BY <3>1, <3>3, <4>1 DEF Placed, Open
      <4> QED BY <1>1, <3>3, <4>2
    <3> QED BY <3>2, <3>3
  <2>2. CASE \E b \in BOOLEAN : Own(u, "user", b) \in Range(messages[ConvOf(u)])
    BY <2>1, <2>2
  <2>3. CASE Asked(u) /\ ConvOf(u) \notin conversations
    BY <1>1, <2>3
  <2> QED BY <2>2, <2>3 DEF ChatInv, QuestionsKept
<1> QED BY <1>9, <1>10, <1>11, <1>12, <1>13, <1>14 DEF ChatInv

\* The history: the newest messages that are committed, but for the question.
LEMMA ReadStep ==
  ASSUME ChatInv, NEW t \in Turns, ReadHistory(t)
  PROVE  ChatInv'
<1> DEFINE s == messages[ConvOf(t)]
           K == {m \in Message : m.turn # t \/ m.role # "user"}
           h == Newest(Kept(Newest(Kept(s, IsStored), MaxHistory + 1), K), MaxHistory)
           o == Kept(Kept(s, IsStored), K)
           r == [turns[t] EXCEPT !.read = "yes", !.history = h]
<1>1. turns[t] \in Turn /\ s \in Seq(Message) /\ ConvOf(t) \in Conversations
  BY TurnFields DEF ChatInv, ChatTypeOK, ConvOf
<1>2. Kept(s, IsStored) \in Seq(Message) /\ o \in Seq(Message)
  <2>1. Kept(s, IsStored) \in Seq(Message)
    BY <1>1, RangeOfKept
  <2> QED BY <2>1, RangeOfKept
<1>3. AtMostOne(Kept(s, IsStored), Message \ K)
  <2>1. Message \ K = Of(t, "user")
    BY DEF Of
  <2>2. AtMostOne(s, Of(t, "user"))
    BY <1>1 DEF ChatInv, OneQuestion
  <2> HIDE DEF s, K
  <2> QED BY <1>1, <2>1, <2>2, KeptAtMostOne
<1>4. h = Newest(o, MaxHistory)
  <2> HIDE DEF K
  <2> DEFINE z == Kept(s, IsStored)
  <2>1. z \in Seq(Message) /\ AtMostOne(z, Message \ K) /\ MaxHistory \in Nat
    BY <1>2, <1>3, MaxHistoryAssumption
  <2> HIDE DEF z
  <2>2. Newest(Kept(Newest(z, MaxHistory + 1), K), MaxHistory) = Newest(Kept(z, K), MaxHistory)
    BY <2>1, NewestKept
  <2> QED BY <2>2 DEF z
<1>5. h \in Seq(Message)
  <2> HIDE DEF h, o
  <2>1. \A x \in Seq(Message) : Newest(x, MaxHistory) \in Seq(Message)
    BY MaxHistoryAssumption DEF Newest
  <2> QED BY <1>2, <1>4, <2>1
<1>6. turns' = [turns EXCEPT ![t] = r] /\ offered' = [offered EXCEPT ![t] = o]
  <2>1. turns' = [turns EXCEPT ![t].read = "yes", ![t].history = h] /\ offered' = [offered EXCEPT ![t] = o]
    BY Zenon DEF ReadHistory, Recent, Others, Committed
  <2> HIDE DEF h, o
  <2> QED BY <1>1, <2>1 DEF ChatInv, ChatTypeOK
<1> HIDE DEF h, o
<1>7. /\ r \in Turn /\ r.step = turns[t].step /\ r.kind = turns[t].kind /\ r.conversation = turns[t].conversation
      /\ r.outcome = turns[t].outcome /\ r.read = "yes" /\ r.history = h
  BY <1>1, <1>5 DEF Turn
<1> HIDE DEF r
<1>8. turns'[t] = r /\ \A u \in Turns : u # t => turns'[u] = turns[u]
  BY <1>6 DEF ChatInv, ChatTypeOK
<1>9. /\ offered'[t] = o /\ \A u \in Turns : u # t => offered'[u] = offered[u]
      /\ offered' \in [Turns -> Seq(Message)]
  BY <1>2, <1>6 DEF ChatInv, ChatTypeOK
<1>10. PromptHasNewestHistory'
  <2> SUFFICES ASSUME NEW u \in Turns, turns'[u].read = "yes", turns'[u].conversation # u
               PROVE  turns'[u].history = Newest(offered'[u], MaxHistory)
    BY DEF PromptHasNewestHistory, IsNew, ConvOf
  <2>1. CASE u = t
    BY <1>4, <1>7, <1>8, <1>9, <2>1
  <2>2. CASE u # t
    BY <1>8, <1>9, <2>2 DEF ChatInv, PromptHasNewestHistory, IsNew, ConvOf
  <2> QED BY <2>1, <2>2
<1>11. r.step \in {"authorizing", "embedding", "searching", "retrieved"} /\ UNCHANGED <<conversations, messages>>
  BY <1>7 DEF ReadHistory
<1>12. Open(t) /\ (Asked(t)' <=> Asked(t)) /\ r.outcome = "open" /\ ~At(t, "saved")
  <2>1. Open(t) /\ (Asked(t)' <=> Asked(t)) /\ ~At(t, "saved") /\ ~At(t, "ended")
    BY <1>7, <1>8, <1>11 DEF Open, At, Asked, Streamed
  <2> QED BY <1>7, <2>1 DEF ChatInv, TurnsFit
<1> QED BY <1>6, <1>7, <1>9, <1>10, <1>11, <1>12, MoveStep DEF ConvOf


-----------------------------------------------------------------------------
(* The steps of the chat.                                                  *)

LEMMA HistoryFailsStep ==
  ASSUME ChatInv, NEW t \in Turns, HistoryFails(t)
  PROVE  ChatInv'
<1> DEFINE r == [turns[t] EXCEPT !.read = "failed"]
<1>1. turns[t] \in Turn
  BY DEF ChatInv, ChatTypeOK
<1>2. /\ r \in Turn /\ r.step = turns[t].step /\ r.kind = turns[t].kind /\ r.conversation = ConvOf(t)
      /\ r.outcome = turns[t].outcome /\ r.read = "failed"
  BY <1>1 DEF Turn, ConvOf
<1>3. turns' = [turns EXCEPT ![t] = r] /\ UNCHANGED <<conversations, messages, offered>>
  BY Zenon DEF HistoryFails
<1> HIDE DEF r
<1>4. r.step \in {"authorizing", "embedding", "searching", "retrieved"}
  BY <1>2 DEF HistoryFails
<1>5. turns'[t] = r
  BY <1>3 DEF ChatInv, ChatTypeOK
<1>6. Open(t) /\ (Asked(t)' <=> Asked(t)) /\ r.outcome = "open" /\ ~At(t, "saved")
  <2>1. Open(t) /\ (Asked(t)' <=> Asked(t)) /\ ~At(t, "saved") /\ ~At(t, "ended")
    BY <1>2, <1>4, <1>5 DEF Open, At, Asked, Streamed
  <2> QED BY <1>2, <2>1 DEF ChatInv, TurnsFit
<1>7. PromptHasNewestHistory'
  BY <1>2, <1>3, HistoryStays
<1>8. offered' \in [Turns -> Seq(Message)]
  BY <1>3 DEF ChatInv, ChatTypeOK
<1> QED BY <1>2, <1>3, <1>4, <1>6, <1>7, <1>8, MoveStep

LEMMA BeginTurnStep ==
  ASSUME ChatInv, NEW t \in Turns, NEW kind \in {"stream", "sync"}, NEW c \in Conversations,
         BeginTurn(t, kind, c)
  PROVE  ChatInv'
<1> DEFINE found == c = t \/ c \in conversations
           r == [turns[t] EXCEPT !.kind = kind, !.conversation = c,
                                 !.step = IF found THEN "loaded" ELSE "ended",
                                 !.outcome = IF found THEN "open" ELSE "error"]
<1>1. turns[t] \in Turn
  BY DEF ChatInv, ChatTypeOK
<1>2. /\ r \in Turn /\ r.conversation = c /\ r.read = turns[t].read
      /\ found => r.step = "loaded" /\ r.outcome = "open"
      /\ ~found => r.step = "ended" /\ r.outcome = "error"
  BY <1>1 DEF Turn, Steps
<1>3. turns' = [turns EXCEPT ![t] = r]
  BY <1>1 DEF BeginTurn, ChatInv, ChatTypeOK
<1>4. /\ found => messages' = [messages EXCEPT ![c] = Append(@, Own(t, "user", FALSE))]
      /\ ~found => UNCHANGED messages
      /\ UNCHANGED <<conversations, offered>> /\ At(t, "idle") /\ c \in {t, Existing}
  BY DEF BeginTurn
<1> HIDE DEF r, found
<1>5. CASE found
  BY <1>2, <1>3, <1>4, <1>5, BeginStep
<1>6. CASE ~found
  BY <1>2, <1>3, <1>4, <1>6, BeginStep
<1> QED BY <1>5, <1>6

LEMMA BeginSearchStep ==
  ASSUME ChatInv, NEW t \in Turns, NEW q \in Queries, BeginSearch(t, q)
  PROVE  ChatInv'
<1> DEFINE read == IF IsNew(t) THEN "yes" ELSE "no"
           r == [turns[t] EXCEPT !.step = "authorizing", !.read = read]
<1>1. turns[t] \in Turn
  BY DEF ChatInv, ChatTypeOK
<1>2. /\ r \in Turn /\ r.step = "authorizing" /\ r.kind = turns[t].kind /\ r.conversation = ConvOf(t)
      /\ r.outcome = turns[t].outcome /\ (~IsNew(t) => r.read = "no")
  BY <1>1 DEF Turn, Steps, ConvOf
<1>3. turns' = [turns EXCEPT ![t] = r] /\ UNCHANGED <<conversations, messages, offered>>
  <2> HIDE DEF read
  <2>1. turns' = [turns EXCEPT ![t].step = "authorizing", ![t].read = read]
    BY DEF BeginSearch, read
  <2>2. turns' = [turns EXCEPT ![t] = r]
    BY <1>1, <2>1 DEF ChatInv, ChatTypeOK
  <2> QED BY <2>2 DEF BeginSearch
<1> HIDE DEF r, read
<1>4. turns'[t] = r /\ turns[t].step = "asked"
  BY <1>3 DEF ChatInv, ChatTypeOK, BeginSearch, At
<1>5. Open(t) /\ (Asked(t) => Asked(t)') /\ r.outcome = "open" /\ ~At(t, "saved")
  <2>1. Open(t) /\ (Asked(t) => Asked(t)') /\ ~At(t, "saved") /\ ~At(t, "ended")
    BY <1>2, <1>4 DEF Open, At, Asked, Streamed
  <2> QED BY <1>2, <2>1 DEF ChatInv, TurnsFit
<1>6. PromptHasNewestHistory'
  <2>1. r.conversation # t => r.read = "no"
    BY <1>2 DEF IsNew
  <2> QED BY <1>2, <1>3, <2>1, HistoryStays
<1>7. offered' \in [Turns -> Seq(Message)]
  BY <1>3 DEF ChatInv, ChatTypeOK
<1> QED BY <1>2, <1>3, <1>4, <1>5, <1>6, <1>7, MoveStep

\* A step to another place, with nothing stored.
LEMMA GoAlong ==
  ASSUME ChatInv, NEW t \in Turns, NEW s \in Steps, Go(t, s),
         UNCHANGED <<conversations, messages, offered>>,
         \/ At(t, "loaded") /\ s = "asked"
         \/ At(t, "authorizing") /\ s = "embedding"
         \/ At(t, "embedding") /\ s = "searching"
         \/ At(t, "searching") /\ s = "retrieved"
         \/ At(t, "retrieved") /\ s = "prompted"
  PROVE  ChatInv'
<1>1. PICK r \in Turn : /\ turns' = [turns EXCEPT ![t] = r] /\ r.step = s
                        /\ r.conversation = ConvOf(t) /\ r.outcome = turns[t].outcome
                        /\ r.read = turns[t].read /\ r.history = turns[t].history
                        /\ r.kind = turns[t].kind
  BY GoStep
<1>2. turns'[t] = r
  BY <1>1 DEF ChatInv, ChatTypeOK
<1>3. /\ Open(t) /\ (Asked(t) => Asked(t)') /\ ~At(t, "saved") /\ ~At(t, "ended") /\ ~At(t, "answered")
      /\ r.step \in {"asked", "embedding", "searching", "retrieved", "prompted"}
      /\ r.step = "asked" => At(t, "loaded")
  BY <1>1, <1>2 DEF Open, At, Asked, Streamed
<1>4. r.outcome = "open" /\ (r.step = "asked" => r.read = "no")
  BY <1>1, <1>3 DEF ChatInv, TurnsFit, At
<1>5. PromptHasNewestHistory'
  BY <1>1, HistoryStays DEF IsNew
<1>6. offered' \in [Turns -> Seq(Message)]
  BY DEF ChatInv, ChatTypeOK
<1>7. /\ turns[t].step \notin {"answered", "saved", "ended"}
      /\ r.step \notin {"idle", "answered", "saved"}
  BY <1>3 DEF At
<1> QED BY <1>1, <1>3, <1>4, <1>5, <1>6, <1>7, MoveStep

\* A step to another place, with all that the session holds stored.
LEMMA GoCommitting ==
  ASSUME ChatInv, NEW t \in Turns, NEW s \in Steps, Go(t, s), Commit(t), UNCHANGED offered,
         \/ At(t, "loaded") /\ Streamed(t) /\ s = "asked"
         \/ At(t, "retrieved") /\ ~Streamed(t) /\ s = "prompted"
         \/ At(t, "answered") /\ ConvOf(t) \in conversations /\ s = "saved"
  PROVE  ChatInv'
<1>1. PICK r \in Turn : /\ turns' = [turns EXCEPT ![t] = r] /\ r.step = s
                        /\ r.conversation = ConvOf(t) /\ r.outcome = turns[t].outcome
                        /\ r.read = turns[t].read /\ r.history = turns[t].history
                        /\ r.kind = turns[t].kind
  BY GoStep
<1>2. turns'[t] = r
  BY <1>1 DEF ChatInv, ChatTypeOK
<1>3. /\ Open(t) /\ Asked(t)' /\ ~At(t, "saved") /\ (Asked(t) => ConvOf(t) \in conversations)
      /\ r.step \notin {"idle", "ended", "answered"}
      /\ r.step \in {"idle", "loaded", "asked"} => At(t, "loaded")
      /\ At(t, "answered") \/ r.step = "saved" => At(t, "answered") /\ r.step = "saved"
  BY <1>1, <1>2 DEF Open, At, Asked, Streamed
<1> QED BY <1>1, <1>3, CommitStep

\* A turn ends without an answer.
LEMMA EndsWithout ==
  ASSUME ChatInv, NEW t \in Turns, NEW o \in {"error", "cancelled"}, Open(t),
         \/ Finish(t, o)
         \/ turns' = [turns EXCEPT ![t].step = "ended", ![t].outcome = o, ![t].connected = FALSE],
         messages' = RolledBack(t), UNCHANGED <<conversations, offered>>,
         At(t, "saved") => o = "cancelled"
  PROVE  ChatInv'
<1>1. PICK r \in Turn : /\ turns' = [turns EXCEPT ![t] = r] /\ r.step = "ended" /\ r.outcome = o
                        /\ r.conversation = ConvOf(t)
                        /\ r.read = turns[t].read /\ r.history = turns[t].history
                        /\ r.kind = turns[t].kind
  <2>1. o \in {"error", "done", "cancelled"}
    OBVIOUS
  <2>2. \A p \in {"error", "done", "cancelled"} :
          \/ Finish(t, p)
          \/ turns' = [turns EXCEPT ![t].step = "ended", ![t].outcome = p, ![t].connected = FALSE]
          => \E r \in Turn : /\ turns' = [turns EXCEPT ![t] = r] /\ r.step = "ended" /\ r.outcome = p
                             /\ r.conversation = ConvOf(t)
                             /\ r.read = turns[t].read /\ r.history = turns[t].history
                             /\ r.kind = turns[t].kind
    BY FinishStep
  <2> QED BY <2>1, <2>2
<1> QED BY <1>1, DropStep

LEMMA FailStep ==
  ASSUME ChatInv, NEW t \in Turns, Fail(t),
         turns[t].step \in {"loaded", "asked", "authorizing", "embedding", "searching", "retrieved",
                            "prompted", "answered"}
  PROVE  ChatInv'
<1>1. Open(t) /\ ~At(t, "saved")
  BY DEF Open, At
<1>2. Finish(t, "error") /\ messages' = RolledBack(t) /\ UNCHANGED <<conversations, offered>>
  BY DEF Fail
<1>3. "error" \in {"error", "cancelled"}
  OBVIOUS
<1> QED BY <1>1, <1>2, <1>3, EndsWithout

LEMMA EmbeddedStep ==
  ASSUME ChatInv, NEW t \in Turns, Embedded(t)
  PROVE  ChatInv'
<1>1. CASE calls[t].at = "returned" /\ Go(t, "searching")
  BY <1>1, GoAlong DEF Embedded, Steps
<1>2. CASE calls[t].at = "cancelled" /\ Finish(t, "cancelled")
  <2>1. Open(t) /\ messages' = RolledBack(t) /\ UNCHANGED <<conversations, offered>>
    BY <1>2 DEF Embedded, Open, At
  <2>2. "cancelled" \in {"error", "cancelled"}
    OBVIOUS
  <2> QED BY <1>2, <2>1, <2>2, EndsWithout
<1> QED BY <1>1, <1>2 DEF Embedded

LEMMA DoneStep ==
  ASSUME ChatInv, NEW t \in Turns, Done(t)
  PROVE  ChatInv'
<1>1. Finish(t, "done") /\ At(t, "saved") /\ UNCHANGED <<conversations, messages, offered>>
  BY DEF Done
<1>2. "done" \in {"error", "done", "cancelled"}
  OBVIOUS
<1>3. PICK r \in Turn : /\ turns' = [turns EXCEPT ![t] = r] /\ r.step = "ended" /\ r.outcome = "done"
                        /\ r.conversation = ConvOf(t)
                        /\ r.read = turns[t].read /\ r.history = turns[t].history
                        /\ r.kind = turns[t].kind
  BY <1>1, <1>2, FinishStep
<1>4. turns'[t] = r
  BY <1>3 DEF ChatInv, ChatTypeOK
<1>5. Open(t) /\ Answered(t)'
  BY <1>1, <1>3, <1>4 DEF Open, At, Answered
<1>6. PromptHasNewestHistory'
  BY <1>1, <1>3, HistoryStays DEF IsNew
<1>7. offered' \in [Turns -> Seq(Message)]
  BY <1>1 DEF ChatInv, ChatTypeOK
<1> QED BY <1>1, <1>3, <1>5, <1>6, <1>7, MoveStep

LEMMA HandleStep ==
  ASSUME ChatInv, NEW t \in Turns, Handle(t)
  PROVE  ChatInv'
<1>1. CASE AskStreamed(t)
  BY <1>1, GoCommitting DEF AskStreamed, Steps
<1>2. CASE AskSync(t)
  BY <1>2, GoAlong DEF AskSync, Steps
<1>3. CASE FailEarly(t)
  BY <1>3, FailStep DEF FailEarly, At
<1>4. ASSUME NEW q \in Queries, BeginSearch(t, q) PROVE ChatInv'
  BY <1>4, BeginSearchStep
<1>5. CASE Authorize(t)
  BY <1>5, GoAlong DEF Authorize, Steps
<1>6. CASE Refuse(t)
  BY <1>6, FailStep DEF Refuse, At
<1>7. CASE Embedded(t)
  BY <1>7, EmbeddedStep
<1>8. CASE EmbeddingFailed(t)
  BY <1>8, FailStep DEF EmbeddingFailed, At
<1>9. CASE Search(t)
  BY <1>9, GoAlong DEF Search, Steps
<1>10. CASE Prompt(t)
  <2>1. CASE Streamed(t)
    BY <1>10, <2>1, GoAlong DEF Prompt, Steps
  <2>2. CASE ~Streamed(t)
    BY <1>10, <2>2, GoCommitting DEF Prompt, Steps
  <2> QED BY <2>1, <2>2
<1>11. CASE FailRetrieval(t)
  BY <1>11, FailStep DEF FailRetrieval, At
<1>12. CASE Generate(t)
  BY <1>12, GenerateStep
<1>13. CASE GenerationFails(t)
  BY <1>13, FailStep DEF GenerationFails, At
<1>14. CASE SaveAnswer(t)
  BY <1>14, GoCommitting DEF SaveAnswer, Steps
<1>15. CASE SaveFails(t)
  BY <1>15, FailStep DEF SaveFails, At
<1>16. CASE Done(t)
  BY <1>16, DoneStep
<1> QED
  BY <1>1, <1>2, <1>3, <1>4, <1>5, <1>6, <1>7, <1>8, <1>9, <1>10, <1>11, <1>12, <1>13, <1>14,
     <1>15, <1>16 DEF Handle

LEMMA NextChatInv == ChatInv /\ [Next]_vars => ChatInv'
<1> SUFFICES ASSUME ChatInv, [Next]_vars PROVE ChatInv'
  OBVIOUS
<1>1. CASE UNCHANGED chatVars
  <2>1. conversations' = conversations /\ messages' = messages /\ turns' = turns /\ offered' = offered
    BY <1>1 DEF chatVars
  <2>2. ChatTypeOK' /\ TurnsFit' /\ OneQuestion' /\ AnswersFollow' /\ PromptHasNewestHistory'
    BY <2>1 DEF ChatInv, ChatTypeOK, TurnsFit, OneQuestion, AnswersFollow, PromptHasNewestHistory,
       At, ConvOf, IsNew
  <2>3. \A t \in Turns : /\ Asked(t)' <=> Asked(t)
                         /\ Answered(t)' <=> Answered(t)
                         /\ Open(t)' <=> Open(t)
    BY <2>1 DEF Asked, Answered, Open, At, Streamed
  <2>4. MessagesPlaced'
    <3> SUFFICES ASSUME NEW c \in Conversations, NEW m \in Range(messages[c]) PROVE Placed(c, m)'
      BY <2>1 DEF MessagesPlaced
    <3>1. Placed(c, m) /\ m.turn \in Turns
      BY RangeOf, MessageIsOwn DEF ChatInv, ChatTypeOK, MessagesPlaced
    <3> QED BY <2>1, <2>3, <3>1, Zenon DEF Placed, At, ConvOf
  <2>5. AnswersKept' /\ QuestionsKept'
    BY <2>1, <2>3 DEF ChatInv, AnswersKept, QuestionsKept, At, ConvOf
  <2> QED BY <2>2, <2>4, <2>5 DEF ChatInv
<1>2. ASSUME NEW t \in Turns, NEW kind \in {"stream", "sync"}, NEW c \in Conversations,
             BeginTurn(t, kind, c)
      PROVE  ChatInv'
  BY <1>2, BeginTurnStep
<1>3. ASSUME NEW t \in Turns, Handle(t) PROVE ChatInv'
  BY <1>3, HandleStep
<1>4. ASSUME NEW t \in Turns, History(t) PROVE ChatInv'
  BY <1>4, ReadStep, HistoryFailsStep DEF History
<1>5. ASSUME NEW t \in Turns, ServeCall(t) PROVE UNCHANGED chatVars
  BY <1>5 DEF ServeCall
<1>6. ASSUME NEW t \in Turns, Disconnect(t) PROVE ChatInv'
  <2>1. /\ Open(t) /\ messages' = RolledBack(t) /\ UNCHANGED <<conversations, offered>>
        /\ turns' = [turns EXCEPT ![t].step = "ended", ![t].outcome = "cancelled", ![t].connected = FALSE]
    BY <1>6 DEF Disconnect
  <2>2. "cancelled" \in {"error", "cancelled"}
    OBVIOUS
  <2> QED BY <2>1, <2>2, EndsWithout
<1>7. ASSUME NEW c \in Conversations, DeleteConversation(c) PROVE ChatInv'
  BY <1>7, DeleteStep
<1>8. CASE UNCHANGED vars
  BY <1>1, <1>8 DEF vars, chatVars
<1> QED BY <1>1, <1>2, <1>3, <1>4, <1>5, <1>6, <1>7, <1>8 DEF Next

LEMMA ChatInvariant == Spec => []ChatInv
<1>1. Init => ChatInv
  BY InitChatInv
<1>2. ChatInv /\ [Next]_vars => ChatInv'
  BY NextChatInv
<1> QED BY <1>1, <1>2, PTL DEF Spec

\* The prompt of a turn has the newest messages that were stored when the
\* history was read, in their order, and never the turn's own question, although
\* one message more than the limit is enough to find them
\* (rag/service.py:755, :935).
THEOREM PromptsHaveTheirHistory == Spec => []PromptHasNewestHistory
<1>1. ChatInv => PromptHasNewestHistory
  BY DEF ChatInv
<1> QED BY <1>1, ChatInvariant, PTL

LEMMA StoreFollows == ChatInv => OutcomeMatchesStore
<1> SUFFICES ASSUME ChatInv, NEW t \in Turns
             PROVE  /\ turns[t].outcome = "done" /\ ~Deleted(t) => Has(t, "assistant")
                    /\ turns[t].outcome = "error" => ~Has(t, "assistant")
                    /\ Has(t, "assistant") => Has(t, "user")
                    /\ \A c \in Conversations : c \notin conversations => Committed(messages[c]) = <<>>
  BY DEF OutcomeMatchesStore
<1>1. ConvOf(t) \in Conversations /\ \A c \in Conversations : messages[c] \in Seq(Message)
  BY TurnFields DEF ConvOf, ChatInv, ChatTypeOK
<1>2. ASSUME NEW role \in {"user", "assistant"}
      PROVE  Has(t, role) <=> \E c \in Conversations : Own(t, role, TRUE) \in Range(messages[c])
  <2>1. ASSUME NEW c \in Conversations, NEW n \in DOMAIN messages[c],
               messages[c][n].turn = t, messages[c][n].role = role, messages[c][n].committed
        PROVE  Own(t, role, TRUE) \in Range(messages[c])
    <3>1. messages[c][n] \in Message /\ messages[c][n] \in Range(messages[c])
      BY <1>1 DEF Range
    <3>2. messages[c][n].committed = TRUE
      BY <2>1, <3>1, MessageIsOwn
    <3>3. messages[c][n] = Own(t, role, TRUE)
      BY <2>1, <3>1, <3>2, MessageIsOwn
    <3> QED BY <3>1, <3>3
  <2>2. ASSUME NEW c \in Conversations, Own(t, role, TRUE) \in Range(messages[c])
        PROVE  Has(t, role)
    <3>1. PICK n \in DOMAIN messages[c] : messages[c][n] = Own(t, role, TRUE)
      BY <2>2 DEF Range
    <3> QED BY <3>1 DEF Has, Own
  <2> QED BY <2>1, <2>2 DEF Has
<1>3. turns[t].outcome = "done" /\ ~Deleted(t) => Has(t, "assistant")
  BY <1>1, <1>2 DEF ChatInv, AnswersKept, Deleted
<1>4. turns[t].outcome = "error" => ~Has(t, "assistant")
  <2> SUFFICES ASSUME turns[t].outcome = "error", NEW c \in Conversations,
                      Own(t, "assistant", TRUE) \in Range(messages[c])
               PROVE  FALSE
    BY <1>2
  <2>1. Placed(c, Own(t, "assistant", TRUE))
    BY DEF ChatInv, MessagesPlaced
  <2>2. Answered(t)
    BY <2>1 DEF Placed, Own
  <2>3. At(t, "ended")
    BY DEF ChatInv, TurnsFit
  <2> QED BY <2>2, <2>3 DEF Answered, At
<1>5. Has(t, "assistant") => Has(t, "user")
  BY <1>2 DEF ChatInv, AnswersFollow
<1>6. ASSUME NEW c \in Conversations, c \notin conversations
      PROVE  Committed(messages[c]) = <<>>
  <2>1. /\ Committed(messages[c]) \in Seq(Message)
        /\ Range(Committed(messages[c])) = Range(messages[c]) \cap IsStored
    BY <1>1, RangeOfKept DEF Committed
  <2>2. \A m \in Range(messages[c]) : m \notin IsStored
    BY <1>6 DEF ChatInv, MessagesPlaced, Placed, IsStored
  <2> DEFINE z == Committed(messages[c])
  <2>3. z \in Seq(Message) /\ Range(z) = {}
    BY <2>1, <2>2
  <2> HIDE DEF z
  <2>4. DOMAIN z = {} /\ Len(z) \in Nat /\ DOMAIN z = 1..Len(z)
    BY <2>3 DEF Range
  <2>5. Len(z) = 0
    BY <2>4
  <2>6. z = <<>>
    BY <2>3, <2>5
  <2> QED BY <2>6 DEF z
<1> QED BY <1>3, <1>4, <1>5, <1>6

\* Whatever turns of one conversation do at once, and whoever deletes it or
\* goes away meanwhile: what a client was told is what the store has, and no
\* answer is stored without its question (rag/service.py:592-630, :1168-1233).
THEOREM OutcomesAreTrue == Spec => []OutcomeMatchesStore
BY ChatInvariant, StoreFollows, PTL
=============================================================================
