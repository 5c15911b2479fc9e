------------------------- MODULE QueryEmbeddingCache -------------------------
(***************************************************************************)
(* The LRU cache of query embeddings and its sharing of computations in    *)
(* progress (services/embeddings/cache.py).  The body of every "async with *)
(* self._lock" runs without awaiting anything, so it is one step.  A       *)
(* future is named after the call that created it.                         *)
(***************************************************************************)
EXTENDS Naturals, Sequences, FiniteSets, SequencesExt

CONSTANTS
  Calls,    \* tasks that call get_or_compute, each once
  Queries,  \* digests of query, provider, model and dimension
  MaxSize,  \* QUERY_EMBEDDING_CACHE_SIZE
  None      \* no future

ASSUME MaxSizeAssumption == MaxSize \in Nat \ {0}
ASSUME NoneAssumption == None \notin Calls

VARIABLES
  cached,    \* _cache, least recently used first
  inFlight,  \* _in_flight
  futures,   \* state of each future
  calls      \* where each call is, for which query, on which future

cacheVars == <<cached, inFlight, futures, calls>>

FutureStates == {"none", "pending", "result", "error", "cancelled"}
CallStates   == {"idle", "started", "waiting", "computing", "returned", "failed", "cancelled"}

Call == [at : CallStates, query : Queries \cup {None}, on : Calls \cup {None}]

CacheTypeOK ==
  /\ cached \in Seq(Queries)
  /\ inFlight \in [Queries -> Calls \cup {None}]
  /\ futures \in [Calls -> FutureStates]
  /\ calls \in [Calls -> Call]

CacheInit ==
  /\ cached = <<>>
  /\ inFlight = [q \in Queries |-> None]
  /\ futures = [c \in Calls |-> "none"]
  /\ calls = [c \in Calls |-> [at |-> "idle", query |-> None, on |-> None]]

Cached(q) == \E n \in DOMAIN cached : cached[n] = q

\* move_to_end.
Touch(n) == cached' = Append(RemoveAt(cached, n), cached[n])

Goto(c, at) == calls' = [calls EXCEPT ![c].at = at]

\* The task is created; it has not run yet.
StartCall(c, q) ==
  /\ calls[c].at = "idle"
  /\ calls' = [calls EXCEPT ![c].at = "started", ![c].query = q]
  /\ UNCHANGED <<cached, inFlight, futures>>

\* The first critical section: a hit, a wait for the computation in flight, or
\* a computation of one's own that others can wait for.
LookUp(c) ==
  LET q == calls[c].query IN
  /\ calls[c].at = "started"
  /\ \/ /\ \E n \in DOMAIN cached : cached[n] = q /\ Touch(n)
        /\ Goto(c, "returned")
        /\ UNCHANGED <<inFlight, futures>>
     \/ /\ ~Cached(q) /\ inFlight[q] # None
        /\ calls' = [calls EXCEPT ![c].at = "waiting", ![c].on = inFlight[q]]
        /\ UNCHANGED <<cached, inFlight, futures>>
     \/ /\ ~Cached(q) /\ inFlight[q] = None
        /\ inFlight' = [inFlight EXCEPT ![q] = c]
        /\ futures' = [futures EXCEPT ![c] = "pending"]
        /\ Goto(c, "computing")
        /\ UNCHANGED cached

\* A waiter whose future failed computes itself, and registers nothing; a
\* cancelled future cancels its waiters: CancelledError is no Exception.
WakeUp(c) ==
  /\ calls[c].at = "waiting"
  /\ \/ futures[calls[c].on] = "result"    /\ Goto(c, "returned")
     \/ futures[calls[c].on] = "error"     /\ Goto(c, "computing")
     \/ futures[calls[c].on] = "cancelled" /\ Goto(c, "cancelled")
  /\ UNCHANGED <<cached, inFlight, futures>>

\* Mutant: the future is taken out and never resolved.
PopUnresolved(q, outcome) ==
  /\ inFlight' = [inFlight EXCEPT ![q] = None]
  /\ UNCHANGED futures

\* _in_flight.pop(key): whoever created the future that is there now.
Pop(q, outcome) ==
  LET f == inFlight[q] IN
  /\ inFlight' = [inFlight EXCEPT ![q] = None]
  /\ futures' = IF f # None /\ futures[f] = "pending"
                THEN [futures EXCEPT ![f] = outcome] ELSE futures

Stored(q) ==
  IF Cached(q) THEN cached
  ELSE Append(IF Len(cached) >= MaxSize THEN Tail(cached) ELSE cached, q)

Compute(c) ==
  /\ calls[c].at = "computing"
  /\ cached' = Stored(calls[c].query)
  /\ Pop(calls[c].query, "result")
  /\ Goto(c, "returned")

\* The provider fails or returns a vector of another dimension.
ComputeFails(c) ==
  /\ calls[c].at = "computing"
  /\ Pop(calls[c].query, "error")
  /\ Goto(c, "failed")
  /\ UNCHANGED cached

\* Mutant: only an Exception is cleaned up after.
CancelComputingForgotten(c) ==
  /\ calls[c].at = "computing"
  /\ Goto(c, "cancelled")
  /\ UNCHANGED <<cached, inFlight, futures>>

CancelComputing(c) ==
  /\ calls[c].at = "computing"
  /\ Pop(calls[c].query, "cancelled")
  /\ Goto(c, "cancelled")
  /\ UNCHANGED cached

\* task.cancel() on a waiter cancels what it awaits: the future all others share.
CancelWaiting(c) ==
  LET f == calls[c].on IN
  /\ calls[c].at = "waiting"
  /\ futures' = IF futures[f] = "pending" THEN [futures EXCEPT ![f] = "cancelled"] ELSE futures
  /\ Goto(c, "cancelled")
  /\ UNCHANGED <<cached, inFlight>>

CancelStarted(c) ==
  /\ calls[c].at = "started"
  /\ Goto(c, "cancelled")
  /\ UNCHANGED <<cached, inFlight, futures>>

CancelCall(c) == CancelStarted(c) \/ CancelWaiting(c) \/ CancelComputing(c)

Running(c) == calls[c].at \in {"started", "waiting", "computing"}

Serve(c) == LookUp(c) \/ WakeUp(c) \/ Compute(c) \/ ComputeFails(c)

CacheNext ==
  \E c \in Calls : (\E q \in Queries : StartCall(c, q)) \/ Serve(c) \/ CancelCall(c)

CacheSpec == CacheInit /\ [][CacheNext]_cacheVars

-----------------------------------------------------------------------------
(* Properties. *)

\* A pending future belongs to a call that is computing it, and whoever waits
\* for a pending future will find it resolved by the call that pops it:
\* nobody waits for a computation that does not run ("so waiters don't hang",
\* cache.py:145).
NobodyWaitsInVain ==
  /\ \A q \in Queries : inFlight[q] # None /\ futures[inFlight[q]] = "pending" =>
       calls[inFlight[q]].at = "computing" /\ calls[inFlight[q]].query = q
  /\ \A c \in Calls : calls[c].at = "waiting" /\ futures[calls[c].on] = "pending" =>
       inFlight[calls[c].query] = calls[c].on

\* The cache never holds more vectors than its size, nor one twice, although
\* two calls may compute the same query after a failure (cache.py:126-130).
CacheBounded ==
  /\ Len(cached) <= MaxSize
  /\ \A m, n \in DOMAIN cached : cached[m] = cached[n] => m = n
=============================================================================
