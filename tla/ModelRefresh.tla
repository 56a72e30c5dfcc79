---------------------------- MODULE ModelRefresh ----------------------------
(***************************************************************************)
(* providerImpl.RefreshModels (src/ai/provider.go): concurrent callers     *)
(* share one fetch of the provider's model list.  Fetches are numbered in  *)
(* the order they start; the model list is the number of the fetch it came *)
(* from (Initial: opts.Models) and an outcome is a fetch and whether it    *)
(* failed.  Each critical section under refreshMu or modelsMu is one step. *)
(***************************************************************************)
EXTENDS Naturals

CONSTANTS Callers,
          MaxFetches   \* bound on the fetches

ASSUME FetchesAssumption == MaxFetches \in Nat

VARIABLES models,
          inflight,    \* the fetch whose done channel is p.inflight, or None
          lastErr,     \* the outcome p.lastErr comes from
          closed,      \* the fetches whose done channel is closed
          call,        \* where each call is
          fetch,       \* the fetch it leads or waits for
          outcome,     \* the outcome it is about to return or returned
          fetches      \* fetches started

refreshVars == <<models, inflight, lastErr, closed, call, fetch, outcome, fetches>>

Initial == 0
None == 0
Outcome == [fetch : 0..MaxFetches, failed : BOOLEAN]
NoError == [fetch |-> None, failed |-> FALSE]

RefreshInit ==
    /\ models = Initial
    /\ inflight = None
    /\ lastErr = NoError
    /\ closed = {}
    /\ call = [c \in Callers |-> "idle"]
    /\ fetch = [c \in Callers |-> None]
    /\ outcome = [c \in Callers |-> NoError]
    /\ fetches = 0

Advance(c, l) == call' = [call EXCEPT ![c] = l]

\* Mutated RefreshModels: every caller fetches.
FetchAlways(c) ==
    /\ call[c] = "idle"
    /\ fetches < MaxFetches
    /\ fetches' = fetches + 1
    /\ inflight' = fetches'
    /\ fetch' = [fetch EXCEPT ![c] = fetches']
    /\ Advance(c, "fetch")
    /\ UNCHANGED <<models, lastErr, closed, outcome>>

\* Join the fetch in flight, or start one.
RefreshModels(c) ==
    /\ call[c] = "idle"
    /\ IF inflight # None
       THEN /\ fetch' = [fetch EXCEPT ![c] = inflight]
            /\ Advance(c, "wait")
            /\ UNCHANGED <<inflight, fetches>>
       ELSE /\ fetches < MaxFetches
            /\ fetches' = fetches + 1
            /\ inflight' = fetches'
            /\ fetch' = [fetch EXCEPT ![c] = fetches']
            /\ Advance(c, "fetch")
    /\ UNCHANGED <<models, lastErr, closed, outcome>>

\* The leader's fetch returns.
Fetched(c) ==
    /\ call[c] = "fetch"
    /\ \E failed \in BOOLEAN :
          /\ outcome' = [outcome EXCEPT ![c] = [fetch |-> fetch[c], failed |-> failed]]
          /\ Advance(c, IF failed THEN "publish" ELSE "store")
    /\ UNCHANGED <<models, inflight, lastErr, closed, fetch, fetches>>

StoreModels(c) ==
    /\ call[c] = "store"
    /\ models' = fetch[c]
    /\ Advance(c, "publish")
    /\ UNCHANGED <<inflight, lastErr, closed, fetch, outcome, fetches>>

\* Mutated Publish: a failed fetch stays in flight; the error is not recorded.
PublishSuccessOnly(c) ==
    /\ call[c] = "publish"
    /\ lastErr' = outcome[c]
    /\ inflight' = IF outcome[c].failed THEN inflight ELSE None
    /\ Advance(c, IF outcome[c].failed THEN "idle" ELSE "close")
    /\ UNCHANGED <<models, closed, fetch, outcome, fetches>>

PublishNoError(c) ==
    /\ call[c] = "publish"
    /\ inflight' = None
    /\ Advance(c, "close")
    /\ UNCHANGED <<models, lastErr, closed, fetch, outcome, fetches>>

Publish(c) ==
    /\ call[c] = "publish"
    /\ lastErr' = outcome[c]
    /\ inflight' = None
    /\ Advance(c, "close")
    /\ UNCHANGED <<models, closed, fetch, outcome, fetches>>

\* close(done), and the leader returns.
CloseDone(c) ==
    /\ call[c] = "close"
    /\ closed' = closed \cup {fetch[c]}
    /\ Advance(c, "idle")
    /\ UNCHANGED <<models, inflight, lastErr, fetch, outcome, fetches>>

\* A waiter sees done closed; then it locks again and reads p.lastErr.
Wake(c) ==
    /\ call[c] = "wait"
    /\ fetch[c] \in closed
    /\ Advance(c, "read")
    /\ UNCHANGED <<models, inflight, lastErr, closed, fetch, outcome, fetches>>

ReadLastErr(c) ==
    /\ call[c] = "read"
    /\ outcome' = [outcome EXCEPT ![c] = lastErr]
    /\ Advance(c, "idle")
    /\ UNCHANGED <<models, inflight, lastErr, closed, fetch, fetches>>

RefreshStep(c) == Fetched(c) \/ StoreModels(c) \/ Publish(c) \/ CloseDone(c) \/ Wake(c) \/ ReadLastErr(c)

RefreshNext == \E c \in Callers : RefreshModels(c) \/ RefreshStep(c)

\* Every fetch returns.
RefreshFairness == \A c \in Callers : WF_refreshVars(RefreshStep(c))

RefreshSpec == RefreshInit /\ [][RefreshNext]_refreshVars /\ RefreshFairness

-----------------------------------------------------------------------------
(* Properties                                                              *)

Leading(c) == call[c] \in {"fetch", "store", "publish"}

\* Every variable has its type, and the fetch in flight has exactly one leader.
RefreshTypeOK ==
    /\ models \in 0..MaxFetches /\ inflight \in 0..MaxFetches /\ fetches \in 0..MaxFetches
    /\ lastErr \in Outcome
    /\ closed \subseteq 1..MaxFetches
    /\ call \in [Callers -> {"idle", "fetch", "store", "publish", "close", "wait", "read"}]
    /\ fetch \in [Callers -> 0..MaxFetches]
    /\ outcome \in [Callers -> Outcome]
    /\ \A c, d \in Callers : Leading(c) /\ Leading(d) => c = d
    /\ (\E c \in Callers : Leading(c)) <=> inflight # None

\* A call that returned without an error left the provider with a list at least
\* as new as the fetch the call led or joined.
SuccessIsFresh ==
    \A c \in Callers :
        (call[c] = "idle" /\ fetch[c] # None /\ ~outcome[c].failed) => models >= fetch[c]

\* "On failure the stored list stays at its last-known state" (provider.go, the
\* comment on CreateProviderOptions.RefreshModels): the list never goes back to
\* an older fetch.
ListMovesForward == [][models' >= models]_refreshVars

\* "Concurrent calls share one in-flight fetch" (the same comment): a caller that
\* joined a fetch returns what that fetch returned.
JoinersShareOutcome ==
    \A c \in Callers : (call[c] = "idle" /\ fetch[c] # None) => outcome[c].fetch = fetch[c]

\* Nobody waits for a fetch that is over: every call returns.
CallsReturn == \A c \in Callers : (call[c] # "idle") ~> (call[c] = "idle")
=============================================================================
