-------------------------------- MODULE Models --------------------------------
(***************************************************************************)
(* The Models collection (modelsImpl in src/ai/provider.go, and its copy   *)
(* in src/ai/images/provider.go): the registry of providers under m.mu, a  *)
(* chat request that goes through it to an adapter behind LazyStream, an   *)
(* image request, and Refresh of all providers, while other goroutines     *)
(* register and remove providers.  LazyStream's setup is taken apart here; *)
(* its relay and the adapter are those of that module.                     *)
(***************************************************************************)
EXTENDS LazyStream, FiniteSets

CONSTANTS Ids,           \* provider ids; both requests are for Wanted
          Wanted,
          Plain,         \* versions with no API implementation for the model, and none to refresh
          MaxVersions    \* providers ever registered

ASSUME ModelsAssumption == Wanted \in Ids /\ MaxVersions \in Nat

VARIABLES providers,     \* m.providers: the version under each id, or Absent
          order,         \* m.order
          versions,      \* versions made so far
          setup,         \* where setup is, with the version it holds
          authorized,    \* the version whose auth was resolved
          image,         \* the same for the image request
          refreshing,    \* versions Refresh still waits for, Idle before and Idle again after
          witness        \* the versions Wanted had since the requests began

registry == <<providers, order, versions>>
requests == <<setup, authorized, image>>
allVars == <<vars, registry, requests, refreshing, witness>>

Absent == 0
Idle == {Absent}
At(l, v) == [at |-> l, version |-> v]

ModelsInit ==
    /\ Init
    /\ providers = [id \in Ids |-> IF id = Wanted THEN 1 ELSE Absent]
    /\ order = <<Wanted>>
    /\ versions = 1
    /\ setup = At("require", Absent)
    /\ authorized = Absent
    /\ image = At("require", Absent)
    /\ refreshing = Idle
    /\ witness = {1}

-----------------------------------------------------------------------------
(* The registry: every operation holds m.mu                                *)

Seen == witness' = witness \cup {providers'[Wanted]}

\* Mutated SetProvider: an id that is replaced is listed again.
SetProviderAppends(id) ==
    /\ versions < MaxVersions
    /\ versions' = versions + 1
    /\ order' = Append(order, id)
    /\ providers' = [providers EXCEPT ![id] = versions']
    /\ Seen /\ UNCHANGED <<vars, requests, refreshing>>

SetProvider(id) ==
    /\ versions < MaxVersions
    /\ versions' = versions + 1
    /\ order' = IF providers[id] = Absent THEN Append(order, id) ELSE order
    /\ providers' = [providers EXCEPT ![id] = versions']
    /\ Seen /\ UNCHANGED <<vars, requests, refreshing>>

\* The first place of the list that names id is taken out of it.
Unlist(id) ==
    LET listed == {i \in DOMAIN order : order[i] = id}
        first == CHOOSE i \in listed : \A j \in listed : i <= j
    IN  IF listed = {}
        THEN order
        ELSE SubSeq(order, 1, first - 1) \o SubSeq(order, first + 1, Len(order))

DeleteProvider(id) ==
    /\ providers[id] # Absent
    /\ providers' = [providers EXCEPT ![id] = Absent]
    /\ order' = Unlist(id)
    /\ Seen /\ UNCHANGED <<vars, requests, refreshing, versions>>

ClearProviders ==
    /\ order # <<>>
    /\ providers' = [id \in Ids |-> Absent]
    /\ order' = <<>>
    /\ Seen /\ UNCHANGED <<vars, requests, refreshing, versions>>

\* Refresh("") asks every provider of the snapshot that GetProviders takes, if it can
\* refresh its models, and waits for all, whatever becomes of them.
Refresh ==
    /\ refreshing = Idle /\ order # <<>>
    /\ refreshing' = {providers[order[i]] : i \in DOMAIN order} \ Plain
    /\ UNCHANGED <<vars, registry, requests, witness>>

RefreshOne ==
    /\ refreshing # Idle
    /\ \E v \in refreshing : refreshing' = refreshing \ {v}
    /\ UNCHANGED <<vars, registry, requests, witness>>

RefreshReturns ==
    /\ refreshing = {}
    /\ refreshing' = Idle
    /\ UNCHANGED <<vars, registry, requests, witness>>

-----------------------------------------------------------------------------
(* The chat request: Stream's setup                                        *)

Move(l, v) == setup' = At(l, v) /\ UNCHANGED <<registry, image, refreshing, witness>>

\* requireProvider, in Stream; the version found is the one dispatched to.
RequireProvider ==
    /\ setup.at = "require"
    /\ IF providers[Wanted] = Absent
       THEN SetupFails /\ Move("unknown", Absent)
       ELSE UNCHANGED vars /\ Move("auth", providers[Wanted])
    /\ UNCHANGED authorized

\* Mutated RequireAgain: the first provider's auth is taken.
RequireFirst ==
    /\ setup.at = "auth"
    /\ IF order = <<>>
       THEN SetupFails /\ Move("unknown", Absent) /\ UNCHANGED authorized
       ELSE UNCHANGED vars /\ Move("resolve", setup.version) /\ authorized' = providers[order[1]]

\* requireProvider again, in applyAuth: this version's auth is resolved.
RequireAgain ==
    /\ setup.at = "auth"
    /\ IF providers[Wanted] = Absent
       THEN SetupFails /\ Move("unknown", Absent) /\ UNCHANGED authorized
       ELSE UNCHANGED vars /\ Move("resolve", setup.version) /\ authorized' = providers[Wanted]

\* ResolveProviderAuth (AuthResolution) fails, or what it found is merged into the options.
ApplyAuth ==
    /\ setup.at = "resolve"
    /\ \/ SetupFails /\ Move("over", Absent)
       \/ UNCHANGED vars /\ Move("dispatch", setup.version)
    /\ UNCHANGED authorized

\* Mutated Dispatch: a model without an implementation is left to nobody.
DispatchNowhere ==
    /\ setup.at = "dispatch"
    /\ IF setup.version \in Plain
       THEN UNCHANGED vars
       ELSE SetupReturns
    /\ Move("over", setup.version)
    /\ UNCHANGED authorized

\* The adapter's stream is returned.  A model without an implementation gets the stream
\* of another LazyStream, whose setup fails.
Dispatch ==
    /\ setup.at = "dispatch"
    /\ SetupReturns
    /\ Move("over", setup.version)
    /\ UNCHANGED authorized

\* That stream is an error event and nothing else.
NoImplementation == setup.version \in Plain
AdapterRuns ==
    /\ \/ ~NoImplementation /\ (AdapterPushes("update") \/ AdapterTerminates)
       \/ NoImplementation /\ AdapterPushes("error")
    /\ UNCHANGED <<registry, requests, refreshing, witness>>

Relays ==
    /\ RelayReceives \/ RelayPushes \/ RelayRangeEnds \/ RelayEnds \/ CancelRequest
    /\ UNCHANGED <<registry, requests, refreshing, witness>>

-----------------------------------------------------------------------------
(* The image request                                                       *)

ImageMove(l, v) == image' = At(l, v) /\ UNCHANGED <<vars, registry, setup, authorized, refreshing, witness>>

\* One look at the registry; errors are results here.
GenerateImages ==
    /\ image.at = "require"
    /\ IF providers[Wanted] = Absent THEN ImageMove("unknown", Absent) ELSE ImageMove("resolve", providers[Wanted])

\* Auth is resolved, or is not; the provider generates, or fails.
ImageResult ==
    /\ image.at = "resolve"
    /\ \/ ImageMove("over", Absent)
       \/ ImageMove("over", image.version)

-----------------------------------------------------------------------------

Setup == RequireProvider \/ RequireAgain \/ ApplyAuth \/ Dispatch
Owner == \E id \in Ids : SetProvider(id) \/ DeleteProvider(id)
ModelsNext ==
    \/ Owner \/ ClearProviders \/ Refresh \/ RefreshOne \/ RefreshReturns
    \/ Setup \/ Relays \/ AdapterRuns \/ GenerateImages \/ ImageResult

\* Goroutines run, auth resolution returns and adapters terminate (LazyStream); every
\* provider's refresh returns.
RelayStep == RelayReceives \/ RelayPushes \/ RelayRangeEnds \/ RelayEnds
Framed(A) == A /\ UNCHANGED <<registry, requests, refreshing, witness>>
ModelsSpec ==
    /\ ModelsInit /\ [][ModelsNext]_allVars
    /\ WF_allVars(Setup) /\ WF_allVars(Framed(RelayStep))
    /\ WF_allVars(Framed(IF NoImplementation THEN AdapterPushes("error") ELSE AdapterTerminates))
    /\ WF_allVars(RefreshOne) /\ WF_allVars(RefreshReturns)

-----------------------------------------------------------------------------
(* Properties                                                              *)

\* The list and the map of the registry agree at any moment another goroutine can look:
\* GetProviders lists every registered provider once, in the order of registration, and
\* never a nil one, which Refresh would call and crash on.
RegistryConsistent ==
    /\ \A i, j \in DOMAIN order : order[i] = order[j] => i = j
    /\ {order[i] : i \in DOMAIN order} = {id \in Ids : providers[id] # Absent}
    /\ refreshing # Idle => Absent \notin refreshing

\* A chat request is served by a version that was registered while it ran, with the
\* auth of that version or of one that has replaced it since (the registry is looked up
\* twice); either request is told of an unknown provider only if there was none for a
\* moment: replacing a provider never looks like removing it.
ServedByRegistered ==
    /\ iOpened # {} => setup.version \in witness \ {Absent} /\ authorized \in witness /\ authorized >= setup.version
    /\ "unknown" \in {setup.at, image.at} => Absent \in witness

\* A chat request ends, whatever becomes of its provider, and Refresh returns.
RequestsEnd ==
    /\ <>(oClosed /\ relay = "gone")
    /\ (refreshing # Idle) ~> (refreshing = Idle)
=============================================================================
