---------------------------- MODULE ModelsProofs ----------------------------
(***************************************************************************)
(* Proofs about the registry, the requests it serves, the relay behind     *)
(* LazyStream and the refresh of one provider's model list, for any ids,   *)
(* any number of versions, any adapter, any callers and any number of      *)
(* fetches.                                                                *)
(***************************************************************************)
EXTENDS Models, ModelRefresh, SequenceTheorems, TLAPS

-----------------------------------------------------------------------------
(* The registry                                                            *)

RegistryTypes ==
    /\ providers \in [Ids -> Nat] /\ order \in Seq(Ids) /\ versions \in Nat
    /\ Absent \notin refreshing \/ refreshing = Idle

\* The list names every registered provider once.
Listed ==
    /\ \A i, j \in DOMAIN order : order[i] = order[j] => i = j
    /\ \A id \in Ids : providers[id] # Absent <=> \E i \in DOMAIN order : order[i] = id

RInv == RegistryTypes /\ Listed

-----------------------------------------------------------------------------
(* The request                                                             *)

\* A version is newer than all that Wanted had before.
Witnessed ==
    /\ witness \subseteq Nat /\ providers[Wanted] \in witness
    /\ \A v \in witness : v <= versions /\ (providers[Wanted] # Absent => v <= providers[Wanted])

\* The chat request holds a version that was registered, and from its second
\* look on the auth of that version or of a later one.
Found ==
    /\ setup.at \in {"auth", "resolve", "dispatch"} => setup.version \in witness \ {Absent}
    /\ setup.at \in {"resolve", "dispatch"} =>
          authorized \in witness /\ authorized >= setup.version

\* Where setup and the relay are tells each other.
Dispatched ==
    /\ setup.at \in {"require", "auth", "resolve", "dispatch"} <=> relay = "setup"
    /\ relay = "setup" => iOpened = {}
    /\ setup.at = "unknown" => iOpened = {}

SInv == Witnessed /\ Found /\ Dispatched /\ ServedByRegistered

-----------------------------------------------------------------------------
(* The relay                                                               *)

StreamTypes ==
    /\ iLog \in Seq(Event) /\ oLog \in Seq(Event) /\ hand \in Seq(Event)
    /\ iSeen \in [{Relay} -> Seq(Event)]
    /\ iClosed \in BOOLEAN /\ oClosed \in BOOLEAN
    /\ iOpened \in {{}, {Relay}}

\* Until setup is over nothing happens on either stream.
Quiet ==
    /\ iOpened = {} => iLog = <<>> /\ ~iClosed
    /\ relay = "setup" =>
          /\ iOpened = {} /\ iSeen[Relay] = <<>> /\ hand = <<>>
          /\ oLog = <<>> /\ ~oClosed

\* The adapter's stream terminates once, and a terminal event is its last.
AdapterOnce ==
    \A i \in DOMAIN iLog : IsTerminalEvent(iLog[i]) =>
        i = Len(iLog) /\ iClosed

\* The relay hands on what it receives, in order.
Relayed ==
    iOpened # {} =>
        /\ relay \in {"range", "push", "end", "gone"}
        /\ Len(iSeen[Relay]) <= Len(iLog)
        /\ \A i \in DOMAIN iSeen[Relay] : iSeen[Relay][i] = iLog[i]
        /\ Len(hand) = IF relay = "push" THEN 1 ELSE 0
        /\ Len(oLog) + Len(hand) = Len(iSeen[Relay])
        /\ \A i \in DOMAIN oLog : oLog[i] = iLog[i]
        /\ relay = "push" => hand[1] = iLog[Len(iSeen[Relay])]
        /\ relay = "end" => iClosed /\ Len(oLog) = Len(iLog)

\* The outer stream terminates with the adapter's last event, or at the end.
OuterOnce ==
    /\ ~oClosed => oResult = NoMessage /\ \A i \in DOMAIN oLog : ~IsTerminalEvent(oLog[i])
    /\ iOpened # {} /\ oClosed =>
          /\ iClosed /\ oResult = ResultOf(iLog) /\ Len(oLog) = Len(iLog)

\* A setup that fails leaves one error and ends the relay.
Failed ==
    iOpened = {} /\ relay # "setup" =>
        relay = "gone" /\ oLog = <<[kind |-> "error", msg |-> SetupMessage]>>

LInv == StreamTypes /\ Quiet /\ AdapterOnce /\ Relayed /\ OuterOnce /\ Failed
-----------------------------------------------------------------------------
(* The list of providers                                                   *)

\* Taking one element out of a sequence keeps the others in their order.
LEMMA TakenOut ==
    ASSUME NEW S, NEW s \in Seq(S), NEW k \in 1..Len(s)
    PROVE  LET t == SubSeq(s, 1, k - 1) \o SubSeq(s, k + 1, Len(s)) IN
           /\ t \in Seq(S) /\ Len(t) = Len(s) - 1
           /\ \A j \in 1..(Len(s) - 1) : t[j] = IF j < k THEN s[j] ELSE s[j + 1]
<1> DEFINE a == SubSeq(s, 1, k - 1)
           b == SubSeq(s, k + 1, Len(s))
<1>1. Len(s) \in Nat /\ k \in Nat /\ k >= 1 /\ k <= Len(s) /\ \A i \in 1..Len(s) : s[i] \in S
  OBVIOUS
<1>2. /\ a \in Seq(S) /\ Len(a) = k - 1
      /\ \A i \in 1..(k - 1) : a[i] = s[i]
  <2>1. \A i \in 1..(k - 1) : s[i] \in S
    BY <1>1
  <2>2. /\ a \in Seq(S) /\ Len(a) = IF 1 <= k - 1 THEN k - 1 - 1 + 1 ELSE 0
        /\ \A i \in 1..(k - 1 - 1 + 1) : a[i] = s[1 + i - 1]
    BY <1>1, <2>1, SubSeqProperties
  <2>3. QED
    BY <1>1, <2>2
<1>3. /\ b \in Seq(S) /\ Len(b) = Len(s) - k
      /\ \A i \in 1..(Len(s) - k) : b[i] = s[k + i]
  <2>1. \A i \in (k + 1)..Len(s) : s[i] \in S
    BY <1>1
  <2>2. /\ b \in Seq(S) /\ Len(b) = IF k + 1 <= Len(s) THEN Len(s) - (k + 1) + 1 ELSE 0
        /\ \A i \in 1..(Len(s) - (k + 1) + 1) : b[i] = s[k + 1 + i - 1]
    BY <1>1, <2>1, SubSeqProperties
  <2>3. QED
    BY <1>1, <2>2
<1> HIDE DEF a, b
<1>4. /\ a \o b \in Seq(S) /\ Len(a \o b) = Len(a) + Len(b)
      /\ \A i \in 1..(Len(a) + Len(b)) : (a \o b)[i] = IF i <= Len(a) THEN a[i] ELSE b[i - Len(a)]
  BY <1>2, <1>3, ConcatProperties
<1>5. Len(a \o b) = Len(s) - 1
  BY <1>1, <1>2, <1>3, <1>4
<1>6. ASSUME NEW j \in 1..(Len(s) - 1) PROVE (a \o b)[j] = IF j < k THEN s[j] ELSE s[j + 1]
  <2>1. (a \o b)[j] = IF j <= k - 1 THEN a[j] ELSE b[j - (k - 1)]
    BY <1>1, <1>2, <1>3, <1>4
  <2>2. CASE j < k
    <3>1. j \in 1..(k - 1) /\ j <= k - 1
      BY <1>1, <2>2
    <3>2. QED
      BY <1>2, <2>1, <2>2, <3>1
  <2>3. CASE ~(j < k)
    <3>1. j - (k - 1) \in 1..(Len(s) - k) /\ k + (j - (k - 1)) = j + 1 /\ ~(j <= k - 1)
      BY <1>1, <2>3
    <3>2. QED
      BY <1>3, <2>1, <2>3, <3>1
  <2>4. QED
    BY <2>2, <2>3
<1>7. QED
  BY <1>4, <1>5, <1>6 DEF a, b

\* A provider that is listed once leaves the list, and nobody else does.
LEMMA UnlistRemoves ==
    ASSUME RInv, NEW id \in Ids, providers[id] # Absent
    PROVE  /\ Unlist(id) \in Seq(Ids)
           /\ \A i, j \in DOMAIN Unlist(id) : Unlist(id)[i] = Unlist(id)[j] => i = j
           /\ \A other : (\E i \in DOMAIN Unlist(id) : Unlist(id)[i] = other)
                            <=> other # id /\ \E i \in DOMAIN order : order[i] = other
<1>1. /\ order \in Seq(Ids) /\ DOMAIN order = 1..Len(order) /\ Len(order) \in Nat
      /\ \A i, j \in DOMAIN order : order[i] = order[j] => i = j
  BY DEF RInv, RegistryTypes, Listed
<1>2. PICK k \in DOMAIN order : order[k] = id
  BY DEF RInv, Listed
<1> DEFINE t == SubSeq(order, 1, k - 1) \o SubSeq(order, k + 1, Len(order))
<1>3. Unlist(id) = t
  <2>1. {i \in DOMAIN order : order[i] = id} = {k}
    BY <1>1, <1>2
  <2>2. (CHOOSE i \in {k} : \A j \in {k} : i <= j) = k
    BY <1>1
  <2>3. QED
    BY <2>1, <2>2 DEF Unlist
<1>4. /\ t \in Seq(Ids) /\ Len(t) = Len(order) - 1
      /\ \A j \in 1..(Len(order) - 1) : t[j] = IF j < k THEN order[j] ELSE order[j + 1]
  BY <1>1, TakenOut
<1> HIDE DEF t
<1>5. k \in Nat /\ 1 <= k /\ k <= Len(order) /\ DOMAIN t = 1..(Len(order) - 1)
  BY <1>1, <1>4
<1> DEFINE up(j) == IF j < k THEN j ELSE j + 1
<1>6. ASSUME NEW j \in DOMAIN t
      PROVE  up(j) \in DOMAIN order /\ up(j) # k /\ t[j] = order[up(j)]
  <2>1. CASE j < k
    BY <1>1, <1>4, <1>5, <2>1
  <2>2. CASE ~(j < k)
    BY <1>1, <1>4, <1>5, <2>2
  <2>3. QED
    BY <2>1, <2>2
<1>7. ASSUME NEW i \in DOMAIN order, i # k PROVE \E j \in DOMAIN t : t[j] = order[i]
  <2>1. CASE i < k
    BY <1>1, <1>4, <1>5, <2>1
  <2>2. CASE ~(i < k)
    <3>1. i - 1 \in 1..(Len(order) - 1) /\ i = (i - 1) + 1 /\ ~(i - 1 < k)
      BY <1>1, <1>5, <1>7, <2>2
    <3>2. PICK j \in DOMAIN t : i = j + 1 /\ ~(j < k)
      BY <1>5, <3>1
    <3>3. QED
      BY <1>4, <1>5, <3>2
  <2>3. QED
    BY <2>1, <2>2
<1>8. ASSUME NEW i \in DOMAIN t, NEW j \in DOMAIN t, t[i] = t[j] PROVE i = j
  <2>1. up(i) = up(j)
    BY <1>1, <1>6, <1>8
  <2>2. QED
    BY <1>5, <2>1
<1>9. \A other : (\E i \in DOMAIN t : t[i] = other)
                    <=> other # id /\ \E i \in DOMAIN order : order[i] = other
  BY <1>1, <1>2, <1>6, <1>7
<1>10. QED
  BY <1>3, <1>4, <1>8, <1>9

\* Every operation of the registry keeps the list and the map together.
LEMMA RegistryInductive ==
    ASSUME RInv, [ModelsNext]_allVars
    PROVE  RInv'
<1> USE DEF RInv, registry
<1>1. CASE UNCHANGED <<registry, refreshing>>
  BY <1>1 DEF RegistryTypes, Listed
<1>2. ASSUME NEW id \in Ids, SetProvider(id) PROVE RInv'
  <2>1. /\ versions' = versions + 1 /\ providers' = [providers EXCEPT ![id] = versions']
        /\ refreshing' = refreshing /\ versions \in Nat
        /\ order' = IF providers[id] = Absent THEN Append(order, id) ELSE order
    BY <1>2 DEF SetProvider, RegistryTypes
  <2>2. /\ versions' \in Nat \ {Absent} /\ providers' \in [Ids -> Nat]
        /\ \A other \in Ids : providers'[other] = IF other = id THEN versions' ELSE providers[other]
    BY <2>1 DEF RegistryTypes, Absent
  <2>3. CASE providers[id] = Absent
    <3>1. order' = Append(order, id) /\ order \in Seq(Ids) /\ ~\E i \in DOMAIN order : order[i] = id
      BY <2>1, <2>3 DEF RegistryTypes, Listed
    <3>2. /\ order' \in Seq(Ids) /\ DOMAIN order' = 1..(Len(order) + 1)
          /\ DOMAIN order = 1..Len(order) /\ Len(order) \in Nat
          /\ \A i \in DOMAIN order : order'[i] = order[i]
          /\ order'[Len(order) + 1] = id
      BY <3>1
    <3>3. /\ \A i \in DOMAIN order' : i \in DOMAIN order \/ i = Len(order) + 1
          /\ \A i \in DOMAIN order : i \in DOMAIN order'
          /\ Len(order) + 1 \in DOMAIN order'
      BY <3>2
    <3>4. \A i, j \in DOMAIN order' : order'[i] = order'[j] => i = j
      BY <3>1, <3>2, <3>3 DEF Listed
    <3>5. \A other : (\E i \in DOMAIN order' : order'[i] = other)
                        <=> other = id \/ \E i \in DOMAIN order : order[i] = other
      BY <3>2, <3>3
    <3>6. Listed'
      BY <2>2, <3>4, <3>5 DEF Listed
    <3>7. QED
      BY <2>1, <2>2, <3>2, <3>6 DEF RegistryTypes
  <2>4. CASE providers[id] # Absent
    <3>1. order' = order
      BY <2>1, <2>4
    <3>2. Listed'
      BY <2>2, <2>4, <3>1 DEF Listed
    <3>3. QED
      BY <2>1, <2>2, <3>1, <3>2 DEF RegistryTypes
  <2>5. QED
    BY <2>3, <2>4
<1>3. ASSUME NEW id \in Ids, DeleteProvider(id) PROVE RInv'
  <2>1. /\ providers[id] # Absent /\ providers' = [providers EXCEPT ![id] = Absent]
        /\ order' = Unlist(id) /\ UNCHANGED <<versions, refreshing>>
    BY <1>3 DEF DeleteProvider
  <2>2. /\ providers' \in [Ids -> Nat]
        /\ \A other \in Ids : providers'[other] = IF other = id THEN Absent ELSE providers[other]
    BY <2>1 DEF RegistryTypes, Absent
  <2>3. /\ order' \in Seq(Ids)
        /\ \A i, j \in DOMAIN order' : order'[i] = order'[j] => i = j
        /\ \A other : (\E i \in DOMAIN order' : order'[i] = other)
                         <=> other # id /\ \E i \in DOMAIN order : order[i] = other
    BY <2>1, UnlistRemoves
  <2>4. Listed'
    BY <2>2, <2>3 DEF Listed
  <2>5. QED
    BY <2>1, <2>2, <2>3, <2>4 DEF RegistryTypes
<1>4. CASE ClearProviders
  BY <1>4 DEF ClearProviders, RegistryTypes, Listed, Absent
<1>5. CASE Refresh
  <2>1. refreshing' = {providers[order[i]] : i \in DOMAIN order} \ Plain /\ UNCHANGED registry
    BY <1>5 DEF Refresh
  <2>2. \A i \in DOMAIN order : providers[order[i]] # Absent
    BY DEF Listed, RegistryTypes
  <2>3. Absent \notin refreshing'
    BY <2>1, <2>2
  <2>4. QED
    BY <2>1, <2>3 DEF RegistryTypes, Listed
<1>6. CASE RefreshOne \/ RefreshReturns
  <2>1. UNCHANGED registry /\ (Absent \notin refreshing' \/ refreshing' = Idle)
    BY <1>6 DEF RefreshOne, RefreshReturns, RegistryTypes
  <2>2. QED
    BY <2>1 DEF RegistryTypes, Listed
<1>7. CASE Setup \/ Relays \/ AdapterRuns \/ GenerateImages \/ ImageResult
  BY <1>1, <1>7 DEF Setup, RequireProvider, RequireAgain, ApplyAuth, Dispatch, Relays, AdapterRuns,
     GenerateImages, ImageResult, Move, ImageMove
<1>8. CASE UNCHANGED allVars
  BY <1>1, <1>8 DEF allVars
<1>9. QED
  BY <1>2, <1>3, <1>4, <1>5, <1>6, <1>7, <1>8 DEF ModelsNext, Owner

\* The new collection satisfies it.
LEMMA RegistryInit == ModelsInit => RInv
<1>1. ModelsInit => /\ providers \in [Ids -> Nat] /\ order \in Seq(Ids) /\ versions \in Nat
                    /\ refreshing = Idle
  BY ModelsAssumption DEF ModelsInit, Absent
<1>2. ModelsInit => Listed
  BY ModelsAssumption DEF ModelsInit, Listed, Absent
<1>3. QED
  BY <1>1, <1>2 DEF RInv, RegistryTypes

\* The list and the map of the registry agree whenever m.mu is free, and Refresh
\* is handed no nil provider, however many providers come and go.
THEOREM RegistryHolds == ModelsSpec => []RegistryConsistent
<1>1. RInv /\ [ModelsNext]_allVars => RInv'
  BY RegistryInductive
<1>2. RInv => RegistryConsistent
  <2>1. SUFFICES ASSUME RInv PROVE RegistryConsistent
    OBVIOUS
  <2>2. {order[i] : i \in DOMAIN order} = {id \in Ids : providers[id] # Absent}
    <3>1. \A i \in DOMAIN order : order[i] \in Ids
      BY <2>1 DEF RInv, RegistryTypes
    <3>2. QED
      BY <2>1, <3>1 DEF RInv, Listed
  <2>3. QED
    BY <2>1, <2>2 DEF RInv, RegistryTypes, Listed, RegistryConsistent
<1>3. QED
  BY RegistryInit, <1>1, <1>2, PTL DEF ModelsSpec

-----------------------------------------------------------------------------
(* Who serves a request                                                    *)

\* What the steps of the relay and of the adapter leave alone.
LEMMA RelayFrame ==
    /\ SetupFails => relay = "setup" /\ relay' = "gone" /\ iOpened' = iOpened
    /\ SetupReturns => relay = "setup" /\ relay' = "range" /\ iOpened' = iOpened \cup {Relay}
    /\ Relays \/ AdapterRuns =>
          /\ iOpened' = iOpened /\ (relay' = "setup" <=> relay = "setup")
          /\ UNCHANGED <<registry, requests, refreshing, witness>>
<1>1. SetupFails => relay = "setup" /\ relay' = "gone" /\ iOpened' = iOpened
  BY DEF SetupFails, inner
<1>2. SetupReturns => relay = "setup" /\ relay' = "range" /\ iOpened' = iOpened \cup {Relay}
  BY DEF SetupReturns, Inner!Open
<1>3. Relays => iOpened' = iOpened /\ (relay' = "setup" <=> relay = "setup")
  BY DEF Relays, RelayReceives, RelayPushes, RelayRangeEnds, RelayEnds, CancelRequest, inner,
         Inner!Receive, Inner!Finish
<1>4. AdapterRuns => iOpened' = iOpened /\ relay' = relay
  BY DEF AdapterRuns, AdapterTerminates, AdapterPushes, AdapterEnds, Inner!Accept, Inner!End
<1>5. QED
  BY <1>1, <1>2, <1>3, <1>4 DEF Relays, AdapterRuns

\* A step of the registry adds the version Wanted has to the witnessed ones.
LEMMA WitnessInductive ==
    ASSUME RInv, RInv', Witnessed, [ModelsNext]_allVars
    PROVE  Witnessed' /\ witness \subseteq witness'
<1>1. /\ providers[Wanted] \in Nat /\ versions \in Nat /\ providers'[Wanted] \in Nat
      /\ versions' \in Nat
  BY ModelsAssumption DEF RInv, RegistryTypes
<1>2. CASE UNCHANGED <<registry, witness>>
  BY <1>2 DEF Witnessed, registry
<1>3. ASSUME Seen, versions' >= versions,
             providers'[Wanted] \in {Absent, providers[Wanted], versions'},
             providers'[Wanted] <= versions'
      PROVE  Witnessed' /\ witness \subseteq witness'
  <2>1. witness' = witness \cup {providers'[Wanted]} /\ witness \subseteq Nat
    BY <1>3 DEF Seen, Witnessed
  <2>2. ASSUME NEW v \in witness PROVE v <= versions'
    BY <1>1, <1>3, <2>1, <2>2 DEF Witnessed
  <2>3. ASSUME NEW v \in witness, providers'[Wanted] # Absent PROVE v <= providers'[Wanted]
    BY <1>1, <1>3, <2>1, <2>2, <2>3 DEF Witnessed
  <2>4. \A v \in witness' :
           v <= versions' /\ (providers'[Wanted] # Absent => v <= providers'[Wanted])
    <3>1. providers'[Wanted] <= versions' /\ providers'[Wanted] <= providers'[Wanted]
      BY <1>1, <1>3
    <3>2. \A v \in witness' : v \in witness \/ v = providers'[Wanted]
      BY <2>1
    <3>3. QED
      BY <2>2, <2>3, <3>1, <3>2
  <2>5. QED
    BY <1>1, <2>1, <2>4 DEF Witnessed
<1>4. ASSUME NEW id \in Ids, SetProvider(id) PROVE Witnessed' /\ witness \subseteq witness'
  <2>1. /\ Seen /\ versions' = versions + 1 /\ versions' >= versions
        /\ providers' = [providers EXCEPT ![id] = versions']
    BY <1>1, <1>4 DEF SetProvider
  <2>2. providers'[Wanted] = IF Wanted = id THEN versions' ELSE providers[Wanted]
    BY <2>1, ModelsAssumption DEF RInv, RegistryTypes
  <2>3. providers[Wanted] <= versions
    BY DEF Witnessed
  <2>4. QED
    BY <1>1, <1>3, <2>1, <2>2, <2>3
<1>5. ASSUME NEW id \in Ids, DeleteProvider(id) PROVE Witnessed' /\ witness \subseteq witness'
  <2>1. Seen /\ versions' = versions /\ providers' = [providers EXCEPT ![id] = Absent]
    BY <1>5 DEF DeleteProvider
  <2>2. providers'[Wanted] = IF Wanted = id THEN Absent ELSE providers[Wanted]
    BY <2>1, ModelsAssumption DEF RInv, RegistryTypes
  <2>3. providers[Wanted] <= versions /\ Absent <= versions
    BY <1>1 DEF Witnessed, Absent
  <2>4. QED
    BY <1>1, <1>3, <2>1, <2>2, <2>3
<1>6. ASSUME ClearProviders PROVE Witnessed' /\ witness \subseteq witness'
  <2>1. Seen /\ versions' = versions /\ providers'[Wanted] = Absent
    BY <1>6, ModelsAssumption DEF ClearProviders
  <2>2. Absent <= versions
    BY <1>1 DEF Absent
  <2>3. QED
    BY <1>1, <1>3, <2>1, <2>2
<1>7. CASE Refresh \/ RefreshOne \/ RefreshReturns
  BY <1>2, <1>7 DEF Refresh, RefreshOne, RefreshReturns
<1>8. CASE Setup \/ Relays \/ AdapterRuns \/ GenerateImages \/ ImageResult
  BY <1>2, <1>8 DEF Setup, RequireProvider, RequireAgain, ApplyAuth, Dispatch, Relays, AdapterRuns,
     GenerateImages, ImageResult, Move, ImageMove
<1>9. CASE UNCHANGED allVars
  BY <1>2, <1>9 DEF allVars
<1>10. QED
  BY <1>4, <1>5, <1>6, <1>7, <1>8, <1>9 DEF ModelsNext, Owner

\* Setup goes on with a version and an auth that are good whenever it is looked at.
LEMMA FoundInductive ==
    ASSUME RInv, SInv, witness \subseteq witness', [ModelsNext]_allVars
    PROVE  Found' /\ Dispatched' /\ ServedByRegistered'
<1> USE DEF SInv, Found, Dispatched, ServedByRegistered, At
<1>1. CASE UNCHANGED <<vars, requests>>
  BY <1>1 DEF vars, inner, requests
<1>2. CASE RequireProvider
  <2>1. setup.at = "require" /\ authorized' = authorized /\ image' = image /\ relay = "setup"
        /\ iOpened = {} /\ witness' = witness /\ providers[Wanted] \in witness
    BY <1>2 DEF RequireProvider, Move, Witnessed
  <2>2. CASE providers[Wanted] = Absent
    <3>1. setup' = At("unknown", Absent) /\ relay' = "gone" /\ iOpened' = iOpened
      BY <1>2, <2>2, RelayFrame DEF RequireProvider, Move
    <3>2. QED
      BY <2>1, <2>2, <3>1
  <2>3. CASE providers[Wanted] # Absent
    <3>1. setup' = At("auth", providers[Wanted]) /\ relay' = relay /\ iOpened' = iOpened
      BY <1>2, <2>3 DEF RequireProvider, Move, vars, inner
    <3>2. QED
      BY <2>1, <2>3, <3>1
  <2>4. QED
    BY <2>2, <2>3
<1>3. CASE RequireAgain
  <2>1. setup.at = "auth" /\ image' = image /\ relay = "setup" /\ iOpened = {}
        /\ witness' = witness /\ providers[Wanted] \in witness
        /\ setup.version \in witness \ {Absent}
    BY <1>3 DEF RequireAgain, Move, Witnessed
  <2>2. CASE providers[Wanted] = Absent
    <3>1. /\ setup' = At("unknown", Absent) /\ relay' = "gone" /\ iOpened' = iOpened
          /\ authorized' = authorized
      BY <1>3, <2>2, RelayFrame DEF RequireAgain, Move
    <3>2. QED
      BY <2>1, <2>2, <3>1
  <2>3. CASE providers[Wanted] # Absent
    <3>1. /\ setup' = At("resolve", setup.version) /\ relay' = relay /\ iOpened' = iOpened
          /\ authorized' = providers[Wanted]
      BY <1>3, <2>3 DEF RequireAgain, Move, vars, inner
    <3>2. PICK v \in witness \ {Absent} : v = setup.version
      BY <2>1
    <3>3. v \in Nat /\ providers[Wanted] \in Nat /\ v <= providers[Wanted]
      BY <2>1, <2>3, ModelsAssumption DEF Witnessed, RInv, RegistryTypes
    <3>4. setup'.at = "resolve" /\ setup'.version = v /\ authorized' >= v
      BY <3>1, <3>2, <3>3
    <3>5. QED
      BY <2>1, <3>1, <3>2, <3>4
  <2>4. QED
    BY <2>2, <2>3
<1>4. CASE ApplyAuth
  <2>1. /\ setup.at = "resolve" /\ image' = image /\ relay = "setup" /\ iOpened = {}
        /\ witness' = witness /\ authorized' = authorized
    BY <1>4 DEF ApplyAuth, Move
  <2>2. CASE SetupFails /\ Move("over", Absent)
    <3>1. setup' = At("over", Absent) /\ relay' = "gone" /\ iOpened' = iOpened
      BY <2>2, RelayFrame DEF Move
    <3>2. QED
      BY <2>1, <3>1
  <2>3. CASE UNCHANGED vars /\ Move("dispatch", setup.version)
    <3>1. setup' = At("dispatch", setup.version) /\ relay' = relay /\ iOpened' = iOpened
      BY <2>3 DEF Move, vars, inner
    <3>2. QED
      BY <2>1, <3>1
  <2>4. QED
    BY <1>4, <2>2, <2>3 DEF ApplyAuth
<1>5. CASE Dispatch
  <2>1. /\ setup.at = "dispatch" /\ image' = image /\ relay = "setup"
        /\ witness' = witness /\ authorized' = authorized
        /\ setup' = At("over", setup.version) /\ relay' = "range"
    BY <1>5, RelayFrame DEF Dispatch, Move
  <2>2. QED
    BY <2>1
<1>6. CASE Relays \/ AdapterRuns
  BY <1>6, RelayFrame DEF requests
<1>7. CASE GenerateImages
  <2>1. /\ UNCHANGED <<vars, setup, authorized, witness>>
        /\ image' = IF providers[Wanted] = Absent THEN At("unknown", Absent)
                                                   ELSE At("resolve", providers[Wanted])
    BY <1>7 DEF GenerateImages, ImageMove
  <2>2. image'.at = "unknown" => Absent \in witness
    BY <2>1 DEF Witnessed
  <2>3. QED
    BY <2>1, <2>2 DEF vars, inner
<1>8. CASE ImageResult
  <2>1. UNCHANGED <<vars, setup, authorized, witness>> /\ image'.at = "over"
    BY <1>8 DEF ImageResult, ImageMove
  <2>2. QED
    BY <2>1 DEF vars, inner
<1>9. CASE Owner \/ ClearProviders \/ Refresh \/ RefreshOne \/ RefreshReturns
  BY <1>1, <1>9 DEF Owner, SetProvider, DeleteProvider, ClearProviders, Refresh, RefreshOne,
     RefreshReturns
<1>10. CASE UNCHANGED allVars
  BY <1>1, <1>10 DEF allVars
<1>11. QED
  BY <1>2, <1>3, <1>4, <1>5, <1>6, <1>7, <1>8, <1>9, <1>10 DEF ModelsNext, Setup

\* A request is served by a version of its provider that was registered while it
\* ran, with the auth of that version or of a later one, and is told of an unknown
\* provider only if there was none for a moment.
THEOREM ServedHolds == ModelsSpec => []ServedByRegistered
<1>1. ModelsInit => SInv
  <2>1. ModelsInit => providers[Wanted] = 1 /\ versions = 1 /\ witness = {1}
    BY ModelsAssumption DEF ModelsInit
  <2>2. ModelsInit => Witnessed
    BY <2>1 DEF Witnessed, Absent
  <2>3. ModelsInit => Found /\ Dispatched /\ ServedByRegistered
    BY DEF ModelsInit, Init, Found, Dispatched, ServedByRegistered, At
  <2>4. QED
    BY <2>2, <2>3 DEF SInv
<1>2. RInv /\ SInv /\ [ModelsNext]_allVars => RInv' /\ SInv'
  <2>1. SUFFICES ASSUME RInv, SInv, [ModelsNext]_allVars PROVE RInv' /\ SInv'
    OBVIOUS
  <2>2. RInv'
    BY <2>1, RegistryInductive
  <2>3. Witnessed' /\ witness \subseteq witness'
    BY <2>1, <2>2, WitnessInductive DEF SInv
  <2>4. QED
    BY <2>1, <2>2, <2>3, FoundInductive DEF SInv
<1>3. SInv => ServedByRegistered
  BY DEF SInv
<1>4. QED
  BY RegistryInit, <1>1, <1>2, <1>3, PTL DEF ModelsSpec

-----------------------------------------------------------------------------
(* What the relay hands on                                                 *)

\* The types of the two streams.
LEMMA RelayTypes ==
    ASSUME LInv
    PROVE  /\ iLog \in Seq(Event) /\ oLog \in Seq(Event) /\ hand \in Seq(Event)
           /\ iSeen[Relay] \in Seq(Event)
           /\ DOMAIN iLog = 1..Len(iLog) /\ Len(iLog) \in Nat
           /\ DOMAIN oLog = 1..Len(oLog) /\ Len(oLog) \in Nat
           /\ DOMAIN iSeen[Relay] = 1..Len(iSeen[Relay]) /\ Len(iSeen[Relay]) \in Nat
           /\ iClosed \in BOOLEAN /\ oClosed \in BOOLEAN
           /\ iOpened # {} => iOpened = {Relay}
BY DEF LInv, StreamTypes

\* What a sequence is after one more event.
LEMMA OneMore ==
    ASSUME NEW t \in Seq(Event), NEW ev \in Event
    PROVE  /\ Append(t, ev) \in Seq(Event) /\ Len(Append(t, ev)) = Len(t) + 1
           /\ DOMAIN Append(t, ev) = 1..(Len(t) + 1) /\ DOMAIN t = 1..Len(t) /\ Len(t) \in Nat
           /\ \A i \in DOMAIN t : i \in DOMAIN Append(t, ev) /\ Append(t, ev)[i] = t[i]
           /\ Append(t, ev)[Len(t) + 1] = ev
           /\ \A i \in DOMAIN Append(t, ev) : i \in DOMAIN t \/ i = Len(t) + 1
<1>1. /\ Append(t, ev) \in Seq(Event) /\ Len(Append(t, ev)) = Len(t) + 1
      /\ DOMAIN Append(t, ev) = 1..(Len(t) + 1) /\ DOMAIN t = 1..Len(t) /\ Len(t) \in Nat
      /\ \A i \in 1..Len(t) : Append(t, ev)[i] = t[i]
      /\ Append(t, ev)[Len(t) + 1] = ev
  OBVIOUS
<1>2. QED
  BY <1>1

\* Setup fails with one error event, or hands the adapter's stream to the relay.
LEMMA SetupRelays ==
    ASSUME LInv, SetupFails \/ SetupReturns
    PROVE  LInv'
<1>1. /\ relay = "setup" /\ iOpened = {} /\ oLog = <<>> /\ ~oClosed /\ iSeen[Relay] = <<>>
      /\ hand = <<>> /\ iLog = <<>> /\ ~iClosed
  BY DEF LInv, Quiet, SetupFails, SetupReturns
<1>2. CASE SetupFails
  <2> DEFINE ev == [kind |-> "error", msg |-> SetupMessage]
  <2>1. ev \in Event /\ IsTerminalEvent(ev)
    BY MaxEventsAssumption DEF Event, Kinds, Message, NoMessage, SetupMessage, IsTerminalEvent
  <2>2. /\ oLog' = Append(oLog, ev) /\ oClosed' = TRUE /\ relay' = "gone"
        /\ UNCHANGED <<inner, hand>>
    BY <1>1, <1>2, <2>1
       DEF SetupFails, OuterPush, Outer!Accept, Outer!IsTerminalEvent, IsTerminalEvent
  <2>3. oLog' = <<ev>> /\ oLog' \in Seq(Event)
    BY <1>1, <2>1, <2>2
  <2>4. StreamTypes'
    BY <2>2, <2>3 DEF LInv, StreamTypes, inner
  <2>5. /\ relay' # "setup" /\ iOpened' = {} /\ iLog' = iLog /\ iClosed' = iClosed
        /\ iResult' = iResult
    BY <1>1, <2>2 DEF inner
  <2>6. AdapterOnce' /\ Quiet' /\ Relayed' /\ OuterOnce' /\ Failed'
    BY <1>1, <2>2, <2>3, <2>5 DEF LInv, AdapterOnce, Quiet, Relayed, OuterOnce, Failed
  <2>7. QED
    BY <2>4, <2>6 DEF LInv
<1>3. CASE SetupReturns
  <2>1. /\ iOpened' = {Relay} /\ relay' = "range" /\ UNCHANGED <<outer, hand>>
        /\ UNCHANGED <<iLog, iClosed, iResult, iSeen>>
    BY <1>1, <1>3 DEF SetupReturns, Inner!Open
  <2>2. /\ StreamTypes' /\ AdapterOnce' /\ Quiet' /\ Failed'
    BY <1>1, <2>1 DEF LInv, StreamTypes, AdapterOnce, Quiet, Failed, outer
  <2>3. Relayed' /\ OuterOnce'
    <3>1. /\ Len(iSeen[Relay]) = 0 /\ Len(hand) = 0 /\ Len(oLog) = 0 /\ Len(iLog) = 0
          /\ DOMAIN oLog = {} /\ DOMAIN iSeen[Relay] = {} /\ 0 + 0 = 0 /\ 0 <= 0
      BY <1>1
    <3>2. Relayed'
      BY <2>1, <3>1 DEF Relayed, outer
    <3>3. QED
      BY <1>1, <2>1, <3>1, <3>2 DEF LInv, OuterOnce, outer
  <2>4. QED
    BY <2>2, <2>3 DEF LInv
<1>4. QED
  BY <1>2, <1>3

\* The relay is alone on the inner stream, so what it receives is the next event.
LEMMA RelayReceiving ==
    ASSUME LInv, RelayReceives
    PROVE  LInv'
<1>1. relay = "range" /\ relay' = "push" /\ iOpened = {Relay} /\ UNCHANGED outer
  BY RelayTypes DEF LInv, Relayed, RelayReceives, Inner!Receive
<1>2. PICK k \in DOMAIN iLog : Inner!Receive(Relay, iLog[k]) /\ hand' = <<iLog[k]>>
  BY DEF RelayReceives
<1> DEFINE ev == iLog[k]
           old == iSeen[Relay]
           n == Len(old)
<1>3. /\ Append(old, ev) = SubSeq(iLog, 1, n + 1)
      /\ iSeen' = [iSeen EXCEPT ![Relay] = Append(@, ev)]
      /\ UNCHANGED <<iLog, iClosed, iResult, iOpened>>
      /\ \A i \in DOMAIN old : old[i] # ev
  BY <1>1, <1>2 DEF Inner!Receive, Inner!Undisturbed, Inner!InSeq
<1>4. /\ n \in Nat /\ n <= Len(iLog) /\ DOMAIN old = 1..n /\ old \in Seq(Event) /\ ev \in Event
      /\ \A i \in 1..n : old[i] = iLog[i]
      /\ Len(oLog) = n /\ \A i \in DOMAIN oLog : oLog[i] = iLog[i]
      /\ iLog \in Seq(Event) /\ Len(iLog) \in Nat /\ k \in 1..Len(iLog) /\ Len(oLog) \in Nat
  <2>1. /\ Len(hand) = 0 /\ Len(oLog) + Len(hand) = n /\ Len(oLog) \in Nat
        /\ \A i \in DOMAIN oLog : oLog[i] = iLog[i]
        /\ n <= Len(iLog) /\ \A i \in DOMAIN old : old[i] = iLog[i]
    BY <1>1, RelayTypes DEF LInv, Relayed
  <2>2. Len(oLog) = n
    BY <2>1
  <2>3. QED
    BY <2>1, <2>2, RelayTypes
<1>5. n + 1 <= Len(iLog)
  <2>1. k \notin 1..n
    BY <1>3, <1>4
  <2>2. QED
    BY <1>4, <2>1
<1>6. ev = iLog[n + 1]
  <2>1. \A i \in 1..(n + 1) : iLog[i] \in Event
    BY <1>4, <1>5
  <2>2. \A i \in 1..(n + 1 - 1 + 1) : SubSeq(iLog, 1, n + 1)[i] = iLog[1 + i - 1]
    BY <1>4, <2>1, SubSeqProperties
  <2>3. SubSeq(iLog, 1, n + 1)[n + 1] = iLog[n + 1]
    BY <1>4, <2>2
  <2>4. QED
    BY <1>3, <1>4, <2>3, OneMore
<1>7. /\ iSeen' \in [{Relay} -> Seq(Event)] /\ iSeen'[Relay] = Append(old, ev)
      /\ Len(iSeen'[Relay]) = n + 1
      /\ \A i \in DOMAIN iSeen'[Relay] : iSeen'[Relay][i] = iLog[i]
  <2>1. iSeen'[Relay] = Append(old, ev) /\ iSeen' \in [{Relay} -> Seq(Event)]
    BY <1>3, <1>4, OneMore DEF LInv, StreamTypes
  <2>2. QED
    BY <1>4, <1>6, <2>1, OneMore
<1>8. hand' = <<ev>> /\ hand' \in Seq(Event) /\ Len(hand') = 1 /\ hand'[1] = ev
  BY <1>2, <1>4
<1>9. StreamTypes' /\ Quiet' /\ AdapterOnce' /\ Failed'
  BY <1>1, <1>3, <1>7, <1>8 DEF LInv, StreamTypes, Quiet, AdapterOnce, Failed, outer
<1>10. Relayed'
  BY <1>1, <1>3, <1>4, <1>5, <1>6, <1>7, <1>8 DEF Relayed, outer
<1>11. OuterOnce'
  BY <1>1, <1>3 DEF LInv, OuterOnce, outer
<1>12. QED
  BY <1>9, <1>10, <1>11 DEF LInv

\* The outer stream is still open when the relay pushes, so nothing is dropped.
LEMMA RelayPushing ==
    ASSUME LInv, RelayPushes
    PROVE  LInv'
<1>1. /\ relay = "push" /\ relay' = "range" /\ hand' = <<>> /\ UNCHANGED inner
      /\ OuterPush(hand[1])
  BY DEF RelayPushes
<1>2. CASE iOpened = {}
  BY <1>1, <1>2 DEF LInv, Quiet, Failed, Relayed, StreamTypes, inner
<1>3. CASE iOpened # {}
  <2> DEFINE ev == hand[1]
             n == Len(oLog)
  <2>1. /\ n \in Nat /\ n + 1 = Len(iSeen[Relay]) /\ n + 1 <= Len(iLog)
        /\ ev = iLog[n + 1] /\ ev \in Event
        /\ \A i \in DOMAIN oLog : oLog[i] = iLog[i]
    <3>1. /\ Len(hand) = 1 /\ Len(oLog) + Len(hand) = Len(iSeen[Relay])
          /\ Len(iSeen[Relay]) <= Len(iLog) /\ ev = iLog[Len(iSeen[Relay])]
          /\ \A i \in DOMAIN oLog : oLog[i] = iLog[i]
      BY <1>1, <1>3 DEF LInv, Relayed
    <3>2. hand[1] \in Event
      BY <3>1, RelayTypes
    <3>3. QED
      BY <3>1, <3>2, RelayTypes
  <2>2. ~oClosed
    <3>1. oClosed => Len(oLog) = Len(iLog)
      BY <1>3 DEF LInv, OuterOnce
    <3>2. \A a, b \in Nat : a + 1 <= b => a # b
      OBVIOUS
    <3>3. n # Len(iLog)
      BY <2>1, <3>2, RelayTypes
    <3>4. QED
      BY <3>1, <3>3
  <2>3. /\ oLog' = Append(oLog, ev) /\ oClosed' = IsTerminalEvent(ev)
        /\ oResult' = EventResult(ev)
    BY <1>1, <2>2 DEF OuterPush, Outer!Accept, Outer!IsTerminalEvent, IsTerminalEvent,
       Outer!EventResult, EventResult, Outer!NoMessage, NoMessage
  <2>4. /\ oLog' \in Seq(Event) /\ Len(oLog') = n + 1 /\ oLog'[n + 1] = ev
        /\ \A i \in DOMAIN oLog' : i \in DOMAIN oLog \/ i = n + 1
        /\ \A i \in DOMAIN oLog : oLog'[i] = oLog[i]
        /\ n + 1 \in DOMAIN iLog
    BY <2>1, <2>3, OneMore, RelayTypes
  <2>5. StreamTypes' /\ Quiet' /\ AdapterOnce' /\ Failed'
    <3>1. oClosed' \in BOOLEAN
      BY <2>3 DEF IsTerminalEvent
    <3>2. QED
      BY <1>1, <1>3, <2>4, <3>1 DEF LInv, StreamTypes, Quiet, AdapterOnce, Failed, inner
  <2>6. Relayed'
    <3>1. \A i \in DOMAIN oLog' : oLog'[i] = iLog[i]
      BY <2>1, <2>4
    <3>2. Len(hand') = 0 /\ Len(oLog') + Len(hand') = Len(iSeen[Relay])
      BY <1>1, <2>1, <2>4
    <3>3. QED
      BY <1>1, <1>3, <3>1, <3>2 DEF LInv, Relayed, inner
  <2>7. OuterOnce'
    <3>1. CASE IsTerminalEvent(ev)
      <4>1. n + 1 = Len(iLog) /\ iClosed /\ iLog # <<>>
        BY <2>1, <2>4, <3>1 DEF LInv, AdapterOnce
      <4>2. oClosed' /\ oResult' = ResultOf(iLog)
        BY <2>1, <2>3, <3>1, <4>1 DEF ResultOf
      <4>3. QED
        BY <1>1, <2>4, <4>1, <4>2 DEF OuterOnce, inner
    <3>2. CASE ~IsTerminalEvent(ev)
      <4>1. ~oClosed' /\ oResult' = NoMessage
        BY <2>3, <3>2 DEF EventResult
      <4>2. \A i \in DOMAIN oLog' : ~IsTerminalEvent(oLog'[i])
        BY <2>2, <2>4, <3>2 DEF LInv, OuterOnce
      <4>3. QED
        BY <4>1, <4>2 DEF OuterOnce
    <3>3. QED
      BY <3>1, <3>2
  <2>8. QED
    BY <2>5, <2>6, <2>7 DEF LInv
<1>4. QED
  BY <1>2, <1>3

\* The relay has pushed everything when the inner channel closes.
LEMMA RelayEnding ==
    ASSUME LInv, RelayRangeEnds \/ RelayEnds
    PROVE  LInv'
<1>1. CASE RelayRangeEnds
  <2>1. /\ relay = "range" /\ relay' = "end" /\ iOpened = {Relay} /\ iClosed
        /\ UNCHANGED <<iLog, iClosed, iResult, iOpened, iSeen>> /\ UNCHANGED <<outer, hand>>
        /\ iSeen[Relay] = iLog
    BY <1>1, RelayTypes DEF LInv, Relayed, RelayRangeEnds, Inner!Finish, Inner!Undisturbed
  <2>2. Len(oLog) = Len(iLog)
    <3>1. Len(hand) = 0 /\ Len(oLog) + Len(hand) = Len(iLog) /\ Len(oLog) \in Nat
      BY <2>1, RelayTypes DEF LInv, Relayed
    <3>2. QED
      BY <3>1
  <2>3. StreamTypes' /\ Quiet' /\ AdapterOnce' /\ Failed' /\ OuterOnce'
    BY <2>1 DEF LInv, StreamTypes, Quiet, AdapterOnce, Failed, OuterOnce, outer
  <2>4. Relayed'
    BY <2>1, <2>2 DEF LInv, Relayed, outer
  <2>5. QED
    BY <2>3, <2>4 DEF LInv
<1>2. CASE RelayEnds
  <2>1. relay = "end" /\ relay' = "gone" /\ UNCHANGED <<inner, hand>> /\ OuterEnd
    BY <1>2 DEF RelayEnds
  <2>2. oLog' = oLog
    BY <2>1 DEF OuterEnd, Outer!End, outer
  <2>3. CASE iOpened = {}
    <3>1. FALSE
      BY <2>1, <2>3 DEF LInv, Failed, Quiet
    <3>2. QED
      BY <3>1
  <2>4. CASE iOpened # {}
    <3>1. iClosed /\ Len(oLog) = Len(iLog) /\ \A i \in DOMAIN oLog : oLog[i] = iLog[i]
      BY <2>1, <2>4 DEF LInv, Relayed
    <3>2. StreamTypes' /\ Quiet' /\ AdapterOnce' /\ Failed' /\ Relayed'
      <4>1. oClosed' \in BOOLEAN
        BY <2>1, RelayTypes DEF OuterEnd, Outer!End, outer
      <4>2. QED
        BY <2>1, <2>2, <2>4, <4>1 DEF LInv, StreamTypes, Quiet, AdapterOnce, Failed, Relayed, inner
    <3>3. CASE oClosed
      <4>1. UNCHANGED outer
        BY <2>1, <3>3 DEF OuterEnd
      <4>2. QED
        BY <2>1, <3>2, <4>1 DEF LInv, OuterOnce, outer, inner
    <3>4. CASE ~oClosed
      <4>1. oClosed' = TRUE /\ oResult' = NoMessage
        BY <2>1, <3>4 DEF OuterEnd, Outer!End, Outer!NoMessage, NoMessage
      <4>2. DOMAIN oLog = DOMAIN iLog
        BY <3>1, RelayTypes
      <4>3. \A i \in DOMAIN iLog : ~IsTerminalEvent(iLog[i])
        BY <3>1, <3>4, <4>2 DEF LInv, OuterOnce
      <4>4. ResultOf(iLog) = NoMessage
        <5>1. iLog # <<>> => Len(iLog) \in DOMAIN iLog
          BY RelayTypes
        <5>2. QED
          BY <4>3, <5>1 DEF ResultOf, EventResult
      <4>5. OuterOnce'
        BY <2>1, <2>2, <3>1, <4>1, <4>4 DEF OuterOnce, inner
      <4>6. QED
        BY <3>2, <4>5 DEF LInv
    <3>5. QED
      BY <3>3, <3>4
  <2>5. QED
    BY <2>3, <2>4
<1>3. QED
  BY <1>1, <1>2

\* The adapter only adds to its own stream.
LEMMA AdapterRunning ==
    ASSUME LInv, (\E kind \in Kinds : AdapterPushes(kind)) \/ AdapterEnds
    PROVE  LInv'
<1>1. iOpened # {} /\ ~iClosed /\ UNCHANGED <<outer, relay, hand>>
      /\ UNCHANGED <<iOpened, iSeen>>
  BY DEF LInv, AdapterOnce, AdapterPushes, AdapterEnds, Inner!Accept, Inner!End
<1>2. /\ \A i \in DOMAIN iLog : ~IsTerminalEvent(iLog[i])
      /\ ~oClosed /\ relay # "end"
  BY <1>1 DEF LInv, AdapterOnce, OuterOnce, Relayed
<1>3. CASE AdapterEnds
  <2>1. iClosed' = TRUE /\ iLog' = iLog
    BY <1>3 DEF AdapterEnds, Inner!End
  <2>2. QED
    BY <1>1, <1>2, <2>1
       DEF LInv, StreamTypes, Quiet, AdapterOnce, Failed, Relayed, OuterOnce, outer
<1>4. ASSUME NEW kind \in Kinds, AdapterPushes(kind) PROVE LInv'
  <2> DEFINE ev == [kind |-> kind, msg |-> Len(iLog) + 1]
  <2>1. ev \in Event
    BY RelayTypes DEF Event, Message, NoMessage
  <2>2. iLog' = Append(iLog, ev) /\ iClosed' = IsTerminalEvent(ev)
    BY <1>4 DEF AdapterPushes, Inner!Accept, Inner!IsTerminalEvent, IsTerminalEvent
  <2>3. /\ iLog' \in Seq(Event) /\ Len(iLog') = Len(iLog) + 1 /\ iLog'[Len(iLog) + 1] = ev
        /\ \A i \in DOMAIN iLog' : i \in DOMAIN iLog \/ i = Len(iLog) + 1
        /\ \A i \in DOMAIN iLog : iLog'[i] = iLog[i]
    BY <2>1, <2>2, OneMore, RelayTypes
  <2>4. iClosed' \in BOOLEAN
    BY <2>2 DEF IsTerminalEvent
  <2>5. StreamTypes' /\ Quiet' /\ Failed' /\ OuterOnce'
    BY <1>1, <1>2, <2>3, <2>4 DEF LInv, StreamTypes, Quiet, Failed, OuterOnce, outer
  <2>6. AdapterOnce'
    <3>1. CASE IsTerminalEvent(ev)
      <4>1. iClosed'
        BY <2>2, <3>1
      <4>2. QED
        BY <1>2, <2>3, <4>1, <3>1 DEF AdapterOnce
    <3>2. CASE ~IsTerminalEvent(ev)
      <4>1. ~iClosed'
        BY <2>2, <3>2
      <4>2. QED
        BY <1>2, <2>3, <4>1, <3>2 DEF AdapterOnce
    <3>3. QED
      BY <3>1, <3>2
  <2>7. Relayed'
    <3>1. /\ Len(iSeen[Relay]) <= Len(iLog) /\ Len(oLog) <= Len(iSeen[Relay])
          /\ Len(iSeen[Relay]) \in Nat /\ Len(iLog) \in Nat /\ Len(oLog) \in Nat
      <4>1. /\ Len(iSeen[Relay]) <= Len(iLog) /\ Len(oLog) + Len(hand) = Len(iSeen[Relay])
            /\ Len(hand) \in Nat
        BY <1>1, RelayTypes DEF LInv, Relayed
      <4>2. QED
        BY <4>1, RelayTypes
    <3>2. \A i \in DOMAIN iSeen[Relay] : i \in DOMAIN iLog
      BY <3>1, RelayTypes
    <3>3. \A i \in DOMAIN oLog : i \in DOMAIN iLog
      BY <3>1, RelayTypes
    <3>4. relay = "push" => Len(iSeen[Relay]) \in DOMAIN iLog
      <4>1. relay = "push" => Len(oLog) + 1 = Len(iSeen[Relay])
        BY <1>1 DEF LInv, Relayed
      <4>2. QED
        BY <3>1, <4>1, RelayTypes
    <3>5. Len(iSeen[Relay]) <= Len(iLog')
      BY <2>3, <3>1
    <3>6. QED
      BY <1>1, <1>2, <2>3, <3>2, <3>3, <3>4, <3>5 DEF LInv, Relayed, outer
  <2>8. QED
    BY <2>5, <2>6, <2>7 DEF LInv
<1>5. QED
  BY <1>3, <1>4

\* No step of the collection disturbs the relay.
LEMMA LazyInductive == LInv /\ [ModelsNext]_allVars => LInv'
<1> SUFFICES ASSUME LInv, [ModelsNext]_allVars PROVE LInv'
  OBVIOUS
<1>1. CASE UNCHANGED <<inner, outer, relay, hand>>
  BY <1>1 DEF LInv, StreamTypes, Quiet, AdapterOnce, Failed, Relayed, OuterOnce, inner, outer
<1>2. CASE UNCHANGED vars
  BY <1>1, <1>2 DEF vars
<1>3. CASE Setup
  BY <1>2, <1>3, SetupRelays DEF Setup, RequireProvider, RequireAgain, ApplyAuth, Dispatch
<1>4. CASE Relays
  BY <1>1, <1>4, RelayReceiving, RelayPushing, RelayEnding DEF Relays, CancelRequest
<1>5. CASE AdapterRuns
  <2>1. (\E kind \in Kinds : AdapterPushes(kind)) \/ AdapterEnds
    BY <1>5 DEF AdapterRuns, AdapterTerminates, Kinds
  <2>2. QED
    BY <2>1, AdapterRunning
<1>6. CASE GenerateImages \/ ImageResult
  BY <1>2, <1>6 DEF GenerateImages, ImageResult, ImageMove
<1>7. CASE Owner \/ ClearProviders \/ Refresh \/ RefreshOne \/ RefreshReturns
  BY <1>2, <1>7 DEF Owner, SetProvider, DeleteProvider, ClearProviders, Refresh, RefreshOne,
     RefreshReturns
<1>8. CASE UNCHANGED allVars
  BY <1>2, <1>8 DEF allVars
<1>9. QED
  BY <1>3, <1>4, <1>5, <1>6, <1>7, <1>8 DEF ModelsNext

\* The caller of LazyStream sees the adapter's stream event by event, or one setup
\* error; and once setup has dispatched, the outer stream terminates only after the
\* inner one, with all its events and the result of its terminal event, for an adapter
\* with any number of events that may also complete out-of-band.
THEOREM OuterFollows == ModelsSpec => []OuterFollowsInner
<1>1. ModelsInit => LInv
  <2>1. SUFFICES ASSUME ModelsInit PROVE LInv
    OBVIOUS
  <2>2. /\ iLog = <<>> /\ oLog = <<>> /\ hand = <<>> /\ iOpened = {} /\ iSeen[Relay] = <<>>
        /\ ~iClosed /\ ~oClosed /\ relay = "setup" /\ iResult = NoMessage /\ oResult = NoMessage
    BY <2>1 DEF ModelsInit, Init
  <2>3. StreamTypes
    <3>1. <<>> \in Seq(Event)
      OBVIOUS
    <3>2. iSeen \in [{Relay} -> Seq(Event)] /\ iClosed \in BOOLEAN /\ oClosed \in BOOLEAN
      BY <2>1, <3>1 DEF ModelsInit, Init
    <3>3. QED
      BY <2>2, <3>1, <3>2 DEF StreamTypes
  <2>4. QED
    BY <2>2, <2>3 DEF LInv, Quiet, AdapterOnce, Relayed, OuterOnce, Failed
<1>2. LInv => OuterFollowsInner
  <2>1. SUFFICES ASSUME LInv PROVE OuterFollowsInner
    OBVIOUS
  <2>2. CASE Len(oLog) <= Len(iLog) /\ \A i \in DOMAIN oLog : oLog[i] = iLog[i]
    <3> DEFINE n == Len(oLog)
    <3>1. n \in Nat /\ Len(iLog) \in Nat /\ \A i \in 1..n : iLog[i] \in Event
      BY <2>1, <2>2, RelayTypes
    <3>2. /\ SubSeq(iLog, 1, n) \in Seq(Event)
          /\ Len(SubSeq(iLog, 1, n)) = IF 1 <= n THEN n - 1 + 1 ELSE 0
          /\ \A i \in 1..(n - 1 + 1) : SubSeq(iLog, 1, n)[i] = iLog[1 + i - 1]
      BY <3>1, SubSeqProperties
    <3>3. Len(SubSeq(iLog, 1, n)) = n /\ \A i \in 1..n : SubSeq(iLog, 1, n)[i] = iLog[i]
      BY <3>1, <3>2
    <3>4. oLog = SubSeq(iLog, 1, n)
      BY <2>1, <2>2, <3>2, <3>3, RelayTypes, SeqEqual
    <3>5. iOpened # {} /\ oClosed => iClosed /\ oLog = iLog /\ oResult = ResultOf(iLog)
      <4>1. iOpened # {} /\ oClosed => iClosed /\ n = Len(iLog) /\ oResult = ResultOf(iLog)
        BY <2>1 DEF LInv, OuterOnce
      <4>2. n = Len(iLog) => oLog = iLog
        BY <2>1, <2>2, <3>1, RelayTypes, SeqEqual
      <4>3. QED
        BY <4>1, <4>2
    <3>6. QED
      BY <2>2, <3>4, <3>5 DEF OuterFollowsInner
  <2>3. CASE iOpened # {}
    <3>1. Len(oLog) <= Len(iLog)
      <4>1. /\ Len(iSeen[Relay]) <= Len(iLog) /\ Len(oLog) + Len(hand) = Len(iSeen[Relay])
            /\ Len(hand) \in Nat
        BY <2>1, <2>3, RelayTypes DEF LInv, Relayed
      <4>2. QED
        BY <2>1, <4>1, RelayTypes
    <3>2. QED
      BY <2>1, <2>2, <2>3, <3>1 DEF LInv, Relayed
  <2>4. CASE iOpened = {} /\ relay = "setup"
    <3>1. oLog = <<>> /\ Len(oLog) = 0 /\ DOMAIN oLog = {}
      BY <2>1, <2>4 DEF LInv, Quiet
    <3>2. QED
      BY <2>1, <2>2, <3>1, RelayTypes
  <2>5. CASE iOpened = {} /\ relay # "setup"
    BY <2>1, <2>5 DEF LInv, Failed, OuterFollowsInner
  <2>6. QED
    BY <2>3, <2>4, <2>5
<1>3. QED
  BY <1>1, <1>2, LazyInductive, PTL DEF ModelsSpec

-----------------------------------------------------------------------------
(* The model list of one provider                                          *)

\* The fetch in flight is the newest one, and its leader leads it; everyone else
\* in a call has a fetch too.
Flight ==
    /\ inflight # None => inflight = fetches
    /\ \A c \in Callers :
          /\ Leading(c) => fetch[c] = inflight
          /\ call[c] # "idle" => fetch[c] # None

\* Nothing comes from a fetch that did not start.
Started == models <= fetches /\ lastErr.fetch <= fetches

\* A leader past its fetch carries that fetch's outcome, and stored its list
\* before it says so.
Carried ==
    \A c \in Callers :
        /\ call[c] \in {"store", "publish", "close"} => outcome[c].fetch = fetch[c]
        /\ call[c] = "store" => ~outcome[c].failed
        /\ call[c] \in {"publish", "close"} /\ ~outcome[c].failed => models >= fetch[c]

\* p.lastErr is as new as every fetch somebody was or is about to be woken for, and
\* says success only of a list that is there.
Reported ==
    /\ \A f \in closed : f <= lastErr.fetch
    /\ \A c \in Callers : call[c] \in {"close", "read"} => fetch[c] <= lastErr.fetch
    /\ ~lastErr.failed => models >= lastErr.fetch

FInv == RefreshTypeOK /\ Flight /\ Started /\ Carried /\ Reported /\ SuccessIsFresh

LEMMA InitFInv == RefreshInit => FInv
  BY FetchesAssumption
     DEF RefreshInit, FInv, RefreshTypeOK, Flight, Started, Carried, Reported, SuccessIsFresh, Leading, Outcome,
         NoError, None, Initial

LEMMA NextFInv == FInv /\ [RefreshNext]_refreshVars => FInv' /\ models' >= models
<1> SUFFICES ASSUME FInv, [RefreshNext]_refreshVars PROVE FInv' /\ models' >= models
  OBVIOUS
<1> USE FetchesAssumption DEF None, Leading
<1>1. ASSUME NEW c \in Callers, RefreshModels(c) PROVE FInv' /\ models' >= models
  <2>1. CASE inflight # None
    BY <1>1, <2>1 DEF RefreshModels, Advance, FInv, RefreshTypeOK, Flight, Started, Carried, Reported, SuccessIsFresh
  <2>2. CASE inflight = None
    <3>1. \A d \in Callers : ~Leading(d)
      BY <2>2 DEF FInv, RefreshTypeOK
    <3>2. /\ call[c] = "idle" /\ call' = [call EXCEPT ![c] = "fetch"]
          /\ fetch' = [fetch EXCEPT ![c] = fetches'] /\ inflight' = fetches'
          /\ fetches' = fetches + 1 /\ fetches < MaxFetches
          /\ UNCHANGED <<models, lastErr, closed, outcome>>
      BY <1>1, <2>2 DEF RefreshModels, Advance
    <3>3. RefreshTypeOK'
      BY <3>1, <3>2 DEF FInv, RefreshTypeOK
    <3>4. (Flight /\ Started)'
      BY <3>1, <3>2 DEF FInv, RefreshTypeOK, Flight, Started, Outcome
    <3>5. (Carried /\ Reported /\ SuccessIsFresh)'
      BY <3>2 DEF FInv, RefreshTypeOK, Carried, Reported, SuccessIsFresh
    <3>6. models' >= models
      BY <3>2 DEF FInv, RefreshTypeOK
    <3>7. QED
      BY <3>3, <3>4, <3>5, <3>6 DEF FInv
  <2>3. QED
    BY <2>1, <2>2
<1>2. ASSUME NEW c \in Callers, Fetched(c) PROVE FInv' /\ models' >= models
  <2>1. PICK failed \in BOOLEAN :
           /\ outcome' = [outcome EXCEPT ![c] = [fetch |-> fetch[c], failed |-> failed]]
           /\ call' = [call EXCEPT ![c] = IF failed THEN "publish" ELSE "store"]
    BY <1>2 DEF Fetched, Advance
  <2>2. call[c] = "fetch" /\ UNCHANGED <<models, inflight, lastErr, closed, fetch, fetches>>
    BY <1>2 DEF Fetched
  <2>3. RefreshTypeOK'
    BY <2>1, <2>2 DEF FInv, RefreshTypeOK, Outcome
  <2>4. (Flight /\ Started)'
    BY <2>1, <2>2 DEF FInv, RefreshTypeOK, Flight, Started
  <2>5. (Carried /\ Reported /\ SuccessIsFresh)'
    BY <2>1, <2>2 DEF FInv, RefreshTypeOK, Carried, Reported, SuccessIsFresh
  <2>6. QED
    BY <2>2, <2>3, <2>4, <2>5 DEF FInv, RefreshTypeOK
<1>3. ASSUME NEW c \in Callers, StoreModels(c) PROVE FInv' /\ models' >= models
  <2>1. /\ call[c] = "store" /\ models' = fetch[c] /\ call' = [call EXCEPT ![c] = "publish"]
        /\ UNCHANGED <<inflight, lastErr, closed, fetch, outcome, fetches>>
    BY <1>3 DEF StoreModels, Advance
  <2>2. fetch[c] = fetches /\ fetches >= models
    BY <2>1 DEF FInv, RefreshTypeOK, Flight, Started
  <2>3. RefreshTypeOK'
    BY <2>1 DEF FInv, RefreshTypeOK
  <2>4. (Flight /\ Started)'
    BY <2>1, <2>2 DEF FInv, RefreshTypeOK, Flight, Started
  <2>5. (Carried /\ Reported /\ SuccessIsFresh)'
    BY <2>1, <2>2 DEF FInv, RefreshTypeOK, Outcome, Carried, Reported, SuccessIsFresh
  <2>6. QED
    BY <2>1, <2>2, <2>3, <2>4, <2>5 DEF FInv
<1>4. ASSUME NEW c \in Callers, Publish(c) PROVE FInv' /\ models' >= models
  <2>1. /\ call[c] = "publish" /\ lastErr' = outcome[c] /\ inflight' = None
        /\ call' = [call EXCEPT ![c] = "close"] /\ UNCHANGED <<models, closed, fetch, outcome, fetches>>
    BY <1>4 DEF Publish, Advance
  <2>2. outcome[c].fetch = fetch[c] /\ fetch[c] = fetches
    BY <2>1 DEF FInv, RefreshTypeOK, Flight, Carried
  <2>3. RefreshTypeOK'
    BY <2>1 DEF FInv, RefreshTypeOK
  <2>4. (Flight /\ Started)'
    BY <2>1, <2>2, <2>3 DEF FInv, RefreshTypeOK, Flight, Started
  <2>5. (Carried /\ SuccessIsFresh)'
    BY <2>1 DEF FInv, RefreshTypeOK, Carried, SuccessIsFresh
  <2>6. Reported'
    BY <2>1, <2>2 DEF FInv, RefreshTypeOK, Outcome, Started, Carried, Reported
  <2>7. QED
    BY <2>1, <2>3, <2>4, <2>5, <2>6 DEF FInv, RefreshTypeOK
<1>5. ASSUME NEW c \in Callers, CloseDone(c) PROVE FInv' /\ models' >= models
  <2>1. /\ call[c] = "close" /\ call' = [call EXCEPT ![c] = "idle"] /\ closed' = closed \cup {fetch[c]}
        /\ UNCHANGED <<models, inflight, lastErr, fetch, outcome, fetches>>
    BY <1>5 DEF CloseDone, Advance
  <2>2. fetch[c] \in 1..MaxFetches /\ fetch[c] <= lastErr.fetch
    BY <2>1 DEF FInv, RefreshTypeOK, Flight, Reported
  <2>3. RefreshTypeOK'
    BY <2>1, <2>2 DEF FInv, RefreshTypeOK
  <2>4. (Flight /\ Started /\ Carried)'
    BY <2>1 DEF FInv, RefreshTypeOK, Flight, Started, Carried
  <2>5. Reported'
    BY <2>1, <2>2 DEF FInv, RefreshTypeOK, Reported
  <2>6. SuccessIsFresh'
    BY <2>1 DEF FInv, RefreshTypeOK, Carried, SuccessIsFresh
  <2>7. QED
    BY <2>1, <2>3, <2>4, <2>5, <2>6 DEF FInv, RefreshTypeOK
<1>6. ASSUME NEW c \in Callers, Wake(c) PROVE FInv' /\ models' >= models
  BY <1>6 DEF Wake, Advance, FInv, RefreshTypeOK, Flight, Started, Carried, Reported, SuccessIsFresh
<1>7. ASSUME NEW c \in Callers, ReadLastErr(c) PROVE FInv' /\ models' >= models
  BY <1>7 DEF ReadLastErr, Advance, FInv, RefreshTypeOK, Outcome, Flight, Started, Carried, Reported, SuccessIsFresh
<1>8. CASE UNCHANGED refreshVars
  BY <1>8 DEF refreshVars, FInv, RefreshTypeOK, Flight, Started, Carried, Reported, SuccessIsFresh
<1>9. QED
  BY <1>1, <1>2, <1>3, <1>4, <1>5, <1>6, <1>7, <1>8 DEF RefreshNext, RefreshStep

THEOREM FlightHolds == RefreshSpec => []FInv
<1>1. FInv /\ [RefreshNext]_refreshVars => FInv'
  BY NextFInv
<1>2. QED
  BY <1>1, InitFInv, PTL DEF RefreshSpec

\* RefreshModels keeps its state well typed, and at most one caller leads a fetch.
THEOREM OneFetchInFlight == RefreshSpec => []RefreshTypeOK
<1>1. FInv => RefreshTypeOK
  BY DEF FInv
<1>2. QED
  BY <1>1, FlightHolds, PTL

\* A call that reports success left a list at least as new as its fetch, even when it
\* read the outcome of a later fetch.
THEOREM SuccessMeansFresh == RefreshSpec => []SuccessIsFresh
<1>1. FInv => SuccessIsFresh
  BY DEF FInv
<1>2. QED
  BY <1>1, FlightHolds, PTL

\* No step puts the list of an older fetch in place of a newer one.
THEOREM ListNeverGoesBack == RefreshSpec => ListMovesForward
<1>1. FInv /\ [RefreshNext]_refreshVars => [models' >= models]_refreshVars
  BY NextFInv
<1>2. QED
  BY <1>1, FlightHolds, PTL DEF RefreshSpec, ListMovesForward
=============================================================================
