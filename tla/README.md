# Formal models of kern-proxy

kern-proxy is a Go library (package `ai`) and a small command (`pi-ai`) that talk to
language-model providers behind one streaming interface. This directory holds TLA+ models of
its concurrent and stateful parts, the TLC configurations that check them on small instances,
and TLAPS proofs for every value of the constants. `PROJECT.json` lists components, runs,
mutants of the code that each property catches, hazards, and the lines every definition stands for.

Check a run with `tlc -config <cfg> <module>`, the proofs with `tlapm <module>.tla`.

## 1. The system

A request goes from the top of this list to the bottom.

| Part (src/) | State | Operations | Interacts with | What is hard | What makes it correct |
|---|---|---|---|---|---|
| Models registry, `ai/provider.go` | the providers, under a RWMutex | SetProvider, DeleteProvider, GetModels, Refresh, Stream, StreamSimple | resolution, lazy stream, adapters | refresh of all providers, one of which fails or hangs; a provider replaced meanwhile | a failing provider spoils no other; every stream ends in an error or a result |
| Model list refresh, `ai/provider.go` | model list, the fetch in flight, last error | RefreshModels | registry | single flight: leaders, joiners, a fetch that starts before the joiners of the last one wake | one fetch at a time, the list never goes back, joiners get their fetch's outcome |
| Auth resolution, `ai/resolve.go` | none of its own | ResolveProviderAuth | credential stores, OAuth flows | refresh tokens that rotate; expiry read without the lock; logout meanwhile; lost responses | no token presented twice, rotated tokens stored before anybody looks, nothing resurrected |
| Credential store, `ai/auth.go`, `ai/auth/filestore.go`, `ai/credentialstore.go` | auth.json and its lock file; or two maps and a mutex per provider | Read, Modify, Delete | resolution, `pi-ai` | several processes, crashes in a save, full disks, a callback run under the lock | linearizable, updates never lost, other providers untouched, no lock left behind |
| Lazy stream, `ai/lazy.go` | an outer and an inner stream | LazyStream | registry, adapters | setup may fail late; cancellation races the adapter's own aborted event | the caller sees the adapter's stream, or one error, and always an end |
| Event stream, `ai/stream.go`, `ai/events.go` | queue, done, result, condition variable | Push, End, Events, Result | adapters produce, callers consume | lost wakeups, goroutine leaks, late or double termination, consumers that leave | ordered, complete, terminated once, nobody left asleep |
| HTTP retry loop, `ai/apis/internal/httpretry`, `ai/retry.go` | attempt number, the timer of the header timeout | Do, Sleep | adapters | timeout against late response, Retry-After, cancellation while sleeping | at most maxRetries + 1 attempts, only transient failures retried, no body leaked |
| Codex transport, `ai/apis/codex` | per-session fallback memory and statistics | Stream, the WebSocket pump | HTTP retry, SSE reader, Responses decoder | fallback only before the first event; pump goroutine behind a pipe | nothing sent twice after output began, fallback sticky, pump ends |
| Adapters and decoders, `ai/apis/{openairesponses,openaicompletions,anthropic,google,mistral,bedrock,azure}` | the message under construction, open content blocks | Stream, one handler per wire event | SSE reader, event stream | wire events out of order, missing or repeated ends | blocks open and close in order; one terminal event |
| SSE reader, `ai/internal/sse` | the line buffer | Next | adapters | CR, LF and CRLF across reads | the events of the text |
| Message transformation, `ai/apis/transform.go` | none | TransformMessages | adapters | histories of other providers, orphaned tool calls | every tool call is answered once |
| OAuth flows, `ai/auth/oauth` | callback server, device-code deadline and interval | login flows, PollDeviceCodeFlow, refresh | `pi-ai`, resolution | callback against pasted code; slow_down; deadline; cancellation | one code used, no poll after the deadline, server closed |
| Session resources, `ai/sessionresources.go` | registered cleanups | Register, Cleanup | callers of the library | cleanups that register or unregister | each live cleanup runs once per Cleanup |
| Faux provider, `ai/providers/faux` | scripted responses | Stream | event stream | the same protocol as an adapter | as adapters |
| Pure data: estimation, overflow, cost, partial JSON, JSON Schema, catalog, images, types | none | | | numeric edges, recursion over documents | compared with reference definitions, or left out |

They interact through calls, except for three things: the event stream (a producer goroutine
and any number of consumer goroutines share a mutex and a condition variable), auth.json
(processes share a file), and `refreshMu`, per-provider mutexes and `resultCh`, on which
goroutines of one process wait.

## 2. The modules

| Module | Models | Role |
|---|---|---|
| `StreamEvents` | `ai/events.go` | events as the stream machinery tells them apart |
| `StreamContract` | `ai/stream.go` | abstract: what a stream promises |
| `EventStream` | `ai/stream.go` | detailed: mutex, condition variable, pump, watcher, Result; implements `StreamContract` |
| `LazyStream` | `ai/lazy.go` | relay between two instances of `StreamContract` |
| `Models` | `ai/provider.go`, `ai/images/provider.go` | the registry and a chat and an image request through it, over `LazyStream` |
| `ModelRefresh` | `providerImpl.RefreshModels` | the single flight of one provider |
| `CredentialStore` | `ai/auth.go` | abstract: what a credential store promises |
| `FileStore`, `MemoryStore` | `ai/auth/filestore.go`, `ai/credentialstore.go` | detailed; each implements `CredentialStore` |
| `Stores` | | both stores under the same clients |
| `AuthResolution` | `ai/resolve.go`, `runLogin` | requests and a user over `CredentialStore` |
| `LoginFlow`, `BrowserLogin`, `DeviceCode`, `Login` | `ai/auth/oauth`, `cmd/pi-ai/oauth.go` | prompts on stdin; callback server and pasted code; device codes; `pi-ai login` over all of them |
| `HttpRetry` | `ai/apis/internal/httpretry`, `ai/retry.go` | one call of `Do`: attempts, header timer, bodies, cancellation |
| `CodexTransport` | `ai/apis/codex` | requests of a session over WebSockets and HTTP |
| `AdapterStream` | the `run` functions of `ai/apis/*` | the skeleton all adapters share |
| `AnthropicStream`, `ResponsesStream`, `CompletionsStream`, `GoogleStream`, `MistralStream`, `BedrockStream`, `FauxStream` | one adapter each (Azure runs `ResponsesStream`, Vertex `GoogleStream`); `ai/providers/faux` | decoders over `AdapterStream` |
| `Adapters` | | one request to any adapter, against the protocol of `ai/events.go` |
| `TransformMessages` | `ai/apis/transform.go` | the history as another model may see it |
| `WireMessages` | `convertMessages` of every adapter | the turns of a request |
| `RequestOptions` | `ai/apis/simpleopts.go`, `ai/estimate.go`, `StreamSimple` of every adapter | token limits and thinking budgets |
| `Conversation` | the caller of the library | histories, over the three modules before |
| `EventStreamProofs`, `StoresProofs`, `AuthResolutionProofs`, `LoginProofs`, `CodexTransportProofs`, `AdaptersProofs` | | the theorems about the modules of these names |
| `ModelsProofs` | | the theorems about `Models`, `LazyStream` and `ModelRefresh` |
| `RequestProofs` | | the theorems about `HttpRetry` and `Conversation`: what a request carries, and how often it is sent |
| `MCAdapters`, `MCConversation` | | records that a cfg cannot write: canned messages and models |
| `MCRequest`, `MCProvider` | | `Conversation`, `HttpRetry` or `Adapters`; `AuthResolution`, `Login` or `ModelRefresh`: three parts for one run |

A definition named like `PopNewest` or `EndTwice` with a comment that starts "Mutated" is a
plausible bug: no action of `Next` uses it, `PROJECT.json` says which property it breaks.

### EventStream

`queue`, `done`, `result` and `resultCh` are the fields of `Stream`. A `p \in Pumps` is one call
of `Events`: `pump[p]` is the goroutine that runs `next` and sends, `watcher[p]` is
`wakeOnCancel`, `consumer[p]` the caller's range loop. `w \in Callers` is one call of `Result`.
`mu` is explicit because the code depends on what may happen between the `ctx.Err()` check in
`next` and its `cond.Wait()`: the pump keeps `s.mu` from `NextLock` to `NextPop`, `NextDrained` or
`NextWait`. Push, End and the watcher's Broadcast are critical sections nobody can look into, so
each is one step that requires `mu = Free`. Sending on the unbuffered channel is a rendezvous
(`Send`), the other case of the select is `Abandon`; the deferred `close(stop)` and `close(ch)`
are two steps. `log` and `seen` are history. Messages are numbered by the producer call that
made them, so that two events are never equal.

### LazyStream and Models

The adapter's stream and the caller's are both `StreamContract`; the relay is the goroutine of
`LazyStream` step by step: setup returns an error (`SetupFails`) or the inner stream, the range
loop receives from the inner stream under `context.Background()` and pushes to the outer, and
after the loop `End(nil)` ends an outer stream that saw no terminal event. An adapter ends its stream
with a terminal event, or out-of-band with `End`, with or without a result (`AdapterEnds`).

`Models` supplies the setup. `providers` and `order` are the fields of `modelsImpl`; each
operation under `m.mu` is one step. A version is one registration under an id: replacing a provider
makes a new one. A chat request looks its provider up in `Stream` (`RequireProvider`) and again in
`applyAuth` (`RequireAgain`), with the lock free in between, so that a request may be dispatched to
one version with the auth of its successor; `ServedByRegistered` allows exactly that. A model
without an implementation (`Plain`) gets the stream of a second `LazyStream`. `Refresh` works on
the snapshot of `GetProviders`; what it calls for each provider is `ModelRefresh`.

### Credential stores

`CredentialStore` has a credential and at most one owner per provider: `Acquire`, then `Commit`
or `Release`. `FileStore` adds the file (missing, empty, torn or JSON with entries), the
lock file, and the steps of a save: `os.WriteFile` truncates, then writes, then the mode is
clamped. Crashes may strike at any step and release the lock; `Faults` says whether they strike
inside a save and whether the disk may fail. `Stored` maps a save in progress to the entries it
writes, from its truncation on: other clients cannot look before the lock is free. A save that
is cut maps to `StorageFails`. `MemoryStore` makes the per-provider mutexes explicit, since
`providerLock` makes them lazily; the provider's mutex is held across `fn`.
`Stores` lets the initial state choose one of the two (`built`).

### AuthResolution

`store` is the abstract store; a request walks `ResolveProviderAuth` and, for an OAuth
credential, the double-checked `resolveStoredOAuth`: `Check` without the lock, `Lock`, `Recheck`,
`Refresh*`, `Commit`, `ToAuth`. The authorization server rotates: `consumed` holds the tokens it
no longer honours. `session` counts logins, `gen` numbers tokens. The user logs in and out
between the steps; requests crash; reads, refreshes and saves fail; a refresh response may be
lost after the server rotated (`excused`). `handlers` is any subset of the two a provider can have.
`began` and `during` remember when a request began and what was stored while it ran.

### Login

`stage` is the place of `pi-ai login`: the provider and method prompts, the flow, the exchange, the
save. A prompt is `asking` until it has an answer; its goroutine is in `readers` until a line
comes, also after the prompt was dismissed, because nothing can interrupt a read of stdin: the
next line typed may then go to a goroutine that drops it. The browser flows race the callback
(`Callback`), the goroutine of the manual prompt (`ManualAsks`, `ManualAnswers`, `ManualCancels`: the
answer is sent before the wait is cancelled) and the context for `result`, which is settled once.
`DeviceCode` keeps time in units of five seconds, which is both the default interval and what
`slow_down` adds; `wake` is the end of a sleep, cut short by the deadline.

### ModelRefresh

`inflight` and `lastErr` are the fields of the same name, `closed` the done channels that are
closed. Each critical section under `refreshMu` or `modelsMu` is one action; between `Publish`
(which clears `inflight`) and `CloseDone`, and between `Wake` and `ReadLastErr`, the code holds no
lock, and others run.

### HttpRetry

One call of `Do`. `pc` is its place in the loop; `send` is inside `client.Do`, where the network may
answer (`Respond`), fail (`TransportFails`) or stay silent. `timer` is the AfterFunc timer of the
attempt: `StopTimer` comes a step after the response, so the timer may fire in between.
`bodies` holds the attempts whose response body is open, `undrained` those whose body was closed before
its end, by `OnResponse` or at the limit of its length, `failures` what each failed attempt was told. Texts are the classes `ai/retry.go` tells apart; a text may be cut, because the error of
`io.ReadAll` is dropped.

### CodexTransport

Two requests of one session share `fallback` and `stats` under `codexWSMu`. A WebSocket answer passes
from the pump (`ReadFails`, `Classify`, `Write`) through a pipe to the decoder (`Decode`, `DecodeEnds`);
`frame` holds what either has in hand, since a write returns only when the decoder took it. How the
pump closed the pipe decides what follows (`Decide`): one reconnect after a connection limit, a fallback
to HTTP, or an error. `log` tags every event with the connection that brought it, so that
`OneAnswer` can tell two answers apart. The payload of a frame is decoded in `ResponsesStream`.

### Adapters

A request goes through `Prepare`, `Send`, one decoder step per server event, and its end. `content` and
`stop` are `output.Content` and `output.StopReason`, `slots` is the decoder's own table (by index, id
or key), `mark` whether the answer began and whether its end mark came, `log` the events pushed. Texts
are counted in fragments. The server is the environment and may send any event at any time: a step
in which it breaks the order its own API documents sets `rude`, and the properties say what
holds even then. A delta for a block of another kind crashes Bedrock's decoder (`phase = "crashed"`).
Thinking of the Responses API is a kind of its own, `reasoning`: `OutputItemDone` may replace what was
streamed of it by any text, as its summary does, and a polite server may do so. Bedrock pushes the start
event when its server sends one; the other adapters push their own (`OwnStart`).

### Messages and options

`TransformMessages`, `WireMessages` and `RequestOptions` are functions of a history, without state.
Parts have a kind, whether they are blank, and `by`: whose signature, encrypted reasoning or stored item
they carry. A call's id is its number and a form: `piped` (a call and an item id of the Responses API),
`plain`, `joined`, `foreign` (an item id made up for another API's call), `call` (split again) or `short`
(Mistral's). `Conversation` grows the history the way a caller does: a user speaks or interrupts,
models answer or fail and are asked again, tools return once, in any order, late or never.

## 3. The runs

| Run | Shows | Bounds, and why they are enough |
|---|---|---|
| `stream` | no lost wakeup, loss bounded by cancelled consumers, one termination, answers that agree, every `Result` returns, no thread outlives its reason to run, and refinement of `StreamContract` | two consumers, one of which cannot be cancelled: every race in the code is between one pump and one other thread, or two pumps for one event; one caller of `Result`; two producer calls: an event and the termination, two queued events, or a call after completion. The invariants and the refinement have theorems, for any number |
| `stream_result` | violated: `Result` returns the context's error though the context was done after the stream terminated | one consumer, one caller of `Result`, one producer call |
| `requests` | the caller's stream follows the adapter's event by event and always ends; the registry is consistent; who serves a request was registered while it ran; `Refresh` returns | two ids: the wanted one and another; three versions: a provider replaced twice, or replaced by one without an implementation, or removed and registered again; the relay holds one event at a time, and three are past that |
| `lazy_out_of_band` | violated: the caller of `LazyStream` loses a result that came out-of-band | one provider, two events |
| `stores` | successful calls on the file are linearizable, calls return, a stuck `fn` holds up only its own provider, both stores implement `CredentialStore` | two clients on two providers, two credentials and a foreign one, every initial file: all conflicts are between two holders of one lock. On the file a call each; in memory two calls each: the first race to make a mutex, the second reuse it |
| `file_store_faults` | violated: a cut save destroys the other providers' entries | one client, two calls |
| `provider`, part `token` | no double refresh, rotated tokens are stored before the lock is released, sessions move forward, answers are fresh and were stored, every request is answered | two requests race, a third would only repeat the second; one visit of the user, at any moment; a clock of two lifetimes: a refreshed token expires once more |
| `provider`, part `login` | only what this login was granted is exchanged, polls keep the server's pace and its deadline, a login ends and leaves no port open and no prompt behind | one login, every flow; a device code that lives three units or for ever, and intervals of one or two, give up to four polls, with the deadline inside and between waits |
| `provider`, part `models` | the list only moves forward, success means a fresh list, every call returns | two callers, of which one waits for a fetch while the other leads two more; three fetches. The safety properties have theorems, for any number |
| `model_refresh_joiner` | violated: a joiner returns a later fetch's outcome | two callers, two fetches |
| `request`, part `history` | every call in a request is answered, nothing foreign is carried, token limits fit | five messages: two calls, one result, an interruption and a late result; four speakers, one per family of adapters that differ in what they sign and how they name calls; eleven targets: each family, with and without images, adaptive thinking, nested pictures and a bridge; three caps: none, one below and one above every model's. The theorems hold for any models, caps and length |
| `request`, part `attempts` | transient failures are retried up to the cap and nothing else is, no body left open, cancelled and timed calls return | two retries, the adapters' default: a first, a middle and a last attempt; every sequence of answers. The theorems hold for any cap |
| `request`, part `answer` | the event protocol is kept, done means a whole answer, ends agree with the deltas, a cancelled request terminates | two indexes; six events pushed: two blocks with their deltas and ends, or three blocks. A server that broke its protocol gets two fewer, because it may send so much more |
| `http_undrained` | violated: a body is closed before its end | one call of `Do` without a retry |
| `adapters_start` | violated: Bedrock's done without a start | the bounds of the part `answer` |
| `codex` | one answer per reader, nothing lost in the session's memory, cancelled or idle requests end | two requests of a session: one may fall back while the other is at any step; two frames per connection: a first and a later one; one request has an idle timeout |

`provider` and `request` check three modules each, which share no variable: a behaviour follows one of
them, its `part`, and the others stay in an initial state where their properties say nothing (`MCProvider`,
`MCRequest`). What one part hands to another is a value the other takes as it comes: any history, any answer,
any credential.

`CHECK_DEADLOCK FALSE` stands where a system really stops: requests, logins and calls end, and
clients and producers make a bounded number of them. No run uses symmetry.

Every property of a passing run has a mutant in `PROJECT.json`: a changed definition, such as a
dropped guard or a missing unlock, under which TLC finds that property violated.

What some properties allow, because the code does: `CallsAnswered`, a
made-up result when the real one came after somebody else spoke, and the real one as well;
`ServedByRegistered`, that a request gets the auth of a later version than serves it; `RetriesJustified`,
the retry of a limit whose text was cut before it could be told from a transient refusal; `BudgetsFit`
says nothing of Gemini's budget, which the code does not fit to the cap, and lets a request ask for no token
if the caller or the model's record asks for none; `EndCarriesDeltas` leaves out the kind `reasoning`;
`FileImplementsContract` takes a cut save for a failing disk; `DoneIsComplete` asks an end mark only of
the adapters that check one (not of Bedrock, Google and Mistral); `Terminates` excepts the crash of Bedrock's decoder under a server that
broke its protocol; `PollsPaced` holds polls to the interval asked for last, even if it is shorter.

### Fairness

Weak fairness on the steps of goroutines the Go scheduler runs (pump, watcher, a `Result` whose
select is ready, the relay, a client of a store, a request). Nothing obliges producers, users,
servers or crashes to act.

- Streams: a consumer that ranges keeps receiving, and one that leaves cancels its context: the
  comment on `Events` demands it.
- Stores and auth: every `fn`, fetch and refresh returns, except the `fn`s of `Stuck` providers in memory,
  and a user who holds the provider finishes what she began. Lock waits need only weak fairness because
  each client makes finitely many calls, so contention ends. That bound is part of what the liveness
  results say: under endless contention `TryLockContext` polls without a queue and could starve.
- `Models`: setup, relay and every provider's refresh run, and an adapter terminates: that is what
  `Terminates` shows of the adapters under a cancelled context.
- `HttpRetry`: the network owes nothing: `client.Do` and a body read are sure to end only once their
  context is done, or the body does.
- `Adapters`: the same. The goroutine runs until it waits for the server; from there only a done
  context is sure to get it out (`BodyBreaks`).
- `CodexTransport`: pump, decoder and request run; `conn.Read` ends with the context or the idle timeout
  (`Impatient`), the HTTP exchange with the context.
- `Login`: a flow whose context is done goes on to its end, the goroutine of the manual prompt runs and
  dismissed prompts return; nobody has to type, to visit the URL or to approve the device.

### Findings

1. `file_store_faults`: `save` truncates auth.json in place. A crash or a full disk after the truncation
   loses all providers' entries, against "round-trip untouched" (`src/ai/auth/filestore.go:33`).
2. `model_refresh_joiner`: a joiner reads `p.lastErr` after it was woken, when a later fetch may have
   replaced it, against "Concurrent calls share one in-flight fetch" (`src/ai/provider.go:359`).
3. `stream_result`: the select in `Result` takes either ready case, so a context that is done after the stream
   terminated may hide the result, against "only non-nil when ctx is cancelled before the stream
   terminates" (`src/ai/stream.go:151`). `AnswersAgree` of the run `stream` takes either answer.
4. `lazy_out_of_band`: `LazyStream` ends the outer stream with `End(nil)` (`src/ai/lazy.go:49`), also when the inner one
   was closed by `End(result)`, which "becomes the final result" for "adapters that complete out-of-band"
   (`src/ai/stream.go:57`). No adapter in the repository does. `OuterFollowsInner` asks for the events and
   the result of the terminal event.
5. `http_undrained`: a response that `OnResponse` refuses is closed unread, and a body over the limit is cut, against
   "drained and closed" (`src/ai/apis/internal/httpretry/httpretry.go:87`). `BodiesSettled` asks for the closing.
6. `adapters_start`: a Bedrock answer whose event channel closes at once, without an error, is done without a start
   (`src/ai/apis/bedrock/bedrock.go:218`), against "a stream emits `start` first" (`src/ai/events.go:30`).

## 4. The proofs

`EventStreamProofs` proves, for any sets of consumers and callers and any bound on the calls,

- `Invariance`: `Spec => []IInv`;
- `TypeCorrect`: `[]TypeOK`, which includes that `resultCh` is closed at most once;
- `NoWakeupIsLost`: `[]NoLostWakeup`;
- `TerminatesOnce`: `[]SingleTermination`.

from `CallsAssumption` alone (contexts belong to calls, the bound is a number, `Free` is not a
pump). `NoLostWakeup` is not inductive: that no event is queued while a pump sleeps depends on
`Push` taking `s.mu` and broadcasting, and that a cancelled sleeper still has its watcher depends
on where the pump was when the watcher broadcast. `IInv` therefore adds `Mutex` (a pump between
`NextLock` and its release holds `mu`, which is what keeps the watcher's Broadcast out of that
window), `Asleep` (what a sleeping pump may assume), `Watched` (a watcher is gone only when its
pump stopped or its context is done and the pump is not about to sleep) and `Terminated`.
The proof that a step preserves each part has one step per action of `Next`.

The second half of the module is about what the threads hand out and answer. `CInv` says that the queue is
what is left of the log (`Queued`, with `popped` events gone from its front), that events are numbered in the
order of the log (`Ordered`), that a pump has an event in its hand exactly while it sends (`Handing`), that
what is in a hand or was received left the queue, in order and in one place only (`Handed`), and that the
log ends with the termination (`Ended`). From it:

- `EveryAnswerAgrees`: `[]AnswersAgree`;
- `LossIsBounded`: `[]LossBound`. Neither set in it has a fixed size, so the proof shows that a step which loses
  an event (`Lost` grows by one) is the step in which its pump gives up (`GaveUp` grows by that pump);
- `KeepsContract`: `SafeSpec => ImplementsContract`. A send is the one step of the contract's consumer, `Push`
  and `End` are its producer, a pump that closes its channel is its close, everything else stutters.

`RequestProofs` proves of `HttpRetry`, for every retry cap (`RetriesAssumption`: a natural number), `Invariance`,
`TypeCorrect`, `RetriesAreJustified` (`[]RetriesJustified`) and `NoBodyLeaks` (`[]BodiesSettled`: closed, not drained).
`RetriesJustified` speaks of the attempts that are over; `IInv` adds when an attempt has its failure on
record (`Recorded`), what is known of it where the loop decides (`Judged`), and that a body is open
exactly from the response to the decision (`Opened`, `Answered`).

`ModelsProofs` proves of `ModelRefresh`, for any callers and any number of fetches (`FetchesAssumption`), that one
caller leads the fetch in flight (`OneFetchInFlight`: `[]RefreshTypeOK`), `SuccessMeansFresh`
(`[]SuccessIsFresh`) and `ListNeverGoesBack` (`ListMovesForward`). The argument: the fetch in flight is
the newest that started (`Flight`), so its leader stores a list no older than the one there; `p.lastErr`
is as new as every fetch a joiner was woken for (`Reported`), so that a joiner who reads a later outcome
is wrong about whose it is (finding 2) but never reports success over a stale list.

`StoresProofs` proves, for any clients, providers, credentials, faults and bounds (`StoresAssumption`: the
bounds are numbers, and `NoClient`, `NoCredential` and `Foreign` are none of the things they are not),

- `CallsLinearizable`: `[]Linearizable`;
- `FileContract` and `MemoryContract`: `FileImplementsContract` and `MemoryImplementsContract`;
- `OthersRoundTrip`: `File!OthersUntouched` if there are no faults. With them it fails (finding 1); the theorem
  says that nothing else breaks it. It follows from `FileContract`: a commit changes its owner's entry.

On the file, `FileInv` says that one client is inside, the one that has the lock (`Locked`), that what it
means to save differs from the file in its own entry only (`Means`), that a file which is not JSON
stands for no entries (`FileHolds`), and that every call in progress saw the value its entry has now (`Seen`): a call
that returns a value returns that one. `StoredIs` reads the refinement mapping off the place of the client
inside; a step is then `Acquire` (the lock), `Commit` (the truncation), `Release` (a return before it),
`StorageFails` (a cut save) or a stutter, one lemma per action. In memory, `MemoryInv` says that a
mutex belongs to one provider (`Mutexes`) and that a client past `Lock` holds the mutex its provider has
(`Mutual`), though mutexes are made on demand.

`AuthResolutionProofs` proves, for any number of requests and visits and any clock, `NeverRefreshedTwice`
(`[]NoDoubleRefresh`), `PersistedFirst` (`[]PersistedBeforeRelease`), `AnsweredFromStore`
(`[]AnswersWereStored`) and `SessionsNeverReturn` (`SessionsMoveForward`). The argument is that the lock
covers everything from the authoritative check to the commit. `IInv` says who has the provider (`Locked`),
that a request which refreshes works with what is stored, and one about to commit with its successor
(`Refreshing`), that the stored refresh token is honoured unless somebody is about to replace it (`Honoured`),
that tokens and sessions are numbered in the order of their issue (`Numbered`), and that what a request
is about to answer was stored while it ran (`Witnessed`).

`ModelsProofs` proves of the registry, for any ids and any number of registrations (`ModelsAssumption`), `RegistryHolds`
(`[]RegistryConsistent`: the list names every registered provider once, also after `Unlist` cut one out),
`ServedHolds` (`[]ServedByRegistered`: `Witnessed` says that versions only grow, `Found` that the second look
finds the first look's version or a later one) and, for an adapter with any number of events, `OuterFollows`
(`OuterFollowsInner`: `LInv` says that the outer log, the event in hand and what is left of the inner stream
are one sequence, and that the end of one is the end of the other). It holds also of adapters that complete
out-of-band, about whose result it says nothing (finding 4).

`LoginProofs` proves, for any lifetimes, intervals and times (`DeviceAssumption`: they are numbers), `GrantHolds`
(`[]GrantIsOurs`) and `PaceHolds` (`[]PollsPaced`). `PInv` says that an answer is final (`Final`), where the login
is while a goroutine reads stdin (`Where`), and that the paste is looked at only when it won the race
(`Race`), which leaves one reader (`OneReader`). `DInv` says that a sleep ends when the server's interval is
over or at the deadline (`Paced`).

`CodexTransportProofs` proves, for any finite set of requests and any number of frames (`CodexAssumption`),
`OneAnswerEach` (`[]OneAnswer`) and `MemoryHolds` (`[]MemoryAccounts`). `TInv` says for every request how pump, pipe
and decoder stand to each other (`Piped`), when the end mark may be set (`Marked`), what its log holds so far
(`Begun`, `Told`) and which connection it is at (`Dials`), and of the session that its counters are the sizes
of the sets of requests that moved, fell, broke and dialed (`Accounts`). A step moves one request, so
that each of these sets gains or loses at most that one (`Counted`).

`AdaptersProofs` proves, for any indexes, any canned messages (`CannedAssumption`) and any number of events,
`ProtocolHolds` (`[]ProtocolKept`), `DoneHolds` (`[]DoneIsComplete`) and `EndsHold` (`[]EndCarriesDeltas`) for
all seven decoders. `Sound` says of a log and the content what any push must keep: no terminal event
yet (`Open`), every block event names a block that started, with its kind, and starts come in the order of the
content (`Loose`); for every adapter but Bedrock, that the begin event is first (`BeginFirst`); and, as long as the
server is polite, that it is for Bedrock too, nothing follows an end, and every text but that of `reasoning`
is its start and deltas (`Strict`). One lemma per kind of push shows that it keeps `Sound`; what
the decoder has to know for that is the invariant of its own table (`TableInv`: `AnthropicInv`,
`ResponsesInv`, ...: which blocks are still open, which slot stands for which block, and what was gathered).
Each decoder then has one lemma per step. A server that turns rude, or a crash of Bedrock's decoder, drops
to `Loose`. Once a request is over (`closed`) its log is sound but for the terminal event (`Over`);
`DoneIsComplete` looks at the slots as the decoder left them, so `AInv` carries it from the step that ends
the stream, with `DoneOpened`: an adapter that pushes its own start is never done without one.

`RequestProofs` proves of `Conversation`, for any models, speakers, caps, custom budgets and lengths of the history
(`ConversationAssumption`: names tell models apart, APIs are the known ones, limits are numbers), that what
would be sent next is in order at every moment:

- `BudgetsHold` (`[]BudgetsFit`), which is arithmetic on one request, over an estimate of which only
  that it is a natural number (`Estimated`) is used;
- `NothingForeignHolds` (`[]NothingForeign`). It needs no more than the types of a history (`HistoryTyped`): for
  each target `MessagesTo` and `Carried` are the messages and parts that target may see, every function
  on the way keeps to them, and the result has no empty turn;
- `CallsAnsweredHolds` (`[]CallsAnswered`), from `ConversationInv`: the calls of the history are numbered in
  order and without gaps (`CallNumbersInOrder`, `CallNumbersUnique`), an answer has two at most, every result has its
  call before it, in an answer that did not fail (`ResultsHaveCalls`), and a tool returned once (`ReturnedOnce`).
  The proof follows the history through the code. `TransformOne` rewrites ids, but calls and results alike,
  so that numbers stay unique and matched (`Unique`, `Matched`, `Single`, `Timed`). A run of results is over
  where somebody else speaks (`After`, `RunEnds`); there `Flush` makes up what is missing, so that every
  call of the history to replay is `Settled`. The conversion to turns appends to turns or extends the last
  one (`Extends`), and by induction over the messages every call in them is answered as its message is
  (`Walked`), whether the API puts results in one turn, in one each, or pictures behind them.

Histories are folds and sums. The induction theorems of the library take an operator as parameter, which the
provers cannot instantiate; so the first sections of `RequestProofs` prove, from the well-foundedness of the
proper subsets of a finite set, induction for a set of numbers (`NatInductionSet`) and, with it, that the recursive
functions behind `FlattenSeq`, `SumFunction` and `ConvertMessages` exist and what a step of them is. The models
filter with `Only`, which is a `FlattenSeq`, because a lemma about `SelectSeq` would need such a parameter too.

What is left to TLC: the liveness properties of every run (`ResultReturns`, `ThreadsEnd`, `CallsReturn`,
`RequestsAnswered`, `CallReturns`, `Terminates`, `RequestsEnd`, `LoginEnds`), because tlapm does not reason about
fairness with ENABLED. Every invariant, action property and refinement that a passing run checks has a theorem.

No proof weakens what a run checks: each theorem names the definition that the run checks. The inductive
invariants were checked by TLC under the constants of their runs before they were proved, as far as TLC can
evaluate them: `HistoryTyped` and the types of the adapters' logs are in infinite sets.

## 5. Not modelled

Whole parts:

- the SSE reader: it splits text into events, in a buffer that one goroutine sees; decoders are
  modelled on the events;
- session resources: a table of callbacks of which nothing in the library registers any;
- partial JSON and JSON Schema validation: recursive functions over documents, without state;
- provider bindings and the catalog, data types and their JSON encoding, build tooling.

Inside modelled parts:

- credentials: file modes and directories, the JSON shape, environment lookups and the merging of
  environments and headers. What a token answer contains is not modelled; Anthropic's is stored
  even if it has no tokens;
- OAuth: PKCE, the pages shown, enabling Copilot's models after a login;
- the registry: the merging of headers into a request;
- adapters: usage and cost, prompt caching and cache breakpoints, the compatibility flags of Completions that
  rename or add fields, Claude Code's tool names, URLs, and Bedrock's credentials and signing, which are
  the AWS SDK's. The faux provider's queue of responses;
- Codex: a request without a session id (which has no memory), the reset of the memory, the encoding;
- HTTP: the length of delays; that the body of a response `Do` returned can be read (its header timer may
  still fire, see the hazards);
- messages: that ids cut to 40 or 64 characters stay apart, cost and overflow patterns.

## 6. Plan

The modules are complete as planned, and so are the proofs of what the runs check, but for liveness. What
could follow: `SseReader` and `PartialJson`, as functions against reference definitions, `SessionResources`, and
a model of the cut of long call ids, which is now assumed to keep them apart.
