# A TLA+ model of @mswjs/interceptors

The library intercepts outgoing requests of a JavaScript process (`net` sockets, `http`,
`fetch`, `XMLHttpRequest`, `WebSocket`), lets listeners decide each one (mock it, fail it,
perform it as-is) and forwards what nobody decided. These modules model how interception is set up and
undone, how that decision is made and how it is carried out. Paths below are relative to the repository; line numbers of
`socket-controller.ts` are written `SC:n`, of `handle-request.ts` `HR:n`, of
`request-controller.ts` `RC:n`.

`interceptors/http/source.ts` is `HS:n` and `xml-http-request-controller.ts` is `XC:n`.

Contents: 1 inventory, 2 modules, 3 runs and bounds, 4 proofs, 5 what the runs refute and what
was met while modelling, 6 not modelled, 7 plan.

## 1. Inventory

JavaScript runs to completion, so nothing here is a data race. What is hard is what happens
*between* two stretches of code: continuations of promises, `process.nextTick`, microtasks,
events of sockets and child processes, and user code (listeners) called in the middle of a
stretch, which calls back into the object that called it.

| Component | State | Operations | What makes it correct |
|---|---|---|---|
| RequestController (`src/request-controller.ts`) | `readyState`, the promise `handled`, the source it was created with | `passthrough`, `respondWith`, `errorWith` | one verdict, announced to the source once; `handled` only after it |
| handleRequest (`src/utils/handle-request.ts`) | a coroutine, the abort flag, a second controller for exceptions | abort check, emission of `request`, race, error path, emission of `unhandledException`, passthrough | it always ends, never on an undecided request, and never performs an aborted or failed one |
| SocketController (`src/interceptors/net/socket-controller.ts`, 357-455) | `readyState`, `#awaitedVerdicts` | `claim`, `passthrough`, `decline`, `awaitVerdicts` | one verdict per exchange; a connection nobody wants passes through |
| TcpSocketController (same file, 457-1455) | `#bufferedWrites`, `#passthroughSocket`, `#realHandleSwapped`, `#retargetedConnectionOptions`, `#resetScheduled`, `#connectEmulated`, `pendingConnection`, cork and close flags | `#handleWrite`, `reset`, `scheduleReset`, `claim`, `passthrough`, connect emulation, forwarding of `connect`, `data`, `error`, `end`, `close` of the real connection | every write reaches exactly the party its exchange was given to, in order, and its callback runs once; every event of the real connection reaches the client once and in order |
| TlsSocketController (same file, 1457-1657) | none of its own | overrides of `emulateConnect`, `claim`, `passthrough` | the same, with `secureConnect` and `session` |
| Server socket (same file, 72-355) | `pendingWrites`, `pendingEnd`, `isBackpressured`, `isFlushScheduled` | `write`, `end`, flush on `ready` and on drain | data mocked for the client arrives in order, before the end, under backpressure |
| SocketInterceptor (`src/interceptors/net/index.ts`) | patches of `net`, `tls`, `http.Agent` | creates a controller per connection and emits `connection` on the next tick | sockets from before `apply()` are not reused |
| HttpRequestSource (`src/interceptors/http/source.ts`) | per connection: protocol verdict, parser, tunnel target, `abortPendingRequest` | parses client data, one `handleRequest` per message, responds, passes through, corks reads until `response` listeners end | each request of a kept-alive connection gets its own verdict |
| HTTP parser (`src/interceptors/http/http-parser*`) | llhttp state, current message | parser callbacks | messages and bodies in order |
| Interceptor, Disposable, PatchesRegistry (`src/interceptor.ts`, `src/disposable.ts`, `src/utils/patches-registry.ts`) | owners, `readyState`, subscriptions, replaced globals | `apply`, `dispose`, `applyPatch`, restore | patched exactly while owned; a failed setup leaves nothing behind |
| BatchInterceptor (`src/batch-interceptor.ts`) | event bridges, forwarded events | `on`/`removeListener` hooks, `setup` | an event reaches the batch once, however many children emit it |
| Event forwarding (`src/interceptors/http/forward-events.ts`, `http/index.ts`, `ClientRequest`, `fetch/node.ts`, `XMLHttpRequest/node.ts`) | lazily attached listeners | newListener/removeListener hooks | a listener hears its own initiator's events, and only while attached |
| WebSocket (`src/interceptors/WebSocket/*`) | `readyState`, passthrough promise, real socket, abort controllers | `send`, `close`, `connect`, forwarding | open before message before close; each close crosses once |
| fetch in browsers (`src/interceptors/fetch/web.ts`, `fetch/utils/*`) | response promise, redirect count | patched fetch, redirects, decompression | one settlement; redirects end |
| XMLHttpRequest in browsers (`src/interceptors/XMLHttpRequest/*`) | mocked `readyState`, events, redirect count | `send`, `abort`, `respondWith`, `errorWith` | monotone `readyState`, one terminal event |
| RemoteHttpInterceptor (`src/remote-http-interceptor.ts`) | message listeners in two processes | request and response messages | a response reaches the request it names |
| Raw headers, fetch and URL utilities, request context, presets, logger | mostly none | conversions | pure functions |

How they interact: `SocketInterceptor` creates a controller for a socket and emits
`connection`; `HttpRequestSource` (and any user) subscribes, reads what the client writes from
the controller's server socket, and for every request builds a `RequestController` whose source
methods call the socket controller's `claim`, `passthrough` and `destroy`; `handleRequest` emits
`request` and drives that controller. The browser interceptors use `handleRequest` with sources
of their own, `RemoteHttpResolver` with one that answers over IPC. `BatchInterceptor` and the
per-API interceptors only forward events.

The hazards, each at its line, are listed in `PROJECT.json`.

## 2. Modules

### RequestController, RequestHandling: one request

`RequestController` holds the controller's state and one operator per method; `Pending` is the
`invariant` at the top of each of them, and a call made when it does not hold throws and changes
nothing. `calls` records what the source heard. `FailingCalls` names the source methods that may
fail: `source.passthrough()` may reject (`fetch/web.ts` awaits listeners in it) and
`source.errorWith()` may throw (`RemoteHttpResolver`'s does).

`RequestHandling` EXTENDS it with the coroutine, the two emissions and the abort signal:

| Model | Code |
|---|---|
| `pc` | the await `handleRequest` is suspended at: `racing` HR:127, `raising` HR:192, `passing` HR:220, `waiting` HR:223 |
| `Begin` | HR:92-129: an aborted request is errored at once, any other is emitted |
| `Abort` | `onAbort`; after HR:145 the listener is detached and the abort is not seen |
| `RaceEntrants`, `RaceSettles`, `Resume*` | `Promise.race` and its continuation, two steps because anything may run in between |
| `ListenerThrows` and `Thrown` | what a listener throws, in the classes `handleResponseError` (HR:71-90) and HR:153 tell apart; a falsy value is not seen as an error |
| `CallController` | user code holding the controller, at any time after it was given it |
| `CallExceptionController`, `ExceptionRaised` | the second controller (HR:167-190) and what follows the emission (HR:202-215) |
| `SourcePerforms` | the promise of `source.passthrough()` |

`RequestOutcome` is the promise made for a request: at most one outcome, announced once and
only after it exists, a handling that ends once, and an aborted request never left without an
outcome. `ImplementsOutcome` is the refinement, checked by TLC and proved.

### FetchRequests: the patched fetch() of browsers

`FetchRequests` EXTENDS `RequestHandling` with the source of `fetch/web.ts`. Its methods are called
in the very step that decides the request, so `Composed` adds to a step of the handling what the
method does up to its first await; what follows that await is an action of the source.

| Model | Code |
|---|---|
| `byFetch` | whether the source is that of `fetch()`; if not, it is any other, as abstract as in `RequestHandling` |
| `response` | `responsePromise` (`web.ts`:52) |
| `source` | what the method under way awaits: the real `fetch()`, the "response" listeners, a redirect; or how it ended |
| `SourcePassthrough`, `SourceRespondWith`, `SourceErrorWith` | `web.ts`:57-176 up to the first await |
| `RealFetchFails`, `RealFetchResponds` | `web.ts`:69-96 |
| `ResponseListenersEnd`, `ResponseListenersThrow` | the emissions at `web.ts`:83 and 157 |
| `RedirectEnds` | `followFetchRedirect()`; the `fetch()` it makes is intercepted by itself and here resolves or rejects |
| `Performed` | `SourcePerforms` of `RequestHandling`, tied to the promise of `source.passthrough()` |
| `Fetched` | `await handleRequest()`, then the promise returned (`web.ts`:201-210) |

`MCRequestHandling` only gives `FailingCalls` its value. It instantiates `FetchRequests`, which
covers `RequestHandling` (with `byFetch = FALSE`); the two violation runs on the handling alone use
`RequestHandling` itself.

### SocketWrites: the verdict on a connection and the client's writes

One client socket, from `socket.connect()` on, over several exchanges. `Subscriber` actions are
what "connection" listeners (the HTTP source or a user) may call, at any time and also from
their "data" listeners, that is in the middle of a client write. This is why `#handleWrite` is
split in two at its call of `#push`: `WriteBegin` is SC:742-797, subscriber actions may follow
while `writing # 0`, and one of `WriteAwaitsVerdict`, `WriteMocked`, `WriteFlushed`,
`WriteThrough` is the `switch` at SC:805-853, which looks at the state the push left.

| Model | Code |
|---|---|
| `ticks`, `RunTick` | `process.nextTick` callbacks, in order: the `connection` event (`net/index.ts`:245-269), a deferred push (SC:791), a deferred passthrough (SC:444), and the dialling of `net.Socket` |
| `buffer`, `callbacks`, `acks` | `#bufferedWrites`; whether an entry still holds its callback (`args[3]`); how often that callback ran |
| `Claim`, `Passthrough`, `Decline` | SC:1219, 1300, 428 |
| `Reset`, `Retarget`, `ScheduleReset` | SC:599-668, with `#reset` at SC:670 |
| `EmulateConnect`, `CompleteClaim` | SC:688-707 and SC:1280: the client told it is connected before the verdict, and the completion of a claimed connection |
| `real[c]` | a connection created by SC:1305: its Writable's `queue`, what reached the handle (`wire`), the writes in flight there (`own` its Writable's, `direct` the client's after the handle swap) |
| `RealConnects`, `RealAccepts`, `RealLost` | "connect" and the handle swap (SC:924), completion of a write, an error or end of the real connection |
| `exchange`, `opened`, `decided`, `pushed`, `mocked`, `during`, `straddling` | history only: no guard reads them, except that `exchange` carries the bound on resets |

Writes are numbered. Bytes, encodings, timeouts and addresses are left out. Three assumptions
on the environment, all in guards:

- `ClientWrites`: the client issues a write when the callback of the last one ran, as Node's
  Writable does, and does not write from a `nextTick` callback queued between `connect()` and
  the first push. Such a write (or one from a "lookup" listener) would be pushed ahead of the
  first, which waits for its tick.
- `Pipelining = FALSE`: a client does not write past the boundary of an exchange whose verdict
  is pending. With `TRUE` it may; then a write is decided by the verdict on the exchange before
  it, because `reset()` leaves a pending controller alone (SC:648), and `DecidedInItsExchange`
  does not hold. The client of `HttpExchanges` does not pipeline.
- A client whose real connection is gone is destroyed in the same step. Reading out what is
  left, and the order of "end" and "close", are the subject of `ClientReads`.

One exemption is explicit in the properties. A subscriber may, inside the push of one write, both
give a verdict and reset the controller (the HTTP source does when one chunk ends one request and
carries the next). The chunk then belongs to two exchanges and no per-write statement fits it;
`straddling` is the set of those writes. It is empty in the behaviours where no push sees both.

### ClientReads, ReadStream, HttpExchanges: what the client reads

`ClientReads` is the other half of the same socket: everything the client reads is pushed to it
by somebody. It has no transitions of its own. A connection is a record, and each operation is a
function from connection to connection, since one listener makes several calls in a stretch
(`OnRealError` destroys, and schedules a "close"; `Uncork` replays any number of reads, each of
which may pause, end or close). `HttpExchanges` EXTENDS it and composes these calls, one action
per listener, tick or I/O event, with the verdicts on one or more HTTP requests.

| Model (`ClientReads`) | Code |
|---|---|
| `flowing`, `buffer`, `eof`, `ended`, `destroyed`, `closes` | the client's Readable: whether it flows, what it holds, `push(null)`, the "end", `destroy()`, "close" events |
| `layers`, `Destroy` | the overrides of `_destroy()`: the HTTP source's abort hook (HS:79-94), the wait for "end" (SC:1133-1143), a mocked response's (HS:528-557), which replaces all others |
| `corked`, `corkedReads`, `Cork`, `Uncork` | `corkReads()` and `uncorkReads()`, SC:1168-1217 |
| `OnReal*` | `#onRealSocketConnect`, `Data`, `End`, `Error`, `Close`, SC:924-1099 |
| `EmitClientClose`, `DeliverClose` | the "close" emitted by hand once the handle is swapped, after "end", SC:1101-1148 |
| `ServerWrite`, `ServerEnd`, `FlushServer`, `OnRead` | the server socket with its queue, backpressure and deferred end, SC:137-348, and the wrapped `_read()` |
| `real` | the real connection; `severed` is one whose shared handle the client has closed |
| `sent`, `heard` | history: what was sent towards the client, what its consumer was given |

| Model (`HttpExchanges`) | Code |
|---|---|
| `ClientRequests` | `onRequest` of HS for each message, with the reset for the exchange and, past a mocked CONNECT, the reset to the tunnel's target (HS:112) |
| `hook`, `AfterHook` | `abortPendingRequest`, which the connection's `_destroy()` calls (HS:92) |
| `RespondWith`, `RespondWithNetworkError`, `RespondInVain`, `ErrorWith`, `Passthrough` | the three source methods given to the `RequestController` |
| `Mocked*`, `stage` | the awaits of a mocked response: listeners, "connect", the body, its end |
| `ClaimCompletes` | the connect emulation of `claim()`, and whoever waits for it |
| `events`, `ResponseListenersSettle`, `parsers` | "response" events under way while the reads are corked (HS:304-354), and the response parsers that read the real connection |
| `Real*` | a server: informational and final responses in order, end, failure, close |
| `OtherSubscriberClaims`, `SourceDeclines`, `Server*`, `RealSends` | a connection that is not HTTP: another "connection" listener claims it and answers, or it passes through |
| `Consumer*`, `Client*` | the client's reader, which may pause, and `destroy()` at any time |

`ReadStream` is the promise: data in the order it was sent, "end" after all of it, "close" after
"end" or a cut. `ReadsAsPromised` states that `HttpExchanges` implements it.

Assumptions, all in guards: every request is one write, and the next waits for the response
(no pipelining; how writes meet verdicts is `SocketWrites`); an HTTP consumer pauses only in the
middle of a response and reads by hand never; a passthrough is not asked for between the "end" and
the "close" of a real connection that is closing, when nobody can tell whether it still takes
the write; what a client sends through a mocked tunnel is HTTP. The inputs are fixed at the
start: the protocol, whether the first request is a CONNECT, whether "response" has listeners,
and `hurried`, whether a final response may overtake the listeners of an informational one.

### XMLHttpRequests: one XMLHttpRequest of a browser

| Model | Code |
|---|---|
| `xhr.native`, `xhr.defined` | the original `readyState` and the one defined over it (XC, `setReadyState`) |
| `Open`, `Send`, `SendSync` | `open()` and `send()` as proxied; `loadListeners` the "load" listener each `send()` adds |
| `RespondWith`, `ErrorWith`, `LeaveAsIs`, `RequestSettles` | the verdict, and `kIsRequestHandled` read once `onRequest` has settled (XC:179) |
| `phase` | the await `respondWith()` is suspended at: the request's length and body, a redirect, the response's body |
| `Upload*`, `FollowRedirect`, `ProcessResponse`, `Body*` | the closures of `respondWith()` of these names (XC:381-540) |
| `TimerFires` | the `setTimeout` of XC:529 |
| `log`, `upload`, `responses` | what was fired at the instance, at its upload object, and the "response" events |

The request after a redirect is an `XMLHttpRequest` of its own that follows further redirects by
itself; here it loads or fails. `abort()`, listeners that throw, and an instance opened again
while its request is under way are left out.

### Interceptors: who intercepts, and who hears of it

Any number of interceptors that apply one another, one type of event. `Setup` gives each its
steps: hold bridges, apply a child, forward events of the source, replace globals (the keys of
one step are the arguments of one `subscriptions.push()`). Calls are synchronous but nest and
fail half-way, so they are run step by step on `stack`: a `setup()` that applies a child pushes
the child's; a failing one becomes a `dispose()` that throws the error again when it ends, into
the `setup()` below it.

| Model | Code |
|---|---|
| `owners`, `readyState`, `subscriptions` | the fields of `Interceptor` and `Disposable` |
| `Apply`, `Dispose` | the calls of users, each as its own owner; `Ignored` is the two early returns of `apply()` |
| `SetupBridges`, `SetupApplies` | `batch-interceptor.ts`:116-142, and `requestSource.apply(this)` of the Node.js interceptors |
| `SetupPatches`, `SetupFails`, `UndoPatch` | `applyPatch()`, its error, the function it returns; `replaced` is `#replacements` |
| `Undoing` | the `catch` of `apply()` |
| `relays[x]` | who listens to `x` on behalf of somebody else: batches with a bridge on it, and, for the source, the interceptors forwarding its events |
| `AddListener`, `RemoveListener` | `on()` and `removeListener()` with the hooks of batches and forwarders; these cascade (batch, child, source) in one step |
| `Deliver` | the source's event given to one forwarder, which gives it to its batches |
| `heard`, `before` | history: how often a batch heard an event; interception when the user's call began |

The hooks are those of the emitter library, which is not in the repository: `newListener` runs on
every `on()`, `removeListener` after the listener is gone, and hooks marked `persist` survive
`removeAllListeners()`. Filtering by initiator is left out, so an event may reach every
forwarder: more duplicates than the code sees. A disposal does not throw.

What the setups of this code have in common is stated as assumptions on `Setup`, which TLC
evaluates and the proofs use:

- The children of a batch are neither batches nor the source (the HTTP source is not exported). Each child is
  applied once (a batch makes a `Set` of its interceptors) and applies no parent of its own: batches apply
  interceptors, these the HTTP source, and this one the socket interceptor (`layer`, four deep).
- `GroupsAssumption`: the keys of one step are replaced together by everybody. Of a group that two
  interceptors replace, only the first key can therefore be found already replaced. If a later one
  could, `applyPatch()` would throw after the earlier ones were replaced and before anything was pushed
  that restores them, and a failed `apply()` would leave them replaced. Here two instances of a class replace the same
  group (`ClientRequest/index.ts`:38-74) and two classes disjoint ones.

`MCInterceptors` is the Node.js preset in small: the source (with the socket interceptor below it
folded in) replaces two globals, `http`, `xhr`, `fetch` and `again` forward its events, the last two replace
the same global as two `FetchInterceptor` instances do, `xhr` has no global to replace and is
unsupported, and two batches share `http`.

### WebSocketMock: one intercepted WebSocket

The application, the interceptor's "connection" listeners and the original server act on one
socket, between any two microtasks of the library.

| Model | Code |
|---|---|
| `tasks` | the library's microtasks in order: `connection` (`WebSocket/index.ts`:88), `open` (`web-socket-override.ts`:56-77, once its promise is resolved), `outgoing` (148) and `forward` (`web-socket-server-connection.ts`:87), `deliver` (`web-socket-class-transport.ts`:66), `close` (188), `serverClosed` (321) |
| `dispatching` | listeners of the library still to run in the event being dispatched: messages that waited for "open", data that waited for the real connection, `handleMockClose` |
| `phase`, `listened` | the emission of "connection": no listener means passthrough |
| `App*`, `Mock*`, `Server*` | calls of `ws`, of the client handle and of the server handle |
| `real[c]`, `current` | the connections `server.connect()` made; the one `realWebSocket` names |
| `closeHooked`, `real[c].hooked`, `mockAborted`, `realAborted` | the "close" listeners on client and connection and their abort controllers |
| `log`, `received`, `offered`, `serverCloses`, `closer`, `late`, `kept` | history |

Listeners of one event run without microtasks in between, as in Node.js, where a script
dispatches them; a browser may run microtasks there. An original server ends a connection with
"close" (undici's missing "close" after "error" is left out). Incoming messages and errors are
forwarded without state and left out. `ClosesTogether` speaks of the first connection: after
`server.close()` or a "close" of the server the abort controllers stay aborted, and a
reconnection's end is no longer linked to the client's. Nor is that of a passthrough connection
made after the application has already closed the socket (`late`).

## 3. Runs and bounds

| Run | Shows |
|---|---|
| `request_handling` | one verdict, no request that failed or was aborted is performed, the refinement of `RequestOutcome`, that an abort, a verdict, or listeners that finish each end the handling (the first half of `FetchSettles`), and so does the promise of `fetch()` (the second); one aborted never resolves (`AbortedNeverResolves`). 33,930 states |
| `exception_passthrough`, `source_failure` | violations, section 5 |
| `socket_writes` | nothing is lost, duplicated, reordered, sent after a mock, or left unacknowledged; the verdict of one exchange never decides a write past its boundary, and a mocked tunnel stays retargeted; what was written is acknowledged, claimed connections connect and declined ones pass through. 392,956 states, about a minute |
| `overlapping_writes`, `reused_socket` | violations, section 5 |
| `interceptors` | globals are replaced and children owned exactly while somebody owns the interceptor, a failed `apply()` changes nothing, relays exist exactly while somebody listens, and a batch hears an event once. 2,023,871 states, one to two minutes; a deadlock would be an error here, since users can always call something |
| `batch_listeners` | violation, section 5 |
| `web_socket_mock` | mocked messages in order between "open" and "close", forwarded ones in order and once, ends that meet, and a client that opens or closes once its listeners are done. 1,423,023 states, one minute |
| `forwarded_by_default` | violation, section 5 |
| `http_exchanges` | the client hears what was sent, in order, then "end", then one "close", whoever sent it (`ReadsAsPromised`, `ClosedOnce`, and, with fairness, `DeliversAndCloses`); an original response only after its listeners (`HeadGated`); a destroyed socket aborts the pending request (`AbortReaches`); requests before and after a tunnel's boundary reach their own targets (`PassedToItsTarget`). 67,023 states, under a minute |
| `xml_http_requests` | events in the order and `readyState` of the XHR standard, ending once; a request is performed or answered, not both; bodies and headers are complete when it loads; it always ends. 8,822 states |

Bounds. Two `request` and two `unhandledException` listeners: a second one is what the throw of
the first skips, and a third adds no new order, since listeners run in sequence and share
nothing but the controller (the theorems of section 4 hold for any number). `Init` also covers
zero and one. Two subscribers: the last decline and an earlier one. Two exchanges: every kind of
reset has an exchange before and after it. Two writes: one may wait, be in flight or straddle
while the other arrives. The history counters are bounded by those. Two batches are
needed to share a child, two interceptors to fight over a global, and one batch may have two
listeners, so that removing one is not removing the last. One event shows duplicates. Three messages are two of one party
and one of another, two connections a reconnection. In `http_exchanges`, a high-water mark of one
chunk makes every second chunk meet backpressure; two requests are a connection and its reuse, or
a CONNECT and what follows it; three chunks are one heard, one buffered, one waiting; one pause is
enough since a paused stream may stay so. With three requests (3.76 million states, too long to
run each time) the safety properties hold as well. In `xml_http_requests`, two sendings are an instance used again, two chunks
have an order, one redirect reaches the limit (20 in the code) and passes it, and two failing reads are a read that is
tried again. Only the users of `interceptors` can always call something; a request that is handled, and a
socket that is closed, stops, hence `CHECK_DEADLOCK FALSE` in the other runs.

Fairness. The event loop runs what is queued, so `Handler` (the continuations of
`handleRequest`) and `RunTick`, `WriteEnd`, `CompleteClaim`, `ClientCloses` are weakly fair.
Requests that are performed get an answer or fail, and so does every connection attempt and
every write handed to the kernel. `Library` of `WebSocketMock` is the microtasks. In
`HttpExchanges` the event loop, the listeners and bodies of mocked responses, the "response"
listeners and the consumer (which resumes what it paused) are weakly fair; servers, failures,
pauses and `destroy()` are not, nor are the "request" listeners. In `XMLHttpRequests` the "request"
listeners settle, and bodies and redirected requests end; the timer and the consumer are free. Elsewhere no listener, subscriber or client is obliged to do anything:
`FairSpec` of `RequestHandling` and `FetchSpec` let a listener run for ever, and `EventuallySettles`
and `FetchSettles` assume that listeners finish inside their own formulas. `SourceProceeds` of
`FetchRequests` is weakly fair: a real `fetch()` ends, a following one too, and "response"
listeners finish or throw.

Some properties are stated with an escape, for behaviours the code does not order: each names
its variable or definition (`hurried`, `Stale`, `"mock" \in layers`, `CorkedForGood`, `TimedOut`, `Broken`,
`sends > 1`, `AnswerLost`, `LeftUndecided`) and its reason is in the second list of section 5.

Each property has a mutant, a definition changed the way a bug would change it, with which TLC
finds the property violated under the same configuration.

## 4. Proofs

`RequestHandling_proofs` proves, for every number of listeners and every set of failing source
methods, that the specification of `RequestHandling` satisfies `TypeOK`, `OneVerdict`,
`ReturnedMeansDecided`, `ErrorsNeverPassThrough`, `ExceptionVerdictStands`,
`CollisionsComeFromListeners`, and refines `RequestOutcome` (`Refinement`). The assumptions are
those of the modules: the listener bounds are natural numbers and `FailingCalls` is a subset of
the two methods.

The safety properties are not inductive: `OneVerdict`, say, does not tell that `handled` is still
unresolved while the source performs, nor `ErrorsNeverPassThrough` that `passing` comes from the
race alone. `IInv` adds three parts. `Progress`: what each value of `pc` says about the race and
the controller. `Decision`: who decided and what the source's promise says. `Exception`: the
exception controller exists only once the race was lost to an ordinary error. Every action of
the machine does one of five things to the controller (`ControllerStep`), so what concerns the
controller alone is proved once for those (`ControllerTypes`, `ControllerOneCall`) and carried to
all actions by `StepsController`; the other parts go action by action (`StepsEmissions`,
`StepsControl`, `StepsProgress`, `StepsDecision`, `StepsException`). For the refinement,
`StepsKinds` sorts the steps by what they do to the outcome, and `StepsOutcome` maps each kind to
a step of `RequestOutcome` or a stutter.

The second half of the module carries this to `fetch()`. `FetchImplementsHandling` shows that every
behaviour of `FetchSpec` is one of `Spec`, so that all of the above holds of it too. `FetchInv` is
`IInv` with the types of the source and two parts: `AbortedErred`, a handling that returned after
an abort has errored the request, and `SourceWorks`, the source is at work or has a response only
for a request that was let through or answered. That needs to relate a call the source hears to the
verdict (`CallIsVerdict`, from `OneVerdict` before and after the step) and gives
`FetchTypeCorrectness` and `AbortWins`, the property `AbortedNeverResolves`.

`XMLHttpRequests_proofs` proves `TypeOK`, `EventsInOrder`, `NeverBoth` and `AnsweredWhole` for any
number of sends, chunks, redirects and failing reads (`BoundsAssumption`). None of the three is
inductive. `EventsInOrder` looks back at the log, so `IInv` says how far each phase has come:
`Opening` (before the answer), `Deciding` (what the listeners decided and what was asked of the
instance) and `Playing` (while an answer is played no end is in the log, and each phase has its
`readyState`). `AnsweredWhole` needs `FirstSending`, which counts the chunks read and the "response"
events of a first sending from the answer to the load. What an event, or the run of events of a
response, does to a log and to an instance is proved once as *effect lemmas* (`LogFired`, `LogEnds`
and those after them), so that a step only says which effects it has.

`SocketWrites_proofs` proves all safety properties of `SocketWrites`, for any number of
subscribers, writes and exchanges. It goes in layers, each an invariant proved with the ones
before it:

- `Structure`: `TypeOK` and how often a callback may still be invoked. `acks[w] <= 2` is not
  inductive; `Budget` counts, with the invocations made, the one a real connection owes, and says
  that a buffered write that holds its callback has used none.
- `PushOrder`: the writes pushed, and the deferred pushes after them, are in the client's order, and
  nothing but the announcement comes before a deferred push.
- `Fates`: where a write can be under each `readyState`, also while its push is still running
  (`WritingUndecided`: the subscribers called from `#handleWrite` may claim, pass through and reset
  in the middle of it). It gives `MockedStaysLocal`, `NothingLost` and `AcknowledgedAtMostOnce`.
- `SendOrder`: one live connection, whose handle is shared once it is open; what it has sent, what
  it queues and what the controller buffers are in order, in this sequence, and two connections
  share nothing. With `PushOrder` this is `SentOnceInOrder`.

`Due` (no write belongs to an exchange still to come, and none that is still to be made is decided)
gives `DecidedInItsExchange`. It assumes `~Pipelining`, as the run does: a client that writes its
next request before the verdict has that write decided early. `OnTarget` (after `reset(target)` the
live connection is the new one) gives `RetargetedForGood`. The other theorems hold with pipelining
too.

`WebSocketMock_proofs` proves all safety properties of `WebSocketMock`, for any number of messages
and of connections. `Structure` says what the queues hold: what each queued microtask and listener
is about, and that what a connection deferred is flushed when it opens, by nobody else. Each
property then gets an invariant of its own, which follows what is still in a queue:

- `MockOrder`: the mocked messages still to be delivered, those waiting for "open", those whose
  listeners are left to call, and those heard come in this sequence, each in the order of sending.
- `ForwardOrder`: the same for the application's messages, from the "outgoing" microtask through
  `forward`, the deferred queue or its flush, to the connection. Only the client's microtasks carry
  them, so a message is in one of these places; a prevented one is in none past `forward`.
- `NoLoss`: while nobody has closed a connection, an offered message is prevented, in one of those
  places, or given. `Offers` adds that a server handle connected when it was offered stays so.
- `EndsMatch`: why a connection ended and who is still to hear of it. `FirstEnds` speaks of the
  first connection while it is the only one (after a reconnection, handleMockClose closes only
  the current one, and the property is about the first). `ReportedOnce` says that a queued report
  of server.close() is about a connection that is no longer hooked and not reported yet.

`Interceptors_proofs` proves all safety properties of `Interceptors`, for any interceptors, setups
(under the assumptions of section 2), events and listeners. None is inductive, and in most states a
call is in progress, when the properties of section 3 say nothing; the invariants speak of those states:

- `Structure`: `TypeOK`, what a subscription may undo, what a batch has recorded, and `Nested`: each frame of
  `stack` is at the step that called the next one, the frames lie in descending layers, and so no
  interceptor is twice in progress. `EventsHeardOnce` needs no more.
- `Patched`: a replaced global has exactly one who restores it, a subscription or, until its group is
  complete, a `setup()` that still holds it. Subscriptions are undone last first, so the first key of a group
  is restored last; this is why nobody finds only a later key replaced (`GroupsAssumption`).
- `Ownership`: an interceptor in no call is `Settled` (set up exactly if owned, all its steps done, nothing
  subscribed otherwise), one being set up has one owner, one being disposed of has none, and who owns a
  child has subscribed to dispose of it or waits for its `setup()`. With an empty stack this is
  `AppliedWhileOwned` (`SetUpWhileOwned`).
- `Relaying`: who listens to the source forwards its events and will undo it, a bridge reaches exactly
  the children of the batch, and a forwarder listens exactly if it has listeners, except one that a
  disposal under way is about to take off (`Leaving`). It gives `RelaysFollow`.
- `Restorable`: while a user's `apply()` runs, failed or not, what was there when it began is
  untouched, and what was added belongs to interceptors that were not set up then. When the last disposal
  ends, somebody who still owned something new would be owned by a new one a layer above it
  (`AddedIsUndone`), and there is no layer above the first. That is `FailedApplyRestores`.

`HttpExchanges_proofs` proves `TypeOK` (`TypeCorrectness`), `AbortReaches` (`DestroyAborts`) and
`PassedToItsTarget` (`PassthroughTarget`) of `HttpExchanges`, and that it implements `ReadStream`
(`ReadsKeepTheirPromise`), for any number of requests, chunks and pauses. The steps compose operations of `ClientReads`, so there is a lemma for each
operation: it leads from the connections that `conn` may become (`After`: over the same chunks and
ticks, still destroyed if destroyed, "mock" still in the layers, no real connection dialled) to
such connections. The flush and the replay loop over a sequence (`Iterate`, a recursive
function); that what holds of each of their calls holds of all is induction up to the length of the
sequence (`Induction`), which follows from the least element of a set of natural numbers. The
invariant:

- `AnswersOnly`: every chunk that is buffered, queued, corked, sent or heard, and every exchange the
  real connection has yet to answer, belongs to a request that was mocked or passed through (or
  follows a CONNECT that did). It is needed because a client writes its next request once it has
  heard the end of the response: that nothing else is pending then is a matter of what was heard.
- `OneIsPending`: at most the last request is pending, and `hook` is about that one.
- `HookHolds`: the abort hook is in the layers unless "mock" is, and who was pending when the client
  was destroyed is aborted.
- `DialledRight`, `ServedRight`: the controller is retargeted once a request follows a mocked
  CONNECT, a live connection leads to the target of that moment, and so did every exchange served.

The refinement needs more: where everything that was sent and not yet heard is, whichever of the
three writers sent it. `SInv` adds to `IInv`:

- `InLine`, in `Sound`: what was sent is what was heard, then what is in the buffer, then what waits
  for room at the server socket, then what is corked; the end and the close of the real connection
  are behind the data, in the cork or pushed, and an ended stream has nothing behind it.
- `Reaching`, `Mocking`: the real connection has at most the last request to answer, and at most the
  last has a mocked response to write, so two of them never write for one request. A mocked response
  that is over without framing has nobody write behind it; its end, a tick, would otherwise overtake.
- `HttpAlive`, `OtherAlive`: of an HTTP client, what the cork is for and who ended the stream; of
  another, who of a subscriber and a real connection serves it.
- `Closing`: "close" comes after "end" or `destroy()`, also while it is a tick or still with the handle.

`AliveInv` asserts the line only of a client that is read (`Alive`): after `destroy()` or "close" the
pushes are lost, and `Keeping` shows that nothing is heard any more. Each operation gets a lemma
on the line, the flush and the replay one for each of their calls; each action one that it keeps `SInv` and
changes what the consumer sees as `ReadStream` allows (`Promised`). Like the property, the theorem
judges no behaviour in which an original response may overtake the listeners of an informational
one (`hurried`, an input): the cork is then let go too early. `SInv` is not claimed of these either.

`HttpReads_proofs` proves the other two invariants of `HttpExchanges` from that.

- `HeadGated` (`HeadGating`), by `Gates`: a listener is run only for a head that was sent (`KnownHeads`);
  whoever parses the answer that is due belongs to a request the real connection has
  (`Parsing`); while the client can be read, the head of that answer is behind the cork until the
  listeners have settled on it, and so is what a listener runs for (`ReadGated`). The cork is let go
  by the listeners of one event, which are those of the last request unless a parser is stale; then the
  property promises nothing either.
- `ClosedOnce` (`ClosesOnce`), by `OnceInv`. Four may emit "close" on a client: its own handle, a
  tick of `destroy()` or of a close that waited for the reader, the real connection, and the replay of that
  connection's close from the cork. `Steady` says that at most one of them is due and none once
  "close" was emitted, with the state of the real connection that rules out the others; `Followed` that
  a real connection which is gone has its close still under way somewhere, so that nobody dials a
  new one before the client has closed (a second connection would close it again). That is what
  `Unwritten`, `Shared`, `Resolved`, `Opened` and `Silenced` are for: no mocked response is written without
  the override of `_destroy()`, a "response" event comes from a connection whose handle is shared, and
  a client that is destroyed or has closed has no verdict, dial or write still to come.
  The invariant is about clients without that override (`Plain`); `StaysOverridden` shows that the
  override is never taken off, so who has none now never had one.

`SequenceOrder` holds the lemmas about sequences these proofs need (which elements `Append`, `Tail`
and `\o` leave, and which come before which), stated with `Precedes(s, a, b)`.

Only model-checked: the liveness properties (fairness and `ENABLED` are out of the prover's reach),
among them `AcknowledgedOnce` beyond its safety half, `OpensOrCloses` and `DeliversAndCloses`. Every
invariant and every safety property that a passing run checks is a theorem.

## 5. What the runs refute

Six statements of the code's own comments and documentation do not hold of the code. Each has a
run that TLC ends with a counterexample.

- `exception_passthrough`: `controller.passthrough()` in an `unhandledException` listener marks
  the exception handled but performs nothing and decides nothing; `handleRequest` returns and
  the request hangs. The comment at RC:43 promises "Perform this request as-is." (The comment
  at HR:202-203, on falling through to the passthrough when no listener handles the exception,
  describes neither: the code responds with a 500.)
- `source_failure`: if `source.passthrough()` rejects after a *listener* called it, `handled`
  never resolves and `handleRequest`, waiting at HR:223, never ends.
- `overlapping_writes`: `flush-writes.ts` keeps two writes from overlapping on one handle; after
  the handle swap the client's Writable and the real connection's share it without knowing of
  each other.
- `reused_socket`: a connection that passed through because nobody listened or everybody declined
  is reset by the agent's "free" event to a verdict nobody will give.
- `batch_listeners`: a batch keeps its note that it is bridged when a child drops all its
  listeners on somebody else's `dispose()`. Listeners added to a batch before its `apply()` then
  never hear that child. Two batches of one preset share all their children, so one that is
  disposed of after the other got its listeners makes the other deaf.
- `forwarded_by_default`: a WebSocket passed through hears "open" but stays `CONNECTING`, so its
  first `send()` throws and closes it. With a "connection" listener, a `send()` followed at once
  by `close()` is lost: the close reaches the real connection before the message does.

What follows contradicts no statement of the repository, so it has no run of its own. The models
do what the code does here, and the properties name it as their escape where it touches them.

- `Stale`: each exchange that passes through adds a response parser that stays on the reused
  connection until it closes. A later response is reported once more for the earlier request,
  and the reads are uncorked when *those* listeners settle.
- `hurried`: a final response that arrives while the listeners of an informational one still run
  (HS:344-354) is released early, or the cork put back afterwards is never removed.
- `"mock" \in layers`: a mocked response replaces `_destroy()` for the life of the socket
  (HS:528-557). The abort hook below it is gone for later exchanges, and one that passes through
  may see "close" twice.
- `CorkedForGood`: a real connection that ends without a response while corked leaves its "end"
  and "close" in the cork.
- `errorWith()` with a value that is no `Error` resolves `handled` and leaves the client waiting (HS:283).
  A "response" listener that throws takes a mocked response with it.
- `AnswerLost`: in `fetch/web.ts` nobody awaits `respondWith()`, so a "response" listener that throws
  loses the mocked response, and the promise of `fetch()` never settles. It does not either when a
  "request" listener has read the body and let the request through (`request.clone()` throws), or when
  the listener of an original response throws; if handleRequest() let it through itself, `fetch()` rejects.
- The redirect count (`follow-redirect.ts`:42-48) is kept on the request of one hop, and the next hop
  is a new `Request`: the limit is never reached.
- `tunnelUrl` is never cleared, so that each later request in a mocked tunnel retargets the controller again.
- `TimedOut`: the timer of an XHR is looked at between chunks only. A response may end without any
  event, or fire "timeout", "loadend", "load" and "loadend"; one that stalls never times out.
- `Broken`: a read that fails does not leave the loop (XC:508-510), and is tried and reported for ever.
- `sends > 1`: `kIsRequestHandled` stays set on a reused instance, a second mocked response
  cannot define its getters again, and each `send()` adds a "load" listener.
- The response headers of a bodyless mocked response are not readable in its "load" event.

## 6. Not modelled

Vendored llhttp and everything byte-level (message grammar, headers, encodings,
decompression), wording of errors, logging, `AsyncLocalStorage`, type-level code, and the
platform: Node's streams, `EventEmitter`, `AbortSignal`, `EventTarget` and the emitter library
appear only as the code here uses them (marked external in the map). Of the modelled components,
what is left out is with each in `PROJECT.json`: pipelined HTTP requests, the client's half-close,
idle timers, the TLS handshake (`TlsSocketController` overrides three methods and adds no state),
traffic of another protocol in a mocked tunnel, `abort()` of an XHR, the patches of
`net`, `tls` and `http.Agent`. Of `fetch` in browsers, the rules of a redirect (origins, methods, headers) are left out. Without a
module are: `RemoteHttpInterceptor` (planned below), response decompression and the URL and `fetch` utilities (conversions without
state), request context, presets, logger.

## 7. Plan

In order of what the library's users depend on most:

1. Done: RequestController, RequestHandling, RequestOutcome, their proofs; SocketWrites;
   Interceptors; WebSocketMock; ClientReads with ReadStream; HttpExchanges; XMLHttpRequests; FetchRequests and its proofs.
2. Done: proofs of the safety properties of SocketWrites, XMLHttpRequests, WebSocketMock,
   Interceptors and HttpExchanges, and of the refinement of ReadStream.
3. The liveness properties stay with TLC. A proof that `DeliversAndCloses` follows from the fairness of
   the event loop would need a measure that decreases along ticks, flushes and replays.
4. `RemoteHttp`: messages that end the wait of the wrong request.
5. A run on README.md:401 ("the `close` event received from that server is _forwarded to the
   client by default_") after a reconnection.
6. Pure algorithms against reference definitions: raw headers, `getBodyByteLength`.

The order of the rest is that of the list. Each of these is one run that passes, and a violation
run only where a comment of the code turns out not to hold.
