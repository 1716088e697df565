# UniServe libhttp: TLA+ models, model checking and proofs

This directory models the library `us_http`: an HTTP/HTTPS server, a WebSocket
server, a WebSocket client and a libcurl wrapper, written on Boost.Asio and
Boost.Beast. Paths below are relative to the repository root (`src/…` is its
source directory, `inc/us/…` its headers; `WebSocketServer.cpp:54` is line 54 of
`src/WebSocketServer.cpp`).

Run a model with `tlc -config X.cfg M`, a proof module with `tlapm M.tla`.
`PROJECT.json` lists every run, the source lines of every definition, the
hazards, the findings and the theorems.

## 1. Inventory

| Part | State it keeps | Operations | How it interacts |
|---|---|---|---|
| `WebSocketServer::Session`, outbound | `sendQueue_`, one outstanding `async_write` | `send`, `doWrite`, `onWrite` | `send` is called on the session's strand (reply callback) or on any other thread (`sendToClient`, `broadcast`) |
| `WebSocketServer::Session`, inbound | `buffer_`, one outstanding accept or read | `onAccept`, `doRead`, `onRead` | calls the application's handlers, `addClient`, `removeClient` |
| `WebSocketServer::Listener` | the acceptor | `doAccept`, `onAccept` | makes sessions |
| `WebSocketServer` registry | `clients_` behind `clientsMutex_`, handlers | `sendToClient`, `broadcast`, `disconnectClient`, `addClient`, `removeClient` | called by strands and by application threads |
| `WebSocketServer` lifecycle | `running_`, `ioc_`, worker threads | `start`, `stop`, destructor | workers run every strand |
| `WebSocketClient` | three flags, `sending`, `send_queue`, the stream, `buffer` | `connect`, `disconnect`, `send`, destructor, seven completion handlers | one application thread, one io thread, posts and callbacks between them |
| `HttpServer::Session` | socket or TLS stream, `buffer_`, `request_` | `doSSLHandshake`, `doRead`, `handleRead`, `processRequest`, `doWrite`, `close` | runs on any worker, no strand, no lock; calls `handleRequest` |
| `HttpServer::Listener` | the acceptor | `doAccept` | makes sessions |
| `HttpServer` lifecycle | `running_`, `ioc_`, worker threads, `listener_`, `sessions_` | `start`, `run`, `stop`, destructor | main thread and perhaps another |
| `HttpServer` dispatch | route tables, middleware, static directory | `get`/`post`/`put`/`del`/`use`, `handleRequest`, `findRoute`, `wildcardToRegex`, `parseQueryParams` | called by sessions |
| `HttpClient` | curl handle and its options, header list, last headers and code | `request_stream_sync` and its wrappers, `set_header`, `clear_headers`, destructor | libcurl callbacks; the application's callback may call it again |
| TLS context, status output, build files | – | – | – |

What is hard here:

* **Threads that meet in a session.** `sendQueue_` has no lock (`WebSocketServer.cpp:52-61`,
  `144-180`); `HttpServer::Session` has neither lock nor strand and relies on having
  one operation outstanding.
* **Hand-overs of wake-ups.** `send()` leaves a message to `onWrite()` and the
  other way round; in the client there are four such parties.
* **Locks, callbacks and joins.** `broadcast()` calls into sessions under
  `clientsMutex_`; `stop()` joins workers that may want it; the client joins a
  thread that may be in a synchronous close.
* **Flags that outlive what they describe.** `stopping`, `connecting`, `running_`,
  the stopped `io_context`, a buffer with half a message.
* **Failure of one step of several.** A thread that cannot be created, a peer that
  is gone before its session is made, a callback that throws, two loops that both
  see the same connection fail.
* **State reused from call to call.** The tables of routes searched in two loops,
  registrations in the middle of a request, the options and pointers libcurl keeps
  on a handle, requests inside the callback of a request.

What makes each part correct:

* a session: one write at a time, nothing stranded, everything in order and once;
* the registry: what a broadcast visits stays alive, exactly the registered are
  reached, no client is listed after its end was reported or heard before its start;
* the client: one write, one read and one attempt on the stream at a time, order
  across reconnections, every attempt and the destructor end, `disconnect()` holds;
* the HTTP session: one holder at every moment, answers in the order of the requests;
* dispatch: a registration takes no answer away that it should not, wildcards match
  what they say, a handler sees the right parameters, the connection is kept as asked;
* the HTTP client: nothing of one request shows in another, however they nest or fail;
* the lifecycles: a stopped server is at rest, a running one serves, the
  destructor finds no thread.

## 2. Modules

| Module | Models | Code |
|---|---|---|
| `OutboundChannel` | abstract: per connection, messages are accepted and delivered in order, once, while it is open | what `send()`/`onWrite()`, and read/answer, promise |
| `WsSession` | the outbound half of a session | `WebSocketServer.cpp:52-61, 144-180` |
| `WebSocketServer` | everything else of the WebSocket server, composed with `WsSession` | `WebSocketServer.cpp`, `WebSocketServer.hpp` |
| `WebSocketClient` | the client, both threads | `WebSocketClient.cpp` |
| `HttpServer` | HTTP server: lifecycle, listener, sessions | `HttpServer.cpp:39-367, 499-504, 658-689` |
| `RequestText` | the functions on texts: wildcards to regular expressions and their matching, targets, query parameters, each with its meaning in other terms | `HttpServer.cpp:370-395, 539-573` |
| `RouteTable` | abstract: each method and path has one answer, which only a stronger route takes over | what `get()`…`del()` and `findRoute()` promise |
| `HttpDispatch` | registrations, and a request through middlewares, search, handler, file or 404 | `HttpServer.cpp:398-481, 563-656` |
| `MCHttpDispatch` | TLC instance: the patterns, targets and files | – |
| `HttpClient` | the libcurl wrapper | `HttpClient.hpp` |
| `WsSessionProofs`, `WebSocketServerProofs`, `WebSocketClientProofs`, `HttpServerProofs`, `HttpDispatchProofs`, `HttpClientProofs` | theorems | – |
| `RequestTextProofs`, `QueryProofs` | theorems about texts of any length, which `HttpDispatchProofs` extends | – |

Composition. `WebSocketServer` extends `WsSession`: the steps `SendTest`,
`SendPush`, `SendStart`, `OnWriteOk`, `OnWriteNext` and `OnWriteError` of the
session are steps of the server under the guards the server adds (a free worker,
`clientsMutex_`), and the labels they go on to are the server's. `WsSession`
alone lets any thread call `send()`. Both `WsSession` and `HttpServer`
implement `OutboundChannel`, under the mappings written in `Channel` and
`Exchange`; `HttpDispatch` implements `RouteTable` under the mapping in `Table`.
`HttpDispatch` is what happens inside the one step `Answer` of `HttpServer`, for one
request at a time: the choice of `keep` there is the `response.keep` here.

Conventions. A message, and an HTTP request, is a number: its place in the order
in which it was pushed, or read. An asynchronous operation is a variable that says
it is outstanding; its completion is an action of the transport that sets the
result, or the handler itself where nothing can happen in between that matters.
What Beast turns into an assertion failure (a second write, read or connect on a
stream) sets `ended`, after which nothing happens. Each module has a section with
wrong forms of some of its definitions (`Mut…`): every property of every passing
run is violated when the definition named in `PROJECT.json` is replaced by its
wrong form. No specification refers to them.

### WsSession

An actor is a session's strand or an application thread. `send()` is three steps,
one per access to `sendQueue_`: the test (`SendTest`, into the local `wip`), the
`push_back` (`SendPush`) and `doWrite()` (`SendStart`). `onWrite()` is two:
`pop_front` (`OnWriteOk`) and the test with `doWrite()` (`OnWriteNext`). The lock
`clientsMutex_`, which lets one application thread at a time into `send()`, is the
guard of `BeginSend`. `doWrite()` gives `async_write` a buffer over a local string:
the frame it writes is the front message or a member of `Garbage`. `Garbage`
is empty in runs that do not look at frames; where it is not, `IsChannel` holds of
the number, the places and the order of frames and claims nothing of their bytes.

### WebSocketServer

Actors as above; the strand of a session takes a handler when one of the
`workers` is free and `ioc_` is not stopped (`WorkerFree`). `pc` says where in its
handler an actor is: `add`, `greet` (onAccept), `dispatch` (onRead's loop
over `messageHandlers_`), `remove`, `notify` (the end of a connection), `handler`
(in a handler of the application, of the kind that `during` says), `loop`,
`test`, `push`, `start` (an application call under the mutex). Every handler, of
connections, messages and disconnections, may call `sendToClient`, `broadcast` and
`disconnectClient`, on this strand; a message handler may also reply through its
callback. The owner runs `start()` and `stop()` in their
steps. `stop()` sets `iocStopped`, waits until no strand is in a handler (`Joined`)
and clears `running_`; nothing resets `iocStopped`.

Abstractions: the application registers its handlers before `start()` and has a
connect and a disconnect handler; the reply callback is not kept beyond its handler;
`stop()` is not called by a handler; a second `start()` gets past `bind()` (port 0, or a system where `SO_REUSEADDR` lets
two sockets listen); a deque that two threads are in at once stays whole.

### WebSocketClient

One application thread (`user`) and the io thread (`io`). Handlers are split where
they call back into the application (`…Callback`), where they sleep, and between
`doRead()` and `doSend()` of `onHandshake()`, and where the other thread can see one flag
changed and not yet the other: `onHandshake()` resets `connecting` before it sets
`connected` (`shaken`, `unshaken`), and the task of `disconnect()` resets `connected`
before `connecting` (`closed`). In each of these a `connect()` may find both flags clear.
`disconnect()` likewise reads the two flags one after the other. `connect()` tests both
flags twice, in itself and in `doConnect()`, and a call that finds one set either time
does nothing; `ConnectTest` is the second test, which is the one that decides. `tasks` is what was posted to `ioc`,
first in, first out. `resolves` counts outstanding `async_resolve`s, because a
second attempt can start while one is out; `stage` is the step outstanding on the
stream. `link` says whether the stream is open, which decides what a posted
`ws.close()` does: it returns at once on a stream that is not open, and otherwise
holds the io thread until the peer answers (`closing`). `ioc.run()` returns when it
has nothing outstanding (`NoWork`), and the thread ends.

Abstractions: setters are called before `connect()`; one application thread;
`sendBinary()` is `send()`; the ping and idle timeouts of Beast are among the errors
a read may end with; what `buffer` holds is left out.

### HttpServer

`main` calls `start()`, `run()` and the destructor, the threads in `Stoppers` call
`stop()`. Runner 0 is main in `run()`, the others are the workers. `stop()` is its
test of `running_` (`StopTests`), the stores and `ioc_->stop()` (`StopStores`), and
the join (`StopReturns`). A session is the set of places that hold its
`shared_ptr`: an outstanding handshake, read or write, or a runner in its handler
(`jobs`). `closeAllSessions()` finds an empty `sessions_`, so it changes nothing. The
acceptor stays open after `stop()`: the `async_accept` in the stopped `ioc_` holds
the listener, and a second `start()` can bind only on port 0 or where
`SO_REUSEADDR` lets two sockets listen (`FixedPort`). The destructor of a server
whose threads were not joined ends the process. `start()` may fail to create a
thread (`ThreadsFail`): it then resets `running_` and leaves the earlier workers and the
listener at work. `toSpawn` goes on saying how many threads are missing, and `Short`
names that situation, which lasts until a `start()` succeeds.

Abstractions: main does not start or destroy the server while another thread is in a
call, nor does another thread stop it while main is in `start()`; handlers and
middleware throw nothing but `std::exception`; routes are registered before
`start()`; a failed accept only accepts again; whether a response keeps the
connection is any choice.

### RequestText, RouteTable and HttpDispatch

A text is a sequence of characters. `WildcardToRegex` gives a sequence of atoms
(`.*`, `.`, a character), `MatchPath` runs it as `std::regex_match` does, by the set
of atoms that can be behind after each character, and ignores case, as
`std::regex::icase` does. `ParseQueryParams` splits as `boost::split` does. Beside
them stand the meanings they are checked against, in terms of cuts of the path
(`Covers`) and of positions in the query (`ParamsOf`).

In `HttpDispatch` a request goes from `Arrive` through the middlewares (each passes,
answers or throws, and may set `keep_alive()` of the response it is given), through
`FindRoute`, to a handler that returns or throws, a file, or 404; `at` says where it
is. `Register`, `Use` and `SetStaticDirectory` may come before any request, between
two, and from within a handler; `Register` and `SetStaticDirectory` also from a
middleware. `RouteTable` knows no vectors and no search: it keeps, for each method and path,
the handler that answers, and a registration takes an answer over where there was
none or where an exact route meets a path that only a wildcard answered.

Abstractions: one request at a time, because the tables have no lock; `use()` from
within a middleware, which would invalidate the loop over `middlewares_`, is left
out; bodies, header fields and status are left out but for `keep_alive()`.

### HttpClient

`stack` is the calls of `request_stream_sync()` under way, the innermost last: more
than one where a callback makes a request. `options` is what the libcurl handle
holds. libcurl keeps pointers, to the data, to the header list, to `full_response`:
each is modelled by the number of the call or of the list that owns what is behind
it, so a pointer to something gone is a wrong number. Headers and pieces of the body
arrive in any number and order, and the transfer succeeds, fails or meets its time
limit at any moment. A callback that throws unwinds its call, and the next one out if
the callback around it does not catch: `CallbackEnds` is both its return and its
throw, because `request_stream_sync()` does nothing after it.

Abstractions: one thread; a client is not copied; a body is the sequence of its
pieces; at most `MaxDepth` calls within each other.

## 3. Runs

Passing runs.

| Run | Instance | Properties | What it shows |
|---|---|---|---|
| `WsSession_channel` | 2 sessions, 1 other thread, 2 messages each, garbage | `IsChannel`, `SafeWhileExclusive` | the queue keeps the order, whatever races in `send()`; what races break is when, and by whom, writes are started, and only races of two actors in one session break it |
| `WebSocketServer_threads` | 2 clients, 2 workers, 1 thread, 1 send to each client, nothing from clients, fair | `TypeOK`, `PinnedWhileUsed`, `BroadcastExact`, `GoneIsUnlisted`, `ConnectFirst`, `LossReported`, `StopEnds` | the registry and the order of notices hold under full concurrency; losses are reported, and `stop()` ends while both workers and the thread contend for `clientsMutex_` |
| `WebSocketServer_one_worker` | 2 clients, 1 worker, 2 sends to and 1 message from each, fair | `NoticesBounded`, `OneWriteAtATime`, `NoStranded`, `Served` | with one worker handlers do not overlap and cross-client sends are safe: also the second of two messages is written |
| `WebSocketClient_safety` | 2 connects, 2 messages, reconnection, callbacks throw, garbage | `TypeOK`, `OneWriteAtATime`, `SentInOrder` | the flags protect the stream's writes and the queue's order |
| `WebSocketClient_progress` | 1 connect, 2 messages, reconnection, callbacks return, fair | `NoStranded`, `ReadsWhileConnected`, `AttemptEnds`, `Retries`, `QueueDrains`, `StopEnds` | nobody is forgotten on a connection; attempts end, failures are retried, the queue drains, the destructor returns unless it waits for a close |
| `HttpDispatch_routing` | 2 routes of 6 patterns on GET, 5 targets with GET and HEAD, 1 middleware, static files | `TypeOK`, `WildcardsMean`, `ParamsRight`, `KeepAsAsked`, `IsRouteTable` | the search through vectors and regular expressions is a table that only stronger routes change |
| `HttpClient_requests` | 3 requests of any method, 2 deep, 2 pieces, 2 header lists, fair | `TypeOK`, `SentAsAsked`, `FreedOnce`, `ResponseOfLast`, `RequestEnds` | requests in a row or nested, failing anywhere, show nothing of each other and end |
| `HttpServer_serving` | 2 TLS clients, 2 workers and `run()`, 2 requests, 2 starts, one stopper, thread creation may fail, fair | `TypeOK`, `OneHolder`, `WorkersStopped`, `DestroysCleanly`, `IsExchange`, `Answered`, `StopEnds` | a session is never shared by two threads and answers in order, and in the end; `stop()` and the destructor do what they must |

Runs that show where the code does not do what its own text says. Each checks one
property; the finding in `PROJECT.json` quotes the text.

| Run | Property | What happens |
|---|---|---|
| `WebSocketServer_two_workers` | `OneWriteAtATime` | handlers of two clients start two writes on one stream |
| `WebSocketServer_broadcast` | `CountsReceivers` | a client's connection ends, its handlers have not run yet, and `broadcast()` counts it |
| `WebSocketClient_connect` | `ConnectEnds` | the io thread ended before `connect()` |
| `HttpServer_restart` | `RunningServes` | start, stop, start: `ioc_` stays stopped |

What else the models contain that the code's text does not say, and that no run
singles out. The properties above are stated around these: where one has a
disjunct or a premise that looks odd, the reason is here.

* `WsSession` with a thread of the application: `send()` finds the queue non-empty,
  `onWrite()` pops the last message and finds the queue empty, `send()` pushes: nobody
  writes (`NoStranded` fails for `Threads` not empty; `WebSocketServer.cpp:54`).
  `SafeWhileExclusive` says that nothing else makes it fail.
* Both `doWrite()` of the session and `doSend()` of the client hand `async_write` a
  buffer over a local that is gone when they return (`WebSocketServer.cpp:150`,
  `WebSocketClient.cpp:228`); hence `Garbage`.
* `disconnectClient()` erases the client from `clients_` and no more: the connection
  stays open, its messages are handled and its end is reported (`:350`).
* Every handler of `messageHandlers_` hears every client, whatever path it asked for
  (`:132`).
* `WebSocketServer`, too, never restarts `ioc_` (`:298`): a second `start()` returns
  true, and no handler runs after it.
* The constructor of `Session` throws when the peer has gone, out of
  `Listener::onAccept` and out of the worker thread (`:31`): `ended = "exception"`.
* In the client, an attempt goes on and connects after a `disconnect()` during it
  (`WebSocketClient.cpp:329`), and a `connect()` after that starts a second attempt on
  the same stream (`:107`): `ended = "attempts"`.
* A synchronous close waits for the peer, and with it the destructor (`:329`):
  `io = "closing"` in the liveness properties.
* `stopping` is never reset (`:325`): after a `disconnect()` no connection is retried.
* A callback that throws leaves a connection that is up and that nobody reads (`:86`):
  `ReadsWhileConnected` and `NoStranded` are checked with `Throws = FALSE`.
* `HttpServer`: `closeAllSessions()` finds no session (`HttpServer.cpp:349`); a failed
  `start()` leaves workers (`:337`, `Short`); `stop()` does not wait for the thread in
  `run()` (`:355`), of which `WorkersStopped` says nothing; two threads in `stop()`
  join the same threads (`:342`), so `DestroysCleanly` is for one stopper.

* A handler's own response, and the 500 of `processRequest()` after a middleware
  threw, do not carry the request's keep-alive (`HttpServer.cpp:130`, `:641`):
  `KeepAsAsked` is about the other three answers. All of them are written with their
  body to a HEAD request too (`:653`).
* A directory under the static directory opens as a file and is answered with 200 and an
  empty body (`:611`): `StaticFiles` has one.
* A query pair with two `=` is dropped without a word (`:553`); an empty pair gives the
  empty key. Neither keys nor values are decoded.
* `HttpClient::request_stream_sync` with POST and no data sets no `CURLOPT_POSTFIELDS`, and
  libcurl reads the body from standard input (`HttpClient.hpp:129`). Fields of interim
  (1xx) responses and of redirects stay in `response_headers_` beside those of the last
  (`:181`). A copy of a client frees the same handles again (`:19`).
* The reply callback holds `this` and not the session (`WebSocketServer.cpp:134`).

### Bounds, and why they are enough

Sessions interact only through the registry and the workers, so two of them, with a
thread of the application where it matters, show every pair of parties that can
meet. The queue matters empty, with one message and with more than one, so two messages
suffice, and `WebSocketServer_one_worker` and `WsSession_channel` have them: the second
`send()` leaves its message to `onWrite()`. `WebSocketServer_threads` asks for the order of
notices, what `clientsMutex_` protects and whether `stop()` ends, for which one message to
each client is enough; its clients send nothing (`MaxIn` = 0), since connect and disconnect
handlers make the same calls as message handlers do, and for its five invariants the
theorems `WsTypeCorrect`, `WsPinned`, `WsBroadcastExact`, `WsGoneIsUnlisted` and
`WsConnectFirst` need no bound. Message handlers run in `WebSocketServer_one_worker`. The
server's runs start it once (`MaxStarts` = 1): after a `stop()` no handler runs again. In
`HttpServer` `MaxStarts` = 2 is start, stop, start. In the client, whose reconnections are not
bounded, attempts overlap where a connection fails in its read and in its write and both
retry, and, in `WebSocketClient_safety`, where a second `connect()` comes between; the
liveness run has one `connect()`, so it does not ask whether two calls of `connect()` at
once end. Two messages give the overlap of one in flight and one queued; `MaxTasks` keeps
the application from calling `disconnect()` without end while the io thread is busy.
`Garbage` needs one member.
Whether a route wins over another is decided between two routes, so `HttpDispatch`
has two; its patterns hold a wildcard of each kind, a character that regular
expressions give a meaning, capitals, and every kind of overlap, its targets every
kind of pair. In `HttpClient` three requests give one in the callback of another and
one after both; what a fourth sees is what the third saw. What the proofs of section 4 cover holds beyond these
bounds.

Deadlock is checked in `HttpDispatch_routing`, which never stops. The other systems
may stop, be destroyed, or run out of messages, clients and requests.

### Fairness, and why the code justifies it

* Calls that were made go on (weak fairness of the steps of `stop()`, `send()`,
  `connect()`): threads are scheduled and the application's handlers return.
* Handlers that are ready get a thread (strong fairness of `Strand(s)`, of the
  client's `Task`, `Attempt` and `OnWrite`, of `OnWrite` in `HttpServer`): asio queues ready handlers first in, first out, and one of them can
  become disabled for a while only because its thread is in another. For the
  WebSocket server the same assumption covers waiting for `clientsMutex_`.
* An `async_write` ends (weak fairness of `Transport`): the peer takes the data, or
  TCP gives up. In `HttpServer` only while `ioc_` is not stopped.
* In the client, `async_resolve`, `async_connect` and the handshake end (strong
  fairness of `OnResolve`, `OnConnect`, `OnHandshake`): the resolver and TCP have
  their own limits and `timeout::suggested` gives the handshake 30 seconds.
* In `HttpClient`, callbacks end and libcurl keeps to `CURLOPT_TIMEOUT` (weak fairness of
  `CallbackEnds` and `TimesOut`, the second enabled only while that option is set);
  that a server ever answers is not assumed.
* Not fair: clients and peers. Nobody has to connect, send, close, or answer a close.

## 4. Proofs

All for every value of the constants that the named assumptions of the modules allow:
any sets of sessions, threads and connections, any bounds.

| Theorem | States | Further assumption |
|---|---|---|
| `SessionTypeCorrect` | `[]SessionTypeOK` | – |
| `SessionInOrder` | `[]InOrder` | – |
| `SessionIsChannel` | `WsSession` implements `OutboundChannel` | – |
| `SessionSafeWhileExclusive` | `[]Exclusive => [](OneWriteAtATime /\ NoStranded)` | – |
| `ClientTypeCorrect` | `[]TypeOK` | – |
| `ClientOneWrite` | `[]OneWriteAtATime` | – |
| `ClientNoneStranded` | `[]NoStranded` | `~Throws` |
| `ClientReads` | `[]ReadsWhileConnected` | `~Throws` |
| `ClientSentInOrder` | `[]SentInOrder` | – |
| `ServerTypeCorrect` | `[]TypeOK` | – |
| `ServerOneHolder` | `[]OneHolder` | – |
| `ServerIsExchange` | `HttpServer` implements `OutboundChannel` | – |
| `ServerWorkersStopped` | `[]WorkersStopped` | `Stoppers # Callers` |
| `ServerDestroysCleanly` | `[]DestroysCleanly` | `Stoppers # Callers` |
| `WsTypeCorrect` | `[]TypeOK` | – |
| `WsPinned`, `WsBroadcastExact` | `[]PinnedWhileUsed`, `[]BroadcastExact` | – |
| `WsConnectFirst`, `WsGoneIsUnlisted` | `[]ConnectFirst`, `[]GoneIsUnlisted` | – |
| `WsOneWorkerOneWrite`, `WsOneWorkerNoneStranded`, `WsNoticesBounded` | `[]OneWriteAtATime`, `[]NoStranded`, `[]NoticesBounded` | `OneWorker` |
| `DispatchTypeCorrect`, `DispatchKeepsAsAsked` | `[]TypeOK`, `[]KeepAsAsked` | – |
| `WildcardCovers` | `MatchPath(path, WildcardToRegex(pattern)) <=> Covers(pattern, path)` for all texts | – |
| `QueryParamsAre` | `ParseQueryParams(query) = ParamsOf(query)` for all texts | – |
| `DispatchWildcardsMean`, `DispatchParamsRight` | `[]WildcardsMean`, `[]ParamsRight` | – |
| `DispatchIsRouteTable` | `HttpDispatch` implements `RouteTable` | – |
| `DispatchAnswersStay` | a path that has a handler keeps it, but for its first exact route | – |
| `HttpTypeCorrect`, `HttpSendsAsAsked`, `HttpFreesOnce`, `HttpResponseOfLast`, `HttpBodyWhole` | the five invariants | – |

`OneWorker` is `Threads = {}`, `NThreads \in {0, 1}` and finitely many sessions.
The further assumptions are needed: with threads of the application a wake-up is lost
and two writes start (section 3, and the run `WebSocketServer_two_workers`);
callbacks that throw skip the `doSend()` of `onHandshake()`; and two stoppers can join
the same threads.

**WsSession.** The type invariant is not inductive as it stands: `pop_front` of an
empty queue would leave the type. `TypeInv` adds that while a write is outstanding
the queue holds the message being written. Order is `OrderInv`: the frame of the
outstanding write is the message after the last one on the wire, and the queue holds
the consecutive numbers up to `pushed`. The lemmas `OrderedPush`, `OrderedPop`,
`OrderedStart` and `OrderedDone` say what each access to the queue does to that, and
every action is one of them. The refinement follows: `SendPush` accepts,
`WriteDone` delivers, `WriteFails` and `ConnectionLost` break, all else stutters.
`SafeWhileExclusive` is about any number of threads. It says of a behaviour in which no
two actors are ever in `send()` or `onWrite()` of one session (`Exclusive`) that writes do
not overlap and no message stays behind; the run `WebSocketServer_two_workers` and
the first bullet after the table of violated runs show both failing in the others. `TurnInv` is its invariant: the test in
`send()` is still true at its `push_back`, a write starts only where there is none, and a
queue that holds a message is seen to (`Awaited`). Each step preserves it given `Exclusive`
before and after.

**WebSocketServer.** The lemmas of `WsSessionProofs` about the streams (`StreamInv`,
`StreamNext`) are stated for any label the steps of a session go on to, so they serve
the server's steps as well (`ServerStreamNext`). On top of the types, `Locked` says
what holds while `clientsMutex_` is held across steps: who is in `loop` or in `send()`
for it, that what is left to visit is registered, and that reached and left make up
`clients_`; only `AddClient`, `RemoveClient` and `DisconnectClient` change
`clients_`, and each waits for the mutex. `Lives` says where in its life each session
is; its hard part is that nobody sends to a session that was never registered
(`Unknown`), which is why no write can fail, and no end be reported, before the connect
handler. `Alone`, for one worker, says that one strand at most is in a handler and that
every queued message has a write out, a completion to come, or that strand in the
middle of `send()` for it; `FreeAlone` is where finiteness of `Sessions` is used.
`Notices` counts ends: a loop that is over never starts again (`ReadOver`,
`WriteOver`, `WriteOverStays`).

**HttpDispatch.** The lemmas `FoundExists`, `FoundUnique` and `FoundNone` show that
the two loops of `findRoute()` stop at one entry at most, `FoundAppend` what a new
entry at the end of a table does to what is found; `RegisterAnswers` puts that in the
terms of `RouteTable`. The mapping is then checked action by action.
`DispatchAnswersStay` is what it says to somebody who registers routes. The patterns and
targets of an instance are assumed to be texts (`HttpDispatchAssumption`). `Inv` says that
what is searched for comes from them, `InHand` that the parameters of the request
in hand are those of its query until it is answered; `DispatchWildcardsMean` and
`DispatchParamsRight` are then the next two theorems at that request.

**RequestText.** `MatchPath`, `Split` and `ParseQueryParams` fold over texts, and what
they compute for every text needs induction. The induction theorems of the library
take an operator as a parameter, but `WFMin` and `NatLessThanWellFounded` do not: from
them `Least` follows, that a set of numbers has a least one, and from that `UpTo`, that
a set with 0 and with the successor of each of its numbers up to n has them all. Every
induction here is a use of `UpTo` with the set of numbers for which the claim holds.
`FoldLeft` is defined by a `CHOOSE` of a function on sets of positions: `FoldExists`
builds that function, and `FoldIsLoop` says that its values at `1..k` are those of a
loop over k (`ReadFold`, `SplitLoop` and `ParseLoop` instantiate it).

* Wildcards. The loop invariant is `Reached`: the numbers of atoms that can be behind
  once k characters are read are those j whose first j pattern characters cover
  them, and those in front of a `*` that does. `CoversStar` and `CoversChar` say how a
  cover is extended by one character of the pattern, `CoversSkips` and `CoversBack` how
  stars at its end come and go, `AtomsMean` that an atom takes what its pattern
  character stands for, the escaped ones included; `ReachedFirst` and `ReachedNext`
  are the two steps of the loop.
* Queries. `IsSplit` gives each piece of a split text its place: pieces follow each other,
  lie between separators and have none inside (`SplitIs`). `PairSays` is `AddPair` on one
  piece: no `=`, one, or more, which adds nothing. `PairsAre` identifies the pieces
  with the pairs of `ParamsOf`, and `SaysUpTo` is the invariant of the loop over them:
  the keys so far, each with the value of its last pair so far. `WinnersSay` reads the
  theorem off it.

**HttpClient.** `Inv` is the five invariants with `NestingOK`: every call but the
innermost is in its callback. `RequestInv` needs it: a request replaces the options
that the calls around it were made with, and those need them no more.

**WebSocketClient.** `ControlOK` (threads, flags, stream) and `MessagesOK` are
proved separately, the second together with `OneWriteAtATime`, since what `doSend()`
does depends on `sending` agreeing with the outstanding write (`DoSendStep`).
`NoStranded` is inductive given those: `PostKeeps` and `TakeKeeps` say that a
posted `doSend()` is there until it is taken, and a `doSend()` that is taken leaves
the queue empty, the connection down or a write outstanding. `ReadsWhileConnected`
needs `ReadInv`: while an attempt is on its way nothing is read and the client is not
connected, because `async_connect` starts only on a stream that is not in use, and
between `onHandshake()` or `onRead()` and their `doRead()` no read is out, from before
`connected` is set. The order of
messages is `OrderInv`: the queue holds the last messages that were pushed, the wire
and the write that is out hold earlier ones in rising order (or garbage), and the
numbers add up; `DoSendOrder` and `WriteEnds` are its two moves, and `OrderSeen` reads
`SentInOrder` off it.

**HttpServer.** `IInv` is `LifeOK /\ ConnsInv /\ MannedInv`. `OneHolder` needs
`MannedInv` (a busy runner has one request in hand, an idle one none) and `TurnInv`
(the request being handled or answered is the last one read, and all before it are
answered); the refinement is read off `TurnInv`: a read accepts, `WriteDone`
delivers the next answer, whatever closes a connection breaks it. `StopInv` says
where calls of `stop()` can be, and that workers exist only while `running_` is set,
a `stop()` is joining them, or the last `start()` fell short (`toSpawn > 0`); two
concurrent calls of `stop()` break it.

Only proved: `SessionTypeOK` and `InOrder` of a session and `BodyWhole` of `HttpClient`,
which are parts of what other invariants and `IsChannel` say. Only proved, too: `DispatchAnswersStay`,
a consequence of `IsRouteTable`, and the two theorems about texts of any length. Every
invariant and every refinement that a passing run checks is proved. Only model-checked:
every liveness property (the prover has no rules for fairness), and everything that is
violated.

## 5. Not modelled

* Data races as such: two threads inside one `std::deque`, `unordered_map` or
  `vector`. The models interleave whole accesses, which already shows the hazards of
  `sendQueue_`; a torn container has no useful set of outcomes.
* Beast, Asio, OpenSSL and TCP beyond what the code sees of them: results of
  operations, in any order, with any failure.
* `stop()` from a worker, setters during operation, registrations from a second thread,
  `use()` from within a middleware, a reply callback kept beyond its handler, copies of
  an `HttpClient`: each is an error at one line with no state of its own to explore.
* Bodies, header fields and status codes of HTTP messages, content types of static
  files; URLs and texts in `HttpClient`.
* Numbers of clients and the like (`getClientCount`), which change nothing.
* `initSSLContext`, `showStatus`, `print_all_header_fields`, build files.

## 6. Plan

Done: every component with state of its own is modelled, checked and, but for
liveness, proved. What would come next, in order:

1. `stop()` and a failed `start()` against the destructor of `WebSocketServer`, as
   `HttpServer` has it.
2. `HttpDispatch` inside `HttpServer`: handlers of two sessions on two workers that
   search the tables at once, which is sound as long as nobody registers.
