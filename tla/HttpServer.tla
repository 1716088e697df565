------------------------------ MODULE HttpServer ------------------------------
(***************************************************************************)
(* HttpServer (HttpServer.hpp, HttpServer.cpp): the life of the server,    *)
(* its listener, and the sessions that read a request, have it handled and *)
(* write the response, over and over, on whichever thread is in ioc_.run().*)
(*                                                                         *)
(* The application's main thread calls start(), run() and the destructor;  *)
(* stop() is called by the threads in Stoppers.  main does not start or    *)
(* destroy the server while the other thread is in a call, and the other   *)
(* thread does not call stop() while main is in start().                   *)
(*                                                                         *)
(* A session lives as long as the lambda of an operation, or a handler on  *)
(* a thread, holds its shared_ptr; nothing else does: addSession() and     *)
(* removeSession() are never called and sessions_ is always empty.         *)
(* A request is named by its place in the order of the reads.              *)
(***************************************************************************)
EXTENDS Naturals, Sequences

CONSTANTS
    Conns,         \* connections clients make
    NThreads,      \* threads_
    Tls,           \* ssl_enabled_
    FixedPort,     \* port_ is not 0: no two sockets listen on it
    Stoppers,      \* who calls stop(): "main", "other" or both
    MayRun,        \* main may call run()
    ThreadsFail,   \* the system may refuse to create a thread
    MaxRequests,   \* bound: requests each client sends
    MaxStarts      \* bound: calls of start() that get past the bind

ASSUME HttpServerAssumption ==
    /\ NThreads \in Nat
    /\ Stoppers \subseteq {"main", "other"}
    /\ {Tls, FixedPort, MayRun, ThreadsFail} \subseteq BOOLEAN
    /\ MaxRequests \in Nat
    /\ MaxStarts \in Nat

Callers == {"main", "other"}

\* Workers in the order of their creation; 0 is main, in run().
Workers == 1..(NThreads * MaxStarts)
Runners == Workers \cup {0}

VARIABLES
    main,        \* where main is; "out" of every call but stop()
    stopAt,      \* where each thread is in stop(); "out" of it
    stopped,     \* a stop() has returned and no start() has succeeded since (history)
    starts,      \* calls of start() that got past the bind
    toSpawn,     \* threads start() has still to create, or failed to
    running,     \* running_
    iocStopped,  \* ioc_ is stopped; nothing calls restart()
    accepts,     \* async_accepts outstanding; each holds its listener open
    at,          \* what each runner does
    jobs,        \* who handles which request of which connection
    conn,        \* each connection: not made, queued in the kernel, open, closed
    shaking,     \* connections whose async_handshake is outstanding
    reading,     \* connections whose async_read is outstanding
    writing,     \* the async_write of each connection: none, pending, or its result
    response,    \* the request the response of that write answers
    keep,        \* keep_alive() of that response
    asked,       \* requests read so far (history)
    answers,     \* the requests answered, in the order of the responses (history)
    ended        \* what ended the process: nothing yet, two joins of one
                 \* thread, or the destructor of a thread not joined

lifeVars == <<main, stopAt, stopped, starts, toSpawn, running, ended>>
ioVars == <<iocStopped, accepts, at, jobs>>
connVars == <<conn, shaking, reading, writing, response, keep, asked, answers>>
vars == <<main, stopAt, stopped, starts, toSpawn, running, ended,
          iocStopped, accepts, at, jobs,
          conn, shaking, reading, writing, response, keep, asked, answers>>

Init ==
    /\ main = "out"
    /\ stopAt = [p \in Callers |-> "out"]
    /\ stopped = FALSE
    /\ starts = 0
    /\ toSpawn = 0
    /\ running = FALSE
    /\ ended = "no"
    /\ iocStopped = FALSE
    /\ accepts = 0
    /\ at = [w \in Runners |-> "none"]
    /\ jobs = {}
    /\ conn = [c \in Conns |-> "away"]
    /\ shaking = {}
    /\ reading = {}
    /\ writing = [c \in Conns |-> "none"]
    /\ response = [c \in Conns |-> 0]
    /\ keep = [c \in Conns |-> FALSE]
    /\ asked = [c \in Conns |-> 0]
    /\ answers = [c \in Conns |-> <<>>]

Alive == ended = "no"

-----------------------------------------------------------------------------
(* Mistakes the mutation runs put in the place of the definitions below.   *)

MutJoined == TRUE                                 \* detach() in place of join()
MutCleared(f) == f                                \* the loop that joins forgotten
MutDrained == shaking \cup reading = {}           \* stop() waits for the sessions
MutPoolSize == NThreads + 1                       \* i <= threads_
MutReadFirst(c) == reading                        \* doRead() again before the response
MutSilent(c) ==                                   \* the catch logs and does not write
    writing' \in {writing, [writing EXCEPT ![c] = "pending"]}
MutAnswered(c, n) == [response EXCEPT ![c] = 1]   \* the first response sent again

-----------------------------------------------------------------------------
(* start() and run(), on main.                                             *)

Apart == main = "out" /\ \A p \in Callers : stopAt[p] = "out"

\* The size of the pool start() creates.
PoolSize == NThreads

\* start() up to running_ = true; call is "start" or "run".
StartListens(call) ==
    /\ Apart
    /\ ~running
    /\ call = "run" => MayRun
    /\ FixedPort => accepts = 0
    /\ starts < MaxStarts
    /\ starts' = starts + 1
    /\ accepts' = accepts + 1
    /\ running' = TRUE
    /\ stopped' = FALSE
    /\ toSpawn' = PoolSize
    /\ main' = call
    /\ UNCHANGED <<stopAt, ended, iocStopped, at, jobs, connVars>>

\* worker_threads_.emplace_back
StartSpawns ==
    /\ main \in {"start", "run"}
    /\ toSpawn > 0
    /\ toSpawn' = toSpawn - 1
    /\ \E w \in Workers :
          /\ at[w] = "none"
          /\ \A v \in 1..(w - 1) : at[v] # "none"
          /\ at' = [at EXCEPT ![w] = "idle"]
    /\ UNCHANGED <<main, stopAt, stopped, starts, running, ended, iocStopped, accepts, jobs,
                   connVars>>

\* Where main is once its start() has returned, and whether it runs ioc_ then.
AfterStart(call) == IF call = "run" THEN "ioc" ELSE "out"

Enter(call) ==
    /\ main' = AfterStart(call)
    /\ at' = [at EXCEPT ![0] = IF call = "run" THEN "idle" ELSE "none"]

\* start() catches what it throws and only resets running_.
StartReturns ==
    /\ main \in {"start", "run"}
    /\ \/ toSpawn = 0 /\ UNCHANGED running
       \/ ThreadsFail /\ toSpawn > 0 /\ running' = FALSE
    /\ Enter(main)
    /\ UNCHANGED <<stopAt, stopped, starts, toSpawn, ended, iocStopped, accepts, jobs, connVars>>

\* run() whose start() did nothing, or could not listen.
RunEnters ==
    /\ Apart
    /\ MayRun
    /\ Enter("run")
    /\ UNCHANGED <<stopAt, stopped, starts, toSpawn, running, ended, iocStopped, accepts, jobs,
                   connVars>>

-----------------------------------------------------------------------------
(* stop(), and the destructor.                                             *)

StopGoes(p, from, label) == stopAt[p] = from /\ stopAt' = [stopAt EXCEPT ![p] = label]

\* The test of running_: a stop() that fails it returns at once.
StopTests(p) ==
    \/ running /\ StopGoes(p, "out", "passed") /\ UNCHANGED stopped
    \/ ~running /\ stopAt[p] = "out" /\ stopped' = TRUE /\ UNCHANGED stopAt

StopBegins(p) ==
    /\ p \in Stoppers
    /\ main \in (IF p = "main" THEN {"out"} ELSE {"out", "ioc"})
    /\ StopTests(p)
    /\ UNCHANGED <<main, starts, toSpawn, running, ended, ioVars, connVars>>

\* running_ = false, closeAllSessions(), which finds none, and ioc_->stop().
\* Two threads that both passed the test join the same workers.
StopStores(p) ==
    /\ running' = FALSE
    /\ iocStopped' = TRUE
    /\ StopGoes(p, "passed", "join")
    /\ ended' = IF \E q \in Callers : stopAt[q] = "join" THEN "joinedTwice" ELSE ended
    /\ UNCHANGED <<main, stopped, starts, toSpawn, accepts, at, jobs, connVars>>

Joined == \A w \in Workers : at[w] \in {"none", "done"}
Cleared(f) == [w \in Runners |-> IF w \in Workers THEN "none" ELSE f[w]]

\* The acceptor stays open: its async_accept holds the listener that
\* listener_.reset() lets go.
StopReturns(p) ==
    /\ Joined
    /\ at' = Cleared(at)
    /\ stopped' = TRUE
    /\ StopGoes(p, "join", "out")
    /\ UNCHANGED <<main, starts, toSpawn, running, ended, iocStopped, accepts, jobs, connVars>>

DestroyBegins ==
    /\ Apart
    /\ main' = "destroying"
    /\ StopTests("main")
    /\ UNCHANGED <<starts, toSpawn, running, ended, ioVars, connVars>>

\* A thread that is joinable when worker_threads_ goes ends the process; ioc_
\* takes with it the operations, and with them listeners and sessions.
Destroys ==
    /\ main = "destroying"
    /\ stopAt["main"] = "out"
    /\ \/ /\ \E w \in Workers : at[w] # "none"
          /\ ended' = "terminate"
          /\ UNCHANGED <<main, accepts, conn, shaking, reading, writing>>
       \/ /\ \A w \in Workers : at[w] = "none"
          /\ main' = "destroyed"
          /\ accepts' = 0
          /\ conn' = [c \in Conns |-> "closed"]
          /\ shaking' = {} /\ reading' = {} /\ writing' = [c \in Conns |-> "none"]
          /\ UNCHANGED ended
    /\ UNCHANGED <<stopAt, stopped, starts, toSpawn, running, iocStopped, at, jobs,
                   response, keep, asked, answers>>

-----------------------------------------------------------------------------
(* Clients and the transport.                                              *)

\* The kernel completes connections for an open acceptor.
ClientConnects(c) ==
    /\ conn[c] = "away"
    /\ accepts > 0
    /\ conn' = [conn EXCEPT ![c] = "queued"]
    /\ UNCHANGED <<lifeVars, ioVars, shaking, reading, writing, response, keep, asked, answers>>

WriteEnds(c, result) ==
    /\ writing[c] = "pending"
    /\ writing' = [writing EXCEPT ![c] = result]
    /\ UNCHANGED <<lifeVars, ioVars, conn, shaking, reading, response, keep, asked>>

WriteDone(c) ==
    WriteEnds(c, "ok") /\ answers' = [answers EXCEPT ![c] = Append(@, response[c])]

WriteFails(c) == WriteEnds(c, "error") /\ UNCHANGED answers

Transport(c) == WriteDone(c) \/ WriteFails(c)

-----------------------------------------------------------------------------
(* Handlers, on a runner w.                                                *)

Takes(w) == at[w] = "idle" /\ ~iocStopped

\* ioc_.run() returns when ioc_ is stopped; out of work, it stops it.
NoWork ==
    /\ accepts = 0 /\ shaking \cup reading = {} /\ jobs = {}
    /\ \A c \in Conns : writing[c] = "none"

Leaves(w) ==
    /\ at[w] = "idle"
    /\ iocStopped \/ NoWork
    /\ iocStopped' = TRUE
    /\ \/ w # 0 /\ at' = [at EXCEPT ![w] = "done"] /\ UNCHANGED main
       \/ w = 0 /\ at' = [at EXCEPT ![w] = "none"] /\ main' = "out"
    /\ UNCHANGED <<stopAt, stopped, starts, toSpawn, running, ended, accepts, jobs, connVars>>

Gone(c) == conn' = [conn EXCEPT ![c] = "closed"]

\* doAccept()'s handler accepts again, after an error too.
OnAccept(w, c) ==
    /\ Takes(w)
    /\ accepts > 0
    /\ conn[c] = "queued"
    /\ conn' = [conn EXCEPT ![c] = "open"]
    /\ shaking' = IF Tls THEN shaking \cup {c} ELSE shaking
    /\ reading' = IF Tls THEN reading ELSE reading \cup {c}
    /\ UNCHANGED <<lifeVars, ioVars, writing, response, keep, asked, answers>>

OnHandshake(w, c) ==
    /\ Takes(w)
    /\ c \in shaking
    /\ shaking' = shaking \ {c}
    /\ \/ reading' = reading \cup {c} /\ UNCHANGED conn
       \/ Gone(c) /\ UNCHANGED reading
    /\ UNCHANGED <<lifeVars, ioVars, writing, response, keep, asked, answers>>

\* handleRead(): the request moves out of the session, and processRequest()
\* calls into the application.
AfterRead(c) == reading \ {c}

OnRead(w, c) ==
    /\ Takes(w)
    /\ c \in reading
    /\ asked[c] < MaxRequests
    /\ asked' = [asked EXCEPT ![c] = @ + 1]
    /\ reading' = AfterRead(c)
    /\ jobs' = jobs \cup {[by |-> w, conn |-> c, request |-> asked[c] + 1]}
    /\ at' = [at EXCEPT ![w] = "busy"]
    /\ UNCHANGED <<lifeVars, iocStopped, accepts, conn, shaking, writing, response, keep, answers>>

OnReadEnd(w, c) ==
    /\ Takes(w)
    /\ c \in reading
    /\ reading' = reading \ {c}
    /\ Gone(c)
    /\ UNCHANGED <<lifeVars, ioVars, shaking, writing, response, keep, asked, answers>>

\* processRequest() and doWrite(), when the application's handlers have returned
\* or thrown.  Whether the response keeps the connection is the handler's choice;
\* that of the built-in ones is the request's.
Respond(c, n) == [response EXCEPT ![c] = n]
StartsWrite(c) == writing' = [writing EXCEPT ![c] = "pending"]

Answer(w) ==
    /\ at[w] = "busy"
    /\ \E j \in jobs, k \in BOOLEAN :
          /\ j.by = w
          /\ jobs' = jobs \ {j}
          /\ StartsWrite(j.conn)
          /\ response' = Respond(j.conn, j.request)
          /\ keep' = [keep EXCEPT ![j.conn] = k]
    /\ at' = [at EXCEPT ![w] = "idle"]
    /\ UNCHANGED <<lifeVars, iocStopped, accepts, conn, shaking, reading, asked, answers>>

\* doWrite()'s write_callback: read the next request, or close and let go.
OnWrite(w, c) ==
    /\ Takes(w)
    /\ writing[c] \in {"ok", "error"}
    /\ writing' = [writing EXCEPT ![c] = "none"]
    /\ \/ writing[c] = "ok" /\ keep[c] /\ reading' = reading \cup {c} /\ UNCHANGED conn
       \/ ~(writing[c] = "ok" /\ keep[c]) /\ Gone(c) /\ UNCHANGED reading
    /\ UNCHANGED <<lifeVars, ioVars, shaking, response, keep, asked, answers>>

Handler(w, c) ==
    OnAccept(w, c) \/ OnHandshake(w, c) \/ OnRead(w, c) \/ OnReadEnd(w, c) \/ OnWrite(w, c)

-----------------------------------------------------------------------------

Starting == StartSpawns \/ StartReturns
Stopping(p) == StopStores(p) \/ StopReturns(p)
Running(w) == Leaves(w) \/ Answer(w)

Next ==
    /\ Alive
    /\ \/ \E call \in {"start", "run"} : StartListens(call)
       \/ RunEnters \/ Starting \/ DestroyBegins \/ Destroys
       \/ \E p \in Callers : StopBegins(p) \/ Stopping(p)
       \/ \E w \in Runners : Running(w) \/ \E c \in Conns : Handler(w, c)
       \/ \E c \in Conns : ClientConnects(c) \/ Transport(c)

Spec == Init /\ [][Next]_vars

\* Calls go on, and the application's handlers return.  asio queues ready handlers
\* first in, first out, so one that keeps finding a free runner gets one.  Each
\* async_write ends; nothing makes a client send a request or finish a handshake.
FairSpec ==
    /\ Spec
    /\ WF_vars(Alive /\ Starting)
    /\ \A p \in Callers : WF_vars(Alive /\ Stopping(p))
    /\ \A w \in Runners : WF_vars(Alive /\ Running(w))
    /\ \A c \in Conns : SF_vars(Alive /\ \E w \in Runners : OnWrite(w, c))
    /\ \A c \in Conns : WF_vars(Alive /\ ~iocStopped /\ Transport(c))

-----------------------------------------------------------------------------
(* Properties.                                                             *)

\* The server and its threads.
LifeOK ==
    /\ main \in {"out", "start", "run", "ioc", "destroying", "destroyed"}
    /\ stopAt \in [Callers -> {"out", "passed", "join"}]
    /\ {stopped, running, iocStopped} \subseteq BOOLEAN
    /\ starts \in 0..MaxStarts
    /\ toSpawn \in 0..NThreads
    /\ ended \in {"no", "joinedTwice", "terminate"}
    /\ accepts \in Nat
    /\ at \in [Runners -> {"none", "idle", "busy", "done"}]

\* The connections and their sessions.
ConnsOK ==
    /\ jobs \subseteq [by : Runners, conn : Conns, request : 1..MaxRequests]
    /\ conn \in [Conns -> {"away", "queued", "open", "closed"}]
    /\ shaking \subseteq Conns
    /\ reading \subseteq Conns
    /\ writing \in [Conns -> {"none", "pending", "ok", "error"}]
    /\ response \in [Conns -> 0..MaxRequests]
    /\ keep \in [Conns -> BOOLEAN]
    /\ asked \in [Conns -> 0..MaxRequests]
    /\ answers \in [Conns -> Seq(0..MaxRequests)]

\* Every variable has its type.
TypeOK == LifeOK /\ ConnsOK

Written == {c \in Conns : writing[c] # "none"}
Handled == {j.conn : j \in jobs}

\* An open connection has one holder, an operation or a handler, and one only: no
\* two runners are ever in the same session, though it has neither lock nor strand,
\* and none is left open without anything to serve or close it.
OneHolder ==
    /\ \A i, j \in jobs : i.conn = j.conn => i = j
    /\ {c \in Conns : conn[c] = "open"} = shaking \cup reading \cup Written \cup Handled
    /\ shaking \cap reading = {}
    /\ Written \cap Handled = {}
    /\ (shaking \cup reading) \cap (Written \cup Handled) = {}

\* A connection is an ordered channel of answers: requests are answered in the
\* order they were read, each once, until the connection closes.
Exchange == INSTANCE OutboundChannel
    WITH Sessions <- Conns, Garbage <- {}, accepted <- asked, received <- answers,
         open <- [c \in Conns |-> conn[c] # "closed"]
IsExchange == Exchange!ChannelSpec

\* Where the last start() could not create all its threads.
Short == toSpawn > 0 /\ main \notin {"start", "run"}

\* Once stop() has returned no worker runs a handler, until the next start();
\* save where start() fell short, and stop() finds running_ reset.
WorkersStopped == stopped /\ ~Short => \A j \in jobs : j.by \notin Workers

\* stop() joins each thread once, and the destructor finds them joined and no
\* request in hand; it finds threads that nobody joined only where start() fell
\* short and none has succeeded since.
DestroysCleanly ==
    /\ ended = "no" \/ (ended = "terminate" /\ Short)
    /\ main = "destroyed" => jobs = {}

\* A request that was read is answered, unless its connection or the server ends.
Answered ==
    \A c \in Conns : \A k \in 1..MaxRequests :
        asked[c] >= k ~> Len(answers[c]) >= k \/ conn[c] = "closed"
            \/ writing[c] = "error" \/ iocStopped \/ ~Alive

\* stop() returns: no worker it joins waits for another.
StopEnds == \A p \in Callers : stopAt[p] # "out" ~> stopAt[p] = "out" \/ ~Alive

\* "@return Whether the server is running": one that says so runs handlers.
RunningServes == running => ~iocStopped
=============================================================================
