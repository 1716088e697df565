--------------------------- MODULE WebSocketClient ---------------------------
(***************************************************************************)
(* WebSocketClient (WebSocketClient.cpp): the application's thread, the io *)
(* thread that runs ioc, and the stream between them.  The application's   *)
(* thread calls connect(), disconnect(), send() and in the end the         *)
(* destructor.  Every handler runs on the io thread; a handler is split    *)
(* where it calls back into the application, where it sleeps, and between  *)
(* two accesses to the flags that the other thread can tell apart.         *)
(*                                                                         *)
(* A message is named by its place in the order of the pushes.             *)
(***************************************************************************)
EXTENDS Naturals, Sequences

CONSTANTS
    AutoReconnect,  \* auto_reconnect, set before the first connect()
    Throws,         \* whether callbacks throw
    MaxConnects,    \* bound: calls of connect() that get past its test
    MaxSends,       \* bound: messages pushed
    MaxTasks,       \* bound: tasks queued when the application posts one
    Garbage         \* what a frame may carry when its source buffer is gone

ASSUME ClientAssumption ==
    /\ AutoReconnect \in BOOLEAN
    /\ Throws \in BOOLEAN
    /\ MaxConnects \in Nat
    /\ MaxSends \in Nat
    /\ MaxTasks \in Nat
    /\ Garbage \cap Nat = {}

VARIABLES
    user,        \* where the application's thread is; "out" of every call
    calls,       \* calls of connect() that got past its test
    io,          \* where the io thread is; "gone" once ioc.run() has returned
    iocStopped,  \* ioc.stop() was called
    tasks,       \* what was posted to ioc
    connecting, connected, stopping, sending,  \* the flags of those names
    resolves,    \* async_resolve calls outstanding
    stage,       \* the step of an attempt outstanding on the stream, if any
    reading,     \* an async_read is outstanding
    link,        \* the stream: never handshaken since async_connect, up or down
    sendQueue,   \* send_queue
    pushed,      \* messages pushed so far (history)
    inFlight,    \* the payload of the outstanding async_write; 0 when none is
    wire,        \* payloads of the async_writes that succeeded (history)
    lost,        \* messages whose async_write failed (history)
    ended        \* the assertion of Beast that ended the process: none yet, or
                 \* two writes, two reads or two attempts on one stream

userVars == <<user, calls>>
flagVars == <<connecting, connected, stopping>>
streamVars == <<resolves, stage, reading, link>>
sendVars == <<sending, sendQueue, pushed, inFlight, wire, lost>>
vars == <<user, calls, io, iocStopped, tasks, connecting, connected, stopping,
          resolves, stage, reading, link,
          sending, sendQueue, pushed, inFlight, wire, lost, ended>>

\* The constructor starts the io thread before connect() can be called.
Init ==
    /\ user = "out" /\ calls = 0
    /\ io = "idle" /\ iocStopped = FALSE /\ tasks = <<>>
    /\ connecting = FALSE /\ connected = FALSE /\ stopping = FALSE /\ sending = FALSE
    /\ resolves = 0 /\ stage = "none" /\ reading = FALSE /\ link = "none"
    /\ sendQueue = <<>> /\ pushed = 0 /\ inFlight = 0 /\ wire = <<>> /\ lost = 0
    /\ ended = "no"

Alive == ended = "no"

-----------------------------------------------------------------------------
(* Mistakes the mutation runs put in the place of the definitions below.   *)

MutNeverBusy(busy) == FALSE            \* doSend() without its test of sending
MutAlwaysBusy(busy) == TRUE            \* sending never cleared
MutKeep(q) == q                        \* send_queue.pop() forgotten
MutNoPost(t) == UNCHANGED tasks        \* send() without asio::post
MutNoRead(c) == FALSE                  \* onRead without doRead()
MutFlagStays(b) == b                   \* connecting not reset by onError
MutDrained == tasks = <<>>             \* stop() waits for what was posted
MutWakes ==                            \* the sleep without the post after it
    /\ io = "sleep"
    /\ io' = "idle"
    /\ UNCHANGED <<userVars, iocStopped, tasks, flagVars, streamVars, sendVars, ended>>
MutPushOld(q) == Append(q, pushed)     \* numbers from 0

-----------------------------------------------------------------------------
(* doConnect(), doRead(), doSend() and onError(), as parts of handlers.    *)

Post(t) == tasks' = Append(tasks, t)

MayConnect == ~connecting /\ ~connected

StartAttempt ==
    /\ connecting' = TRUE
    /\ connected' = FALSE
    /\ resolves' = resolves + 1

\* doRead() starts a read only on a connection.
Reads(c) == c

DoRead ==
    \/ ~Reads(connected) /\ UNCHANGED <<reading, ended>>
    \/ Reads(connected) /\ ~reading /\ reading' = TRUE /\ UNCHANGED ended
    \/ Reads(connected) /\ reading /\ ended' = "reads" /\ UNCHANGED reading

Busy(busy) == busy
Pop(q) == Tail(q)

\* doSend() where sending is busy and the outstanding write is out (0: none).
\* asio::buffer refers to a local string that dies when doSend() returns.
DoSend(busy, out) ==
    LET starts == connected /\ ~Busy(busy) /\ sendQueue # <<>>
    IN \/ /\ ~starts
          /\ sending' = Busy(busy)
          /\ inFlight' = out
          /\ UNCHANGED <<sendQueue, ended>>
       \/ /\ starts /\ out = 0
          /\ sending' = TRUE
          /\ inFlight' \in {Head(sendQueue)} \cup Garbage
          /\ sendQueue' = Pop(sendQueue)
          /\ UNCHANGED ended
       \/ /\ starts /\ out # 0
          /\ ended' = "writes"
          /\ UNCHANGED <<sending, inFlight, sendQueue>>

\* onError() resets connecting.
Reset(b) == FALSE

Error ==
    /\ connecting' = Reset(connecting)
    /\ connected' = FALSE
    /\ io' = "errorCallback"

-----------------------------------------------------------------------------
(* The application's thread.                                               *)

UserGoes(from, label) == user = from /\ user' = label

\* connect() and doConnect() both test the flags: a call that finds one set in
\* either test changes nothing.  ConnectTest is the second of the two tests.
ConnectTest ==
    /\ UserGoes("out", "connect")
    /\ MayConnect
    /\ calls < MaxConnects
    /\ calls' = calls + 1
    /\ UNCHANGED <<io, iocStopped, tasks, flagVars, streamVars, sendVars, ended>>

ConnectStarts ==
    /\ UserGoes("connect", "out")
    /\ StartAttempt
    /\ UNCHANGED <<calls, io, iocStopped, tasks, stopping, stage, reading, link, sendVars, ended>>

\* disconnect(), from the application or from the destructor, looks at connected
\* and then at connecting; a call that finds each clear does nothing.
DisconnectTest(found, clear) ==
    /\ UserGoes("out", IF connected THEN found ELSE clear)
    /\ UNCHANGED <<calls, io, iocStopped, tasks, flagVars, streamVars, sendVars, ended>>

DisconnectTestAgain(from, found, clear) ==
    /\ UserGoes(from, IF connecting THEN found ELSE clear)
    /\ UNCHANGED <<calls, io, iocStopped, tasks, flagVars, streamVars, sendVars, ended>>

\* after is where the caller of disconnect() goes on.
DisconnectPosts(found, after) ==
    /\ UserGoes(found, after)
    /\ stopping' = TRUE
    /\ Post("close")
    /\ UNCHANGED <<calls, io, iocStopped, connecting, connected, streamVars,
                   sendVars, ended>>

\* send() and sendBinary(): false when not connected; else push under
\* queue_mutex, then post a doSend().
SendTest ==
    /\ UserGoes("out", "push")
    /\ connected
    /\ pushed < MaxSends
    /\ UNCHANGED <<calls, io, iocStopped, tasks, flagVars, streamVars, sendVars, ended>>

PushBack(q) == Append(q, pushed + 1)

SendPush ==
    /\ UserGoes("push", "post")
    /\ sendQueue' = PushBack(sendQueue)
    /\ pushed' = pushed + 1
    /\ UNCHANGED <<calls, io, iocStopped, tasks, flagVars, streamVars, sending,
                   inFlight, wire, lost, ended>>

PostSend(t) == Post(t)

SendPosts ==
    /\ UserGoes("post", "out")
    /\ PostSend("doSend")
    /\ UNCHANGED <<calls, io, iocStopped, flagVars, streamVars, sendVars, ended>>

\* ~WebSocketClient: disconnect(), then ~Impl: stop() and its join().
StopIo ==
    /\ UserGoes("stop", "join")
    /\ stopping' = TRUE
    /\ iocStopped' = TRUE
    /\ UNCHANGED <<calls, io, tasks, connecting, connected, streamVars, sendVars, ended>>

Joined == io = "gone"

JoinIo ==
    /\ UserGoes("join", "destroyed")
    /\ Joined
    /\ UNCHANGED <<calls, io, iocStopped, tasks, flagVars, streamVars, sendVars, ended>>

\* What the application may do, and the rest of a call it has made.
UserChooses ==
    \/ ConnectTest \/ SendTest
    \/ Len(tasks) < MaxTasks /\ DisconnectTest("disconnect", "disconnectAgain")
    \/ DisconnectTest("disconnectLast", "disconnectLastAgain")

UserGoesOn ==
    \/ ConnectStarts \/ SendPush \/ SendPosts \/ StopIo \/ JoinIo
    \/ DisconnectTestAgain("disconnectAgain", "disconnect", "out")
    \/ DisconnectTestAgain("disconnectLastAgain", "disconnectLast", "stop")
    \/ DisconnectPosts("disconnect", "out")
    \/ DisconnectPosts("disconnectLast", "stop")

-----------------------------------------------------------------------------
(* The io thread.                                                          *)

\* The io thread takes a handler: a posted task or a completion.
Takes == io = "idle" /\ ~iocStopped

IoGoes(from, label) == io = from /\ io' = label

NextTask(t) ==
    /\ Takes
    /\ tasks # <<>>
    /\ Head(tasks) = t
    /\ tasks' = Tail(tasks)

TaskConnect ==
    /\ NextTask("doConnect")
    /\ \/ MayConnect /\ StartAttempt
       \/ ~MayConnect /\ UNCHANGED <<connecting, connected, resolves>>
    /\ UNCHANGED <<userVars, io, iocStopped, stopping, stage, reading, link,
                   sendVars, ended>>

TaskSend ==
    /\ NextTask("doSend")
    /\ DoSend(sending, inFlight)
    /\ UNCHANGED <<userVars, io, iocStopped, flagVars, streamVars, pushed, wire, lost>>

\* The task of disconnect(): ws.close() of a stream that is not open returns
\* at once; of one that is, it waits for the peer, without a time limit.
TaskClose ==
    /\ NextTask("close")
    /\ \/ link = "up" /\ io' = "closing" /\ UNCHANGED connected
       \/ link # "up" /\ io' = "closed" /\ connected' = FALSE
    /\ UNCHANGED <<userVars, iocStopped, connecting, stopping, streamVars, sendVars, ended>>

CloseReturns ==
    /\ IoGoes("closing", "closed")
    /\ link' = "down"
    /\ connected' = FALSE
    /\ UNCHANGED <<userVars, iocStopped, tasks, connecting, stopping, resolves, stage, reading,
                   sendVars, ended>>

\* connecting is reset after connected, and with it what a connect() set meanwhile.
CloseEnds ==
    /\ IoGoes("closed", "idle")
    /\ connecting' = FALSE
    /\ UNCHANGED <<userVars, iocStopped, tasks, connected, stopping, streamVars, sendVars, ended>>

\* async_connect while something is outstanding on the stream is an assertion
\* failure in Beast.
StreamBusy == stage # "none" \/ reading \/ inFlight # 0

OnResolve ==
    /\ Takes
    /\ resolves > 0
    /\ resolves' = resolves - 1
    /\ \/ Error /\ UNCHANGED <<stage, link, ended>>
       \/ /\ ~StreamBusy
          /\ stage' = "connect"
          /\ link' = "none"
          /\ UNCHANGED <<io, connecting, connected, ended>>
       \/ /\ StreamBusy
          /\ ended' = "attempts"
          /\ UNCHANGED <<io, connecting, connected, stage, link>>
    /\ UNCHANGED <<userVars, iocStopped, tasks, stopping, reading, sendVars>>

OnConnect ==
    /\ Takes
    /\ stage = "connect"
    /\ \/ Error /\ stage' = "none"
       \/ stage' = "handshake" /\ UNCHANGED <<io, connecting, connected>>
    /\ UNCHANGED <<userVars, iocStopped, tasks, stopping, resolves, reading, link,
                   sendVars, ended>>

\* onHandshake() resets connecting before it looks at its result: until the next
\* step a connect() finds both flags clear.
OnHandshake ==
    /\ Takes
    /\ stage = "handshake"
    /\ stage' = "none"
    /\ connecting' = FALSE
    /\ \/ io' = "unshaken" /\ UNCHANGED link
       \/ io' = "shaken" /\ link' = "up"
    /\ UNCHANGED <<userVars, iocStopped, tasks, connected, stopping, resolves, reading,
                   sendVars, ended>>

HandshakeFailed ==
    /\ io = "unshaken"
    /\ Error
    /\ UNCHANGED <<userVars, iocStopped, tasks, stopping, streamVars, sendVars, ended>>

HandshakeDone ==
    /\ IoGoes("shaken", "connectCallback")
    /\ connected' = TRUE
    /\ UNCHANGED <<userVars, iocStopped, tasks, connecting, stopping, streamVars, sendVars, ended>>

\* onHandshake() after the callback: doRead(), then doSend().
StartReading ==
    /\ IoGoes("reads", "sends")
    /\ DoRead
    /\ UNCHANGED <<userVars, iocStopped, tasks, flagVars, resolves, stage, link, sendVars>>

StartSending ==
    /\ IoGoes("sends", "idle")
    /\ DoSend(sending, inFlight)
    /\ UNCHANGED <<userVars, iocStopped, tasks, flagVars, streamVars, pushed, wire, lost>>

OnReadMessage ==
    /\ Takes
    /\ reading
    /\ link = "up"
    /\ reading' = FALSE
    /\ io' = "messageCallback"
    /\ UNCHANGED <<userVars, iocStopped, tasks, flagVars, resolves, stage, link,
                   sendVars, ended>>

OnReadEnd ==
    /\ Takes
    /\ reading
    /\ reading' = FALSE
    /\ link' = "down"
    /\ \/ Error
       \/ connected' = FALSE /\ io' = "closeCallback" /\ UNCHANGED connecting
    /\ UNCHANGED <<userVars, iocStopped, tasks, stopping, resolves, stage, sendVars, ended>>

ReadMore ==
    /\ IoGoes("readsMore", "idle")
    /\ DoRead
    /\ UNCHANGED <<userVars, iocStopped, tasks, flagVars, resolves, stage, link, sendVars>>

OnWriteOk ==
    /\ Takes
    /\ inFlight # 0
    /\ wire' = Append(wire, inFlight)
    /\ DoSend(FALSE, 0)
    /\ UNCHANGED <<userVars, io, iocStopped, tasks, flagVars, streamVars, pushed, lost>>

OnWriteError ==
    /\ Takes
    /\ inFlight # 0
    /\ sending' = FALSE
    /\ inFlight' = 0
    /\ lost' = lost + 1
    /\ link' = "down"
    /\ Error
    /\ UNCHANGED <<userVars, iocStopped, tasks, stopping, resolves, stage, reading,
                   sendQueue, pushed, wire, ended>>

\* The callbacks; where the handler goes on when they return.
Callbacks == {"connectCallback", "messageCallback", "errorCallback", "closeCallback"}

After(callback) ==
    CASE callback = "connectCallback" -> "reads"
      [] callback = "messageCallback" -> "readsMore"
      [] OTHER -> "retry"

\* A callback that throws ends its handler; the io thread catches what it
\* throws and calls ioc.run() again.
CallbackEnds ==
    /\ io \in Callbacks
    /\ \/ io' = After(io)
       \/ Throws /\ io' = "idle"
    /\ UNCHANGED <<userVars, iocStopped, tasks, flagVars, streamVars, sendVars, ended>>

CallbackSends ==
    /\ io \in Callbacks
    /\ connected
    /\ pushed < MaxSends
    /\ sendQueue' = PushBack(sendQueue)
    /\ pushed' = pushed + 1
    /\ PostSend("doSend")
    /\ UNCHANGED <<userVars, io, iocStopped, flagVars, streamVars, sending, inFlight, wire,
                   lost, ended>>

\* onError() and onClose() after the callback: test, sleep, post.
Retry ==
    /\ \/ AutoReconnect /\ ~stopping /\ IoGoes("retry", "sleep")
       \/ ~(AutoReconnect /\ ~stopping) /\ IoGoes("retry", "idle")
    /\ UNCHANGED <<userVars, iocStopped, tasks, flagVars, streamVars, sendVars, ended>>

Wakes ==
    /\ IoGoes("sleep", "idle")
    /\ Post("doConnect")
    /\ UNCHANGED <<userVars, iocStopped, flagVars, streamVars, sendVars, ended>>

\* ioc.run() returns when it is stopped or has nothing outstanding; the thread
\* ends, and no later connect() starts another.
NoWork == tasks = <<>> /\ resolves = 0 /\ stage = "none" /\ ~reading /\ inFlight = 0

IoEnds ==
    /\ IoGoes("idle", "gone")
    /\ iocStopped \/ NoWork
    /\ UNCHANGED <<userVars, iocStopped, tasks, flagVars, streamVars, sendVars, ended>>

\* Handlers that are ready whatever the peer does, completions of operations
\* that end in bounded time, and the rest.
Task == TaskConnect \/ TaskSend \/ TaskClose
Within ==
    \/ HandshakeFailed \/ HandshakeDone \/ CloseEnds
    \/ StartReading \/ StartSending \/ ReadMore \/ CallbackEnds \/ Retry \/ Wakes
Attempt == OnResolve \/ OnConnect \/ OnHandshake
OnWrite == OnWriteOk \/ OnWriteError
OnRead == OnReadMessage \/ OnReadEnd

Next ==
    /\ Alive
    /\ \/ UserChooses \/ UserGoesOn
       \/ Task \/ Within \/ Attempt \/ OnWrite \/ OnRead
       \/ CallbackSends \/ CloseReturns \/ IoEnds

Spec == Init /\ [][Next]_vars

\* Both threads go on and callbacks return.  asio takes ready handlers first in,
\* first out.  Name resolution, TCP's connect and Beast's handshake have time
\* limits, and an async_write ends.  Nothing makes the peer answer a close.
FairSpec ==
    /\ Spec
    /\ WF_vars(Alive /\ UserGoesOn)
    /\ WF_vars(Alive /\ Within)
    /\ WF_vars(Alive /\ IoEnds /\ iocStopped)
    /\ SF_vars(Alive /\ Task)
    /\ SF_vars(Alive /\ OnResolve)
    /\ SF_vars(Alive /\ (OnConnect \/ OnHandshake))
    /\ SF_vars(Alive /\ OnWrite)

-----------------------------------------------------------------------------
(* Properties.                                                             *)

Labels == Callbacks \cup {"idle", "gone", "closing", "closed", "unshaken", "shaken",
                             "reads", "sends", "readsMore", "retry", "sleep"}

\* The threads, the flags and the stream.
ControlOK ==
    /\ user \in {"out", "connect", "disconnectAgain", "disconnect", "disconnectLastAgain",
                 "disconnectLast", "push", "post", "stop", "join", "destroyed"}
    /\ calls \in 0..MaxConnects
    /\ io \in Labels
    /\ tasks \in Seq({"doConnect", "doSend", "close"})
    /\ {iocStopped, connecting, connected, stopping, reading} \subseteq BOOLEAN
    /\ resolves \in Nat
    /\ stage \in {"none", "connect", "handshake"}
    /\ link \in {"none", "up", "down"}
    /\ ended \in {"no", "writes", "reads", "attempts"}

\* The messages.
MessagesOK ==
    /\ sending \in BOOLEAN
    /\ sendQueue \in Seq(Nat \ {0})
    /\ pushed \in Nat
    /\ inFlight \in Nat \cup Garbage
    /\ wire \in Seq(Nat \cup Garbage)
    /\ lost \in Nat

\* Every variable has its type.
TypeOK == ControlOK /\ MessagesOK

\* sending says whether an async_write is outstanding, through failures,
\* reconnections and whatever a doSend() finds: the stream never has two.
OneWriteAtATime ==
    /\ ended # "writes"
    /\ sending <=> inFlight # 0

\* What send() accepted is queued, being written, written or lost with the
\* write that failed, and goes out in the order it was pushed, across
\* reconnections too.
SentInOrder ==
    LET all == wire \o <<inFlight>> \o sendQueue
        Known(i) == all[i] \notin Garbage \cup {0}
    IN /\ Len(sendQueue) + Len(wire) + lost + (IF inFlight # 0 THEN 1 ELSE 0) = pushed
       /\ \A i, j \in DOMAIN all : i < j /\ Known(i) /\ Known(j) => all[i] < all[j]

\* On a connection, a queued message always has somebody coming for it: a write
\* that ends, a doSend() posted, a send() about to post one, or onHandshake().
NoStranded ==
    connected /\ sendQueue # <<>> /\ Alive =>
        \/ sending
        \/ \E i \in DOMAIN tasks : tasks[i] = "doSend"
        \/ user = "post"
        \/ io \in {"connectCallback", "reads", "sends"}

\* A connection is being read: between handlers a read is outstanding, and one.
ReadsWhileConnected ==
    /\ ended # "reads"
    /\ connected /\ io = "idle" /\ Alive => reading

\* As long as the io thread runs, an attempt to connect ends.
AttemptEnds == connecting ~> ~connecting \/ io = "gone" \/ io = "closing" \/ ~Alive

\* As long as the connection stays, what was pushed is written.
QueueDrains ==
    \A k \in 1..MaxSends :
        pushed >= k ~> pushed - Len(sendQueue) >= k \/ ~connected \/ io = "closing" \/ ~Alive
                           \/ iocStopped

\* A connection that failed or was closed is tried again, when auto_reconnect is
\* set and neither disconnect() nor the destructor comes before: the sleep ends,
\* its doConnect() is posted and nothing that is queued before it holds it up.
Retries ==
    io = "retry" /\ AutoReconnect /\ ~stopping
        ~> connecting \/ connected \/ stopping \/ io = "closing" \/ ~Alive

\* "Stop IO thread": the destructor ends, whatever is queued or outstanding when
\* it stops ioc, and whatever the io thread is in the middle of but a close.
StopEnds == user = "join" ~> user = "destroyed" \/ io = "closing" \/ ~Alive

\* "bool connect(int timeout_ms = 5000)": an attempt ends, while the application
\* keeps the client.
ConnectEnds == connecting ~> ~connecting \/ user \notin {"out", "connect"}
=============================================================================
