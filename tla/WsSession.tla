------------------------------ MODULE WsSession ------------------------------
(***************************************************************************)
(* The outbound half of WebSocketServer::Session (WebSocketServer.cpp):    *)
(* send(), doWrite() and onWrite() on sendQueue_.                          *)
(*                                                                         *)
(* The handlers of a session run one at a time on the strand of its socket *)
(* (Listener::doAccept passes make_strand(ioc_)), so the strand of session *)
(* s is one actor, named s too.  WebSocketServer::sendToClient and         *)
(* broadcast call send() on whatever thread the application is on: each    *)
(* such thread is another actor.  sendQueue_ has no lock, so send() and    *)
(* onWrite() are split at every access to it: the test, the push_back, the *)
(* start of a write, the pop_front and the test after it.                  *)
(*                                                                         *)
(* A message is named by its place in the order of the push_backs.         *)
(***************************************************************************)
EXTENDS Naturals, Sequences

CONSTANTS
    Sessions,   \* sessions, and their strands
    Threads,    \* application threads that call sendToClient or broadcast
    MaxSends,   \* bound: no send() begins once this many were pushed
    Garbage     \* what a frame may carry when its source buffer is gone; empty in
                \* runs that do not look at what frames carry

Actors == Sessions \cup Threads

ASSUME WsSessionAssumption ==
    /\ Sessions \cap Threads = {}
    /\ MaxSends \in Nat
    /\ Garbage \cap Nat = {}

VARIABLES
    sendQueue,  \* sendQueue_ of each session
    pushed,     \* how many messages each session has accepted (history)
    writeOp,    \* the async_write of each session: none, pending, or its result
    frame,      \* the payload the outstanding async_write reads
    wire,       \* frames the peer was sent, in order (history)
    up,         \* the connection still carries data
    ended,      \* what ended the process: nothing yet, Beast's assertion
                \* against a second async_write, or an uncaught exception
    pc,         \* where each actor is
    to,         \* the session each actor's send() is for
    wip         \* local write_in_progress of each actor's send()

streamVars == <<sendQueue, pushed, writeOp, frame, wire, up, ended>>
callVars == <<pc, to, wip>>
sessionVars == <<sendQueue, pushed, writeOp, frame, wire, up, ended, pc, to, wip>>

SendPcs == {"test", "push", "start"}

Alive == ended = "no"

Goto(a, label) == pc' = [pc EXCEPT ![a] = label]

SessionInit ==
    /\ sendQueue = [s \in Sessions |-> <<>>]
    /\ pushed = [s \in Sessions |-> 0]
    /\ writeOp = [s \in Sessions |-> "none"]
    /\ frame = [s \in Sessions |-> 0]
    /\ wire = [s \in Sessions |-> <<>>]
    /\ up = [s \in Sessions |-> TRUE]
    /\ ended = "no"
    /\ pc = [a \in Actors |-> "idle"]
    /\ to \in {f \in [Actors -> Sessions] : \A s \in Sessions : f[s] = s}
    /\ wip = [a \in Actors |-> FALSE]

-----------------------------------------------------------------------------
(* Mistakes the mutation runs put in the place of the definitions below.   *)

MutLastPushed(q) == q[Len(q)]                   \* writes the newest message
MutNeverInProgress(q) == FALSE                  \* every send() starts a write
MutAlwaysInProgress(q) == TRUE                  \* the test after the push_back

-----------------------------------------------------------------------------
(* Steps of send(), doWrite() and onWrite().                               *)

\* front(), push_back() and pop_front() of the queue.
Front(q) == q[1]
PushBack(q, m) == Append(q, m)
PopFront(q) == Tail(q)

\* doWrite(): asio::buffer refers to the local copy of the front message,
\* which is destroyed when doWrite() returns; what is not handed to the
\* socket before that is read from freed memory.  A second async_write on a
\* stream that has one outstanding is an assertion failure in Beast.
DoWrite(s) ==
    \/ /\ sendQueue[s] = <<>>
       /\ UNCHANGED <<writeOp, frame, ended>>
    \/ /\ sendQueue[s] # <<>>
       /\ writeOp[s] = "none"
       /\ writeOp' = [writeOp EXCEPT ![s] = "pending"]
       /\ \E f \in {Front(sendQueue[s])} \cup Garbage : frame' = [frame EXCEPT ![s] = f]
       /\ UNCHANGED ended
    \/ /\ sendQueue[s] # <<>>
       /\ writeOp[s] # "none"
       /\ ended' = "assertion"
       /\ UNCHANGED <<writeOp, frame>>

\* send() starts a write only when it found the queue empty.
WriteInProgress(q) == q # <<>>

SendTest(a) ==
    /\ pc[a] = "test"
    /\ wip' = [wip EXCEPT ![a] = WriteInProgress(sendQueue[to[a]])]
    /\ Goto(a, "push")
    /\ UNCHANGED <<streamVars, to>>

SendPush(a, back) ==
    /\ pc[a] = "push"
    /\ LET s == to[a] IN
       /\ pushed' = [pushed EXCEPT ![s] = @ + 1]
       /\ sendQueue' = [sendQueue EXCEPT ![s] = PushBack(@, pushed[s] + 1)]
    /\ Goto(a, IF wip[a] THEN back ELSE "start")
    /\ wip' = [wip EXCEPT ![a] = FALSE]
    /\ UNCHANGED <<writeOp, frame, wire, up, ended, to>>

SendStart(a, back) ==
    /\ pc[a] = "start"
    /\ DoWrite(to[a])
    /\ Goto(a, back)
    /\ UNCHANGED <<sendQueue, pushed, wire, up, to, wip>>

\* onWrite() without error: pop_front, ...
OnWriteOk(s) ==
    /\ pc[s] = "idle"
    /\ writeOp[s] = "ok"
    /\ writeOp' = [writeOp EXCEPT ![s] = "none"]
    /\ sendQueue' = [sendQueue EXCEPT ![s] = PopFront(@)]
    /\ Goto(s, "next")
    /\ UNCHANGED <<pushed, frame, wire, up, ended, to, wip>>

\* ... then the next message, if any (doWrite() tests for it again).
OnWriteNext(s) ==
    /\ pc[s] = "next"
    /\ DoWrite(s)
    /\ Goto(s, "idle")
    /\ UNCHANGED <<sendQueue, pushed, wire, up, to, wip>>

\* onWrite() with an error leaves the message at the front and writes no more;
\* then come the calls into the server, from the label report on.
OnWriteError(s, report) ==
    /\ pc[s] = "idle"
    /\ writeOp[s] = "error"
    /\ writeOp' = [writeOp EXCEPT ![s] = "none"]
    /\ Goto(s, report)
    /\ UNCHANGED <<sendQueue, pushed, frame, wire, up, ended, to, wip>>

-----------------------------------------------------------------------------
(* The transport under the session.                                        *)

WriteDone(s) ==
    /\ writeOp[s] = "pending"
    /\ up[s]
    /\ writeOp' = [writeOp EXCEPT ![s] = "ok"]
    /\ wire' = [wire EXCEPT ![s] = Append(@, frame[s])]
    /\ UNCHANGED <<sendQueue, pushed, frame, up, ended, callVars>>

WriteFails(s) ==
    /\ writeOp[s] = "pending"
    /\ writeOp' = [writeOp EXCEPT ![s] = "error"]
    /\ up' = [up EXCEPT ![s] = FALSE]
    /\ UNCHANGED <<sendQueue, pushed, frame, wire, ended, callVars>>

ConnectionLost(s) ==
    /\ up[s]
    /\ up' = [up EXCEPT ![s] = FALSE]
    /\ UNCHANGED <<sendQueue, pushed, writeOp, frame, wire, ended, callVars>>

-----------------------------------------------------------------------------
(* The session on its own: any thread may call send() under clientsMutex_, *)
(* which lets one in at a time, and a message handler may call it through  *)
(* the callback it is given, on the strand of the session.                 *)

BeginSend(a, s) ==
    /\ pc[a] = "idle"
    /\ pushed[s] < MaxSends
    /\ a \in Sessions => a = s
    /\ a \in Threads => \A t \in Threads : pc[t] = "idle"
    /\ Goto(a, "test")
    /\ to' = [to EXCEPT ![a] = s]
    /\ UNCHANGED <<streamVars, wip>>

Sender(a) == SendTest(a) \/ SendPush(a, "idle") \/ SendStart(a, "idle")
Completion(s) == OnWriteOk(s) \/ OnWriteNext(s) \/ OnWriteError(s, "idle")
Transport(s) == WriteDone(s) \/ WriteFails(s)

SessionNext ==
    /\ Alive
    /\ \/ \E a \in Actors, s \in Sessions : BeginSend(a, s)
       \/ \E a \in Actors : Sender(a)
       \/ \E s \in Sessions : Completion(s)
       \/ \E s \in Sessions : Transport(s) \/ ConnectionLost(s)

SessionSpec == SessionInit /\ [][SessionNext]_sessionVars

-----------------------------------------------------------------------------
(* Properties.                                                             *)

\* Every variable has its type, and a queue never holds more than was pushed.
StreamTypeOK ==
    /\ pushed \in [Sessions -> Nat]
    /\ sendQueue \in [Sessions -> Seq(Nat)]
    /\ \A s \in Sessions : Len(sendQueue[s]) <= pushed[s]
    /\ writeOp \in [Sessions -> {"none", "pending", "ok", "error"}]
    /\ frame \in [Sessions -> Nat \cup Garbage]
    /\ wire \in [Sessions -> Seq(Nat \cup Garbage)]
    /\ up \in [Sessions -> BOOLEAN]
    /\ ended \in {"no", "assertion", "exception"}
    /\ to \in [Actors -> Sessions]
    /\ wip \in [Actors -> BOOLEAN]

SessionTypeOK ==
    /\ StreamTypeOK
    /\ pc \in [Actors -> SendPcs \cup {"idle", "next"}]

\* send() never starts a write while one is outstanding: what its local
\* write_in_progress is for ("if (!write_in_progress) start asynchronous
\* write").  The check of the queue and the start of the write are two steps
\* of send(), and onWrite() has two more.
OneWriteAtATime == ended # "assertion"

\* No message waits for nobody: while the connection is up, a queue that holds
\* a message has a write outstanding or an actor that is about to start one.
\* send() leaves the start to onWrite() when it found the queue non-empty,
\* and onWrite() leaves it to send() when it finds the queue empty.
NoStranded ==
    \A s \in Sessions :
        Alive /\ up[s] /\ sendQueue[s] # <<>> =>
            \/ writeOp[s] # "none"
            \/ pc[s] = "next"
            \/ \E a \in Actors : to[a] = s /\ pc[a] = "start"

\* An actor is in the middle of send() or onWrite() of a session.
InSession(a, s) == (pc[a] \in SendPcs /\ to[a] = s) \/ (a = s /\ pc[a] = "next")

Exclusive ==
    \A s \in Sessions : \A a, b \in Actors : InSession(a, s) /\ InSession(b, s) => a = b

\* Any number of threads may send: two of them, or one and onWrite(), start two
\* writes or leave a message behind only if they have been in one session at once,
\* which neither lock nor strand keeps them from (WebSocketServer_two_workers).
SafeWhileExclusive == []Exclusive => [](OneWriteAtATime /\ NoStranded)

\* The i-th frame on the wire is the i-th message pushed (or what is left of
\* its buffer), and what is pushed is on the wire or in the queue: nothing is
\* lost, repeated or overtaken, whatever the sends and completions do.
InOrder ==
    \A s \in Sessions :
        /\ \A i \in DOMAIN wire[s] : wire[s][i] \in {i} \cup Garbage
        /\ Len(wire[s]) + Len(sendQueue[s]) =
               pushed[s] + (IF writeOp[s] = "ok" THEN 1 ELSE 0)

\* The session is an ordered channel: every step of send(), doWrite(), onWrite()
\* and the transport is a step of OutboundChannel or changes nothing in it.
Channel == INSTANCE OutboundChannel
    WITH accepted <- pushed, received <- wire, open <- up
IsChannel == Channel!ChannelSpec
=============================================================================
