--------------------------- MODULE WsSessionProofs ---------------------------
(***************************************************************************)
(* Proofs about WsSession, for any sessions, threads and bounds.           *)
(*                                                                         *)
(* What a frame and a queue hold (TypeInv, OrderInv) does not depend on    *)
(* who calls send().  That writes never overlap and that no wake-up is     *)
(* lost (TurnInv) is proved of every behaviour in which no two actors are  *)
(* in send() or onWrite() of one session at once; README.md tells how both *)
(* fail in the others.                                                     *)
(***************************************************************************)
EXTENDS WsSession, SequenceTheorems, TLAPS

\* The message that is being written stays at the front of the queue.
HeldWhileWriting ==
    \A s \in Sessions : writeOp[s] # "none" => sendQueue[s] # <<>>

\* What holds of the streams wherever the actors are.
StreamInv == StreamTypeOK /\ HeldWhileWriting

TypeInv == SessionTypeOK /\ HeldWhileWriting

-----------------------------------------------------------------------------
(* Types.                                                                  *)

USE DEF SendPcs, Goto, Front, PushBack, PopFront, streamVars, callVars

\* A new session has its types and an empty queue.
LEMMA StreamInit == SessionInit => StreamInv
<1> SUFFICES ASSUME SessionInit
             PROVE  StreamInv
  OBVIOUS
<1> USE DEF SessionInit
<1>1. to \in [Actors -> Sessions]
  OBVIOUS
<1>2. wire \in [Sessions -> Seq(Nat \cup Garbage)] /\ sendQueue \in [Sessions -> Seq(Nat)]
  OBVIOUS
<1>3. \A s \in Sessions : Len(sendQueue[s]) <= pushed[s]
  <2> SUFFICES ASSUME NEW s \in Sessions
               PROVE  Len(sendQueue[s]) <= pushed[s]
    OBVIOUS
  <2>1. sendQueue[s] = <<>> /\ pushed[s] = 0
    OBVIOUS
  <2>2. Len(sendQueue[s]) = 0
    BY <2>1
  <2>3. QED
    BY <2>1, <2>2
<1>4. frame \in [Sessions -> Nat \cup Garbage]
  OBVIOUS
<1>5. QED
  BY <1>1, <1>2, <1>3, <1>4 DEF StreamInv, StreamTypeOK, HeldWhileWriting

LEMMA TypeInit == SessionInit => TypeInv
<1>1. SessionInit => pc \in [Actors -> SendPcs \cup {"idle", "next"}]
  BY DEF SessionInit
<1>2. QED
  BY <1>1, StreamInit DEF TypeInv, SessionTypeOK, StreamInv

\* doWrite() starts a write, ends the process or finds nothing to write.
LEMMA DoWriteType ==
    ASSUME NEW s \in Sessions, StreamInv, DoWrite(s), UNCHANGED sendQueue
    PROVE  /\ writeOp' \in [Sessions -> {"none", "pending", "ok", "error"}]
           /\ frame' \in [Sessions -> Nat \cup Garbage]
           /\ ended' \in {"no", "assertion", "exception"}
           /\ HeldWhileWriting'
<1> USE DEF StreamInv, StreamTypeOK, HeldWhileWriting
<1>1. sendQueue[s] # <<>> => sendQueue[s][1] \in Nat
  OBVIOUS
<1>2. CASE sendQueue[s] # <<>> /\ writeOp[s] = "none"
  <2>1. PICK f \in {sendQueue[s][1]} \cup Garbage : frame' = [frame EXCEPT ![s] = f]
    BY <1>2 DEF DoWrite
  <2>2. frame' \in [Sessions -> Nat \cup Garbage]
    BY <1>1, <1>2, <2>1
  <2>3. writeOp' = [writeOp EXCEPT ![s] = "pending"] /\ ended' = ended
    BY <1>2 DEF DoWrite
  <2>4. QED
    BY <1>2, <2>2, <2>3
<1>3. CASE ~(sendQueue[s] # <<>> /\ writeOp[s] = "none")
  BY <1>3 DEF DoWrite
<1>4. QED
  BY <1>2, <1>3

\* send(), doWrite(), onWrite() and the transport, whatever comes after them,
\* keep the types, and pop only the message they have written.
LEMMA StreamNext ==
    ASSUME StreamInv,
           NEW label,
           \/ \E a \in Actors : SendTest(a) \/ SendPush(a, label) \/ SendStart(a, label)
           \/ \E s \in Sessions : \/ OnWriteOk(s) \/ OnWriteNext(s) \/ OnWriteError(s, label)
                                  \/ Transport(s) \/ ConnectionLost(s)
    PROVE  StreamInv'
<1> USE DEF StreamInv, StreamTypeOK, HeldWhileWriting
<1>1. ASSUME NEW a \in Actors, SendTest(a)
      PROVE  StreamInv'
  BY <1>1 DEF SendTest, WriteInProgress
<1>2. ASSUME NEW a \in Actors, SendPush(a, label)
      PROVE  StreamInv'
  <2> DEFINE s == to[a]
  <2> DEFINE q == Append(sendQueue[s], pushed[s] + 1)
  <2>1. s \in Sessions
    OBVIOUS
  <2>2. q \in Seq(Nat) /\ Len(q) = Len(sendQueue[s]) + 1 /\ q # <<>>
    <3>1. sendQueue[s] \in Seq(Nat) /\ pushed[s] + 1 \in Nat
      BY <2>1
    <3>2. QED
      BY ONLY <3>1, SMT
  <2>3. pushed' = [pushed EXCEPT ![s] = @ + 1] /\ sendQueue' = [sendQueue EXCEPT ![s] = q]
    BY <1>2 DEF SendPush
  <2> HIDE DEF s, q
  <2>4. /\ sendQueue' \in [Sessions -> Seq(Nat)]
        /\ pushed' \in [Sessions -> Nat]
        /\ \A r \in Sessions : Len(sendQueue'[r]) <= pushed'[r]
        /\ \A r \in Sessions : sendQueue[r] # <<>> => sendQueue'[r] # <<>>
    BY <2>1, <2>2, <2>3
  <2>5. QED
    BY <1>2, <2>4 DEF SendPush
<1>3. ASSUME NEW a \in Actors, SendStart(a, label)
      PROVE  StreamInv'
  <2>1. to[a] \in Sessions
    OBVIOUS
  <2>2. QED
    BY <1>3, <2>1, DoWriteType DEF SendStart
<1>4. ASSUME NEW s \in Sessions, OnWriteOk(s)
      PROVE  StreamInv'
  <2>1. sendQueue[s] # <<>>
    BY <1>4 DEF OnWriteOk
  <2>2. Tail(sendQueue[s]) \in Seq(Nat) /\ Len(Tail(sendQueue[s])) <= pushed[s]
    BY <2>1
  <2>3. QED
    BY <1>4, <2>2 DEF OnWriteOk
<1>5. ASSUME NEW s \in Sessions, OnWriteNext(s)
      PROVE  StreamInv'
  BY <1>5, DoWriteType DEF OnWriteNext
<1>6. ASSUME NEW s \in Sessions, OnWriteError(s, label)
      PROVE  StreamInv'
  BY <1>6 DEF OnWriteError
<1>7. ASSUME NEW s \in Sessions, WriteDone(s)
      PROVE  StreamInv'
  BY <1>7 DEF WriteDone
<1>8. ASSUME NEW s \in Sessions, WriteFails(s) \/ ConnectionLost(s)
      PROVE  StreamInv'
  BY <1>8 DEF WriteFails, ConnectionLost
<1>9. QED
  BY <1>1, <1>2, <1>3, <1>4, <1>5, <1>6, <1>7, <1>8 DEF Transport

\* The same of a session on its own, with where its actors are.
LEMMA TypeNext == TypeInv /\ [SessionNext]_sessionVars => TypeInv'
<1> SUFFICES ASSUME TypeInv, [SessionNext]_sessionVars
             PROVE  TypeInv'
  OBVIOUS
<1>1. StreamInv
  BY DEF TypeInv, SessionTypeOK, StreamInv
<1>2. StreamInv'
  <2>1. ASSUME NEW a \in Actors, NEW s \in Sessions, BeginSend(a, s)
        PROVE  StreamInv'
    BY <1>1, <2>1 DEF BeginSend, StreamInv, StreamTypeOK, HeldWhileWriting
  <2>2. CASE UNCHANGED sessionVars
    BY <1>1, <2>2 DEF sessionVars, StreamInv, StreamTypeOK, HeldWhileWriting
  <2>3. QED
    BY <1>1, <2>1, <2>2, StreamNext DEF SessionNext, Sender, Completion
<1>3. (pc \in [Actors -> SendPcs \cup {"idle", "next"}])'
  BY DEF TypeInv, SessionTypeOK, Actors, SessionNext, sessionVars, BeginSend, Sender,
         SendTest, SendPush, SendStart, Completion, OnWriteOk, OnWriteNext, OnWriteError,
         Transport, WriteDone, WriteFails, ConnectionLost
<1>4. QED
  BY <1>2, <1>3 DEF TypeInv, SessionTypeOK, StreamInv

\* Every variable keeps its type; in particular pop_front() is never called on
\* an empty queue, because the message being written is still in it.
THEOREM SessionTypeCorrect == SessionSpec => []SessionTypeOK
<1>1. TypeInv => SessionTypeOK
  BY DEF TypeInv
<1>2. QED
  BY TypeInit, TypeNext, <1>1, PTL DEF SessionSpec

-----------------------------------------------------------------------------
(* The order of what is pushed, queued and on the wire.                    *)

\* Queue q holds the latest of the n messages pushed, wire w the ones before,
\* and a pending write carries the next one.
Ordered(q, n, w, op, f) ==
    /\ \A i \in 1..Len(q) : q[i] = n - Len(q) + i
    /\ Len(w) + Len(q) = n + (IF op = "ok" THEN 1 ELSE 0)
    /\ \A i \in 1..Len(w) : w[i] \in {i} \cup Garbage
    /\ op = "pending" => f \in {Len(w) + 1} \cup Garbage

OrderInv ==
    \A s \in Sessions : Ordered(sendQueue[s], pushed[s], wire[s], writeOp[s], frame[s])

\* send() pushes the next number.
LEMMA OrderedPush ==
    ASSUME NEW q \in Seq(Nat), NEW n \in Nat, NEW w \in Seq(Nat \cup Garbage), NEW op, NEW f,
           Ordered(q, n, w, op, f), NEW m \in Nat, m = n + 1
    PROVE  Ordered(Append(q, m), m, w, op, f)
<1> DEFINE r == Append(q, m)
<1>1. /\ Len(r) = Len(q) + 1
      /\ \A i \in 1..Len(q) : r[i] = q[i]
      /\ r[Len(q) + 1] = m
  BY AppendProperties
<1>2. Len(q) \in Nat /\ Len(w) \in Nat
  OBVIOUS
<1> HIDE DEF r
<1>3. ASSUME NEW i \in 1..Len(r)
      PROVE  r[i] = m - Len(r) + i
  <2>1. CASE i \in 1..Len(q)
    <3>1. r[i] = n - Len(q) + i
      BY <1>1, <2>1 DEF Ordered
    <3>2. QED
      BY <1>1, <1>2, <3>1
  <2>2. CASE i = Len(q) + 1
    BY <1>1, <1>2, <2>2
  <2>3. QED
    BY <1>1, <1>2, <2>1, <2>2
<1>4. Ordered(r, m, w, op, f)
  BY <1>1, <1>2, <1>3 DEF Ordered
<1>5. QED
  BY <1>4 DEF r

\* onWrite() takes the message that was written off the queue.
LEMMA OrderedPop ==
    ASSUME NEW q \in Seq(Nat), NEW n \in Nat, NEW w \in Seq(Nat \cup Garbage), NEW f,
           q # <<>>, Ordered(q, n, w, "ok", f)
    PROVE  Ordered(Tail(q), n, w, "none", f)
<1>1. /\ Len(Tail(q)) = Len(q) - 1
      /\ \A i \in 1..Len(Tail(q)) : Tail(q)[i] = q[i + 1]
  BY HeadTailProperties
<1>2. Len(q) \in Nat /\ Len(w) \in Nat
  OBVIOUS
<1>3. ASSUME NEW i \in 1..Len(Tail(q))
      PROVE  Tail(q)[i] = n - Len(Tail(q)) + i
  BY <1>1, <1>2, <1>3 DEF Ordered
<1>4. QED
  BY <1>1, <1>2, <1>3 DEF Ordered

\* doWrite() takes the message after the last one on the wire.
LEMMA OrderedStart ==
    ASSUME NEW q \in Seq(Nat), NEW n \in Nat, NEW w \in Seq(Nat \cup Garbage), NEW f,
           q # <<>>, Ordered(q, n, w, "none", f), NEW g \in {q[1]} \cup Garbage
    PROVE  Ordered(q, n, w, "pending", g)
<1>1. Len(q) \in Nat \ {0} /\ Len(w) \in Nat
  BY EmptySeq
<1>2. q[1] = Len(w) + 1
  BY <1>1 DEF Ordered
<1>3. QED
  BY <1>1, <1>2 DEF Ordered

\* A write that ends puts its frame on the wire.
LEMMA OrderedDone ==
    ASSUME NEW q \in Seq(Nat), NEW n \in Nat, NEW w \in Seq(Nat \cup Garbage),
           NEW f \in Nat \cup Garbage, Ordered(q, n, w, "pending", f)
    PROVE  Ordered(q, n, Append(w, f), "ok", f)
<1> DEFINE v == Append(w, f)
<1>1. /\ Len(v) = Len(w) + 1
      /\ \A i \in 1..Len(w) : v[i] = w[i]
      /\ v[Len(w) + 1] = f
  BY AppendProperties
<1>2. Len(q) \in Nat /\ Len(w) \in Nat
  OBVIOUS
<1> HIDE DEF v
<1>3. ASSUME NEW i \in 1..Len(v)
      PROVE  v[i] \in {i} \cup Garbage
  <2>1. i \in 1..Len(w) \/ i = Len(w) + 1
    BY <1>1, <1>2
  <2>2. CASE i \in 1..Len(w)
    BY <1>1, <2>2 DEF Ordered
  <2>3. CASE i = Len(w) + 1
    BY <1>1, <2>3 DEF Ordered
  <2>4. QED
    BY <2>1, <2>2, <2>3
<1>4. Ordered(q, n, v, "ok", f)
  BY <1>1, <1>2, <1>3 DEF Ordered
<1>5. QED
  BY <1>4 DEF v

\* A new session has pushed nothing and written nothing.
LEMMA OrderInit == SessionInit => OrderInv
<1> SUFFICES ASSUME SessionInit, NEW s \in Sessions
             PROVE  Ordered(sendQueue[s], pushed[s], wire[s], writeOp[s], frame[s])
  BY DEF OrderInv
<1>0. SUFFICES Ordered(<<>>, 0, <<>>, "none", 0)
  <2>1. /\ sendQueue[s] = <<>> /\ pushed[s] = 0 /\ wire[s] = <<>>
        /\ writeOp[s] = "none" /\ frame[s] = 0
    BY DEF SessionInit
  <2>2. QED
    BY <2>1
<1>1. Len(<<>>) = 0
  OBVIOUS
<1>2. QED
  BY <1>1 DEF Ordered

\* doWrite(), from send() or onWrite(), keeps the order.
LEMMA OrderDoWrite ==
    ASSUME NEW s \in Sessions, TypeInv, OrderInv, DoWrite(s),
           UNCHANGED <<sendQueue, pushed, wire>>
    PROVE  OrderInv'
<1>1. /\ sendQueue[s] \in Seq(Nat) /\ pushed[s] \in Nat /\ wire[s] \in Seq(Nat \cup Garbage)
      /\ frame \in [Sessions -> Nat \cup Garbage]
      /\ writeOp \in [Sessions -> {"none", "pending", "ok", "error"}]
  BY DEF TypeInv, SessionTypeOK, StreamTypeOK
<1>2. CASE sendQueue[s] # <<>> /\ writeOp[s] = "none"
  <2>1. PICK g \in {sendQueue[s][1]} \cup Garbage : frame' = [frame EXCEPT ![s] = g]
    BY <1>2 DEF DoWrite
  <2>2. writeOp' = [writeOp EXCEPT ![s] = "pending"]
    BY <1>2 DEF DoWrite
  <2>3. Ordered(sendQueue[s], pushed[s], wire[s], "none", frame[s])
    BY <1>2 DEF OrderInv
  <2>4. Ordered(sendQueue[s], pushed[s], wire[s], "pending", g)
    BY <1>1, <1>2, <2>3, OrderedStart
  <2>5. QED
    BY <1>1, <2>1, <2>2, <2>4 DEF OrderInv
<1>3. CASE ~(sendQueue[s] # <<>> /\ writeOp[s] = "none")
  BY <1>3 DEF DoWrite, OrderInv
<1>4. QED
  BY <1>2, <1>3

\* So does every step of the session and its transport.
LEMMA OrderNext == TypeInv /\ OrderInv /\ [SessionNext]_sessionVars => OrderInv'
<1> SUFFICES ASSUME TypeInv, OrderInv, [SessionNext]_sessionVars
             PROVE  OrderInv'
  OBVIOUS
<1>0. /\ sendQueue \in [Sessions -> Seq(Nat)]
      /\ pushed \in [Sessions -> Nat]
      /\ wire \in [Sessions -> Seq(Nat \cup Garbage)]
      /\ frame \in [Sessions -> Nat \cup Garbage]
      /\ writeOp \in [Sessions -> {"none", "pending", "ok", "error"}]
      /\ to \in [Actors -> Sessions]
  BY DEF TypeInv, SessionTypeOK, StreamTypeOK
<1>1. ASSUME NEW a \in Actors, NEW s \in Sessions, BeginSend(a, s)
      PROVE  OrderInv'
  BY <1>1 DEF BeginSend, OrderInv
<1>2. ASSUME NEW a \in Actors, SendTest(a)
      PROVE  OrderInv'
  BY <1>2 DEF SendTest, OrderInv
<1>3. ASSUME NEW a \in Actors, SendPush(a, "idle")
      PROVE  OrderInv'
  <2> DEFINE s == to[a]
  <2>1. s \in Sessions
    BY <1>0
  <2>2. /\ sendQueue' = [sendQueue EXCEPT ![s] = Append(@, pushed[s] + 1)]
        /\ pushed' = [pushed EXCEPT ![s] = @ + 1]
        /\ UNCHANGED <<wire, writeOp, frame>>
    BY <1>3 DEF SendPush
  <2> HIDE DEF s
  <2>3. Ordered(Append(sendQueue[s], pushed[s] + 1), pushed[s] + 1, wire[s], writeOp[s], frame[s])
    <3>1. PICK m \in Nat : m = pushed[s] + 1
      BY <1>0, <2>1
    <3>2. Ordered(sendQueue[s], pushed[s], wire[s], writeOp[s], frame[s])
      BY <2>1 DEF OrderInv
    <3>3. Ordered(Append(sendQueue[s], m), m, wire[s], writeOp[s], frame[s])
      BY <1>0, <2>1, <3>1, <3>2, OrderedPush
    <3>4. QED
      BY <3>1, <3>3
  <2>4. QED
    BY <1>0, <2>1, <2>2, <2>3 DEF OrderInv
<1>4. ASSUME NEW a \in Actors, SendStart(a, "idle")
      PROVE  OrderInv'
  BY <1>0, <1>4, OrderDoWrite DEF SendStart
<1>5. ASSUME NEW s \in Sessions, OnWriteOk(s)
      PROVE  OrderInv'
  <2>1. /\ writeOp[s] = "ok"
        /\ writeOp' = [writeOp EXCEPT ![s] = "none"]
        /\ sendQueue' = [sendQueue EXCEPT ![s] = Tail(@)]
        /\ UNCHANGED <<pushed, wire, frame>>
    BY <1>5 DEF OnWriteOk
  <2>2. sendQueue[s] # <<>>
    BY <2>1 DEF TypeInv, HeldWhileWriting
  <2>3. Ordered(sendQueue[s], pushed[s], wire[s], "ok", frame[s])
    BY <2>1 DEF OrderInv
  <2>4. Ordered(Tail(sendQueue[s]), pushed[s], wire[s], "none", frame[s])
    BY <1>0, <2>2, <2>3, OrderedPop
  <2>5. QED
    BY <1>0, <2>1, <2>4 DEF OrderInv
<1>6. ASSUME NEW s \in Sessions, OnWriteNext(s)
      PROVE  OrderInv'
  BY <1>6, OrderDoWrite DEF OnWriteNext
<1>7. ASSUME NEW s \in Sessions, OnWriteError(s, "idle")
      PROVE  OrderInv'
  BY <1>0, <1>7 DEF OnWriteError, OrderInv, Ordered
<1>8. ASSUME NEW s \in Sessions, WriteDone(s)
      PROVE  OrderInv'
  <2>1. /\ writeOp[s] = "pending"
        /\ writeOp' = [writeOp EXCEPT ![s] = "ok"]
        /\ wire' = [wire EXCEPT ![s] = Append(@, frame[s])]
        /\ UNCHANGED <<sendQueue, pushed, frame>>
    BY <1>8 DEF WriteDone
  <2>2. Ordered(sendQueue[s], pushed[s], wire[s], "pending", frame[s])
    BY <2>1 DEF OrderInv
  <2>3. Ordered(sendQueue[s], pushed[s], Append(wire[s], frame[s]), "ok", frame[s])
    BY <1>0, <2>2, OrderedDone
  <2>4. QED
    BY <1>0, <2>1, <2>3 DEF OrderInv
<1>9. ASSUME NEW s \in Sessions, WriteFails(s)
      PROVE  OrderInv'
  BY <1>0, <1>9 DEF WriteFails, OrderInv, Ordered
<1>10. ASSUME NEW s \in Sessions, ConnectionLost(s)
       PROVE  OrderInv'
  BY <1>10 DEF ConnectionLost, OrderInv
<1>11. CASE UNCHANGED sessionVars
  BY <1>11 DEF sessionVars, OrderInv
<1>12. QED
  BY <1>1, <1>2, <1>3, <1>4, <1>5, <1>6, <1>7, <1>8, <1>9, <1>10, <1>11
     DEF SessionNext, Sender, Completion, Transport

\* The frames of a session are its messages in the order they were pushed, none
\* lost, repeated or overtaken, whoever calls send() and whenever writes end.
THEOREM SessionInOrder == SessionSpec => []InOrder
<1>1. TypeInv /\ OrderInv => InOrder
  <2> SUFFICES ASSUME TypeInv, OrderInv, NEW s \in Sessions
               PROVE  /\ \A i \in DOMAIN wire[s] : wire[s][i] \in {i} \cup Garbage
                      /\ Len(wire[s]) + Len(sendQueue[s]) =
                             pushed[s] + (IF writeOp[s] = "ok" THEN 1 ELSE 0)
    BY DEF InOrder
  <2>1. DOMAIN wire[s] = 1..Len(wire[s])
    BY DEF TypeInv, SessionTypeOK, StreamTypeOK
  <2>2. QED
    BY <2>1 DEF OrderInv, Ordered
<1>2. QED
  BY TypeInit, TypeNext, OrderInit, OrderNext, <1>1, PTL DEF SessionSpec

-----------------------------------------------------------------------------
(* The session is an ordered channel.                                      *)

\* A new session is an empty channel.
LEMMA ChannelStart == SessionInit => Channel!ChannelInit
BY DEF SessionInit, Channel!ChannelInit

\* Each step of the session is a step of the channel or changes nothing of it.
LEMMA ChannelStep ==
    TypeInv /\ OrderInv /\ [SessionNext]_sessionVars => [Channel!ChannelNext]_(Channel!channelVars)
<1> SUFFICES ASSUME TypeInv, OrderInv, [SessionNext]_sessionVars
             PROVE  Channel!ChannelNext \/ UNCHANGED <<pushed, wire, up>>
  BY DEF Channel!channelVars
<1>0. /\ sendQueue \in [Sessions -> Seq(Nat)]
      /\ pushed \in [Sessions -> Nat]
      /\ wire \in [Sessions -> Seq(Nat \cup Garbage)]
      /\ to \in [Actors -> Sessions]
  BY DEF TypeInv, SessionTypeOK, StreamTypeOK
<1>1. ASSUME NEW a \in Actors, SendPush(a, "idle")
      PROVE  Channel!Accept(to[a])
  BY <1>1 DEF SendPush, Channel!Accept
<1>2. ASSUME NEW s \in Sessions, WriteDone(s)
      PROVE  Channel!Deliver(s)
  <2>1. writeOp[s] = "pending" /\ up[s]
    BY <1>2 DEF WriteDone
  <2>2. frame[s] \in {Len(wire[s]) + 1} \cup Garbage /\ Len(wire[s]) + Len(sendQueue[s]) = pushed[s]
    <3>1. Ordered(sendQueue[s], pushed[s], wire[s], "pending", frame[s])
      BY <2>1 DEF OrderInv
    <3>2. pushed[s] \in Nat /\ Len(wire[s]) \in Nat /\ Len(sendQueue[s]) \in Nat
      BY <1>0
    <3>3. frame[s] \in {Len(wire[s]) + 1} \cup Garbage
      BY <3>1 DEF Ordered
    <3>4. Len(wire[s]) + Len(sendQueue[s]) = pushed[s] + 0
      BY <3>1 DEF Ordered
    <3>5. pushed[s] + 0 = pushed[s]
      BY <3>2
    <3>6. QED
      BY <3>3, <3>4, <3>5, Zenon
  <2>3. Len(sendQueue[s]) \in Nat \ {0}
    BY <1>0, <2>1, EmptySeq DEF TypeInv, HeldWhileWriting
  <2>4. Len(wire[s]) < pushed[s]
    BY <1>0, <2>2, <2>3
  <2>5. QED
    BY <1>2, <2>1, <2>2, <2>4 DEF WriteDone, Channel!Deliver
<1>3. ASSUME NEW s \in Sessions, WriteFails(s) \/ ConnectionLost(s)
      PROVE  Channel!Break({s})
  <2>1. up' = [up EXCEPT ![s] = FALSE] /\ UNCHANGED <<pushed, wire>>
    BY <1>3 DEF WriteFails, ConnectionLost
  <2>2. up \in [Sessions -> BOOLEAN]
    BY DEF StreamTypeOK, SessionTypeOK, TypeInv
  <2>3. up' = [x \in Sessions |-> up[x] /\ x \notin {s}]
    BY <2>1, <2>2
  <2>4. QED
    BY <2>1, <2>3 DEF Channel!Break
<1>4. ASSUME NEW a \in Actors, SendTest(a) \/ SendStart(a, "idle")
      PROVE  UNCHANGED <<pushed, wire, up>>
  BY <1>4 DEF SendTest, SendStart
<1>5. ASSUME NEW s \in Sessions, OnWriteOk(s) \/ OnWriteNext(s) \/ OnWriteError(s, "idle")
      PROVE  UNCHANGED <<pushed, wire, up>>
  BY <1>5 DEF OnWriteOk, OnWriteNext, OnWriteError
<1>6. ASSUME NEW a \in Actors, NEW s \in Sessions, BeginSend(a, s)
      PROVE  UNCHANGED <<pushed, wire, up>>
  BY <1>6 DEF BeginSend
<1>7. CASE UNCHANGED sessionVars
  BY <1>7 DEF sessionVars
<1>8. QED
  BY <1>0, <1>1, <1>2, <1>3, <1>4, <1>5, <1>6, <1>7
     DEF SessionNext, Sender, Completion, Transport, Channel!ChannelNext

\* WsSession implements OutboundChannel.
THEOREM SessionIsChannel == SessionSpec => IsChannel
<1>1. QED
  BY TypeInit, TypeNext, OrderInit, OrderNext, ChannelStart, ChannelStep, PTL
     DEF SessionSpec, IsChannel, Channel!ChannelSpec

-----------------------------------------------------------------------------
(* One actor at a time in a session: writes never overlap and no wake-up   *)
(* is lost.                                                                *)

\* Somebody is about to see to the queue of s.
Awaited(s) ==
    \/ writeOp[s] # "none"
    \/ pc[s] = "next"
    \/ \E a \in Actors : to[a] = s /\ pc[a] = "start"

\* Where the actor in session s is says what its queue and its write are: push_back
\* follows a test that is still true, a write starts where there is none, and a queue
\* that holds a message is seen to, or dead.
Turn(s) ==
    /\ \A a \in Actors : to[a] = s =>
          /\ pc[a] = "push" => (wip[a] <=> sendQueue[s] # <<>>)
          /\ pc[a] = "start" => writeOp[s] = "none"
    /\ pc[s] = "next" => writeOp[s] = "none"
    /\ sendQueue[s] # <<>> /\ up[s] => Awaited(s)
    /\ writeOp[s] = "error" => ~up[s]

TurnInv ==
    /\ ended = "no"
    /\ \A s \in Sessions : Turn(s)

\* A new session has nothing to start.
LEMMA TurnInit == SessionInit => TurnInv
BY DEF SessionInit, TurnInv, Turn, Awaited

\* The test in send() is still true when send() acts on it, because nobody else was
\* in the session meanwhile.
LEMMA TurnNext ==
    TypeInv /\ TurnInv /\ Exclusive /\ Exclusive' /\ [SessionNext]_sessionVars => TurnInv'
<1> SUFFICES ASSUME TypeInv, TurnInv, Exclusive, Exclusive', [SessionNext]_sessionVars
             PROVE  TurnInv'
  OBVIOUS
<1> USE DEF TurnInv, Turn, Awaited
<1>0. /\ Sessions \subseteq Actors
      /\ sendQueue \in [Sessions -> Seq(Nat)]
      /\ writeOp \in [Sessions -> {"none", "pending", "ok", "error"}]
      /\ up \in [Sessions -> BOOLEAN]
      /\ pc \in [Actors -> {"test", "push", "start", "idle", "next"}]
      /\ to \in [Actors -> Sessions]
      /\ wip \in [Actors -> BOOLEAN]
      /\ HeldWhileWriting
  BY DEF TypeInv, SessionTypeOK, StreamTypeOK, Actors
<1>a. ASSUME NEW a \in Actors, NEW b \in Actors, NEW s \in Sessions, to[a] = s, to[b] = s,
             pc[a] \in {"test", "push", "start"}, pc[b] \in {"test", "push", "start"}
      PROVE  a = b /\ (pc[s] = "next" => a = s)
  BY <1>0, <1>a DEF Exclusive, InSession
<1>1. ASSUME NEW a \in Actors, NEW s \in Sessions, BeginSend(a, s)
      PROVE  TurnInv'
  BY <1>0, <1>1 DEF BeginSend
<1>2. ASSUME NEW a \in Actors, SendTest(a)
      PROVE  TurnInv'
  <2>1. wip'[a] <=> sendQueue[to[a]] # <<>>
    BY <1>0, <1>2 DEF SendTest, WriteInProgress
  <2>2. /\ pc[a] = "test"
        /\ pc' = [pc EXCEPT ![a] = "push"]
        /\ \A b \in Actors : b # a => wip'[b] = wip[b]
        /\ UNCHANGED <<sendQueue, writeOp, up, ended, to>>
    BY <1>0, <1>2 DEF SendTest
  <2>3. QED
    BY <1>0, <2>1, <2>2
<1>3. ASSUME NEW a \in Actors, SendPush(a, "idle")
      PROVE  TurnInv'
  <2>1. PICK s \in Sessions : s = to[a]
    BY <1>0
  <2>2. PICK q \in Seq(Nat) : q # <<>> /\ sendQueue' = [sendQueue EXCEPT ![s] = q]
    <3>1. PICK m \in Nat : m = pushed[s] + 1
      BY DEF TypeInv, SessionTypeOK, StreamTypeOK
    <3>2. sendQueue' = [sendQueue EXCEPT ![s] = Append(sendQueue[s], m)]
      BY <1>0, <1>3, <2>1, <3>1 DEF SendPush
    <3>3. Append(sendQueue[s], m) \in Seq(Nat) /\ Append(sendQueue[s], m) # <<>>
      <4>1. sendQueue[s] \in Seq(Nat)
        BY <1>0
      <4>2. QED
        BY <4>1, AppendProperties
    <3>4. QED
      BY <3>2, <3>3
  <2>3. /\ pc[a] = "push"
        /\ pc' = [pc EXCEPT ![a] = IF wip[a] THEN "idle" ELSE "start"]
        /\ wip' = [wip EXCEPT ![a] = FALSE]
        /\ UNCHANGED <<writeOp, up, ended, to>>
    BY <1>3 DEF SendPush
  <2>4. ~wip[a] => writeOp[s] = "none"
    BY <1>0, <2>1, <2>3 DEF HeldWhileWriting
  <2>5. wip[a] /\ up[s] => writeOp[s] # "none"
    <3>1. wip[a] => sendQueue[s] # <<>>
      BY <2>1, <2>3
    <3>2. pc[s] # "next"
      BY <1>a, <2>1, <2>3
    <3>3. \A b \in Actors : to[b] = s => pc[b] # "start"
      BY <1>a, <2>1, <2>3
    <3>4. QED
      BY <3>1, <3>2, <3>3
  <2>6. \A b \in Actors : to[b] = s /\ pc[b] \in {"push", "start"} => b = a
    BY <1>0, <1>a, <2>1, <2>3
  <2>7. Turn(s)'
    BY <1>0, <2>1, <2>2, <2>3, <2>4, <2>5, <2>6
  <2>8. ASSUME NEW r \in Sessions, r # s
        PROVE  Turn(r)'
    BY <1>0, <2>1, <2>2, <2>3, <2>8
  <2>9. QED
    BY <2>3, <2>7, <2>8
<1>4. ASSUME NEW a \in Actors, SendStart(a, "idle")
      PROVE  TurnInv'
  <2>1. PICK s \in Sessions : s = to[a]
    BY <1>0
  <2>2. /\ pc[a] = "start"
        /\ pc' = [pc EXCEPT ![a] = "idle"]
        /\ UNCHANGED <<sendQueue, up, to, wip>>
        /\ writeOp[s] = "none"
        /\ DoWrite(s)
    BY <1>0, <1>4, <2>1 DEF SendStart
  <2>3. \A b \in Actors : to[b] = s /\ pc[b] \in {"push", "start"} => b = a
    BY <1>0, <1>a, <2>1, <2>2
  <2>4. /\ ended' = ended
        /\ sendQueue[s] # <<>> => writeOp' = [writeOp EXCEPT ![s] = "pending"]
        /\ sendQueue[s] = <<>> => writeOp' = writeOp
    BY <2>2 DEF DoWrite
  <2>5. pc[s] = "next" => a = s
    BY <1>0, <1>a, <2>1, <2>2
  <2>6. Turn(s)'
    BY <1>0, <2>1, <2>2, <2>3, <2>4, <2>5
  <2>7. ASSUME NEW r \in Sessions, r # s
        PROVE  Turn(r)'
    BY <1>0, <2>1, <2>2, <2>4, <2>7
  <2>8. QED
    BY <2>4, <2>6, <2>7
<1>5. ASSUME NEW s \in Sessions, OnWriteOk(s)
      PROVE  TurnInv'
  <2>1. /\ pc[s] = "idle"
        /\ pc' = [pc EXCEPT ![s] = "next"]
        /\ writeOp' = [writeOp EXCEPT ![s] = "none"]
        /\ \A r \in Sessions : r # s => sendQueue'[r] = sendQueue[r]
        /\ UNCHANGED <<up, ended, to, wip>>
    BY <1>0, <1>5 DEF OnWriteOk
  <2>2. \A b \in Actors : to[b] = s => pc[b] \notin {"test", "push", "start"}
    BY <1>0, <2>1 DEF Exclusive, InSession
  <2>3. QED
    BY <1>0, <2>1, <2>2
<1>6. ASSUME NEW s \in Sessions, OnWriteNext(s)
      PROVE  TurnInv'
  <2>1. /\ pc[s] = "next"
        /\ pc' = [pc EXCEPT ![s] = "idle"]
        /\ UNCHANGED <<sendQueue, up, to, wip>>
        /\ writeOp[s] = "none"
        /\ DoWrite(s)
    BY <1>0, <1>6 DEF OnWriteNext
  <2>2. \A b \in Actors : to[b] = s => pc[b] \notin {"test", "push", "start"}
    BY <1>0, <2>1 DEF Exclusive, InSession
  <2>3. /\ ended' = ended
        /\ sendQueue[s] # <<>> => writeOp' = [writeOp EXCEPT ![s] = "pending"]
        /\ sendQueue[s] = <<>> => writeOp' = writeOp
    BY <2>1 DEF DoWrite
  <2>4. QED
    BY <1>0, <2>1, <2>2, <2>3
<1>7. ASSUME NEW s \in Sessions, OnWriteError(s, "idle")
      PROVE  TurnInv'
  BY <1>0, <1>7 DEF OnWriteError
<1>8. ASSUME NEW s \in Sessions, WriteDone(s)
      PROVE  TurnInv'
  BY <1>0, <1>8 DEF WriteDone
<1>9. ASSUME NEW s \in Sessions, WriteFails(s)
      PROVE  TurnInv'
  BY <1>0, <1>9 DEF WriteFails
<1>10. ASSUME NEW s \in Sessions, ConnectionLost(s)
       PROVE  TurnInv'
  BY <1>0, <1>10 DEF ConnectionLost
<1>11. CASE UNCHANGED sessionVars
  BY <1>11 DEF sessionVars
<1>12. QED
  BY <1>1, <1>2, <1>3, <1>4, <1>5, <1>6, <1>7, <1>8, <1>9, <1>10, <1>11
     DEF SessionNext, Sender, Completion, Transport

\* Whatever threads send, a stream has two writes, or a message without a write to
\* come, only where two actors have been in its session at once.
THEOREM SessionSafeWhileExclusive == SessionSpec => SafeWhileExclusive
<1>1. TurnInv => OneWriteAtATime /\ NoStranded
  BY DEF TurnInv, Turn, Awaited, OneWriteAtATime, NoStranded
<1>2. QED
  BY <1>1, TypeInit, TypeNext, TurnInit, TurnNext, PTL DEF SessionSpec, SafeWhileExclusive
=============================================================================
