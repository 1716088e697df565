-------------------------- MODULE HttpServerProofs --------------------------
(***************************************************************************)
(* Proofs about HttpServer, for any numbers of connections, requests and   *)
(* threads, HTTP or HTTPS, with stop() and the destructor at any moment    *)
(* the application may call them.                                          *)
(*                                                                         *)
(* OneHolder is inductive with the types: each handler takes the session   *)
(* from the operation that held it and hands it to the next.  That answers *)
(* are in order needs TurnInv: how far a connection is follows from who    *)
(* holds its session.                                                      *)
(***************************************************************************)
EXTENDS HttpServer, SequenceTheorems, TLAPS

USE DEF lifeVars, ioVars, connVars

\* The server as the constructor leaves it has its types.
LEMMA TypeInit == Init => TypeOK
<1> SUFFICES ASSUME Init
             PROVE  TypeOK
  OBVIOUS
<1>1. 0 \in 0..MaxStarts /\ 0 \in 0..NThreads /\ 0 \in 0..MaxRequests
  BY HttpServerAssumption
<1>2. LifeOK
  BY <1>1 DEF Init, LifeOK
<1>3. ConnsOK
  BY <1>1 DEF Init, ConnsOK
<1>4. QED
  BY <1>2, <1>3 DEF TypeOK

\* The server and its threads keep their types.
LEMMA LifeNext == LifeOK /\ [Next]_vars => LifeOK'
<1> SUFFICES ASSUME LifeOK, [Next]_vars
             PROVE  LifeOK'
  OBVIOUS
<1> USE DEF LifeOK
<1>0. NThreads \in Nat /\ MaxStarts \in Nat
  BY HttpServerAssumption
<1>1. ASSUME NEW call \in {"start", "run"}, StartListens(call)
      PROVE  LifeOK'
  <2>1. starts' \in 0..MaxStarts /\ toSpawn' \in 0..NThreads /\ accepts' \in Nat
    BY <1>0, <1>1 DEF StartListens, PoolSize
  <2>2. QED
    BY <1>1, <2>1 DEF StartListens
<1>2. CASE StartSpawns
  <2>1. toSpawn' \in 0..NThreads
    BY <1>0, <1>2 DEF StartSpawns
  <2>2. at' \in [Runners -> {"none", "idle", "busy", "done"}]
    BY <1>2 DEF StartSpawns
  <2>3. QED
    BY <1>2, <2>1, <2>2 DEF StartSpawns
<1>3. CASE StartReturns
  <2>0. toSpawn' = toSpawn /\ running' \in {running, FALSE}
    BY <1>3 DEF StartReturns
  <2>1. toSpawn' \in 0..NThreads /\ running' \in BOOLEAN
    <3>1. toSpawn' \in 0..NThreads
      BY <1>0, <2>0
    <3>2. running' \in BOOLEAN
      BY <2>0
    <3>3. QED
      BY <3>1, <3>2
  <2>2. main' \in {"ioc", "out"} /\ at' \in [Runners -> {"none", "idle", "busy", "done"}]
    BY <1>3 DEF StartReturns, Enter, AfterStart
  <2>3. QED
    BY <1>3, <2>1, <2>2 DEF StartReturns
<1>4. CASE RunEnters
  BY <1>4 DEF RunEnters, Enter, AfterStart
<1>5. ASSUME NEW p \in Callers, StopTests(p)
      PROVE  stopAt' \in [Callers -> {"out", "passed", "join"}] /\ stopped' \in BOOLEAN
  BY <1>5 DEF StopTests, StopGoes
<1>6. ASSUME NEW p \in Callers, StopBegins(p)
      PROVE  LifeOK'
  BY <1>5, <1>6 DEF StopBegins
<1>7. ASSUME NEW p \in Callers, StopStores(p)
      PROVE  LifeOK'
  BY <1>7 DEF StopStores, StopGoes
<1>8. ASSUME NEW p \in Callers, StopReturns(p)
      PROVE  LifeOK'
  BY <1>8 DEF StopReturns, StopGoes, Cleared
<1>9. CASE DestroyBegins
  BY <1>5, <1>9 DEF DestroyBegins, Callers
<1>10. CASE Destroys
  BY <1>10 DEF Destroys
<1>11. ASSUME NEW w \in Runners, Leaves(w)
       PROVE  LifeOK'
  BY <1>11 DEF Leaves
<1>12. ASSUME NEW w \in Runners, Answer(w)
       PROVE  LifeOK'
  BY <1>12 DEF Answer
<1>13. ASSUME NEW w \in Runners, NEW c \in Conns, Handler(w, c)
       PROVE  LifeOK'
  BY <1>13 DEF Handler, OnAccept, OnHandshake, OnRead, OnReadEnd, OnWrite
<1>14. ASSUME NEW c \in Conns, ClientConnects(c) \/ Transport(c)
       PROVE  LifeOK'
  BY <1>14 DEF ClientConnects, Transport, WriteDone, WriteFails, WriteEnds
<1>15. CASE UNCHANGED vars
  BY <1>15 DEF vars
<1>16. QED
  BY <1>1, <1>2, <1>3, <1>4, <1>6, <1>7, <1>8, <1>9, <1>10, <1>11, <1>12, <1>13, <1>14,
     <1>15 DEF Next, Starting, Stopping, Running

-----------------------------------------------------------------------------

\* How far a connection is, by who holds its session.
TurnInv ==
    \A c \in Conns :
        /\ c \in shaking \cup reading \/ writing[c] = "ok" \/ conn[c] \in {"away", "queued"}
               => asked[c] = Len(answers[c])
        /\ writing[c] = "pending" => response[c] = asked[c] /\ asked[c] = Len(answers[c]) + 1
        /\ \A j \in jobs :
               j.conn = c => j.request = asked[c] /\ asked[c] = Len(answers[c]) + 1

ConnsInv == ConnsOK /\ OneHolder /\ TurnInv

\* Who handles a request is a busy runner, with no other in hand.
MannedInv ==
    /\ \A j \in jobs : at[j.by] = "busy"
    /\ \A i, j \in jobs : i.by = j.by => i = j
    /\ at[0] # "none" => main = "ioc"

\* No connection is there before start().
LEMMA ConnsInit == Init => ConnsInv
<1> SUFFICES ASSUME Init
             PROVE  ConnsInv
  OBVIOUS
<1>1. ConnsOK
  BY TypeInit DEF TypeOK
<1>2. OneHolder
  BY DEF Init, OneHolder, Written, Handled
<1>3. TurnInv
  BY DEF Init, TurnInv
<1>4. QED
  BY <1>1, <1>2, <1>3 DEF ConnsInv

\* Every handler and every call hands a connection from one holder to one other,
\* or closes it, and its request has its turn.
LEMMA ConnsNext == ConnsInv /\ MannedInv /\ [Next]_vars => ConnsInv'
<1> SUFFICES ASSUME ConnsInv, MannedInv, [Next]_vars
             PROVE  ConnsInv'
  OBVIOUS
<1>0. MaxRequests \in Nat
  BY HttpServerAssumption
<1> USE DEF ConnsInv, ConnsOK, OneHolder, TurnInv, Written, Handled
<1>1. ASSUME UNCHANGED <<jobs, connVars>>
      PROVE  ConnsInv'
  BY <1>1
<1>2. CASE \/ \E call \in {"start", "run"} : StartListens(call)
           \/ StartSpawns \/ StartReturns \/ RunEnters \/ DestroyBegins
           \/ \E p \in Callers : StopBegins(p) \/ StopStores(p) \/ StopReturns(p)
           \/ \E w \in Runners : Leaves(w)
           \/ UNCHANGED vars
  <2>1. UNCHANGED <<jobs, connVars>>
    BY <1>2 DEF StartListens, StartSpawns, StartReturns, RunEnters, DestroyBegins,
                StopBegins, StopStores, StopReturns, Leaves, vars
  <2>2. QED
    BY <1>1, <2>1
<1>3. CASE Destroys
  <2>1. CASE ended' = "terminate" /\ UNCHANGED <<conn, shaking, reading, writing>>
    BY <1>1, <1>3, <2>1 DEF Destroys
  <2>2. CASE /\ \A w \in Workers : at[w] = "none"
             /\ conn' = [c \in Conns |-> "closed"]
             /\ shaking' = {} /\ reading' = {} /\ writing' = [c \in Conns |-> "none"]
    <3>1. jobs = {}
      BY <1>3, <2>2 DEF Destroys, MannedInv, Runners
    <3>2. UNCHANGED <<jobs, response, keep, asked, answers>>
      BY <1>3 DEF Destroys
    <3>3. QED
      BY <2>2, <3>1, <3>2
  <2>3. QED
    BY <1>3, <2>1, <2>2 DEF Destroys
<1>4. ASSUME NEW c \in Conns, ClientConnects(c)
      PROVE  ConnsInv'
  <2>1. /\ conn[c] = "away" /\ conn' = [conn EXCEPT ![c] = "queued"]
        /\ UNCHANGED <<jobs, shaking, reading, writing, response, keep, asked, answers>>
    BY <1>4 DEF ClientConnects
  <2>2. ConnsOK' /\ OneHolder'
    BY <2>1
  <2>3. TurnInv'
    BY <2>1
  <2>4. QED
    BY <2>2, <2>3
<1>5. ASSUME NEW c \in Conns, WriteDone(c)
      PROVE  ConnsInv'
  <2>1. /\ writing[c] = "pending"
        /\ writing' = [writing EXCEPT ![c] = "ok"]
        /\ answers' = [answers EXCEPT ![c] = Append(@, response[c])]
        /\ UNCHANGED <<jobs, conn, shaking, reading, response, keep, asked>>
    BY <1>5 DEF WriteDone, WriteEnds
  <2>2. PICK n \in Nat : n = Len(answers[c])
    <3>1. answers[c] \in Seq(0..MaxRequests)
      OBVIOUS
    <3>2. QED
      BY <3>1
  <2>3. answers'[c] \in Seq(0..MaxRequests) /\ Len(answers'[c]) = n + 1
    BY <2>1, <2>2
  <2>4. ConnsOK'
    BY <2>1, <2>3
  <2>5. OneHolder'
    BY <2>1
  <2>6. asked[c] = n + 1
    BY <2>1, <2>2
  <2>7. TurnInv'
    <3>1. Len(answers'[c]) = asked'[c] /\ writing'[c] = "ok"
      BY <2>1, <2>3, <2>6
    <3>2. \A j \in jobs' : j.conn # c
      <4>1. c \in Written /\ jobs' = jobs
        BY <2>1
      <4>2. \A j \in jobs : j.conn \in Handled
        OBVIOUS
      <4>3. Written \cap Handled = {}
        OBVIOUS
      <4>4. QED
        BY ONLY <4>1, <4>2, <4>3
    <3>3. \A d \in Conns \ {c} : answers'[d] = answers[d] /\ writing'[d] = writing[d]
      BY <2>1
    <3>4. QED
      BY <2>1, <3>1, <3>2, <3>3
  <2>8. QED
    BY <2>4, <2>5, <2>7
<1>6. ASSUME NEW c \in Conns, WriteFails(c)
      PROVE  ConnsInv'
  <2>1. /\ writing[c] = "pending"
        /\ writing' = [writing EXCEPT ![c] = "error"]
        /\ UNCHANGED <<jobs, conn, shaking, reading, response, keep, asked, answers>>
    BY <1>6 DEF WriteFails, WriteEnds
  <2>2. ConnsOK' /\ OneHolder'
    BY <2>1
  <2>3. TurnInv'
    BY <2>1
  <2>4. QED
    BY <2>2, <2>3
<1>7. ASSUME NEW w \in Runners, NEW c \in Conns, OnAccept(w, c)
      PROVE  ConnsInv'
  <2>1. /\ conn[c] = "queued" /\ conn' = [conn EXCEPT ![c] = "open"]
        /\ \/ shaking' = shaking \cup {c} /\ UNCHANGED reading
           \/ reading' = reading \cup {c} /\ UNCHANGED shaking
        /\ UNCHANGED <<jobs, writing, response, keep, asked, answers>>
    BY <1>7 DEF OnAccept
  <2>2. ConnsOK'
    <3> HIDE DEF OneHolder, TurnInv
    <3>1. QED
      BY <2>1
  <2>3. OneHolder'
    BY <2>1
  <2>4. TurnInv'
    BY <2>1
  <2>5. QED
    BY <2>2, <2>3, <2>4
<1>8. ASSUME NEW w \in Runners, NEW c \in Conns, OnHandshake(w, c)
      PROVE  ConnsInv'
  <2>1. /\ c \in shaking /\ shaking' = shaking \ {c}
        /\ \/ reading' = reading \cup {c} /\ UNCHANGED conn
           \/ conn' = [conn EXCEPT ![c] = "closed"] /\ UNCHANGED reading
        /\ UNCHANGED <<jobs, writing, response, keep, asked, answers>>
    BY <1>8 DEF OnHandshake, Gone
  <2>2. ConnsOK'
    <3> HIDE DEF OneHolder, TurnInv
    <3>1. QED
      BY <2>1
  <2>3. OneHolder'
    BY <2>1
  <2>4. TurnInv'
    BY <2>1
  <2>5. QED
    BY <2>2, <2>3, <2>4
<1>9. ASSUME NEW w \in Runners, NEW c \in Conns, OnRead(w, c)
      PROVE  ConnsInv'
  <2> DEFINE job == [by |-> w, conn |-> c, request |-> asked[c] + 1]
  <2>1. /\ c \in reading /\ asked[c] < MaxRequests
        /\ asked' = [asked EXCEPT ![c] = @ + 1]
        /\ reading' = reading \ {c}
        /\ jobs' = jobs \cup {job}
        /\ UNCHANGED <<conn, shaking, writing, response, keep, answers>>
    BY <1>9 DEF OnRead, AfterRead
  <2>2. asked[c] + 1 \in 1..MaxRequests /\ asked[c] + 1 \in 0..MaxRequests
    BY <1>0, <2>1
  <2>3. ConnsOK'
    <3> HIDE DEF OneHolder, TurnInv
    <3>1. QED
      BY <2>1, <2>2
  <2>4. \A j \in jobs : j.conn # c
    BY <2>1
  <2>5. OneHolder'
    <3>0. job.conn = c
      OBVIOUS
    <3>1. Handled' = Handled \cup {c}
      <4> HIDE DEF job
      <4>1. QED
        BY <2>1, <3>0
    <3>2. \A i, j \in jobs' : i.conn = j.conn => i = j
      <4> HIDE DEF job
      <4>1. QED
        BY <2>1, <2>4, <3>0
    <3>3. c \notin Written \cup Handled \cup shaking
      BY <2>1
    <3>4. Written' = Written
      BY <2>1
    <3>5. /\ {d \in Conns : conn[d] = "open"}' = shaking \cup reading \cup Written \cup Handled
          /\ shaking \cap reading = {} /\ Written \cap Handled = {}
          /\ (shaking \cup reading) \cap (Written \cup Handled) = {}
      BY <2>1
    <3> HIDE DEF Written, Handled, job
    <3>6. QED
      BY <2>1, <3>1, <3>2, <3>3, <3>4, <3>5
  <2>6. asked'[c] = Len(answers'[c]) + 1
    BY <2>1
  <2>7. TurnInv'
    BY <2>1, <2>4, <2>6
  <2>8. QED
    BY <2>3, <2>5, <2>7
<1>10. ASSUME NEW w \in Runners, NEW c \in Conns, OnReadEnd(w, c)
       PROVE  ConnsInv'
  <2>1. /\ c \in reading /\ reading' = reading \ {c}
        /\ conn' = [conn EXCEPT ![c] = "closed"]
        /\ UNCHANGED <<jobs, shaking, writing, response, keep, asked, answers>>
    BY <1>10 DEF OnReadEnd, Gone
  <2>2. ConnsOK' /\ OneHolder'
    BY <2>1
  <2>3. TurnInv'
    BY <2>1
  <2>4. QED
    BY <2>2, <2>3
<1>11. ASSUME NEW w \in Runners, NEW c \in Conns, OnWrite(w, c)
       PROVE  ConnsInv'
  <2>1. /\ writing[c] \in {"ok", "error"} /\ writing' = [writing EXCEPT ![c] = "none"]
        /\ \/ writing[c] = "ok" /\ reading' = reading \cup {c} /\ UNCHANGED conn
           \/ conn' = [conn EXCEPT ![c] = "closed"] /\ UNCHANGED reading
        /\ UNCHANGED <<jobs, shaking, response, keep, asked, answers>>
    BY <1>11 DEF OnWrite, Gone
  <2>2. ConnsOK'
    <3> HIDE DEF OneHolder, TurnInv
    <3>1. QED
      BY <2>1
  <2>3. OneHolder'
    BY <2>1
  <2>4. TurnInv'
    BY <2>1
  <2>5. QED
    BY <2>2, <2>3, <2>4
<1>12. ASSUME NEW w \in Runners, Answer(w)
       PROVE  ConnsInv'
  <2>1. PICK j \in jobs, k \in BOOLEAN :
            /\ jobs' = jobs \ {j}
            /\ writing' = [writing EXCEPT ![j.conn] = "pending"]
            /\ response' = [response EXCEPT ![j.conn] = j.request]
            /\ keep' = [keep EXCEPT ![j.conn] = k]
            /\ UNCHANGED <<conn, shaking, reading, asked, answers>>
    BY <1>12 DEF Answer, StartsWrite, Respond
  <2>2. j.conn \in Conns /\ j.request \in 0..MaxRequests
    BY <1>0
  <2>3. ConnsOK'
    <3> HIDE DEF OneHolder, TurnInv
    <3>1. QED
      BY <2>1, <2>2
  <2>4. writing[j.conn] = "none" /\ \A i \in jobs' : i.conn # j.conn
    BY <2>1, <2>2
  <2>5. OneHolder'
    BY <2>1, <2>2, <2>4
  <2>6. TurnInv'
    BY <2>1, <2>2, <2>4
  <2>7. QED
    BY <2>3, <2>5, <2>6
<1>13. QED
  BY <1>2, <1>3, <1>4, <1>5, <1>6, <1>7, <1>8, <1>9, <1>10, <1>11, <1>12
     DEF Next, Starting, Stopping, Running, Handler, Transport

-----------------------------------------------------------------------------

\* Before start() no thread is in ioc_.run() and no request in hand.
LEMMA MannedInit == Init => MannedInv
  BY DEF Init, MannedInv, Runners

\* A runner is in the handler of one request while it is busy, and of none else.
LEMMA MannedNext ==
    LifeOK /\ ConnsOK /\ OneHolder /\ MannedInv /\ [Next]_vars => MannedInv'
<1> SUFFICES ASSUME LifeOK, ConnsOK, OneHolder, MannedInv, [Next]_vars
             PROVE  MannedInv'
  OBVIOUS
<1> USE DEF MannedInv
<1>1. /\ at \in [Runners -> {"none", "idle", "busy", "done"}]
      /\ \A j \in jobs : j.by \in Runners
      /\ 0 \in Runners /\ 0 \notin Workers
  BY DEF LifeOK, ConnsOK, Runners, Workers
<1>2. CASE UNCHANGED <<jobs, at>> /\ main' = main
  BY <1>2
<1>3. ASSUME NEW call \in {"start", "run"}, StartListens(call)
      PROVE  MannedInv'
  BY <1>3 DEF StartListens, Apart
<1>4. CASE StartSpawns
  <2>1. PICK w \in Workers : at[w] = "none" /\ at' = [at EXCEPT ![w] = "idle"]
    BY <1>4 DEF StartSpawns
  <2>2. UNCHANGED <<jobs, main>>
    BY <1>4 DEF StartSpawns
  <2>3. QED
    BY <1>1, <2>1, <2>2
<1>5. CASE StartReturns \/ RunEnters
  <2>1. /\ main \in {"out", "start", "run"} /\ UNCHANGED jobs
        /\ \/ main' = "ioc" /\ at' = [at EXCEPT ![0] = "idle"]
           \/ main' = "out" /\ at' = [at EXCEPT ![0] = "none"]
    BY <1>5 DEF StartReturns, RunEnters, Enter, AfterStart, Apart
  <2>2. at[0] = "none"
    BY <2>1
  <2>3. \A j \in jobs : j.by # 0
    BY <2>2
  <2>4. QED
    BY <1>1, <2>1, <2>3
<1>6. ASSUME NEW p \in Callers, StopReturns(p)
      PROVE  MannedInv'
  <2>1. /\ \A w \in Workers : at[w] # "busy"
        /\ at' = [w \in Runners |-> IF w \in Workers THEN "none" ELSE at[w]]
        /\ UNCHANGED <<jobs, main>>
    BY <1>6 DEF StopReturns, Joined, Cleared
  <2>2. \A j \in jobs : j.by \notin Workers
    BY <2>1
  <2>3. QED
    BY <1>1, <2>1, <2>2
<1>7. CASE \/ DestroyBegins \/ Destroys
           \/ \E p \in Callers : StopBegins(p) \/ StopStores(p)
           \/ \E c \in Conns : ClientConnects(c) \/ Transport(c)
           \/ UNCHANGED vars
  <2>1. UNCHANGED <<jobs, at>> /\ (main' = main \/ main # "ioc")
    BY <1>7 DEF DestroyBegins, Destroys, Apart, StopBegins, StopStores, ClientConnects,
                Transport, WriteDone, WriteFails, WriteEnds, vars
  <2>2. QED
    BY <2>1
<1>8. ASSUME NEW w \in Runners, Leaves(w)
      PROVE  MannedInv'
  <2>1. /\ at[w] = "idle" /\ UNCHANGED jobs
        /\ \/ w # 0 /\ at' = [at EXCEPT ![w] = "done"] /\ UNCHANGED main
           \/ w = 0 /\ at' = [at EXCEPT ![w] = "none"]
    BY <1>8 DEF Leaves
  <2>2. QED
    BY <1>1, <2>1
<1>9. ASSUME NEW w \in Runners, NEW c \in Conns,
             OnAccept(w, c) \/ OnHandshake(w, c) \/ OnReadEnd(w, c) \/ OnWrite(w, c)
      PROVE  MannedInv'
  BY <1>9 DEF OnAccept, OnHandshake, OnReadEnd, OnWrite
<1>10. ASSUME NEW w \in Runners, NEW c \in Conns, OnRead(w, c)
       PROVE  MannedInv'
  <2> DEFINE job == [by |-> w, conn |-> c, request |-> asked[c] + 1]
  <2>1. /\ at[w] = "idle" /\ at' = [at EXCEPT ![w] = "busy"]
        /\ jobs' = jobs \cup {job} /\ UNCHANGED main
    BY <1>10 DEF OnRead, Takes
  <2>2. job.by = w /\ \A j \in jobs : j.by # w
    BY <2>1
  <2>3. QED
    BY <1>1, <2>1, <2>2
<1>11. ASSUME NEW w \in Runners, Answer(w)
       PROVE  MannedInv'
  <2>1. PICK j \in jobs : j.by = w /\ jobs' = jobs \ {j}
    BY <1>11 DEF Answer
  <2>2. at' = [at EXCEPT ![w] = "idle"] /\ UNCHANGED main
    BY <1>11 DEF Answer
  <2>3. \A i \in jobs' : i \in jobs /\ i.by # w
    BY <2>1
  <2>4. at[w] = "busy"
    BY <2>1
  <2>5. QED
    BY <1>1, <2>2, <2>3, <2>4
<1>12. QED
  BY <1>3, <1>4, <1>5, <1>6, <1>7, <1>8, <1>9, <1>10, <1>11
     DEF Next, Starting, Stopping, Running, Handler

\* The inductive invariant.
IInv == LifeOK /\ ConnsInv /\ MannedInv

\* Types, turns of the connections and hands of the runners together are inductive.
LEMMA ServerInvariant == Spec => []IInv
<1>1. Init => IInv
  BY TypeInit, ConnsInit, MannedInit DEF IInv, TypeOK
<1>2. IInv /\ [Next]_vars => IInv'
  BY LifeNext, ConnsNext, MannedNext DEF IInv, ConnsInv
<1>3. QED
  BY <1>1, <1>2, PTL DEF Spec

\* Every variable of the server keeps its type.
THEOREM ServerTypeCorrect == Spec => []TypeOK
<1>1. IInv => TypeOK
  BY DEF IInv, ConnsInv, TypeOK
<1>2. QED
  BY <1>1, ServerInvariant, PTL

\* An open connection's session is held once, however many threads run handlers
\* and wherever stop() finds them: a session needs no lock and leaks no socket.
THEOREM ServerOneHolder == Spec => []OneHolder
<1>1. IInv => OneHolder
  BY DEF IInv, ConnsInv
<1>2. QED
  BY <1>1, ServerInvariant, PTL

-----------------------------------------------------------------------------
(* A connection is an ordered channel of answers.                          *)

\* An idle server is an empty channel of answers.
LEMMA ExchangeStart == Init => Exchange!ChannelInit
  BY DEF Init, Exchange!ChannelInit

\* Each step of the server accepts a request, delivers its answer, breaks
\* connections, or changes nothing of the channel.
LEMMA ExchangeStep ==
    IInv /\ [Next]_vars => [Exchange!ChannelNext]_(Exchange!channelVars)
<1> DEFINE open == [c \in Conns |-> conn[c] # "closed"]
<1> SUFFICES ASSUME IInv, [Next]_vars
             PROVE  Exchange!ChannelNext \/ UNCHANGED <<asked, answers, open>>
  BY DEF Exchange!channelVars
<1> USE DEF IInv, ConnsInv, ConnsOK
<1>1. ASSUME NEW w \in Runners, NEW c \in Conns, OnRead(w, c)
      PROVE  Exchange!Accept(c)
  BY <1>1 DEF OnRead, Exchange!Accept
<1>2. ASSUME NEW c \in Conns, WriteDone(c)
      PROVE  Exchange!Deliver(c)
  <2>1. /\ writing[c] = "pending"
        /\ answers' = [answers EXCEPT ![c] = Append(@, response[c])]
        /\ UNCHANGED <<asked, conn>>
    BY <1>2 DEF WriteDone, WriteEnds
  <2>2. conn[c] = "open"
    BY <2>1 DEF OneHolder, Written
  <2>3. response[c] = Len(answers[c]) + 1 /\ asked[c] = Len(answers[c]) + 1
    BY <2>1 DEF TurnInv
  <2>4. answers[c] \in Seq(0..MaxRequests)
    OBVIOUS
  <2>5. Len(answers[c]) < asked[c]
    BY <2>3, <2>4
  <2>6. QED
    BY <2>1, <2>2, <2>3, <2>5 DEF Exchange!Deliver
<1>3. ASSUME NEW c \in Conns, conn' = [conn EXCEPT ![c] = "closed"], UNCHANGED <<asked, answers>>
      PROVE  Exchange!Break({c})
  BY <1>3 DEF Exchange!Break
<1>4. ASSUME NEW w \in Runners, NEW c \in Conns,
             OnHandshake(w, c) \/ OnReadEnd(w, c) \/ OnWrite(w, c)
      PROVE  Exchange!Break({c}) \/ UNCHANGED <<asked, answers, open>>
  <2>1. /\ UNCHANGED <<asked, answers>>
        /\ UNCHANGED conn \/ conn' = [conn EXCEPT ![c] = "closed"]
    BY <1>4 DEF OnHandshake, OnReadEnd, OnWrite, Gone
  <2>2. QED
    BY <1>3, <2>1
<1>5. CASE Destroys
  <2>1. /\ UNCHANGED <<asked, answers>>
        /\ UNCHANGED conn \/ conn' = [c \in Conns |-> "closed"]
    BY <1>5 DEF Destroys
  <2>2. CASE conn' = [c \in Conns |-> "closed"]
    <3>1. Exchange!Break(Conns)
      BY <2>1, <2>2 DEF Exchange!Break
    <3>2. QED
      BY <3>1 DEF Exchange!ChannelNext
  <2>3. QED
    BY <2>1, <2>2
<1>6. ASSUME NEW c \in Conns, NEW w \in Runners, ClientConnects(c) \/ OnAccept(w, c)
      PROVE  UNCHANGED <<asked, answers, open>>
  BY <1>6 DEF ClientConnects, OnAccept
<1>7. CASE \/ \E call \in {"start", "run"} : StartListens(call)
           \/ StartSpawns \/ StartReturns \/ RunEnters \/ DestroyBegins
           \/ \E p \in Callers : StopBegins(p) \/ StopStores(p) \/ StopReturns(p)
           \/ \E w \in Runners : Leaves(w) \/ Answer(w)
           \/ \E c \in Conns : WriteFails(c)
           \/ UNCHANGED vars
  BY <1>7 DEF StartListens, StartSpawns, StartReturns, RunEnters, DestroyBegins, StopBegins,
              StopStores, StopReturns, Leaves, Answer, WriteFails, WriteEnds, vars
<1>8. 0 \in Runners
  BY DEF Runners
<1>9. ASSUME NEW w \in Runners, NEW c \in Conns, Handler(w, c)
      PROVE  Exchange!ChannelNext \/ UNCHANGED <<asked, answers, open>>
  <2>1. Exchange!Accept(c) \/ Exchange!Break({c}) \/ UNCHANGED <<asked, answers, open>>
    BY <1>1, <1>4, <1>6, <1>9 DEF Handler
  <2>2. QED
    BY <2>1 DEF Exchange!ChannelNext
<1>10. ASSUME NEW c \in Conns, ClientConnects(c) \/ WriteDone(c)
       PROVE  Exchange!ChannelNext \/ UNCHANGED <<asked, answers, open>>
  <2>1. Exchange!Deliver(c) \/ UNCHANGED <<asked, answers, open>>
    BY <1>2, <1>6, <1>8, <1>10
  <2>2. QED
    BY <2>1 DEF Exchange!ChannelNext
<1>11. CASE Next
  <2> HIDE DEF open, IInv, ConnsInv, ConnsOK
  <2>1. QED
    BY <1>5, <1>7, <1>9, <1>10, <1>11 DEF Next, Starting, Stopping, Running, Transport
<1>12. QED
  BY <1>7, <1>11

\* HttpServer implements OutboundChannel: on each connection the requests are
\* answered in the order they were read, each once, by any number of threads.
THEOREM ServerIsExchange == Spec => IsExchange
<1>1. QED
  BY ServerInvariant, ExchangeStart, ExchangeStep, PTL DEF Spec, IsExchange, Exchange!ChannelSpec

-----------------------------------------------------------------------------
(* stop() and the destructor, called by one thread at a time.              *)

NoWorkers == \A w \in Workers : at[w] = "none"

\* Where the calls of stop() are, and when there are workers.
StopInv ==
    /\ stopAt["main"] # "out" => main = "destroying" \/ ("main" \in Stoppers /\ main = "out")
    /\ stopAt["other"] # "out" => "other" \in Stoppers /\ main \in {"out", "ioc"}
    /\ main \in {"start", "run"} => running
    /\ NoWorkers \/ running \/ toSpawn > 0 \/ \E p \in Callers : stopAt[p] = "join"
    /\ \A p \in Callers : stopAt[p] = "join" => ~running
    /\ stopped => (NoWorkers \/ toSpawn > 0) /\ main \notin {"start", "run"}
    /\ main = "destroying" /\ stopAt["main"] = "out" => ~running
    /\ main = "destroyed" => NoWorkers
    /\ ended = "no" \/ (ended = "terminate" /\ Short)

\* A server that was not started has nothing to stop.
LEMMA StopInit == Init => StopInv
  BY DEF Init, StopInv, NoWorkers, Callers, Runners, Workers

\* With one thread that calls stop(), there are workers only while running_ is set,
\* a stop() is joining them, or the last start() fell short.
LEMMA StopNext ==
    ASSUME Stoppers # Callers, LifeOK, MannedInv, StopInv, [Next]_vars
    PROVE  StopInv'
<1>0. /\ Stoppers \subseteq Callers /\ NThreads \in Nat
      /\ Callers = {"main", "other"}
      /\ stopAt \in [Callers -> {"out", "passed", "join"}]
      /\ at \in [Runners -> {"none", "idle", "busy", "done"}]
      /\ Workers \subseteq Runners /\ 0 \notin Workers
      /\ toSpawn \in Nat
  BY HttpServerAssumption DEF LifeOK, Callers, Runners, Workers
<1>1. ~("main" \in Stoppers /\ "other" \in Stoppers)
  BY <1>0
<1> USE DEF StopInv
<1>a. CASE UNCHANGED vars
  BY <1>a DEF vars, NoWorkers, Short
<1> SUFFICES ASSUME Next
             PROVE  StopInv'
  BY <1>a
<1>b. ended = "no"
  BY DEF Next, Alive
<1>2. ASSUME UNCHANGED <<main, stopAt, toSpawn, running, ended, stopped>>,
             NoWorkers => NoWorkers'
      PROVE  StopInv'
  BY <1>b, <1>2
<1>3. ASSUME NEW call \in {"start", "run"}, StartListens(call)
      PROVE  StopInv'
  <2>1. /\ Apart /\ main' = call /\ running' = TRUE /\ stopped' = FALSE
        /\ UNCHANGED <<stopAt, ended>>
    BY <1>3 DEF StartListens
  <2>2. QED
    BY <1>0, <1>b, <2>1 DEF Apart
<1>4. CASE StartSpawns
  <2>1. /\ main \in {"start", "run"} /\ toSpawn' = toSpawn - 1
        /\ UNCHANGED <<main, stopAt, stopped, running, ended>>
    BY <1>4 DEF StartSpawns
  <2>2. PICK w \in Workers : at[w] = "none"
    BY <1>4 DEF StartSpawns
  <2>3. running
    BY <2>1
  <2>4. ~stopped /\ \A p \in Callers : stopAt[p] = "out"
    BY <1>0, <2>1
  <2>5. ~stopped' /\ running' /\ ended' = "no" /\ main' \in {"start", "run"}
    BY <1>b, <2>1, <2>3, <2>4
  <2>6. \A p \in Callers : stopAt'[p] = "out"
    BY <2>1, <2>4
  <2>7. QED
    BY <1>0, <2>5, <2>6
<1>5. CASE StartReturns
  <2>1. /\ main' \in {"out", "ioc"}
        /\ main \in {"start", "run"}
        /\ \/ UNCHANGED running
           \/ running' = FALSE /\ toSpawn > 0
        /\ UNCHANGED <<stopAt, stopped, toSpawn, ended>>
    BY <1>5 DEF StartReturns, Enter, AfterStart
  <2>2. NoWorkers => NoWorkers'
    BY <1>0, <1>5 DEF StartReturns, Enter, NoWorkers
  <2>3. ~stopped /\ \A p \in Callers : stopAt[p] = "out"
    BY <1>0, <2>1
  <2>4. QED
    BY <1>0, <1>b, <2>1, <2>2, <2>3
<1>6. CASE RunEnters
  <2>1. Apart /\ main' = "ioc" /\ UNCHANGED <<stopAt, stopped, toSpawn, running, ended>>
    BY <1>6 DEF RunEnters, Enter, AfterStart
  <2>2. NoWorkers => NoWorkers'
    BY <1>0, <1>6 DEF RunEnters, Enter, NoWorkers
  <2>3. QED
    BY <1>0, <1>b, <2>1, <2>2 DEF Apart
<1>7. ASSUME NEW p \in Callers, StopTests(p), UNCHANGED <<toSpawn, running, ended, at>>,
             \/ p \in Stoppers /\ UNCHANGED main
                    /\ main \in (IF p = "main" THEN {"out"} ELSE {"out", "ioc"})
             \/ p = "main" /\ Apart /\ main' = "destroying"
      PROVE  StopInv'
  <2>1. UNCHANGED NoWorkers
    BY <1>7 DEF NoWorkers
  <2>2. CASE running /\ stopAt[p] = "out" /\ stopAt' = [stopAt EXCEPT ![p] = "passed"]
                 /\ UNCHANGED stopped
    BY <1>0, <1>1, <1>b, <1>7, <2>1, <2>2 DEF Apart
  <2>3. CASE ~running /\ stopAt[p] = "out" /\ stopped' = TRUE /\ UNCHANGED stopAt
    <3>1. \A q \in Callers : stopAt[q] = "out"
      BY <1>0, <1>1, <1>b, <1>7, <2>3 DEF Apart
    <3>2. NoWorkers \/ toSpawn > 0
      BY <1>0, <2>3, <3>1
    <3>3. QED
      BY <1>0, <1>b, <1>7, <2>1, <2>3, <3>1, <3>2 DEF Apart
  <2>4. QED
    BY <1>7, <2>2, <2>3 DEF StopTests, StopGoes
<1>8. ASSUME NEW p \in Callers, StopBegins(p)
      PROVE  StopInv'
  BY <1>7, <1>8 DEF StopBegins
<1>9. CASE DestroyBegins
  BY <1>7, <1>9 DEF DestroyBegins, Callers
<1>10. ASSUME NEW p \in Callers, StopStores(p)
       PROVE  StopInv'
  <2>1. /\ running' = FALSE /\ stopAt[p] = "passed" /\ stopAt' = [stopAt EXCEPT ![p] = "join"]
        /\ ended' = IF \E q \in Callers : stopAt[q] = "join" THEN "joinedTwice" ELSE ended
        /\ UNCHANGED <<main, stopped, toSpawn, at>>
    BY <1>10 DEF StopStores, StopGoes
  <2>2. UNCHANGED NoWorkers
    BY <2>1 DEF NoWorkers
  <2>3. QED
    BY <1>0, <1>1, <1>b, <2>1, <2>2
<1>11. ASSUME NEW p \in Callers, StopReturns(p)
       PROVE  StopInv'
  <2>1. /\ stopped' = TRUE /\ stopAt[p] = "join" /\ stopAt' = [stopAt EXCEPT ![p] = "out"]
        /\ UNCHANGED <<main, toSpawn, running, ended>>
    BY <1>11 DEF StopReturns, StopGoes
  <2>2. NoWorkers'
    BY <1>0, <1>11 DEF StopReturns, Cleared, NoWorkers
  <2>3. main \notin {"start", "run"} /\ ~running
    BY <1>0, <2>1
  <2>4. CASE p = "main"
    BY <1>0, <1>1, <1>b, <2>1, <2>2, <2>3, <2>4
  <2>5. CASE p = "other"
    BY <1>0, <1>1, <1>b, <2>1, <2>2, <2>3, <2>5
  <2>6. QED
    BY <1>0, <2>4, <2>5
<1>12. CASE Destroys
  <2>1. /\ main = "destroying" /\ stopAt["main"] = "out" /\ stopAt["other"] = "out"
        /\ ~running
        /\ UNCHANGED <<stopAt, stopped, toSpawn, running, at>>
    BY <1>0, <1>12 DEF Destroys
  <2>2. UNCHANGED NoWorkers
    BY <2>1 DEF NoWorkers
  <2>3. CASE ~NoWorkers /\ ended' = "terminate" /\ UNCHANGED main
    <3>1. toSpawn > 0
      BY <1>0, <2>1, <2>3
    <3>2. QED
      BY <1>0, <2>1, <2>2, <2>3, <3>1 DEF Short
  <2>4. CASE NoWorkers /\ main' = "destroyed" /\ UNCHANGED ended
    BY <1>0, <1>b, <2>1, <2>2, <2>4
  <2>5. QED
    BY <1>12, <2>3, <2>4 DEF Destroys, NoWorkers
<1>13. ASSUME NEW w \in Runners, Leaves(w)
       PROVE  StopInv'
  <2>1. /\ at[w] = "idle" /\ UNCHANGED <<stopAt, stopped, toSpawn, running, ended>>
        /\ \/ w # 0 /\ UNCHANGED main
           \/ w = 0 /\ main' = "out"
    BY <1>13 DEF Leaves
  <2>2. NoWorkers => NoWorkers'
    BY <1>0, <1>13 DEF Leaves, NoWorkers
  <2>3. w = 0 => main = "ioc"
    BY <2>1 DEF MannedInv
  <2>4. QED
    BY <1>0, <1>b, <2>1, <2>2, <2>3
<1>14. ASSUME NEW w \in Runners, Answer(w)
       PROVE  StopInv'
  <2>1. NoWorkers => NoWorkers'
    BY <1>0, <1>14 DEF Answer, NoWorkers
  <2>2. QED
    BY <1>2, <1>14, <2>1 DEF Answer
<1>15. ASSUME NEW w \in Runners, NEW c \in Conns, Handler(w, c)
       PROVE  StopInv'
  <2>1. NoWorkers => NoWorkers'
    BY <1>0, <1>15 DEF Handler, OnAccept, OnHandshake, OnRead, OnReadEnd, OnWrite, Takes,
                       NoWorkers
  <2>2. QED
    BY <1>2, <1>15, <2>1 DEF Handler, OnAccept, OnHandshake, OnRead, OnReadEnd, OnWrite
<1>16. CASE \E c \in Conns : ClientConnects(c) \/ Transport(c)
  <2>1. UNCHANGED <<main, stopAt, toSpawn, running, ended, stopped, at>>
    BY <1>16 DEF ClientConnects, Transport, WriteDone, WriteFails, WriteEnds
  <2>2. NoWorkers => NoWorkers'
    BY <2>1 DEF NoWorkers
  <2>3. QED
    BY <1>2, <2>1, <2>2
<1>17. QED
  BY <1>3, <1>4, <1>5, <1>6, <1>8, <1>9, <1>10, <1>11, <1>12, <1>13, <1>14, <1>15, <1>16
     DEF Next, Starting, Stopping, Running

\* The two invariants together are inductive there.
LEMMA StopInvariant ==
    ASSUME Stoppers # Callers
    PROVE  Spec => [](IInv /\ StopInv)
<1>1. IInv /\ StopInv /\ [Next]_vars => StopInv'
  BY StopNext DEF IInv
<1>2. QED
  BY <1>1, StopInit, ServerInvariant, PTL DEF Spec

\* Where one thread calls stop(): when it has returned no worker is in a handler,
\* nor ever will be before the next start(), unless the last one fell short.
THEOREM ServerWorkersStopped ==
    ASSUME Stoppers # Callers
    PROVE  Spec => []WorkersStopped
<1>1. IInv /\ StopInv => WorkersStopped
  BY DEF IInv, MannedInv, StopInv, NoWorkers, WorkersStopped, Short
<1>2. QED
  BY <1>1, StopInvariant, PTL

\* There no thread is joined twice, no handler outlives the destructor, and it finds
\* a thread that nobody joined only if the last start() fell short.
THEOREM ServerDestroysCleanly ==
    ASSUME Stoppers # Callers
    PROVE  Spec => []DestroysCleanly
<1>1. IInv /\ StopInv => DestroysCleanly
  <2>1. SUFFICES ASSUME IInv, StopInv, main = "destroyed"
                 PROVE  jobs = {}
    BY DEF StopInv, DestroysCleanly
  <2>2. \A w \in Runners : at[w] # "busy"
    BY <2>1 DEF IInv, MannedInv, StopInv, NoWorkers, Runners
  <2>3. QED
    BY <2>1, <2>2 DEF IInv, ConnsInv, ConnsOK, MannedInv
<1>2. QED
  BY <1>1, StopInvariant, PTL
=============================================================================
