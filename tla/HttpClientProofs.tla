-------------------------- MODULE HttpClientProofs --------------------------
(***************************************************************************)
(* Proofs about HttpClient, for any bounds and any response fields: what   *)
(* is sent is this call's, a response is the last request's, a body is     *)
(* whole and every header list is freed once.                              *)
(*                                                                         *)
(* Only the innermost call performs, and it is the last one made: the      *)
(* calls around it are in their callbacks.                                 *)
(***************************************************************************)
EXTENDS HttpClient, SequenceTheorems, TLAPS

USE DEF listVars, responseVars

NestingOK ==
    /\ \A i \in DOMAIN stack : i < Len(stack) => stack[i].at = "callback"
    /\ InPerform => stack[Len(stack)].id = requests

Inv == TypeOK /\ NestingOK /\ SentAsAsked /\ FreedOnce /\ ResponseOfLast /\ BodyWhole

\* What the sequence of calls is, by its length.
LEMMA Stack ==
    ASSUME Inv
    PROVE  /\ stack \in Seq(Calls(requests))
           /\ Len(stack) \in Nat
           /\ DOMAIN stack = 1..Len(stack)
           /\ stack # <<>> => Len(stack) \in DOMAIN stack
           /\ \A i \in DOMAIN stack : stack[i] \in Calls(requests)
           /\ requests \in Nat
<1>1. stack \in Seq(Calls(requests)) /\ requests \in Nat
  BY HttpClientAssumption DEF Inv, TypeOK, CallsOK
<1>2. QED
  BY <1>1

\* Replacing the innermost call by one that is typed.
LEMMA Replace ==
    ASSUME Inv, stack # <<>>, NEW call \in Calls(requests),
           stack' = [stack EXCEPT ![Len(stack)] = call]
    PROVE  /\ stack' \in Seq(Calls(requests))
           /\ Len(stack') = Len(stack)
           /\ DOMAIN stack' = DOMAIN stack
           /\ stack' # <<>>
           /\ stack'[Len(stack)] = call
           /\ \A i \in DOMAIN stack : i # Len(stack) => stack'[i] = stack[i]
<1>1. stack' \in Seq(Calls(requests)) /\ Len(stack') = Len(stack)
  BY Stack, ExceptSeq
<1>2. QED
  BY <1>1, Stack

\* Dropping it leaves calls in their callbacks.
LEMMA Drop ==
    ASSUME Inv, stack # <<>>, Return
    PROVE  /\ stack' \in Seq(Calls(requests))
           /\ Len(stack') = Len(stack) - 1
           /\ \A i \in DOMAIN stack' : i \in DOMAIN stack /\ stack'[i] = stack[i] /\ i < Len(stack)
           /\ ~InPerform'
<1>1. stack' = SubSeq(stack, 1, Len(stack) - 1)
  BY DEF Return
<1>2. /\ stack' \in Seq(Calls(requests))
      /\ Len(stack') = Len(stack) - 1
      /\ \A i \in 1..Len(stack) - 1 : stack'[i] = stack[i]
  BY <1>1, Stack, SubSeqProperties
<1>3. \A i \in DOMAIN stack' : i \in DOMAIN stack /\ stack'[i] = stack[i] /\ i < Len(stack)
  BY <1>2, Stack
<1>4. ASSUME stack' # <<>>
      PROVE  stack'[Len(stack')].at = "callback"
  <2>1. Len(stack') \in DOMAIN stack'
    BY <1>2, <1>4
  <2>2. QED
    BY <1>3, <2>1 DEF Inv, NestingOK
<1>5. QED
  BY <1>2, <1>3, <1>4 DEF InPerform

\* The client as it is constructed.
LEMMA InitInv == Init => Inv
<1> SUFFICES ASSUME Init
             PROVE  Inv
  OBVIOUS
<1> USE DEF Init
<1>1. TypeOK
  <2>1. ListsOK
    <3>1. 0 \in 0..MaxLists /\ {} \subseteq 1..0 /\ 0 \in 0..0
      BY HttpClientAssumption
    <3>2. QED
      BY <3>1 DEF ListsOK
  <2>2. CallsOK
    <3>1. stack \in Seq(Calls(requests)) /\ Len(stack) = 0
      BY EmptySeq
    <3>2. responseHeaders \in [Fields -> 0..requests] /\ requests = 0 /\ responseCode = 0
      OBVIOUS
    <3>3. QED
      BY <3>1, <3>2, HttpClientAssumption DEF CallsOK
  <2>3. options \in Options(requests, lists)
    <3>1. Defaults \in Options(0, 0)
      BY DEF Defaults, Options
    <3>2. QED
      BY <3>1
  <2>4. QED
    BY <2>1, <2>2, <2>3 DEF TypeOK
<1>2. NestingOK /\ SentAsAsked /\ BodyWhole
  BY DEF NestingOK, SentAsAsked, BodyWhole, InPerform
<1>3. FreedOnce /\ ResponseOfLast
  BY DEF FreedOnce, ResponseOfLast
<1>4. QED
  BY <1>1, <1>2, <1>3 DEF Inv

\* What options may be grows with calls and lists.
LEMMA OptionsGrow ==
    ASSUME NEW n \in Nat, NEW l \in Nat, NEW k \in Nat, NEW j \in Nat, n <= k, l <= j
    PROVE  Options(n, l) \subseteq Options(k, j)
<1>1. 0..n \subseteq 0..k /\ 0..l \subseteq 0..j
  OBVIOUS
<1>2. QED
  BY <1>1 DEF Options

\* A step of the application's on its header lists, or the destructor.
LEMMA ListsInv ==
    ASSUME Inv, SetHeader \/ ClearHeaders \/ Destroy
    PROVE  Inv'
<1>0. /\ lists \in Nat /\ headers \in 0..lists
      /\ freed \subseteq 1..lists
      /\ MaxLists \in Nat
  BY HttpClientAssumption DEF Inv, TypeOK, ListsOK
<1>1. ~InPerform /\ ~destroyed
  BY DEF SetHeader, ClearHeaders, Destroy, Outside
<1>2. UNCHANGED <<options, stack, requests, responseHeaders, responseCode>> /\ ~InPerform'
  BY <1>1 DEF SetHeader, ClearHeaders, Destroy, InPerform
<1>3. (1..lists) \ freed = {headers} \ {0}
  BY <1>1 DEF Inv, FreedOnce
<1>4. ListsOK' /\ lists' \in Nat /\ lists <= lists'
  <2>1. CASE SetHeader
    BY <1>0, <2>1 DEF SetHeader, ListsOK, Inv, TypeOK
  <2>2. CASE ClearHeaders
    BY <1>0, <2>2 DEF ClearHeaders, Cleared, ListsOK, Inv, TypeOK
  <2>3. CASE Destroy
    BY <1>0, <2>3 DEF Destroy, ListsOK, Inv, TypeOK
  <2>4. QED
    BY <2>1, <2>2, <2>3
<1>5. TypeOK'
  <2>1. options \in Options(requests, lists')
    BY <1>0, <1>4, Stack, OptionsGrow DEF Inv, TypeOK
  <2>2. QED
    BY <1>2, <1>4, <2>1 DEF Inv, TypeOK, CallsOK
<1>6. FreedOnce'
  <2>1. CASE SetHeader
    BY <1>0, <1>1, <1>3, <2>1 DEF SetHeader, FreedOnce
  <2>2. CASE ClearHeaders
    BY <1>0, <1>1, <1>3, <2>2 DEF ClearHeaders, Cleared, FreedOnce
  <2>3. CASE Destroy
    BY <1>0, <1>3, <2>3 DEF Destroy, FreedOnce
  <2>4. QED
    BY <2>1, <2>2, <2>3
<1>7. NestingOK' /\ SentAsAsked' /\ ResponseOfLast' /\ BodyWhole'
  BY <1>2 DEF Inv, NestingOK, SentAsAsked, ResponseOfLast, BodyWhole
<1>8. QED
  BY <1>5, <1>6, <1>7 DEF Inv

\* The options a call leaves on the handle before it performs are its own.
LEMMA OwnOptions ==
    ASSUME NEW n \in Nat, NEW l \in Nat, headers \in 0..l, NEW c \in Calls(n),
           NEW o, o = OptionsFor(c)
    PROVE  /\ o \in Options(n, l)
           /\ (IF o.custom = "none" THEN o.kind ELSE o.custom) = c.method
           /\ o.postFields = IF SendsData(c) THEN c.id ELSE 0
           /\ o.header = headers
           /\ o.sink = c.id
<1>1. c.id \in 1..n /\ c.method \in HttpMethod /\ c.data \in BOOLEAN
  BY DEF Calls
<1> DEFINE kind == CASE c.method = "HEAD" -> "HEAD"
                     [] c.method = "POST" \/ SendsData(c) -> "POST"
                     [] OTHER -> "GET"
           custom == IF c.method \in {"GET", "POST", "HEAD"} THEN "none" ELSE c.method
           post == IF SendsData(c) THEN c.id ELSE 0
           set == [Defaults EXCEPT !.kind = kind, !.custom = custom, !.postFields = post]
<1>2. kind \in {"GET", "POST", "HEAD"} /\ custom \in HttpMethod \cup {"none"} /\ post \in 0..n
  BY <1>1
<1>3. (IF custom = "none" THEN kind ELSE custom) = c.method
  BY <1>1 DEF HttpMethod, SendsData
<1>4. Defaults \in Options(n, l)
  BY DEF Defaults, Options
<1>5. Defaults.kind = "GET" /\ Defaults.custom = "none" /\ Defaults.postFields = 0
  BY DEF Defaults
<1>6. SetHttpMethod(Reset(options), c) = set
  BY <1>5 DEF SetHttpMethod, Reset
<1> HIDE DEF kind, custom
<1>7. set \in Options(n, l) /\ set.kind = kind /\ set.custom = custom /\ set.postFields = post
  <2> HIDE DEF post
  <2>1. QED
    BY <1>2, <1>4 DEF Options
<1> HIDE DEF set
<1>8. c.id \in 0..n
  BY <1>1
<1>9. o = [[set EXCEPT !.header = headers, !.sink = c.id] EXCEPT !.timeout = TRUE]
  BY <1>6 DEF Limited, OptionsFor
<1>10. /\ o \in Options(n, l) /\ o.kind = set.kind /\ o.custom = set.custom
       /\ o.postFields = set.postFields /\ o.header = headers /\ o.sink = c.id
  BY <1>7, <1>8, <1>9 DEF Options
<1>11. QED
  BY <1>3, <1>7, <1>10

\* A call, up to the moment it performs.
LEMMA RequestInv ==
    ASSUME Inv, NEW method \in HttpMethod, NEW data \in BOOLEAN, Request(method, data)
    PROVE  Inv'
<1> DEFINE call == [id |-> requests + 1, method |-> method, data |-> data,
                    at |-> "perform", arrived |-> 0, body |-> <<>>]
           n == requests + 1
<1>1. /\ requests \in Nat /\ requests' = n /\ n \in Nat /\ n \in 0..MaxRequests
      /\ Len(stack) < MaxDepth /\ MaxDepth \in Nat
      /\ UNCHANGED listVars /\ ~InPerform
      /\ stack' = Append(stack, call)
      /\ responseHeaders' = [f \in Fields |-> 0] /\ responseCode' = 0
  BY Stack, HttpClientAssumption DEF Request, Outside, Emptied, Inv, TypeOK, CallsOK
<1>2. call \in Calls(n)
  <2>1. n \in 1..n /\ 0 \in 0..MaxChunks
    BY <1>1, HttpClientAssumption
  <2>2. QED
    BY <2>1 DEF Calls
<1>3. stack \in Seq(Calls(n))
  <2>1. Calls(requests) \subseteq Calls(n)
    BY <1>1 DEF Calls
  <2>2. QED
    BY <2>1, Stack
<1> HIDE DEF call, n
<1>4. /\ stack' \in Seq(Calls(n)) /\ Len(stack') = Len(stack) + 1
      /\ DOMAIN stack' = 1..Len(stack) + 1
      /\ \A i \in 1..Len(stack) : stack'[i] = stack[i]
      /\ stack'[Len(stack) + 1] = call
  BY <1>1, <1>2, <1>3, Stack, AppendProperties
<1>5. lists \in Nat /\ headers \in 0..lists
  BY HttpClientAssumption DEF Inv, TypeOK, ListsOK
<1>6. /\ options' \in Options(n, lists)
      /\ (IF options'.custom = "none" THEN options'.kind ELSE options'.custom) = call.method
      /\ options'.postFields = IF SendsData(call) THEN call.id ELSE 0
      /\ options'.header = headers
      /\ options'.sink = call.id
  <2>1. options' = OptionsFor(call)
    BY DEF Request, call
  <2>2. QED
    BY <1>1, <1>2, <1>5, <2>1, OwnOptions
<1>7. TypeOK'
  <2>1. ListsOK'
    BY <1>1 DEF Inv, TypeOK, ListsOK
  <2>2. CallsOK'
    BY <1>1, <1>4, Stack DEF CallsOK
  <2>3. QED
    BY <1>1, <1>6, <2>1, <2>2 DEF TypeOK
<1>8. NestingOK'
  <2>1. ASSUME NEW i \in DOMAIN stack', i < Len(stack')
        PROVE  stack'[i].at = "callback"
    <3>1. i \in DOMAIN stack /\ stack'[i] = stack[i]
      BY <1>4, <2>1, Stack
    <3>2. CASE i = Len(stack)
      <4>1. stack[i].at \in {"perform", "callback"}
        BY <3>1, Stack DEF Calls
      <4>2. stack # <<>>
        BY <3>1
      <4>3. QED
        BY <1>1, <3>1, <3>2, <4>1, <4>2 DEF InPerform
    <3>3. QED
      BY <1>4, <2>1, <3>1, <3>2, Stack DEF Inv, NestingOK
  <2>2. stack'[Len(stack')].id = requests'
    BY <1>1, <1>4 DEF call, n
  <2>3. QED
    BY <2>1, <2>2 DEF NestingOK
<1>9. SentAsAsked'
  BY <1>1, <1>4, <1>6 DEF SentAsAsked
<1>10. BodyWhole'
  <2>1. call.body = [k \in 1..call.arrived |-> k]
    BY DEF call
  <2>2. \A i \in 1..Len(stack) : stack[i].body = [k \in 1..stack[i].arrived |-> k]
    BY Stack DEF Inv, BodyWhole
  <2>3. \A i \in DOMAIN stack' : i \in 1..Len(stack) \/ i = Len(stack) + 1
    BY <1>4, Stack
  <2>4. QED
    BY <1>4, <2>1, <2>2, <2>3 DEF BodyWhole
<1>11. FreedOnce' /\ ResponseOfLast'
  BY <1>1 DEF Inv, FreedOnce, ResponseOfLast
<1>12. QED
  BY <1>7, <1>8, <1>9, <1>10, <1>11 DEF Inv

\* The end of the innermost call.
LEMMA ReturnInv ==
    ASSUME Inv, stack # <<>>, Return, UNCHANGED <<listVars, options, requests, responseHeaders>>,
           responseCode' \in {responseCode, requests}
    PROVE  Inv'
<1>1. responseCode' \in 0..requests
  BY Stack DEF Inv, TypeOK, CallsOK
<1>2. TypeOK'
  <2>1. CallsOK'
    BY <1>1, Drop, Stack, HttpClientAssumption DEF Inv, TypeOK, CallsOK
  <2>2. QED
    BY <2>1 DEF Inv, TypeOK, ListsOK
<1>3. NestingOK' /\ SentAsAsked'
  <2>1. ASSUME NEW i \in DOMAIN stack'
        PROVE  stack'[i].at = "callback"
    BY Drop DEF Inv, NestingOK
  <2>2. QED
    BY <2>1, Drop DEF NestingOK, SentAsAsked
<1>4. BodyWhole'
  BY Drop DEF Inv, BodyWhole
<1>5. FreedOnce' /\ ResponseOfLast'
  BY DEF Inv, FreedOnce, ResponseOfLast
<1>6. QED
  BY <1>2, <1>3, <1>4, <1>5 DEF Inv

\* The innermost call goes on: another chunk, or its callback.
LEMMA GoesOnInv ==
    ASSUME Inv, InPerform, NEW call \in Calls(requests),
           stack' = [stack EXCEPT ![Len(stack)] = call],
           call.id = stack[Len(stack)].id,
           call.method = stack[Len(stack)].method,
           call.data = stack[Len(stack)].data,
           call.body = [k \in 1..call.arrived |-> k],
           UNCHANGED <<listVars, options, requests, responseHeaders>>,
           responseCode' \in {responseCode, requests}
    PROVE  Inv'
<1>0. /\ stack' \in Seq(Calls(requests)) /\ Len(stack') = Len(stack)
      /\ DOMAIN stack' = DOMAIN stack /\ stack' # <<>> /\ stack # <<>>
      /\ stack'[Len(stack)] = call
      /\ \A i \in DOMAIN stack : i # Len(stack) => stack'[i] = stack[i]
  BY Replace DEF InPerform
<1>1. responseCode' \in 0..requests
  BY Stack DEF Inv, TypeOK, CallsOK
<1>2. TypeOK'
  <2>1. CallsOK'
    BY <1>0, <1>1 DEF Inv, TypeOK, CallsOK
  <2>2. QED
    BY <2>1 DEF Inv, TypeOK, ListsOK
<1>3. NestingOK'
  BY <1>0, Stack DEF Inv, NestingOK
<1>4. SentAsAsked'
  BY <1>0 DEF Inv, SentAsAsked, SendsData
<1>5. BodyWhole'
  BY <1>0 DEF Inv, BodyWhole
<1>6. FreedOnce' /\ ResponseOfLast'
  BY DEF Inv, FreedOnce, ResponseOfLast
<1>7. QED
  BY <1>2, <1>3, <1>4, <1>5, <1>6 DEF Inv

\* Every step keeps the invariant.
LEMMA NextInv == Inv /\ [Next]_vars => Inv'
<1> SUFFICES ASSUME Inv, [Next]_vars
             PROVE  Inv'
  OBVIOUS
<1> DEFINE top == stack[Len(stack)]
<1>0. ASSUME InPerform
      PROVE  /\ stack # <<>> /\ top \in Calls(requests) /\ top.id = requests
             /\ top.body = [k \in 1..top.arrived |-> k]
  BY <1>0, Stack DEF InPerform, Inv, NestingOK, BodyWhole
<1>1. CASE SetHeader \/ ClearHeaders \/ Destroy
  BY <1>1, ListsInv
<1>2. ASSUME NEW method \in HttpMethod, NEW data \in BOOLEAN, Request(method, data)
      PROVE  Inv'
  BY <1>2, RequestInv
<1>3. ASSUME NEW f \in Fields, HeaderArrives(f)
      PROVE  Inv'
  <2>1. /\ responseHeaders' = [responseHeaders EXCEPT ![f] = requests]
        /\ UNCHANGED <<listVars, options, stack, requests, responseCode>>
    BY <1>0, <1>3 DEF HeaderArrives
  <2>2. responseHeaders' \in [Fields -> 0..requests]
    BY <2>1, Stack DEF Inv, TypeOK, CallsOK
  <2>3. TypeOK'
    BY <2>1, <2>2 DEF Inv, TypeOK, CallsOK, ListsOK
  <2>4. ResponseOfLast'
    BY <2>1 DEF Inv, TypeOK, CallsOK, ResponseOfLast
  <2>5. NestingOK' /\ SentAsAsked' /\ FreedOnce' /\ BodyWhole'
    BY <2>1 DEF Inv, NestingOK, SentAsAsked, FreedOnce, BodyWhole, InPerform
  <2>6. QED
    BY <2>3, <2>4, <2>5 DEF Inv
<1>4. CASE ChunkArrives
  <2> DEFINE chunk == top.arrived + 1
             call == [top EXCEPT !.arrived = chunk, !.body = Append(top.body, chunk)]
  <2>1. /\ InPerform /\ top.arrived < MaxChunks /\ stack' = [stack EXCEPT ![Len(stack)] = call]
        /\ UNCHANGED <<listVars, options, requests, responseVars>>
    BY <1>4 DEF ChunkArrives
  <2>2. /\ top.arrived \in 0..MaxChunks /\ top.body \in Seq(1..MaxChunks)
        /\ MaxChunks \in Nat /\ chunk \in 1..MaxChunks
    BY <1>0, <2>1, HttpClientAssumption DEF Calls
  <2>3. /\ call \in Calls(requests)
        /\ call.id = top.id /\ call.method = top.method /\ call.data = top.data
        /\ call.arrived = chunk /\ call.body = Append(top.body, chunk)
    <3>1. Append(top.body, chunk) \in Seq(1..MaxChunks) /\ chunk \in 0..MaxChunks
      BY <2>2
    <3> HIDE DEF chunk
    <3>2. QED
      BY <1>0, <2>1, <3>1 DEF Calls
  <2>4. call.body = [k \in 1..call.arrived |-> k]
    <3>1. top.body = [k \in 1..top.arrived |-> k] /\ Len(top.body) = top.arrived
      BY <1>0, <2>1, <2>2
    <3>2. QED
      BY <2>2, <2>3, <3>1
  <2>5. QED
    BY <2>1, <2>3, <2>4, GoesOnInv
<1>5. CASE Succeeds
  <2>1. /\ InPerform /\ responseCode' = requests
        /\ UNCHANGED <<listVars, options, requests, responseHeaders>>
    BY <1>0, <1>5 DEF Succeeds
  <2>2. CASE Return
    BY <1>0, <2>1, <2>2, ReturnInv
  <2>3. CASE stack' = [stack EXCEPT ![Len(stack)].at = "callback"]
    <3> DEFINE call == [top EXCEPT !.at = "callback"]
    <3>1. call \in Calls(requests) /\ call.id = top.id /\ call.method = top.method
          /\ call.data = top.data /\ call.arrived = top.arrived /\ call.body = top.body
      BY <1>0, <2>1 DEF Calls
    <3>2. stack' = [stack EXCEPT ![Len(stack)] = call]
      BY <2>3
    <3>3. QED
      BY <1>0, <2>1, <3>1, <3>2, GoesOnInv
  <2>4. QED
    BY <1>5, <2>2, <2>3 DEF Succeeds
<1>6. CASE Fails \/ TimesOut \/ CallbackEnds
  <2>1. /\ stack # <<>> /\ Return
        /\ UNCHANGED <<listVars, options, requests, responseVars>>
    BY <1>0, <1>6 DEF Fails, TimesOut, CallbackEnds, Throws
  <2>2. QED
    BY <2>1, ReturnInv
<1>7. CASE UNCHANGED vars
  BY <1>7 DEF vars, Inv, TypeOK, CallsOK, ListsOK, NestingOK, SentAsAsked, FreedOnce,
              ResponseOfLast, BodyWhole, InPerform
<1>8. QED
  BY <1>1, <1>2, <1>3, <1>4, <1>5, <1>6, <1>7 DEF Next

\* The invariant holds for ever.
LEMMA Invariant == Spec => []Inv
  BY InitInv, NextInv, PTL DEF Spec

\* Types, and that calls never nest deeper than they may.
THEOREM HttpTypeCorrect == Spec => []TypeOK
<1>1. Inv => TypeOK
  BY DEF Inv
<1>2. QED
  BY <1>1, Invariant, PTL

\* What libcurl sends is the innermost call's method, data and headers.
THEOREM HttpSendsAsAsked == Spec => []SentAsAsked
<1>1. Inv => SentAsAsked
  BY DEF Inv
<1>2. QED
  BY <1>1, Invariant, PTL

\* Every header list is freed once.
THEOREM HttpFreesOnce == Spec => []FreedOnce
<1>1. Inv => FreedOnce
  BY DEF Inv
<1>2. QED
  BY <1>1, Invariant, PTL

\* The response headers and code are those of the last request.
THEOREM HttpResponseOfLast == Spec => []ResponseOfLast
<1>1. Inv => ResponseOfLast
  BY DEF Inv
<1>2. QED
  BY <1>1, Invariant, PTL

\* A callback is given the whole body, in order.
THEOREM HttpBodyWhole == Spec => []BodyWhole
<1>1. Inv => BodyWhole
  BY DEF Inv
<1>2. QED
  BY <1>1, Invariant, PTL

=============================================================================
