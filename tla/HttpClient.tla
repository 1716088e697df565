----------------------------- MODULE HttpClient -----------------------------
(***************************************************************************)
(* HttpClient (HttpClient.hpp): a libcurl handle, the request headers and  *)
(* the last response, reused from call to call.  One thread uses a client, *)
(* which is not copied.  The callback of a request may use the client too: *)
(* calls nest, and one that throws unwinds the calls around it as far as   *)
(* the callbacks let it.                                                   *)
(*                                                                         *)
(* libcurl keeps the pointers it is given, not what they point to: they    *)
(* are modelled by the call or the list that owns what is behind them.     *)
(***************************************************************************)
EXTENDS Naturals, Sequences

CONSTANTS
    Fields,       \* names of response header fields
    MaxRequests,  \* bound: requests
    MaxDepth,     \* bound: requests within requests
    MaxChunks,    \* bound: pieces a response's body arrives in
    MaxLists      \* bound: header lists made

ASSUME HttpClientAssumption ==
    /\ MaxRequests \in Nat
    /\ MaxDepth \in Nat
    /\ MaxChunks \in Nat
    /\ MaxLists \in Nat

HttpMethod == {"GET", "POST", "PUT", "DELETE", "PATCH", "HEAD", "OPTIONS"}

VARIABLES
    headers,          \* headers_: the list it points to, 0 for nullptr
    lists,            \* lists made so far (history)
    freed,            \* lists curl_slist_free_all() was called for (history)
    destroyed,        \* the destructor has run
    options,          \* the options of curl_
    stack,            \* the calls of request_stream_sync(), the innermost last
    requests,         \* calls so far (history); a call is named by its number
    responseHeaders,  \* response_headers_: the call each field is from, 0 for no entry
    responseCode      \* response_code_: the call it is from, or 0

listVars == <<headers, lists, freed, destroyed>>
responseVars == <<responseHeaders, responseCode>>
vars == <<listVars, options, stack, requests, responseVars>>

\* kind is what libcurl sends when there is no CURLOPT_CUSTOMREQUEST.
Defaults == [kind |-> "GET", custom |-> "none", postFields |-> 0, header |-> 0,
             sink |-> 0, timeout |-> FALSE]

Init ==
    /\ headers = 0
    /\ lists = 0
    /\ freed = {}
    /\ destroyed = FALSE
    /\ options = Defaults
    /\ stack = <<>>
    /\ requests = 0
    /\ responseHeaders = [f \in Fields |-> 0]
    /\ responseCode = 0

-----------------------------------------------------------------------------
(* Mistakes the mutation runs put in the place of the definitions below.   *)

MutSetHttpMethod(o, call) ==              \* CURLOPT_UPLOAD in place of CURLOPT_CUSTOMREQUEST
    [o EXCEPT !.kind = call.method]
MutReset(o) == o                          \* no curl_easy_reset()
MutCleared == headers                     \* freed, not set to nullptr
MutEmptied == responseHeaders             \* response_headers_ not cleared
MutLimited(o) == o                        \* no CURLOPT_TIMEOUT

-----------------------------------------------------------------------------
(* Calls.                                                                  *)

InPerform == stack # <<>> /\ stack[Len(stack)].at = "perform"

\* The application's code runs: outside of all calls, or in a callback.
Outside == ~InPerform /\ ~destroyed

\* The first header makes the list, the others are appended to it.
SetHeader ==
    /\ Outside
    /\ headers = 0
    /\ lists < MaxLists
    /\ lists' = lists + 1
    /\ headers' = lists + 1
    /\ UNCHANGED <<freed, destroyed, options, stack, requests, responseVars>>

Cleared == 0

ClearHeaders ==
    /\ Outside
    /\ headers # 0
    /\ freed' = freed \cup {headers}
    /\ headers' = Cleared
    /\ UNCHANGED <<lists, destroyed, options, stack, requests, responseVars>>

Destroy ==
    /\ Outside
    /\ stack = <<>>
    /\ destroyed' = TRUE
    /\ freed' = IF headers = 0 THEN freed ELSE freed \cup {headers}
    /\ UNCHANGED <<headers, lists, options, stack, requests, responseVars>>

\* CURLOPT_POSTFIELDS makes the request a POST, which keeps a custom name; it is
\* set where the method takes data and there is some.
SendsData(call) == call.data /\ call.method \in {"POST", "PUT", "PATCH"}

SetHttpMethod(o, call) ==
    [o EXCEPT
        !.kind = CASE call.method = "HEAD" -> "HEAD"
                   [] call.method = "POST" \/ SendsData(call) -> "POST"
                   [] call.method = "GET" -> "GET"
                   [] OTHER -> @,
        !.custom = IF call.method \in {"GET", "POST", "HEAD"} THEN @ ELSE call.method,
        !.postFields = IF SendsData(call) THEN call.id ELSE @]

Reset(o) == Defaults
Limited(o) == [o EXCEPT !.timeout = TRUE]
Emptied == [f \in Fields |-> 0]

OptionsFor(call) == Limited([SetHttpMethod(Reset(options), call) EXCEPT
                                 !.header = headers, !.sink = call.id])

\* request_stream_sync() up to curl_easy_perform().
Request(method, data) ==
    LET call == [id |-> requests + 1, method |-> method, data |-> data,
                 at |-> "perform", arrived |-> 0, body |-> <<>>]
    IN /\ Outside
       /\ requests < MaxRequests
       /\ Len(stack) < MaxDepth
       /\ requests' = call.id
       /\ responseHeaders' = Emptied
       /\ responseCode' = 0
       /\ options' = OptionsFor(call)
       /\ stack' = Append(stack, call)
       /\ UNCHANGED listVars

Return == stack' = SubSeq(stack, 1, Len(stack) - 1)

\* header_callback() with a field and a value; other lines change nothing.
HeaderArrives(f) ==
    /\ InPerform
    /\ responseHeaders' = [responseHeaders EXCEPT ![f] = stack[Len(stack)].id]
    /\ UNCHANGED <<listVars, options, stack, requests, responseCode>>

\* write_callback(); chunks are named by their place in the body.  With
\* CURLOPT_NOBODY libcurl takes none.
ChunkArrives ==
    /\ InPerform
    /\ options.kind # "HEAD"
    /\ LET call == stack[Len(stack)]
           chunk == call.arrived + 1
       IN /\ call.arrived < MaxChunks
          /\ call.id = options.sink
          /\ stack' = [stack EXCEPT ![Len(stack)] =
                          [call EXCEPT !.arrived = chunk, !.body = Append(@, chunk)]]
    /\ UNCHANGED <<listVars, options, requests, responseVars>>

\* curl_easy_perform() returns CURLE_OK: the callback is called unless the body is empty.
Succeeds ==
    /\ InPerform
    /\ responseCode' = stack[Len(stack)].id
    /\ IF stack[Len(stack)].body = <<>> THEN Return
       ELSE stack' = [stack EXCEPT ![Len(stack)].at = "callback"]
    /\ UNCHANGED <<listVars, options, requests, responseHeaders>>

\* It returns an error, and request_stream_sync() throws.
Throws ==
    /\ Return
    /\ UNCHANGED <<listVars, options, requests, responseVars>>

Fails == InPerform /\ Throws
TimesOut == InPerform /\ options.timeout /\ Throws

\* A callback returns or throws, and its call with it.
CallbackEnds ==
    /\ Outside
    /\ stack # <<>>
    /\ Return
    /\ UNCHANGED <<listVars, options, requests, responseVars>>

Next ==
    \/ SetHeader \/ ClearHeaders \/ Destroy
    \/ \E method \in HttpMethod, data \in BOOLEAN : Request(method, data)
    \/ \E f \in Fields : HeaderArrives(f)
    \/ ChunkArrives \/ Succeeds \/ Fails \/ TimesOut \/ CallbackEnds

Spec == Init /\ [][Next]_vars

\* Callbacks end, and libcurl keeps to CURLOPT_TIMEOUT; what servers send, and
\* whether, is up to them.
FairSpec == Spec /\ WF_vars(TimesOut) /\ WF_vars(CallbackEnds)

-----------------------------------------------------------------------------
(* Properties.                                                             *)

Calls(n) == [id : 1..n, method : HttpMethod, data : BOOLEAN, at : {"perform", "callback"},
             arrived : 0..MaxChunks, body : Seq(1..MaxChunks)]
Options(n, l) == [kind : {"GET", "POST", "HEAD"}, custom : HttpMethod \cup {"none"},
                  postFields : 0..n, header : 0..l, sink : 0..n, timeout : BOOLEAN]

ListsOK ==
    /\ lists \in 0..MaxLists
    /\ headers \in 0..lists
    /\ freed \subseteq 1..lists
    /\ destroyed \in BOOLEAN

CallsOK ==
    /\ requests \in 0..MaxRequests
    /\ stack \in Seq(Calls(requests))
    /\ Len(stack) <= MaxDepth
    /\ responseHeaders \in [Fields -> 0..requests]
    /\ responseCode \in 0..requests

TypeOK == ListsOK /\ CallsOK /\ options \in Options(requests, lists)

\* What libcurl sends is the method, the data and the headers of this call and
\* nothing an earlier call, or the one around it, left on the handle; no pointer
\* it holds is to something that is gone.
SentAsAsked ==
    InPerform =>
        LET call == stack[Len(stack)]
        IN /\ (IF options.custom = "none" THEN options.kind ELSE options.custom) = call.method
           /\ options.postFields = IF SendsData(call) THEN call.id ELSE 0
           /\ options.header = headers
           /\ options.sink = call.id

\* Every header list is freed once: while the client lives the one it points
\* to is the one that is not, and with the client that one goes.
FreedOnce == (1..lists) \ freed = IF destroyed THEN {} ELSE {headers} \ {0}

\* get_response_headers() and get_response_code() are those of the last
\* request, of no other, whatever failed or threw before.
ResponseOfLast ==
    /\ \A f \in Fields : responseHeaders[f] \in {0, requests}
    /\ responseCode \in {0, requests}

\* A callback is given the whole body in one piece, in order, also while
\* requests of its own are under way.
BodyWhole ==
    \A i \in DOMAIN stack : stack[i].body = [k \in 1..stack[i].arrived |-> k]

\* A request ends, by its time limit if by nothing else, at every depth.
RequestEnds ==
    \A depth \in 1..MaxDepth : Len(stack) >= depth ~> Len(stack) < depth
=============================================================================
