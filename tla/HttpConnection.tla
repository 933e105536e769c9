---------------------------- MODULE HttpConnection ----------------------------
(***************************************************************************)
(* What one connection does with its requests: HttpSession::ReadHandler    *)
(* with the HttpRequest, HttpResponse and HttpRouter it keeps from one     *)
(* request to the next, and the handlers that HttpServer::InitHttpRouter   *)
(* registers.                                                              *)
(*                                                                         *)
(* The text of a reply is a sequence of fields; its content is a sequence  *)
(* of pieces, each the text of a handler or the page of an error status,   *)
(* and as long as it has pieces.  A string_view of a request that has been *)
(* freed may show anything.  The continuation of /testAsync runs in        *)
(* IServer::Update, which is another handler of the io_context and so may  *)
(* run between any two statements of a ReadHandler on another thread.      *)
(***************************************************************************)
EXTENDS HttpParser, FiniteSets

CONSTANTS
    MaxRequests,     \* bound: how many requests the connection brings
    MaxQueryLength   \* bound: how long a query string is

ASSUME MaxRequestsAssumption    == MaxRequests \in Nat \ {0}
ASSUME MaxQueryLengthAssumption == MaxQueryLength \in Nat

Paths    == {"/", "/userInfo", "/test", "/testAsync", "unregistered"}
Statuses == {"Unknown", "Ok", "NotFound", "InternalServerError", "ServiceUnavailable"}

Strings  == UNION {[1 .. n -> Characters] : n \in 0 .. MaxQueryLength}
Requests == [parses : BOOLEAN, path : Paths, query : {<<>>}]
            \cup [parses : {TRUE}, path : {"/"}, query : Strings]

VARIABLES
    step,       \* the next statement of ReadHandler; "idle" between requests
    request,    \* the request being handled
    count,      \* how many requests have been read
    parsed,     \* the last of them that HttpParser accepted, 0 for none
    queries,    \* _queries, the entries that are views of the request in hand
    stale,      \* ... there are others, views of the freed text of an earlier one
    awaited,    \* continuations of /testAsync that have not run
    status,     \* HttpResponse::_status
    content,    \* HttpResponse::_content
    headers,    \* HttpResponse::_headers
    head,       \* HttpResponse::_head, which is the payload
    replies,    \* the length of the payload of each reply
    interfered, \* a continuation has run while a payload was being built
    fault       \* a null result was dereferenced

parserVars   == <<parsed, queries, stale>>
responseVars == <<status, content, headers, head>>
vars == <<step, request, count, parserVars, awaited, responseVars, replies, interfered, fault>>

NoRequest == [parses |-> FALSE, path |-> "unregistered", query |-> <<>>]

Init == /\ step       = "idle"
        /\ request    = NoRequest
        /\ count      = 0
        /\ parsed     = 0
        /\ queries    = NoQueries
        /\ stale      = FALSE
        /\ awaited    = 0
        /\ status     = "Unknown"
        /\ content    = <<>>
        /\ headers    = <<>>
        /\ head       = <<>>
        /\ replies    = <<>>
        /\ interfered = FALSE
        /\ fault      = FALSE

-----------------------------------------------------------------------------
(* HttpRequest::Parse, whose result ReadHandler ignores.                   *)

\* The keys of earlier requests stay in the map, and what they show now is what
\* their freed memory holds, which another thread may be writing.  Any new key may
\* equal one of them: emplace then drops it, with its first or a later value.
Substrings(str) == {SubSeq(str, i, j) : i \in 1 .. Len(str) + 1, j \in 0 .. Len(str)}
AmongStale(str) == UNION {[kept -> Substrings(str)] : kept \in SUBSET DOMAIN ParseQuery(str)}
NewQueries(str) == IF stale' THEN AmongStale(str) ELSE {ParseQuery(str)}

RouteIfParsed(r) == IF r.parses THEN "route" ELSE "idle"
AfterParse(r)    == "route"

Parse(r) ==
    /\ step = "idle"
    /\ count < MaxRequests
    /\ count'    = count + 1
    /\ request'  = r
    /\ stale'    = (stale \/ DOMAIN queries # {})
    /\ IF r.parses
       THEN /\ parsed'  = count'
            /\ queries' \in NewQueries(r.query)
       ELSE /\ queries' = NoQueries
            /\ UNCHANGED parsed
    /\ step' = AfterParse(r)
    /\ UNCHANGED <<awaited, responseVars, replies, interfered, fault>>

-----------------------------------------------------------------------------
(* HttpRouter::Route and the handlers.                                     *)

\* Method and path are views of the last request that was accepted; with none
\* they are empty.
Routable == CASE parsed = count -> {request.path}
              [] parsed = 0     -> {"unregistered"}
              [] OTHER          -> Paths

SetStatusCode(s) == status'  = s
SetContent(c)    == content' = <<c>>

Reply(s, c) == SetStatusCode(s) /\ SetContent(c)
Crash       == fault' = TRUE /\ UNCHANGED <<status, content>>
NoCrash     == UNCHANGED fault

Root      == Reply("Ok", "hello") /\ NoCrash
Test      == UNCHANGED <<status, content>> /\ NoCrash
NotFound  == SetStatusCode("NotFound") /\ UNCHANGED content /\ NoCrash

\* Two synchronous queries: the first is tested for null, the second is not.
GetUserInfo == \/ Reply("Ok", "user") /\ NoCrash
               \/ SetStatusCode("InternalServerError") /\ UNCHANGED content /\ NoCrash
               \/ Crash

Handler(path) == \/ path = "/" /\ Root
                 \/ path = "/userInfo" /\ GetUserInfo
                 \/ path \in {"/test", "/testAsync"} /\ Test
                 \/ path = "unregistered" /\ NotFound

\* An exception of a handler is caught here.  The continuation that /testAsync
\* hands over may be lost before it runs (module QueryCallback).
Unavailable == SetStatusCode("ServiceUnavailable")
Throws      == Unavailable /\ UNCHANGED content /\ NoCrash

Route == /\ step = "route"
         /\ \E path \in Routable :
                /\ \/ Handler(path)
                   \/ path # "unregistered" /\ Throws
                /\ awaited' \in IF path = "/testAsync" THEN {awaited, awaited + 1}
                                                       ELSE {awaited}
         /\ step' = "head"
         /\ UNCHANGED <<request, count, parserVars, headers, head, replies, interfered>>

-----------------------------------------------------------------------------
(* HttpResponse::GetPayload.                                               *)

IsError(s)      == s \in {"NotFound", "InternalServerError", "ServiceUnavailable"}
Field(name, v)  == [field |-> name, value |-> v]
HasHost         == \E i \in DOMAIN headers : headers[i].field = "Host"
AddAlways       == TRUE
AddHost         == ~HasHost
WithPage        == IF IsError(status) THEN Append(content, status) ELSE content
LengthBefore(c) == Len(content)
LengthOf(c)     == Len(c)

BuildResponseHead ==
    /\ step = "head"
    /\ content' = WithPage
    /\ headers' = headers \o (IF AddHost THEN <<Field("Host", "Harold")>> ELSE <<>>)
                          \o <<Field("Content-Length", LengthOf(content')), Field("Date", "now")>>
    /\ head'    = Append(head, Field("status", status)) \o headers'
    /\ step'    = "content"
    /\ UNCHANGED <<request, count, parserVars, awaited, status, replies, interfered, fault>>

\* The content follows the head; the whole of _head is handed to SendMsg.
GetPayload ==
    /\ step = "content"
    /\ head'    = head \o <<Field("Content-Type", "String"), Field("content", content)>>
    /\ replies' = Append(replies, Len(head'))
    /\ step'    = "idle"
    /\ request' = NoRequest
    /\ UNCHANGED <<count, parserVars, awaited, status, content, headers, interfered, fault>>

-----------------------------------------------------------------------------
\* The continuation of /testAsync, given a result or null.
Continuation == /\ awaited > 0
                /\ awaited' = awaited - 1
                /\ Reply("Ok", "row") \/ Reply("InternalServerError", "failure")
                /\ interfered' = (interfered \/ step = "content")
                /\ UNCHANGED <<step, request, count, parserVars, headers, head, replies, fault>>

ReadHandler == Route \/ BuildResponseHead \/ GetPayload

Next == /\ ~fault
        /\ (\E r \in Requests : Parse(r)) \/ ReadHandler \/ Continuation

\* A handler that has begun goes on.
Spec == Init /\ [][Next]_vars /\ WF_vars(~fault /\ ReadHandler)

-----------------------------------------------------------------------------
(* Properties.                                                             *)

Names  == {"status", "Host", "Content-Length", "Date", "Content-Type", "content"}
Pieces == {"hello", "user", "row", "failure"} \cup Statuses

\* Types; the headers, which are never cleared, grow by two fields a reply.
TypeOK == /\ step \in {"idle", "route", "head", "content"}
          /\ request \in Requests
          /\ count \in 0 .. MaxRequests
          /\ parsed \in 0 .. count
          /\ DOMAIN queries \subseteq Strings
          /\ stale \in BOOLEAN
          /\ awaited \in 0 .. MaxRequests
          /\ status \in Statuses
          /\ content \in Seq(Pieces)
          /\ \A i \in DOMAIN headers : headers[i].field \in {"Host", "Content-Length", "Date"}
          /\ Len(headers) <= 2 * count + 1
          /\ \A i \in DOMAIN head : head[i].field \in Names
          /\ replies \in Seq(Nat)
          /\ interfered \in BOOLEAN
          /\ fault \in BOOLEAN

\* Where reply n is in the payload, behind the reply before it, and the value of
\* the last field of that name in it.
Section(n)            == (IF n = 1 THEN 1 ELSE replies[n - 1] + 1) .. replies[n]
IsLast(section, name, i) == /\ i \in section
                            /\ head[i].field = name
                            /\ \A j \in section : head[j].field = name => j <= i
LastOf(section, name) == head[CHOOSE i \in section : IsLast(section, name, i)].value

\* Unless a continuation has changed the response while it was being written,
\* the last Content-Length of every section counts the content that follows it,
\* the content of earlier replies, the page of the status and all; and the
\* content of an error ends with the page of that error.
SectionsAgree ==
    ~interfered => \A n \in DOMAIN replies :
        LET status_  == LastOf(Section(n), "status")
            content_ == LastOf(Section(n), "content")
        IN  /\ LastOf(Section(n), "Content-Length") = Len(content_)
            /\ IsError(status_) => content_ # <<>> /\ content_[Len(content_)] = status_

\* Of a well-formed query string the parser finds every key, each with its first
\* value, and nothing else.  This holds up to and including the first request that
\* has a query; what the map holds after it depends on freed memory.
QueriesFound ==
    step = "route" /\ parsed = count /\ ~stale /\ WellFormed(request.query) =>
        /\ DOMAIN queries = DOMAIN Expected(request.query)
        /\ \A k \in DOMAIN queries : queries[k] = Expected(request.query)[k]

\* Every request is answered, whether or not it parses, its handler throws or
\* is registered at all; only a crash prevents it.
EveryRequestAnswered ==
    \A n \in 1 .. MaxRequests : count = n ~> Len(replies) >= n \/ fault

==============================================================================
