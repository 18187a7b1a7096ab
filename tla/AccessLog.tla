------------------------------- MODULE AccessLog -------------------------------
(***************************************************************************)
(* HTTPMiddleware (src/formatter_clf.go) on top of the formatters: a       *)
(* handler answers a request through a LogResponseWriter, and what that    *)
(* has counted becomes the fields of one entry.  The response writer below *)
(* it is net/http's: it sends the first final status and ignores others.   *)
(***************************************************************************)
EXTENDS Formatters

CONSTANTS
    Requests,        \* [host, user, method, url, path, proto, referer, agent]: url
                     \* is r.URL # nil; an empty text is no value
    Statuses,        \* status codes that handlers set
    ServedOptions,   \* formatter options for entries of requests
    MaxBytes,        \* bound: bytes in one Write of a handler
    MaxHandlerCalls  \* bound: calls of a handler

VARIABLES
    phase,           \* "client": entry was made by a client of the package;
                     \* "serving", "logged" or "panicked": a request's handler
    request,
    statusCode, responseSize,   \* the LogResponseWriter
    sentStatus,      \* what net/http has sent: a status, or 0, ...
    sentBytes,       \* ... and bytes of a body
    level,           \* the level of the entry for the request
    handled,         \* calls of the handler
    ignored          \* history: statuses that net/http did not send as final

responseVars == <<statusCode, responseSize, sentStatus, sentBytes, handled, ignored>>
accessVars == <<phase, request, responseVars, level>>
allVars == <<vars, accessVars>>

ASSUME AccessAssumption ==
    /\ \A name \in {"remote_host", "remote_user", "method", "path", "protocol", "status_code",
                    "response_size", "referer", "user_agent", "request_line", "duration"} :
        \E k \in DOMAIN Keys : Keys[k] = <<name>>
    /\ Requests \subseteq [host : Text, user : Text, method : Text, url : BOOLEAN,
                           path : Text, proto : Text, referer : Text, agent : Text]
    /\ Statuses \subseteq DOMAIN Numeral \ {0} /\ Statuses \subseteq Nat
    /\ ServedOptions \subseteq OptionValues
    /\ Times # {} /\ Requests # {}
    /\ MaxBytes \in Nat /\ MaxHandlerCalls \in Nat
    /\ 0..(MaxBytes * MaxHandlerCalls) \subseteq DOMAIN Numeral

NoEntry == [time |-> CHOOSE t \in Times : TRUE, leveled |-> TRUE, message |-> <<"HTTP Request">>,
            caller |-> FALSE, fields |-> <<>>]

\* NewLogResponseWriter
AccessInit ==
    /\ request \in Requests
    /\ statusCode = 200 /\ responseSize = 0
    /\ sentStatus = 0 /\ sentBytes = 0
    /\ level = "none" /\ handled = 0 /\ ignored = {}
    /\ \/ phase = "client" /\ Init /\ request = CHOOSE r \in Requests : TRUE
       \/ /\ phase = "serving"
          /\ entry = NoEntry /\ opts \in ServedOptions
          /\ NoCache /\ format = "none" /\ line = <<>>

HandlerCall ==
    /\ phase = "serving" /\ handled < MaxHandlerCalls
    /\ handled' = handled + 1
    /\ UNCHANGED <<vars, phase, request, level>>

\* Whether net/http sends this status as the response's: of those below 200 only
\* 101 ends the headers.
IsFinal(code) == sentStatus = 0 /\ (code >= 200 \/ code = 101)

WriteHeader(code) ==
    /\ HandlerCall
    /\ statusCode' = code
    /\ IF IsFinal(code)
       THEN sentStatus' = code /\ UNCHANGED ignored
       ELSE ignored' = ignored \cup {code} /\ UNCHANGED sentStatus
    /\ UNCHANGED <<responseSize, sentBytes>>

\* Mutant: what was to be written is counted.
CountedAsked(n, size) == n

\* Write adds what was written.
Counted(n, size) == size

\* Of n bytes size are written; the first Write sends 200.  Requests are other than
\* HEAD, of which net/http takes the bytes and sends none.
Write(n, size) ==
    /\ HandlerCall
    /\ sentStatus' = IF sentStatus = 0 THEN 200 ELSE sentStatus
    /\ sentBytes' = sentBytes + size
    /\ responseSize' = responseSize + Counted(n, size)
    /\ UNCHANGED <<statusCode, ignored>>

KeyOf(name) == CHOOSE k \in DOMAIN Keys : Keys[k] = <<name>>
StringField(name, s) ==
    [key |-> KeyOf(name), type |-> "string", text |-> s, int |-> 0, sensitive |-> FALSE]
IntField(name, n) ==
    [key |-> KeyOf(name), type |-> "number", text |-> <<Numeral[n]>>, int |-> n,
     sensitive |-> FALSE]
DurationField ==
    [key |-> KeyOf("duration"), type |-> "time", text |-> <<"d">>, int |-> 0,
     sensitive |-> FALSE]

Optional(name, s) == IF s = <<>> THEN <<>> ELSE <<StringField(name, s)>>

LogRequest ==
    Optional("remote_host", request.host)
      \o (IF request.url THEN Optional("remote_user", request.user) ELSE <<>>)
      \o <<StringField("method", request.method)>>
      \o (IF request.url THEN <<StringField("path", request.path)>> ELSE <<>>)
      \o <<StringField("protocol", request.proto),
           IntField("status_code", statusCode),
           IntField("response_size", responseSize)>>
      \o Optional("referer", request.referer) \o Optional("user_agent", request.agent)
      \o (IF request.url
           THEN <<StringField("request_line",
                    Words(request.method, Words(request.path, request.proto)))>>
           ELSE <<>>)

LevelOf(code) ==
    IF code >= 500 THEN "error" ELSE IF code >= 400 THEN "warn" ELSE "info"

\* The handler returns: net/http sends 200 if nothing was sent, and the entry is
\* logged.
HandlerReturns ==
    /\ phase = "serving" /\ phase' = "logged"
    /\ sentStatus' = IF sentStatus = 0 THEN 200 ELSE sentStatus
    /\ level' = LevelOf(statusCode)
    /\ \E t \in Times :
        entry' = [entry EXCEPT !.time = t, !.fields = Append(LogRequest, DurationField)]
    /\ UNCHANGED <<opts, timeCache, clfCache, format, line, request, statusCode,
                   responseSize, sentBytes, handled, ignored>>

\* A panic passes the middleware, which has deferred nothing.
HandlerPanics ==
    /\ phase = "serving" /\ phase' = "panicked"
    /\ UNCHANGED <<vars, request, responseVars, level>>

\* An entry of a client and those after it, or that of the request.
Format ==
    /\ \/ phase = "client" /\ Next
       \/ phase = "logged" /\ (FormatJSON \/ FormatLogfmt \/ FormatText \/ FormatCLF)
    /\ UNCHANGED accessVars

AccessNext ==
    \/ \E code \in Statuses : WriteHeader(code)
    \/ \E n \in 1..MaxBytes : \E size \in 0..n : Write(n, size)
    \/ HandlerReturns \/ HandlerPanics \/ Format

AccessSpec == AccessInit /\ [][AccessNext]_allVars

--------------------------------------------------------------------------------
(* Properties.                                                              *)

\* The access log tells what the client got, status, bytes and request line, and
\* has the level of that status, unless the handler set a status that was not
\* sent: a second one, one after the body began, or one below 200 but 101.
AccessTold ==
    phase = "logged" /\ format = "clf" /\ (\A part \in DOMAIN CLFKeys : Plain(part)) =>
        LET p == CLFRead(CLFReader, WholeLine) IN
        /\ p.read[1] = OrDash(request.host)
        /\ request.url =>
             p.read[5] = Words(request.method, Words(request.path, request.proto))
        /\ ignored = {} =>
             /\ p.read[6] = <<Numeral[sentStatus]>>
             /\ level = LevelOf(sentStatus)
        /\ p.read[7] = OrDash(IF sentBytes = 0 THEN <<>> ELSE <<Numeral[sentBytes]>>)

================================================================================
