------------------------------ MODULE MCFormatters ------------------------------
(***************************************************************************)
(* The formatters and the middleware for TLC: texts with every character   *)
(* that a format treats on its own, one or two fields of every type, the   *)
(* options that change the structure of a line, and requests with and      *)
(* without each optional part.                                             *)
(***************************************************************************)
EXTENDS AccessLog, TLC

Texts ==
    {<<"a">>, <<"a", "\"">>, <<"\\", "n">>, <<"\n", "a">>, <<" ", "=", "\\">>, <<"NUL">>}

MCChar == STRING

MCNumeral == [n \in 0..1000 |-> ToString(n)]

MCKeys ==
    <<<<" ">>, <<"\"", "k">>, <<"=", "k">>, <<"a">>, <<"bytes">>, <<"duration">>,
      <<"ip">>, <<"method">>, <<"path">>, <<"protocol">>, <<"referer">>,
      <<"remote_host">>, <<"remote_user">>, <<"request_line">>, <<"response_size">>,
      <<"status_code">>, <<"user_agent">>>>

Field(k, type, text) ==
    [key |-> k, type |-> type, text |-> text, int |-> 0, sensitive |-> FALSE]
Secret(type) == [Field(4, type, <<"S">>) EXCEPT !.sensitive = TRUE]
Number(k, n) == [Field(k, "number", <<Numeral[n]>>) EXCEPT !.int = n]
Named(name, text) == StringField(name, text)

MCFields ==
    {Field(k, "string", s) : k \in {1, 4}, s \in {<<>>} \cup Texts}
      \cup {Field(2, "object", <<"a", " ", "\"">>), Number(3, 1),
            Field(1, "error", <<"a", "\"">>),
            Field(1, "time", <<"T">>), Field(2, "binary", <<255>>), Field(2, "binary", <<7, 200>>),
            Field(2, "binary", <<129, 66, 255, 3>>),
            Field(3, "unknown", <<>>)}
      \cup {Secret("string"), Secret("object"), [Number(4, 9) EXCEPT !.sensitive = TRUE]}

Pairs == {Field(4, "string", <<"a", "\"">>), Number(1, 1), Secret("object")}

\* Names of one part twice, values of other types, parts of a request line.
CLFLists ==
    {<<Named("ip", <<"h">>), Named("remote_host", <<"g">>)>>,
     <<Named("remote_host", <<"g">>), IntField("ip", 1)>>,
     <<Field(KeyOf("ip"), "error", <<"e">>), IntField("bytes", 7)>>,
     <<Named("ip", <<"h", " ">>), IntField("status_code", 404)>>,
     <<IntField("response_size", 0), IntField("status_code", 0)>>,
     <<IntField("bytes", 7), Named("status_code", <<"4">>)>>,
     <<Named("method", <<"G">>), Named("path", <<"/">>)>>,
     <<Named("method", <<"G">>), Named("path", <<"/">>), Named("protocol", <<"2">>)>>,
     <<Named("method", <<"G">>), Named("protocol", <<"2">>)>>,
     <<Named("method", <<"-">>), Named("path", <<"/">>)>>,
     <<Named("request_line", <<"G", "\"">>), Named("user_agent", <<"u">>)>>,
     <<Named("remote_user", <<"r">>), Named("referer", <<"a">>)>>}

\* A time of the same second and another millisecond, and one of another second.
MCTimes == {[ms |-> 0, rest |-> 0], [ms |-> 1, rest |-> 1], [ms |-> 1000, rest |-> 0]}

SomeEntries(messages, callers, lists) ==
    [time : MCTimes, leveled : {TRUE}, message : messages, caller : callers,
     fields : lists]

\* A reader takes a line by recursion as deep as the line is long: the longest
\* entries go without a caller, and each request without some of its parts.
MCEntries ==
    SomeEntries({<<>>} \cup Texts, {FALSE}, {<<>>, <<Number(3, 1)>>})
      \cup SomeEntries({<<"a">>}, {FALSE}, {<<f>> : f \in MCFields} \cup Pairs \X Pairs)
      \cup SomeEntries({<<>>, <<"a">>}, {TRUE}, {<<>>, <<Number(3, 1)>>})
      \cup SomeEntries({<<>>}, {FALSE}, CLFLists)
      \cup [time : MCTimes, leveled : {FALSE}, message : {<<>>, <<"a">>}, caller : {FALSE},
            fields : {<<>>}]

Plainest ==
    [noTimestamp |-> FALSE, noLevel |-> FALSE, disableNewline |-> FALSE,
     truncate |-> 0, noQuotes |-> FALSE, noSorting |-> FALSE, noNames |-> FALSE,
     extended |-> FALSE]

MCOptions ==
    {[Plainest EXCEPT !.noTimestamp = t, !.noLevel = l] : t, l \in BOOLEAN}
      \cup {[Plainest EXCEPT !.truncate = n, !.noQuotes = q] : n \in {0, 1}, q \in BOOLEAN}
      \cup [noTimestamp : {TRUE}, noLevel : {TRUE}, disableNewline : {TRUE},
             truncate : {2}, noQuotes : BOOLEAN, noSorting : {TRUE},
             noNames : BOOLEAN, extended : {TRUE}]

MCServedOptions ==
    {[Plainest EXCEPT !.noTimestamp = TRUE, !.noLevel = TRUE, !.extended = TRUE]}

MCRequests ==
    {[host |-> <<>>, user |-> <<"r">>, method |-> <<"G">>, url |-> TRUE,
      path |-> <<"/">>, proto |-> <<"1">>, referer |-> <<>>, agent |-> <<>>],
     [host |-> <<"h">>, user |-> <<>>, method |-> <<"G">>, url |-> FALSE,
      path |-> <<>>, proto |-> <<"1">>, referer |-> <<"a">>, agent |-> <<"u">>]}
================================================================================
