------------------------------- MODULE Formatters -------------------------------
(***************************************************************************)
(* The JSON, logfmt, text and CLF formatters (src/formatter_*.go) and      *)
(* their escaping (src/utils.go): what they make of an entry, and the      *)
(* caches of formatted times they keep between entries.                    *)
(*                                                                         *)
(* A text is a sequence of characters, of which only those that a format   *)
(* gives a meaning are told apart.  A field's key is a number, in the      *)
(* order of the keys, and its value comes with its text: for binary data,  *)
(* the bytes; int is field.Integer.  A key that CLF knows, and a number, is *)
(* one character.  One character stands for those that are escaped alike, a *)
(* newline for the control characters that have an escape, "NUL" for those *)
(* that have none.  Colours and the separator of the text format are left  *)
(* out.                                                                    *)
(***************************************************************************)
EXTENDS Integers, SequencesExt

CONSTANTS
    Char,         \* the characters
    Numeral,      \* the character that stands for a number's text
    Keys,         \* the texts of the keys, in byte order
    Entries,      \* [time, leveled, message, caller, fields]: leveled is level <
                  \* Disabled, fields a sequence of [key, type, text, int, sensitive]
    Times,        \* [ms, rest]: milliseconds and what is below them
    Options       \* [noTimestamp, noLevel, disableNewline, truncate, noQuotes,
                  \*  noSorting, noNames, extended]: noQuotes is DisableQuoting
                  \* and no ForceQuote, noNames is no EnableFieldNames

VARIABLES
    entry,        \* the Entry to format
    opts,         \* the formatter's options
    timeCache,    \* the formatter's cache: milliseconds -> text
    clfCache,     \* that of a CLFFormatter: seconds -> text
    format,       \* history: the formatter that made line, or "none"
    line          \* what it has written

vars == <<entry, opts, timeCache, clfCache, format, line>>

Text == Seq(Char)

\* The characters that a format gives a meaning.
Special == {"\"", "\\", "\n", "NUL", " ", "=", ",", ":", "{", "}", "[", "]"}

\* Those of the formatters' own keys and values.
Letters ==
    {"t", "l", "m", "c", "f", "i", "F", "I", "R", "T", "S", "d", "n", "u", "1", ".", "-",
     "HTTP/1.1", "HTTP Request"}

\* A number or boolean has a numeral, a time or duration no special character.
Fields ==
    {f \in [key : DOMAIN Keys, type : {"string", "number", "object", "error", "time", "unknown"},
             text : Text, int : DOMAIN Numeral, sensitive : BOOLEAN] :
        /\ f.type = "number" => f.text = <<Numeral[f.int]>>
        /\ f.type = "time" => \A i \in DOMAIN f.text : f.text[i] \notin Special}
      \cup [key : DOMAIN Keys, type : {"binary"}, text : Seq(0..255), int : DOMAIN Numeral,
            sensitive : BOOLEAN]

OptionValues ==
    [noTimestamp : BOOLEAN, noLevel : BOOLEAN, disableNewline : BOOLEAN, truncate : Nat,
     noQuotes : BOOLEAN, noSorting : BOOLEAN, noNames : BOOLEAN, extended : BOOLEAN]

Second(t) == t.ms \div 1000

ASSUME FormattersAssumption ==
    /\ Special \cup Letters \subseteq Char
    /\ Numeral \in [DOMAIN Numeral -> Char \ Special] /\ 0..255 \subseteq DOMAIN Numeral
    /\ DOMAIN Numeral \subseteq Int
    /\ Keys \in Seq(Text)
    /\ \A t \in Times : t.ms \in Nat /\ {t.ms, Second(t)} \subseteq DOMAIN Numeral
    /\ Entries \subseteq [time : Times, leveled : BOOLEAN, message : Text, caller : BOOLEAN,
                           fields : Seq(Fields)]
    /\ Options \subseteq OptionValues

NoCache ==
    /\ timeCache = [ms \in {t.ms : t \in Times} |-> <<>>]
    /\ clfCache = [sec \in {Second(t) : t \in Times} |-> <<>>]

Init ==
    /\ entry \in Entries /\ opts \in Options
    /\ NoCache
    /\ format = "none" /\ line = <<>>

Quote == <<"\"">>
Quoted(s) == Quote \o s \o Quote
Ellipsis == <<".", ".", ".">>
Null == <<"n", "u", "l", "l">>
RedactedValue == <<"R">>
TimeKey == <<"t">>
LevelKey == <<"l">>
MessageKey == <<"m">>
CallerKey == <<"c">>
LevelText == <<"I">>
CallerText == <<"f">>
FileKey == <<"f">>
LineKey == <<"i">>
FunctionKey == <<"F">>
LineNumber == <<"1">>
Newline == IF opts.disableNewline THEN <<>> ELSE <<"\n">>

\* The default TimeFormat shows milliseconds and nothing below them.
TimeText(t) == <<"T", Numeral[t.ms]>>

SmallerOf(a, b) == IF a < b THEN a ELSE b

\* getCachedTimeString
CachedTime(t) ==
    IF timeCache[t.ms] # <<>> THEN timeCache[t.ms] ELSE TimeText(t)

\* As much of a string as TruncateStrings lets through, ...
Truncated(s) ==
    IF opts.truncate > 0 /\ Len(s) > opts.truncate
    THEN SubSeq(s, 1, opts.truncate) ELSE s

\* ... and what follows it.
Rest(s) == IF Len(Truncated(s)) < Len(s) THEN Ellipsis ELSE <<>>

\* Mutant: only strings are redacted.
RedactedStrings(f) == f.sensitive /\ f.type = "string"

Redacted(f) == f.sensitive

\* f among fields in the order of their keys, after those that have its own.
Inserted(fields, f) ==
    LET before == {i \in DOMAIN fields : fields[i].key <= f.key}
    IN InsertAt(fields, Max({0} \cup before) + 1, f)

\* sort.Slice by key, which inserts one after the other (as Go does up to 12),
\* unless DisableSorting.
Sorted(e) ==
    LET sorted[n \in 0..Len(e.fields)] ==
            IF n = 0 THEN <<>> ELSE Inserted(sorted[n - 1], e.fields[n])
    IN IF opts.noSorting THEN e ELSE [e EXCEPT !.fields = sorted[Len(e.fields)]]

\* stringifyValue: binary data is a list of numbers.
Stringified(f) ==
    IF f.type # "binary" THEN f.text
    ELSE <<"[">> \o FlattenSeq([i \in DOMAIN f.text |->
             (IF i > 1 THEN <<" ">> ELSE <<>>) \o <<Numeral[f.text[i]]>>]) \o <<"]">>

--------------------------------------------------------------------------------
(* JSON                                                                     *)

\* The characters of jsonEscapeTable.
JSONEscaped == {"\"", "\\", "\n"}

\* Each character of escaped with a backslash before it, a newline as \n.
Escape(s, escaped) ==
    FlattenSeq([i \in DOMAIN s |->
        IF s[i] \notin escaped THEN <<s[i]>>
        ELSE IF s[i] = "\n" THEN <<"\\", "n">> ELSE <<"\\", s[i]>>])

JSONString(s) == Quoted(Escape(s, JSONEscaped))

\* encodeBase64 of one to three bytes; a character is written as its number.
Base64Group(b) ==
    LET c(n) == Numeral[n]
        first == c((b[1] \div 4) % 64) IN
    CASE Len(b) = 1 -> <<first, c((b[1] % 4) * 16), "=", "=">>
      [] Len(b) = 2 -> <<first, c((b[1] % 4) * 16 + ((b[2] \div 16) % 16)),
                         c((b[2] % 16) * 4), "=">>
      [] Len(b) = 3 -> <<first, c((b[1] % 4) * 16 + ((b[2] \div 16) % 16)),
                         c((b[2] % 16) * 4 + ((b[3] \div 64) % 4)), c(b[3] % 64)>>

Base64(b) ==
    FlattenSeq([i \in 1..((Len(b) + 2) \div 3) |->
                  Base64Group(SubSeq(b, 3 * i - 2, SmallerOf(3 * i, Len(b))))])

\* formatJSONFieldValue; types that are formatted alike have one name: "number"
\* for booleans too, "object" for arrays, "time" for durations.
JSONValue(f) ==
    IF Redacted(f) THEN Quoted(RedactedValue) ELSE
    CASE f.type = "number"   -> f.text
      [] f.type = "string"   -> Quoted(Escape(Truncated(f.text), JSONEscaped)
                                       \o Rest(f.text))
      [] f.type \in {"object", "error"} -> JSONString(f.text)
      [] f.type = "time"     -> Quoted(f.text)
      [] f.type = "binary"   -> Quoted(Base64(f.text))
      [] OTHER               -> Null

Member(key, value) == Quoted(key) \o <<":">> \o value

\* Mutant: no comma after the first member.
CommaAfterSecond(i) == i > 2

\* Whether a comma goes before the i-th member.
NeedComma(i) == i > 1

JSONObject(members) ==
    <<"{">>
      \o FlattenSeq([i \in DOMAIN members |->
             IF NeedComma(i) THEN <<",">> \o members[i] ELSE members[i]])
      \o <<"}">>

JSONLine(e) ==
    LET timestamp == IF opts.noTimestamp THEN <<>>
                     ELSE <<Member(TimeKey, Quoted(CachedTime(e.time)))>>
        level     == IF opts.noLevel \/ ~e.leveled THEN <<>>
                     ELSE <<Member(LevelKey, Quoted(LevelText))>>
        message   == IF e.message = <<>> THEN <<>>
                     ELSE <<Member(MessageKey, JSONString(e.message))>>
        caller    == IF ~e.caller THEN <<>>
                     ELSE <<Member(CallerKey,
                              JSONObject(<<Member(FileKey, JSONString(CallerText)),
                                           Member(LineKey, LineNumber),
                                           Member(FunctionKey,
                                                  JSONString(CallerText))>>))>>
        fields    == [i \in DOMAIN e.fields |->
                        Member(Escape(Keys[e.fields[i].key], JSONEscaped),
                               JSONValue(e.fields[i]))]
    IN JSONObject(timestamp \o level \o message \o caller \o fields) \o Newline

--------------------------------------------------------------------------------
(* logfmt                                                                   *)

\* Mutant: spaces are not escaped, since values are quoted.
LogfmtEscapeQuotes == {"\"", "\\", "\n", "="}

\* The characters that writeEscapedLogfmtString escapes.
LogfmtEscaped == {"\"", "\\", "\n", "=", " "}

LogfmtText(s) == Escape(s, LogfmtEscaped)
LogfmtQuoted(s) == IF opts.noQuotes THEN s ELSE Quoted(s)

LogfmtValue(f) ==
    IF Redacted(f) THEN LogfmtQuoted(RedactedValue) ELSE
    CASE f.type = "number"   -> f.text
      [] f.type = "string"   -> LogfmtQuoted(LogfmtText(Truncated(f.text))
                                             \o Rest(f.text))
      [] f.type \in {"object", "error", "binary"} -> LogfmtQuoted(LogfmtText(Stringified(f)))
      [] f.type = "time"     -> LogfmtQuoted(f.text)
      [] OTHER               -> Null

Pair(key, value) == key \o <<"=">> \o value

LogfmtLine(e) ==
    LET timestamp == IF opts.noTimestamp THEN <<>>
                     ELSE <<Pair(TimeKey, LogfmtQuoted(CachedTime(e.time)))>>
        level     == IF opts.noLevel THEN <<>>
                     ELSE <<Pair(LevelKey, LogfmtQuoted(LevelText))>>
        message   == IF e.message = <<>> THEN <<>>
                     ELSE <<Pair(MessageKey, LogfmtQuoted(LogfmtText(e.message)))>>
        caller    == IF ~e.caller THEN <<>>
                     ELSE <<Pair(CallerKey, LogfmtQuoted(LogfmtText(CallerText)
                                                  \o <<":">> \o LineNumber))>>
        fields    == [i \in DOMAIN e.fields |->
                        Pair(LogfmtText(Keys[e.fields[i].key]),
                             LogfmtValue(e.fields[i]))]
        pairs     == timestamp \o level \o message \o caller \o fields
    IN FlattenSeq([i \in DOMAIN pairs |->
                     IF i > 1 THEN <<" ">> \o pairs[i] ELSE pairs[i]]) \o Newline

--------------------------------------------------------------------------------
(* text                                                                     *)

\* formatFieldValue, with ForceQuote unless noQuotes.
TextValue(f) ==
    IF Redacted(f) THEN LogfmtQuoted(RedactedValue) ELSE
    CASE f.type = "number"   -> f.text
      [] f.type = "string"   -> LogfmtQuoted(Truncated(f.text) \o Rest(f.text))
      [] f.type = "time"     -> LogfmtQuoted(f.text)
      [] f.type \in {"object", "error", "binary"} -> LogfmtQuoted(Stringified(f))
      [] OTHER               -> Null

TextField(f) ==
    IF opts.noNames THEN TextValue(f) ELSE Pair(Keys[f.key], TextValue(f))

TextLine(e) ==
    LET fields == [i \in DOMAIN e.fields |-> <<" ">> \o TextField(e.fields[i])]
    IN (IF opts.noTimestamp THEN <<>> ELSE CachedTime(e.time) \o <<" ">>)
         \o (IF opts.noLevel THEN <<>> ELSE LevelText \o <<" ">>)
         \o e.message \o FlattenSeq(fields) \o Newline

--------------------------------------------------------------------------------
(* CLF                                                                      *)

\* The keys under which each part of the line may be given.
CLFKeys ==
    [host     |-> {"remote_host", "client_ip", "remote_addr", "ip"},
     logname  |-> {"remote_logname", "logname"},
     user     |-> {"remote_user", "user"},
     request  |-> {"request_line", "request"},
     method   |-> {"method"},
     path     |-> {"path", "uri", "url"},
     protocol |-> {"protocol"},
     status   |-> {"status", "status_code"},
     size     |-> {"response_size", "bytes", "size"},
     referer  |-> {"referer"},
     agent    |-> {"user_agent"}]

GivesPart(f, part) == \E name \in CLFKeys[part] : Keys[f.key] = <<name>>

\* field.String
StringOf(f) == IF f.type \in {"string", "error"} THEN f.text ELSE <<>>

\* Mutant: the first field of a part is taken.
TakesUnlessTaken(taken, given) == IF taken = <<>> THEN given ELSE taken

\* The loop overwrites what it has.
TakesLast(taken, given) == given

PickString(part) ==
    LET taken[n \in 0..Len(entry.fields)] ==
            IF n = 0 THEN <<>>
            ELSE IF ~GivesPart(entry.fields[n], part) THEN taken[n - 1]
            ELSE TakesLast(taken[n - 1], StringOf(entry.fields[n]))
    IN taken[Len(entry.fields)]

PickInteger(part) ==
    LET taken[n \in 0..Len(entry.fields)] ==
            IF n = 0 THEN 0
            ELSE IF ~GivesPart(entry.fields[n], part) THEN taken[n - 1]
            ELSE entry.fields[n].int
    IN taken[Len(entry.fields)]

OrDash(s) == IF s = <<>> THEN <<"-">> ELSE s

Words(s, t) == s \o <<" ">> \o t

RequestLine ==
    LET protocol == PickString("protocol") IN
    IF PickString("request") = <<>> /\ PickString("method") # <<>>
         /\ PickString("path") # <<>>
    THEN Words(PickString("method"), Words(PickString("path"),
               IF protocol = <<>> THEN <<"HTTP/1.1">> ELSE protocol))
    ELSE PickString("request")

StatusText == LET code == PickInteger("status") IN
              <<Numeral[IF code <= 0 THEN 200 ELSE code]>>
SizeText == LET bytes == PickInteger("size") IN
            IF bytes <= 0 THEN <<"-">> ELSE <<Numeral[bytes]>>

\* The format has seconds and nothing below them.
CLFTimeText(t) == <<"S", Numeral[Second(t)]>>
CachedCLFTime(t) ==
    IF clfCache[Second(t)] # <<>> THEN clfCache[Second(t)] ELSE CLFTimeText(t)

CLFLine ==
    LET who      == Words(OrDash(PickString("host")),
                          Words(OrDash(PickString("logname")),
                                OrDash(PickString("user"))))
        time     == <<"[">> \o CachedCLFTime(entry.time) \o <<"]">>
        result   == Words(Quoted(OrDash(RequestLine)), Words(StatusText, SizeText))
        extended == Words(<<>>, Words(Quoted(OrDash(PickString("referer"))),
                                      Quoted(OrDash(PickString("agent")))))
    IN Words(who, Words(time, result))
         \o (IF opts.extended THEN extended ELSE <<>>) \o Newline

--------------------------------------------------------------------------------

\* The time of the entry is cached once it has been formatted.
CacheTime ==
    timeCache' = IF opts.noTimestamp THEN timeCache
                 ELSE [timeCache EXCEPT ![entry.time.ms] = CachedTime(entry.time)]

FormatJSON ==
    /\ format = "none"
    /\ line' = JSONLine(entry) /\ format' = "json"
    /\ CacheTime
    /\ UNCHANGED <<entry, opts, clfCache>>

\* The entry's own fields are what is sorted.
FormatLogfmt ==
    /\ format = "none"
    /\ entry' = Sorted(entry)
    /\ line' = LogfmtLine(Sorted(entry)) /\ format' = "logfmt"
    /\ CacheTime
    /\ UNCHANGED <<opts, clfCache>>

FormatText ==
    /\ format = "none"
    /\ entry' = Sorted(entry)
    /\ line' = TextLine(Sorted(entry)) /\ format' = "text"
    /\ CacheTime
    /\ UNCHANGED <<opts, clfCache>>

FormatCLF ==
    /\ format = "none"
    /\ line' = CLFLine /\ format' = "clf"
    /\ clfCache' = [clfCache EXCEPT ![Second(entry.time)] = CachedCLFTime(entry.time)]
    /\ UNCHANGED <<entry, opts, timeCache>>

\* The next entry has another time; its other parts meet nothing that is kept.
NextEntry ==
    /\ format # "none"
    /\ format' = "none" /\ line' = <<>>
    /\ \E t \in Times : entry' = [entry EXCEPT !.time = t]
    /\ UNCHANGED <<opts, timeCache, clfCache>>

Next == FormatJSON \/ FormatLogfmt \/ FormatText \/ FormatCLF \/ NextEntry

Spec == Init /\ [][Next]_vars

--------------------------------------------------------------------------------
(* What a reader of the formats makes of a line: the reference.             *)

\* A parser's state: where it is, the text it is reading, how deep it is in
\* objects, and the keys and values it has read.
State(at, cur, depth, read) == [at |-> at, cur |-> cur, depth |-> depth, read |-> read]

Parser(at) == State(at, <<>>, 0, <<>>)
Move(p, at) == State(at, p.cur, p.depth, p.read)
Take(p, at, c) == State(at, Append(p.cur, c), p.depth, p.read)
Emit(p, at) == State(at, <<>>, p.depth, Append(p.read, p.cur))
OpenObject(p) == State("first", p.cur, p.depth + 1, p.read)
CloseObject(p) ==
    State(IF p.depth = 1 THEN "end" ELSE "after", p.cur, p.depth - 1, p.read)

Unescaped(c) == IF c = "n" THEN "\n" ELSE c

\* A string up to its quote: where goes a quoted text, esc while escaped.
ReadString(p, c, esc, next) ==
    IF c = "\"" THEN Emit(p, next)
    ELSE IF c = "\\" THEN Move(p, esc)
    ELSE IF c = "\n" THEN Move(p, "bad")
    ELSE Take(p, p.at, c)

ReadEscape(p, c, back) ==
    IF c \in {"\"", "\\", "n"} THEN Take(p, back, Unescaped(c)) ELSE Move(p, "bad")

\* The characters of numbers and of null.
Literals ==
    {"n", "u", "l"} \cup Range(LineNumber) \cup Range(Numeral)

\* No control character stands in a JSON text as it is.
JSONStep(p, c) ==
    CASE p.at \in {"start", "value"} /\ c = "{" -> OpenObject(p)
      [] p.at \in {"first", "member"} /\ c = "\"" -> Move(p, "key")
      [] p.at = "key" /\ c # "NUL" -> ReadString(p, c, "keyEsc", "colon")
      [] p.at = "keyEsc"  -> ReadEscape(p, c, "key")
      [] p.at = "colon" /\ c = ":"  -> Move(p, "value")
      [] p.at = "value" /\ c = "\"" -> Move(p, "string")
      [] p.at = "string" /\ c # "NUL" -> ReadString(p, c, "stringEsc", "after")
      [] p.at = "stringEsc" -> ReadEscape(p, c, "string")
      [] p.at \in {"value", "literal"} /\ c \in Literals -> Take(p, "literal", c)
      [] p.at = "literal" /\ c = "," -> Emit(p, "member")
      [] p.at = "literal" /\ c = "}" -> CloseObject(Emit(p, "after"))
      [] p.at = "after" /\ c = ","   -> Move(p, "member")
      [] p.at \in {"first", "after"} /\ c = "}" -> CloseObject(p)
      [] p.at = "end" /\ c = "\n"    -> Move(p, "ended")
      [] OTHER -> Move(p, "bad")

\* What reading s makes of p.
JSONRead(p, s) ==
    LET read[n \in 0..Len(s)] == IF n = 0 THEN p ELSE JSONStep(read[n - 1], s[n])
    IN read[Len(s)]

LogfmtStep(p, c) ==
    CASE p.at = "key" /\ c = "="   -> Emit(p, "value")
      [] p.at = "key" /\ c = "\\"  -> Move(p, "keyEsc")
      [] p.at = "key" /\ c \notin {"=", "\\", " ", "\"", "\n"} -> Take(p, "key", c)
      [] p.at = "keyEsc"  -> Take(p, "key", Unescaped(c))
      [] p.at = "value" /\ c = "\"" -> Move(p, "string")
      [] p.at = "string"  -> ReadString(p, c, "stringEsc", "after")
      [] p.at = "stringEsc" -> Take(p, "string", Unescaped(c))
      [] p.at \in {"value", "bare"} /\ c = "\\" -> Move(p, "bareEsc")
      [] p.at = "bareEsc" -> Take(p, "bare", Unescaped(c))
      [] p.at \in {"value", "bare"} /\ c = " "  -> Emit(p, "key")
      [] p.at \in {"value", "bare"} /\ c = "\n" -> Emit(p, "end")
      [] p.at \in {"value", "bare"} /\ c \notin {"\"", "\\", " ", "\n"} ->
            Take(p, "bare", c)
      [] p.at = "after" /\ c = " "  -> Move(p, "key")
      [] p.at = "after" /\ c = "\n" -> Move(p, "end")
      [] OTHER -> Move(p, "bad")

LogfmtRead(p, s) ==
    LET read[n \in 0..Len(s)] == IF n = 0 THEN p ELSE LogfmtStep(read[n - 1], s[n])
    IN read[Len(s)]

\* What stands between the parts of a CLF line.  A reader takes characters up to
\* the first of the next of these, and knows no escapes.
CLFGlue ==
    <<<<" ">>, <<" ">>, <<" ", "[">>, <<"]", " ", "\"">>, <<"\"", " ">>, <<" ">>>>
      \o IF opts.extended THEN <<<<" ", "\"">>, <<"\"", " ", "\"">>, <<"\"", "\n">>>>
         ELSE <<<<"\n">>>>

\* What it has taken of a part, what of the glue it still skips, the parts it has
\* read, and whether all the glue was there.
Reader(cur, skip, read, ok) == [cur |-> cur, skip |-> skip, read |-> read, ok |-> ok]

CLFReader == Reader(<<>>, <<>>, <<>>, TRUE)

CLFStep(p, c) ==
    IF p.skip # <<>>
    THEN Reader(p.cur, Tail(p.skip), p.read, p.ok /\ c = Head(p.skip))
    ELSE IF Len(p.read) = Len(CLFGlue) THEN Reader(p.cur, p.skip, p.read, FALSE)
    ELSE LET glue == CLFGlue[Len(p.read) + 1] IN
         IF c = Head(glue) THEN Reader(<<>>, Tail(glue), Append(p.read, p.cur), p.ok)
         ELSE Reader(Append(p.cur, c), p.skip, p.read, p.ok)

CLFRead(p, s) ==
    LET read[n \in 0..Len(s)] == IF n = 0 THEN p ELSE CLFStep(read[n - 1], s[n])
    IN read[Len(s)]

\* A line with its newline.
WholeLine == IF opts.disableNewline THEN Append(line, "\n") ELSE line

--------------------------------------------------------------------------------
(* Properties.                                                              *)

\* The base64 of bytes by its definition: 24 bits, padded with zeros, are four
\* characters of six, of which those without data are "=".
Bits(x, y, z) == x * 65536 + y * 256 + z
Shift == <<262144, 4096, 64, 1>>

GroupText(b, g) ==
    LET Byte(i) == IF i <= Len(b) THEN b[i] ELSE 0
        bits == Bits(Byte(3 * g - 2), Byte(3 * g - 1), Byte(3 * g))
    IN [i \in 1..4 |-> IF 3 * (g - 1) + i - 1 > Len(b) THEN "="
                       ELSE Numeral[(bits \div Shift[i]) % 64]]

Base64Text(b) == FlattenSeq([g \in 1..((Len(b) + 2) \div 3) |-> GroupText(b, g)])

\* The value of a field as a reader should see it, binary data as given.
ValueText(f, binary) ==
    IF f.sensitive THEN RedactedValue ELSE
    CASE f.type = "binary" -> binary
      [] f.type = "string" ->
            IF opts.truncate \in 1..(Len(f.text) - 1)
            THEN SubSeq(f.text, 1, opts.truncate) \o Ellipsis ELSE f.text
      [] f.type = "unknown" -> Null
      [] OTHER             -> f.text

\* The keys and values a reader should see: whether there is a level, what there
\* is of the caller, and binary data shown in this way.
Contents(leveled, caller, Binary(_)) ==
    (IF opts.noTimestamp THEN <<>> ELSE <<TimeKey, TimeText(entry.time)>>)
      \o (IF leveled THEN <<LevelKey, LevelText>> ELSE <<>>)
      \o (IF entry.message = <<>> THEN <<>> ELSE <<MessageKey, entry.message>>)
      \o (IF entry.caller THEN caller ELSE <<>>)
      \o FlattenSeq([i \in DOMAIN entry.fields |->
             LET f == entry.fields[i] IN <<Keys[f.key], ValueText(f, Binary(f))>>])

\* Without the control characters that jsonEscapeTable leaves out: what is written
\* of them is not JSON.
Clean(s) == \A i \in DOMAIN s : s[i] # "NUL"
CleanField(f) == Clean(Keys[f.key]) /\ (f.sensitive \/ f.type = "binary" \/ Clean(f.text))
CleanEntry(e) == Clean(e.message) /\ \A i \in DOMAIN e.fields : CleanField(e.fields[i])

\* A JSON line is one object and has each member as it was logged, whatever the
\* options leave out and whatever characters message, keys and values hold but for
\* the control characters without an escape.
JSONRoundTrip ==
    format = "json" /\ CleanEntry(entry) =>
        LET p == JSONRead(Parser("start"), line) IN
        /\ p.at = IF opts.disableNewline THEN "end" ELSE "ended"
        /\ p.read = Contents(~opts.noLevel /\ entry.leveled,
                             <<CallerKey, FileKey, CallerText, LineKey, LineNumber,
                               FunctionKey, CallerText>>,
                             LAMBDA f : Base64Text(f.text))

\* A logfmt line has each pair as it was logged, quoted or not, the fields in
\* the order of their keys.
LogfmtRoundTrip ==
    format = "logfmt" =>
        /\ ~opts.noSorting =>
             \A i, j \in DOMAIN entry.fields :
                 i < j => entry.fields[i].key <= entry.fields[j].key
        /\ LET p == LogfmtRead(Parser("key"), WholeLine) IN
           WholeLine # <<"\n">> =>
            /\ p.at = "end"
            /\ p.read = Contents(~opts.noLevel, <<CallerKey, CallerText \o <<":">> \o LineNumber>>,
                                 Stringified)

\* A line tells a part's characters apart from its own.
Plain(part) ==
    LET s == PickString(part) IN
    IF part \in {"host", "logname", "user"} THEN \A i \in DOMAIN s : s[i] # " "
    ELSE \A i \in DOMAIN s : s[i] \notin {"\"", "\n"}

\* What the entry says last under one of the names of a part.
Naming(part) == {i \in DOMAIN entry.fields : GivesPart(entry.fields[i], part)}
LastNaming(part) == entry.fields[Max(Naming(part))]
Given(part) == IF Naming(part) = {} THEN <<>> ELSE StringOf(LastNaming(part))
Told(part) == IF Given(part) = <<>> THEN <<"-">> ELSE Given(part)
ToldNumber(part) == IF Naming(part) = {} THEN 0 ELSE LastNaming(part).int

\* A CLF line of plain values has its seven or nine parts in their places, each
\* what the entry's last field of that part says, with the cached second, and
\* "-" or 200 for what is not there, is of another type or is not positive.
CLFRoundTrip ==
    format = "clf" /\ (\A part \in DOMAIN CLFKeys : Plain(part)) =>
        LET p == CLFRead(CLFReader, WholeLine) IN
        /\ p.ok /\ p.skip = <<>> /\ Len(p.read) = Len(CLFGlue)
        /\ <<p.read[1], p.read[2], p.read[3]>>
             = <<Told("host"), Told("logname"), Told("user")>>
        /\ p.read[4] = CLFTimeText(entry.time)
        /\ p.read[5] =
             IF Given("request") # <<>> \/ <<>> \in {Given("method"), Given("path")}
             THEN Told("request")
             ELSE Words(Given("method"), Words(Given("path"),
                        IF Given("protocol") = <<>> THEN <<"HTTP/1.1">>
                        ELSE Given("protocol")))
        /\ p.read[6] = <<Numeral[IF ToldNumber("status") > 0 THEN ToldNumber("status")
                                 ELSE 200]>>
        /\ p.read[7] = IF ToldNumber("size") > 0 THEN <<Numeral[ToldNumber("size")]>>
                       ELSE <<"-">>
        /\ opts.extended =>
             <<p.read[8], p.read[9]>> = <<Told("referer"), Told("agent")>>

\* An entry with its sensitive values taken out.
Blanked(e) ==
    [e EXCEPT !.fields = [i \in DOMAIN e.fields |->
        IF ~e.fields[i].sensitive THEN e.fields[i]
        ELSE [e.fields[i] EXCEPT !.type = "unknown", !.text = <<>>, !.int = 0]]]

\* The formatters that look at IsSensitive write the same whatever a sensitive value
\* is, of whatever type.  CLFFormatter does not look at it.
NoSecret ==
    /\ format = "json" => line = JSONLine(Blanked(entry))
    /\ format = "logfmt" => line = LogfmtLine(Blanked(entry))
    /\ format = "text" => line = TextLine(Blanked(entry))

================================================================================
