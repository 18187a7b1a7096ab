---------------------------- MODULE FormattersProofs ----------------------------
(***************************************************************************)
(* What a reader gets back from a line, and what the access log tells, for *)
(* every entry, every request and every choice of options: proofs about    *)
(* AccessSpec, in which entries come from a client of the package or from  *)
(* HTTPMiddleware.                                                         *)
(***************************************************************************)
EXTENDS AccessLog, RecursionLemmas

--------------------------------------------------------------------------------
(* Texts.                                                                   *)

LEMMA Texts ==
    /\ \A c \in Special \cup Letters : c \in Char /\ <<c>> \in Text
    /\ \A c \in Char : <<c>> \in Text
    /\ <<>> \in Text
    /\ \A s, t \in Text : s \o t \in Text
    /\ \A n \in DOMAIN Numeral : Numeral[n] \in Char \ Special /\ <<Numeral[n]>> \in Text
<1>1. \A c \in Char : <<c>> \in Text
  BY DEF Text
<1>2. \A c \in Special \cup Letters : c \in Char
  BY FormattersAssumption
<1>3. \A s, t \in Text : s \o t \in Text
  BY ConcatProperties DEF Text
<1>4. \A n \in DOMAIN Numeral : Numeral[n] \in Char \ Special
  BY FormattersAssumption
<1> QED
  BY <1>1, <1>2, <1>3, <1>4, EmptySeq DEF Text

Associates(s, t, u) == (s \o t) \o u = s \o (t \o u)

LEMMA Associated ==
    ASSUME NEW S, NEW s \in Seq(S), NEW t \in Seq(S), NEW u \in Seq(S)
    PROVE  Associates(s, t, u)
BY ConcatAssociative DEF Associates

\* Short sequences grow by one.
Grows(a, b, c, d) ==
    /\ Append(<<>>, a) = <<a>>
    /\ Append(<<a>>, b) = <<a, b>> /\ <<a>> \o <<b>> = <<a, b>>
    /\ Append(<<a, b>>, c) = <<a, b, c>> /\ <<a, b>> \o <<c>> = <<a, b, c>>
    /\ Append(<<a, b, c>>, d) = <<a, b, c, d>> /\ <<a, b, c>> \o <<d>> = <<a, b, c, d>>

LEMMA Growing ==
    ASSUME NEW S, NEW a \in S, NEW b \in S, NEW c \in S, NEW d \in S
    PROVE  Grows(a, b, c, d)
<1>1. /\ <<a>> \in Seq(S) /\ <<b>> \in Seq(S) /\ <<c>> \in Seq(S) /\ <<d>> \in Seq(S)
      /\ <<a, b>> \in Seq(S) /\ <<a, b, c>> \in Seq(S)
  OBVIOUS
<1>2. /\ Append(<<a>>, b) = <<a>> \o <<b>> /\ Append(<<a, b>>, c) = <<a, b>> \o <<c>>
      /\ Append(<<a, b, c>>, d) = <<a, b, c>> \o <<d>>
  BY <1>1, AppendIsConcat
<1> DEFINE s == Append(<<a>>, b)
           t == Append(<<a, b>>, c)
           u == Append(<<a, b, c>>, d)
<1>3. s \in Seq(S) /\ Len(s) = 2 /\ s[1] = a /\ s[2] = b
  BY <1>1, AppendProperties
<1>4. t \in Seq(S) /\ Len(t) = 3 /\ t[1] = a /\ t[2] = b /\ t[3] = c
  BY <1>1, AppendProperties
<1>5. u \in Seq(S) /\ Len(u) = 4 /\ u[1] = a /\ u[2] = b /\ u[3] = c /\ u[4] = d
  BY <1>1, AppendProperties
<1> HIDE DEF s, t, u
<1>6. s = <<a, b>>
  BY <1>3
<1>7. t = <<a, b, c>>
  BY <1>4
<1>8. u = <<a, b, c, d>>
  BY <1>5
<1>9. Append(<<>>, a) = <<a>>
  OBVIOUS
<1> QED
  BY <1>2, <1>6, <1>7, <1>8, <1>9, Zenon DEF s, t, u, Grows

--------------------------------------------------------------------------------
(* Sorting.                                                                 *)

Ordered(fields) ==
    \A i, j \in DOMAIN fields : i < j => fields[i].key <= fields[j].key

OrderedFields == {fields \in Seq(Fields) : Ordered(fields)}

LEMMA FieldTypes ==
    ASSUME NEW f \in Fields
    PROVE  /\ f.key \in DOMAIN Keys /\ f.key \in Nat /\ Keys[f.key] \in Text
           /\ f.int \in DOMAIN Numeral /\ f.int \in Int
           /\ f.sensitive \in BOOLEAN
           /\ f.type \in {"string", "number", "object", "error", "time", "unknown", "binary"}
           /\ f.type = "binary" => f.text \in Seq(0..255)
           /\ f.type # "binary" => f.text \in Text
           /\ f.type = "number" => f.text = <<Numeral[f.int]>>
           /\ f.type = "time" => \A i \in DOMAIN f.text : f.text[i] \notin Special
<1>1. f.key \in DOMAIN Keys /\ f.int \in DOMAIN Numeral
  BY DEF Fields
<1>2. Keys \in Seq(Text) /\ DOMAIN Numeral \subseteq Int
  BY FormattersAssumption
<1>3. f.key \in Nat /\ Keys[f.key] \in Text
  BY <1>1, <1>2
<1>4. /\ f.sensitive \in BOOLEAN
      /\ f.type \in {"string", "number", "object", "error", "time", "unknown", "binary"}
      /\ f.type = "binary" => f.text \in Seq(0..255)
      /\ f.type # "binary" => f.text \in Text
      /\ f.type = "number" => f.text = <<Numeral[f.int]>>
      /\ f.type = "time" => \A i \in DOMAIN f.text : f.text[i] \notin Special
  BY DEF Fields
<1> QED
  BY <1>1, <1>2, <1>3, <1>4

LEMMA InsertedOrdered ==
    ASSUME NEW s \in OrderedFields, NEW f \in Fields
    PROVE  Inserted(s, f) \in OrderedFields
<1> DEFINE n == Len(s)
           before == {i \in DOMAIN s : s[i].key <= f.key}
           S == {0} \cup before
           p == Max(S)
           a == SubSeq(s, 1, p)
           b == SubSeq(s, p + 1, n)
           t == Inserted(s, f)
<1>1. s \in Seq(Fields) /\ n \in Nat /\ DOMAIN s = 1..n /\ \A i \in 1..n : s[i] \in Fields
  BY DEF OrderedFields
<1>2. \A i, j \in 1..n : i < j => s[i].key <= s[j].key
  BY <1>1 DEF OrderedFields, Ordered
<1>3. S \in SUBSET (0..n) /\ S # {}
  BY <1>1
<1>4. p \in S /\ \A y \in S : y <= p
  <2> HIDE DEF S, n
  <2> QED
    BY <1>1, <1>3, MaxMember
<1>5. p \in 0..n
  BY <1>3, <1>4
<1>6. \A i \in 1..p : s[i].key <= f.key
  <2> SUFFICES ASSUME NEW i \in 1..p PROVE s[i].key <= f.key
    OBVIOUS
  <2>1. p # 0 /\ p \in before /\ i \in 1..n /\ p \in 1..n
    BY <1>1, <1>4, <1>5
  <2>2. s[p].key <= f.key
    BY <2>1
  <2>3. i < p => s[i].key <= s[p].key
    BY <1>2, <2>1
  <2>4. f.key \in Nat /\ s[i].key \in Nat /\ s[p].key \in Nat
    BY <1>1, <2>1, FieldTypes
  <2>5. i = p \/ i < p
    BY <1>5
  <2> QED
    BY <2>2, <2>3, <2>4, <2>5
<1>7. \A i \in (p + 1)..n : f.key <= s[i].key
  <2> SUFFICES ASSUME NEW i \in (p + 1)..n PROVE f.key <= s[i].key
    OBVIOUS
  <2>1. i \in 1..n /\ i \notin S
    BY <1>4, <1>5
  <2>2. ~ s[i].key <= f.key
    BY <1>1, <2>1
  <2>3. f.key \in Nat /\ s[i].key \in Nat
    BY <1>1, <2>1, FieldTypes
  <2> QED
    BY <2>2, <2>3
<1>8. t = a \o <<f>> \o b
  <2>1. (p + 1) - 1 = p
    BY <1>5
  <2>2. t = InsertAt(s, p + 1, f)
    BY DEF Inserted
  <2> HIDE DEF p, t
  <2> QED
    BY <2>1, <2>2 DEF InsertAt
<1> HIDE DEF S, before, p, t
<1>9. a \in Seq(Fields) /\ Len(a) = p /\ \A i \in 1..p : a[i] = s[i]
  <2>1. \A i \in 1..p : s[i] \in Fields
    BY <1>1, <1>5
  <2>2. /\ a \in Seq(Fields) /\ Len(a) = IF 1 <= p THEN p - 1 + 1 ELSE 0
        /\ \A i \in 1..(p - 1 + 1) : a[i] = s[1 + i - 1]
    BY <1>5, <2>1, SubSeqProperties
  <2> HIDE DEF a
  <2> QED
    BY <1>5, <2>2
<1>10. b \in Seq(Fields) /\ Len(b) = n - p /\ \A i \in 1..(n - p) : b[i] = s[p + i]
  <2>1. \A i \in (p + 1)..n : s[i] \in Fields
    BY <1>1, <1>5
  <2>2. p + 1 \in Int /\ n \in Int
    BY <1>1, <1>5
  <2> HIDE DEF n
  <2>3. /\ b \in Seq(Fields) /\ Len(b) = IF p + 1 <= n THEN n - (p + 1) + 1 ELSE 0
        /\ \A i \in 1..(n - (p + 1) + 1) : b[i] = s[(p + 1) + i - 1]
    BY <2>1, <2>2, SubSeqProperties
  <2> HIDE DEF b
  <2> QED
    BY <1>1, <1>5, <2>3
<1> HIDE DEF a, b, n
<1> DEFINE c == a \o <<f>>
<1>a. <<f>> \in Seq(Fields) /\ Len(<<f>>) = 1 /\ <<f>>[1] = f
  OBVIOUS
<1>b. /\ c \in Seq(Fields) /\ Len(c) = p + 1
      /\ \A i \in 1..(p + 1) : c[i] = IF i <= p THEN s[i] ELSE f
  BY <1>5, <1>9, <1>a, ConcatProperties
<1> HIDE DEF c
<1>c. /\ c \o b \in Seq(Fields) /\ Len(c \o b) = (p + 1) + (n - p)
      /\ \A i \in 1..((p + 1) + (n - p)) :
            (c \o b)[i] = IF i <= p + 1 THEN c[i] ELSE b[i - (p + 1)]
  <2>1. /\ c \o b \in Seq(Fields) /\ Len(c \o b) = Len(c) + Len(b)
        /\ \A i \in 1..(Len(c) + Len(b)) :
              (c \o b)[i] = IF i <= Len(c) THEN c[i] ELSE b[i - Len(c)]
    BY <1>10, <1>b, ConcatProperties, Zenon
  <2> QED
    BY <1>10, <1>b, <2>1, Zenon
<1>d. t = c \o b
  BY <1>8 DEF c
<1>11. t \in Seq(Fields) /\ Len(t) = n + 1
  BY <1>1, <1>5, <1>c, <1>d
<1>12. \A i \in 1..(n + 1) :
         t[i] = IF i <= p THEN s[i] ELSE IF i = p + 1 THEN f ELSE s[i - 1]
  <2> SUFFICES ASSUME NEW i \in 1..(n + 1)
               PROVE  t[i] = IF i <= p THEN s[i] ELSE IF i = p + 1 THEN f ELSE s[i - 1]
    OBVIOUS
  <2>1. i \in 1..((p + 1) + (n - p)) /\ t[i] = IF i <= p + 1 THEN c[i] ELSE b[i - (p + 1)]
    BY <1>1, <1>5, <1>c, <1>d
  <2>2. CASE i <= p + 1
    <3>1. i \in 1..(p + 1) /\ t[i] = c[i]
      BY <1>5, <2>1, <2>2
    <3>2. c[i] = IF i <= p THEN s[i] ELSE f
      BY <1>b, <3>1
    <3> QED
      BY <1>5, <2>2, <3>1, <3>2
  <2>3. CASE ~ i <= p + 1
    <3>1. i - (p + 1) \in 1..(n - p) /\ p + (i - (p + 1)) = i - 1
      BY <1>1, <1>5, <2>3
    <3>2. b[i - (p + 1)] = s[i - 1]
      BY <1>10, <3>1
    <3> QED
      BY <1>5, <2>1, <2>3, <3>2
  <2> QED
    BY <2>2, <2>3
<1>13. Ordered(t)
  <2> SUFFICES ASSUME NEW i \in 1..(n + 1), NEW j \in 1..(n + 1), i < j
               PROVE  t[i].key <= t[j].key
    BY <1>11 DEF Ordered
  <2> HIDE DEF n
  <2>1. CASE j <= p
    BY <1>1, <1>2, <1>5, <1>12, <2>1
  <2>2. CASE j = p + 1
    BY <1>1, <1>5, <1>6, <1>12, <2>2
  <2>3. CASE j > p + 1
    <3>1. j - 1 \in (p + 1)..n /\ j - 1 \in 1..n /\ t[j] = s[j - 1]
      BY <1>1, <1>5, <1>12, <2>3
    <3>2. CASE i = p + 1
      BY <1>5, <1>7, <1>12, <3>1, <3>2
    <3>3. CASE i <= p
      <4>1. i \in 1..n /\ i < j - 1 /\ t[i] = s[i]
        BY <1>1, <1>5, <1>12, <2>3, <3>3
      <4> QED
        BY <1>2, <3>1, <4>1
    <3>4. CASE i > p + 1
      <4>1. i - 1 \in 1..n /\ i - 1 < j - 1 /\ t[i] = s[i - 1]
        BY <1>1, <1>5, <1>12, <2>3, <3>4
      <4> QED
        BY <1>2, <3>1, <4>1
    <3> QED
      BY <1>1, <1>5, <3>2, <3>3, <3>4
  <2> QED
    BY <1>1, <1>5, <2>1, <2>2, <2>3
<1> QED
  BY <1>11, <1>13 DEF OrderedFields, t

InsertTable == [q \in OrderedFields \X Fields |-> Inserted(q[1], q[2])]

LEMMA InsertTableTyped ==
    /\ <<>> \in OrderedFields
    /\ InsertTable \in [OrderedFields \X Fields -> OrderedFields]
    /\ \A s \in OrderedFields, f \in Fields : Meet(InsertTable, s, f) = Inserted(s, f)
<1>1. <<>> \in OrderedFields
  BY DEF OrderedFields, Ordered
<1>2. ASSUME NEW q \in OrderedFields \X Fields PROVE Inserted(q[1], q[2]) \in OrderedFields
  <2>1. q[1] \in OrderedFields /\ q[2] \in Fields
    OBVIOUS
  <2> QED
    BY <2>1, InsertedOrdered
<1>3. InsertTable \in [OrderedFields \X Fields -> OrderedFields]
  BY <1>2 DEF InsertTable
<1>4. ASSUME NEW s \in OrderedFields, NEW f \in Fields
      PROVE  Meet(InsertTable, s, f) = Inserted(s, f)
  BY DEF InsertTable, Meet
<1> QED
  BY <1>1, <1>3, <1>4

\* The fields of an entry and those that sorting makes of them.
EntryValues ==
    [time : Times, leveled : BOOLEAN, message : Text, caller : BOOLEAN, fields : Seq(Fields)]

LEMMA SortedOrdered ==
    ASSUME NEW e \in EntryValues
    PROVE  /\ Sorted(e) \in EntryValues
           /\ Sorted(e).time = e.time
           /\ ~opts.noSorting => Ordered(Sorted(e).fields)
<1> DEFINE s == e.fields
           n == Len(s)
           Eq(f) == f = [i \in 0..n |-> IF i = 0 THEN <<>> ELSE Inserted(f[i - 1], s[i])]
           sorted == CHOOSE f : Eq(f)
<1>1. s \in Seq(Fields) /\ n \in Nat /\ \A i \in 1..n : s[i] \in Fields /\ i - 1 \in 0..n
  BY DEF EntryValues
<1>2. PICK h \in [0..Len(s) -> OrderedFields] : Follows(h, InsertTable, <<>>, s)
  <2> HIDE DEF s
  <2> QED
    BY <1>1, InsertTableTyped, FoldExists, Zenon
<1>3. /\ h[0] = <<>>
      /\ \A i \in 1..n : h[i - 1] \in OrderedFields /\ h[i] = Inserted(h[i - 1], s[i])
  <2>1. h[0] = <<>> /\ \A i \in 1..n : h[i] = Meet(InsertTable, h[i - 1], s[i])
    BY <1>2, Zenon DEF Follows
  <2>2. \A i \in 1..n : h[i - 1] \in OrderedFields
    BY <1>1, <1>2
  <2> QED
    BY <1>1, <2>1, <2>2, InsertTableTyped, Zenon
<1>4. Eq(h)
  <2>1. \A i \in 0..n : i # 0 => i \in 1..n
    BY <1>1
  <2>2. \A i \in 0..n : h[i] = IF i = 0 THEN <<>> ELSE Inserted(h[i - 1], s[i])
    BY <1>3, <2>1, Zenon
  <2> QED
    BY <1>2, <2>2
<1>5. Eq(sorted)
  BY <1>4
<1>6. Sorted(e) = IF opts.noSorting THEN e ELSE [e EXCEPT !.fields = sorted[n]]
  BY DEF Sorted
<1> HIDE DEF sorted
<1>7. /\ sorted[0] = <<>>
      /\ \A i \in 1..n : sorted[i] = Inserted(sorted[i - 1], s[i])
  BY <1>1, <1>5
<1>8. sorted[n] = h[n]
  <2> HIDE DEF n, s
  <2>1. Alike(sorted, h, n)
    BY <1>3, <1>7, Zenon DEF Alike
  <2> QED
    BY <1>1, <2>1, Agree
<1>9. sorted[n] \in OrderedFields
  BY <1>1, <1>2, <1>8
<1>10. sorted[n] \in Seq(Fields) /\ Ordered(sorted[n])
  BY <1>9 DEF OrderedFields
<1> HIDE DEF s, n
<1>11. CASE opts.noSorting
  BY <1>6, <1>11
<1>12. CASE ~opts.noSorting
  BY <1>6, <1>10, <1>12 DEF EntryValues
<1> QED
  BY <1>11, <1>12

--------------------------------------------------------------------------------
(* The fields of a request.                                                 *)

Names ==
    {"remote_host", "remote_user", "method", "path", "protocol", "status_code",
     "response_size", "referer", "user_agent", "request_line", "duration"}

LEMMA KeyOfName ==
    ASSUME NEW name \in Names
    PROVE  KeyOf(name) \in DOMAIN Keys /\ Keys[KeyOf(name)] = <<name>>
<1>1. \E k \in DOMAIN Keys : Keys[k] = <<name>>
  BY AccessAssumption DEF Names
<1> QED
  BY <1>1 DEF KeyOf

LEMMA RequestFieldTypes ==
    /\ \A name \in Names, s \in Text : StringField(name, s) \in Fields
    /\ \A name \in Names, n \in DOMAIN Numeral : IntField(name, n) \in Fields
    /\ DurationField \in Fields
<1>1. 0 \in DOMAIN Numeral /\ \A n \in DOMAIN Numeral : Numeral[n] \in Char
  BY FormattersAssumption
<1>a. "d" \in Char
  BY FormattersAssumption DEF Letters
<1>2. ASSUME NEW name \in Names, NEW s \in Text PROVE StringField(name, s) \in Fields
  <2>1. KeyOf(name) \in DOMAIN Keys
    BY KeyOfName
  <2> HIDE DEF KeyOf
  <2> QED
    BY <1>1, <2>1 DEF StringField, Fields
<1>3. ASSUME NEW name \in Names, NEW n \in DOMAIN Numeral PROVE IntField(name, n) \in Fields
  <2>1. KeyOf(name) \in DOMAIN Keys
    BY KeyOfName
  <2>2. <<Numeral[n]>> \in Text
    BY <1>1 DEF Text
  <2> QED
    BY <1>1, <2>1, <2>2 DEF IntField, Fields
<1>4. DurationField \in Fields
  <2>1. KeyOf("duration") \in DOMAIN Keys
    BY KeyOfName DEF Names
  <2> DEFINE d == <<"d">>
  <2>2. d \in Text /\ \A i \in DOMAIN d : d[i] \notin Special
    <3>1. d \in Seq(Char) /\ d[1] = "d" /\ Len(d) = 1
      BY <1>a
    <3>2. DOMAIN d = {1}
      OBVIOUS
    <3> HIDE DEF d
    <3> QED
      BY <3>1, <3>2 DEF Text, Special
  <2> HIDE DEF d
  <2>3. DurationField = [key |-> KeyOf("duration"), type |-> "time", text |-> d, int |-> 0,
                         sensitive |-> FALSE]
    BY DEF DurationField, d
  <2> QED
    BY <1>1, <2>1, <2>2, <2>3 DEF Fields
<1> QED
  BY <1>2, <1>3, <1>4

\* Where the fields of a request lie, for any set S that has each of them.
LEMMA RequestFields ==
    ASSUME NEW S,
           StringField("remote_host", request.host) \in S,
           StringField("remote_user", request.user) \in S,
           StringField("method", request.method) \in S,
           StringField("path", request.path) \in S,
           StringField("protocol", request.proto) \in S,
           IntField("status_code", statusCode) \in S,
           IntField("response_size", responseSize) \in S,
           StringField("referer", request.referer) \in S,
           StringField("user_agent", request.agent) \in S,
           StringField("request_line",
                       Words(request.method, Words(request.path, request.proto))) \in S,
           DurationField \in S
    PROVE  LogRequest \in Seq(S) /\ Append(LogRequest, DurationField) \in Seq(S)
<1>1. <<>> \in Seq(S) /\ \A f \in S : <<f>> \in Seq(S)
  OBVIOUS
<1>2. \A f, g, h \in S : <<f, g, h>> \in Seq(S)
  OBVIOUS
<1>3. \A s, t \in Seq(S) : s \o t \in Seq(S)
  BY ConcatProperties
<1> DEFINE a == Optional("remote_host", request.host)
           b == IF request.url THEN Optional("remote_user", request.user) ELSE <<>>
           c == <<StringField("method", request.method)>>
           d == IF request.url THEN <<StringField("path", request.path)>> ELSE <<>>
           e == <<StringField("protocol", request.proto),
                  IntField("status_code", statusCode),
                  IntField("response_size", responseSize)>>
           f == Optional("referer", request.referer)
           g == Optional("user_agent", request.agent)
           h == IF request.url
                THEN <<StringField("request_line",
                         Words(request.method, Words(request.path, request.proto)))>>
                ELSE <<>>
<1>4. a \in Seq(S) /\ b \in Seq(S) /\ f \in Seq(S) /\ g \in Seq(S)
  BY <1>1, Zenon DEF Optional
<1>5. c \in Seq(S) /\ d \in Seq(S) /\ e \in Seq(S) /\ h \in Seq(S)
  BY <1>1, <1>2, Zenon
<1>6. LogRequest = a \o b \o c \o d \o e \o f \o g \o h
  BY Zenon DEF LogRequest
<1> HIDE DEF a, b, c, d, e, f, g, h
<1>7. LogRequest \in Seq(S)
  BY <1>3, <1>4, <1>5, <1>6, Zenon
<1>8. Append(LogRequest, DurationField) \in Seq(S)
  BY <1>7, AppendProperties
<1> QED
  BY <1>7, <1>8

--------------------------------------------------------------------------------
(* The invariant.                                                           *)

EntryTypes ==
    /\ entry \in EntryValues /\ opts \in OptionValues
    /\ format \in {"none", "json", "logfmt", "text", "clf"}

\* What the caches have is what formatting gives.
CacheInv ==
    /\ DOMAIN timeCache = {t.ms : t \in Times}
    /\ DOMAIN clfCache = {Second(t) : t \in Times}
    /\ \A t \in Times : timeCache[t.ms] \in {<<>>, TimeText(t)}
    /\ \A t \in Times : clfCache[Second(t)] \in {<<>>, CLFTimeText(t)}

\* What was written is what the formatter makes of the entry.
LineInv ==
    /\ format = "json" => line = JSONLine(entry)
    /\ format = "logfmt" =>
          line = LogfmtLine(entry) /\ (~opts.noSorting => Ordered(entry.fields))
    /\ format = "text" => line = TextLine(entry)
    /\ format = "clf" => line = CLFLine

ResponseTypes ==
    /\ phase \in {"client", "serving", "logged", "panicked"}
    /\ request \in Requests
    /\ statusCode \in DOMAIN Numeral /\ statusCode \in Nat \ {0}
    /\ handled \in 0..MaxHandlerCalls
    /\ responseSize \in 0..(MaxBytes * handled)

\* The middleware knows what net/http has sent, unless it ignored a status, and the
\* entry has what it knows.
ResponseInv ==
    /\ responseSize = sentBytes
    /\ ignored = {} => statusCode = IF sentStatus = 0 THEN 200 ELSE sentStatus
    /\ phase = "logged" => sentStatus # 0 /\ level = LevelOf(statusCode)
    /\ phase = "logged" /\ format \in {"none", "clf"} =>
          entry.fields = Append(LogRequest, DurationField)
    /\ phase = "serving" => format = "none"

Inv == EntryTypes /\ CacheInv /\ LineInv /\ ResponseTypes /\ ResponseInv

LEMMA RequestFieldsTyped ==
    ASSUME ResponseTypes
    PROVE  /\ StringField("remote_host", request.host) \in Fields
           /\ StringField("remote_user", request.user) \in Fields
           /\ StringField("method", request.method) \in Fields
           /\ StringField("path", request.path) \in Fields
           /\ StringField("protocol", request.proto) \in Fields
           /\ StringField("referer", request.referer) \in Fields
           /\ StringField("user_agent", request.agent) \in Fields
           /\ IntField("status_code", statusCode) \in Fields
           /\ IntField("response_size", responseSize) \in Fields
           /\ StringField("request_line",
                 Words(request.method, Words(request.path, request.proto))) \in Fields
           /\ DurationField \in Fields
<1>1. /\ request.host \in Text /\ request.user \in Text /\ request.method \in Text
      /\ request.path \in Text /\ request.proto \in Text /\ request.referer \in Text
      /\ request.agent \in Text
  BY AccessAssumption DEF ResponseTypes
<1>2. Words(request.method, Words(request.path, request.proto)) \in Text
  <2>1. <<" ">> \in Text
    BY Texts DEF Special
  <2> QED
    BY <1>1, <2>1, Texts, Zenon DEF Words
<1>3. statusCode \in DOMAIN Numeral /\ responseSize \in DOMAIN Numeral
  <2>1. MaxBytes \in Nat /\ MaxHandlerCalls \in Nat /\ handled \in Nat /\ handled <= MaxHandlerCalls
    BY AccessAssumption DEF ResponseTypes
  <2>2. MaxBytes * handled <= MaxBytes * MaxHandlerCalls /\ MaxBytes * MaxHandlerCalls \in Nat
        /\ MaxBytes * handled \in Nat
    BY <2>1
  <2>3. responseSize \in 0..(MaxBytes * MaxHandlerCalls)
    BY <2>2 DEF ResponseTypes
  <2> QED
    BY <2>3, AccessAssumption DEF ResponseTypes
<1>4. /\ \A name \in Names, s \in Text : StringField(name, s) \in Fields
      /\ \A name \in Names, n \in DOMAIN Numeral : IntField(name, n) \in Fields
      /\ DurationField \in Fields
  BY RequestFieldTypes
<1>5. /\ StringField("remote_host", request.host) \in Fields
      /\ StringField("remote_user", request.user) \in Fields
      /\ StringField("method", request.method) \in Fields
      /\ StringField("path", request.path) \in Fields
      /\ StringField("protocol", request.proto) \in Fields
      /\ StringField("referer", request.referer) \in Fields
      /\ StringField("user_agent", request.agent) \in Fields
  BY <1>1, <1>4 DEF Names
<1>6. /\ IntField("status_code", statusCode) \in Fields
      /\ IntField("response_size", responseSize) \in Fields
  BY <1>3, <1>4 DEF Names
<1>7. StringField("request_line",
                  Words(request.method, Words(request.path, request.proto))) \in Fields
  BY <1>2, <1>4 DEF Names
<1> QED
  BY <1>4, <1>5, <1>6, <1>7, Zenon

LEMMA RequestTypes ==
    ASSUME ResponseTypes
    PROVE  LogRequest \in Seq(Fields) /\ Append(LogRequest, DurationField) \in Seq(Fields)
BY RequestFieldsTyped, RequestFields, Zenon

LEMMA TimesCached ==
    ASSUME CacheInv, entry \in EntryValues
    PROVE  /\ CachedTime(entry.time) = TimeText(entry.time)
           /\ CachedCLFTime(entry.time) = CLFTimeText(entry.time)
<1>1. entry.time \in Times
  BY DEF EntryValues
<1> QED
  BY <1>1 DEF CacheInv, CachedTime, CachedCLFTime

LEMMA InvInitially == AccessInit => Inv
<1> SUFFICES ASSUME AccessInit PROVE Inv
  OBVIOUS
<1> USE DEF AccessInit, Init
<1>1. EntryTypes
  <2>1. CASE phase = "client"
    <3>1. entry \in Entries /\ opts \in Options /\ format = "none"
      BY <2>1
    <3> QED
      BY <3>1, FormattersAssumption DEF EntryTypes, EntryValues
  <2>2. CASE phase = "serving"
    <3>1. entry = NoEntry /\ opts \in ServedOptions /\ format = "none"
      BY <2>2
    <3>2. NoEntry \in EntryValues
      <4>1. (CHOOSE t \in Times : TRUE) \in Times
        BY AccessAssumption
      <4>2. <<"HTTP Request">> \in Text
        BY Texts DEF Letters
      <4>3. <<>> \in Seq(Fields)
        BY EmptySeq
      <4> QED
        BY <4>1, <4>2, <4>3 DEF NoEntry, EntryValues
    <3> QED
      BY <3>1, <3>2, AccessAssumption DEF EntryTypes
  <2> QED
    BY <2>1, <2>2
<1>2. CacheInv
  BY DEF NoCache, CacheInv
<1>3. LineInv
  BY DEF LineInv
<1>4. ResponseTypes
  <2>1. request \in Requests
    BY AccessAssumption
  <2>2. 200 \in DOMAIN Numeral /\ MaxBytes \in Nat /\ MaxHandlerCalls \in Nat
    BY FormattersAssumption, AccessAssumption
  <2>3. MaxBytes * 0 = 0
    BY <2>2
  <2> QED
    BY <2>1, <2>2, <2>3 DEF ResponseTypes
<1>5. ResponseInv
  BY DEF ResponseInv
<1> QED
  BY <1>1, <1>2, <1>3, <1>4, <1>5 DEF Inv

\* A line stays what the formatter makes of the entry while entry and options stay,
\* as long as formatting the time gives the same.
LEMMA LinesStay ==
    ASSUME opts' = opts, NEW e, entry' = e, CachedTime(entry.time)' = CachedTime(e.time)
    PROVE  /\ JSONLine(entry)' = JSONLine(e)
           /\ LogfmtLine(entry)' = LogfmtLine(e)
           /\ TextLine(entry)' = TextLine(e)
<1>1. JSONLine(entry)' = JSONLine(e)
  BY DEF JSONLine, JSONValue, Truncated, Rest, Newline
<1>2. LogfmtLine(entry)' = LogfmtLine(e)
  BY DEF LogfmtLine, LogfmtValue, LogfmtQuoted, Truncated, Rest, Newline
<1>3. TextLine(entry)' = TextLine(e)
  BY DEF TextLine, TextField, TextValue, LogfmtQuoted, Truncated, Rest, Newline
<1> QED
  BY <1>1, <1>2, <1>3

LEMMA CLFLineStays ==
    ASSUME opts' = opts, entry' = entry,
           CachedCLFTime(entry.time)' = CachedCLFTime(entry.time)
    PROVE  CLFLine' = CLFLine
BY DEF CLFLine, RequestLine, StatusText, SizeText, PickString, PickInteger, Newline

LEMMA LineInvStays ==
    ASSUME LineInv, UNCHANGED vars
    PROVE  LineInv'
<1>1. /\ entry' = entry /\ opts' = opts /\ format' = format /\ line' = line
      /\ timeCache' = timeCache /\ clfCache' = clfCache
  BY DEF vars
<1>2. CachedTime(entry.time)' = CachedTime(entry.time)
  BY <1>1 DEF CachedTime
<1>3. CachedCLFTime(entry.time)' = CachedCLFTime(entry.time)
  BY <1>1 DEF CachedCLFTime
<1>4. /\ JSONLine(entry)' = JSONLine(entry)
      /\ LogfmtLine(entry)' = LogfmtLine(entry)
      /\ TextLine(entry)' = TextLine(entry)
  BY <1>1, <1>2, LinesStay
<1>5. CLFLine' = CLFLine
  BY <1>1, <1>3, CLFLineStays
<1> QED
  BY <1>1, <1>4, <1>5 DEF LineInv, Ordered

\* A time is formatted as before once it has been cached.
LEMMA CachingKeeps ==
    ASSUME CacheInv, EntryTypes, CacheTime, opts' = opts, clfCache' = clfCache
    PROVE  CacheInv'
<1>1. entry.time \in Times /\ CachedTime(entry.time) = TimeText(entry.time)
  BY TimesCached DEF EntryTypes, EntryValues
<1>2. CASE opts.noTimestamp
  BY <1>2 DEF CacheTime, CacheInv
<1>3. CASE ~opts.noTimestamp
  <2>1. timeCache' = [timeCache EXCEPT ![entry.time.ms] = TimeText(entry.time)]
    BY <1>1, <1>3 DEF CacheTime
  <2>2. DOMAIN timeCache' = {t.ms : t \in Times}
    BY <2>1 DEF CacheInv
  <2>3. ASSUME NEW t \in Times PROVE timeCache'[t.ms] \in {<<>>, TimeText(t)}
    <3>1. t.ms \in DOMAIN timeCache /\ timeCache[t.ms] \in {<<>>, TimeText(t)}
      BY DEF CacheInv
    <3>2. CASE t.ms = entry.time.ms
      <4>1. timeCache'[t.ms] = TimeText(entry.time)
        BY <2>1, <3>1, <3>2
      <4> QED
        BY <3>2, <4>1 DEF TimeText
    <3>3. CASE t.ms # entry.time.ms
      BY <2>1, <3>1, <3>3
    <3> QED
      BY <3>2, <3>3
  <2> QED
    BY <2>2, <2>3 DEF CacheInv
<1> QED
  BY <1>2, <1>3

LEMMA FormatSteps ==
    ASSUME EntryTypes, CacheInv, LineInv, Next
    PROVE  EntryTypes' /\ CacheInv' /\ LineInv'
<1> USE DEF EntryTypes
<1>a. /\ CachedTime(entry.time) = TimeText(entry.time)
      /\ CachedCLFTime(entry.time) = CLFTimeText(entry.time)
  BY TimesCached
<1>b. CacheInv' /\ (entry \in EntryValues)' => CachedTime(entry.time)' = TimeText(entry.time)'
  BY DEF CacheInv, CachedTime, EntryValues
<1>c. CacheInv' /\ (entry \in EntryValues)' => CachedCLFTime(entry.time)' = CLFTimeText(entry.time)'
  BY DEF CacheInv, CachedCLFTime, EntryValues
<1>1. CASE FormatJSON
  <2>1. /\ entry' = entry /\ opts' = opts /\ clfCache' = clfCache /\ CacheTime
        /\ line' = JSONLine(entry) /\ format' = "json"
    BY <1>1 DEF FormatJSON
  <2>2. EntryTypes'
    BY <2>1
  <2>3. CacheInv'
    BY <2>1, CachingKeeps
  <2>4. CachedTime(entry.time)' = CachedTime(entry.time)
    BY <1>a, <1>b, <2>1, <2>2, <2>3 DEF TimeText
  <2>5. JSONLine(entry)' = JSONLine(entry)
    BY <2>1, <2>4, LinesStay
  <2> QED
    BY <2>1, <2>2, <2>3, <2>5 DEF LineInv
<1>2. CASE FormatLogfmt
  <2>1. /\ entry' = Sorted(entry) /\ opts' = opts /\ clfCache' = clfCache /\ CacheTime
        /\ line' = LogfmtLine(Sorted(entry)) /\ format' = "logfmt"
    BY <1>2 DEF FormatLogfmt
  <2>2. /\ Sorted(entry) \in EntryValues /\ Sorted(entry).time = entry.time
        /\ ~opts.noSorting => Ordered(Sorted(entry).fields)
    BY SortedOrdered
  <2>3. EntryTypes'
    BY <2>1, <2>2
  <2>4. CacheInv'
    BY <2>1, CachingKeeps
  <2>5. CachedTime(entry.time)' = CachedTime(Sorted(entry).time)
    BY <1>a, <1>b, <2>1, <2>2, <2>3, <2>4 DEF TimeText
  <2>6. LogfmtLine(entry)' = LogfmtLine(Sorted(entry))
    BY <2>1, <2>5, LinesStay
  <2>7. (~opts.noSorting => Ordered(entry.fields))'
    BY <2>1, <2>2 DEF Ordered
  <2> QED
    BY <2>1, <2>3, <2>4, <2>6, <2>7 DEF LineInv
<1>3. CASE FormatText
  <2>1. /\ entry' = Sorted(entry) /\ opts' = opts /\ clfCache' = clfCache /\ CacheTime
        /\ line' = TextLine(Sorted(entry)) /\ format' = "text"
    BY <1>3 DEF FormatText
  <2>2. /\ Sorted(entry) \in EntryValues /\ Sorted(entry).time = entry.time
        /\ ~opts.noSorting => Ordered(Sorted(entry).fields)
    BY SortedOrdered
  <2>3. EntryTypes'
    BY <2>1, <2>2
  <2>4. CacheInv'
    BY <2>1, CachingKeeps
  <2>5. CachedTime(entry.time)' = CachedTime(Sorted(entry).time)
    BY <1>a, <1>b, <2>1, <2>2, <2>3, <2>4 DEF TimeText
  <2>6. TextLine(entry)' = TextLine(Sorted(entry))
    BY <2>1, <2>5, LinesStay
  <2> QED
    BY <2>1, <2>3, <2>4, <2>6 DEF LineInv
<1>4. CASE FormatCLF
  <2>1. /\ entry' = entry /\ opts' = opts /\ timeCache' = timeCache
        /\ clfCache' = [clfCache EXCEPT ![Second(entry.time)] = CachedCLFTime(entry.time)]
        /\ line' = CLFLine /\ format' = "clf"
    BY <1>4 DEF FormatCLF
  <2>2. EntryTypes' /\ entry.time \in Times
    BY <2>1 DEF EntryValues
  <2>3. CacheInv'
    <3>1. DOMAIN clfCache' = {Second(t) : t \in Times}
      BY <2>1 DEF CacheInv
    <3>2. ASSUME NEW t \in Times PROVE clfCache'[Second(t)] \in {<<>>, CLFTimeText(t)}
      <4>1. Second(t) \in DOMAIN clfCache /\ clfCache[Second(t)] \in {<<>>, CLFTimeText(t)}
        BY DEF CacheInv
      <4>2. CASE Second(t) = Second(entry.time)
        <5>1. clfCache'[Second(t)] = CLFTimeText(entry.time)
          BY <1>a, <2>1, <4>1, <4>2
        <5> QED
          BY <4>2, <5>1 DEF CLFTimeText
      <4>3. CASE Second(t) # Second(entry.time)
        BY <2>1, <4>1, <4>3
      <4> QED
        BY <4>2, <4>3
    <3>3. \A t \in Times : timeCache'[t.ms] \in {<<>>, TimeText(t)}
      BY <2>1 DEF CacheInv
    <3>4. DOMAIN timeCache' = {t.ms : t \in Times}
      BY <2>1 DEF CacheInv
    <3> QED
      BY <3>1, <3>2, <3>3, <3>4 DEF CacheInv
  <2>4. CachedCLFTime(entry.time)' = CachedCLFTime(entry.time)
    BY <1>a, <1>c, <2>1, <2>2, <2>3 DEF CLFTimeText, Second
  <2>5. CLFLine' = CLFLine
    BY <2>1, <2>4, CLFLineStays
  <2> QED
    BY <2>1, <2>2, <2>3, <2>5 DEF LineInv
<1>5. CASE NextEntry
  <2>1. PICK t \in Times : entry' = [entry EXCEPT !.time = t]
    BY <1>5 DEF NextEntry
  <2>2. /\ opts' = opts /\ timeCache' = timeCache /\ clfCache' = clfCache
        /\ format' = "none"
    BY <1>5 DEF NextEntry
  <2>3. EntryTypes'
    BY <2>1, <2>2 DEF EntryValues
  <2>4. CacheInv'
    BY <2>2 DEF CacheInv
  <2> QED
    BY <2>2, <2>3, <2>4 DEF LineInv
<1> QED
  BY <1>1, <1>2, <1>3, <1>4, <1>5 DEF Next

LEMMA ResponseSteps ==
    ASSUME Inv, AccessNext
    PROVE  Inv'
<1> USE DEF Inv
<1>1. ASSUME NEW code \in Statuses, WriteHeader(code) PROVE Inv'
  <2>1. UNCHANGED vars /\ phase' = phase /\ request' = request /\ level' = level
        /\ handled' = handled + 1 /\ phase = "serving" /\ handled < MaxHandlerCalls
    BY <1>1 DEF WriteHeader, HandlerCall
  <2>2. statusCode' = code /\ responseSize' = responseSize /\ sentBytes' = sentBytes
    BY <1>1 DEF WriteHeader
  <2>3. EntryTypes' /\ CacheInv' /\ LineInv'
    BY <2>1, LineInvStays DEF EntryTypes, CacheInv, vars
  <2>4. ResponseTypes'
    <3>1. code \in DOMAIN Numeral /\ code \in Nat \ {0} /\ MaxBytes \in Nat
          /\ MaxHandlerCalls \in Nat
      BY AccessAssumption
    <3>2. handled \in Nat /\ responseSize \in 0..(MaxBytes * handled)
      BY <3>1 DEF ResponseTypes
    <3>3. MaxBytes * (handled + 1) = MaxBytes * handled + MaxBytes
      BY <3>1, <3>2
    <3>4. handled' \in 0..MaxHandlerCalls
      BY <2>1, <3>1, <3>2
    <3>5. responseSize' \in 0..(MaxBytes * handled')
      BY <2>1, <2>2, <3>1, <3>2, <3>3
    <3> QED
      BY <2>1, <2>2, <3>1, <3>4, <3>5 DEF ResponseTypes
  <2>5. ResponseInv'
    <3>1. IF sentStatus = 0 /\ (code >= 200 \/ code = 101)
          THEN sentStatus' = code /\ ignored' = ignored
          ELSE ignored' = ignored \cup {code} /\ sentStatus' = sentStatus
      BY <1>1 DEF WriteHeader, IsFinal
    <3>2. ignored' = {} => statusCode' = IF sentStatus' = 0 THEN 200 ELSE sentStatus'
      BY <2>2, <3>1, AccessAssumption
    <3>3. format' = format
      BY <2>1 DEF vars
    <3> QED
      BY <2>1, <2>2, <3>2, <3>3 DEF ResponseInv
  <2> QED
    BY <2>3, <2>4, <2>5
<1>2. ASSUME NEW n \in 1..MaxBytes, NEW size \in 0..n, Write(n, size) PROVE Inv'
  <2>1. UNCHANGED vars /\ phase' = phase /\ request' = request /\ level' = level
        /\ handled' = handled + 1 /\ phase = "serving" /\ handled < MaxHandlerCalls
    BY <1>2 DEF Write, HandlerCall
  <2>2. /\ statusCode' = statusCode /\ ignored' = ignored
        /\ responseSize' = responseSize + size /\ sentBytes' = sentBytes + size
        /\ sentStatus' = IF sentStatus = 0 THEN 200 ELSE sentStatus
    BY <1>2 DEF Write, Counted
  <2>3. EntryTypes' /\ CacheInv' /\ LineInv'
    BY <2>1, LineInvStays DEF EntryTypes, CacheInv, vars
  <2>4. ResponseTypes'
    <3>1. MaxBytes \in Nat /\ MaxHandlerCalls \in Nat
      BY AccessAssumption
    <3>2. handled \in Nat /\ responseSize \in 0..(MaxBytes * handled)
      BY <3>1 DEF ResponseTypes
    <3>3. MaxBytes * (handled + 1) = MaxBytes * handled + MaxBytes
      BY <3>1, <3>2
    <3>4. handled' \in 0..MaxHandlerCalls
      BY <2>1, <3>1, <3>2
    <3>5. size \in Nat /\ size <= MaxBytes /\ MaxBytes * handled \in Nat
      BY <3>1, <3>2
    <3>6. responseSize + size \in 0..(MaxBytes * handled + MaxBytes)
      <4> DEFINE m == MaxBytes * handled
      <4> HIDE DEF m
      <4>1. m \in Nat /\ responseSize \in 0..m
        BY <3>2, <3>5 DEF m
      <4>2. responseSize + size \in 0..(m + MaxBytes)
        BY <3>1, <3>5, <4>1
      <4> QED
        BY <4>2 DEF m
    <3> QED
      BY <2>1, <2>2, <3>3, <3>4, <3>6 DEF ResponseTypes
  <2>5. ResponseInv'
    <3>1. format' = format
      BY <2>1 DEF vars
    <3> QED
      BY <2>1, <2>2, <3>1 DEF ResponseInv
  <2> QED
    BY <2>3, <2>4, <2>5
<1>3. CASE HandlerReturns
  <2>1. PICK t \in Times :
          entry' = [entry EXCEPT !.time = t, !.fields = Append(LogRequest, DurationField)]
    BY <1>3 DEF HandlerReturns
  <2>2. /\ phase = "serving" /\ phase' = "logged" /\ level' = LevelOf(statusCode)
        /\ sentStatus' = IF sentStatus = 0 THEN 200 ELSE sentStatus
        /\ opts' = opts /\ timeCache' = timeCache /\ clfCache' = clfCache
        /\ format' = format /\ line' = line /\ request' = request
        /\ statusCode' = statusCode /\ responseSize' = responseSize
        /\ sentBytes' = sentBytes /\ handled' = handled /\ ignored' = ignored
    BY <1>3 DEF HandlerReturns
  <2>3. EntryTypes'
    <3>1. Append(LogRequest, DurationField) \in Seq(Fields)
      BY RequestTypes
    <3> QED
      BY <2>1, <2>2, <3>1 DEF EntryTypes, EntryValues
  <2>4. CacheInv'
    BY <2>2 DEF CacheInv
  <2>5. LineInv'
    BY <2>2 DEF LineInv, ResponseInv
  <2>6. ResponseTypes'
    BY <2>2 DEF ResponseTypes
  <2>7. ResponseInv'
    <3>1. LogRequest' = LogRequest /\ DurationField' = DurationField
      BY <2>2 DEF LogRequest, IntField, StringField, DurationField, Optional, Words, KeyOf
    <3>2. entry'.fields = Append(LogRequest, DurationField)
      BY <2>1 DEF EntryTypes, EntryValues
    <3>3. LevelOf(statusCode)' = LevelOf(statusCode)
      BY <2>2 DEF LevelOf
    <3> QED
      BY <2>2, <3>1, <3>2, <3>3 DEF ResponseInv
  <2> QED
    BY <2>3, <2>4, <2>5, <2>6, <2>7
<1>4. CASE HandlerPanics
  <2>1. UNCHANGED vars /\ UNCHANGED <<request, responseVars, level>> /\ phase' = "panicked"
    BY <1>4 DEF HandlerPanics
  <2>2. EntryTypes' /\ CacheInv' /\ LineInv'
    BY <2>1, LineInvStays DEF EntryTypes, CacheInv, vars
  <2>3. ResponseTypes' /\ ResponseInv'
    BY <2>1 DEF ResponseTypes, ResponseInv, responseVars
  <2> QED
    BY <2>2, <2>3
<1>5. CASE Format
  <2>1. UNCHANGED accessVars /\ Next
    BY <1>5 DEF Format, Next
  <2>2. EntryTypes' /\ CacheInv' /\ LineInv'
    BY <2>1, FormatSteps
  <2>3. /\ phase' = phase /\ request' = request /\ statusCode' = statusCode
        /\ responseSize' = responseSize /\ sentStatus' = sentStatus
        /\ sentBytes' = sentBytes /\ level' = level /\ handled' = handled
        /\ ignored' = ignored
    BY <2>1 DEF accessVars, responseVars
  <2>4. ResponseTypes'
    BY <2>3 DEF ResponseTypes
  <2>5. phase # "serving"
    BY <1>5 DEF Format
  <2>6. phase = "logged" /\ format' \in {"none", "clf"} => FormatCLF /\ format = "none"
    BY <1>5 DEF Format, FormatJSON, FormatLogfmt, FormatText, FormatCLF
  <2>7. phase = "logged" /\ format' \in {"none", "clf"} =>
          entry'.fields = Append(LogRequest, DurationField)
    BY <2>6 DEF FormatCLF, ResponseInv
  <2>8. /\ LogRequest' = LogRequest /\ DurationField' = DurationField
        /\ LevelOf(statusCode)' = LevelOf(statusCode)
    BY <2>3 DEF LogRequest, IntField, StringField, DurationField, Optional, Words, KeyOf, LevelOf
  <2>9. ResponseInv'
    BY <2>3, <2>5, <2>7, <2>8 DEF ResponseInv
  <2> QED
    BY <2>2, <2>4, <2>9
<1> QED
  BY <1>1, <1>2, <1>3, <1>4, <1>5 DEF AccessNext

LEMMA InvInductive == Inv /\ [AccessNext]_allVars => Inv'
<1> SUFFICES ASSUME Inv, [AccessNext]_allVars PROVE Inv'
  OBVIOUS
<1>1. CASE AccessNext
  BY <1>1, ResponseSteps
<1>2. CASE UNCHANGED allVars
  <2>1. /\ UNCHANGED vars /\ phase' = phase /\ request' = request
        /\ statusCode' = statusCode
        /\ responseSize' = responseSize /\ sentStatus' = sentStatus
        /\ sentBytes' = sentBytes /\ level' = level /\ handled' = handled
        /\ ignored' = ignored
    BY <1>2 DEF allVars, accessVars, responseVars
  <2>2. EntryTypes' /\ CacheInv' /\ LineInv'
    BY <2>1, LineInvStays DEF Inv, EntryTypes, CacheInv, vars
  <2>3. /\ LogRequest' = LogRequest /\ DurationField' = DurationField
        /\ LevelOf(statusCode)' = LevelOf(statusCode)
    BY <2>1 DEF LogRequest, IntField, StringField, DurationField, Optional, Words, KeyOf, LevelOf
  <2>4. entry' = entry /\ format' = format
    BY <2>1 DEF vars
  <2>5. ResponseTypes' /\ ResponseInv'
    BY <2>1, <2>3, <2>4 DEF Inv, ResponseTypes, ResponseInv
  <2> QED
    BY <2>2, <2>5 DEF Inv
<1> QED
  BY <1>1, <1>2

THEOREM InvTheorem == AccessSpec => []Inv
<1> QED
  BY InvInitially, InvInductive, PTL DEF AccessSpec

--------------------------------------------------------------------------------
(* Secrets.                                                                 *)

LEMMA BlankedParts ==
    ASSUME NEW e \in EntryValues
    PROVE  LET b == Blanked(e) IN
           /\ b.time = e.time /\ b.message = e.message /\ b.caller = e.caller
           /\ b.leveled = e.leveled
           /\ DOMAIN b.fields = DOMAIN e.fields
           /\ \A i \in DOMAIN e.fields :
                /\ b.fields[i].key = e.fields[i].key
                /\ b.fields[i].sensitive = e.fields[i].sensitive
                /\ ~e.fields[i].sensitive => b.fields[i] = e.fields[i]
<1> DEFINE b == Blanked(e)
<1>1. /\ b.time = e.time /\ b.message = e.message /\ b.caller = e.caller
      /\ b.leveled = e.leveled
      /\ b.fields = [i \in DOMAIN e.fields |->
            IF ~e.fields[i].sensitive THEN e.fields[i]
            ELSE [e.fields[i] EXCEPT !.type = "unknown", !.text = <<>>, !.int = 0]]
  BY DEF Blanked, EntryValues
<1>2. ASSUME NEW i \in DOMAIN e.fields
      PROVE  /\ b.fields[i].key = e.fields[i].key
             /\ b.fields[i].sensitive = e.fields[i].sensitive
             /\ ~e.fields[i].sensitive => b.fields[i] = e.fields[i]
  <2>1. e.fields[i] \in Fields
    BY DEF EntryValues
  <2>2. b.fields[i] = IF ~e.fields[i].sensitive THEN e.fields[i]
                      ELSE [e.fields[i] EXCEPT !.type = "unknown", !.text = <<>>, !.int = 0]
    BY <1>1
  <2> HIDE DEF b
  <2> QED
    BY <2>1, <2>2 DEF Fields
<1> QED
  BY <1>1, <1>2

\* A sensitive value has no part in a line.
LEMMA LinesBlanked ==
    ASSUME NEW e \in EntryValues
    PROVE  /\ JSONLine(Blanked(e)) = JSONLine(e)
           /\ LogfmtLine(Blanked(e)) = LogfmtLine(e)
           /\ TextLine(Blanked(e)) = TextLine(e)
<1> DEFINE b == Blanked(e)
           D == DOMAIN e.fields
<1>1. /\ b.time = e.time /\ b.message = e.message /\ b.caller = e.caller
      /\ b.leveled = e.leveled
      /\ DOMAIN b.fields = D
      /\ \A i \in D : /\ b.fields[i].key = e.fields[i].key
                      /\ b.fields[i].sensitive = e.fields[i].sensitive
                      /\ ~e.fields[i].sensitive => b.fields[i] = e.fields[i]
  BY BlankedParts
<1> HIDE DEF b, D
<1>2. ASSUME NEW i \in D
      PROVE  /\ JSONValue(b.fields[i]) = JSONValue(e.fields[i])
             /\ LogfmtValue(b.fields[i]) = LogfmtValue(e.fields[i])
             /\ TextValue(b.fields[i]) = TextValue(e.fields[i])
  <2>1. CASE e.fields[i].sensitive
    <3>1. b.fields[i].sensitive /\ e.fields[i].sensitive
      BY <1>1, <2>1
    <3>2. JSONValue(b.fields[i]) = Quoted(RedactedValue) /\ JSONValue(e.fields[i]) = Quoted(RedactedValue)
      BY <3>1 DEF JSONValue, Redacted
    <3>3. LogfmtValue(b.fields[i]) = LogfmtQuoted(RedactedValue) /\ LogfmtValue(e.fields[i]) = LogfmtQuoted(RedactedValue)
      BY <3>1 DEF LogfmtValue, Redacted
    <3>4. TextValue(b.fields[i]) = LogfmtQuoted(RedactedValue) /\ TextValue(e.fields[i]) = LogfmtQuoted(RedactedValue)
      BY <3>1 DEF TextValue, Redacted
    <3> QED
      BY <3>2, <3>3, <3>4
  <2>2. CASE ~e.fields[i].sensitive
    <3>1. b.fields[i] = e.fields[i]
      BY <1>1, <2>2, Zenon
    <3> QED
      BY <3>1, Zenon
  <2> QED
    BY <2>1, <2>2
<1>3. JSONLine(b) = JSONLine(e)
  <2>1. [i \in DOMAIN b.fields |->
            Member(Escape(Keys[b.fields[i].key], JSONEscaped), JSONValue(b.fields[i]))]
        = [i \in DOMAIN e.fields |->
            Member(Escape(Keys[e.fields[i].key], JSONEscaped), JSONValue(e.fields[i]))]
    <3>1. ASSUME NEW i \in D
          PROVE  Member(Escape(Keys[b.fields[i].key], JSONEscaped), JSONValue(b.fields[i]))
                 = Member(Escape(Keys[e.fields[i].key], JSONEscaped), JSONValue(e.fields[i]))
      <4>1. b.fields[i].key = e.fields[i].key
        BY <1>1, Zenon
      <4> QED
        BY <1>2, <4>1, Zenon
    <3> QED
      BY <1>1, <3>1, Zenon DEF D
  <2> QED
    BY <1>1, <2>1, Zenon DEF JSONLine
<1>4. LogfmtLine(b) = LogfmtLine(e)
  <2>1. [i \in DOMAIN b.fields |->
            Pair(LogfmtText(Keys[b.fields[i].key]), LogfmtValue(b.fields[i]))]
        = [i \in DOMAIN e.fields |->
            Pair(LogfmtText(Keys[e.fields[i].key]), LogfmtValue(e.fields[i]))]
    <3>1. ASSUME NEW i \in D
          PROVE  Pair(LogfmtText(Keys[b.fields[i].key]), LogfmtValue(b.fields[i]))
                 = Pair(LogfmtText(Keys[e.fields[i].key]), LogfmtValue(e.fields[i]))
      <4>1. b.fields[i].key = e.fields[i].key
        BY <1>1, Zenon
      <4> QED
        BY <1>2, <4>1, Zenon
    <3> QED
      BY <1>1, <3>1, Zenon DEF D
  <2> QED
    BY <1>1, <2>1, Zenon DEF LogfmtLine
<1>5. TextLine(b) = TextLine(e)
  <2>1. \A i \in D : TextField(b.fields[i]) = TextField(e.fields[i])
    <3>1. ASSUME NEW i \in D PROVE TextField(b.fields[i]) = TextField(e.fields[i])
      <4>1. b.fields[i].key = e.fields[i].key
        BY <1>1, Zenon
      <4> QED
        BY <1>2, <4>1, Zenon DEF TextField
    <3> QED
      BY <3>1
  <2>2. [i \in DOMAIN b.fields |-> <<" ">> \o TextField(b.fields[i])]
        = [i \in DOMAIN e.fields |-> <<" ">> \o TextField(e.fields[i])]
    BY <1>1, <2>1, Zenon DEF D
  <2> QED
    BY <1>1, <2>2, Zenon DEF TextLine
<1> QED
  BY <1>3, <1>4, <1>5 DEF b

\* The JSON, logfmt and text formatters write the same whatever a sensitive value is.
THEOREM SecretTheorem == AccessSpec => []NoSecret
<1>1. Inv => NoSecret
  BY LinesBlanked DEF Inv, EntryTypes, LineInv, NoSecret
<1> QED
  BY <1>1, InvTheorem, PTL

--------------------------------------------------------------------------------
(* Reading.                                                                 *)

\* A reader with the steps g goes from p to q along s.
Reads(T, g, p, s, q) ==
    g \in [T \X Char -> T] /\ p \in T /\ s \in Text /\ q = Fold(g, p, s)

LEMMA ReadsNone ==
    ASSUME NEW T, NEW g \in [T \X Char -> T], NEW p \in T
    PROVE  Reads(T, g, p, <<>>, p)
BY FoldNone, Texts DEF Reads

LEMMA ReadsTyped ==
    ASSUME NEW T, NEW g, NEW p, NEW s, NEW q, Reads(T, g, p, s, q)
    PROVE  q \in T
<1>1. g \in [T \X Char -> T] /\ p \in T /\ s \in Seq(Char) /\ q = Fold(g, p, s)
  BY DEF Reads, Text
<1>2. Fold(g, p, s) \in T
  BY <1>1, FoldGoesOn
<1> QED
  BY <1>1, <1>2

LEMMA ReadsThen ==
    ASSUME NEW T, NEW g, NEW p, NEW s, NEW q, NEW t, NEW r,
           Reads(T, g, p, s, q), Reads(T, g, q, t, r)
    PROVE  Reads(T, g, p, s \o t, r)
<1>1. g \in [T \X Char -> T] /\ p \in T /\ s \in Seq(Char) /\ t \in Seq(Char)
  BY DEF Reads, Text
<1>2. Joins(g, p, s, t)
  BY <1>1, FoldConcat
<1>3. q = Fold(g, p, s) /\ r = Fold(g, q, t)
  BY DEF Reads
<1>4. Fold(g, p, s \o t) = r
  BY <1>2, <1>3 DEF Joins
<1>5. s \o t \in Seq(Char)
  BY <1>1, ConcatProperties
<1> QED
  BY <1>1, <1>4, <1>5 DEF Reads, Text

LEMMA ReadsOne ==
    ASSUME NEW T, NEW g \in [T \X Char -> T], NEW p \in T, NEW c \in Char
    PROVE  Reads(T, g, p, <<c>>, Meet(g, p, c))
<1>1. <<>> \in Seq(Char)
  BY EmptySeq
<1>2. GoesOn(g, p, <<>>, c)
  BY <1>1, FoldGoesOn
<1>3. Fold(g, p, <<>>) = p
  BY FoldNone
<1>4. Append(<<>>, c) = <<c>>
  OBVIOUS
<1>5. Fold(g, p, <<c>>) = Meet(g, p, c)
  BY <1>2, <1>3, <1>4 DEF GoesOn
<1>6. <<c>> \in Text
  BY Texts
<1> QED
  BY <1>5, <1>6 DEF Reads

\* The states of the readers of JSON and logfmt.
States ==
    {"start", "first", "member", "key", "keyEsc", "colon", "value", "string", "stringEsc",
     "literal", "after", "end", "ended", "bare", "bareEsc", "bad"}

Parsers == [at : States, cur : Text, depth : Int, read : Seq(Text)]

LEMMA StateTyped ==
    ASSUME NEW at \in States, NEW x \in Text, NEW d \in Int, NEW r \in Seq(Text)
    PROVE  /\ State(at, x, d, r) \in Parsers
           /\ Append(r, x) \in Seq(Text)
           /\ \A c \in Char : Append(x, c) \in Text
<1>1. Append(r, x) \in Seq(Text) /\ \A c \in Char : Append(x, c) \in Text
  BY AppendProperties DEF Text
<1> QED
  BY <1>1 DEF State, Parsers

LEMMA ParserMoves ==
    ASSUME NEW p \in Parsers, NEW at \in States, NEW c \in Char
    PROVE  /\ Move(p, at) \in Parsers
           /\ Take(p, at, c) \in Parsers
           /\ Emit(p, at) \in Parsers
           /\ OpenObject(p) \in Parsers
           /\ CloseObject(p) \in Parsers
           /\ Unescaped(c) \in Char
<1>1. p.at \in States /\ p.cur \in Text /\ p.depth \in Int /\ p.read \in Seq(Text)
  BY DEF Parsers
<1>2. "end" \in States /\ "after" \in States /\ "first" \in States
  BY DEF States
<1>3. "\n" \in Char /\ <<>> \in Text
  BY Texts DEF Special
<1>4. p.depth - 1 \in Int /\ p.depth + 1 \in Int
  BY <1>1
<1>5. /\ Append(p.read, p.cur) \in Seq(Text)
      /\ \A b \in Char : Append(p.cur, b) \in Text
  BY <1>1, StateTyped
<1>6. Move(p, at) \in Parsers
  BY <1>1, StateTyped DEF Move
<1>7. Take(p, at, c) \in Parsers
  BY <1>1, <1>5, StateTyped DEF Take
<1>8. Emit(p, at) \in Parsers
  BY <1>1, <1>3, <1>5, StateTyped DEF Emit
<1>9. OpenObject(p) \in Parsers
  BY <1>1, <1>2, <1>4, StateTyped DEF OpenObject
<1>10. CloseObject(p) \in Parsers
  BY <1>1, <1>2, <1>4, StateTyped DEF CloseObject
<1> QED
  BY <1>3, <1>6, <1>7, <1>8, <1>9, <1>10 DEF Unescaped

LEMMA StringMoves ==
    ASSUME NEW p \in Parsers, NEW at \in States, NEW next \in States, NEW c \in Char
    PROVE  ReadString(p, c, at, next) \in Parsers /\ ReadEscape(p, c, at) \in Parsers
<1>1. "bad" \in States /\ p.at \in States
  BY DEF States, Parsers
<1>2. Unescaped(c) \in Char
  BY ParserMoves
<1>3. /\ Emit(p, next) \in Parsers /\ Move(p, at) \in Parsers /\ Move(p, "bad") \in Parsers
      /\ Take(p, p.at, c) \in Parsers /\ Take(p, at, Unescaped(c)) \in Parsers
  BY <1>1, <1>2, ParserMoves
<1> QED
  BY <1>3 DEF ReadString, ReadEscape

--------------------------------------------------------------------------------
(* Reading JSON.                                                            *)

LEMMA JSONStepTyped ==
    ASSUME NEW p \in Parsers, NEW c \in Char
    PROVE  JSONStep(p, c) \in Parsers
<1>1. \A at \in States : Move(p, at) \in Parsers /\ Emit(p, at) \in Parsers
                         /\ Take(p, at, c) \in Parsers
  BY ParserMoves
<1>2. \A at, next \in States : /\ ReadString(p, c, at, next) \in Parsers
                               /\ ReadEscape(p, c, at) \in Parsers
  BY StringMoves
<1>3. /\ OpenObject(p) \in Parsers /\ CloseObject(p) \in Parsers
      /\ CloseObject(Emit(p, "after")) \in Parsers
  BY <1>1, ParserMoves DEF States
<1>4. /\ Move(p, "key") \in Parsers /\ Move(p, "value") \in Parsers
      /\ Move(p, "string") \in Parsers /\ Take(p, "literal", c) \in Parsers
      /\ Emit(p, "member") \in Parsers /\ Move(p, "member") \in Parsers
      /\ Move(p, "ended") \in Parsers /\ Move(p, "bad") \in Parsers
  BY <1>1 DEF States
<1>5. /\ ReadString(p, c, "keyEsc", "colon") \in Parsers /\ ReadEscape(p, c, "key") \in Parsers
      /\ ReadString(p, c, "stringEsc", "after") \in Parsers
      /\ ReadEscape(p, c, "string") \in Parsers
  BY <1>2 DEF States
<1> QED
  BY <1>3, <1>4, <1>5 DEF JSONStep

JSONTable == [q \in Parsers \X Char |-> JSONStep(q[1], q[2])]

JSONReads(p, s, q) == Reads(Parsers, JSONTable, p, s, q)

LEMMA JSONTableTyped ==
    /\ JSONTable \in [Parsers \X Char -> Parsers]
    /\ \A p \in Parsers, c \in Char : Meet(JSONTable, p, c) = JSONStep(p, c)
<1>1. ASSUME NEW q \in Parsers \X Char PROVE JSONStep(q[1], q[2]) \in Parsers
  <2>1. q[1] \in Parsers /\ q[2] \in Char
    OBVIOUS
  <2> QED
    BY <2>1, JSONStepTyped
<1>2. JSONTable \in [Parsers \X Char -> Parsers]
  BY <1>1 DEF JSONTable
<1>3. ASSUME NEW p \in Parsers, NEW c \in Char
      PROVE  Meet(JSONTable, p, c) = JSONStep(p, c)
  BY DEF JSONTable, Meet
<1> QED
  BY <1>2, <1>3

LEMMA JSONReadsOne ==
    ASSUME NEW p \in Parsers, NEW c \in Char, NEW q, q = JSONStep(p, c)
    PROVE  JSONReads(p, <<c>>, q)
<1>1. Reads(Parsers, JSONTable, p, <<c>>, Meet(JSONTable, p, c))
  BY JSONTableTyped, ReadsOne
<1>2. Meet(JSONTable, p, c) = JSONStep(p, c)
  BY JSONTableTyped
<1> QED
  BY <1>1, <1>2, Zenon DEF JSONReads

LEMMA JSONReadsThen ==
    ASSUME NEW p, NEW s, NEW q, NEW t, NEW r, JSONReads(p, s, q), JSONReads(q, t, r)
    PROVE  JSONReads(p, s \o t, r)
BY ReadsThen DEF JSONReads

\* What the reader makes of a text is where the steps lead.
LEMMA JSONReadIs ==
    ASSUME NEW p, NEW s, NEW q, JSONReads(p, s, q)
    PROVE  JSONRead(p, s) = q
<1> DEFINE n == Len(s)
           Eq(f) == f = [i \in 0..n |-> IF i = 0 THEN p ELSE JSONStep(f[i - 1], s[i])]
           read == CHOOSE f : Eq(f)
<1>1. /\ p \in Parsers /\ s \in Seq(Char) /\ q = Fold(JSONTable, p, s) /\ n \in Nat
      /\ \A i \in 1..n : s[i] \in Char /\ i - 1 \in 0..n
  BY DEF JSONReads, Reads, Text
<1>2. PICK h \in [0..Len(s) -> Parsers] : Follows(h, JSONTable, p, s)
  BY <1>1, JSONTableTyped, FoldExists, Zenon
<1>3. h[0] = p /\ \A i \in 1..n : h[i] = JSONStep(h[i - 1], s[i])
  <2>1. h[0] = p /\ \A i \in 1..n : h[i] = Meet(JSONTable, h[i - 1], s[i])
    BY <1>2, Zenon DEF Follows
  <2>2. \A i \in 1..n : h[i - 1] \in Parsers
    BY <1>1, <1>2
  <2> QED
    BY <1>1, <2>1, <2>2, JSONTableTyped, Zenon
<1>4. Eq(h)
  <2>1. \A i \in 0..n : i # 0 => i \in 1..n
    BY <1>1
  <2>2. \A i \in 0..n : h[i] = IF i = 0 THEN p ELSE JSONStep(h[i - 1], s[i])
    BY <1>3, <2>1, Zenon
  <2> QED
    BY <1>2, <2>2
<1>5. Eq(read)
  BY <1>4
<1>6. JSONRead(p, s) = read[n]
  BY DEF JSONRead
<1> HIDE DEF read
<1>7. read[0] = p /\ \A i \in 1..n : read[i] = JSONStep(read[i - 1], s[i])
  BY <1>1, <1>5
<1>8. read[n] = h[n]
  <2>1. Alike(read, h, n)
    BY <1>3, <1>7, Zenon DEF Alike
  <2> HIDE DEF n
  <2> QED
    BY <1>1, <2>1, Agree
<1>9. Fold(JSONTable, p, s) = h[Len(s)]
  BY <1>1, <1>2, FoldIs, Zenon
<1> QED
  BY <1>1, <1>6, <1>8, <1>9

\* One character after another.
LEMMA JSONSteps ==
    ASSUME NEW x \in Text, NEW d \in Int, NEW r \in Seq(Text)
    PROVE  /\ JSONReads(State("start", x, d, r), <<"{">>, State("first", x, d + 1, r))
           /\ JSONReads(State("value", x, d, r), <<"{">>, State("first", x, d + 1, r))
           /\ JSONReads(State("first", x, d, r), <<"\"">>, State("key", x, d, r))
           /\ JSONReads(State("member", x, d, r), <<"\"">>, State("key", x, d, r))
           /\ JSONReads(State("key", x, d, r), <<"\"">>, State("colon", <<>>, d, Append(r, x)))
           /\ JSONReads(State("colon", x, d, r), <<":">>, State("value", x, d, r))
           /\ JSONReads(State("value", x, d, r), <<"\"">>, State("string", x, d, r))
           /\ JSONReads(State("string", x, d, r), <<"\"">>,
                        State("after", <<>>, d, Append(r, x)))
           /\ JSONReads(State("after", x, d, r), <<",">>, State("member", x, d, r))
           /\ JSONReads(State("literal", x, d, r), <<",">>,
                        State("member", <<>>, d, Append(r, x)))
           /\ JSONReads(State("first", x, d, r), <<"}">>,
                        State(IF d = 1 THEN "end" ELSE "after", x, d - 1, r))
           /\ JSONReads(State("after", x, d, r), <<"}">>,
                        State(IF d = 1 THEN "end" ELSE "after", x, d - 1, r))
           /\ JSONReads(State("literal", x, d, r), <<"}">>,
                        State(IF d = 1 THEN "end" ELSE "after", <<>>, d - 1, Append(r, x)))
           /\ JSONReads(State("end", x, d, r), <<"\n">>, State("ended", x, d, r))
           /\ \A c \in Literals : c \in Char =>
                /\ JSONReads(State("value", x, d, r), <<c>>,
                             State("literal", Append(x, c), d, r))
                /\ JSONReads(State("literal", x, d, r), <<c>>,
                             State("literal", Append(x, c), d, r))
<1> DEFINE P(at) == State(at, x, d, r)
           closed == IF d = 1 THEN "end" ELSE "after"
           rx == Append(r, x)
<1>a. \A at \in States : P(at) \in Parsers
  BY StateTyped
<1>b. /\ P("start") \in Parsers /\ P("value") \in Parsers /\ P("first") \in Parsers
      /\ P("member") \in Parsers /\ P("key") \in Parsers /\ P("colon") \in Parsers
      /\ P("string") \in Parsers /\ P("after") \in Parsers /\ P("literal") \in Parsers
      /\ P("end") \in Parsers
  BY <1>a DEF States
<1>c. "{" \in Char /\ "}" \in Char /\ "," \in Char /\ ":" \in Char /\ "\"" \in Char /\ "\n" \in Char
  BY Texts DEF Special
<1>l. "," \notin Literals /\ "}" \notin Literals /\ "\"" \notin Literals /\ "{" \notin Literals
  <2>1. \A c \in Range(Numeral) : c \notin Special
    BY Texts DEF Range
  <2>2. \A c \in Range(LineNumber) : c = "1"
    BY DEF Range, LineNumber
  <2>3. \A c \in Literals : c \in {"n", "u", "l", "1"} \/ c \notin Special
    BY <2>1, <2>2 DEF Literals
  <2> QED
    BY <2>3 DEF Special
<1>1. JSONStep(P("start"), "{") = State("first", x, d + 1, r)
  BY DEF JSONStep, OpenObject, State
<1>2. JSONStep(P("value"), "{") = State("first", x, d + 1, r)
  BY <1>l DEF JSONStep, OpenObject, State
<1>3. JSONStep(P("first"), "\"") = P("key") /\ JSONStep(P("member"), "\"") = P("key")
  BY DEF JSONStep, Move, State
<1>4. JSONStep(P("key"), "\"") = State("colon", <<>>, d, rx)
  BY DEF JSONStep, ReadString, Emit, State
<1>5. JSONStep(P("colon"), ":") = P("value")
  BY DEF JSONStep, Move, State
<1>6. JSONStep(P("value"), "\"") = P("string")
  BY <1>l DEF JSONStep, Move, State
<1>7. JSONStep(P("string"), "\"") = State("after", <<>>, d, rx)
  BY DEF JSONStep, ReadString, Emit, State
<1>8. JSONStep(P("after"), ",") = P("member")
  BY DEF JSONStep, Move, State
<1>9. JSONStep(P("literal"), ",") = State("member", <<>>, d, rx)
  BY <1>l DEF JSONStep, Emit, State
<1>10. JSONStep(P("first"), "}") = State(closed, x, d - 1, r)
  BY DEF JSONStep, CloseObject, State
<1>11. JSONStep(P("after"), "}") = State(closed, x, d - 1, r)
  BY DEF JSONStep, CloseObject, State
<1>12. JSONStep(P("literal"), "}") = State(closed, <<>>, d - 1, rx)
  <2>1. JSONStep(P("literal"), "}") = CloseObject(State("after", <<>>, d, rx))
    BY <1>l DEF JSONStep, Emit, State
  <2> QED
    BY <2>1 DEF CloseObject, State
<1>13. JSONStep(P("end"), "\n") = P("ended")
  BY DEF JSONStep, Move, State
<1>14. ASSUME NEW c \in Literals, c \in Char
       PROVE  /\ JSONStep(P("value"), c) = State("literal", Append(x, c), d, r)
              /\ JSONStep(P("literal"), c) = State("literal", Append(x, c), d, r)
  <2>1. c # "," /\ c # "}" /\ c # "\"" /\ c # "{"
    BY <1>l
  <2> QED
    BY <2>1 DEF JSONStep, Take, State
<1> HIDE DEF P
<1>15. ASSUME NEW c \in Literals, c \in Char
       PROVE  /\ JSONReads(P("value"), <<c>>, State("literal", Append(x, c), d, r))
              /\ JSONReads(P("literal"), <<c>>, State("literal", Append(x, c), d, r))
  BY <1>14, <1>15, <1>b, JSONReadsOne
<1>16. /\ JSONReads(P("start"), <<"{">>, State("first", x, d + 1, r))
       /\ JSONReads(P("value"), <<"{">>, State("first", x, d + 1, r))
       /\ JSONReads(P("first"), <<"\"">>, P("key"))
       /\ JSONReads(P("member"), <<"\"">>, P("key"))
       /\ JSONReads(P("key"), <<"\"">>, State("colon", <<>>, d, rx))
       /\ JSONReads(P("colon"), <<":">>, P("value"))
       /\ JSONReads(P("value"), <<"\"">>, P("string"))
       /\ JSONReads(P("string"), <<"\"">>, State("after", <<>>, d, rx))
  BY <1>1, <1>2, <1>3, <1>4, <1>5, <1>6, <1>7, <1>b, <1>c, JSONReadsOne
<1>17. /\ JSONReads(P("after"), <<",">>, P("member"))
       /\ JSONReads(P("literal"), <<",">>, State("member", <<>>, d, rx))
       /\ JSONReads(P("first"), <<"}">>, State(closed, x, d - 1, r))
       /\ JSONReads(P("after"), <<"}">>, State(closed, x, d - 1, r))
       /\ JSONReads(P("literal"), <<"}">>, State(closed, <<>>, d - 1, rx))
       /\ JSONReads(P("end"), <<"\n">>, P("ended"))
  BY <1>8, <1>9, <1>10, <1>11, <1>12, <1>13, <1>b, <1>c, JSONReadsOne
<1> QED
  BY <1>15, <1>16, <1>17 DEF P

\* Inside a quoted text s is read as t.
Spells(s, t) ==
    \A at \in {"key", "string"}, x \in Text, d \in Int, r \in Seq(Text) :
        JSONReads(State(at, x, d, r), s, State(at, x \o t, d, r))

LEMMA SpellsNone == Spells(<<>>, <<>>)
<1> SUFFICES ASSUME NEW at \in {"key", "string"}, NEW x \in Text, NEW d \in Int,
                    NEW r \in Seq(Text)
             PROVE  JSONReads(State(at, x, d, r), <<>>, State(at, x \o <<>>, d, r))
  BY DEF Spells
<1>1. State(at, x, d, r) \in Parsers
  BY StateTyped DEF States
<1>2. x \o <<>> = x
  BY ConcatEmptySeq DEF Text
<1> QED
  BY <1>1, <1>2, ReadsNone, JSONTableTyped DEF JSONReads

LEMMA SpellsThen ==
    ASSUME NEW s, NEW t \in Text, NEW u, NEW v \in Text, Spells(s, t), Spells(u, v)
    PROVE  Spells(s \o u, t \o v)
<1> SUFFICES ASSUME NEW at \in {"key", "string"}, NEW x \in Text, NEW d \in Int,
                    NEW r \in Seq(Text)
             PROVE  JSONReads(State(at, x, d, r), s \o u, State(at, x \o (t \o v), d, r))
  BY DEF Spells
<1>1. x \o t \in Text /\ (x \o t) \o v = x \o (t \o v)
  BY ConcatProperties, ConcatAssociative DEF Text
<1>2. JSONReads(State(at, x, d, r), s, State(at, x \o t, d, r))
  BY DEF Spells
<1>3. JSONReads(State(at, x \o t, d, r), u, State(at, (x \o t) \o v, d, r))
  BY <1>1 DEF Spells
<1> QED
  BY <1>1, <1>2, <1>3, JSONReadsThen, Zenon

\* A character with and without a backslash.
Escaped(c, escaped) ==
    IF c \notin escaped THEN <<c>>
    ELSE IF c = "\n" THEN <<"\\", "n">> ELSE <<"\\", c>>

LEMMA SpellsCharacter ==
    ASSUME NEW c \in Char, c # "NUL"
    PROVE  /\ Spells(Escaped(c, JSONEscaped), <<c>>)
           /\ c \notin JSONEscaped => Spells(<<c>>, <<c>>)
<1>1. ASSUME c \notin JSONEscaped PROVE Spells(<<c>>, <<c>>)
  <2> SUFFICES ASSUME NEW at \in {"key", "string"}, NEW x \in Text, NEW d \in Int,
                      NEW r \in Seq(Text)
               PROVE  JSONReads(State(at, x, d, r), <<c>>, State(at, x \o <<c>>, d, r))
    BY DEF Spells
  <2>1. State(at, x, d, r) \in Parsers
    BY StateTyped DEF States
  <2>2. x \o <<c>> = Append(x, c)
    BY AppendIsConcat DEF Text
  <2>3. JSONStep(State(at, x, d, r), c) = State(at, Append(x, c), d, r)
    <3> DEFINE p == State(at, x, d, r)
    <3>1. p.at = at /\ p.cur = x /\ p.depth = d /\ p.read = r
      BY DEF State
    <3>2. c # "\"" /\ c # "\\" /\ c # "\n"
      BY <1>1 DEF JSONEscaped
    <3> HIDE DEF p
    <3>3. JSONStep(p, c) = Take(p, at, c)
      BY <3>1, <3>2 DEF JSONStep, ReadString
    <3> QED
      BY <3>1, <3>3 DEF Take, p
  <2> QED
    BY <2>1, <2>2, <2>3, JSONReadsOne
<1>2. ASSUME c \in JSONEscaped PROVE Spells(Escaped(c, JSONEscaped), <<c>>)
  <2> DEFINE e == IF c = "\n" THEN "n" ELSE c
  <2>1. Escaped(c, JSONEscaped) = <<"\\">> \o <<e>>
    <3>1. Escaped(c, JSONEscaped) = <<"\\", e>>
      BY <1>2 DEF Escaped
    <3> HIDE DEF e
    <3> QED
      BY <3>1
  <2>2. e \in Char /\ "\\" \in Char /\ Unescaped(e) = c /\ e \in {"\"", "\\", "n"}
    BY <1>2, Texts DEF JSONEscaped, Special, Letters, Unescaped
  <2> HIDE DEF e
  <2> SUFFICES ASSUME NEW at \in {"key", "string"}, NEW x \in Text, NEW d \in Int,
                      NEW r \in Seq(Text)
               PROVE  JSONReads(State(at, x, d, r), <<"\\">> \o <<e>>,
                                State(at, x \o <<c>>, d, r))
    BY <2>1 DEF Spells
  <2> DEFINE esc == IF at = "key" THEN "keyEsc" ELSE "stringEsc"
             p == State(at, x, d, r)
             q == State(esc, x, d, r)
  <2>3. p \in Parsers /\ q \in Parsers
    BY StateTyped DEF States
  <2>4. /\ p.at = at /\ p.cur = x /\ p.depth = d /\ p.read = r
        /\ q.at = esc /\ q.cur = x /\ q.depth = d /\ q.read = r
    BY DEF State
  <2>5. x \o <<c>> = Append(x, c)
    BY AppendIsConcat DEF Text
  <2> HIDE DEF p, q
  <2>6. JSONStep(p, "\\") = Move(p, esc)
    BY <2>4 DEF JSONStep, ReadString
  <2>7. JSONStep(q, e) = Take(q, at, c)
    BY <2>2, <2>4 DEF JSONStep, ReadEscape
  <2>8. Move(p, esc) = q /\ Take(q, at, c) = State(at, Append(x, c), d, r)
    BY <2>4 DEF Move, Take, q
  <2>9. JSONReads(p, <<"\\">>, q) /\ JSONReads(q, <<e>>, State(at, Append(x, c), d, r))
    BY <2>2, <2>3, <2>6, <2>7, <2>8, JSONReadsOne
  <2> QED
    BY <2>5, <2>9, JSONReadsThen, Zenon DEF p
<1>3. c \notin JSONEscaped => Escaped(c, JSONEscaped) = <<c>>
  BY DEF Escaped
<1> QED
  BY <1>1, <1>2, <1>3


\* One more character is one more escaped character.
EscapeGoesOn(s, c, escaped) ==
    Escape(Append(s, c), escaped) = Escape(s, escaped) \o Escaped(c, escaped)

LEMMA EscapeAppend ==
    ASSUME NEW s \in Text, NEW c \in Char, NEW escaped
    PROVE  EscapeGoesOn(s, c, escaped) /\ Escape(s, escaped) \in Text
<1> DEFINE e(d) == IF d \notin escaped THEN <<d>>
                   ELSE IF d = "\n" THEN <<"\\", "n">> ELSE <<"\\", d>>
           t == Append(s, c)
           es == [i \in DOMAIN s |-> e(s[i])]
           et == [i \in DOMAIN t |-> e(t[i])]
<1>1. \A d \in Char : e(d) \in Seq(Char)
  <2>1. "n" \in Char /\ "\\" \in Char
    BY Texts DEF Letters, Special
  <2> QED
    BY <2>1
<1>2. /\ s \in Seq(Char) /\ t \in Seq(Char) /\ DOMAIN s = 1..Len(s)
      /\ DOMAIN t = 1..(Len(s) + 1) /\ Len(s) \in Nat /\ t[Len(s) + 1] = c
      /\ \A i \in DOMAIN s : t[i] = s[i] /\ s[i] \in Char
  BY DEF Text
<1>3. Escape(s, escaped) = FlattenSeq(es) /\ Escape(t, escaped) = FlattenSeq(et)
  BY DEF Escape
<1> HIDE DEF e
<1>4. es \in Seq(Seq(Char)) /\ Len(es) = Len(s) /\ DOMAIN es = 1..Len(s)
  BY <1>1, <1>2
<1>5. et = Append(es, e(c))
  <2>1. DOMAIN Append(es, e(c)) = 1..(Len(s) + 1)
    BY <1>4
  <2>2. \A i \in 1..Len(s) : Append(es, e(c))[i] = e(s[i])
    BY <1>2, <1>4
  <2>3. Append(es, e(c))[Len(s) + 1] = e(c)
    BY <1>4
  <2>4. \A i \in 1..(Len(s) + 1) : et[i] = Append(es, e(c))[i]
    BY <1>2, <2>2, <2>3
  <2> DEFINE ap == Append(es, e(c))
  <2>5. ap \in Seq(Seq(Char)) /\ DOMAIN et = 1..(Len(s) + 1)
    BY <1>1, <1>2, <1>4
  <2>6. ap = [i \in 1..(Len(s) + 1) |-> ap[i]]
    BY <2>1, <2>5
  <2>7. et = [i \in 1..(Len(s) + 1) |-> e(t[i])]
    BY <1>2
  <2> HIDE DEF ap, et, t
  <2>8. \A i \in 1..(Len(s) + 1) : ap[i] = e(t[i])
    BY <2>4, <2>7 DEF ap
  <2>9. et = ap
    BY <2>6, <2>7, <2>8
  <2> QED
    BY <2>9 DEF ap
<1> HIDE DEF es, et, t
<1>6. FlattenSeq(es) \in Seq(Char) /\ FlattenGoesOn(es, e(c))
  BY <1>1, <1>4, FlattenTyped
<1>7. FlattenSeq(et) = FlattenSeq(es) \o e(c)
  BY <1>5, <1>6 DEF FlattenGoesOn
<1> QED
  BY <1>3, <1>6, <1>7 DEF EscapeGoesOn, Escaped, e, t, Text

LEMMA EscapeNone ==
    ASSUME NEW escaped
    PROVE  Escape(<<>>, escaped) = <<>>
<1> DEFINE e == [i \in DOMAIN <<>> |->
                   IF <<>>[i] \notin escaped THEN << <<>>[i] >>
                   ELSE IF <<>>[i] = "\n" THEN <<"\\", "n">> ELSE <<"\\", <<>>[i]>>]
<1>1. e = <<>>
  OBVIOUS
<1>2. Escape(<<>>, escaped) = FlattenSeq(e)
  BY DEF Escape
<1> HIDE DEF e
<1> QED
  BY <1>1, <1>2, FlattenNone

LEMMA SpellsEscaped ==
    ASSUME NEW s \in Text, Clean(s)
    PROVE  Spells(Escape(s, JSONEscaped), s)
<1> DEFINE C == Char \ {"NUL"}
           P == {t \in Text : Spells(Escape(t, JSONEscaped), t)}
<1>1. <<>> \in P
  <2>1. Spells(Escape(<<>>, JSONEscaped), <<>>)
    BY EscapeNone, SpellsNone, Zenon
  <2> QED
    BY <2>1, Texts
<1>2. ASSUME NEW t \in Seq(C), NEW c \in C, t \in P PROVE Append(t, c) \in P
  <2>1. t \in Text /\ <<c>> \in Text /\ Append(t, c) \in Text /\ Append(t, c) = t \o <<c>>
    BY <1>2, AppendIsConcat DEF Text
  <2>2. Spells(Escape(t, JSONEscaped), t) /\ Spells(Escaped(c, JSONEscaped), <<c>>)
    BY <1>2, SpellsCharacter
  <2>3. Spells(Escape(t, JSONEscaped) \o Escaped(c, JSONEscaped), t \o <<c>>)
    BY <2>1, <2>2, SpellsThen
  <2>4. EscapeGoesOn(t, c, JSONEscaped)
    BY <2>1, EscapeAppend
  <2>5. Escape(Append(t, c), JSONEscaped) = Escape(t, JSONEscaped) \o Escaped(c, JSONEscaped)
    BY <2>4 DEF EscapeGoesOn
  <2>6. Spells(Escape(Append(t, c), JSONEscaped), Append(t, c))
    BY <2>1, <2>3, <2>5, Zenon
  <2> QED
    BY <2>1, <2>6
<1> HIDE DEF P, C
<1>3. Seq(C) \subseteq P
  BY <1>1, <1>2, SeqInduction
<1>4. s \in Seq(C)
  <2>1. s \in Seq(Char) /\ \A i \in DOMAIN s : s[i] \in Char /\ s[i] # "NUL"
    BY DEF Text, Clean
  <2> QED
    BY <2>1 DEF C
<1> QED
  BY <1>3, <1>4 DEF P

\* The characters that stand for themselves in a quoted text are the others.
Unsafe == JSONEscaped \cup {"NUL"}
PlainText == Seq(Char \ Unsafe)

LEMMA SpellsPlain ==
    ASSUME NEW s \in PlainText
    PROVE  s \in Text /\ Spells(s, s)
<1> DEFINE C == Char \ Unsafe
           P == {t \in Text : Spells(t, t)}
<1>1. <<>> \in P
  BY SpellsNone, Texts
<1>2. ASSUME NEW t \in Seq(C), NEW c \in C, t \in P PROVE Append(t, c) \in P
  <2>1. t \in Text /\ <<c>> \in Text /\ Append(t, c) \in Text /\ Append(t, c) = t \o <<c>>
    BY <1>2, AppendIsConcat DEF Text
  <2>2. Spells(t, t) /\ Spells(<<c>>, <<c>>)
    BY <1>2, SpellsCharacter DEF Unsafe
  <2>3. Spells(t \o <<c>>, t \o <<c>>)
    BY <2>1, <2>2, SpellsThen
  <2> QED
    BY <2>1, <2>3
<1> HIDE DEF P, C
<1>3. Seq(C) \subseteq P
  BY <1>1, <1>2, SeqInduction
<1> QED
  BY <1>3 DEF P, C, PlainText


\* After a value, at depth d and with r read: a literal ends with what follows it.
Done(q, d, r) ==
    \/ q = State("after", <<>>, d, r)
    \/ \E v \in Text, before \in Seq(Text) :
            q = State("literal", v, d, before) /\ r = Append(before, v)

LEMMA DoneReads ==
    ASSUME NEW q, NEW d \in Int, NEW r \in Seq(Text), Done(q, d, r)
    PROVE  /\ JSONReads(q, <<",">>, State("member", <<>>, d, r))
           /\ JSONReads(q, <<"}">>, State(IF d = 1 THEN "end" ELSE "after", <<>>, d - 1, r))
<1>1. CASE q = State("after", <<>>, d, r)
  BY <1>1, JSONSteps, Texts
<1>2. ASSUME NEW v \in Text, NEW before \in Seq(Text),
             q = State("literal", v, d, before), r = Append(before, v)
      PROVE  /\ JSONReads(q, <<",">>, State("member", <<>>, d, r))
             /\ JSONReads(q, <<"}">>, State(IF d = 1 THEN "end" ELSE "after", <<>>, d - 1, r))
  BY <1>2, JSONSteps
<1> QED
  BY <1>1, <1>2 DEF Done

\* s is read as a value that has the texts vs.
ValueReads(s, vs) ==
    /\ s \in Text /\ vs \in Seq(Text)
    /\ \A d \in Nat \ {0}, r \in Seq(Text) :
         \E q : JSONReads(State("value", <<>>, d, r), s, q) /\ Done(q, d, r \o vs)

LEMMA QuotedReads ==
    ASSUME NEW s \in Text, NEW t \in Text, Spells(s, t)
    PROVE  ValueReads(Quoted(s), <<t>>)
<1>1. /\ <<"\"">> \in Text /\ <<>> \in Text /\ s \o <<"\"">> \in Text
      /\ <<"\"">> \o s \in Text /\ <<"\"">> \o s \o <<"\"">> \in Text
  BY Texts DEF Special
<1>2. Quoted(s) = <<"\"">> \o s \o <<"\"">>
  BY DEF Quoted, Quote
<1>3. ASSUME NEW d \in Nat \ {0}, NEW r \in Seq(Text)
      PROVE  \E q : JSONReads(State("value", <<>>, d, r), Quoted(s), q) /\ Done(q, d, r \o <<t>>)
  <2>1. r \o <<t>> = Append(r, t) /\ <<>> \o t = t /\ d \in Int
    BY AppendIsConcat, ConcatEmptySeq DEF Text
  <2>2. JSONReads(State("value", <<>>, d, r), <<"\"">>, State("string", <<>>, d, r))
    BY <1>1, <2>1, JSONSteps
  <2>3. JSONReads(State("string", <<>>, d, r), s, State("string", <<>> \o t, d, r))
    BY <1>1, <2>1 DEF Spells
  <2>4. JSONReads(State("string", t, d, r), <<"\"">>, State("after", <<>>, d, Append(r, t)))
    BY <1>1, <2>1, JSONSteps
  <2>5. JSONReads(State("value", <<>>, d, r), <<"\"">> \o s, State("string", t, d, r))
    BY <2>1, <2>2, <2>3, JSONReadsThen, Zenon
  <2>6. JSONReads(State("value", <<>>, d, r), <<"\"">> \o s \o <<"\"">>,
                  State("after", <<>>, d, Append(r, t)))
    BY <2>4, <2>5, JSONReadsThen, Zenon
  <2>7. Done(State("after", <<>>, d, Append(r, t)), d, r \o <<t>>)
    BY <2>1, Zenon DEF Done
  <2> QED
    BY <1>2, <2>6, <2>7, Zenon
<1>4. Quoted(s) \in Text
  BY <1>1, <1>2, Zenon
<1>5. <<t>> \in Seq(Text)
  OBVIOUS
<1> QED
  BY <1>3, <1>4, <1>5, Zenon DEF ValueReads

LEMMA LiteralReads ==
    ASSUME NEW c \in Literals, c \in Char
    PROVE  ValueReads(<<c>>, << <<c>> >>)
<1>1. <<>> \in Text /\ <<c>> \in Text /\ << <<c>> >> \in Seq(Text) /\ Append(<<>>, c) = <<c>>
  BY Texts
<1>2. ASSUME NEW d \in Nat \ {0}, NEW r \in Seq(Text)
      PROVE  \E q : JSONReads(State("value", <<>>, d, r), <<c>>, q) /\ Done(q, d, r \o << <<c>> >>)
  <2>a. d \in Int
    OBVIOUS
  <2>1. JSONReads(State("value", <<>>, d, r), <<c>>, State("literal", Append(<<>>, c), d, r))
    BY <1>1, <2>a, JSONSteps
  <2>2. r \o << <<c>> >> = Append(r, <<c>>)
    BY <1>1, AppendIsConcat, Zenon
  <2>3. Done(State("literal", <<c>>, d, r), d, r \o << <<c>> >>)
    BY <1>1, <2>2, Zenon DEF Done
  <2> QED
    BY <1>1, <2>1, <2>3, Zenon
<1> QED
  BY <1>1, <1>2, Zenon DEF ValueReads

LEMMA NullReads == ValueReads(Null, <<Null>>)
<1>a. "n" \in Char /\ "u" \in Char /\ "l" \in Char
  BY Texts DEF Letters
<1>1. /\ "n" \in Char /\ "u" \in Char /\ "l" \in Char /\ <<"n", "u", "l">> \in Text
      /\ <<"n">> \in Text /\ <<"n", "u">> \in Text /\ <<>> \in Text /\ Null \in Text
  BY <1>a DEF Text, Null
<1>2. "n" \in Literals /\ "u" \in Literals /\ "l" \in Literals
  BY DEF Literals
<1>3. ASSUME NEW d \in Nat \ {0}, NEW r \in Seq(Text)
      PROVE  \E q : JSONReads(State("value", <<>>, d, r), Null, q) /\ Done(q, d, r \o <<Null>>)
  <2>a. d \in Int
    OBVIOUS
  <2>c. Null = <<"n", "u", "l", "l">>
    BY DEF Null
  <2>f. Grows("n", "u", "l", "l")
    BY <1>a, Growing
  <2>1. /\ Append(<<>>, "n") = <<"n">> /\ Append(<<"n">>, "u") = <<"n", "u">>
        /\ Append(<<"n", "u">>, "l") = <<"n", "u", "l">>
        /\ Append(<<"n", "u", "l">>, "l") = Null
    BY <2>c, <2>f, Zenon DEF Grows
  <2>2. /\ <<"n">> \o <<"u">> = <<"n", "u">>
        /\ <<"n", "u">> \o <<"l">> = <<"n", "u", "l">>
        /\ <<"n", "u", "l">> \o <<"l">> = Null
    BY <2>c, <2>f, Zenon DEF Grows
  <2> DEFINE L(x) == State("literal", x, d, r)
  <2>3. /\ JSONReads(State("value", <<>>, d, r), <<"n">>, L(Append(<<>>, "n")))
        /\ JSONReads(L(<<"n">>), <<"u">>, L(Append(<<"n">>, "u")))
        /\ JSONReads(L(<<"n", "u">>), <<"l">>, L(Append(<<"n", "u">>, "l")))
        /\ JSONReads(L(<<"n", "u", "l">>), <<"l">>, L(Append(<<"n", "u", "l">>, "l")))
    BY <1>1, <1>2, <2>a, JSONSteps
  <2> HIDE DEF L
  <2>4. JSONReads(State("value", <<>>, d, r), <<"n">>, L(<<"n">>))
    BY <2>1, <2>3, Zenon
  <2>5. JSONReads(L(<<"n">>), <<"u">>, L(<<"n", "u">>))
    BY <2>1, <2>3, Zenon
  <2>6. JSONReads(L(<<"n", "u">>), <<"l">>, L(<<"n", "u", "l">>))
    BY <2>1, <2>3, Zenon
  <2>7. JSONReads(L(<<"n", "u", "l">>), <<"l">>, L(Null))
    BY <2>1, <2>3, Zenon
  <2>b. JSONReads(State("value", <<>>, d, r), <<"n">> \o <<"u">>, L(<<"n", "u">>))
    BY <2>4, <2>5, JSONReadsThen, Zenon
  <2>d. JSONReads(State("value", <<>>, d, r), <<"n", "u">> \o <<"l">>, L(<<"n", "u", "l">>))
    BY <2>1, <2>2, <2>6, <2>b, JSONReadsThen, Zenon
  <2>e. JSONReads(State("value", <<>>, d, r), <<"n", "u", "l">> \o <<"l">>, L(Null))
    BY <2>1, <2>2, <2>7, <2>d, JSONReadsThen, Zenon
  <2>8. JSONReads(State("value", <<>>, d, r), Null, State("literal", Null, d, r))
    BY <2>1, <2>2, <2>e, Zenon DEF L
  <2>9. r \o <<Null>> = Append(r, Null)
    BY <1>1, AppendIsConcat, Zenon
  <2>10. Done(State("literal", Null, d, r), d, r \o <<Null>>)
    BY <1>1, <2>9, Zenon DEF Done
  <2> QED
    BY <2>8, <2>10, Zenon
<1>4. <<Null>> \in Seq(Text)
  BY <1>1
<1> QED
  BY <1>1, <1>3, <1>4, Zenon DEF ValueReads

\* m is read as a member that has the texts vs.
MemberReads(m, vs) ==
    /\ m \in Text /\ vs \in Seq(Text)
    /\ \A at \in {"first", "member"}, d \in Nat \ {0}, r \in Seq(Text) :
         \E q : JSONReads(State(at, <<>>, d, r), m, q) /\ Done(q, d, r \o vs)

LEMMA KeyAndValueRead ==
    ASSUME NEW s \in Text, NEW t \in Text, Spells(s, t),
           NEW v, NEW vs, ValueReads(v, vs)
    PROVE  MemberReads(Member(s, v), <<t>> \o vs)
<1>a. v \in Text /\ vs \in Seq(Text)
  BY DEF ValueReads
<1>1. /\ <<"\"">> \in Text /\ <<":">> \in Text /\ <<>> \in Text /\ <<"\"">> \o s \in Text
      /\ <<"\"">> \o s \o <<"\"">> \in Text /\ <<"\"">> \o s \o <<"\"">> \o <<":">> \in Text
      /\ <<"\"">> \o s \o <<"\"">> \o <<":">> \o v \in Text
  BY <1>a, Texts DEF Special
<1>2. Member(s, v) = <<"\"">> \o s \o <<"\"">> \o <<":">> \o v
  BY Zenon DEF Member, Quoted, Quote
<1>3. <<t>> \o vs \in Seq(Text)
  BY <1>a, ConcatProperties
<1>4. ASSUME NEW at \in {"first", "member"}, NEW d \in Nat \ {0}, NEW r \in Seq(Text)
      PROVE  \E q : /\ JSONReads(State(at, <<>>, d, r), Member(s, v), q)
                    /\ Done(q, d, r \o (<<t>> \o vs))
  <2>1. Append(r, t) \in Seq(Text) /\ <<>> \o t = t /\ d \in Int
    BY ConcatEmptySeq, AppendProperties DEF Text
  <2>2. r \o (<<t>> \o vs) = Append(r, t) \o vs
    <3>1. <<t>> \in Seq(Text) /\ Append(r, t) = r \o <<t>>
      BY AppendIsConcat
    <3> QED
      BY <1>a, <3>1, ConcatAssociative
  <2>3. JSONReads(State(at, <<>>, d, r), <<"\"">>, State("key", <<>>, d, r))
    BY <1>1, <2>1, JSONSteps
  <2>4. JSONReads(State("key", <<>>, d, r), s, State("key", <<>> \o t, d, r))
    BY <1>1, <2>1 DEF Spells
  <2>5. JSONReads(State("key", t, d, r), <<"\"">>, State("colon", <<>>, d, Append(r, t)))
    BY <1>1, <2>1, JSONSteps
  <2>6. JSONReads(State("colon", <<>>, d, Append(r, t)), <<":">>,
                  State("value", <<>>, d, Append(r, t)))
    BY <1>1, <2>1, JSONSteps
  <2>7. PICK q : /\ JSONReads(State("value", <<>>, d, Append(r, t)), v, q)
                 /\ Done(q, d, Append(r, t) \o vs)
    BY <2>1, Zenon DEF ValueReads
  <2> DEFINE quote == <<"\"">>
             colon == <<":">>
             start == State(at, <<>>, d, r)
             key == State("key", t, d, r)
             keyRead == State("colon", <<>>, d, Append(r, t))
             value == State("value", <<>>, d, Append(r, t))
  <2>8. JSONReads(start, quote \o s, key)
    BY <2>1, <2>3, <2>4, JSONReadsThen, Zenon
  <2>9. /\ JSONReads(key, quote, keyRead) /\ JSONReads(keyRead, colon, value)
        /\ JSONReads(value, v, q) /\ Member(s, v) = quote \o s \o quote \o colon \o v
    BY <1>2, <2>5, <2>6, <2>7
  <2> HIDE DEF quote, colon, start, key, keyRead, value
  <2>10. JSONReads(start, quote \o s \o quote, keyRead)
    BY <2>8, <2>9, JSONReadsThen, Zenon
  <2>11. JSONReads(start, quote \o s \o quote \o colon, value)
    BY <2>9, <2>10, JSONReadsThen, Zenon
  <2>12. JSONReads(start, quote \o s \o quote \o colon \o v, q)
    BY <2>9, <2>11, JSONReadsThen, Zenon
  <2> QED
    BY <2>2, <2>7, <2>9, <2>12, Zenon DEF start
<1> QED
  BY <1>1, <1>2, <1>3, <1>4, Zenon DEF MemberReads


\* Parts with a comma before each but the first.
WithComma(comma, m, i) == IF NeedComma(i) THEN <<comma>> \o m ELSE m

Body(comma, ms) == FlattenSeq([i \in DOMAIN ms |-> WithComma(comma, ms[i], i)])

BodyGoesOn(comma, ms, m) ==
    Body(comma, Append(ms, m)) = Body(comma, ms) \o WithComma(comma, m, Len(ms) + 1)

LEMMA BodyAppend ==
    ASSUME NEW comma \in Char, NEW ms \in Seq(Text), NEW m \in Text
    PROVE  Body(comma, ms) \in Text /\ BodyGoesOn(comma, ms, m) /\ Body(comma, <<>>) = <<>>
<1> DEFINE n == Len(ms)
           t == Append(ms, m)
           es == [i \in DOMAIN ms |-> WithComma(comma, ms[i], i)]
           et == [i \in DOMAIN t |-> WithComma(comma, t[i], i)]
           last == WithComma(comma, m, n + 1)
           ap == Append(es, last)
<1>1. \A x \in Text : \A i : WithComma(comma, x, i) \in Seq(Char)
  <2>1. <<comma>> \in Text
    BY Texts
  <2> QED
    BY <2>1, Texts, Zenon DEF WithComma, Text
<1>2. /\ n \in Nat /\ DOMAIN ms = 1..n /\ DOMAIN t = 1..(n + 1) /\ t[n + 1] = m
      /\ \A i \in 1..n : t[i] = ms[i] /\ ms[i] \in Text
  OBVIOUS
<1> HIDE DEF t
<1>3. es \in Seq(Seq(Char)) /\ Len(es) = n /\ DOMAIN es = 1..n
      /\ \A i \in 1..n : es[i] = WithComma(comma, ms[i], i)
  BY <1>1, <1>2
<1>4. last \in Seq(Char)
  BY <1>1
<1>5. et = [i \in 1..(n + 1) |-> WithComma(comma, t[i], i)]
  BY <1>2
<1> HIDE DEF es, last
<1>6. ap \in Seq(Seq(Char)) /\ DOMAIN ap = 1..(n + 1)
      /\ ap[n + 1] = last /\ \A i \in 1..n : ap[i] = es[i]
  BY <1>2, <1>3, <1>4, AppendProperties
<1> HIDE DEF ap
<1>7. ASSUME NEW i \in 1..(n + 1) PROVE ap[i] = WithComma(comma, t[i], i)
  <2>1. CASE i = n + 1
    BY <1>2, <1>6, <2>1, Zenon DEF last
  <2>2. CASE i # n + 1
    <3>1. i \in 1..n
      BY <1>2, <2>2
    <3> QED
      BY <1>2, <1>3, <1>6, <3>1, Zenon
  <2> QED
    BY <2>1, <2>2
<1>8. ap = [i \in 1..(n + 1) |-> ap[i]]
  BY <1>6
<1>9. et = ap
  BY <1>5, <1>7, <1>8
<1>10. FlattenSeq(es) \in Seq(Char) /\ FlattenGoesOn(es, last)
  BY <1>3, <1>4, FlattenTyped
<1>11. FlattenSeq(et) = FlattenSeq(es) \o last
  BY <1>9, <1>10, Zenon DEF ap, FlattenGoesOn
<1>12. Body(comma, ms) = FlattenSeq(es) /\ Body(comma, t) = FlattenSeq(et)
  BY Zenon DEF Body, es, et
<1>13. Body(comma, <<>>) = <<>>
  <2> DEFINE e == [i \in DOMAIN <<>> |-> WithComma(comma, <<>>[i], i)]
  <2>1. e = <<>>
    OBVIOUS
  <2>2. Body(comma, <<>>) = FlattenSeq(e)
    BY DEF Body
  <2> HIDE DEF e
  <2> QED
    BY <2>1, <2>2, FlattenNone
<1>14. BodyGoesOn(comma, ms, m)
  BY <1>11, <1>12, Zenon DEF BodyGoesOn, t, last
<1> QED
  BY <1>10, <1>12, <1>13, <1>14 DEF Text

Comma == ","

\* The members ms are read as the texts vs.
MembersRead(ms, vs) ==
    /\ ms \in Seq(Text) /\ vs \in Seq(Text)
    /\ \A d \in Nat \ {0}, r \in Seq(Text) :
         \E q : /\ JSONReads(State("first", <<>>, d, r), Body(Comma, ms), q)
                /\ IF ms = <<>> THEN vs = <<>> /\ q = State("first", <<>>, d, r)
                   ELSE Done(q, d, r \o vs)

LEMMA NoMembersRead == MembersRead(<<>>, <<>>)
<1>1. <<>> \in Seq(Text) /\ <<>> \in Text /\ "first" \in States
  BY Texts DEF States
<1>2. Body(Comma, <<>>) = <<>>
  <2>1. Comma \in Char
    BY Texts, Zenon DEF Special, Comma
  <2> QED
    BY <1>1, <2>1, BodyAppend
<1>3. ASSUME NEW d \in Nat \ {0}, NEW r \in Seq(Text)
      PROVE  JSONReads(State("first", <<>>, d, r), Body(Comma, <<>>), State("first", <<>>, d, r))
  <2>1. State("first", <<>>, d, r) \in Parsers
    BY <1>1, StateTyped
  <2> QED
    BY <1>2, <2>1, ReadsNone, JSONTableTyped, Zenon DEF JSONReads
<1> QED
  BY <1>1, <1>3, Zenon DEF MembersRead

LEMMA OneMoreRead ==
    ASSUME NEW ms, NEW vs, NEW m, NEW us, MembersRead(ms, vs), MemberReads(m, us)
    PROVE  MembersRead(Append(ms, m), vs \o us)
<1>1. /\ ms \in Seq(Text) /\ m \in Text /\ vs \in Seq(Text) /\ us \in Seq(Text)
      /\ vs \o us \in Seq(Text) /\ Append(ms, m) \in Seq(Text) /\ Append(ms, m) # <<>>
  BY ConcatProperties, AppendProperties DEF MembersRead, MemberReads
<1>2. BodyGoesOn(Comma, ms, m) /\ Body(Comma, ms) \in Text
  <2>1. Comma \in Char
    BY Texts, Zenon DEF Special, Comma
  <2> QED
    BY <1>1, <2>1, BodyAppend
<1>3. Body(Comma, Append(ms, m)) = Body(Comma, ms) \o WithComma(Comma, m, Len(ms) + 1)
  BY <1>2 DEF BodyGoesOn
<1>4. ASSUME NEW d \in Nat \ {0}, NEW r \in Seq(Text)
      PROVE  \E q : /\ JSONReads(State("first", <<>>, d, r), Body(Comma, Append(ms, m)), q)
                    /\ Done(q, d, r \o (vs \o us))
  <2> DEFINE start == State("first", <<>>, d, r)
             rest == WithComma(Comma, m, Len(ms) + 1)
  <2>1. PICK p : /\ JSONReads(start, Body(Comma, ms), p)
                 /\ IF ms = <<>> THEN vs = <<>> /\ p = start ELSE Done(p, d, r \o vs)
    BY Zenon DEF MembersRead
  <2>2. CASE ms = <<>>
    <3>1. rest = m
      BY <2>2 DEF WithComma, NeedComma
    <3>2. vs \o us = us /\ vs = <<>> /\ p = start
      BY <1>1, <2>1, <2>2, ConcatEmptySeq
    <3>3. PICK q : JSONReads(start, m, q) /\ Done(q, d, r \o us)
      BY Zenon DEF MemberReads
    <3> HIDE DEF start, rest
    <3>4. JSONReads(start, Body(Comma, ms) \o rest, q)
      BY <2>1, <3>1, <3>2, <3>3, JSONReadsThen, Zenon
    <3> QED
      BY <1>3, <3>2, <3>3, <3>4, Zenon DEF start, rest
  <2>3. CASE ms # <<>>
    <3>1. rest = <<",">> \o m
      <4>1. Len(ms) \in Nat /\ Len(ms) # 0
        <5>1. Len(ms) = 0 => ms = <<>>
          BY <1>1, EmptySeq
        <5> QED
          BY <1>1, <2>3, <5>1
      <4>2. Len(ms) + 1 > 1
        BY <4>1
      <4>3. NeedComma(Len(ms) + 1)
        BY <4>2 DEF NeedComma
      <4> QED
        BY <4>3, Zenon DEF WithComma, Comma
    <3>2. r \o vs \in Seq(Text) /\ (r \o vs) \o us = r \o (vs \o us)
      <4>1. r \o vs \in Seq(Text)
        BY <1>1, ConcatProperties
      <4>2. Associates(r, vs, us)
        BY <1>1, Associated
      <4> QED
        BY <4>1, <4>2, Zenon DEF Associates
    <3>3. JSONReads(p, <<",">>, State("member", <<>>, d, r \o vs))
      BY <2>1, <2>3, <3>2, d \in Int, DoneReads
    <3>4. PICK q : /\ JSONReads(State("member", <<>>, d, r \o vs), m, q)
                   /\ Done(q, d, (r \o vs) \o us)
      BY <3>2, Zenon DEF MemberReads
    <3> HIDE DEF start, rest
    <3>5. JSONReads(p, rest, q)
      BY <3>1, <3>3, <3>4, JSONReadsThen, Zenon
    <3>6. JSONReads(start, Body(Comma, ms) \o rest, q)
      BY <2>1, <3>5, JSONReadsThen, Zenon
    <3> QED
      BY <1>3, <3>2, <3>4, <3>6, Zenon DEF start, rest
  <2> QED
    BY <2>2, <2>3
<1> QED
  BY <1>1, <1>4, Zenon DEF MembersRead

\* An object, the outermost or a value.
LEMMA ObjectReads ==
    ASSUME NEW ms, NEW vs, MembersRead(ms, vs), NEW at \in {"start", "value"}, NEW d \in Nat,
           NEW r \in Seq(Text)
    PROVE  JSONReads(State(at, <<>>, d, r), JSONObject(ms),
                     State(IF d = 0 THEN "end" ELSE "after", <<>>, d, r \o vs))
<1> DEFINE open == <<"{">>
           close == <<"}">>
           start == State(at, <<>>, d, r)
           inside == State("first", <<>>, d + 1, r)
           closed == State(IF d = 0 THEN "end" ELSE "after", <<>>, d, r \o vs)
<1>1. ms \in Seq(Text) /\ vs \in Seq(Text) /\ d + 1 \in Nat \ {0} /\ d \in Int
      /\ d + 1 \in Int /\ (d + 1) - 1 = d /\ (d + 1 = 1 <=> d = 0) /\ <<>> \in Text
      /\ r \o vs \in Seq(Text)
  <2>1. ms \in Seq(Text) /\ vs \in Seq(Text) /\ <<>> \in Text
    BY Texts DEF MembersRead
  <2>2. r \o vs \in Seq(Text)
    BY <2>1, ConcatProperties
  <2> QED
    BY <2>1, <2>2
<1>2. PICK q : /\ JSONReads(inside, Body(Comma, ms), q)
               /\ IF ms = <<>> THEN vs = <<>> /\ q = inside ELSE Done(q, d + 1, r \o vs)
  BY <1>1, Zenon DEF MembersRead
<1>3. JSONReads(start, open, inside)
  <2>1. /\ JSONReads(State("start", <<>>, d, r), <<"{">>, State("first", <<>>, d + 1, r))
        /\ JSONReads(State("value", <<>>, d, r), <<"{">>, State("first", <<>>, d + 1, r))
    BY <1>1, JSONSteps
  <2> QED
    BY <2>1
<1>4. JSONReads(q, close, closed)
  <2>1. CASE ms = <<>>
    <3>1. r \o vs = r /\ q = inside
      BY <1>2, <2>1, ConcatEmptySeq
    <3>2. JSONReads(inside, close, State(IF d + 1 = 1 THEN "end" ELSE "after", <<>>, (d + 1) - 1, r))
      BY <1>1, JSONSteps
    <3> QED
      BY <1>1, <3>1, <3>2, Zenon
  <2>2. CASE ms # <<>>
    <3>1. JSONReads(q, close, State(IF d + 1 = 1 THEN "end" ELSE "after", <<>>, (d + 1) - 1, r \o vs))
      BY <1>1, <1>2, <2>2, DoneReads
    <3> QED
      BY <1>1, <3>1, Zenon
  <2> QED
    BY <2>1, <2>2
<1>5. JSONObject(ms) = open \o Body(Comma, ms) \o close
  BY Zenon DEF JSONObject, Body, WithComma, Comma
<1> HIDE DEF open, close, start, inside, closed
<1>6. JSONReads(start, open \o Body(Comma, ms), q)
  BY <1>2, <1>3, JSONReadsThen, Zenon
<1>7. JSONReads(start, open \o Body(Comma, ms) \o close, closed)
  BY <1>4, <1>6, JSONReadsThen, Zenon
<1> QED
  BY <1>5, <1>7, Zenon DEF start, closed


\* The sextets of three bytes.
FirstOf(a) == (a \div 4) % 64
SecondOf(a, b) == (a % 4) * 16 + ((b \div 16) % 16)
ThirdOf(b, c) == (b % 16) * 4 + ((c \div 64) % 4)
FourthOf(c) == c % 64

HaveSextets(a, b, c, bits) ==
    /\ (bits \div Shift[1]) % 64 = FirstOf(a)
    /\ (bits \div Shift[2]) % 64 = SecondOf(a, b)
    /\ (bits \div Shift[3]) % 64 = ThirdOf(b, c)
    /\ (bits \div Shift[4]) % 64 = FourthOf(c)

LEMMA Sextets ==
    ASSUME NEW a \in 0..255, NEW b \in 0..255, NEW c \in 0..255
    PROVE  HaveSextets(a, b, c, Bits(a, b, c))
<1> DEFINE bits == a * 65536 + b * 256 + c
<1>a. PICK a1 \in 0..63, a0 \in 0..3 : a = 4 * a1 + a0
  <2>1. (a \div 4) \in 0..63 /\ (a % 4) \in 0..3 /\ a = 4 * (a \div 4) + (a % 4)
    OBVIOUS
  <2> QED
    BY <2>1
<1>b. PICK b1 \in 0..15, b0 \in 0..15 : b = 16 * b1 + b0
  <2>1. (b \div 16) \in 0..15 /\ (b % 16) \in 0..15 /\ b = 16 * (b \div 16) + (b % 16)
    OBVIOUS
  <2> QED
    BY <2>1
<1>c. PICK c1 \in 0..3, c0 \in 0..63 : c = 64 * c1 + c0
  <2>1. (c \div 64) \in 0..3 /\ (c % 64) \in 0..63 /\ c = 64 * (c \div 64) + (c % 64)
    OBVIOUS
  <2> QED
    BY <2>1
<1>d. /\ a \div 4 = a1 /\ a % 4 = a0 /\ b \div 16 = b1 /\ b % 16 = b0
      /\ c \div 64 = c1 /\ c % 64 = c0
  BY <1>a, <1>b, <1>c
<1>e. /\ a1 % 64 = a1 /\ b1 % 16 = b1 /\ c1 % 4 = c1
  BY <1>a, <1>b, <1>c
<1>1. (bits \div 262144) % 64 = a1
  <2>1. bits \div 262144 = a1
    BY <1>a, <1>b, <1>c
  <2> QED
    BY <1>e, <2>1
<1>2. (bits \div 4096) % 64 = a0 * 16 + b1
  <2>1. bits \div 4096 = 64 * a1 + (16 * a0 + b1)
    BY <1>a, <1>b, <1>c
  <2> QED
    BY <2>1
<1>3. (bits \div 64) % 64 = b0 * 4 + c1
  <2>1. bits \div 64 = 64 * (16 * a + b1) + (4 * b0 + c1)
    BY <1>b, <1>c
  <2> QED
    BY <2>1
<1>4. (bits \div 1) % 64 = c0
  <2>1. bits \div 1 = 64 * (1024 * a + 4 * b + c1) + c0
    BY <1>c
  <2> QED
    BY <2>1
<1>5. bits = Bits(a, b, c)
  BY SMT DEF Bits
<1>6. Shift[1] = 262144 /\ Shift[2] = 4096 /\ Shift[3] = 64 /\ Shift[4] = 1
  BY SMT DEF Shift
<1>7. (bits \div Shift[1]) % 64 = FirstOf(a)
  BY <1>1, <1>6, <1>d, <1>e, SMT DEF FirstOf
<1>8. (bits \div Shift[2]) % 64 = SecondOf(a, b)
  BY <1>2, <1>6, <1>d, <1>e, SMT DEF SecondOf
<1>9. (bits \div Shift[3]) % 64 = ThirdOf(b, c)
  BY <1>3, <1>6, <1>d, <1>e, SMT DEF ThirdOf
<1>10. (bits \div Shift[4]) % 64 = FourthOf(c)
  BY <1>4, <1>6, <1>d, SMT DEF FourthOf
<1> HIDE DEF bits
<1> QED
  BY <1>5, <1>7, <1>8, <1>9, <1>10, Zenon DEF HaveSextets

\* One to three bytes, with zeros after them, make four sextets.
IsGroup(s, x, y, z) ==
    Base64Group(s) =
        <<Numeral[FirstOf(x)], Numeral[SecondOf(x, y)],
          IF Len(s) >= 2 THEN Numeral[ThirdOf(y, z)] ELSE "=",
          IF Len(s) = 3 THEN Numeral[FourthOf(z)] ELSE "=">>

LEMMA GroupIs ==
    ASSUME NEW s \in Seq(0..255), Len(s) \in 1..3,
           NEW x \in 0..255, NEW y \in 0..255, NEW z \in 0..255,
           x = s[1], y = IF Len(s) >= 2 THEN s[2] ELSE 0, z = IF Len(s) = 3 THEN s[3] ELSE 0
    PROVE  IsGroup(s, x, y, z)
<1> DEFINE p == Numeral[FirstOf(x)]
           q == Numeral[SecondOf(x, y)]
           u == Numeral[ThirdOf(y, z)]
           v == Numeral[FourthOf(z)]
<1>1. CASE Len(s) = 1
  <2>1. Base64Group(s) = <<p, Numeral[(x % 4) * 16], "=", "=">>
    BY <1>1 DEF Base64Group, FirstOf
  <2>2. SecondOf(x, y) = (x % 4) * 16
    BY <1>1 DEF SecondOf
  <2>3. Base64Group(s) = <<p, q, "=", "=">>
    BY <2>1, <2>2
  <2> HIDE DEF p, q, u, v
  <2>4. Base64Group(s) = <<p, q, IF Len(s) >= 2 THEN u ELSE "=", IF Len(s) = 3 THEN v ELSE "=">>
    BY <1>1, <2>3
  <2> QED
    BY <2>4, Zenon DEF IsGroup, p, q, u, v
<1>2. CASE Len(s) = 2
  <2>1. Base64Group(s) = <<p, q, Numeral[(y % 16) * 4], "=">>
    BY <1>2 DEF Base64Group, FirstOf, SecondOf
  <2>2. ThirdOf(y, z) = (y % 16) * 4
    BY <1>2 DEF ThirdOf
  <2>3. Base64Group(s) = <<p, q, u, "=">>
    BY <2>1, <2>2
  <2> HIDE DEF p, q, u, v
  <2>4. Base64Group(s) = <<p, q, IF Len(s) >= 2 THEN u ELSE "=", IF Len(s) = 3 THEN v ELSE "=">>
    BY <1>2, <2>3
  <2> QED
    BY <2>4, Zenon DEF IsGroup, p, q, u, v
<1>3. CASE Len(s) = 3
  <2>1. Base64Group(s) = <<p, q, u, v>>
    BY <1>3 DEF Base64Group, FirstOf, SecondOf, ThirdOf, FourthOf
  <2> HIDE DEF p, q, u, v
  <2>2. Base64Group(s) = <<p, q, IF Len(s) >= 2 THEN u ELSE "=", IF Len(s) = 3 THEN v ELSE "=">>
    BY <1>3, <2>1
  <2> QED
    BY <2>2, Zenon DEF IsGroup, p, q, u, v
<1> QED
  BY <1>1, <1>2, <1>3

\* The bytes that base64 makes a group of.
AreGroupBytes(s, b, k) ==
    /\ s \in Seq(0..255) /\ Len(s) \in 1..3 /\ s[1] = b[k]
    /\ (Len(s) >= 2) = (k + 1 <= Len(b))
    /\ (Len(s) = 3) = (k + 2 <= Len(b))
    /\ Len(s) >= 2 => s[2] = b[k + 1]
    /\ Len(s) = 3 => s[3] = b[k + 2]

LEMMA GroupBytes ==
    ASSUME NEW b \in Seq(0..255), NEW k \in 1..Len(b)
    PROVE  AreGroupBytes(SubSeq(b, k, SmallerOf(k + 2, Len(b))), b, k)
<1> DEFINE n == Len(b)
           m == SmallerOf(k + 2, n)
           s == SubSeq(b, k, m)
<1>1. n \in Nat /\ k \in 1..n /\ \A i \in 1..n : b[i] \in 0..255
  BY ElementOfSeq, LenProperties
<1>2. m = IF k + 2 < n THEN k + 2 ELSE n
  BY DEF SmallerOf
<1> HIDE DEF n, m
<1>3. k \in Int /\ m \in Int /\ k <= m /\ m <= n /\ \A i \in k..m : b[i] \in 0..255
  BY <1>1, <1>2
<1>4. /\ s \in Seq(0..255)
      /\ Len(s) = IF k <= m THEN m - k + 1 ELSE 0
      /\ \A i \in 1..(m - k + 1) : s[i] = b[k + i - 1]
  BY <1>3, SubSeqProperties
<1> HIDE DEF s
<1>5. Len(s) = m - k + 1
  BY <1>3, <1>4
<1>6. Len(s) \in 1..3
  BY <1>1, <1>2, <1>5
<1>7. (Len(s) >= 2) = (k + 1 <= n)
  BY <1>1, <1>2, <1>5
<1>8. (Len(s) = 3) = (k + 2 <= n)
  BY <1>1, <1>2, <1>5
<1>9. s[1] = b[k]
  <2>1. 1 \in 1..(m - k + 1) /\ k + 1 - 1 = k
    BY <1>3
  <2> QED
    BY <1>4, <2>1
<1>10. ASSUME Len(s) >= 2 PROVE s[2] = b[k + 1]
  <2>1. 2 \in 1..(m - k + 1) /\ k + 2 - 1 = k + 1
    BY <1>3, <1>5, <1>10
  <2> QED
    BY <1>4, <2>1
<1>11. ASSUME Len(s) = 3 PROVE s[3] = b[k + 2]
  <2>1. m - k + 1 = 3
    BY <1>5, <1>11
  <2>2. 3 \in 1..(m - k + 1) /\ k + 3 - 1 = k + 2
    BY <1>3, <2>1
  <2> QED
    BY <1>4, <2>2
<1> QED
  BY <1>4, <1>6, <1>7, <1>8, <1>9, <1>10, <1>11 DEF AreGroupBytes, n, m, s

LEMMA Base64Characters ==
    "=" \in Char \ Unsafe /\ \A k \in 0..63 : Numeral[k] \in Char \ Unsafe
<1>1. "=" \in Char
  <2>1. "=" \in Special \cup Letters
    BY DEF Special
  <2> QED
    BY <2>1, Texts
<1>2. \A k \in 0..63 : k \in DOMAIN Numeral
  <2>1. 0..255 \subseteq DOMAIN Numeral
    BY FormattersAssumption
  <2> QED
    BY <2>1
<1>3. \A k \in 0..63 : Numeral[k] \in Char \ Special
  BY <1>2, Texts
<1>4. Unsafe \subseteq Special /\ "=" \notin Unsafe
  BY DEF Unsafe, JSONEscaped, Special
<1> QED
  BY <1>1, <1>3, <1>4

\* Four characters are a text.
LEMMA FourIs ==
    ASSUME NEW C, NEW f, f = [i \in 1..4 |-> f[i]],
           f[1] \in C, f[2] \in C, f[3] \in C, f[4] \in C
    PROVE  f = <<f[1], f[2], f[3], f[4]>> /\ f \in Seq(C)
<1>1. \A i \in 1..4 : i = 1 \/ i = 2 \/ i = 3 \/ i = 4
  OBVIOUS
<1>2. f \in [1..4 -> C]
  BY <1>1
<1>3. f \in Seq(C) /\ Len(f) = 4
  BY <1>2
<1> QED
  BY <1>3

\* A group is the characters of its 24 bits.
LEMMA GroupTextIs ==
    ASSUME NEW n \in Nat, NEW b \in Seq(0..255), n = Len(b), NEW k \in 1..n, NEW g \in Nat,
           k = 3 * g - 2, NEW s, AreGroupBytes(s, b, k)
    PROVE  Base64Group(s) = GroupText(b, g) /\ Base64Group(s) \in PlainText
<1> DEFINE Byte(i) == IF i <= n THEN b[i] ELSE 0
           x == Byte(k)
           y == Byte(k + 1)
           z == Byte(k + 2)
           bits == Bits(x, y, z)
           f == GroupText(b, g)
<1>1. x \in 0..255 /\ y \in 0..255 /\ z \in 0..255
  <2>1. \A i \in 1..n : b[i] \in 0..255
    BY ElementOfSeq
  <2>2. k \in Nat /\ k >= 1
    OBVIOUS
  <2>3. \A i \in Nat \ {0} : Byte(i) \in 0..255
    BY <2>1
  <2> HIDE DEF Byte
  <2> QED
    BY <2>2, <2>3
<1>2. x = s[1] /\ y = (IF Len(s) >= 2 THEN s[2] ELSE 0) /\ z = (IF Len(s) = 3 THEN s[3] ELSE 0)
  BY DEF AreGroupBytes
<1>4. s \in Seq(0..255) /\ Len(s) \in 1..3
  BY DEF AreGroupBytes
<1>5. (Len(s) >= 2) = (k + 1 <= n) /\ (Len(s) = 3) = (k + 2 <= n)
  BY DEF AreGroupBytes
<1>6. f = [i \in 1..4 |-> IF 3 * (g - 1) + i - 1 > n THEN "="
                          ELSE Numeral[(bits \div Shift[i]) % 64]]
  <2>1. 3 * g - 1 = k + 1 /\ 3 * g = k + 2
    OBVIOUS
  <2> HIDE DEF f
  <2> QED
    BY <2>1, Zenon DEF GroupText, f
<1>7. HaveSextets(x, y, z, bits)
  <2> HIDE DEF x, y, z
  <2> QED
    BY <1>1, Sextets, Zenon
<1> HIDE DEF x, y, z, bits, f
<1> DEFINE c1 == FirstOf(x)
           c2 == SecondOf(x, y)
           c3 == ThirdOf(y, z)
           c4 == FourthOf(z)
<1>8. /\ f[1] = Numeral[c1] /\ f[2] = Numeral[c2]
      /\ f[3] = (IF Len(s) >= 2 THEN Numeral[c3] ELSE "=")
      /\ f[4] = (IF Len(s) = 3 THEN Numeral[c4] ELSE "=")
      /\ f = [i \in 1..4 |-> f[i]]
  <2>1. /\ ~ 3 * (g - 1) + 1 - 1 > n /\ ~ 3 * (g - 1) + 2 - 1 > n
        /\ 3 * (g - 1) + 3 - 1 > n <=> ~ Len(s) >= 2
        /\ 3 * (g - 1) + 4 - 1 > n <=> Len(s) # 3
    <3>1. k \in Nat /\ k <= n
      OBVIOUS
    <3> QED
      BY <1>5, <3>1
  <2>2. /\ (bits \div Shift[1]) % 64 = c1 /\ (bits \div Shift[2]) % 64 = c2
        /\ (bits \div Shift[3]) % 64 = c3 /\ (bits \div Shift[4]) % 64 = c4
    BY <1>7, Zenon DEF HaveSextets
  <2> HIDE DEF c1, c2, c3, c4
  <2>3. /\ f[1] = IF 3 * (g - 1) + 1 - 1 > n THEN "=" ELSE Numeral[(bits \div Shift[1]) % 64]
        /\ f[2] = IF 3 * (g - 1) + 2 - 1 > n THEN "=" ELSE Numeral[(bits \div Shift[2]) % 64]
        /\ f[3] = IF 3 * (g - 1) + 3 - 1 > n THEN "=" ELSE Numeral[(bits \div Shift[3]) % 64]
        /\ f[4] = IF 3 * (g - 1) + 4 - 1 > n THEN "=" ELSE Numeral[(bits \div Shift[4]) % 64]
        /\ f = [i \in 1..4 |-> f[i]]
    BY <1>6
  <2> QED
    BY <2>1, <2>2, <2>3
<1>9. /\ Numeral[c1] \in Char \ Unsafe /\ Numeral[c2] \in Char \ Unsafe
      /\ Numeral[c3] \in Char \ Unsafe /\ Numeral[c4] \in Char \ Unsafe
  <2>1. c1 \in 0..63 /\ c2 \in 0..63 /\ c3 \in 0..63 /\ c4 \in 0..63
    BY <1>1 DEF FirstOf, SecondOf, ThirdOf, FourthOf
  <2> HIDE DEF c1, c2, c3, c4
  <2> QED
    BY <2>1, Base64Characters, Zenon
<1> HIDE DEF c1, c2, c3, c4
<1>10. /\ f[1] \in Char \ Unsafe /\ f[2] \in Char \ Unsafe
       /\ f[3] \in Char \ Unsafe /\ f[4] \in Char \ Unsafe
  BY <1>8, <1>9, Base64Characters, Zenon
<1>11. f = <<f[1], f[2], f[3], f[4]>> /\ f \in PlainText
  BY <1>8, <1>10, FourIs, Zenon DEF PlainText
<1>12. Base64Group(s) = <<f[1], f[2], f[3], f[4]>>
  <2>1. IsGroup(s, x, y, z)
    BY <1>1, <1>2, <1>4, GroupIs, Zenon
  <2> QED
    BY <1>8, <2>1, Zenon DEF IsGroup, c1, c2, c3, c4
<1> QED
  BY <1>11, <1>12, Zenon DEF f

LEMMA Base64Is ==
    ASSUME NEW b \in Seq(0..255)
    PROVE  Base64(b) = Base64Text(b) /\ Base64(b) \in PlainText
<1> DEFINE last == (Len(b) + 2) \div 3
           group(g) == Base64Group(SubSeq(b, 3 * g - 2, SmallerOf(3 * g, Len(b))))
           groups == [g \in 1..last |-> group(g)]
<1>1. Base64(b) = FlattenSeq(groups)
  BY Zenon DEF Base64
<1>2. Base64Text(b) = FlattenSeq([g \in 1..last |-> GroupText(b, g)])
  BY Zenon DEF Base64Text
<1>3. Len(b) \in Nat
  BY LenProperties
<1>4. ASSUME NEW g \in 1..last PROVE group(g) = GroupText(b, g) /\ group(g) \in PlainText
  <2> DEFINE n == Len(b)
             k == 3 * g - 2
  <2>1. k \in 1..n /\ g \in Nat /\ 3 * g = k + 2 /\ n \in Nat
    <3>1. n \in Nat /\ g \in 1..((n + 2) \div 3)
      BY <1>3
    <3> HIDE DEF n
    <3>2. 3 * ((n + 2) \div 3) <= n + 2
      BY <3>1
    <3> QED
      BY <3>1, <3>2
  <2>2. AreGroupBytes(SubSeq(b, k, SmallerOf(k + 2, n)), b, k)
    <3> HIDE DEF k
    <3> QED
      BY <2>1, GroupBytes, Zenon
  <2>3. group(g) = Base64Group(SubSeq(b, k, SmallerOf(k + 2, n)))
    BY <2>1, Zenon
  <2> DEFINE s == SubSeq(b, k, SmallerOf(k + 2, n))
  <2>4. n = Len(b) /\ k = 3 * g - 2 /\ AreGroupBytes(s, b, k)
    BY <2>2
  <2> HIDE DEF group, k, n, s
  <2>5. Base64Group(s) = GroupText(b, g) /\ Base64Group(s) \in PlainText
    BY <2>1, <2>4, GroupTextIs
  <2> QED
    BY <2>3, <2>5, Zenon DEF s
<1>5. last \in Nat
  <2> DEFINE n == Len(b)
  <2> HIDE DEF n
  <2>1. n \in Nat
    BY <1>3 DEF n
  <2>2. (n + 2) \div 3 \in Nat
    BY <2>1
  <2> QED
    BY <2>2 DEF n
<1> HIDE DEF last, group
<1>6. groups = [g \in 1..last |-> GroupText(b, g)]
  BY <1>4
<1>7. groups \in Seq(PlainText)
  BY <1>4, <1>5
<1> HIDE DEF groups
<1>8. FlattenSeq(groups) \in PlainText
  BY <1>7, FlattenTyped DEF PlainText
<1> QED
  BY <1>1, <1>2, <1>6, <1>8, Zenon


LEMMA LettersAre ==
    /\ Letters \subseteq Char
    /\ "." \in Letters /\ "R" \in Letters /\ "T" \in Letters /\ "t" \in Letters
    /\ "l" \in Letters /\ "m" \in Letters /\ "c" \in Letters /\ "f" \in Letters
    /\ "i" \in Letters /\ "F" \in Letters /\ "I" \in Letters /\ "1" \in Letters
    /\ "n" \in Letters /\ "u" \in Letters /\ "-" \in Letters /\ "S" \in Letters
    /\ "HTTP/1.1" \in Letters
<1>1. Letters \subseteq Char
  <2>1. \A c \in Special \cup Letters : c \in Char
    BY Texts
  <2> QED
    BY <2>1
<1> QED
  BY <1>1, Zenon DEF Letters

LEMMA EscapedText ==
    ASSUME NEW s \in Text, NEW escaped
    PROVE  Escape(s, escaped) \in Text
<1>1. "n" \in Char
  BY LettersAre
<1> QED
  BY <1>1, EscapeAppend

\* What TruncateStrings leaves of a string.
LeavesOf(s) ==
    /\ Truncated(s) \in Text /\ Rest(s) \in PlainText
    /\ Truncated(s) \o Rest(s) =
         IF opts.truncate \in 1..(Len(s) - 1) THEN SubSeq(s, 1, opts.truncate) \o Ellipsis
         ELSE s

LEMMA Truncation ==
    ASSUME opts \in OptionValues, NEW s \in Text
    PROVE  LeavesOf(s)
<1> DEFINE n == opts.truncate
           cut == SubSeq(s, 1, n)
<1>1. n \in Nat /\ s \in Seq(Char) /\ Len(s) \in Nat
  BY DEF OptionValues, Text
<1>2. "." \in Char /\ "." \notin Unsafe
  <2>1. "." \in Char
    BY LettersAre
  <2> QED
    BY <2>1 DEF Unsafe, JSONEscaped
<1>3. Ellipsis \in PlainText /\ <<>> \in PlainText
  BY <1>2 DEF Ellipsis, PlainText
<1>4. CASE n \in 1..(Len(s) - 1)
  <2>1. cut \in Seq(Char) /\ Len(cut) = n
    BY <1>1, <1>4, SubSeqProperties
  <2>2. n > 0 /\ Len(s) > n
    BY <1>1, <1>4
  <2>3. Truncated(s) = cut
    BY <2>2 DEF Truncated
  <2>4. Rest(s) = Ellipsis
    BY <1>1, <2>1, <2>2, <2>3 DEF Rest
  <2> HIDE DEF cut, n
  <2>5. (IF n \in 1..(Len(s) - 1) THEN cut \o Ellipsis ELSE s) = cut \o Ellipsis
    BY <1>4
  <2> QED
    BY <1>3, <2>1, <2>3, <2>4, <2>5, Zenon DEF LeavesOf, Text, n, cut
<1>5. CASE n \notin 1..(Len(s) - 1)
  <2>1. ~(n > 0 /\ Len(s) > n)
    BY <1>1, <1>5
  <2>2. Truncated(s) = s
    BY <2>1 DEF Truncated
  <2>3. Rest(s) = <<>>
    BY <1>1, <2>2 DEF Rest
  <2>4. s \o <<>> = s
    BY <1>1, ConcatEmptySeq
  <2> HIDE DEF cut, n
  <2>5. (IF n \in 1..(Len(s) - 1) THEN cut \o Ellipsis ELSE s) = s
    BY <1>5
  <2> QED
    BY <1>3, <2>2, <2>3, <2>4, <2>5, Zenon DEF LeavesOf, n, cut
<1> QED
  BY <1>4, <1>5

LEMMA TruncatedClean ==
    ASSUME opts \in OptionValues, NEW s \in Text, Clean(s)
    PROVE  Clean(Truncated(s))
<1> DEFINE n == opts.truncate
           cut == SubSeq(s, 1, n)
<1>1. n \in Nat /\ s \in Seq(Char) /\ Len(s) \in Nat /\ DOMAIN s = 1..Len(s)
  BY DEF OptionValues, Text
<1>2. CASE n > 0 /\ Len(s) > n
  <2>1. cut \in Seq(Char) /\ Len(cut) = n /\ \A i \in 1..n : cut[i] = s[i]
    BY <1>1, <1>2, SubSeqProperties
  <2> HIDE DEF cut, n
  <2>2. DOMAIN cut = 1..n
    BY <2>1
  <2>3. \A i \in 1..n : i \in DOMAIN s
    BY <1>1, <1>2
  <2>4. Clean(cut)
    BY <2>1, <2>2, <2>3 DEF Clean
  <2> QED
    BY <1>2, <2>4, Zenon DEF Truncated, cut, n
<1>3. CASE ~(n > 0 /\ Len(s) > n)
  BY <1>3, Zenon DEF Truncated
<1> QED
  BY <1>2, <1>3

\* The value of a field is read as it was logged.
LEMMA JSONValueReads ==
    ASSUME opts \in OptionValues, NEW f \in Fields, CleanField(f)
    PROVE  ValueReads(JSONValue(f), <<ValueText(f, Base64Text(f.text))>>)
<1> DEFINE v == f.text
           binary == Base64Text(v)
           value == ValueText(f, binary)
           s == JSONValue(f)
<1>a. /\ f.type = "binary" => v \in Seq(0..255)
      /\ f.type # "binary" => v \in Text
      /\ f.type = "number" => v = <<Numeral[f.int]>>
      /\ f.type = "time" => \A i \in DOMAIN v : v[i] \notin Special
      /\ f.type \in {"string", "number", "object", "error", "time", "unknown", "binary"}
  BY FieldTypes
<1>b. f.int \in DOMAIN Numeral
  BY FieldTypes
<1>1. CASE f.sensitive
  <2>1. "R" \in Char /\ "R" \notin Unsafe
    BY LettersAre DEF Unsafe, JSONEscaped
  <2>2. RedactedValue \in PlainText
    BY <2>1 DEF RedactedValue, PlainText
  <2>3. ValueReads(Quoted(RedactedValue), <<RedactedValue>>)
    BY <2>2, SpellsPlain, QuotedReads
  <2>4. s = Quoted(RedactedValue) /\ value = RedactedValue
    BY <1>1, Zenon DEF JSONValue, Redacted, ValueText
  <2> QED
    BY <2>3, <2>4, Zenon
<1>2. CASE ~f.sensitive /\ f.type = "number"
  <2>1. v = <<Numeral[f.int]>> /\ Numeral[f.int] \in Char
    BY <1>a, <1>b, <1>2, Texts
  <2>2. Numeral[f.int] \in Literals
    BY <1>b DEF Literals, Range
  <2>3. s = v /\ value = v
    BY <1>2 DEF JSONValue, Redacted, ValueText
  <2>4. ValueReads(<<Numeral[f.int]>>, << <<Numeral[f.int]>> >>)
    BY <2>1, <2>2, LiteralReads
  <2> QED
    BY <2>1, <2>3, <2>4, Zenon
<1>3. CASE ~f.sensitive /\ f.type = "string"
  <2> DEFINE a == Truncated(v)
             b == Rest(v)
  <2>1. v \in Text
    BY <1>a, <1>3
  <2>2. LeavesOf(v)
    BY <2>1, Truncation
  <2>3. a \in Text /\ b \in PlainText
    BY <2>2, Zenon DEF LeavesOf
  <2>4. b \in Text /\ Spells(b, b) /\ Spells(Escape(a, JSONEscaped), a)
    <3>1. Clean(v)
      BY <1>3 DEF CleanField
    <3>2. Clean(a)
      BY <2>1, <3>1, TruncatedClean
    <3> QED
      BY <2>3, <3>2, SpellsPlain, SpellsEscaped, Zenon
  <2>5. Escape(a, JSONEscaped) \in Text
    BY <2>3, EscapedText
  <2>6. Spells(Escape(a, JSONEscaped) \o b, a \o b)
    BY <2>3, <2>4, SpellsThen
  <2>7. Escape(a, JSONEscaped) \o b \in Text /\ a \o b \in Text
    BY <2>3, <2>4, <2>5, Texts
  <2>8. ValueReads(Quoted(Escape(a, JSONEscaped) \o b), <<a \o b>>)
    BY <2>6, <2>7, QuotedReads
  <2>9. s = Quoted(Escape(a, JSONEscaped) \o b)
    BY <1>3 DEF JSONValue, Redacted
  <2>10. value = a \o b
    <3>1. a \o b = IF opts.truncate \in 1..(Len(v) - 1) THEN SubSeq(v, 1, opts.truncate) \o Ellipsis
                   ELSE v
      BY <2>2, Zenon DEF LeavesOf
    <3>2. value = IF opts.truncate \in 1..(Len(v) - 1) THEN SubSeq(v, 1, opts.truncate) \o Ellipsis
                  ELSE v
      BY <1>3 DEF ValueText
    <3> QED
      BY <3>1, <3>2, Zenon
  <2> QED
    BY <2>8, <2>9, <2>10, Zenon
<1>4. CASE ~f.sensitive /\ f.type \in {"object", "error"}
  <2>1. v \in Text /\ s = Quoted(Escape(v, JSONEscaped)) /\ value = v
    BY <1>a, <1>4 DEF JSONValue, Redacted, ValueText, JSONString
  <2>2. Escape(v, JSONEscaped) \in Text
    BY <2>1, EscapedText
  <2>3. ValueReads(Quoted(Escape(v, JSONEscaped)), <<v>>)
    <3>1. Clean(v)
      BY <1>4 DEF CleanField
    <3> QED
      BY <2>1, <2>2, <3>1, SpellsEscaped, QuotedReads
  <2> QED
    BY <2>1, <2>3, Zenon
<1>5. CASE ~f.sensitive /\ f.type = "time"
  <2>1. s = Quoted(v) /\ value = v
    BY <1>5 DEF JSONValue, Redacted, ValueText
  <2>2. v \in PlainText
    <3>1. v \in Seq(Char) /\ \A i \in DOMAIN v : v[i] \notin Special
      BY <1>a, <1>5 DEF Text
    <3>2. Unsafe \subseteq Special
      BY DEF Unsafe, JSONEscaped, Special
    <3> QED
      BY <3>1, <3>2 DEF PlainText
  <2>3. ValueReads(Quoted(v), <<v>>)
    BY <2>2, SpellsPlain, QuotedReads
  <2> QED
    BY <2>1, <2>3, Zenon
<1>6. CASE ~f.sensitive /\ f.type = "binary"
  <2>1. s = Quoted(Base64(v)) /\ value = binary
    BY <1>6, Zenon DEF JSONValue, Redacted, ValueText
  <2>2. Base64(v) = binary /\ Base64(v) \in PlainText
    BY <1>a, <1>6, Base64Is
  <2>3. ValueReads(Quoted(Base64(v)), <<Base64(v)>>)
    BY <2>2, SpellsPlain, QuotedReads
  <2> QED
    BY <2>1, <2>2, <2>3, Zenon
<1>7. CASE ~f.sensitive /\ f.type = "unknown"
  <2>1. s = Null /\ value = Null
    BY <1>7 DEF JSONValue, Redacted, ValueText
  <2> QED
    BY <2>1, NullReads, Zenon
<1>8. \/ f.sensitive
      \/ ~f.sensitive /\ f.type = "number"
      \/ ~f.sensitive /\ f.type = "string"
      \/ ~f.sensitive /\ f.type \in {"object", "error"}
      \/ ~f.sensitive /\ f.type = "time"
      \/ ~f.sensitive /\ f.type = "binary"
      \/ ~f.sensitive /\ f.type = "unknown"
  BY <1>a, Zenon
<1> QED
  BY <1>1, <1>2, <1>3, <1>4, <1>5, <1>6, <1>7, <1>8, Zenon

--------------------------------------------------------------------------------
(* A JSON line.                                                             *)

\* A member that may be missing, and what is read of it.
MayRead(part, told) ==
    \/ part = <<>> /\ told = <<>>
    \/ \E m : part = <<m>> /\ MemberReads(m, told)

LEMMA PartRead ==
    ASSUME NEW ms, NEW vs, NEW part, NEW told, MembersRead(ms, vs), MayRead(part, told)
    PROVE  MembersRead(ms \o part, vs \o told)
<1>1. ms \in Seq(Text) /\ vs \in Seq(Text)
  BY DEF MembersRead
<1>2. CASE part = <<>> /\ told = <<>>
  BY <1>1, <1>2, ConcatEmptySeq
<1>3. ASSUME NEW m, part = <<m>>, MemberReads(m, told)
      PROVE  MembersRead(ms \o part, vs \o told)
  <2>1. MembersRead(Append(ms, m), vs \o told)
    BY <1>3, OneMoreRead
  <2>2. m \in Text
    BY <1>3 DEF MemberReads
  <2>3. Append(ms, m) = ms \o <<m>>
    BY <1>1, <2>2, AppendIsConcat
  <2> QED
    BY <1>3, <2>1, <2>3, Zenon
<1> QED
  BY <1>2, <1>3 DEF MayRead

\* A function along a sequence.
Along(g, s) == [i \in DOMAIN s |-> g[s[i]]]

AlongGoesOn(g, s, c) == Along(g, Append(s, c)) = Append(Along(g, s), g[c])

LEMMA AlongAppend ==
    ASSUME NEW C, NEW D, NEW g \in [C -> D], NEW s \in Seq(C), NEW c \in C
    PROVE  /\ Along(g, s) \in Seq(D) /\ AlongGoesOn(g, s, c)
           /\ Along(g, <<>>) = <<>>
<1> DEFINE n == Len(s)
           t == Append(s, c)
           a == Along(g, s)
           b == Append(a, g[c])
<1>1. n \in Nat /\ DOMAIN s = 1..n /\ \A i \in 1..n : s[i] \in C
  BY LenProperties, ElementOfSeq
<1>2. DOMAIN t = 1..(n + 1) /\ t[n + 1] = c /\ \A i \in 1..n : t[i] = s[i]
  BY AppendProperties
<1>3. a \in [1..n -> D] /\ a \in Seq(D) /\ Len(a) = n /\ \A i \in 1..n : a[i] = g[s[i]]
  BY <1>1 DEF Along
<1>4. g[c] \in D
  OBVIOUS
<1> HIDE DEF a
<1>5. DOMAIN b = 1..(n + 1) /\ b[n + 1] = g[c] /\ (\A i \in 1..n : b[i] = a[i])
      /\ b \in Seq(D) /\ Len(b) = n + 1
  BY <1>1, <1>3, <1>4, AppendProperties
<1> HIDE DEF t, b, n
<1>6. b = [i \in 1..(n + 1) |-> b[i]]
  BY <1>5, LenProperties
<1>7. \A i \in 1..(n + 1) : b[i] = g[t[i]]
  BY <1>1, <1>2, <1>3, <1>5
<1>8. Along(g, t) = b
  BY <1>2, <1>6, <1>7 DEF Along
<1>9. Along(g, <<>>) = <<>>
  BY DEF Along
<1> QED
  BY <1>3, <1>8, <1>9, Zenon DEF AlongGoesOn, a, b, t

JSONMember(f) == Member(Escape(Keys[f.key], JSONEscaped), JSONValue(f))
JSONTold(f) == <<Keys[f.key], ValueText(f, Base64Text(f.text))>>

CleanFields == {f \in Fields : CleanField(f)}
JSONMembers == [f \in CleanFields |-> JSONMember(f)]
JSONAllTold == [f \in CleanFields |-> JSONTold(f)]

LEMMA JSONFieldReads ==
    ASSUME opts \in OptionValues, NEW f \in CleanFields
    PROVE  MemberReads(JSONMember(f), JSONTold(f))
<1> DEFINE k == Keys[f.key]
           v == ValueText(f, Base64Text(f.text))
<1>a. f \in Fields /\ CleanField(f)
  BY DEF CleanFields
<1>1. k \in Text /\ Clean(k)
  BY <1>a, FieldTypes DEF CleanField
<1>2. ValueReads(JSONValue(f), <<v>>)
  BY <1>a, JSONValueReads
<1>3. v \in Text
  <2>1. <<v>> \in Seq(Text)
    BY <1>2, Zenon DEF ValueReads
  <2> HIDE DEF v
  <2>2. 1 \in 1..Len(<<v>>) /\ <<v>>[1] = v
    OBVIOUS
  <2> QED
    BY <2>1, <2>2, ElementOfSeq
<1> HIDE DEF v, k
<1>4. Escape(k, JSONEscaped) \in Text /\ Spells(Escape(k, JSONEscaped), k)
  BY <1>1, EscapedText, SpellsEscaped
<1>5. MemberReads(Member(Escape(k, JSONEscaped), JSONValue(f)), <<k>> \o <<v>>)
  BY <1>1, <1>2, <1>4, KeyAndValueRead
<1>6. Grows(k, v, v, v)
  BY <1>1, <1>3, Growing
<1>7. <<k>> \o <<v>> = <<k, v>>
  BY <1>6, Zenon DEF Grows
<1> QED
  BY <1>5, <1>7, Zenon DEF JSONMember, JSONTold, k, v

\* R relates parts of a line to what is read of them.  If it does so with one field
\* after another then it does so with all of them.
LEMMA Collected ==
    ASSUME NEW C, NEW R, NEW g \in [C -> Text], NEW h \in [C -> Seq(Text)],
           NEW ms \in Seq(Text), NEW vs \in Seq(Text), <<ms, vs>> \in R,
           ASSUME NEW m \in Seq(Text), NEW v \in Seq(Text), <<m, v>> \in R, NEW c \in C
           PROVE  <<Append(m, g[c]), v \o h[c]>> \in R,
           NEW s \in Seq(C)
    PROVE  <<ms \o Along(g, s), vs \o FlattenSeq(Along(h, s))>> \in R
<1> DEFINE Reading(u) == <<ms \o Along(g, u), vs \o FlattenSeq(Along(h, u))>> \in R
           P == {u \in Seq(C) : Reading(u)}
<1>1. <<>> \in P
  <2>1. Along(g, <<>>) = <<>> /\ Along(h, <<>>) = <<>>
    BY DEF Along
  <2>2. ms \o <<>> = ms /\ vs \o <<>> = vs
    BY ConcatEmptySeq
  <2>3. Reading(<<>>)
    BY <2>1, <2>2, FlattenNone, Zenon
  <2> HIDE DEF Reading
  <2> QED
    BY <2>3, EmptySeq
<1>2. ASSUME NEW u \in Seq(C), NEW c \in C, u \in P PROVE Append(u, c) \in P
  <2> DEFINE a == Along(g, u)
             b == Along(h, u)
             m == g[c]
             v == h[c]
  <2>1. <<ms \o a, vs \o FlattenSeq(b)>> \in R
    BY <1>2
  <2>2. /\ a \in Seq(Text) /\ AlongGoesOn(g, u, c)
        /\ b \in Seq(Seq(Text)) /\ AlongGoesOn(h, u, c)
    BY AlongAppend
  <2>3. m \in Text /\ v \in Seq(Text)
    OBVIOUS
  <2>4. Along(g, Append(u, c)) = Append(a, m) /\ Along(h, Append(u, c)) = Append(b, v)
    BY <2>2, Zenon DEF AlongGoesOn
  <2> HIDE DEF a, b
  <2>5. FlattenSeq(b) \in Seq(Text) /\ FlattenGoesOn(b, v)
    BY <2>2, <2>3, FlattenTyped
  <2>6. FlattenSeq(Append(b, v)) = FlattenSeq(b) \o v
    BY <2>5, Zenon DEF FlattenGoesOn
  <2>7. ms \o a \in Seq(Text) /\ vs \o FlattenSeq(b) \in Seq(Text)
    BY <2>2, <2>5, ConcatProperties
  <2>8. <<Append(ms \o a, m), (vs \o FlattenSeq(b)) \o v>> \in R
    BY <2>1, <2>7, Zenon
  <2>9. Append(ms \o a, m) = ms \o Append(a, m)
    <3>1. ms \o a \in Seq(Text) /\ <<m>> \in Seq(Text)
      BY <2>3, <2>7
    <3>2. Append(ms \o a, m) = (ms \o a) \o <<m>> /\ Append(a, m) = a \o <<m>>
      BY <2>2, <2>3, <3>1, AppendIsConcat
    <3>3. Associates(ms, a, <<m>>)
      BY <2>2, <3>1, Associated
    <3> QED
      BY <3>2, <3>3, Zenon DEF Associates
  <2>10. (vs \o FlattenSeq(b)) \o v = vs \o (FlattenSeq(b) \o v)
    <3>1. Associates(vs, FlattenSeq(b), v)
      BY <2>3, <2>5, Associated
    <3> QED
      BY <3>1, Zenon DEF Associates
  <2>11. Reading(Append(u, c))
    BY <2>4, <2>6, <2>8, <2>9, <2>10, Zenon
  <2>12. Append(u, c) \in Seq(C)
    BY AppendProperties
  <2> HIDE DEF Reading
  <2> QED
    BY <2>11, <2>12
<1> HIDE DEF P
<1>3. Seq(C) \subseteq P
  BY <1>1, <1>2, SeqInduction
<1>4. s \in P
  BY <1>3
<1> QED
  BY <1>4 DEF P

LEMMA JSONFieldsRead ==
    ASSUME opts \in OptionValues, NEW ms, NEW vs, MembersRead(ms, vs),
           NEW fs \in Seq(CleanFields)
    PROVE  MembersRead(ms \o Along(JSONMembers, fs), vs \o FlattenSeq(Along(JSONAllTold, fs)))
<1> DEFINE R == {w \in Seq(Text) \X Seq(Text) : MembersRead(w[1], w[2])}
<1>1. ASSUME NEW f \in CleanFields
      PROVE  MemberReads(JSONMember(f), JSONTold(f)) /\ JSONMember(f) \in Text
             /\ JSONTold(f) \in Seq(Text)
  BY JSONFieldReads DEF MemberReads
<1>2. JSONMembers \in [CleanFields -> Text] /\ JSONAllTold \in [CleanFields -> Seq(Text)]
  BY <1>1 DEF JSONMembers, JSONAllTold
<1>3. ms \in Seq(Text) /\ vs \in Seq(Text)
  BY DEF MembersRead
<1>4. <<ms, vs>> \in R
  BY <1>3
<1>5. ASSUME NEW m \in Seq(Text), NEW v \in Seq(Text), <<m, v>> \in R, NEW f \in CleanFields
      PROVE  <<Append(m, JSONMembers[f]), v \o JSONAllTold[f]>> \in R
  <2>1. MembersRead(Append(m, JSONMember(f)), v \o JSONTold(f))
    BY <1>1, <1>5, OneMoreRead
  <2>2. JSONMembers[f] = JSONMember(f) /\ JSONAllTold[f] = JSONTold(f)
    BY DEF JSONMembers, JSONAllTold
  <2>3. Append(m, JSONMember(f)) \in Seq(Text) /\ v \o JSONTold(f) \in Seq(Text)
    BY <2>1, Zenon DEF MembersRead
  <2> QED
    BY <2>1, <2>2, <2>3
<1> HIDE DEF R
<1>6. <<ms \o Along(JSONMembers, fs), vs \o FlattenSeq(Along(JSONAllTold, fs))>> \in R
  BY <1>2, <1>3, <1>4, <1>5, Collected
<1> QED
  BY <1>6 DEF R

\* Formatter's own texts.
LEMMA OwnTexts ==
    \A s \in {TimeKey, LevelKey, MessageKey, CallerKey, LevelText, CallerText, FileKey, LineKey,
              FunctionKey} :
        s \in PlainText /\ s \in Text /\ Spells(s, s)
<1>1. /\ "t" \in Char \ Unsafe /\ "l" \in Char \ Unsafe
      /\ "m" \in Char \ Unsafe /\ "c" \in Char \ Unsafe
      /\ "I" \in Char \ Unsafe /\ "f" \in Char \ Unsafe
      /\ "i" \in Char \ Unsafe /\ "F" \in Char \ Unsafe
  BY LettersAre DEF Unsafe, JSONEscaped
<1>2. ASSUME NEW c \in Char \ Unsafe
      PROVE  <<c>> \in PlainText /\ <<c>> \in Text /\ Spells(<<c>>, <<c>>)
  <2>1. <<c>> \in PlainText
    BY DEF PlainText
  <2> QED
    BY <2>1, SpellsPlain
<1> QED
  BY <1>1, <1>2 DEF TimeKey, LevelKey, MessageKey, CallerKey, LevelText, CallerText, FileKey,
                    LineKey, FunctionKey

LEMMA TimeTextPlain ==
    ASSUME NEW t \in Times
    PROVE  TimeText(t) \in PlainText /\ CLFTimeText(t) \in PlainText
<1>1. t.ms \in DOMAIN Numeral /\ Second(t) \in DOMAIN Numeral
  BY FormattersAssumption
<1>2. Numeral[t.ms] \in Char \ Special /\ Numeral[Second(t)] \in Char \ Special
  BY <1>1, Texts
<1>3. Unsafe \subseteq Special
  BY DEF Unsafe, JSONEscaped, Special
<1>4. "T" \in Char \ Unsafe /\ "S" \in Char \ Unsafe
  BY LettersAre DEF Unsafe, JSONEscaped
<1> HIDE DEF Second
<1> QED
  BY <1>2, <1>3, <1>4 DEF TimeText, CLFTimeText, PlainText

\* A string member of the formatter's own.
LEMMA OwnMemberReads ==
    ASSUME NEW k \in Text, Spells(k, k), NEW s \in Text, NEW t \in Text, Spells(s, t)
    PROVE  MemberReads(Member(k, Quoted(s)), <<k, t>>)
<1>1. ValueReads(Quoted(s), <<t>>)
  BY QuotedReads
<1>2. MemberReads(Member(k, Quoted(s)), <<k>> \o <<t>>)
  BY <1>1, KeyAndValueRead
<1>3. Grows(k, t, t, t)
  BY Growing
<1> QED
  BY <1>2, <1>3, Zenon DEF Grows

\* The caller is an object of three members.
CallerMembers ==
    <<Member(FileKey, JSONString(CallerText)), Member(LineKey, LineNumber),
      Member(FunctionKey, JSONString(CallerText))>>

CallerRead == <<CallerKey, FileKey, CallerText, LineKey, LineNumber, FunctionKey, CallerText>>

\* A pair, two more pairs and the key before them: what seven texts in a row are.
SevenInARow(p, q, r, s, t, u, v) ==
    <<p>> \o ((<<q, r>> \o <<s, t>>) \o <<u, v>>) = <<p, q, r, s, t, u, v>>

\* What a concatenation has at each place.
SetOut(s, t, st) ==
    /\ st \in Seq(Text) /\ Len(st) = Len(s) + Len(t)
    /\ \A i \in 1..Len(s) + Len(t) : st[i] = IF i <= Len(s) THEN s[i] ELSE t[i - Len(s)]

LEMMA SetsOut ==
  ASSUME NEW s \in Seq(Text), NEW t \in Seq(Text)
  PROVE  SetOut(s, t, s \o t)
BY ConcatProperties DEF SetOut

LEMMA SevenTexts ==
  ASSUME NEW p \in Text, NEW q \in Text, NEW r \in Text, NEW s \in Text,
         NEW t \in Text, NEW u \in Text, NEW v \in Text
  PROVE  SevenInARow(p, q, r, s, t, u, v)
<1> DEFINE four == <<q, r>> \o <<s, t>>
           six == four \o <<u, v>>
           seven == <<p>> \o six
<1>1. /\ <<p>> \in Seq(Text) /\ <<q, r>> \in Seq(Text) /\ <<s, t>> \in Seq(Text)
      /\ <<u, v>> \in Seq(Text)
  OBVIOUS
<1>2. /\ four \in Seq(Text) /\ Len(four) = 4
      /\ four[1] = q /\ four[2] = r /\ four[3] = s /\ four[4] = t
  BY <1>1, ConcatProperties
<1> HIDE DEF four
<1>3. /\ six \in Seq(Text) /\ Len(six) = 6
      /\ six[1] = q /\ six[2] = r /\ six[3] = s /\ six[4] = t /\ six[5] = u /\ six[6] = v
  <2>1. /\ six \in Seq(Text) /\ Len(six) = 6
        /\ \A i \in 1..6 : six[i] = IF i <= 4 THEN four[i] ELSE <<u, v>>[i - 4]
    <3>1. Len(four) = 4 /\ Len(<<u, v>>) = 2
      BY <1>2
    <3>2. SetOut(four, <<u, v>>, six)
      BY <1>1, <1>2, SetsOut, Zenon
    <3> HIDE DEF six
    <3> QED
      BY <3>1, <3>2 DEF SetOut
  <2>2. six[1] = four[1] /\ six[2] = four[2] /\ six[3] = four[3] /\ six[4] = four[4]
    BY <2>1
  <2>3. six[5] = <<u, v>>[1] /\ six[6] = <<u, v>>[2]
    BY <2>1
  <2> QED
    BY <1>2, <2>1, <2>2, <2>3
<1> HIDE DEF six
<1>4. /\ seven \in Seq(Text) /\ Len(seven) = 7
      /\ seven[1] = p /\ seven[2] = q /\ seven[3] = r /\ seven[4] = s
      /\ seven[5] = t /\ seven[6] = u /\ seven[7] = v
  <2>1. /\ seven \in Seq(Text) /\ Len(seven) = 7
        /\ \A i \in 1..7 : seven[i] = IF i <= 1 THEN <<p>>[i] ELSE six[i - 1]
    <3>1. Len(<<p>>) = 1 /\ Len(six) = 6
      BY <1>3
    <3>2. SetOut(<<p>>, six, seven)
      BY <1>1, <1>3, SetsOut, Zenon
    <3> HIDE DEF seven
    <3> QED
      BY <3>1, <3>2 DEF SetOut
  <2>2. seven[1] = <<p>>[1]
    BY <2>1
  <2>3. /\ seven[2] = six[1] /\ seven[3] = six[2] /\ seven[4] = six[3]
        /\ seven[5] = six[4] /\ seven[6] = six[5] /\ seven[7] = six[6]
    BY <2>1
  <2> QED
    BY <1>3, <2>1, <2>2, <2>3
<1> HIDE DEF seven
<1>5. seven = <<p, q, r, s, t, u, v>>
  BY <1>4
<1> QED
  BY <1>5, Zenon DEF SevenInARow, seven, six, four

LEMMA CallerReads == MemberReads(Member(CallerKey, JSONObject(CallerMembers)), CallerRead)
<1> DEFINE a == Member(FileKey, JSONString(CallerText))
           b == Member(LineKey, LineNumber)
           c == Member(FunctionKey, JSONString(CallerText))
           u == <<FileKey, CallerText>>
           v == <<LineKey, LineNumber>>
           w == <<FunctionKey, CallerText>>
           vs == u \o v \o w
<1>1. /\ FileKey \in Text /\ LineKey \in Text /\ FunctionKey \in Text /\ CallerText \in Text
      /\ CallerKey \in Text
      /\ Spells(FileKey, FileKey) /\ Spells(LineKey, LineKey) /\ Spells(FunctionKey, FunctionKey)
      /\ Spells(CallerKey, CallerKey)
  BY OwnTexts
<1>2. Escape(CallerText, JSONEscaped) \in Text
      /\ Spells(Escape(CallerText, JSONEscaped), CallerText)
  <2>1. Clean(CallerText)
    BY DEF CallerText, Clean
  <2> QED
    BY <1>1, <2>1, EscapedText, SpellsEscaped
<1>3. MemberReads(a, u) /\ MemberReads(c, w)
  BY <1>1, <1>2, OwnMemberReads DEF JSONString
<1>4. MemberReads(b, v)
  <2>1. "1" \in Literals /\ "1" \in Char
    BY LettersAre DEF Literals, Range, LineNumber
  <2>2. ValueReads(LineNumber, <<LineNumber>>)
    BY <2>1, LiteralReads DEF LineNumber
  <2>3. MemberReads(b, <<LineKey>> \o <<LineNumber>>)
    BY <1>1, <2>2, KeyAndValueRead
  <2>4. LineNumber \in Text
    BY <2>1, Texts DEF LineNumber
  <2>5. Grows(LineKey, LineNumber, LineNumber, LineNumber)
    BY <1>1, <2>4, Growing
  <2> QED
    BY <2>3, <2>5, Zenon DEF Grows
<1>5. /\ a \in Text /\ b \in Text /\ c \in Text
      /\ u \in Seq(Text) /\ v \in Seq(Text) /\ w \in Seq(Text)
  BY <1>3, <1>4, Zenon DEF MemberReads
<1> HIDE DEF a, b, c
<1>6. MembersRead(Append(<<>>, a), <<>> \o u)
  BY <1>3, NoMembersRead, OneMoreRead, Zenon
<1>7. MembersRead(Append(Append(<<>>, a), b), (<<>> \o u) \o v)
  BY <1>4, <1>6, OneMoreRead, Zenon
<1>8. MembersRead(Append(Append(Append(<<>>, a), b), c), ((<<>> \o u) \o v) \o w)
  BY <1>3, <1>7, OneMoreRead, Zenon
<1>9. Grows(a, b, c, c)
  BY <1>5, Growing
<1>10. <<>> \o u = u
  BY <1>5, ConcatEmptySeq
<1>11. MembersRead(<<a, b, c>>, vs)
  BY <1>8, <1>9, <1>10, Zenon DEF Grows
<1>12. CallerMembers = <<a, b, c>>
  BY Zenon DEF CallerMembers, a, b, c
<1>13. vs \in Seq(Text)
  BY <1>5, ConcatProperties
<1> HIDE DEF u, v, w, vs
<1>14. ValueReads(JSONObject(CallerMembers), vs)
  <2>1. \A d \in Nat \ {0}, r \in Seq(Text) :
          JSONReads(State("value", <<>>, d, r), JSONObject(CallerMembers),
                    State("after", <<>>, d, r \o vs))
    <3> SUFFICES ASSUME NEW d \in Nat \ {0}, NEW r \in Seq(Text)
                 PROVE  JSONReads(State("value", <<>>, d, r), JSONObject(CallerMembers),
                                  State("after", <<>>, d, r \o vs))
      OBVIOUS
    <3>1. MembersRead(CallerMembers, vs)
      BY <1>11, <1>12, Zenon
    <3>2. JSONReads(State("value", <<>>, d, r), JSONObject(CallerMembers),
                    State(IF d = 0 THEN "end" ELSE "after", <<>>, d, r \o vs))
      BY <3>1, ObjectReads
    <3>3. d # 0
      OBVIOUS
    <3> QED
      BY <3>2, <3>3, Zenon
  <2>2. JSONObject(CallerMembers) \in Text
    <3>1. 1 \in Nat \ {0} /\ <<>> \in Seq(Text)
      OBVIOUS
    <3> QED
      BY <2>1, <3>1 DEF JSONReads, Reads
  <2>3. \A d \in Nat \ {0}, r \in Seq(Text) : Done(State("after", <<>>, d, r \o vs), d, r \o vs)
    BY DEF Done
  <2> QED
    BY <1>13, <2>1, <2>2, <2>3, Zenon DEF ValueReads
<1>15. MemberReads(Member(CallerKey, JSONObject(CallerMembers)), <<CallerKey>> \o vs)
  BY <1>1, <1>14, KeyAndValueRead
<1>16. <<CallerKey>> \o vs = CallerRead
  <2>1. LineNumber \in Text
    BY LettersAre, Texts DEF LineNumber
  <2>2. SevenInARow(CallerKey, FileKey, CallerText, LineKey, LineNumber, FunctionKey, CallerText)
    BY <1>1, <2>1, SevenTexts
  <2> QED
    BY <2>2, Zenon DEF SevenInARow, CallerRead, vs, u, v, w
<1> QED
  BY <1>15, <1>16, Zenon


JSONContents ==
    Contents(~opts.noLevel /\ entry.leveled, CallerRead, LAMBDA f : Base64Text(f.text))

\* What stands before the fields.
JSONHead(e) ==
    (IF opts.noTimestamp THEN <<>> ELSE <<Member(TimeKey, Quoted(CachedTime(e.time)))>>)
      \o (IF opts.noLevel \/ ~e.leveled THEN <<>>
          ELSE <<Member(LevelKey, Quoted(LevelText))>>)
      \o (IF e.message = <<>> THEN <<>> ELSE <<Member(MessageKey, JSONString(e.message))>>)
      \o (IF ~e.caller THEN <<>>
          ELSE <<Member(CallerKey, JSONObject(CallerMembers))>>)

HeadTold(leveled, caller) ==
    (IF opts.noTimestamp THEN <<>> ELSE <<TimeKey, TimeText(entry.time)>>)
      \o (IF leveled THEN <<LevelKey, LevelText>> ELSE <<>>)
      \o (IF entry.message = <<>> THEN <<>> ELSE <<MessageKey, entry.message>>)
      \o (IF entry.caller THEN caller ELSE <<>>)

LEMMA JSONHeadReads ==
    ASSUME Inv, CleanEntry(entry)
    PROVE  MembersRead(JSONHead(entry), HeadTold(~opts.noLevel /\ entry.leveled, CallerRead))
<1> DEFINE timestamp == IF opts.noTimestamp THEN <<>>
                        ELSE <<Member(TimeKey, Quoted(CachedTime(entry.time)))>>
           severity == IF opts.noLevel \/ ~entry.leveled THEN <<>>
                       ELSE <<Member(LevelKey, Quoted(LevelText))>>
           message == IF entry.message = <<>> THEN <<>>
                      ELSE <<Member(MessageKey, JSONString(entry.message))>>
           caller == IF ~entry.caller THEN <<>>
                     ELSE <<Member(CallerKey, JSONObject(CallerMembers))>>
           timestampTold == IF opts.noTimestamp THEN <<>> ELSE <<TimeKey, TimeText(entry.time)>>
           severityTold == IF ~opts.noLevel /\ entry.leveled THEN <<LevelKey, LevelText>>
                           ELSE <<>>
           messageTold == IF entry.message = <<>> THEN <<>> ELSE <<MessageKey, entry.message>>
           callerTold == IF entry.caller THEN CallerRead ELSE <<>>
<1>1. entry \in EntryValues /\ CacheInv
  BY DEF Inv, EntryTypes
<1>2. entry.time \in Times /\ entry.message \in Text
  BY <1>1 DEF EntryValues
<1>3. /\ TimeKey \in Text /\ Spells(TimeKey, TimeKey)
      /\ LevelKey \in Text /\ Spells(LevelKey, LevelKey)
      /\ MessageKey \in Text /\ Spells(MessageKey, MessageKey)
      /\ LevelText \in Text /\ Spells(LevelText, LevelText)
  BY OwnTexts
<1>4. MayRead(timestamp, timestampTold)
  <2>1. CachedTime(entry.time) = TimeText(entry.time)
    BY <1>1, TimesCached
  <2>2. TimeText(entry.time) \in Text /\ Spells(TimeText(entry.time), TimeText(entry.time))
    BY <1>2, TimeTextPlain, SpellsPlain
  <2>3. MemberReads(Member(TimeKey, Quoted(TimeText(entry.time))),
                    <<TimeKey, TimeText(entry.time)>>)
    BY <1>3, <2>2, OwnMemberReads
  <2> QED
    BY <2>1, <2>3, Zenon DEF MayRead
<1>5. MayRead(severity, severityTold)
  <2>1. MemberReads(Member(LevelKey, Quoted(LevelText)), <<LevelKey, LevelText>>)
    BY <1>3, OwnMemberReads
  <2> QED
    BY <2>1, Zenon DEF MayRead
<1>6. MayRead(message, messageTold)
  <2>1. Escape(entry.message, JSONEscaped) \in Text
        /\ Spells(Escape(entry.message, JSONEscaped), entry.message)
    BY <1>2, EscapedText, SpellsEscaped DEF CleanEntry
  <2>2. MemberReads(Member(MessageKey, Quoted(Escape(entry.message, JSONEscaped))),
                    <<MessageKey, entry.message>>)
    BY <1>2, <1>3, <2>1, OwnMemberReads
  <2> QED
    BY <2>2, Zenon DEF MayRead, JSONString
<1>7. MayRead(caller, callerTold)
  BY CallerReads, Zenon DEF MayRead
<1> HIDE DEF timestamp, severity, message, caller, timestampTold, severityTold, messageTold, callerTold
<1>8. MembersRead(<<>> \o timestamp, <<>> \o timestampTold)
  BY <1>4, NoMembersRead, PartRead, Zenon
<1>9. timestamp \in Seq(Text) /\ timestampTold \in Seq(Text)
  <2>1. CASE timestamp = <<>> /\ timestampTold = <<>>
    BY <2>1, EmptySeq
  <2>2. ASSUME NEW m, timestamp = <<m>>, MemberReads(m, timestampTold)
        PROVE  timestamp \in Seq(Text) /\ timestampTold \in Seq(Text)
    <3>1. m \in Text /\ timestampTold \in Seq(Text)
      BY <2>2, Zenon DEF MemberReads
    <3> QED
      BY <2>2, <3>1
  <2> QED
    BY <1>4, <2>1, <2>2, Zenon DEF MayRead
<1>10. <<>> \o timestamp = timestamp /\ <<>> \o timestampTold = timestampTold
  BY <1>9, ConcatEmptySeq
<1>11. MembersRead(timestamp, timestampTold)
  BY <1>8, <1>10, Zenon
<1>12. MembersRead(timestamp \o severity, timestampTold \o severityTold)
  BY <1>5, <1>11, PartRead, Zenon
<1>13. MembersRead(timestamp \o severity \o message, timestampTold \o severityTold \o messageTold)
  BY <1>6, <1>12, PartRead, Zenon
<1>14. MembersRead(timestamp \o severity \o message \o caller,
                   timestampTold \o severityTold \o messageTold \o callerTold)
  BY <1>7, <1>13, PartRead, Zenon
<1> QED
  BY <1>14, Zenon DEF JSONHead, HeadTold, timestamp, severity, message, caller, timestampTold,
     severityTold, messageTold, callerTold

LEMMA JSONLineReads ==
    ASSUME Inv, CleanEntry(entry)
    PROVE  LET end == IF opts.disableNewline THEN "end" ELSE "ended" IN
           JSONRead(Parser("start"), JSONLine(entry)) = State(end, <<>>, 0, JSONContents)
<1> DEFINE fields == Along(JSONMembers, entry.fields)
           fieldsTold == FlattenSeq(Along(JSONAllTold, entry.fields))
           ms == JSONHead(entry) \o fields
           vs == HeadTold(~opts.noLevel /\ entry.leveled, CallerRead) \o fieldsTold
           end == IF opts.disableNewline THEN "end" ELSE "ended"
<1>1. entry.fields \in Seq(Fields) /\ opts \in OptionValues
  BY DEF Inv, EntryTypes, EntryValues
<1>2. entry.fields \in Seq(CleanFields)
  <2>1. \A i \in DOMAIN entry.fields : entry.fields[i] \in CleanFields
    BY <1>1, ElementOfSeq DEF CleanEntry, CleanFields
  <2> QED
    BY <1>1, <2>1
<1>a. MembersRead(ms, vs)
  BY <1>1, <1>2, JSONHeadReads, JSONFieldsRead, Zenon
<1>3. JSONLine(entry) = JSONObject(ms) \o Newline
  <2>1. fields = [i \in DOMAIN entry.fields |->
                    Member(Escape(Keys[entry.fields[i].key], JSONEscaped),
                           JSONValue(entry.fields[i]))]
    BY <1>2, ElementOfSeq DEF Along, JSONMembers, JSONMember
  <2> HIDE DEF fields
  <2> QED
    BY <2>1, Zenon DEF JSONLine, JSONHead, CallerMembers
<1>4. JSONContents = vs
  <2>1. fieldsTold = FlattenSeq([i \in DOMAIN entry.fields |->
                        LET f == entry.fields[i] IN <<Keys[f.key], ValueText(f, Base64Text(f.text))>>])
    <3>1. Along(JSONAllTold, entry.fields) = [i \in DOMAIN entry.fields |->
                        LET f == entry.fields[i] IN <<Keys[f.key], ValueText(f, Base64Text(f.text))>>]
      BY <1>2, ElementOfSeq DEF Along, JSONAllTold, JSONTold
    <3> QED
      BY <3>1, Zenon
  <2> HIDE DEF fieldsTold
  <2> QED
    BY <2>1, Zenon DEF JSONContents, Contents, HeadTold
<1> HIDE DEF ms, vs
<1>5. vs \in Seq(Text)
  BY <1>a DEF MembersRead
<1>6. JSONReads(State("start", <<>>, 0, <<>>), JSONObject(ms), State("end", <<>>, 0, vs))
  <2>1. /\ "start" \in {"start", "value"} /\ 0 \in Nat /\ <<>> \in Seq(Text)
        /\ <<>> \o vs = vs
    BY <1>5, ConcatEmptySeq
  <2>2. JSONReads(State("start", <<>>, 0, <<>>), JSONObject(ms),
                  State(IF 0 = 0 THEN "end" ELSE "after", <<>>, 0, <<>> \o vs))
    BY <1>a, <2>1, ObjectReads, Zenon
  <2> QED
    BY <2>1, <2>2, Zenon
<1>7. JSONReads(State("end", <<>>, 0, vs), Newline, State(end, <<>>, 0, vs))
  <2>1. <<>> \in Text /\ 0 \in Int /\ "end" \in States
    BY Texts DEF States
  <2>2. CASE opts.disableNewline
    <3>1. State("end", <<>>, 0, vs) \in Parsers
      BY <1>5, <2>1, StateTyped
    <3>2. JSONReads(State("end", <<>>, 0, vs), <<>>, State("end", <<>>, 0, vs))
      BY <3>1, JSONTableTyped, ReadsNone DEF JSONReads
    <3> QED
      BY <2>2, <3>2, Zenon DEF Newline
  <2>3. CASE ~opts.disableNewline
    <3>1. JSONReads(State("end", <<>>, 0, vs), <<"\n">>, State("ended", <<>>, 0, vs))
      BY <1>5, <2>1, JSONSteps, Zenon
    <3> QED
      BY <2>3, <3>1, Zenon DEF Newline
  <2> QED
    BY <2>2, <2>3, Zenon
<1>8. JSONReads(State("start", <<>>, 0, <<>>), JSONObject(ms) \o Newline,
                State(end, <<>>, 0, vs))
  BY <1>6, <1>7, JSONReadsThen, Zenon
<1> QED
  BY <1>3, <1>4, <1>8, JSONReadIs, Zenon DEF Parser

\* JSONRoundTrip, of every entry without control characters that have no escape, and
\* for every choice of options: a JSON line has what was logged, and nothing in a
\* message, a key or a value passes for anything else.
THEOREM JSONTheorem == AccessSpec => []JSONRoundTrip
<1>1. ASSUME Inv PROVE JSONRoundTrip
  <2> DEFINE end == IF opts.disableNewline THEN "end" ELSE "ended"
             p == JSONRead(Parser("start"), line)
  <2>1. CASE format = "json" /\ CleanEntry(entry)
    <3>1. line = JSONLine(entry)
      BY <1>1, <2>1, Zenon DEF Inv, LineInv
    <3>2. p = State(end, <<>>, 0, JSONContents)
      BY <1>1, <2>1, <3>1, JSONLineReads, Zenon
    <3>3. p.at = end /\ p.read = JSONContents
      <4> HIDE DEF p, end
      <4> QED
        BY <3>2 DEF State
    <3> QED
      BY <3>3, Zenon DEF JSONRoundTrip, JSONContents, CallerRead
  <2>2. CASE ~(format = "json" /\ CleanEntry(entry))
    BY <2>2 DEF JSONRoundTrip
  <2> QED
    BY <2>1, <2>2
<1> QED
  BY <1>1, InvTheorem, PTL


--------------------------------------------------------------------------------
(* Reading logfmt.                                                          *)

LEMMA LogfmtStepTyped ==
    ASSUME NEW p \in Parsers, NEW c \in Char
    PROVE  LogfmtStep(p, c) \in Parsers
<1>1. Unescaped(c) \in Char
  BY ParserMoves DEF States
<1>2. \A at \in States : /\ Move(p, at) \in Parsers /\ Emit(p, at) \in Parsers
                         /\ Take(p, at, c) \in Parsers /\ Take(p, at, Unescaped(c)) \in Parsers
  BY <1>1, ParserMoves
<1>3. ReadString(p, c, "stringEsc", "after") \in Parsers
  BY StringMoves DEF States
<1>4. /\ Emit(p, "value") \in Parsers /\ Move(p, "keyEsc") \in Parsers
      /\ Take(p, "key", c) \in Parsers /\ Take(p, "key", Unescaped(c)) \in Parsers
      /\ Move(p, "string") \in Parsers /\ Take(p, "string", Unescaped(c)) \in Parsers
      /\ Move(p, "bareEsc") \in Parsers /\ Take(p, "bare", Unescaped(c)) \in Parsers
      /\ Emit(p, "key") \in Parsers /\ Emit(p, "end") \in Parsers
      /\ Take(p, "bare", c) \in Parsers /\ Move(p, "key") \in Parsers
      /\ Move(p, "end") \in Parsers /\ Move(p, "bad") \in Parsers
  BY <1>2 DEF States
<1> QED
  BY <1>3, <1>4 DEF LogfmtStep

LogfmtTable == [q \in Parsers \X Char |-> LogfmtStep(q[1], q[2])]

LogfmtReads(p, s, q) == Reads(Parsers, LogfmtTable, p, s, q)

LEMMA LogfmtTableTyped ==
    /\ LogfmtTable \in [Parsers \X Char -> Parsers]
    /\ \A p \in Parsers, c \in Char : Meet(LogfmtTable, p, c) = LogfmtStep(p, c)
<1>1. ASSUME NEW q \in Parsers \X Char PROVE LogfmtStep(q[1], q[2]) \in Parsers
  <2>1. q[1] \in Parsers /\ q[2] \in Char
    OBVIOUS
  <2> QED
    BY <2>1, LogfmtStepTyped
<1>2. LogfmtTable \in [Parsers \X Char -> Parsers]
  BY <1>1 DEF LogfmtTable
<1>3. ASSUME NEW p \in Parsers, NEW c \in Char
      PROVE  Meet(LogfmtTable, p, c) = LogfmtStep(p, c)
  BY DEF LogfmtTable, Meet
<1> QED
  BY <1>2, <1>3

LEMMA LogfmtReadsOne ==
    ASSUME NEW p \in Parsers, NEW c \in Char, NEW q, q = LogfmtStep(p, c)
    PROVE  LogfmtReads(p, <<c>>, q)
<1>1. Reads(Parsers, LogfmtTable, p, <<c>>, Meet(LogfmtTable, p, c))
  BY LogfmtTableTyped, ReadsOne
<1>2. Meet(LogfmtTable, p, c) = LogfmtStep(p, c)
  BY LogfmtTableTyped
<1> QED
  BY <1>1, <1>2, Zenon DEF LogfmtReads

LEMMA LogfmtReadsThen ==
    ASSUME NEW p, NEW s, NEW q, NEW t, NEW r, LogfmtReads(p, s, q), LogfmtReads(q, t, r)
    PROVE  LogfmtReads(p, s \o t, r)
BY ReadsThen DEF LogfmtReads

\* What the reader makes of a text is where the steps lead.
LEMMA LogfmtReadIs ==
    ASSUME NEW p, NEW s, NEW q, LogfmtReads(p, s, q)
    PROVE  LogfmtRead(p, s) = q
<1> DEFINE n == Len(s)
           Eq(f) == f = [i \in 0..n |-> IF i = 0 THEN p ELSE LogfmtStep(f[i - 1], s[i])]
           read == CHOOSE f : Eq(f)
<1>1. /\ p \in Parsers /\ s \in Seq(Char) /\ q = Fold(LogfmtTable, p, s) /\ n \in Nat
      /\ \A i \in 1..n : s[i] \in Char /\ i - 1 \in 0..n
  BY DEF LogfmtReads, Reads, Text
<1>2. PICK h \in [0..Len(s) -> Parsers] : Follows(h, LogfmtTable, p, s)
  BY <1>1, LogfmtTableTyped, FoldExists, Zenon
<1>3. h[0] = p /\ \A i \in 1..n : h[i] = LogfmtStep(h[i - 1], s[i])
  <2>1. h[0] = p /\ \A i \in 1..n : h[i] = Meet(LogfmtTable, h[i - 1], s[i])
    BY <1>2, Zenon DEF Follows
  <2>2. \A i \in 1..n : h[i - 1] \in Parsers
    BY <1>1, <1>2
  <2> QED
    BY <1>1, <2>1, <2>2, LogfmtTableTyped, Zenon
<1>4. Eq(h)
  <2>1. \A i \in 0..n : i # 0 => i \in 1..n
    BY <1>1
  <2>2. \A i \in 0..n : h[i] = IF i = 0 THEN p ELSE LogfmtStep(h[i - 1], s[i])
    BY <1>3, <2>1, Zenon
  <2> QED
    BY <1>2, <2>2
<1>5. Eq(read)
  BY <1>4
<1>6. LogfmtRead(p, s) = read[n]
  BY DEF LogfmtRead
<1> HIDE DEF read
<1>7. read[0] = p /\ \A i \in 1..n : read[i] = LogfmtStep(read[i - 1], s[i])
  BY <1>1, <1>5
<1>8. read[n] = h[n]
  <2>1. Alike(read, h, n)
    BY <1>3, <1>7, Zenon DEF Alike
  <2> HIDE DEF n
  <2> QED
    BY <1>1, <2>1, Agree
<1>9. Fold(LogfmtTable, p, s) = h[Len(s)]
  BY <1>1, <1>2, FoldIs, Zenon
<1> QED
  BY <1>1, <1>6, <1>8, <1>9

\* Where a text stands: a key, a quoted value, or a value without quotes, of which
\* the reader has seen something or not.
Places == {"key", "string", "bare"}

Within(at, x, r) ==
    IF at = "bare" THEN {State("value", x, 0, r), State("bare", x, 0, r)}
    ELSE {State(at, x, 0, r)}

\* In any of these places s is read as t.
LogfmtSpells(s, t) ==
    \A at \in Places, x \in Text, r \in Seq(Text) :
        \A p \in Within(at, x, r) : \E q \in Within(at, x \o t, r) : LogfmtReads(p, s, q)

LEMMA WithinTyped ==
    ASSUME NEW at \in Places, NEW x \in Text, NEW r \in Seq(Text), NEW p \in Within(at, x, r)
    PROVE  /\ p \in Parsers /\ p.cur = x /\ p.depth = 0 /\ p.read = r
           /\ at = "key" => p.at = "key"
           /\ at = "string" => p.at = "string"
           /\ at = "bare" => p.at = "value" \/ p.at = "bare"
<1>1. PICK a \in {"key", "string", "value", "bare"} :
        /\ p = State(a, x, 0, r)
        /\ at = "key" => a = "key"
        /\ at = "string" => a = "string"
        /\ at = "bare" => a = "value" \/ a = "bare"
  BY Zenon DEF Within, Places
<1>2. a \in States /\ 0 \in Int
  BY DEF States
<1>3. p \in Parsers
  BY <1>1, <1>2, StateTyped
<1>4. p.at = a /\ p.cur = x /\ p.depth = 0 /\ p.read = r
  BY <1>1 DEF State
<1> QED
  BY <1>1, <1>3, <1>4, Zenon

LEMMA LogfmtSpellsNone == LogfmtSpells(<<>>, <<>>)
<1> SUFFICES ASSUME NEW at \in Places, NEW x \in Text, NEW r \in Seq(Text),
                    NEW p \in Within(at, x, r)
             PROVE  \E q \in Within(at, x \o <<>>, r) : LogfmtReads(p, <<>>, q)
  BY DEF LogfmtSpells
<1>1. p \in Parsers
  BY WithinTyped
<1>2. x \o <<>> = x
  BY ConcatEmptySeq DEF Text
<1>3. LogfmtReads(p, <<>>, p)
  BY <1>1, ReadsNone, LogfmtTableTyped DEF LogfmtReads
<1> QED
  BY <1>2, <1>3, Zenon

LEMMA LogfmtSpellsThen ==
    ASSUME NEW s, NEW t \in Text, NEW u, NEW v \in Text, LogfmtSpells(s, t), LogfmtSpells(u, v)
    PROVE  LogfmtSpells(s \o u, t \o v)
<1> SUFFICES ASSUME NEW at \in Places, NEW x \in Text, NEW r \in Seq(Text),
                    NEW p \in Within(at, x, r)
             PROVE  \E q \in Within(at, x \o (t \o v), r) : LogfmtReads(p, s \o u, q)
  BY DEF LogfmtSpells
<1>1. x \o t \in Text /\ (x \o t) \o v = x \o (t \o v)
  BY ConcatProperties, ConcatAssociative DEF Text
<1>2. PICK q \in Within(at, x \o t, r) : LogfmtReads(p, s, q)
  BY Zenon DEF LogfmtSpells
<1>3. PICK z \in Within(at, (x \o t) \o v, r) : LogfmtReads(q, u, z)
  BY <1>1, Zenon DEF LogfmtSpells
<1> QED
  BY <1>1, <1>2, <1>3, LogfmtReadsThen, Zenon

\* What a place makes of a character and of a backslash.
LEMMA LogfmtTakes ==
    ASSUME NEW at \in Places, NEW x \in Text, NEW r \in Seq(Text), NEW p \in Within(at, x, r),
           NEW c \in Char, c \notin LogfmtEscaped
    PROVE  LogfmtStep(p, c) = State(at, Append(x, c), 0, r)
<1>1. /\ p.cur = x /\ p.depth = 0 /\ p.read = r
      /\ at = "key" => p.at = "key"
      /\ at = "string" => p.at = "string"
      /\ at = "bare" => p.at = "value" \/ p.at = "bare"
  BY WithinTyped
<1>2. c # "\"" /\ c # "\\" /\ c # "\n" /\ c # "=" /\ c # " "
  BY Zenon DEF LogfmtEscaped
<1>3. LogfmtStep(p, c) = Take(p, at, c)
  <2>1. CASE at = "key"
    BY <1>1, <1>2, <2>1 DEF LogfmtStep
  <2>2. CASE at = "string"
    BY <1>1, <1>2, <2>2 DEF LogfmtStep, ReadString
  <2>3. CASE at = "bare"
    BY <1>1, <1>2, <2>3 DEF LogfmtStep
  <2> QED
    BY <2>1, <2>2, <2>3 DEF Places
<1> QED
  BY <1>1, <1>3, Zenon DEF Take

LEMMA LogfmtEscapes ==
    ASSUME NEW at \in Places, NEW x \in Text, NEW r \in Seq(Text), NEW p \in Within(at, x, r),
           NEW e \in Char
    PROVE  LogfmtReads(p, <<"\\">> \o <<e>>, State(at, Append(x, Unescaped(e)), 0, r))
<1> DEFINE esc == IF at = "key" THEN "keyEsc" ELSE IF at = "string" THEN "stringEsc" ELSE "bareEsc"
           q == State(esc, x, 0, r)
<1>1. /\ p \in Parsers /\ p.cur = x /\ p.depth = 0 /\ p.read = r
      /\ at = "key" => p.at = "key"
      /\ at = "string" => p.at = "string"
      /\ at = "bare" => p.at = "value" \/ p.at = "bare"
  BY WithinTyped
<1>2. q \in Parsers /\ q.at = esc /\ q.cur = x /\ q.depth = 0 /\ q.read = r
  <2>1. esc \in States /\ 0 \in Int
    BY DEF States
  <2> HIDE DEF esc
  <2>2. q \in Parsers
    BY <2>1, StateTyped
  <2> QED
    BY <2>2 DEF State
<1> HIDE DEF q
<1>3. LogfmtStep(p, "\\") = Move(p, esc)
  <2>1. CASE at = "key"
    BY <1>1, <2>1 DEF LogfmtStep
  <2>2. CASE at = "string"
    BY <1>1, <2>2 DEF LogfmtStep, ReadString
  <2>3. CASE at = "bare"
    BY <1>1, <2>3 DEF LogfmtStep
  <2> QED
    BY <2>1, <2>2, <2>3 DEF Places
<1>4. LogfmtStep(q, e) = Take(q, at, Unescaped(e))
  <2>1. CASE at = "key"
    BY <1>2, <2>1 DEF LogfmtStep
  <2>2. CASE at = "string"
    BY <1>2, <2>2 DEF LogfmtStep
  <2>3. CASE at = "bare"
    BY <1>2, <2>3 DEF LogfmtStep
  <2> QED
    BY <2>1, <2>2, <2>3 DEF Places
<1> HIDE DEF esc
<1>5. Move(p, esc) = q /\ Take(q, at, Unescaped(e)) = State(at, Append(x, Unescaped(e)), 0, r)
  BY <1>1, <1>2, Zenon DEF Move, Take, q
<1>6. "\\" \in Char
  BY Texts, Zenon DEF Special
<1>7. LogfmtReads(p, <<"\\">>, q)
  BY <1>1, <1>3, <1>5, <1>6, LogfmtReadsOne, Zenon
<1>8. LogfmtReads(q, <<e>>, State(at, Append(x, Unescaped(e)), 0, r))
  BY <1>2, <1>4, <1>5, LogfmtReadsOne, Zenon
<1> QED
  BY <1>7, <1>8, LogfmtReadsThen, Zenon


LEMMA LogfmtSpellsCharacter ==
    ASSUME NEW c \in Char
    PROVE  LogfmtSpells(Escaped(c, LogfmtEscaped), <<c>>)
<1> SUFFICES ASSUME NEW at \in Places, NEW x \in Text, NEW r \in Seq(Text),
                    NEW p \in Within(at, x, r)
             PROVE  \E q \in Within(at, x \o <<c>>, r) :
                        LogfmtReads(p, Escaped(c, LogfmtEscaped), q)
  BY DEF LogfmtSpells
<1> DEFINE q == State(at, Append(x, c), 0, r)
<1>1. x \o <<c>> = Append(x, c)
  BY AppendIsConcat DEF Text
<1>2. q \in Within(at, x \o <<c>>, r)
  BY <1>1 DEF Within
<1>3. p \in Parsers
  BY WithinTyped
<1>4. CASE c \notin LogfmtEscaped
  <2>1. LogfmtStep(p, c) = q
    BY <1>4, LogfmtTakes
  <2>2. Escaped(c, LogfmtEscaped) = <<c>>
    BY <1>4, Zenon DEF Escaped
  <2> QED
    BY <1>2, <1>3, <2>1, <2>2, LogfmtReadsOne
<1>5. CASE c \in LogfmtEscaped
  <2> DEFINE e == IF c = "\n" THEN "n" ELSE c
  <2>1. Escaped(c, LogfmtEscaped) = <<"\\", e>>
    BY <1>5 DEF Escaped
  <2>2. e \in Char
    <3>1. "n" \in Char
      BY LettersAre
    <3> QED
      BY <3>1
  <2>3. Unescaped(e) = c
    BY <1>5 DEF Unescaped, LogfmtEscaped
  <2> HIDE DEF e
  <2>4. <<"\\", e>> = <<"\\">> \o <<e>>
    OBVIOUS
  <2>5. LogfmtReads(p, <<"\\">> \o <<e>>, State(at, Append(x, Unescaped(e)), 0, r))
    BY <2>2, LogfmtEscapes
  <2> QED
    BY <1>2, <2>1, <2>3, <2>4, <2>5, Zenon
<1> QED
  BY <1>4, <1>5

LEMMA LogfmtSpellsEscaped ==
    ASSUME NEW s \in Text
    PROVE  LogfmtSpells(Escape(s, LogfmtEscaped), s)
<1> DEFINE P == {t \in Text : LogfmtSpells(Escape(t, LogfmtEscaped), t)}
<1>1. <<>> \in P
  <2>1. LogfmtSpells(Escape(<<>>, LogfmtEscaped), <<>>)
    BY EscapeNone, LogfmtSpellsNone, Zenon
  <2> QED
    BY <2>1, Texts
<1>2. ASSUME NEW t \in Seq(Char), NEW c \in Char, t \in P PROVE Append(t, c) \in P
  <2>1. t \in Text /\ <<c>> \in Text /\ Append(t, c) \in Text /\ Append(t, c) = t \o <<c>>
    BY AppendIsConcat DEF Text
  <2>2. /\ LogfmtSpells(Escape(t, LogfmtEscaped), t)
        /\ LogfmtSpells(Escaped(c, LogfmtEscaped), <<c>>)
    BY <1>2, LogfmtSpellsCharacter
  <2>3. LogfmtSpells(Escape(t, LogfmtEscaped) \o Escaped(c, LogfmtEscaped), t \o <<c>>)
    BY <2>1, <2>2, LogfmtSpellsThen
  <2>4. EscapeGoesOn(t, c, LogfmtEscaped)
    BY <2>1, EscapeAppend
  <2>5. LogfmtSpells(Escape(Append(t, c), LogfmtEscaped), Append(t, c))
    BY <2>1, <2>3, <2>4, Zenon DEF EscapeGoesOn
  <2> QED
    BY <2>1, <2>5
<1> HIDE DEF P
<1>3. Seq(Char) \subseteq P
  BY <1>1, <1>2, SeqInduction
<1> QED
  BY <1>3 DEF P, Text

\* What has nothing to escape is its own escaped text.
LEMMA NothingEscaped ==
    ASSUME NEW escaped, NEW s \in Seq(Char \ escaped)
    PROVE  s \in Text /\ Escape(s, escaped) = s
<1> DEFINE C == Char \ escaped
           P == {t \in Text : Escape(t, escaped) = t}
<1>1. <<>> \in P
  BY EscapeNone, Texts
<1>2. ASSUME NEW t \in Seq(C), NEW c \in C, t \in P PROVE Append(t, c) \in P
  <2>1. t \in Text /\ c \in Char /\ Append(t, c) \in Text /\ Append(t, c) = t \o <<c>>
    BY <1>2, AppendIsConcat DEF Text
  <2>2. EscapeGoesOn(t, c, escaped)
    BY <2>1, EscapeAppend
  <2>3. Escaped(c, escaped) = <<c>>
    BY Zenon DEF Escaped
  <2>4. Escape(Append(t, c), escaped) = Append(t, c)
    BY <1>2, <2>1, <2>2, <2>3 DEF EscapeGoesOn
  <2> QED
    BY <2>1, <2>4
<1> HIDE DEF P, C
<1>3. Seq(C) \subseteq P
  BY <1>1, <1>2, SeqInduction
<1> QED
  BY <1>3 DEF P, C

LEMMA LogfmtSpellsPlain ==
    ASSUME NEW s \in Seq(Char \ LogfmtEscaped)
    PROVE  s \in Text /\ LogfmtSpells(s, s)
BY NothingEscaped, LogfmtSpellsEscaped

\* After a value, with r read.
LogfmtDone(q, r) ==
    \/ q = State("after", <<>>, 0, r)
    \/ \E v \in Text, before \in Seq(Text) :
            q \in Within("bare", v, before) /\ r = Append(before, v)

LEMMA LogfmtDoneReads ==
    ASSUME NEW q, NEW r \in Seq(Text), LogfmtDone(q, r)
    PROVE  /\ LogfmtReads(q, <<" ">>, State("key", <<>>, 0, r))
           /\ LogfmtReads(q, <<"\n">>, State("end", <<>>, 0, r))
<1>1. " " \in Char /\ "\n" \in Char
  BY Texts, Zenon DEF Special
<1>2. CASE q = State("after", <<>>, 0, r)
  <2>1. q \in Parsers
    <3>1. "after" \in States /\ 0 \in Int /\ <<>> \in Text
      BY Texts DEF States
    <3> QED
      BY <1>2, <3>1, StateTyped
  <2>2. LogfmtStep(q, " ") = State("key", <<>>, 0, r)
    BY <1>2 DEF LogfmtStep, Move, State
  <2>3. LogfmtStep(q, "\n") = State("end", <<>>, 0, r)
    BY <1>2 DEF LogfmtStep, Move, State
  <2> QED
    BY <1>1, <2>1, <2>2, <2>3, LogfmtReadsOne
<1>3. ASSUME NEW v \in Text, NEW before \in Seq(Text), q \in Within("bare", v, before),
             r = Append(before, v)
      PROVE  /\ LogfmtReads(q, <<" ">>, State("key", <<>>, 0, r))
             /\ LogfmtReads(q, <<"\n">>, State("end", <<>>, 0, r))
  <2>1. "bare" \in Places
    BY DEF Places
  <2>2. q \in Parsers /\ q.cur = v /\ q.depth = 0 /\ q.read = before
        /\ (q.at = "value" \/ q.at = "bare")
    BY <1>3, <2>1, WithinTyped
  <2>3. LogfmtStep(q, " ") = Emit(q, "key")
    BY <2>2 DEF LogfmtStep
  <2>4. LogfmtStep(q, "\n") = Emit(q, "end")
    BY <2>2 DEF LogfmtStep
  <2>5. Emit(q, "key") = State("key", <<>>, 0, r) /\ Emit(q, "end") = State("end", <<>>, 0, r)
    BY <1>3, <2>2, Zenon DEF Emit
  <2> QED
    BY <1>1, <2>2, <2>3, <2>4, <2>5, LogfmtReadsOne
<1> QED
  BY <1>2, <1>3, Zenon DEF LogfmtDone

\* As a value, s is read as v.
LogfmtValueReads(s, v) ==
    /\ s \in Text /\ v \in Text
    /\ \A r \in Seq(Text) :
         \E q : LogfmtReads(State("value", <<>>, 0, r), s, q) /\ LogfmtDone(q, Append(r, v))

LEMMA BareReads ==
    ASSUME NEW s \in Text, NEW t \in Text, LogfmtSpells(s, t)
    PROVE  LogfmtValueReads(s, t)
<1> SUFFICES ASSUME NEW r \in Seq(Text)
             PROVE  \E q : /\ LogfmtReads(State("value", <<>>, 0, r), s, q)
                           /\ LogfmtDone(q, Append(r, t))
  BY DEF LogfmtValueReads
<1>1. "bare" \in Places /\ <<>> \in Text /\ <<>> \o t = t
  BY Texts, ConcatEmptySeq DEF Places, Text
<1>2. State("value", <<>>, 0, r) \in Within("bare", <<>>, r)
  BY DEF Within
<1>3. PICK q \in Within("bare", <<>> \o t, r) : LogfmtReads(State("value", <<>>, 0, r), s, q)
  BY <1>1, <1>2, Zenon DEF LogfmtSpells
<1>4. LogfmtDone(q, Append(r, t))
  BY <1>1, <1>3, Zenon DEF LogfmtDone
<1> QED
  BY <1>3, <1>4, Zenon

LEMMA QuotedOrBareReads ==
    ASSUME NEW s \in Text, NEW t \in Text, LogfmtSpells(s, t)
    PROVE  LogfmtValueReads(LogfmtQuoted(s), t)
<1>1. CASE opts.noQuotes
  BY <1>1, BareReads, Zenon DEF LogfmtQuoted
<1>2. CASE ~opts.noQuotes
  <2>1. LogfmtQuoted(s) = <<"\"">> \o s \o <<"\"">>
    BY <1>2, Zenon DEF LogfmtQuoted, Quoted, Quote
  <2>2. <<"\"">> \in Text /\ "\"" \in Char
    BY Texts, Zenon DEF Special
  <2>3. LogfmtQuoted(s) \in Text
    <3>1. <<"\"">> \o s \in Text
      BY <2>2, Texts
    <3> QED
      BY <2>1, <2>2, <3>1, Texts
  <2>4. ASSUME NEW r \in Seq(Text)
        PROVE  LogfmtReads(State("value", <<>>, 0, r), LogfmtQuoted(s),
                           State("after", <<>>, 0, Append(r, t)))
    <3> DEFINE start == State("value", <<>>, 0, r)
               open == State("string", <<>>, 0, r)
               close == State("string", t, 0, r)
               end == State("after", <<>>, 0, Append(r, t))
    <3>1. start \in Parsers /\ open \in Parsers /\ close \in Parsers
      <4>1. "value" \in States /\ "string" \in States /\ 0 \in Int /\ <<>> \in Text
        BY Texts DEF States
      <4> QED
        BY <4>1, StateTyped
    <3>2. LogfmtStep(start, "\"") = open
      BY DEF LogfmtStep, Move, State
    <3>3. LogfmtStep(close, "\"") = end
      BY DEF LogfmtStep, ReadString, Emit, State
    <3>4. LogfmtReads(open, s, close)
      <4>1. "string" \in Places /\ <<>> \in Text /\ <<>> \o t = t
        BY Texts, ConcatEmptySeq DEF Places, Text
      <4>2. \A x : Within("string", x, r) = {State("string", x, 0, r)}
        BY DEF Within
      <4>3. open \in Within("string", <<>>, r)
        BY <4>2, Zenon
      <4>4. \E q \in Within("string", <<>> \o t, r) : LogfmtReads(open, s, q)
        BY <4>1, <4>3, Zenon DEF LogfmtSpells
      <4> QED
        BY <4>1, <4>2, <4>4
    <3> HIDE DEF start, open, close, end
    <3>5. LogfmtReads(start, <<"\"">>, open) /\ LogfmtReads(close, <<"\"">>, end)
      BY <2>2, <3>1, <3>2, <3>3, LogfmtReadsOne
    <3>6. LogfmtReads(start, <<"\"">> \o s, close)
      BY <3>4, <3>5, LogfmtReadsThen, Zenon
    <3>7. LogfmtReads(start, <<"\"">> \o s \o <<"\"">>, end)
      BY <3>5, <3>6, LogfmtReadsThen, Zenon
    <3> QED
      BY <2>1, <3>7, Zenon DEF start, end
  <2>5. \A r \in Seq(Text) : LogfmtDone(State("after", <<>>, 0, Append(r, t)), Append(r, t))
    BY DEF LogfmtDone
  <2> QED
    BY <2>3, <2>4, <2>5, Zenon DEF LogfmtValueReads
<1> QED
  BY <1>1, <1>2

\* Binary data is written as its numbers.
LEMMA StringifiedText ==
    ASSUME NEW f \in Fields
    PROVE  Stringified(f) \in Text
<1>1. CASE f.type # "binary"
  BY <1>1, FieldTypes DEF Stringified
<1>2. CASE f.type = "binary"
  <2> DEFINE b == f.text
             part(i) == (IF i > 1 THEN <<" ">> ELSE <<>>) \o <<Numeral[b[i]]>>
             parts == [i \in DOMAIN b |-> part(i)]
  <2>1. b \in Seq(0..255)
    BY <1>2, FieldTypes
  <2>2. Stringified(f) = <<"[">> \o FlattenSeq(parts) \o <<"]">>
    BY <1>2, Zenon DEF Stringified
  <2>3. <<"[">> \in Text /\ <<"]">> \in Text /\ <<" ">> \in Text /\ <<>> \in Text
    BY Texts, Zenon DEF Special
  <2>4. ASSUME NEW i \in DOMAIN b PROVE part(i) \in Text
    <3>1. b[i] \in DOMAIN Numeral
      <4>1. 0..255 \subseteq DOMAIN Numeral
        BY FormattersAssumption
      <4>2. \A k \in 1..Len(b) : b[k] \in 0..255
        BY <2>1, ElementOfSeq
      <4>3. i \in 1..Len(b)
        BY <2>1, LenProperties
      <4> QED
        BY <4>1, <4>2, <4>3
    <3>2. <<Numeral[b[i]]>> \in Text
      BY <3>1, Texts, Zenon
    <3>3. (IF i > 1 THEN <<" ">> ELSE <<>>) \in Text
      BY <2>3, Zenon
    <3> QED
      BY <3>2, <3>3, Texts
  <2>5. parts \in Seq(Text)
    <3>1. Len(b) \in Nat /\ DOMAIN b = 1..Len(b)
      BY <2>1
    <3> HIDE DEF part, b
    <3> QED
      BY <2>4, <3>1
  <2> HIDE DEF parts
  <2>6. FlattenSeq(parts) \in Text
    BY <2>5, FlattenTyped DEF Text
  <2>7. <<"[">> \o FlattenSeq(parts) \in Text
    BY <2>3, <2>6, Texts
  <2> QED
    BY <2>2, <2>3, <2>7, Texts
<1> QED
  BY <1>1, <1>2


LEMMA FieldValueReads ==
    ASSUME opts \in OptionValues, NEW f \in Fields
    PROVE  LogfmtValueReads(LogfmtValue(f), ValueText(f, Stringified(f)))
<1> DEFINE v == f.text
           binary == Stringified(f)
           value == ValueText(f, binary)
           s == LogfmtValue(f)
           C == Char \ LogfmtEscaped
<1>a. /\ f.type = "binary" => v \in Seq(0..255)
      /\ f.type # "binary" => v \in Text
      /\ f.type = "number" => v = <<Numeral[f.int]>>
      /\ f.type = "time" => \A i \in DOMAIN v : v[i] \notin Special
      /\ f.type \in {"string", "number", "object", "error", "time", "unknown", "binary"}
      /\ f.int \in DOMAIN Numeral
  BY FieldTypes
<1>b. LogfmtEscaped \subseteq Special
  BY Zenon DEF LogfmtEscaped, Special
<1>1. CASE f.sensitive
  <2>1. "R" \in C
    BY LettersAre DEF LogfmtEscaped
  <2>2. RedactedValue \in Seq(C)
    <3> HIDE DEF C
    <3> QED
      BY <2>1 DEF RedactedValue
  <2>3. LogfmtValueReads(LogfmtQuoted(RedactedValue), RedactedValue)
    BY <2>2, LogfmtSpellsPlain, QuotedOrBareReads
  <2>4. s = LogfmtQuoted(RedactedValue) /\ value = RedactedValue
    BY <1>1, Zenon DEF LogfmtValue, Redacted, ValueText
  <2> QED
    BY <2>3, <2>4, Zenon
<1>2. CASE ~f.sensitive /\ f.type = "number"
  <2>1. v = <<Numeral[f.int]>> /\ Numeral[f.int] \in Char \ Special
    BY <1>a, <1>2, Texts
  <2>2. Numeral[f.int] \in C
    BY <1>b, <2>1
  <2>3. s = v /\ value = v
    BY <1>2, Zenon DEF LogfmtValue, Redacted, ValueText
  <2>4. <<Numeral[f.int]>> \in Seq(C)
    <3> HIDE DEF C
    <3> QED
      BY <2>2
  <2>5. LogfmtValueReads(<<Numeral[f.int]>>, <<Numeral[f.int]>>)
    BY <2>4, LogfmtSpellsPlain, BareReads
  <2> QED
    BY <2>1, <2>3, <2>5, Zenon
<1>3. CASE ~f.sensitive /\ f.type = "string"
  <2> DEFINE a == Truncated(v)
             b == Rest(v)
             w == LogfmtText(a)
  <2>1. v \in Text
    BY <1>a, <1>3
  <2>2. LeavesOf(v)
    BY <2>1, Truncation
  <2>3. a \in Text /\ b \in PlainText
    BY <2>2, Zenon DEF LeavesOf
  <2>4. b \in Text /\ LogfmtSpells(b, b)
    <3>1. b = Ellipsis \/ b = <<>>
      BY Zenon DEF Rest
    <3>2. "." \in C
      BY LettersAre DEF LogfmtEscaped
    <3>3. Ellipsis \in Seq(C) /\ <<>> \in Seq(C)
      <4> HIDE DEF C
      <4> QED
        BY <3>2 DEF Ellipsis
    <3> QED
      BY <3>1, <3>3, LogfmtSpellsPlain
  <2>5. w \in Text /\ LogfmtSpells(w, a)
    BY <2>3, EscapedText, LogfmtSpellsEscaped DEF LogfmtText
  <2> HIDE DEF a, b, w
  <2>6. LogfmtSpells(w \o b, a \o b)
    BY <2>3, <2>4, <2>5, LogfmtSpellsThen
  <2>7. w \o b \in Text /\ a \o b \in Text
    BY <2>3, <2>4, <2>5, Texts
  <2>8. LogfmtValueReads(LogfmtQuoted(w \o b), a \o b)
    BY <2>6, <2>7, QuotedOrBareReads
  <2>9. s = LogfmtQuoted(w \o b)
    BY <1>3, Zenon DEF LogfmtValue, Redacted, w, a, b
  <2>10. value = a \o b
    <3>1. a \o b = IF opts.truncate \in 1..(Len(v) - 1) THEN SubSeq(v, 1, opts.truncate) \o Ellipsis
                   ELSE v
      BY <2>2, Zenon DEF LeavesOf, a, b
    <3>2. value = IF opts.truncate \in 1..(Len(v) - 1) THEN SubSeq(v, 1, opts.truncate) \o Ellipsis
                  ELSE v
      BY <1>3 DEF ValueText
    <3> QED
      BY <3>1, <3>2, Zenon
  <2> QED
    BY <2>8, <2>9, <2>10, Zenon
<1>4. CASE ~f.sensitive /\ f.type \in {"object", "error", "binary"}
  <2>1. s = LogfmtQuoted(Escape(binary, LogfmtEscaped))
    BY <1>4, Zenon DEF LogfmtValue, Redacted, LogfmtText
  <2>2. value = binary
    BY <1>4, Zenon DEF ValueText, Stringified
  <2>3. binary \in Text
    BY StringifiedText
  <2>4. Escape(binary, LogfmtEscaped) \in Text /\ LogfmtSpells(Escape(binary, LogfmtEscaped), binary)
    BY <2>3, EscapedText, LogfmtSpellsEscaped
  <2>5. LogfmtValueReads(LogfmtQuoted(Escape(binary, LogfmtEscaped)), binary)
    BY <2>3, <2>4, QuotedOrBareReads
  <2> QED
    BY <2>1, <2>2, <2>5, Zenon
<1>5. CASE ~f.sensitive /\ f.type = "time"
  <2>1. s = LogfmtQuoted(v) /\ value = v
    BY <1>5, Zenon DEF LogfmtValue, Redacted, ValueText
  <2>2. v \in Seq(C)
    <3>1. v \in Seq(Char) /\ \A i \in DOMAIN v : v[i] \notin Special
      BY <1>a, <1>5 DEF Text
    <3> QED
      BY <1>b, <3>1
  <2>3. LogfmtValueReads(LogfmtQuoted(v), v)
    BY <2>2, LogfmtSpellsPlain, QuotedOrBareReads
  <2> QED
    BY <2>1, <2>3, Zenon
<1>6. CASE ~f.sensitive /\ f.type = "unknown"
  <2>1. s = Null /\ value = Null
    BY <1>6, Zenon DEF LogfmtValue, Redacted, ValueText
  <2>2. "n" \in C /\ "u" \in C /\ "l" \in C
    BY LettersAre DEF LogfmtEscaped
  <2>3. Null \in Seq(C)
    <3> HIDE DEF C
    <3> QED
      BY <2>2 DEF Null
  <2>4. LogfmtValueReads(Null, Null)
    BY <2>3, LogfmtSpellsPlain, BareReads
  <2> QED
    BY <2>1, <2>4, Zenon
<1>7. \/ f.sensitive
      \/ ~f.sensitive /\ f.type = "number"
      \/ ~f.sensitive /\ f.type = "string"
      \/ ~f.sensitive /\ f.type \in {"object", "error", "binary"}
      \/ ~f.sensitive /\ f.type = "time"
      \/ ~f.sensitive /\ f.type = "unknown"
  BY <1>a, Zenon
<1> QED
  BY <1>1, <1>2, <1>3, <1>4, <1>5, <1>6, <1>7, Zenon

\* A pair m is read as the texts vs.
PairReads(m, vs) ==
    /\ m \in Text /\ vs \in Seq(Text)
    /\ \A r \in Seq(Text) :
         \E q : LogfmtReads(State("key", <<>>, 0, r), m, q) /\ LogfmtDone(q, r \o vs)

LEMMA KeyAndValuePair ==
    ASSUME NEW k \in Text, NEW t \in Text, LogfmtSpells(k, t), NEW s, NEW v,
           LogfmtValueReads(s, v)
    PROVE  PairReads(Pair(k, s), <<t, v>>)
<1>1. s \in Text /\ v \in Text
  BY DEF LogfmtValueReads
<1>2. Pair(k, s) = k \o <<"=">> \o s
  BY Zenon DEF Pair
<1>3. "=" \in Char /\ <<"=">> \in Text
  BY Texts, Zenon DEF Special
<1>4. k \o <<"=">> \in Text
  BY <1>3, Texts
<1>5. Pair(k, s) \in Text
  BY <1>1, <1>2, <1>4, Texts
<1>6. <<t, v>> \in Seq(Text)
  BY <1>1
<1>7. ASSUME NEW r \in Seq(Text)
      PROVE  \E q : LogfmtReads(State("key", <<>>, 0, r), Pair(k, s), q)
                    /\ LogfmtDone(q, r \o <<t, v>>)
  <2> DEFINE start == State("key", <<>>, 0, r)
             key == State("key", t, 0, r)
             rt == Append(r, t)
             value == State("value", <<>>, 0, rt)
  <2>1. LogfmtReads(start, k, key)
    <3>1. "key" \in Places /\ <<>> \in Text /\ <<>> \o t = t
      BY Texts, ConcatEmptySeq DEF Places, Text
    <3>2. \A x : Within("key", x, r) = {State("key", x, 0, r)}
      BY DEF Within
    <3>3. start \in Within("key", <<>>, r)
      BY <3>2, Zenon
    <3>4. \E q \in Within("key", <<>> \o t, r) : LogfmtReads(start, k, q)
      BY <3>1, <3>3, Zenon DEF LogfmtSpells
    <3> QED
      BY <3>1, <3>2, <3>4
  <2>2. key \in Parsers
    <3>1. "key" \in States /\ 0 \in Int
      BY DEF States
    <3> QED
      BY <3>1, StateTyped
  <2>3. LogfmtStep(key, "=") = value
    BY DEF LogfmtStep, Emit, State
  <2>4. rt \in Seq(Text)
    BY AppendProperties
  <2>5. Append(rt, v) = r \o <<t, v>>
    BY <1>1
  <2> HIDE DEF start, key, value, rt
  <2>6. LogfmtReads(key, <<"=">>, value)
    BY <1>3, <2>2, <2>3, LogfmtReadsOne
  <2>7. PICK q : LogfmtReads(value, s, q) /\ LogfmtDone(q, Append(rt, v))
    BY <2>4, Zenon DEF LogfmtValueReads, value
  <2>8. LogfmtReads(start, k \o <<"=">>, value)
    BY <2>1, <2>6, LogfmtReadsThen, Zenon
  <2>9. LogfmtReads(start, k \o <<"=">> \o s, q)
    BY <2>7, <2>8, LogfmtReadsThen, Zenon
  <2> QED
    BY <1>2, <2>5, <2>7, <2>9, Zenon DEF start
<1> QED
  BY <1>5, <1>6, <1>7, Zenon DEF PairReads


Blank == " "

\* The pairs ps are read as the texts vs.
PairsRead(ps, vs) ==
    /\ ps \in Seq(Text) /\ vs \in Seq(Text)
    /\ ps = <<>> => vs = <<>>
    /\ ps # <<>> => \E q : /\ LogfmtReads(Parser("key"), Body(Blank, ps), q)
                           /\ LogfmtDone(q, vs)

LEMMA OneMorePair ==
    ASSUME NEW ps, NEW vs, NEW m, NEW us, PairsRead(ps, vs), PairReads(m, us)
    PROVE  PairsRead(Append(ps, m), vs \o us)
<1>1. /\ ps \in Seq(Text) /\ m \in Text /\ vs \in Seq(Text) /\ us \in Seq(Text)
      /\ vs \o us \in Seq(Text) /\ Append(ps, m) \in Seq(Text) /\ Append(ps, m) # <<>>
  BY ConcatProperties, AppendProperties DEF PairsRead, PairReads
<1>2. Blank \in Char /\ <<Blank>> \in Text
  BY Texts, Zenon DEF Special, Blank
<1>3. BodyGoesOn(Blank, ps, m) /\ Body(Blank, ps) \in Text /\ Body(Blank, <<>>) = <<>>
  BY <1>1, <1>2, BodyAppend
<1> DEFINE rest == WithComma(Blank, m, Len(ps) + 1)
           start == Parser("key")
<1>4. Body(Blank, Append(ps, m)) = Body(Blank, ps) \o rest
  BY <1>3, Zenon DEF BodyGoesOn
<1>5. start = State("key", <<>>, 0, <<>>)
  BY Zenon DEF Parser
<1>6. \E q : LogfmtReads(start, Body(Blank, ps) \o rest, q) /\ LogfmtDone(q, vs \o us)
  <2>1. CASE ps = <<>>
    <3>1. rest = m
      BY <2>1 DEF WithComma, NeedComma
    <3>2. vs = <<>>
      BY <2>1, Zenon DEF PairsRead
    <3>3. <<>> \o us = us /\ <<>> \o m = m /\ <<>> \in Seq(Text)
      BY <1>1, ConcatEmptySeq DEF Text
    <3>4. PICK q : LogfmtReads(start, m, q) /\ LogfmtDone(q, <<>> \o us)
      BY <1>5, <3>3, Zenon DEF PairReads
    <3>5. Body(Blank, ps) \o rest = m
      BY <1>3, <2>1, <3>1, <3>3, Zenon
    <3> QED
      BY <3>2, <3>4, <3>5, Zenon
  <2>2. CASE ps # <<>>
    <3>1. rest = <<Blank>> \o m
      <4>1. Len(ps) \in Nat /\ Len(ps) # 0
        <5>1. Len(ps) = 0 => ps = <<>>
          BY <1>1, EmptySeq
        <5> QED
          BY <1>1, <2>2, <5>1
      <4>2. Len(ps) + 1 > 1
        BY <4>1
      <4>3. NeedComma(Len(ps) + 1)
        BY <4>2 DEF NeedComma
      <4> QED
        BY <4>3, Zenon DEF WithComma
    <3>2. PICK p : LogfmtReads(start, Body(Blank, ps), p) /\ LogfmtDone(p, vs)
      BY <2>2, Zenon DEF PairsRead
    <3>3. LogfmtReads(p, <<Blank>>, State("key", <<>>, 0, vs))
      BY <1>1, <3>2, LogfmtDoneReads, Zenon DEF Blank
    <3>4. PICK q : LogfmtReads(State("key", <<>>, 0, vs), m, q) /\ LogfmtDone(q, vs \o us)
      BY <1>1, Zenon DEF PairReads
    <3> HIDE DEF start, rest
    <3>5. LogfmtReads(p, rest, q)
      BY <3>1, <3>3, <3>4, LogfmtReadsThen, Zenon
    <3>6. LogfmtReads(start, Body(Blank, ps) \o rest, q)
      BY <3>2, <3>5, LogfmtReadsThen, Zenon
    <3> QED
      BY <3>4, <3>6, Zenon
  <2> QED
    BY <2>1, <2>2
<1> QED
  BY <1>1, <1>4, <1>6, Zenon DEF PairsRead

\* A pair that may be missing, and what is read of it.
MayPair(part, told) ==
    \/ part = <<>> /\ told = <<>>
    \/ \E m : part = <<m>> /\ PairReads(m, told)

LEMMA PairPartRead ==
    ASSUME NEW ps, NEW vs, NEW part, NEW told, PairsRead(ps, vs), MayPair(part, told)
    PROVE  PairsRead(ps \o part, vs \o told)
<1>1. ps \in Seq(Text) /\ vs \in Seq(Text)
  BY DEF PairsRead
<1>2. CASE part = <<>> /\ told = <<>>
  <2>1. ps \o part = ps /\ vs \o told = vs
    BY <1>1, <1>2, ConcatEmptySeq
  <2> QED
    BY <2>1
<1>3. ASSUME NEW m, part = <<m>>, PairReads(m, told)
      PROVE  PairsRead(ps \o part, vs \o told)
  <2>1. PairsRead(Append(ps, m), vs \o told)
    BY <1>3, OneMorePair
  <2>2. m \in Text
    BY <1>3 DEF PairReads
  <2>3. Append(ps, m) = ps \o <<m>>
    BY <1>1, <2>2, AppendIsConcat
  <2> QED
    BY <1>3, <2>1, <2>3, Zenon
<1> QED
  BY <1>2, <1>3 DEF MayPair

LogfmtPair(f) == Pair(LogfmtText(Keys[f.key]), LogfmtValue(f))
LogfmtTold(f) == <<Keys[f.key], ValueText(f, Stringified(f))>>

LogfmtPairs == [f \in Fields |-> LogfmtPair(f)]
LogfmtAllTold == [f \in Fields |-> LogfmtTold(f)]

LEMMA PairFieldsRead ==
    ASSUME opts \in OptionValues, NEW ps, NEW vs, PairsRead(ps, vs), NEW fs \in Seq(Fields)
    PROVE  PairsRead(ps \o Along(LogfmtPairs, fs), vs \o FlattenSeq(Along(LogfmtAllTold, fs)))
<1> DEFINE R == {w \in Seq(Text) \X Seq(Text) : PairsRead(w[1], w[2])}
<1>1. ASSUME NEW f \in Fields PROVE PairReads(LogfmtPair(f), LogfmtTold(f))
  <2>1. Keys[f.key] \in Text
    BY FieldTypes
  <2>2. LogfmtText(Keys[f.key]) \in Text /\ LogfmtSpells(LogfmtText(Keys[f.key]), Keys[f.key])
    BY <2>1, EscapedText, LogfmtSpellsEscaped DEF LogfmtText
  <2>3. LogfmtValueReads(LogfmtValue(f), ValueText(f, Stringified(f)))
    BY FieldValueReads
  <2> QED
    BY <2>1, <2>2, <2>3, KeyAndValuePair, Zenon DEF LogfmtPair, LogfmtTold
<1>2. \A f \in Fields : LogfmtPair(f) \in Text /\ LogfmtTold(f) \in Seq(Text)
  BY <1>1, Zenon DEF PairReads
<1>3. LogfmtPairs \in [Fields -> Text] /\ LogfmtAllTold \in [Fields -> Seq(Text)]
  BY <1>2 DEF LogfmtPairs, LogfmtAllTold
<1>4. ps \in Seq(Text) /\ vs \in Seq(Text)
  BY DEF PairsRead
<1>5. <<ps, vs>> \in R
  BY <1>4
<1>6. ASSUME NEW m \in Seq(Text), NEW v \in Seq(Text), <<m, v>> \in R, NEW f \in Fields
      PROVE  <<Append(m, LogfmtPairs[f]), v \o LogfmtAllTold[f]>> \in R
  <2>1. PairsRead(Append(m, LogfmtPair(f)), v \o LogfmtTold(f))
    BY <1>1, <1>6, OneMorePair
  <2>2. LogfmtPairs[f] = LogfmtPair(f) /\ LogfmtAllTold[f] = LogfmtTold(f)
    BY DEF LogfmtPairs, LogfmtAllTold
  <2>3. Append(m, LogfmtPair(f)) \in Seq(Text) /\ v \o LogfmtTold(f) \in Seq(Text)
    BY <2>1, Zenon DEF PairsRead
  <2> QED
    BY <2>1, <2>2, <2>3
<1> HIDE DEF R
<1>7. <<ps \o Along(LogfmtPairs, fs), vs \o FlattenSeq(Along(LogfmtAllTold, fs))>> \in R
  BY <1>3, <1>4, <1>5, <1>6, Collected
<1> QED
  BY <1>7 DEF R

LogfmtCallerRead == <<CallerKey, CallerText \o <<":">> \o LineNumber>>

LogfmtHead(e) ==
    (IF opts.noTimestamp THEN <<>> ELSE <<Pair(TimeKey, LogfmtQuoted(CachedTime(e.time)))>>)
      \o (IF opts.noLevel THEN <<>> ELSE <<Pair(LevelKey, LogfmtQuoted(LevelText))>>)
      \o (IF e.message = <<>> THEN <<>>
          ELSE <<Pair(MessageKey, LogfmtQuoted(LogfmtText(e.message)))>>)
      \o (IF ~e.caller THEN <<>>
          ELSE <<Pair(CallerKey, LogfmtQuoted(LogfmtText(CallerText) \o <<":">> \o LineNumber))>>)

LEMMA LogfmtHeadReads ==
    ASSUME Inv
    PROVE  PairsRead(LogfmtHead(entry), HeadTold(~opts.noLevel, LogfmtCallerRead))
<1> DEFINE C == Char \ LogfmtEscaped
           place == LogfmtText(CallerText) \o <<":">> \o LineNumber
           placeTold == CallerText \o <<":">> \o LineNumber
           timestamp == IF opts.noTimestamp THEN <<>>
                        ELSE <<Pair(TimeKey, LogfmtQuoted(CachedTime(entry.time)))>>
           severity == IF opts.noLevel THEN <<>> ELSE <<Pair(LevelKey, LogfmtQuoted(LevelText))>>
           message == IF entry.message = <<>> THEN <<>>
                      ELSE <<Pair(MessageKey, LogfmtQuoted(LogfmtText(entry.message)))>>
           caller == IF ~entry.caller THEN <<>> ELSE <<Pair(CallerKey, LogfmtQuoted(place))>>
           timestampTold == IF opts.noTimestamp THEN <<>> ELSE <<TimeKey, TimeText(entry.time)>>
           severityTold == IF ~opts.noLevel THEN <<LevelKey, LevelText>> ELSE <<>>
           messageTold == IF entry.message = <<>> THEN <<>> ELSE <<MessageKey, entry.message>>
           callerTold == IF entry.caller THEN LogfmtCallerRead ELSE <<>>
<1>1. entry \in EntryValues /\ CacheInv
  BY DEF Inv, EntryTypes
<1>2. entry.time \in Times /\ entry.message \in Text
  BY <1>1 DEF EntryValues
<1>3. ASSUME NEW c \in C PROVE <<c>> \in Text /\ LogfmtSpells(<<c>>, <<c>>)
  <2>1. <<c>> \in Seq(C)
    OBVIOUS
  <2> QED
    BY <2>1, LogfmtSpellsPlain
<1>4. "t" \in C /\ "l" \in C /\ "m" \in C /\ "c" \in C /\ "I" \in C /\ "f" \in C /\ "1" \in C
  BY LettersAre DEF LogfmtEscaped
<1>5. ":" \in C
  BY Texts, Zenon DEF Special, LogfmtEscaped
<1> HIDE DEF C
<1>6. /\ TimeKey \in Text /\ LogfmtSpells(TimeKey, TimeKey)
      /\ LevelKey \in Text /\ LogfmtSpells(LevelKey, LevelKey)
      /\ MessageKey \in Text /\ LogfmtSpells(MessageKey, MessageKey)
      /\ CallerKey \in Text /\ LogfmtSpells(CallerKey, CallerKey)
      /\ LevelText \in Text /\ LogfmtSpells(LevelText, LevelText)
      /\ LineNumber \in Text /\ LogfmtSpells(LineNumber, LineNumber)
      /\ CallerText \in Text
  BY <1>3, <1>4, Zenon DEF TimeKey, LevelKey, MessageKey, CallerKey, LevelText, LineNumber,
     CallerText
<1>7. MayPair(timestamp, timestampTold)
  <2>1. CachedTime(entry.time) = TimeText(entry.time)
    BY <1>1, TimesCached
  <2>2. TimeText(entry.time) \in Seq(C)
    <3>1. entry.time.ms \in DOMAIN Numeral
      BY <1>2, FormattersAssumption
    <3>2. Numeral[entry.time.ms] \in Char \ Special
      BY <3>1, Texts
    <3>3. LogfmtEscaped \subseteq Special
      BY Zenon DEF LogfmtEscaped, Special
    <3>4. "T" \in C
      BY LettersAre DEF LogfmtEscaped, C
    <3>5. Numeral[entry.time.ms] \in C
      BY <3>2, <3>3 DEF C
    <3> QED
      BY <3>4, <3>5 DEF TimeText
  <2>3. TimeText(entry.time) \in Text
        /\ LogfmtSpells(TimeText(entry.time), TimeText(entry.time))
    BY <2>2, LogfmtSpellsPlain DEF C
  <2>4. LogfmtValueReads(LogfmtQuoted(TimeText(entry.time)), TimeText(entry.time))
    BY <2>3, QuotedOrBareReads
  <2>5. PairReads(Pair(TimeKey, LogfmtQuoted(TimeText(entry.time))),
                  <<TimeKey, TimeText(entry.time)>>)
    BY <1>6, <2>4, KeyAndValuePair
  <2> QED
    BY <2>1, <2>5, Zenon DEF MayPair
<1>8. MayPair(severity, severityTold)
  <2>1. LogfmtValueReads(LogfmtQuoted(LevelText), LevelText)
    BY <1>6, QuotedOrBareReads
  <2>2. PairReads(Pair(LevelKey, LogfmtQuoted(LevelText)), <<LevelKey, LevelText>>)
    BY <1>6, <2>1, KeyAndValuePair
  <2> QED
    BY <2>2, Zenon DEF MayPair
<1>9. MayPair(message, messageTold)
  <2>1. LogfmtText(entry.message) \in Text
        /\ LogfmtSpells(LogfmtText(entry.message), entry.message)
    BY <1>2, EscapedText, LogfmtSpellsEscaped DEF LogfmtText
  <2>2. LogfmtValueReads(LogfmtQuoted(LogfmtText(entry.message)), entry.message)
    BY <1>2, <2>1, QuotedOrBareReads
  <2>3. PairReads(Pair(MessageKey, LogfmtQuoted(LogfmtText(entry.message))),
                  <<MessageKey, entry.message>>)
    BY <1>6, <2>2, KeyAndValuePair
  <2> QED
    BY <2>3, Zenon DEF MayPair
<1>10. MayPair(caller, callerTold)
  <2>1. LogfmtText(CallerText) \in Text /\ LogfmtSpells(LogfmtText(CallerText), CallerText)
    BY <1>6, EscapedText, LogfmtSpellsEscaped DEF LogfmtText
  <2>2. <<":">> \in Text /\ LogfmtSpells(<<":">>, <<":">>)
    BY <1>3, <1>5, Zenon
  <2>3. LogfmtText(CallerText) \o <<":">> \in Text /\ CallerText \o <<":">> \in Text
    BY <1>6, <2>1, <2>2, Texts, Zenon
  <2>4. place \in Text /\ placeTold \in Text
    BY <1>6, <2>3, Texts, Zenon
  <2>5. LogfmtSpells(LogfmtText(CallerText) \o <<":">>, CallerText \o <<":">>)
    BY <1>6, <2>1, <2>2, LogfmtSpellsThen, Zenon
  <2>6. LogfmtSpells(place, placeTold)
    BY <1>6, <2>3, <2>5, LogfmtSpellsThen, Zenon
  <2> HIDE DEF place, placeTold
  <2>7. LogfmtValueReads(LogfmtQuoted(place), placeTold)
    BY <2>4, <2>6, QuotedOrBareReads
  <2>8. PairReads(Pair(CallerKey, LogfmtQuoted(place)), <<CallerKey, placeTold>>)
    BY <1>6, <2>7, KeyAndValuePair
  <2> QED
    BY <2>8, Zenon DEF MayPair, LogfmtCallerRead, placeTold
<1> HIDE DEF timestamp, severity, message, caller, timestampTold, severityTold, messageTold,
             callerTold, place, placeTold
<1>11. PairsRead(<<>>, <<>>)
  <2>1. <<>> \in Seq(Text)
    OBVIOUS
  <2> QED
    BY <2>1, Zenon DEF PairsRead
<1>12. PairsRead(<<>> \o timestamp, <<>> \o timestampTold)
  BY <1>7, <1>11, PairPartRead, Zenon
<1>13. <<>> \o timestamp = timestamp /\ <<>> \o timestampTold = timestampTold
  <2>1. CASE timestamp = <<>> /\ timestampTold = <<>>
    BY <2>1, ConcatEmptySeq, EmptySeq
  <2>2. ASSUME NEW m, timestamp = <<m>>, PairReads(m, timestampTold)
        PROVE  <<>> \o timestamp = timestamp /\ <<>> \o timestampTold = timestampTold
    <3>1. m \in Text /\ timestampTold \in Seq(Text)
      BY <2>2, Zenon DEF PairReads
    <3>2. timestamp \in Seq(Text)
      BY <2>2, <3>1
    <3> QED
      BY <3>1, <3>2, ConcatEmptySeq
  <2> QED
    BY <1>7, <2>1, <2>2, Zenon DEF MayPair
<1>14. PairsRead(timestamp, timestampTold)
  BY <1>12, <1>13, Zenon
<1>15. PairsRead(timestamp \o severity, timestampTold \o severityTold)
  BY <1>8, <1>14, PairPartRead, Zenon
<1>16. PairsRead(timestamp \o severity \o message, timestampTold \o severityTold \o messageTold)
  BY <1>9, <1>15, PairPartRead, Zenon
<1>17. PairsRead(timestamp \o severity \o message \o caller,
                 timestampTold \o severityTold \o messageTold \o callerTold)
  BY <1>10, <1>16, PairPartRead, Zenon
<1> QED
  BY <1>17, Zenon DEF LogfmtHead, HeadTold, timestamp, severity, message, caller, timestampTold,
     severityTold, messageTold, callerTold, place


LogfmtContents == Contents(~opts.noLevel, LogfmtCallerRead, Stringified)

\* The pairs of the entry's line, and what is read of them.
LogfmtAll == LogfmtHead(entry) \o Along(LogfmtPairs, entry.fields)
LogfmtAllRead ==
    HeadTold(~opts.noLevel, LogfmtCallerRead) \o FlattenSeq(Along(LogfmtAllTold, entry.fields))

LEMMA LogfmtLineIs ==
    ASSUME Inv
    PROVE  /\ LogfmtLine(entry) = Body(Blank, LogfmtAll) \o Newline
           /\ LogfmtContents = LogfmtAllRead
           /\ PairsRead(LogfmtAll, LogfmtAllRead)
<1> DEFINE fields == Along(LogfmtPairs, entry.fields)
           fieldsTold == FlattenSeq(Along(LogfmtAllTold, entry.fields))
<1>1. entry.fields \in Seq(Fields) /\ opts \in OptionValues
  BY DEF Inv, EntryTypes, EntryValues
<1>2. PairsRead(LogfmtAll, LogfmtAllRead)
  BY <1>1, LogfmtHeadReads, PairFieldsRead, Zenon DEF LogfmtAll, LogfmtAllRead
<1>3. LogfmtLine(entry) = Body(Blank, LogfmtAll) \o Newline
  <2>1. fields = [i \in DOMAIN entry.fields |->
                    Pair(LogfmtText(Keys[entry.fields[i].key]), LogfmtValue(entry.fields[i]))]
    BY <1>1, ElementOfSeq DEF Along, LogfmtPairs, LogfmtPair
  <2> HIDE DEF fields
  <2>2. LogfmtAll = LogfmtHead(entry) \o fields
    BY Zenon DEF LogfmtAll, fields
  <2> QED
    BY <2>1, <2>2, Zenon DEF LogfmtLine, LogfmtHead, Body, WithComma, NeedComma, Blank
<1>4. LogfmtContents = LogfmtAllRead
  <2>1. fieldsTold = FlattenSeq([i \in DOMAIN entry.fields |->
                        LET f == entry.fields[i] IN <<Keys[f.key], ValueText(f, Stringified(f))>>])
    <3>1. Along(LogfmtAllTold, entry.fields) = [i \in DOMAIN entry.fields |->
                        LET f == entry.fields[i] IN <<Keys[f.key], ValueText(f, Stringified(f))>>]
      BY <1>1, ElementOfSeq DEF Along, LogfmtAllTold, LogfmtTold
    <3> QED
      BY <3>1, Zenon
  <2> HIDE DEF fieldsTold
  <2>2. LogfmtAllRead = HeadTold(~opts.noLevel, LogfmtCallerRead) \o fieldsTold
    BY Zenon DEF LogfmtAllRead, fieldsTold
  <2> QED
    BY <2>1, <2>2, Zenon DEF LogfmtContents, Contents, HeadTold
<1> QED
  BY <1>2, <1>3, <1>4

\* The line with its newline.
LEMMA WholeLineIs ==
    ASSUME NEW s \in Text, line = s \o Newline
    PROVE  WholeLine = s \o <<"\n">>
<1>1. "\n" \in Char
  BY Texts, Zenon DEF Special
<1>2. s \in Seq(Char)
  BY DEF Text
<1>3. CASE opts.disableNewline
  <2>1. line = s
    BY <1>2, <1>3, ConcatEmptySeq DEF Newline
  <2>2. WholeLine = Append(s, "\n")
    BY <1>3, <2>1, Zenon DEF WholeLine
  <2> QED
    BY <1>1, <1>2, <2>2, AppendIsConcat
<1>4. CASE ~opts.disableNewline
  BY <1>4, Zenon DEF WholeLine, Newline
<1> QED
  BY <1>3, <1>4

\* LogfmtRoundTrip, of every entry and for every choice of options: a logfmt line
\* has each pair as it was logged, quoted or not, the fields in order.
THEOREM LogfmtTheorem == AccessSpec => []LogfmtRoundTrip
<1>1. ASSUME Inv, format = "logfmt" PROVE LogfmtRoundTrip
  <2> DEFINE p == LogfmtRead(Parser("key"), WholeLine)
             body == Body(Blank, LogfmtAll)
  <2>1. line = LogfmtLine(entry) /\ (~opts.noSorting => Ordered(entry.fields))
    BY <1>1, Zenon DEF Inv, LineInv
  <2>2. /\ LogfmtLine(entry) = body \o Newline /\ LogfmtContents = LogfmtAllRead
        /\ PairsRead(LogfmtAll, LogfmtAllRead)
    BY <1>1, LogfmtLineIs, Zenon
  <2>3. LogfmtAll \in Seq(Text) /\ LogfmtAllRead \in Seq(Text)
    BY <2>2, Zenon DEF PairsRead
  <2>4. body \in Text /\ Body(Blank, <<>>) = <<>>
    <3>1. Blank \in Char /\ <<>> \in Text
      BY Texts, Zenon DEF Special, Blank
    <3> QED
      BY <2>3, <3>1, BodyAppend
  <2>5. WholeLine = body \o <<"\n">>
    BY <2>1, <2>2, <2>4, WholeLineIs, Zenon
  <2>6. ASSUME WholeLine # <<"\n">> PROVE p = State("end", <<>>, 0, LogfmtContents)
    <3>1. LogfmtAll # <<>>
      <4>1. <<"\n">> \in Text
        BY Texts, Zenon DEF Special
      <4>2. <<>> \o <<"\n">> = <<"\n">>
        BY <4>1, ConcatEmptySeq DEF Text
      <4> QED
        BY <2>4, <2>5, <2>6, <4>2, Zenon
    <3>2. PICK q : LogfmtReads(Parser("key"), body, q) /\ LogfmtDone(q, LogfmtAllRead)
      BY <2>2, <3>1, Zenon DEF PairsRead
    <3>3. LogfmtReads(q, <<"\n">>, State("end", <<>>, 0, LogfmtAllRead))
      BY <2>3, <3>2, LogfmtDoneReads, Zenon
    <3>4. LogfmtReads(Parser("key"), WholeLine, State("end", <<>>, 0, LogfmtAllRead))
      BY <2>5, <3>2, <3>3, LogfmtReadsThen, Zenon
    <3> QED
      BY <2>2, <3>4, LogfmtReadIs, Zenon
  <2> HIDE DEF p, body
  <2>7. WholeLine # <<"\n">> => p.at = "end" /\ p.read = LogfmtContents
    BY <2>6 DEF State
  <2> QED
    BY <2>1, <2>7, Zenon DEF LogfmtRoundTrip, LogfmtContents, LogfmtCallerRead, Ordered, p
<1>2. ASSUME format # "logfmt" PROVE LogfmtRoundTrip
  BY <1>2, Zenon DEF LogfmtRoundTrip
<1>3. Inv => LogfmtRoundTrip
  BY <1>1, <1>2
<1> QED
  BY <1>3, InvTheorem, PTL


--------------------------------------------------------------------------------
(* What an entry says of a part of a CLF line.                              *)

\* Of what g gives for the members of S, that of the last up to i, or base.
LastOf(S, g, base, i) ==
    LET upTo == S \cap (1..i) IN IF upTo = {} THEN base ELSE g[Max(upTo)]

LEMMA LastStep ==
    ASSUME NEW S, NEW g, NEW base, NEW i \in Nat \ {0}
    PROVE  LastOf(S, g, base, i) = IF i \in S THEN g[i] ELSE LastOf(S, g, base, i - 1)
<1> DEFINE upTo == S \cap (1..i)
           before == S \cap (1..(i - 1))
<1>1. CASE i \in S
  <2>1. upTo \in SUBSET (0..i) /\ i \in upTo /\ upTo # {} /\ i \in Nat
    BY <1>1
  <2>2. Max(upTo) \in upTo /\ i <= Max(upTo)
    <3> HIDE DEF upTo
    <3> QED
      BY <2>1, MaxMember
  <2>3. Max(upTo) = i
    <3>1. \A y \in upTo : y <= i /\ y \in Int
      OBVIOUS
    <3> HIDE DEF upTo
    <3> QED
      BY <2>2, <3>1
  <2> HIDE DEF upTo
  <2> QED
    BY <1>1, <2>1, <2>3, Zenon DEF LastOf, upTo
<1>2. CASE i \notin S
  <2>1. upTo = before
    BY <1>2
  <2> QED
    BY <1>2, <2>1, Zenon DEF LastOf
<1> QED
  BY <1>1, <1>2

LEMMA LastOfNone ==
    ASSUME NEW S, NEW g, NEW base
    PROVE  LastOf(S, g, base, 0) = base
<1>1. S \cap (1..0) = {}
  OBVIOUS
<1> QED
  BY <1>1, Zenon DEF LastOf

\* What f takes from g as it goes along the members of S.
Takes(f, S, g, base, n) ==
    f[0] = base /\ \A i \in 1..n : f[i] = IF i \in S THEN g[i] ELSE f[i - 1]

IsLast(v, S, g, base) == v = IF S = {} THEN base ELSE g[Max(S)]

LEMMA TakesLastOf ==
    ASSUME NEW n \in Nat, NEW S \in SUBSET (1..n), NEW g, NEW base, NEW f,
           Takes(f, S, g, base, n)
    PROVE  IsLast(f[n], S, g, base)
<1> DEFINE h == [i \in 0..n |-> LastOf(S, g, base, i)]
<1>1. h[0] = base
  BY LastOfNone
<1>2. \A i \in 1..n : h[i] = IF i \in S THEN g[i] ELSE h[i - 1]
  <2> SUFFICES ASSUME NEW i \in 1..n PROVE h[i] = IF i \in S THEN g[i] ELSE h[i - 1]
    OBVIOUS
  <2>1. i \in Nat \ {0} /\ i \in 0..n /\ i - 1 \in 0..n
    OBVIOUS
  <2> QED
    BY <2>1, LastStep
<1> HIDE DEF h
<1>3. Alike(f, h, n)
  BY <1>1, <1>2, Zenon DEF Alike, Takes
<1>4. f[n] = h[n]
  BY <1>3, Agree
<1>5. h[n] = LastOf(S, g, base, n)
  BY DEF h
<1>6. S \cap (1..n) = S
  OBVIOUS
<1> QED
  BY <1>4, <1>5, <1>6, Zenon DEF LastOf, IsLast

LEMMA PickedString ==
    ASSUME entry \in EntryValues, NEW part
    PROVE  PickString(part) = Given(part) /\ PickString(part) \in Text
<1> DEFINE fs == entry.fields
           n == Len(fs)
           S == Naming(part)
           g == [i \in 1..n |-> StringOf(fs[i])]
           Eq(f) == f = [i \in 0..n |->
                           IF i = 0 THEN <<>>
                           ELSE IF ~GivesPart(fs[i], part) THEN f[i - 1]
                           ELSE TakesLast(f[i - 1], StringOf(fs[i]))]
           taken == CHOOSE f : Eq(f)
           h == [i \in 0..n |-> LastOf(S, g, <<>>, i)]
<1>1. /\ fs \in Seq(Fields) /\ n \in Nat /\ DOMAIN fs = 1..n
      /\ \A i \in 1..n : fs[i] \in Fields
  <2>1. fs \in Seq(Fields)
    BY DEF EntryValues
  <2> QED
    BY <2>1, LenProperties, ElementOfSeq
<1>2. S \in SUBSET (1..n) /\ \A i \in 1..n : i \in S <=> GivesPart(fs[i], part)
  BY <1>1 DEF Naming
<1>3. \A i \in 1..n : g[i] = StringOf(fs[i])
  OBVIOUS
<1>4. PickString(part) = taken[n]
  BY Zenon DEF PickString
<1> HIDE DEF S, g, n, fs
<1>5. Eq(h)
  <2>1. ASSUME NEW i \in 0..n
        PROVE  h[i] = IF i = 0 THEN <<>>
                      ELSE IF ~GivesPart(fs[i], part) THEN h[i - 1]
                      ELSE TakesLast(h[i - 1], StringOf(fs[i]))
    <3>1. CASE i = 0
      BY <3>1, LastOfNone, Zenon
    <3>2. CASE i # 0
      <4>1. i \in Nat \ {0} /\ i - 1 \in 0..n /\ i \in 1..n
        BY <1>1, <3>2
      <4>2. LastOf(S, g, <<>>, i) = IF i \in S THEN g[i] ELSE LastOf(S, g, <<>>, i - 1)
        BY <4>1, LastStep
      <4>3. h[i] = IF i \in S THEN g[i] ELSE h[i - 1]
        BY <4>1, <4>2
      <4> HIDE DEF h
      <4> QED
        BY <1>2, <1>3, <3>2, <4>1, <4>3, Zenon DEF TakesLast
    <3> QED
      BY <3>1, <3>2
  <2>2. h = [i \in 0..n |-> h[i]]
    OBVIOUS
  <2> HIDE DEF h
  <2> QED
    BY <2>1, <2>2
<1>6. Eq(taken)
  BY <1>5
<1> HIDE DEF taken
<1>7. Takes(taken, S, g, <<>>, n)
  <2>1. taken[0] = <<>>
    BY <1>1, <1>6
  <2>2. ASSUME NEW i \in 1..n PROVE taken[i] = IF i \in S THEN g[i] ELSE taken[i - 1]
    <3>1. taken[i] = IF ~GivesPart(fs[i], part) THEN taken[i - 1]
                     ELSE TakesLast(taken[i - 1], StringOf(fs[i]))
      BY <1>1, <1>6
    <3> QED
      BY <1>2, <1>3, <3>1, Zenon DEF TakesLast
  <2> QED
    BY <2>1, <2>2, Zenon DEF Takes
<1>8. taken[n] = IF S = {} THEN <<>> ELSE g[Max(S)]
  <2>1. n \in Nat /\ S \in SUBSET (1..n)
    BY <1>1, <1>2, Zenon
  <2>2. IsLast(taken[n], S, g, <<>>)
    BY <2>1, <1>7, TakesLastOf, Zenon
  <2> QED
    BY <2>2, Zenon DEF IsLast
<1>9. S # {} => Max(S) \in 1..n
  <2> SUFFICES ASSUME S # {} PROVE Max(S) \in 1..n
    OBVIOUS
  <2>1. S \in SUBSET (0..n)
    BY <1>1, <1>2
  <2>2. Max(S) \in S
    BY <1>1, <2>1, MaxMember
  <2> QED
    BY <1>2, <2>2
<1>10. PickString(part) = Given(part)
  BY <1>3, <1>4, <1>8, <1>9, Zenon DEF Given, LastNaming, S, fs
<1>11. ASSUME NEW i \in 1..n PROVE StringOf(fs[i]) \in Text
  <2>1. fs[i] \in Fields
    BY <1>1
  <2>2. CASE fs[i].type \in {"string", "error"}
    <3>1. fs[i].text \in Text
      BY <2>1, <2>2, FieldTypes
    <3> QED
      BY <2>2, <3>1, Zenon DEF StringOf
  <2>3. CASE fs[i].type \notin {"string", "error"}
    BY <2>3, Texts, Zenon DEF StringOf
  <2> QED
    BY <2>2, <2>3
<1>12. PickString(part) \in Text
  <2>1. <<>> \in Text
    BY Texts
  <2> QED
    BY <1>3, <1>4, <1>8, <1>9, <1>11, <2>1, Zenon
<1> QED
  BY <1>10, <1>12

LEMMA PickedInteger ==
    ASSUME entry \in EntryValues, NEW part
    PROVE  /\ PickInteger(part) = ToldNumber(part)
           /\ PickInteger(part) \in DOMAIN Numeral /\ PickInteger(part) \in Int
<1> DEFINE fs == entry.fields
           n == Len(fs)
           S == Naming(part)
           g == [i \in 1..n |-> fs[i].int]
           Eq(f) == f = [i \in 0..n |->
                           IF i = 0 THEN 0
                           ELSE IF ~GivesPart(fs[i], part) THEN f[i - 1]
                           ELSE fs[i].int]
           taken == CHOOSE f : Eq(f)
           h == [i \in 0..n |-> LastOf(S, g, 0, i)]
<1>1. /\ fs \in Seq(Fields) /\ n \in Nat /\ DOMAIN fs = 1..n
      /\ \A i \in 1..n : fs[i] \in Fields
  <2>1. fs \in Seq(Fields)
    BY DEF EntryValues
  <2> QED
    BY <2>1, LenProperties, ElementOfSeq
<1>2. S \in SUBSET (1..n) /\ \A i \in 1..n : i \in S <=> GivesPart(fs[i], part)
  BY <1>1 DEF Naming
<1>3. \A i \in 1..n : g[i] = fs[i].int
  OBVIOUS
<1>4. PickInteger(part) = taken[n]
  BY Zenon DEF PickInteger
<1> HIDE DEF S, g, n, fs
<1>5. Eq(h)
  <2>1. ASSUME NEW i \in 0..n
        PROVE  h[i] = IF i = 0 THEN 0
                      ELSE IF ~GivesPart(fs[i], part) THEN h[i - 1]
                      ELSE fs[i].int
    <3>1. CASE i = 0
      BY <3>1, LastOfNone, Zenon
    <3>2. CASE i # 0
      <4>1. i \in Nat \ {0} /\ i - 1 \in 0..n /\ i \in 1..n
        BY <1>1, <3>2
      <4>2. LastOf(S, g, 0, i) = IF i \in S THEN g[i] ELSE LastOf(S, g, 0, i - 1)
        BY <4>1, LastStep
      <4>3. h[i] = IF i \in S THEN g[i] ELSE h[i - 1]
        BY <4>1, <4>2
      <4> HIDE DEF h
      <4> QED
        BY <1>2, <1>3, <3>2, <4>1, <4>3, Zenon
    <3> QED
      BY <3>1, <3>2
  <2>2. h = [i \in 0..n |-> h[i]]
    OBVIOUS
  <2> HIDE DEF h
  <2> QED
    BY <2>1, <2>2
<1>6. Eq(taken)
  BY <1>5
<1> HIDE DEF taken
<1>7. Takes(taken, S, g, 0, n)
  <2>1. taken[0] = 0
    BY <1>1, <1>6
  <2>2. ASSUME NEW i \in 1..n PROVE taken[i] = IF i \in S THEN g[i] ELSE taken[i - 1]
    <3>1. taken[i] = IF ~GivesPart(fs[i], part) THEN taken[i - 1] ELSE fs[i].int
      BY <1>1, <1>6
    <3> QED
      BY <1>2, <1>3, <3>1, Zenon
  <2> QED
    BY <2>1, <2>2, Zenon DEF Takes
<1>8. taken[n] = IF S = {} THEN 0 ELSE g[Max(S)]
  <2>1. n \in Nat /\ S \in SUBSET (1..n)
    BY <1>1, <1>2, Zenon
  <2>2. IsLast(taken[n], S, g, 0)
    BY <2>1, <1>7, TakesLastOf, Zenon
  <2> QED
    BY <2>2, Zenon DEF IsLast
<1>9. S # {} => Max(S) \in 1..n
  <2> SUFFICES ASSUME S # {} PROVE Max(S) \in 1..n
    OBVIOUS
  <2>1. S \in SUBSET (0..n)
    BY <1>1, <1>2
  <2>2. Max(S) \in S
    BY <1>1, <2>1, MaxMember
  <2> QED
    BY <1>2, <2>2
<1>10. PickInteger(part) = ToldNumber(part)
  BY <1>3, <1>4, <1>8, <1>9, Zenon DEF ToldNumber, LastNaming, S, fs
<1>11. /\ \A i \in 1..n : fs[i].int \in DOMAIN Numeral /\ fs[i].int \in Int
       /\ 0 \in DOMAIN Numeral /\ 0 \in Int
  <2>1. 0..255 \subseteq DOMAIN Numeral
    BY FormattersAssumption
  <2>2. 0 \in DOMAIN Numeral
    BY <2>1
  <2> QED
    BY <1>1, <2>2, FieldTypes
<1>12. PickInteger(part) \in DOMAIN Numeral /\ PickInteger(part) \in Int
  BY <1>3, <1>4, <1>8, <1>9, <1>11, Zenon
<1> QED
  BY <1>10, <1>12


--------------------------------------------------------------------------------
(* Reading CLF.                                                             *)

Mark == "\""
Opening == "["
Closing == "]"
LineEnd == "\n"

\* What follows the first k parts of a line begins with a and goes on with skip.
GlueIs(k, a, skip) ==
    k + 1 \in DOMAIN CLFGlue /\ CLFGlue[k + 1] = <<a>> \o skip /\ a \in Char /\ skip \in Text

LEMMA Marks ==
    /\ Blank \in Char /\ Mark \in Char /\ Opening \in Char /\ Closing \in Char
    /\ LineEnd \in Char
BY Texts, Zenon DEF Special, Blank, Mark, Opening, Closing, LineEnd

\* The glue of a line with and without the parts of the extended format.
GlueOf(s, t) ==
    /\ Len(s) = 6 /\ s[1] = <<Blank>> /\ s[2] = <<Blank>> /\ s[3] = <<Blank, Opening>>
    /\ s[4] = <<Closing, Blank, Mark>> /\ s[5] = <<Mark, Blank>> /\ s[6] = <<Blank>>
    /\ \A i \in 1..6 : (s \o t)[i] = s[i]
    /\ \A i \in 1..Len(t) : (s \o t)[6 + i] = t[i]
    /\ s \o t \in Seq(Text) /\ Len(s \o t) = 6 + Len(t)

ShortGlue ==
    <<<<Blank>>, <<Blank>>, <<Blank, Opening>>, <<Closing, Blank, Mark>>, <<Mark, Blank>>,
      <<Blank>>>>

\* s, and t after it.
Joined(s, t) ==
    /\ Len(s \o t) = Len(s) + Len(t)
    /\ \A i \in 1..Len(s) : (s \o t)[i] = s[i]
    /\ \A i \in 1..Len(t) : (s \o t)[Len(s) + i] = t[i]

LEMMA Joining ==
    ASSUME NEW S, NEW s \in Seq(S), NEW t \in Seq(S)
    PROVE  s \o t \in Seq(S) /\ Joined(s, t)
<1> DEFINE all == s \o t
<1>1. Len(s) \in Nat /\ Len(t) \in Nat
  OBVIOUS
<1>2. /\ all \in Seq(S) /\ Len(all) = Len(s) + Len(t)
      /\ \A i \in 1..(Len(s) + Len(t)) :
            all[i] = IF i <= Len(s) THEN s[i] ELSE t[i - Len(s)]
  BY ConcatProperties
<1> HIDE DEF all
<1>3. \A i \in 1..Len(s) : all[i] = s[i]
  BY <1>1, <1>2
<1>4. \A i \in 1..Len(t) : all[Len(s) + i] = t[i]
  BY <1>1, <1>2
<1> QED
  BY <1>2, <1>3, <1>4, Zenon DEF Joined, all

LEMMA GluesJoin ==
    ASSUME NEW t \in Seq(Text)
    PROVE  GlueOf(ShortGlue, t)
<1>1. /\ <<Blank>> \in Text /\ <<Blank, Opening>> \in Text
      /\ <<Closing, Blank, Mark>> \in Text /\ <<Mark, Blank>> \in Text
  BY Marks DEF Text
<1>2. /\ ShortGlue \in Seq(Text) /\ Len(ShortGlue) = 6
      /\ ShortGlue[1] = <<Blank>> /\ ShortGlue[2] = <<Blank>>
      /\ ShortGlue[3] = <<Blank, Opening>>
      /\ ShortGlue[4] = <<Closing, Blank, Mark>> /\ ShortGlue[5] = <<Mark, Blank>>
      /\ ShortGlue[6] = <<Blank>>
  BY <1>1 DEF ShortGlue
<1>3. ShortGlue \o t \in Seq(Text) /\ Joined(ShortGlue, t)
  BY <1>2, Joining
<1> QED
  BY <1>2, <1>3, Zenon DEF GlueOf, Joined

\* What is put before a sequence comes off again.
ComesOff(a, s) ==
    /\ Head(<<a>> \o s) = a /\ Tail(<<a>> \o s) = s /\ <<a>> \o s # <<>>

LEMMA ComingOff ==
    ASSUME NEW S, NEW a \in S, NEW s \in Seq(S)
    PROVE  ComesOff(a, s) /\ <<a>> \o s \in Seq(S)
<1> DEFINE all == <<a>> \o s
<1>1. <<a>> \in Seq(S) /\ Len(<<a>>) = 1 /\ <<a>>[1] = a /\ Len(s) \in Nat
  OBVIOUS
<1>2. all \in Seq(S) /\ Joined(<<a>>, s)
  BY <1>1, Joining
<1>3. /\ Len(all) = 1 + Len(s) /\ all[1] = a
      /\ \A i \in 1..Len(s) : all[1 + i] = s[i]
  BY <1>1, <1>2 DEF Joined
<1> HIDE DEF all
<1>4. all # <<>> /\ Head(all) = a
  BY <1>1, <1>2, <1>3
<1>5. Tail(all) = s
  <2>1. /\ Tail(all) \in Seq(S) /\ Len(Tail(all)) = Len(all) - 1
        /\ \A i \in 1..(Len(all) - 1) : Tail(all)[i] = all[i + 1]
    BY <1>2, <1>4
  <2>2. Len(Tail(all)) = Len(s)
    BY <1>1, <1>3, <2>1
  <2>3. \A i \in 1..Len(s) : Tail(all)[i] = s[i]
    BY <1>1, <1>3, <2>1
  <2> DEFINE tail == Tail(all)
  <2> HIDE DEF tail
  <2> QED
    BY <2>1, <2>2, <2>3, SeqEqual DEF tail
<1> QED
  BY <1>2, <1>4, <1>5, Zenon DEF ComesOff, all

SmallGlue(a, b, c) ==
    /\ <<a>> = <<a>> \o <<>> /\ <<a, b>> = <<a>> \o <<b>>
    /\ <<a, b, c>> = <<a>> \o <<b, c>>

LEMMA SmallGlues ==
    ASSUME NEW a \in Char, NEW b \in Char, NEW c \in Char
    PROVE  /\ SmallGlue(a, b, c)
           /\ <<a>> \in Text /\ <<a, b>> \in Text /\ <<a, b, c>> \in Text /\ <<>> \in Text
<1>1. /\ <<a>> \in Seq(Char) /\ <<b>> \in Seq(Char) /\ <<c>> \in Seq(Char)
      /\ <<a, b>> \in Seq(Char) /\ <<a, b, c>> \in Seq(Char) /\ <<>> \in Seq(Char)
  OBVIOUS
<1>2. Grows(a, b, c, c) /\ Grows(b, c, c, c)
  BY Growing
<1>3. Associates(<<a>>, <<b>>, <<c>>)
  BY <1>1, Associated
<1>4. <<a>> \o <<>> = <<a>>
  BY <1>1, ConcatEmptySeq
<1> QED
  BY <1>1, <1>2, <1>3, <1>4, Zenon DEF Grows, Associates, SmallGlue, Text

\* The glue of a line, and how much there is.
Glues ==
    /\ GlueIs(0, Blank, <<>>) /\ GlueIs(1, Blank, <<>>) /\ GlueIs(2, Blank, <<Opening>>)
    /\ GlueIs(3, Closing, <<Blank, Mark>>) /\ GlueIs(4, Mark, <<Blank>>)
    /\ GlueIs(5, Blank, <<>>)
    /\ ~opts.extended => GlueIs(6, LineEnd, <<>>) /\ Len(CLFGlue) = 7
    /\ opts.extended =>
          /\ GlueIs(6, Blank, <<Mark>>) /\ GlueIs(7, Mark, <<Blank, Mark>>)
          /\ GlueIs(8, Mark, <<LineEnd>>) /\ Len(CLFGlue) = 9

LEMMA GlueTyped ==
    ASSUME opts \in OptionValues
    PROVE  /\ CLFGlue \in Seq(Text) /\ \A i \in DOMAIN CLFGlue : CLFGlue[i] # <<>>
           /\ Glues
<1> DEFINE t == IF opts.extended THEN <<<<Blank, Mark>>, <<Mark, Blank, Mark>>, <<Mark, LineEnd>>>>
                ELSE <<<<LineEnd>>>>
<1>1. CLFGlue = ShortGlue \o t
  BY Zenon DEF CLFGlue, ShortGlue, Blank, Mark, Opening, Closing, LineEnd
<1>2. /\ <<Blank, Mark>> \in Text /\ <<Mark, Blank, Mark>> \in Text
      /\ <<Mark, LineEnd>> \in Text /\ <<LineEnd>> \in Text
      /\ <<Opening>> \in Text /\ <<Blank>> \in Text /\ <<Mark>> \in Text /\ <<>> \in Text
  BY Marks, SmallGlues
<1>3. t \in Seq(Text)
  BY <1>2
<1>4. GlueOf(ShortGlue, t)
  BY <1>3, GluesJoin
<1>5. /\ ~opts.extended => Len(t) = 1 /\ t[1] = <<LineEnd>>
      /\ opts.extended => /\ Len(t) = 3 /\ t[1] = <<Blank, Mark>>
                          /\ t[2] = <<Mark, Blank, Mark>> /\ t[3] = <<Mark, LineEnd>>
  BY <1>2
<1>6. opts.extended \in BOOLEAN
  BY DEF OptionValues
<1> HIDE DEF t
<1> DEFINE g == CLFGlue
<1>7. /\ g \in Seq(Text) /\ Len(g) = 6 + Len(t) /\ Len(t) \in Nat /\ DOMAIN g = 1..Len(g)
      /\ g[1] = <<Blank>> /\ g[2] = <<Blank>> /\ g[3] = <<Blank, Opening>>
      /\ g[4] = <<Closing, Blank, Mark>> /\ g[5] = <<Mark, Blank>> /\ g[6] = <<Blank>>
  <2>1. /\ g \in Seq(Text) /\ Len(g) = 6 + Len(t)
        /\ \A i \in 1..6 : g[i] = ShortGlue[i]
        /\ ShortGlue[1] = <<Blank>> /\ ShortGlue[2] = <<Blank>>
        /\ ShortGlue[3] = <<Blank, Opening>> /\ ShortGlue[4] = <<Closing, Blank, Mark>>
        /\ ShortGlue[5] = <<Mark, Blank>> /\ ShortGlue[6] = <<Blank>>
    BY <1>1, <1>4, Zenon DEF GlueOf
  <2>2. 1 \in 1..6 /\ 2 \in 1..6 /\ 3 \in 1..6 /\ 4 \in 1..6 /\ 5 \in 1..6 /\ 6 \in 1..6
    OBVIOUS
  <2>3. Len(t) \in Nat /\ DOMAIN g = 1..Len(g)
    BY <1>3, <2>1, LenProperties
  <2> HIDE DEF g
  <2> QED
    BY <2>1, <2>2, <2>3, Zenon
<1>8. /\ ~opts.extended => Len(g) = 7 /\ g[7] = <<LineEnd>>
      /\ opts.extended => /\ Len(g) = 9 /\ g[7] = <<Blank, Mark>>
                          /\ g[8] = <<Mark, Blank, Mark>> /\ g[9] = <<Mark, LineEnd>>
  <2>1. \A i \in 1..Len(t) : g[6 + i] = t[i]
    BY <1>1, <1>4, Zenon DEF GlueOf
  <2> HIDE DEF g
  <2> QED
    BY <1>5, <1>7, <2>1
<1> HIDE DEF g
<1>9. /\ SmallGlue(Blank, Opening, Mark) /\ SmallGlue(Closing, Blank, Mark)
      /\ SmallGlue(Mark, Blank, Mark) /\ SmallGlue(Blank, Mark, Mark)
      /\ SmallGlue(Mark, LineEnd, Mark) /\ SmallGlue(LineEnd, Mark, Mark)
      /\ <<Blank, Mark>> \in Text
  BY Marks, SmallGlues
<1>10. 0 + 1 = 1 /\ 1 + 1 = 2 /\ 2 + 1 = 3 /\ 3 + 1 = 4 /\ 4 + 1 = 5 /\ 5 + 1 = 6 /\ 6 + 1 = 7
       /\ 7 + 1 = 8 /\ 8 + 1 = 9
  OBVIOUS
<1>11. /\ 1 \in DOMAIN g /\ 2 \in DOMAIN g /\ 3 \in DOMAIN g /\ 4 \in DOMAIN g
       /\ 5 \in DOMAIN g /\ 6 \in DOMAIN g /\ 7 \in DOMAIN g
       /\ opts.extended => 8 \in DOMAIN g /\ 9 \in DOMAIN g
  BY <1>6, <1>7, <1>8
<1>12. Glues
  <2>1. /\ GlueIs(0, Blank, <<>>) /\ GlueIs(1, Blank, <<>>) /\ GlueIs(2, Blank, <<Opening>>)
        /\ GlueIs(3, Closing, <<Blank, Mark>>) /\ GlueIs(4, Mark, <<Blank>>)
        /\ GlueIs(5, Blank, <<>>)
    BY <1>2, <1>7, <1>9, <1>10, <1>11, Marks, Zenon DEF GlueIs, SmallGlue, g
  <2>2. ~opts.extended => GlueIs(6, LineEnd, <<>>)
    BY <1>2, <1>8, <1>9, <1>10, <1>11, Marks, Zenon DEF GlueIs, SmallGlue, g
  <2>3. opts.extended =>
          /\ GlueIs(6, Blank, <<Mark>>) /\ GlueIs(7, Mark, <<Blank, Mark>>)
          /\ GlueIs(8, Mark, <<LineEnd>>)
    BY <1>2, <1>8, <1>9, <1>10, <1>11, Marks, Zenon DEF GlueIs, SmallGlue, g
  <2> QED
    BY <1>8, <2>1, <2>2, <2>3, Zenon DEF Glues, g
<1>13. ASSUME NEW i \in DOMAIN g PROVE g[i] # <<>>
  <2>1. \A a, b, c : <<a>> # <<>> /\ <<a, b>> # <<>> /\ <<a, b, c>> # <<>>
    OBVIOUS
  <2>2. \/ i = 1 \/ i = 2 \/ i = 3 \/ i = 4 \/ i = 5 \/ i = 6 \/ i = 7
        \/ opts.extended /\ (i = 8 \/ i = 9)
    BY <1>6, <1>7, <1>8
  <2> QED
    BY <1>7, <1>8, <2>1, <2>2, Zenon
<1> QED
  BY <1>7, <1>12, <1>13, Zenon DEF g


\* The states of the reader of CLF lines.
Readers ==
    {p \in [cur : Text, skip : Text, read : Seq(Text), ok : BOOLEAN] :
        Len(p.read) <= Len(CLFGlue)}

LEMMA CLFStepTyped ==
    ASSUME opts \in OptionValues, NEW p \in Readers, NEW c \in Char
    PROVE  CLFStep(p, c) \in Readers
<1>1. /\ p.cur \in Text /\ p.skip \in Text /\ p.read \in Seq(Text) /\ p.ok \in BOOLEAN
      /\ Len(p.read) <= Len(CLFGlue) /\ Len(p.read) \in Nat
  BY DEF Readers
<1>2. /\ CLFGlue \in Seq(Text) /\ \A i \in DOMAIN CLFGlue : CLFGlue[i] # <<>>
      /\ Len(CLFGlue) \in Nat /\ DOMAIN CLFGlue = 1..Len(CLFGlue)
  BY GlueTyped, LenProperties
<1>3. \A cur, skip \in Text, ok \in BOOLEAN, read \in Seq(Text) :
        Len(read) <= Len(CLFGlue) => Reader(cur, skip, read, ok) \in Readers
  BY DEF Reader, Readers
<1>4. \A s \in Text : s # <<>> => Head(s) \in Char /\ Tail(s) \in Text
  BY DEF Text
<1>5. Append(p.cur, c) \in Text /\ <<>> \in Text
  BY <1>1, AppendProperties, EmptySeq DEF Text
<1>6. CASE p.skip # <<>>
  <2>1. Tail(p.skip) \in Text /\ (p.ok /\ c = Head(p.skip)) \in BOOLEAN
    BY <1>1, <1>4, <1>6, Zenon
  <2> QED
    BY <1>1, <1>3, <1>6, <2>1, Zenon DEF CLFStep
<1>7. CASE p.skip = <<>> /\ Len(p.read) = Len(CLFGlue)
  BY <1>1, <1>3, <1>7, Zenon DEF CLFStep
<1>8. CASE p.skip = <<>> /\ Len(p.read) # Len(CLFGlue)
  <2> DEFINE glue == CLFGlue[Len(p.read) + 1]
  <2>1. Len(p.read) + 1 \in DOMAIN CLFGlue /\ Len(p.read) + 1 <= Len(CLFGlue)
    BY <1>1, <1>2, <1>8
  <2>2. glue \in Text /\ glue # <<>>
    BY <1>2, <2>1, ElementOfSeq
  <2>3. Tail(glue) \in Text
    BY <1>4, <2>2, Zenon
  <2>4. Append(p.read, p.cur) \in Seq(Text) /\ Len(Append(p.read, p.cur)) = Len(p.read) + 1
    BY <1>1, AppendProperties
  <2>5. CLFStep(p, c) = IF c = Head(glue)
                        THEN Reader(<<>>, Tail(glue), Append(p.read, p.cur), p.ok)
                        ELSE Reader(Append(p.cur, c), p.skip, p.read, p.ok)
    BY <1>8, Zenon DEF CLFStep
  <2> HIDE DEF glue
  <2>6. Len(Append(p.read, p.cur)) <= Len(CLFGlue)
    BY <2>1, <2>4
  <2> QED
    BY <1>1, <1>3, <1>5, <2>3, <2>4, <2>5, <2>6, Zenon
<1> QED
  BY <1>6, <1>7, <1>8, Zenon

CLFTable == [q \in Readers \X Char |-> CLFStep(q[1], q[2])]

CLFReads(p, s, q) == Reads(Readers, CLFTable, p, s, q)

LEMMA CLFTableTyped ==
    ASSUME opts \in OptionValues
    PROVE  /\ CLFTable \in [Readers \X Char -> Readers]
           /\ \A p \in Readers, c \in Char : Meet(CLFTable, p, c) = CLFStep(p, c)
<1>1. ASSUME NEW q \in Readers \X Char PROVE CLFStep(q[1], q[2]) \in Readers
  <2>1. q[1] \in Readers /\ q[2] \in Char
    OBVIOUS
  <2> QED
    BY <2>1, CLFStepTyped
<1>2. CLFTable \in [Readers \X Char -> Readers]
  BY <1>1 DEF CLFTable
<1>3. ASSUME NEW p \in Readers, NEW c \in Char
      PROVE  Meet(CLFTable, p, c) = CLFStep(p, c)
  BY DEF CLFTable, Meet
<1> QED
  BY <1>2, <1>3

LEMMA CLFReadsOne ==
    ASSUME opts \in OptionValues, NEW p \in Readers, NEW c \in Char, NEW q,
           q = CLFStep(p, c)
    PROVE  CLFReads(p, <<c>>, q)
<1>1. Reads(Readers, CLFTable, p, <<c>>, Meet(CLFTable, p, c))
  BY CLFTableTyped, ReadsOne
<1>2. Meet(CLFTable, p, c) = CLFStep(p, c)
  BY CLFTableTyped
<1> QED
  BY <1>1, <1>2, Zenon DEF CLFReads

LEMMA CLFReadsThen ==
    ASSUME NEW p, NEW s, NEW q, NEW t, NEW r, CLFReads(p, s, q), CLFReads(q, t, r)
    PROVE  CLFReads(p, s \o t, r)
BY ReadsThen DEF CLFReads

\* What the reader makes of a text is where the steps lead.
LEMMA CLFReadIs ==
    ASSUME opts \in OptionValues, NEW p, NEW s, NEW q, CLFReads(p, s, q)
    PROVE  CLFRead(p, s) = q
<1> DEFINE n == Len(s)
           Eq(f) == f = [i \in 0..n |-> IF i = 0 THEN p ELSE CLFStep(f[i - 1], s[i])]
           read == CHOOSE f : Eq(f)
<1>1. /\ p \in Readers /\ s \in Seq(Char) /\ q = Fold(CLFTable, p, s) /\ n \in Nat
      /\ \A i \in 1..n : s[i] \in Char /\ i - 1 \in 0..n
  BY DEF CLFReads, Reads, Text
<1>2. PICK h \in [0..Len(s) -> Readers] : Follows(h, CLFTable, p, s)
  BY <1>1, CLFTableTyped, FoldExists, Zenon
<1>3. h[0] = p /\ \A i \in 1..n : h[i] = CLFStep(h[i - 1], s[i])
  <2>1. h[0] = p /\ \A i \in 1..n : h[i] = Meet(CLFTable, h[i - 1], s[i])
    BY <1>2, Zenon DEF Follows
  <2>2. \A i \in 1..n : h[i - 1] \in Readers
    BY <1>1, <1>2
  <2> QED
    BY <1>1, <2>1, <2>2, CLFTableTyped, Zenon
<1>4. Eq(h)
  <2>1. \A i \in 0..n : i # 0 => i \in 1..n
    BY <1>1
  <2>2. \A i \in 0..n : h[i] = IF i = 0 THEN p ELSE CLFStep(h[i - 1], s[i])
    BY <1>3, <2>1, Zenon
  <2> QED
    BY <1>2, <2>2
<1>5. Eq(read)
  BY <1>4
<1>6. CLFRead(p, s) = read[n]
  BY DEF CLFRead
<1> HIDE DEF read
<1>7. read[0] = p /\ \A i \in 1..n : read[i] = CLFStep(read[i - 1], s[i])
  BY <1>1, <1>5
<1>8. read[n] = h[n]
  <2>1. Alike(read, h, n)
    BY <1>3, <1>7, Zenon DEF Alike
  <2> HIDE DEF n
  <2> QED
    BY <1>1, <2>1, Agree
<1>9. Fold(CLFTable, p, s) = h[Len(s)]
  BY <1>1, <1>2, FoldIs, Zenon
<1> QED
  BY <1>1, <1>6, <1>8, <1>9


\* The first k of the parts f of a line.
Parts == [1..9 -> Text]
FirstOfParts(f, k) == [i \in 1..k |-> f[i]]

\* A reader that has k parts, and x of the next, or that still skips s.
At(f, k, x) == Reader(x, <<>>, FirstOfParts(f, k), TRUE)
Skipping(f, k, s) == Reader(<<>>, s, FirstOfParts(f, k), TRUE)

LEMMA PartsGrow ==
    ASSUME NEW f \in Parts, NEW k \in 0..8
    PROVE  /\ FirstOfParts(f, k) \in Seq(Text) /\ Len(FirstOfParts(f, k)) = k
           /\ f[k + 1] \in Text
           /\ FirstOfParts(f, k + 1) \in Seq(Text) /\ Len(FirstOfParts(f, k + 1)) = k + 1
           /\ FirstOfParts(f, k + 1) = Append(FirstOfParts(f, k), f[k + 1])
<1>1. \A i \in 1..(k + 1) : i \in 1..9 /\ f[i] \in Text
  BY DEF Parts
<1>2. /\ FirstOfParts(f, k) \in Seq(Text) /\ Len(FirstOfParts(f, k)) = k
      /\ \A i \in 1..k : FirstOfParts(f, k)[i] = f[i]
  BY <1>1, SeqDef DEF FirstOfParts
<1>3. /\ FirstOfParts(f, k + 1) \in Seq(Text) /\ Len(FirstOfParts(f, k + 1)) = k + 1
      /\ \A i \in 1..(k + 1) : FirstOfParts(f, k + 1)[i] = f[i]
  BY <1>1, SeqDef DEF FirstOfParts
<1> DEFINE s == FirstOfParts(f, k)
           t == Append(s, f[k + 1])
<1>4. /\ t \in Seq(Text) /\ Len(t) = k + 1 /\ t[k + 1] = f[k + 1]
      /\ \A i \in 1..k : t[i] = s[i]
  BY <1>1, <1>2, AppendProperties
<1>5. \A i \in 1..(k + 1) : FirstOfParts(f, k + 1)[i] = t[i]
  <2> HIDE DEF t, s
  <2> QED
    BY <1>2, <1>3, <1>4 DEF s
<1> HIDE DEF t
<1>6. FirstOfParts(f, k + 1) = t
  BY <1>3, <1>4, <1>5, SeqEqual
<1> QED
  BY <1>1, <1>2, <1>3, <1>6 DEF t

LEMMA AtTyped ==
    ASSUME opts \in OptionValues, NEW f \in Parts, NEW k \in 0..9, k <= Len(CLFGlue),
           NEW x \in Text, NEW s \in Text
    PROVE  /\ Reader(x, s, FirstOfParts(f, k), TRUE) \in Readers
           /\ Reader(<<>>, s, FirstOfParts(f, k), TRUE) \in Readers
           /\ Len(FirstOfParts(f, k)) = k /\ FirstOfParts(f, k) \in Seq(Text)
<1>1. FirstOfParts(f, k) \in Seq(Text) /\ Len(FirstOfParts(f, k)) = k
  <2>1. CASE k \in 0..8
    BY <2>1, PartsGrow
  <2>2. CASE k = 9
    <3>1. 8 \in 0..8 /\ 8 + 1 = 9
      OBVIOUS
    <3> QED
      BY <2>2, <3>1, PartsGrow
  <2> QED
    BY <2>1, <2>2
<1>2. <<>> \in Text
  BY Texts
<1> QED
  BY <1>1, <1>2 DEF Reader, Readers

\* What is left to skip is skipped.
LEMMA OneSkipped ==
    ASSUME opts \in OptionValues, NEW f \in Parts, NEW k \in 0..9, k <= Len(CLFGlue),
           NEW a \in Char, NEW s \in Text
    PROVE  CLFReads(Skipping(f, k, <<a>> \o s), <<a>>, Skipping(f, k, s))
<1> DEFINE p == Skipping(f, k, <<a>> \o s)
<1>1. ComesOff(a, s) /\ <<a>> \o s \in Text
  BY ComingOff DEF Text
<1>2. p \in Readers
  BY <1>1, AtTyped, Zenon DEF Skipping
<1>3. /\ p.cur = <<>> /\ p.skip = <<a>> \o s /\ p.read = FirstOfParts(f, k) /\ p.ok = TRUE
  BY DEF Skipping, Reader
<1> HIDE DEF p
<1>4. CLFStep(p, a) = Reader(p.cur, s, p.read, p.ok /\ a = a)
  BY <1>1, <1>3, Zenon DEF CLFStep, ComesOff
<1>5. (p.ok /\ a = a) = TRUE
  BY <1>3
<1>6. Skipping(f, k, s) = CLFStep(p, a)
  BY <1>3, <1>4, <1>5, Zenon DEF Skipping
<1> QED
  BY <1>2, <1>6, CLFReadsOne, Zenon DEF p

\* The glue after a part ends it, ...
LEMMA PartEnds ==
    ASSUME opts \in OptionValues, NEW f \in Parts, NEW k \in 0..8, NEW a, NEW s,
           GlueIs(k, a, s)
    PROVE  CLFReads(At(f, k, f[k + 1]), <<a>>, Skipping(f, k + 1, s))
<1> DEFINE p == At(f, k, f[k + 1])
           glue == CLFGlue[Len(p.read) + 1]
<1>1. a \in Char /\ s \in Text /\ k + 1 \in DOMAIN CLFGlue /\ CLFGlue[k + 1] = <<a>> \o s
  BY Zenon DEF GlueIs
<1>2. ComesOff(a, s)
  BY <1>1, ComingOff DEF Text
<1>3. k <= Len(CLFGlue) /\ k # Len(CLFGlue)
  <2>1. CLFGlue \in Seq(Text)
    BY GlueTyped
  <2> QED
    BY <1>1, <2>1, LenProperties
<1>4. f[k + 1] \in Text /\ FirstOfParts(f, k + 1) = Append(FirstOfParts(f, k), f[k + 1])
      /\ Len(FirstOfParts(f, k)) = k
  BY PartsGrow
<1>5. p \in Readers
  <2>1. k \in 0..9 /\ <<>> \in Text
    BY Texts
  <2> QED
    BY <1>3, <1>4, <2>1, AtTyped, Zenon DEF At
<1>6. /\ p.cur = f[k + 1] /\ p.skip = <<>> /\ p.read = FirstOfParts(f, k) /\ p.ok = TRUE
  BY DEF At, Reader
<1>7. Len(p.read) = k /\ glue = <<a>> \o s
  BY <1>1, <1>4, <1>6
<1> HIDE DEF p, glue
<1>8. CLFStep(p, a) = Reader(<<>>, Tail(glue), Append(p.read, p.cur), p.ok)
  BY <1>2, <1>3, <1>6, <1>7, Zenon DEF CLFStep, glue, ComesOff
<1>9. CLFStep(p, a) = Skipping(f, k + 1, s)
  BY <1>2, <1>4, <1>6, <1>7, <1>8, Zenon DEF Skipping, ComesOff
<1> QED
  BY <1>1, <1>5, <1>9, CLFReadsOne, Zenon DEF p


\* ... and what comes before it is taken.
LEMMA CharacterTaken ==
    ASSUME opts \in OptionValues, NEW f \in Parts, NEW k \in 0..8, NEW a, NEW s,
           GlueIs(k, a, s), NEW x \in Text, NEW c \in Char \ {a}
    PROVE  CLFReads(At(f, k, x), <<c>>, At(f, k, Append(x, c)))
<1> DEFINE p == At(f, k, x)
           glue == CLFGlue[Len(p.read) + 1]
<1>1. a \in Char /\ s \in Text /\ k + 1 \in DOMAIN CLFGlue /\ CLFGlue[k + 1] = <<a>> \o s
  BY Zenon DEF GlueIs
<1>2. ComesOff(a, s)
  BY <1>1, ComingOff DEF Text
<1>3. k <= Len(CLFGlue) /\ k # Len(CLFGlue)
  <2>1. CLFGlue \in Seq(Text)
    BY GlueTyped
  <2> QED
    BY <1>1, <2>1, LenProperties
<1>4. Len(FirstOfParts(f, k)) = k
  BY PartsGrow
<1>5. p \in Readers
  <2>1. k \in 0..9 /\ <<>> \in Text
    BY Texts
  <2> QED
    BY <1>3, <2>1, AtTyped, Zenon DEF At
<1>6. p.cur = x /\ p.skip = <<>> /\ p.read = FirstOfParts(f, k) /\ p.ok = TRUE
  BY DEF At, Reader
<1>7. Len(p.read) = k /\ glue = <<a>> \o s
  BY <1>1, <1>4, <1>6
<1>8. c \in Char /\ c # a
  OBVIOUS
<1> HIDE DEF p, glue
<1>9. CLFStep(p, c) = Reader(Append(p.cur, c), p.skip, p.read, p.ok)
  BY <1>2, <1>3, <1>6, <1>7, <1>8, Zenon DEF CLFStep, glue, ComesOff
<1>10. CLFStep(p, c) = At(f, k, Append(x, c))
  BY <1>6, <1>9, Zenon DEF At
<1> QED
  BY <1>5, <1>8, <1>10, CLFReadsOne, Zenon DEF p

LEMMA PartTaken ==
    ASSUME opts \in OptionValues, NEW f \in Parts, NEW k \in 0..8, NEW a, NEW s,
           GlueIs(k, a, s), f[k + 1] \in Seq(Char \ {a})
    PROVE  CLFReads(At(f, k, <<>>), f[k + 1], At(f, k, f[k + 1]))
<1> DEFINE C == Char \ {a}
           P == {x \in Text : CLFReads(At(f, k, <<>>), x, At(f, k, x))}
<1>1. <<>> \in P
  <2>1. At(f, k, <<>>) \in Readers
    <3>1. k \in 0..9 /\ <<>> \in Text
      BY Texts
    <3>2. k <= Len(CLFGlue)
      <4>1. CLFGlue \in Seq(Text) /\ k + 1 \in DOMAIN CLFGlue
        BY GlueTyped, Zenon DEF GlueIs
      <4> QED
        BY <4>1, LenProperties
    <3> QED
      BY <3>1, <3>2, AtTyped, Zenon DEF At
  <2>2. CLFTable \in [Readers \X Char -> Readers]
    BY CLFTableTyped
  <2> QED
    BY <2>1, <2>2, ReadsNone, Texts, Zenon DEF CLFReads
<1>2. ASSUME NEW x \in Seq(C), NEW c \in C, x \in P PROVE Append(x, c) \in P
  <2>1. CLFReads(At(f, k, <<>>), x, At(f, k, x)) /\ x \in Text
    BY <1>2
  <2>2. CLFReads(At(f, k, x), <<c>>, At(f, k, Append(x, c)))
    BY <2>1, CharacterTaken
  <2>3. CLFReads(At(f, k, <<>>), x \o <<c>>, At(f, k, Append(x, c)))
    BY <2>1, <2>2, CLFReadsThen, Zenon
  <2>4. Append(x, c) = x \o <<c>> /\ Append(x, c) \in Text
    BY <2>1, AppendIsConcat, AppendProperties DEF Text
  <2> QED
    BY <2>3, <2>4
<1> HIDE DEF P
<1>3. Seq(C) \subseteq P
  BY <1>1, <1>2, SeqInduction, Zenon
<1>4. f[k + 1] \in P
  BY <1>3, Zenon DEF C
<1> QED
  BY <1>4 DEF P

\* A part of which nothing is left to skip has been reached.
LEMMA Reached ==
    ASSUME NEW f, NEW k
    PROVE  Skipping(f, k, <<>>) = At(f, k, <<>>)
BY Zenon DEF Skipping, At

\* A part and the first of the glue after it.
PartRuns(f, k, a, s) ==
    /\ CLFReads(At(f, k, <<>>), f[k + 1], At(f, k, f[k + 1]))
    /\ CLFReads(At(f, k, f[k + 1]), <<a>>, Skipping(f, k + 1, s))

LEMMA PartRunsOn ==
    ASSUME opts \in OptionValues, NEW f \in Parts, NEW k \in 0..8, NEW a, NEW s,
           GlueIs(k, a, s), f[k + 1] \in Seq(Char \ {a})
    PROVE  PartRuns(f, k, a, s)
BY PartTaken, PartEnds, Zenon DEF PartRuns


LEMMA ReadsThree ==
    ASSUME NEW p, NEW s, NEW q, NEW t, NEW r, NEW u, NEW v,
           CLFReads(p, s, q), CLFReads(q, t, r), CLFReads(r, u, v)
    PROVE  CLFReads(p, s \o t \o u, v)
<1>1. CLFReads(p, s \o t, r)
  BY CLFReadsThen, Zenon
<1> QED
  BY <1>1, CLFReadsThen, Zenon

LEMMA ReadsWords ==
    ASSUME NEW p, NEW s, NEW q, NEW r, NEW t, NEW u,
           CLFReads(p, s, q), CLFReads(q, <<Blank>>, r), CLFReads(r, t, u)
    PROVE  CLFReads(p, Words(s, t), u)
BY ReadsThree, Zenon DEF Words, Blank

LEMMA ReadsQuoted ==
    ASSUME NEW p, NEW q, NEW s, NEW r, NEW u,
           CLFReads(p, <<Mark>>, q), CLFReads(q, s, r), CLFReads(r, <<Mark>>, u)
    PROVE  CLFReads(p, Quoted(s), u)
BY ReadsThree, Zenon DEF Quoted, Quote, Mark

\* A line with the parts f, without its newline: what both formats have, and what
\* the extended format adds.
LineOf(f) ==
    Words(Words(f[1], Words(f[2], f[3])),
          Words(<<Opening>> \o f[4] \o <<Closing>>, Words(Quoted(f[5]), Words(f[6], f[7]))))
AddedOf(f) == Words(<<>>, Words(Quoted(f[8]), Quoted(f[9])))

\* No part has the character that ends it.
Separable(f) ==
    /\ f[1] \in Seq(Char \ {Blank}) /\ f[2] \in Seq(Char \ {Blank})
    /\ f[3] \in Seq(Char \ {Blank}) /\ f[4] \in Seq(Char \ {Closing})
    /\ f[5] \in Seq(Char \ {Mark}) /\ f[6] \in Seq(Char \ {Blank})
    /\ ~opts.extended => f[7] \in Seq(Char \ {LineEnd})
    /\ opts.extended => /\ f[7] \in Seq(Char \ {Blank}) /\ f[8] \in Seq(Char \ {Mark})
                        /\ f[9] \in Seq(Char \ {Mark})

\* The glue that is left when a character of it has been skipped.
LEMMA Skips ==
    ASSUME opts \in OptionValues, NEW f \in Parts, NEW k \in 0..9, k <= Len(CLFGlue),
           NEW a \in Char, NEW b \in Char
    PROVE  /\ CLFReads(Skipping(f, k, <<a>>), <<a>>, At(f, k, <<>>))
           /\ CLFReads(Skipping(f, k, <<a, b>>), <<a>>, Skipping(f, k, <<b>>))
<1>1. SmallGlue(a, b, b) /\ <<>> \in Text /\ <<b>> \in Text
  BY SmallGlues
<1>2. CLFReads(Skipping(f, k, <<a>> \o <<>>), <<a>>, Skipping(f, k, <<>>))
  BY <1>1, OneSkipped, Zenon
<1>3. CLFReads(Skipping(f, k, <<a>> \o <<b>>), <<a>>, Skipping(f, k, <<b>>))
  BY <1>1, OneSkipped, Zenon
<1> QED
  BY <1>1, <1>2, <1>3, Reached, Zenon DEF SmallGlue

LEMMA CommonRead ==
    ASSUME opts \in OptionValues, NEW f \in Parts, Separable(f)
    PROVE  CLFReads(At(f, 0, <<>>), LineOf(f), At(f, 6, f[7]))
<1>1. /\ Glues /\ 7 <= Len(CLFGlue)
  <2>1. Glues /\ opts.extended \in BOOLEAN
    BY GlueTyped DEF OptionValues
  <2>2. opts.extended => Len(CLFGlue) = 9
    BY <2>1, Zenon DEF Glues
  <2>3. ~opts.extended => Len(CLFGlue) = 7
    BY <2>1, Zenon DEF Glues
  <2>4. 7 <= 7 /\ 7 <= 9
    OBVIOUS
  <2> QED
    BY <2>1, <2>2, <2>3, <2>4, Zenon
<1>2. /\ 0 + 1 = 1 /\ 1 + 1 = 2 /\ 2 + 1 = 3 /\ 3 + 1 = 4 /\ 4 + 1 = 5 /\ 5 + 1 = 6 /\ 6 + 1 = 7
      /\ 0 \in 0..8 /\ 1 \in 0..8 /\ 2 \in 0..8 /\ 3 \in 0..8 /\ 4 \in 0..8 /\ 5 \in 0..8
      /\ 6 \in 0..8
      /\ 3 \in 0..9 /\ 4 \in 0..9 /\ 5 \in 0..9
  OBVIOUS
<1>3. 3 <= Len(CLFGlue) /\ 4 <= Len(CLFGlue) /\ 5 <= Len(CLFGlue)
  <2>1. CLFGlue \in Seq(Text)
    BY GlueTyped
  <2> QED
    BY <1>1, <2>1, LenProperties
<1>4. /\ PartRuns(f, 0, Blank, <<>>) /\ PartRuns(f, 1, Blank, <<>>)
      /\ PartRuns(f, 2, Blank, <<Opening>>)
  BY <1>1, <1>2, PartRunsOn, Zenon DEF Glues, Separable
<1>5. /\ PartRuns(f, 3, Closing, <<Blank, Mark>>) /\ PartRuns(f, 4, Mark, <<Blank>>)
      /\ PartRuns(f, 5, Blank, <<>>)
  BY <1>1, <1>2, PartRunsOn, Zenon DEF Glues, Separable
<1>6. CLFReads(At(f, 6, <<>>), f[7], At(f, 6, f[7]))
  <2>1. CASE opts.extended
    BY <1>1, <1>2, <2>1, PartTaken, Zenon DEF Glues, Separable
  <2>2. CASE ~opts.extended
    BY <1>1, <1>2, <2>2, PartTaken, Zenon DEF Glues, Separable
  <2> QED
    BY <2>1, <2>2
<1>7. /\ CLFReads(Skipping(f, 3, <<Opening>>), <<Opening>>, At(f, 3, <<>>))
      /\ CLFReads(Skipping(f, 4, <<Blank, Mark>>), <<Blank>>, Skipping(f, 4, <<Mark>>))
      /\ CLFReads(Skipping(f, 4, <<Mark>>), <<Mark>>, At(f, 4, <<>>))
      /\ CLFReads(Skipping(f, 5, <<Blank>>), <<Blank>>, At(f, 5, <<>>))
  BY <1>2, <1>3, Marks, Skips, Zenon
<1>8. CLFReads(At(f, 0, <<>>), Words(f[1], Words(f[2], f[3])), At(f, 2, f[3]))
  <2>1. CLFReads(At(f, 1, <<>>), Words(f[2], f[3]), At(f, 2, f[3]))
    BY <1>2, <1>4, Reached, ReadsWords, Zenon DEF PartRuns
  <2> QED
    BY <1>2, <1>4, <2>1, Reached, ReadsWords, Zenon DEF PartRuns
<1>9. CLFReads(Skipping(f, 3, <<Opening>>), <<Opening>> \o f[4] \o <<Closing>>,
               Skipping(f, 4, <<Blank, Mark>>))
  BY <1>2, <1>5, <1>7, ReadsThree, Zenon DEF PartRuns
<1>10. CLFReads(Skipping(f, 4, <<Mark>>), Quoted(f[5]), Skipping(f, 5, <<Blank>>))
  BY <1>2, <1>5, <1>7, ReadsQuoted, Zenon DEF PartRuns
<1>11. CLFReads(At(f, 5, <<>>), Words(f[6], f[7]), At(f, 6, f[7]))
  BY <1>2, <1>5, <1>6, Reached, ReadsWords, Zenon DEF PartRuns
<1>12. CLFReads(Skipping(f, 4, <<Mark>>), Words(Quoted(f[5]), Words(f[6], f[7])),
                At(f, 6, f[7]))
  BY <1>7, <1>10, <1>11, ReadsWords, Zenon
<1>13. CLFReads(Skipping(f, 3, <<Opening>>),
                Words(<<Opening>> \o f[4] \o <<Closing>>,
                      Words(Quoted(f[5]), Words(f[6], f[7]))), At(f, 6, f[7]))
  BY <1>7, <1>9, <1>12, ReadsWords, Zenon
<1>14. CLFReads(At(f, 2, f[3]), <<Blank>>, Skipping(f, 3, <<Opening>>))
  BY <1>2, <1>4, Zenon DEF PartRuns
<1> QED
  BY <1>8, <1>13, <1>14, ReadsWords, Zenon DEF LineOf


LEMMA ReadsNothing ==
    ASSUME opts \in OptionValues, NEW p, NEW s, NEW q, CLFReads(p, s, q)
    PROVE  CLFReads(p, <<>>, p) /\ CLFReads(q, <<>>, q) /\ s \in Text
<1>1. p \in Readers /\ CLFTable \in [Readers \X Char -> Readers] /\ s \in Text
  BY CLFTableTyped, Zenon DEF CLFReads, Reads
<1>2. q \in Readers
  BY ReadsTyped, Zenon DEF CLFReads
<1> QED
  BY <1>1, <1>2, ReadsNone, Zenon DEF CLFReads

Added(f) == IF opts.extended THEN AddedOf(f) ELSE <<>>
PartCount == IF opts.extended THEN 9 ELSE 7

LEMMA AllRead ==
    ASSUME opts \in OptionValues, NEW f \in Parts, Separable(f)
    PROVE  /\ LineOf(f) \o Added(f) \in Text
           /\ CLFReads(At(f, 0, <<>>), LineOf(f) \o Added(f) \o <<LineEnd>>,
                       At(f, PartCount, <<>>))
<1>1. Glues
  BY GlueTyped
<1>2. /\ 6 + 1 = 7 /\ 7 + 1 = 8 /\ 8 + 1 = 9
      /\ 6 \in 0..8 /\ 7 \in 0..8 /\ 8 \in 0..8 /\ 7 \in 0..9 /\ 8 \in 0..9 /\ 9 \in 0..9
      /\ 7 <= 7 /\ 7 <= 9 /\ 8 <= 9 /\ 9 <= 9
  OBVIOUS
<1>3. /\ CLFReads(At(f, 0, <<>>), LineOf(f), At(f, 6, f[7]))
      /\ CLFReads(At(f, 6, f[7]), <<>>, At(f, 6, f[7]))
  <2>1. CLFReads(At(f, 0, <<>>), LineOf(f), At(f, 6, f[7]))
    BY CommonRead
  <2> QED
    BY <2>1, ReadsNothing, Zenon
<1>4. CASE ~opts.extended
  <2>1. GlueIs(6, LineEnd, <<>>)
    BY <1>1, <1>4, Zenon DEF Glues
  <2>2. CLFReads(At(f, 6, f[7]), <<LineEnd>>, At(f, 7, <<>>))
    BY <1>2, <2>1, PartEnds, Reached, Zenon
  <2>3. CLFReads(At(f, 0, <<>>), LineOf(f) \o <<>>, At(f, 6, f[7]))
    BY <1>3, CLFReadsThen, Zenon
  <2>4. CLFReads(At(f, 0, <<>>), LineOf(f) \o <<>> \o <<LineEnd>>, At(f, 7, <<>>))
    BY <1>3, <2>2, ReadsThree, Zenon
  <2>5. LineOf(f) \o <<>> \in Text
    BY <2>3, ReadsNothing, Zenon
  <2> QED
    BY <1>4, <2>4, <2>5, Zenon DEF Added, PartCount
<1>5. CASE opts.extended
  <2>1. /\ GlueIs(6, Blank, <<Mark>>) /\ GlueIs(7, Mark, <<Blank, Mark>>)
        /\ GlueIs(8, Mark, <<LineEnd>>) /\ Len(CLFGlue) = 9
    BY <1>1, <1>5, Zenon DEF Glues
  <2>2. CLFReads(At(f, 6, f[7]), <<Blank>>, Skipping(f, 7, <<Mark>>))
    BY <1>2, <2>1, PartEnds, Zenon
  <2>3. PartRuns(f, 7, Mark, <<Blank, Mark>>) /\ PartRuns(f, 8, Mark, <<LineEnd>>)
    BY <1>2, <1>5, <2>1, PartRunsOn, Zenon DEF Separable
  <2>4. /\ CLFReads(Skipping(f, 7, <<Mark>>), <<Mark>>, At(f, 7, <<>>))
        /\ CLFReads(Skipping(f, 8, <<Blank, Mark>>), <<Blank>>, Skipping(f, 8, <<Mark>>))
        /\ CLFReads(Skipping(f, 8, <<Mark>>), <<Mark>>, At(f, 8, <<>>))
        /\ CLFReads(Skipping(f, 9, <<LineEnd>>), <<LineEnd>>, At(f, 9, <<>>))
    BY <1>2, <2>1, Marks, Skips, Zenon
  <2>5. /\ CLFReads(Skipping(f, 7, <<Mark>>), Quoted(f[8]), Skipping(f, 8, <<Blank, Mark>>))
        /\ CLFReads(Skipping(f, 8, <<Mark>>), Quoted(f[9]), Skipping(f, 9, <<LineEnd>>))
    BY <1>2, <2>3, <2>4, ReadsQuoted, Zenon DEF PartRuns
  <2>6. CLFReads(Skipping(f, 7, <<Mark>>), Words(Quoted(f[8]), Quoted(f[9])),
                 Skipping(f, 9, <<LineEnd>>))
    BY <2>4, <2>5, ReadsWords, Zenon
  <2>7. CLFReads(At(f, 6, f[7]), AddedOf(f), Skipping(f, 9, <<LineEnd>>))
    BY <1>3, <2>2, <2>6, ReadsWords, Zenon DEF AddedOf
  <2>8. CLFReads(At(f, 0, <<>>), LineOf(f) \o AddedOf(f), Skipping(f, 9, <<LineEnd>>))
    BY <1>3, <2>7, CLFReadsThen, Zenon
  <2>9. CLFReads(At(f, 0, <<>>), LineOf(f) \o AddedOf(f) \o <<LineEnd>>, At(f, 9, <<>>))
    BY <1>3, <2>4, <2>7, ReadsThree, Zenon
  <2>10. LineOf(f) \o AddedOf(f) \in Text
    BY <2>8, ReadsNothing, Zenon
  <2> QED
    BY <1>5, <2>9, <2>10, Zenon DEF Added, PartCount
<1> QED
  BY <1>4, <1>5

\* What the reader has of a line with the parts f when it is over.
LEMMA PartsAreRead ==
    ASSUME opts \in OptionValues, NEW f \in Parts, Separable(f),
           line = LineOf(f) \o Added(f) \o Newline
    PROVE  CLFRead(CLFReader, WholeLine) = At(f, PartCount, <<>>)
<1>1. /\ LineOf(f) \o Added(f) \in Text
      /\ CLFReads(At(f, 0, <<>>), LineOf(f) \o Added(f) \o <<LineEnd>>,
                  At(f, PartCount, <<>>))
  BY AllRead
<1>2. WholeLine = LineOf(f) \o Added(f) \o <<LineEnd>>
  BY <1>1, WholeLineIs, Zenon DEF LineEnd
<1>3. CLFReader = At(f, 0, <<>>)
  <2>1. FirstOfParts(f, 0) = <<>>
    <3>1. 1..0 = {}
      OBVIOUS
    <3> QED
      BY <3>1 DEF FirstOfParts
  <2> QED
    BY <2>1, Zenon DEF CLFReader, At
<1> QED
  BY <1>1, <1>2, <1>3, CLFReadIs, Zenon


--------------------------------------------------------------------------------
(* The parts of a CLF line.                                                 *)

CLFParts ==
    <<OrDash(PickString("host")), OrDash(PickString("logname")), OrDash(PickString("user")),
      CachedCLFTime(entry.time), OrDash(RequestLine), StatusText, SizeText,
      OrDash(PickString("referer")), OrDash(PickString("agent"))>>

AreNine(f, a, b, c, d, e, g, h, i, j) ==
    /\ f[1] = a /\ f[2] = b /\ f[3] = c /\ f[4] = d /\ f[5] = e /\ f[6] = g /\ f[7] = h
    /\ f[8] = i /\ f[9] = j

LEMMA NineParts ==
    ASSUME NEW a \in Text, NEW b \in Text, NEW c \in Text, NEW d \in Text, NEW e \in Text,
           NEW g \in Text, NEW h \in Text, NEW i \in Text, NEW j \in Text
    PROVE  /\ <<a, b, c, d, e, g, h, i, j>> \in Parts
           /\ AreNine(<<a, b, c, d, e, g, h, i, j>>, a, b, c, d, e, g, h, i, j)
<1> DEFINE f == <<a, b, c, d, e, g, h, i, j>>
<1>1. AreNine(f, a, b, c, d, e, g, h, i, j)
  BY DEF AreNine
<1>2. f \in Seq(Text) /\ Len(f) = 9
  OBVIOUS
<1> HIDE DEF f
<1>3. f \in [1..Len(f) -> Text]
  BY <1>2, LenProperties
<1> QED
  BY <1>1, <1>2, <1>3, Zenon DEF f, Parts

\* Texts that do not have the character c.
Without(c) == Seq(Char \ {c})

LEMMA WithoutWords ==
    ASSUME NEW c, NEW s \in Without(c), NEW t \in Without(c)
    PROVE  /\ s \o t \in Without(c)
           /\ c # Blank => Words(s, t) \in Without(c) /\ Words(s, t) # <<>>
<1>1. s \o t \in Without(c)
  BY ConcatProperties DEF Without
<1>2. ASSUME c # Blank PROVE Words(s, t) \in Without(c) /\ Words(s, t) # <<>>
  <2>1. Blank \in Char \ {c}
    BY <1>2, Marks
  <2>2. <<Blank>> \in Without(c) /\ Len(<<Blank>>) = 1
    BY <2>1 DEF Without
  <2>3. s \o <<Blank>> \in Without(c) /\ Len(s \o <<Blank>>) = Len(s) + 1
    BY <2>2, ConcatProperties DEF Without
  <2>4. /\ (s \o <<Blank>>) \o t \in Without(c)
        /\ Len((s \o <<Blank>>) \o t) = Len(s \o <<Blank>>) + Len(t)
    BY <2>3, ConcatProperties DEF Without
  <2>5. Len(s) \in Nat /\ Len(t) \in Nat
    BY DEF Without
  <2>6. (s \o <<Blank>>) \o t # <<>>
    BY <2>3, <2>4, <2>5
  <2> QED
    BY <2>4, <2>6, Zenon DEF Words, Blank
<1> QED
  BY <1>1, <1>2

LEMMA WithoutOne ==
    ASSUME NEW s \in Text, NEW c, \A i \in DOMAIN s : s[i] # c
    PROVE  s \in Without(c)
BY DEF Text, Without

LEMMA WithoutSpecial ==
    ASSUME NEW c \in Special, NEW d \in Char \ Special
    PROVE  <<d>> \in Without(c) /\ OrDash(<<d>>) = <<d>>
<1>1. <<d>> \in Without(c)
  BY DEF Without
<1>2. <<d>> # <<>>
  OBVIOUS
<1> QED
  BY <1>1, <1>2, Zenon DEF OrDash

LEMMA WithoutDash ==
    ASSUME NEW c \in Special, NEW s \in Without(c)
    PROVE  OrDash(s) \in Without(c)
<1>1. "-" \in Char \ Special
  <2>1. "-" \in Char
    BY LettersAre
  <2>2. "-" \notin Special
    BY Zenon DEF Special
  <2> QED
    BY <2>1, <2>2
<1>2. <<"-">> \in Without(c)
  BY <1>1, WithoutSpecial
<1> QED
  BY <1>2, Zenon DEF OrDash


\* The marks are characters that a format gives a meaning, and differ.
LEMMA MarksDiffer ==
    /\ Blank \in Special /\ Mark \in Special /\ Closing \in Special /\ LineEnd \in Special
    /\ Blank # Mark /\ Blank # LineEnd
BY Zenon DEF Special, Blank, Mark, Closing, LineEnd

\* What is plain does not have the mark that ends it.
LEMMA PlainParts ==
    ASSUME entry \in EntryValues, NEW part, Plain(part)
    PROVE  /\ PickString(part) \in Text
           /\ part \in {"host", "logname", "user"} => PickString(part) \in Without(Blank)
           /\ part \notin {"host", "logname", "user"} => PickString(part) \in Without(Mark)
<1> DEFINE s == PickString(part)
<1>1. s \in Text
  BY PickedString
<1>2. part \in {"host", "logname", "user"} => \A i \in DOMAIN s : s[i] # Blank
  BY Zenon DEF Plain, Blank
<1>3. part \notin {"host", "logname", "user"} => \A i \in DOMAIN s : s[i] # Mark
  BY Zenon DEF Plain, Mark
<1> HIDE DEF s
<1>4. \A c : (\A i \in DOMAIN s : s[i] # c) => s \in Without(c)
  BY <1>1, WithoutOne, Zenon
<1> QED
  BY <1>1, <1>2, <1>3, <1>4, Zenon DEF s

AllPlain == \A part \in DOMAIN CLFKeys : Plain(part)

LEMMA PlainAre ==
    ASSUME entry \in EntryValues, AllPlain
    PROVE  /\ PickString("host") \in Without(Blank) /\ PickString("logname") \in Without(Blank)
           /\ PickString("user") \in Without(Blank)
           /\ PickString("request") \in Without(Mark) /\ PickString("method") \in Without(Mark)
           /\ PickString("path") \in Without(Mark) /\ PickString("protocol") \in Without(Mark)
           /\ PickString("referer") \in Without(Mark) /\ PickString("agent") \in Without(Mark)
<1>1. /\ "host" \in DOMAIN CLFKeys /\ "logname" \in DOMAIN CLFKeys /\ "user" \in DOMAIN CLFKeys
      /\ "request" \in DOMAIN CLFKeys /\ "method" \in DOMAIN CLFKeys
      /\ "path" \in DOMAIN CLFKeys /\ "protocol" \in DOMAIN CLFKeys
      /\ "referer" \in DOMAIN CLFKeys /\ "agent" \in DOMAIN CLFKeys
  BY DEF CLFKeys
<1>2. /\ Plain("host") /\ Plain("logname") /\ Plain("user") /\ Plain("request")
      /\ Plain("method") /\ Plain("path") /\ Plain("protocol") /\ Plain("referer")
      /\ Plain("agent")
  BY <1>1, Zenon DEF AllPlain
<1>3. /\ "host" \in {"host", "logname", "user"} /\ "logname" \in {"host", "logname", "user"}
      /\ "user" \in {"host", "logname", "user"} /\ "request" \notin {"host", "logname", "user"}
      /\ "method" \notin {"host", "logname", "user"} /\ "path" \notin {"host", "logname", "user"}
      /\ "protocol" \notin {"host", "logname", "user"}
      /\ "referer" \notin {"host", "logname", "user"}
      /\ "agent" \notin {"host", "logname", "user"}
  OBVIOUS
<1> QED
  BY <1>2, <1>3, PlainParts, Zenon

\* The request line as given, or made of method, path and protocol.
RequestTold ==
    IF Given("request") # <<>> \/ <<>> \in {Given("method"), Given("path")}
    THEN Told("request")
    ELSE Words(Given("method"), Words(Given("path"),
               IF Given("protocol") = <<>> THEN <<"HTTP/1.1">> ELSE Given("protocol")))

LEMMA RequestLineIs ==
    ASSUME entry \in EntryValues, AllPlain
    PROVE  OrDash(RequestLine) = RequestTold /\ OrDash(RequestLine) \in Without(Mark)
<1> DEFINE http == <<"HTTP/1.1">>
           proto == IF PickString("protocol") = <<>> THEN http ELSE PickString("protocol")
           made == Words(PickString("method"), Words(PickString("path"), proto))
<1>1. /\ PickString("request") \in Without(Mark) /\ PickString("method") \in Without(Mark)
      /\ PickString("path") \in Without(Mark) /\ PickString("protocol") \in Without(Mark)
  BY PlainAre
<1>2. http \in Without(Mark)
  <2>1. "HTTP/1.1" \in Char
    BY LettersAre
  <2>2. "HTTP/1.1" \notin Special
    BY Zenon DEF Special
  <2> QED
    BY <2>1, <2>2, MarksDiffer, WithoutSpecial
<1>3. proto \in Without(Mark)
  BY <1>1, <1>2, Zenon
<1> HIDE DEF http, proto
<1>4. Mark # Blank
  BY MarksDiffer
<1>5. Words(PickString("path"), proto) \in Without(Mark)
  BY <1>1, <1>3, <1>4, WithoutWords, Zenon
<1>6. made \in Without(Mark) /\ made # <<>>
  BY <1>1, <1>4, <1>5, WithoutWords, Zenon
<1>7. RequestLine = IF PickString("request") = <<>> /\ PickString("method") # <<>>
                         /\ PickString("path") # <<>>
                    THEN made ELSE PickString("request")
  BY Zenon DEF RequestLine, proto, http
<1>8. /\ PickString("request") = Given("request") /\ PickString("method") = Given("method")
      /\ PickString("path") = Given("path") /\ PickString("protocol") = Given("protocol")
  BY PickedString, Zenon
<1>9. made = Words(Given("method"), Words(Given("path"),
               IF Given("protocol") = <<>> THEN <<"HTTP/1.1">> ELSE Given("protocol")))
  BY <1>8, Zenon DEF proto, http
<1> HIDE DEF made
<1>10. RequestLine \in Without(Mark)
  BY <1>1, <1>6, <1>7, Zenon
<1>11. OrDash(RequestLine) \in Without(Mark)
  BY <1>10, MarksDiffer, WithoutDash, Zenon
<1>12. CASE Given("request") # <<>> \/ <<>> \in {Given("method"), Given("path")}
  <2>1. RequestTold = Told("request")
    BY <1>12, Zenon DEF RequestTold
  <2>2. RequestLine = Given("request")
    BY <1>7, <1>8, <1>12
  <2> QED
    BY <1>11, <2>1, <2>2, Zenon DEF Told, OrDash
<1>13. CASE ~(Given("request") # <<>> \/ <<>> \in {Given("method"), Given("path")})
  <2>1. RequestTold = made
    BY <1>9, <1>13, Zenon DEF RequestTold
  <2>2. RequestLine = made
    BY <1>7, <1>8, <1>13
  <2> QED
    BY <1>6, <1>11, <2>1, <2>2, Zenon DEF OrDash
<1> QED
  BY <1>12, <1>13


StatusTold == <<Numeral[IF ToldNumber("status") > 0 THEN ToldNumber("status") ELSE 200]>>
SizeTold == IF ToldNumber("size") > 0 THEN <<Numeral[ToldNumber("size")]>> ELSE <<"-">>

LEMMA NumbersAre ==
    ASSUME entry \in EntryValues
    PROVE  /\ StatusText = StatusTold /\ SizeText = SizeTold
           /\ \A c \in Special : StatusText \in Without(c) /\ SizeText \in Without(c)
<1>1. /\ PickInteger("status") = ToldNumber("status") /\ PickInteger("size") = ToldNumber("size")
      /\ PickInteger("status") \in DOMAIN Numeral /\ PickInteger("status") \in Int
      /\ PickInteger("size") \in DOMAIN Numeral /\ PickInteger("size") \in Int
  BY PickedInteger
<1>2. 200 \in DOMAIN Numeral
  BY FormattersAssumption
<1>3. \A n \in Int : n <= 0 <=> ~(n > 0)
  OBVIOUS
<1>4. StatusText = StatusTold
  BY <1>1, <1>3 DEF StatusText, StatusTold
<1>5. SizeText = SizeTold
  <2> DEFINE n == PickInteger("size")
             dash == <<"-">>
  <2>1. SizeText = IF n <= 0 THEN dash ELSE <<Numeral[n]>>
    BY Zenon DEF SizeText
  <2>2. SizeTold = IF n > 0 THEN <<Numeral[n]>> ELSE dash
    BY <1>1, Zenon DEF SizeTold
  <2>3. n \in Int
    BY <1>1
  <2> HIDE DEF n, dash
  <2> QED
    BY <1>3, <2>1, <2>2, <2>3
<1>6. ASSUME NEW c \in Special
      PROVE  StatusText \in Without(c) /\ SizeText \in Without(c)
  <2>1. \A n \in DOMAIN Numeral : <<Numeral[n]>> \in Without(c)
    BY Texts, WithoutSpecial
  <2>2. <<"-">> \in Without(c)
    <3>1. <<>> \in Without(c) /\ OrDash(<<>>) = <<"-">>
      BY EmptySeq, Zenon DEF Without, OrDash
    <3> QED
      BY <3>1, WithoutDash, Zenon
  <2>3. StatusText \in Without(c)
    <3> DEFINE n == PickInteger("status")
               m == IF n <= 0 THEN 200 ELSE n
    <3>1. m \in DOMAIN Numeral
      BY <1>1, <1>2
    <3>2. StatusText = <<Numeral[m]>>
      BY DEF StatusText
    <3> HIDE DEF m
    <3> QED
      BY <2>1, <3>1, <3>2, Zenon
  <2>4. SizeText \in Without(c)
    BY <1>1, <2>1, <2>2, Zenon DEF SizeText
  <2> QED
    BY <2>3, <2>4
<1> QED
  BY <1>4, <1>5, <1>6

LEMMA CLFTimeIs ==
    ASSUME NEW t \in Times
    PROVE  CLFTimeText(t) \in Without(Closing)
<1>1. Numeral[Second(t)] \in Char \ Special
  <2>1. Second(t) \in DOMAIN Numeral
    BY FormattersAssumption
  <2> QED
    BY <2>1, Texts
<1>2. "S" \in Char /\ "S" \notin Special
  <2>1. "S" \in Char
    BY LettersAre
  <2>2. "S" \notin Special
    BY Zenon DEF Special
  <2> QED
    BY <2>1, <2>2
<1>3. <<"S">> \in Without(Closing) /\ <<Numeral[Second(t)]>> \in Without(Closing)
  BY <1>1, <1>2, MarksDiffer, WithoutSpecial
<1>4. <<"S">> \o <<Numeral[Second(t)]>> \in Without(Closing)
  BY <1>3, WithoutWords, Zenon
<1>5. Grows("S", Numeral[Second(t)], "S", "S")
  BY <1>1, <1>2, Growing
<1> QED
  BY <1>4, <1>5, Zenon DEF CLFTimeText, Grows

\* The line of an entry with plain values has the parts, and they can be told apart.
LEMMA CLFLineIs ==
    ASSUME EntryTypes, CacheInv, AllPlain
    PROVE  /\ CLFParts \in Parts /\ Separable(CLFParts)
           /\ AreNine(CLFParts, OrDash(PickString("host")), OrDash(PickString("logname")),
                      OrDash(PickString("user")), CachedCLFTime(entry.time),
                      OrDash(RequestLine), StatusText, SizeText,
                      OrDash(PickString("referer")), OrDash(PickString("agent")))
           /\ CLFLine = LineOf(CLFParts) \o Added(CLFParts) \o Newline
<1>1. entry \in EntryValues /\ opts \in OptionValues
  BY DEF EntryTypes
<1> DEFINE a == OrDash(PickString("host"))
           b == OrDash(PickString("logname"))
           c == OrDash(PickString("user"))
           d == CachedCLFTime(entry.time)
           e == OrDash(RequestLine)
           g == StatusText
           h == SizeText
           i == OrDash(PickString("referer"))
           j == OrDash(PickString("agent"))
<1>2. a \in Without(Blank) /\ b \in Without(Blank) /\ c \in Without(Blank)
  BY <1>1, PlainAre, MarksDiffer, WithoutDash, Zenon
<1>3. i \in Without(Mark) /\ j \in Without(Mark)
  BY <1>1, PlainAre, MarksDiffer, WithoutDash, Zenon
<1>4. e \in Without(Mark)
  BY <1>1, RequestLineIs, Zenon
<1>5. /\ g \in Without(Blank) /\ h \in Without(Blank) /\ h \in Without(LineEnd)
  BY <1>1, NumbersAre, MarksDiffer, Zenon
<1>6. d \in Without(Closing)
  <2>1. entry.time \in Times
    BY <1>1 DEF EntryValues
  <2>2. d = CLFTimeText(entry.time)
    BY <1>1, TimesCached
  <2> QED
    BY <2>1, <2>2, CLFTimeIs
<1> HIDE DEF a, b, c, d, e, g, h, i, j
<1>7. /\ a \in Text /\ b \in Text /\ c \in Text /\ d \in Text /\ e \in Text /\ g \in Text
      /\ h \in Text /\ i \in Text /\ j \in Text
  <2>1. \A x, s : s \in Without(x) => s \in Text
    BY DEF Without, Text
  <2> QED
    BY <1>2, <1>3, <1>4, <1>5, <1>6, <2>1, Zenon
<1>8. CLFParts = <<a, b, c, d, e, g, h, i, j>>
  BY Zenon DEF CLFParts, a, b, c, d, e, g, h, i, j
<1>9. CLFParts \in Parts /\ AreNine(CLFParts, a, b, c, d, e, g, h, i, j)
  BY <1>7, <1>8, NineParts, Zenon
<1>10. Separable(CLFParts)
  BY <1>2, <1>3, <1>4, <1>5, <1>6, <1>9, Zenon DEF Separable, AreNine, Without
<1>11. CLFLine = LineOf(CLFParts) \o Added(CLFParts) \o Newline
  <2>1. CLFLine = Words(Words(a, Words(b, c)),
                        Words(<<"[">> \o d \o <<"]">>, Words(Quoted(e), Words(g, h))))
                    \o (IF opts.extended THEN Words(<<>>, Words(Quoted(i), Quoted(j)))
                        ELSE <<>>) \o Newline
    BY Zenon DEF CLFLine, a, b, c, d, e, g, h, i, j
  <2>2. LineOf(CLFParts) = Words(Words(a, Words(b, c)),
                        Words(<<"[">> \o d \o <<"]">>, Words(Quoted(e), Words(g, h))))
    BY <1>9, Zenon DEF LineOf, AreNine, Opening, Closing
  <2>3. Added(CLFParts) = IF opts.extended THEN Words(<<>>, Words(Quoted(i), Quoted(j)))
                          ELSE <<>>
    BY <1>9, Zenon DEF Added, AddedOf, AreNine
  <2> QED
    BY <2>1, <2>2, <2>3, Zenon
<1> QED
  BY <1>9, <1>10, <1>11, Zenon DEF a, b, c, d, e, g, h, i, j


\* What the reader has of a line: the parts of the entry, all of them.
HasParts(p) ==
    /\ p.ok = TRUE /\ p.skip = <<>> /\ Len(p.read) = Len(CLFGlue)
    /\ p.read[1] = OrDash(PickString("host")) /\ p.read[2] = OrDash(PickString("logname"))
    /\ p.read[3] = OrDash(PickString("user")) /\ p.read[4] = CachedCLFTime(entry.time)
    /\ p.read[5] = OrDash(RequestLine) /\ p.read[6] = StatusText /\ p.read[7] = SizeText
    /\ opts.extended => /\ p.read[8] = OrDash(PickString("referer"))
                        /\ p.read[9] = OrDash(PickString("agent"))

LEMMA CLFReadBack ==
    ASSUME Inv, format = "clf", AllPlain
    PROVE  HasParts(CLFRead(CLFReader, WholeLine))
<1> DEFINE f == CLFParts
           r == FirstOfParts(f, PartCount)
           p == CLFRead(CLFReader, WholeLine)
<1>1. EntryTypes /\ CacheInv /\ LineInv /\ opts \in OptionValues /\ opts.extended \in BOOLEAN
  BY DEF Inv, EntryTypes, OptionValues
<1>2. /\ f \in Parts /\ Separable(f) /\ CLFLine = LineOf(f) \o Added(f) \o Newline
      /\ AreNine(f, OrDash(PickString("host")), OrDash(PickString("logname")),
                 OrDash(PickString("user")), CachedCLFTime(entry.time), OrDash(RequestLine),
                 StatusText, SizeText, OrDash(PickString("referer")),
                 OrDash(PickString("agent")))
  BY <1>1, CLFLineIs, Zenon
<1>3. line = LineOf(f) \o Added(f) \o Newline
  BY <1>1, <1>2, Zenon DEF LineInv
<1>4. p = At(f, PartCount, <<>>)
  BY <1>1, <1>2, <1>3, PartsAreRead, Zenon
<1>5. p.ok = TRUE /\ p.skip = <<>> /\ p.read = r
  BY <1>4 DEF At, Reader
<1> HIDE DEF f, p
<1>6. /\ PartCount \in {7, 9} /\ Len(CLFGlue) = PartCount /\ (opts.extended => PartCount = 9)
  <2>1. Glues
    BY <1>1, GlueTyped
  <2> QED
    BY <1>1, <2>1, Zenon DEF Glues, PartCount
<1>7. \A i \in 1..PartCount : r[i] = f[i]
  BY DEF FirstOfParts
<1>8. Len(r) = PartCount
  <2>1. 6 \in 0..8 /\ 6 + 1 = 7 /\ 8 \in 0..8 /\ 8 + 1 = 9
    OBVIOUS
  <2>2. Len(FirstOfParts(f, 7)) = 7 /\ Len(FirstOfParts(f, 9)) = 9
    BY <1>2, <2>1, PartsGrow, Zenon
  <2> QED
    BY <1>6, <2>2
<1> HIDE DEF r
<1>9. /\ r[1] = f[1] /\ r[2] = f[2] /\ r[3] = f[3] /\ r[4] = f[4] /\ r[5] = f[5]
      /\ r[6] = f[6] /\ r[7] = f[7] /\ (opts.extended => r[8] = f[8] /\ r[9] = f[9])
  BY <1>6, <1>7
<1> QED
  BY <1>2, <1>5, <1>6, <1>8, <1>9, Zenon DEF HasParts, AreNine, p

\* CLFRoundTrip, of every entry and for every choice of options: a CLF line of plain
\* values has its parts in their places, each what the last field of that part says.
THEOREM CLFTheorem == AccessSpec => []CLFRoundTrip
<1>1. ASSUME Inv, format = "clf", AllPlain
      PROVE  LET p == CLFRead(CLFReader, WholeLine) IN
             /\ p.ok /\ p.skip = <<>> /\ Len(p.read) = Len(CLFGlue)
             /\ <<p.read[1], p.read[2], p.read[3]>>
                  = <<Told("host"), Told("logname"), Told("user")>>
             /\ p.read[4] = CLFTimeText(entry.time)
             /\ p.read[5] = RequestTold /\ p.read[6] = StatusTold /\ p.read[7] = SizeTold
             /\ opts.extended =>
                  <<p.read[8], p.read[9]>> = <<Told("referer"), Told("agent")>>
  <2> DEFINE p == CLFRead(CLFReader, WholeLine)
  <2>1. HasParts(p)
    BY <1>1, CLFReadBack, Zenon
  <2>2. EntryTypes /\ CacheInv /\ entry \in EntryValues
    BY <1>1 DEF Inv, EntryTypes
  <2>3. \A part : OrDash(PickString(part)) = Told(part)
    <3>1. ASSUME NEW part PROVE PickString(part) = Given(part)
      BY <2>2, PickedString
    <3> QED
      BY <3>1, Zenon DEF OrDash, Told
  <2>4. CachedCLFTime(entry.time) = CLFTimeText(entry.time)
    BY <2>2, TimesCached
  <2>5. OrDash(RequestLine) = RequestTold /\ StatusText = StatusTold /\ SizeText = SizeTold
    BY <1>1, <2>2, RequestLineIs, NumbersAre, Zenon
  <2> HIDE DEF p
  <2>6. /\ p.ok /\ p.skip = <<>> /\ Len(p.read) = Len(CLFGlue)
        /\ p.read[1] = Told("host") /\ p.read[2] = Told("logname") /\ p.read[3] = Told("user")
        /\ p.read[4] = CLFTimeText(entry.time)
        /\ p.read[5] = RequestTold /\ p.read[6] = StatusTold /\ p.read[7] = SizeTold
        /\ opts.extended => p.read[8] = Told("referer") /\ p.read[9] = Told("agent")
    BY <2>1, <2>3, <2>4, <2>5, Zenon DEF HasParts
  <2>7. \A a, b, c, x, y, z : a = x /\ b = y /\ c = z => <<a, b, c>> = <<x, y, z>>
    OBVIOUS
  <2>8. \A a, b, x, y : a = x /\ b = y => <<a, b>> = <<x, y>>
    OBVIOUS
  <2> QED
    BY <2>6, <2>7, <2>8, Zenon DEF p
<1>2. Inv => CLFRoundTrip
  <2>1. ASSUME format # "clf" \/ ~AllPlain PROVE CLFRoundTrip
    BY <2>1, Zenon DEF CLFRoundTrip, AllPlain
  <2>2. ASSUME Inv, format = "clf", AllPlain PROVE CLFRoundTrip
    BY <1>1, <2>2, Zenon DEF CLFRoundTrip, RequestTold, StatusTold, SizeTold
  <2> QED
    BY <2>1, <2>2
<1> QED
  BY <1>2, InvTheorem, PTL


--------------------------------------------------------------------------------
(* The entry of a request.                                                  *)

Carries(s, f) == \E i \in DOMAIN s : s[i] = f

LEMMA CarriesOn ==
    ASSUME NEW S, NEW s \in Seq(S), NEW t \in Seq(S), NEW f, Carries(s, f) \/ Carries(t, f)
    PROVE  Carries(s \o t, f)
<1> DEFINE all == s \o t
<1>1. all \in Seq(S) /\ Joined(s, t)
  BY Joining
<1>2. /\ Len(all) = Len(s) + Len(t) /\ \A i \in 1..Len(s) : all[i] = s[i]
      /\ \A i \in 1..Len(t) : all[Len(s) + i] = t[i]
  BY <1>1, Zenon DEF Joined
<1>3. /\ DOMAIN s = 1..Len(s) /\ DOMAIN t = 1..Len(t) /\ Len(s) \in Nat /\ Len(t) \in Nat
      /\ DOMAIN all = 1..Len(all)
  BY <1>1, LenProperties
<1> HIDE DEF all
<1>4. CASE Carries(s, f)
  <2>1. PICK i \in 1..Len(s) : s[i] = f
    BY <1>3, <1>4 DEF Carries
  <2>2. i \in 1..Len(all) /\ all[i] = f
    BY <1>2, <1>3, <2>1
  <2> QED
    BY <1>3, <2>2, Zenon DEF Carries, all
<1>5. CASE Carries(t, f)
  <2>1. PICK i \in 1..Len(t) : t[i] = f
    BY <1>3, <1>5 DEF Carries
  <2>2. Len(s) + i \in 1..Len(all) /\ all[Len(s) + i] = f
    BY <1>2, <1>3, <2>1
  <2> QED
    BY <1>3, <2>2, Zenon DEF Carries, all
<1> QED
  BY <1>4, <1>5

LEMMA CarriesOne ==
    ASSUME NEW f, NEW g, NEW h
    PROVE  /\ Carries(<<f>>, f) /\ Carries(<<f, g, h>>, g) /\ Carries(<<f, g, h>>, h)
<1>1. 1 \in DOMAIN <<f>> /\ <<f>>[1] = f
  OBVIOUS
<1>2. /\ 2 \in DOMAIN <<f, g, h>> /\ 3 \in DOMAIN <<f, g, h>>
      /\ <<f, g, h>>[2] = g /\ <<f, g, h>>[3] = h
  OBVIOUS
<1> QED
  BY <1>1, <1>2, Zenon DEF Carries

HostField == StringField("remote_host", request.host)
LineField ==
    StringField("request_line", Words(request.method, Words(request.path, request.proto)))
StatusField == IntField("status_code", statusCode)
SizeField == IntField("response_size", responseSize)
RequestEntry == Append(LogRequest, DurationField)

\* What an entry of a request has for sure.
LEMMA RequestCarries ==
    ASSUME ResponseTypes
    PROVE  /\ request.host # <<>> => Carries(RequestEntry, HostField)
           /\ request.url => Carries(RequestEntry, LineField)
           /\ Carries(RequestEntry, StatusField) /\ Carries(RequestEntry, SizeField)
<1> DEFINE S == {StringField("remote_host", request.host),
                 StringField("remote_user", request.user),
                 StringField("method", request.method), StringField("path", request.path),
                 StringField("protocol", request.proto), StatusField, SizeField,
                 StringField("referer", request.referer),
                 StringField("user_agent", request.agent), LineField, DurationField}
           a == Optional("remote_host", request.host)
           b == IF request.url THEN Optional("remote_user", request.user) ELSE <<>>
           c == <<StringField("method", request.method)>>
           d == IF request.url THEN <<StringField("path", request.path)>> ELSE <<>>
           e == <<StringField("protocol", request.proto), StatusField, SizeField>>
           f == Optional("referer", request.referer)
           g == Optional("user_agent", request.agent)
           h == IF request.url THEN <<LineField>> ELSE <<>>
<1>1. <<>> \in Seq(S) /\ \A x \in S : <<x>> \in Seq(S)
  OBVIOUS
<1>2. \A x, y, z \in S : <<x, y, z>> \in Seq(S)
  OBVIOUS
<1>3. \A s, t \in Seq(S) : s \o t \in Seq(S)
  BY ConcatProperties
<1>4. /\ StringField("remote_host", request.host) \in S
      /\ StringField("remote_user", request.user) \in S
      /\ StringField("method", request.method) \in S /\ StringField("path", request.path) \in S
      /\ StringField("protocol", request.proto) \in S /\ StatusField \in S /\ SizeField \in S
      /\ StringField("referer", request.referer) \in S
      /\ StringField("user_agent", request.agent) \in S /\ LineField \in S
      /\ DurationField \in S
  BY Zenon
<1> HIDE DEF S
<1>5. a \in Seq(S) /\ b \in Seq(S) /\ f \in Seq(S) /\ g \in Seq(S)
  BY <1>1, <1>4, Zenon DEF Optional
<1>6. c \in Seq(S) /\ d \in Seq(S) /\ e \in Seq(S) /\ h \in Seq(S)
  BY <1>1, <1>2, <1>4, Zenon
<1>7. LogRequest = a \o b \o c \o d \o e \o f \o g \o h
  BY Zenon DEF LogRequest, StatusField, SizeField, LineField
<1>8. request.host # <<>> => Carries(a, HostField)
  BY CarriesOne, Zenon DEF Optional, HostField
<1>9. request.url => Carries(h, LineField)
  BY CarriesOne, Zenon
<1>10. Carries(e, StatusField) /\ Carries(e, SizeField)
  BY CarriesOne, Zenon
<1> HIDE DEF a, b, c, d, e, f, g, h
<1> DEFINE ab == a \o b
           abc == ab \o c
           abcd == abc \o d
           abcde == abcd \o e
           most == abcde \o f
           more == most \o g
<1>11. /\ ab \in Seq(S) /\ abc \in Seq(S) /\ abcd \in Seq(S) /\ abcde \in Seq(S)
       /\ most \in Seq(S) /\ more \in Seq(S) /\ <<DurationField>> \in Seq(S)
       /\ LogRequest = more \o h /\ LogRequest \in Seq(S)
  BY <1>1, <1>3, <1>4, <1>5, <1>6, <1>7, Zenon
<1>12. RequestEntry = LogRequest \o <<DurationField>>
  BY <1>4, <1>11, AppendIsConcat DEF RequestEntry
<1>13. \A x : Carries(LogRequest, x) => Carries(RequestEntry, x)
  BY <1>11, <1>12, CarriesOn, Zenon
<1>14. \A x : Carries(h, x) => Carries(LogRequest, x)
  BY <1>6, <1>11, CarriesOn, Zenon
<1>15. \A x : Carries(abcde, x) => Carries(LogRequest, x)
  <2>1. \A x : Carries(abcde, x) => Carries(most, x)
    BY <1>5, <1>11, CarriesOn, Zenon
  <2>2. \A x : Carries(most, x) => Carries(more, x)
    BY <1>5, <1>11, CarriesOn, Zenon
  <2>3. \A x : Carries(more, x) => Carries(LogRequest, x)
    BY <1>6, <1>11, CarriesOn, Zenon
  <2> QED
    BY <2>1, <2>2, <2>3, Zenon
<1>16. \A x : Carries(e, x) => Carries(abcde, x)
  BY <1>6, <1>11, CarriesOn, Zenon
<1>17. \A x : Carries(a, x) => Carries(abcde, x)
  <2>1. \A x : Carries(a, x) => Carries(ab, x)
    BY <1>5, <1>11, CarriesOn, Zenon
  <2>2. \A x : Carries(ab, x) => Carries(abc, x)
    BY <1>6, <1>11, CarriesOn, Zenon
  <2>3. \A x : Carries(abc, x) => Carries(abcd, x)
    BY <1>6, <1>11, CarriesOn, Zenon
  <2>4. \A x : Carries(abcd, x) => Carries(abcde, x)
    BY <1>6, <1>11, CarriesOn, Zenon
  <2> QED
    BY <2>1, <2>2, <2>3, <2>4, Zenon
<1> QED
  BY <1>8, <1>9, <1>10, <1>13, <1>14, <1>15, <1>16, <1>17, Zenon


\* Of the names of a request's fields each part of the line knows one.
LEMMA NamesKnown ==
    /\ "remote_host" \in CLFKeys["host"] /\ "request_line" \in CLFKeys["request"]
    /\ "status_code" \in CLFKeys["status"] /\ "response_size" \in CLFKeys["size"]
    /\ \A name \in Names :
          /\ name \in CLFKeys["host"] => name = "remote_host"
          /\ name \in CLFKeys["request"] => name = "request_line"
          /\ name \in CLFKeys["status"] => name = "status_code"
          /\ name \in CLFKeys["size"] => name = "response_size"
<1>1. /\ CLFKeys["host"] = {"remote_host", "client_ip", "remote_addr", "ip"}
      /\ CLFKeys["request"] = {"request_line", "request"}
      /\ CLFKeys["status"] = {"status", "status_code"}
      /\ CLFKeys["size"] = {"response_size", "bytes", "size"}
  BY DEF CLFKeys
<1> QED
  BY <1>1 DEF Names

LEMMA NameGives ==
    ASSUME NEW name \in Names, NEW f, f.key = KeyOf(name), NEW part
    PROVE  GivesPart(f, part) <=> name \in CLFKeys[part]
<1>1. Keys[f.key] = <<name>>
  BY KeyOfName
<1>2. \A x : <<name>> = <<x>> <=> name = x
  OBVIOUS
<1> QED
  BY <1>1, <1>2, Zenon DEF GivesPart

Only(part, v) == {f \in Fields : GivesPart(f, part) => f = v}

LEMMA RequestKeys ==
    /\ \A name, s : StringField(name, s).key = KeyOf(name)
    /\ \A name, n : IntField(name, n).key = KeyOf(name)
    /\ DurationField.key = KeyOf("duration")
BY DEF StringField, IntField, DurationField

\* The fields of a request give each of these parts once.
LEMMA GivenOnce ==
    ASSUME ResponseTypes
    PROVE  /\ RequestEntry \in Seq(Only("host", HostField))
           /\ RequestEntry \in Seq(Only("request", LineField))
           /\ RequestEntry \in Seq(Only("status", StatusField))
           /\ RequestEntry \in Seq(Only("size", SizeField))
<1> DEFINE S == {StringField("remote_host", request.host),
                 StringField("remote_user", request.user),
                 StringField("method", request.method), StringField("path", request.path),
                 StringField("protocol", request.proto), StatusField, SizeField,
                 StringField("referer", request.referer),
                 StringField("user_agent", request.agent), LineField, DurationField}
<1>1. \A T : S \cap Fields \subseteq T => RequestEntry \in Seq(T)
  <2> SUFFICES ASSUME NEW T, S \cap Fields \subseteq T PROVE RequestEntry \in Seq(T)
    OBVIOUS
  <2>1. S \subseteq Fields
    <3>1. /\ StringField("remote_host", request.host) \in Fields
          /\ StringField("remote_user", request.user) \in Fields
          /\ StringField("method", request.method) \in Fields
          /\ StringField("path", request.path) \in Fields
          /\ StringField("protocol", request.proto) \in Fields
          /\ StringField("referer", request.referer) \in Fields
          /\ StringField("user_agent", request.agent) \in Fields
          /\ StatusField \in Fields /\ SizeField \in Fields /\ LineField \in Fields
          /\ DurationField \in Fields
      BY RequestFieldsTyped, Zenon DEF StatusField, SizeField, LineField
    <3> QED
      BY <3>1, Zenon
  <2>2. /\ StringField("remote_host", request.host) \in T
        /\ StringField("remote_user", request.user) \in T
        /\ StringField("method", request.method) \in T
        /\ StringField("path", request.path) \in T
        /\ StringField("protocol", request.proto) \in T
        /\ StatusField \in T /\ SizeField \in T
        /\ StringField("referer", request.referer) \in T
        /\ StringField("user_agent", request.agent) \in T
        /\ LineField \in T /\ DurationField \in T
    BY <2>1, Zenon
  <2> HIDE DEF S
  <2> QED
    BY <2>2, RequestFields, Zenon DEF StatusField, SizeField, LineField, RequestEntry
<1>2. \A f \in S : \E name \in Names :
        /\ f.key = KeyOf(name)
        /\ name = "remote_host" => f = HostField
        /\ name = "request_line" => f = LineField
        /\ name = "status_code" => f = StatusField
        /\ name = "response_size" => f = SizeField
  <2> DEFINE G(f, name) ==
               /\ f.key = KeyOf(name)
               /\ name = "remote_host" => f = HostField
               /\ name = "request_line" => f = LineField
               /\ name = "status_code" => f = StatusField
               /\ name = "response_size" => f = SizeField
  <2>1. /\ "remote_host" \in Names /\ "remote_user" \in Names /\ "method" \in Names
        /\ "path" \in Names /\ "protocol" \in Names /\ "status_code" \in Names
        /\ "response_size" \in Names /\ "referer" \in Names /\ "user_agent" \in Names
        /\ "request_line" \in Names /\ "duration" \in Names
    BY Zenon DEF Names
  <2>2. /\ G(StringField("remote_host", request.host), "remote_host")
        /\ G(StringField("remote_user", request.user), "remote_user")
        /\ G(StringField("method", request.method), "method")
        /\ G(StringField("path", request.path), "path")
        /\ G(StringField("protocol", request.proto), "protocol")
    BY <2>1, RequestKeys, Zenon DEF HostField
  <2>3. /\ G(StatusField, "status_code") /\ G(SizeField, "response_size")
        /\ G(StringField("referer", request.referer), "referer")
        /\ G(StringField("user_agent", request.agent), "user_agent")
        /\ G(LineField, "request_line") /\ G(DurationField, "duration")
    BY <2>1, RequestKeys, Zenon DEF StatusField, SizeField, LineField
  <2> HIDE DEF G
  <2>4. \A f \in S : \E name \in Names : G(f, name)
    BY <2>1, <2>2, <2>3, Zenon
  <2> QED
    BY <2>4 DEF G
<1> HIDE DEF S
<1>3. \A f \in S :
        /\ GivesPart(f, "host") => f = HostField
        /\ GivesPart(f, "request") => f = LineField
        /\ GivesPart(f, "status") => f = StatusField
        /\ GivesPart(f, "size") => f = SizeField
  BY <1>2, NameGives, NamesKnown, Zenon
<1> QED
  BY <1>1, <1>3 DEF Only


LEMMA ToldOnce ==
    ASSUME NEW part, NEW v, entry.fields \in Seq(Only(part, v))
    PROVE  /\ Naming(part) = {} \/ LastNaming(part) = v
           /\ Carries(entry.fields, v) /\ GivesPart(v, part) => Naming(part) # {}
<1> DEFINE fs == entry.fields
           n == Len(fs)
           S == Naming(part)
<1>1. /\ n \in Nat /\ DOMAIN fs = 1..n
      /\ \A i \in 1..n : fs[i] \in Only(part, v)
  BY LenProperties, ElementOfSeq
<1>2. S \in SUBSET (0..n) /\ \A i \in S : i \in DOMAIN fs /\ GivesPart(fs[i], part)
  BY <1>1 DEF Naming
<1>3. ASSUME S # {} PROVE LastNaming(part) = v
  <2>1. Max(S) \in S
    <3> HIDE DEF S, n
    <3> QED
      BY <1>1, <1>2, <1>3, MaxMember
  <2>2. fs[Max(S)] \in Only(part, v) /\ GivesPart(fs[Max(S)], part)
    BY <1>1, <1>2, <2>1, Zenon
  <2>3. fs[Max(S)] = v
    BY <2>2 DEF Only
  <2> QED
    BY <2>3, Zenon DEF LastNaming
<1>4. ASSUME Carries(fs, v), GivesPart(v, part) PROVE S # {}
  BY <1>4, Zenon DEF Carries, Naming
<1> QED
  BY <1>3, <1>4, Zenon

\* What an entry of a request says of these parts.
LEMMA RequestTells ==
    ASSUME Inv, phase = "logged", format = "clf"
    PROVE  /\ Given("host") = request.host
           /\ request.url =>
                Given("request") = Words(request.method, Words(request.path, request.proto))
           /\ ToldNumber("status") = statusCode /\ ToldNumber("size") = responseSize
<1>1. ResponseTypes /\ entry.fields = RequestEntry
  BY Zenon DEF Inv, ResponseInv, RequestEntry
<1>2. /\ entry.fields \in Seq(Only("host", HostField))
      /\ entry.fields \in Seq(Only("request", LineField))
      /\ entry.fields \in Seq(Only("status", StatusField))
      /\ entry.fields \in Seq(Only("size", SizeField))
  BY <1>1, GivenOnce, Zenon
<1>3. /\ request.host # <<>> => Carries(entry.fields, HostField)
      /\ request.url => Carries(entry.fields, LineField)
      /\ Carries(entry.fields, StatusField) /\ Carries(entry.fields, SizeField)
  BY <1>1, RequestCarries, Zenon
<1>4. /\ GivesPart(HostField, "host") /\ GivesPart(LineField, "request")
      /\ GivesPart(StatusField, "status") /\ GivesPart(SizeField, "size")
  <2>1. /\ "remote_host" \in Names /\ "request_line" \in Names /\ "status_code" \in Names
        /\ "response_size" \in Names
    BY Zenon DEF Names
  <2> QED
    BY <2>1, NameGives, NamesKnown, RequestKeys, Zenon
       DEF HostField, LineField, StatusField, SizeField
<1>5. /\ Naming("host") = {} \/ LastNaming("host") = HostField
      /\ request.host # <<>> => Naming("host") # {}
  BY <1>2, <1>3, <1>4, ToldOnce, Zenon
<1>6. request.url => Naming("request") # {} /\ LastNaming("request") = LineField
  BY <1>2, <1>3, <1>4, ToldOnce, Zenon
<1>7. /\ Naming("status") # {} /\ LastNaming("status") = StatusField
      /\ Naming("size") # {} /\ LastNaming("size") = SizeField
  BY <1>2, <1>3, <1>4, ToldOnce, Zenon
<1>8. \A name, s : StringOf(StringField(name, s)) = s
  BY DEF StringOf, StringField
<1>9. \A name, n : IntField(name, n).int = n
  BY DEF IntField
<1>10. Given("host") = request.host
  BY <1>5, <1>8, Zenon DEF Given, HostField
<1>11. request.url =>
         Given("request") = Words(request.method, Words(request.path, request.proto))
  BY <1>6, <1>8, Zenon DEF Given, LineField
<1>12. ToldNumber("status") = statusCode /\ ToldNumber("size") = responseSize
  BY <1>7, <1>9, Zenon DEF ToldNumber, StatusField, SizeField
<1> QED
  BY <1>10, <1>11, <1>12

LEMMA WordsThere ==
    ASSUME NEW s \in Text, NEW t \in Text, NEW u \in Text
    PROVE  Words(s, Words(t, u)) # <<>>
<1> DEFINE blank == <<" ">>
           rest == (t \o blank) \o u
<1>1. blank \in Text /\ Len(blank) = 1
  <2>1. <<" ">> \in Text
    BY Texts, Zenon DEF Special
  <2>2. Len(<<" ">>) = 1
    OBVIOUS
  <2> QED
    BY <2>1, <2>2
<1> HIDE DEF blank
<1>2. rest \in Text
  BY <1>1, Texts, Zenon
<1> HIDE DEF rest
<1>3. s \o blank \in Text /\ Len(s \o blank) = Len(s) + 1
  <2>1. s \o blank \in Seq(Char) /\ Len(s \o blank) = Len(s) + Len(blank)
    BY <1>1, ConcatProperties DEF Text
  <2> QED
    BY <1>1, <2>1 DEF Text
<1>4. Len((s \o blank) \o rest) = Len(s \o blank) + Len(rest)
  BY <1>2, <1>3, ConcatProperties DEF Text
<1>5. Len(s) \in Nat /\ Len(rest) \in Nat
  BY <1>2 DEF Text
<1>6. (s \o blank) \o rest # <<>>
  BY <1>3, <1>4, <1>5
<1> QED
  BY <1>6, Zenon DEF Words, blank, rest

\* AccessTold, of every request and whatever its handler does: the access log tells
\* what the client got, unless the handler set a status that was not sent.
THEOREM ToldTheorem == AccessSpec => []AccessTold
<1>1. ASSUME Inv, phase = "logged", format = "clf", AllPlain PROVE AccessTold
  <2> DEFINE p == CLFRead(CLFReader, WholeLine)
  <2>1. HasParts(p)
    BY <1>1, CLFReadBack, Zenon
  <2>2. /\ entry \in EntryValues /\ ResponseTypes /\ ResponseInv
    BY <1>1 DEF Inv, EntryTypes
  <2>3. /\ Given("host") = request.host
        /\ request.url =>
             Given("request") = Words(request.method, Words(request.path, request.proto))
        /\ ToldNumber("status") = statusCode /\ ToldNumber("size") = responseSize
    BY <1>1, RequestTells, Zenon
  <2>4. PickString("host") = Given("host")
    BY <2>2, PickedString
  <2>5. OrDash(RequestLine) = RequestTold /\ StatusText = StatusTold /\ SizeText = SizeTold
    BY <1>1, <2>2, RequestLineIs, NumbersAre, Zenon
  <2> HIDE DEF p
  <2>6. p.read[1] = OrDash(request.host)
    BY <2>1, <2>3, <2>4, Zenon DEF HasParts
  <2>7. ASSUME request.url
        PROVE  p.read[5] = Words(request.method, Words(request.path, request.proto))
    <3> DEFINE asked == Words(request.method, Words(request.path, request.proto))
    <3>1. asked # <<>>
      <4>1. request.method \in Text /\ request.path \in Text /\ request.proto \in Text
        BY <2>2, AccessAssumption DEF ResponseTypes
      <4> QED
        BY <4>1, WordsThere, Zenon
    <3>2. Given("request") = asked
      BY <2>3, <2>7, Zenon
    <3> HIDE DEF asked
    <3>3. RequestTold = asked
      BY <3>1, <3>2, Zenon DEF RequestTold, Told
    <3> QED
      BY <2>1, <2>5, <3>3, Zenon DEF HasParts, asked
  <2>8. ASSUME ignored = {}
        PROVE  p.read[6] = <<Numeral[sentStatus]>> /\ level = LevelOf(sentStatus)
    <3>1. sentStatus # 0 /\ level = LevelOf(statusCode)
      BY <1>1, <2>2, Zenon DEF ResponseInv
    <3>2. statusCode = sentStatus
      BY <2>2, <2>8, <3>1, Zenon DEF ResponseInv
    <3>3. statusCode > 0
      BY <2>2 DEF ResponseTypes
    <3>4. StatusTold = <<Numeral[statusCode]>>
      BY <2>3, <3>3, Zenon DEF StatusTold
    <3> QED
      BY <2>1, <2>5, <3>1, <3>2, <3>4, Zenon DEF HasParts
  <2>9. p.read[7] = OrDash(IF sentBytes = 0 THEN <<>> ELSE <<Numeral[sentBytes]>>)
    <3>1. responseSize = sentBytes
      BY <2>2, Zenon DEF ResponseInv
    <3>2. responseSize \in Nat
      <4>1. MaxBytes \in Nat /\ handled \in Nat
        BY <2>2, AccessAssumption DEF ResponseTypes
      <4> QED
        BY <2>2, <4>1 DEF ResponseTypes
    <3>3. sentBytes = 0 <=> ~(sentBytes > 0)
      BY <3>1, <3>2
    <3>4. p.read[7] = IF sentBytes > 0 THEN <<Numeral[sentBytes]>> ELSE <<"-">>
      BY <2>1, <2>3, <2>5, <3>1, Zenon DEF HasParts, SizeTold
    <3>5. <<Numeral[sentBytes]>> # <<>>
      OBVIOUS
    <3> QED
      BY <3>3, <3>4, <3>5, Zenon DEF OrDash
  <2> QED
    BY <2>6, <2>7, <2>8, <2>9, Zenon DEF AccessTold, p
<1>2. ASSUME phase # "logged" \/ format # "clf" \/ ~AllPlain PROVE AccessTold
  BY <1>2, Zenon DEF AccessTold, AllPlain
<1>3. Inv => AccessTold
  BY <1>1, <1>2
<1> QED
  BY <1>3, InvTheorem, PTL

================================================================================
