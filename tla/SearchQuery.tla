----------------------------- MODULE SearchQuery -----------------------------
(***************************************************************************)
(* The queries of the metadata search (pkg/controllers/mdsearch.go): how   *)
(* Search takes the text of a query apart with a regular expression, which *)
(* queries it accepts, and which documents the query it builds for         *)
(* Elasticsearch selects.  What the client means is the reference: a field,*)
(* an operator and a value, written one after the other.                   *)
(*                                                                         *)
(* A text is a sequence of tokens: the field, the characters of operators, *)
(* spaces (one at a time) and words.  A value, like a property of a        *)
(* document that holds a text, is a sequence of tokens too.                *)
(***************************************************************************)
EXTENDS Integers, Sequences, SequencesExt

CONSTANTS Words,     \* what else a text is made of
          FormOf,    \* FormOf[w]: how w is written
          AmountOf,  \* the number, the length of time or the date that w writes
          Covers,    \* Covers[w]: the words that the wildcards of w match
          MaxInt,    \* the largest int of Go
          Now

\* A text, with a * in it or not; a number; a length of time like 30s, one that begins with
\* a zero, one with | for its unit; a date, one whose hour is a single digit; a hash in
\* lower and in upper case.
Forms == {"text", "pattern", "number", "length", "padded length", "barred length",
          "date", "short date", "md5", "upper md5"}

ASSUME WordsAssumption ==
    /\ FormOf \in [Words -> Forms] /\ AmountOf \in [Words -> Nat]
    /\ Covers \in [Words -> SUBSET Words] /\ MaxInt \in Nat /\ Now \in Nat

Custom == "x-amz-meta-"
TextFields == {"name", "contenttype", Custom}
Equal == <<"=", "=">>

-----------------------------------------------------------------------------
(* What the client means and writes. *)

\* A query: meta is the rest of the field's name, for custom metadata.
Written(q) ==
    LET space == IF q.spaced THEN <<" ">> ELSE <<>>
    IN  <<q.field>> \o q.meta \o space \o q.op \o space \o q.value

IsOne(forms, value) == Len(value) = 1 /\ value[1] \in Words /\ FormOf[value[1]] \in forms

Lengths == {"length", "padded length", "barred length"}

\* The syntax that the answers to bad queries describe (lines 85-93, 156, 172, 206, 229-235,
\* 267, 290, 300): a length is a number and a letter, a date is YYYY-MM-DDThh:mm, bytes are
\* an integer that is not negative.
Documented(q) ==
    \/ q.field \in TextFields /\ q.op = Equal
    \/ q.field = "lastmodified" /\ q.op # Equal
                                /\ IsOne({"length", "padded length", "date"}, q.value)
    \/ q.field = "size" /\ q.op # Equal /\ IsOne({"number"}, q.value)
    \/ q.field = "etag" /\ q.op = Equal /\ IsOne({"md5", "upper md5"}, q.value)

Compare(a, op, b) ==
    \/ op = <<"<">> /\ a < b
    \/ op = <<"<", "=">> /\ a <= b
    \/ op = <<">">> /\ a > b
    \/ op = <<">", "=">> /\ a >= b

Like(text, value) ==
    /\ Len(text) = Len(value)
    /\ \A i \in 1 .. Len(text) :
          \/ text[i] = value[i]
          \/ value[i] \in Words /\ FormOf[value[i]] = "pattern" /\ text[i] \in Covers[value[i]]

\* A length of time is compared with the age of the object, a date with its time.
Means(q, doc) ==
    \/ q.field \in {"name", "contenttype"} /\ Like(doc[q.field], q.value)
    \/ q.field = Custom /\ \E pair \in doc.custom : pair[1] = q.meta /\ Like(pair[2], q.value)
    \/ q.field = "etag" /\ doc.etag = q.value
    \/ q.field = "size" /\ Compare(doc.size, q.op, AmountOf[q.value[1]])
    \/ q.field = "lastmodified" /\
          Compare(IF IsOne(Lengths, q.value) THEN Now - doc.mtime ELSE doc.mtime,
                  q.op, AmountOf[q.value[1]])

-----------------------------------------------------------------------------
(* The handler: ^(name|...|x-amz-meta-[^\s]+)\s*(<=|<|==|>=|>)\s*(.+)$     *)

\* Variant: < is tried before <=.
OperatorsShortFirst == <<<<"<">>, <<"<", "=">>, Equal, <<">">>, <<">", "=">>>>

\* The alternatives of the expression, in its order.
Operators == <<<<"<", "=">>, <<"<">>, Equal, <<">", "=">>, <<">">>>>

SkipSpace(s) == IF s # <<>> /\ Head(s) = " " THEN Tail(s) ELSE s

\* How many tokens after the field may belong to its name.
NameLengths(text) ==
    IF text[1] = Custom
    THEN {n \in 1 .. Len(text) - 1 : \A i \in 2 .. n + 1 : text[i] # " "}
    ELSE {0}

AfterName(text, n) == SkipSpace(SubSeq(text, n + 2, Len(text)))
AfterOperator(text, n, k) ==
    SkipSpace(SubSeq(AfterName(text, n), Len(Operators[k]) + 1, Len(AfterName(text, n))))

\* The ways the expression can match.
Matches(text) ==
    {m \in NameLengths(text) \X (1 .. Len(Operators)) :
        /\ IsPrefix(Operators[m[2]], AfterName(text, m[1]))
        /\ AfterOperator(text, m[1], m[2]) # <<>>}

\* The longest name first, then the first alternative.
Preferred(matches) ==
    CHOOSE m \in matches : \A other \in matches :
        m[1] > other[1] \/ (m[1] = other[1] /\ m[2] <= other[2])

Groups(text) ==
    LET m == Preferred(Matches(text))
    IN  [field |-> text[1], meta |-> SubSeq(text, 2, m[1] + 1),
         op |-> Operators[m[2]], value |-> AfterOperator(text, m[1], m[2])]

\* [1-9][0-9]*[s|m|h|d|w|M|y]: in brackets the bar is a unit too.
IsDuration(value) == IsOne({"length", "barred length"}, value)

\* time.Parse takes an hour of one digit; the first minute of year 1 (0) is taken for no date.
IsDate(value) == IsOne({"date", "short date"}, value) /\ AmountOf[value[1]] # 0

\* Atoi takes what an int can hold.
IsSize(value) == IsOne({"number"}, value) /\ AmountOf[value[1]] <= MaxInt

\* Whether the handler goes on to the search.
Accepts(text) ==
    /\ Matches(text) # {}
    /\ LET g == Groups(text)
       IN  \/ g.field \in TextFields /\ g.op = Equal
           \/ g.field = "lastmodified" /\ g.op # Equal /\ (IsDuration(g.value) \/ IsDate(g.value))
           \/ g.field = "size" /\ g.op # Equal /\ IsSize(g.value)
           \/ g.field = "etag" /\ g.op = Equal /\ IsOne({"md5"}, g.value)

HasStar(value) ==
    \E i \in 1 .. Len(value) : value[i] \in Words /\ FormOf[value[i]] = "pattern"

\* NewWildcardQuery or NewTermQuery.
TextQuery(text, value) == IF HasStar(value) THEN Like(text, value) ELSE text = value

\* Variant: <= and >= as for a date.
TimeQueryAsDate(op, t, d) == Compare(t, op, Now - d)

\* NewRangeQuery with now-d.
TimeQuery(op, t, d) ==
    \/ op = <<"<", "=">> /\ t >= Now - d /\ t <= Now
    \/ op = <<"<">> /\ t > Now - d /\ t < Now
    \/ op = <<">", "=">> /\ t <= Now - d
    \/ op = <<">">> /\ t < Now - d

\* The documents that the query built from the groups selects, besides their bucket.
Selects(g, doc) ==
    \/ g.field \in {"name", "contenttype"} /\ TextQuery(doc[g.field], g.value)
    \/ g.field = Custom /\ \E pair \in doc.custom :
          pair[1] = g.meta /\ TextQuery(pair[2], g.value)
    \/ g.field = "etag" /\ doc.etag = g.value
    \/ g.field = "size" /\ Compare(doc.size, g.op, AmountOf[g.value[1]])
    \/ g.field = "lastmodified" /\
          IF IsDuration(g.value) THEN TimeQuery(g.op, doc.mtime, AmountOf[g.value[1]])
                                 ELSE Compare(doc.mtime, g.op, AmountOf[g.value[1]])

-----------------------------------------------------------------------------
Fields == TextFields \union {"lastmodified", "size", "etag"}
Tokens == Fields \union Words \union {" ", "<", "=", ">"}

\* A query that can be written: the name of a field has no space in it, and a space before
\* or after a value is not part of it (TrimSpace and the expression, lines 146-147).
IsQuery(q) ==
    /\ q.field \in Fields /\ q.spaced \in BOOLEAN
    /\ q.meta \in Seq(Tokens \ {" "}) /\ (q.meta # <<>> <=> q.field = Custom)
    /\ q.op \in Range(Operators)
    /\ q.value \in Seq(Tokens) /\ q.value # <<>> /\ Head(q.value) # " " /\ Last(q.value) # " "

-----------------------------------------------------------------------------
(* Where the text says less than the client means. *)

\* Operator and value, written without spaces, read as another operator and value; or
\* in custom metadata, the value holds an operator, and the name ends there.
Ambiguous(q) ==
    LET rest == q.op \o q.value
        begins(i, op) == i + Len(op) <= Len(rest) /\ SubSeq(rest, i, i + Len(op) - 1) = op
    IN  /\ ~q.spaced
        /\ \/ \E k \in 1 .. Len(Operators) :
                 begins(1, Operators[k]) /\ Len(Operators[k]) > Len(q.op)
           \/ q.field = Custom /\ \E i \in 2 .. Len(rest), k \in 1 .. Len(Operators) :
                 begins(i, Operators[k])

-----------------------------------------------------------------------------
(* Where the handler and the syntax that it describes part. *)

\* Values that the syntax allows and the handler refuses.
Overlooked(q) ==
    \/ q.field = "lastmodified" /\ \/ IsOne({"padded length"}, q.value)
                                   \/ IsOne({"date"}, q.value) /\ AmountOf[q.value[1]] = 0
    \/ q.field = "size" /\ AmountOf[q.value[1]] > MaxInt
    \/ q.field = "etag" /\ IsOne({"upper md5"}, q.value)

\* Values beyond the syntax that the handler takes.
Beyond(q) ==
    /\ q.field = "lastmodified" /\ q.op # Equal
    /\ \/ IsOne({"barred length"}, q.value)
       \/ IsOne({"short date"}, q.value) /\ AmountOf[q.value[1]] # 0
=============================================================================
