------------------------- MODULE MCMetadataServices -------------------------
(* Four documents, of which one is in another bucket and one as new as the    *)
(* search, and queries for each field that are written well, badly or so that *)
(* they can be read in two ways.                                              *)
EXTENDS MetadataServices

MCWords == {"a", "ab", "a*", "1", "9", "1d", "01d", "1|", "year1", "day2", "day2short", "md5", "MD5"}

MCFormOf == [w \in MCWords |->
    CASE w = "a*" -> "pattern" [] w \in {"1", "9"} -> "number"
      [] w = "1d" -> "length" [] w = "01d" -> "padded length" [] w = "1|" -> "barred length"
      [] w \in {"year1", "day2"} -> "date" [] w = "day2short" -> "short date"
      [] w = "md5" -> "md5" [] w = "MD5" -> "upper md5" [] OTHER -> "text"]

MCAmountOf == [w \in MCWords |->
    CASE w \in {"1", "1d", "01d", "1|"} -> 1 [] w \in {"day2", "day2short"} -> 2
      [] w = "9" -> 9 [] OTHER -> 0]

MCCovers == [w \in MCWords |-> IF w = "a*" THEN {"a", "ab"} ELSE {}]

Doc(bucket, name, size, mtime, etag, value) ==
    [bucket |-> bucket, name |-> <<name>>, contenttype |-> <<name>>, size |-> size,
     mtime |-> mtime, etag |-> <<etag>>, custom |-> {<<<<"a">>, value>>}]

MCAttributes == [d \in {"d1", "d2", "d3", "d4"} |->
    CASE d = "d1" -> Doc("b", "a", 0, 1, "md5", <<"a">>)
      [] d = "d2" -> Doc("b", "ab", 1, 2, "other", <<"a", "=", "=", "ab">>)
      [] d = "d3" -> Doc("b", "a", 2, 3, "md5", <<"ab">>)
      [] d = "d4" -> Doc("c", "a", 1, 1, "md5", <<"a">>)]

MCInitially == <<"d1", "d4", "d2", "d3">>

Query(field, ops, values, spaces) ==
    {[field |-> field, meta |-> IF field = Custom THEN <<"a">> ELSE <<>>,
      op |-> q[1], value |-> q[2], spaced |-> q[3]] : q \in ops \X values \X spaces}

AllOps == Range(Operators)

MCQueries ==
    Query("name", {Equal, <<"<">>}, {<<"a">>, <<"a*">>, <<"a", "=", "=", "ab">>}, {FALSE})
    \union Query("contenttype", {Equal, <<">">>}, {<<"a*">>}, {TRUE})
    \union Query(Custom, {Equal}, {<<"a">>, <<"a*">>, <<"a", "=", "=", "ab">>}, BOOLEAN)
    \union Query("lastmodified", AllOps, {<<"1d">>, <<"day2">>}, {FALSE})
    \union Query("lastmodified", {<<"<">>}, {<<"year1">>, <<"day2short">>, <<"01d">>, <<"1|">>, <<"a">>}, {FALSE})
    \union Query("size", AllOps, {<<"1">>}, {FALSE})
    \union Query("size", {<<"<">>}, {<<"9">>, <<"a">>, <<"=", "1">>}, {FALSE})
    \union Query("etag", {Equal, <<"<">>}, {<<"md5">>, <<"MD5">>}, {FALSE})

Setting(create, copy, elastic) == [create |-> create, copy |-> copy, elastic |-> elastic]
MCSettings == {Setting(TRUE, TRUE, TRUE), Setting(FALSE, FALSE, TRUE), Setting(TRUE, TRUE, FALSE)}
=============================================================================
