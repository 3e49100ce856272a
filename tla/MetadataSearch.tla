---------------------------- MODULE MetadataSearch ----------------------------
(***************************************************************************)
(* A client of the metadata search (Search, pkg/controllers/mdsearch.go)   *)
(* asks for the documents of a query page by page, while the index changes.*)
(* A page is one request: the handler looks up the users of the bucket,    *)
(* takes the query apart and asks Elasticsearch for max-keys hits from     *)
(* `marker' on.  It always answers that nothing is truncated and gives no  *)
(* marker: the client counts what it has got, and a page that is not full  *)
(* is the last.                                                            *)
(*                                                                         *)
(* A request that meets an Elasticsearch that is down ends with a panic    *)
(* that gin turns into an error; it changes nothing and is left out.       *)
(***************************************************************************)
EXTENDS SearchQuery, MetadataIndex

CONSTANTS Attributes,   \* Attributes[d]: what the index knows of a document
          Bucket,       \* the bucket that is searched
          Granted,      \* the users in its policy
          Clients,      \* the users that search
          Queries,      \* what they ask for
          PageSize      \* max-keys

ASSUME SearchAssumption == PageSize \in Nat \ {0} /\ Granted \subseteq Clients
ASSUME QueriesAssumption == \A q \in Queries : IsQuery(q)
ASSUME AttributesAssumption == \A d \in Documents :
    /\ Attributes[d].mtime \in Nat
    /\ Attributes[d].name \in Seq(Tokens) /\ Attributes[d].contenttype \in Seq(Tokens)
    /\ \A pair \in Attributes[d].custom : pair[2] \in Seq(Tokens)

VARIABLES search,   \* what the client is doing, if there is one
          steady,   \* history: the documents it means that were there all the time
          shifted   \* history: what it had got changed its place

searchVars == <<search, steady, shifted>>

Asking == search.at = "asking"

SearchInit == search \in {[at |-> "idle"], [at |-> "absent"]} /\ steady = {} /\ shifted = FALSE

InBucket(d) == Attributes[d].bucket = Bucket

\* What the client means by each query, ...
Meant == [q \in Queries |->
    {d \in Documents : InBucket(d) /\ (Documented(q) \/ Beyond(q)) /\ Means(q, Attributes[d])}]

\* ... the queries that Search accepts, ...
Accepted == {q \in Queries : Accepts(Written(q))}

\* ... and what Elasticsearch selects for them.
Selected == [q \in Accepted |->
    LET g == Groups(Written(q)) IN {d \in Documents : InBucket(d) /\ Selects(g, Attributes[d])}]

Clear == {q \in Queries : ~Ambiguous(q)}

Hits(q, ranking) == Among(Selected[q], ranking)

Ask(user, q) ==
    /\ search.at = "idle"
    /\ search' = [at |-> "asking", user |-> user, query |-> q, got |-> <<>>]
    /\ steady' = Meant[q] \intersect Indexed
    /\ UNCHANGED <<indexVars, shifted>>

\* The request ends without a page.
Ends(at) ==
    /\ search' = [search EXCEPT !.at = at]
    /\ steady' = {} /\ shifted' = FALSE

\* The users of the bucket are looked up first.
Deny == Asking /\ search.user \notin Granted /\ Ends("denied") /\ UNCHANGED indexVars

\* The text is taken apart before Elasticsearch is asked.
Refuse ==
    /\ Asking /\ search.user \in Granted /\ search.query \notin Accepted
    /\ Ends("refused")
    /\ UNCHANGED indexVars

\* Variant: from counts from one.
PageFromOne(hits, from) == SubSeq(hits, from + 2, Min({from + 1 + PageSize, Len(hits)}))

\* From(from).Size(size)
Page(hits, from) == SubSeq(hits, from + 1, Min({from + PageSize, Len(hits)}))

\* Elasticsearch refuses a range whose length of time has no unit: the handler panics.
Unanswerable == {q \in Accepted : IsOne({"barred length"}, Groups(Written(q)).value)
                                  /\ q.field = "lastmodified"}

Panic ==
    /\ Asking /\ search.user \in Granted /\ search.query \in Unanswerable
    /\ Ends("failed")
    /\ UNCHANGED indexVars

Answer ==
    /\ Asking /\ search.user \in Granted /\ search.query \in Accepted \ Unanswerable
    /\ LET page == Page(Hits(search.query, index), Len(search.got))
       IN  /\ search' = [search EXCEPT !.got = @ \o page,
                            !.at = IF Len(page) < PageSize THEN "answered" ELSE "asking"]
           /\ IF Len(page) < PageSize THEN steady' = {} /\ shifted' = FALSE
                                      ELSE UNCHANGED <<steady, shifted>>
    /\ UNCHANGED indexVars

\* What a change of the index means for a search in progress.
Watch ==
    IF Asking /\ search.query \in Accepted
    THEN LET had(ranking) == LET hits == Hits(search.query, ranking)
                             IN  SubSeq(hits, 1, Min({Len(search.got), Len(hits)}))
         IN  /\ steady' = steady \intersect Range(index')
             /\ shifted' = (shifted \/ had(index) # had(index'))
             /\ UNCHANGED search
    ELSE UNCHANGED searchVars

SearchStep ==
    \/ \E user \in Clients, q \in Queries : Ask(user, q)
    \/ Deny \/ Refuse \/ Panic \/ Answer

-----------------------------------------------------------------------------
(* Properties. *)

\* A query is answered if it is in the syntax that the answers to bad queries describe, and
\* refused if not, unless its text can be taken apart in more than one way (mdsearch.go:146).
\* The exceptions are values, each for a check of its own: what is Overlooked is refused, of
\* what is Beyond a date is answered and a length ends in a panic.
AcceptsTheDocumented ==
    search.at \in {"refused", "answered", "failed"} /\ search.query \in Clear =>
        LET q == search.query
        IN  /\ search.at = "answered" => (Documented(q) /\ ~Overlooked(q)) \/ Beyond(q)
            /\ search.at = "refused" => (Documented(q) => Overlooked(q)) /\ ~Beyond(q)
            /\ search.at = "failed" => Beyond(q) /\ ~Documented(q)

\* Every document in an answer is in the bucket and is what the client means.
AnswersAreMeant ==
    search.at \in {"asking", "answered"} /\ search.query \in Clear =>
        \A d \in Range(search.got) :
            d \in Meant[search.query] /\ search.user \in Granted

\* A client that has turned all pages has each document it means that was there all the
\* time, once: unless a document it had got went away or was written again, and moved
\* the rest (mdsearch.go:322-327), or the document is not older than the search.
PagesAreWhole ==
    [][(Asking /\ search'.at = "answered" /\ search.query \in Clear /\ ~shifted) =>
          /\ {d \in steady : Attributes[d].mtime < Now} \subseteq Range(search'.got)
          /\ IsInjective(search'.got)]_<<index, search>>
=============================================================================
