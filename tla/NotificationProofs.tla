------------------------- MODULE NotificationProofs -------------------------
(***************************************************************************)
(* What the notification configurations and the delivery of events         *)
(* promise, for every number of buckets, targets, requests and faults, and *)
(* what the rules of a bucket deliver, for all configurations and values.  *)
(***************************************************************************)
EXTENDS EventDispatch, EventRules, SequenceTheorems, FiniteSetTheorems,
        WellFoundedInduction, NaturalsInduction, TLAPS

-----------------------------------------------------------------------------
(* The rows and the requests. *)

Ats == {"resolve", "save", "find", "delete", "resource", "target", "create", "update"}

Requests == [at : Ats, bucket : Buckets, body : Bodies, i : Nat \ {0},
             config : Buckets \union {NoConfig}, resource : Nat, row : Nat, own : Nat]

TargetRows == [kind : Kinds, ident : Idents \union {NoIdent}, arn : Arns \union {Malformed},
               rule : Rules \union {NoRule}, config : Buckets \union {NoConfig}, resource : Nat]

ResourceRows == [arn : Arns, live : BOOLEAN]

TablesTyped ==
    /\ configs \in [Buckets -> {"none", "live", "deleted"}]
    /\ targets \in Seq(TargetRows) /\ resources \in Seq(ResourceRows)

PutTyped == put \in [Puts -> {Idle, Ok} \union Requests]

Active(p) == put[p] \in Requests

\* A target is bound to a resource there was, and belongs to a configuration that was made.
TargetsFit ==
    \A t \in 1 .. Len(targets) :
        /\ targets[t].resource # 0 => targets[t].resource \in 1 .. Len(resources)
        /\ targets[t].config \in Buckets => configs[targets[t].config] # "none"
\* The resource that a request has found is the one that its item names.
FindsNamed(r) ==
    r.at \in {"save", "target", "create", "update"} /\ r.resource # 0 =>
        /\ r.resource \in 1 .. Len(resources)
        /\ resources[r.resource].arn = r.body[r.i].arn

\* The rows of a first PUT are its own, one for each item, ...
OwnsRows(r) ==
    r.at \in {"resolve", "save"} =>
        /\ r.own + Len(r.body) <= Len(targets)
        /\ \A j \in 1 .. Len(r.body) :
              /\ targets[r.own + j].kind = r.body[j].kind
              /\ targets[r.own + j].ident = r.body[j].ident
              /\ targets[r.own + j].rule = r.body[j].rule
              /\ targets[r.own + j].config = r.bucket

\* ... and the row that a later PUT has found is the one that the conditions select.
FindsMatching(r) ==
    r.at = "update" /\ r.row # 0 =>
        /\ r.row \in 1 .. Len(targets)
        /\ targets[r.row].kind = r.body[r.i].kind
        /\ r.body[r.i].ident = NoIdent \/ targets[r.row].ident = r.body[r.i].ident
        /\ r.config = NoConfig \/ targets[r.row].config = r.config

RequestFits(r) ==
    /\ configs[r.bucket] # "none"
    /\ r.config = r.bucket \/ (r.config = NoConfig /\ "noConfig" \in mishaps)
    /\ r.at \in {"resolve", "save", "find"} => r.config = r.bucket
    /\ r.at = "find" => r.i = 1
    /\ r.at = "delete" <=> r.at # "find" /\ r.body = <<>>
    /\ r.body # <<>> => r.i \in 1 .. Len(r.body)
    /\ r.own <= Len(targets)
    /\ FindsNamed(r) /\ OwnsRows(r) /\ FindsMatching(r)

TablesInv ==
    /\ TablesTyped /\ PutTyped /\ TargetsFit
    /\ \A p \in Puts : Active(p) => RequestFits(put[p])

-----------------------------------------------------------------------------
(* What the tables keep: a row its kind, its Id, its events and its        *)
(* configuration, a resource its ARN.                                      *)

Keeps ==
    /\ Len(targets) <= Len(targets') /\ Len(resources) <= Len(resources')
    /\ \A t \in 1 .. Len(targets) :
          /\ targets'[t].kind = targets[t].kind /\ targets'[t].ident = targets[t].ident
          /\ targets'[t].rule = targets[t].rule /\ targets'[t].config = targets[t].config
    /\ \A r \in 1 .. Len(resources) : resources'[r].arn = resources[r].arn
    /\ \A b \in Buckets : configs[b] # "none" => configs'[b] # "none"
    /\ mishaps \subseteq mishaps'

\* Request p goes on, and all others stay where they are.
Goes(p, at, i, config, resource, row) ==
    /\ PutTyped'
    /\ \A q \in Puts \ {p} : put'[q] = put[q]
    /\ put'[p] \in Requests /\ put'[p].at = at
    /\ put'[p].bucket = put[p].bucket /\ put'[p].body = put[p].body /\ put'[p].own = put[p].own
    /\ put'[p].i = i /\ put'[p].config = config
    /\ put'[p].resource = resource /\ put'[p].row = row

\* Request p has come to its end.
Stops(p) ==
    /\ PutTyped' /\ put'[p] \in {Idle, Ok}
    /\ \A q \in Puts \ {p} : put'[q] = put[q]

LEMMA ActiveIs ==
  ASSUME PutTyped, NEW p \in Puts
  PROVE  Active(p) <=> ~Waiting(p)
BY DEF PutTyped, Active, Waiting, Requests, Idle, Ok, Ats

LEMMA ActiveAfter ==
  ASSUME PutTyped', NEW p \in Puts
  PROVE  Active(p)' <=> put'[p] \notin {Idle, Ok}
BY DEF PutTyped, Active, Requests, Idle, Ok, Ats

LEMMA BodyIs ==
  ASSUME NEW body \in Bodies
  PROVE  /\ body \in Seq(Item) /\ Len(body) \in Nat /\ DOMAIN body = 1 .. Len(body)
         /\ \A j \in 1 .. Len(body) :
               /\ body[j].kind \in Kinds /\ body[j].ident \in Idents \union {NoIdent}
               /\ body[j].arn \in Arns \union {Malformed} /\ body[j].rule \in Rules
         /\ body # <<>> <=> Len(body) # 0
<1>1. body \in Seq(Item)
  BY BodiesAssumption
<1>2. Len(body) \in Nat /\ DOMAIN body = 1 .. Len(body)
  BY <1>1, LenProperties
<1>3. \A j \in 1 .. Len(body) : body[j] \in Item
  BY <1>1, ElementOfSeq
<1>4. body # <<>> <=> Len(body) # 0
  BY <1>1, EmptySeq
<1> QED BY <1>1, <1>2, <1>3, <1>4 DEF Item

LEMMA RowsAre ==
  ASSUME TablesTyped
  PROVE  /\ Len(targets) \in Nat /\ DOMAIN targets = 1 .. Len(targets)
         /\ Len(resources) \in Nat /\ DOMAIN resources = 1 .. Len(resources)
         /\ \A t \in 1 .. Len(targets) : targets[t] \in TargetRows
         /\ \A r \in 1 .. Len(resources) : resources[r] \in ResourceRows
BY LenProperties, ElementOfSeq DEF TablesTyped

\* A request that stays where it is fits the tables when they keep their rows.
LEMMA RequestStays ==
  ASSUME TablesTyped, TablesTyped', Keeps, NEW q \in Puts, Active(q), RequestFits(put[q]),
         put'[q] = put[q]
  PROVE  RequestFits(put[q])'
<1>1. PICK r \in Requests : r = put[q]
  BY DEF Active
<1>2. /\ Len(targets) \in Nat /\ Len(resources) \in Nat
      /\ Len(targets') \in Nat /\ Len(resources') \in Nat
  BY LenProperties DEF TablesTyped
<1>3. r.bucket \in Buckets /\ r.body \in Bodies /\ r.i \in Nat /\ r.own \in Nat /\ r.resource \in Nat
      /\ r.row \in Nat
  BY DEF Requests
<1>4. Len(r.body) \in Nat
  BY <1>3, BodyIs
<1>5. FindsNamed(r)'
  BY <1>1, <1>2 DEF RequestFits, FindsNamed, Keeps
<1>6. OwnsRows(r)'
  <2>1. SUFFICES ASSUME r.at \in {"resolve", "save"} PROVE OwnsRows(r)'
    BY DEF OwnsRows
  <2>2. /\ r.own + Len(r.body) <= Len(targets)
        /\ \A j \in 1 .. Len(r.body) :
              /\ targets[r.own + j].kind = r.body[j].kind
              /\ targets[r.own + j].ident = r.body[j].ident
              /\ targets[r.own + j].rule = r.body[j].rule
              /\ targets[r.own + j].config = r.bucket
    BY <1>1, <2>1 DEF RequestFits, OwnsRows
  <2>3. \A j \in 1 .. Len(r.body) : r.own + j \in 1 .. Len(targets)
    BY <1>2, <1>3, <1>4, <2>2
  <2>4. r.own + Len(r.body) <= Len(targets')
    BY <1>2, <1>3, <1>4, <2>2 DEF Keeps
  <2> QED BY <2>2, <2>3, <2>4 DEF Keeps, OwnsRows
<1>7. FindsMatching(r)'
  BY <1>1, <1>2 DEF RequestFits, FindsMatching, Keeps
<1>8. configs'[r.bucket] # "none"
  BY <1>1, <1>3 DEF RequestFits, Keeps
<1>9. r.own <= Len(targets')
  BY <1>1, <1>2, <1>3 DEF RequestFits, Keeps
<1>10. RequestFits(r)'
  BY <1>1, <1>5, <1>6, <1>7, <1>8, <1>9 DEF RequestFits, Keeps
<1> QED BY <1>1, <1>10

\* A step of one request.
LEMMA StepKeepsInv ==
  ASSUME TablesInv, TablesTyped', TargetsFit', Keeps, NEW p \in Puts,
         PutTyped', \A q \in Puts \ {p} : put'[q] = put[q],
         Active(p)' => RequestFits(put[p])'
  PROVE  TablesInv'
<1>1. ASSUME NEW q \in Puts, Active(q)' PROVE RequestFits(put[q])'
  <2>1. CASE q = p
    BY <1>1, <2>1
  <2>2. CASE q # p
    <3>1. put'[q] = put[q] /\ Active(q)
      BY <1>1, <2>2 DEF Active
    <3> QED BY <3>1, RequestStays DEF TablesInv
  <2> QED BY <2>1, <2>2
<1> QED BY <1>1 DEF TablesInv

\* The tables stay as they are.
LEMMA TablesStay ==
  ASSUME TablesInv, UNCHANGED tables, mishaps \subseteq mishaps'
  PROVE  TablesTyped' /\ TargetsFit' /\ Keeps
<1>1. TablesTyped' /\ TargetsFit'
  BY DEF TablesInv, TablesTyped, TargetsFit, tables
<1>2. Len(targets) \in Nat /\ Len(resources) \in Nat
  BY RowsAre DEF TablesInv
<1> QED BY <1>1, <1>2 DEF Keeps, tables

-----------------------------------------------------------------------------
(* What each statement of a request does to it. *)

LEMMA ThisIs ==
  ASSUME PutTyped, NEW p \in Puts, ~Waiting(p)
  PROVE  /\ Active(p) /\ put[p].at \in Ats /\ put[p].bucket \in Buckets /\ put[p].body \in Bodies
         /\ put[p].i \in Nat \ {0} /\ put[p].config \in Buckets \union {NoConfig}
         /\ put[p].resource \in Nat /\ put[p].row \in Nat /\ put[p].own \in Nat
BY ActiveIs DEF Active, Requests

LEMMA AnswerDoes ==
  ASSUME PutTyped, NEW p \in Puts, NEW with \in {Idle, Ok}, Answer(p, with)
  PROVE  Stops(p) /\ put'[p] = with
BY DEF Answer, Stops, PutTyped

LEMMA BeginsDoes ==
  ASSUME PutTyped, NEW p \in Puts, NEW r \in Requests, put' = [put EXCEPT ![p] = r]
  PROVE  PutTyped' /\ put'[p] = r /\ \A q \in Puts \ {p} : put'[q] = put[q]
BY DEF PutTyped

\* A request goes on with some of its fields changed.
LEMMA GoesOn ==
  ASSUME PutTyped, NEW p \in Puts, Active(p), NEW at \in Ats, NEW i \in Nat \ {0},
         NEW config \in Buckets \union {NoConfig}, NEW resource \in Nat, NEW row \in Nat,
         put' = [put EXCEPT ![p] = [put[p] EXCEPT !.at = at, !.i = i, !.config = config,
                                                  !.resource = resource, !.row = row]]
  PROVE  Goes(p, at, i, config, resource, row)
<1>1. PICK r \in Requests : r = put[p]
  BY DEF Active
<1>2. PICK s : s = [r EXCEPT !.at = at, !.i = i, !.config = config,
                             !.resource = resource, !.row = row]
  OBVIOUS
<1>3. /\ s \in Requests /\ s.at = at /\ s.i = i /\ s.config = config
      /\ s.resource = resource /\ s.row = row
      /\ s.bucket = r.bucket /\ s.body = r.body /\ s.own = r.own
  BY <1>2 DEF Requests
<1>4. PutTyped' /\ put'[p] = s /\ \A q \in Puts \ {p} : put'[q] = put[q]
  BY <1>1, <1>2, <1>3, BeginsDoes
<1> QED BY <1>1, <1>3, <1>4 DEF Goes

LEMMA NextItemDoes ==
  ASSUME PutTyped, NEW p \in Puts, ~Waiting(p), NEW first \in Ats, NextItem(p, first)
  PROVE  \/ /\ put[p].i < Len(put[p].body)
            /\ Goes(p, first, put[p].i + 1, put[p].config, 0, 0)
         \/ put[p].i >= Len(put[p].body) /\ Stops(p) /\ put'[p] = Ok
<1>1. PICK r \in Requests : r = put[p]
  BY ThisIs DEF Active
<1>2. r.i \in Nat \ {0} /\ r.i + 1 \in Nat \ {0} /\ Len(r.body) \in Nat
      /\ r.config \in Buckets \union {NoConfig}
  BY BodyIs DEF Requests
<1>3. CASE r.i < Len(r.body)
  <2>1. put' = [put EXCEPT ![p].i = @ + 1, ![p].at = first, ![p].resource = 0, ![p].row = 0]
    BY <1>1, <1>3 DEF NextItem
  <2>2. put' = [put EXCEPT ![p] = [r EXCEPT !.at = first, !.i = r.i + 1, !.config = r.config,
                                            !.resource = 0, !.row = 0]]
    BY <1>1, <2>1 DEF PutTyped, Requests
  <2>3. Goes(p, first, r.i + 1, r.config, 0, 0)
    BY <1>1, <1>2, <2>2, GoesOn DEF Active
  <2> QED BY <1>1, <1>3, <2>3
<1>4. CASE ~(r.i < Len(r.body))
  <2>1. Answer(p, Ok)
    BY <1>1, <1>4 DEF NextItem
  <2> QED BY <1>1, <1>2, <1>4, <2>1, AnswerDoes
<1> QED BY <1>3, <1>4

LEMMA LeastOf ==
  ASSUME NEW rows \in SUBSET Nat, rows # {}
  PROVE  \E r \in rows : \A q \in rows : r <= q
<1> DEFINE R == OpToRel(<, Nat)
<1>1. IsWellFoundedOn(R, Nat)
  BY NatLessThanWellFounded
<1>2. \A i, j \in Nat : <<i, j>> \in R <=> i < j
  BY DEF OpToRel
<1> HIDE DEF R
<1>3. PICK r \in rows : \A q \in rows : ~ (<<q, r>> \in R)
  BY <1>1, WFMin
<1>4. r \in Nat /\ \A q \in rows : q \in Nat
  OBVIOUS
<1>5. \A q \in rows : ~ (q < r)
  BY <1>2, <1>3, <1>4, Zenon
<1> QED BY <1>4, <1>5

\* The resource that a lookup finds is live and the one that is named.
LEMMA FirstResourceIs ==
  ASSUME TablesTyped, NEW item
  PROVE  /\ FirstResource(item) \in Nat
         /\ FirstResource(item) # 0 =>
               /\ FirstResource(item) \in 1 .. Len(resources)
               /\ FirstResource(item) \in LiveRows(item.arn)
         /\ FirstResource(item) = 0 => LiveRows(item.arn) = {}
<1> DEFINE found == LiveRows(item.arn)
<1>1. CASE found = {}
  BY <1>1 DEF FirstResource
<1>2. CASE found # {}
  <2>1. /\ FirstResource(item) = CHOOSE r \in found : \A q \in found : r <= q
        /\ found \subseteq 1 .. Len(resources) /\ found \subseteq Nat
    <3>1. FirstResource(item) = CHOOSE r \in found : \A q \in found : r <= q
      BY <1>2 DEF FirstResource
    <3>2. found \subseteq DOMAIN resources /\ DOMAIN resources = 1 .. Len(resources)
      BY RowsAre DEF LiveRows
    <3> HIDE DEF found
    <3> QED BY <3>1, <3>2
  <2> HIDE DEF found
  <2>2. \E r \in found : \A q \in found : r <= q
    BY <1>2, <2>1, LeastOf
  <2>3. FirstResource(item) \in found
    BY <2>1, <2>2, Zenon
  <2>4. FirstResource(item) \in 1 .. Len(resources)
    BY <2>1, <2>3
  <2>5. FirstResource(item) \in Nat /\ FirstResource(item) # 0
    BY <2>4
  <2> QED BY <2>3, <2>4, <2>5 DEF found
<1> QED BY <1>1, <1>2

\* The configuration and the rows stay as they are, and request p goes on with another
\* resource, another row or another configuration.
LEMMA GoesTo ==
  ASSUME PutTyped, NEW p \in Puts, ~Waiting(p), NEW at \in Ats
  PROVE  /\ \A resource \in Nat :
               put' = [put EXCEPT ![p].at = at, ![p].resource = resource] =>
                  Goes(p, at, put[p].i, put[p].config, resource, put[p].row)
         /\ \A row \in Nat :
               put' = [put EXCEPT ![p].at = at, ![p].row = row] =>
                  Goes(p, at, put[p].i, put[p].config, put[p].resource, row)
         /\ \A config \in Buckets \union {NoConfig} :
               put' = [put EXCEPT ![p].config = config, ![p].at = at] =>
                  Goes(p, at, put[p].i, config, put[p].resource, put[p].row)
<1>1. PICK r \in Requests : r = put[p]
  BY ThisIs DEF Active
<1>2. /\ r.i \in Nat \ {0} /\ r.config \in Buckets \union {NoConfig} /\ r.resource \in Nat
      /\ r.row \in Nat /\ Active(p)
  BY <1>1 DEF Requests, Active
<1>3. ASSUME NEW resource \in Nat, put' = [put EXCEPT ![p].at = at, ![p].resource = resource]
      PROVE  Goes(p, at, r.i, r.config, resource, r.row)
  <2>1. put' = [put EXCEPT ![p] = [r EXCEPT !.at = at, !.i = r.i, !.config = r.config,
                                            !.resource = resource, !.row = r.row]]
    BY <1>1, <1>3 DEF PutTyped, Requests
  <2> QED BY <1>1, <1>2, <2>1, GoesOn
<1>4. ASSUME NEW row \in Nat, put' = [put EXCEPT ![p].at = at, ![p].row = row]
      PROVE  Goes(p, at, r.i, r.config, r.resource, row)
  <2>1. put' = [put EXCEPT ![p] = [r EXCEPT !.at = at, !.i = r.i, !.config = r.config,
                                            !.resource = r.resource, !.row = row]]
    BY <1>1, <1>4 DEF PutTyped, Requests
  <2> QED BY <1>1, <1>2, <2>1, GoesOn
<1>5. ASSUME NEW config \in Buckets \union {NoConfig},
             put' = [put EXCEPT ![p].config = config, ![p].at = at]
      PROVE  Goes(p, at, r.i, config, r.resource, r.row)
  <2>1. put' = [put EXCEPT ![p] = [r EXCEPT !.at = at, !.i = r.i, !.config = config,
                                            !.resource = r.resource, !.row = r.row]]
    BY <1>1, <1>5 DEF PutTyped, Requests
  <2> QED BY <1>1, <1>2, <2>1, GoesOn
<1> QED BY <1>1, <1>3, <1>4, <1>5

\* Request p has looked something up.
Looks(p) == ~Waiting(p) /\ UNCHANGED tables /\ mishaps \subseteq mishaps'

LEMMA ResolveDoes ==
  ASSUME TablesTyped, PutTyped, NEW p \in Puts, Resolve(p) \/ ResolveFails(p)
  PROVE  /\ Looks(p) /\ put[p].at = "resolve"
         /\ \/ /\ Goes(p, "save", put[p].i, put[p].config, FirstResource(ThisItem(p)), put[p].row)
               /\ FirstResource(ThisItem(p)) = 0 => "unresolved" \in mishaps'
            \/ Stops(p) /\ put'[p] = Idle /\ "unresolved" \in mishaps'
            \/ /\ Goes(p, "save", put[p].i, put[p].config, 0, put[p].row)
               /\ "fault" \in mishaps'
<1>1. CASE Resolve(p)
  <2>1. Looks(p) /\ put[p].at = "resolve"
    BY <1>1 DEF Resolve, At, Looks, Marks
  <2>2. CASE ThisItem(p).arn = Malformed
    <3>1. Answer(p, Idle) /\ "unresolved" \in mishaps'
      BY <1>1, <2>2 DEF Resolve, Marks
    <3> QED BY <2>1, <3>1, AnswerDoes
  <2>3. CASE ThisItem(p).arn # Malformed
    <3>1. PICK r : r = FirstResource(ThisItem(p)) /\ r \in Nat
      BY FirstResourceIs
    <3>2. /\ put' = [put EXCEPT ![p].at = "save", ![p].resource = r]
          /\ r = 0 => "unresolved" \in mishaps'
      BY <1>1, <2>3, <3>1 DEF Resolve, Marks, If
    <3>3. Goes(p, "save", put[p].i, put[p].config, r, put[p].row)
      BY <2>1, <3>1, <3>2, GoesTo DEF Looks, Ats
    <3> QED BY <2>1, <3>1, <3>2, <3>3
  <2> QED BY <2>2, <2>3
<1>2. CASE ResolveFails(p)
  <2>1. /\ Looks(p) /\ put[p].at = "resolve" /\ "fault" \in mishaps'
        /\ put' = [put EXCEPT ![p].at = "save", ![p].resource = 0]
    BY <1>2 DEF ResolveFails, At, Looks, Marks, Fault
  <2>2. Goes(p, "save", put[p].i, put[p].config, 0, put[p].row)
    BY <2>1, GoesTo DEF Looks, Ats
  <2> QED BY <2>1, <2>2
<1> QED BY <1>1, <1>2

LEMMA FindConfigDoes ==
  ASSUME PutTyped, NEW p \in Puts, FindConfig(p) \/ FindConfigFails(p)
  PROVE  /\ Looks(p) /\ put[p].at = "find"
         /\ \E at \in Ats :
               /\ at = IF put[p].body = <<>> THEN "delete" ELSE "resource"
               /\ \/ /\ configs[put[p].bucket] = "live"
                     /\ Goes(p, at, put[p].i, put[p].config, put[p].resource, put[p].row)
                  \/ /\ Goes(p, at, put[p].i, NoConfig, put[p].resource, put[p].row)
                     /\ "noConfig" \in mishaps'
<1>1. Looks(p) /\ put[p].at = "find"
  BY DEF FindConfig, FindConfigFails, At, Looks, Marks, Fault
<1>2. PICK at \in Ats : at = IF put[p].body = <<>> THEN "delete" ELSE "resource"
  BY DEF Ats
<1>3. PICK config \in Buckets \union {NoConfig} :
         /\ put' = [put EXCEPT ![p].config = config, ![p].at = at]
         /\ \/ config = put[p].config /\ configs[put[p].bucket] = "live"
            \/ config = NoConfig /\ "noConfig" \in mishaps'
  <2>1. put[p].config \in Buckets \union {NoConfig}
    BY <1>1, ThisIs DEF Looks
  <2>2. CASE FindConfig(p)
    <3>1. CASE configs[put[p].bucket] = "live"
      <4>1. put' = [put EXCEPT ![p].config = put[p].config, ![p].at = at]
        BY <1>2, <2>2, <3>1 DEF FindConfig, PutTyped
      <4> QED BY <2>1, <3>1, <4>1
    <3>2. CASE configs[put[p].bucket] # "live"
      <4>1. put' = [put EXCEPT ![p].config = NoConfig, ![p].at = at]
        BY <1>2, <2>2, <3>2 DEF FindConfig
      <4>2. "noConfig" \in mishaps'
        BY <2>2, <3>2 DEF FindConfig, Marks, If
      <4> QED BY <4>1, <4>2
    <3> QED BY <3>1, <3>2
  <2>3. CASE FindConfigFails(p)
    BY <1>2, <2>3 DEF FindConfigFails, Marks
  <2> QED BY <2>2, <2>3
<1>4. Goes(p, at, put[p].i, config, put[p].resource, put[p].row)
  BY <1>1, <1>3, GoesTo DEF Looks
<1> QED BY <1>1, <1>2, <1>3, <1>4

LEMMA FindResourceDoes ==
  ASSUME TablesTyped, PutTyped, NEW p \in Puts, FindResource(p) \/ FindResourceFails(p)
  PROVE  /\ Looks(p) /\ put[p].at = "resource"
         /\ \/ Stops(p) /\ put'[p] = Idle
            \/ /\ FirstResource(ThisItem(p)) # 0
               /\ Goes(p, "target", put[p].i, put[p].config, FirstResource(ThisItem(p)), put[p].row)
            \/ /\ Goes(p, "target", put[p].i, put[p].config, 0, put[p].row)
               /\ "fault" \in mishaps'
<1>1. Looks(p) /\ put[p].at = "resource"
  BY DEF FindResource, FindResourceFails, At, Looks, Marks, Fault
<1>2. CASE FindResource(p)
  <2>1. PICK r : r = FirstResource(ThisItem(p)) /\ r \in Nat
    BY FirstResourceIs
  <2>2. CASE r = 0
    <3>1. Answer(p, Idle)
      BY <1>2, <2>1, <2>2 DEF FindResource
    <3> QED BY <1>1, <3>1, AnswerDoes
  <2>3. CASE r # 0
    <3>1. put' = [put EXCEPT ![p].at = "target", ![p].resource = r]
      BY <1>2, <2>1, <2>3 DEF FindResource
    <3>2. Goes(p, "target", put[p].i, put[p].config, r, put[p].row)
      BY <1>1, <2>1, <3>1, GoesTo DEF Looks, Ats
    <3> QED BY <1>1, <2>1, <2>3, <3>2
  <2> QED BY <2>2, <2>3
<1>3. CASE FindResourceFails(p)
  <2>1. /\ put' = [put EXCEPT ![p].at = "target", ![p].resource = 0]
        /\ "fault" \in mishaps'
    BY <1>3 DEF FindResourceFails, Marks
  <2>2. Goes(p, "target", put[p].i, put[p].config, 0, put[p].row)
    BY <1>1, <2>1, GoesTo DEF Looks, Ats
  <2> QED BY <1>1, <2>1, <2>2
<1> QED BY <1>2, <1>3

LEMMA FindTargetDoes ==
  ASSUME TablesTyped, PutTyped, NEW p \in Puts, FindTarget(p) \/ FindTargetFails(p)
  PROVE  /\ Looks(p) /\ put[p].at = "target"
         /\ \/ /\ Goes(p, "update", put[p].i, put[p].config, put[p].resource, 0)
               /\ "fault" \in mishaps'
            \/ /\ ThisItem(p).ident = NoIdent => "anonymous" \in mishaps'
               /\ \/ /\ MatchingTargets(ThisItem(p), put[p].config) = {}
                     /\ Goes(p, "create", put[p].i, put[p].config, put[p].resource, 0)
                  \/ \E t \in MatchingTargets(ThisItem(p), put[p].config) :
                        t # 0 /\ Goes(p, "update", put[p].i, put[p].config, put[p].resource, t)
<1>1. Looks(p) /\ put[p].at = "target"
  BY DEF FindTarget, FindTargetFails, At, Looks, Marks, Fault
<1>2. CASE FindTarget(p)
  <2> DEFINE found == MatchingTargets(ThisItem(p), put[p].config)
  <2>1. ThisItem(p).ident = NoIdent => "anonymous" \in mishaps'
    BY <1>2 DEF FindTarget, Marks, If
  <2>2. CASE found = {}
    <3>1. put' = [put EXCEPT ![p].at = "create", ![p].row = 0]
      BY <1>2, <2>2 DEF FindTarget
    <3>2. Goes(p, "create", put[p].i, put[p].config, put[p].resource, 0)
      BY <1>1, <3>1, GoesTo DEF Looks, Ats
    <3> QED BY <1>1, <2>1, <2>2, <3>2
  <2>3. CASE found # {}
    <3>1. found \subseteq 1 .. Len(targets)
      BY RowsAre DEF MatchingTargets
    <3>2. PICK t : t = CHOOSE first \in found : \A u \in found : first <= u
      OBVIOUS
    <3>3. put' = [put EXCEPT ![p].at = "update", ![p].row = t]
      BY <1>2, <2>3, <3>2 DEF FindTarget
    <3> HIDE DEF found
    <3>4. \E least \in found : \A u \in found : least <= u
      <4>1. found \in SUBSET Nat
        BY <3>1
      <4> QED BY <2>3, <4>1, LeastOf
    <3>5. t \in found
      BY <3>2, <3>4, Zenon
    <3>6. t \in Nat /\ t # 0
      BY <3>1, <3>5
    <3>7. Goes(p, "update", put[p].i, put[p].config, put[p].resource, t)
      BY <1>1, <3>3, <3>6, GoesTo DEF Looks, Ats
    <3> QED BY <1>1, <2>1, <3>5, <3>6, <3>7 DEF found
  <2> QED BY <2>2, <2>3
<1>3. CASE FindTargetFails(p)
  <2>1. /\ put' = [put EXCEPT ![p].at = "update", ![p].row = 0]
        /\ "fault" \in mishaps'
    BY <1>3 DEF FindTargetFails, Marks
  <2>2. Goes(p, "update", put[p].i, put[p].config, put[p].resource, 0)
    BY <1>1, <2>1, GoesTo DEF Looks, Ats
  <2> QED BY <1>1, <2>1, <2>2
<1> QED BY <1>2, <1>3

\* The item is left as it is, because a write failed.
LEMMA SkipDoes ==
  ASSUME PutTyped, NEW p \in Puts, SaveResolvedFails(p) \/ WriteFails(p)
  PROVE  /\ Looks(p) /\ "fault" \in mishaps'
         /\ \E first \in Ats :
               /\ \/ put[p].at = "save" /\ first = "resolve"
                  \/ put[p].at \in {"create", "update"} /\ first = "resource"
               /\ \/ /\ put[p].i < Len(put[p].body)
                     /\ Goes(p, first, put[p].i + 1, put[p].config, 0, 0)
                  \/ put[p].i >= Len(put[p].body) /\ Stops(p)
<1>1. Looks(p) /\ "fault" \in mishaps'
  BY DEF SaveResolvedFails, WriteFails, At, Looks, Marks
<1>2. PICK first \in Ats : /\ NextItem(p, first)
                           /\ \/ put[p].at = "save" /\ first = "resolve"
                              \/ put[p].at \in {"create", "update"} /\ first = "resource"
  BY DEF SaveResolvedFails, WriteFails, At, Ats
<1> QED BY <1>1, <1>2, NextItemDoes DEF Looks

LEMMA DeleteFailsDoes ==
  ASSUME PutTyped, NEW p \in Puts, DeleteConfigFails(p)
  PROVE  Looks(p) /\ "fault" \in mishaps' /\ Stops(p)
<1>1. Looks(p) /\ "fault" \in mishaps' /\ Answer(p, Ok)
  BY DEF DeleteConfigFails, At, Looks, Marks
<1> QED BY <1>1, AnswerDoes

\* A new request: the others stay, and a race or a repeated Id is marked.
Begins(p, b, body, at, own) ==
    /\ Waiting(p) /\ PutTyped' /\ mishaps \subseteq mishaps'
    /\ \A q \in Puts \ {p} : put'[q] = put[q]
    /\ put'[p] \in Requests /\ put'[p].at = at /\ put'[p].bucket = b /\ put'[p].body = body
    /\ put'[p].i = 1 /\ put'[p].config = b /\ put'[p].own = own
    /\ Repeated(body) => "repeated" \in mishaps'
    /\ Racing(p, b) => "race" \in mishaps'

LEMMA RequestIs ==
  ASSUME PutTyped, NEW p \in Puts, NEW b \in Buckets, NEW body \in Bodies, NEW at \in Ats,
         NEW own \in Nat, Waiting(p), put' = [put EXCEPT ![p] = Request(at, b, body, own)],
         Marks(If(Repeated(body), "repeated") \union If(Racing(p, b), "race"))
  PROVE  Begins(p, b, body, at, own)
<1>1. PICK r : r = Request(at, b, body, own)
  OBVIOUS
<1>2. /\ r \in Requests /\ r.at = at /\ r.bucket = b /\ r.body = body /\ r.i = 1
      /\ r.config = b /\ r.own = own
  BY <1>1 DEF Request, Requests
<1>3. PutTyped' /\ put'[p] = r /\ \A q \in Puts \ {p} : put'[q] = put[q]
  BY <1>1, <1>2, BeginsDoes
<1>4. mishaps \subseteq mishaps'
      /\ (Repeated(body) => "repeated" \in mishaps') /\ (Racing(p, b) => "race" \in mishaps')
  BY DEF Marks, If
<1> QED BY <1>2, <1>3, <1>4 DEF Begins

LEMMA ConfigExistsDoes ==
  ASSUME TablesTyped, PutTyped, NEW p \in Puts, NEW b \in Buckets, NEW body \in Bodies,
         ConfigExists(p, b, body)
  PROVE  Begins(p, b, body, "find", Len(targets)) /\ UNCHANGED tables /\ configs[b] # "none"
<1>1. /\ Waiting(p) /\ put' = [put EXCEPT ![p] = Request("find", b, body, Len(targets))]
      /\ Marks(If(Repeated(body), "repeated") \union If(Racing(p, b), "race"))
      /\ UNCHANGED tables /\ configs[b] # "none"
  BY DEF ConfigExists, Begin
<1>2. Len(targets) \in Nat
  BY RowsAre
<1> QED BY <1>1, <1>2, RequestIs DEF Ats

LEMMA CreateFailsDoes ==
  ASSUME PutTyped, NEW p \in Puts, NEW b \in Buckets, NEW body \in Bodies,
         CreateConfigFails(p, b, body)
  PROVE  Waiting(p) /\ UNCHANGED tables /\ Stops(p) /\ mishaps \subseteq mishaps'
         /\ "fault" \in mishaps'
<1>1. Waiting(p) /\ UNCHANGED tables /\ Answer(p, Ok) /\ mishaps' = mishaps \union {"fault"}
  BY DEF CreateConfigFails, Begin, Marks
<1> QED BY <1>1, AnswerDoes

LEMMA FunctionIsSeq ==
  ASSUME NEW T, NEW n \in Nat, NEW f \in [1 .. n -> T]
  PROVE  f \in Seq(T) /\ Len(f) = n
<1>1. f \in Seq(T)
  BY SeqDef
<1>2. 1 .. Len(f) = 1 .. n /\ Len(f) \in Nat
  BY <1>1, LenProperties
<1> QED BY <1>1, <1>2

\* What stands in a sequence and another behind it.
LEMMA PutTogether ==
  ASSUME NEW T, NEW x \in Seq(T), NEW y \in Seq(T), NEW m, m = Len(x), NEW n, n = Len(y)
  PROVE  /\ x \o y \in Seq(T) /\ Len(x \o y) = m + n
         /\ \A i \in 1 .. m : (x \o y)[i] = x[i]
         /\ \A i \in 1 .. n : (x \o y)[m + i] = y[i]
<1>1. m \in Nat /\ n \in Nat
  BY LenProperties
<1>2. /\ x \o y \in Seq(T) /\ Len(x \o y) = m + n
      /\ \A i \in 1 .. m + n : (x \o y)[i] = IF i <= m THEN x[i] ELSE y[i - m]
  BY ConcatProperties
<1>3. ASSUME NEW i \in 1 .. n PROVE (x \o y)[m + i] = y[i]
  <2>1. PICK j \in 1 .. m + n : j = m + i /\ j - m = i /\ ~(j <= m)
    BY <1>1
  <2> QED BY <1>2, <2>1
<1> QED BY <1>1, <1>2, <1>3

\* Rows are added behind the others.
Adds(n) ==
    /\ UNCHANGED resources /\ Len(targets') = Len(targets) + n
    /\ \A t \in 1 .. Len(targets) : targets'[t] = targets[t]

LEMMA CreateConfigDoes ==
  ASSUME TablesTyped, PutTyped, NEW p \in Puts, NEW b \in Buckets, NEW body \in Bodies,
         CreateConfig(p, b, body)
  PROVE  /\ TablesTyped' /\ Adds(Len(body)) /\ configs[b] = "none" /\ configs'[b] = "live"
         /\ \A c \in Buckets \ {b} : configs'[c] = configs[c]
         /\ \A j \in 1 .. Len(body) : targets'[Len(targets) + j] = NewTarget(body[j], b, 0)
         /\ \/ body = <<>> /\ Stops(p) /\ Waiting(p) /\ mishaps \subseteq mishaps'
            \/ body # <<>> /\ Begins(p, b, body, "resolve", Len(targets))
<1>1. PICK m \in Nat, n \in Nat : m = Len(targets) /\ n = Len(body)
  BY RowsAre, BodyIs
<1> DEFINE new == [j \in DOMAIN body |-> NewTarget(body[j], b, 0)]
<1>2. new \in [1 .. n -> TargetRows] /\ \A j \in 1 .. n : new[j] = NewTarget(body[j], b, 0)
  BY <1>1, BodyIs DEF NewTarget, TargetRows
<1>3. /\ Waiting(p) /\ targets' = targets \o new /\ configs[b] = "none" /\ UNCHANGED resources
      /\ configs' = [configs EXCEPT ![b] = "live"]
      /\ Marks(If(Repeated(body), "repeated") \union If(Racing(p, b), "race"))
  BY DEF CreateConfig, Begin
<1> HIDE DEF new
<1>4. new \in Seq(TargetRows) /\ n = Len(new) /\ targets \in Seq(TargetRows)
  BY <1>2, FunctionIsSeq DEF TablesTyped
<1>5. /\ targets' \in Seq(TargetRows) /\ Len(targets') = m + n
      /\ \A i \in 1 .. m : targets'[i] = targets[i]
      /\ \A i \in 1 .. n : targets'[m + i] = new[i]
  BY <1>1, <1>3, <1>4, PutTogether
<1>6. TablesTyped' /\ configs'[b] = "live" /\ \A c \in Buckets \ {b} : configs'[c] = configs[c]
  BY <1>3, <1>5 DEF TablesTyped
<1>7. CASE body = <<>>
  <2>1. Answer(p, Ok)
    BY <1>7 DEF CreateConfig
  <2>2. Stops(p) /\ mishaps \subseteq mishaps'
    BY <1>3, <2>1, AnswerDoes DEF Marks
  <2> QED BY <1>1, <1>2, <1>3, <1>5, <1>6, <1>7, <2>2 DEF Adds
<1>8. CASE body # <<>>
  <2>1. put' = [put EXCEPT ![p] = Request("resolve", b, body, m)]
    BY <1>1, <1>8 DEF CreateConfig
  <2>2. Begins(p, b, body, "resolve", m)
    BY <1>3, <2>1, RequestIs DEF Ats
  <2> QED BY <1>1, <1>2, <1>3, <1>5, <1>6, <1>8, <2>2 DEF Adds
<1> QED BY <1>7, <1>8

LEMMA RowIsWritten ==
  ASSUME TablesTyped, NEW t \in 1 .. Len(targets), NEW row \in TargetRows,
         targets' = [targets EXCEPT ![t] = row], UNCHANGED <<configs, resources>>
  PROVE  /\ TablesTyped' /\ Len(targets') = Len(targets) /\ targets'[t] = row
         /\ \A u \in 1 .. Len(targets) : u # t => targets'[u] = targets[u]
<1>1. /\ targets' \in Seq(TargetRows) /\ Len(targets') = Len(targets)
      /\ \A u \in 1 .. Len(targets) : targets'[u] = IF u = t THEN row ELSE targets[u]
  BY ExceptSeq DEF TablesTyped
<1> QED BY <1>1 DEF TablesTyped

LEMMA RowIsAdded ==
  ASSUME TablesTyped, NEW row \in TargetRows, targets' = Append(targets, row),
         UNCHANGED <<configs, resources>>
  PROVE  TablesTyped' /\ Adds(1) /\ targets'[Len(targets) + 1] = row
<1>1. /\ targets' \in Seq(TargetRows) /\ Len(targets') = Len(targets) + 1
      /\ \A u \in 1 .. Len(targets) : targets'[u] = targets[u]
      /\ targets'[Len(targets) + 1] = row
  BY AppendProperties DEF TablesTyped
<1> QED BY <1>1 DEF TablesTyped, Adds

\* The item that a request is at.
LEMMA ItemIs ==
  ASSUME PutTyped, NEW p \in Puts, ~Waiting(p), RequestFits(put[p]), put[p].at # "delete",
         put[p].at # "find"
  PROVE  /\ put[p].i \in 1 .. Len(put[p].body) /\ Len(put[p].body) \in Nat
         /\ ThisItem(p).kind \in Kinds /\ ThisItem(p).ident \in Idents \union {NoIdent}
         /\ ThisItem(p).arn \in Arns \union {Malformed} /\ ThisItem(p).rule \in Rules
<1>1. put[p].body \in Bodies /\ put[p].body # <<>>
  BY ThisIs DEF RequestFits
<1>2. put[p].i \in 1 .. Len(put[p].body)
  BY <1>1 DEF RequestFits
<1> QED BY <1>1, <1>2, BodyIs DEF ThisItem

\* Request p has written its item: the next one, or the end.
Moves(p, first) ==
    \/ put[p].i < Len(put[p].body) /\ Goes(p, first, put[p].i + 1, put[p].config, 0, 0)
    \/ put[p].i >= Len(put[p].body) /\ Stops(p) /\ put'[p] = Ok

\* Row t is the item's, with its name, and bound to the resource that was found.
Binds(p, t) ==
    /\ t \in 1 .. Len(targets')
    /\ targets'[t].kind = ThisItem(p).kind
    /\ targets'[t].arn = ThisItem(p).arn /\ targets'[t].resource = put[p].resource

LEMMA SaveResolvedDoes ==
  ASSUME TablesInv, NEW p \in Puts, SaveResolved(p)
  PROVE  /\ ~Waiting(p) /\ put[p].at = "save" /\ UNCHANGED <<configs, resources, mishaps>>
         /\ TablesTyped' /\ Moves(p, "resolve") /\ Len(targets') = Len(targets)
         /\ \E t \in 1 .. Len(targets) :
               /\ t = put[p].own + put[p].i /\ Binds(p, t)
               /\ targets'[t].ident = ThisItem(p).ident /\ targets'[t].rule = ThisItem(p).rule
               /\ targets'[t].config = put[p].bucket
               /\ \A u \in 1 .. Len(targets) : u # t => targets'[u] = targets[u]
<1>1. /\ ~Waiting(p) /\ put[p].at = "save" /\ UNCHANGED <<configs, resources, mishaps>>
      /\ NextItem(p, "resolve")
  BY DEF SaveResolved, At
<1>2. Moves(p, "resolve")
  BY <1>1, NextItemDoes DEF Ats, Moves, TablesInv
<1>3. RequestFits(put[p]) /\ put[p].own \in Nat /\ put[p].bucket \in Buckets
      /\ put[p].resource \in Nat
  BY <1>1, ThisIs DEF TablesInv
<1>4. /\ put[p].i \in 1 .. Len(put[p].body) /\ Len(put[p].body) \in Nat
      /\ ThisItem(p).kind \in Kinds /\ ThisItem(p).ident \in Idents \union {NoIdent}
      /\ ThisItem(p).arn \in Arns \union {Malformed} /\ ThisItem(p).rule \in Rules
  BY <1>1, <1>3, ItemIs DEF TablesInv
<1>5. put[p].own + Len(put[p].body) <= Len(targets) /\ Len(targets) \in Nat
  BY <1>1, <1>3, RowsAre DEF RequestFits, OwnsRows, TablesInv
<1>6. PICK t \in 1 .. Len(targets) : t = put[p].own + put[p].i
  BY <1>3, <1>4, <1>5
<1>7. PICK row : row = NewTarget(ThisItem(p), put[p].bucket, put[p].resource)
  OBVIOUS
<1>8. /\ row \in TargetRows /\ row.kind = ThisItem(p).kind /\ row.ident = ThisItem(p).ident
      /\ row.arn = ThisItem(p).arn /\ row.rule = ThisItem(p).rule
      /\ row.config = put[p].bucket /\ row.resource = put[p].resource
  BY <1>3, <1>4, <1>7 DEF NewTarget, TargetRows
<1>9. targets' = [targets EXCEPT ![t] = row]
  BY <1>6, <1>7 DEF SaveResolved, SaveRow
<1>10. /\ TablesTyped' /\ Len(targets') = Len(targets) /\ targets'[t] = row
       /\ \A u \in 1 .. Len(targets) : u # t => targets'[u] = targets[u]
  BY <1>1, <1>8, <1>9, RowIsWritten DEF TablesInv
<1>11. Binds(p, t)
  BY <1>8, <1>10 DEF Binds
<1> QED BY <1>1, <1>2, <1>6, <1>8, <1>10, <1>11

LEMMA CreateTargetDoes ==
  ASSUME TablesInv, NEW p \in Puts, CreateTarget(p)
  PROVE  /\ ~Waiting(p) /\ put[p].at = "create" /\ UNCHANGED <<configs, resources, mishaps>>
         /\ TablesTyped' /\ Moves(p, "resource") /\ Adds(1) /\ Binds(p, Len(targets) + 1)
         /\ targets'[Len(targets) + 1].ident = ThisItem(p).ident
         /\ targets'[Len(targets) + 1].rule = ThisItem(p).rule
         /\ targets'[Len(targets) + 1].config = put[p].config
<1>1. /\ ~Waiting(p) /\ put[p].at = "create" /\ UNCHANGED <<configs, resources, mishaps>>
      /\ NextItem(p, "resource")
  BY DEF CreateTarget, At
<1>2. Moves(p, "resource")
  BY <1>1, NextItemDoes DEF Ats, Moves, TablesInv
<1>3. RequestFits(put[p]) /\ put[p].config \in Buckets \union {NoConfig}
      /\ put[p].resource \in Nat
  BY <1>1, ThisIs DEF TablesInv
<1>4. /\ ThisItem(p).kind \in Kinds /\ ThisItem(p).ident \in Idents \union {NoIdent}
      /\ ThisItem(p).arn \in Arns \union {Malformed} /\ ThisItem(p).rule \in Rules
  BY <1>1, <1>3, ItemIs DEF TablesInv
<1>5. PICK row : row = NewTarget(ThisItem(p), put[p].config, put[p].resource)
  OBVIOUS
<1>6. /\ row \in TargetRows /\ row.kind = ThisItem(p).kind /\ row.ident = ThisItem(p).ident
      /\ row.arn = ThisItem(p).arn /\ row.rule = ThisItem(p).rule
      /\ row.config = put[p].config /\ row.resource = put[p].resource
  BY <1>3, <1>4, <1>5 DEF NewTarget, TargetRows
<1>7. targets' = Append(targets, row)
  BY <1>5 DEF CreateTarget
<1>8. TablesTyped' /\ Adds(1) /\ targets'[Len(targets) + 1] = row
  BY <1>1, <1>6, <1>7, RowIsAdded DEF TablesInv
<1>9. Len(targets) + 1 \in 1 .. Len(targets')
  BY <1>8, RowsAre DEF Adds, TablesInv
<1> QED BY <1>1, <1>2, <1>6, <1>8, <1>9 DEF Binds

LEMMA UpdateTargetDoes ==
  ASSUME TablesInv, NEW p \in Puts, UpdateTarget(p)
  PROVE  /\ ~Waiting(p) /\ put[p].at = "update" /\ UNCHANGED <<configs, resources, mishaps>>
         /\ TablesTyped' /\ Moves(p, "resource")
         /\ \/ /\ put[p].row = 0 /\ Adds(1) /\ Binds(p, Len(targets) + 1)
               /\ targets'[Len(targets) + 1].ident = NoIdent
               /\ targets'[Len(targets) + 1].rule = NoRule
               /\ targets'[Len(targets) + 1].config = NoConfig
            \/ /\ put[p].row # 0 /\ put[p].row \in 1 .. Len(targets) /\ Binds(p, put[p].row)
               /\ Len(targets') = Len(targets)
               /\ targets'[put[p].row].ident = targets[put[p].row].ident
               /\ targets'[put[p].row].rule = targets[put[p].row].rule
               /\ targets'[put[p].row].kind = targets[put[p].row].kind
               /\ targets'[put[p].row].config = targets[put[p].row].config
               /\ \A u \in 1 .. Len(targets) : u # put[p].row => targets'[u] = targets[u]
<1>1. /\ ~Waiting(p) /\ put[p].at = "update" /\ UNCHANGED <<configs, resources, mishaps>>
      /\ NextItem(p, "resource")
  BY DEF UpdateTarget, At
<1>2. Moves(p, "resource")
  BY <1>1, NextItemDoes DEF Ats, Moves, TablesInv
<1>3. RequestFits(put[p]) /\ put[p].resource \in Nat
  BY <1>1, ThisIs DEF TablesInv
<1>4. /\ ThisItem(p).kind \in Kinds /\ ThisItem(p).ident \in Idents \union {NoIdent}
      /\ ThisItem(p).arn \in Arns \union {Malformed}
  BY <1>1, <1>3, ItemIs DEF TablesInv
<1>5. CASE put[p].row = 0
  <2>1. PICK row : row = [NewTarget(ThisItem(p), NoConfig, put[p].resource)
                             EXCEPT !.ident = NoIdent, !.rule = NoRule]
    OBVIOUS
  <2>2. /\ row \in TargetRows /\ row.kind = ThisItem(p).kind /\ row.ident = NoIdent
        /\ row.arn = ThisItem(p).arn /\ row.rule = NoRule
        /\ row.config = NoConfig /\ row.resource = put[p].resource
    BY <1>3, <1>4, <2>1 DEF NewTarget, TargetRows
  <2>3. targets' = Append(targets, row)
    BY <1>5, <2>1 DEF UpdateTarget
  <2>4. TablesTyped' /\ Adds(1) /\ targets'[Len(targets) + 1] = row
    BY <1>1, <2>2, <2>3, RowIsAdded DEF TablesInv
  <2>5. Len(targets) + 1 \in 1 .. Len(targets')
    BY <2>4, RowsAre DEF Adds, TablesInv
  <2> QED BY <1>1, <1>2, <1>5, <2>2, <2>4, <2>5 DEF Binds
<1>6. CASE put[p].row # 0
  <2>1. PICK t \in 1 .. Len(targets) : t = put[p].row /\ targets[t].kind = ThisItem(p).kind
    BY <1>1, <1>3, <1>6 DEF RequestFits, FindsMatching, ThisItem
  <2>2. PICK old \in TargetRows : old = targets[t]
    BY <2>1, RowsAre DEF TablesInv
  <2>3. PICK row : row = [old EXCEPT !.arn = ThisItem(p).arn, !.resource = put[p].resource]
    OBVIOUS
  <2>4. /\ row \in TargetRows /\ row.kind = old.kind /\ row.ident = old.ident
        /\ row.arn = ThisItem(p).arn /\ row.rule = old.rule
        /\ row.config = old.config /\ row.resource = put[p].resource
    BY <1>3, <1>4, <2>3 DEF TargetRows
  <2>5. targets' = [targets EXCEPT ![t] = row]
    <3>1. targets' = [targets EXCEPT ![t].arn = ThisItem(p).arn,
                                     ![t].resource = put[p].resource]
      BY <1>6, <2>1 DEF UpdateTarget
    <3>2. t \in DOMAIN targets /\ targets = [u \in DOMAIN targets |-> targets[u]]
      BY <2>1, RowsAre DEF TablesInv, TablesTyped
    <3> QED BY <2>2, <2>3, <3>1, <3>2 DEF TargetRows
  <2>6. /\ TablesTyped' /\ Len(targets') = Len(targets) /\ targets'[t] = row
        /\ \A u \in 1 .. Len(targets) : u # t => targets'[u] = targets[u]
    BY <1>1, <2>4, <2>5, RowIsWritten DEF TablesInv
  <2>7. Binds(p, t)
    BY <2>1, <2>2, <2>4, <2>6 DEF Binds
  <2> QED BY <1>1, <1>2, <1>6, <2>1, <2>2, <2>4, <2>6, <2>7
<1> QED BY <1>5, <1>6

LEMMA DeleteConfigDoes ==
  ASSUME TablesInv, NEW p \in Puts, DeleteConfig(p)
  PROVE  /\ ~Waiting(p) /\ put[p].at = "delete" /\ UNCHANGED <<targets, resources, mishaps>>
         /\ TablesTyped' /\ Stops(p) /\ put'[p] = Ok
         /\ \A b \in Buckets :
               configs'[b] = IF configs[b] = "live" /\ (put[p].config = NoConfig \/ put[p].config = b)
                             THEN "deleted" ELSE configs[b]
<1>1. /\ ~Waiting(p) /\ put[p].at = "delete" /\ UNCHANGED <<targets, resources, mishaps>>
      /\ Answer(p, Ok)
      /\ configs' = [b \in Buckets |-> IF configs[b] = "live" /\ b \in DeletedBy(put[p].config)
                                       THEN "deleted" ELSE configs[b]]
  BY DEF DeleteConfig, At
<1>2. Stops(p) /\ put'[p] = Ok
  BY <1>1, AnswerDoes DEF TablesInv
<1>3. \A b \in Buckets : b \in DeletedBy(put[p].config) <=> put[p].config = NoConfig \/ put[p].config = b
  BY NothingAssumption DEF DeletedBy
<1>4. TablesTyped'
  BY <1>1 DEF TablesInv, TablesTyped
<1> QED BY <1>1, <1>2, <1>3, <1>4

\* Every request that was under way is gone.
LEMMA RestartDoes ==
  ASSUME TablesInv, Restart
  PROVE  /\ PutTyped' /\ UNCHANGED tables /\ mishaps \subseteq mishaps' /\ "fault" \in mishaps'
         /\ \A p \in Puts : put'[p] \in {Idle, Ok}
<1>1. /\ UNCHANGED tables /\ mishaps' = mishaps \union {"fault"}
      /\ put' = [p \in Puts |-> IF Waiting(p) THEN put[p] ELSE Idle]
  BY DEF Restart, Marks
<1>2. \A p \in Puts : put'[p] \in {Idle, Ok}
  BY <1>1 DEF Waiting
<1> QED BY <1>1, <1>2 DEF PutTyped

LEMMA CreateResourceDoes ==
  ASSUME TablesInv, NEW arn \in Arns, CreateResource(arn)
  PROVE  /\ UNCHANGED <<configs, targets, put>> /\ TablesTyped' /\ mishaps \subseteq mishaps'
         /\ Len(resources') = Len(resources) + 1 /\ LiveRows(arn) = {}
         /\ \A r \in 1 .. Len(resources) : resources'[r] = resources[r]
         /\ resources'[Len(resources) + 1].arn = arn
         /\ resources'[Len(resources) + 1].live
         /\ \/ "recreated" \in mishaps'
            \/ \A r \in 1 .. Len(resources) : resources[r].arn # arn
<1>1. PICK row \in ResourceRows : row = [arn |-> arn, live |-> TRUE]
  BY DEF ResourceRows
<1>2. row.arn = arn /\ row.live
  BY <1>1
<1>3. /\ UNCHANGED <<configs, targets, put>> /\ resources' = Append(resources, row)
      /\ LiveRows(arn) = {}
  BY <1>1 DEF CreateResource
<1>4. /\ resources' \in Seq(ResourceRows) /\ Len(resources') = Len(resources) + 1
      /\ \A r \in 1 .. Len(resources) : resources'[r] = resources[r]
      /\ resources'[Len(resources) + 1] = row
  BY <1>3, AppendProperties DEF TablesInv, TablesTyped
<1>5. mishaps \subseteq mishaps'
      /\ \/ "recreated" \in mishaps'
         \/ \A r \in 1 .. Len(resources) : resources[r].arn # arn
  BY RowsAre DEF CreateResource, TablesInv
<1>6. TablesTyped'
  BY <1>3, <1>4 DEF TablesInv, TablesTyped
<1> QED BY <1>2, <1>3, <1>4, <1>5, <1>6

LEMMA DeleteResourceDoes ==
  ASSUME TablesInv, NEW r \in DOMAIN resources, DeleteResource(r)
  PROVE  /\ UNCHANGED <<configs, targets, put, mishaps>> /\ TablesTyped'
         /\ Len(resources') = Len(resources)
         /\ \A q \in 1 .. Len(resources) :
               /\ resources'[q].arn = resources[q].arn
               /\ resources'[q].live => resources[q].live
<1>1. r \in 1 .. Len(resources)
  BY RowsAre DEF TablesInv
<1>2. PICK old \in ResourceRows : old = resources[r]
  BY <1>1, RowsAre DEF TablesInv
<1>3. PICK row : row = [old EXCEPT !.live = FALSE]
  OBVIOUS
<1>4. row \in ResourceRows /\ row.arn = old.arn /\ ~row.live
  BY <1>3 DEF ResourceRows
<1>5. resources' = [resources EXCEPT ![r] = row] /\ UNCHANGED <<configs, targets, put, mishaps>>
  BY <1>2, <1>3 DEF DeleteResource
<1>6. /\ resources' \in Seq(ResourceRows) /\ Len(resources') = Len(resources)
      /\ \A q \in 1 .. Len(resources) : resources'[q] = IF q = r THEN row ELSE resources[q]
  BY <1>1, <1>4, <1>5, ExceptSeq DEF TablesInv, TablesTyped
<1>7. \A q \in 1 .. Len(resources) :
         /\ resources'[q].arn = resources[q].arn
         /\ resources'[q].live => resources[q].live
  <2>1. TAKE q \in 1 .. Len(resources)
  <2>2. CASE q = r
    BY <1>2, <1>4, <1>6, <2>2
  <2>3. CASE q # r
    BY <1>6, <2>3
  <2> QED BY <2>2, <2>3
<1>8. TablesTyped'
  BY <1>5, <1>6 DEF TablesInv, TablesTyped
<1> QED BY <1>5, <1>6, <1>7, <1>8

-----------------------------------------------------------------------------
(* The rows and the requests fit together, always. *)

LEMMA StopKeepsInv ==
  ASSUME TablesInv, TablesTyped', TargetsFit', Keeps, NEW p \in Puts, Stops(p)
  PROVE  TablesInv'
<1>1. PutTyped' /\ ~Active(p)' /\ \A q \in Puts \ {p} : put'[q] = put[q]
  BY ActiveAfter DEF Stops
<1> QED BY <1>1, StepKeepsInv

LEMMA GoKeepsInv ==
  ASSUME TablesInv, TablesTyped', TargetsFit', Keeps, NEW p \in Puts, ~Waiting(p),
         NEW at \in Ats, NEW i \in Nat \ {0}, NEW config \in Buckets \union {NoConfig},
         NEW resource \in Nat, NEW row \in Nat, Goes(p, at, i, config, resource, row),
         \/ config = put[p].config
         \/ config = NoConfig /\ "noConfig" \in mishaps' /\ at \notin {"resolve", "save"},
         at # "find", at \in {"resolve", "save"} => put[p].at \in {"resolve", "save"},
         at = "delete" <=> put[p].body = <<>>,
         put[p].body # <<>> => i \in 1 .. Len(put[p].body),
         FindsNamed(put[p])', FindsMatching(put[p])'
  PROVE  TablesInv'
<1>1. PICK r \in Requests, s \in Requests : r = put[p] /\ s = put'[p]
  BY ThisIs DEF TablesInv, Active, Goes
<1>2. /\ s.at = at /\ s.bucket = r.bucket /\ s.body = r.body /\ s.own = r.own /\ s.i = i
      /\ s.config = config /\ s.resource = resource /\ s.row = row
      /\ PutTyped' /\ \A q \in Puts \ {p} : put'[q] = put[q]
  BY <1>1 DEF Goes
<1>3. RequestFits(r) /\ r.bucket \in Buckets /\ r.body \in Bodies /\ r.own \in Nat
  BY <1>1, ThisIs DEF TablesInv
<1>4. configs'[r.bucket] # "none"
  BY <1>3 DEF RequestFits, Keeps
<1>5. OwnsRows(s)'
  <2>1. SUFFICES ASSUME s.at \in {"resolve", "save"} PROVE OwnsRows(s)'
    BY DEF OwnsRows
  <2>2. /\ r.own + Len(r.body) <= Len(targets)
        /\ \A j \in 1 .. Len(r.body) :
              /\ targets[r.own + j].kind = r.body[j].kind
              /\ targets[r.own + j].ident = r.body[j].ident
              /\ targets[r.own + j].rule = r.body[j].rule
              /\ targets[r.own + j].config = r.bucket
    BY <1>1, <1>2, <1>3, <2>1 DEF RequestFits, OwnsRows
  <2>3. PICK m \in Nat, n \in Nat, k \in Nat : m = Len(targets) /\ n = Len(r.body) /\ k = Len(targets')
    BY <1>3, BodyIs, LenProperties DEF TablesInv, TablesTyped
  <2>4. \A j \in 1 .. n : r.own + j \in 1 .. m
    BY <1>3, <2>2, <2>3
  <2>5. r.own + n <= k
    <3>1. PICK own \in Nat : own = r.own
      BY <1>3
    <3>2. m <= k /\ own + n <= m
      BY <2>2, <2>3, <3>1 DEF Keeps
    <3>3. own + n <= k
      BY ONLY <3>2, m \in Nat, n \in Nat, k \in Nat, own \in Nat
    <3> QED BY <3>1, <3>3
  <2>6. ASSUME NEW j \in 1 .. n
        PROVE  /\ targets'[r.own + j].kind = r.body[j].kind
               /\ targets'[r.own + j].ident = r.body[j].ident
               /\ targets'[r.own + j].rule = r.body[j].rule
               /\ targets'[r.own + j].config = r.bucket
    BY <2>2, <2>3, <2>4, <2>6 DEF Keeps
  <2> QED BY <1>2, <2>3, <2>5, <2>6 DEF OwnsRows
<1>6. r.config = r.bucket \/ (r.config = NoConfig /\ "noConfig" \in mishaps')
  BY <1>3 DEF RequestFits, Keeps
<1>7. s.at \in {"resolve", "save"} => s.config = r.bucket
  BY <1>1, <1>2, <1>3 DEF RequestFits
<1>8. s.own <= Len(targets')
  <2>1. PICK m \in Nat, k \in Nat, own \in Nat : m = Len(targets) /\ k = Len(targets') /\ own = r.own
    BY <1>3, LenProperties DEF TablesInv, TablesTyped
  <2>2. own <= m /\ m <= k
    BY <1>3, <2>1 DEF RequestFits, Keeps
  <2>3. own <= k
    BY ONLY <2>2, m \in Nat, k \in Nat, own \in Nat
  <2> QED BY <1>2, <2>1, <2>3
<1>9. RequestFits(s)'
  BY <1>1, <1>2, <1>3, <1>4, <1>5, <1>6, <1>7, <1>8 DEF RequestFits
<1> QED BY <1>1, <1>2, <1>9, StepKeepsInv

\* What a request knows of its item holds for the next one, for it knows nothing of that.
LEMMA MoveKeepsInv ==
  ASSUME TablesInv, TablesTyped', TargetsFit', Keeps, NEW p \in Puts, ~Waiting(p),
         NEW first \in Ats, Moves(p, first),
         \/ put[p].at = "save" /\ first = "resolve"
         \/ put[p].at \in {"create", "update"} /\ first = "resource"
  PROVE  TablesInv'
<1>1. CASE Stops(p)
  BY <1>1, StopKeepsInv
<1>2. CASE put[p].i < Len(put[p].body) /\ Goes(p, first, put[p].i + 1, put[p].config, 0, 0)
  <2>1. /\ put[p].i \in Nat \ {0} /\ put[p].body \in Bodies
        /\ put[p].config \in Buckets \union {NoConfig} /\ RequestFits(put[p])
    BY ThisIs DEF TablesInv
  <2>2. put[p].i + 1 \in Nat \ {0} /\ put[p].i + 1 \in 1 .. Len(put[p].body)
    BY <1>2, <2>1, BodyIs
  <2>3. put[p].body # <<>>
    BY <2>1 DEF RequestFits
  <2>4. FindsNamed(put[p])' /\ FindsMatching(put[p])'
    BY <1>2 DEF FindsNamed, FindsMatching, Goes
  <2>5. 0 \in Nat
    OBVIOUS
  <2> QED BY <1>2, <2>1, <2>2, <2>3, <2>4, <2>5, GoKeepsInv
<1> QED BY <1>1, <1>2 DEF Moves

LEMMA LookupsKeepInv ==
  ASSUME TablesInv, NEW p \in Puts,
         \/ Resolve(p) \/ ResolveFails(p) \/ FindConfig(p) \/ FindConfigFails(p)
         \/ FindResource(p) \/ FindResourceFails(p)
         \/ FindTarget(p) \/ FindTargetFails(p)
  PROVE  TablesInv' /\ Keeps
<1>1. Looks(p)
  BY ResolveDoes, FindConfigDoes, FindResourceDoes, FindTargetDoes DEF TablesInv
<1>2. /\ TablesTyped' /\ TargetsFit' /\ Keeps
  BY <1>1, TablesStay DEF Looks
<1>3. CASE Stops(p)
  BY <1>2, <1>3, StopKeepsInv
<1> SUFFICES ASSUME ~Stops(p) PROVE TablesInv' /\ Keeps
  BY <1>2, <1>3
<1>4. PICK r \in Requests : r = put[p]
  BY <1>1, ThisIs DEF TablesInv, Active, Looks
<1>5. /\ RequestFits(r) /\ r.i \in Nat \ {0} /\ r.config \in Buckets \union {NoConfig}
      /\ r.resource \in Nat /\ r.row \in Nat /\ r.body \in Bodies /\ ~Waiting(p)
      /\ r.body # <<>> => r.i \in 1 .. Len(r.body)
  BY <1>1, <1>4, ThisIs DEF TablesInv, Looks, RequestFits
<1>6. PICK x : x = FirstResource(r.body[r.i])
  OBVIOUS
<1>7. /\ x \in Nat
      /\ x # 0 => /\ x \in 1 .. Len(resources')
                  /\ resources'[x].arn = r.body[r.i].arn
  <2>1. /\ x \in Nat
        /\ x # 0 => x \in 1 .. Len(resources) /\ x \in LiveRows(r.body[r.i].arn)
    BY <1>6, FirstResourceIs DEF TablesInv
  <2>2. resources' = resources
    BY <1>1 DEF Looks, tables
  <2> QED BY <2>1, <2>2 DEF LiveRows
<1>8. ThisItem(p) = r.body[r.i]
  BY <1>4 DEF ThisItem
<1>9. CASE Resolve(p) \/ ResolveFails(p)
  <2>1. PICK found \in {0, x} : r.at = "resolve" /\ Goes(p, "save", r.i, r.config, found, r.row)
    BY <1>4, <1>6, <1>8, <1>9, ResolveDoes DEF TablesInv
  <2>2. FindsNamed(put[p])' /\ FindsMatching(put[p])'
    BY <1>4, <1>7, <2>1 DEF FindsNamed, FindsMatching, Goes
  <2>3. found \in Nat /\ r.body # <<>>
    BY <1>5, <1>7, <2>1 DEF RequestFits
  <2> QED BY <1>2, <1>4, <1>5, <2>1, <2>2, <2>3, GoKeepsInv DEF Ats
<1>10. CASE FindConfig(p) \/ FindConfigFails(p)
  <2>1. PICK at \in Ats, config \in {r.config, NoConfig} :
           /\ r.at = "find" /\ Goes(p, at, r.i, config, r.resource, r.row)
           /\ at = IF r.body = <<>> THEN "delete" ELSE "resource"
           /\ config = r.config \/ (config = NoConfig /\ "noConfig" \in mishaps')
    BY <1>4, <1>10, FindConfigDoes DEF TablesInv
  <2>2. FindsNamed(put[p])' /\ FindsMatching(put[p])'
    BY <2>1 DEF FindsNamed, FindsMatching, Goes
  <2>3. config \in Buckets \union {NoConfig}
    BY <1>5
  <2>4. at # "find" /\ at \notin {"resolve", "save"} /\ (at = "delete" <=> r.body = <<>>)
    BY <2>1
  <2> QED BY <1>2, <1>4, <1>5, <2>1, <2>2, <2>3, <2>4, GoKeepsInv
<1>11. CASE FindResource(p) \/ FindResourceFails(p)
  <2>1. PICK found \in {0, x} : r.at = "resource" /\ Goes(p, "target", r.i, r.config, found, r.row)
    BY <1>4, <1>6, <1>8, <1>11, FindResourceDoes DEF TablesInv
  <2>2. FindsNamed(put[p])' /\ FindsMatching(put[p])'
    BY <1>4, <1>7, <2>1 DEF FindsNamed, FindsMatching, Goes
  <2>3. found \in Nat /\ r.body # <<>>
    BY <1>5, <1>7, <2>1 DEF RequestFits
  <2> QED BY <1>2, <1>4, <1>5, <2>1, <2>2, <2>3, GoKeepsInv DEF Ats
<1>12. CASE FindTarget(p) \/ FindTargetFails(p)
  <2>1. PICK at \in {"create", "update"}, row \in {0} \union MatchingTargets(ThisItem(p), r.config) :
           r.at = "target" /\ Goes(p, at, r.i, r.config, r.resource, row)
    BY <1>4, <1>12, FindTargetDoes DEF TablesInv
  <2>2. FindsNamed(put[p])'
    <3>1. FindsNamed(r) /\ resources' = resources
      BY <1>1, <1>5 DEF RequestFits, Looks, tables
    <3> QED BY <1>4, <2>1, <3>1 DEF FindsNamed, Goes
  <2>3. /\ row \in Nat
        /\ row # 0 =>
              /\ row \in 1 .. Len(targets')
              /\ targets'[row].kind = r.body[r.i].kind
              /\ r.body[r.i].ident = NoIdent \/ targets'[row].ident = r.body[r.i].ident
              /\ r.config = NoConfig \/ targets'[row].config = r.config
    <3>1. targets' = targets /\ DOMAIN targets = 1 .. Len(targets) /\ Len(targets) \in Nat
      BY <1>1, RowsAre DEF Looks, tables, TablesInv
    <3> QED BY <1>8, <2>1, <3>1 DEF MatchingTargets
  <2>4. FindsMatching(put[p])'
    BY <1>4, <2>1, <2>3 DEF FindsMatching, Goes
  <2>5. r.body # <<>> /\ at \in Ats /\ at # "delete"
    BY <1>5, <2>1 DEF RequestFits, Ats
  <2> QED BY <1>2, <1>4, <1>5, <2>1, <2>2, <2>3, <2>4, <2>5, GoKeepsInv
<1> QED BY <1>9, <1>10, <1>11, <1>12

\* A write that changes one row, or adds one, which is bound to what the request has found.
LEMMA BindKeepsFit ==
  ASSUME TablesInv, TablesTyped', NEW p \in Puts, ~Waiting(p),
         put[p].at \in {"save", "create", "update"},
         UNCHANGED <<configs, resources, mishaps>>,
         Len(targets) <= Len(targets'),
         NEW t \in 1 .. Len(targets'), Binds(p, t),
         \A u \in 1 .. Len(targets') : u # t => u \in 1 .. Len(targets) /\ targets'[u] = targets[u],
         t \in 1 .. Len(targets) =>
            /\ targets'[t].kind = targets[t].kind /\ targets'[t].ident = targets[t].ident
            /\ targets'[t].rule = targets[t].rule /\ targets'[t].config = targets[t].config,
         targets'[t].config \in Buckets => configs[targets'[t].config] # "none"
  PROVE  TargetsFit' /\ Keeps
<1>1. FindsNamed(put[p])
  BY ThisIs DEF TablesInv, RequestFits
<1>2. targets'[t].resource # 0 => targets'[t].resource \in 1 .. Len(resources)
  BY <1>1 DEF FindsNamed, Binds, ThisItem
<1>3. ASSUME NEW u \in 1 .. Len(targets')
      PROVE  /\ targets'[u].resource # 0 => targets'[u].resource \in 1 .. Len(resources)
             /\ targets'[u].config \in Buckets => configs[targets'[u].config] # "none"
  <2>1. CASE u = t
    BY <1>2, <2>1
  <2>2. CASE u # t
    BY <1>3, <2>2 DEF TablesInv, TargetsFit
  <2> QED BY <2>1, <2>2
<1>4. TargetsFit'
  BY <1>3 DEF TargetsFit
<1>5. Len(targets) \in Nat /\ Len(targets') \in Nat /\ Len(resources) \in Nat
  BY LenProperties DEF TablesInv, TablesTyped
<1>6. \A u \in 1 .. Len(targets) :
         /\ targets'[u].kind = targets[u].kind /\ targets'[u].ident = targets[u].ident
         /\ targets'[u].rule = targets[u].rule /\ targets'[u].config = targets[u].config
  <2>1. TAKE u \in 1 .. Len(targets)
  <2>2. u \in 1 .. Len(targets')
    BY <1>5
  <2> QED BY <2>2
<1>7. Keeps
  BY <1>5, <1>6 DEF Keeps
<1> QED BY <1>4, <1>7

LEMMA WritesKeepInv ==
  ASSUME TablesInv, NEW p \in Puts, SaveResolved(p) \/ CreateTarget(p) \/ UpdateTarget(p)
  PROVE  TablesInv' /\ Keeps
<1>1. Len(targets) \in Nat
  BY RowsAre DEF TablesInv
<1>2. CASE SaveResolved(p)
  <2>1. /\ ~Waiting(p) /\ put[p].at = "save" /\ UNCHANGED <<configs, resources, mishaps>>
        /\ TablesTyped' /\ Moves(p, "resolve") /\ Len(targets') = Len(targets)
    BY <1>2, SaveResolvedDoes
  <2>2. PICK t \in 1 .. Len(targets) :
           /\ t = put[p].own + put[p].i /\ Binds(p, t)
           /\ targets'[t].ident = ThisItem(p).ident /\ targets'[t].rule = ThisItem(p).rule
           /\ targets'[t].config = put[p].bucket
           /\ \A u \in 1 .. Len(targets) : u # t => targets'[u] = targets[u]
    BY <1>2, SaveResolvedDoes
  <2>3. RequestFits(put[p]) /\ put[p].i \in 1 .. Len(put[p].body)
    BY <2>1, ThisIs, ItemIs DEF TablesInv
  <2>4. /\ targets[t].kind = ThisItem(p).kind /\ targets[t].ident = ThisItem(p).ident
        /\ targets[t].rule = ThisItem(p).rule /\ targets[t].config = put[p].bucket /\ configs[put[p].bucket] # "none"
    BY <2>1, <2>2, <2>3 DEF RequestFits, OwnsRows, ThisItem
  <2>5. targets'[t].kind = ThisItem(p).kind
    BY <2>2 DEF Binds
  <2>6. TargetsFit' /\ Keeps
    BY <1>1, <2>1, <2>2, <2>4, <2>5, BindKeepsFit
  <2> QED BY <2>1, <2>6, MoveKeepsInv DEF Ats
<1>3. CASE CreateTarget(p)
  <2>1. /\ ~Waiting(p) /\ put[p].at = "create" /\ UNCHANGED <<configs, resources, mishaps>>
        /\ TablesTyped' /\ Moves(p, "resource") /\ Adds(1) /\ Binds(p, Len(targets) + 1)
        /\ targets'[Len(targets) + 1].config = put[p].config
    BY <1>3, CreateTargetDoes
  <2>2. RequestFits(put[p]) /\ put[p].bucket \in Buckets
    BY <2>1, ThisIs DEF TablesInv
  <2>3. put[p].config \in Buckets => configs[put[p].config] # "none"
    BY <2>2, NothingAssumption DEF RequestFits
  <2>4. PICK t : t = Len(targets) + 1
    OBVIOUS
  <2>5. /\ t \in 1 .. Len(targets') /\ t \notin 1 .. Len(targets) /\ Len(targets) <= Len(targets')
        /\ \A u \in 1 .. Len(targets') : u # t => u \in 1 .. Len(targets) /\ targets'[u] = targets[u]
    BY <1>1, <2>1, <2>4 DEF Adds
  <2>6. TargetsFit' /\ Keeps
    BY <2>1, <2>3, <2>4, <2>5, BindKeepsFit
  <2> QED BY <2>1, <2>6, MoveKeepsInv DEF Ats
<1>4. CASE UpdateTarget(p)
  <2>1. /\ ~Waiting(p) /\ put[p].at = "update" /\ UNCHANGED <<configs, resources, mishaps>>
        /\ TablesTyped' /\ Moves(p, "resource")
    BY <1>4, UpdateTargetDoes
  <2>2. TargetsFit' /\ Keeps
    <3>1. CASE /\ Adds(1) /\ Binds(p, Len(targets) + 1)
               /\ targets'[Len(targets) + 1].config = NoConfig
      <4>1. PICK t : t = Len(targets) + 1
        OBVIOUS
      <4>2. /\ t \in 1 .. Len(targets') /\ t \notin 1 .. Len(targets) /\ Len(targets) <= Len(targets')
            /\ \A u \in 1 .. Len(targets') : u # t => u \in 1 .. Len(targets) /\ targets'[u] = targets[u]
        BY <1>1, <3>1, <4>1 DEF Adds
      <4> QED BY <2>1, <3>1, <4>1, <4>2, BindKeepsFit, NothingAssumption
    <3>2. CASE /\ put[p].row \in 1 .. Len(targets) /\ Binds(p, put[p].row)
               /\ Len(targets') = Len(targets)
               /\ targets'[put[p].row].ident = targets[put[p].row].ident
               /\ targets'[put[p].row].rule = targets[put[p].row].rule
               /\ targets'[put[p].row].kind = targets[put[p].row].kind
               /\ targets'[put[p].row].config = targets[put[p].row].config
               /\ \A u \in 1 .. Len(targets) : u # put[p].row => targets'[u] = targets[u]
      <4>1. targets[put[p].row].config \in Buckets => configs[targets[put[p].row].config] # "none"
        BY <3>2 DEF TablesInv, TargetsFit
      <4> QED BY <1>1, <2>1, <3>2, <4>1, BindKeepsFit
    <3> QED BY <1>4, <3>1, <3>2, UpdateTargetDoes
  <2> QED BY <2>1, <2>2, MoveKeepsInv DEF Ats
<1> QED BY <1>2, <1>3, <1>4

\* Requests that end, fail or begin without a new row.
LEMMA OthersKeepInv ==
  ASSUME TablesInv, NEW p \in Puts, NEW b \in Buckets, NEW body \in Bodies,
         \/ SaveResolvedFails(p) \/ WriteFails(p) \/ DeleteConfig(p) \/ DeleteConfigFails(p)
         \/ ConfigExists(p, b, body) \/ CreateConfigFails(p, b, body)
  PROVE  TablesInv' /\ Keeps
<1>1. CASE SaveResolvedFails(p) \/ WriteFails(p)
  <2>1. Looks(p)
    BY <1>1, SkipDoes DEF TablesInv
  <2>2. TablesTyped' /\ TargetsFit' /\ Keeps /\ ~Waiting(p)
    BY <2>1, TablesStay DEF Looks
  <2>3. PICK first \in Ats :
           /\ \/ put[p].at = "save" /\ first = "resolve"
              \/ put[p].at \in {"create", "update"} /\ first = "resource"
           /\ \/ /\ put[p].i < Len(put[p].body)
                 /\ Goes(p, first, put[p].i + 1, put[p].config, 0, 0)
              \/ put[p].i >= Len(put[p].body) /\ Stops(p)
    BY <1>1, SkipDoes DEF TablesInv
  <2>4. CASE Stops(p)
    BY <2>2, <2>4, StopKeepsInv
  <2>5. CASE /\ put[p].i < Len(put[p].body)
             /\ Goes(p, first, put[p].i + 1, put[p].config, 0, 0)
    BY <2>2, <2>3, <2>5, MoveKeepsInv DEF Moves
  <2> QED BY <2>2, <2>3, <2>4, <2>5
<1>2. CASE DeleteConfig(p)
  <2>1. /\ UNCHANGED <<targets, resources, mishaps>> /\ TablesTyped' /\ Stops(p)
        /\ \A c \in Buckets : configs'[c] = configs[c] \/ configs'[c] = "deleted"
    BY <1>2, DeleteConfigDoes
  <2>2. TargetsFit'
    BY <2>1 DEF TablesInv, TargetsFit
  <2>3. Len(targets) \in Nat /\ Len(resources) \in Nat
    BY RowsAre DEF TablesInv
  <2>4. Keeps
    BY <2>1, <2>3 DEF Keeps
  <2> QED BY <2>1, <2>2, <2>4, StopKeepsInv
<1>3. CASE DeleteConfigFails(p)
  <2>1. TablesTyped' /\ TargetsFit' /\ Keeps /\ Stops(p)
    BY <1>3, DeleteFailsDoes, TablesStay DEF Looks, TablesInv
  <2> QED BY <2>1, StopKeepsInv
<1>4. CASE ConfigExists(p, b, body)
  <2>1. Begins(p, b, body, "find", Len(targets)) /\ UNCHANGED tables /\ configs[b] # "none"
    BY <1>4, ConfigExistsDoes DEF TablesInv
  <2>2. TablesTyped' /\ TargetsFit' /\ Keeps
    BY <2>1, TablesStay DEF Begins
  <2>3. PICK s \in Requests : s = put'[p] /\ s.at = "find" /\ s.bucket = b /\ s.body = body
                              /\ s.i = 1 /\ s.config = b /\ s.own = Len(targets)
    BY <2>1 DEF Begins
  <2>4. configs' = configs /\ targets' = targets /\ Len(targets) \in Nat
    BY <2>1, RowsAre DEF tables, TablesInv
  <2>5. 1 \in 1 .. Len(body) \/ body = <<>>
    BY BodyIs
  <2>6. RequestFits(s)'
    BY <2>1, <2>3, <2>4, <2>5 DEF RequestFits, FindsNamed, OwnsRows, FindsMatching
  <2> QED BY <2>1, <2>2, <2>3, <2>6, StepKeepsInv DEF Begins
<1>5. CASE CreateConfigFails(p, b, body)
  <2>1. TablesTyped' /\ TargetsFit' /\ Keeps /\ Stops(p)
    BY <1>5, CreateFailsDoes, TablesStay DEF TablesInv
  <2> QED BY <2>1, StopKeepsInv
<1> QED BY <1>1, <1>2, <1>3, <1>4, <1>5

LEMMA CreateConfigKeepsInv ==
  ASSUME TablesInv, NEW p \in Puts, NEW b \in Buckets, NEW body \in Bodies,
         CreateConfig(p, b, body)
  PROVE  TablesInv' /\ Keeps
<1>1. PICK m \in Nat, n \in Nat : m = Len(targets) /\ n = Len(body)
  BY RowsAre, BodyIs DEF TablesInv
<1>2. /\ TablesTyped' /\ Adds(n) /\ configs[b] = "none" /\ configs'[b] = "live"
      /\ \A c \in Buckets \ {b} : configs'[c] = configs[c]
      /\ \A j \in 1 .. n : targets'[m + j] = NewTarget(body[j], b, 0)
      /\ \/ body = <<>> /\ Stops(p) /\ mishaps \subseteq mishaps'
         \/ body # <<>> /\ Begins(p, b, body, "resolve", m)
  BY <1>1, CreateConfigDoes DEF TablesInv
<1>3. \A j \in 1 .. n :
         /\ targets'[m + j].kind = body[j].kind /\ targets'[m + j].ident = body[j].ident
         /\ targets'[m + j].rule = body[j].rule
         /\ targets'[m + j].config = b /\ targets'[m + j].resource = 0
  <2>1. TAKE j \in 1 .. n
  <2>2. PICK row : row = targets'[m + j]
    OBVIOUS
  <2>3. row = NewTarget(body[j], b, 0)
    BY <1>2, <2>2
  <2> QED BY <2>2, <2>3 DEF NewTarget
<1>4. Len(targets') = m + n /\ UNCHANGED resources
      /\ \A t \in 1 .. m : targets'[t] = targets[t]
  BY <1>1, <1>2 DEF Adds
<1>5. Keeps
  <2>1. mishaps \subseteq mishaps'
    BY <1>2 DEF Begins
  <2>2. Len(resources) \in Nat
    BY RowsAre DEF TablesInv
  <2> QED BY <1>1, <1>2, <1>4, <2>1, <2>2 DEF Keeps
<1>6. TargetsFit'
  <2>1. ASSUME NEW t \in 1 .. Len(targets')
        PROVE  /\ targets'[t].resource # 0 => targets'[t].resource \in 1 .. Len(resources')
               /\ targets'[t].config \in Buckets => configs'[targets'[t].config] # "none"
    <3>1. CASE t \in 1 .. m
      <4>1. targets'[t] = targets[t] /\ resources' = resources
        BY <1>4, <3>1
      <4>2. /\ targets[t].resource # 0 => targets[t].resource \in 1 .. Len(resources)
            /\ targets[t].config \in Buckets => configs[targets[t].config] # "none"
        BY <1>1, <3>1 DEF TablesInv, TargetsFit
      <4>3. targets[t].config \in Buckets => configs'[targets[t].config] # "none"
        BY <1>2, <4>2
      <4> QED BY <4>1, <4>2, <4>3
    <3>2. CASE t \notin 1 .. m
      <4>1. PICK j \in 1 .. n : t = m + j
        <5>1. t - m \in 1 .. n /\ t = m + (t - m)
          BY <1>4, <2>1, <3>2
        <5> QED BY <5>1
      <4> QED BY <1>2, <1>3, <4>1
    <3> QED BY <3>1, <3>2
  <2> QED BY <2>1 DEF TargetsFit
<1>7. CASE Stops(p)
  BY <1>2, <1>5, <1>6, <1>7, StopKeepsInv
<1>8. CASE body # <<>> /\ Begins(p, b, body, "resolve", m)
  <2>1. PICK s \in Requests : s = put'[p] /\ s.at = "resolve" /\ s.bucket = b /\ s.body = body
                              /\ s.i = 1 /\ s.config = b /\ s.own = m
    BY <1>8 DEF Begins
  <2>2. 1 \in 1 .. Len(body)
    BY <1>8, BodyIs
  <2>3. OwnsRows(s)'
    BY <1>1, <1>3, <1>4, <2>1 DEF OwnsRows
  <2>4. m <= Len(targets')
    BY <1>1, <1>4
  <2>5. RequestFits(s)'
    BY <1>2, <1>8, <2>1, <2>2, <2>3, <2>4 DEF RequestFits, FindsNamed, FindsMatching
  <2> QED BY <1>2, <1>5, <1>6, <1>8, <2>1, <2>5, StepKeepsInv DEF Begins
<1> QED BY <1>2, <1>5, <1>7, <1>8

LEMMA OutsideKeepsInv ==
  ASSUME TablesInv, Restart \/ Resource
  PROVE  TablesInv' /\ Keeps
<1>1. CASE Restart
  <2>1. TablesTyped' /\ TargetsFit' /\ Keeps /\ PutTyped' /\ \A p \in Puts : ~Active(p)'
    BY <1>1, RestartDoes, TablesStay, ActiveAfter
  <2> QED BY <2>1 DEF TablesInv
<1>2. CASE Resource
  <2>1. /\ UNCHANGED <<configs, targets, put>> /\ TablesTyped' /\ mishaps \subseteq mishaps'
        /\ Len(resources) <= Len(resources')
        /\ \A r \in 1 .. Len(resources) : resources'[r].arn = resources[r].arn
    <3>1. PICK n \in Nat : n = Len(resources)
      BY RowsAre DEF TablesInv
    <3>2. CASE \E arn \in Arns : CreateResource(arn)
      BY <3>1, <3>2, CreateResourceDoes
    <3>3. CASE \E r \in DOMAIN resources : DeleteResource(r)
      BY <3>1, <3>3, DeleteResourceDoes
    <3> QED BY <1>2, <3>2, <3>3 DEF Resource
  <2>2. Len(targets) \in Nat /\ Len(resources) \in Nat /\ Len(resources') \in Nat
    BY <2>1, LenProperties DEF TablesInv, TablesTyped
  <2>3. Keeps
    BY <2>1, <2>2 DEF Keeps
  <2>4. TargetsFit'
    BY <2>1, <2>2 DEF TablesInv, TargetsFit
  <2>5. PutTyped' /\ \A p \in Puts : Active(p)' => Active(p)
    BY <2>1 DEF TablesInv, PutTyped, Active
  <2>6. ASSUME NEW p \in Puts, Active(p)' PROVE RequestFits(put[p])'
    <3>1. Active(p) /\ put'[p] = put[p] /\ RequestFits(put[p])
      BY <2>1, <2>5, <2>6 DEF TablesInv
    <3> QED BY <2>1, <2>3, <2>6, <3>1, RequestStays DEF TablesInv
  <2>7. TablesTyped'
    BY <2>1
  <2> QED BY <2>3, <2>4, <2>5, <2>6, <2>7 DEF TablesInv
<1> QED BY <1>1, <1>2

\* The steps of a request, by what they do to the tables.
LookupSteps(p) ==
    \/ Resolve(p) \/ ResolveFails(p) \/ FindConfig(p) \/ FindConfigFails(p)
    \/ FindResource(p) \/ FindResourceFails(p) \/ FindTarget(p) \/ FindTargetFails(p)

WriteSteps(p) == SaveResolved(p) \/ CreateTarget(p) \/ UpdateTarget(p)

OtherSteps(p, b, body) ==
    \/ SaveResolvedFails(p) \/ WriteFails(p) \/ DeleteConfig(p) \/ DeleteConfigFails(p)
    \/ ConfigExists(p, b, body) \/ CreateConfigFails(p, b, body)

LEMMA NextIs ==
  ASSUME Next, TablesInv
  PROVE  \/ \E p \in Puts : LookupSteps(p)
         \/ \E p \in Puts : WriteSteps(p)
         \/ \E p \in Puts, b \in Buckets, body \in Bodies : OtherSteps(p, b, body)
         \/ \E p \in Puts, b \in Buckets, body \in Bodies : CreateConfig(p, b, body)
         \/ Restart \/ Resource
<1>1. CASE Restart \/ Resource
  BY <1>1
<1>2. CASE \E p \in Puts : PutBegins(p) \/ PutSteps(p) \/ PutFails(p)
  <2>1. PICK p \in Puts : PutBegins(p) \/ PutSteps(p) \/ PutFails(p)
    BY <1>2
  <2>2. CASE PutBegins(p)
    BY <2>2 DEF PutBegins, OtherSteps
  <2>3. CASE PutSteps(p) \/ PutFails(p)
    <3>1. CASE LookupSteps(p) \/ WriteSteps(p)
      BY <3>1
    <3>2. CASE ~(LookupSteps(p) \/ WriteSteps(p))
      <4>1. SaveResolvedFails(p) \/ WriteFails(p) \/ DeleteConfig(p) \/ DeleteConfigFails(p)
        BY <2>3, <3>2 DEF PutSteps, PutFails, LookupSteps, WriteSteps
      <4>2. ~Waiting(p)
        BY <4>1 DEF SaveResolvedFails, WriteFails, DeleteConfig, DeleteConfigFails, At
      <4>3. put[p].bucket \in Buckets /\ put[p].body \in Bodies
        BY <4>2, ThisIs DEF TablesInv
      <4>4. OtherSteps(p, put[p].bucket, put[p].body)
        BY <4>1 DEF OtherSteps
      <4> QED BY <4>3, <4>4
    <3> QED BY <3>1, <3>2
  <2> QED BY <2>1, <2>2, <2>3
<1> QED BY <1>1, <1>2 DEF Next

LEMMA TablesInvHolds ==
  ASSUME TablesInv, Next
  PROVE  TablesInv' /\ Keeps
<1>1. CASE \E p \in Puts : LookupSteps(p)
  BY <1>1, LookupsKeepInv DEF LookupSteps
<1>2. CASE \E p \in Puts : WriteSteps(p)
  BY <1>2, WritesKeepInv DEF WriteSteps
<1>3. CASE \E p \in Puts, b \in Buckets, body \in Bodies : OtherSteps(p, b, body)
  BY <1>3, OthersKeepInv DEF OtherSteps
<1>4. CASE \E p \in Puts, b \in Buckets, body \in Bodies : CreateConfig(p, b, body)
  BY <1>4, CreateConfigKeepsInv
<1>5. CASE Restart \/ Resource
  BY <1>5, OutsideKeepsInv
<1> QED BY <1>1, <1>2, <1>3, <1>4, <1>5, NextIs

LEMMA TablesInvInit ==
  ASSUME Init
  PROVE  TablesInv
<1>1. TablesTyped /\ PutTyped /\ Len(targets) = 0 /\ \A p \in Puts : put[p] = Idle
  BY EmptySeq DEF Init, TablesTyped, PutTyped
<1>2. \A p \in Puts : ~Active(p)
  BY <1>1 DEF Active, Idle, Requests
<1>3. TargetsFit
  BY <1>1 DEF TargetsFit
<1> QED BY <1>1, <1>2, <1>3 DEF TablesInv

-----------------------------------------------------------------------------
(* What the mishaps tell: an overlap of two requests for a bucket is one,  *)
(* an Id twice in a body is one, a resource that is created again, ...     *)

RaceInv ==
    \A p, q \in Puts :
        p # q /\ Active(p) /\ Active(q) /\ put[p].bucket = put[q].bucket => "race" \in mishaps

RepeatedInv ==
    \A p \in Puts : Active(p) /\ Repeated(put[p].body) => "repeated" \in mishaps

\* Two rows are of the same configuration, kind and Id.
Alike(row, other) ==
    row.config = other.config /\ row.kind = other.kind /\ row.ident = other.ident

\* The row that request r is about to make.
Making(r) == NewTarget(r.body[r.i], r.config, r.resource)

\* One target of a bucket has a kind and an Id, and none has when one is about to be made.
UniqueInv ==
    Free({"repeated", "race"}) =>
        /\ \A t, u \in 1 .. Len(targets) :
              t # u /\ targets[t].config \in Buckets /\ targets[t].ident # NoIdent =>
                 ~Alike(targets[t], targets[u])
        /\ \A p \in Puts :
              /\ Active(p) /\ put[p].at = "create"
              /\ put[p].config # NoConfig /\ Making(put[p]).ident # NoIdent
              => \A t \in 1 .. Len(targets) : ~Alike(targets[t], Making(put[p]))

\* An ARN had one resource, and what a request has found and what stands in a row that no
\* first PUT is still to resolve is the resource it names.
OneOfAnArn ==
    Free({"recreated"}) =>
        \A r, q \in 1 .. Len(resources) :
            resources[r].arn = resources[q].arn => r = q

IsBound(t) ==
    targets[t].resource # 0 /\ resources[targets[t].resource].arn = targets[t].arn

BoundInv ==
    Free({"unresolved", "fault"}) =>
        /\ \A p \in Puts : Active(p) =>
              /\ put[p].at \in {"save", "target", "create", "update"} => put[p].resource # 0
              /\ put[p].at = "update" => put[p].row # 0
        /\ \A t \in 1 .. Len(targets) : ~Pending(t) => IsBound(t)

\* The configuration of a later PUT that has found it stays.
LiveInv ==
    Free({"race", "noConfig"}) =>
        \A p \in Puts : Active(p) /\ put[p].at # "find" => configs[put[p].bucket] = "live"

\* The items that a request has gone over are bound.
DoneIn(r, j) ==
    \E t \in 1 .. Len(targets) :
        /\ r.at \in {"resolve", "save"} => t = r.own + j
        /\ targets[t].config = r.bucket /\ targets[t].kind = r.body[j].kind
        /\ targets[t].ident = r.body[j].ident /\ targets[t].arn = r.body[j].arn
        /\ t > r.own => targets[t].rule = r.body[j].rule
        /\ IsBound(t)

DoneInv ==
    Free(MishapKinds \ {"recreated"}) =>
        \A p \in Puts : Active(p) =>
            /\ put[p].at \in {"create", "update"} => ThisItem(p).ident # NoIdent
            /\ \A j \in 1 .. Len(put[p].body) : j < put[p].i => DoneIn(put[p], j)

\* The rows of the bucket that are new since a later PUT began are those of items that it
\* has gone over.
MadeBy(r, t) ==
    \E j \in 1 .. Len(r.body) :
        j < r.i /\ targets[t].kind = r.body[j].kind /\ targets[t].ident = r.body[j].ident

NewRowsInv ==
    Free(MishapKinds \ {"recreated"}) =>
        \A p \in Puts : Active(p) /\ put[p].at \notin {"resolve", "save"} =>
            \A t \in 1 .. Len(targets) :
                t > put[p].own /\ targets[t].config = put[p].bucket => MadeBy(put[p], t)

\* Each request goes on or ends, or stays where it is.
GoOn ==
    \A q \in Puts :
        \/ put'[q] = put[q] /\ (Active(q)' <=> Active(q))
        \/ ~Active(q)'
        \/ /\ Active(q) /\ put'[q].bucket = put[q].bucket /\ put'[q].body = put[q].body
           /\ put'[q].own = put[q].own

LEMMA GoesIsGoOn ==
  ASSUME TablesInv, NEW p \in Puts, ~Waiting(p), NEW at, NEW i, NEW config, NEW resource, NEW row,
         Goes(p, at, i, config, resource, row)
  PROVE  GoOn
BY ThisIs DEF Goes, GoOn, Active, TablesInv

LEMMA StopsIsGoOn ==
  ASSUME NEW p \in Puts, Stops(p)
  PROVE  GoOn
BY ActiveAfter DEF Stops, GoOn, Active

LEMMA MovesIsGoOn ==
  ASSUME TablesInv, NEW p \in Puts, ~Waiting(p), NEW first, Moves(p, first)
  PROVE  GoOn
BY GoesIsGoOn, StopsIsGoOn DEF Moves

\* What a lookup does, in short.
LEMMA LookupDoes ==
  ASSUME TablesInv, NEW p \in Puts, LookupSteps(p)
  PROVE  /\ Looks(p)
         /\ \/ Stops(p)
            \/ \E at \in Ats, config \in Buckets \union {NoConfig}, resource \in Nat, row \in Nat :
                  Goes(p, at, put[p].i, config, resource, row)
<1>1. Looks(p)
  BY ResolveDoes, FindConfigDoes, FindResourceDoes, FindTargetDoes DEF TablesInv, LookupSteps
<1>2. /\ put[p].config \in Buckets \union {NoConfig} /\ put[p].resource \in Nat
      /\ put[p].row \in Nat /\ FirstResource(ThisItem(p)) \in Nat
  BY <1>1, ThisIs, FirstResourceIs DEF TablesInv, Looks
<1>3. CASE Resolve(p) \/ ResolveFails(p)
  BY <1>1, <1>2, <1>3, ResolveDoes DEF TablesInv, Ats
<1>4. CASE FindConfig(p) \/ FindConfigFails(p)
  BY <1>1, <1>2, <1>4, FindConfigDoes DEF TablesInv
<1>5. CASE FindResource(p) \/ FindResourceFails(p)
  BY <1>1, <1>2, <1>5, FindResourceDoes DEF TablesInv, Ats
<1>6. CASE FindTarget(p) \/ FindTargetFails(p)
  <2>1. MatchingTargets(ThisItem(p), put[p].config) \subseteq Nat
    BY RowsAre DEF MatchingTargets, TablesInv
  <2> QED BY <1>1, <1>2, <1>6, <2>1, FindTargetDoes DEF TablesInv, Ats
<1> QED BY <1>3, <1>4, <1>5, <1>6 DEF LookupSteps

LEMMA LookupGoesOn ==
  ASSUME TablesInv, NEW p \in Puts, LookupSteps(p)
  PROVE  GoOn
BY LookupDoes, GoesIsGoOn, StopsIsGoOn DEF Looks

LEMMA WriteGoesOn ==
  ASSUME TablesInv, NEW p \in Puts, WriteSteps(p)
  PROVE  GoOn
BY SaveResolvedDoes, CreateTargetDoes, UpdateTargetDoes, MovesIsGoOn DEF WriteSteps

LEMMA OtherGoesOn ==
  ASSUME TablesInv, NEW p \in Puts, NEW b \in Buckets, NEW body \in Bodies, OtherSteps(p, b, body)
  PROVE  GoOn \/ Begins(p, b, body, "find", Len(targets))
<1>1. CASE SaveResolvedFails(p) \/ WriteFails(p)
  BY <1>1, SkipDoes, GoesIsGoOn, StopsIsGoOn DEF TablesInv, Looks
<1>2. CASE DeleteConfig(p) \/ DeleteConfigFails(p) \/ CreateConfigFails(p, b, body)
  BY <1>2, DeleteConfigDoes, DeleteFailsDoes, CreateFailsDoes, StopsIsGoOn DEF TablesInv
<1>3. CASE ConfigExists(p, b, body)
  BY <1>3, ConfigExistsDoes DEF TablesInv
<1> QED BY <1>1, <1>2, <1>3 DEF OtherSteps

LEMMA OutsideGoesOn ==
  ASSUME TablesInv, Restart \/ Resource
  PROVE  GoOn
<1>1. CASE Restart
  BY <1>1, RestartDoes, ActiveAfter DEF GoOn
<1>2. CASE Resource
  <2>1. UNCHANGED put
    BY <1>2, CreateResourceDoes, DeleteResourceDoes DEF Resource
  <2> QED BY <2>1 DEF GoOn, Active
<1> QED BY <1>1, <1>2

LEMMA RequestsAfter ==
  ASSUME TablesInv, Next
  PROVE  \/ GoOn
         \/ \E p \in Puts, b \in Buckets, body \in Bodies, at \in Ats, own \in Nat :
               Begins(p, b, body, at, own)
<1>1. CASE \E p \in Puts : LookupSteps(p) \/ WriteSteps(p)
  BY <1>1, LookupGoesOn, WriteGoesOn
<1>2. CASE \E p \in Puts, b \in Buckets, body \in Bodies : OtherSteps(p, b, body)
  BY <1>2, OtherGoesOn DEF Ats
<1>3. CASE \E p \in Puts, b \in Buckets, body \in Bodies : CreateConfig(p, b, body)
  <2>1. Len(targets) \in Nat
    BY RowsAre DEF TablesInv
  <2> QED BY <1>3, <2>1, CreateConfigDoes, StopsIsGoOn DEF TablesInv, Ats
<1>4. CASE Restart \/ Resource
  BY <1>4, OutsideGoesOn
<1> QED BY <1>1, <1>2, <1>3, <1>4, NextIs

LEMMA RaceKept ==
  ASSUME TablesInv, Next, RaceInv, RepeatedInv
  PROVE  RaceInv' /\ RepeatedInv'
<1>1. mishaps \subseteq mishaps'
  BY TablesInvHolds DEF Keeps
<1>2. CASE GoOn
  BY <1>1, <1>2 DEF GoOn, RaceInv, RepeatedInv, Active
<1>3. CASE \E p \in Puts, b \in Buckets, body \in Bodies, at \in Ats, own \in Nat :
              Begins(p, b, body, at, own)
  <2>1. PICK p \in Puts, b \in Buckets, body \in Bodies, at \in Ats, own \in Nat :
           Begins(p, b, body, at, own)
    BY <1>3
  <2>2. /\ \A q \in Puts \ {p} : put'[q] = put[q]
        /\ put'[p].bucket = b /\ put'[p].body = body
        /\ Repeated(body) => "repeated" \in mishaps'
        /\ Racing(p, b) => "race" \in mishaps'
    BY <2>1 DEF Begins
  <2>3. ASSUME NEW q \in Puts \ {p}, Active(q), put[q].bucket = b PROVE "race" \in mishaps'
    BY <2>2, <2>3, ActiveIs DEF Racing, TablesInv
  <2>4. RaceInv'
    <3>1. SUFFICES ASSUME NEW q \in Puts, NEW s \in Puts, q # s, Active(q)', Active(s)',
                          put'[q].bucket = put'[s].bucket
                   PROVE  "race" \in mishaps'
      BY DEF RaceInv
    <3>2. CASE q # p /\ s # p
      BY <1>1, <2>2, <3>1, <3>2 DEF RaceInv, Active
    <3>3. CASE q = p \/ s = p
      BY <2>2, <2>3, <3>1, <3>3 DEF Active
    <3> QED BY <3>2, <3>3
  <2>5. RepeatedInv'
    BY <1>1, <2>2 DEF RepeatedInv, Active
  <2> QED BY <2>4, <2>5
<1> QED BY <1>2, <1>3, RequestsAfter

-----------------------------------------------------------------------------
(* A bucket has one target of a kind and an Id. *)

\* What has to be looked at: the new rows, and the requests that are about to make one.
LEMMA UniqueKept ==
  ASSUME TablesInv, TablesInv', Keeps, UniqueInv,
         Free({"repeated", "race"})' =>
            /\ \A t, u \in 1 .. Len(targets') :
                  /\ t # u /\ u \notin 1 .. Len(targets)
                  /\ targets'[u].config \in Buckets /\ targets'[u].ident # NoIdent
                  => ~Alike(targets'[t], targets'[u])
            /\ \A q \in Puts :
                  /\ Active(q)' /\ put'[q].at = "create"
                  /\ put'[q].config # NoConfig /\ Making(put'[q]).ident # NoIdent
                  => \A u \in 1 .. Len(targets') :
                        \/ put'[q] = put[q] /\ u \in 1 .. Len(targets)
                        \/ ~Alike(targets'[u], Making(put'[q]))
  PROVE  UniqueInv'
<1>1. SUFFICES ASSUME Free({"repeated", "race"})'
               PROVE  /\ \A t, u \in 1 .. Len(targets') :
                            t # u /\ targets'[t].config \in Buckets /\ targets'[t].ident # NoIdent =>
                               ~Alike(targets'[t], targets'[u])
                      /\ \A q \in Puts :
                            /\ Active(q)' /\ put'[q].at = "create"
                            /\ put'[q].config # NoConfig /\ Making(put'[q]).ident # NoIdent
                            => \A t \in 1 .. Len(targets') : ~Alike(targets'[t], Making(put'[q]))
  BY DEF UniqueInv, Making
<1>2. Free({"repeated", "race"})
  BY <1>1 DEF Free, Keeps
<1>3. \A t \in 1 .. Len(targets) : Alike(targets'[t], targets[t])
  BY DEF Keeps, Alike
<1>4. ASSUME NEW t \in 1 .. Len(targets'), NEW u \in 1 .. Len(targets'), t # u,
             targets'[t].config \in Buckets, targets'[t].ident # NoIdent
      PROVE  ~Alike(targets'[t], targets'[u])
  <2>1. CASE t \in 1 .. Len(targets) /\ u \in 1 .. Len(targets)
    BY <1>2, <1>3, <1>4, <2>1 DEF UniqueInv, Alike
  <2>2. CASE u \notin 1 .. Len(targets)
    <3>1. CASE targets'[u].config \in Buckets /\ targets'[u].ident # NoIdent
      BY <1>1, <1>4, <2>2, <3>1
    <3>2. CASE ~(targets'[u].config \in Buckets /\ targets'[u].ident # NoIdent)
      BY <1>4, <3>2 DEF Alike
    <3> QED BY <3>1, <3>2
  <2>3. CASE t \notin 1 .. Len(targets)
    <3>1. ~Alike(targets'[u], targets'[t])
      BY <1>1, <1>4, <2>3
    <3> QED BY <3>1 DEF Alike
  <2> QED BY <2>1, <2>2, <2>3
<1>5. ASSUME NEW q \in Puts, Active(q)', put'[q].at = "create", put'[q].config # NoConfig,
             Making(put'[q]).ident # NoIdent, NEW t \in 1 .. Len(targets')
      PROVE  ~Alike(targets'[t], Making(put'[q]))
  <2>1. CASE put'[q] = put[q] /\ t \in 1 .. Len(targets)
    <3>1. Active(q)
      BY <1>5, <2>1 DEF Active
    <3>2. ~Alike(targets[t], Making(put[q]))
      BY <1>2, <1>5, <2>1, <3>1 DEF UniqueInv
    <3> QED BY <1>3, <2>1, <3>2 DEF Alike
  <2> QED BY <1>1, <1>5, <2>1
<1> QED BY <1>4, <1>5

\* No row is added.
LEMMA UniqueKeptOld ==
  ASSUME TablesInv, TablesInv', Keeps, UniqueInv, Len(targets') = Len(targets),
         \A q \in Puts :
            /\ Active(q)' /\ put'[q].at = "create"
            /\ put'[q].config # NoConfig /\ Making(put'[q]).ident # NoIdent
            => \/ put'[q] = put[q]
               \/ \A u \in 1 .. Len(targets) : ~Alike(targets'[u], Making(put'[q]))
  PROVE  UniqueInv'
BY UniqueKept

\* One is added: it is like no other, and like none that another request is about to make.
LEMMA UniqueKeptNew ==
  ASSUME TablesInv, TablesInv', Keeps, UniqueInv, RaceInv, NEW p \in Puts, ~Waiting(p), Adds(1),
         NEW first, first # "create", Moves(p, first), mishaps' = mishaps,
         \/ targets'[Len(targets) + 1].config = NoConfig
         \/ /\ put[p].at = "create" /\ put[p].config # NoConfig
            /\ Alike(targets'[Len(targets) + 1], Making(put[p]))
  PROVE  UniqueInv'
<1>1. PICK n \in Nat : n = Len(targets)
  BY RowsAre DEF TablesInv
<1>2. Len(targets') = n + 1 /\ \A t \in 1 .. n : targets'[t] = targets[t]
  BY <1>1 DEF Adds
<1>3. PICK new : new = targets'[n + 1]
  OBVIOUS
<1>4. Active(p) /\ RequestFits(put[p]) /\ put[p].bucket \in Buckets
  BY ThisIs DEF TablesInv
<1>5. ASSUME Free({"repeated", "race"})', NEW t \in 1 .. n, new.config \in Buckets, new.ident # NoIdent
      PROVE  ~Alike(targets'[t], new)
  <2>1. put[p].at = "create" /\ put[p].config # NoConfig /\ Alike(new, Making(put[p]))
    BY <1>1, <1>3, <1>5, NothingAssumption
  <2>2. Free({"repeated", "race"}) /\ Making(put[p]).ident # NoIdent
    BY <1>5, <2>1 DEF Free, Alike
  <2>3. ~Alike(targets[t], Making(put[p]))
    BY <1>1, <1>4, <1>5, <2>1, <2>2 DEF UniqueInv
  <2> QED BY <1>2, <1>5, <2>1, <2>3 DEF Alike
<1>6. ASSUME Free({"repeated", "race"})', NEW q \in Puts, Active(q)', put'[q].at = "create",
             put'[q].config # NoConfig
      PROVE  put'[q] = put[q] /\ ~Alike(new, Making(put'[q]))
  <2>1. q # p
    BY <1>6, ActiveAfter DEF Moves, Goes, Stops
  <2>2. put'[q] = put[q] /\ Active(q)
    BY <1>6, <2>1 DEF Moves, Goes, Stops, Active
  <2>3. put[q].config = put[q].bucket /\ put[q].bucket \in Buckets
    BY <1>6, <2>2, ThisIs, ActiveIs DEF TablesInv, RequestFits
  <2>4. put[q].bucket # put[p].bucket
    BY <1>4, <1>6, <2>1, <2>2 DEF RaceInv, Free
  <2>5. new.config = NoConfig \/ new.config = put[p].config
    BY <1>1, <1>3 DEF Alike, Making, NewTarget
  <2>6. new.config # put[q].config
    BY <1>4, <2>3, <2>4, <2>5, NothingAssumption DEF RequestFits
  <2> QED BY <2>2, <2>6 DEF Alike, Making, NewTarget
<1>7. \A u \in 1 .. Len(targets') : u \notin 1 .. Len(targets) => u = n + 1
  BY <1>1, <1>2
<1>8. \A t \in 1 .. Len(targets') : t # n + 1 => t \in 1 .. n
  BY <1>2
<1>9. Free({"repeated", "race"})' =>
         /\ \A t, u \in 1 .. Len(targets') :
               /\ t # u /\ u \notin 1 .. Len(targets)
               /\ targets'[u].config \in Buckets /\ targets'[u].ident # NoIdent
               => ~Alike(targets'[t], targets'[u])
         /\ \A q \in Puts :
               /\ Active(q)' /\ put'[q].at = "create"
               /\ put'[q].config # NoConfig /\ Making(put'[q]).ident # NoIdent
               => \A u \in 1 .. Len(targets') :
                     \/ put'[q] = put[q] /\ u \in 1 .. Len(targets)
                     \/ ~Alike(targets'[u], Making(put'[q]))
  <2>1. ASSUME Free({"repeated", "race"})',
               NEW t \in 1 .. Len(targets'), NEW u \in 1 .. Len(targets'),
               t # u, u \notin 1 .. Len(targets),
               targets'[u].config \in Buckets, targets'[u].ident # NoIdent
        PROVE  ~Alike(targets'[t], targets'[u])
    <3>1. u = n + 1 /\ t \in 1 .. n
      BY <1>7, <1>8, <2>1
    <3> QED BY <1>3, <1>5, <2>1, <3>1
  <2>2. ASSUME Free({"repeated", "race"})', NEW q \in Puts, Active(q)', put'[q].at = "create",
               put'[q].config # NoConfig, Making(put'[q]).ident # NoIdent,
               NEW u \in 1 .. Len(targets')
        PROVE  \/ put'[q] = put[q] /\ u \in 1 .. Len(targets)
               \/ ~Alike(targets'[u], Making(put'[q]))
    BY <1>3, <1>6, <1>7, <2>2
  <2> QED BY <2>1, <2>2
<1> QED BY <1>9, UniqueKept

LEMMA UniqueLookup ==
  ASSUME TablesInv, TablesInv', Keeps, UniqueInv, NEW p \in Puts, LookupSteps(p)
  PROVE  UniqueInv'
<1>1. Looks(p)
  BY LookupDoes
<1>2. Len(targets') = Len(targets) /\ targets' = targets
  BY <1>1 DEF Looks, tables
<1>3. PICK r \in Requests : r = put[p]
  BY <1>1, ThisIs DEF TablesInv, Looks, Active
<1>4. ASSUME NEW q \in Puts, Active(q)', put'[q].at = "create",
             put'[q].config # NoConfig, Making(put'[q]).ident # NoIdent
      PROVE  \/ put'[q] = put[q]
             \/ \A u \in 1 .. Len(targets) : ~Alike(targets'[u], Making(put'[q]))
  <2>1. CASE q # p
    BY <1>4, <2>1, LookupDoes DEF Goes, Stops
  <2>2. CASE q = p
    <3>1. ~Stops(p)
      BY <1>4, <2>2, ActiveAfter DEF Stops
    <3>2. FindTarget(p) \/ FindTargetFails(p)
      BY <1>4, <2>2, <3>1, ResolveDoes, FindConfigDoes, FindResourceDoes DEF TablesInv, LookupSteps, Goes
    <3>3. MatchingTargets(ThisItem(p), r.config) = {} /\ Goes(p, "create", r.i, r.config, r.resource, 0)
      BY <1>3, <1>4, <2>2, <3>1, <3>2, FindTargetDoes DEF TablesInv, Goes
    <3>4. PICK s \in Requests : s = put'[p] /\ s.body = r.body /\ s.i = r.i /\ s.config = r.config
      BY <1>3, <3>3 DEF Goes
    <3>5. ASSUME NEW u \in 1 .. Len(targets) PROVE ~Alike(targets[u], Making(s))
      <4>1. u \notin MatchingTargets(r.body[r.i], r.config) /\ u \in DOMAIN targets
        BY <1>3, <3>3, <3>5, RowsAre DEF ThisItem, TablesInv
      <4> QED BY <1>4, <2>2, <3>4, <4>1 DEF MatchingTargets, Alike, Making, NewTarget
    <3> QED BY <1>2, <2>2, <3>4, <3>5
  <2> QED BY <2>1, <2>2
<1> QED BY <1>2, <1>4, UniqueKeptOld

LEMMA UniqueWrite ==
  ASSUME TablesInv, TablesInv', Keeps, UniqueInv, RaceInv, NEW p \in Puts, WriteSteps(p)
  PROVE  UniqueInv'
<1>1. ASSUME ~Waiting(p), NEW first, first # "create", Moves(p, first), Len(targets') = Len(targets)
      PROVE  UniqueInv'
  <2>1. \A q \in Puts : Active(q)' /\ put'[q].at = "create" => put'[q] = put[q]
    BY <1>1, ActiveAfter DEF Moves, Goes, Stops
  <2> QED BY <1>1, <2>1, UniqueKeptOld
<1>2. CASE SaveResolved(p)
  BY <1>1, <1>2, SaveResolvedDoes
<1>3. CASE CreateTarget(p)
  <2>1. /\ ~Waiting(p) /\ put[p].at = "create" /\ mishaps' = mishaps
        /\ Moves(p, "resource") /\ Adds(1) /\ Binds(p, Len(targets) + 1)
        /\ targets'[Len(targets) + 1].ident = ThisItem(p).ident
        /\ targets'[Len(targets) + 1].config = put[p].config
    BY <1>3, CreateTargetDoes
  <2>2. Alike(targets'[Len(targets) + 1], Making(put[p]))
    BY <2>1 DEF Alike, Making, NewTarget, Binds, ThisItem
  <2> QED BY <2>1, <2>2, UniqueKeptNew
<1>4. CASE UpdateTarget(p)
  <2>1. ~Waiting(p) /\ mishaps' = mishaps /\ Moves(p, "resource")
    BY <1>4, UpdateTargetDoes
  <2>2. \/ Adds(1) /\ targets'[Len(targets) + 1].config = NoConfig
        \/ Len(targets') = Len(targets)
    BY <1>4, UpdateTargetDoes
  <2> QED BY <1>1, <2>1, <2>2, UniqueKeptNew
<1> QED BY <1>2, <1>3, <1>4 DEF WriteSteps

LEMMA UniqueOther ==
  ASSUME TablesInv, TablesInv', Keeps, UniqueInv,
         \/ \E p \in Puts, b \in Buckets, body \in Bodies : OtherSteps(p, b, body)
         \/ Restart \/ Resource
  PROVE  UniqueInv'
<1>1. CASE \E p \in Puts, b \in Buckets, body \in Bodies : OtherSteps(p, b, body)
  <2>1. PICK p \in Puts, b \in Buckets, body \in Bodies : OtherSteps(p, b, body)
    BY <1>1
  <2>2. targets' = targets
    BY <2>1, SkipDoes, DeleteConfigDoes, DeleteFailsDoes, ConfigExistsDoes, CreateFailsDoes
       DEF OtherSteps, TablesInv, Looks, tables
  <2>3. \A q \in Puts \ {p} : put'[q] = put[q]
    BY <2>1, SkipDoes, DeleteConfigDoes, DeleteFailsDoes, ConfigExistsDoes, CreateFailsDoes
       DEF OtherSteps, TablesInv, Goes, Stops, Begins
  <2>4. Active(p)' => put'[p].at # "create"
    BY <2>1, SkipDoes, DeleteConfigDoes, DeleteFailsDoes, ConfigExistsDoes, CreateFailsDoes, ActiveAfter
       DEF OtherSteps, TablesInv, Goes, Stops, Begins
  <2> QED BY <2>2, <2>3, <2>4, UniqueKeptOld
<1>2. CASE Restart
  <2>1. targets' = targets /\ \A q \in Puts : ~Active(q)'
    BY <1>2, RestartDoes, ActiveAfter DEF tables
  <2> QED BY <2>1, UniqueKeptOld
<1>3. CASE Resource
  <2>1. targets' = targets /\ put' = put
    BY <1>3, CreateResourceDoes, DeleteResourceDoes DEF Resource
  <2> QED BY <2>1, UniqueKeptOld
<1> QED BY <1>1, <1>2, <1>3

\* The rows of a first PUT are the bucket's only ones.
LEMMA UniqueCreate ==
  ASSUME TablesInv, TablesInv', Keeps, UniqueInv,
         NEW p \in Puts, NEW b \in Buckets, NEW body \in Bodies, CreateConfig(p, b, body)
  PROVE  UniqueInv'
<1>1. PICK m \in Nat, n \in Nat : m = Len(targets) /\ n = Len(body)
  BY RowsAre, BodyIs DEF TablesInv
<1>2. /\ Adds(n) /\ configs[b] = "none"
      /\ \A j \in 1 .. n : targets'[m + j] = NewTarget(body[j], b, 0)
      /\ \/ body = <<>> /\ Stops(p)
         \/ body # <<>> /\ Begins(p, b, body, "resolve", m)
  BY <1>1, CreateConfigDoes DEF TablesInv
<1>3. Len(targets') = m + n /\ \A t \in 1 .. m : targets'[t] = targets[t]
  BY <1>1, <1>2 DEF Adds
<1>4. \A t \in 1 .. m : targets'[t].config # b
  BY <1>1, <1>2, <1>3 DEF TablesInv, TargetsFit
<1>5. ASSUME NEW u \in 1 .. Len(targets'), u \notin 1 .. m
      PROVE  \E j \in 1 .. n : /\ u = m + j /\ targets'[u].config = b
                               /\ targets'[u].kind = body[j].kind /\ targets'[u].ident = body[j].ident
  <2>1. PICK j \in 1 .. n : u = m + j
    <3>1. u - m \in 1 .. n /\ u = m + (u - m)
      BY <1>3, <1>5
    <3> QED BY <3>1
  <2>2. PICK row : row = targets'[u] /\ row = NewTarget(body[j], b, 0)
    BY <1>2, <2>1
  <2> QED BY <2>1, <2>2 DEF NewTarget
<1>6. ASSUME Free({"repeated", "race"})', NEW t \in 1 .. Len(targets'), NEW u \in 1 .. Len(targets'),
             t # u, u \notin 1 .. m, targets'[u].ident # NoIdent
      PROVE  ~Alike(targets'[t], targets'[u])
  <2>1. PICK j \in 1 .. n : /\ u = m + j /\ targets'[u].config = b
                            /\ targets'[u].kind = body[j].kind /\ targets'[u].ident = body[j].ident
    BY <1>5, <1>6
  <2>2. CASE t \in 1 .. m
    BY <1>4, <2>1, <2>2 DEF Alike
  <2>3. CASE t \notin 1 .. m
    <3>1. PICK k \in 1 .. n : /\ t = m + k
                              /\ targets'[t].kind = body[k].kind /\ targets'[t].ident = body[k].ident
      BY <1>5, <1>6, <2>3
    <3>2. ~Repeated(body)
      <4>1. body # <<>>
        BY <1>1, <2>1, BodyIs
      <4> QED BY <1>2, <1>6, <4>1 DEF Begins, Free
    <3>3. j # k /\ DOMAIN body = 1 .. n
      BY <1>1, <1>6, <2>1, <3>1, BodyIs
    <3>4. j < k \/ k < j
      BY <3>3
    <3> QED BY <1>6, <2>1, <3>1, <3>2, <3>3, <3>4 DEF Repeated, Alike
  <2> QED BY <2>2, <2>3
<1>7. ASSUME NEW q \in Puts, Active(q)', put'[q].at = "create", put'[q].config # NoConfig
      PROVE  /\ put'[q] = put[q]
             /\ \A u \in 1 .. Len(targets') : u \notin 1 .. m => ~Alike(targets'[u], Making(put'[q]))
  <2>1. q # p
    BY <1>2, <1>7, ActiveAfter DEF Begins, Stops
  <2>2. put'[q] = put[q] /\ Active(q)
    BY <1>2, <1>7, <2>1 DEF Begins, Stops, Active
  <2>3. put[q].config = put[q].bucket /\ configs[put[q].bucket] # "none"
    BY <1>7, <2>2 DEF TablesInv, RequestFits
  <2>4. \A u \in 1 .. Len(targets') : u \notin 1 .. m => targets'[u].config = b
    BY <1>5
  <2> QED BY <1>2, <2>2, <2>3, <2>4 DEF Alike, Making, NewTarget
<1>8. Free({"repeated", "race"})' =>
         /\ \A t, u \in 1 .. Len(targets') :
               /\ t # u /\ u \notin 1 .. Len(targets)
               /\ targets'[u].config \in Buckets /\ targets'[u].ident # NoIdent
               => ~Alike(targets'[t], targets'[u])
         /\ \A q \in Puts :
               /\ Active(q)' /\ put'[q].at = "create"
               /\ put'[q].config # NoConfig /\ Making(put'[q]).ident # NoIdent
               => \A u \in 1 .. Len(targets') :
                     \/ put'[q] = put[q] /\ u \in 1 .. Len(targets)
                     \/ ~Alike(targets'[u], Making(put'[q]))
  BY <1>1, <1>6, <1>7
<1> QED BY <1>8, UniqueKept

LEMMA UniqueHolds ==
  ASSUME TablesInv, RaceInv, UniqueInv, Next
  PROVE  UniqueInv'
<1>1. TablesInv' /\ Keeps
  BY TablesInvHolds
<1>2. CASE \E p \in Puts : LookupSteps(p)
  BY <1>1, <1>2, UniqueLookup
<1>3. CASE \E p \in Puts : WriteSteps(p)
  BY <1>1, <1>3, UniqueWrite
<1>4. CASE \E p \in Puts, b \in Buckets, body \in Bodies : CreateConfig(p, b, body)
  BY <1>1, <1>4, UniqueCreate
<1>5. CASE \/ \E p \in Puts, b \in Buckets, body \in Bodies : OtherSteps(p, b, body)
           \/ Restart \/ Resource
  BY <1>1, <1>5, UniqueOther
<1> QED BY <1>2, <1>3, <1>4, <1>5, NextIs

-----------------------------------------------------------------------------
(* A target is bound to the resource that its ARN names. *)

LEMMA OneOfAnArnHolds ==
  ASSUME TablesInv, OneOfAnArn, Next
  PROVE  OneOfAnArn'
<1>1. PICK n \in Nat : n = Len(resources)
  BY RowsAre DEF TablesInv
<1>2. Keeps
  BY TablesInvHolds
<1>3. CASE Resource
  <2>1. CASE \E arn \in Arns : CreateResource(arn)
    <3>1. PICK arn \in Arns : CreateResource(arn)
      BY <2>1
    <3>2. /\ Len(resources') = n + 1 /\ \A r \in 1 .. n : resources'[r] = resources[r]
          /\ resources'[n + 1].arn = arn
          /\ "recreated" \in mishaps' \/ \A r \in 1 .. n : resources[r].arn # arn
      BY <1>1, <3>1, CreateResourceDoes
    <3>3. \A r \in 1 .. Len(resources') : r = n + 1 \/ r \in 1 .. n
      BY <3>2
    <3>4. Free({"recreated"})' => Free({"recreated"}) /\ "recreated" \notin mishaps'
      BY <1>2 DEF Keeps, Free
    <3> QED BY <1>1, <3>2, <3>3, <3>4 DEF OneOfAnArn
  <2>2. CASE \E r \in DOMAIN resources : DeleteResource(r)
    BY <2>2, DeleteResourceDoes DEF OneOfAnArn, Free
  <2> QED BY <1>3, <2>1, <2>2 DEF Resource
<1>4. CASE ~Resource
  <2>1. UNCHANGED resources
    <3>1. CASE \E p \in Puts : LookupSteps(p)
      BY <3>1, LookupDoes DEF Looks, tables
    <3>2. CASE \E p \in Puts : WriteSteps(p)
      BY <3>2, SaveResolvedDoes, CreateTargetDoes, UpdateTargetDoes DEF WriteSteps
    <3>3. CASE \E p \in Puts, b \in Buckets, body \in Bodies : OtherSteps(p, b, body)
      BY <3>3, SkipDoes, DeleteConfigDoes, DeleteFailsDoes, ConfigExistsDoes, CreateFailsDoes
         DEF OtherSteps, TablesInv, Looks, tables
    <3>4. CASE \E p \in Puts, b \in Buckets, body \in Bodies : CreateConfig(p, b, body)
      BY <3>4 DEF CreateConfig
    <3>5. CASE Restart
      BY <3>5, RestartDoes DEF tables
    <3> QED BY <1>4, <3>1, <3>2, <3>3, <3>4, <3>5, NextIs
  <2> QED BY <1>2, <2>1 DEF OneOfAnArn, Free, Keeps
<1> QED BY <1>3, <1>4

\* Request r is still to resolve row t.
Pends(r, t) == r.at \in {"resolve", "save"} /\ t \in r.own + r.i .. r.own + Len(r.body)

LEMMA PendingIs ==
  ASSUME TablesInv, TablesInv', NEW t
  PROVE  /\ Pending(t) <=> \E q \in Puts : Active(q) /\ Pends(put[q], t)
         /\ Pending(t)' <=> \E q \in Puts : Active(q)' /\ Pends(put'[q], t)
<1>1. Pending(t) <=> \E q \in Puts : Active(q) /\ Pends(put[q], t)
  BY ActiveIs DEF Pending, Pends, TablesInv
<1>2. \A q \in Puts : Active(q)' <=> ~(put'[q] \in {Idle, Ok})
  BY ActiveAfter DEF TablesInv
<1>3. Pending(t)' <=> \E q \in Puts : Active(q)' /\ Pends(put'[q], t)
  BY <1>2 DEF Pending, Pends, Waiting
<1> QED BY <1>1, <1>3

\* What a request has to have found where it stands.
HasFound(r) ==
    /\ r.at \in {"save", "target", "create", "update"} => r.resource # 0
    /\ r.at = "update" => r.row # 0

LEMMA BoundKept ==
  ASSUME TablesInv, TablesInv', Keeps, BoundInv,
         Free({"unresolved", "fault"})' =>
            /\ \A q \in Puts : Active(q)' => put'[q] = put[q] \/ HasFound(put'[q])
            /\ \A t \in 1 .. Len(targets') :
                  \/ IsBound(t)'
                  \/ \E q \in Puts : Active(q)' /\ Pends(put'[q], t)
                  \/ /\ t \in 1 .. Len(targets) /\ targets'[t] = targets[t]
                     /\ \A q \in Puts : Active(q) /\ Pends(put[q], t) =>
                           Active(q)' /\ Pends(put'[q], t)
  PROVE  BoundInv'
<1>1. SUFFICES ASSUME Free({"unresolved", "fault"})'
               PROVE  /\ \A q \in Puts : Active(q)' => HasFound(put'[q])
                      /\ \A t \in 1 .. Len(targets') : ~Pending(t)' => IsBound(t)'
  BY DEF BoundInv, HasFound
<1>2. Free({"unresolved", "fault"})
  BY <1>1 DEF Free, Keeps
<1>3. /\ \A q \in Puts : Active(q) => HasFound(put[q])
      /\ \A t \in 1 .. Len(targets) : ~Pending(t) => IsBound(t)
  BY <1>2 DEF BoundInv, HasFound
<1>4. ASSUME NEW q \in Puts, Active(q)' PROVE HasFound(put'[q])
  BY <1>1, <1>3, <1>4 DEF Active
<1>5. ASSUME NEW t \in 1 .. Len(targets'), ~Pending(t)' PROVE IsBound(t)'
  <2>1. ~ \E q \in Puts : Active(q)' /\ Pends(put'[q], t)
    BY <1>5, PendingIs
  <2>2. CASE /\ t \in 1 .. Len(targets) /\ targets'[t] = targets[t]
             /\ \A q \in Puts : Active(q) /\ Pends(put[q], t) => Active(q)' /\ Pends(put'[q], t)
    <3>1. ~Pending(t)
      BY <2>1, <2>2, PendingIs
    <3>2. IsBound(t)
      BY <1>3, <2>2, <3>1
    <3>3. PICK r : r = targets[t].resource
      OBVIOUS
    <3>4. r # 0 /\ resources[r].arn = targets[t].arn
      BY <3>2, <3>3 DEF IsBound
    <3>5. r \in 1 .. Len(resources)
      BY <2>2, <3>3, <3>4 DEF TablesInv, TargetsFit
    <3>6. resources'[r].arn = resources[r].arn
      BY <3>5 DEF Keeps
    <3> QED BY <2>2, <3>3, <3>4, <3>6 DEF IsBound
  <2> QED BY <1>1, <1>5, <2>1, <2>2
<1> QED BY <1>4, <1>5

LEMMA BindsIsBound ==
  ASSUME TablesInv, BoundInv, Free({"unresolved", "fault"}), NEW p \in Puts, ~Waiting(p),
         put[p].at \in {"save", "create", "update"}, NEW t, Binds(p, t), UNCHANGED resources
  PROVE  IsBound(t)'
<1>1. Active(p) /\ RequestFits(put[p])
  BY ThisIs DEF TablesInv
<1>2. put[p].resource # 0
  BY <1>1 DEF BoundInv
<1>3. resources[put[p].resource].arn = ThisItem(p).arn
  BY <1>1, <1>2 DEF RequestFits, FindsNamed, ThisItem
<1> QED BY <1>2, <1>3 DEF Binds, IsBound

LEMMA BoundLookup ==
  ASSUME TablesInv, TablesInv', Keeps, BoundInv, NEW p \in Puts, LookupSteps(p)
  PROVE  BoundInv'
<1>1. Looks(p) /\ Active(p) /\ targets' = targets
  BY LookupDoes, ThisIs DEF TablesInv, Looks, tables
<1> SUFFICES ASSUME Free({"unresolved", "fault"})' PROVE BoundInv'
  BY DEF BoundInv
<1>2. Free({"unresolved", "fault"}) /\ "unresolved" \notin mishaps' /\ "fault" \notin mishaps'
  BY DEF Free, Keeps
<1>3. HasFound(put[p])
  BY <1>1, <1>2 DEF BoundInv, HasFound
<1>4. \A q \in Puts \ {p} : put'[q] = put[q]
  BY LookupDoes DEF Goes, Stops
<1>5. Active(p)' => HasFound(put'[p])
  <2>1. CASE Resolve(p) \/ ResolveFails(p)
    BY <1>2, <2>1, ResolveDoes, ActiveAfter DEF TablesInv, Goes, Stops, HasFound
  <2>2. CASE FindConfig(p) \/ FindConfigFails(p)
    BY <1>2, <2>2, FindConfigDoes DEF TablesInv, Goes, HasFound
  <2>3. CASE FindResource(p) \/ FindResourceFails(p)
    BY <1>2, <2>3, FindResourceDoes, ActiveAfter DEF TablesInv, Goes, Stops, HasFound
  <2>4. CASE FindTarget(p) \/ FindTargetFails(p)
    BY <1>2, <1>3, <2>4, FindTargetDoes DEF TablesInv, Goes, HasFound
  <2> QED BY <2>1, <2>2, <2>3, <2>4 DEF LookupSteps
<1>6. ASSUME NEW t, NEW q \in Puts, Active(q), Pends(put[q], t)
      PROVE  Active(q)' /\ Pends(put'[q], t)
  <2>1. CASE q # p
    BY <1>4, <1>6, <2>1 DEF Active
  <2>2. CASE q = p
    <3>1. put[p].at \in {"resolve", "save"}
      BY <1>6, <2>2 DEF Pends
    <3>2. Resolve(p) \/ ResolveFails(p)
      BY <3>1, FindConfigDoes, FindResourceDoes, FindTargetDoes DEF TablesInv, LookupSteps
    <3>3. /\ put'[p] \in Requests /\ put'[p].at = "save" /\ put'[p].i = put[p].i
          /\ put'[p].own = put[p].own /\ put'[p].body = put[p].body
      BY <1>2, <3>2, ResolveDoes DEF TablesInv, Goes
    <3> QED BY <1>6, <2>2, <3>3 DEF Pends, Active
  <2> QED BY <2>1, <2>2
<1>7. Free({"unresolved", "fault"})' =>
         /\ \A q \in Puts : Active(q)' => put'[q] = put[q] \/ HasFound(put'[q])
         /\ \A t \in 1 .. Len(targets') :
               \/ IsBound(t)'
               \/ \E q \in Puts : Active(q)' /\ Pends(put'[q], t)
               \/ /\ t \in 1 .. Len(targets) /\ targets'[t] = targets[t]
                  /\ \A q \in Puts : Active(q) /\ Pends(put[q], t) =>
                        Active(q)' /\ Pends(put'[q], t)
  BY <1>1, <1>4, <1>5, <1>6
<1> QED BY <1>7, BoundKept

\* A request that has written row t, and is to resolve no other row that it was not before.
LEMMA BoundMove ==
  ASSUME TablesInv, TablesInv', Keeps, BoundInv, NEW p \in Puts, ~Waiting(p),
         put[p].at \in {"save", "create", "update"},
         NEW first \in {"resolve", "resource"}, Moves(p, first), mishaps' = mishaps,
         UNCHANGED resources,
         NEW t \in 1 .. Len(targets'), Binds(p, t),
         \A u \in 1 .. Len(targets') : u # t => u \in 1 .. Len(targets) /\ targets'[u] = targets[u],
         put[p].at = "save" => first = "resolve" /\ t = put[p].own + put[p].i
  PROVE  BoundInv'
<1> SUFFICES ASSUME Free({"unresolved", "fault"})' PROVE BoundInv'
  BY DEF BoundInv
<1>1. Free({"unresolved", "fault"})
  BY DEF Free
<1>2. IsBound(t)'
  BY <1>1, BindsIsBound
<1>3. \A q \in Puts \ {p} : put'[q] = put[q]
  BY DEF Moves, Goes, Stops
<1>4. Active(p)' => HasFound(put'[p])
  BY ActiveAfter DEF Moves, Goes, Stops, HasFound
<1>5. ASSUME NEW u \in 1 .. Len(targets'), u # t, NEW q \in Puts, Active(q), Pends(put[q], u)
      PROVE  Active(q)' /\ Pends(put'[q], u)
  <2>1. CASE q # p
    BY <1>3, <1>5, <2>1 DEF Active
  <2>2. CASE q = p
    <3>1. put[p].at = "save" /\ u \in put[p].own + put[p].i .. put[p].own + Len(put[p].body)
      BY <1>5, <2>2 DEF Pends
    <3>2. PICK own \in Nat, i \in Nat, n \in Nat :
             own = put[p].own /\ i = put[p].i /\ n = Len(put[p].body)
      BY ThisIs, BodyIs DEF TablesInv
    <3>3. u \in Int /\ u # own + i /\ u \in own + i .. own + n
      BY <1>5, <3>1, <3>2
    <3>4. u \in own + (i + 1) .. own + n /\ i < n
      BY ONLY <3>3, own \in Nat, i \in Nat, n \in Nat
    <3>5. /\ put'[p] \in Requests /\ put'[p].at = "resolve" /\ put'[p].i = i + 1
          /\ put'[p].own = own /\ put'[p].body = put[p].body
      BY <3>1, <3>2, <3>4 DEF Moves, Goes
    <3> QED BY <2>2, <3>2, <3>4, <3>5 DEF Pends, Active
  <2> QED BY <2>1, <2>2
<1>6. Free({"unresolved", "fault"})' =>
         /\ \A q \in Puts : Active(q)' => put'[q] = put[q] \/ HasFound(put'[q])
         /\ \A u \in 1 .. Len(targets') :
               \/ IsBound(u)'
               \/ \E q \in Puts : Active(q)' /\ Pends(put'[q], u)
               \/ /\ u \in 1 .. Len(targets) /\ targets'[u] = targets[u]
                  /\ \A q \in Puts : Active(q) /\ Pends(put[q], u) =>
                        Active(q)' /\ Pends(put'[q], u)
  BY <1>2, <1>3, <1>4, <1>5
<1> QED BY <1>6, BoundKept

LEMMA BoundWrite ==
  ASSUME TablesInv, TablesInv', Keeps, BoundInv, NEW p \in Puts, WriteSteps(p)
  PROVE  BoundInv'
<1>1. PICK n \in Nat : n = Len(targets)
  BY RowsAre DEF TablesInv
<1>2. CASE SaveResolved(p)
  <2>1. /\ ~Waiting(p) /\ put[p].at = "save" /\ mishaps' = mishaps /\ resources' = resources
        /\ Moves(p, "resolve") /\ Len(targets') = n
    BY <1>1, <1>2, SaveResolvedDoes
  <2>2. PICK t \in 1 .. n : /\ t = put[p].own + put[p].i /\ Binds(p, t)
                            /\ \A u \in 1 .. n : u # t => targets'[u] = targets[u]
    BY <1>1, <1>2, SaveResolvedDoes
  <2> QED BY <1>1, <2>1, <2>2, BoundMove
<1>3. ASSUME ~Waiting(p), put[p].at \in {"create", "update"}, mishaps' = mishaps,
             resources' = resources, Moves(p, "resource"), Adds(1), Binds(p, n + 1)
      PROVE  BoundInv'
  <2>1. PICK t : t = n + 1
    OBVIOUS
  <2>2. /\ t \in 1 .. Len(targets')
        /\ \A u \in 1 .. Len(targets') : u # t => u \in 1 .. Len(targets) /\ targets'[u] = targets[u]
    BY <1>1, <1>3, <2>1 DEF Adds
  <2>3. put[p].at # "save"
    BY <1>3
  <2> QED BY <1>3, <2>1, <2>2, <2>3, BoundMove
<1>4. CASE CreateTarget(p)
  BY <1>1, <1>3, <1>4, CreateTargetDoes
<1>5. CASE UpdateTarget(p)
  <2>1. /\ ~Waiting(p) /\ put[p].at = "update" /\ mishaps' = mishaps /\ resources' = resources
        /\ Moves(p, "resource")
    BY <1>5, UpdateTargetDoes
  <2>2. CASE Adds(1) /\ Binds(p, n + 1)
    BY <1>3, <2>1, <2>2
  <2>3. CASE /\ put[p].row \in 1 .. n /\ Binds(p, put[p].row) /\ Len(targets') = n
             /\ \A u \in 1 .. n : u # put[p].row => targets'[u] = targets[u]
    BY <1>1, <2>1, <2>3, BoundMove
  <2> QED BY <1>1, <1>5, <2>2, <2>3, UpdateTargetDoes
<1> QED BY <1>2, <1>4, <1>5 DEF WriteSteps

\* The rows stay, and so do the requests that have some to resolve.
LEMMA BoundStays ==
  ASSUME TablesInv, TablesInv', Keeps, BoundInv, targets' = targets,
         \A q \in Puts : \/ put'[q] = put[q]
                         \/ /\ Active(q) => put[q].at \notin {"resolve", "save"}
                            /\ Active(q)' => HasFound(put'[q])
  PROVE  BoundInv'
<1>1. ASSUME NEW q \in Puts, NEW t, Active(q), Pends(put[q], t)
      PROVE  Active(q)' /\ Pends(put'[q], t)
  BY <1>1 DEF Pends, Active
<1>2. Free({"unresolved", "fault"})' =>
         /\ \A q \in Puts : Active(q)' => put'[q] = put[q] \/ HasFound(put'[q])
         /\ \A t \in 1 .. Len(targets') :
               \/ IsBound(t)'
               \/ \E q \in Puts : Active(q)' /\ Pends(put'[q], t)
               \/ /\ t \in 1 .. Len(targets) /\ targets'[t] = targets[t]
                  /\ \A q \in Puts : Active(q) /\ Pends(put[q], t) =>
                        Active(q)' /\ Pends(put'[q], t)
  BY <1>1
<1> QED BY <1>2, BoundKept

LEMMA BoundOther ==
  ASSUME TablesInv, TablesInv', Keeps, BoundInv,
         \/ \E p \in Puts, b \in Buckets, body \in Bodies : OtherSteps(p, b, body)
         \/ Restart \/ Resource
  PROVE  BoundInv'
<1>1. CASE "fault" \in mishaps'
  BY <1>1 DEF BoundInv, Free
<1>2. CASE Restart
  BY <1>1, <1>2, RestartDoes
<1>3. CASE Resource
  <2>1. targets' = targets /\ put' = put
    BY <1>3, CreateResourceDoes, DeleteResourceDoes DEF Resource
  <2> QED BY <2>1, BoundStays
<1>4. CASE \E p \in Puts, b \in Buckets, body \in Bodies : OtherSteps(p, b, body)
  <2>1. PICK p \in Puts, b \in Buckets, body \in Bodies : OtherSteps(p, b, body)
    BY <1>4
  <2>2. CASE DeleteConfig(p)
    <3>1. targets' = targets /\ Stops(p) /\ put[p].at = "delete"
      BY <2>2, DeleteConfigDoes
    <3> QED BY <3>1, ActiveAfter, BoundStays DEF Stops
  <2>3. CASE ConfigExists(p, b, body)
    <3>1. targets' = targets /\ Begins(p, b, body, "find", Len(targets))
      BY <2>3, ConfigExistsDoes DEF TablesInv, tables
    <3>2. ~Active(p) /\ put'[p].at = "find" /\ \A q \in Puts \ {p} : put'[q] = put[q]
      BY <3>1, ActiveIs DEF Begins, TablesInv
    <3> QED BY <3>1, <3>2, BoundStays DEF HasFound
  <2>4. CASE ~DeleteConfig(p) /\ ~ConfigExists(p, b, body)
    BY <1>1, <2>1, <2>4, SkipDoes, DeleteFailsDoes, CreateFailsDoes DEF OtherSteps, TablesInv
  <2> QED BY <2>2, <2>3, <2>4
<1> QED BY <1>2, <1>3, <1>4

LEMMA BoundCreate ==
  ASSUME TablesInv, TablesInv', Keeps, BoundInv,
         NEW p \in Puts, NEW b \in Buckets, NEW body \in Bodies, CreateConfig(p, b, body)
  PROVE  BoundInv'
<1>1. PICK m \in Nat, n \in Nat : m = Len(targets) /\ n = Len(body)
  BY RowsAre, BodyIs DEF TablesInv
<1>2. /\ Adds(n) /\ Waiting(p)
      /\ \/ body = <<>> /\ Stops(p)
         \/ body # <<>> /\ Begins(p, b, body, "resolve", m)
  BY <1>1, CreateConfigDoes DEF TablesInv, Begins
<1>3. Len(targets') = m + n /\ \A t \in 1 .. m : targets'[t] = targets[t]
  BY <1>1, <1>2 DEF Adds
<1>4. ~Active(p) /\ \A q \in Puts \ {p} : put'[q] = put[q]
  BY <1>2, ActiveIs DEF Begins, Stops, TablesInv
<1>5. Active(p)' => HasFound(put'[p])
  BY <1>2, ActiveAfter DEF Begins, Stops, HasFound
<1>6. ASSUME NEW q \in Puts, NEW t, Active(q), Pends(put[q], t)
      PROVE  Active(q)' /\ Pends(put'[q], t)
  BY <1>4, <1>6 DEF Active
<1>7. ASSUME NEW t \in 1 .. Len(targets'), t \notin 1 .. m
      PROVE  Active(p)' /\ Pends(put'[p], t)
  <2>1. body # <<>>
    BY <1>1, <1>3, <1>7, BodyIs
  <2>2. /\ put'[p] \in Requests /\ put'[p].at = "resolve" /\ put'[p].i = 1 /\ put'[p].own = m
        /\ put'[p].body = body
    BY <1>2, <2>1 DEF Begins
  <2>3. t \in m + 1 .. m + n
    BY <1>3, <1>7
  <2> QED BY <1>1, <2>2, <2>3 DEF Pends, Active
<1>8. Free({"unresolved", "fault"})' =>
         /\ \A q \in Puts : Active(q)' => put'[q] = put[q] \/ HasFound(put'[q])
         /\ \A t \in 1 .. Len(targets') :
               \/ IsBound(t)'
               \/ \E q \in Puts : Active(q)' /\ Pends(put'[q], t)
               \/ /\ t \in 1 .. Len(targets) /\ targets'[t] = targets[t]
                  /\ \A q \in Puts : Active(q) /\ Pends(put[q], t) =>
                        Active(q)' /\ Pends(put'[q], t)
  BY <1>1, <1>3, <1>4, <1>5, <1>6, <1>7
<1> QED BY <1>8, BoundKept

LEMMA BoundHolds ==
  ASSUME TablesInv, BoundInv, Next
  PROVE  BoundInv'
<1>1. TablesInv' /\ Keeps
  BY TablesInvHolds
<1>2. CASE \E p \in Puts : LookupSteps(p)
  BY <1>1, <1>2, BoundLookup
<1>3. CASE \E p \in Puts : WriteSteps(p)
  BY <1>1, <1>3, BoundWrite
<1>4. CASE \E p \in Puts, b \in Buckets, body \in Bodies : CreateConfig(p, b, body)
  BY <1>1, <1>4, BoundCreate
<1>5. CASE \/ \E p \in Puts, b \in Buckets, body \in Bodies : OtherSteps(p, b, body)
           \/ Restart \/ Resource
  BY <1>1, <1>5, BoundOther
<1> QED BY <1>2, <1>3, <1>4, <1>5, NextIs

-----------------------------------------------------------------------------
(* What a PUT that was accepted has done. *)

\* A configuration goes with a request for its bucket, which ends with it.
LEMMA ConfigsAfter ==
  ASSUME TablesInv, Next, NEW b \in Buckets, configs[b] = "live", configs'[b] # "live"
  PROVE  \E p \in Puts : /\ Active(p) /\ DeleteConfig(p) /\ configs'[b] = "deleted"
                         /\ put[p].config = b \/ put[p].config = NoConfig
<1>1. CASE \E p \in Puts : LookupSteps(p)
  BY <1>1, LookupDoes DEF Looks, tables
<1>2. CASE \E p \in Puts : WriteSteps(p)
  BY <1>2, SaveResolvedDoes, CreateTargetDoes, UpdateTargetDoes DEF WriteSteps
<1>3. CASE \E p \in Puts, c \in Buckets, body \in Bodies : OtherSteps(p, c, body)
  <2>1. PICK p \in Puts, c \in Buckets, body \in Bodies : OtherSteps(p, c, body)
    BY <1>3
  <2>2. DeleteConfig(p)
    BY <2>1, SkipDoes, DeleteFailsDoes, ConfigExistsDoes, CreateFailsDoes
       DEF OtherSteps, TablesInv, Looks, tables
  <2> QED BY <2>2, DeleteConfigDoes, ActiveIs DEF TablesInv
<1>4. CASE \E p \in Puts, c \in Buckets, body \in Bodies : CreateConfig(p, c, body)
  BY <1>4, CreateConfigDoes DEF TablesInv
<1>5. CASE Restart \/ Resource
  BY <1>5, RestartDoes, CreateResourceDoes, DeleteResourceDoes DEF Resource, tables
<1> QED BY <1>1, <1>2, <1>3, <1>4, <1>5, NextIs

LEMMA LiveHolds ==
  ASSUME TablesInv, RaceInv, LiveInv, Next
  PROVE  LiveInv'
<1>1. TablesInv' /\ Keeps
  BY TablesInvHolds
<1> SUFFICES ASSUME Free({"race", "noConfig"})', NEW q \in Puts, Active(q)', put'[q].at # "find"
             PROVE  configs'[put'[q].bucket] = "live"
  BY DEF LiveInv
<1>2. Free({"race", "noConfig"}) /\ "race" \notin mishaps' /\ "noConfig" \notin mishaps'
  BY <1>1 DEF Free, Keeps
<1>3. ASSUME Active(q), put[q].at # "find", put'[q].bucket = put[q].bucket
      PROVE  configs'[put'[q].bucket] = "live"
  <2>1. PICK b \in Buckets : b = put[q].bucket /\ configs[b] = "live"
    BY <1>2, <1>3, ThisIs, ActiveIs DEF LiveInv, TablesInv
  <2>2. ASSUME configs'[b] # "live" PROVE FALSE
    <3>1. PICK p \in Puts : Active(p) /\ DeleteConfig(p) /\ (put[p].config = b \/ put[p].config = NoConfig)
      BY <2>1, <2>2, ConfigsAfter
    <3>2. /\ RequestFits(put[p]) /\ "noConfig" \notin mishaps /\ "race" \notin mishaps
          /\ put[p].bucket \in Buckets
      BY <1>2, <3>1 DEF TablesInv, Free, Active, Requests
    <3>3. put[p].bucket = b
      BY <2>1, <3>1, <3>2, NothingAssumption DEF RequestFits
    <3>4. p = q
      BY <1>3, <2>1, <3>1, <3>2, <3>3 DEF RaceInv
    <3> QED BY <3>1, <3>4, DeleteConfigDoes, ActiveAfter DEF Stops
  <2> QED BY <1>3, <2>1, <2>2
<1>4. CASE \E p \in Puts : LookupSteps(p)
  <2>1. PICK p \in Puts : LookupSteps(p)
    BY <1>4
  <2>2. CASE q = p /\ (FindConfig(p) \/ FindConfigFails(p))
    <3>1. /\ UNCHANGED configs
          /\ configs[put[p].bucket] = "live" \/ "noConfig" \in mishaps'
          /\ put'[p].bucket = put[p].bucket
      BY <2>2, FindConfigDoes DEF TablesInv, Goes, Looks, tables
    <3> QED BY <1>2, <2>2, <3>1
  <2>3. CASE q = p /\ ~(FindConfig(p) \/ FindConfigFails(p))
    <3>1. Active(p) /\ put[p].at # "find"
      BY <2>1, <2>3, ResolveDoes, FindResourceDoes, FindTargetDoes, ActiveIs
         DEF TablesInv, LookupSteps, Looks
    <3>2. put'[p].bucket = put[p].bucket
      BY <2>1, <2>3, LookupDoes, ActiveAfter DEF Stops, Goes
    <3> QED BY <1>3, <2>3, <3>1, <3>2
  <2>4. CASE q # p
    <3>1. put'[q] = put[q] /\ Active(q)
      BY <2>1, <2>4, LookupDoes DEF Stops, Goes, Active
    <3> QED BY <1>3, <3>1
  <2> QED BY <2>2, <2>3, <2>4
<1>5. CASE \E p \in Puts : WriteSteps(p)
  <2>1. PICK p \in Puts, first \in Ats : /\ ~Waiting(p) /\ put[p].at \in {"save", "create", "update"}
                                         /\ Moves(p, first)
    BY <1>5, SaveResolvedDoes, CreateTargetDoes, UpdateTargetDoes DEF WriteSteps, Ats
  <2>2. Active(q) /\ put[q].at # "find" /\ put'[q].bucket = put[q].bucket
    <3>1. CASE q = p
      BY <2>1, <3>1, ActiveAfter, ActiveIs DEF Moves, Goes, Stops, TablesInv
    <3>2. CASE q # p
      BY <2>1, <3>2 DEF Moves, Goes, Stops, Active
    <3> QED BY <3>1, <3>2
  <2> QED BY <1>3, <2>2
<1>6. CASE \E p \in Puts, b \in Buckets, body \in Bodies : OtherSteps(p, b, body)
  <2>1. PICK p \in Puts, b \in Buckets, body \in Bodies : OtherSteps(p, b, body)
    BY <1>6
  <2>2. \A s \in Puts \ {p} : put'[s] = put[s]
    BY <2>1, SkipDoes, DeleteConfigDoes, DeleteFailsDoes, ConfigExistsDoes, CreateFailsDoes
       DEF OtherSteps, TablesInv, Goes, Stops, Begins
  <2>3. CASE q = p
    <3>1. SaveResolvedFails(p) \/ WriteFails(p)
      BY <2>1, <2>3, DeleteConfigDoes, DeleteFailsDoes, ConfigExistsDoes, CreateFailsDoes, ActiveAfter
         DEF OtherSteps, TablesInv, Stops, Begins
    <3>2. Active(p) /\ put[p].at # "find" /\ put'[p].bucket = put[p].bucket
      BY <2>3, <3>1, SkipDoes, ActiveIs, ActiveAfter DEF TablesInv, Looks, Goes, Stops
    <3> QED BY <1>3, <2>3, <3>2
  <2>4. CASE q # p
    <3>1. put'[q] = put[q] /\ Active(q)
      BY <2>2, <2>4 DEF Active
    <3> QED BY <1>3, <3>1
  <2> QED BY <2>3, <2>4
<1>7. CASE \E p \in Puts, b \in Buckets, body \in Bodies : CreateConfig(p, b, body)
  <2>1. PICK p \in Puts, b \in Buckets, body \in Bodies : CreateConfig(p, b, body)
    BY <1>7
  <2>2. /\ configs'[b] = "live"
        /\ \/ Stops(p)
           \/ Begins(p, b, body, "resolve", Len(targets))
    BY <2>1, CreateConfigDoes DEF TablesInv
  <2>3. CASE q = p
    BY <2>2, <2>3, ActiveAfter DEF Stops, Begins
  <2>4. CASE q # p
    <3>1. put'[q] = put[q] /\ Active(q)
      BY <2>2, <2>4 DEF Active, Stops, Begins
    <3> QED BY <1>3, <3>1
  <2> QED BY <2>3, <2>4
<1>8. CASE Restart
  BY <1>8, RestartDoes, ActiveAfter
<1>9. CASE Resource
  <2>1. put' = put
    BY <1>9, CreateResourceDoes, DeleteResourceDoes DEF Resource
  <2> QED BY <1>3, <2>1 DEF Active
<1> QED BY <1>4, <1>5, <1>6, <1>7, <1>8, <1>9, NextIs

\* What a write does to the rows: the item's is bound, and the others stay.
LEMMA WriteDoes ==
  ASSUME TablesInv, NEW p \in Puts, WriteSteps(p), "noConfig" \notin mishaps
  PROVE  /\ Active(p) /\ put[p].at \in {"save", "create", "update"} /\ mishaps' = mishaps
         /\ configs' = configs /\ resources' = resources
         /\ \E first \in {"resolve", "resource"} :
               Moves(p, first) /\ (first = "resolve" => put[p].at = "save")
         /\ \E t \in 1 .. Len(targets') :
               /\ Binds(p, t)
               /\ put[p].at = "save" => t = put[p].own + put[p].i
               /\ put[p].at = "update" /\ put[p].row # 0 => t = put[p].row /\ t \in 1 .. Len(targets)
               /\ put[p].at # "update" => targets'[t].rule = ThisItem(p).rule
               /\ \/ /\ targets'[t].config = put[p].bucket
                     /\ ThisItem(p).ident # NoIdent \/ put[p].at = "save" =>
                           targets'[t].ident = ThisItem(p).ident
                  \/ targets'[t].config = NoConfig /\ put[p].at = "update" /\ put[p].row = 0
               /\ \A u \in 1 .. Len(targets') : u # t =>
                     u \in 1 .. Len(targets) /\ targets'[u] = targets[u]
               /\ t \in 1 .. Len(targets) =>
                     /\ targets[t].kind = targets'[t].kind /\ targets[t].ident = targets'[t].ident
                     /\ targets[t].config = targets'[t].config
<1>1. PICK n \in Nat : n = Len(targets)
  BY RowsAre DEF TablesInv
<1>2. Keeps
  BY WritesKeepInv DEF WriteSteps
<1>3. ASSUME Adds(1)
      PROVE  /\ n + 1 \in 1 .. Len(targets') /\ n + 1 \notin 1 .. n
             /\ \A u \in 1 .. Len(targets') : u # n + 1 => u \in 1 .. n /\ targets'[u] = targets[u]
  BY <1>1, <1>3 DEF Adds
<1>4. CASE SaveResolved(p)
  <2>1. /\ Active(p) /\ put[p].at = "save" /\ UNCHANGED <<configs, resources, mishaps>>
        /\ Moves(p, "resolve") /\ Len(targets') = n
    BY <1>1, <1>4, SaveResolvedDoes, ActiveIs DEF TablesInv
  <2>2. PICK t \in 1 .. n :
           /\ t = put[p].own + put[p].i /\ Binds(p, t)
           /\ targets'[t].ident = ThisItem(p).ident /\ targets'[t].rule = ThisItem(p).rule
           /\ targets'[t].config = put[p].bucket
           /\ \A u \in 1 .. n : u # t => targets'[u] = targets[u]
    BY <1>1, <1>4, SaveResolvedDoes
  <2> QED BY <1>1, <1>2, <2>1, <2>2 DEF Keeps
<1>5. CASE CreateTarget(p)
  <2>1. /\ Active(p) /\ put[p].at = "create" /\ UNCHANGED <<configs, resources, mishaps>>
        /\ Moves(p, "resource") /\ Adds(1) /\ Binds(p, n + 1)
        /\ targets'[n + 1].ident = ThisItem(p).ident /\ targets'[n + 1].rule = ThisItem(p).rule
        /\ targets'[n + 1].config = put[p].config
    BY <1>1, <1>5, CreateTargetDoes, ActiveIs DEF TablesInv
  <2>2. put[p].config = put[p].bucket
    BY <2>1 DEF TablesInv, RequestFits
  <2> QED BY <1>1, <1>3, <2>1, <2>2
<1>6. CASE UpdateTarget(p)
  <2>1. /\ Active(p) /\ put[p].at = "update" /\ UNCHANGED <<configs, resources, mishaps>>
        /\ Moves(p, "resource")
    BY <1>6, UpdateTargetDoes, ActiveIs DEF TablesInv
  <2>2. CASE /\ put[p].row = 0 /\ Adds(1) /\ Binds(p, n + 1)
             /\ targets'[n + 1].config = NoConfig
    BY <1>1, <1>3, <2>1, <2>2
  <2>3. CASE /\ put[p].row # 0 /\ put[p].row \in 1 .. n /\ Binds(p, put[p].row)
             /\ Len(targets') = n
             /\ targets'[put[p].row].ident = targets[put[p].row].ident
             /\ targets'[put[p].row].kind = targets[put[p].row].kind
             /\ targets'[put[p].row].config = targets[put[p].row].config
             /\ \A u \in 1 .. n : u # put[p].row => targets'[u] = targets[u]
    <3>1. RequestFits(put[p]) /\ put[p].bucket \in Buckets
      BY <2>1, ThisIs, ActiveIs DEF TablesInv
    <3>2. put[p].config = put[p].bucket /\ put[p].config # NoConfig
      BY <3>1, NothingAssumption DEF RequestFits
    <3>3. /\ ThisItem(p).ident # NoIdent => targets[put[p].row].ident = ThisItem(p).ident
          /\ targets[put[p].row].config = put[p].bucket
      BY <2>1, <2>3, <3>1, <3>2 DEF RequestFits, FindsMatching, ThisItem
    <3> QED BY <1>1, <2>1, <2>3, <3>3
  <2> QED BY <1>1, <1>6, <2>2, <2>3, UpdateTargetDoes
<1> QED BY <1>4, <1>5, <1>6 DEF WriteSteps

\* Everything else leaves the rows as they are.
LEMMA RowsAfter ==
  ASSUME TablesInv, Next
  PROVE  \/ targets' = targets
         \/ \E p \in Puts : WriteSteps(p)
         \/ \E p \in Puts, b \in Buckets, body \in Bodies : CreateConfig(p, b, body)
<1>1. CASE \E p \in Puts : LookupSteps(p)
  BY <1>1, LookupDoes DEF Looks, tables
<1>2. CASE \E p \in Puts, b \in Buckets, body \in Bodies : OtherSteps(p, b, body)
  BY <1>2, SkipDoes, DeleteConfigDoes, DeleteFailsDoes, ConfigExistsDoes, CreateFailsDoes
     DEF OtherSteps, TablesInv, Looks, tables
<1>3. CASE Restart \/ Resource
  BY <1>3, RestartDoes, CreateResourceDoes, DeleteResourceDoes DEF Resource, tables
<1> QED BY <1>1, <1>2, <1>3, NextIs

\* A row of a bucket changes in a request for it.
LEMMA RowChanges ==
  ASSUME TablesInv, Next, "noConfig" \notin mishaps', NEW t \in 1 .. Len(targets),
         targets'[t] # targets[t]
  PROVE  \E p \in Puts : Active(p) /\ WriteSteps(p) /\ put[p].bucket = targets[t].config
<1>1. Len(targets) \in Nat
  BY RowsAre DEF TablesInv
<1>2. "noConfig" \notin mishaps /\ Len(targets) <= Len(targets') /\ Len(targets') \in Nat
  BY TablesInvHolds, LenProperties DEF Keeps, TablesInv, TablesTyped
<1>3. PICK p \in Puts : WriteSteps(p)
  BY <1>1, RowsAfter, CreateConfigDoes DEF Adds, TablesInv
<1>4. t \in 1 .. Len(targets')
  BY <1>1, <1>2
<1>5. PICK u \in 1 .. Len(targets') :
         /\ \/ targets'[u].config = put[p].bucket
            \/ put[p].at = "update" /\ put[p].row = 0 /\ targets'[u].config = NoConfig
         /\ \A v \in 1 .. Len(targets') : v # u => v \in 1 .. Len(targets) /\ targets'[v] = targets[v]
         /\ u \in 1 .. Len(targets) => targets[u].config = targets'[u].config
  BY <1>2, <1>3, WriteDoes
<1>6. t = u /\ targets[t].config = targets'[t].config
  BY <1>4, <1>5
<1>7. Active(p) /\ put[p].at \in {"save", "create", "update"}
  BY <1>2, <1>3, WriteDoes
<1>8. CASE put[p].at = "update" /\ put[p].row = 0
  <2>1. UpdateTarget(p)
    BY <1>3, <1>8, SaveResolvedDoes, CreateTargetDoes DEF WriteSteps
  <2>2. Adds(1)
    BY <1>8, <2>1, UpdateTargetDoes
  <2> QED BY <2>2 DEF Adds
<1> QED BY <1>3, <1>5, <1>6, <1>7, <1>8

\* A new row of a bucket is made by a request for it.
LEMMA RowIsNew ==
  ASSUME TablesInv, Next, "noConfig" \notin mishaps', NEW t \in 1 .. Len(targets'),
         t \notin 1 .. Len(targets), targets'[t].config # NoConfig
  PROVE  \/ \E p \in Puts : Active(p) /\ WriteSteps(p) /\ put[p].bucket = targets'[t].config
         \/ \E p \in Puts, body \in Bodies \ {<<>>} : CreateConfig(p, targets'[t].config, body)
<1>1. TablesInv' /\ Keeps /\ "noConfig" \notin mishaps
  BY TablesInvHolds DEF Keeps
<1>2. PICK m \in Nat, n \in Nat : m = Len(targets) /\ n = Len(targets') /\ m <= n
  BY <1>1, LenProperties DEF TablesInv, TablesTyped, Keeps
<1>3. CASE targets' = targets
  BY <1>3
<1>4. CASE \E p \in Puts : WriteSteps(p)
  <2>1. PICK p \in Puts : WriteSteps(p)
    BY <1>4
  <2>2. PICK u \in 1 .. n :
           /\ targets'[u].config \in {put[p].bucket, NoConfig}
           /\ \A v \in 1 .. n : v # u => v \in 1 .. m
    BY <1>1, <1>2, <2>1, WriteDoes
  <2>3. t = u /\ Active(p)
    BY <1>1, <1>2, <2>1, <2>2, WriteDoes
  <2> QED BY <2>1, <2>2, <2>3
<1>5. CASE \E p \in Puts, c \in Buckets, body \in Bodies : CreateConfig(p, c, body)
  <2>1. PICK p \in Puts, c \in Buckets, body \in Bodies : CreateConfig(p, c, body)
    BY <1>5
  <2>2. PICK k \in Nat : k = Len(body)
    BY BodyIs
  <2>3. n = m + k /\ \A j \in 1 .. k : targets'[m + j] = NewTarget(body[j], c, 0)
    BY <1>2, <2>1, <2>2, CreateConfigDoes DEF Adds, TablesInv
  <2>4. PICK j \in 1 .. k : t = m + j
    <3>1. t - m \in 1 .. k /\ t = m + (t - m)
      BY <1>2, <2>3
    <3> QED BY <3>1
  <2>5. PICK row : row = targets'[t] /\ row = NewTarget(body[j], c, 0)
    BY <2>3, <2>4
  <2>6. body # <<>>
    BY <2>2, <2>4, BodyIs
  <2> QED BY <2>1, <2>5, <2>6 DEF NewTarget
<1> QED BY <1>3, <1>4, <1>5, RowsAfter

\* A row that stays is as bound as before.
LEMMA IsBoundStays ==
  ASSUME TablesInv, Keeps, NEW t \in 1 .. Len(targets), IsBound(t), targets'[t] = targets[t]
  PROVE  IsBound(t)'
<1>1. PICK r : r = targets[t].resource
  OBVIOUS
<1>2. r # 0 /\ resources[r].arn = targets[t].arn
  BY <1>1 DEF IsBound
<1>3. r \in 1 .. Len(resources)
  BY <1>1, <1>2 DEF TablesInv, TargetsFit
<1>4. resources'[r].arn = resources[r].arn
  BY <1>3 DEF Keeps
<1> QED BY <1>1, <1>2, <1>4 DEF IsBound

\* The item that was done stays done if its row does.
LEMMA DoneStays ==
  ASSUME TablesInv, Keeps, NEW r, NEW j, DoneIn(r, j),
         \A t \in 1 .. Len(targets) :
            /\ targets[t].config = r.bucket
            /\ targets[t].kind = r.body[j].kind /\ targets[t].ident = r.body[j].ident
            /\ r.at \in {"resolve", "save"} => t = r.own + j
            => targets'[t] = targets[t]
  PROVE  DoneIn(r, j)'
<1>1. PICK t \in 1 .. Len(targets) :
         /\ r.at \in {"resolve", "save"} => t = r.own + j
         /\ targets[t].config = r.bucket /\ targets[t].kind = r.body[j].kind
         /\ targets[t].ident = r.body[j].ident /\ targets[t].arn = r.body[j].arn
         /\ t > r.own => targets[t].rule = r.body[j].rule
         /\ IsBound(t)
  BY DEF DoneIn
<1>2. targets'[t] = targets[t] /\ IsBound(t)'
  BY <1>1, IsBoundStays
<1>3. t \in 1 .. Len(targets')
  BY <1>1, LenProperties DEF Keeps, TablesInv, TablesTyped
<1> QED BY <1>1, <1>2, <1>3 DEF DoneIn

\* The record of a request that goes on, in place of the old one.
LEMMA DoneGoesOn ==
  ASSUME NEW r, NEW s, NEW j, DoneIn(r, j)', s.bucket = r.bucket, s.body = r.body, s.own = r.own,
         s.at \in {"resolve", "save"} => r.at \in {"resolve", "save"}
  PROVE  DoneIn(s, j)'
BY DEF DoneIn

NoMishap == Free(MishapKinds \ {"recreated"})

LEMMA NoMishapIs ==
  ASSUME Keeps, NoMishap'
  PROVE  /\ NoMishap
         /\ \A kind \in MishapKinds \ {"recreated"} : kind \notin mishaps /\ kind \notin mishaps'
BY DEF Keeps, NoMishap, Free, MishapKinds

\* A request that has written its item has done all up to it.
LEMMA WriteIsDone ==
  ASSUME TablesInv, TablesInv', Keeps, RepeatedInv, BoundInv, DoneInv, NewRowsInv, NoMishap',
         NEW p \in Puts, WriteSteps(p), NEW r \in Requests, r = put[p],
         NEW j \in 1 .. Len(r.body), j <= r.i
  PROVE  DoneIn(r, j)'
<1>1. /\ NoMishap /\ "noConfig" \notin mishaps /\ "repeated" \notin mishaps
      /\ Free({"unresolved", "fault"})
  BY NoMishapIs DEF MishapKinds, Free
<1>2. /\ Active(p) /\ put[p].at \in {"save", "create", "update"} /\ resources' = resources
      /\ RequestFits(put[p]) /\ ~Waiting(p)
  BY <1>1, WriteDoes, ActiveIs DEF TablesInv
<1>3. PICK t \in 1 .. Len(targets') :
         /\ Binds(p, t)
         /\ put[p].at = "save" => t = put[p].own + put[p].i
         /\ put[p].at = "update" /\ put[p].row # 0 => t = put[p].row /\ t \in 1 .. Len(targets)
         /\ put[p].at # "update" => targets'[t].rule = ThisItem(p).rule
         /\ \/ /\ targets'[t].config = put[p].bucket
               /\ ThisItem(p).ident # NoIdent \/ put[p].at = "save" =>
                     targets'[t].ident = ThisItem(p).ident
            \/ targets'[t].config = NoConfig /\ put[p].at = "update" /\ put[p].row = 0
         /\ \A u \in 1 .. Len(targets') : u # t => u \in 1 .. Len(targets) /\ targets'[u] = targets[u]
         /\ t \in 1 .. Len(targets) =>
               /\ targets[t].kind = targets'[t].kind /\ targets[t].ident = targets'[t].ident
               /\ targets[t].config = targets'[t].config
  BY <1>1, WriteDoes
<1>4. put[p].at = "update" => put[p].row # 0
  BY <1>1, <1>2 DEF BoundInv
<1>5. put[p].at \in {"create", "update"} => ThisItem(p).ident # NoIdent
  BY <1>1, <1>2 DEF DoneInv, NoMishap
<1>6. targets'[t].config = put[p].bucket /\ targets'[t].ident = ThisItem(p).ident
  BY <1>2, <1>3, <1>4, <1>5
<1>7. targets'[t].kind = ThisItem(p).kind /\ targets'[t].arn = ThisItem(p).arn
  BY <1>3 DEF Binds
<1>8. put[p].body \in Bodies /\ put[p].own \in Nat /\ put[p].i \in Nat
  BY <1>2, ThisIs DEF TablesInv
<1>9. CASE j = put[p].i
  <2>1. IsBound(t)'
    BY <1>1, <1>2, <1>3, BindsIsBound
  <2>2. put[p].at # "resolve"
    BY <1>2
  <2>3. /\ targets'[t].kind = r.body[j].kind /\ targets'[t].ident = r.body[j].ident
        /\ targets'[t].arn = r.body[j].arn /\ targets'[t].config = r.bucket
    BY <1>6, <1>7, <1>9 DEF ThisItem
  <2>4. r.at \in {"resolve", "save"} => t = r.own + j
    BY <1>3, <1>9, <2>2
  <2>5. t > r.own => targets'[t].rule = r.body[j].rule
    <3>1. CASE put[p].at # "update"
      BY <1>3, <1>9, <3>1 DEF ThisItem
    <3>2. CASE put[p].at = "update"
      <4>1. SUFFICES ASSUME t > r.own PROVE FALSE
        OBVIOUS
      <4>2. t \in 1 .. Len(targets) /\ targets[t].config = r.bucket
        BY <1>3, <1>4, <1>6, <3>2
      <4>3. MadeBy(r, t)
        BY <1>1, <1>2, <3>2, <4>1, <4>2 DEF NewRowsInv, NoMishap
      <4>4. PICK k \in 1 .. Len(r.body) :
               k < r.i /\ targets[t].kind = r.body[k].kind /\ targets[t].ident = r.body[k].ident
        BY <4>3 DEF MadeBy
      <4>5. /\ targets[t].kind = r.body[j].kind /\ targets[t].ident = r.body[j].ident
            /\ r.body[j].ident # NoIdent
        BY <1>3, <1>5, <1>9, <2>3, <3>2, <4>2 DEF ThisItem
      <4>6. k < j /\ r.body[k].kind = r.body[j].kind /\ r.body[k].ident = r.body[j].ident
            /\ r.body[k].ident # NoIdent
        BY <1>9, <4>4, <4>5
      <4>7. Repeated(r.body)
        BY <1>8, <4>4, <4>6, BodyIs DEF Repeated
      <4> QED BY <1>1, <1>2, <4>7 DEF RepeatedInv
    <3> QED BY <3>1, <3>2
  <2> QED BY <2>1, <2>3, <2>4, <2>5 DEF DoneIn
<1>10. CASE j # put[p].i
  <2>1. j < put[p].i
    BY <1>8, <1>10
  <2>2. DoneIn(r, j)
    BY <1>1, <1>2, <2>1 DEF DoneInv, NoMishap
  <2>3. ASSUME NEW u \in 1 .. Len(targets), targets[u].config = r.bucket,
               targets[u].kind = r.body[j].kind, targets[u].ident = r.body[j].ident,
               r.at \in {"resolve", "save"} => u = r.own + j
        PROVE  targets'[u] = targets[u]
    <3>1. u \in 1 .. Len(targets')
      BY <2>3, LenProperties DEF Keeps, TablesInv, TablesTyped
    <3>2. CASE u # t
      BY <1>3, <3>1, <3>2
    <3>3. CASE u = t
      <4>1. CASE put[p].at = "save"
        <5>1. put[p].own + j = put[p].own + put[p].i
          BY <1>3, <2>3, <3>3, <4>1
        <5> QED BY <1>8, <1>10, <5>1
      <4>2. CASE put[p].at # "save"
        <5>1. /\ put[p].body[j].kind = ThisItem(p).kind /\ put[p].body[j].ident = ThisItem(p).ident
              /\ ThisItem(p).ident # NoIdent
          BY <1>2, <1>3, <1>5, <1>6, <1>7, <2>3, <3>3, <4>2
        <5>2. put[p].i \in 1 .. Len(put[p].body)
          BY <1>2, ItemIs DEF TablesInv
        <5>3. Repeated(put[p].body)
          BY <1>8, <2>1, <5>1, <5>2, BodyIs DEF Repeated, ThisItem
        <5> QED BY <1>1, <1>2, <5>3 DEF RepeatedInv
      <4> QED BY <4>1, <4>2
    <3> QED BY <3>2, <3>3
  <2> QED BY <2>2, <2>3, DoneStays
<1> QED BY <1>9, <1>10

\* What a request has done stays done while others go on.
LEMMA OthersStayDone ==
  ASSUME TablesInv, Keeps, RaceInv, DoneInv, NoMishap', Next, NEW q \in Puts, Active(q),
         ~WriteSteps(q), NEW r \in Requests, r = put[q], NEW j \in 1 .. Len(r.body), j < r.i
  PROVE  DoneIn(r, j)'
<1>1. NoMishap /\ "noConfig" \notin mishaps' /\ "race" \notin mishaps
  BY NoMishapIs DEF MishapKinds
<1>2. DoneIn(r, j)
  BY <1>1 DEF DoneInv, NoMishap
<1>3. ASSUME NEW t \in 1 .. Len(targets), targets[t].config = r.bucket
      PROVE  targets'[t] = targets[t]
  BY <1>1, <1>3, RowChanges DEF RaceInv
<1> QED BY <1>2, <1>3, DoneStays

LEMMA DoneAfter ==
  ASSUME \A q \in Puts, s \in Requests :
            NoMishap' /\ s = put'[q] =>
               /\ s.at \in {"create", "update"} => s.body[s.i].ident # NoIdent
               /\ \A j \in 1 .. Len(s.body) : j < s.i => DoneIn(s, j)'
  PROVE  DoneInv'
<1>1. SUFFICES ASSUME NoMishap', NEW q \in Puts, Active(q)'
               PROVE  (/\ put[q].at \in {"create", "update"} => ThisItem(q).ident # NoIdent
                       /\ \A j \in 1 .. Len(put[q].body) : j < put[q].i => DoneIn(put[q], j))'
  BY DEF DoneInv, NoMishap
<1>2. PICK s \in Requests : s = put'[q]
  BY <1>1 DEF Active
<1>3. /\ s.at \in {"create", "update"} => s.body[s.i].ident # NoIdent
      /\ \A j \in 1 .. Len(s.body) : j < s.i => DoneIn(s, j)'
  BY <1>1, <1>2
<1> QED BY <1>2, <1>3 DEF ThisItem, DoneIn

\* A later PUT that is on its way began in this step, or before it.
LEMMA LaterGoesOn ==
  ASSUME TablesInv, Next, NEW q \in Puts, NEW s \in Requests, s = put'[q],
         s.at \notin {"resolve", "save"}
  PROVE  \/ s.own = Len(targets) /\ targets' = targets
         \/ /\ Active(q) /\ s.bucket = put[q].bucket /\ s.body = put[q].body
            /\ s.own = put[q].own /\ put[q].at \notin {"resolve", "save"}
            /\ s.i = put[q].i \/ (s.i = put[q].i + 1 /\ put[q].i < Len(put[q].body))
            /\ WriteSteps(q) => s.i = put[q].i + 1
<1>1. Active(q)' /\ ~Stops(q)
  BY ActiveAfter, TablesInvHolds DEF Active, Stops, Requests, Idle, Ok, Ats
<1>2. CASE s = put[q] /\ ~WriteSteps(q)
  BY <1>2 DEF Active
<1>3. CASE LookupSteps(q)
  <2>1. Active(q) /\ ~Waiting(q) /\ ~WriteSteps(q)
    <3>1. ~Waiting(q) /\ put[q].at \notin {"save", "create", "update"}
      BY <1>3, ResolveDoes, FindConfigDoes, FindResourceDoes, FindTargetDoes, LookupDoes
         DEF LookupSteps, TablesInv, Looks
    <3> QED BY <3>1, ActiveIs, SaveResolvedDoes, CreateTargetDoes, UpdateTargetDoes
            DEF WriteSteps, TablesInv
  <2>2. s.bucket = put[q].bucket /\ s.body = put[q].body /\ s.own = put[q].own /\ s.i = put[q].i
    BY <1>1, <1>3, LookupDoes DEF Goes
  <2>3. put[q].at \notin {"resolve", "save"}
    <3>1. CASE Resolve(q) \/ ResolveFails(q)
      BY <1>1, <2>1, <3>1, ResolveDoes DEF TablesInv, Goes
    <3>2. CASE ~(Resolve(q) \/ ResolveFails(q))
      BY <1>3, <2>1, <3>2, FindConfigDoes, FindResourceDoes, FindTargetDoes
         DEF TablesInv, LookupSteps
    <3> QED BY <3>1, <3>2
  <2> QED BY <2>1, <2>2, <2>3
<1>4. CASE WriteSteps(q)
  <2>1. PICK first \in Ats : /\ ~Waiting(q) /\ put[q].at \in {"save", "create", "update"}
                             /\ Moves(q, first) /\ (put[q].at = "save" => first = "resolve")
    BY <1>4, SaveResolvedDoes, CreateTargetDoes, UpdateTargetDoes DEF WriteSteps, Ats
  <2>2. Goes(q, first, put[q].i + 1, put[q].config, 0, 0) /\ put[q].i < Len(put[q].body)
    BY <1>1, <2>1 DEF Moves
  <2> QED BY <2>1, <2>2, ActiveIs DEF Goes, TablesInv
<1>5. CASE s # put[q] /\ ~LookupSteps(q) /\ ~WriteSteps(q)
  <2>1. CASE \E p \in Puts : LookupSteps(p)
    BY <1>5, <2>1, LookupDoes DEF Stops, Goes
  <2>2. CASE \E p \in Puts : WriteSteps(p)
    BY <1>5, <2>2, SaveResolvedDoes, CreateTargetDoes, UpdateTargetDoes
       DEF WriteSteps, Moves, Stops, Goes
  <2>3. CASE \E p \in Puts, b \in Buckets, body \in Bodies : CreateConfig(p, b, body)
    BY <1>1, <1>5, <2>3, CreateConfigDoes DEF TablesInv, Stops, Begins
  <2>4. CASE \E p \in Puts, b \in Buckets, body \in Bodies : OtherSteps(p, b, body)
    <3>1. PICK p \in Puts, b \in Buckets, body \in Bodies : OtherSteps(p, b, body)
      BY <2>4
    <3>2. CASE SaveResolvedFails(p) \/ WriteFails(p)
      <4>1. PICK first \in Ats :
               /\ \/ put[p].at = "save" /\ first = "resolve"
                  \/ put[p].at \in {"create", "update"} /\ first = "resource"
               /\ \/ /\ put[p].i < Len(put[p].body)
                     /\ Goes(p, first, put[p].i + 1, put[p].config, 0, 0)
                  \/ put[p].i >= Len(put[p].body) /\ Stops(p)
        BY <3>2, SkipDoes DEF TablesInv
      <4>2. /\ put[p].i < Len(put[p].body) /\ Goes(p, first, put[p].i + 1, put[p].config, 0, 0)
            /\ p = q /\ ~Waiting(p)
        BY <1>1, <1>5, <3>2, <4>1, SkipDoes DEF TablesInv, Looks, Goes, Stops
      <4> QED BY <1>5, <4>1, <4>2, ActiveIs DEF Goes, TablesInv
    <3>3. CASE DeleteConfig(p) \/ DeleteConfigFails(p) \/ CreateConfigFails(p, b, body)
      BY <1>1, <1>5, <3>3, DeleteConfigDoes, DeleteFailsDoes, CreateFailsDoes DEF TablesInv, Stops
    <3>4. CASE ConfigExists(p, b, body)
      BY <1>5, <3>4, ConfigExistsDoes DEF TablesInv, Begins, tables
    <3> QED BY <3>1, <3>2, <3>3, <3>4 DEF OtherSteps
  <2>5. CASE Restart
    BY <1>1, <2>5, RestartDoes, ActiveAfter
  <2>6. CASE Resource
    BY <1>5, <2>6, CreateResourceDoes, DeleteResourceDoes DEF Resource
  <2> QED BY <2>1, <2>2, <2>3, <2>4, <2>5, <2>6, NextIs
<1> QED BY <1>2, <1>3, <1>4, <1>5

\* A new row of a bucket is the item's that its request is at, for no other is on its way.
LEMMA NewRowIsMade ==
  ASSUME TablesInv, RaceInv, DoneInv, NoMishap', Next, NEW q \in Puts, Active(q),
         put[q].at \notin {"resolve", "save"}, NEW t \in 1 .. Len(targets'),
         t \notin 1 .. Len(targets), targets'[t].config = put[q].bucket
  PROVE  /\ WriteSteps(q) /\ targets'[t].kind = ThisItem(q).kind
         /\ targets'[t].ident = ThisItem(q).ident
<1>1. TablesInv' /\ Keeps
  BY TablesInvHolds
<1>2. /\ NoMishap
      /\ \A kind \in MishapKinds \ {"recreated"} : kind \notin mishaps /\ kind \notin mishaps'
  BY <1>1, NoMishapIs
<1>3. "noConfig" \notin mishaps /\ "noConfig" \notin mishaps' /\ "race" \notin mishaps
  BY <1>2 DEF MishapKinds
<1>4. put[q].bucket \in Buckets /\ RequestFits(put[q])
  BY ThisIs, ActiveIs DEF TablesInv
<1>5. targets'[t].config # NoConfig
  BY <1>4, NothingAssumption
<1>6. ASSUME NEW p \in Puts, NEW body \in Bodies, CreateConfig(p, put[q].bucket, body)
      PROVE  FALSE
  BY <1>4, <1>6, CreateConfigDoes DEF TablesInv, RequestFits
<1>7. PICK p \in Puts : Active(p) /\ WriteSteps(p) /\ put[p].bucket = put[q].bucket
  BY <1>3, <1>5, <1>6, RowIsNew
<1>8. p = q
  BY <1>3, <1>7 DEF RaceInv
<1>9. WriteSteps(q) /\ put[q].at \in {"create", "update"}
  BY <1>3, <1>7, <1>8, WriteDoes
<1>10. ThisItem(q).ident # NoIdent
  BY <1>2, <1>9 DEF DoneInv, NoMishap
<1>11. PICK u \in 1 .. Len(targets') :
          /\ Binds(q, u)
          /\ \/ targets'[u].ident = ThisItem(q).ident
             \/ targets'[u].config = NoConfig
          /\ \A v \in 1 .. Len(targets') : v # u => v \in 1 .. Len(targets)
  BY <1>3, <1>9, <1>10, WriteDoes
<1>12. t = u
  BY <1>11
<1> QED BY <1>5, <1>9, <1>11, <1>12 DEF Binds

LEMMA NewRowsHolds ==
  ASSUME TablesInv, RaceInv, DoneInv, NewRowsInv, Next
  PROVE  NewRowsInv'
<1>1. TablesInv' /\ Keeps
  BY TablesInvHolds
<1>2. SUFFICES ASSUME NoMishap', NEW q \in Puts, NEW s \in Requests, s = put'[q],
                      s.at \notin {"resolve", "save"}, NEW t \in 1 .. Len(targets'),
                      t > s.own, targets'[t].config = s.bucket
               PROVE  MadeBy(s, t)'
  <2>1. SUFFICES ASSUME NoMishap', NEW q \in Puts, Active(q)', put'[q].at \notin {"resolve", "save"},
                        NEW t \in 1 .. Len(targets'), t > put'[q].own,
                        targets'[t].config = put'[q].bucket
                 PROVE  MadeBy(put[q], t)'
    BY DEF NewRowsInv, NoMishap
  <2>2. PICK s \in Requests : s = put'[q]
    BY <2>1 DEF Active
  <2>3. MadeBy(s, t)'
    BY <1>2, <2>1, <2>2
  <2> QED BY <2>2, <2>3 DEF MadeBy
<1>3. NoMishap
  BY <1>1, <1>2, NoMishapIs
<1>4. Len(targets) \in Nat /\ Len(targets') \in Nat /\ s.i \in Nat /\ Len(s.body) \in Nat
  BY <1>1, RowsAre, LenProperties, BodyIs DEF TablesInv, TablesTyped, Requests
<1>5. CASE s.own = Len(targets) /\ targets' = targets
  BY <1>2, <1>4, <1>5
<1>6. CASE /\ Active(q) /\ s.bucket = put[q].bucket /\ s.body = put[q].body
           /\ s.own = put[q].own /\ put[q].at \notin {"resolve", "save"}
           /\ s.i = put[q].i \/ (s.i = put[q].i + 1 /\ put[q].i < Len(put[q].body))
           /\ WriteSteps(q) => s.i = put[q].i + 1
  <2>1. PICK r \in Requests : r = put[q]
    BY <1>6 DEF Active
  <2>2. r.i \in Nat \ {0} /\ (s.i = r.i \/ s.i = r.i + 1)
    BY <1>6, <2>1 DEF Requests
  <2>3. CASE t \in 1 .. Len(targets)
    <3>1. /\ targets'[t].kind = targets[t].kind /\ targets'[t].ident = targets[t].ident
          /\ targets'[t].config = targets[t].config
      BY <1>1, <2>3 DEF Keeps
    <3>2. MadeBy(r, t)
      BY <1>2, <1>3, <1>6, <2>1, <2>3, <3>1 DEF NewRowsInv, NoMishap
    <3>3. PICK j \in 1 .. Len(r.body) :
             j < r.i /\ targets[t].kind = r.body[j].kind /\ targets[t].ident = r.body[j].ident
      BY <3>2 DEF MadeBy
    <3>4. j \in 1 .. Len(s.body) /\ s.body = r.body /\ j \in Nat
      BY <1>6, <2>1, <3>3
    <3>5. j < s.i
      BY <2>2, <3>3, <3>4
    <3> QED BY <3>1, <3>3, <3>4, <3>5 DEF MadeBy
  <2>4. CASE t \notin 1 .. Len(targets)
    <3>1. /\ WriteSteps(q) /\ targets'[t].kind = ThisItem(q).kind
          /\ targets'[t].ident = ThisItem(q).ident
      BY <1>2, <1>6, <2>4, NewRowIsMade
    <3>2. s.i = r.i + 1 /\ r.i < Len(s.body)
      BY <1>6, <2>1, <2>2, <3>1
    <3>3. r.i \in 1 .. Len(s.body) /\ r.i < s.i
      BY <1>4, <2>2, <3>2
    <3> QED BY <1>6, <2>1, <3>1, <3>3 DEF MadeBy, ThisItem
  <2> QED BY <2>3, <2>4
<1> QED BY <1>2, <1>5, <1>6, LaterGoesOn

LEMMA DoneHolds ==
  ASSUME TablesInv, RaceInv, RepeatedInv, BoundInv, DoneInv, NewRowsInv, Next
  PROVE  DoneInv'
<1>1. TablesInv' /\ Keeps
  BY TablesInvHolds
<1> SUFFICES ASSUME NoMishap', NEW q \in Puts, NEW s \in Requests, s = put'[q]
             PROVE  /\ s.at \in {"create", "update"} => s.body[s.i].ident # NoIdent
                    /\ \A j \in 1 .. Len(s.body) : j < s.i => DoneIn(s, j)'
  BY DoneAfter
<1>2. NoMishap /\ \A kind \in MishapKinds \ {"recreated"} : kind \notin mishaps /\ kind \notin mishaps'
  BY <1>1, NoMishapIs
<1>3. CASE s = put[q]
  <2>1. Active(q)
    BY <1>3 DEF Active
  <2>2. s.at \in {"create", "update"} => s.body[s.i].ident # NoIdent
    BY <1>2, <1>3, <2>1 DEF DoneInv, NoMishap, ThisItem
  <2>3. CASE ~WriteSteps(q)
    BY <1>1, <1>3, <2>1, <2>2, <2>3, OthersStayDone
  <2>4. CASE WriteSteps(q)
    <3>1. s.i \in Nat /\ Len(s.body) \in Nat
      BY BodyIs DEF Requests
    <3>2. \A j \in 1 .. Len(s.body) : j < s.i => j <= s.i
      BY <3>1
    <3> QED BY <1>1, <1>3, <2>2, <2>4, <3>2, WriteIsDone
  <2> QED BY <2>3, <2>4
<1>4. CASE s # put[q] /\ LookupSteps(q)
  <2>1. ~Stops(q) /\ Active(q) /\ ~Waiting(q)
    BY <1>4, LookupDoes, ActiveAfter, ActiveIs DEF Stops, Looks, TablesInv, Active
  <2>2. PICK r \in Requests : r = put[q]
    BY <2>1 DEF Active
  <2>3. s.bucket = r.bucket /\ s.body = r.body /\ s.own = r.own /\ s.i = r.i
    BY <1>4, <2>1, <2>2, LookupDoes DEF Goes
  <2>4. /\ s.at \in {"resolve", "save"} => r.at \in {"resolve", "save"}
        /\ s.at \in {"create", "update"} => r.body[r.i].ident # NoIdent
        /\ r.at \notin {"save", "create", "update"}
    <3>1. CASE Resolve(q) \/ ResolveFails(q)
      BY <2>1, <2>2, <3>1, ResolveDoes DEF TablesInv, Goes
    <3>2. CASE FindConfig(q) \/ FindConfigFails(q)
      BY <2>1, <2>2, <3>2, FindConfigDoes DEF TablesInv, Goes
    <3>3. CASE FindResource(q) \/ FindResourceFails(q)
      BY <2>1, <2>2, <3>3, FindResourceDoes DEF TablesInv, Goes
    <3>4. CASE FindTarget(q) \/ FindTargetFails(q)
      <4>1. "anonymous" \notin mishaps' /\ "fault" \notin mishaps'
        BY <1>2 DEF MishapKinds
      <4>2. s.at \in {"create", "update"} /\ r.at = "target" /\ ThisItem(q).ident # NoIdent
        BY <2>1, <2>2, <3>4, <4>1, FindTargetDoes DEF TablesInv, Goes
      <4> QED BY <2>2, <4>2 DEF ThisItem
    <3> QED BY <1>4, <3>1, <3>2, <3>3, <3>4 DEF LookupSteps
  <2>5. ~WriteSteps(q)
    BY <2>2, <2>4, SaveResolvedDoes, CreateTargetDoes, UpdateTargetDoes DEF WriteSteps
  <2>6. ASSUME NEW j \in 1 .. Len(s.body), j < s.i PROVE DoneIn(s, j)'
    <3>1. DoneIn(r, j)'
      BY <1>1, <2>1, <2>2, <2>3, <2>5, <2>6, OthersStayDone
    <3> QED BY <2>3, <2>4, <3>1, DoneGoesOn
  <2> QED BY <2>3, <2>4, <2>6
<1>5. CASE s # put[q] /\ WriteSteps(q)
  <2>1. "noConfig" \notin mishaps
    BY <1>2 DEF MishapKinds
  <2>2. PICK first \in {"resolve", "resource"} :
           Moves(q, first) /\ (first = "resolve" => put[q].at = "save")
    BY <1>5, <2>1, WriteDoes
  <2>3. Goes(q, first, put[q].i + 1, put[q].config, 0, 0) /\ Active(q)
    BY <1>5, <2>1, <2>2, WriteDoes, ActiveAfter DEF Moves, Stops, Active
  <2>4. PICK r \in Requests : r = put[q]
    BY <2>3 DEF Active
  <2>5. /\ s.bucket = r.bucket /\ s.body = r.body /\ s.own = r.own /\ s.i = r.i + 1
        /\ s.at = first /\ r.i \in Nat /\ Len(r.body) \in Nat
    BY <2>3, <2>4, BodyIs DEF Goes, Requests
  <2>6. ASSUME NEW j \in 1 .. Len(s.body), j < s.i PROVE DoneIn(s, j)'
    <3>1. j \in 1 .. Len(r.body) /\ j <= r.i
      BY <2>5, <2>6
    <3>2. DoneIn(r, j)'
      BY <1>1, <1>5, <2>4, <3>1, WriteIsDone
    <3> QED BY <2>2, <2>4, <2>5, <3>2, DoneGoesOn
  <2>7. s.at \notin {"create", "update"}
    BY <2>5
  <2> QED BY <2>6, <2>7
<1>6. CASE s # put[q] /\ ~LookupSteps(q) /\ ~WriteSteps(q)
  <2>1. s.i = 1 /\ s.at \notin {"create", "update"}
    <3>1. CASE \E p \in Puts : LookupSteps(p)
      BY <1>6, <3>1, LookupDoes DEF Stops, Goes
    <3>2. CASE \E p \in Puts : WriteSteps(p)
      BY <1>6, <3>2, SaveResolvedDoes, CreateTargetDoes, UpdateTargetDoes
         DEF WriteSteps, Moves, Stops, Goes
    <3>3. CASE \E p \in Puts, b \in Buckets, body \in Bodies : CreateConfig(p, b, body)
      BY <1>6, <3>3, CreateConfigDoes, ActiveAfter DEF TablesInv, Stops, Begins, Active
    <3>4. CASE \E p \in Puts, b \in Buckets, body \in Bodies : OtherSteps(p, b, body)
      <4>1. PICK p \in Puts, b \in Buckets, body \in Bodies : OtherSteps(p, b, body)
        BY <3>4
      <4>2. "fault" \notin mishaps'
        BY <1>2 DEF MishapKinds
      <4>3. DeleteConfig(p) \/ ConfigExists(p, b, body)
        BY <4>1, <4>2, SkipDoes, DeleteFailsDoes, CreateFailsDoes DEF OtherSteps, TablesInv
      <4>4. Stops(p) \/ Begins(p, b, body, "find", Len(targets))
        BY <4>3, DeleteConfigDoes, ConfigExistsDoes DEF TablesInv
      <4> QED BY <1>6, <4>4, ActiveAfter DEF Stops, Begins, Active
    <3>5. CASE Restart
      BY <3>5, RestartDoes, ActiveAfter DEF Active
    <3>6. CASE Resource
      BY <1>6, <3>6, CreateResourceDoes, DeleteResourceDoes DEF Resource
    <3> QED BY <3>1, <3>2, <3>3, <3>4, <3>5, <3>6, NextIs
  <2>2. Len(s.body) \in Nat
    BY BodyIs DEF Requests
  <2>3. \A j \in 1 .. Len(s.body) : ~(j < 1)
    BY <2>2
  <2> QED BY <2>1, <2>3
<1> QED BY <1>3, <1>4, <1>5, <1>6

-----------------------------------------------------------------------------
(* The invariant of the configurations, and what follows from it. *)

PutsInv ==
    /\ TablesInv /\ RaceInv /\ RepeatedInv /\ UniqueInv /\ OneOfAnArn /\ BoundInv /\ LiveInv
    /\ DoneInv /\ NewRowsInv

LEMMA PutsInvInit ==
  ASSUME Init
  PROVE  PutsInv
<1>1. TablesInv
  BY TablesInvInit
<1>2. Len(targets) = 0 /\ Len(resources) = 0 /\ \A p \in Puts : ~Active(p)
  BY EmptySeq DEF Init, Active, Idle, Requests
<1>3. 1 .. Len(targets) = {} /\ 1 .. Len(resources) = {}
  BY <1>2
<1> QED BY <1>1, <1>2, <1>3 DEF PutsInv, RaceInv, RepeatedInv, UniqueInv, OneOfAnArn, BoundInv,
                                LiveInv, DoneInv, NewRowsInv

LEMMA PutsInvNext ==
  ASSUME PutsInv, Next
  PROVE  PutsInv'
BY TablesInvHolds, RaceKept, UniqueHolds, OneOfAnArnHolds, BoundHolds, LiveHolds, DoneHolds,
   NewRowsHolds DEF PutsInv

\* Nothing else is known of the other variables.
LEMMA PutsInvFrame ==
  ASSUME PutsInv, UNCHANGED <<tables, put>>, mishaps \subseteq mishaps'
  PROVE  PutsInv'
<1>1. /\ configs' = configs /\ targets' = targets /\ resources' = resources /\ put' = put
      /\ \A kinds : Free(kinds)' => Free(kinds)
  BY DEF tables, Free
<1>2. TablesInv'
  BY <1>1 DEF PutsInv, TablesInv, TablesTyped, PutTyped, TargetsFit, Active, RequestFits,
              FindsNamed, OwnsRows, FindsMatching
<1>3. RaceInv' /\ RepeatedInv'
  BY <1>1 DEF PutsInv, RaceInv, RepeatedInv, Active
<1>4. LiveInv' /\ OneOfAnArn'
  BY <1>1 DEF PutsInv, LiveInv, OneOfAnArn, Active
<1>5. UniqueInv'
  BY <1>1 DEF PutsInv, UniqueInv, Active
<1>6. BoundInv'
  BY <1>1 DEF PutsInv, BoundInv, Active, Pending, Waiting, IsBound
<1>7. DoneInv'
  BY <1>1 DEF PutsInv, DoneInv, Active, ThisItem, DoneIn, IsBound
<1>8. NewRowsInv'
  BY <1>1 DEF PutsInv, NewRowsInv, Active, MadeBy
<1> QED BY <1>2, <1>3, <1>4, <1>5, <1>6, <1>7, <1>8 DEF PutsInv

LEMMA PutsInvAlways == Spec => []PutsInv
<1>1. Init => PutsInv
  BY PutsInvInit
<1>2. PutsInv /\ [Next]_vars => PutsInv'
  BY PutsInvNext, PutsInvFrame DEF vars, tables
<1> QED BY <1>1, <1>2, PTL DEF Spec

LEMMA InvIsUnique ==
  ASSUME PutsInv
  PROVE  OneTargetPerIdent
BY RowsAre DEF PutsInv, UniqueInv, OneTargetPerIdent, Alike, TablesInv

\* A bucket has one target of a kind and an Id, unless a body names it twice or two PUTs for
\* the bucket overlap (PutBucketNotification).
THEOREM OneTargetHolds == Spec => []OneTargetPerIdent
<1>1. PutsInv => OneTargetPerIdent
  BY InvIsUnique
<1> QED BY <1>1, PutsInvAlways, PTL

LEMMA InvIsBound ==
  ASSUME PutsInv
  PROVE  NamedIsBound
<1>1. SUFFICES ASSUME Free({"unresolved", "recreated", "fault"}), NEW t \in DOMAIN targets, ~Pending(t),
                      NEW r \in LiveRows(targets[t].arn)
               PROVE  targets[t].resource = r
  BY DEF NamedIsBound
<1>2. t \in 1 .. Len(targets) /\ r \in 1 .. Len(resources)
  BY RowsAre DEF PutsInv, TablesInv, LiveRows
<1>3. PICK q : q = targets[t].resource
  OBVIOUS
<1>4. q # 0 /\ resources[q].arn = targets[t].arn
  BY <1>1, <1>2, <1>3 DEF PutsInv, BoundInv, Free, IsBound
<1>5. q \in 1 .. Len(resources)
  BY <1>2, <1>3, <1>4 DEF PutsInv, TablesInv, TargetsFit
<1>6. resources[r].arn = targets[t].arn
  BY <1>1 DEF LiveRows
<1> QED BY <1>1, <1>2, <1>3, <1>4, <1>5, <1>6 DEF PutsInv, OneOfAnArn, Free

\* A target whose ARN names a live resource is bound to it, but for the exceptions named
\* (PutBucketNotification).
THEOREM NamedIsBoundHolds == Spec => []NamedIsBound
<1>1. PutsInv => NamedIsBound
  BY InvIsBound
<1> QED BY <1>1, PutsInvAlways, PTL

LEMMA TargetsOfAfter ==
  ASSUME TablesInv, Next, "noConfig" \notin mishaps', NEW b \in Buckets,
         ~Serving(b), ~Serving(b)'
  PROVE  TargetsOf(b)' = TargetsOf(b)
<1>1. TablesInv' /\ Keeps /\ "noConfig" \notin mishaps
  BY TablesInvHolds DEF Keeps
<1>2. PICK m \in Nat, n \in Nat : m = Len(targets) /\ n = Len(targets') /\ m <= n
  BY <1>1, LenProperties DEF TablesInv, TablesTyped, Keeps
<1>3. DOMAIN targets = 1 .. m /\ DOMAIN targets' = 1 .. n
  BY <1>1, <1>2, LenProperties DEF TablesInv, TablesTyped
<1>4. \A p \in Puts : Active(p) => put[p].bucket # b
  BY ActiveIs DEF Serving, TablesInv
<1>5. \A t \in 1 .. m : targets[t].config = b => targets'[t] = targets[t]
  BY <1>1, <1>2, <1>4, RowChanges
<1>6. \A t \in 1 .. m : targets'[t].config = targets[t].config
  BY <1>1, <1>2 DEF Keeps
<1>7. ASSUME NEW t \in 1 .. n, t \notin 1 .. m PROVE targets'[t].config # b
  <2>1. SUFFICES ASSUME targets'[t].config = b PROVE FALSE
    OBVIOUS
  <2>2. PICK p \in Puts, body \in Bodies \ {<<>>} : CreateConfig(p, b, body)
    BY <1>2, <1>4, <1>7, <2>1, RowIsNew, NothingAssumption
  <2>3. put'[p] \in Requests /\ put'[p].bucket = b
    BY <2>2, CreateConfigDoes DEF Begins, TablesInv
  <2>4. Serving(b)'
    BY <1>1, <2>3, ActiveAfter DEF Serving, Waiting, TablesInv, Active
  <2> QED BY <2>4
<1>8. \A t \in 1 .. n : t \in 1 .. m \/ t \notin 1 .. m
  OBVIOUS
<1>9. \A t \in 1 .. m : t \in 1 .. n
  BY <1>2
<1>10. {t \in DOMAIN targets' : targets'[t].config = b} = {t \in DOMAIN targets : targets[t].config = b}
  BY <1>3, <1>6, <1>7, <1>9
<1> QED BY <1>3, <1>5, <1>10 DEF TargetsOf

LEMMA StepIsOwn ==
  ASSUME PutsInv, [Next]_vars, NEW b \in Buckets,
         \/ configs[b] = "live" /\ configs'[b] # "live"
         \/ TargetsOf(b)' # TargetsOf(b)
  PROVE  Serving(b) \/ Serving(b)' \/ "noConfig" \in mishaps'
<1>1. CASE UNCHANGED vars
  BY <1>1 DEF vars, TargetsOf
<1>2. CASE Next
  <2>1. SUFFICES ASSUME ~Serving(b), ~Serving(b)', "noConfig" \notin mishaps'
                 PROVE  FALSE
    OBVIOUS
  <2>2. TargetsOf(b)' = TargetsOf(b)
    BY <1>2, <2>1, TargetsOfAfter DEF PutsInv
  <2>3. PICK p \in Puts : Active(p) /\ (put[p].config = b \/ put[p].config = NoConfig)
    BY <1>2, <2>2, ConfigsAfter DEF PutsInv
  <2>4. "noConfig" \notin mishaps
    BY <1>2, <2>1, TablesInvHolds DEF PutsInv, Keeps
  <2>5. put[p].bucket = b
    <3>1. RequestFits(put[p]) /\ put[p].bucket \in Buckets
      BY <2>3 DEF PutsInv, TablesInv, Active, Requests
    <3> QED BY <2>3, <2>4, <3>1, NothingAssumption DEF RequestFits
  <2> QED BY <2>1, <2>3, <2>5, ActiveIs DEF Serving, PutsInv, TablesInv
<1> QED BY <1>1, <1>2

\* The targets and the configuration of a bucket change only in a PUT for it, unless a PUT
\* goes on without a configuration (PutBucketNotification).
THEOREM OnlyItsOwnPutHolds == Spec => OnlyItsOwnPut
<1>1. PutsInv /\ [Next]_vars =>
         [\A b \in Buckets :
             \/ configs[b] = "live" /\ configs'[b] # "live"
             \/ TargetsOf(b)' # TargetsOf(b)
             => \/ Serving(b) \/ Serving(b)'
                \/ "noConfig" \in mishaps']_vars
  BY StepIsOwn
<1> QED BY <1>1, PutsInvAlways, PTL DEF Spec, OnlyItsOwnPut

LEMMA DoneInIs ==
  ASSUME TablesInv', NEW r, NEW j, DoneIn(r, j)'
  PROVE  DoneAs(r.bucket, r.body[j], r.own)'
<1>1. PICK t \in 1 .. Len(targets') :
         /\ targets'[t].config = r.bucket /\ targets'[t].kind = r.body[j].kind
         /\ targets'[t].ident = r.body[j].ident /\ targets'[t].arn = r.body[j].arn
         /\ t > r.own => targets'[t].rule = r.body[j].rule
         /\ IsBound(t)'
  BY DEF DoneIn
<1>2. PICK x : x = targets'[t].resource
  OBVIOUS
<1>3. x # 0 /\ resources'[x].arn = targets'[t].arn
  BY <1>1, <1>2 DEF IsBound
<1>4. DOMAIN targets' = 1 .. Len(targets')
  BY LenProperties DEF TablesInv, TablesTyped
<1> QED BY <1>1, <1>2, <1>3, <1>4 DEF DoneAs, BoundAs

\* A request that is answered with 200 has written its last item or deleted the configuration.
LEMMA AcceptedStep ==
  ASSUME PutsInv, Next, NEW p \in Puts, ~Waiting(p), put'[p] = Ok, NoMishap'
  PROVE  WriteSteps(p) \/ DeleteConfig(p)
<1>1. TablesInv /\ Keeps
  BY TablesInvHolds DEF PutsInv
<1>2. "fault" \notin mishaps'
  BY <1>1, NoMishapIs DEF MishapKinds
<1>3. put'[p] # put[p] /\ Ok # Idle /\ ~Active(p)'
  BY <1>1, ActiveAfter, TablesInvHolds DEF Waiting, Ok, Idle, TablesInv
<1>4. CASE \E q \in Puts : LookupSteps(q)
  <2>1. PICK q \in Puts : LookupSteps(q)
    BY <1>4
  <2>2. p = q /\ Stops(p)
    BY <1>1, <1>3, <2>1, LookupDoes DEF Goes, Stops, Active
  <2>3. put'[p] = Idle
    <3>1. CASE Resolve(p) \/ ResolveFails(p)
      BY <1>1, <1>3, <3>1, ResolveDoes DEF TablesInv, Goes, Active
    <3>2. CASE FindConfig(p) \/ FindConfigFails(p)
      BY <1>1, <1>3, <3>2, FindConfigDoes DEF TablesInv, Goes, Active
    <3>3. CASE FindResource(p) \/ FindResourceFails(p)
      BY <1>1, <1>3, <3>3, FindResourceDoes DEF TablesInv, Goes, Active
    <3>4. CASE FindTarget(p) \/ FindTargetFails(p)
      BY <1>1, <1>3, <3>4, FindTargetDoes DEF TablesInv, Goes, Active
    <3> QED BY <2>1, <2>2, <3>1, <3>2, <3>3, <3>4 DEF LookupSteps
  <2> QED BY <1>3, <2>3
<1>5. CASE \E q \in Puts : WriteSteps(q)
  BY <1>3, <1>5, SaveResolvedDoes, CreateTargetDoes, UpdateTargetDoes, <1>1
     DEF WriteSteps, Moves, Goes, Stops
<1>6. CASE \E q \in Puts, b \in Buckets, body \in Bodies : CreateConfig(q, b, body)
  BY <1>1, <1>3, <1>6, CreateConfigDoes DEF TablesInv, Begins, Stops
<1>7. CASE \E q \in Puts, b \in Buckets, body \in Bodies : OtherSteps(q, b, body)
  <2>1. PICK q \in Puts, b \in Buckets, body \in Bodies : OtherSteps(q, b, body)
    BY <1>7
  <2>2. DeleteConfig(q) \/ ConfigExists(q, b, body)
    BY <1>1, <1>2, <2>1, SkipDoes, DeleteFailsDoes, CreateFailsDoes DEF OtherSteps, TablesInv
  <2> QED BY <1>1, <1>3, <2>2, DeleteConfigDoes, ConfigExistsDoes DEF TablesInv, Stops, Begins
<1>8. CASE Restart
  BY <1>1, <1>2, <1>8, RestartDoes
<1>9. CASE Resource
  BY <1>1, <1>3, <1>9, CreateResourceDoes, DeleteResourceDoes DEF Resource
<1> QED BY <1>1, <1>4, <1>5, <1>6, <1>7, <1>8, <1>9, NextIs

LEMMA AcceptedOfStep ==
  ASSUME PutsInv, [Next]_vars, NEW p \in Puts, NEW b \in Buckets, NEW body \in Bodies,
         ~Waiting(p), put[p].bucket = b, put[p].body = body, put'[p] = Ok,
         Free(MishapKinds \ {"recreated"})'
  PROVE  IF body = <<>> THEN configs'[b] = "deleted"
         ELSE /\ configs'[b] = "live"
              /\ \A own \in {put[p].own}, i \in DOMAIN body : DoneAs(b, body[i], own)'
<1>1. Next
  BY DEF vars, Waiting
<1>2. TablesInv' /\ Keeps /\ NoMishap'
  BY <1>1, TablesInvHolds DEF PutsInv, NoMishap
<1>3. /\ "noConfig" \notin mishaps /\ "race" \notin mishaps
  BY <1>2, NoMishapIs DEF MishapKinds
<1>4. PICK r \in Requests : r = put[p]
  BY ThisIs DEF PutsInv, TablesInv, Active
<1>5. RequestFits(r) /\ Active(p)
  BY <1>4 DEF PutsInv, TablesInv, Active
<1>6. r.at # "find" => configs[b] = "live"
  BY <1>3, <1>4, <1>5 DEF PutsInv, LiveInv, Free
<1>7. CASE DeleteConfig(p)
  <2>1. r.at = "delete" /\ configs'[b] = IF configs[b] = "live" /\ (r.config = NoConfig \/ r.config = b)
                                         THEN "deleted" ELSE configs[b]
    BY <1>4, <1>7, DeleteConfigDoes DEF PutsInv
  <2>2. r.config = b /\ body = <<>>
    BY <1>3, <1>4, <1>5, <2>1 DEF RequestFits
  <2> QED BY <1>6, <2>1, <2>2
<1>8. CASE WriteSteps(p)
  <2>1. /\ r.at \in {"save", "create", "update"} /\ configs' = configs
        /\ \E first : Moves(p, first)
    BY <1>3, <1>4, <1>8, WriteDoes DEF PutsInv
  <2>2. body # <<>>
    BY <1>4, <1>5, <2>1 DEF RequestFits
  <2>3. r.i >= Len(r.body)
    BY <1>2, <1>4, <2>1, ActiveAfter DEF Moves, Goes, Active, TablesInv
  <2>4. Len(r.body) \in Nat /\ r.i \in Nat /\ DOMAIN body = 1 .. Len(r.body)
    BY <1>4, BodyIs DEF Requests
  <2>5. ASSUME NEW own \in {put[p].own}, NEW i \in DOMAIN body PROVE DoneAs(b, body[i], own)'
    <3>1. i \in 1 .. Len(r.body) /\ i <= r.i
      BY <2>3, <2>4
    <3>2. DoneIn(r, i)'
      BY <1>2, <1>4, <1>8, <3>1, WriteIsDone DEF PutsInv
    <3>3. DoneAs(r.bucket, r.body[i], r.own)'
      BY <1>2, <3>2, DoneInIs
    <3>4. r.bucket = b /\ r.body = body /\ r.own = own
      BY <1>4, <2>5
    <3> QED BY <3>3, <3>4
  <2> QED BY <1>6, <2>1, <2>2, <2>5
<1> QED BY <1>1, <1>2, <1>7, <1>8, AcceptedStep

LEMMA RulesStay ==
  ASSUME PutsInv, [Next]_vars, NEW t \in DOMAIN targets
  PROVE  targets'[t].rule = targets[t].rule
<1>1. CASE UNCHANGED vars
  BY <1>1 DEF vars
<1>2. CASE Next
  BY <1>2, TablesInvHolds, RowsAre DEF PutsInv, TablesInv, Keeps
<1> QED BY <1>1, <1>2

\* A PUT that is answered with 200 has bound each item of its body, or deleted the
\* configuration, unless a mishap has happened to it; a target that was there keeps its
\* events and its filter, and one that is new has those of the body (PutBucketNotification).
THEOREM AcceptedIsDoneHolds == Spec => AcceptedIsDone
<1>1. PutsInv /\ [Next]_vars =>
         [/\ \A t \in DOMAIN targets : targets'[t].rule = targets[t].rule
          /\ \A p \in Puts, b \in Buckets, body \in Bodies :
             /\ ~Waiting(p) /\ put[p].bucket = b /\ put[p].body = body
             /\ put'[p] = Ok
             /\ Free(MishapKinds \ {"recreated"})'
             => IF body = <<>> THEN configs'[b] = "deleted"
                ELSE /\ configs'[b] = "live"
                     /\ \A own \in {put[p].own}, i \in DOMAIN body :
                           DoneAs(b, body[i], own)']_vars
  BY AcceptedOfStep, RulesStay
<1> QED BY <1>1, PutsInvAlways, PTL DEF Spec, AcceptedIsDone

-----------------------------------------------------------------------------
(* An event on its way. *)

AnyOutlet == {"list"} \union Endpoints

EventAts == {"config", "queues", "queueResources", "topics", "topicResources", "send"}

\* The configuration has been found, and the targets are being read.
ReadingAts == {"queues", "queueResources", "topics", "topicResources"}

Events == [at : EventAts, bucket : Buckets, name : Buckets \union {Unknown}, rule : Rules,
           rows : SUBSET (Nat \X Nat), left : SUBSET ((Nat \X Nat) \X AnyOutlet),
           sent : SUBSET (Nat \X AnyOutlet), lost : SUBSET (Nat \X AnyOutlet),
           blind : BOOLEAN, unfiltered : BOOLEAN]

\* The event's rows are of resources that there are.
EventTyped ==
    /\ event \in {NoEvent} \union Events
    /\ event \in Events => \A row \in event.rows : row[2] \in 0 .. Len(resources)

\* What target t binds, and whether it does so for one of the rules when the configuration is
\* there.
Binding(t) == <<targets[t].kind, targets[t].resource, targets[t].rule>>

Counts(t, b, rules) ==
    targets[t].config = b /\ targets[t].rule \in rules /\ Loaded(targets[t].resource)

\* Resource r may have event e.
MayHave(e, r) == \E m \in may : m[2] = r /\ (m[3] = e.rule \/ e.unfiltered)

\* What event e is about to read, has read or is to send is of those that may have it.
MayAt(e) ==
    /\ e.at \in ReadingAts =>
          \A t \in 1 .. Len(targets) : Counts(t, e.bucket, SameName(e.rule)) => Binding(t) \in may
    /\ \A row \in e.rows : Loaded(row[2]) => MayHave(e, row[2])
    /\ \A what \in e.left : MayHave(e, what[1][2])

\* Resource r has been read, is to be sent to by that outlet, or has been.
IsRead(e, r) == \E t \in Nat : <<t, r>> \in e.rows

IsServed(e, r, outlet) ==
    \/ \E t \in Nat : <<<<t, r>>, outlet>> \in e.left
    \/ <<r, outlet>> \in e.sent \union e.lost

\* None that must have event e has been passed over.
MustAt(e) ==
    \A m \in must :
        /\ m[1] = "queue" =>
              /\ e.at = "queueResources" => IsRead(e, m[2])
              /\ e.at \in {"topics", "topicResources", "send"} /\ ~IsTopic(m[2])
                 => IsServed(e, m[2], "list")
        /\ m[1] = "topic" =>
              /\ e.at = "topicResources" => IsRead(e, m[2])
              /\ e.at = "send" => \A outlet \in Outlets(m[2]) : IsServed(e, m[2], outlet)

MayInv ==
    event \in Events /\ event.name = event.bucket /\ Free({"race", "noConfig"}) => MayAt(event)

MustInv ==
    event \in Events =>
        /\ must \subseteq Bindings(event.bucket, {event.rule})
        /\ event.name = event.bucket /\ ~event.blind => MustAt(event)

EventInv == PutsInv /\ EventTyped /\ MayInv /\ MustInv

IsBinding(m, b, rules) ==
    configs[b] = "live" /\ \E t \in 1 .. Len(targets) : Counts(t, b, rules) /\ m = Binding(t)

LEMMA BindingOf ==
  ASSUME TablesTyped, NEW b, NEW rules, NEW m \in Bindings(b, rules)
  PROVE  IsBinding(m, b, rules)
BY RowsAre DEF Bindings, IsBinding, Binding, Counts, Loaded

LEMMA BindingIn ==
  ASSUME TablesTyped, NEW b, configs[b] = "live", NEW rules, NEW t \in 1 .. Len(targets),
         Counts(t, b, rules)
  PROVE  Binding(t) \in Bindings(b, rules)
BY RowsAre DEF Bindings, Binding, Counts, Loaded

\* What must have the event is a live resource that a target of one of the kinds names.
LEMMA MustIs ==
  ASSUME TablesInv, NEW b, NEW rules, must \subseteq Bindings(b, rules), NEW m \in must
  PROVE  /\ m[1] \in {"queue", "topic"} /\ m[2] \in 1 .. Len(resources) /\ Loaded(m[2])
         /\ \E t \in 1 .. Len(targets) : Counts(t, b, rules) /\ m = Binding(t)
<1>1. PICK t \in 1 .. Len(targets) : Counts(t, b, rules) /\ m = Binding(t)
  BY BindingOf DEF IsBinding, TablesInv
<1>2. /\ m[1] = targets[t].kind /\ m[2] = targets[t].resource
  BY <1>1 DEF Binding
<1>3. targets[t].kind \in Kinds
  BY <1>1, RowsAre DEF TablesInv, TargetRows
<1>4. targets[t].resource \in 1 .. Len(resources) /\ Loaded(targets[t].resource)
  BY <1>1 DEF Counts, Loaded, TablesInv, TargetsFit
<1> QED BY <1>1, <1>2, <1>3, <1>4, KindsAssumption

\* The event begins, ...
LEMMA FollowBegins ==
  ASSUME Follow, event = NoEvent, NEW f \in Events, f = event'
  PROVE  /\ must' = Bindings(f.bucket, {f.rule})'
         /\ may' = Bindings(f.bucket, SameName(f.rule))'
<1>1. event.at = "none" /\ event'.at # "none"
  BY DEF NoEvent, Events, EventAts
<1>2. /\ must' = Bindings(event.bucket, {event.rule})'
      /\ may' = Bindings(event.bucket, SameName(event.rule))'
  BY <1>1 DEF Follow
<1> QED BY <1>2 DEF Bindings, SameName

\* ... and goes on.
LEMMA FollowGoesOn ==
  ASSUME Follow, NEW e \in Events, e = event, NEW f \in Events, f = event',
         f.bucket = e.bucket, f.rule = e.rule
  PROVE  /\ must' = must \intersect Bindings(e.bucket, {e.rule})'
         /\ may' = may \union Bindings(e.bucket, SameName(e.rule))'
<1>1. event.at # "none" /\ event'.at # "none"
  BY DEF Events, EventAts
<1>2. /\ must' = must \intersect Bindings(event.bucket, {event.rule})'
      /\ may' = may \union Bindings(event.bucket, SameName(event.rule))'
  BY <1>1 DEF Follow
<1> QED BY <1>2 DEF Bindings, SameName

\* To show of event f after the step what the invariant says.
LEMMA EventInvAfter ==
  ASSUME PutsInv', NEW f \in Events, f = event',
         \A row \in f.rows : row[2] \in 0 .. Len(resources'),
         f.name = f.bucket /\ Free({"race", "noConfig"})' => MayAt(f)',
         must' \subseteq Bindings(f.bucket, {f.rule})',
         f.name = f.bucket /\ ~f.blind => MustAt(f)'
  PROVE  EventInv'
<1>1. EventTyped'
  BY DEF EventTyped
<1>2. MayInv'
  BY DEF MayInv, MayAt, MayHave, SameName, Counts
<1>3. MustInv'
  BY DEF MustInv, MustAt, Bindings, IsRead, IsServed
<1> QED BY <1>1, <1>2, <1>3 DEF EventInv

LEMMA NoEventAfter ==
  ASSUME PutsInv', event' = NoEvent
  PROVE  EventInv'
<1>1. NoEvent \notin Events
  BY DEF NoEvent, Events
<1> QED BY <1>1 DEF EventInv, EventTyped, MayInv, MustInv

\* Who may have the event may still have it.
LEMMA MayHaveStays ==
  ASSUME NEW e, NEW f, NEW r, MayHave(e, r), may \subseteq may', f.rule = e.rule,
         e.unfiltered => f.unfiltered
  PROVE  MayHave(f, r)'
BY DEF MayHave

-----------------------------------------------------------------------------
(* While requests change the tables. *)

\* A resource that there was is not live again.
LEMMA LiveAfter ==
  ASSUME TablesInv, Next, NEW r \in 1 .. Len(resources), resources'[r].live
  PROVE  resources[r].live
<1>1. CASE \E p \in Puts : LookupSteps(p)
  BY <1>1, LookupDoes DEF Looks, tables
<1>2. CASE \E p \in Puts : WriteSteps(p)
  BY <1>2, SaveResolvedDoes, CreateTargetDoes, UpdateTargetDoes DEF WriteSteps
<1>3. CASE \E p \in Puts, b \in Buckets, body \in Bodies : OtherSteps(p, b, body)
  BY <1>3, SkipDoes, DeleteConfigDoes, DeleteFailsDoes, ConfigExistsDoes, CreateFailsDoes
     DEF OtherSteps, TablesInv, Looks, tables
<1>4. CASE \E p \in Puts, b \in Buckets, body \in Bodies : CreateConfig(p, b, body)
  BY <1>4 DEF CreateConfig
<1>5. CASE Restart
  BY <1>5, RestartDoes DEF tables
<1>6. CASE Resource
  BY <1>6, CreateResourceDoes, DeleteResourceDoes DEF Resource
<1> QED BY <1>1, <1>2, <1>3, <1>4, <1>5, <1>6, NextIs

\* A bucket's rows change only while its configuration is live.
LEMMA RowsOfLive ==
  ASSUME PutsInv, Next, Free({"race", "noConfig"})', NEW b \in Buckets, configs'[b] # "live",
         NEW t \in 1 .. Len(targets'), targets'[t].config = b
  PROVE  t \in 1 .. Len(targets) /\ targets'[t] = targets[t]
<1>1. TablesInv' /\ Keeps /\ Free({"race", "noConfig"}) /\ "noConfig" \notin mishaps
      /\ "noConfig" \notin mishaps'
  BY TablesInvHolds DEF PutsInv, Keeps, Free
<1>2. ~ \E p \in Puts : Active(p) /\ WriteSteps(p) /\ put[p].bucket = b
  <2>1. SUFFICES ASSUME NEW p \in Puts, Active(p), WriteSteps(p), put[p].bucket = b PROVE FALSE
    OBVIOUS
  <2>2. put[p].at # "find" /\ configs' = configs
    BY <1>1, <2>1, WriteDoes DEF PutsInv
  <2>3. configs[b] = "live"
    BY <1>1, <2>1, <2>2 DEF PutsInv, LiveInv
  <2> QED BY <2>2, <2>3
<1>3. t \in 1 .. Len(targets)
  <2>1. SUFFICES ASSUME t \notin 1 .. Len(targets) PROVE FALSE
    OBVIOUS
  <2>2. PICK p \in Puts, body \in Bodies \ {<<>>} : CreateConfig(p, b, body)
    BY <1>1, <1>2, <2>1, RowIsNew, NothingAssumption DEF PutsInv
  <2> QED BY <2>2, CreateConfigDoes DEF PutsInv, TablesInv
<1>4. targets[t].config = b
  BY <1>1, <1>3 DEF Keeps
<1> QED BY <1>1, <1>2, <1>3, <1>4, RowChanges DEF PutsInv

LEMMA MayWhileTheyChange ==
  ASSUME PutsInv, TablesInv', Next, NEW e \in Events, Free({"race", "noConfig"})', MayAt(e),
         \A row \in e.rows : row[2] \in 0 .. Len(resources),
         may' = may \union Bindings(e.bucket, SameName(e.rule))'
  PROVE  MayAt(e)'
<1>1. Keeps /\ TablesInv
  BY TablesInvHolds DEF PutsInv
<1>2. PICK b \in Buckets, rules \in {SameName(e.rule)} : b = e.bucket
  BY DEF Events
<1>3. ASSUME NEW r \in 0 .. Len(resources), Loaded(r)'
      PROVE  Loaded(r)
  <2>1. r # 0 /\ resources'[r].live
    BY <1>3 DEF Loaded
  <2>2. r \in 1 .. Len(resources)
    BY <1>1, <1>3, <2>1, RowsAre DEF TablesInv
  <2> QED BY <1>1, <2>1, <2>2, LiveAfter DEF Loaded
<1>4. ASSUME e.at \in ReadingAts, NEW t \in 1 .. Len(targets'), Counts(t, b, rules)'
      PROVE  Binding(t)' \in may'
  <2>1. PICK r : r = targets'[t].resource
    OBVIOUS
  <2>2. r # 0 /\ resources'[r].live /\ targets'[t].config = b /\ targets'[t].rule \in rules
    BY <1>4, <2>1 DEF Counts, Loaded
  <2>3. CASE configs'[b] = "live"
    <3>1. DOMAIN targets' = 1 .. Len(targets')
      BY LenProperties DEF TablesInv, TablesTyped
    <3>2. Binding(t)' \in Bindings(b, rules)'
      BY <1>4, <2>1, <2>2, <2>3, <3>1 DEF Bindings, Binding
    <3>3. Bindings(b, rules)' \subseteq may'
      BY <1>2 DEF SameName
    <3> QED BY <3>2, <3>3
  <2>4. CASE configs'[b] # "live"
    <3>1. t \in 1 .. Len(targets) /\ targets'[t] = targets[t]
      BY <1>4, <2>2, <2>4, RowsOfLive
    <3>2. r \in 1 .. Len(resources)
      BY <1>1, <2>1, <2>2, <3>1 DEF TablesInv, TargetsFit
    <3>3. Loaded(r)
      BY <1>1, <2>2, <3>2, LiveAfter DEF Loaded
    <3>4. Counts(t, b, rules)
      BY <2>1, <2>2, <3>1, <3>3 DEF Counts
    <3>5. Binding(t) \in may
      BY <1>2, <1>4, <3>1, <3>4 DEF MayAt
    <3>6. Binding(t)' = Binding(t)
      BY <3>1 DEF Binding
    <3> QED BY <3>5, <3>6
  <2> QED BY <2>3, <2>4
<1>5. may \subseteq may'
  OBVIOUS
<1>6. ASSUME NEW row \in e.rows, Loaded(row[2])' PROVE MayHave(e, row[2])'
  <2>1. MayHave(e, row[2])
    BY <1>3, <1>6 DEF MayAt
  <2> QED BY <1>5, <2>1, MayHaveStays
<1>7. ASSUME NEW what \in e.left PROVE MayHave(e, what[1][2])'
  <2>1. MayHave(e, what[1][2])
    BY <1>7 DEF MayAt
  <2> QED BY <1>5, <2>1, MayHaveStays
<1>8. ASSUME e.at \in ReadingAts, NEW t \in 1 .. Len(targets'), Counts(t, e.bucket, SameName(e.rule))'
      PROVE  Binding(t)' \in may'
  BY <1>2, <1>4, <1>8 DEF SameName
<1> QED BY <1>6, <1>7, <1>8 DEF MayAt

LEMMA MustWhileTheyChange ==
  ASSUME TablesInv, Keeps, NEW e \in Events, MustAt(e),
         \A m \in must : m[2] \in 1 .. Len(resources), must' \subseteq must
  PROVE  MustAt(e)'
<1>1. ASSUME NEW m \in must'
      PROVE  m \in must /\ (IsTopic(m[2])' <=> IsTopic(m[2])) /\ Outlets(m[2])' = Outlets(m[2])
  BY <1>1 DEF Keeps, IsTopic, Outlets
<1> QED BY <1>1 DEF MustAt, IsRead, IsServed

LEMMA NextKeepsEvent ==
  ASSUME EventInv, Next, UNCHANGED eventVars, Follow
  PROVE  EventInv'
<1>1. PutsInv' /\ TablesInv' /\ Keeps
  BY PutsInvNext, TablesInvHolds DEF EventInv, PutsInv
<1>2. event' = event
  BY DEF eventVars
<1>3. CASE event = NoEvent
  BY <1>1, <1>2, <1>3, NoEventAfter
<1>4. CASE event \in Events
  <2>1. PICK e \in Events : e = event /\ e = event'
    BY <1>2, <1>4
  <2>2. /\ must' = must \intersect Bindings(e.bucket, {e.rule})'
        /\ may' = may \union Bindings(e.bucket, SameName(e.rule))'
    BY <2>1, FollowGoesOn
  <2>3. /\ \A row \in e.rows : row[2] \in 0 .. Len(resources)
        /\ \A row \in e.rows : row[2] \in 0 .. Len(resources')
    <3>1. \A row \in e.rows : row[2] \in 0 .. Len(resources)
      BY <2>1 DEF EventInv, EventTyped
    <3>2. Len(resources) \in Nat /\ Len(resources') \in Nat /\ Len(resources) <= Len(resources')
      BY <1>1, LenProperties DEF Keeps, EventInv, PutsInv, TablesInv, TablesTyped
    <3>3. \A n \in 0 .. Len(resources) : n \in 0 .. Len(resources')
      BY <3>2
    <3> QED BY <3>1, <3>3
  <2>4. ASSUME e.name = e.bucket, Free({"race", "noConfig"})' PROVE MayAt(e)'
    <3>1. Free({"race", "noConfig"})
      BY <1>1, <2>4 DEF Free, Keeps
    <3>2. MayAt(e)
      BY <2>1, <2>4, <3>1 DEF EventInv, MayInv
    <3> QED BY <1>1, <2>2, <2>3, <2>4, <3>2, MayWhileTheyChange DEF EventInv
  <2>5. ASSUME e.name = e.bucket, ~e.blind PROVE MustAt(e)'
    <3>1. MustAt(e) /\ must \subseteq Bindings(e.bucket, {e.rule})
      BY <2>1, <2>5 DEF EventInv, MustInv
    <3>2. \A m \in must : m[2] \in 1 .. Len(resources)
      BY <3>1, MustIs DEF EventInv, PutsInv
    <3>3. must' \subseteq must
      BY <2>2
    <3> QED BY <1>1, <3>1, <3>2, <3>3, MustWhileTheyChange DEF EventInv, PutsInv
  <2> QED BY <1>1, <2>1, <2>2, <2>3, <2>4, <2>5, EventInvAfter
<1> QED BY <1>3, <1>4 DEF EventInv, EventTyped

-----------------------------------------------------------------------------
(* The steps of sendEvent. *)

LEMMA OccursKeeps ==
  ASSUME EventInv, NEW b \in Buckets, NEW style \in {"path", "host"}, NEW rule \in Rules,
         Occurs(b, style, rule), UNCHANGED vars, Follow
  PROVE  EventInv'
<1>1. PutsInv'
  BY PutsInvFrame DEF EventInv, vars, tables
<1>2. event = NoEvent
  BY DEF Occurs, EventAt, EventInv, EventTyped, Events, EventAts
<1>3. PICK f : f = [at |-> "config", bucket |-> b, name |-> BucketName(b, style),
                    rule |-> rule, rows |-> {}, left |-> {}, sent |-> {},
                    lost |-> {}, blind |-> FALSE, unfiltered |-> FALSE]
  OBVIOUS
<1>4. BucketName(b, style) \in Buckets \union {Unknown}
  BY TailAssumption DEF BucketName
<1>5. f = event' /\ f \in Events
  <2>1. f = event'
    BY <1>3 DEF Occurs
  <2>2. f \in Events
    BY <1>3, <1>4 DEF Events, EventAts
  <2> QED BY <2>1, <2>2
<1>6. f.at = "config" /\ f.rows = {} /\ f.left = {}
  BY <1>3
<1>7. MayAt(f)' /\ MustAt(f)'
  BY <1>6 DEF MayAt, MustAt, ReadingAts
<1>8. must' = Bindings(f.bucket, {f.rule})'
  BY <1>2, <1>5, FollowBegins
<1>9. must' \subseteq Bindings(f.bucket, {f.rule})'
  BY <1>8
<1> QED BY <1>1, <1>5, <1>6, <1>7, <1>9, EventInvAfter

\* What there is to show of a step from e to f.
LEMMA EventGoesOn ==
  ASSUME EventInv, UNCHANGED <<tables, put>>, mishaps \subseteq mishaps', Follow,
         NEW e \in Events, e = event, NEW f \in Events, f = event',
         f.bucket = e.bucket, f.name = e.name, f.rule = e.rule, e.blind => f.blind,
         \A row \in f.rows : row[2] \in 0 .. Len(resources),
         MayAt(e) /\ may \subseteq may' /\ Bindings(e.bucket, SameName(e.rule)) \subseteq may'
            /\ e.name = e.bucket
         => MayAt(f)',
         MustAt(e) /\ must' = must /\ must \subseteq Bindings(e.bucket, {e.rule})
            /\ e.name = e.bucket /\ ~f.blind
         => MustAt(f)'
  PROVE  EventInv'
<1>1. PutsInv'
  BY PutsInvFrame DEF EventInv
<1>2. configs' = configs /\ targets' = targets /\ resources' = resources
  BY DEF tables
<1>3. PICK now, near : /\ now = Bindings(e.bucket, {e.rule}) /\ now = Bindings(e.bucket, {e.rule})'
                       /\ near = Bindings(e.bucket, SameName(e.rule))
                       /\ near = Bindings(e.bucket, SameName(e.rule))'
  BY <1>2 DEF Bindings
<1>4. must' = must \intersect now /\ may' = may \union near
  BY <1>3, FollowGoesOn
<1>5. must \subseteq now
  BY <1>3 DEF EventInv, MustInv
<1>6. must' = must /\ may \subseteq may' /\ near \subseteq may'
  BY <1>4, <1>5
<1>7. \A row \in f.rows : row[2] \in 0 .. Len(resources')
  BY <1>2
<1>8. f.name = f.bucket /\ Free({"race", "noConfig"})' => MayAt(f)'
  <2>1. Free({"race", "noConfig"})' => Free({"race", "noConfig"})
    BY DEF Free
  <2> QED BY <1>3, <1>6, <2>1 DEF EventInv, MayInv
<1>9. f.name = f.bucket /\ ~f.blind => MustAt(f)'
  BY <1>3, <1>5, <1>6 DEF EventInv, MustInv
<1>10. must' \subseteq Bindings(f.bucket, {f.rule})'
  BY <1>3, <1>5, <1>6
<1> QED BY <1>1, <1>7, <1>8, <1>9, <1>10, EventInvAfter

LEMMA ReadConfigKeeps ==
  ASSUME EventInv, UNCHANGED <<tables, put>>, mishaps \subseteq mishaps', Follow, ReadConfig
  PROVE  EventInv'
<1>1. PICK e : e = event /\ e \in Events /\ e.at = "config"
  BY DEF ReadConfig, EventAt, EventInv, EventTyped, NoEvent
<1>2. PICK at : /\ at \in {"queues", "send"} /\ event' = [event EXCEPT !.at = at]
                /\ at = "queues" => e.name # Unknown /\ configs[e.name] = "live"
                /\ at = "send" => e.name = Unknown \/ configs[e.name] # "live"
  BY <1>1 DEF ReadConfig, Continue
<1>3. PICK f : f = [e EXCEPT !.at = at]
  OBVIOUS
<1>4. f = event' /\ f \in Events
  BY <1>1, <1>2, <1>3 DEF Events, EventAts
<1>5. /\ f.at = at /\ f.bucket = e.bucket /\ f.name = e.name /\ f.rule = e.rule
      /\ f.rows = e.rows /\ f.left = e.left /\ f.sent = e.sent /\ f.lost = e.lost
      /\ f.blind = e.blind /\ f.unfiltered = e.unfiltered
  BY <1>1, <1>3 DEF Events
<1>6. configs' = configs /\ targets' = targets /\ resources' = resources
  BY DEF tables
<1>7. ASSUME MayAt(e), may \subseteq may', Bindings(e.bucket, SameName(e.rule)) \subseteq may',
             e.name = e.bucket
      PROVE  MayAt(f)'
  <2>1. ASSUME f.at \in ReadingAts, NEW t \in 1 .. Len(targets), Counts(t, e.bucket, SameName(e.rule))
        PROVE  Binding(t) \in may'
    <3>1. configs[e.bucket] = "live"
      BY <1>2, <1>5, <1>7, <2>1 DEF ReadingAts
    <3> QED BY <1>7, <2>1, <3>1, BindingIn DEF EventInv, PutsInv, TablesInv
  <2>2. \A row \in f.rows : Loaded(row[2]) => MayHave(f, row[2])'
    BY <1>5, <1>7, MayHaveStays DEF MayAt
  <2>3. \A what \in f.left : MayHave(f, what[1][2])'
    BY <1>5, <1>7, MayHaveStays DEF MayAt
  <2> QED BY <1>5, <1>6, <2>1, <2>2, <2>3 DEF MayAt, Loaded, Counts, Binding, SameName
<1>8. ASSUME must' = must, must \subseteq Bindings(e.bucket, {e.rule}), e.name = e.bucket
      PROVE  MustAt(f)'
  <2>1. CASE at = "queues"
    BY <1>5, <2>1 DEF MustAt
  <2>2. CASE at = "send"
    <3>1. configs[e.bucket] # "live"
      BY <1>1, <1>2, <1>8, <2>2, UnknownAssumption DEF Events
    <3>2. Bindings(e.bucket, {e.rule}) = {}
      BY <3>1 DEF Bindings
    <3> QED BY <1>8, <3>2 DEF MustAt
  <2> QED BY <1>2, <2>1, <2>2
<1>9. \A row \in f.rows : row[2] \in 0 .. Len(resources)
  BY <1>1, <1>5 DEF EventInv, EventTyped
<1> QED BY <1>1, <1>4, <1>5, <1>7, <1>8, <1>9, EventGoesOn

\* The rows that match are read, without their filters when these could not be.
LEMMA RowsKeep ==
  ASSUME EventInv, UNCHANGED <<tables, put>>, mishaps \subseteq mishaps', Follow,
         NEW kind \in {"queue", "topic"}, NEW at, NEW next,
         \/ kind = "queue" /\ at = "queues" /\ next = "queueResources"
         \/ kind = "topic" /\ at = "topics" /\ next = "topicResources",
         NEW e \in Events, e = event, e.at = at,
         NEW rules, e.rule \in rules, rules \subseteq SameName(e.rule),
         NEW unfiltered \in BOOLEAN, e.unfiltered => unfiltered,
         \A rule \in rules : rule = e.rule \/ unfiltered,
         event' = [e EXCEPT !.at = next, !.rows = Rows(kind, rules), !.unfiltered = unfiltered]
  PROVE  EventInv'
<1>1. PICK rows : rows = Rows(kind, rules)
  OBVIOUS
<1>2. PICK f : f = [e EXCEPT !.at = next, !.rows = rows, !.unfiltered = unfiltered]
  OBVIOUS
<1>3. /\ f.at = next /\ f.bucket = e.bucket /\ f.name = e.name /\ f.rule = e.rule
      /\ f.rows = rows /\ f.left = e.left /\ f.sent = e.sent /\ f.lost = e.lost
      /\ f.blind = e.blind /\ f.unfiltered = unfiltered
  BY <1>2 DEF Events
<1>4. f = event'
  BY <1>1, <1>2
<1>5. /\ TablesTyped /\ TargetsFit /\ Len(targets) \in Nat /\ Len(resources) \in Nat
      /\ DOMAIN targets = 1 .. Len(targets)
      /\ \A t \in 1 .. Len(targets) : targets[t].resource \in Nat
  BY RowsAre DEF EventInv, PutsInv, TablesInv, TargetRows
<1>6. \A row \in rows : \E t \in 1 .. Len(targets) :
         /\ row = <<t, targets[t].resource>> /\ targets[t].resource \in 0 .. Len(resources)
         /\ targets[t].config = e.name /\ targets[t].rule \in rules
  <2>1. \A t \in 1 .. Len(targets) : targets[t].resource \in 0 .. Len(resources)
    BY <1>5 DEF TargetsFit
  <2> QED BY <1>1, <1>5, <2>1 DEF Rows, MatchingRows
<1>7. rows \subseteq Nat \X Nat /\ \A row \in rows : row[2] \in 0 .. Len(resources)
  <2>1. ASSUME NEW row \in rows PROVE row \in Nat \X Nat /\ row[2] \in 0 .. Len(resources)
    <3>1. PICK t \in 1 .. Len(targets) :
             row = <<t, targets[t].resource>> /\ targets[t].resource \in 0 .. Len(resources)
      BY <1>6, <2>1
    <3> QED BY <1>5, <3>1
  <2> QED BY <2>1
<1>8. f \in Events
  <2>1. next \in EventAts
    BY DEF EventAts
  <2> QED BY <1>2, <1>7, <2>1 DEF Events
<1>9. configs' = configs /\ targets' = targets /\ resources' = resources
  BY DEF tables
<1>10. ASSUME MayAt(e), may \subseteq may', e.name = e.bucket PROVE MayAt(f)'
  <2>1. \A t \in 1 .. Len(targets) : Counts(t, e.bucket, SameName(e.rule)) => Binding(t) \in may
    BY <1>10 DEF MayAt, ReadingAts
  <2>2. ASSUME NEW row \in rows, Loaded(row[2]) PROVE MayHave(f, row[2])'
    <3>1. PICK t \in 1 .. Len(targets) :
             /\ row = <<t, targets[t].resource>>
             /\ targets[t].config = e.name /\ targets[t].rule \in rules
      BY <1>6, <2>2
    <3>2. row[2] = targets[t].resource
      BY <3>1
    <3>3. Counts(t, e.bucket, SameName(e.rule))
      BY <1>10, <2>2, <3>1, <3>2 DEF Counts
    <3>4. PICK m \in may' : m = Binding(t)
      BY <1>10, <2>1, <3>3
    <3>5. m[2] = row[2] /\ m[3] = targets[t].rule
      BY <3>2, <3>4 DEF Binding
    <3>6. m[3] = f.rule \/ f.unfiltered
      BY <1>3, <3>1, <3>5
    <3> QED BY <3>4, <3>5, <3>6 DEF MayHave
  <2>3. \A what \in f.left : MayHave(f, what[1][2])'
    BY <1>3, <1>10, MayHaveStays DEF MayAt
  <2> QED BY <1>3, <1>9, <1>10, <2>1, <2>2, <2>3 DEF MayAt, Loaded, Counts, Binding, SameName
<1>11. ASSUME MustAt(e), must' = must, must \subseteq Bindings(e.bucket, {e.rule}), e.name = e.bucket
       PROVE  MustAt(f)'
  <2>1. ASSUME NEW m \in must, m[1] = kind PROVE IsRead(f, m[2])
    <3>1. PICK one : one = {e.rule}
      OBVIOUS
    <3>2. TablesInv /\ m \in must /\ must \subseteq Bindings(e.bucket, one)
      BY <1>11, <2>1, <3>1 DEF EventInv, PutsInv
    <3>3. PICK t \in 1 .. Len(targets) : Counts(t, e.bucket, one) /\ m = Binding(t)
      BY <3>2, MustIs
    <3>4. /\ targets[t].kind = kind /\ m[2] = targets[t].resource
          /\ targets[t].config = e.bucket /\ targets[t].rule = e.rule
      BY <2>1, <3>1, <3>3 DEF Binding, Counts
    <3>5. t \in MatchingRows(kind, rules)
      BY <1>5, <1>11, <3>3, <3>4 DEF MatchingRows
    <3>6. <<t, m[2]>> \in rows
      BY <1>1, <3>4, <3>5 DEF Rows
    <3> QED BY <1>3, <1>5, <3>3, <3>6 DEF IsRead
  <2>2. \A r, outlet : IsServed(e, r, outlet) => IsServed(f, r, outlet)
    BY <1>3 DEF IsServed
  <2>3. CASE kind = "queue"
    BY <1>3, <1>9, <1>11, <2>1, <2>3 DEF MustAt, IsRead
  <2>4. CASE kind = "topic"
    <3>1. \A m \in must : m[1] = "queue" /\ ~IsTopic(m[2]) => IsServed(f, m[2], "list")
      BY <1>11, <2>2, <2>4 DEF MustAt
    <3>2. \A r : IsTopic(r)' <=> IsTopic(r)
      BY <1>9 DEF IsTopic
    <3> QED BY <1>3, <1>9, <1>11, <2>1, <2>4, <3>1, <3>2 DEF MustAt, IsRead, IsServed
  <2> QED BY <2>3, <2>4
<1> QED BY <1>3, <1>4, <1>7, <1>8, <1>10, <1>11, EventGoesOn

LEMMA ReadTargetsKeeps ==
  ASSUME EventInv, UNCHANGED <<tables, put>>, mishaps \subseteq mishaps', Follow,
         NEW kind \in {"queue", "topic"}, NEW at, NEW next,
         \/ kind = "queue" /\ at = "queues" /\ next = "queueResources"
         \/ kind = "topic" /\ at = "topics" /\ next = "topicResources",
         ReadTargets(kind, at, next) \/ FiltersFail(kind, at, next)
  PROVE  EventInv'
<1>1. PICK e : e = event /\ e \in Events /\ e.at = at
  BY DEF ReadTargets, FiltersFail, EventAt, EventInv, EventTyped, NoEvent
<1>2. e.rule \in Rules /\ e.rule \in SameName(e.rule) /\ e.unfiltered \in BOOLEAN
  BY <1>1 DEF Events, SameName
<1>3. CASE ReadTargets(kind, at, next)
  <2>1. PICK rules : rules = {e.rule}
    OBVIOUS
  <2>2. PICK rows : rows = Rows(kind, rules)
    OBVIOUS
  <2>3. event' = [e EXCEPT !.at = next, !.rows = rows]
    BY <1>1, <1>3, <2>1, <2>2 DEF ReadTargets
  <2>4. event' = [e EXCEPT !.at = next, !.rows = rows, !.unfiltered = e.unfiltered]
    BY <1>1, <2>3 DEF Events
  <2>5. rules \subseteq SameName(e.rule) /\ e.rule \in rules /\ \A rule \in rules : rule = e.rule
    BY <1>2, <2>1
  <2>6. event' = [e EXCEPT !.at = next, !.rows = Rows(kind, rules), !.unfiltered = e.unfiltered]
    BY <2>2, <2>4
  <2> QED BY <1>1, <1>2, <2>5, <2>6, RowsKeep
<1>4. CASE FiltersFail(kind, at, next)
  <2>1. event' = [e EXCEPT !.at = next, !.rows = Rows(kind, SameName(e.rule)), !.unfiltered = TRUE]
    BY <1>1, <1>4 DEF FiltersFail
  <2> QED BY <1>1, <1>2, <2>1, RowsKeep
<1> QED BY <1>3, <1>4

LEMMA ReadResourcesKeeps ==
  ASSUME EventInv, UNCHANGED <<tables, put>>, mishaps \subseteq mishaps', Follow,
         NEW kind, NEW at, NEW next,
         \/ kind = "queue" /\ at = "queueResources" /\ next = "topics"
         \/ kind = "topic" /\ at = "topicResources" /\ next = "send",
         ReadResources(kind, at, next)
  PROVE  EventInv'
<1>1. PICK e : e = event /\ e \in Events /\ e.at = at
  BY DEF ReadResources, EventAt, EventInv, EventTyped, NoEvent
<1>2. PICK new : new = UNION {{row} \X OutletsLoaded(kind, row[2]) :
                                 row \in {row \in e.rows : Loaded(row[2])}}
  OBVIOUS
<1>3. PICK f : f = [e EXCEPT !.at = next, !.rows = {}, !.left = e.left \union new]
  OBVIOUS
<1>4. /\ f.at = next /\ f.bucket = e.bucket /\ f.name = e.name /\ f.rule = e.rule
      /\ f.rows = {} /\ f.left = e.left \union new /\ f.sent = e.sent /\ f.lost = e.lost
      /\ f.blind = e.blind /\ f.unfiltered = e.unfiltered
  BY <1>1, <1>3 DEF Events
<1>5. f = event'
  BY <1>1, <1>2, <1>3 DEF ReadResources
<1>6. \A what : what \in new <=>
         \E row \in e.rows : /\ Loaded(row[2])
                             /\ \E outlet \in OutletsLoaded(kind, row[2]) : what = <<row, outlet>>
  BY <1>2
<1>7. f \in Events
  <2>1. \A r : OutletsLoaded(kind, r) \subseteq AnyOutlet
    BY DEF OutletsLoaded, Outlets, AnyOutlet
  <2>2. e.rows \subseteq Nat \X Nat /\ e.left \subseteq (Nat \X Nat) \X AnyOutlet
    BY <1>1 DEF Events
  <2>3. new \subseteq (Nat \X Nat) \X AnyOutlet
    BY <1>6, <2>1, <2>2
  <2>4. f.left \in SUBSET ((Nat \X Nat) \X AnyOutlet)
    BY <1>4, <2>2, <2>3
  <2>5. next \in EventAts
    BY DEF EventAts
  <2> QED BY <1>1, <1>3, <1>4, <2>4, <2>5 DEF Events
<1>8. configs' = configs /\ targets' = targets /\ resources' = resources
  BY DEF tables
<1>9. ASSUME MayAt(e), may \subseteq may', e.name = e.bucket PROVE MayAt(f)'
  <2>1. f.at \in ReadingAts =>
           \A t \in 1 .. Len(targets) : Counts(t, e.bucket, SameName(e.rule)) => Binding(t) \in may'
    BY <1>1, <1>4, <1>9 DEF MayAt, ReadingAts
  <2>2. ASSUME NEW what \in f.left PROVE MayHave(f, what[1][2])'
    <3>1. MayHave(e, what[1][2])
      BY <1>4, <1>6, <1>9, <2>2 DEF MayAt
    <3> QED BY <1>4, <1>9, <3>1, MayHaveStays
  <2> QED BY <1>4, <1>8, <2>1, <2>2 DEF MayAt, Loaded, Counts, Binding, SameName
<1>10. ASSUME MustAt(e), must' = must, must \subseteq Bindings(e.bucket, {e.rule})
       PROVE  MustAt(f)'
  <2>1. ASSUME NEW m \in must, IsRead(e, m[2]), NEW outlet \in OutletsLoaded(kind, m[2])
        PROVE  IsServed(f, m[2], outlet)
    <3>1. PICK t \in Nat : <<t, m[2]>> \in e.rows
      BY <2>1 DEF IsRead
    <3>2. Loaded(m[2])
      BY <1>10, <2>1, MustIs DEF EventInv, PutsInv
    <3>3. <<<<t, m[2]>>, outlet>> \in new
      BY <1>6, <2>1, <3>1, <3>2
    <3> QED BY <1>4, <3>1, <3>3 DEF IsServed
  <2>2. \A r, outlet : IsServed(e, r, outlet) => IsServed(f, r, outlet)
    BY <1>4 DEF IsServed
  <2>3. \A r : (IsTopic(r)' <=> IsTopic(r)) /\ Outlets(r)' = Outlets(r)
    BY <1>8 DEF IsTopic, Outlets
  <2>4. CASE at = "queueResources"
    <3>1. \A m \in must : m[1] = "queue" /\ ~IsTopic(m[2]) => IsServed(f, m[2], "list")
      <4>1. \A r : ~IsTopic(r) => "list" \in OutletsLoaded(kind, r)
        BY DEF OutletsLoaded, Outlets
      <4> QED BY <1>1, <1>10, <2>1, <2>4, <4>1 DEF MustAt
    <3> QED BY <1>4, <1>10, <2>3, <2>4, <3>1 DEF MustAt, IsServed
  <2>5. CASE at = "topicResources"
    <3>1. \A m \in must : m[1] = "queue" /\ ~IsTopic(m[2]) => IsServed(f, m[2], "list")
      BY <1>1, <1>10, <2>2, <2>5 DEF MustAt
    <3>2. \A m \in must : m[1] = "topic" =>
             \A outlet \in Outlets(m[2]) : IsServed(f, m[2], outlet)
      <4>1. \A r : OutletsLoaded(kind, r) = Outlets(r)
        BY <2>5 DEF OutletsLoaded
      <4> QED BY <1>1, <1>10, <2>1, <2>5, <4>1 DEF MustAt
    <3> QED BY <1>4, <1>10, <2>3, <2>5, <3>1, <3>2 DEF MustAt, IsServed
  <2> QED BY <2>4, <2>5
<1>11. \A row \in f.rows : row[2] \in 0 .. Len(resources)
  BY <1>4
<1> QED BY <1>1, <1>4, <1>5, <1>7, <1>9, <1>10, <1>11, EventGoesOn

\* A read that fails leaves the event blind to what it would have found.
LEMMA BlindKeeps ==
  ASSUME EventInv, UNCHANGED <<tables, put>>, mishaps \subseteq mishaps', Follow,
         NEW e \in Events, e = event, NEW at \in {"topics", "send"}, at = "topics" => e.at \in ReadingAts,
         NEW rows, rows = {} \/ rows = e.rows,
         event' = [e EXCEPT !.at = at, !.rows = rows, !.blind = TRUE]
  PROVE  EventInv'
<1>1. PICK f : f = [e EXCEPT !.at = at, !.rows = rows, !.blind = TRUE]
  OBVIOUS
<1>2. f = event' /\ f.at = at /\ f.bucket = e.bucket /\ f.name = e.name /\ f.rule = e.rule
      /\ f.rows = rows /\ f.left = e.left /\ f.blind /\ f.unfiltered = e.unfiltered
  BY <1>1 DEF Events
<1>3. f \in Events
  BY <1>1 DEF Events, EventAts
<1>4. configs' = configs /\ targets' = targets /\ resources' = resources
  BY DEF tables
<1>5. \A row \in f.rows : row[2] \in 0 .. Len(resources)
  BY <1>2 DEF EventInv, EventTyped
<1>6. ASSUME MayAt(e), may \subseteq may', e.name = e.bucket PROVE MayAt(f)'
  <2>1. f.at \in ReadingAts =>
           \A t \in 1 .. Len(targets) : Counts(t, e.bucket, SameName(e.rule)) => Binding(t) \in may'
    BY <1>2, <1>6 DEF MayAt, ReadingAts
  <2>2. \A row \in f.rows : Loaded(row[2]) => MayHave(f, row[2])'
    BY <1>2, <1>6, MayHaveStays DEF MayAt
  <2>3. \A what \in f.left : MayHave(f, what[1][2])'
    BY <1>2, <1>6, MayHaveStays DEF MayAt
  <2> QED BY <1>2, <1>4, <2>1, <2>2, <2>3 DEF MayAt, Loaded, Counts, Binding, SameName
<1> QED BY <1>2, <1>3, <1>5, <1>6, EventGoesOn

\* What is sent, or lost, is still served.
LEMMA SendKeeps ==
  ASSUME EventInv, UNCHANGED <<tables, put>>, mishaps \subseteq mishaps', Follow,
         NEW what \in Left, Send(what) \/ SendFails(what)
  PROVE  EventInv'
<1>1. PICK e : e = event /\ e \in Events /\ e.at = "send" /\ what \in e.left
  BY DEF Send, SendFails, EventAt, EventInv, EventTyped, NoEvent, Left
<1>2. PICK one : one = <<what[1][2], what[2]>>
  OBVIOUS
<1>3. PICK t \in Nat, r \in Nat, outlet \in AnyOutlet : what = <<<<t, r>>, outlet>>
  BY <1>1 DEF Events
<1>4. one = <<r, outlet>>
  BY <1>2, <1>3
<1>5. PICK f : /\ f = event'
               /\ \/ f = [e EXCEPT !.left = e.left \ {what}, !.sent = e.sent \union {one}]
                  \/ f = [e EXCEPT !.left = e.left \ {what}, !.lost = e.lost \union {one}]
  BY <1>1, <1>2 DEF Send, SendFails
<1>6. /\ f.at = e.at /\ f.bucket = e.bucket /\ f.name = e.name /\ f.rule = e.rule
      /\ f.rows = e.rows /\ f.left = e.left \ {what} /\ f.blind = e.blind
      /\ f.unfiltered = e.unfiltered
      /\ f.sent \union f.lost = (e.sent \union e.lost) \union {one}
  BY <1>1, <1>5 DEF Events
<1>7. f \in Events
  <2>1. one \in Nat \X AnyOutlet
    BY <1>3, <1>4
  <2>2. e.left \ {what} \in SUBSET ((Nat \X Nat) \X AnyOutlet)
    BY <1>1 DEF Events
  <2>3. e.sent \union {one} \in SUBSET (Nat \X AnyOutlet)
    BY <1>1, <2>1 DEF Events
  <2>4. e.lost \union {one} \in SUBSET (Nat \X AnyOutlet)
    BY <1>1, <2>1 DEF Events
  <2>5. CASE f = [e EXCEPT !.left = e.left \ {what}, !.sent = e.sent \union {one}]
    BY <1>1, <2>2, <2>3, <2>5 DEF Events
  <2>6. CASE f = [e EXCEPT !.left = e.left \ {what}, !.lost = e.lost \union {one}]
    BY <1>1, <2>2, <2>4, <2>6 DEF Events
  <2> QED BY <1>5, <2>5, <2>6
<1>8. configs' = configs /\ targets' = targets /\ resources' = resources
  BY DEF tables
<1>9. \A row \in f.rows : row[2] \in 0 .. Len(resources)
  BY <1>1, <1>6 DEF EventInv, EventTyped
<1>10. ASSUME MayAt(e), may \subseteq may' PROVE MayAt(f)'
  <2>1. \A row \in f.rows : Loaded(row[2]) => MayHave(f, row[2])'
    BY <1>6, <1>10, MayHaveStays DEF MayAt
  <2>2. \A left \in f.left : MayHave(f, left[1][2])'
    BY <1>6, <1>10, MayHaveStays DEF MayAt
  <2>3. f.at \notin ReadingAts
    BY <1>1, <1>6 DEF ReadingAts
  <2> QED BY <1>8, <2>1, <2>2, <2>3 DEF MayAt, Loaded
<1>11. ASSUME MustAt(e), must' = must PROVE MustAt(f)'
  <2>1. ASSUME NEW q, NEW by, IsServed(e, q, by) PROVE IsServed(f, q, by)
    <3>1. CASE <<q, by>> \in e.sent \union e.lost
      BY <1>6, <3>1 DEF IsServed
    <3>2. CASE \E u \in Nat : <<<<u, q>>, by>> \in e.left
      <4>1. PICK u \in Nat : <<<<u, q>>, by>> \in e.left
        BY <3>2
      <4>2. CASE <<<<u, q>>, by>> = what
        <5>1. one = <<q, by>>
          BY <1>3, <1>4, <4>2
        <5> QED BY <1>6, <5>1 DEF IsServed
      <4>3. CASE <<<<u, q>>, by>> # what
        BY <1>6, <4>1, <4>3 DEF IsServed
      <4> QED BY <4>2, <4>3
    <3> QED BY <2>1, <3>1, <3>2 DEF IsServed
  <2>2. \A m \in must : m[1] = "queue" /\ ~IsTopic(m[2]) => IsServed(f, m[2], "list")
    BY <1>1, <1>11, <2>1 DEF MustAt
  <2>3. \A m \in must : m[1] = "topic" => \A by \in Outlets(m[2]) : IsServed(f, m[2], by)
    BY <1>1, <1>11, <2>1 DEF MustAt
  <2>4. f.at = "send"
    BY <1>1, <1>6
  <2>5. \A q : (IsTopic(q)' <=> IsTopic(q)) /\ Outlets(q)' = Outlets(q)
    BY <1>8 DEF IsTopic, Outlets
  <2> QED BY <1>11, <2>2, <2>3, <2>4, <2>5 DEF MustAt, IsServed
<1> QED BY <1>1, <1>5, <1>6, <1>7, <1>9, <1>10, <1>11, EventGoesOn

LEMMA EventStepsKeep ==
  ASSUME EventInv, EventSteps, Follow
  PROVE  EventInv'
<1>1. UNCHANGED <<tables, put>> /\ mishaps \subseteq mishaps'
  BY DEF EventSteps, vars, tables
<1>2. CASE Reads
  <2>1. CASE ReadConfig
    BY <1>1, <2>1, ReadConfigKeeps
  <2>2. CASE ReadTargets("queue", "queues", "queueResources")
    BY <1>1, <2>2, ReadTargetsKeeps
  <2>3. CASE ReadResources("queue", "queueResources", "topics")
    BY <1>1, <2>3, ReadResourcesKeeps
  <2>4. CASE ReadTargets("topic", "topics", "topicResources")
    BY <1>1, <2>4, ReadTargetsKeeps
  <2>5. CASE ReadResources("topic", "topicResources", "send")
    BY <1>1, <2>5, ReadResourcesKeeps
  <2> QED BY <1>2, <2>1, <2>2, <2>3, <2>4, <2>5 DEF Reads
<1>3. CASE \E what \in Left : Send(what)
  BY <1>1, <1>3, SendKeeps
<1>4. CASE Ends
  <2>1. PutsInv'
    BY <1>1, PutsInvFrame DEF EventInv
  <2> QED BY <1>4, <2>1, NoEventAfter DEF Ends
<1> QED BY <1>2, <1>3, <1>4 DEF EventSteps

LEMMA EventFailsKeeps ==
  ASSUME EventInv, EventFails, Follow
  PROVE  EventInv'
<1>1. UNCHANGED <<tables, put>> /\ mishaps \subseteq mishaps'
  BY DEF EventFails, Marks
<1>2. CASE ReadConfigFails
  <2>1. PICK e : e = event /\ e \in Events
    BY <1>2 DEF ReadConfigFails, EventAt, EventInv, EventTyped, NoEvent
  <2>2. event' = [e EXCEPT !.at = "send", !.rows = e.rows, !.blind = TRUE]
    BY <1>2, <2>1 DEF ReadConfigFails, Events
  <2> QED BY <1>1, <2>1, <2>2, BlindKeeps
<1>3. ASSUME NEW at \in ReadingAts, NEW next \in {"topics", "send"}, ReadFails(at, next)
      PROVE  EventInv'
  <2>1. PICK e : e = event /\ e \in Events /\ e.at = at
    BY <1>3 DEF ReadFails, ReadingAts, EventAt, EventInv, EventTyped, NoEvent
  <2>2. event' = [e EXCEPT !.at = next, !.rows = {}, !.blind = TRUE]
    BY <1>3, <2>1 DEF ReadFails
  <2> QED BY <1>1, <1>3, <2>1, <2>2, BlindKeeps
<1>4. CASE \E what \in Left : SendFails(what)
  BY <1>1, <1>4, SendKeeps
<1>5. {"queues", "queueResources", "topics", "topicResources"} \subseteq ReadingAts
  BY DEF ReadingAts
<1>6. CASE \/ FiltersFail("queue", "queues", "queueResources")
           \/ FiltersFail("topic", "topics", "topicResources")
  BY <1>1, <1>6, ReadTargetsKeeps
<1> QED BY <1>2, <1>3, <1>4, <1>5, <1>6 DEF EventFails

LEMMA EventInvInit ==
  ASSUME Init, InitEvent
  PROVE  EventInv
<1>1. NoEvent \notin Events
  BY DEF NoEvent, Events
<1> QED BY <1>1, PutsInvInit DEF InitEvent, EventInv, EventTyped, MayInv, MustInv

LEMMA EventInvNext ==
  ASSUME EventInv, [EventNext]_allVars
  PROVE  EventInv'
<1>1. CASE Next /\ UNCHANGED eventVars /\ Follow
  BY <1>1, NextKeepsEvent
<1>2. CASE (\E b \in Buckets, style \in {"path", "host"}, rule \in Rules :
               Occurs(b, style, rule) /\ UNCHANGED vars) /\ Follow
  BY <1>2, OccursKeeps
<1>3. CASE EventSteps /\ Follow
  BY <1>3, EventStepsKeep
<1>4. CASE EventFails /\ Follow
  BY <1>4, EventFailsKeeps
<1>5. CASE UNCHANGED allVars
  <2>1. PutsInv'
    BY <1>5, PutsInvFrame DEF EventInv, allVars, vars, tables
  <2>2. EventTyped'
    BY <1>5 DEF EventInv, EventTyped, allVars, vars, eventVars, tables
  <2>3. MayInv'
    BY <1>5 DEF EventInv, MayInv, MayAt, MayHave, Counts, Binding, Loaded, SameName, Free, allVars,
                vars, eventVars
  <2>4. MustInv'
    BY <1>5 DEF EventInv, MustInv, MustAt, IsRead, IsServed, IsTopic, Outlets, Bindings, allVars,
                vars, eventVars
  <2> QED BY <2>1, <2>2, <2>3, <2>4 DEF EventInv
<1> QED BY <1>1, <1>2, <1>3, <1>4, <1>5 DEF EventNext

LEMMA EventInvAlways == EventSpec => []EventInv
<1>1. Init /\ InitEvent => EventInv
  BY EventInvInit
<1>2. EventInv /\ [EventNext]_allVars => EventInv'
  BY EventInvNext
<1> QED BY <1>1, <1>2, PTL DEF EventSpec

\* Nobody gets an event of a bucket, or is about to, who was not bound to it for events of
\* that name and filter while it was in progress, whatever PUTs and deletions do between the
\* statements of sendEvent, unless a filter could not be read, as long as no PUT binds a
\* target of a configuration that another one has deleted.
THEOREM NothingFalseHolds == EventSpec => []NothingFalse
<1>1. ASSUME EventInv PROVE NothingFalse
  <2>1. event = NoEvent => EventAt("none")
    BY DEF NoEvent, EventAt
  <2> QED BY <1>1, <2>1 DEF EventInv, EventTyped, MayInv, MayAt, MayHave, NothingFalse, OfOwnBucket
<1> QED BY <1>1, EventInvAlways, PTL

LEMMA EndOfEvent ==
  ASSUME EventInv, EventNext, OfOwnBucket, event' = NoEvent, ~event.blind,
         NEW m \in must, ~(IsTopic(m[2]) /\ m[1] = "queue"), NEW outlet \in Outlets(m[2])
  PROVE  <<m[2], outlet>> \in event.sent \union event.lost
<1>1. PICK e : e = event /\ e \in Events
  BY DEF EventInv, EventTyped, OfOwnBucket, EventAt, NoEvent
<1>2. e # NoEvent /\ NoEvent \notin Events
  BY <1>1 DEF NoEvent, Events
<1>3. e.at = "send" /\ e.left = {}
  <2>1. CASE UNCHANGED eventVars
    BY <1>1, <1>2, <2>1 DEF eventVars
  <2>2. CASE \E b \in Buckets, style \in {"path", "host"}, rule \in Rules : Occurs(b, style, rule)
    BY <2>2 DEF Occurs, OfOwnBucket
  <2>3. CASE Reads
    <3>1. event'.at # "none"
      BY <1>1, <2>3 DEF Reads, ReadConfig, Continue, ReadTargets, ReadResources, Events
    <3> QED BY <3>1 DEF NoEvent
  <2>4. CASE \E what \in Left : Send(what) \/ SendFails(what)
    <3>1. event'.at # "none"
      BY <1>1, <2>4 DEF Send, SendFails, EventAt, Events
    <3> QED BY <3>1 DEF NoEvent
  <2>5. CASE Ends
    BY <1>1, <2>5 DEF Ends, EventAt
  <2>6. CASE EventFails
    <3>1. CASE \E what \in Left : SendFails(what)
      BY <2>4, <3>1
    <3>2. CASE ~ \E what \in Left : SendFails(what)
      <4>1. \E at \in EventAts : event'.at = at
        BY <1>1, <2>6, <3>2 DEF EventFails, ReadConfigFails, ReadFails, FiltersFail, Events, EventAts
      <4> QED BY <4>1 DEF NoEvent, EventAts
    <3> QED BY <3>1, <3>2
  <2> QED BY <2>1, <2>2, <2>3, <2>4, <2>5, <2>6 DEF EventNext, EventSteps
<1>4. MustAt(e) /\ m[1] \in {"queue", "topic"}
  <2>1. MustAt(e) /\ must \subseteq Bindings(e.bucket, {e.rule})
    BY <1>1 DEF EventInv, MustInv, OfOwnBucket
  <2> QED BY <2>1, MustIs DEF EventInv, PutsInv
<1>5. IsServed(e, m[2], outlet)
  <2>1. CASE m[1] = "queue"
    <3>1. ~IsTopic(m[2]) /\ outlet = "list"
      BY <2>1 DEF Outlets
    <3> QED BY <1>3, <1>4, <2>1, <3>1 DEF MustAt
  <2>2. CASE m[1] = "topic"
    BY <1>3, <1>4, <2>2 DEF MustAt
  <2> QED BY <1>4, <2>1, <2>2
<1> QED BY <1>1, <1>3, <1>5 DEF IsServed

\* Whoever was bound to the bucket when the event happened, and stayed so, gets it, each
\* endpoint of a topic too, but a topic that a QueueConfiguration names gets nothing: only a
\* push that fails is lost, and costs one outlet.
THEOREM NothingMissedHolds == EventSpec => NothingMissed
<1>1. EventInv /\ [EventNext]_allVars =>
         [OfOwnBucket /\ event' = NoEvent /\ ~event.blind =>
            \A m \in must : ~(IsTopic(m[2]) /\ m[1] = "queue") =>
                \A outlet \in Outlets(m[2]) :
                    <<m[2], outlet>> \in event.sent \union event.lost]_allVars
  BY EndOfEvent
<1> QED BY <1>1, EventInvAlways, PTL DEF EventSpec, NothingMissed

-----------------------------------------------------------------------------
(* Induction.  What is to be shown of each number up to n is put as a set  *)
(* of numbers, and a function that is defined by recursion is extended     *)
(* from one number to the next.                                            *)

\* A set of numbers up to n that has the first, and the next of each but the last, is all.
LEMMA UpFrom ==
  ASSUME NEW n \in Nat, NEW S, 0 \in S, \A i \in 1 .. n : i - 1 \in S => i \in S
  PROVE  0 .. n \subseteq S
<1> SUFFICES ASSUME (0 .. n) \ S # {} PROVE FALSE
  OBVIOUS
<1>1. PICK i \in (0 .. n) \ S : \A j \in (0 .. n) \ S : i <= j
  <2>1. (0 .. n) \ S \in SUBSET Nat
    OBVIOUS
  <2> QED BY <2>1, LeastOf
<1>2. i \in 1 .. n /\ i - 1 \in 0 .. n
  BY <1>1
<1>3. i - 1 \in S
  BY <1>1, <1>2
<1> QED BY <1>1, <1>2, <1>3

\* A value for each number up to n, each from the one before.
IsRecursion(f, n, V, first, next) ==
    f \in [0 .. n -> V] /\ f[0] = first /\ \A i \in 1 .. n : f[i] = next[i][f[i - 1]]

\* A function that is defined by recursion over the numbers up to n exists.
LEMMA Recursion ==
  ASSUME NEW n \in Nat, NEW V, NEW first \in V, NEW next \in [1 .. n -> [V -> V]]
  PROVE  \E f : IsRecursion(f, n, V, first, next)
<1> DEFINE Follows(f, k) == f[0] = first /\ \A i \in 1 .. k : f[i] = next[i][f[i - 1]]
           S == {k \in 0 .. n : \E f \in [0 .. k -> V] : Follows(f, k)}
<1>1. 0 \in S
  <2> DEFINE f == [i \in 0 .. 0 |-> first]
  <2>1. f \in [0 .. 0 -> V] /\ f[0] = first /\ \A i \in 1 .. 0 : FALSE
    OBVIOUS
  <2>2. Follows(f, 0)
    BY <2>1
  <2> HIDE DEF f, Follows
  <2>3. 0 \in 0 .. n
    OBVIOUS
  <2> QED BY <2>1, <2>2, <2>3
<1>2. ASSUME NEW k \in 1 .. n, k - 1 \in S PROVE k \in S
  <2>1. PICK f \in [0 .. k - 1 -> V] : Follows(f, k - 1)
    BY <1>2
  <2> DEFINE g == [i \in 0 .. k |-> IF i = k THEN next[k][f[k - 1]] ELSE f[i]]
  <2>2. f[k - 1] \in V /\ next[k][f[k - 1]] \in V
    <3>1. f[k - 1] \in V
      BY <1>2
    <3>2. next[k] \in [V -> V]
      BY <1>2
    <3> QED BY <3>1, <3>2
  <2>3. g \in [0 .. k -> V]
    <3>1. \A i \in 0 .. k : i # k => i \in 0 .. k - 1
      BY <1>2
    <3> QED BY <2>2, <3>1
  <2>4. Follows(g, k)
    <3>1. g[0] = first
      BY <1>2, <2>1
    <3>2. ASSUME NEW i \in 1 .. k PROVE g[i] = next[i][g[i - 1]]
      <4>1. i - 1 \in 0 .. k /\ i \in 0 .. k /\ i - 1 # k /\ g[i - 1] = f[i - 1]
        BY <1>2, <3>2
      <4>2. CASE i = k
        BY <4>1, <4>2
      <4>3. CASE i # k
        <5>1. i \in 1 .. k - 1 /\ g[i] = f[i]
          BY <1>2, <3>2, <4>1, <4>3
        <5> QED BY <2>1, <4>1, <5>1
      <4> QED BY <4>2, <4>3
    <3> QED BY <3>1, <3>2
  <2> HIDE DEF g, Follows
  <2> QED BY <1>2, <2>3, <2>4
<1> HIDE DEF S
<1>3. 0 .. n \subseteq S
  BY <1>1, <1>2, UpFrom
<1> QED BY <1>3 DEF S, IsRecursion

-----------------------------------------------------------------------------
(* Patterns. *)

Symbols == Letters \union {Star, AnyOne}
Answers == {"yes", "no", "panic"}

\* What MatchSimple answers for the last i symbols and the last j letters.
AnswerFor(pattern, name, m, i, j) ==
    IF i = 0 THEN IF j = 0 THEN "yes" ELSE "no"
    ELSE IF pattern[Len(pattern) - i + 1] = Star
    THEN IF m[<<i - 1, j>>] = "no" /\ j > 0 THEN m[<<i, j - 1>>] ELSE m[<<i - 1, j>>]
    ELSE IF pattern[Len(pattern) - i + 1] = AnyOne
    THEN IF j = 0 THEN "panic" ELSE m[<<i - 1, j - 1>>]
    ELSE IF j > 0 /\ name[Len(name) - j + 1] = pattern[Len(pattern) - i + 1]
         THEN m[<<i - 1, j - 1>>] ELSE "no"

\* The recursion of MatchSimple is well-founded: it looks at fewer symbols, or as many
\* and fewer letters.
LEMMA AnswersExist ==
  ASSUME NEW pattern, Len(pattern) \in Nat, NEW name, Len(name) \in Nat
  PROVE  \E m \in [(0 .. Len(pattern)) \X (0 .. Len(name)) -> Answers] :
             \A i \in 0 .. Len(pattern), j \in 0 .. Len(name) :
                 m[<<i, j>>] = AnswerFor(pattern, name, m, i, j)
<1> DEFINE lp == Len(pattern)
           ln == Len(name)
           Row == [0 .. ln -> Answers]
           Symbol(i) == pattern[lp - i + 1]
           Letter(j) == name[ln - j + 1]
           AnswerAt(above, before, i, j) ==
               IF Symbol(i) = Star
               THEN IF above[j] = "no" /\ j > 0 THEN before ELSE above[j]
               ELSE IF Symbol(i) = AnyOne
               THEN IF j = 0 THEN "panic" ELSE above[j - 1]
               ELSE IF j > 0 /\ Letter(j) = Symbol(i) THEN above[j - 1] ELSE "no"
           Below(above, row, i) == \A j \in 0 .. ln :
               row[j] = AnswerAt(above, IF j = 0 THEN "no" ELSE row[j - 1], i, j)
           Top == [j \in 0 .. ln |-> IF j = 0 THEN "yes" ELSE "no"]
<1>1. ASSUME NEW above \in Row, NEW i \in 1 .. lp PROVE \E row \in Row : Below(above, row, i)
  <2> DEFINE first == AnswerAt(above, "no", i, 0)
             next == [j \in 1 .. ln |-> [before \in Answers |-> AnswerAt(above, before, i, j)]]
  <2>1. \A j \in 0 .. ln, before \in Answers : AnswerAt(above, before, i, j) \in Answers
    <3> SUFFICES ASSUME NEW j \in 0 .. ln, NEW before \in Answers
                 PROVE  AnswerAt(above, before, i, j) \in Answers
      OBVIOUS
    <3>1. above[j] \in Answers /\ (j > 0 => above[j - 1] \in Answers)
      BY <1>1
    <3>2. {"no", "panic"} \subseteq Answers
      BY DEF Answers
    <3> HIDE DEF Symbol, Letter, Row
    <3> QED BY <3>1, <3>2
  <2>2. first \in Answers /\ next \in [1 .. ln -> [Answers -> Answers]]
    <3>1. 0 \in 0 .. ln /\ "no" \in Answers
      BY DEF Answers
    <3> HIDE DEF AnswerAt
    <3> QED BY <2>1, <3>1
  <2> HIDE DEF first, next
  <2>3. PICK row \in Row : row[0] = first /\ \A j \in 1 .. ln : row[j] = next[j][row[j - 1]]
    <3>1. ln \in Nat
      OBVIOUS
    <3>2. \E row \in [0 .. ln -> Answers] :
              row[0] = first /\ \A j \in 1 .. ln : row[j] = next[j][row[j - 1]]
      <4> HIDE DEF ln
      <4>1. PICK row : IsRecursion(row, ln, Answers, first, next)
        BY ONLY <2>2, <3>1, Recursion
      <4> QED BY <4>1 DEF IsRecursion
    <3> QED BY <3>2
  <2>4. ASSUME NEW j \in 1 .. ln PROVE row[j] = AnswerAt(above, row[j - 1], i, j)
    <3>1. row[j - 1] \in Answers
      BY <2>3
    <3> HIDE DEF AnswerAt
    <3> QED BY <2>3, <3>1 DEF next
  <2> HIDE DEF AnswerAt
  <2>5. Below(above, row, i)
    BY <2>3, <2>4 DEF first
  <2> QED BY <2>3, <2>5
<1> DEFINE RowBelow(above, i) == CHOOSE row \in Row : Below(above, row, i)
           nextRow == [i \in 1 .. lp |-> [above \in Row |-> RowBelow(above, i)]]
<1>2. \A above \in Row, i \in 1 .. lp : RowBelow(above, i) \in Row
                                        /\ Below(above, RowBelow(above, i), i)
  <2> HIDE DEF Below
  <2> QED BY <1>1
<1>3. Top \in Row /\ nextRow \in [1 .. lp -> [Row -> Row]]
  <2>1. Top \in Row
    BY DEF Answers
  <2> HIDE DEF RowBelow, Row
  <2> QED BY <1>2, <2>1
<1> HIDE DEF Row, nextRow, RowBelow, Below, Top
<1>4. PICK rows \in [0 .. lp -> Row] :
          rows[0] = Top /\ \A i \in 1 .. lp : rows[i] = nextRow[i][rows[i - 1]]
  <2>1. lp \in Nat
    OBVIOUS
  <2> HIDE DEF lp
  <2>2. PICK rows : IsRecursion(rows, lp, Row, Top, nextRow)
    BY ONLY <1>3, <2>1, Recursion
  <2> QED BY <2>2 DEF IsRecursion
<1>5. \A i \in 1 .. lp : Below(rows[i - 1], rows[i], i)
  <2> SUFFICES ASSUME NEW i \in 1 .. lp PROVE Below(rows[i - 1], rows[i], i)
    OBVIOUS
  <2>1. rows[i - 1] \in Row
    OBVIOUS
  <2>2. rows[i] = RowBelow(rows[i - 1], i)
    BY <1>4, <2>1 DEF nextRow
  <2> QED BY <1>2, <2>1, <2>2
<1> DEFINE m == [left \in (0 .. lp) \X (0 .. ln) |-> rows[left[1]][left[2]]]
<1>6. \A i \in 0 .. lp, j \in 0 .. ln : m[<<i, j>>] = rows[i][j] /\ rows[i][j] \in Answers
  BY DEF Row
<1>7. m \in [(0 .. lp) \X (0 .. ln) -> Answers]
  <2> SUFFICES ASSUME NEW left \in (0 .. lp) \X (0 .. ln) PROVE rows[left[1]][left[2]] \in Answers
    OBVIOUS
  <2>1. left[1] \in 0 .. lp /\ left[2] \in 0 .. ln
    OBVIOUS
  <2> QED BY <1>6, <2>1
<1> HIDE DEF m
<1>8. ASSUME NEW i \in 0 .. lp, NEW j \in 0 .. ln
      PROVE  m[<<i, j>>] = AnswerFor(pattern, name, m, i, j)
  <2>1. CASE i = 0
    <3>1. m[<<i, j>>] = IF j = 0 THEN "yes" ELSE "no"
      BY <1>4, <1>6, <2>1 DEF Top
    <3> QED BY <2>1, <3>1 DEF AnswerFor
  <2>2. CASE i # 0
    <3>1. i \in 1 .. lp /\ i - 1 \in 0 .. lp
      BY <2>2
    <3>2. rows[i][j] = AnswerAt(rows[i - 1], IF j = 0 THEN "no" ELSE rows[i][j - 1], i, j)
      BY <1>5, <3>1 DEF Below
    <3>3. m[<<i, j>>] = rows[i][j] /\ m[<<i - 1, j>>] = rows[i - 1][j]
      BY <1>6, <3>1
    <3>4. j > 0 => m[<<i, j - 1>>] = rows[i][j - 1] /\ m[<<i - 1, j - 1>>] = rows[i - 1][j - 1]
      <4>1. j > 0 => j - 1 \in 0 .. ln
        OBVIOUS
      <4> QED BY <1>6, <3>1, <4>1
    <3>5. CASE j = 0
      BY <2>2, <3>2, <3>3, <3>5 DEF AnswerFor
    <3>6. CASE j # 0
      <4>1. j > 0
        BY <3>6
      <4> QED BY <2>2, <3>2, <3>3, <3>4, <3>6, <4>1 DEF AnswerFor
    <3> QED BY <3>5, <3>6
  <2> QED BY <2>1, <2>2
<1> QED BY <1>7, <1>8

\* So MatchSimple is a table in which each answer follows from those before it.
LEMMA MatchingIs ==
  ASSUME NEW pattern, Len(pattern) \in Nat, NEW name, Len(name) \in Nat
  PROVE  \E m : /\ MatchSimple(pattern, name) = m[<<Len(pattern), Len(name)>>]
                /\ \A i \in 0 .. Len(pattern), j \in 0 .. Len(name) :
                      m[<<i, j>>] = AnswerFor(pattern, name, m, i, j)
<1> DEFINE D == (0 .. Len(pattern)) \X (0 .. Len(name))
           Is(f) == f = [left \in D |->
            LET i == left[1]
                j == left[2]
                symbol == pattern[Len(pattern) - i + 1]
            IN  IF i = 0 THEN IF j = 0 THEN "yes" ELSE "no"
                ELSE CASE symbol = Star -> IF f[<<i - 1, j>>] = "no" /\ j > 0
                                           THEN f[<<i, j - 1>>] ELSE f[<<i - 1, j>>]
                       [] symbol = AnyOne -> IF j = 0 THEN "panic" ELSE f[<<i - 1, j - 1>>]
                       [] OTHER -> IF j > 0 /\ name[Len(name) - j + 1] = symbol
                                   THEN f[<<i - 1, j - 1>>] ELSE "no"]
           m == CHOOSE f : Is(f)
<1>1. MatchSimple(pattern, name) = m[<<Len(pattern), Len(name)>>]
  BY DEF MatchSimple
<1>2. PICK f \in [D -> Answers] : \A i \in 0 .. Len(pattern), j \in 0 .. Len(name) :
                 f[<<i, j>>] = AnswerFor(pattern, name, f, i, j)
  BY AnswersExist
<1>3. Is(f)
  <2>1. ASSUME NEW left \in D
        PROVE f[left] = LET i == left[1]
                j == left[2]
                symbol == pattern[Len(pattern) - i + 1]
            IN  IF i = 0 THEN IF j = 0 THEN "yes" ELSE "no"
                ELSE CASE symbol = Star -> IF f[<<i - 1, j>>] = "no" /\ j > 0
                                           THEN f[<<i, j - 1>>] ELSE f[<<i - 1, j>>]
                       [] symbol = AnyOne -> IF j = 0 THEN "panic" ELSE f[<<i - 1, j - 1>>]
                       [] OTHER -> IF j > 0 /\ name[Len(name) - j + 1] = symbol
                                   THEN f[<<i - 1, j - 1>>] ELSE "no"
    <3>1. PICK i \in 0 .. Len(pattern), j \in 0 .. Len(name) : left = <<i, j>>
      OBVIOUS
    <3>2. f[<<i, j>>] = AnswerFor(pattern, name, f, i, j)
      BY <1>2
    <3> QED BY <3>1, <3>2 DEF AnswerFor, Star, AnyOne
  <2> QED BY <2>1
<1>4. Is(m)
  <2> HIDE DEF Is
  <2> QED BY <1>3
<1>5. ASSUME NEW i \in 0 .. Len(pattern), NEW j \in 0 .. Len(name)
      PROVE  m[<<i, j>>] = AnswerFor(pattern, name, m, i, j)
  <2>1. <<i, j>> \in D /\ <<i, j>>[1] = i /\ <<i, j>>[2] = j
    OBVIOUS
  <2> HIDE DEF m
  <2> QED BY <1>4, <2>1 DEF AnswerFor, Star, AnyOne
<1> HIDE DEF m
<1> QED BY <1>1, <1>5

-----------------------------------------------------------------------------
(* What a pattern means: the symbols behind position a, up to b, take the  *)
(* letters behind position c, up to d, one after the other.                *)

Takes(symbol, name, c, d) ==
    IF symbol = Star THEN c <= d
    ELSE IF symbol = AnyOne THEN d = c + 1 ELSE d = c + 1 /\ name[d] = symbol

IsPath(f, p, a, b, name, c, d) ==
    /\ f \in [a .. b -> c .. d] /\ f[a] = c /\ f[b] = d
    /\ \A k, l \in a .. b : k <= l => f[k] <= f[l]
    /\ \A k \in a + 1 .. b : Takes(p[k], name, f[k - 1], f[k])

Fits(p, a, b, name, c, d) == \E f : IsPath(f, p, a, b, name, c, d)

\* No symbols take no letters.
LEMMA FitsNone ==
  ASSUME NEW p, NEW name, NEW a \in Nat, NEW c \in Nat, NEW d \in Nat
  PROVE  Fits(p, a, a, name, c, d) <=> c = d
<1>1. ASSUME Fits(p, a, a, name, c, d) PROVE c = d
  BY <1>1 DEF Fits, IsPath
<1>2. ASSUME c = d PROVE Fits(p, a, a, name, c, d)
  <2> DEFINE f == [k \in a .. a |-> c]
  <2>1. f \in [a .. a -> c .. d] /\ f[a] = c /\ f[a] = d
    BY <1>2
  <2>2. \A k, l \in a .. a : k <= l => f[k] <= f[l]
    OBVIOUS
  <2>3. \A k \in a + 1 .. a : FALSE
    OBVIOUS
  <2> HIDE DEF f
  <2>4. IsPath(f, p, a, a, name, c, d)
    BY <2>1, <2>2, <2>3 DEF IsPath
  <2> QED BY <2>4 DEF Fits
<1> QED BY <1>1, <1>2

\* One symbol.
LEMMA FitsOne ==
  ASSUME NEW p, NEW name, NEW a \in Nat, NEW c \in Nat, NEW d \in Nat
  PROVE  Fits(p, a, a + 1, name, c, d) <=> Takes(p[a + 1], name, c, d)
<1>1. ASSUME Fits(p, a, a + 1, name, c, d) PROVE Takes(p[a + 1], name, c, d)
  <2>1. PICK f : IsPath(f, p, a, a + 1, name, c, d)
    BY <1>1 DEF Fits
  <2>2. f[a] = c /\ f[a + 1] = d /\ Takes(p[a + 1], name, f[(a + 1) - 1], f[a + 1])
    <3>1. a + 1 \in a + 1 .. a + 1
      OBVIOUS
    <3> QED BY <2>1, <3>1 DEF IsPath
  <2>3. (a + 1) - 1 = a
    OBVIOUS
  <2> QED BY <2>2, <2>3
<1>2. ASSUME Takes(p[a + 1], name, c, d) PROVE Fits(p, a, a + 1, name, c, d)
  <2> DEFINE f == [k \in a .. a + 1 |-> IF k = a THEN c ELSE d]
  <2>1. c <= d
    BY <1>2 DEF Takes
  <2>2. f \in [a .. a + 1 -> c .. d] /\ f[a] = c /\ f[a + 1] = d
    BY <2>1
  <2>3. \A k \in a .. a + 1 : k = a \/ k = a + 1
    OBVIOUS
  <2>4. \A k, l \in a .. a + 1 : k <= l => f[k] <= f[l]
    BY <2>1, <2>3
  <2> HIDE DEF f
  <2>5. \A k \in (a + 1) .. (a + 1) : k = a + 1 /\ k - 1 = a
    OBVIOUS
  <2>6. IsPath(f, p, a, a + 1, name, c, d)
    BY <1>2, <2>2, <2>4, <2>5 DEF IsPath
  <2> QED BY <2>6 DEF Fits
<1> QED BY <1>1, <1>2

\* Patterns behind one another take words behind one another.
LEMMA FitsCut ==
  ASSUME NEW p, NEW name, NEW a \in Nat, NEW b \in Nat, NEW k \in a .. b,
         NEW c \in Nat, NEW d \in Nat
  PROVE  Fits(p, a, b, name, c, d) <=>
             \E x \in c .. d : Fits(p, a, k, name, c, x) /\ Fits(p, k, b, name, x, d)
<1>1. ASSUME Fits(p, a, b, name, c, d)
      PROVE  \E x \in c .. d : Fits(p, a, k, name, c, x) /\ Fits(p, k, b, name, x, d)
  <2>1. PICK f : IsPath(f, p, a, b, name, c, d)
    BY <1>1 DEF Fits
  <2>2. /\ f \in [a .. b -> c .. d] /\ f[a] = c /\ f[b] = d
        /\ \A l, m \in a .. b : l <= m => f[l] <= f[m]
        /\ \A l \in a + 1 .. b : Takes(p[l], name, f[l - 1], f[l])
    BY <2>1 DEF IsPath
  <2>3. PICK x \in c .. d : x = f[k]
    BY <2>2
  <2> DEFINE g == [l \in a .. k |-> f[l]]
             h == [l \in k .. b |-> f[l]]
  <2>4. \A l \in a .. k : l \in a .. b /\ l <= k
    OBVIOUS
  <2>5. \A l \in k .. b : l \in a .. b /\ k <= l
    OBVIOUS
  <2>6. \A l \in a .. b : f[l] \in c .. d
    BY <2>2
  <2>7. \A l \in a .. k : f[l] \in c .. x
    BY <2>2, <2>3, <2>4, <2>6
  <2>8. \A l \in k .. b : f[l] \in x .. d
    BY <2>2, <2>3, <2>5, <2>6
  <2>9. IsPath(g, p, a, k, name, c, x)
    <3>1. g \in [a .. k -> c .. x] /\ g[a] = c /\ g[k] = x
      BY <2>2, <2>3, <2>7
    <3>2. \A l, m \in a .. k : l <= m => g[l] <= g[m]
      BY <2>2, <2>4
    <3>3. ASSUME NEW l \in a + 1 .. k PROVE Takes(p[l], name, g[l - 1], g[l])
      <4>1. l \in a + 1 .. b /\ l - 1 \in a .. k /\ l \in a .. k
        OBVIOUS
      <4> QED BY <2>2, <4>1
    <3> QED BY <3>1, <3>2, <3>3 DEF IsPath
  <2>10. IsPath(h, p, k, b, name, x, d)
    <3>1. h \in [k .. b -> x .. d] /\ h[k] = x /\ h[b] = d
      BY <2>2, <2>3, <2>8
    <3>2. \A l, m \in k .. b : l <= m => h[l] <= h[m]
      BY <2>2, <2>5
    <3>3. ASSUME NEW l \in k + 1 .. b PROVE Takes(p[l], name, h[l - 1], h[l])
      <4>1. l \in a + 1 .. b /\ l - 1 \in k .. b /\ l \in k .. b
        OBVIOUS
      <4> QED BY <2>2, <4>1
    <3> QED BY <3>1, <3>2, <3>3 DEF IsPath
  <2> QED BY <2>9, <2>10 DEF Fits
<1>2. ASSUME NEW x \in c .. d, Fits(p, a, k, name, c, x), Fits(p, k, b, name, x, d)
      PROVE  Fits(p, a, b, name, c, d)
  <2>1. PICK g : IsPath(g, p, a, k, name, c, x)
    BY <1>2 DEF Fits
  <2>2. PICK h : IsPath(h, p, k, b, name, x, d)
    BY <1>2 DEF Fits
  <2>3. /\ g \in [a .. k -> c .. x] /\ g[a] = c /\ g[k] = x
        /\ \A l, m \in a .. k : l <= m => g[l] <= g[m]
        /\ \A l \in a + 1 .. k : Takes(p[l], name, g[l - 1], g[l])
    BY <2>1 DEF IsPath
  <2>4. /\ h \in [k .. b -> x .. d] /\ h[k] = x /\ h[b] = d
        /\ \A l, m \in k .. b : l <= m => h[l] <= h[m]
        /\ \A l \in k + 1 .. b : Takes(p[l], name, h[l - 1], h[l])
    BY <2>2 DEF IsPath
  <2> DEFINE f == [l \in a .. b |-> IF l <= k THEN g[l] ELSE h[l]]
  <2>5. \A l \in a .. k : f[l] = g[l] /\ g[l] \in c .. x
    BY <2>3
  <2>6. \A l \in k .. b : f[l] = h[l] /\ h[l] \in x .. d
    <3>1. ASSUME NEW l \in k .. b PROVE f[l] = h[l]
      <4>1. CASE l = k
        BY <2>3, <2>4, <4>1
      <4>2. CASE l # k
        BY <4>2
      <4> QED BY <4>1, <4>2
    <3> QED BY <2>4, <3>1
  <2>7. \A l \in a .. b : l \in a .. k \/ l \in k .. b
    OBVIOUS
  <2>8. f \in [a .. b -> c .. d]
    <3>1. ASSUME NEW l \in a .. b PROVE f[l] \in c .. d
      <4> HIDE DEF f
      <4>1. CASE l \in a .. k
        BY <2>5, <4>1
      <4>2. CASE l \in k .. b
        BY <2>6, <4>2
      <4> QED BY <2>7, <4>1, <4>2
    <3> QED BY <3>1
  <2> HIDE DEF f
  <2>9. f[a] = c /\ f[b] = d
    <3>1. a \in a .. k /\ b \in k .. b
      OBVIOUS
    <3> QED BY <2>3, <2>4, <2>5, <2>6, <3>1
  <2>10. ASSUME NEW l \in a .. b, NEW m \in a .. b, l <= m PROVE f[l] <= f[m]
    <3>1. CASE l \in a .. k /\ m \in a .. k
      BY <2>3, <2>5, <2>10, <3>1
    <3>2. CASE l \in k .. b /\ m \in k .. b
      BY <2>4, <2>6, <2>10, <3>2
    <3>3. CASE l \in a .. k /\ m \in k .. b
      BY <2>5, <2>6, <3>3
    <3>4. CASE l \in k .. b /\ m \in a .. k
      <4>1. l = k /\ m = k
        BY <2>10, <3>4
      <4>2. l \in a .. k /\ m \in a .. k
        BY <4>1
      <4> QED BY <3>1, <4>2
    <3> QED BY <2>7, <3>1, <3>2, <3>3, <3>4
  <2>11. ASSUME NEW l \in a + 1 .. b PROVE Takes(p[l], name, f[l - 1], f[l])
    <3>1. CASE l <= k
      <4>1. l \in a + 1 .. k /\ l \in a .. k /\ l - 1 \in a .. k
        BY <3>1
      <4> QED BY <2>3, <2>5, <4>1
    <3>2. CASE l > k
      <4>1. l \in k + 1 .. b /\ l \in k .. b /\ l - 1 \in k .. b
        BY <3>2
      <4> QED BY <2>4, <2>6, <4>1
    <3> QED BY <3>1, <3>2
  <2>12. IsPath(f, p, a, b, name, c, d)
    BY <2>8, <2>9, <2>10, <2>11 DEF IsPath
  <2> QED BY <2>12 DEF Fits
<1> QED BY <1>1, <1>2

\* Symbol by symbol.
LEMMA FitsStep ==
  ASSUME NEW p, NEW name, NEW a \in Nat, NEW b \in Nat, a < b, NEW c \in Nat, NEW d \in Nat
  PROVE  Fits(p, a, b, name, c, d) <=>
             \E x \in c .. d : Takes(p[a + 1], name, c, x) /\ Fits(p, a + 1, b, name, x, d)
<1>1. a + 1 \in a .. b
  OBVIOUS
<1>2. Fits(p, a, b, name, c, d) <=>
         \E x \in c .. d : Fits(p, a, a + 1, name, c, x) /\ Fits(p, a + 1, b, name, x, d)
  BY <1>1, FitsCut
<1>3. \A x \in c .. d : Fits(p, a, a + 1, name, c, x) <=> Takes(p[a + 1], name, c, x)
  <2> SUFFICES ASSUME NEW x \in c .. d
               PROVE  Fits(p, a, a + 1, name, c, x) <=> Takes(p[a + 1], name, c, x)
    OBVIOUS
  <2>1. x \in Nat
    OBVIOUS
  <2> QED BY <2>1, FitsOne
<1> QED BY <1>2, <1>3

\* What stands behind a, up to b, is what stands behind a2.
SameBehind(s1, a, b, s2, a2) == \A k \in a + 1 .. b, l \in Nat : l - a2 = k - a => s1[k] = s2[l]

\* It does not matter where a pattern and a word begin.
LEMMA FitsElsewhere ==
  ASSUME NEW p, NEW a \in Nat, NEW b \in Nat, NEW name, NEW c \in Nat, NEW d \in Nat,
         NEW q, NEW a2 \in Nat, NEW b2 \in Nat, NEW name2, NEW c2 \in Nat, NEW d2 \in Nat,
         a <= b, b2 - a2 = b - a, d2 - c2 = d - c,
         SameBehind(p, a, b, q, a2), SameBehind(name, c, d, name2, c2),
         Fits(p, a, b, name, c, d)
  PROVE  Fits(q, a2, b2, name2, c2, d2)
<1> DEFINE s == a2 - a
           t == c2 - c
<1>0. /\ s \in Int /\ t \in Int /\ a2 = a + s /\ b2 = b + s /\ c2 = c + t /\ d2 = d + t
      /\ \A k \in a + 1 .. b : p[k] = q[k + s]
      /\ \A l \in c + 1 .. d : name[l] = name2[l + t]
  <2>1. s \in Int /\ t \in Int /\ a2 = a + s /\ b2 = b + s /\ c2 = c + t /\ d2 = d + t
    OBVIOUS
  <2>2. \A k \in a + 1 .. b : k + s \in Nat /\ (k + s) - a2 = k - a
    OBVIOUS
  <2>3. \A l \in c + 1 .. d : l + t \in Nat /\ (l + t) - c2 = l - c
    OBVIOUS
  <2> HIDE DEF s, t
  <2>4. \A k \in a + 1 .. b : p[k] = q[k + s]
    BY <2>2 DEF SameBehind
  <2>5. \A l \in c + 1 .. d : name[l] = name2[l + t]
    BY <2>3 DEF SameBehind
  <2> QED BY <2>1, <2>4, <2>5
<1> HIDE DEF s, t
<1>1. PICK f : IsPath(f, p, a, b, name, c, d)
  BY DEF Fits
<1>2. /\ f \in [a .. b -> c .. d] /\ f[a] = c /\ f[b] = d
      /\ \A k, l \in a .. b : k <= l => f[k] <= f[l]
      /\ \A k \in a + 1 .. b : Takes(p[k], name, f[k - 1], f[k])
  BY <1>1 DEF IsPath
<1> DEFINE g == [k \in a + s .. b + s |-> f[k - s] + t]
<1>3. \A k \in a + s .. b + s : k - s \in a .. b /\ f[k - s] \in c .. d /\ g[k] = f[k - s] + t
  BY <1>0, <1>2
<1>4. g \in [a + s .. b + s -> c + t .. d + t]
  <2>1. \A k \in a + s .. b + s : f[k - s] + t \in c + t .. d + t
    BY <1>0, <1>3
  <2> QED BY <2>1
<1> HIDE DEF g
<1>5. g[a + s] = c + t /\ g[b + s] = d + t
  <2>1. a + s \in a + s .. b + s /\ (a + s) - s = a /\ b + s \in a + s .. b + s /\ (b + s) - s = b
    BY <1>0
  <2> QED BY <1>2, <1>3, <2>1
<1>6. ASSUME NEW k \in a + s .. b + s, NEW l \in a + s .. b + s, k <= l PROVE g[k] <= g[l]
  <2>1. k - s \in a .. b /\ l - s \in a .. b /\ k - s <= l - s
    BY <1>0, <1>6
  <2>2. f[k - s] <= f[l - s]
    BY <1>2, <2>1
  <2> QED BY <1>0, <1>3, <2>2
<1>7. ASSUME NEW k \in (a + s) + 1 .. b + s PROVE Takes(q[k], name2, g[k - 1], g[k])
  <2>1. PICK l \in a + 1 .. b : l = k - s
    BY <1>0
  <2>2. /\ k \in a + s .. b + s /\ k - 1 \in a + s .. b + s /\ k - s = l /\ (k - 1) - s = l - 1
        /\ l \in a .. b /\ l - 1 \in a .. b /\ l + s = k
    BY <1>0, <2>1
  <2>3. g[k] = f[l] + t /\ g[k - 1] = f[l - 1] + t /\ p[l] = q[k] /\ f[l] \in c .. d /\ f[l - 1] \in c .. d
    BY <1>0, <1>3, <2>2
  <2>4. Takes(p[l], name, f[l - 1], f[l])
    BY <1>2
  <2>5. PICK x \in c .. d, y \in c .. d : x = f[l - 1] /\ y = f[l]
    BY <2>3
  <2>6. Takes(p[l], name, x, y) /\ y \in Nat /\ x \in Nat
    BY <2>4, <2>5
  <2>7. y = x + 1 => name[y] = name2[y + t]
    <3>1. y = x + 1 => y \in c + 1 .. d
      OBVIOUS
    <3> QED BY <1>0, <3>1
  <2>8. Takes(p[l], name2, x + t, y + t)
    BY <1>0, <2>6, <2>7 DEF Takes
  <2> QED BY <2>3, <2>5, <2>8
<1>8. IsPath(g, q, a + s, b + s, name2, c + t, d + t)
  BY <1>4, <1>5, <1>6, <1>7 DEF IsPath
<1> QED BY <1>0, <1>8 DEF Fits

\* The whole pattern and the whole name.
FitsName(p, name) == Fits(p, 0, Len(p), name, 0, Len(name))

\* MatchSimple says yes exactly when the pattern fits, and it panics only over a pattern
\* that has AnyOne: when it does, the name is too short, however much a star takes.
THEOREM MatchSimpleIs ==
  ASSUME NEW p, Len(p) \in Nat, NEW name, Len(name) \in Nat
  PROVE  /\ MatchSimple(p, name) = "yes" <=> FitsName(p, name)
         /\ MatchSimple(p, name) = "panic" => Contains(p, AnyOne)
<1> DEFINE lp == Len(p)
           ln == Len(name)
           F(i, j) == Fits(p, lp - i, lp, name, ln - j, ln)
           Symbol(i) == p[lp - i + 1]
<1>1. PICK m : /\ MatchSimple(p, name) = m[<<lp, ln>>]
               /\ \A i \in 0 .. lp, j \in 0 .. ln : m[<<i, j>>] = AnswerFor(p, name, m, i, j)
  BY MatchingIs
<1> DEFINE Right(i, j) ==
              /\ m[<<i, j>>] \in Answers
              /\ m[<<i, j>>] = "yes" <=> F(i, j)
              /\ m[<<i, j>>] = "panic" => Contains(p, AnyOne) /\ \A k \in 0 .. j : ~F(i, k)
           S == {i \in 0 .. lp : \A j \in 0 .. ln : Right(i, j)}
<1>2. \A j \in 0 .. ln : F(0, j) <=> j = 0
  <2> SUFFICES ASSUME NEW j \in 0 .. ln PROVE Fits(p, lp - 0, lp, name, ln - j, ln) <=> j = 0
    OBVIOUS
  <2>1. lp - 0 = lp /\ lp \in Nat /\ ln - j \in Nat /\ ln \in Nat /\ (ln - j = ln <=> j = 0)
    OBVIOUS
  <2> QED BY <2>1, FitsNone
<1>3. ASSUME NEW i \in 1 .. lp, NEW j \in 0 .. ln
      PROVE  F(i, j) <=> \E k \in 0 .. j : Takes(Symbol(i), name, ln - j, ln - k) /\ F(i - 1, k)
  <2>1. PICK a \in 0 .. lp - 1, c \in 0 .. ln : a = lp - i /\ c = ln - j
    <3>1. lp - i \in 0 .. lp - 1 /\ ln - j \in 0 .. ln
      OBVIOUS
    <3> QED BY <3>1
  <2>2. Fits(p, a, lp, name, c, ln) <=>
           \E x \in c .. ln : Takes(p[a + 1], name, c, x) /\ Fits(p, a + 1, lp, name, x, ln)
    <3>1. a \in Nat /\ lp \in Nat /\ a < lp /\ c \in Nat /\ ln \in Nat
      BY <2>1
    <3> QED BY <3>1, FitsStep
  <2>3. a + 1 = lp - (i - 1) /\ a + 1 = lp - i + 1
    BY <2>1
  <2>4. ASSUME NEW x \in c .. ln
        PROVE  ln - x \in 0 .. j /\ ln - (ln - x) = x
    BY <2>1
  <2>5. \A k \in 0 .. j : ln - k \in c .. ln
    BY <2>1
  <2> HIDE DEF lp, ln
  <2> QED BY <2>1, <2>2, <2>3, <2>4, <2>5
<1>4. 0 \in S
  <2>1. ASSUME NEW j \in 0 .. ln PROVE Right(0, j)
    <3>1. m[<<0, j>>] = IF j = 0 THEN "yes" ELSE "no"
      <4>1. 0 \in 0 .. lp
        OBVIOUS
      <4>2. m[<<0, j>>] = AnswerFor(p, name, m, 0, j)
        BY <1>1, <4>1
      <4> QED BY <4>2 DEF AnswerFor
    <3> HIDE DEF F
    <3> QED BY <1>2, <3>1 DEF Answers
  <2> QED BY <2>1
<1>5. ASSUME NEW i \in 1 .. lp, i - 1 \in S PROVE i \in S
  <2>1. \A j \in 0 .. ln : Right(i - 1, j)
    BY <1>5
  <2>2. \A j \in 0 .. ln : m[<<i, j>>] = AnswerFor(p, name, m, i, j)
    BY <1>1
  <2> DEFINE R == {j \in 0 .. ln : Right(i, j)}
  <2> HIDE DEF F, lp, ln
  <2>3. Star # AnyOne /\ i # 0 /\ i \in 0 .. lp /\ lp \in Nat /\ ln \in Nat
    BY DEF Star, AnyOne, lp, ln
  <2>4. ASSUME Symbol(i) = Star, NEW j \in 0 .. ln
        PROVE  F(i, j) <=> \E k \in 0 .. j : F(i - 1, k)
    <3>1. \A k \in 0 .. j : Takes(Symbol(i), name, ln - j, ln - k)
      BY <2>3, <2>4 DEF Takes
    <3> QED BY <1>3, <3>1
  <2>5. CASE Symbol(i) = Star
    <3>1. \A j \in 0 .. ln :
             m[<<i, j>>] = IF m[<<i - 1, j>>] = "no" /\ j > 0 THEN m[<<i, j - 1>>] ELSE m[<<i - 1, j>>]
      BY <2>2, <2>3, <2>5 DEF AnswerFor, lp
    <3>2. ASSUME NEW j \in 0 .. ln, m[<<i, j>>] = m[<<i - 1, j>>], m[<<i, j>>] # "no" \/ j = 0
          PROVE  Right(i, j)
      <4>1. \A k \in 0 .. j : k \in 0 .. ln /\ \A l \in 0 .. k : l \in 0 .. j
        BY <2>3
      <4>2. Right(i - 1, j) /\ j \in 0 .. j
        BY <2>1
      <4>3. CASE m[<<i, j>>] = "yes"
        <5>1. F(i, j)
          BY <2>4, <2>5, <3>2, <4>2, <4>3
        <5> QED BY <4>2, <4>3, <5>1 DEF Answers
      <4>4. CASE m[<<i, j>>] = "panic"
        <5>1. \A k \in 0 .. j : ~F(i - 1, k)
          BY <3>2, <4>2, <4>4
        <5>2. \A k \in 0 .. j : ~F(i, k)
          BY <2>4, <2>5, <4>1, <5>1
        <5> QED BY <3>2, <4>2, <4>4, <5>2
      <4>5. CASE m[<<i, j>>] = "no"
        <5>1. j = 0 /\ ~F(i - 1, 0)
          BY <3>2, <4>2, <4>5
        <5>2. \A k \in 0 .. 0 : k = 0
          OBVIOUS
        <5>3. ~F(i, 0)
          BY <2>4, <2>5, <5>1, <5>2
        <5> QED BY <4>5, <5>1, <5>3 DEF Answers
      <4> QED BY <3>2, <4>2, <4>3, <4>4, <4>5 DEF Answers
    <3>3. 0 \in R
      <4>1. 0 \in 0 .. ln
        BY <2>3
      <4>2. m[<<i, 0>>] = m[<<i - 1, 0>>]
        <5>1. m[<<i, 0>>] = IF m[<<i - 1, 0>>] = "no" /\ 0 > 0 THEN m[<<i, 0 - 1>>] ELSE m[<<i - 1, 0>>]
          BY <3>1, <4>1
        <5>2. ~(0 > 0)
          OBVIOUS
        <5> QED BY <5>1, <5>2, Zenon
      <4>3. Right(i, 0)
        BY <3>2, <4>1, <4>2
      <4> QED BY <4>1, <4>3
    <3>4. ASSUME NEW j \in 1 .. ln, j - 1 \in R PROVE j \in R
      <4>1. j \in 0 .. ln /\ j > 0 /\ j - 1 \in 0 .. ln
        BY <2>3
      <4>2. Right(i, j - 1)
        BY <3>4
      <4>3. CASE m[<<i - 1, j>>] # "no"
        <5>1. m[<<i, j>>] = m[<<i - 1, j>>]
          BY <3>1, <4>1, <4>3
        <5>2. Right(i, j)
          BY <3>2, <4>1, <4>3, <5>1
        <5> QED BY <4>1, <5>2
      <4>4. CASE m[<<i - 1, j>>] = "no"
        <5>1. m[<<i, j>>] = m[<<i, j - 1>>]
          BY <3>1, <4>1, <4>4
        <5>2. ~F(i - 1, j)
          BY <2>1, <4>1, <4>4
        <5>3. \A k \in 0 .. j : k = j \/ k \in 0 .. j - 1
          BY <4>1
        <5>4. \A k \in 0 .. j - 1 : k \in 0 .. j
          OBVIOUS
        <5>5. F(i, j) <=> F(i, j - 1)
          BY <2>4, <2>5, <4>1, <5>2, <5>3, <5>4
        <5>6. Right(i, j)
          BY <4>2, <5>1, <5>3, <5>5
        <5> QED BY <4>1, <5>6
      <4> QED BY <4>3, <4>4
    <3>5. 0 .. ln \subseteq R
      <4> HIDE DEF R
      <4> QED BY <2>3, <3>3, <3>4, UpFrom
    <3> QED BY <2>3, <3>5
  <2>6. ASSUME Symbol(i) # Star, NEW j \in 0 .. ln
        PROVE  F(i, j) <=> /\ j > 0 /\ F(i - 1, j - 1)
                           /\ Symbol(i) = AnyOne \/ name[ln - j + 1] = Symbol(i)
    <3>1. ASSUME NEW k \in 0 .. j
          PROVE  Takes(Symbol(i), name, ln - j, ln - k) <=>
                     j > 0 /\ k = j - 1 /\ (Symbol(i) = AnyOne \/ name[ln - j + 1] = Symbol(i))
      <4>1. ln - k = (ln - j) + 1 <=> j > 0 /\ k = j - 1
        BY <2>3
      <4>2. k = j - 1 => ln - k = ln - j + 1
        BY <2>3
      <4> QED BY <2>6, <4>1, <4>2 DEF Takes
    <3>2. j > 0 => j - 1 \in 0 .. j
      OBVIOUS
    <3> QED BY <1>3, <3>1, <3>2
  <2>7. ASSUME Symbol(i) # Star, NEW j \in 1 .. ln, m[<<i, j>>] = m[<<i - 1, j - 1>>],
               Symbol(i) = AnyOne \/ name[ln - j + 1] = Symbol(i)
        PROVE  Right(i, j)
    <3>1. j \in 0 .. ln /\ j - 1 \in 0 .. ln /\ j > 0
      BY <2>3
    <3>2. Right(i - 1, j - 1)
      BY <2>1, <3>1
    <3>3. F(i, j) <=> F(i - 1, j - 1)
      BY <2>6, <2>7, <3>1
    <3>4. ASSUME NEW k \in 0 .. j, \A l \in 0 .. j - 1 : ~F(i - 1, l) PROVE ~F(i, k)
      <4>1. k \in 0 .. ln /\ (k > 0 => k - 1 \in 0 .. j - 1)
        BY <2>3
      <4> QED BY <2>6, <2>7, <3>4, <4>1
    <3> QED BY <2>7, <3>2, <3>3, <3>4
  <2>8. CASE Symbol(i) = AnyOne
    <3>1. Contains(p, AnyOne)
      <4>1. lp - i + 1 \in 1 .. lp
        BY <2>3
      <4> QED BY <2>8, <4>1 DEF Contains, lp
    <3>2. ASSUME NEW j \in 0 .. ln PROVE Right(i, j)
      <4>1. m[<<i, j>>] = IF j = 0 THEN "panic" ELSE m[<<i - 1, j - 1>>]
        BY <2>2, <2>3, <2>8 DEF AnswerFor, lp
      <4>2. CASE j = 0
        <5>1. ~F(i, j) /\ m[<<i, j>>] = "panic" /\ \A k \in 0 .. j : k = j
          BY <2>3, <2>6, <2>8, <4>1, <4>2
        <5> QED BY <3>1, <5>1 DEF Answers
      <4>3. CASE j # 0
        <5>1. j \in 1 .. ln
          BY <4>3
        <5> QED BY <2>3, <2>7, <2>8, <4>1, <4>3, <5>1
      <4> QED BY <4>2, <4>3
    <3> QED BY <2>3, <3>2
  <2>9. CASE Symbol(i) # Star /\ Symbol(i) # AnyOne
    <3>1. ASSUME NEW j \in 0 .. ln PROVE Right(i, j)
      <4>1. m[<<i, j>>] = IF j > 0 /\ name[ln - j + 1] = Symbol(i) THEN m[<<i - 1, j - 1>>] ELSE "no"
        BY <2>2, <2>3, <2>9 DEF AnswerFor, lp, ln
      <4>2. CASE j > 0 /\ name[ln - j + 1] = Symbol(i)
        <5>1. j \in 1 .. ln
          BY <4>2
        <5> QED BY <2>7, <2>9, <4>1, <4>2, <5>1
      <4>3. CASE ~(j > 0 /\ name[ln - j + 1] = Symbol(i))
        <5>1. ~F(i, j) /\ m[<<i, j>>] = "no"
          BY <2>6, <2>9, <4>1, <4>3
        <5> QED BY <5>1 DEF Answers
      <4> QED BY <4>2, <4>3
    <3> QED BY <2>3, <3>1
  <2> QED BY <2>5, <2>8, <2>9
<1>6. lp \in S
  <2>1. lp \in Nat /\ lp \in 0 .. lp
    OBVIOUS
  <2> HIDE DEF S, lp
  <2>2. 0 .. lp \subseteq S
    BY <1>4, <1>5, <2>1, UpFrom
  <2> QED BY <2>1, <2>2
<1>7. Right(lp, ln) /\ lp - lp = 0 /\ ln - ln = 0
  BY <1>6
<1> QED BY <1>1, <1>7 DEF FitsName

-----------------------------------------------------------------------------
(* Filters. *)

\* A pattern takes the letters behind position c, up to d.
Covers(p, name, c, d) == Fits(p, 0, Len(p), name, c, d)

\* The empty pattern takes no letters.
LEMMA CoversNothing ==
  ASSUME NEW name, NEW c \in Nat, NEW d \in Nat
  PROVE  Covers(<<>>, name, c, d) <=> c = d
<1>1. Len(<<>>) = 0
  BY EmptySeq
<1> QED BY <1>1, FitsNone DEF Covers

\* A pattern of one symbol.
LEMMA CoversOne ==
  ASSUME NEW symbol, NEW name, NEW c \in Nat, NEW d \in Nat
  PROVE  Covers(<<symbol>>, name, c, d) <=> Takes(symbol, name, c, d)
<1> DEFINE p == <<symbol>>
<1>1. Len(p) = 1 /\ p[1] = symbol
  OBVIOUS
<1>2. Fits(p, 0, 0 + 1, name, c, d) <=> Takes(p[0 + 1], name, c, d)
  BY FitsOne
<1> QED BY <1>1, <1>2 DEF Covers

\* A pattern of two parts.
LEMMA CoversBoth ==
  ASSUME NEW T, NEW p \in Seq(T), NEW q \in Seq(T), NEW name, NEW c \in Nat, NEW d \in Nat
  PROVE  Covers(p \o q, name, c, d) <=>
             \E x \in c .. d : Covers(p, name, c, x) /\ Covers(q, name, x, d)
<1>0. PICK r : r = p \o q
  OBVIOUS
<1>1. PICK lp \in Nat, lq \in Nat : lp = Len(p) /\ lq = Len(q)
  BY LenProperties
<1>2. Len(r) = lp + lq /\ \A k \in 1 .. lp + lq : r[k] = IF k <= lp THEN p[k] ELSE q[k - lp]
  BY <1>0, <1>1, ConcatProperties
<1>3. Fits(r, 0, lp + lq, name, c, d) <=>
         \E x \in c .. d : Fits(r, 0, lp, name, c, x) /\ Fits(r, lp, lp + lq, name, x, d)
  <2>1. lp \in 0 .. lp + lq /\ lp + lq \in Nat
    BY <1>1
  <2>2. PICK n \in Nat : n = lp + lq
    BY <2>1
  <2>3. lp \in 0 .. n /\ 0 \in Nat
    BY <2>1, <2>2
  <2>4. c \in Nat /\ d \in Nat /\ n \in Nat
    OBVIOUS
  <2>5. Fits(r, 0, n, name, c, d) <=>
            \E x \in c .. d : Fits(r, 0, lp, name, c, x) /\ Fits(r, lp, n, name, x, d)
    BY ONLY <2>3, <2>4, FitsCut
  <2> QED BY <2>2, <2>5
<1>4. SameBehind(name, c, d, name, c) /\ \A x \in c .. d : /\ SameBehind(name, c, x, name, c)
                                                           /\ SameBehind(name, x, d, name, x)
  BY DEF SameBehind
<1>5. /\ SameBehind(r, 0, lp, p, 0) /\ SameBehind(p, 0, lp, r, 0)
      /\ SameBehind(r, lp, lp + lq, q, 0) /\ SameBehind(q, 0, lq, r, lp)
  <2>1. \A k \in 1 .. lp : r[k] = p[k]
    BY <1>1, <1>2
  <2>2. \A k \in 1 .. lq : r[lp + k] = q[k]
    <3> SUFFICES ASSUME NEW k \in 1 .. lq PROVE r[lp + k] = q[k]
      OBVIOUS
    <3>1. lp + k \in 1 .. lp + lq /\ ~(lp + k <= lp) /\ (lp + k) - lp = k
      BY <1>1
    <3> QED BY <1>2, <3>1
  <2>3. SameBehind(r, 0, lp, p, 0) /\ SameBehind(p, 0, lp, r, 0)
    <3>1. \A k \in 0 + 1 .. lp, l \in Nat : l - 0 = k - 0 => k \in 1 .. lp /\ l = k
      BY <1>1
    <3> QED BY <2>1, <3>1 DEF SameBehind
  <2>4. SameBehind(r, lp, lp + lq, q, 0)
    <3>1. \A k \in lp + 1 .. lp + lq, l \in Nat : l - 0 = k - lp => l \in 1 .. lq /\ k = lp + l
      BY <1>1
    <3> QED BY <2>2, <3>1 DEF SameBehind
  <2>5. SameBehind(q, 0, lq, r, lp)
    <3>1. \A k \in 0 + 1 .. lq, l \in Nat : l - lp = k - 0 => k \in 1 .. lq /\ l = lp + k
      BY <1>1
    <3> QED BY <2>2, <3>1 DEF SameBehind
  <2> QED BY <2>3, <2>4, <2>5
<1>8. ASSUME NEW x \in c .. d
      PROVE  /\ Fits(r, 0, lp, name, c, x) <=> Fits(p, 0, lp, name, c, x)
             /\ Fits(r, lp, lp + lq, name, x, d) <=> Fits(q, 0, lq, name, x, d)
  <2>1. /\ x \in Nat /\ 0 <= lp /\ 0 <= lq /\ lp <= lp + lq /\ lp + lq \in Nat /\ 0 \in Nat
        /\ (lp + lq) - lp = lq - 0 /\ lq - 0 = (lp + lq) - lp
    BY <1>1
  <2>2. Fits(r, 0, lp, name, c, x) <=> Fits(p, 0, lp, name, c, x)
    BY <1>1, <1>4, <1>5, <2>1, FitsElsewhere
  <2>3. Fits(r, lp, lp + lq, name, x, d) <=> Fits(q, 0, lq, name, x, d)
    BY <1>1, <1>4, <1>5, <2>1, FitsElsewhere
  <2> QED BY <2>2, <2>3
<1>6. Covers(r, name, c, d) <=> Fits(r, 0, lp + lq, name, c, d)
  BY <1>2 DEF Covers
<1>9. ASSUME NEW x \in c .. d
      PROVE  Fits(r, 0, lp, name, c, x) /\ Fits(r, lp, lp + lq, name, x, d)
                 <=> Covers(p, name, c, x) /\ Covers(q, name, x, d)
  <2>1. /\ Fits(r, 0, lp, name, c, x) <=> Fits(p, 0, lp, name, c, x)
        /\ Fits(r, lp, lp + lq, name, x, d) <=> Fits(q, 0, lq, name, x, d)
    BY <1>8
  <2>2. /\ Covers(p, name, c, x) <=> Fits(p, 0, lp, name, c, x)
        /\ Covers(q, name, x, d) <=> Fits(q, 0, lq, name, x, d)
    BY <1>1 DEF Covers
  <2> QED BY <2>1, <2>2, Zenon
<1>10. Covers(r, name, c, d) <=> \E x \in c .. d : Covers(p, name, c, x) /\ Covers(q, name, x, d)
  BY <1>3, <1>6, <1>9
<1> QED BY <1>0, <1>10

\* A part of a name.
LEMMA CoversPart ==
  ASSUME NEW T, NEW p, Len(p) \in Nat, NEW name \in Seq(T), NEW c \in Nat, NEW d \in Nat,
         c <= d, d <= Len(name)
  PROVE  FitsName(p, SubSeq(name, c + 1, d)) <=> Covers(p, name, c, d)
<1>1. PICK lp \in Nat, ln \in Nat : lp = Len(p) /\ ln = Len(name)
  BY LenProperties
<1> DEFINE part == SubSeq(name, c + 1, d)
<1>2. \A k \in c + 1 .. d : name[k] \in T
  BY <1>1, ElementOfSeq
<1>3. Len(part) = d - c /\ \A k \in 1 .. d - c : part[k] = name[k + c]
  <2>1. c + 1 \in Int /\ d \in Int
    OBVIOUS
  <2>2. /\ Len(part) = IF c + 1 <= d THEN d - (c + 1) + 1 ELSE 0
        /\ \A k \in 1 .. d - (c + 1) + 1 : part[k] = name[(c + 1) + k - 1]
    BY <1>2, <2>1, SubSeqProperties
  <2>3. d - (c + 1) + 1 = d - c /\ \A k \in 1 .. d - c : (c + 1) + k - 1 = k + c
    OBVIOUS
  <2>4. Len(part) = d - c
    BY <2>2, <2>3
  <2> QED BY <2>2, <2>3, <2>4
<1> HIDE DEF part
<1>4. /\ SameBehind(p, 0, lp, p, 0)
      /\ SameBehind(part, 0, d - c, name, c) /\ SameBehind(name, c, d, part, 0)
  <2>1. SameBehind(p, 0, lp, p, 0)
    BY <1>1 DEF SameBehind
  <2>2. \A k \in 0 + 1 .. d - c, l \in Nat : l - c = k - 0 => k \in 1 .. d - c /\ l = k + c
    OBVIOUS
  <2>3. \A k \in c + 1 .. d, l \in Nat : l - 0 = k - c => l \in 1 .. d - c /\ k = l + c
    OBVIOUS
  <2> QED BY <1>3, <2>1, <2>2, <2>3 DEF SameBehind
<1>5. d - c \in Nat /\ 0 \in Nat /\ 0 <= lp /\ (d - c) - 0 = d - c
  BY <1>1
<1>6. Fits(p, 0, lp, part, 0, d - c) <=> Fits(p, 0, lp, name, c, d)
  BY <1>1, <1>4, <1>5, FitsElsewhere
<1>8. FitsName(p, part) <=> Fits(p, 0, lp, part, 0, d - c)
  BY <1>1, <1>3 DEF FitsName
<1>9. Covers(p, name, c, d) <=> Fits(p, 0, lp, name, c, d)
  BY <1>1 DEF Covers
<1> QED BY <1>6, <1>8, <1>9 DEF part

\* The last symbol, when it is known where the others end.
LEMMA FitsLast ==
  ASSUME NEW p, NEW name, NEW i \in Nat, i # 0, NEW c \in Nat, NEW d \in Nat
  PROVE  Fits(p, 0, i, name, c, d) <=>
             \E x \in c .. d : Fits(p, 0, i - 1, name, c, x) /\ Takes(p[i], name, x, d)
<1>1. PICK a \in Nat : a = i - 1 /\ a + 1 = i
  <2>1. i - 1 \in Nat /\ (i - 1) + 1 = i
    OBVIOUS
  <2> QED BY <2>1
<1>2. a \in 0 .. i /\ 0 \in Nat
  BY <1>1
<1>3. Fits(p, 0, i, name, c, d) <=>
          \E x \in c .. d : Fits(p, 0, a, name, c, x) /\ Fits(p, a, i, name, x, d)
  BY <1>2, FitsCut
<1>4. \A x \in c .. d : Fits(p, a, a + 1, name, x, d) <=> Takes(p[a + 1], name, x, d)
  <2> SUFFICES ASSUME NEW x \in c .. d
               PROVE  Fits(p, a, a + 1, name, x, d) <=> Takes(p[a + 1], name, x, d)
    OBVIOUS
  <2>1. x \in Nat
    OBVIOUS
  <2> QED BY <2>1, FitsOne
<1> QED BY <1>1, <1>3, <1>4

\* What is taken begins before it ends.
LEMMA FitsOrder ==
  ASSUME NEW p, NEW name, NEW a \in Nat, NEW b \in Nat, a <= b, NEW c \in Nat, NEW d \in Nat,
         Fits(p, a, b, name, c, d)
  PROVE  c <= d
<1>1. PICK f : IsPath(f, p, a, b, name, c, d)
  BY DEF Fits
<1>2. f[a] \in c .. d /\ f[a] = c
  BY <1>1 DEF IsPath
<1> QED BY <1>2

\* A star behind a star takes nothing that the first could not take.
LEMMA StarTwice ==
  ASSUME NEW p, NEW name, NEW i \in Nat, i > 1, p[i] = Star, p[i - 1] = Star,
         NEW c \in Nat, NEW d \in Nat
  PROVE  Fits(p, 0, i, name, c, d) <=> Fits(p, 0, i - 1, name, c, d)
<1>1. PICK a \in Nat : a = i - 1 /\ a # 0
  <2>1. i - 1 \in Nat /\ i - 1 # 0
    OBVIOUS
  <2> QED BY <2>1
<1>2. Fits(p, 0, i, name, c, d) <=>
          \E x \in c .. d : Fits(p, 0, a, name, c, x) /\ Takes(p[i], name, x, d)
  BY <1>1, FitsLast
<1>3. ASSUME Fits(p, 0, i, name, c, d) PROVE Fits(p, 0, a, name, c, d)
  <2>1. PICK x \in c .. d : Fits(p, 0, a, name, c, x)
    BY <1>2, <1>3
  <2>2. PICK y \in c .. x : Fits(p, 0, a - 1, name, c, y)
    <3>1. x \in Nat
      OBVIOUS
    <3> QED BY <1>1, <2>1, <3>1, FitsLast
  <2>3. y \in c .. d /\ Takes(p[a], name, y, d)
    BY <1>1 DEF Takes
  <2> QED BY <1>1, <2>2, <2>3, FitsLast
<1>4. ASSUME Fits(p, 0, a, name, c, d) PROVE Fits(p, 0, i, name, c, d)
  <2>1. 0 <= a /\ 0 \in Nat
    OBVIOUS
  <2>2. c <= d
    BY <1>4, <2>1, FitsOrder
  <2>3. d \in c .. d /\ Takes(p[i], name, d, d)
    BY <2>2 DEF Takes
  <2> QED BY <1>2, <1>4, <2>3
<1> QED BY <1>1, <1>3, <1>4

\* Only a star behind a star is dropped.
LEMMA DroppedStar ==
  ASSUME NEW p, NEW i \in Nat, i > 0, NEW K,
         K = {k \in 1 .. i : \A n \in k .. i : p[n] = Star},
         Cardinality(K) > 0, Cardinality(K) % 2 = 0
  PROVE  i > 1 /\ p[i] = Star /\ p[i - 1] = Star
<1>1. K # {}
  BY FS_EmptySet
<1>2. p[i] = Star
  <2>1. PICK k \in K : TRUE
    BY <1>1
  <2>2. i \in k .. i
    OBVIOUS
  <2> QED BY <2>1, <2>2
<1>3. K # {i}
  <2>1. K = {i} => Cardinality(K) = 1
    BY FS_Singleton
  <2> QED BY <2>1
<1>4. i \in K
  <2>1. i \in 1 .. i /\ \A n \in i .. i : n = i
    OBVIOUS
  <2> QED BY <1>2, <2>1
<1>5. PICK k \in K : k # i
  BY <1>3, <1>4
<1>6. k \in 1 .. i /\ i - 1 \in k .. i /\ i > 1
  BY <1>5
<1> QED BY <1>2, <1>5, <1>6

\* The recursion of ReplaceDoubled is well-founded.
LEMMA KeptExists ==
  ASSUME NEW p \in Seq(Symbols), NEW n \in Nat, n = Len(p), NEW drop
  PROVE  \E f : IsRecursion(f, n, Seq(Symbols), <<>>,
                    [i \in 1 .. n |-> [s \in Seq(Symbols) |->
                        IF drop[i] THEN s ELSE Append(s, p[i])]])
<1> DEFINE next == [i \in 1 .. n |-> [s \in Seq(Symbols) |->
                        IF drop[i] THEN s ELSE Append(s, p[i])]]
<1>1. next \in [1 .. n -> [Seq(Symbols) -> Seq(Symbols)]]
  <2>1. \A i \in 1 .. n, s \in Seq(Symbols) : Append(s, p[i]) \in Seq(Symbols)
    <3>1. \A i \in 1 .. n : p[i] \in Symbols
      BY ElementOfSeq
    <3> QED BY <3>1, AppendProperties
  <2> QED BY <2>1
<1>2. <<>> \in Seq(Symbols)
  OBVIOUS
<1> HIDE DEF next
<1>3. \E f : IsRecursion(f, n, Seq(Symbols), <<>>, next)
  BY ONLY <1>1, <1>2, n \in Nat, Recursion
<1> QED BY <1>3 DEF next

\* The pattern without some of the doubled stars, up to i.
KeptUpTo(p, kept) ==
    \A i \in 0 .. Len(p) :
        kept[i] = IF i = 0 THEN <<>>
                  ELSE LET K == {k \in 1 .. i : \A n \in k .. i : p[n] = Star}
                       IN  IF Cardinality(K) > 0 /\ Cardinality(K) % 2 = 0
                           THEN kept[i - 1] ELSE Append(kept[i - 1], p[i])

\* So ReplaceDoubled is a table of what is kept of the first i symbols.
LEMMA KeptIs ==
  ASSUME NEW p \in Seq(Symbols)
  PROVE  \E kept : /\ ReplaceDoubled(p) = kept[Len(p)]
                   /\ KeptUpTo(p, kept)
                   /\ \A i \in 0 .. Len(p) : kept[i] \in Seq(Symbols)
<1> DEFINE StarsUpTo(i) == Cardinality({k \in 1 .. i : \A n \in k .. i : p[n] = Star})
           Is(f) == f = [i \in 0 .. Len(p) |->
                        IF i = 0 THEN <<>>
                        ELSE IF StarsUpTo(i) > 0 /\ StarsUpTo(i) % 2 = 0
                             THEN f[i - 1] ELSE Append(f[i - 1], p[i])]
           kept == CHOOSE f : Is(f)
<1>1. ReplaceDoubled(p) = kept[Len(p)]
  BY DEF ReplaceDoubled
<1>2. PICK n \in Nat : n = Len(p)
  BY LenProperties
<1> DEFINE drop == [i \in 1 .. n |-> StarsUpTo(i) > 0 /\ StarsUpTo(i) % 2 = 0]
           next == [i \in 1 .. n |-> [s \in Seq(Symbols) |-> IF drop[i] THEN s ELSE Append(s, p[i])]]
<1>3. PICK f : IsRecursion(f, n, Seq(Symbols), <<>>, next)
  BY <1>2, KeptExists
<1>4. f \in [0 .. n -> Seq(Symbols)] /\ f[0] = <<>> /\ \A i \in 1 .. n : f[i] = next[i][f[i - 1]]
  BY <1>3 DEF IsRecursion
<1> HIDE DEF next
<1>5. ASSUME NEW i \in 1 .. n
      PROVE  f[i] = IF drop[i] THEN f[i - 1] ELSE Append(f[i - 1], p[i])
  <2>1. f[i - 1] \in Seq(Symbols)
    BY <1>4
  <2>2. next[i] = [s \in Seq(Symbols) |-> IF drop[i] THEN s ELSE Append(s, p[i])]
    BY DEF next
  <2> HIDE DEF drop
  <2> QED BY <1>4, <2>1, <2>2
<1>6. ASSUME NEW i \in 0 .. n
      PROVE  f[i] = IF i = 0 THEN <<>>
                    ELSE IF StarsUpTo(i) > 0 /\ StarsUpTo(i) % 2 = 0
                         THEN f[i - 1] ELSE Append(f[i - 1], p[i])
  <2>1. CASE i = 0
    BY <1>4, <2>1
  <2>2. CASE i # 0
    <3>1. i \in 1 .. n
      BY <2>2
    <3>2. drop[i] = (StarsUpTo(i) > 0 /\ StarsUpTo(i) % 2 = 0)
      BY <3>1
    <3> HIDE DEF drop, StarsUpTo
    <3> QED BY <1>5, <2>2, <3>1, <3>2
  <2> QED BY <2>1, <2>2
<1>7. Is(f)
  <2>1. f = [i \in 0 .. n |-> f[i]]
    BY <1>4
  <2> HIDE DEF StarsUpTo
  <2> QED BY <1>2, <1>6, <2>1
<1>8. Is(kept)
  <2> HIDE DEF Is
  <2> QED BY <1>7
<1> HIDE DEF kept
<1>9. \A i \in 0 .. Len(p) : kept[i] = IF i = 0 THEN <<>>
                    ELSE IF StarsUpTo(i) > 0 /\ StarsUpTo(i) % 2 = 0
                         THEN kept[i - 1] ELSE Append(kept[i - 1], p[i])
  <2> HIDE DEF StarsUpTo
  <2> QED BY <1>8
<1>10. KeptUpTo(p, kept)
  BY <1>9 DEF KeptUpTo
<1> DEFINE S == {i \in 0 .. n : kept[i] \in Seq(Symbols)}
<1>11. 0 \in S
  <2>1. 0 \in 0 .. n /\ 0 \in 0 .. Len(p)
    BY <1>2
  <2>2. kept[0] = <<>>
    <3> HIDE DEF StarsUpTo
    <3> QED BY <1>9, <2>1
  <2>3. <<>> \in Seq(Symbols)
    OBVIOUS
  <2> HIDE DEF StarsUpTo
  <2> QED BY <2>1, <2>2, <2>3
<1>12. ASSUME NEW i \in 1 .. n, i - 1 \in S PROVE i \in S
  <2>1. p[i] \in Symbols
    BY <1>2, ElementOfSeq
  <2>2. Append(kept[i - 1], p[i]) \in Seq(Symbols)
    BY <1>12, <2>1, AppendProperties
  <2>3. kept[i] = kept[i - 1] \/ kept[i] = Append(kept[i - 1], p[i])
    <3>1. i # 0 /\ i \in 0 .. Len(p)
      BY <1>2
    <3> HIDE DEF StarsUpTo, S
    <3> QED BY <1>9, <3>1
  <2>4. i \in 0 .. n
    OBVIOUS
  <2> QED BY <1>12, <2>2, <2>3, <2>4
<1>13. 0 .. n \subseteq S
  <2> HIDE DEF S
  <2> QED BY <1>11, <1>12, UpFrom
<1> QED BY <1>1, <1>2, <1>10, <1>13

\* Replacing doubled stars does not change what a pattern takes.
LEMMA ReplaceDoubledIs ==
  ASSUME NEW p \in Seq(Symbols), NEW name, NEW c \in Nat, NEW d \in Nat
  PROVE  /\ ReplaceDoubled(p) \in Seq(Symbols)
         /\ p # <<>> => ReplaceDoubled(p) # <<>>
         /\ p = <<>> => ReplaceDoubled(p) = <<>>
         /\ Covers(ReplaceDoubled(p), name, c, d) <=> Covers(p, name, c, d)
<1>1. PICK kept : /\ ReplaceDoubled(p) = kept[Len(p)]
                  /\ KeptUpTo(p, kept)
                  /\ \A i \in 0 .. Len(p) : kept[i] \in Seq(Symbols)
  BY KeptIs
<1>2. PICK n \in Nat : n = Len(p)
  BY LenProperties
<1> DEFINE S == {i \in 0 .. n :
                    /\ kept[i] \in Seq(Symbols) /\ (i = 0 <=> kept[i] = <<>>)
                    /\ \A y \in Nat : Covers(kept[i], name, c, y) <=> Fits(p, 0, i, name, c, y)}
<1>3. 0 \in S
  <2>1. kept[0] = <<>> /\ 0 \in 0 .. n /\ kept[0] \in Seq(Symbols)
    <3>1. 0 \in 0 .. n /\ 0 \in 0 .. Len(p)
      BY <1>2
    <3>2. kept[0] = IF 0 = 0 THEN <<>>
                    ELSE LET K == {k \in 1 .. 0 : \A l \in k .. 0 : p[l] = Star}
                         IN  IF Cardinality(K) > 0 /\ Cardinality(K) % 2 = 0
                             THEN kept[0 - 1] ELSE Append(kept[0 - 1], p[0])
      BY <1>1, <3>1 DEF KeptUpTo
    <3>3. kept[0] = <<>>
      BY <3>2, Zenon
    <3> QED BY <1>1, <3>1, <3>3
  <2>2. \A y \in Nat : Covers(<<>>, name, c, y) <=> Fits(p, 0, 0, name, c, y)
    <3> SUFFICES ASSUME NEW y \in Nat
                 PROVE  Covers(<<>>, name, c, y) <=> Fits(p, 0, 0, name, c, y)
      OBVIOUS
    <3>1. 0 \in Nat
      OBVIOUS
    <3> QED BY <3>1, CoversNothing, FitsNone
  <2> QED BY <2>1, <2>2
<1>4. ASSUME NEW i \in 1 .. n, i - 1 \in S PROVE i \in S
  <2>1. PICK K : K = {k \in 1 .. i : \A l \in k .. i : p[l] = Star}
    OBVIOUS
  <2>2. kept[i] = IF Cardinality(K) > 0 /\ Cardinality(K) % 2 = 0
                  THEN kept[i - 1] ELSE Append(kept[i - 1], p[i])
    <3>1. i # 0 /\ i \in 0 .. Len(p)
      BY <1>2
    <3> HIDE DEF S
    <3> QED BY <1>1, <2>1, <3>1 DEF KeptUpTo
  <2>3. PICK s \in Seq(Symbols) : s = kept[i - 1] /\ (i - 1 = 0 <=> s = <<>>)
    BY <1>4
  <2>4. \A y \in Nat : Covers(s, name, c, y) <=> Fits(p, 0, i - 1, name, c, y)
    BY <1>4, <2>3
  <2>5. i \in Nat /\ i > 0 /\ i \in 0 .. n /\ p[i] \in Symbols
    BY <1>2, ElementOfSeq
  <2>6. CASE Cardinality(K) > 0 /\ Cardinality(K) % 2 = 0
    <3>1. i > 1 /\ p[i] = Star /\ p[i - 1] = Star
      BY <2>1, <2>5, <2>6, DroppedStar
    <3>2. \A y \in Nat : Fits(p, 0, i, name, c, y) <=> Fits(p, 0, i - 1, name, c, y)
      BY <2>5, <3>1, StarTwice
    <3>3. kept[i] = s /\ s # <<>>
      BY <2>2, <2>3, <2>6, <3>1
    <3>4. \A y \in Nat : Covers(s, name, c, y) <=> Fits(p, 0, i, name, c, y)
      BY <2>4, <3>2
    <3> QED BY <2>5, <3>3, <3>4
  <2>7. CASE ~(Cardinality(K) > 0 /\ Cardinality(K) % 2 = 0)
    <3>1. PICK symbol \in Symbols : symbol = p[i]
      BY <2>5
    <3>2. kept[i] = Append(s, symbol)
      BY <2>2, <2>3, <2>7, <3>1
    <3>3. Append(s, symbol) = s \o <<symbol>> /\ <<symbol>> \in Seq(Symbols)
      BY AppendIsConcat
    <3>4. Append(s, symbol) \in Seq(Symbols) /\ Append(s, symbol) # <<>>
      BY AppendProperties
    <3>5. ASSUME NEW y \in Nat
          PROVE  Covers(s \o <<symbol>>, name, c, y) <=> Fits(p, 0, i, name, c, y)
      <4>1. Covers(s \o <<symbol>>, name, c, y) <=>
               \E x \in c .. y : Covers(s, name, c, x) /\ Covers(<<symbol>>, name, x, y)
        BY ONLY <3>3, s \in Seq(Symbols), c \in Nat, y \in Nat, CoversBoth
      <4>2. Fits(p, 0, i, name, c, y) <=>
               \E x \in c .. y : Fits(p, 0, i - 1, name, c, x) /\ Takes(p[i], name, x, y)
        <5>1. i \in Nat /\ i # 0 /\ c \in Nat /\ y \in Nat
          BY <2>5
        <5> QED BY ONLY <5>1, FitsLast
      <4>3. ASSUME NEW x \in c .. y
            PROVE  Covers(s, name, c, x) /\ Covers(<<symbol>>, name, x, y)
                      <=> Fits(p, 0, i - 1, name, c, x) /\ Takes(p[i], name, x, y)
        <5>1. x \in Nat
          OBVIOUS
        <5>2. Covers(<<symbol>>, name, x, y) <=> Takes(symbol, name, x, y)
          BY <5>1, CoversOne
        <5> QED BY <2>4, <3>1, <5>1, <5>2
      <4> QED BY <4>1, <4>2, <4>3
    <3>6. \A y \in Nat : Covers(kept[i], name, c, y) <=> Fits(p, 0, i, name, c, y)
      BY <3>2, <3>3, <3>5
    <3>7. kept[i] \in Seq(Symbols) /\ kept[i] # <<>> /\ i # 0
      BY <2>5, <3>2, <3>4
    <3> QED BY <2>5, <3>6, <3>7
  <2> QED BY <2>6, <2>7
<1>5. n \in S
  <2>1. n \in 0 .. n
    OBVIOUS
  <2> HIDE DEF S
  <2> QED BY <1>3, <1>4, <2>1, UpFrom
<1>6. p = <<>> <=> n = 0
  BY <1>2, EmptySeq
<1> QED BY <1>1, <1>2, <1>5, <1>6 DEF Covers

\* The greatest of some numbers, which SelectLastInSeq takes.
LEMMA GreatestOf ==
  ASSUME NEW n \in Nat, NEW S \in SUBSET (1 .. n), S # {}
  PROVE  Max(S) \in S
<1> DEFINE T == {k \in 0 .. n : n - k \in S}
<1>1. T \in SUBSET Nat /\ T # {}
  <2>1. PICK s \in S : TRUE
    OBVIOUS
  <2>2. n - s \in 0 .. n /\ n - (n - s) = s
    BY <2>1
  <2>3. PICK k \in 0 .. n : n - k = s
    BY <2>2
  <2>4. k \in T
    BY <2>1, <2>3
  <2> QED BY <2>4
<1>2. PICK k \in T : \A l \in T : k <= l
  <2> HIDE DEF T
  <2> QED BY <1>1, LeastOf
<1>3. n - k \in S /\ k \in Nat
  OBVIOUS
<1>4. \A s \in S : s \in 1 .. n /\ n - s \in T
  BY <1>1
<1>5. \A s \in S : n - k >= s
  BY <1>2, <1>3, <1>4
<1> QED BY <1>3, <1>5 DEF Max

RuleLists == Seq([name : RuleNames, value : Values])

\* The prefix and the suffix of a target are values, or empty.
LEMMA LastValueType ==
  ASSUME NEW rules \in RuleLists, NEW name
  PROVE  LastValue(rules, name) \in Seq(Symbols)
<1> DEFINE Is(rule) == rule.name = name
           I == {i \in 1 .. Len(rules) : Is(rules[i])}
<1>1. PICK n \in Nat : n = Len(rules)
  BY LenProperties DEF RuleLists
<1>2. PICK i : i = SelectLastInSeq(rules, Is)
  OBVIOUS
<1>3. LastValue(rules, name) = IF i = 0 THEN <<>> ELSE rules[i].value
  BY <1>2 DEF LastValue
<1>4. i = IF I # {} THEN Max(I) ELSE 0
  BY <1>2 DEF SelectLastInSeq
<1>5. i = 0 \/ i \in 1 .. n
  <2>1. I \in SUBSET (1 .. n)
    BY <1>1
  <2> HIDE DEF I
  <2> QED BY <1>4, <2>1, GreatestOf
<1>6. CASE i = 0
  BY <1>3, <1>6
<1>7. CASE i # 0
  <2>1. rules[i] \in [name : RuleNames, value : Values]
    BY <1>1, <1>5, <1>7, ElementOfSeq DEF RuleLists
  <2>2. rules[i].value \in Values
    BY <2>1
  <2> QED BY <1>3, <1>7, <2>2, ValuesAssumption DEF Symbols
<1> QED BY <1>6, <1>7

\* A pattern that ends in a star takes what it takes with more letters, too.
LEMMA OpenEndedIs ==
  ASSUME NEW p \in Seq(Symbols), p # <<>>, NEW name, NEW c \in Nat, NEW d \in Nat
  PROVE  /\ OpenEnded(p) \in Seq(Symbols) /\ OpenEnded(p) # <<>>
         /\ Covers(OpenEnded(p), name, c, d) <=> \E x \in c .. d : Covers(p, name, c, x)
<1>1. PICK n \in Nat : n = Len(p) /\ n # 0
  BY LenProperties, EmptySeq
<1>2. CASE Last(p) = Star
  <2>1. OpenEnded(p) = p
    BY <1>2 DEF OpenEnded
  <2>2. ASSUME NEW y \in Nat
        PROVE  Covers(p, name, c, y) <=> \E z \in c .. y : Fits(p, 0, n - 1, name, c, z)
    <3>1. Fits(p, 0, n, name, c, y) <=>
             \E z \in c .. y : Fits(p, 0, n - 1, name, c, z) /\ Takes(p[n], name, z, y)
      BY ONLY <1>1, c \in Nat, y \in Nat, FitsLast
    <3>2. \A z \in c .. y : Takes(p[n], name, z, y)
      BY <1>1, <1>2 DEF Takes, Last
    <3> QED BY <1>1, <3>1, <3>2 DEF Covers
  <2>3. ASSUME NEW x \in c .. d, Covers(p, name, c, x) PROVE Covers(p, name, c, d)
    <3>1. x \in Nat /\ \A z \in c .. x : z \in c .. d
      OBVIOUS
    <3> QED BY <2>2, <2>3, <3>1
  <2>4. Covers(p, name, c, d) => d \in c .. d
    <3>1. 0 \in Nat /\ 0 <= n
      BY <1>1
    <3> QED BY <1>1, <3>1, FitsOrder DEF Covers
  <2> QED BY <2>1, <2>3, <2>4
<1>3. CASE Last(p) # Star
  <2>1. OpenEnded(p) = p \o <<Star>>
    BY <1>3, AppendIsConcat DEF OpenEnded
  <2>2. Star \in Symbols
    BY DEF Symbols
  <2>3. OpenEnded(p) \in Seq(Symbols) /\ OpenEnded(p) # <<>>
    BY <1>3, <2>2, AppendProperties DEF OpenEnded
  <2>4. <<Star>> \in Seq(Symbols)
    BY <2>2
  <2>5. Covers(p \o <<Star>>, name, c, d) <=>
            \E x \in c .. d : Covers(p, name, c, x) /\ Covers(<<Star>>, name, x, d)
    BY ONLY <2>4, p \in Seq(Symbols), c \in Nat, d \in Nat, CoversBoth
  <2>6. ASSUME NEW x \in c .. d PROVE Covers(<<Star>>, name, x, d)
    <3>1. x \in Nat /\ Takes(Star, name, x, d)
      BY DEF Takes
    <3> QED BY <3>1, CoversOne
  <2> QED BY <2>1, <2>3, <2>5, <2>6
<1> QED BY <1>2, <1>3

\* A pattern that begins with a star takes what it takes with more letters before, too.
LEMMA OpenStartIs ==
  ASSUME NEW p \in Seq(Symbols), p # <<>>, NEW name, NEW c \in Nat, NEW d \in Nat
  PROVE  /\ OpenStart(p) \in Seq(Symbols) /\ OpenStart(p) # <<>>
         /\ Covers(OpenStart(p), name, c, d) <=> \E x \in c .. d : Covers(p, name, x, d)
<1>1. PICK n \in Nat : n = Len(p) /\ n # 0
  BY LenProperties, EmptySeq
<1>2. CASE Head(p) = Star
  <2>1. OpenStart(p) = p
    BY <1>2 DEF OpenStart
  <2>2. ASSUME NEW y \in Nat
        PROVE  Covers(p, name, y, d) <=> \E z \in y .. d : Fits(p, 1, n, name, z, d)
    <3>0. 0 \in Nat /\ 0 < n /\ 0 + 1 = 1
      BY <1>1
    <3>1. Fits(p, 0, n, name, y, d) <=>
             \E z \in y .. d : Takes(p[0 + 1], name, y, z) /\ Fits(p, 0 + 1, n, name, z, d)
      BY ONLY <3>0, n \in Nat, y \in Nat, d \in Nat, FitsStep
    <3>2. \A z \in y .. d : Takes(p[1], name, y, z)
      <4>1. p[1] = Star
        BY <1>2, HeadTailProperties
      <4> QED BY <4>1 DEF Takes
    <3> QED BY <1>1, <3>0, <3>1, <3>2 DEF Covers
  <2>3. ASSUME NEW x \in c .. d, Covers(p, name, x, d) PROVE Covers(p, name, c, d)
    <3>1. x \in Nat /\ \A z \in x .. d : z \in c .. d
      OBVIOUS
    <3> QED BY <2>2, <2>3, <3>1
  <2>4. Covers(p, name, c, d) => c \in c .. d
    <3>1. 0 \in Nat /\ 0 <= n
      BY <1>1
    <3> QED BY <1>1, <3>1, FitsOrder DEF Covers
  <2> QED BY <2>1, <2>3, <2>4
<1>3. CASE Head(p) # Star
  <2>1. OpenStart(p) = <<Star>> \o p
    BY <1>3 DEF OpenStart
  <2>2. <<Star>> \in Seq(Symbols)
    BY DEF Symbols
  <2>3. OpenStart(p) \in Seq(Symbols) /\ OpenStart(p) # <<>>
    BY <1>1, <2>1, <2>2, ConcatProperties, EmptySeq
  <2>5. Covers(<<Star>> \o p, name, c, d) <=>
            \E x \in c .. d : Covers(<<Star>>, name, c, x) /\ Covers(p, name, x, d)
    BY ONLY <2>2, p \in Seq(Symbols), c \in Nat, d \in Nat, CoversBoth
  <2>6. ASSUME NEW x \in c .. d PROVE Covers(<<Star>>, name, c, x)
    <3>1. x \in Nat /\ Takes(Star, name, c, x)
      BY DEF Takes
    <3> QED BY <3>1, CoversOne
  <2> QED BY <2>1, <2>3, <2>5, <2>6
<1> QED BY <1>2, <1>3

\* The pattern that stands for no filter.
Used(pattern) == IF pattern = <<>> THEN <<Star>> ELSE pattern

\* The name begins with what the one pattern takes, and ends with what the other takes.
Between(prefix, suffix, name, n) ==
    \E i, j \in 0 .. n : i <= j /\ Covers(prefix, name, 0, i) /\ Covers(suffix, name, j, n)

\* NewPattern: the pattern of a prefix and a suffix takes what begins with the one and ends
\* with the other, and without either it is empty.
LEMMA NewPatternCovers ==
  ASSUME NEW prefix \in Seq(Symbols), NEW suffix \in Seq(Symbols), NEW name, NEW n \in Nat
  PROVE  /\ NewPattern(prefix, suffix) \in Seq(Symbols)
         /\ Covers(Used(NewPattern(prefix, suffix)), name, 0, n)
               <=> Between(prefix, suffix, name, n)
<1> DEFINE O == OpenEnded(prefix)
           Q == OpenStart(suffix)
           P == NewPattern(prefix, suffix)
<1>1. O \in Seq(Symbols) /\ Q \in Seq(Symbols)
  <2>1. <<>> \in Seq(Symbols)
    OBVIOUS
  <2>2. prefix = <<>> => O = <<>>
    BY DEF OpenEnded
  <2>3. suffix = <<>> => Q = <<>>
    BY DEF OpenStart
  <2>4. 0 \in Nat
    OBVIOUS
  <2>5. prefix # <<>> => O \in Seq(Symbols)
    BY <2>4, OpenEndedIs
  <2>6. suffix # <<>> => Q \in Seq(Symbols)
    BY <2>4, OpenStartIs
  <2> HIDE DEF O, Q
  <2> QED BY <2>1, <2>2, <2>3, <2>5, <2>6
<1>2. PICK r \in Seq(Symbols) : r = O \o Q /\ P = ReplaceDoubled(r)
  <2>1. O \o Q \in Seq(Symbols)
    BY <1>1, ConcatProperties
  <2> QED BY <2>1 DEF NewPattern
<1>3. /\ P \in Seq(Symbols)
      /\ r = <<>> <=> P = <<>>
      /\ Covers(P, name, 0, n) <=> Covers(r, name, 0, n)
  <2>1. 0 \in Nat /\ n \in Nat
    OBVIOUS
  <2>2. /\ ReplaceDoubled(r) \in Seq(Symbols)
        /\ r # <<>> => ReplaceDoubled(r) # <<>>
        /\ r = <<>> => ReplaceDoubled(r) = <<>>
        /\ Covers(ReplaceDoubled(r), name, 0, n) <=> Covers(r, name, 0, n)
    BY ONLY <2>1, r \in Seq(Symbols), ReplaceDoubledIs
  <2> HIDE DEF P
  <2> QED BY <1>2, <2>2
<1>4. Covers(r, name, 0, n) <=> \E x \in 0 .. n : Covers(O, name, 0, x) /\ Covers(Q, name, x, n)
  <2>1. 0 \in Nat /\ n \in Nat
    OBVIOUS
  <2> HIDE DEF O, Q, P
  <2>2. Covers(O \o Q, name, 0, n)
          <=> \E x \in 0 .. n : Covers(O, name, 0, x) /\ Covers(Q, name, x, n)
    BY ONLY <1>1, <2>1, CoversBoth
  <2> QED BY <1>2, <2>2
<1>5. ASSUME NEW x \in 0 .. n
      PROVE  Covers(O, name, 0, x) <=> IF prefix = <<>> THEN x = 0
                                       ELSE \E i \in 0 .. x : Covers(prefix, name, 0, i)
  <2>1. 0 \in Nat /\ x \in Nat
    OBVIOUS
  <2>2. CASE prefix = <<>>
    <3>1. O = <<>>
      BY <2>2 DEF OpenEnded
    <3>2. Covers(O, name, 0, x) <=> 0 = x
      BY <2>1, <3>1, CoversNothing
    <3> QED BY <2>2, <3>2
  <2>3. CASE prefix # <<>>
    BY <2>1, <2>3, OpenEndedIs
  <2> QED BY <2>2, <2>3
<1>6. ASSUME NEW x \in 0 .. n
      PROVE  Covers(Q, name, x, n) <=> IF suffix = <<>> THEN x = n
                                       ELSE \E j \in x .. n : Covers(suffix, name, j, n)
  <2>1. n \in Nat /\ x \in Nat
    OBVIOUS
  <2>2. CASE suffix = <<>>
    <3>1. Q = <<>>
      BY <2>2 DEF OpenStart
    <3>2. Covers(Q, name, x, n) <=> x = n
      BY <2>1, <3>1, CoversNothing
    <3> QED BY <2>2, <3>2
  <2>3. CASE suffix # <<>>
    BY <2>1, <2>3, OpenStartIs
  <2> QED BY <2>2, <2>3
<1>7. ASSUME NEW i \in 0 .. n, prefix = <<>> PROVE Covers(prefix, name, 0, i) <=> i = 0
  <2>1. 0 \in Nat /\ i \in Nat
    OBVIOUS
  <2>2. Covers(<<>>, name, 0, i) <=> 0 = i
    BY <2>1, CoversNothing
  <2> QED BY <1>7, <2>2
<1>8. ASSUME NEW j \in 0 .. n, suffix = <<>> PROVE Covers(suffix, name, j, n) <=> j = n
  <2>1. j \in Nat /\ n \in Nat
    OBVIOUS
  <2>2. Covers(<<>>, name, j, n) <=> j = n
    BY <2>1, CoversNothing
  <2> QED BY <1>8, <2>2
<1>9. ASSUME prefix = <<>>, suffix = <<>>
      PROVE  Covers(Used(P), name, 0, n) <=> Between(prefix, suffix, name, n)
  <2>1. O = <<>> /\ Q = <<>>
    BY <1>9 DEF OpenEnded, OpenStart
  <2>2. r = <<>>
    <3>1. <<>> \o <<>> = <<>>
      BY ConcatEmptySeq, EmptySeq
    <3> QED BY <1>2, <2>1, <3>1
  <2>3. Used(P) = <<Star>>
    BY <1>3, <2>2 DEF Used
  <2>4. Covers(<<Star>>, name, 0, n)
    <3>1. 0 \in Nat /\ n \in Nat /\ Takes(Star, name, 0, n)
      BY DEF Takes
    <3> QED BY <3>1, CoversOne
  <2>5. Between(prefix, suffix, name, n)
    <3>1. 0 \in 0 .. n /\ n \in 0 .. n /\ 0 <= n
      OBVIOUS
    <3>2. Covers(prefix, name, 0, 0) /\ Covers(suffix, name, n, n)
      BY <1>7, <1>8, <1>9, <3>1
    <3> QED BY <3>1, <3>2 DEF Between
  <2> QED BY <2>3, <2>4, <2>5
<1>10. ASSUME prefix # <<>> \/ suffix # <<>>
       PROVE  Covers(Used(P), name, 0, n) <=> Between(prefix, suffix, name, n)
  <2>1. O # <<>> \/ Q # <<>>
    <3>1. 0 \in Nat
      OBVIOUS
    <3>2. prefix # <<>> => O # <<>>
      BY <3>1, OpenEndedIs
    <3>3. suffix # <<>> => Q # <<>>
      BY <3>1, OpenStartIs
    <3> QED BY <1>10, <3>2, <3>3
  <2> HIDE DEF O, Q, P
  <2>2. r # <<>>
    <3>1. Len(r) = Len(O) + Len(Q) /\ Len(O) \in Nat /\ Len(Q) \in Nat
      BY <1>1, <1>2, ConcatProperties, LenProperties
    <3>2. Len(O) # 0 \/ Len(Q) # 0
      BY <1>1, <2>1, EmptySeq
    <3>3. Len(r) # 0
      BY <3>1, <3>2
    <3> QED BY <3>3, EmptySeq
  <2>3. Covers(Used(P), name, 0, n)
          <=> \E x \in 0 .. n : Covers(O, name, 0, x) /\ Covers(Q, name, x, n)
    BY <1>3, <1>4, <2>2 DEF Used
  <2>4. CASE prefix # <<>> /\ suffix # <<>>
    <3>1. Covers(Used(P), name, 0, n) <=>
             \E x \in 0 .. n : /\ \E i \in 0 .. x : Covers(prefix, name, 0, i)
                               /\ \E j \in x .. n : Covers(suffix, name, j, n)
      BY <1>5, <1>6, <2>3, <2>4
    <3>2. ASSUME NEW x \in 0 .. n, NEW i \in 0 .. x, NEW j \in x .. n
          PROVE  i \in 0 .. n /\ j \in 0 .. n /\ i <= j
      OBVIOUS
    <3>3. ASSUME NEW i \in 0 .. n, NEW j \in 0 .. n, i <= j
          PROVE  i \in 0 .. i /\ j \in i .. n
      BY <3>3
    <3> QED BY <3>1, <3>2, <3>3 DEF Between
  <2>5. CASE prefix = <<>> /\ suffix # <<>>
    <3>0. 0 \in 0 .. n /\ \A j \in 0 .. n : 0 <= j
      OBVIOUS
    <3>1. Covers(Used(P), name, 0, n) <=>
             \E x \in 0 .. n : x = 0 /\ \E j \in x .. n : Covers(suffix, name, j, n)
      BY <1>5, <1>6, <2>3, <2>5
    <3>2. Covers(Used(P), name, 0, n) <=> \E j \in 0 .. n : Covers(suffix, name, j, n)
      BY <3>0, <3>1
    <3>3. Between(prefix, suffix, name, n) <=>
             \E i, j \in 0 .. n : i <= j /\ i = 0 /\ Covers(suffix, name, j, n)
      BY <1>7, <2>5 DEF Between
    <3> QED BY <3>0, <3>2, <3>3
  <2>6. CASE prefix # <<>> /\ suffix = <<>>
    <3>0. n \in 0 .. n /\ \A i \in 0 .. n : i <= n
      OBVIOUS
    <3>1. Covers(Used(P), name, 0, n) <=>
             \E x \in 0 .. n : x = n /\ \E i \in 0 .. x : Covers(prefix, name, 0, i)
      BY <1>5, <1>6, <2>3, <2>6
    <3>2. Covers(Used(P), name, 0, n) <=> \E i \in 0 .. n : Covers(prefix, name, 0, i)
      BY <3>0, <3>1
    <3>3. Between(prefix, suffix, name, n) <=>
             \E i, j \in 0 .. n : i <= j /\ j = n /\ Covers(prefix, name, 0, i)
      BY <1>8, <2>6 DEF Between
    <3> QED BY <3>0, <3>2, <3>3
  <2> QED BY <1>10, <2>4, <2>5, <2>6
<1> HIDE DEF P
<1>11. Covers(Used(P), name, 0, n) <=> Between(prefix, suffix, name, n)
  BY <1>9, <1>10
<1> QED BY <1>3, <1>11 DEF P

\* What the filter of a target stands for: NewPattern and MatchSimple let an object through
\* exactly if the target wants it, and they panic only if the filter has AnyOne.
LEMMA FilterIs ==
  ASSUME NEW target, target.rules \in RuleLists, NEW objectName \in ObjectNames
  PROVE  /\ Pattern(target.rules) \in Seq(Symbols)
         /\ MatchSimple(Used(Pattern(target.rules)), objectName) = "yes"
               <=> Wants(target, objectName)
         /\ MatchSimple(Used(Pattern(target.rules)), objectName) = "panic"
               => Contains(Pattern(target.rules), AnyOne)
<1>1. PICK prefix \in Seq(Symbols), suffix \in Seq(Symbols) :
          /\ prefix = LastValue(target.rules, "prefix")
          /\ suffix = LastValue(target.rules, "suffix")
  BY LastValueType
<1>2. PICK name \in Seq(Letters), n \in Nat : name = objectName /\ n = Len(name)
  <2>1. objectName \in Seq(Letters)
    BY ValuesAssumption
  <2> QED BY <2>1, LenProperties
<1>3. PICK P : P = NewPattern(prefix, suffix) /\ P = Pattern(target.rules)
  BY <1>1 DEF Pattern
<1>4. P \in Seq(Symbols) /\ Used(P) \in Seq(Symbols)
  <2>1. P \in Seq(Symbols)
    BY <1>3, NewPatternCovers, <1>2
  <2>2. <<Star>> \in Seq(Symbols)
    BY DEF Symbols
  <2> QED BY <2>1, <2>2 DEF Used
<1>5. PICK U \in Seq(Symbols) : U = Used(P)
  BY <1>4
<1>6. /\ MatchSimple(U, name) = "yes" <=> Covers(U, name, 0, n)
      /\ MatchSimple(U, name) = "panic" => Contains(U, AnyOne)
  <2>1. Len(U) \in Nat /\ Len(name) \in Nat
    BY LenProperties
  <2> QED BY <1>2, <2>1, MatchSimpleIs DEF FitsName, Covers
<1>7. Covers(U, name, 0, n) <=> Between(prefix, suffix, name, n)
  BY <1>3, <1>5, NewPatternCovers
<1>8. ASSUME NEW i \in 0 .. n
      PROVE  /\ MatchSimple(prefix, SubSeq(name, 1, i)) = "yes" <=> Covers(prefix, name, 0, i)
             /\ MatchSimple(suffix, SubSeq(name, i + 1, Len(name))) = "yes"
                   <=> Covers(suffix, name, i, n)
  <2>1. ASSUME NEW p \in Seq(Symbols), NEW c \in Nat, NEW d \in Nat, c <= d, d <= n
        PROVE  MatchSimple(p, SubSeq(name, c + 1, d)) = "yes" <=> Covers(p, name, c, d)
    <3>1. Len(p) \in Nat /\ d <= Len(name)
      BY <1>2, <2>1, LenProperties
    <3>2. FitsName(p, SubSeq(name, c + 1, d)) <=> Covers(p, name, c, d)
      BY <2>1, <3>1, CoversPart
    <3>3. Len(SubSeq(name, c + 1, d)) \in Nat
      <4>1. c + 1 \in Int /\ d \in Int /\ \A k \in c + 1 .. d : k \in 1 .. Len(name)
        BY <2>1, <3>1
      <4>2. \A k \in c + 1 .. d : name[k] \in Letters
        BY <4>1, ElementOfSeq
      <4>3. SubSeq(name, c + 1, d) \in Seq(Letters)
        BY <4>1, <4>2, SubSeqProperties
      <4> QED BY <4>3, LenProperties
    <3>4. MatchSimple(p, SubSeq(name, c + 1, d)) = "yes" <=> FitsName(p, SubSeq(name, c + 1, d))
      BY <3>1, <3>3, MatchSimpleIs
    <3> QED BY <3>2, <3>4
  <2>2. 0 \in Nat /\ i \in Nat /\ 0 <= i /\ i <= n /\ n \in Nat /\ n <= n /\ 0 + 1 = 1
    OBVIOUS
  <2>3. MatchSimple(prefix, SubSeq(name, 0 + 1, i)) = "yes" <=> Covers(prefix, name, 0, i)
    BY <2>1, <2>2
  <2>4. MatchSimple(suffix, SubSeq(name, i + 1, n)) = "yes" <=> Covers(suffix, name, i, n)
    BY <2>1, <2>2
  <2> QED BY <1>2, <2>2, <2>3, <2>4
<1>9. Wants(target, objectName) <=> Between(prefix, suffix, name, n)
  <2>1. Wants(target, objectName) <=>
           \E i, j \in 0 .. n : /\ i <= j
                                /\ MatchSimple(prefix, SubSeq(name, 1, i)) = "yes"
                                /\ MatchSimple(suffix, SubSeq(name, j + 1, Len(name))) = "yes"
    BY <1>1, <1>2 DEF Wants
  <2> QED BY <1>8, <2>1 DEF Between
<1>10. Contains(U, AnyOne) => Contains(P, AnyOne)
  <2>1. ~Contains(<<Star>>, AnyOne)
    BY DEF Contains, Star, AnyOne
  <2> QED BY <1>5, <2>1 DEF Used
<1> QED BY <1>2, <1>3, <1>4, <1>5, <1>6, <1>7, <1>9, <1>10

-----------------------------------------------------------------------------
(* Rules, and how many of their resources an event has. *)

RulesIn == UNION {[D -> Seq(Resources)] : D \in SUBSET Seq(Symbols)}

LEMMA RulesInIs ==
  ASSUME NEW rules \in RulesIn
  PROVE  rules \in [DOMAIN rules -> Seq(Resources)] /\ DOMAIN rules \subseteq Seq(Symbols)
BY DEF RulesIn

\* The resources of a pattern.
LEMMA OfIs ==
  ASSUME NEW rules \in RulesIn, NEW pattern
  PROVE  /\ Of(rules, pattern) \in Seq(Resources)
         /\ pattern \notin DOMAIN rules => Of(rules, pattern) = <<>>
         /\ pattern \in DOMAIN rules => Of(rules, pattern) = rules[pattern]
<1>1. <<>> \in Seq(Resources)
  OBVIOUS
<1> QED BY <1>1, RulesInIs DEF Of

\* Rules united are rules, and the resources of a pattern are those of both.
LEMMA UnionType ==
  ASSUME NEW rules \in RulesIn, NEW rules2 \in RulesIn
  PROVE  /\ Union(rules, rules2) \in RulesIn
         /\ DOMAIN Union(rules, rules2) = DOMAIN rules \union DOMAIN rules2
         /\ \A pattern \in DOMAIN rules \union DOMAIN rules2 :
               Union(rules, rules2)[pattern] = Of(rules, pattern) \o Of(rules2, pattern)
<1>1. PICK D : D = DOMAIN rules \union DOMAIN rules2 /\ D \in SUBSET Seq(Symbols)
  BY RulesInIs
<1>2. \A pattern \in D : Of(rules, pattern) \o Of(rules2, pattern) \in Seq(Resources)
  BY OfIs, ConcatProperties
<1>3. Union(rules, rules2) = [pattern \in D |-> Of(rules, pattern) \o Of(rules2, pattern)]
  BY <1>1 DEF Union
<1>4. Union(rules, rules2) \in [D -> Seq(Resources)]
  BY <1>2, <1>3
<1>5. Union(rules, rules2) \in RulesIn
  BY <1>1, <1>4 DEF RulesIn
<1> QED BY <1>1, <1>3, <1>5

\* What is in Places.
LEMMA InPlaces ==
  ASSUME NEW rules \in RulesIn, NEW objectName, NEW resource, NEW x
  PROVE  x \in Places(rules, objectName, resource) <=>
             \E pattern \in DOMAIN rules :
                 /\ MatchSimple(pattern, objectName) = "yes"
                 /\ \E i \in 1 .. Len(Of(rules, pattern)) :
                       x = <<pattern, i>> /\ Of(rules, pattern)[i] = resource
<1>1. \A pattern \in DOMAIN rules :
         Of(rules, pattern) = rules[pattern] /\ DOMAIN rules[pattern] = 1 .. Len(rules[pattern])
  BY OfIs, LenProperties
<1> QED BY <1>1 DEF Places

\* The rules of a pattern that matches have the resource at i.
IsPlace(rules, objectName, resource, pattern, i) ==
    /\ MatchSimple(pattern, objectName) = "yes"
    /\ i \in 1 .. Len(Of(rules, pattern)) /\ Of(rules, pattern)[i] = resource

\* What is in Places, for the proofs that count.
LEMMA IsInPlaces ==
  ASSUME NEW rules \in RulesIn, NEW objectName, NEW resource
  PROVE  /\ \A pattern, i : <<pattern, i>> \in Places(rules, objectName, resource)
                                <=> IsPlace(rules, objectName, resource, pattern, i)
         /\ \A x \in Places(rules, objectName, resource) :
               x = <<x[1], x[2]>> /\ x[2] \in Nat
<1>1. ASSUME NEW pattern, NEW i
      PROVE  <<pattern, i>> \in Places(rules, objectName, resource)
                 <=> IsPlace(rules, objectName, resource, pattern, i)
  <2>1. <<pattern, i>> \in Places(rules, objectName, resource) <=>
            \E p \in DOMAIN rules :
                 /\ MatchSimple(p, objectName) = "yes"
                 /\ \E k \in 1 .. Len(Of(rules, p)) :
                       <<pattern, i>> = <<p, k>> /\ Of(rules, p)[k] = resource
    BY InPlaces
  <2>2. IsPlace(rules, objectName, resource, pattern, i) => pattern \in DOMAIN rules
    <3>1. pattern \notin DOMAIN rules => Len(Of(rules, pattern)) = 0
      BY OfIs, EmptySeq
    <3> QED BY <3>1 DEF IsPlace
  <2> QED BY <2>1, <2>2 DEF IsPlace
<1>2. ASSUME NEW x \in Places(rules, objectName, resource)
      PROVE  x = <<x[1], x[2]>> /\ x[2] \in Nat
  <2>1. PICK p \in DOMAIN rules :
            \E k \in 1 .. Len(Of(rules, p)) : x = <<p, k>> /\ Of(rules, p)[k] = resource
    BY InPlaces
  <2>2. PICK k \in 1 .. Len(Of(rules, p)) : x = <<p, k>>
    BY <2>1
  <2> QED BY <2>2
<1> QED BY <1>1, <1>2

\* What stands in two sequences, one behind the other, stands in the first or in the second.
FromEither(s, t, i, value) ==
    i \in 1 .. Len(s \o t) /\ (s \o t)[i] = value <=>
        \/ i \in 1 .. Len(s) /\ s[i] = value
        \/ \E j \in 1 .. Len(t) : i = j + Len(s) /\ t[j] = value

\* Two sequences of resources, one behind the other.
LEMMA ConcatAt ==
  ASSUME NEW T, NEW s \in Seq(T), NEW t \in Seq(T), NEW i, NEW value
  PROVE  FromEither(s, t, i, value)
<1>0. PICK m \in Nat, n \in Nat : m = Len(s) /\ n = Len(t)
  BY LenProperties
<1>1. PICK r : m = Len(s) /\ n = Len(t) /\ r = s \o t
  BY <1>0
<1>2. Len(r) = m + n /\ \A k \in 1 .. m + n : r[k] = IF k <= m THEN s[k] ELSE t[k - m]
  BY <1>1, ConcatProperties
<1>3. ASSUME i \in 1 .. m + n, r[i] = value
      PROVE  (i \in 1 .. m /\ s[i] = value) \/ \E j \in 1 .. n : i = j + m /\ t[j] = value
  <2>1. CASE i <= m
    BY <1>2, <1>3, <2>1
  <2>2. CASE ~(i <= m)
    <3>1. i - m \in 1 .. n /\ i = (i - m) + m /\ t[i - m] = value
      BY <1>2, <1>3, <2>2
    <3> QED BY <3>1
  <2> QED BY <2>1, <2>2
<1>4. ASSUME i \in 1 .. m, s[i] = value PROVE i \in 1 .. m + n /\ r[i] = value
  BY <1>2, <1>4
<1>5. ASSUME NEW j \in 1 .. n, i = j + m, t[j] = value PROVE i \in 1 .. m + n /\ r[i] = value
  <2>1. i \in 1 .. m + n /\ ~(i <= m) /\ i - m = j
    BY <1>5
  <2> QED BY <1>2, <1>5, <2>1
<1> QED BY <1>1, <1>2, <1>3, <1>4, <1>5 DEF FromEither

\* As many as there are in two sets that share nothing.
LEMMA DisjointSize ==
  ASSUME NEW A, NEW B, IsFiniteSet(A), IsFiniteSet(B), A \intersect B = {}
  PROVE  IsFiniteSet(A \union B) /\ Cardinality(A \union B) = Cardinality(A) + Cardinality(B)
<1>1. Cardinality(A \intersect B) = 0
  BY FS_EmptySet
<1>2. PICK a \in Nat, b \in Nat : a = Cardinality(A) /\ b = Cardinality(B)
  BY FS_CardinalityType
<1>3. /\ IsFiniteSet(A \union B)
      /\ Cardinality(A \union B)
            = Cardinality(A) + Cardinality(B) - Cardinality(A \intersect B)
  BY FS_Union
<1> QED BY <1>1, <1>2, <1>3

\* Nothing is lost and nothing is merged when rules are united.
LEMMA PlacesOfUnion ==
  ASSUME NEW rules \in RulesIn, NEW rules2 \in RulesIn, NEW objectName, NEW resource,
         IsFiniteSet(Places(rules, objectName, resource)),
         IsFiniteSet(Places(rules2, objectName, resource))
  PROVE  /\ IsFiniteSet(Places(Union(rules, rules2), objectName, resource))
         /\ Cardinality(Places(Union(rules, rules2), objectName, resource))
                = Cardinality(Places(rules, objectName, resource))
                      + Cardinality(Places(rules2, objectName, resource))
<1> DEFINE A == Places(rules, objectName, resource)
           B == Places(rules2, objectName, resource)
           C == Places(Union(rules, rules2), objectName, resource)
           f == [x \in B |-> <<x[1], x[2] + Len(Of(rules, x[1]))>>]
           D == {f[x] : x \in B}
<1>1. PICK union \in RulesIn :
          /\ union = Union(rules, rules2)
          /\ DOMAIN union = DOMAIN rules \union DOMAIN rules2
          /\ \A pattern \in DOMAIN rules \union DOMAIN rules2 :
                union[pattern] = Of(rules, pattern) \o Of(rules2, pattern)
  BY UnionType
<1>2. ASSUME NEW pattern
      PROVE  /\ Of(union, pattern) = Of(rules, pattern) \o Of(rules2, pattern)
             /\ Of(rules, pattern) \in Seq(Resources) /\ Of(rules2, pattern) \in Seq(Resources)
  <2>1. Of(rules, pattern) \in Seq(Resources) /\ Of(rules2, pattern) \in Seq(Resources)
    BY OfIs
  <2>2. CASE pattern \in DOMAIN union
    <3>1. Of(union, pattern) = union[pattern]
      BY <2>2, OfIs
    <3> QED BY <1>1, <2>1, <2>2, <3>1
  <2>3. CASE pattern \notin DOMAIN union
    <3>1. Of(union, pattern) = <<>> /\ Of(rules, pattern) = <<>> /\ Of(rules2, pattern) = <<>>
      <4>1. pattern \notin DOMAIN rules /\ pattern \notin DOMAIN rules2
        BY <1>1, <2>3
      <4> QED BY <2>3, <4>1, OfIs
    <3>2. <<>> \o <<>> = <<>>
      BY ConcatEmptySeq, EmptySeq
    <3> QED BY <2>1, <3>1, <3>2
  <2> QED BY <2>2, <2>3
<1>3. /\ \A pattern, i : <<pattern, i>> \in A <=> IsPlace(rules, objectName, resource, pattern, i)
      /\ \A pattern, i : <<pattern, i>> \in B <=> IsPlace(rules2, objectName, resource, pattern, i)
      /\ \A pattern, i : <<pattern, i>> \in C <=> IsPlace(union, objectName, resource, pattern, i)
      /\ \A x \in A : x = <<x[1], x[2]>> /\ x[2] \in Nat
      /\ \A x \in B : x = <<x[1], x[2]>> /\ x[2] \in Nat
      /\ \A x \in C : x = <<x[1], x[2]>> /\ x[2] \in Nat
  BY <1>1, IsInPlaces
<1> HIDE DEF A, B, C
<1>4. ASSUME NEW pattern, NEW i
      PROVE  <<pattern, i>> \in C <=> <<pattern, i>> \in A \/ <<pattern, i>> \in D
  <2>1. PICK s \in Seq(Resources), t \in Seq(Resources), n \in Nat :
            s = Of(rules, pattern) /\ t = Of(rules2, pattern) /\ n = Len(s)
    BY <1>2, LenProperties
  <2>2. <<pattern, i>> \in C <=>
            /\ MatchSimple(pattern, objectName) = "yes"
            /\ i \in 1 .. Len(s \o t) /\ (s \o t)[i] = resource
    <3>1. Of(union, pattern) = s \o t
      BY <1>2, <2>1
    <3>2. <<pattern, i>> \in C <=> IsPlace(union, objectName, resource, pattern, i)
      BY <1>3
    <3> QED BY <3>1, <3>2, Zenon DEF IsPlace
  <2>3. <<pattern, i>> \in A <=>
            /\ MatchSimple(pattern, objectName) = "yes"
            /\ i \in 1 .. Len(s) /\ s[i] = resource
    BY <1>3, <2>1 DEF IsPlace
  <2>4. <<pattern, i>> \in D <=>
            /\ MatchSimple(pattern, objectName) = "yes"
            /\ \E j \in 1 .. Len(t) : i = j + n /\ t[j] = resource
    <3>1. ASSUME <<pattern, i>> \in D
          PROVE  /\ MatchSimple(pattern, objectName) = "yes"
                 /\ \E j \in 1 .. Len(t) : i = j + n /\ t[j] = resource
      <4>1. PICK x \in B : <<pattern, i>> = f[x]
        BY <3>1
      <4>2. x = <<x[1], x[2]>> /\ x[1] = pattern /\ i = x[2] + n
        BY <1>3, <2>1, <4>1
      <4>3. IsPlace(rules2, objectName, resource, pattern, x[2])
        BY <1>3, <4>2
      <4> QED BY <2>1, <4>2, <4>3 DEF IsPlace
    <3>2. ASSUME MatchSimple(pattern, objectName) = "yes",
                 NEW j \in 1 .. Len(t), i = j + n, t[j] = resource
          PROVE  <<pattern, i>> \in D
      <4>1. IsPlace(rules2, objectName, resource, pattern, j)
        BY <2>1, <3>2 DEF IsPlace
      <4>2. PICK x \in B : x = <<pattern, j>>
        BY <1>3, <4>1
      <4>3. f[x] = <<pattern, i>>
        BY <2>1, <3>2, <4>2
      <4> QED BY <4>3
    <3> QED BY <3>1, <3>2
  <2>5. i \in 1 .. Len(s \o t) /\ (s \o t)[i] = resource <=>
             \/ i \in 1 .. Len(s) /\ s[i] = resource
             \/ \E j \in 1 .. Len(t) : i = j + Len(s) /\ t[j] = resource
    <3>1. s \in Seq(Resources) /\ t \in Seq(Resources)
      BY <2>1
    <3>2. FromEither(s, t, i, resource)
      BY ONLY <3>1, ConcatAt
    <3> QED BY ONLY <3>2 DEF FromEither
  <2> QED BY <2>1, <2>2, <2>3, <2>4, <2>5
<1>5. \A x \in D : x = <<x[1], x[2]>>
  OBVIOUS
<1>6. C = A \union D
  <2> HIDE DEF D
  <2>1. ASSUME NEW x \in C PROVE x \in A \union D
    BY <1>3, <1>4
  <2>2. ASSUME NEW x \in A \union D PROVE x \in C
    BY <1>3, <1>4, <1>5
  <2> QED BY <2>1, <2>2
<1>7. A \intersect D = {}
  <2> SUFFICES ASSUME NEW y \in A, y \in D PROVE FALSE
    OBVIOUS
  <2>1. PICK x \in B : y = <<x[1], x[2] + Len(Of(rules, x[1]))>>
    OBVIOUS
  <2>2. PICK n \in Nat : n = Len(Of(rules, x[1]))
    BY <1>2, LenProperties
  <2>3. y = <<x[1], x[2] + n>>
    BY <2>1, <2>2
  <2>4. x[2] + n \in 1 .. n
    BY <1>3, <2>2, <2>3 DEF IsPlace
  <2>5. x[2] \in 1 .. Len(Of(rules2, x[1]))
    BY <1>3 DEF IsPlace
  <2>6. x[2] \in Nat /\ x[2] > 0
    BY <1>3, <2>5
  <2> QED BY <2>2, <2>4, <2>6
<1>8. IsFiniteSet(D) /\ Cardinality(D) = Cardinality(B)
  <2>1. \A x \in B : Len(Of(rules, x[1])) \in Nat
    BY <1>2, LenProperties
  <2>2. ASSUME NEW x \in B, NEW y \in B, f[x] = f[y] PROVE x = y
    <3>1. x[1] = y[1] /\ x[2] + Len(Of(rules, x[1])) = y[2] + Len(Of(rules, y[1]))
      BY <2>2
    <3>2. x[2] = y[2]
      BY <1>3, <2>1, <3>1
    <3> QED BY <1>3, <3>1, <3>2
  <2>3. f \in Bijection(B, D)
    <3>1. f \in [B -> D]
      OBVIOUS
    <3> HIDE DEF f
    <3> QED BY <2>2, <3>1 DEF Bijection, Injection, Surjection, IsInjective
  <2>4. ExistsBijection(B, D)
    BY <2>3 DEF ExistsBijection
  <2>5. IsFiniteSet(B)
    BY DEF B
  <2> HIDE DEF D
  <2> QED BY <2>4, <2>5, FS_Bijection
<1>9. IsFiniteSet(A)
  BY DEF A
<1>10. IsFiniteSet(A \union D) /\ Cardinality(A \union D) = Cardinality(A) + Cardinality(D)
  <2> HIDE DEF D
  <2> QED BY <1>7, <1>8, <1>9, DisjointSize
<1> QED BY <1>6, <1>8, <1>10 DEF A, B, C

\* No rules have no resource.
LEMMA NoRulesIs ==
  ASSUME NEW objectName, NEW resource
  PROVE  /\ NoRules \in RulesIn /\ DOMAIN NoRules = {}
         /\ NoRulesMap \in [AllNames -> RulesIn]
         /\ IsFiniteSet(Places(NoRules, objectName, resource))
         /\ Cardinality(Places(NoRules, objectName, resource)) = 0
<1>1. DOMAIN <<>> = {} /\ <<>> \in [{} -> Seq(Resources)]
  <2>1. <<>> \in Seq(Seq(Resources)) /\ Len(<<>>) = 0
    BY EmptySeq
  <2>2. <<>> \in [1 .. Len(<<>>) -> Seq(Resources)]
    BY <2>1, LenProperties
  <2>3. 1 .. 0 = {}
    OBVIOUS
  <2>4. <<>> \in [{} -> Seq(Resources)]
    BY <2>1, <2>2, <2>3
  <2> QED BY <2>4
<1>2. NoRules \in RulesIn /\ DOMAIN NoRules = {}
  <2>1. {} \in SUBSET Seq(Symbols)
    OBVIOUS
  <2>2. [{} -> Seq(Resources)] \in {[D -> Seq(Resources)] : D \in SUBSET Seq(Symbols)}
    BY <2>1
  <2> QED BY <1>1, <2>2 DEF NoRules, RulesIn
<1>3. Places(NoRules, objectName, resource) = {}
  BY <1>2 DEF Places
<1>4. NoRulesMap \in [AllNames -> RulesIn]
  BY <1>2 DEF NoRulesMap
<1> QED BY <1>2, <1>3, <1>4, FS_EmptySet

\* One rule has its resource once, if its pattern matches.
LEMMA OneRuleIs ==
  ASSUME NEW pattern \in Seq(Symbols), NEW target \in Resources, NEW objectName, NEW resource
  PROVE  /\ OneRule(pattern, target) \in RulesIn /\ DOMAIN OneRule(pattern, target) = {pattern}
         /\ Places(OneRule(pattern, target), objectName, resource)
               = IF MatchSimple(pattern, objectName) = "yes" /\ target = resource
                 THEN {<<pattern, 1>>} ELSE {}
<1>1. PICK rules : rules = OneRule(pattern, target) /\ rules = [p \in {pattern} |-> <<target>>]
  BY DEF OneRule
<1>2. <<target>> \in Seq(Resources) /\ {pattern} \in SUBSET Seq(Symbols)
  OBVIOUS
<1>3. rules \in [{pattern} -> Seq(Resources)]
  BY <1>1, <1>2
<1>4. rules \in RulesIn /\ DOMAIN rules = {pattern} /\ rules[pattern] = <<target>>
  <2>1. [{pattern} -> Seq(Resources)] \in {[D -> Seq(Resources)] : D \in SUBSET Seq(Symbols)}
    BY <1>2
  <2> QED BY <1>1, <1>3, <2>1 DEF RulesIn
<1>5. ASSUME NEW x
      PROVE  x \in Places(rules, objectName, resource) <=>
                /\ MatchSimple(pattern, objectName) = "yes" /\ target = resource
                /\ x = <<pattern, 1>>
  <2>1. x \in Places(rules, objectName, resource) <=>
             \E p \in DOMAIN rules :
                 /\ MatchSimple(p, objectName) = "yes"
                 /\ \E i \in 1 .. Len(Of(rules, p)) :
                       x = <<p, i>> /\ Of(rules, p)[i] = resource
    BY <1>4, InPlaces
  <2>2. PICK s : s = <<target>> /\ Of(rules, pattern) = s
    BY <1>4 DEF Of
  <2>3. Len(s) = 1 /\ s[1] = target /\ \A i \in 1 .. 1 : i = 1
    BY <2>2
  <2>4. x \in Places(rules, objectName, resource) <=>
             /\ MatchSimple(pattern, objectName) = "yes"
             /\ \E i \in 1 .. Len(s) : x = <<pattern, i>> /\ s[i] = resource
    BY <1>4, <2>1, <2>2
  <2> QED BY <2>3, <2>4
<1> QED BY <1>1, <1>4, <1>5

\* One event name adds the rule of a target once.
LEMMA AddRuleType ==
  ASSUME NEW rules \in RulesIn, NEW pattern \in Seq(Symbols), NEW target \in Resources,
         NEW objectName, NEW resource, IsFiniteSet(Places(rules, objectName, resource)),
         NEW more, more = Union(rules, OneRule(pattern, target))
  PROVE  /\ \A p \in DOMAIN more : p \in DOMAIN rules \/ p = pattern
         /\ IsFiniteSet(Places(more, objectName, resource))
         /\ Cardinality(Places(more, objectName, resource))
               = Cardinality(Places(rules, objectName, resource))
                     + Cardinality(Places(OneRule(pattern, target), objectName, resource))
         /\ Cardinality(Places(OneRule(pattern, target), objectName, resource))
               = IF MatchSimple(pattern, objectName) = "yes" /\ target = resource THEN 1 ELSE 0
<1>0. PICK rule : rule = OneRule(pattern, target)
  OBVIOUS
<1>1. /\ rule \in RulesIn /\ DOMAIN rule = {pattern}
      /\ Places(rule, objectName, resource)
            = IF MatchSimple(pattern, objectName) = "yes" /\ target = resource
              THEN {<<pattern, 1>>} ELSE {}
  BY <1>0, OneRuleIs
<1>2. /\ IsFiniteSet(Places(rule, objectName, resource))
      /\ Cardinality(Places(rule, objectName, resource))
            = IF MatchSimple(pattern, objectName) = "yes" /\ target = resource THEN 1 ELSE 0
  <2>1. IsFiniteSet({<<pattern, 1>>}) /\ Cardinality({<<pattern, 1>>}) = 1
    BY FS_Singleton
  <2>2. IsFiniteSet({}) /\ Cardinality({}) = 0
    BY FS_EmptySet
  <2> QED BY <1>1, <2>1, <2>2
<1>3. more \in RulesIn /\ DOMAIN more = DOMAIN rules \union {pattern}
  BY <1>0, <1>1, UnionType
<1>4. /\ IsFiniteSet(Places(Union(rules, rule), objectName, resource))
      /\ Cardinality(Places(Union(rules, rule), objectName, resource))
            = Cardinality(Places(rules, objectName, resource))
                  + Cardinality(Places(rule, objectName, resource))
  <2>1. IsFiniteSet(Places(rule, objectName, resource)) /\ rule \in RulesIn
    BY <1>1, <1>2
  <2>2. IsFiniteSet(Places(rules, objectName, resource)) /\ rules \in RulesIn
    OBVIOUS
  <2> QED BY ONLY <2>1, <2>2, PlacesOfUnion
<1> QED BY <1>0, <1>2, <1>3, <1>4

\* A rule that matches and is of the resource.
LEMMA AddOne ==
  ASSUME NEW rules \in RulesIn, NEW pattern \in Seq(Symbols), NEW target \in Resources,
         NEW objectName, NEW resource, IsFiniteSet(Places(rules, objectName, resource)),
         NEW more, more = Union(rules, OneRule(pattern, target)),
         MatchSimple(pattern, objectName) = "yes", target = resource
  PROVE  /\ \A p \in DOMAIN more : p \in DOMAIN rules \/ p = pattern
         /\ IsFiniteSet(Places(more, objectName, resource))
         /\ Cardinality(Places(more, objectName, resource))
               = Cardinality(Places(rules, objectName, resource)) + 1
BY AddRuleType

\* A rule that does not match, or is of another resource.
LEMMA AddNone ==
  ASSUME NEW rules \in RulesIn, NEW pattern \in Seq(Symbols), NEW target \in Resources,
         NEW objectName, NEW resource, IsFiniteSet(Places(rules, objectName, resource)),
         NEW more, more = Union(rules, OneRule(pattern, target)),
         ~(MatchSimple(pattern, objectName) = "yes" /\ target = resource)
  PROVE  /\ \A p \in DOMAIN more : p \in DOMAIN rules \/ p = pattern
         /\ IsFiniteSet(Places(more, objectName, resource))
         /\ Cardinality(Places(more, objectName, resource))
               = Cardinality(Places(rules, objectName, resource))
<1>1. Cardinality(Places(rules, objectName, resource)) \in Nat
  BY FS_CardinalityType
<1> QED BY <1>1, AddRuleType

-----------------------------------------------------------------------------
(* The maps that are built name by name, and target by target. *)

WithName(map, eventName, rules) ==
    [name \in AllNames |-> IF name \in Expand(eventName)
                           THEN Union(map[name], rules) ELSE map[name]]

MapsByName(added, eventNames, rules) ==
    /\ added[0] = NoRulesMap
    /\ \A i \in 1 .. Len(eventNames) : added[i] = WithName(added[i - 1], eventNames[i], rules)
    /\ \A i \in 0 .. Len(eventNames) : added[i] \in [AllNames -> RulesIn]

\* NewRulesMap is the last of the maps that grow name by name.
LEMMA AddNamesIs ==
  ASSUME NEW eventNames, Len(eventNames) \in Nat,
         NEW pattern \in Seq(Symbols), NEW target \in Resources
  PROVE  \E added : /\ AddNames(NoRulesMap, eventNames, pattern, target) = added[Len(eventNames)]
                    /\ MapsByName(added, eventNames, OneRule(pattern, target))
<1> DEFINE rules == OneRule(pattern, target)
           AddName(map, eventName) ==
               [name \in AllNames |-> IF name \in Expand(eventName)
                                      THEN Union(map[name], rules) ELSE map[name]]
           Is(f) == f = [i \in 0 .. Len(eventNames) |->
                           IF i = 0 THEN NoRulesMap ELSE AddName(f[i - 1], eventNames[i])]
           added == CHOOSE f : Is(f)
           Maps == [AllNames -> RulesIn]
<1>1. AddNames(NoRulesMap, eventNames, pattern, target) = added[Len(eventNames)]
  BY DEF AddNames
<1>2. rules \in RulesIn
  BY OneRuleIs
<1> HIDE DEF rules
<1>3. ASSUME NEW map \in Maps, NEW eventName PROVE AddName(map, eventName) \in Maps
  <2>1. \A name \in AllNames : map[name] \in RulesIn /\ Union(map[name], rules) \in RulesIn
    BY <1>2, UnionType
  <2> QED BY <2>1
<1>4. PICK n \in Nat : n = Len(eventNames)
  OBVIOUS
<1> DEFINE next == [i \in 1 .. n |-> [map \in Maps |-> AddName(map, eventNames[i])]]
<1> HIDE DEF AddName, Maps
<1>5. NoRulesMap \in Maps /\ next \in [1 .. n -> [Maps -> Maps]]
  <2>1. NoRulesMap \in Maps
    BY NoRulesIs DEF Maps
  <2> QED BY <1>3, <2>1
<1> HIDE DEF next
<1>6. PICK f : IsRecursion(f, n, Maps, NoRulesMap, next)
  BY ONLY <1>5, n \in Nat, Recursion
<1>7. /\ f \in [0 .. n -> Maps] /\ f[0] = NoRulesMap
      /\ \A i \in 1 .. n : f[i] = next[i][f[i - 1]]
  BY <1>6 DEF IsRecursion
<1>8. ASSUME NEW i \in 1 .. n PROVE f[i] = AddName(f[i - 1], eventNames[i])
  <2>1. f[i - 1] \in Maps
    BY <1>7
  <2> QED BY <1>7, <2>1 DEF next
<1>9. Is(f)
  <2>1. f = [i \in 0 .. n |-> f[i]]
    BY <1>7
  <2>2. ASSUME NEW i \in 0 .. n
        PROVE  f[i] = IF i = 0 THEN NoRulesMap ELSE AddName(f[i - 1], eventNames[i])
    <3>1. CASE i = 0
      BY <1>7, <3>1
    <3>2. CASE i # 0
      <4>1. i \in 1 .. n
        BY <3>2
      <4> QED BY <1>8, <3>2, <4>1
    <3> QED BY <3>1, <3>2
  <2> QED BY <1>4, <2>1, <2>2
<1>10. Is(added)
  <2> HIDE DEF Is
  <2> QED BY <1>9
<1> HIDE DEF added
<1>11. \A i \in 0 .. n : added[i] = IF i = 0 THEN NoRulesMap ELSE AddName(added[i - 1], eventNames[i])
  BY <1>4, <1>10
<1>12. added[0] = NoRulesMap
  <2>1. 0 \in 0 .. n
    OBVIOUS
  <2> QED BY <1>11, <2>1
<1>13. \A i \in 1 .. n : added[i] = AddName(added[i - 1], eventNames[i])
  <2>1. \A i \in 1 .. n : i \in 0 .. n /\ i # 0
    OBVIOUS
  <2> QED BY <1>11, <2>1
<1> DEFINE S == {i \in 0 .. n : added[i] \in Maps}
<1>14. 0 \in S
  BY <1>5, <1>12
<1>15. ASSUME NEW i \in 1 .. n, i - 1 \in S PROVE i \in S
  <2>1. added[i - 1] \in Maps /\ i \in 0 .. n
    BY <1>15
  <2> QED BY <1>3, <1>13, <2>1
<1>16. 0 .. n \subseteq S
  <2> HIDE DEF S
  <2> QED BY <1>14, <1>15, UpFrom
<1>17. MapsByName(added, eventNames, rules)
  <2>1. \A i \in 0 .. n : added[i] \in Maps
    BY <1>16
  <2> QED BY <1>4, <1>12, <1>13, <2>1 DEF MapsByName, Maps, AddName, WithName
<1> QED BY <1>1, <1>17 DEF rules

Target == [resource : Resources, events : Seq(ListedNames), rules : RuleLists]

\* The event names of target t that ask for the event.
AskedOf(target, t, resource, name, objectName) ==
    {<<t, k>> : k \in {k \in DOMAIN target.events :
                /\ target.resource = resource
                /\ name \in Expand(target.events[k])
                /\ Wants(target, objectName)}}

\* The rules of a target have its resource once for every event name that asks for the event:
\* the zeros before the names ask for nothing.
LEMMA TargetRulesIs ==
  ASSUME NEW target \in Target, NEW t, NEW name \in EventNames,
         NEW objectName \in ObjectNames, NEW resource
  PROVE  /\ TargetRules(target) \in [AllNames -> RulesIn]
         /\ DOMAIN TargetRules(target)[name] \subseteq {Used(Pattern(target.rules))}
         /\ IsFiniteSet(Places(TargetRules(target)[name], objectName, resource))
         /\ IsFiniteSet(AskedOf(target, t, resource, name, objectName))
         /\ Cardinality(Places(TargetRules(target)[name], objectName, resource))
               = Cardinality(AskedOf(target, t, resource, name, objectName))
<1>1. PICK listed \in Seq(ListedNames), m \in Nat : listed = target.events /\ m = Len(listed)
  BY LenProperties DEF Target
<1>2. PICK U \in Seq(Symbols) : U = Used(Pattern(target.rules))
  <2>1. Pattern(target.rules) \in Seq(Symbols)
    BY FilterIs DEF Target
  <2>2. <<Star>> \in Seq(Symbols)
    BY DEF Symbols
  <2> QED BY <2>1, <2>2 DEF Used
<1>3. PICK wanted \in BOOLEAN :
         /\ wanted <=> MatchSimple(U, objectName) = "yes" /\ target.resource = resource
         /\ wanted <=> Wants(target, objectName) /\ target.resource = resource
  <2>1. MatchSimple(U, objectName) = "yes" <=> Wants(target, objectName)
    BY <1>2, FilterIs DEF Target
  <2> QED BY <2>1
<1>4. PICK names : names = [i \in DOMAIN listed |-> NoName] \o listed
  OBVIOUS
<1>5. Len(names) = m + m /\ \A l \in 1 .. m + m : names[l] = IF l <= m THEN NoName ELSE listed[l - m]
  <2>1. PICK zeros : zeros = [i \in 1 .. m |-> NoName]
    OBVIOUS
  <2>2. zeros \in Seq(ListedNames \union {NoName}) /\ Len(zeros) = m /\ \A i \in 1 .. m : zeros[i] = NoName
    BY <2>1
  <2>3. listed \in Seq(ListedNames \union {NoName})
    OBVIOUS
  <2>4. names = zeros \o listed
    BY <1>1, <1>4, <2>1, LenProperties
  <2>5. /\ Len(zeros \o listed) = Len(zeros) + Len(listed)
        /\ \A l \in 1 .. Len(zeros) + Len(listed) :
              (zeros \o listed)[l] = IF l <= Len(zeros) THEN zeros[l] ELSE listed[l - Len(zeros)]
    BY ONLY <2>2, <2>3, ConcatProperties
  <2> QED BY <1>1, <2>2, <2>4, <2>5
<1>6. PICK n \in Nat : n = m + m /\ n = Len(names)
  BY <1>5
<1>7. TargetRules(target) = AddNames(NoRulesMap, names, U, target.resource)
  BY <1>1, <1>2, <1>4 DEF TargetRules, NewRulesMap, Used
<1>8. PICK added : /\ TargetRules(target) = added[n]
                   /\ MapsByName(added, names, OneRule(U, target.resource))
  <2>1. target.resource \in Resources
    BY DEF Target
  <2> QED BY <1>6, <1>7, <2>1, AddNamesIs
<1>9. /\ added[0] = NoRulesMap
      /\ \A i \in 1 .. n : added[i] = WithName(added[i - 1], names[i], OneRule(U, target.resource))
      /\ \A i \in 0 .. n : added[i] \in [AllNames -> RulesIn]
  BY <1>6, <1>8 DEF MapsByName
<1>10. name \in AllNames /\ name \notin Expand(NoName)
  BY DEF AllNames, EventNames, Accessed, Created, Removed, NoName, Expand
<1> DEFINE A(i) == {<<t, k>> : k \in {k \in 1 .. m : m + k <= i /\ wanted /\ name \in Expand(listed[k])}}
           Size2(i) == Cardinality(Places(added[i][name], objectName, resource))
           Right(i) == /\ DOMAIN added[i][name] \subseteq {U}
                       /\ IsFiniteSet(Places(added[i][name], objectName, resource))
                       /\ IsFiniteSet(A(i))
                       /\ Cardinality(A(i)) = Size2(i)
           S == {i \in 0 .. n : Right(i)}
<1>11. 0 \in S
  <2>1. added[0][name] = NoRules
    BY <1>9, <1>10 DEF NoRulesMap
  <2>2. A(0) = {}
    <3>1. \A k \in 1 .. m : ~(m + k <= 0)
      OBVIOUS
    <3> QED BY <3>1
  <2>3. 0 \in 0 .. n
    OBVIOUS
  <2> HIDE DEF A
  <2> QED BY <2>1, <2>2, <2>3, NoRulesIs, FS_EmptySet
<1>12. ASSUME NEW i \in 1 .. n, i - 1 \in S PROVE i \in S
  <2>1. /\ i \in 0 .. n /\ i - 1 \in 0 .. n /\ Right(i - 1)
        /\ added[i][name] = IF name \in Expand(names[i])
                            THEN Union(added[i - 1][name], OneRule(U, target.resource))
                            ELSE added[i - 1][name]
    <3>1. i \in 0 .. n /\ i - 1 \in 0 .. n
      OBVIOUS
    <3>2. added[i] = WithName(added[i - 1], names[i], OneRule(U, target.resource))
      BY <1>9
    <3> QED BY <1>10, <1>12, <3>1, <3>2 DEF WithName
  <2>2. PICK before \in RulesIn : before = added[i - 1][name]
    <3>1. added[i - 1] \in [AllNames -> RulesIn]
      BY <1>9, <2>1
    <3> QED BY <1>10, <3>1
  <2>3. CASE i <= m
    <3>1. names[i] = NoName
      BY <1>5, <1>6, <2>3
    <3>2. added[i][name] = added[i - 1][name]
      BY <1>10, <2>1, <3>1
    <3>3. A(i) = A(i - 1)
      <4>1. \A k \in 1 .. m : ~(m + k <= i) /\ ~(m + k <= i - 1)
        BY <2>3
      <4> QED BY <4>1
    <3> HIDE DEF A
    <3> QED BY <2>1, <3>2, <3>3
  <2>4. CASE ~(i <= m)
    <3>1. PICK k \in 1 .. m : i = m + k /\ names[i] = listed[k]
      <4>1. i - m \in 1 .. m /\ i = m + (i - m)
        BY <1>6, <2>4
      <4> QED BY <1>5, <1>6, <2>4, <4>1
    <3>2. \A l \in 1 .. m : /\ m + l <= i <=> (m + l <= i - 1 \/ l = k)
                            /\ ~(m + k <= i - 1)
      BY <3>1
    <3>3. <<t, k>> \notin A(i - 1)
      BY <3>2
    <3>4. CASE wanted /\ name \in Expand(listed[k])
      <4>1. A(i) = A(i - 1) \union {<<t, k>>}
        BY <3>2, <3>4
      <4> HIDE DEF A
      <4>2. IsFiniteSet(A(i)) /\ Cardinality(A(i)) = Cardinality(A(i - 1)) + 1
        <5>1. IsFiniteSet(A(i - 1))
          BY <2>1
        <5>2. PICK e, A1 : e = <<t, k>> /\ A1 = A(i - 1)
          OBVIOUS
        <5>3. e \notin A1 /\ IsFiniteSet(A1)
          BY <3>3, <5>1, <5>2
        <5>4. IsFiniteSet(A1 \union {e}) /\ Cardinality(A1 \union {e}) = Cardinality(A1) + 1
          BY ONLY <5>3, FS_AddElement
        <5> QED BY <4>1, <5>2, <5>4
      <4>3. added[i][name] = Union(before, OneRule(U, target.resource))
        BY <2>1, <2>2, <3>1, <3>4
      <4>4. /\ DOMAIN added[i][name] \subseteq {U}
            /\ IsFiniteSet(Places(added[i][name], objectName, resource))
            /\ Size2(i) = Size2(i - 1) + 1
        <5>1. target.resource \in Resources /\ IsFiniteSet(Places(before, objectName, resource))
          BY <2>1, <2>2 DEF Target
        <5>2. MatchSimple(U, objectName) = "yes" /\ target.resource = resource
          BY <1>3, <3>4
        <5>3. /\ \A p \in DOMAIN added[i][name] : p \in DOMAIN before \/ p = U
              /\ IsFiniteSet(Places(added[i][name], objectName, resource))
              /\ Size2(i) = Cardinality(Places(before, objectName, resource)) + 1
          BY <4>3, <5>1, <5>2, AddOne
        <5> QED BY <2>1, <2>2, <4>3, <5>3, <5>2
      <4> QED BY <2>1, <4>2, <4>4
    <3>5. CASE ~(wanted /\ name \in Expand(listed[k]))
      <4>1. A(i) = A(i - 1)
        BY <3>2, <3>5
      <4> HIDE DEF A
      <4>2. CASE name \notin Expand(listed[k])
        <5>1. added[i][name] = added[i - 1][name]
          BY <2>1, <3>1, <4>2
        <5> QED BY <2>1, <4>1, <5>1
      <4>3. CASE name \in Expand(listed[k])
        <5>1. added[i][name] = Union(before, OneRule(U, target.resource))
          BY <2>1, <2>2, <3>1, <4>3
        <5>2. target.resource \in Resources /\ IsFiniteSet(Places(before, objectName, resource))
          BY <2>1, <2>2 DEF Target
        <5>3. ~(MatchSimple(U, objectName) = "yes" /\ target.resource = resource)
          BY <1>3, <3>5, <4>3
        <5>4. /\ \A p \in DOMAIN added[i][name] : p \in DOMAIN before \/ p = U
              /\ IsFiniteSet(Places(added[i][name], objectName, resource))
              /\ Size2(i) = Cardinality(Places(before, objectName, resource))
          BY <5>1, <5>2, <5>3, AddNone
        <5>5. Size2(i) = Size2(i - 1)
          BY <2>2, <5>4, <5>3
        <5>6. /\ DOMAIN added[i][name] \subseteq {U}
              /\ IsFiniteSet(Places(added[i][name], objectName, resource))
          BY <2>1, <2>2, <5>1, <5>4
        <5> QED BY <2>1, <4>1, <5>5, <5>6
      <4> QED BY <4>2, <4>3
    <3> QED BY <3>4, <3>5
  <2> QED BY <2>3, <2>4
<1>13. Right(n)
  <2>1. n \in 0 .. n
    OBVIOUS
  <2> HIDE DEF Right
  <2>2. 0 .. n \subseteq S
    <3> HIDE DEF S
    <3> QED BY <1>11, <1>12, UpFrom
  <2> QED BY <2>1, <2>2
<1>14. A(n) = AskedOf(target, t, resource, name, objectName)
  <2>1. \A k \in 1 .. m : m + k <= n
    BY <1>6
  <2>2. DOMAIN listed = 1 .. m
    BY <1>1, LenProperties
  <2> QED BY <1>1, <1>3, <2>1, <2>2 DEF AskedOf
<1>15. TargetRules(target) \in [AllNames -> RulesIn]
  <2>1. n \in 0 .. n
    OBVIOUS
  <2> QED BY <1>8, <1>9, <2>1
<1> HIDE DEF A
<1> QED BY <1>2, <1>8, <1>13, <1>14, <1>15

MapsByTarget(added, listed) ==
    /\ added[0] = NoRulesMap
    /\ \A i \in 1 .. Len(listed) : added[i] = AddMap(added[i - 1], TargetRules(listed[i]))
    /\ \A i \in 0 .. Len(listed) : added[i] \in [AllNames -> RulesIn]

\* What a target becomes is a map of rules.
LEMMA TargetRulesType ==
  ASSUME NEW target \in Target
  PROVE  TargetRules(target) \in [AllNames -> RulesIn]
<1>1. PICK listed \in Seq(ListedNames), m \in Nat : listed = target.events /\ m = Len(listed)
  BY LenProperties DEF Target
<1>2. PICK names, U : /\ names = [i \in DOMAIN listed |-> NoName] \o listed
                      /\ U = Used(Pattern(target.rules))
  OBVIOUS
<1>3. Len(names) \in Nat
  <2>1. PICK zeros : zeros = [i \in 1 .. m |-> NoName]
    OBVIOUS
  <2>2. zeros \in Seq(ListedNames \union {NoName}) /\ listed \in Seq(ListedNames \union {NoName})
    BY <2>1
  <2>3. names = zeros \o listed
    BY <1>1, <1>2, <2>1, LenProperties
  <2>4. names \in Seq(ListedNames \union {NoName})
    BY <2>2, <2>3, ConcatProperties
  <2> QED BY <2>4, LenProperties
<1>4. U \in Seq(Symbols)
  <2>1. PICK prefix \in Seq(Symbols), suffix \in Seq(Symbols) :
            Pattern(target.rules) = NewPattern(prefix, suffix)
    BY LastValueType DEF Pattern, Target
  <2>2. NewPattern(prefix, suffix) \in Seq(Symbols)
    <3>1. 0 \in Nat
      OBVIOUS
    <3> QED BY <3>1, NewPatternCovers
  <2>3. <<Star>> \in Seq(Symbols)
    BY DEF Symbols
  <2> QED BY <1>2, <2>1, <2>2, <2>3 DEF Used
<1>5. TargetRules(target) = AddNames(NoRulesMap, names, U, target.resource)
  BY <1>1, <1>2 DEF TargetRules, NewRulesMap, Used
<1>6. PICK added : /\ TargetRules(target) = added[Len(names)]
                   /\ MapsByName(added, names, OneRule(U, target.resource))
  <2>1. target.resource \in Resources
    BY DEF Target
  <2> QED BY <1>3, <1>4, <1>5, <2>1, AddNamesIs
<1>7. Len(names) \in 0 .. Len(names)
  BY <1>3
<1> QED BY <1>6, <1>7 DEF MapsByName

\* Config.ToRulesMap is the last of the maps that grow target by target.
LEMMA ToRulesMapIs ==
  ASSUME NEW listed \in Seq(Target)
  PROVE  \E added : ToRulesMap(listed) = added[Len(listed)] /\ MapsByTarget(added, listed)
<1> DEFINE Is(f) == f = [i \in 0 .. Len(listed) |->
                           IF i = 0 THEN NoRulesMap
                           ELSE AddMap(f[i - 1], TargetRules(listed[i]))]
           added == CHOOSE f : Is(f)
           Maps == [AllNames -> RulesIn]
<1>1. ToRulesMap(listed) = added[Len(listed)]
  BY DEF ToRulesMap
<1>2. PICK n \in Nat : n = Len(listed)
  BY LenProperties
<1>3. \A i \in 1 .. n : TargetRules(listed[i]) \in Maps
  <2>1. \A i \in 1 .. n : listed[i] \in Target
    BY <1>2, ElementOfSeq
  <2> QED BY <2>1, TargetRulesType
<1>4. ASSUME NEW map \in Maps, NEW map2 \in Maps PROVE AddMap(map, map2) \in Maps
  <2>1. \A name \in AllNames : map[name] \in RulesIn /\ map2[name] \in RulesIn
    OBVIOUS
  <2>2. \A name \in AllNames : Union(map2[name], map[name]) \in RulesIn
    BY <2>1, UnionType
  <2> QED BY <2>2 DEF AddMap
<1> DEFINE next == [i \in 1 .. n |-> [map \in Maps |-> AddMap(map, TargetRules(listed[i]))]]
<1> HIDE DEF Maps
<1>5. NoRulesMap \in Maps /\ next \in [1 .. n -> [Maps -> Maps]]
  <2>1. NoRulesMap \in Maps
    BY NoRulesIs DEF Maps
  <2> QED BY <1>3, <1>4, <2>1
<1> HIDE DEF next
<1>6. PICK f : IsRecursion(f, n, Maps, NoRulesMap, next)
  BY ONLY <1>5, n \in Nat, Recursion
<1>7. /\ f \in [0 .. n -> Maps] /\ f[0] = NoRulesMap
      /\ \A i \in 1 .. n : f[i] = next[i][f[i - 1]]
  BY <1>6 DEF IsRecursion
<1>8. ASSUME NEW i \in 1 .. n PROVE f[i] = AddMap(f[i - 1], TargetRules(listed[i]))
  <2>1. f[i - 1] \in Maps
    BY <1>7
  <2> QED BY <1>7, <2>1 DEF next
<1>9. Is(f)
  <2>1. f = [i \in 0 .. n |-> f[i]]
    BY <1>7
  <2>2. ASSUME NEW i \in 0 .. n
        PROVE  f[i] = IF i = 0 THEN NoRulesMap ELSE AddMap(f[i - 1], TargetRules(listed[i]))
    <3>1. CASE i = 0
      BY <1>7, <3>1
    <3>2. CASE i # 0
      <4>1. i \in 1 .. n
        BY <3>2
      <4> QED BY <1>8, <3>2, <4>1
    <3> QED BY <3>1, <3>2
  <2> QED BY <1>2, <2>1, <2>2
<1>10. Is(added)
  <2> HIDE DEF Is
  <2> QED BY <1>9
<1> HIDE DEF added
<1>11. \A i \in 0 .. n :
          added[i] = IF i = 0 THEN NoRulesMap ELSE AddMap(added[i - 1], TargetRules(listed[i]))
  BY <1>2, <1>10
<1>12. added[0] = NoRulesMap
  <2>1. 0 \in 0 .. n
    OBVIOUS
  <2> QED BY <1>11, <2>1
<1>13. \A i \in 1 .. n : added[i] = AddMap(added[i - 1], TargetRules(listed[i]))
  <2>1. \A i \in 1 .. n : i \in 0 .. n /\ i # 0
    OBVIOUS
  <2> QED BY <1>11, <2>1
<1> DEFINE S == {i \in 0 .. n : added[i] \in Maps}
<1>14. 0 \in S
  BY <1>5, <1>12
<1>15. ASSUME NEW i \in 1 .. n, i - 1 \in S PROVE i \in S
  <2>1. added[i - 1] \in Maps /\ i \in 0 .. n
    BY <1>15
  <2> QED BY <1>3, <1>4, <1>13, <2>1
<1>16. 0 .. n \subseteq S
  <2> HIDE DEF S
  <2> QED BY <1>14, <1>15, UpFrom
<1>17. MapsByTarget(added, listed)
  <2>1. \A i \in 0 .. n : added[i] \in Maps
    BY <1>16
  <2> QED BY <1>2, <1>12, <1>13, <2>1 DEF MapsByTarget, Maps
<1> QED BY <1>1, <1>17

\* The rules of the first targets have a resource once for every event name of theirs that
\* asks for the event, and their patterns come from these targets.
LEMMA RulesMapIs ==
  ASSUME bucketConfig \in Seq(Target), NEW name \in EventNames, NEW objectName \in ObjectNames,
         NEW resource
  PROVE  /\ \A pattern \in DOMAIN ToRulesMap(bucketConfig)[name] :
               \E i \in DOMAIN bucketConfig : pattern = Used(Pattern(bucketConfig[i].rules))
         /\ Cardinality(Places(ToRulesMap(bucketConfig)[name], objectName, resource))
               = Cardinality(Asked(resource, name, objectName))
<1>1. PICK added : ToRulesMap(bucketConfig) = added[Len(bucketConfig)] /\ MapsByTarget(added, bucketConfig)
  BY ToRulesMapIs
<1>2. PICK n \in Nat : n = Len(bucketConfig) /\ DOMAIN bucketConfig = 1 .. n
  BY LenProperties
<1>3. /\ added[0] = NoRulesMap
      /\ \A i \in 1 .. n : added[i] = AddMap(added[i - 1], TargetRules(bucketConfig[i]))
      /\ \A i \in 0 .. n : added[i] \in [AllNames -> RulesIn]
  BY <1>1, <1>2 DEF MapsByTarget
<1>4. name \in AllNames
  BY DEF AllNames
<1> DEFINE Part(t) == AskedOf(bucketConfig[t], t, resource, name, objectName)
           A(i) == UNION {Part(t) : t \in 1 .. i}
           Size2(i) == Cardinality(Places(added[i][name], objectName, resource))
           Right(i) == /\ \A pattern \in DOMAIN added[i][name] :
                             \E t \in 1 .. i : pattern = Used(Pattern(bucketConfig[t].rules))
                       /\ IsFiniteSet(Places(added[i][name], objectName, resource))
                       /\ IsFiniteSet(A(i))
                       /\ Cardinality(A(i)) = Size2(i)
           S == {i \in 0 .. n : Right(i)}
<1>5. \A t, x : x \in Part(t) => x[1] = t
  BY DEF AskedOf
<1>6. 0 \in S
  <2>1. added[0][name] = NoRules
    BY <1>3, <1>4 DEF NoRulesMap
  <2>2. A(0) = {}
    OBVIOUS
  <2>3. 0 \in 0 .. n
    OBVIOUS
  <2> HIDE DEF A
  <2> QED BY <2>1, <2>2, <2>3, NoRulesIs, FS_EmptySet
<1>7. ASSUME NEW i \in 1 .. n, i - 1 \in S PROVE i \in S
  <2>1. i \in 0 .. n /\ i - 1 \in 0 .. n /\ Right(i - 1)
    BY <1>7
  <2>2. PICK before \in RulesIn, own \in RulesIn :
            before = added[i - 1][name] /\ own = TargetRules(bucketConfig[i])[name]
    <3>1. added[i - 1][name] \in RulesIn
      <4>1. added[i - 1] \in [AllNames -> RulesIn]
        BY <1>3, <2>1
      <4> QED BY <1>4, <4>1
    <3>2. TargetRules(bucketConfig[i])[name] \in RulesIn
      <4>1. bucketConfig[i] \in Target
        BY <1>2, ElementOfSeq
      <4> QED BY <1>4, <4>1, TargetRulesType
    <3> QED BY <3>1, <3>2
  <2>3. added[i][name] = Union(own, before)
    BY <1>3, <1>4, <2>2 DEF AddMap
  <2>4. /\ DOMAIN own \subseteq {Used(Pattern(bucketConfig[i].rules))}
        /\ IsFiniteSet(Places(own, objectName, resource)) /\ IsFiniteSet(Part(i))
        /\ Cardinality(Places(own, objectName, resource)) = Cardinality(Part(i))
    <3>1. bucketConfig[i] \in Target
      BY <1>2, ElementOfSeq
    <3> QED BY <2>2, <3>1, TargetRulesIs
  <2>5. A(i) = A(i - 1) \union Part(i)
    <3>1. \A t : t \in 1 .. i <=> t \in 1 .. i - 1 \/ t = i
      OBVIOUS
    <3> HIDE DEF Part
    <3> QED BY <3>1
  <2>6. A(i - 1) \intersect Part(i) = {}
    <3>1. i \notin 1 .. i - 1
      OBVIOUS
    <3> HIDE DEF Part
    <3> QED BY <1>5, <3>1
  <2> HIDE DEF Part, A
  <2>7. IsFiniteSet(A(i)) /\ Cardinality(A(i)) = Cardinality(A(i - 1)) + Cardinality(Part(i))
    <3>1. IsFiniteSet(A(i - 1))
      BY <2>1
    <3> QED BY ONLY <2>4, <2>5, <2>6, <3>1, DisjointSize
  <2>8. /\ IsFiniteSet(Places(added[i][name], objectName, resource))
        /\ Size2(i) = Cardinality(Places(own, objectName, resource)) + Size2(i - 1)
    <3>1. IsFiniteSet(Places(before, objectName, resource))
      BY <2>1, <2>2
    <3> QED BY <2>2, <2>3, <2>4, <3>1, PlacesOfUnion
  <2>9. Cardinality(Part(i)) \in Nat /\ Cardinality(A(i - 1)) \in Nat
    BY <2>1, <2>4, FS_CardinalityType
  <2>10. Cardinality(A(i)) = Size2(i)
    BY <2>1, <2>4, <2>7, <2>8, <2>9
  <2>11. ASSUME NEW pattern \in DOMAIN added[i][name]
         PROVE  \E t \in 1 .. i : pattern = Used(Pattern(bucketConfig[t].rules))
    <3>1. DOMAIN Union(own, before) = DOMAIN own \union DOMAIN before
      BY UnionType
    <3>2. pattern \in DOMAIN own \/ pattern \in DOMAIN before
      BY <2>3, <3>1
    <3>3. i \in 1 .. i /\ \A t \in 1 .. i - 1 : t \in 1 .. i
      OBVIOUS
    <3> QED BY <2>1, <2>2, <2>4, <3>2, <3>3
  <2> QED BY <2>1, <2>7, <2>8, <2>10, <2>11
<1>8. Right(n)
  <2>1. n \in 0 .. n
    OBVIOUS
  <2> HIDE DEF Right
  <2>2. 0 .. n \subseteq S
    <3> HIDE DEF S
    <3> QED BY <1>6, <1>7, UpFrom
  <2> QED BY <2>1, <2>2
<1>9. A(n) = Asked(resource, name, objectName)
  BY <1>2 DEF AskedOf, Asked
<1> HIDE DEF A
<1> QED BY <1>1, <1>2, <1>8, <1>9

-----------------------------------------------------------------------------
(* The configurations that a PUT can store. *)

RulesTyped == bucketConfig \in Seq(Target)

\* A stored configuration has targets with listed names and values.
LEMMA TypeHolds == RulesSpec => []RulesTyped
<1>1. RulesInit => RulesTyped
  BY DEF RulesInit, RulesTyped
<1>2. RulesTyped /\ [RulesNext]_bucketConfig => RulesTyped'
  <2> SUFFICES ASSUME RulesTyped, [RulesNext]_bucketConfig PROVE RulesTyped'
    OBVIOUS
  <2>1. CASE UNCHANGED bucketConfig
    BY <2>1 DEF RulesTyped
  <2>2. ASSUME NEW resource \in Resources, AddTarget(resource) PROVE RulesTyped'
    <3>1. <<>> \in Seq(ListedNames) /\ <<>> \in RuleLists
      BY DEF RuleLists
    <3>2. [resource |-> resource, events |-> <<>>, rules |-> <<>>] \in Target
      BY <3>1 DEF Target
    <3> QED BY <2>2, <3>2, AppendProperties DEF RulesTyped, AddTarget
  <2>3. ASSUME NEW i \in DOMAIN bucketConfig, NEW target \in Target, Changed(i, target) PROVE RulesTyped'
    <3>1. PICK n \in Nat : bucketConfig \in [1 .. n -> Target] /\ i \in 1 .. n
      BY LenProperties DEF RulesTyped
    <3>2. bucketConfig' \in [1 .. n -> Target]
      BY <2>3, <3>1 DEF Changed
    <3> QED BY <3>2, SeqDef DEF RulesTyped
  <2>4. ASSUME NEW i \in DOMAIN bucketConfig, NEW name \in ListedNames, AddEvent(i, name) PROVE RulesTyped'
    <3>1. bucketConfig[i] \in Target
      BY LenProperties, ElementOfSeq DEF RulesTyped
    <3>2. Append(bucketConfig[i].events, name) \in Seq(ListedNames)
      BY <3>1, AppendProperties DEF Target
    <3>3. [bucketConfig[i] EXCEPT !.events = Append(@, name)] \in Target
      BY <3>1, <3>2 DEF Target
    <3> QED BY <2>3, <2>4, <3>3 DEF AddEvent
  <2>5. ASSUME NEW i \in DOMAIN bucketConfig, NEW rule \in [name : RuleNames, value : Values],
               AddRule(i, rule)
        PROVE  RulesTyped'
    <3>1. bucketConfig[i] \in Target
      BY LenProperties, ElementOfSeq DEF RulesTyped
    <3>2. Append(bucketConfig[i].rules, rule) \in RuleLists
      BY <3>1, AppendProperties DEF Target, RuleLists
    <3>3. [bucketConfig[i] EXCEPT !.rules = Append(@, rule)] \in Target
      BY <3>1, <3>2 DEF Target
    <3> QED BY <2>3, <2>5, <3>3 DEF AddRule
  <2> QED BY <2>1, <2>2, <2>4, <2>5 DEF RulesNext
<1> QED BY <1>1, <1>2, PTL DEF RulesSpec

\* DeliveriesAreAsked: whatever targets, event names, filters and objects there are, the
\* merged rules of a bucket (ToRulesMap, Union, Match) reach each resource as often as its
\* targets ask for the event, unless a filter with AnyOne makes Match panic.
THEOREM DeliveriesHold == RulesSpec => []DeliveriesAreAsked
<1>1. ASSUME RulesTyped PROVE DeliveriesAreAsked
  <2>1. ASSUME NEW name \in EventNames, NEW objectName \in ObjectNames,
               Panics(ToRulesMap(bucketConfig)[name], objectName)
        PROVE  \E target \in ToSet(bucketConfig) : Contains(Pattern(target.rules), AnyOne)
    <3>1. PICK pattern \in DOMAIN ToRulesMap(bucketConfig)[name] :
              MatchSimple(pattern, objectName) = "panic"
      BY <2>1 DEF Panics
    <3>2. PICK i \in DOMAIN bucketConfig : pattern = Used(Pattern(bucketConfig[i].rules))
      BY <1>1, <3>1, RulesMapIs DEF RulesTyped
    <3>3. bucketConfig[i] \in Target
      BY <1>1, LenProperties, ElementOfSeq DEF RulesTyped
    <3>4. Contains(Pattern(bucketConfig[i].rules), AnyOne)
      BY <3>1, <3>2, <3>3, FilterIs DEF Target
    <3>5. bucketConfig[i] \in ToSet(bucketConfig)
      BY DEF ToSet
    <3> QED BY <3>4, <3>5
  <2>2. ASSUME NEW name \in EventNames, NEW objectName \in ObjectNames, NEW resource \in Resources
        PROVE  Match(ToRulesMap(bucketConfig)[name], objectName)[resource]
                   = Cardinality(Asked(resource, name, objectName))
    <3>1. Match(ToRulesMap(bucketConfig)[name], objectName)[resource]
             = Cardinality(Places(ToRulesMap(bucketConfig)[name], objectName, resource))
      BY DEF Match
    <3>2. bucketConfig \in Seq(Target)
      BY <1>1 DEF RulesTyped
    <3> QED BY <3>1, <3>2, RulesMapIs
  <2> QED BY <2>1, <2>2 DEF DeliveriesAreAsked
<1> QED BY <1>1, TypeHolds, PTL
=============================================================================
