----------------------------- MODULE EventRules -----------------------------
(***************************************************************************)
(* Which resources an event reaches (pkg/models/configuration.go): the     *)
(* filter of a queue or a topic becomes a pattern, its event names are     *)
(* expanded, all targets of a bucket become one map from event names to    *)
(* rules, and sendEvent matches the object name against it.                *)
(*                                                                         *)
(* Object names are sequences of Letters, and patterns have Star and AnyOne*)
(* too.  A target is a queue or a topic: ToRulesMap is the same text for   *)
(* both.                                                                   *)
(* The behaviours of this module build all configurations up to MaxSize,   *)
(* and the invariants compare the map with what the targets ask for.       *)
(***************************************************************************)
EXTENDS Integers, Sequences, FiniteSets, SequencesExt

CONSTANTS Resources,
          Letters,
          ListedNames,        \* the event names that targets list
          Values,       \* the values of prefix and suffix rules
          ObjectNames,  \* the objects that events are about
          MaxSize       \* bound: targets, event names and rules altogether

Star == "*"
AnyOne == "?"

ASSUME LettersAssumption == Letters \intersect {Star, AnyOne} = {}
ASSUME ValuesAssumption == /\ Values \subseteq Seq(Letters \union {Star, AnyOne})
                           /\ ObjectNames \subseteq Seq(Letters)

VARIABLE bucketConfig   \* the targets of one bucket

-----------------------------------------------------------------------------
(* minio's event names and its wildcard. *)

Accessed == {"Get", "Head"}
Created == {"CompleteMultipartUpload", "Copy", "Post", "Put"}
Removed == {"Delete"}
EventNames == Accessed \union Created \union Removed \* what can happen
Abbreviations == {"Accessed*", "Created*", "Removed*"}
NoName == ""   \* the zero value of event.Name

ASSUME NamesAssumption == ListedNames \subseteq EventNames \union Abbreviations

\* event.Name.Expand.
Expand(name) == CASE name = "Accessed*" -> Accessed
                  [] name = "Created*" -> Created
                  [] name = "Removed*" -> Removed
                  [] OTHER -> {name}

\* wildcard.MatchSimple: m[<<i, j>>] tells whether the last i symbols of the pattern
\* match the last j letters of the name.  AnyOne stands for a letter here too, and when
\* there is none left the code panics: it cuts the first letter off an empty slice.
MatchSimple(pattern, name) ==
    LET m[left \in (0 .. Len(pattern)) \X (0 .. Len(name))] ==
            LET i == left[1]
                j == left[2]
                symbol == pattern[Len(pattern) - i + 1]
            IN  IF i = 0 THEN IF j = 0 THEN "yes" ELSE "no"
                ELSE CASE symbol = Star -> IF m[<<i - 1, j>>] = "no" /\ j > 0
                                           THEN m[<<i, j - 1>>] ELSE m[<<i - 1, j>>]
                       [] symbol = AnyOne -> IF j = 0 THEN "panic" ELSE m[<<i - 1, j - 1>>]
                       [] OTHER -> IF j > 0 /\ name[Len(name) - j + 1] = symbol
                                   THEN m[<<i - 1, j - 1>>] ELSE "no"
    IN  m[<<Len(pattern), Len(name)>>]

-----------------------------------------------------------------------------
(* Filters. *)

\* strings.Replace(pattern, "**", "*", -1): of k stars in a row every second goes.
ReplaceDoubled(pattern) ==
    LET StarsUpTo(i) == Cardinality({k \in 1 .. i :
                            \A n \in k .. i : pattern[n] = Star})
        kept[i \in 0 .. Len(pattern)] ==
            IF i = 0 THEN <<>>
            ELSE IF StarsUpTo(i) > 0 /\ StarsUpTo(i) % 2 = 0
                 THEN kept[i - 1] ELSE Append(kept[i - 1], pattern[i])
    IN  kept[Len(pattern)]

\* The star between prefix and suffix, unless they bring one.
OpenEnded(prefix) ==
    IF prefix = <<>> \/ Last(prefix) = Star THEN prefix ELSE Append(prefix, Star)
OpenStart(suffix) ==
    IF suffix = <<>> \/ Head(suffix) = Star THEN suffix ELSE <<Star>> \o suffix

NewPattern(prefix, suffix) ==
    ReplaceDoubled(OpenEnded(prefix) \o OpenStart(suffix))

\* The value of the last rule of that name; rules of other names are ignored.
LastValue(rules, name) ==
    LET Is(rule) == rule.name = name
        i == SelectLastInSeq(rules, Is)
    IN  IF i = 0 THEN <<>> ELSE rules[i].value

Pattern(rules) == NewPattern(LastValue(rules, "prefix"), LastValue(rules, "suffix"))

-----------------------------------------------------------------------------
(* Rules: a function from patterns to sequences of resources.  A map has   *)
(* rules for every name; a name that is not a key has none.                *)

AllNames == EventNames \union {NoName}
NoRules == <<>>
NoRulesMap == [name \in AllNames |-> NoRules]

Of(rules, pattern) == IF pattern \in DOMAIN rules THEN rules[pattern] ELSE <<>>

\* Variant: a pattern that both have is taken from the second.
UnionOverrides(rules, rules2) == rules2 @@ rules

Union(rules, rules2) == [pattern \in DOMAIN rules \union DOMAIN rules2 |->
                            Of(rules, pattern) \o Of(rules2, pattern)]

OneRule(pattern, resource) == [only \in {pattern} |-> <<resource>>]

\* add: each name of the expansion of each event name gets the rule.
AddNames(rulesMap, eventNames, pattern, resource) ==
    LET rules == OneRule(pattern, resource)
        AddName(map, eventName) ==
            [name \in AllNames |-> IF name \in Expand(eventName)
                                   THEN Union(map[name], rules) ELSE map[name]]
        added[i \in 0 .. Len(eventNames)] ==
            IF i = 0 THEN rulesMap ELSE AddName(added[i - 1], eventNames[i])
    IN  added[Len(eventNames)]

\* Add.
AddMap(rulesMap, rulesMap2) ==
    [name \in AllNames |-> Union(rulesMap2[name], rulesMap[name])]

NewRulesMap(eventNames, pattern, resource) ==
    AddNames(NoRulesMap, eventNames,
             IF pattern = <<>> THEN <<Star>> ELSE pattern, resource)

\* Queue.ToRulesMap and Topic.ToRulesMap: the names are appended to as many zeros.
TargetRules(target) ==
    NewRulesMap([i \in DOMAIN target.events |-> NoName] \o target.events,
                Pattern(target.rules), target.resource)

\* Config.ToRulesMap.
ToRulesMap(targets) ==
    LET added[i \in 0 .. Len(targets)] ==
            IF i = 0 THEN NoRulesMap ELSE AddMap(added[i - 1], TargetRules(targets[i]))
    IN  added[Len(targets)]

\* A panic in Match takes sendEvent with it, before anything is sent.
Panics(rules, objectName) ==
    \E pattern \in DOMAIN rules : MatchSimple(pattern, objectName) = "panic"

\* Where the patterns that match have a resource.
Places(rules, objectName, resource) ==
    UNION {{<<pattern, i>> : i \in {i \in DOMAIN rules[pattern] : rules[pattern][i] = resource}} :
           pattern \in {pattern \in DOMAIN rules : MatchSimple(pattern, objectName) = "yes"}}

\* Match: how often each resource is in the result, whose order is that of a Go
\* map and not defined.
Match(rules, objectName) ==
    [resource \in Resources |-> Cardinality(Places(rules, objectName, resource))]

-----------------------------------------------------------------------------
(* The configurations a PUT can store. *)

RuleNames == {"prefix", "suffix", "other"}
Size == Len(bucketConfig) + FoldLeft(LAMBDA n, t : n + Len(t.events) + Len(t.rules), 0, bucketConfig)

RulesInit == bucketConfig = <<>>

Changed(i, target) == bucketConfig' = [bucketConfig EXCEPT ![i] = target]

AddTarget(resource) ==
    bucketConfig' = Append(bucketConfig, [resource |-> resource, events |-> <<>>, rules |-> <<>>])

AddEvent(i, name) == Changed(i, [bucketConfig[i] EXCEPT !.events = Append(@, name)])

AddRule(i, rule) == Changed(i, [bucketConfig[i] EXCEPT !.rules = Append(@, rule)])

RulesNext ==
    /\ Size < MaxSize
    /\ \/ \E resource \in Resources : AddTarget(resource)
       \/ \E i \in DOMAIN bucketConfig :
              \/ \E name \in ListedNames : AddEvent(i, name)
              \/ \E rule \in [name : RuleNames, value : Values] : AddRule(i, rule)

RulesSpec == RulesInit /\ [][RulesNext]_bucketConfig

-----------------------------------------------------------------------------
(* Properties. *)

\* The object name is what the prefix stands for, anything, and what the suffix
\* stands for, one after the other: prefix and suffix do not share letters.
Wants(target, objectName) ==
    \E i, j \in 0 .. Len(objectName) :
        /\ i <= j
        /\ MatchSimple(LastValue(target.rules, "prefix"),
                       SubSeq(objectName, 1, i)) = "yes"
        /\ MatchSimple(LastValue(target.rules, "suffix"),
                       SubSeq(objectName, j + 1, Len(objectName))) = "yes"

\* The event names of the targets of a resource that ask for the event.
Asked(resource, name, objectName) ==
    UNION {{<<i, k>> : k \in {k \in DOMAIN bucketConfig[i].events :
                /\ bucketConfig[i].resource = resource
                /\ name \in Expand(bucketConfig[i].events[k])
                /\ Wants(bucketConfig[i], objectName)}} : i \in DOMAIN bucketConfig}

\* A resource is in the result of Match once for every event name, of any of its
\* targets, that covers the event, if the filter of that target lets the object
\* through: nothing is lost when rules of several targets are merged, and overlapping
\* names are not merged (ToRulesMap, Union, Match).  Only a filter with AnyOne spoils that.
DeliveriesAreAsked ==
    LET rulesMap == ToRulesMap(bucketConfig) IN
    \A name \in EventNames, objectName \in ObjectNames :
        IF Panics(rulesMap[name], objectName)
        THEN \E target \in ToSet(bucketConfig) :
                Contains(Pattern(target.rules), AnyOne)
        ELSE \A resource \in Resources :
                Match(rulesMap[name], objectName)[resource]
                    = Cardinality(Asked(resource, name, objectName))
=============================================================================
