------------------------------- MODULE Validation ------------------------------
(***************************************************************************)
(* What the core takes for well-formed: the request validator of           *)
(* src/router/validator.rs, the metadata parser of src/module/parser.rs,   *)
(* and the event patterns of src/router/event_bus.rs and event.rs.  Each   *)
(* has a grammar of its own for names that meet elsewhere.  A name is a    *)
(* sequence of characters, of which one stands for its class; it is typed  *)
(* character by character, so that every name up to a length is looked at. *)
(***************************************************************************)
EXTENDS Integers, Sequences, FiniteSets, SequencesExt

CONSTANTS MaxNameLength,   \* bound on what is typed
          MaxIdLength, MaxSenderLength, MaxActionLength,
          PastDrift, FutureDrift,
          SampleNames,     \* fields of the requests and metadata that are looked at
          Ages,            \* how old a request may be
          RequiredLists,   \* permissions that an action may need
          OwnedSets,       \* and that a sender may have
          EventPatterns

ASSUME ValidationAssumption ==
    /\ PastDrift \in Nat /\ FutureDrift \in Nat /\ Ages \subseteq Int
    /\ \A required \in RequiredLists : required \in Seq(ToSet(required))

VARIABLES name,     \* what has been typed
          checked   \* the request or the metadata that was looked at last, and what was said

validationVars == <<name, checked>>

Lower == {"a", "b"}
Upper == {"A"}
Digits == {"1"}
Characters == Lower \cup Upper \cup Digits \cup {"-", "_", ".", "*", " "}

Over(s, allowed) == \A i \in 1..Len(s) : s[i] \in allowed
Word(s, first, rest) == s # <<>> /\ s[1] \in first /\ Over(s, rest)

--------------------------------------------------------------------------------
(* The request validator.                                                  *)

\* ACTION_REGEX.
Requestable(s) ==
    \E d \in 1..Len(s) :
        /\ s[d] = "."
        /\ Word(SubSeq(s, 1, d - 1), Lower, Lower \cup Digits \cup {"-"})
        /\ Word(SubSeq(s, d + 1, Len(s)), Lower, Lower \cup Digits \cup {"_"})

\* At the first dot.
ParseAction(s) ==
    LET d == CHOOSE d \in 1..Len(s) : s[d] = "." /\ \A e \in 1..(d - 1) : s[e] # "."
    IN  <<SubSeq(s, 1, d - 1), SubSeq(s, d + 1, Len(s))>>

Plain == Lower \cup Upper \cup Digits \cup {"-", "_"}

If(condition, error) == IF condition THEN <<error>> ELSE <<>>

PlainNameErrors(field, s, limit) ==
    IF s = <<>> THEN <<[field |-> field, code |-> "empty"]>>
    ELSE If(Len(s) > limit, [field |-> field, code |-> "range"])
         \o If(~Over(s, Plain), [field |-> field, code |-> "format"])

ActionErrors(s) ==
    IF s = <<>> THEN <<[field |-> "action", code |-> "empty"]>>
    ELSE IF Len(s) > MaxActionLength THEN <<[field |-> "action", code |-> "range"]>>
    ELSE If(~Requestable(s), [field |-> "action", code |-> "format"])

TimestampErrors(age) ==
    If(age > PastDrift \/ age < -FutureDrift, [field |-> "timestamp", code |-> "range"])

\* Mutant: nothing is said of an action once the names before it are wrong.
ErrorsToAction(r) ==
    LET names == PlainNameErrors("request_id", r.id, MaxIdLength)
                 \o PlainNameErrors("sender", r.sender, MaxSenderLength)
    IN  IF names # <<>> THEN names \o TimestampErrors(r.age)
        ELSE ActionErrors(r.action) \o TimestampErrors(r.age)

FormatErrors(r) ==
    PlainNameErrors("request_id", r.id, MaxIdLength)
    \o PlainNameErrors("sender", r.sender, MaxSenderLength)
    \o ActionErrors(r.action)
    \o TimestampErrors(r.age)

\* One for each missing entry of the list; permissions are compared as they are.
PermissionErrors(required, owned) ==
    FoldLeft(LAMBDA missing, p : IF p \in owned THEN missing ELSE Append(missing, p), <<>>, required)

ValidateRequest(r, required, owned) ==
    IF FormatErrors(r) # <<>> THEN [kind |-> "invalid", errors |-> FormatErrors(r)]
    ELSE IF PermissionErrors(required, owned) # <<>>
         THEN [kind |-> "denied", errors |-> PermissionErrors(required, owned)]
         ELSE [kind |-> "ok", errors |-> <<>>]

--------------------------------------------------------------------------------
(* The metadata parser.                                                    *)
Letters == Lower \cup Upper
Identifier(s) == Word(s, Letters \cup {"_"}, Letters \cup Digits \cup {"_"})

IsModuleId(s) == Word(s, Letters, Letters \cup Digits \cup {"_", "-"})

\* split('.') has a part before, between and after each two dots.
Dots(s) == {d \in 1..Len(s) : s[d] = "."}
PartAfter(s, d) ==
    LET rest == {e \in Dots(s) : e > d}
    IN  SubSeq(s, d + 1, IF rest = {} THEN Len(s) ELSE (CHOOSE e \in rest : \A f \in rest : e <= f) - 1)
PartStarts(s) == {0} \cup Dots(s)

Declarable(s) == s # <<>> /\ \A d \in PartStarts(s) : Identifier(PartAfter(s, d))

IsPermission(s) ==
    /\ s # <<>> /\ Cardinality(Dots(s)) <= 1
    /\ \A d \in PartStarts(s) : Identifier(PartAfter(s, d)) \/ (d # 0 /\ PartAfter(s, d) = <<"*">>)

Versions == {"empty", "parses", "garbled"}
VersionErrors(v, where) == If(v # "parses", where)

\* ModuleParser::validate; "empty" as the least core version stands for none being given.
ParserErrors(md) ==
    If(~IsModuleId(md.id), "id") \o If(md.title = <<>>, "name") \o VersionErrors(md.version, "version")
    \o If(md.entry = <<>>, "entry") \o If(md.needsId = <<>>, "dependency id")
    \o VersionErrors(md.needs, "dependency") \o If(~IsPermission(md.requested), "permission")
    \o If(md.minCore = "garbled", "min core") \o If(~Declarable(md.provides), "provides")

\* ModuleMetadata::validate, which asks less.
MetadataErrors(md) ==
    If(md.id = <<>>, "id") \o If(md.title = <<>>, "name") \o VersionErrors(md.version, "version")
    \o If(md.entry = <<>>, "entry") \o VersionErrors(md.needs, "dependency")

--------------------------------------------------------------------------------
(* Event patterns.                                                         *)
Stem(p) == SubSeq(p, 1, Len(p) - 2)
IsFamily(p) == IsSuffix(<<".", "*">>, p)

BusMatches(p, s) ==
    \/ p = <<"*">>
    \/ IsFamily(p) /\ IsPrefix(Stem(p), s) /\ Len(s) > Len(Stem(p))
    \/ p = s

FilterMatches(p, s) ==
    \/ p = <<"*">>
    \/ IsFamily(p) /\ IsPrefix(Stem(p), s)
    \/ p = s

--------------------------------------------------------------------------------
ValidationInit == name = <<>> /\ checked = [what |-> "nothing"]

Type(c) ==
    /\ checked.what = "nothing" /\ Len(name) < MaxNameLength
    /\ name' = Append(name, c) /\ UNCHANGED checked

CheckRequest ==
    /\ name = <<>> /\ checked.what = "nothing"
    /\ \E id, s, a \in SampleNames, age \in Ages, required \in RequiredLists, owned \in OwnedSets :
          LET r == [id |-> id, sender |-> s, action |-> a, age |-> age]
          IN  checked' = [what |-> "request", request |-> r, required |-> required,
                          owned |-> owned, said |-> ValidateRequest(r, required, owned)]
    /\ UNCHANGED name

CheckMetadata ==
    /\ name = <<>> /\ checked.what = "nothing"
    /\ \E id, t \in SampleNames, q, a \in SampleNames \ {<<>>}, v, w, c \in Versions, e \in {<<>>, <<"a">>} :
          LET md == [id |-> id, title |-> t, version |-> v, entry |-> e, needsId |-> e, needs |-> w,
                     requested |-> q, minCore |-> c, provides |-> a]
          IN  checked' = [what |-> "metadata", metadata |-> md, said |-> ParserErrors(md)]
    /\ UNCHANGED name

ValidationNext == (\E c \in Characters : Type(c)) \/ CheckRequest \/ CheckMetadata
ValidationSpec == ValidationInit /\ [][ValidationNext]_validationVars

--------------------------------------------------------------------------------
\* parse_action splits an action that the validator lets through at its only dot, into a
\* namespace and an action neither of which is empty, and which make up the whole.
ActionsSplitOnce ==
    Requestable(name) =>
        LET parts == ParseAction(name) IN
        /\ Cardinality(Dots(name)) = 1
        /\ parts[1] # <<>> /\ parts[2] # <<>>
        /\ name = parts[1] \o <<".">> \o parts[2]

\* The actions that a module may declare and the actions that a request may name are two
\* sets: what is in both has two parts, of small letters and digits, and underscores in the
\* second.  A module may declare others, which no request reaches.
CallableInBoth ==
    (Requestable(name) /\ Declarable(name)) <=>
        \E d \in 1..Len(name) :
            /\ name[d] = "."
            /\ Word(SubSeq(name, 1, d - 1), Lower, Lower \cup Digits)
            /\ Word(SubSeq(name, d + 1, Len(name)), Lower, Lower \cup Digits \cup {"_"})

\* Whatever the parser takes for a module's id, its module may send requests under, unless
\* it is too long.
ModulesMaySend ==
    IsModuleId(name) =>
        \A i \in 1..Len(PlainNameErrors("sender", name, MaxSenderLength)) :
            PlainNameErrors("sender", name, MaxSenderLength)[i].code = "range"

\* A filter on the pattern of its own subscription keeps nothing back, though bus and filter
\* each have their own way of matching.
FilterOfOwnPatternKeepsAll ==
    \A p \in EventPatterns : BusMatches(p, name) => FilterMatches(p, name)

\* A request is refused for its form iff a field is wrong, each wrong field is named, none
\* twice but with another code; permissions are looked at last, and those that lack are named.
EveryFaultNamed ==
    checked.what = "request" =>
        LET r == checked.request
            errors == checked.said.errors
            Wrong == {f \in {"request_id", "sender", "action", "timestamp"} :
                        CASE f = "request_id" -> r.id = <<>> \/ Len(r.id) > MaxIdLength \/ ~Over(r.id, Plain)
                          [] f = "sender" -> r.sender = <<>> \/ Len(r.sender) > MaxSenderLength
                                             \/ ~Over(r.sender, Plain)
                          [] f = "action" -> Len(r.action) > MaxActionLength \/ ~Requestable(r.action)
                          [] OTHER -> r.age \notin (-FutureDrift)..PastDrift}
        IN  CASE checked.said.kind = "invalid" ->
                    /\ Wrong # {} /\ {errors[i].field : i \in 1..Len(errors)} = Wrong
                    /\ IsInjective(errors)
              [] checked.said.kind = "denied" ->
                    /\ Wrong = {}
                    /\ ToSet(errors) = ToSet(checked.required) \ checked.owned
              [] OTHER -> Wrong = {} /\ ToSet(checked.required) \subseteq checked.owned

\* What the parser lets through, the metadata's own check lets through.
ParserIsStricter ==
    (checked.what = "metadata" /\ checked.said = <<>>) => MetadataErrors(checked.metadata) = <<>>

\* What one grammar takes, the next one that meets it makes sense of.
GrammarsAgree ==
    /\ ActionsSplitOnce /\ CallableInBoth /\ ModulesMaySend /\ FilterOfOwnPatternKeepsAll
    /\ EveryFaultNamed /\ ParserIsStricter
===============================================================================
