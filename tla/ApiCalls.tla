------------------------------ MODULE ApiCalls -------------------------------
(***************************************************************************)
(* One call of an API from a cell: how the arguments become parameters     *)
(* (makeAsync of prelude.js), how a handler in Rust reads them (serde), or *)
(* a callback in JavaScript gets them, and what the cell is told.          *)
(*                                                                         *)
(* A value is a record of its kind and what it holds: an object a function *)
(* of its members, an array a sequence, the others a token.                *)
(***************************************************************************)
EXTENDS ApiCatalog, Naturals, FiniteSets, SequencesExt

CONSTANTS
  Apis,         \* the APIs that are called, with who handles each, "rust" or "js"
  Arguments(_)  \* the argument lists an API is called with

VARIABLES
  call,         \* the API called and its arguments, NoCall between calls
  params,       \* what __webJsTriggerAsync was given
  received,     \* the members the handler was started with, Refused without one
  stage         \* how far the call is

callsVars == <<call, params, received, stage>>

Value(kind, of)   == [kind |-> kind, of |-> of]
Array(values)     == Value("array", values)
Object(members)   == Value("object", members)
Null              == Value("null", "")
Undefined         == Value("undefined", "")
IsKind(v, kinds)  == v.kind \in kinds
AreStrings(array) == \A i \in DOMAIN array.of : array.of[i].kind = "string"

NoCall  == [action |-> "none"]
Refused == Value("refused", "")

-----------------------------------------------------------------------------
(* makeAsync.                                                              *)

\* Values named by position, as far as there are both.
Zip2(names, values) ==
  LET n == IF Len(names) < Len(values) THEN Len(names) ELSE Len(values)
  IN  [m \in {names[i] : i \in 1..n} |->
         values[CHOOSE i \in 1..n : names[i] = m]]

\* Mutated form of IsOptions: any number of fields may be followed by options.
IsOptionsAlways(fields, args) ==
  fields # <<>> /\ Len(args) = 2 /\ args[2].kind = "object"

\* (primary, options), for an API with one field.
IsOptions(fields, args) ==
  Len(fields) = 1 /\ Len(args) = 2 /\ args[2].kind = "object"

\* The parameters before an array is named.
Gathered(fields, args) ==
  IF args = <<>> THEN Object(<<>>)
  ELSE IF Len(args) = 1 THEN args[1]
  ELSE IF IsOptions(fields, args)
  THEN Object([m \in {fields[1]} \cup DOMAIN args[2].of |->
                 IF m = fields[1] THEN args[1] ELSE args[2].of[m]])
  ELSE Array(args)

\* Arrays and single scalars get the names of the fields.
Named(fields, v) ==
  IF v.kind = "array"
  THEN IF fields # <<"fields">> THEN Object(Zip2(fields, v.of))
       ELSE IF AreStrings(v) THEN Object([fields |-> v]) ELSE Refused
  ELSE IF IsKind(v, {"string", "number"}) THEN Object([m \in {fields[1]} |-> v]) ELSE v

\* An undefined argument rejects the call; a native-parity API gets the array,
\* one without fields the only argument or the array.
Transported(api, args) ==
  IF \E i \in DOMAIN args : args[i].kind = "undefined" THEN Refused
  ELSE IF api.parity THEN Array(args)
  ELSE IF api.fields = <<>> THEN Gathered(<<>>, args)
  ELSE Named(api.fields, Gathered(api.fields, args))

-----------------------------------------------------------------------------
(* parse_params: serde_json::from_value into the struct of the API.        *)

AllMembers == PageMembers @@ QueryMembers @@ DataMembers @@ FsMembers @@ OtherMembers

NamesOf(members) == [i \in DOMAIN members |-> members[i].name]

\* A value for a member of a type that is no struct.
IsOfPlainType(v, type) ==
  CASE type = "any"       -> TRUE
    [] type = "array"     -> v.kind = "array" /\ AreStrings(v)
    [] type = "strings"   -> v.kind = "string" \/ (v.kind = "array" /\ AreStrings(v))
    [] type = "stringMap" ->
         v.kind = "object" /\ \A n \in DOMAIN v.of : v.of[n].kind = "string"
    [] OTHER              -> v.kind = type

\* The members of an object by their names, those of an array by position.
Given(members, v) ==
  IF v.kind = "object" THEN v.of ELSE Zip2(NamesOf(members), v.of)

\* What a struct is read from is an object or an array, which has none too many
\* and as many as have no default.
HasShape(members, v) ==
  /\ v.kind \in {"object", "array"}
  /\ v.kind = "array" =>
       /\ Len(v.of) <= Len(members)
       /\ \A i \in DOMAIN members : i <= Len(v.of) \/ members[i].need = "default"

\* A member of a struct may be left out, unless it is required, and may be null, if
\* it is an option.
MayLack(m, given) ==
  IF m.name \in DOMAIN given THEN m.need = "option" /\ given[m.name].kind = "null"
  ELSE m.need # "required"

\* What fits FetchOptions, the struct that is the type of a member.
AreFetchOptions(v) ==
  LET given == Given(FetchOptions, v)
  IN  /\ HasShape(FetchOptions, v)
      /\ \A m \in Range(FetchOptions) :
           MayLack(m, given) \/ (m.name \in DOMAIN given /\ IsOfPlainType(given[m.name], m.type))

IsOfType(v, type) ==
  IF type = "fetchOptions" THEN AreFetchOptions(v) ELSE IsOfPlainType(v, type)

\* A member of a struct against the members of an object.
FitsMember(m, given) ==
  MayLack(m, given) \/ (m.name \in DOMAIN given /\ IsOfType(given[m.name], m.type))

Fits(members, v) ==
  /\ HasShape(members, v)
  /\ \A i \in DOMAIN members : FitsMember(members[i], Given(members, v))

\* The members the struct has a value for; unknown ones are ignored.
Held(members, given) ==
  {n \in Range(NamesOf(members)) \cap DOMAIN given : given[n].kind # "null"}

Read(members, v) ==
  LET given == Given(members, v)
  IN  IF Fits(members, v) THEN Object([n \in Held(members, given) |-> given[n]])
      ELSE Refused

\* FetchArgs is untagged: what reads as FetchParams is never Positional.
Parsed(api, v) ==
  LET first == Read(AllMembers[api.struct], v)
  IN  IF api.struct = "Fetch" /\ first = Refused THEN Read(FetchPositional, v) ELSE first

\* dispatch_handler: a callback gets the parameters as they are.
Started(api, v) == IF api.by = "js" THEN v ELSE Parsed(api, v)

-----------------------------------------------------------------------------
(* What the tables and the arguments have to be.                           *)

\* No two values of a table are equal.
AreDistinct(table) == \A i, j \in DOMAIN table : table[i] = table[j] => i = j

TypeNames == {"any", "string", "number", "boolean", "array", "strings", "stringMap"}

\* An API with one field has a string or a number for it, so that a single value
\* gets its name, or it is the API with the array; what a struct requires is named
\* by the fields, if there are any.
FieldsFit(fields, members) ==
  LET required == {i \in DOMAIN members : members[i].need = "required"}
      TypeIs(field, types) ==
        \A i \in DOMAIN members : members[i].name = field => members[i].type \in types
  IN  /\ \A i \in required : members[i].name \in Range(fields)
      /\ \A field \in Range(fields) : TypeIs(field, TypeNames \ {"any"})
      /\ Len(fields) = 1 =>
           TypeIs(fields[1], IF fields = <<"fields">> THEN {"array"} ELSE {"string", "number"})
      /\ fields = <<"fields">> => \E i \in required : members[i].name = "fields"

\* The values that a call of fetch gives as its options, by position or by that
\* name, reach the handler only where FetchParams does not fit: it has no such member
\* and is tried first, so fetch(url, {method: "POST"}) is a GET of the url.
MayBeLost(api) == IF api.struct = "Fetch" THEN {"options"} ELSE {}

\* An API that is handled in Rust, with its fields, which but for that are members of
\* the struct it is read into.
TablesFit(api) ==
  LET members == AllMembers[api.struct]
  IN  /\ ~api.parity
      /\ api.struct \in DOMAIN AllMembers
      /\ members \in Seq([name : STRING, type : TypeNames,
                          need : {"required", "default", "option"}])
      /\ AreDistinct(NamesOf(members)) /\ AreDistinct(api.fields)
      /\ api.struct = "Fetch" => api.fields = <<"url", "options">>
      /\ Range(api.fields) \ MayBeLost(api) \subseteq Range(NamesOf(members))
      /\ api.fields # <<>> => FieldsFit(api.fields, members)

ArgumentKinds == {"string", "number", "boolean", "null", "object", "array", "undefined"}

IsArgument(v) == v = Value(v.kind, v.of) /\ v.kind \in ArgumentKinds

ASSUME CallsAssumption ==
  \A api \in Apis :
    /\ api.by \in {"rust", "js"} /\ api.fields \in Seq(STRING)
    /\ api.by = "rust" => TablesFit(api)
    /\ \A args \in Arguments(api) :
         args \in Seq(Range(args)) /\ \A i \in DOMAIN args : IsArgument(args[i])

-----------------------------------------------------------------------------

CallsInit ==
  /\ call = NoCall /\ params = Null /\ received = Refused /\ stage = "idle"

\* A cell calls an API; the promise is rejected at once, or a command is queued.
Call(api, args) ==
  /\ stage = "idle"
  /\ call' = [action |-> api.action, api |-> api, args |-> args]
  /\ params' = Transported(api, args)
  /\ received' = Refused
  /\ stage' = IF params' = Refused THEN "rejected" ELSE "queued"

\* Mutated form of Dispatch: the error of parse_params is not looked at.
DispatchUnchecked ==
  /\ stage = "queued"
  /\ received' = Started(call.api, params)
  /\ stage' = "running"
  /\ UNCHANGED <<call, params>>

\* dispatch_command: the handler starts, or its parameters are invalid.
Dispatch ==
  /\ stage = "queued"
  /\ received' = Started(call.api, params)
  /\ stage' = IF received' = Refused THEN "rejected" ELSE "running"
  /\ UNCHANGED <<call, params>>

\* A handler in Rust answers.
Answer ==
  /\ stage = "running"
  /\ stage' = "resolved"
  /\ UNCHANGED <<call, params, received>>

\* A callback throws, its promise rejects, its answer is no AsyncResponse, or
\* thirty seconds are over, after which its answer is dropped.
CallbackFails ==
  /\ stage = "running" /\ call.api.by = "js"
  /\ stage' = "rejected"
  /\ UNCHANGED <<call, params, received>>

\* The cell has the outcome; the next call.
HandBack ==
  /\ stage \in {"resolved", "rejected"}
  /\ call' = NoCall /\ params' = Null /\ received' = Refused /\ stage' = "idle"

CallsNext ==
  \/ \E api \in Apis : \E args \in Arguments(api) : Call(api, args)
  \/ Dispatch
  \/ Answer
  \/ CallbackFails
  \/ HandBack

CallsSpec == CallsInit /\ [][CallsNext]_callsVars
-----------------------------------------------------------------------------
(* Properties.                                                             *)

ValueKinds == {"string", "number", "boolean", "null", "object", "array", "refused"}

\* Only the stages of a call that has parameters and members have them.
CallsTypes ==
  /\ stage \in {"idle", "queued", "running", "resolved", "rejected"}
  /\ params.kind \in ValueKinds /\ received.kind \in ValueKinds
  /\ stage = "queued" => params # Refused
  /\ stage \in {"running", "resolved"} => received # Refused
  /\ stage = "idle" <=> call = NoCall

ByRust == stage = "running" /\ call.api.by = "rust"

\* What a call means, whoever makes it: an object alone is the parameters, an
\* object after the only field of an API adds to it, and every other list of
\* arguments is one value for each field, or for each member where an API has
\* no fields.
Meant(api, args) ==
  LET names == IF api.fields # <<>> THEN api.fields
               ELSE NamesOf(AllMembers[api.struct])
      flat  == IF Len(args) = 1 /\ args[1].kind = "array" THEN args[1].of ELSE args
  IN  IF Len(args) = 1 /\ args[1].kind = "object" THEN args[1].of
      ELSE IF Len(args) = 2 /\ Len(api.fields) = 1 /\ args[2].kind = "object"
      THEN [m \in {api.fields[1]} \cup DOMAIN args[2].of |->
              IF m = api.fields[1] THEN args[1] ELSE args[2].of[m]]
      ELSE IF api.fields = <<"fields">> THEN [fields |-> Array(flat)]
      ELSE Zip2(names, flat)

\* The members a handler can be told: those of its struct, and of fetch the url and
\* the options where they do not fit FetchParams.
Told(api, meant) ==
  IF api.struct = "Fetch" /\ \E m \in Range(AllMembers["Fetch"]) : ~FitsMember(m, meant)
  THEN FetchPositional ELSE AllMembers[api.struct]

\* A handler in Rust finds every value that its struct has a member for in that
\* member, and no value in a member it was not meant for: the names the macros
\* give to positions, those the structs have, and the order of members that
\* serde reads arrays in agree.  A value meant for a field of the API is never
\* dropped, but for the options of a fetch, which are; what no member is named for
\* is dropped, and of a fetch with one member of a wrong type all but its url and
\* its options.
ArrivesAsMeant ==
  ByRust =>
    LET meant == Meant(call.api, call.args)
        given == {n \in DOMAIN meant : meant[n].kind # "null"}
    IN  /\ \A m \in Range(Told(call.api, meant)) :
             IF m.name \in given
             THEN m.name \in DOMAIN received.of /\ received.of[m.name] = meant[m.name]
             ELSE m.name \notin DOMAIN received.of
        /\ (Range(call.api.fields) \cap given) \ MayBeLost(call.api) \subseteq DOMAIN received.of

\* The type of a field in the struct of its API, "none" without such a member.
TypeOf(api, field) ==
  IF \E m \in Range(AllMembers[api.struct]) : m.name = field
  THEN (CHOOSE m \in Range(AllMembers[api.struct]) : m.name = field).type
  ELSE "none"

\* A call with one value of the right type for each field is never refused: no
\* struct needs what the fields of its API do not name.
FieldsAreEnough ==
  call # NoCall /\ call.api.by = "rust" /\ call.api.fields # <<>> =>
    LET fields == call.api.fields  args == call.args
    IN  Len(args) = Len(fields)
          /\ (\A i \in DOMAIN args : IsOfType(args[i], TypeOf(call.api, fields[i])))
        => stage # "rejected"

\* What a cell may call is accepted and reaches the handler, except the options of a
\* fetch and what a fetch with a member of a wrong type loses.
CallsAreUnderstood == FieldsAreEnough /\ ArrivesAsMeant

-----------------------------------------------------------------------------
(* The inductive invariant.                                                *)

\* A call that is under way is one of an API with arguments it may have, its
\* parameters are those that were transported, and it is rejected at the first
\* of the two steps that can refuse it, or by a callback.
UnderWay ==
  /\ call.api \in Apis /\ call.args \in Arguments(call.api)
  /\ call = [action |-> call.api.action, api |-> call.api, args |-> call.args]
  /\ params = Transported(call.api, call.args)
  /\ received \in {Refused, Started(call.api, params)}
  /\ stage = "queued" => params # Refused
  /\ stage \in {"running", "resolved"} =>
       params # Refused /\ received = Started(call.api, params) /\ received # Refused
  /\ stage = "rejected" /\ call.api.by = "rust" =>
       params = Refused \/ Started(call.api, params) = Refused

CallsInv ==
  /\ stage \in {"idle", "queued", "running", "resolved", "rejected"}
  /\ stage = "idle" => call = NoCall /\ params = Null /\ received = Refused
  /\ stage # "idle" => UnderWay
=============================================================================
