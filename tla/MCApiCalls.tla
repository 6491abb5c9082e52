----------------------------- MODULE MCApiCalls ------------------------------
(* The APIs of the web demo and two of the extension's callbacks, called    *)
(* with up to two values of every kind, with as many strings and numbers as *)
(* there are fields, and with objects, whose members may be of other types. *)
EXTENDS ApiCalls

Handled(api, by, parity) ==
  [action |-> api.action, path |-> api.path, fields |-> api.fields,
   struct |-> api.struct, by |-> by, parity |-> parity]

MCApis ==
  {Handled(WebApis[i], "rust", FALSE) : i \in DOMAIN WebApis}
    \cup {Handled(Api("page_goto", <<"page", "goto">>, <<"url">>, "none"), "js", FALSE),
          Handled(Api("chrome_tabs_query", <<"chrome", "tabs", "query">>, <<>>, "none"),
                  "js", TRUE)}

A == Value("string", "a")
B == Value("string", "b")
N == Value("number", "n")
Y == Value("boolean", "y")

Plain   == {A, B, N, Y, Null, Undefined}
Samples == Plain \cup {Array(<<A, B>>), Array(<<N>>), Object(<<>>),
                       Object([label |-> B]), Object([method |-> B, timeout |-> N]),
           Object([url |-> A, method |-> N, options |-> Object(<<>>)]),
           Object([url |-> A, method |-> B, headers |-> Object([label |-> N])]),
           Object([url |-> A, method |-> N, options |-> Object([method |-> N])]),
           Object([url |-> A, method |-> N, options |-> Array(<<B, Object(<<>>), A>>)])}

\* A value of each type.
Sample(type) ==
  CASE type = "number" -> N [] type = "boolean" -> Y
    [] type = "stringMap" -> Object([label |-> B]) [] type = "array" -> Array(<<A, B>>)
    [] OTHER -> A

\* A value for a member of a struct.
MemberSample(api, n) ==
  LET ms == AllMembers[api.struct]
  IN  Sample(ms[CHOOSE i \in DOMAIN ms : ms[i].name = n].type)

\* An object with the members of a struct in a set, and one with a value in a
\* member of it that may be of another type.
Members(api, S)         == Object([n \in S |-> MemberSample(api, n)])
WithMember(api, S, n, v) == Object([m \in S |-> IF m = n THEN v ELSE MemberSample(api, m)])

Names(api) ==
  IF api.struct = "none" THEN {} ELSE {m.name : m \in Range(AllMembers[api.struct])}

MCArguments(api) ==
  {<<>>} \cup {<<v>> : v \in Samples} \cup {<<v, w>> : v, w \in Samples}
    \cup {<<Members(api, S)>> : S \in SUBSET Names(api)}
    \cup UNION {{<<WithMember(api, S, n, v)>> : n \in S, v \in {N, Null, Object([label |-> N])}} : S \in SUBSET Names(api)}
    \cup (IF Len(api.fields) = 3 THEN {<<u, v, w>> : u, v, w \in {A, B, N}} ELSE {})
=============================================================================
