---------------------------- MODULE MCApiRegistry ----------------------------
(* The APIs of ApiCatalog, and manifests that do and do not fit them.       *)
EXTENDS ApiRegistry, ApiCatalog

\* An API of the page; its fields and parameters do not matter here.
Tool(action, path, aliases) ==
  [Api(action, path, <<>>, "none") EXCEPT !.aliases = aliases]

\* What a manifest may hold.  The last five are refused with what the registry
\* or the batch has: an alias, a name of the batch, an action, the action of a
\* doc and the name of a doc.  The two before them have a name of the prelude,
\* and one that is the namespace of another API.
Pool ==
  {Tool("chrome_fetch", <<"network", "fetch">>, << <<"web", "fetch">> >>),
   Tool("page_click", <<"page", "click">>, <<>>),
   Tool("tab_list", <<"web", "tab", "list">>, << <<"tab", "list">> >>),
   Tool("url_build", <<"web", "url", "build">>, <<>>),
   Tool("path_join", <<"path", "join">>, <<>>),
   Tool("tab", <<"web", "tab">>, <<>>),
   Tool("mine", <<"my", "read">>, << <<"fs", "read_text">> >>),
   Tool("net", <<"web", "fetch">>, <<>>),
   Tool("fs_read", <<"my", "text">>, <<>>),
   Tool("url_parse", <<"my", "parse">>, <<>>),
   Tool("log", <<"web", "log">>, <<>>)}

MCFunctions == {<<"path", "join">>}
MCGlobals   == {<<"path">>} \cup MCFunctions

MCManifests ==
  {<<a>> : a \in Pool} \cup {<<a, b>> : a, b \in Pool}
    \cup {<<a, b, c>> : a, b, c \in Pool}
=============================================================================
