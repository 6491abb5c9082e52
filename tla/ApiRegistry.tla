----------------------------- MODULE ApiRegistry -----------------------------
(***************************************************************************)
(* The registry of the APIs (api_docs.rs), how the two hosts fill it, and  *)
(* what of it the cells of a JavaScript context can name.                  *)
(*                                                                         *)
(* A public name is the path of its parts, <<"web", "url", "parse">>: all  *)
(* but the last are the namespace.  The registry is a thread-local of the  *)
(* worker or page and outlives sessions and contexts; a context is new     *)
(* after each reset and knows only what was bound in it.                   *)
(***************************************************************************)
EXTENDS Naturals, Sequences, FiniteSets, SequencesExt

CONSTANTS
  FirstGroups,  \* what init_fs_registry, init_csv_registry, ... register, in order
  WebEntries,   \* what init_registry of the web demo registers
  SyncDocs,     \* the APIs of web_api_sync!
  Manifests,    \* the manifests that the page may send to the worker
  Globals,      \* what a new context has, or an object in it would inherit
  Functions     \* those of them that are functions

VARIABLES
  registry,     \* REGISTRY: the manifest entry of each registered action
  handlers,     \* REGISTRY: who executes an action, "rust" or "js"
  frozen,       \* FROZEN
  context,      \* the JavaScript context: its names, namespaces and proxies
  host,         \* which program this is, the extension's worker or the web demo
  stage         \* how far its start has come

registryVars == <<registry, handlers, frozen, context, host, stage>>

\* A map in which the entries of new were inserted.
Inserted(new, map) ==
  [k \in DOMAIN new \cup DOMAIN map |-> IF k \in DOMAIN new THEN new[k] ELSE map[k]]

\* The names an entry claims.
NamesOf(e) == <<e.path>> \o e.aliases

Occupied(reg) == UNION {Range(NamesOf(reg[a])) : a \in DOMAIN reg}

\* Mutated form of ValidNames: what the registry holds is not asked.
ValidNamesAlone(reg, e) == IsInjective(NamesOf(e))

\* validate_manifest_names: an entry's names differ and are free.
ValidNames(reg, e) ==
  /\ IsInjective(NamesOf(e))
  /\ Range(NamesOf(e)) \cap Occupied(reg) = {}

\* validate_batch_entries.  It does not look for the actions in the registry.
ValidBatch(reg, batch) ==
  /\ \A i, j \in DOMAIN batch : i # j =>
       /\ batch[i].action # batch[j].action
       /\ Range(NamesOf(batch[i])) \cap Range(NamesOf(batch[j])) = {}
  /\ \A i \in DOMAIN batch : ValidNames(reg, batch[i])

\* The entries of a sequence under their actions; the later of two wins.
Keyed(entries) ==
  [a \in {entries[i].action : i \in DOMAIN entries} |->
     entries[SelectLastInSeq(entries, LAMBDA e : e.action = a)]]

\* Mutated form of Handled: of a group only the first entry gets its handler.
HandledFirst(entries, by) ==
  IF entries = <<>> THEN <<>> ELSE [a \in {entries[1].action} |-> by]

Handled(entries, by) == [a \in DOMAIN Keyed(entries) |-> by]

\* What the commit loop of a batch inserts: all up to the first action that is
\* there already, where it returns with an error and what it inserted stays.
Committed(reg, batch) ==
  LET taken == SelectInSeq(batch, LAMBDA e : e.action \in DOMAIN reg)
  IN  IF taken = 0 THEN batch ELSE SubSeq(batch, 1, taken - 1)

-----------------------------------------------------------------------------
(* The APIs in Rust.                                                       *)

\* The guard of an init_*_registry: its first action has no handler.
Missing(reg, group) == group[1].action \notin DOMAIN reg

\* The five init functions: what they register, in a registry thawed for it.
MissingEntries(reg) ==
  FlattenSeq([i \in DOMAIN FirstGroups |->
                IF Missing(reg, FirstGroups[i]) THEN FirstGroups[i] ELSE <<>>])

\* register_executable_entry, one after the other: where it refuses one, the
\* expect of web_api! panics.
Fits(reg, entries) ==
  \A i \in DOMAIN entries :
    LET before == Inserted(Keyed(SubSeq(entries, 1, i - 1)), reg)
    IN  entries[i].action \notin DOMAIN before /\ ValidNames(before, entries[i])

\* register, for each doc of register_web_module: a registry that has the name
\* ignores it, and else it replaces the entry of its action.
Documented(reg) ==
  LET new == {d \in SyncDocs : \A a \in DOMAIN reg : reg[a].path # d.path}
  IN  Inserted([a \in {d.action : d \in new} |-> CHOOSE d \in new : d.action = a], reg)

\* A frozen registry ignores all docs.
WithDocs(reg) == IF frozen THEN reg ELSE Documented(reg)

\* What an init function or a manifest registers: executable entries.
Executables(entries) ==
  /\ entries \in Seq(Range(entries))
  /\ \A e \in Range(entries) : ~e.sync /\ e.aliases \in Seq(Range(e.aliases))

Core == MissingEntries(<<>>)

\* The APIs in Rust are tables of the program: they fit together, in the
\* extension and in the web demo.  Of a manifest nothing is known but its form.
ASSUME RegistryAssumption ==
  /\ FirstGroups \in Seq(Range(FirstGroups)) /\ <<>> \notin Range(FirstGroups)
  /\ \A entries \in Range(FirstGroups) \cup Manifests \cup {WebEntries} : Executables(entries)
  /\ \A d \in SyncDocs : d.sync /\ d.aliases \in Seq(Range(d.aliases))
  /\ \A c, d \in SyncDocs : c # d =>
       c.action # d.action /\ Range(NamesOf(c)) \cap Range(NamesOf(d)) = {}
  /\ \A d \in SyncDocs, e \in Range(Core) :
       d.action # e.action /\ Range(NamesOf(d)) \cap Range(NamesOf(e)) = {}
  /\ Fits(<<>>, Core) /\ Fits(Documented(<<>>), WebEntries)
  /\ Functions \subseteq Globals
-----------------------------------------------------------------------------
(* The names of a context.                                                 *)

\* perform_reset, finish: the globals of the prelude, no API.
Fresh == [tools |-> <<>>, spaces |-> {}, proxied |-> {}]

\* A proxied namespace answers any member it lacks with a function, so a script
\* that looks for p sees the object of p only where no such answer is on its way.
Visible(ctx, p) ==
  \A q \in Prefixes(Front(p)) \cap ctx.proxied :
    SubSeq(p, 1, Len(q) + 1) \in DOMAIN ctx.tools \cup ctx.spaces \cup Globals

\* Names that are the namespaces of others too.
Crossing(names) == {p \in names : \E q \in names : p \in Prefixes(Front(q))}

\* Names are set where a script finds them undefined; namespaces are made on the
\* way, so that a name that is one is set only if it comes first (the names are
\* those of the actions in alphabetical order, here any).  What is set on the answer
\* of a proxy is lost.
Bind(ctx, names, first) ==
  LET seen == {p \in DOMAIN names : Visible(ctx, p)}
      made == UNION {Prefixes(Front(p)) : p \in seen}
      new  == {p \in seen \ (DOMAIN ctx.tools \cup ctx.spaces \cup Globals) :
                 p \in made => p \in first}
  IN  [ctx EXCEPT !.tools = Inserted([p \in new |-> names[p]], @),
                  !.spaces = @ \cup made]

\* Mutated form of AsyncNames: the aliases are left out.
AsyncNamesNoAlias(reg, by) ==
  LET actions == {a \in DOMAIN reg : ~reg[a].sync /\ a \in DOMAIN by}
      names   == {reg[a].path : a \in actions}
  IN  [p \in names |-> CHOOSE a \in actions : reg[a].path = p]

\* generate_js_bindings_code: every name of an async API with a handler.
AsyncNames(reg, by) ==
  LET actions == {a \in DOMAIN reg : ~reg[a].sync /\ a \in DOMAIN by}
      names   == UNION {Range(NamesOf(reg[a])) : a \in actions}
  IN  [p \in names |-> CHOOSE a \in actions : p \in Range(NamesOf(reg[a]))]

\* __webJsSetupAsyncBindings: after the names, a proxy for each namespace that is
\* an object and no function.
BindAsync(ctx, reg, by, first) ==
  LET names == AsyncNames(reg, by)
      bound == Bind(ctx, names, first)
      made  == {Front(p) : p \in DOMAIN names} \ (DOMAIN bound.tools \cup Functions)
  IN  [bound EXCEPT !.proxied = @ \cup made]

\* generate_js_sync_bindings_code: the public name only.
SyncNames(reg) ==
  LET actions == {a \in DOMAIN reg : reg[a].sync}
  IN  [p \in {reg[a].path : a \in actions} |-> CHOOSE a \in actions : reg[a].path = p]

\* inject_registry_bindings of the extension: first the async ones, then the sync.
Injected(reg, by, first) == Bind(BindAsync(Fresh, reg, by, first), SyncNames(reg), first)

\* The orders that matter.
Orders(reg) == SUBSET Crossing(Occupied(reg))
-----------------------------------------------------------------------------
(* The extension's worker.                                                 *)

RegistryInit ==
  /\ registry = <<>> /\ handlers = <<>> /\ frozen = FALSE
  /\ context = Fresh
  /\ host \in {"extension", "web"}
  /\ stage = "start"

\* The init functions and the docs of a new context, or a panic.
RegisterCore(next) ==
  LET new == MissingEntries(registry)
  IN  /\ registry' = WithDocs(Inserted(Keyed(new), registry))
      /\ handlers' = Inserted(Handled(new, "rust"), handlers)
      /\ stage' = IF Fits(registry, new) THEN next ELSE "panic"
      /\ UNCHANGED frozen

\* ExtensionSession::new, for each init message until one succeeds.
OpenSession ==
  /\ host = "extension" /\ stage \in {"start", "failed"}
  /\ RegisterCore("open")
  /\ context' = Fresh
  /\ UNCHANGED host

\* registerJsCallBatch with the manifest of the page.
RegisterBatch(batch) ==
  /\ host = "extension" /\ stage = "open"
  /\ IF frozen \/ ~ValidBatch(registry, batch)
     THEN stage' = "failed" /\ UNCHANGED <<registry, handlers>>
     ELSE LET new == Committed(registry, batch)
          IN  /\ registry' = Inserted(Keyed(new), registry)
              /\ handlers' = Inserted(Handled(new, "js"), handlers)
              /\ stage' = IF new = batch THEN "batched" ELSE "failed"
  /\ UNCHANGED <<frozen, context, host>>

\* An async entry that nothing executes.
Orphans == {a \in DOMAIN registry : ~registry[a].sync} \ DOMAIN handlers

\* freezeManifest.
FreezeManifest ==
  /\ host = "extension" /\ stage = "batched"
  /\ frozen' = (Orphans = {})
  /\ stage' = IF Orphans = {} THEN "frozen" ELSE "failed"
  /\ UNCHANGED <<registry, handlers, context, host>>

\* injectRegistryBindings, the last step of initWasm.
InjectBindings ==
  /\ host = "extension" /\ stage = "frozen"
  /\ \E first \in Orders(registry) : context' = Injected(registry, handlers, first)
  /\ stage' = "ready"
  /\ UNCHANGED <<registry, handlers, frozen, host>>

\* ExtensionSession::reset: a new context, the init functions, the bindings.
ResetSession ==
  /\ host = "extension" /\ stage \in {"ready", "bare"}
  /\ RegisterCore("ready")
  /\ \E first \in Orders(registry') : context' = Injected(registry', handlers', first)
  /\ UNCHANGED host

\* A session of the page that is stopped or broken gets a new worker.
NewWorker ==
  /\ host = "extension" /\ stage # "start"
  /\ registry' = <<>> /\ handlers' = <<>> /\ frozen' = FALSE
  /\ context' = Fresh /\ stage' = "start"
  /\ UNCHANGED host

-----------------------------------------------------------------------------
(* The web demo.                                                           *)

\* WebSession::new and reset: init_registry fills an empty registry only, and
\* no sync name is bound.
OpenWeb ==
  /\ host = "web" /\ stage # "panic"
  /\ LET docs == WithDocs(registry)
         new  == IF handlers = <<>> THEN WebEntries ELSE <<>>
     IN  /\ registry' = Inserted(Keyed(new), docs)
         /\ handlers' = Inserted(Handled(new, "rust"), handlers)
         /\ stage' = IF Fits(docs, new) THEN "ready" ELSE "panic"
  /\ \E first \in Orders(registry') : context' = BindAsync(Fresh, registry', handlers', first)
  /\ UNCHANGED <<frozen, host>>

\* needs_reset, by stop_with of either session, an aborted cell of the web demo
\* or an error inside resume_cell: the next cell runs in a new context, in which
\* nothing was bound.
LoseContext ==
  /\ stage = "ready"
  /\ context' = Fresh
  /\ registry' = WithDocs(registry)
  /\ stage' = "bare"
  /\ UNCHANGED <<handlers, frozen, host>>

RegistryNext ==
  \/ OpenSession
  \/ \E batch \in Manifests : RegisterBatch(batch)
  \/ FreezeManifest
  \/ InjectBindings
  \/ ResetSession
  \/ NewWorker
  \/ OpenWeb
  \/ LoseContext

RegistrySpec == RegistryInit /\ [][RegistryNext]_registryVars
-----------------------------------------------------------------------------
(* Properties.                                                             *)

Entries == SyncDocs \cup UNION {Range(g) : g \in Range(FirstGroups) \cup Manifests \cup {WebEntries}}

\* The registry holds each entry under its action, and has a handler for an
\* action exactly if its API is async (a sync one is bound to a global).
RegistryTypes ==
  /\ registry \in [DOMAIN registry -> Entries]
  /\ \A a \in DOMAIN registry : registry[a].action = a
  /\ handlers \in [{a \in DOMAIN registry : ~registry[a].sync} -> {"rust", "js"}]
  /\ frozen \in BOOLEAN
  /\ DOMAIN context.tools \subseteq Occupied(registry)
  /\ stage \in {"start", "open", "batched", "frozen", "ready", "bare", "failed", "panic"}

\* No name, alias or not, belongs to two APIs, whatever is registered in which
\* order: a failed start and its retry, the init functions, the docs.
NamesUnique ==
  \A a, b \in DOMAIN registry :
    Range(NamesOf(registry[a])) \cap Range(NamesOf(registry[b])) # {} => a = b

\* A session that is opened again, after a failed start or by a reset, never
\* registers what is registered: the expect of web_api! cannot fail.
NeverPanics == stage # "panic"

\* However often a session is started, an API is registered once.
RegisteredOnce == NamesUnique /\ NeverPanics

\* A name that the bindings cannot set: the context has something there, or the
\* name is also the namespace of another.
Taken(p) == p \in Globals \cup Crossing(Occupied(registry))

\* In a context with bindings no name calls another API's tool, and every async API
\* answers to its public name and to each alias, unless the name is taken.
CellsCallTheirTools ==
  stage = "ready" =>
    /\ \A p \in DOMAIN context.tools :
         LET a == context.tools[p]
         IN  a \in DOMAIN registry /\ p \in Range(NamesOf(registry[a]))
    /\ \A a \in DOMAIN handlers : \A p \in Range(NamesOf(registry[a])) :
         p \in DOMAIN context.tools \/ Taken(p)

\* The APIs that a program has in Rust, from its first start on.
CoreBuilt == Documented(Inserted(Keyed(Core), <<>>))
WebBuilt == Inserted(Keyed(WebEntries), Documented(<<>>))
BuiltIn == IF host = "extension" THEN CoreBuilt ELSE WebBuilt

\* The inductive invariant.  A start finds an empty registry or one that holds
\* all that it would register: what is registered stays until the worker ends.
RegistryInv ==
  /\ RegistryTypes /\ RegisteredOnce /\ CellsCallTheirTools
  /\ host \in {"extension", "web"}
  /\ stage = "start" => registry = <<>> /\ handlers = <<>> /\ ~frozen
  /\ stage # "start" =>
       \A a \in DOMAIN BuiltIn : a \in DOMAIN registry /\ registry[a] = BuiltIn[a]
=============================================================================
