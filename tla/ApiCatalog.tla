----------------------------- MODULE ApiCatalog ------------------------------
(***************************************************************************)
(* The APIs that are registered in Rust, with the fields their arguments   *)
(* are named by and the struct their parameters are deserialized into, and *)
(* those structs (command_params.rs), member by member in their order.     *)
(***************************************************************************)
EXTENDS Sequences

\* web_api!: an async API without aliases.
Api(action, path, fields, struct) ==
  [action |-> action, path |-> path, aliases |-> <<>>, sync |-> FALSE,
   fields |-> fields, struct |-> struct]

\* web_api! with aliases: one other name in the same namespace.
Aliased(api, name) == [api EXCEPT !.aliases = << <<api.path[1], name>> >>]

\* web_api_sync!: a doc and a global function.
Doc(action, path) ==
  [action |-> action, path |-> path, aliases |-> <<>>, sync |-> TRUE]

-----------------------------------------------------------------------------
(* The extension.                                                          *)

FsReads ==
  <<Api("fs_exists", <<"fs", "exists">>, <<"path">>, "FsPath"),
    Api("fs_stat", <<"fs", "stat">>, <<"path">>, "FsPath"),
    Api("fs_list", <<"fs", "list">>, <<"path">>, "FsPath"),
    Api("fs_mkdir", <<"fs", "mkdir">>, <<"path">>, "FsPath"),
    Api("fs_delete", <<"fs", "delete">>, <<"path">>, "FsPath"),
    Api("fs_copy", <<"fs", "copy">>, <<"from", "to">>, "FsCopy"),
    Api("fs_move", <<"fs", "move">>, <<"from", "to">>, "FsCopy"),
    Api("fs_read", <<"fs", "read">>, <<"path">>, "FsPath"),
    Aliased(Api("fs_read_text", <<"fs", "readText">>, <<"path">>, "FsPath"), "read_text"),
    Aliased(Api("fs_read_base64", <<"fs", "readBase64">>, <<"path">>, "FsPath"), "read_base64")>>

FsWrites ==
  LET wide == <<"path", "offset", "len">>  data == <<"path", "data">>
  IN <<Aliased(Api("fs_read_range", <<"fs", "readRange">>, wide, "FsReadRange"), "read_range"),
       Api("fs_write", <<"fs", "write">>, data, "FsWrite"),
       Aliased(Api("fs_write_text", <<"fs", "writeText">>, data, "FsWrite"), "write_text"),
       Aliased(Api("fs_write_base64", <<"fs", "writeBase64">>, data, "FsWrite"), "write_base64"),
       Api("fs_append", <<"fs", "append">>, data, "FsWrite"),
       Aliased(Api("fs_append_text", <<"fs", "appendText">>, data, "FsWrite"), "append_text"),
       Aliased(Api("fs_append_base64", <<"fs", "appendBase64">>, data, "FsWrite"), "append_base64"),
       Api("fs_update", <<"fs", "update">>, <<"path", "offset", "data">>, "FsUpdate"),
       Api("fs_hash", <<"fs", "hash">>, <<"path", "algo">>, "FsHash")>>

\* What each of the init functions registers.
CoreGroups ==
  <<FsReads \o FsWrites,
    <<Api("csv_parse", <<"csv", "parse">>, <<"path">>, "FsPath")>>,
    <<Api("zip_list", <<"zip", "list">>, <<"path">>, "FsPath")>>,
    <<Api("xlsx_read", <<"xlsx", "read">>, <<"path">>, "FsPath")>>,
    <<Api("pdf_text", <<"pdf", "text">>, <<"path">>, "FsPath")>> >>

\* register_web_module: the sync APIs, of both hosts.
LogAndUrl ==
  {Doc("__webJsLog", <<"web", "log">>),
   Doc("url_parse", <<"web", "url", "parse">>),
   Doc("url_encode", <<"web", "url", "encode">>)}

RuntimeDocs ==
  {Doc("runtime_inspect", <<"runtime", "inspect">>),
   Doc("runtime_api_docs", <<"runtime", "apiDocs">>),
   Doc("runtime_loadLibrary", <<"runtime", "loadLibrary">>)}

CryptoDocs ==
  {Doc("crypto_sha256", <<"crypto", "sha256">>), Doc("crypto_md5", <<"crypto", "md5">>),
   Doc("crypto_hmac_sha256", <<"crypto", "hmacSha256">>),
   Doc("crypto_hex_encode", <<"crypto", "hexEncode">>),
   Doc("crypto_hex_decode", <<"crypto", "hexDecode">>)}

CoreDocs == LogAndUrl \cup RuntimeDocs \cup CryptoDocs

-----------------------------------------------------------------------------
(* init_registry of the web demo.                                          *)

WebAndMoves ==
  <<Api("mock_async", <<"web", "mock_async">>, <<>>, "Empty"),
    Api("sleep", <<"web", "sleep">>, <<"duration">>, "Sleep"),
    Api("fetch", <<"web", "fetch">>, <<"url", "options">>, "Fetch"),
    Api("page_url", <<"page", "url">>, <<>>, "Empty"),
    Api("page_title", <<"page", "title">>, <<>>, "Empty"),
    Api("page_goto", <<"page", "goto">>, <<"url">>, "PageGoto"),
    Api("page_back", <<"page", "back">>, <<>>, "Empty"),
    Api("page_forward", <<"page", "forward">>, <<>>, "Empty"),
    Api("page_reload", <<"page", "reload">>, <<>>, "Empty")>>

PageActs ==
  <<Api("page_click", <<"page", "click">>, <<"refId">>, "PageClick"),
    Api("page_fill", <<"page", "fill">>, <<"refId", "value">>, "PageFill"),
    Api("page_type", <<"page", "type">>, <<"refId", "text">>, "PageType"),
    Api("page_append", <<"page", "append">>, <<"refId", "text">>, "PageType"),
    Api("page_press", <<"page", "press">>, <<"key">>, "PagePress"),
    Api("page_select", <<"page", "select">>, <<"refId", "value">>, "PageSelect"),
    Api("page_check", <<"page", "check">>, <<"refId", "checked">>, "PageCheck"),
    Api("page_hover", <<"page", "hover">>, <<"refId">>, "PageClick"),
    Api("page_unhover", <<"page", "unhover">>, <<>>, "Empty")>>

PageQueries ==
  <<Api("page_scroll", <<"page", "scroll">>, <<>>, "PageScroll"),
    Api("page_scroll_to", <<"page", "scroll_to">>, <<"refId">>, "PageScrollTo"),
    Api("page_dblclick", <<"page", "dblclick">>, <<"refId">>, "PageClick"),
    Api("page_wait", <<"page", "wait">>, <<"duration">>, "PageWait"),
    Api("page_find", <<"page", "find">>, <<"selector">>, "PageFind"),
    Api("page_wait_for", <<"page", "wait_for">>, <<"selector", "timeout">>, "PageWaitFor"),
    Api("page_extract", <<"page", "extract">>, <<"fields">>, "PageExtract"),
    Api("page_screenshot", <<"page", "screenshot">>, <<>>, "Empty"),
    Api("page_snapshot", <<"page", "snapshot">>, <<>>, "DomSnapshot")>>

Snapshots ==
  <<Api("page_snapshot_text", <<"page", "snapshot_text">>, <<>>, "DomSnapshot"),
    Api("page_snapshot_data", <<"page", "snapshot_data">>, <<>>, "DomSnapshot"),
    Api("dom_snapshot", <<"dom", "snapshot">>, <<>>, "DomSnapshot"),
    Api("dom_format", <<"dom", "format">>, <<>>, "DomFormat"),
    Api("sidepanel_snapshot_text", <<"sidepanel", "snapshot_text">>, <<>>, "DomSnapshot"),
    Api("sidepanel_snapshot_data", <<"sidepanel", "snapshot_data">>, <<>>, "DomSnapshot"),
    Api("sidepanel_click", <<"sidepanel", "click">>, <<"refId">>, "PageClick")>>

SidepanelActs ==
  <<Api("sidepanel_dblclick", <<"sidepanel", "dblclick">>, <<"refId">>, "PageClick"),
    Api("sidepanel_fill", <<"sidepanel", "fill">>, <<"refId", "value">>, "PageFill"),
    Api("sidepanel_type", <<"sidepanel", "type">>, <<"refId", "text">>, "PageType"),
    Api("sidepanel_append", <<"sidepanel", "append">>, <<"refId", "text">>, "PageType"),
    Api("sidepanel_press", <<"sidepanel", "press">>, <<"key">>, "PagePress"),
    Api("sidepanel_select", <<"sidepanel", "select">>, <<"refId", "value">>, "PageSelect"),
    Api("sidepanel_check", <<"sidepanel", "check">>, <<"refId", "checked">>, "PageCheck"),
    Api("sidepanel_hover", <<"sidepanel", "hover">>, <<"refId">>, "PageClick"),
    Api("sidepanel_unhover", <<"sidepanel", "unhover">>, <<>>, "Empty"),
    Api("sidepanel_scroll", <<"sidepanel", "scroll">>, <<>>, "PageScroll")>>

SidepanelAndStorage ==
  <<Api("sidepanel_scroll_to", <<"sidepanel", "scroll_to">>, <<"refId">>, "PageScrollTo"),
    Api("sidepanel_url", <<"sidepanel", "url">>, <<>>, "Empty"),
    Api("sidepanel_title", <<"sidepanel", "title">>, <<>>, "Empty"),
    Api("sidepanel_wait", <<"sidepanel", "wait">>, <<"duration">>, "PageWait"),
    Api("storage_get", <<"web", "storage", "get">>, <<"key">>, "StorageKey"),
    Api("storage_set", <<"web", "storage", "set">>, <<"key", "value">>, "StorageSet"),
    Api("storage_delete", <<"web", "storage", "delete">>, <<"key">>, "StorageKey"),
    Api("storage_list", <<"web", "storage", "list">>, <<>>, "Empty")>>

\* The files of the web demo: those of the extension without their aliases, and
\* with one other name.
PlainFs(apis) ==
  [i \in DOMAIN apis |->
     [apis[i] EXCEPT !.aliases = <<>>,
        !.path = IF apis[i].action = "fs_append_base64" THEN <<"fs", "append_base64">> ELSE @]]

WebFsReads == PlainFs(FsReads)
WebFsWrites == PlainFs(FsWrites)

HostCall == Api("host_call", <<"host", "call">>, <<>>, "HostCall")

WebApis ==
  WebAndMoves \o PageActs \o PageQueries \o Snapshots \o SidepanelActs
    \o SidepanelAndStorage \o WebFsReads \o WebFsWrites \o <<HostCall>>

-----------------------------------------------------------------------------
(* The structs: a member is required, has a default of its own, or is an   *)
(* Option, which null and, in an object, its absence leave empty.          *)

Required(name, type) == [name |-> name, type |-> type, need |-> "required"]
Default(name, type)  == [name |-> name, type |-> type, need |-> "default"]
Option(name, type)   == [name |-> name, type |-> type, need |-> "option"]

\* The element an action is about.  Hovering and double clicks have the members of
\* a click, appending those of typing.
Located(members) ==
  <<Option("refId", "string"), Option("label", "string")>> \o members
    \o <<Option("selector", "string")>>

\* What a request may be made with; headers are a map of strings.
FetchOptions ==
  <<Default("method", "string"), Default("headers", "stringMap"), Option("body", "string"),
    Default("timeout", "number")>>

FetchMembers == <<Required("url", "string")>> \o FetchOptions

\* FetchArgs::Positional, tried where FetchParams does not fit.
FetchPositional == <<Required("url", "string"), Option("options", "fetchOptions")>>

PageMembers ==
  [PageClick |-> Located(<<>>),
   PageFill |-> Located(<<Required("value", "string")>>),
   PageType |-> Located(<<Required("text", "string")>>),
   PagePress |-> <<Option("refId", "string"), Option("label", "string"),
                   Required("key", "string")>>,
   PageSelect |-> Located(<<Required("value", "strings")>>),
   PageCheck |-> Located(<<Default("checked", "boolean")>>),
   PageScroll |-> <<Default("direction", "string"), Default("amount", "number")>>]

QueryMembers ==
  [PageScrollTo |-> Located(<<Option("x", "number"), Option("y", "number")>>),
   PageGoto |-> <<Required("url", "string")>>,
   PageFind |-> <<Required("selector", "string")>>,
   PageWaitFor |-> <<Required("selector", "string"), Default("timeout", "number")>>,
   PageExtract |-> <<Required("fields", "array")>>,
   PageWait |-> <<Default("duration", "number")>>]

DataMembers ==
  [StorageKey |-> <<Required("key", "string")>>,
   StorageSet |-> <<Required("key", "string"), Required("value", "string")>>,
   DomSnapshot |-> <<Default("interactive_only", "boolean"), Default("max_nodes", "number")>>,
   DomFormat |-> <<Required("snapshot", "any"), Default("format", "string")>>]

FsMembers ==
  LET path == Required("path", "string")  data == Required("data", "string")
      offset == Required("offset", "number")
  IN [FsWrite |-> <<path, data>>,
      FsPath |-> <<path>>,
      FsCopy |-> <<Required("from", "string"), Required("to", "string")>>,
      FsUpdate |-> <<path, offset, data>>,
      FsHash |-> <<path, Required("algo", "string")>>,
      FsReadRange |-> <<path, offset, Required("len", "number")>>]

OtherMembers ==
  [Empty |-> <<>>,
   Sleep |-> <<Required("duration", "number")>>,
   Fetch |-> FetchMembers,
   HostCall |-> <<Required("action", "string"), Default("params", "any")>>]
=============================================================================
