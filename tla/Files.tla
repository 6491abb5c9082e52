-------------------------------- MODULE Files --------------------------------
(***************************************************************************)
(* The files of the extension's origin private file system (OPFS) under    *)
(* the fs.* operations (web-fs/src/opfs.rs, extension-js/src/browser_api.rs*)
(* and fs.rs), and the write caches from which setFiles takes the bytes of *)
(* a file it uploads (vfs_write_cache.rs, vfs-write-cache.ts, worker.ts).  *)
(*                                                                         *)
(* An operation is a sequence of awaits, and between two of them anything  *)
(* may happen: the other operations of a batch of the cell, those of the   *)
(* panels of other windows, a failure, the end of the worker.              *)
(*                                                                         *)
(* A content is a sequence of blocks; the data of an operation is one      *)
(* block, the operation itself.  Directories are one level deep.           *)
(***************************************************************************)
EXTENDS Naturals, Sequences, FiniteSets, Functions

CONSTANTS
  Ops,       \* calls of fs.* and setFiles
  Paths,     \* paths of files
  Dirs,      \* paths of directories
  DirOf,     \* the directory of each path, None for the root
  Kinds,     \* the operations that occur
  None,      \* null: no file, no directory
  Hole,      \* a block of zeros
  CanFail    \* whether awaits may fail and workers may be terminated

ASSUME FilesAssumption ==
  /\ None \notin Paths \cup Dirs \cup Ops /\ Paths \cap Dirs = {}
  /\ DirOf \in [Paths -> Dirs \cup {None}]
  /\ CanFail \in BOOLEAN
  /\ None \notin Seq(Ops \cup Paths \cup {Hole})

VARIABLES
  file,       \* OPFS: the content of each path, None without a file
  dirs,       \* OPFS: the directories
  opened,     \* OPFS: operations whose writable stream is open
  op,         \* the operations
  cache,      \* the two write caches: the content cached for each path
  before,     \* history: the files when each operation started
  disturbed   \* history: operations that overlapped one on the same path

vars == <<file, dirs, opened, op, cache, before, disturbed>>

Blocks   == Ops \cup Paths \cup {Hole}
Contents == {None} \cup Seq(Blocks)
Caches   == {"wasm", "js"}
NoCache  == [k \in Caches |-> [p \in Paths |-> None]]
OnFile   == {"write", "writeBase64", "fsCallBase64", "append", "delete", "read", "setFiles"}
OnTwo    == {"copy", "move"}
OnDir    == {"mkdir", "rmdir"}
Ended    == {"ok", "error", "lost"}
Steps    == {"mkdir", "create", "resolve", "size", "open", "commit", "look", "take", "remove"}

Request(k, p, q, at) == [kind |-> k, from |-> p, to |-> q, offset |-> at]
Requests ==
  {r \in {Request(k, p, p, 0) : k \in OnFile, p \in Paths}
           \cup {Request(k, p, q, 0) : k \in OnTwo, p \in Paths, q \in Paths}
           \cup {Request("update", p, p, at) : p \in Paths, at \in 0..1}
           \cup {Request(k, d, d, 0) : k \in OnDir, d \in Dirs} : r.kind \in Kinds}

\* An operation: the request, the step it is at, the bytes it read, the size it
\* saw and the swap file of its writable stream.
Idle == [req |-> Request(None, None, None, 0), pc |-> "idle",
         bytes |-> None, size |-> 0, swap |-> <<>>]

Entries == [req : Requests \cup {Idle.req}, pc : {"idle"} \cup Steps \cup Ended,
            bytes : Contents, size : Nat, swap : Seq(Blocks)]

Running(o) == op[o].pc \notin {"idle"} \cup Ended

Exists(d) == d = None \/ d \in dirs

Init ==
  /\ dirs \in SUBSET Dirs
  /\ file \in [Paths -> {None, <<>>} \cup {<<p>> : p \in Paths}]
  /\ \A p \in Paths : file[p] \in {None, <<>>, <<p>>} /\ (file[p] # None => Exists(DirOf[p]))
  /\ opened = {}
  /\ op = [o \in Ops |-> Idle]
  /\ cache = NoCache
  /\ before = [o \in Ops |-> file]
  /\ disturbed = {}

-----------------------------------------------------------------------------
(* Starting and ending.                                                    *)

FirstStep(kind) ==
  CASE kind \in {"write", "writeBase64", "fsCallBase64", "mkdir"} -> "mkdir"
    [] kind \in {"append", "update"} -> "resolve"
    [] kind \in {"copy", "move", "read", "setFiles"} -> "look"
    [] kind \in {"delete", "rmdir"} -> "remove"

\* The files an operation is about.
Touched(r) ==
  IF r.kind = "mkdir" THEN {}
  ELSE IF r.kind = "rmdir" THEN {p \in Paths : DirOf[p] = r.to} ELSE {r.from, r.to}

\* The operation o starts with the given entry; those it overlaps are disturbed.
Begin(o, entry) ==
  LET others == {u \in Ops \ {o} : Running(u)
                   /\ Touched(op[u].req) \cap Touched(entry.req) # {}}
  IN  /\ op' = [op EXCEPT ![o] = entry]
      /\ before' = [before EXCEPT ![o] = file]
      /\ disturbed' = disturbed \cup others \cup IF others = {} THEN {} ELSE {o}

\* A call is made.  A base64 write is cached before it is decoded: those of a
\* cell in the WASM cache, those of the panel (fsCall) in that of the worker.
Start(o) ==
  /\ op[o].pc = "idle"
  /\ \E r \in Requests :
       /\ Begin(o, [Idle EXCEPT !.req = r, !.pc = FirstStep(r.kind)])
       /\ cache' = CASE r.kind = "writeBase64"  -> [cache EXCEPT !["wasm"][r.to] = <<o>>]
                     [] r.kind = "fsCallBase64" -> [cache EXCEPT !["js"][r.to] = <<o>>]
                     [] OTHER -> cache
       /\ r.kind = "setFiles" => \A k \in Caches : cache[k][r.from] = None
  /\ UNCHANGED <<file, dirs, opened>>

\* setFiles of a path that is cached takes the entry, the WASM cache first.
TakeCached(o) ==
  /\ op[o].pc = "idle" /\ "setFiles" \in Kinds
  /\ \E p \in Paths, k \in Caches :
       /\ cache[k][p] # None
       /\ k = "js" => cache["wasm"][p] = None
       /\ Begin(o, [Idle EXCEPT !.req = Request("setFiles", p, p, 0),
                                !.pc = "ok", !.bytes = cache[k][p]])
       /\ cache' = [cache EXCEPT ![k][p] = None]
  /\ UNCHANGED <<file, dirs, opened>>

Goto(o, pc) == op' = [op EXCEPT ![o].pc = pc]
Quiet       == UNCHANGED <<cache, before, disturbed>>

-----------------------------------------------------------------------------
(* The awaits of an operation.                                             *)

\* resolve_dir_create and the first half of resolve_file_create.
EnsureDir(o) ==
  LET r == op[o].req
      d == IF r.kind = "mkdir" THEN r.to ELSE DirOf[r.to]
  IN  /\ op[o].pc = "mkdir"
      /\ dirs' = dirs \cup ({d} \ {None})
      /\ Goto(o, IF r.kind = "mkdir" THEN "ok" ELSE "create")
      /\ UNCHANGED <<file, opened>> /\ Quiet

\* getFileHandle with create: an empty file, if there is none.
EnsureFile(o) ==
  LET p == op[o].req.to
  IN  /\ op[o].pc = "create"
      /\ \/ /\ Exists(DirOf[p])
            /\ file' = [file EXCEPT ![p] = IF @ = None THEN <<>> ELSE @]
            /\ Goto(o, IF op[o].req.kind = "append" THEN "size" ELSE "open")
         \/ /\ ~Exists(DirOf[p])
            /\ Goto(o, "error")
            /\ UNCHANGED file
      /\ UNCHANGED <<dirs, opened>> /\ Quiet

\* resolve_file; append creates what it does not find.
Resolve(o) ==
  LET r == op[o].req
  IN  /\ op[o].pc = "resolve"
      /\ Goto(o, IF r.kind = "append"
                 THEN IF file[r.to] # None THEN "size" ELSE "mkdir"
                 ELSE IF file[r.to] # None THEN "open" ELSE "error")
      /\ UNCHANGED <<file, dirs, opened>> /\ Quiet

\* get_file_size.
Size(o) ==
  LET p == op[o].req.to
  IN  /\ op[o].pc = "size"
      /\ op' = [op EXCEPT ![o].pc   = IF file[p] = None THEN "error" ELSE "open",
                          ![o].size = IF file[p] = None THEN 0 ELSE Len(file[p])]
      /\ UNCHANGED <<file, dirs, opened>> /\ Quiet

\* Mutated form of Open: append and update do not keep the existing data.
OpenFresh(o) ==
  LET r == op[o].req
  IN  /\ op[o].pc = "open" /\ file[r.to] # None
      /\ op' = [op EXCEPT ![o].pc = "commit", ![o].swap = <<>>]
      /\ opened' = opened \cup {o}
      /\ UNCHANGED <<file, dirs>> /\ Quiet

\* Mutated form of Open: the stream writes into the file itself.
OpenInPlace(o) ==
  LET r == op[o].req
  IN  /\ op[o].pc = "open" /\ file[r.to] # None
      /\ op' = [op EXCEPT ![o].pc = "commit", ![o].swap = <<>>]
      /\ file' = [file EXCEPT ![r.to] = <<>>]
      /\ opened' = opened \cup {o}
      /\ UNCHANGED dirs /\ Quiet

\* createWritable: the stream writes to a swap file, which for append and update
\* starts as a copy.
Open(o) ==
  LET r == op[o].req
  IN  /\ op[o].pc = "open"
      /\ \/ /\ file[r.to] # None
            /\ op' = [op EXCEPT ![o].pc = "commit",
                                ![o].swap = IF r.kind \in {"append", "update"} THEN file[r.to] ELSE <<>>]
            /\ opened' = opened \cup {o}
         \/ /\ file[r.to] = None
            /\ Goto(o, "error")
            /\ UNCHANGED opened
      /\ UNCHANGED <<file, dirs>> /\ Quiet

\* The content s with the blocks d written at the offset.
Put(s, at, d) ==
  [i \in 1..(IF Len(s) > at + Len(d) THEN Len(s) ELSE at + Len(d)) |->
     IF i \in (at + 1)..(at + Len(d)) THEN d[i - at]
     ELSE IF i <= Len(s) THEN s[i] ELSE Hole]

\* seek, write and close: the swap file becomes the file.
Commit(o) ==
  LET r  == op[o].req
      at == CASE r.kind = "append" -> op[o].size
              [] r.kind = "update" -> r.offset
              [] OTHER -> 0
      d  == IF r.kind \in OnTwo THEN op[o].bytes ELSE <<o>>
  IN  /\ op[o].pc = "commit"
      /\ file' = [file EXCEPT ![r.to] = Put(op[o].swap, at, d)]
      /\ opened' = opened \ {o}
      /\ Goto(o, IF r.kind = "move" THEN "remove" ELSE "ok")
      /\ UNCHANGED dirs /\ Quiet

\* getFile, of a file that is read.
Look(o) ==
  LET p == op[o].req.from
  IN  /\ op[o].pc = "look"
      /\ op' = [op EXCEPT ![o].pc    = IF file[p] = None THEN "error" ELSE "take",
                          ![o].bytes = file[p]]
      /\ UNCHANGED <<file, dirs, opened>> /\ Quiet

\* arrayBuffer: fails if the file has changed since.
Take(o) ==
  LET r == op[o].req
  IN  /\ op[o].pc = "take"
      /\ Goto(o, IF file[r.from] # op[o].bytes THEN "error"
                 ELSE IF r.kind \in OnTwo THEN "mkdir" ELSE "ok")
      /\ UNCHANGED <<file, dirs, opened>> /\ Quiet

\* Mutated form of Remove: a directory is removed without what is in it.
RemoveShallow(o) ==
  LET r == op[o].req
      gone == IF r.kind = "rmdir" THEN {} ELSE {r.from}
  IN  /\ op[o].pc = "remove"
      /\ file' = [p \in Paths |-> IF p \in gone THEN None ELSE file[p]]
      /\ dirs' = dirs \ {r.from}
      /\ Goto(o, "ok")
      /\ UNCHANGED opened /\ Quiet

\* removeEntry, recursive: fails if there is nothing, or if a stream is open.
Remove(o) ==
  LET r == op[o].req
      gone == IF r.kind = "rmdir" THEN Touched(r) ELSE {r.from}
      there == IF r.kind = "rmdir" THEN r.from \in dirs ELSE file[r.from] # None
  IN  /\ op[o].pc = "remove"
      /\ \/ /\ there /\ \A u \in opened : op[u].req.to \notin gone
            /\ file' = [p \in Paths |-> IF p \in gone THEN None ELSE file[p]]
            /\ dirs' = dirs \ {r.from}
            /\ Goto(o, "ok")
         \/ /\ ~there \/ \E u \in opened : op[u].req.to \in gone
            /\ Goto(o, "error")
            /\ UNCHANGED <<file, dirs>>
      /\ UNCHANGED opened /\ Quiet

-----------------------------------------------------------------------------
(* Failures.                                                               *)

\* An await fails (quota, permission, wrong base64): "?" returns the error, and a
\* stream that is open stays so until it is collected.
Fail(o) ==
  /\ CanFail /\ Running(o)
  /\ Goto(o, "error")
  /\ UNCHANGED <<file, dirs, opened>> /\ Quiet

Collect(o) ==
  /\ o \in opened /\ ~Running(o)
  /\ opened' = opened \ {o}
  /\ UNCHANGED <<file, dirs, op>> /\ Quiet

\* A worker is terminated, the session's own with its caches or another's.
Terminate(lost) ==
  /\ CanFail /\ lost # {}
  /\ op' = [o \in Ops |-> IF o \in lost THEN [op[o] EXCEPT !.pc = "lost"] ELSE op[o]]
  /\ opened' = opened \ lost
  /\ cache' \in {cache, NoCache}
  /\ UNCHANGED <<file, dirs, before, disturbed>>

\* The reset message clears both caches, also while operations of the panel run.
Reset ==
  /\ cache # NoCache
  /\ cache' = NoCache
  /\ UNCHANGED <<file, dirs, opened, op, before, disturbed>>

-----------------------------------------------------------------------------
Await(o) ==
  \/ EnsureDir(o) \/ EnsureFile(o) \/ Resolve(o) \/ Size(o) \/ Open(o) \/ Commit(o)
  \/ Look(o) \/ Take(o) \/ Remove(o)

Next ==
  \/ \E o \in Ops : Start(o) \/ TakeCached(o) \/ Await(o) \/ Fail(o) \/ Collect(o)
  \/ \E lost \in SUBSET {o \in Ops : Running(o)} : Terminate(lost)
  \/ Reset

Spec == Init /\ [][Next]_vars

-----------------------------------------------------------------------------
(* Properties.                                                             *)

\* Type invariant: files are in directories that exist, and open streams belong
\* to operations that write or have failed.
TypeOK ==
  /\ file \in [Paths -> Contents]
  /\ \A p \in Paths : file[p] # None => Exists(DirOf[p])
  /\ dirs \subseteq Dirs
  /\ opened \subseteq Ops
  /\ \A o \in opened : op[o].pc \in {"commit", "error"}
  /\ op \in [Ops -> Entries]
  /\ cache \in [Caches -> [Paths -> Contents]]
  /\ before \in [Ops -> [Paths -> Contents]]
  /\ disturbed \subseteq Ops

\* What an operation is meant to do to the file at p, given the files fs.
Effect(o, fs, p) ==
  LET r == op[o].req
  IN  CASE r.kind = "append" /\ p = r.to -> (IF fs[p] = None THEN <<>> ELSE fs[p]) \o <<o>>
        [] r.kind = "update" /\ p = r.to -> Put(fs[p], r.offset, <<o>>)
        [] r.kind \in OnTwo /\ p = r.to -> fs[r.from]
        [] r.kind = "move" /\ p # r.to -> None
        [] r.kind \in {"delete", "rmdir"} -> None
        [] r.kind \in {"write", "writeBase64", "fsCallBase64"} -> <<o>>
        [] OTHER -> fs[p]

\* An operation that reports success, while none overlapped it on its files, has
\* done what it says to them and nothing else, and what it read of them is what was
\* there, whatever failed, was cut off or ran elsewhere (all of opfs.rs).  Two cases
\* are left out: a move of a file to its own path, which deletes it, and setFiles of
\* a cached path (TakeCached), which reads no file and may send bytes older than it.
UndisturbedIsExact ==
  [][\A o \in Ops \ disturbed' :
       Running(o) /\ op'[o].pc = "ok"
         /\ ~(op[o].req.kind = "move" /\ op[o].req.from = op[o].req.to) =>
           /\ \A p \in Touched(op[o].req) : file'[p] = Effect(o, before[o], p)
           /\ op[o].req.kind \in {"read", "setFiles"} => op'[o].bytes = before[o][op[o].req.from]
    ]_vars

\* Between any two awaits of such an operation its files are whole, so a failure or
\* the end of the worker there loses nothing: the target is as it was, new and empty,
\* or (of a move, which then removes the source) complete; the source is untouched.
UndisturbedIsWhole ==
  \A o \in Ops \ disturbed :
    LET r == op[o].req
    IN  Running(o) => \A p \in Touched(r) :
          \/ file[p] = before[o][p]
          \/ p = r.to /\ before[o][p] = None /\ file[p] = <<>>
          \/ p = r.to /\ op[o].pc = "remove" /\ file[p] = before[o][r.from]

-----------------------------------------------------------------------------
(* The inductive invariant.                                                *)

\* The steps that an operation of a kind takes.
StepsOf(kind) ==
  CASE kind \in {"write", "writeBase64", "fsCallBase64"} -> {"mkdir", "create", "open", "commit"}
    [] kind = "append" -> {"resolve", "mkdir", "create", "size", "open", "commit"}
    [] kind = "update" -> {"resolve", "open", "commit"}
    [] kind = "copy"   -> {"look", "take", "mkdir", "create", "open", "commit"}
    [] kind = "move"   -> {"look", "take", "mkdir", "create", "open", "commit", "remove"}
    [] kind \in {"delete", "rmdir"}  -> {"remove"}
    [] kind \in {"read", "setFiles"} -> {"look", "take"}
    [] OTHER -> {"mkdir"}

\* A running operation has a request and is at a step of it; one that copies
\* holds the bytes once it has read them.
RunningIsTyped(o) ==
  LET r == op[o].req
  IN  Running(o) =>
        /\ r \in Requests /\ op[o].pc \in StepsOf(r.kind)
        /\ op[o].pc # "look" /\ r.kind \in OnTwo \cup {"read", "setFiles"} => op[o].bytes # None

\* An open stream keeps its file from being removed.
OpenIsThere(o) == op[o].pc = "commit" => o \in opened /\ file[op[o].req.to] # None

\* Two running operations on one file are both known to be disturbed.
OverlapIsSeen(o, u) ==
  o # u /\ Running(o) /\ Running(u) /\ Touched(op[o].req) \cap Touched(op[u].req) # {}
    => o \in disturbed /\ u \in disturbed

Created(content) == IF content = None THEN <<>> ELSE content

\* What an operation that none overlapped has done to its target and to its
\* other files.
HasDone(o) ==
  LET r  == op[o].req
      pc == op[o].pc
  IN  /\ \A p \in Touched(r) : p # r.to => file[p] = before[o][p]
      /\ r.to \in Touched(r) =>
           CASE pc \in {"size", "open", "commit"}  -> file[r.to] = Created(before[o][r.to])
             [] pc = "remove" /\ r.kind = "move" -> file[r.to] = before[o][r.from]
             [] OTHER -> file[r.to] = before[o][r.to]

\* What it knows of them.
Knows(o) ==
  LET r  == op[o].req
      pc == op[o].pc
  IN  /\ r.kind \in OnTwo \cup {"read", "setFiles"} /\ pc # "look" => op[o].bytes = before[o][r.from]
      /\ r.kind = "update" /\ pc \in {"open", "commit"} => before[o][r.to] # None
      /\ r.kind = "append" /\ pc \in {"open", "commit"} => op[o].size = Len(file[r.to])
      /\ pc = "commit" =>
           op[o].swap = IF r.kind \in {"append", "update"} THEN file[r.to] ELSE <<>>

InStep(o) == Running(o) /\ o \notin disturbed => HasDone(o) /\ Knows(o)

FilesInv ==
  /\ TypeOK
  /\ \A o \in Ops : RunningIsTyped(o) /\ OpenIsThere(o) /\ InStep(o)
  /\ \A o, u \in Ops : OverlapIsSeen(o, u)
=============================================================================
