------------------------------- MODULE MCFiles -------------------------------
(* Small instances of Files: a file in a directory and one in the root.        *)
EXTENDS Files, TLC

CONSTANTS o1, o2, a, b, dir

MCOps      == {o1, o2}
MCPaths    == {a, b}
MCDirOf    == (a :> dir) @@ (b :> None)

AllKinds == {"write", "writeBase64", "fsCallBase64", "append", "update", "copy", "move",
             "delete", "mkdir", "rmdir", "read", "setFiles"}

OpSymmetry == Permutations(Ops)
=============================================================================
