----------------------------- MODULE MCLanFiles -----------------------------
(* LanFiles on a small tree: /a is a directory that holds the file /a/b, and
   outDir, outside the share, holds another file under the same name. *)
EXTENDS LanFiles, TLC

CONSTANTS rootDir, subDir, outDir, newDir, inFile, outFile

MCTree ==
  (rootDir :> ("a" :> subDir @@ "b" :> None)) @@ (subDir :> ("a" :> None @@ "b" :> inFile))
  @@ (outDir :> ("a" :> None @@ "b" :> outFile)) @@ (newDir :> ("a" :> None @@ "b" :> None))

MCPayload == <<-1, -1>>

MCRequest ==
  {[op |-> k, path |-> <<"a", "b">>] : k \in {"stat", "read", "write"}}
  \cup {[op |-> "write", path |-> <<"b">>], [op |-> "mkdir", path |-> <<"b">>],
        [op |-> "list", path |-> <<"a">>]}

\* Temporary files are interchangeable.
Symmetry == Permutations(Fresh)
=============================================================================
