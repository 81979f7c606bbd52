------------------------------- MODULE MCFiles -------------------------------
(* Three parts around MFS, each on its own: the writable mount (FuseTree), the *)
(* `ipfs files` commands (FilesCmds) and the life of the mounts (Mounts).      *)
EXTENDS FuseTree, FilesCmds, Mounts

VARIABLE part

vars == <<part, treeVars, fileVars, mountVars>>

MCPaths == {<<"a">>, <<"b">>, <<"a", "f">>, <<"b", "f">>}
\* An empty tree, a directory with a file, two directories.
MCStart == {{}, {<<"a">>, <<"a", "f">>}, {<<"a">>, <<"b">>}}
MCFileNames == {<<"a", "f">>, <<"b", "f">>}

\* (The two directories of the commands' tree are alike: only one starts with a
\* file.)
Init ==
  /\ part \in {"tree", "files", "mounts"}
  /\ TreeInit /\ FilesInit /\ MountsInit
  /\ part # "tree" => \A p \in TreePaths : ~At(p)
  /\ ~Here(<<"b", "f">>)
  /\ part # "files" => counter = 0 /\ \A p \in FilePaths : ~Here(p)

\* (Two directories that are there at the start are alike: what happens first
\* happens to a.)
FirstToA ==
  At(<<"b">>) /\ nops = 0 /\ numbers = {} =>
    node'[<<"b">>] = NoNode /\ req'.old # <<"b">> /\ tree'[<<"b", "f">>] = NoEntry

Next ==
  \/ part = "tree" /\ TreeNext /\ FirstToA /\ UNCHANGED <<part, fileVars, mountVars>>
  \/ part = "files" /\ FilesNext /\ UNCHANGED <<part, treeVars, mountVars>>
  \/ part = "mounts" /\ MountsNext /\ UNCHANGED <<part, treeVars, fileVars>>

Spec == Init /\ [][Next]_vars
=============================================================================
