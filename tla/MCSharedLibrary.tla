-------------------------- MODULE MCSharedLibrary --------------------------
(***************************************************************************)
(* Model-checking instance of SharedLibrary: one library, /d1/libfoo.so,   *)
(* which can be named by its path or by a directory and a base name, and   *)
(* one bare file name that the loader rejects.                             *)
(***************************************************************************)
EXTENDS SharedLibrary, TLC

CONSTANT d1

Prefix == <<"lib">>
Suffix == <<".so">>

Library == [dir |-> d1, name |-> <<"lib", "foo", ".so">>]
BareName == [dir |-> NoDir, name |-> <<"foo">>]

MCTokens == {"lib", "foo", ".so"}
MCDirs == {d1}
MCNames == {<<>>, <<"foo">>}
MCPaths == {Library, BareName, EmptyPath}
MCLoadable == {Library}

Symmetry == Permutations(Objects)
=============================================================================
