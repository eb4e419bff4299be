---------------------------- MODULE MCFileSystem ----------------------------
(***************************************************************************)
(* Model-checking instances of FileSystem.  The tree at first:             *)
(*                                                                         *)
(*   /a/a/f   a file below two directories                                 *)
(*   /a/b     a symbolic link to /b                                        *)
(*   /b/f     a file in the directory the link leads to                    *)
(*   /f       a file                                                       *)
(***************************************************************************)
EXTENDS FileSystem, TLC

CONSTANTS root, a, aa, aaf, link, out, outf, f, new1, new2, new3, new4

Tree == {root, a, aa, aaf, link, out, outf, f}
MCInodes == Tree \cup {new1, new2, new3, new4}

MCKind ==
    [i \in MCInodes |->
        CASE i \in {root, a, aa, out} -> "dir"
          [] i \in {aaf, outf, f} -> "file"
          [] i = link -> "link"
          [] OTHER -> "free"]

Entries ==
    (root :> [a |-> a, b |-> out, f |-> f]) @@
    (a :> [a |-> aa, b |-> link, f |-> None]) @@
    (aa :> [a |-> None, b |-> None, f |-> aaf]) @@
    (out :> [a |-> None, b |-> None, f |-> outf])

MCNames == {"a", "b", "f"}

MCChild ==
    [i \in MCInodes |->
        IF i \in DOMAIN Entries THEN Entries[i] ELSE [n \in MCNames |-> None]]

(* The same tree without /a/a/f.                                           *)
SmallerChild == [MCChild EXCEPT ![aa] = [n \in MCNames |-> None]]

(* Makers meet below a directory and below a file.                         *)
Crossing == {<<>>, <<"a", "f", "a">>, <<"a", "f", "b">>, <<"f">>, <<"f", "a">>}

WholeTree == {<<"a">>}
TreeAndSubtree == {<<"a">>, <<"a", "a">>}
Refill == {<<"a", "f">>}
Symmetry == Permutations(Procs)
=============================================================================
