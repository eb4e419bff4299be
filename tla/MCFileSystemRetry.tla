------------------------- MODULE MCFileSystemRetry -------------------------
(***************************************************************************)
(* FileSystemRetry with the tree of MCFileSystem.                          *)
(***************************************************************************)
EXTENDS MCFileSystem, FileSystemRetry
=============================================================================
