--------------------------- MODULE FileSystemRetry ---------------------------
(***************************************************************************)
(* FileSystem with a history variable that tells the calls nothing         *)
(* disturbed, to say what a removal promises the caller who has the tree   *)
(* to himself.                                                             *)
(***************************************************************************)
EXTENDS FileSystem

(* A directory has one name in the tree the calls find, and "/" has none:  *)
(* there are no hard links to directories.                                 *)
ASSUME OneNameAssumption ==
    /\ \A i, j \in Inodes, n, m \in Names :
          /\ InitChild[i][n] # None /\ InitKind[InitChild[i][n]] = "dir"
          /\ InitChild[i][n] = InitChild[j][m]
          => i = j /\ n = m
    /\ \A i \in Inodes, n \in Names : InitChild[i][n] # RootDir

(* undisturbed[p]: the call of p began when its directory was there and no *)
(* other call was running, and none has begun since.                       *)
VARIABLE undisturbed

(* The path leads down from the root to a directory, through no link.      *)
Direct(path) ==
    \A n \in 0..Len(path) :
        exists(Prefix(path, n)) /\ kind[Lookup(Prefix(path, n))] = "dir"

HistoryInit == undisturbed = [p \in Procs |-> FALSE]

Begins(p) == result[p] = "none" /\ result'[p] # "none"

HistoryNext ==
    undisturbed' =
        [p \in Procs |->
            /\ ~\E q \in Procs \ {p} : Begins(q)
            /\ IF Begins(p)
               THEN Direct(task'[p].path) /\ \A q \in Procs : result[q] # "running"
               ELSE undisturbed[p]]

HistorySpec ==
    /\ Init /\ HistoryInit
    /\ [][Next /\ HistoryNext]_<<vars, undisturbed>>
    /\ \A p \in Procs : WF_vars(Continue(p))

(* Removers that take entries away from under each other throw, and it may *)
(* be that all of them do.  What they leave can be removed: a call of      *)
(* removeDirectoryRecursive() that nothing disturbs returns, whatever was  *)
(* interrupted before it.                                                  *)
RetryRemoves ==
    \A p \in Procs :
        undisturbed[p] /\ result[p] = "threw" => task[p].op = "make"
=============================================================================
