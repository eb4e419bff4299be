----------------------------- MODULE FileSystem -----------------------------
(***************************************************************************)
(* pctk::FileSystem::makePath() and removeDirectoryRecursive() called by   *)
(* several threads or processes on one POSIX file system.  Every system    *)
(* call (mkdir, opendir, readdir, unlink, rmdir) is a step of its own, so  *)
(* the callers interleave wherever the code lets them.  Each process makes *)
(* one call, begun at any time; a second call of a process is the call of  *)
(* another process that begins later.                                      *)
(*                                                                         *)
(* The file system is a set of inodes: the directories name their entries. *)
(* A path is the sequence of its components below "/", which is what       *)
(* splitString() makes of it.  Symbolic links lead to one directory,       *)
(* Outside.                                                                *)
(***************************************************************************)
EXTENDS Integers, Sequences, FiniteSets

CONSTANTS
    Procs,         \* the callers
    Names,         \* the names of directory entries
    Inodes,        \* the inodes; those not used at first can be created
    RootDir,       \* "/"
    Outside,       \* the directory symbolic links lead to
    None,          \* no inode
    InitKind,      \* the tree the calls find: what each inode is ...
    InitChild,     \* ... and the entries of each directory
    MakePaths,     \* arguments of makePath()
    RemovePaths,   \* arguments of removeDirectoryRecursive()
    Failures       \* whether system calls may fail for reasons of their own
                   \* (permissions, a full disk), and readdir() may not know
                   \* the type of an entry

Kinds == {"free", "dir", "file", "link"}

ASSUME InodesAssumption == {RootDir, Outside} \subseteq Inodes /\ None \notin Inodes
ASSUME InitKindAssumption ==
    InitKind \in [Inodes -> Kinds] /\ InitKind[RootDir] = "dir" /\ InitKind[Outside] = "dir"
ASSUME InitChildAssumption ==
    /\ InitChild \in [Inodes -> [Names -> Inodes \cup {None}]]
    /\ \A i \in Inodes, n \in Names :
          InitChild[i][n] # None => InitKind[i] = "dir" /\ InitKind[InitChild[i][n]] # "free"
ASSUME PathsAssumption ==
    MakePaths \subseteq Seq(Names) /\ RemovePaths \subseteq Seq(Names) \ {<<>>}
ASSUME FailuresAssumption == Failures \in BOOLEAN

VARIABLES
    kind,      \* kind[i]: what inode i is
    child,     \* child[i]: the entries of directory i
    task,      \* task[p]: the call p makes
    stack,     \* stack[p]: the activations of removeDirectoryRecursive()
    result,    \* result[p]: how the call of p ended: it threw because of what
               \* was in the tree, or failed for a reason of its own
    streams    \* streams[p]: DIR streams p has opened and not closed

tree == <<kind, child>>
vars == <<kind, child, task, stack, result, streams>>

Types == {"none", "dir", "file", "link"}

NoTask == [op |-> "none", path |-> <<>>, pos |-> 0]

Tasks == [op : {"none", "make", "remove"}, path : Seq(Names), pos : Nat]

Frames ==
    [path : Seq(Names),                          \* the argument
     phase : {"open", "scan", "unlink", "rmdir"},
     dir : Inodes \cup {None},                   \* the stream's directory
     before : [Names -> Types],                  \* its entries at opendir()
     seen : SUBSET Names,                        \* those readdir() returned
     entry : Names \cup {None}]                  \* the one to unlink

TypeOK ==
    /\ kind \in [Inodes -> Kinds]
    /\ child \in [Inodes -> [Names -> Inodes \cup {None}]]
    /\ task \in [Procs -> Tasks]
    /\ stack \in [Procs -> Seq(Frames)]
    /\ result \in [Procs -> {"none", "running", "ok", "threw", "failed"}]
    /\ streams \in [Procs -> Nat]

-----------------------------------------------------------------------------
(* The directory a path goes on in after inode i.                          *)
Enter(i) ==
    IF i = None \/ kind[i] \notin {"dir", "link"} THEN None
    ELSE IF kind[i] = "link" THEN Outside ELSE i

(* The inode a path names, not following a link at its end.                *)
Lookup(path) ==
    LET at[n \in 0..Len(path)] ==
            IF n = 0 THEN RootDir
            ELSE LET d == Enter(at[n - 1])
                 IN  IF d = None THEN None ELSE child[d][path[n]]
    IN  at[Len(path)]

Prefix(path, n) == SubSeq(path, 1, n)
ParentDir(path) == Enter(Lookup(Prefix(path, Len(path) - 1)))
LastName(path) == path[Len(path)]

(* exists() and isDirectory() of the class: stat() follows links.          *)
exists(path) == Lookup(path) # None
isDirectory(path) == Enter(Lookup(path)) # None

TypeNow(d, n) == IF child[d][n] = None THEN "none" ELSE kind[child[d][n]]

IsEmptyDir(i) == i # None /\ kind[i] = "dir" /\ \A n \in Names : child[i][n] = None

-----------------------------------------------------------------------------
(* What the kernel does to the tree.                                       *)
Links(d, n, i) == child' = [child EXCEPT ![d][n] = i]

Creates(path) ==
    LET i == CHOOSE x \in Inodes : kind[x] = "free"
    IN  /\ \E x \in Inodes : kind[x] = "free"
        /\ kind' = [kind EXCEPT ![i] = "dir"]
        /\ Links(ParentDir(path), LastName(path), i)

Unlinks(path) ==
    /\ Links(ParentDir(path), LastName(path), None)
    /\ UNCHANGED kind

-----------------------------------------------------------------------------
Running(p, op) == result[p] = "running" /\ task[p].op = op

Ends(p, how) == result' = [result EXCEPT ![p] = how]

(* makePath(path): nothing to do for a path without components.            *)
BeginMake(p, path) ==
    /\ result[p] = "none"
    /\ task' = [task EXCEPT ![p] = [op |-> "make", path |-> path, pos |-> 1]]
    /\ Ends(p, IF path = <<>> THEN "ok" ELSE "running")
    /\ UNCHANGED <<tree, stack, streams>>

MakesNow(p) == Prefix(task[p].path, task[p].pos)

(* Mutant: the last component is left to the caller.                       *)
MakesNextShort(p) ==
    IF task[p].pos + 1 < Len(task[p].path)
    THEN task' = [task EXCEPT ![p].pos = @ + 1] /\ UNCHANGED result
    ELSE Ends(p, "ok") /\ UNCHANGED task

(* ... the loop goes on to the next component, or the call returns.        *)
MakesNext(p) ==
    IF task[p].pos < Len(task[p].path)
    THEN task' = [task EXCEPT ![p].pos = @ + 1] /\ UNCHANGED result
    ELSE Ends(p, "ok") /\ UNCHANGED task

(* ... mkdir() makes the next prefix.                                      *)
Mkdir(p) ==
    /\ Running(p, "make")
    /\ ParentDir(MakesNow(p)) # None
    /\ ~exists(MakesNow(p))
    /\ Creates(MakesNow(p))
    /\ MakesNext(p)
    /\ UNCHANGED <<stack, streams>>

(* Mutant: EEXIST is an error like any other.                              *)
MkdirExistsThrows(p) ==
    /\ Running(p, "make")
    /\ exists(MakesNow(p))
    /\ Ends(p, "threw")
    /\ UNCHANGED <<tree, task, stack, streams>>

(* Mutant: after EEXIST the same component is tried again.                 *)
MkdirExistsRetries(p) ==
    /\ Running(p, "make")
    /\ exists(MakesNow(p))
    /\ UNCHANGED vars

(* ... mkdir() fails with EEXIST, whatever is there: it goes on.           *)
MkdirExists(p) ==
    /\ Running(p, "make")
    /\ exists(MakesNow(p))
    /\ MakesNext(p)
    /\ UNCHANGED <<tree, stack, streams>>

(* ... mkdir() fails otherwise: it throws.  (Failures for other reasons:   *)
(* SystemFails.)                                                           *)
MkdirFails(p) ==
    /\ Running(p, "make")
    /\ ParentDir(MakesNow(p)) = None
    /\ Ends(p, "threw")
    /\ UNCHANGED <<tree, task, stack, streams>>

-----------------------------------------------------------------------------
Top(p) == stack[p][Len(stack[p])]
InPhase(p, phase) == Running(p, "remove") /\ Top(p).phase = phase

Frame(path) ==
    [path |-> path, phase |-> "open", dir |-> None,
     before |-> [n \in Names |-> "none"], seen |-> {}, entry |-> None]

Becomes(p, frame) == stack' = [stack EXCEPT ![p][Len(stack[p])] = frame]

(* The exception leaves every activation; the enclosing ones do not close  *)
(* their streams.                                                          *)
Throws(p) ==
    /\ Ends(p, "threw")
    /\ stack' = [stack EXCEPT ![p] = <<>>]
    /\ UNCHANGED <<tree, task>>

BeginRemove(p, path) ==
    /\ result[p] = "none"
    /\ task' = [task EXCEPT ![p] = [op |-> "remove", path |-> path, pos |-> 0]]
    /\ stack' = [stack EXCEPT ![p] = <<Frame(path)>>]
    /\ Ends(p, "running")
    /\ UNCHANGED <<tree, streams>>

(* opendir() follows a link.                                               *)
Opendir(p) ==
    LET d == Enter(Lookup(Top(p).path))
    IN  /\ InPhase(p, "open")
        /\ d # None
        /\ Becomes(p, [Top(p) EXCEPT !.phase = "scan", !.dir = d,
                                     !.before = [n \in Names |-> TypeNow(d, n)]])
        /\ streams' = [streams EXCEPT ![p] = @ + 1]
        /\ UNCHANGED <<tree, task, result>>

OpendirFails(p) ==
    /\ InPhase(p, "open")
    /\ Enter(Lookup(Top(p).path)) = None
    /\ Throws(p)
    /\ UNCHANGED streams

(* Mutant: a link to a directory is taken for a directory, as where there  *)
(* is no d_type and isDirectory() answers.                                 *)
FollowedTypes(frame, n) ==
    LET types == {frame.before[n], TypeNow(frame.dir, n)} \ {"none"}
    IN  {IF t = "link" THEN "dir" ELSE t : t \in types}

(* The types readdir() may give for entry n: the stream may have buffered  *)
(* the entry since opendir().                                              *)
EntryTypes(frame, n) ==
    LET types == {frame.before[n], TypeNow(frame.dir, n)} \ {"none"}
    IN  IF types # {} /\ Failures THEN types \cup {"unknown"} ELSE types

(* readdir() returns an entry: a directory is removed recursively ...      *)
ReadDirectory(p) ==
    /\ InPhase(p, "scan")
    /\ \E n \in Names \ Top(p).seen :
          /\ "dir" \in EntryTypes(Top(p), n)
          /\ stack' = [stack EXCEPT ![p] =
                Append([@ EXCEPT ![Len(stack[p])] = [Top(p) EXCEPT !.seen = @ \cup {n}]],
                       Frame(Append(Top(p).path, n)))]
    /\ UNCHANGED <<tree, task, result, streams>>

(* ... and anything else is to be unlinked.                                *)
ReadOther(p) ==
    /\ InPhase(p, "scan")
    /\ \E n \in Names \ Top(p).seen :
          /\ EntryTypes(Top(p), n) \ {"dir"} # {}
          /\ Becomes(p, [Top(p) EXCEPT !.phase = "unlink", !.entry = n,
                                       !.seen = @ \cup {n}])
    /\ UNCHANGED <<tree, task, result, streams>>

(* Mutant: the stream stays open.                                          *)
EndOfStreamLeaks(p) ==
    /\ InPhase(p, "scan")
    /\ \A n \in Names \ Top(p).seen : TypeNow(Top(p).dir, n) = "none"
    /\ Becomes(p, [Top(p) EXCEPT !.phase = "rmdir"])
    /\ UNCHANGED <<tree, task, result, streams>>

(* Mutant: the loop ends after one entry.                                  *)
EndOfStreamEarly(p) ==
    /\ InPhase(p, "scan")
    /\ \/ Top(p).seen # {}
       \/ \A n \in Names : TypeNow(Top(p).dir, n) = "none"
    /\ Becomes(p, [Top(p) EXCEPT !.phase = "rmdir"])
    /\ streams' = [streams EXCEPT ![p] = @ - 1]
    /\ UNCHANGED <<tree, task, result>>

(* readdir() returns null: it has returned every entry that was there all  *)
(* the time, or it failed, which is not told apart.  The stream is closed. *)
EndOfStream(p) ==
    /\ InPhase(p, "scan")
    /\ \/ Failures
       \/ \A n \in Names \ Top(p).seen :
             Top(p).before[n] = "none" \/ TypeNow(Top(p).dir, n) = "none"
    /\ Becomes(p, [Top(p) EXCEPT !.phase = "rmdir"])
    /\ streams' = [streams EXCEPT ![p] = @ - 1]
    /\ UNCHANGED <<tree, task, result>>

EntryPath(p) == Append(Top(p).path, Top(p).entry)

Unlinkable(path) == exists(path) /\ kind[Lookup(path)] # "dir"

Unlink(p) ==
    /\ InPhase(p, "unlink")
    /\ Unlinkable(EntryPath(p))
    /\ Unlinks(EntryPath(p))
    /\ Becomes(p, [Top(p) EXCEPT !.phase = "scan", !.entry = None])
    /\ UNCHANGED <<task, result, streams>>

(* Mutant: the stream is closed where the error is met and after the loop. *)
UnlinkFailsClosesTwice(p) ==
    /\ InPhase(p, "unlink")
    /\ ~Unlinkable(EntryPath(p))
    /\ Throws(p)
    /\ streams' = [streams EXCEPT ![p] = @ - 2]

(* unlink() fails: the loop ends, the stream is closed, the call throws.   *)
UnlinkFails(p) ==
    /\ InPhase(p, "unlink")
    /\ ~Unlinkable(EntryPath(p))
    /\ Throws(p)
    /\ streams' = [streams EXCEPT ![p] = @ - 1]

(* rmdir() removes the directory; the enclosing activation goes on.        *)
Rmdir(p) ==
    /\ InPhase(p, "rmdir")
    /\ IsEmptyDir(Lookup(Top(p).path))
    /\ Unlinks(Top(p).path)
    /\ stack' = [stack EXCEPT ![p] = SubSeq(@, 1, Len(@) - 1)]
    /\ IF Len(stack[p]) = 1 THEN Ends(p, "ok") ELSE UNCHANGED result
    /\ UNCHANGED <<task, streams>>

(* Mutant: the result of rmdir() is ignored.                               *)
RmdirIgnored(p) ==
    /\ InPhase(p, "rmdir")
    /\ ~IsEmptyDir(Lookup(Top(p).path))
    /\ stack' = [stack EXCEPT ![p] = SubSeq(@, 1, Len(@) - 1)]
    /\ IF Len(stack[p]) = 1 THEN Ends(p, "ok") ELSE UNCHANGED result
    /\ UNCHANGED <<tree, task, streams>>

(* rmdir() fails: the call throws.                                         *)
RmdirFails(p) ==
    /\ InPhase(p, "rmdir")
    /\ ~IsEmptyDir(Lookup(Top(p).path))
    /\ Throws(p)
    /\ UNCHANGED streams

(* mkdir(), opendir(), unlink() or rmdir() fails for reasons of its own:   *)
(* the call throws, and closes the stream it was reading.                  *)
SystemFails(p) ==
    /\ Failures
    /\ result[p] = "running"
    /\ ~InPhase(p, "scan")
    /\ Ends(p, "failed")
    /\ stack' = [stack EXCEPT ![p] = <<>>]
    /\ streams' = [streams EXCEPT ![p] = IF InPhase(p, "unlink") THEN @ - 1 ELSE @]
    /\ UNCHANGED <<tree, task>>

-----------------------------------------------------------------------------
Init ==
    /\ kind = InitKind
    /\ child = InitChild
    /\ task = [p \in Procs |-> NoTask]
    /\ stack = [p \in Procs |-> <<>>]
    /\ result = [p \in Procs |-> "none"]
    /\ streams = [p \in Procs |-> 0]

Continue(p) ==
    \/ Mkdir(p) \/ MkdirExists(p) \/ MkdirFails(p)
    \/ Opendir(p) \/ OpendirFails(p)
    \/ ReadDirectory(p) \/ ReadOther(p) \/ EndOfStream(p)
    \/ Unlink(p) \/ UnlinkFails(p)
    \/ Rmdir(p) \/ RmdirFails(p)
    \/ SystemFails(p)

Next ==
    \E p \in Procs :
        \/ \E path \in MakePaths : BeginMake(p, path)
        \/ \E path \in RemovePaths : BeginRemove(p, path)
        \/ Continue(p)

Spec == Init /\ [][Next]_vars

(* A call, once begun, is executed: its thread is scheduled.               *)
FairSpec == Spec /\ \A p \in Procs : WF_vars(Continue(p))

-----------------------------------------------------------------------------
Ended(p) == result[p] \in {"ok", "threw", "failed"}
Made(p) == task[p].op = "make" /\ result[p] = "ok"
Removed(p) == task[p].op = "remove" /\ result[p] = "ok"

NobodyCalls(op) == \A p \in Procs : task[p].op # op

(* While nobody removes: when a call of makePath() has returned, what it   *)
(* was to make is there, below directories, although any of it may have    *)
(* been made by others between two of its mkdir() calls.                   *)
MadePathStands ==
    NobodyCalls("remove") =>
        \A p \in Procs :
            Made(p) => /\ exists(task[p].path)
                       /\ \A n \in 0..(Len(task[p].path) - 1) :
                             isDirectory(Prefix(task[p].path, n))

(* While nobody removes: makers never throw because of each other, only    *)
(* because a file is in the way.                                           *)
MakersNeverClash ==
    NobodyCalls("remove") =>
        \A p \in Procs :
            result[p] = "threw" =>
                \E n \in 1..(Len(task[p].path) - 1) :
                    /\ exists(Prefix(task[p].path, n))
                    /\ ~isDirectory(Prefix(task[p].path, n))

(* While nobody makes: a directory whose removal returned is gone, ...     *)
RemovedIsGone ==
    NobodyCalls("make") => \A p \in Procs : Removed(p) => ~exists(task[p].path)

(* ... and only one of the callers that remove it is told it did.          *)
RemovedByOne ==
    NobodyCalls("make") =>
        \A p, q \in Procs :
            Removed(p) /\ Removed(q) /\ task[p].path = task[q].path => p = q

(* Removal stays inside the directory it was given: the links in it are    *)
(* unlinked, not followed, whatever the others do at the same time.  (A    *)
(* link given as the argument itself is followed by opendir().)            *)
OutsideKept == child[Outside] = InitChild[Outside]

(* A call that returns has closed every directory stream it opened; one    *)
(* that throws has not (it leaves those of the enclosing directories).     *)
StreamsClosed == \A p \in Procs : result[p] = "ok" => streams[p] = 0

(* Every call that has begun returns or throws.                            *)
EveryCallEnds == \A p \in Procs : (result[p] = "running") ~> Ended(p)
=============================================================================
