-------------------------- MODULE FileSystemProofs --------------------------
(***************************************************************************)
(* What makePath() and removeDirectoryRecursive() keep, for any tree, any  *)
(* number of callers and any paths: makers do not disturb each other,      *)
(* removers do not both succeed and stay in the trees they were given,     *)
(* calls that return close their streams, and a removal that nothing       *)
(* disturbs returns.                                                       *)
(***************************************************************************)
EXTENDS FileSystemRetry, SequenceTheorems, WellFoundedInduction, TLAPS

(* Any set of numbers has a least one.                                     *)
LEMMA LeastNatural ==
    ASSUME NEW T, T \subseteq Nat, T # {}
    PROVE  \E m \in T : \A j \in T : m <= j
<1>1. PICK m \in T : \A j \in T : ~ (<<j, m>> \in OpToRel(<, Nat))
    BY NatLessThanWellFounded, WFMin
<1>2. \A j \in T : ~(j < m)
    BY <1>1 DEF OpToRel
<1> QED BY <1>2

-----------------------------------------------------------------------------
(* Paths.  Lookup() is a recursive function: that it exists is shown by    *)
(* the least length for which it would not.                                *)
Below(i, n, path) == LET d == Enter(i) IN IF d = None THEN None ELSE child[d][path[n]]

Visits(at, path, k) ==
    at = [n \in 0..k |-> IF n = 0 THEN RootDir ELSE Below(at[n - 1], n, path)]

Visited(path) == CHOOSE at : Visits(at, path, Len(path))

LEMMA LookupVisits == ASSUME NEW path PROVE Lookup(path) = Visited(path)[Len(path)]
BY DEF Lookup, Visited, Visits, Below

LEMMA VisitsExist ==
    ASSUME NEW path, NEW k \in Nat
    PROVE  \E at : Visits(at, path, k)
<1> DEFINE missing == {m \in Nat : ~ \E at : Visits(at, path, m)}
<1>1. SUFFICES ASSUME missing # {} PROVE FALSE
    OBVIOUS
<1>2. PICK m \in missing : \A j \in missing : m <= j
    BY <1>1, LeastNatural
<1>3. CASE m = 0
    <2>1. Visits([n \in 0..0 |-> RootDir], path, 0)
        BY DEF Visits
    <2> QED BY <1>2, <1>3, <2>1
<1>4. CASE m # 0
    <2>1. m - 1 \in Nat /\ m - 1 \notin missing
        BY <1>2, <1>4
    <2>2. PICK g : Visits(g, path, m - 1)
        BY <2>1
    <2> DEFINE f == [n \in 0..m |-> IF n < m THEN g[n] ELSE Below(g[m - 1], m, path)]
    <2>3. \A n \in 0..m - 1 : g[n] = IF n = 0 THEN RootDir ELSE Below(g[n - 1], n, path)
        BY <2>2 DEF Visits
    <2>4. \A n \in 0..m : f[n] = IF n = 0 THEN RootDir ELSE Below(f[n - 1], n, path)
        BY <1>2, <1>4, <2>3
    <2>5. Visits(f, path, m)
        BY <2>4 DEF Visits
    <2> QED BY <1>2, <2>5
<1> QED BY <1>3, <1>4

(* Two paths that agree up to n lead to the same inode there.              *)
LEMMA VisitsAgree ==
    ASSUME NEW p, NEW q, NEW j \in Nat, NEW k \in Nat, NEW f, NEW g,
           Visits(f, p, j), Visits(g, q, k),
           NEW m \in Nat, m <= j, m <= k, \A n \in 1..m : p[n] = q[n]
    PROVE  f[m] = g[m]
<1> DEFINE wrong == {n \in Nat : n <= m /\ f[n] # g[n]}
<1>1. SUFFICES ASSUME wrong # {} PROVE FALSE
    OBVIOUS
<1>2. PICK n \in wrong : \A i \in wrong : n <= i
    BY <1>1, LeastNatural
<1>3. f[n] = IF n = 0 THEN RootDir ELSE Below(f[n - 1], n, p)
    BY <1>2 DEF Visits
<1>4. g[n] = IF n = 0 THEN RootDir ELSE Below(g[n - 1], n, q)
    BY <1>2 DEF Visits
<1>5. CASE n = 0
    BY <1>2, <1>3, <1>4, <1>5
<1>6. CASE n # 0
    <2>1. f[n - 1] = g[n - 1]
        BY <1>2, <1>6
    <2>2. p[n] = q[n]
        BY <1>2, <1>6
    <2> QED BY <1>2, <1>3, <1>4, <1>6, <2>1, <2>2 DEF Below
<1> QED BY <1>5, <1>6
LEMMA VisitedVisits == ASSUME NEW path \in Seq(Names) PROVE Visits(Visited(path), path, Len(path))
BY VisitsExist, LenProperties DEF Visited

(* A prefix, and the prefixes of a prefix.                                 *)
LEMMA PrefixIs ==
    ASSUME NEW path \in Seq(Names), NEW n \in 0..Len(path)
    PROVE  /\ Prefix(path, n) \in Seq(Names) /\ Len(Prefix(path, n)) = n
           /\ \A i \in 1..n : Prefix(path, n)[i] = path[i]
<1>1. Len(path) \in Nat /\ \A i \in 1..n : path[i] \in Names
    BY LenProperties, ElementOfSeq
<1> QED BY <1>1, SubSeqProperties DEF Prefix

LEMMA PrefixOfPrefix ==
    ASSUME NEW path \in Seq(Names), NEW n \in 0..Len(path), NEW m \in 0..n
    PROVE  Prefix(Prefix(path, n), m) = Prefix(path, m)
<1>1. Len(path) \in Nat /\ m \in 0..Len(path)
    BY LenProperties
<1>2. /\ Prefix(path, n) \in Seq(Names) /\ Len(Prefix(path, n)) = n
      /\ \A i \in 1..n : Prefix(path, n)[i] = path[i]
    BY PrefixIs
<1>3. /\ Prefix(path, m) \in Seq(Names) /\ Len(Prefix(path, m)) = m
      /\ \A i \in 1..m : Prefix(path, m)[i] = path[i]
    BY <1>1, PrefixIs
<1>4. /\ Prefix(Prefix(path, n), m) \in Seq(Names) /\ Len(Prefix(Prefix(path, n), m)) = m
      /\ \A i \in 1..m : Prefix(Prefix(path, n), m)[i] = Prefix(path, n)[i]
    BY <1>2, PrefixIs
<1> QED BY <1>1, <1>2, <1>3, <1>4, SeqEqual

LEMMA PrefixFull == ASSUME NEW path \in Seq(Names) PROVE Prefix(path, Len(path)) = path
BY SubSeqFull DEF Prefix

(* How Lookup() goes on from a prefix to the next.                         *)
LookupsStep ==
    \A path \in Seq(Names) :
        /\ Lookup(Prefix(path, 0)) = RootDir
        /\ \A n \in 1..Len(path) :
              Lookup(Prefix(path, n)) = Below(Lookup(Prefix(path, n - 1)), n, path)

LEMMA LookupSteps == LookupsStep
<1> SUFFICES ASSUME NEW path \in Seq(Names)
             PROVE  /\ Lookup(Prefix(path, 0)) = RootDir
                    /\ \A n \in 1..Len(path) :
                          Lookup(Prefix(path, n)) = Below(Lookup(Prefix(path, n - 1)), n, path)
    BY DEF LookupsStep
<1>1. Len(path) \in Nat
    BY LenProperties
<1> DEFINE f == Visited(path)
<1>2. Visits(f, path, Len(path))
    BY VisitedVisits
<1>3. ASSUME NEW n \in 0..Len(path) PROVE Lookup(Prefix(path, n)) = f[n]
    <2> DEFINE g == Visited(Prefix(path, n))
    <2>1. /\ Prefix(path, n) \in Seq(Names) /\ Len(Prefix(path, n)) = n
          /\ \A i \in 1..n : Prefix(path, n)[i] = path[i]
        BY PrefixIs
    <2>2. Visits(g, Prefix(path, n), n)
        BY <2>1, VisitedVisits
    <2>3. g[n] = f[n]
        <3> HIDE DEF f, g
        <3> QED BY <1>1, <1>2, <2>1, <2>2, VisitsAgree
    <2> QED BY <2>1, <2>3, LookupVisits
<1>4. \A n \in 0..Len(path) : f[n] = IF n = 0 THEN RootDir ELSE Below(f[n - 1], n, path)
    <2> HIDE DEF f
    <2> QED BY <1>1, <1>2 DEF Visits
<1> HIDE DEF f
<1> QED BY <1>1, <1>3, <1>4

TreeOK ==
    /\ kind \in [Inodes -> Kinds]
    /\ child \in [Inodes -> [Names -> Inodes \cup {None}]]

LEMMA EnterType == ASSUME TreeOK, NEW i \in Inodes \cup {None} PROVE Enter(i) \in Inodes \cup {None}
BY InodesAssumption DEF TreeOK, Enter

(* A path leads to an inode or nowhere.                                    *)
LEMMA LookupType ==
    ASSUME TreeOK, NEW path \in Seq(Names)
    PROVE  Lookup(path) \in Inodes \cup {None}
<1> DEFINE L(n) == Lookup(Prefix(path, n))
           wrong == {n \in Nat : n <= Len(path) /\ L(n) \notin Inodes \cup {None}}
<1>1. Len(path) \in Nat
    BY LenProperties
<1>2. L(0) = RootDir /\ \A n \in 1..Len(path) : L(n) = Below(L(n - 1), n, path)
    BY LookupSteps DEF LookupsStep
<1>3. wrong = {}
    <2> SUFFICES ASSUME wrong # {} PROVE FALSE
        OBVIOUS
    <2>1. PICK n \in wrong : \A i \in wrong : n <= i
        BY LeastNatural
    <2>2. n # 0
        BY <1>2, <2>1, InodesAssumption
    <2>3. n \in 1..Len(path) /\ n - 1 \in Nat /\ n - 1 \notin wrong /\ n - 1 <= Len(path)
        BY <1>1, <2>1, <2>2
    <2>4. L(n - 1) \in Inodes \cup {None} /\ path[n] \in Names
        BY <2>3, ElementOfSeq
    <2>5. L(n) = Below(L(n - 1), n, path)
        BY <1>2, <2>3
    <2> HIDE DEF L
    <2>6. Below(L(n - 1), n, path) \in Inodes \cup {None}
        BY <2>4, EnterType DEF Below, TreeOK
    <2> QED BY <2>1, <2>5, <2>6
<1>4. L(Len(path)) = Lookup(path)
    BY PrefixFull
<1> QED BY <1>1, <1>3, <1>4
LEMMA LookupStepsNext == LookupsStep'
BY LookupSteps, PTL

(* A step that removes nothing: the paths that lead somewhere still do.    *)
Grows ==
    /\ \A i \in Inodes : kind[i] # "free" => kind'[i] = kind[i]
    /\ \A i \in Inodes, n \in Names : child[i][n] # None => child'[i][n] = child[i][n]

LEMMA EnterGrows ==
    ASSUME TreeOK, Grows, NEW i \in Inodes, Enter(i) # None
    PROVE  Enter(i)' = Enter(i)
BY InodesAssumption DEF TreeOK, Grows, Enter

LEMMA LookupGrows ==
    ASSUME TreeOK, Grows, NEW path \in Seq(Names), Lookup(path) # None
    PROVE  Lookup(path)' = Lookup(path)
<1> DEFINE L(n) == Lookup(Prefix(path, n))
           moved == {n \in Nat : n <= Len(path) /\ L(n) # None /\ L(n)' # L(n)}
<1>1. Len(path) \in Nat
    BY LenProperties
<1>2. L(0) = RootDir /\ \A n \in 1..Len(path) : L(n) = Below(L(n - 1), n, path)
    BY LookupSteps DEF LookupsStep
<1>3. L(0)' = RootDir /\ \A n \in 1..Len(path) : L(n)' = Below(L(n - 1), n, path)'
    BY LookupStepsNext DEF LookupsStep
<1>4. \A n \in 0..Len(path) : L(n) \in Inodes \cup {None}
    BY PrefixIs, LookupType
<1>5. moved = {}
    <2> SUFFICES ASSUME moved # {} PROVE FALSE
        OBVIOUS
    <2>1. PICK n \in moved : \A i \in moved : n <= i
        BY LeastNatural
    <2>2. n # 0
        BY <1>2, <1>3, <2>1
    <2>3. /\ n \in 1..Len(path) /\ n - 1 \in Nat /\ n - 1 \notin moved
          /\ n - 1 \in 0..Len(path) /\ path[n] \in Names
        BY <1>1, <2>1, <2>2, ElementOfSeq
    <2>4. /\ L(n) = Below(L(n - 1), n, path) /\ L(n)' = Below(L(n - 1), n, path)'
          /\ L(n) # None /\ L(n)' # L(n)
          /\ L(n - 1) \in Inodes \cup {None}
          /\ L(n - 1) = None \/ L(n - 1)' = L(n - 1)
        BY <1>1, <1>2, <1>3, <1>4, <2>1, <2>3
    <2> HIDE DEF L
    <2>5. Enter(L(n - 1)) # None /\ L(n - 1) # None
        BY <2>4 DEF Below, Enter
    <2>6. PICK i \in Inodes : i = L(n - 1) /\ i = L(n - 1)'
        BY <2>4, <2>5
    <2>7. Enter(i) # None /\ Enter(i)' = Enter(i) /\ Enter(i) \in Inodes
        BY <2>5, <2>6, EnterGrows, EnterType
    <2>8. L(n) = child[Enter(i)][path[n]] /\ L(n)' = child'[Enter(i)'][path[n]]
        BY <2>4, <2>6, <2>7 DEF Below
    <2> QED BY <2>3, <2>4, <2>7, <2>8 DEF Grows
<1>6. path = Prefix(path, Len(path))
    BY PrefixFull
<1>7. L(Len(path)) # None => L(Len(path))' = L(Len(path))
    BY <1>1, <1>5
<1> QED BY <1>6, <1>7
LEMMA ParentStep ==
    ASSUME NEW path \in Seq(Names), NEW n \in 1..Len(path)
    PROVE  /\ ParentDir(Prefix(path, n)) = Enter(Lookup(Prefix(path, n - 1)))
           /\ LastName(Prefix(path, n)) = path[n]
           /\ path[n] \in Names
           /\ Lookup(Prefix(path, n)) = LET d == ParentDir(Prefix(path, n))
                                        IN  IF d = None THEN None ELSE child[d][path[n]]
<1>1. Len(path) \in Nat /\ n \in 0..Len(path) /\ n - 1 \in 0..n
    BY LenProperties
<1>2. /\ Len(Prefix(path, n)) = n /\ Prefix(path, n)[n] = path[n]
      /\ Prefix(Prefix(path, n), n - 1) = Prefix(path, n - 1)
    BY <1>1, PrefixIs, PrefixOfPrefix
<1>3. ParentDir(Prefix(path, n)) = Enter(Lookup(Prefix(path, n - 1)))
    BY <1>2 DEF ParentDir
<1>4. Lookup(Prefix(path, n)) = Below(Lookup(Prefix(path, n - 1)), n, path)
    BY LookupSteps DEF LookupsStep
<1> QED BY <1>2, <1>3, <1>4, ElementOfSeq DEF LastName, Below

-----------------------------------------------------------------------------
(* The tree: no entry names an unused inode.                               *)
UsedEntries == \A i \in Inodes, n \in Names : child[i][n] # None => kind[child[i][n]] # "free"

TreeInv == TreeOK /\ kind[RootDir] = "dir" /\ UsedEntries

LEMMA CreatesKeeps ==
    ASSUME TreeInv, NEW path \in Seq(Names), NEW n \in 1..Len(path),
           ParentDir(Prefix(path, n)) # None, ~exists(Prefix(path, n)), Creates(Prefix(path, n))
    PROVE  TreeInv' /\ Grows
<1>1. PICK i \in Inodes : /\ kind[i] = "free" /\ kind' = [kind EXCEPT ![i] = "dir"]
                          /\ Links(ParentDir(Prefix(path, n)), LastName(Prefix(path, n)), i)
    BY DEF Creates
<1>2. PICK d : d = ParentDir(Prefix(path, n)) /\ d # None
    OBVIOUS
<1>3. child[d][path[n]] = None /\ path[n] \in Names
    BY <1>2, ParentStep DEF exists
<1>4. child' = [child EXCEPT ![d][path[n]] = i]
    BY <1>1, <1>2, ParentStep DEF Links
<1>5. TreeOK'
    BY <1>1, <1>4 DEF TreeInv, TreeOK, Kinds
<1>6. Grows
    BY <1>1, <1>3, <1>4 DEF Grows, TreeInv, TreeOK
<1>7. kind'[RootDir] = "dir"
    BY <1>6, InodesAssumption DEF TreeInv, Grows
<1>8. UsedEntries'
    <2> SUFFICES ASSUME NEW j \in Inodes, NEW m \in Names, child'[j][m] # None
                 PROVE  kind'[child'[j][m]] # "free"
        BY DEF UsedEntries
    <2>1. CASE j = d /\ m = path[n]
        BY <1>1, <1>4, <2>1 DEF TreeInv, TreeOK
    <2>2. CASE ~(j = d /\ m = path[n])
        <3>1. child'[j][m] = child[j][m]
            BY <1>4, <2>2 DEF TreeInv, TreeOK
        <3>2. child[j][m] \in Inodes /\ kind[child[j][m]] # "free"
            BY <3>1 DEF TreeInv, TreeOK, UsedEntries
        <3> QED BY <1>6, <3>1, <3>2 DEF Grows
    <2> QED BY <2>1, <2>2
<1> QED BY <1>5, <1>6, <1>7, <1>8 DEF TreeInv

LEMMA UnlinksKeeps ==
    ASSUME TreeInv, NEW path, Unlinks(path)
    PROVE  TreeInv'
<1>1. kind' = kind
    BY DEF Unlinks
<1>2. PICK d, m : child' = [child EXCEPT ![d][m] = None]
    BY DEF Unlinks, Links
<1>3. TreeOK'
    BY <1>1, <1>2 DEF TreeInv, TreeOK
<1>4. \A j \in Inodes, n \in Names : child'[j][n] = None \/ child'[j][n] = child[j][n]
    BY <1>2 DEF TreeInv, TreeOK
<1> QED BY <1>1, <1>3, <1>4 DEF TreeInv, UsedEntries

LEMMA SameTreeKeeps ==
    ASSUME TreeInv, UNCHANGED tree
    PROVE  TreeInv' /\ Grows
BY DEF TreeInv, TreeOK, UsedEntries, Grows, tree
-----------------------------------------------------------------------------
(* The calls.                                                              *)
Results == {"none", "running", "ok", "threw", "failed"}

CallsOK ==
    /\ task \in [Procs -> Tasks]
    /\ stack \in [Procs -> Seq(Frames)]
    /\ result \in [Procs -> Results]
    /\ streams \in [Procs -> Nat]
    /\ \A p \in Procs : result[p] = "none" <=> task[p].op = "none"
    /\ \A p \in Procs : Running(p, "make") => task[p].pos \in 1..Len(task[p].path)

(* A removal that runs has an open stream for each activation but the      *)
(* last, and for the last while it reads.                                  *)
Reading(phase) == IF phase \in {"scan", "unlink"} THEN 1 ELSE 0

Streaming(op, how, frames, open) ==
    /\ op # "remove" \/ how \in {"none", "ok"} => open = 0
    /\ op = "remove" /\ how = "running" =>
           /\ Len(frames) >= 1
           /\ \A i \in 1..Len(frames) - 1 : frames[i].phase = "scan"
           /\ open = Len(frames) - 1 + Reading(frames[Len(frames)].phase)

StreamInv == \A p \in Procs : Streaming(task[p].op, result[p], stack[p], streams[p])

(* While nobody removes, what a maker has passed stays.                    *)
InTheWay(path) ==
    \E n \in 1..(Len(path) - 1) :
        exists(Prefix(path, n)) /\ ~isDirectory(Prefix(path, n))

Progress(p) ==
    /\ result[p] = "running" => \A n \in 1..(task[p].pos - 1) : exists(Prefix(task[p].path, n))
    /\ result[p] = "ok" => \A n \in 1..Len(task[p].path) : exists(Prefix(task[p].path, n))
    /\ result[p] = "threw" => InTheWay(task[p].path)

MakeInv == NobodyCalls("remove") => \A p \in Procs : task[p].op = "make" => Progress(p)

IInv == TreeInv /\ CallsOK /\ StreamInv /\ MakeInv

LEMMA ExistsStays ==
    ASSUME TreeInv, Grows, NEW path \in Seq(Names), exists(path)
    PROVE  exists(path)'
BY LookupGrows DEF exists, TreeInv

LEMMA InTheWayStays ==
    ASSUME TreeInv, Grows, NEW path \in Seq(Names), InTheWay(path)
    PROVE  InTheWay(path)'
<1>1. PICK n \in 1..(Len(path) - 1) : exists(Prefix(path, n)) /\ ~isDirectory(Prefix(path, n))
    BY DEF InTheWay
<1>2. n \in 1..Len(path) /\ n \in 0..Len(path) /\ n - 1 \in 0..Len(path)
    BY LenProperties
<1>3. PICK i : i = Lookup(Prefix(path, n))
    OBVIOUS
<1>4. i # None /\ Enter(i) = None /\ Lookup(Prefix(path, n))' = i
    BY <1>1, <1>2, <1>3, PrefixIs, LookupGrows DEF exists, isDirectory, TreeInv
<1>5. PICK d : d = ParentDir(Prefix(path, n))
    OBVIOUS
<1>6. d # None /\ i = child[d][path[n]] /\ path[n] \in Names /\ d = Enter(Lookup(Prefix(path, n - 1)))
    BY <1>2, <1>3, <1>4, <1>5, ParentStep
<1>7. d \in Inodes
    BY <1>2, <1>6, PrefixIs, LookupType, EnterType DEF TreeInv
<1>8. i \in Inodes /\ kind[i] # "free"
    BY <1>4, <1>6, <1>7 DEF TreeInv, TreeOK, UsedEntries
<1>9. kind'[i] = kind[i] /\ kind[i] \notin {"dir", "link"}
    BY <1>4, <1>8, InodesAssumption DEF Grows, Enter
<1>10. Enter(i)' = None
    BY <1>9 DEF Enter
<1>11. exists(Prefix(path, n))' /\ ~isDirectory(Prefix(path, n))'
    BY <1>4, <1>10 DEF exists, isDirectory
<1> QED BY <1>1, <1>11 DEF InTheWay

LEMMA ProgressStays ==
    ASSUME TreeInv, Grows, NEW q \in Procs, task[q] \in Tasks, task'[q] = task[q],
           result'[q] = result[q], Progress(q),
           result[q] = "running" => task[q].pos \in 1..Len(task[q].path)
    PROVE  Progress(q)'
<1>1. PICK path \in Seq(Names) : path = task[q].path
    BY DEF Tasks
<1>2. PICK pos \in Nat : pos = task[q].pos
    BY DEF Tasks
<1>3. Len(path) \in Nat
    BY LenProperties
<1>4. ASSUME NEW n \in 1..Len(path), exists(Prefix(path, n)) PROVE exists(Prefix(path, n))'
    <2>1. Prefix(path, n) \in Seq(Names)
        BY <1>3, PrefixIs
    <2> QED BY <1>4, <2>1, ExistsStays
<1>5. InTheWay(path) => InTheWay(path)'
    BY InTheWayStays
<1>6. result[q] = "running" => pos - 1 <= Len(path)
    BY <1>1, <1>2, <1>3
<1>7. task'[q].path = path /\ task'[q].pos = pos
    BY <1>1, <1>2
<1>8. result'[q] = "running" => \A n \in 1..(pos - 1) : exists(Prefix(path, n))'
    <2> SUFFICES ASSUME result[q] = "running", NEW n \in 1..(pos - 1)
                 PROVE  exists(Prefix(path, n))'
        OBVIOUS
    <2>1. n \in 1..Len(path)
        BY <1>3, <1>6
    <2>2. exists(Prefix(path, n))
        BY <1>1, <1>2 DEF Progress
    <2> QED BY <1>4, <2>1, <2>2
<1>9. result'[q] = "ok" => \A n \in 1..Len(path) : exists(Prefix(path, n))'
    BY <1>1, <1>4 DEF Progress
<1>10. result'[q] = "threw" => InTheWay(path)'
    BY <1>1, <1>5 DEF Progress
<1> QED BY <1>7, <1>8, <1>9, <1>10 DEF Progress

(* One call moves on while nothing is removed.                             *)
LEMMA OthersProgress ==
    ASSUME TreeInv, CallsOK, MakeInv, Grows, NEW p \in Procs,
           \A q \in Procs \ {p} : task'[q] = task[q] /\ result'[q] = result[q],
           task'[p].op = "make", task[p].op # "remove", Progress(p)'
    PROVE  MakeInv'
<1> SUFFICES ASSUME NobodyCalls("remove")', NEW q \in Procs, task'[q].op = "make"
             PROVE  Progress(q)'
    BY DEF MakeInv
<1>1. CASE q = p
    BY <1>1
<1>2. CASE q # p
    <2>1. NobodyCalls("remove")
        BY DEF NobodyCalls
    <2>2. Progress(q) /\ task[q] \in Tasks /\ task'[q] = task[q] /\ result'[q] = result[q]
        BY <1>2, <2>1 DEF MakeInv, CallsOK
    <2>3. result[q] = "running" => task[q].pos \in 1..Len(task[q].path)
        BY <2>2 DEF CallsOK, Running
    <2> QED BY <2>2, <2>3, ProgressStays
<1> QED BY <1>1, <1>2
-----------------------------------------------------------------------------
(* makePath().                                                             *)
LEMMA BeginMakeKeeps ==
    ASSUME IInv, NEW p \in Procs, NEW path \in MakePaths, BeginMake(p, path)
    PROVE  IInv'
<1> USE DEF IInv
<1> DEFINE new == [op |-> "make", path |-> path, pos |-> 1]
           how == IF path = <<>> THEN "ok" ELSE "running"
<1>1. /\ task' = [task EXCEPT ![p] = new] /\ result' = [result EXCEPT ![p] = how]
      /\ UNCHANGED tree /\ stack' = stack /\ streams' = streams /\ result[p] = "none"
    BY DEF BeginMake, Ends
<1>2. path \in Seq(Names) /\ Len(path) \in Nat /\ (path # <<>> => Len(path) > 0)
    BY PathsAssumption, EmptySeq, LenProperties
<1>3. new \in Tasks /\ how \in Results /\ how # "none"
    BY <1>2 DEF Tasks, Results
<1>4. /\ task'[p] = new /\ result'[p] = how /\ task[p].op = "none"
      /\ \A q \in Procs \ {p} : task'[q] = task[q] /\ result'[q] = result[q]
    BY <1>1 DEF CallsOK
<1>5. TreeInv' /\ Grows
    BY <1>1, SameTreeKeeps
<1>6. CallsOK'
    <2>1. how = "running" => 1 \in 1..Len(path)
        BY <1>2
    <2>2. new.op = "make" /\ new.pos = 1 /\ new.path = path
        OBVIOUS
    <2> HIDE DEF new, how
    <2>3. task' \in [Procs -> Tasks] /\ result' \in [Procs -> Results]
        BY <1>1, <1>3 DEF CallsOK
    <2>4. result'[p] = "none" <=> task'[p].op = "none"
        BY <1>3, <1>4, <2>2
    <2>5. Running(p, "make")' => task'[p].pos \in 1..Len(task'[p].path)
        BY <1>4, <2>1, <2>2 DEF Running
    <2>6. \A q \in Procs \ {p} : Running(q, "make")' => task'[q].pos \in 1..Len(task'[q].path)
        BY <1>4 DEF CallsOK, Running
    <2>7. \A q \in Procs \ {p} : result'[q] = "none" <=> task'[q].op = "none"
        BY <1>4 DEF CallsOK
    <2> QED BY <1>1, <2>3, <2>4, <2>5, <2>6, <2>7 DEF CallsOK
<1>7. StreamInv'
    BY <1>1, <1>4 DEF StreamInv, Streaming
<1>8. Progress(p)'
    <2>1. how = "running" => 1..(task'[p].pos - 1) = {}
        BY <1>4
    <2>2. how = "ok" => 1..Len(task'[p].path) = {}
        BY <1>4
    <2>3. how # "threw"
        OBVIOUS
    <2> QED BY <1>4, <2>1, <2>2, <2>3 DEF Progress
<1>9. MakeInv'
    BY <1>4, <1>5, <1>8, OthersProgress
<1> QED BY <1>5, <1>6, <1>7, <1>9

(* The steps of the loop: each leaves the prefix it was at in existence,   *)
(* or throws because a file is in the way.                                 *)
LEMMA MakeStepKeeps ==
    ASSUME IInv, NEW p \in Procs, NEW path \in Seq(Names), NEW pos \in 1..Len(path),
           task[p] = [op |-> "make", path |-> path, pos |-> pos], result[p] = "running",
           TreeInv', Grows, streams' = streams, stack' \in [Procs -> Seq(Frames)],
           \A q \in Procs \ {p} : stack'[q] = stack[q],
           \/ exists(Prefix(path, pos))' /\ MakesNext(p)
           \/ (NobodyCalls("remove") => InTheWay(path)) /\ Ends(p, "threw") /\ task' = task
           \/ Ends(p, "failed") /\ task' = task
    PROVE  IInv'
<1> USE DEF IInv
<1>1. /\ task \in [Procs -> Tasks] /\ result \in [Procs -> Results]
      /\ task[p].pos = pos /\ task[p].path = path /\ task[p].op = "make"
    BY DEF CallsOK
<1>2. Len(path) \in Nat /\ pos \in Nat
    BY LenProperties
<1>3. \/ pos < Len(path) /\ task' = [task EXCEPT ![p].pos = @ + 1] /\ result' = result
      \/ task' = task /\ \E how \in {"ok", "threw", "failed"} :
             result' = [result EXCEPT ![p] = how] /\ (how = "ok" => pos = Len(path))
    BY <1>1, <1>2 DEF MakesNext, Ends
<1>4. \A q \in Procs \ {p} : task'[q] = task[q] /\ result'[q] = result[q]
    BY <1>1, <1>3
<1>5. \/ /\ task'[p] = [op |-> "make", path |-> path, pos |-> pos + 1] /\ pos < Len(path)
         /\ result'[p] = "running"
      \/ /\ task'[p] = [op |-> "make", path |-> path, pos |-> pos]
         /\ result'[p] = "ok" => pos = Len(path)
         /\ result'[p] \in {"ok", "threw", "failed"}
    BY <1>1, <1>3
<1>6. task'[p] \in Tasks /\ task'[p].op = "make" /\ task'[p].path = path
    BY <1>2, <1>5 DEF Tasks
<1>7. task' \in [Procs -> Tasks] /\ result' \in [Procs -> Results]
    <2>1. task' = [task EXCEPT ![p] = task'[p]] /\ result' = [result EXCEPT ![p] = result'[p]]
        BY <1>1, <1>3
    <2>2. result'[p] \in Results
        BY <1>5 DEF Results
    <2> QED BY <1>1, <1>6, <2>1, <2>2
<1>8. CallsOK'
    <2>1. Running(p, "make")' => task'[p].pos \in 1..Len(task'[p].path)
        BY <1>2, <1>5 DEF Running
    <2>2. result'[p] = "none" <=> task'[p].op = "none"
        BY <1>5, <1>6
    <2>3. \A q \in Procs \ {p} : Running(q, "make")' => task'[q].pos \in 1..Len(task'[q].path)
        BY <1>4 DEF CallsOK, Running
    <2>4. \A q \in Procs \ {p} : result'[q] = "none" <=> task'[q].op = "none"
        BY <1>4 DEF CallsOK
    <2> QED BY <1>7, <2>1, <2>2, <2>3, <2>4 DEF CallsOK
<1>9. StreamInv'
    BY <1>1, <1>4, <1>6 DEF StreamInv, Streaming
<1>10. MakeInv'
    <2> SUFFICES ASSUME NobodyCalls("remove")' PROVE MakeInv'
        BY DEF MakeInv
    <2>1. NobodyCalls("remove")
        BY <1>1, <1>4, <1>6 DEF NobodyCalls
    <2>2. \A n \in 1..(pos - 1) : exists(Prefix(path, n))
        BY <1>1, <2>1 DEF MakeInv, Progress
    <2>3. \A n \in 1..(pos - 1) : exists(Prefix(path, n))'
        <3> SUFFICES ASSUME NEW n \in 1..(pos - 1) PROVE exists(Prefix(path, n))'
            OBVIOUS
        <3>1. n \in 0..Len(path)
            BY <1>2
        <3> QED BY <2>2, <3>1, PrefixIs, ExistsStays
    <2>4. CASE result'[p] \in {"running", "ok"}
        <3>1. exists(Prefix(path, pos))'
            BY <1>1, <2>4 DEF Ends
        <3>2. \A n \in 1..pos : exists(Prefix(path, n))'
            BY <1>2, <2>3, <3>1
        <3>3. Progress(p)'
            BY <1>2, <1>5, <1>6, <2>4, <3>2 DEF Progress
        <3> QED BY <1>1, <1>4, <1>6, <3>3, OthersProgress
    <2>5. CASE result'[p] = "threw"
        <3>1. InTheWay(path)
            BY <1>1, <2>1, <2>5 DEF MakesNext, Ends
        <3>2. InTheWay(path)'
            BY <3>1, InTheWayStays
        <3>3. Progress(p)'
            BY <1>6, <2>5, <3>2 DEF Progress
        <3> QED BY <1>1, <1>4, <1>6, <3>3, OthersProgress
    <2>6. CASE result'[p] = "failed"
        <3>1. Progress(p)'
            BY <2>6 DEF Progress
        <3> QED BY <1>1, <1>4, <1>6, <3>1, OthersProgress
    <2> QED BY <1>5, <2>4, <2>5, <2>6
<1> QED BY <1>8, <1>9, <1>10
(* mkdir() makes what it was asked to.                                     *)
LEMMA CreatesMakes ==
    ASSUME TreeInv, NEW path \in Seq(Names), NEW n \in 1..Len(path),
           ParentDir(Prefix(path, n)) # None, ~exists(Prefix(path, n)), Creates(Prefix(path, n))
    PROVE  exists(Prefix(path, n))'
<1>1. PICK i \in Inodes : Links(ParentDir(Prefix(path, n)), LastName(Prefix(path, n)), i)
    BY DEF Creates
<1>2. PICK d : d = ParentDir(Prefix(path, n)) /\ d # None
    OBVIOUS
<1>3. PICK j : j = Lookup(Prefix(path, n - 1))
    OBVIOUS
<1>4. n \in 0..Len(path) /\ n - 1 \in 0..Len(path)
    BY LenProperties
<1>5. d = Enter(j) /\ path[n] \in Names /\ child' = [child EXCEPT ![d][path[n]] = i]
    BY <1>1, <1>2, <1>3, ParentStep DEF Links
<1>6. j \in Inodes /\ d \in Inodes
    BY <1>2, <1>3, <1>4, <1>5, PrefixIs, LookupType, EnterType DEF TreeInv, Enter
<1>7. Grows
    BY CreatesKeeps
<1>8. Lookup(Prefix(path, n - 1))' = j
    BY <1>3, <1>4, <1>6, <1>7, InodesAssumption, PrefixIs, LookupGrows DEF TreeInv
<1>9. Enter(j)' = d
    BY <1>2, <1>5, <1>6, <1>7, EnterGrows DEF TreeInv
<1>10. Lookup(Prefix(path, n))' = Below(Lookup(Prefix(path, n - 1)), n, path)'
    BY LookupStepsNext DEF LookupsStep
<1>11. Lookup(Prefix(path, n))' = child'[d][path[n]]
    BY <1>2, <1>8, <1>9, <1>10 DEF Below
<1> QED BY <1>5, <1>6, <1>11, InodesAssumption DEF exists, TreeInv, TreeOK

(* A prefix below which nothing can be made is a file.                     *)
LEMMA FileInTheWay ==
    ASSUME TreeInv, NEW path \in Seq(Names), NEW pos \in 1..Len(path),
           ParentDir(Prefix(path, pos)) = None,
           \A n \in 1..(pos - 1) : exists(Prefix(path, n))
    PROVE  InTheWay(path)
<1>1. Len(path) \in Nat /\ Enter(Lookup(Prefix(path, pos - 1))) = None
    BY LenProperties, ParentStep
<1>2. pos # 1
    BY <1>1, LookupSteps, InodesAssumption DEF LookupsStep, Enter, TreeInv
<1>3. pos - 1 \in 1..(Len(path) - 1) /\ pos - 1 \in 1..(pos - 1)
    BY <1>1, <1>2
<1>4. exists(Prefix(path, pos - 1)) /\ ~isDirectory(Prefix(path, pos - 1))
    BY <1>1, <1>3 DEF isDirectory
<1> QED BY <1>3, <1>4 DEF InTheWay

LEMMA MakeKeeps ==
    ASSUME IInv, NEW p \in Procs,
           \/ Mkdir(p) \/ MkdirExists(p) \/ MkdirFails(p)
           \/ SystemFails(p) /\ task[p].op = "make"
    PROVE  IInv'
<1>1. /\ TreeInv /\ MakeInv /\ task[p] \in Tasks /\ Running(p, "make")
      /\ result[p] = "running" /\ task[p].op = "make" /\ stack \in [Procs -> Seq(Frames)]
    BY DEF IInv, CallsOK, Mkdir, MkdirExists, MkdirFails, SystemFails, Running
<1>2. PICK path \in Seq(Names) : path = task[p].path
    BY <1>1 DEF Tasks
<1>3. PICK pos \in 1..Len(path) : pos = task[p].pos
    BY <1>1, <1>2 DEF IInv, CallsOK
<1>4. task[p] = [op |-> "make", path |-> path, pos |-> pos] /\ MakesNow(p) = Prefix(path, pos)
    BY <1>1, <1>2, <1>3 DEF Tasks, MakesNow
<1>5. Len(path) \in Nat /\ pos \in 0..Len(path)
    BY LenProperties
<1>6. CASE Mkdir(p)
    <2>1. /\ ParentDir(Prefix(path, pos)) # None /\ ~exists(Prefix(path, pos))
          /\ Creates(Prefix(path, pos)) /\ MakesNext(p) /\ stack' = stack /\ streams' = streams
        BY <1>4, <1>6 DEF Mkdir
    <2>2. TreeInv' /\ Grows /\ exists(Prefix(path, pos))'
        BY <1>1, <2>1, CreatesKeeps, CreatesMakes
    <2> QED BY <1>1, <1>4, <2>1, <2>2, MakeStepKeeps
<1>7. CASE MkdirExists(p)
    <2>1. /\ exists(Prefix(path, pos)) /\ MakesNext(p) /\ stack' = stack /\ streams' = streams
          /\ UNCHANGED tree
        BY <1>4, <1>7 DEF MkdirExists
    <2>2. TreeInv' /\ Grows
        BY <1>1, <2>1, SameTreeKeeps
    <2>3. exists(Prefix(path, pos))'
        BY <1>1, <1>5, <2>1, <2>2, PrefixIs, ExistsStays
    <2> QED BY <1>1, <1>4, <2>1, <2>2, <2>3, MakeStepKeeps
<1>8. CASE MkdirFails(p)
    <2>1. /\ ParentDir(Prefix(path, pos)) = None /\ Ends(p, "threw")
          /\ UNCHANGED <<tree, task, stack, streams>>
        BY <1>4, <1>8 DEF MkdirFails
    <2>2. TreeInv' /\ Grows
        BY <1>1, <2>1, SameTreeKeeps
    <2>3. ASSUME NobodyCalls("remove") PROVE InTheWay(path)
        <3>1. \A n \in 1..(pos - 1) : exists(Prefix(path, n))
            BY <1>1, <1>2, <1>3, <2>3 DEF MakeInv, Progress
        <3> QED BY <1>1, <2>1, <3>1, FileInTheWay
    <2> QED BY <1>1, <1>4, <2>1, <2>2, <2>3, MakeStepKeeps
<1>9. CASE SystemFails(p) /\ task[p].op = "make"
    <2>1. Ends(p, "failed") /\ UNCHANGED <<tree, task>> /\ stack' = [stack EXCEPT ![p] = <<>>]
        BY <1>9 DEF SystemFails
    <2>3. streams' = streams
        BY <1>1, <1>9 DEF SystemFails, InPhase, Running, IInv, CallsOK
    <2>4. stack' \in [Procs -> Seq(Frames)] /\ \A q \in Procs \ {p} : stack'[q] = stack[q]
        BY <1>1, <2>1, EmptySeq
    <2>2. TreeInv' /\ Grows
        BY <1>1, <2>1, SameTreeKeeps
    <2> QED BY <1>1, <1>4, <2>1, <2>2, <2>3, <2>4, MakeStepKeeps
<1> QED BY <1>6, <1>7, <1>8, <1>9
-----------------------------------------------------------------------------
(* removeDirectoryRecursive().                                             *)
LEMMA BeginRemoveKeeps ==
    ASSUME IInv, NEW p \in Procs, NEW path \in RemovePaths, BeginRemove(p, path)
    PROVE  IInv'
<1> USE DEF IInv
<1> DEFINE new == [op |-> "remove", path |-> path, pos |-> 0]
<1>1. /\ task' = [task EXCEPT ![p] = new] /\ result' = [result EXCEPT ![p] = "running"]
      /\ stack' = [stack EXCEPT ![p] = <<Frame(path)>>]
      /\ UNCHANGED tree /\ streams' = streams /\ result[p] = "none"
    BY DEF BeginRemove, Ends
<1>2. path \in Seq(Names)
    BY PathsAssumption
<1>3. new \in Tasks /\ new.op = "remove"
    BY <1>2 DEF Tasks
<1>4. Frame(path) \in Frames /\ Frame(path).phase = "open"
    BY <1>2 DEF Frame, Frames, Types
<1> HIDE DEF new
<1>5. /\ <<Frame(path)>> \in Seq(Frames) /\ Len(<<Frame(path)>>) = 1
      /\ <<Frame(path)>>[1].phase = "open"
    BY <1>4
<1>6. /\ task'[p] = new /\ result'[p] = "running" /\ stack'[p] = <<Frame(path)>>
      /\ \A q \in Procs \ {p} : task'[q] = task[q] /\ result'[q] = result[q] /\ stack'[q] = stack[q]
    BY <1>1 DEF CallsOK
<1>7. TreeInv'
    BY <1>1, SameTreeKeeps
<1>8. CallsOK'
    <2>1. /\ task' \in [Procs -> Tasks] /\ result' \in [Procs -> Results]
          /\ stack' \in [Procs -> Seq(Frames)] /\ streams' \in [Procs -> Nat]
        BY <1>1, <1>3, <1>5 DEF CallsOK, Results
    <2>2. result'[p] = "none" <=> task'[p].op = "none"
        BY <1>3, <1>6
    <2>3. \A q \in Procs \ {p} : result'[q] = "none" <=> task'[q].op = "none"
        BY <1>6 DEF CallsOK
    <2>4. ~Running(p, "make")'
        BY <1>3, <1>6 DEF Running
    <2>5. \A q \in Procs \ {p} : Running(q, "make")' => task'[q].pos \in 1..Len(task'[q].path)
        BY <1>6 DEF CallsOK, Running
    <2> QED BY <2>1, <2>2, <2>3, <2>4, <2>5 DEF CallsOK
<1>9. StreamInv'
    <2>1. streams[p] = 0
        BY <1>1 DEF StreamInv, Streaming
    <2>2. Streaming(task'[p].op, result'[p], stack'[p], streams'[p])
        <3>1. PICK frames : frames = <<Frame(path)>>
            OBVIOUS
        <3>2. Len(frames) = 1 /\ frames[1].phase = "open"
            BY <1>5, <3>1
        <3>3. Streaming("remove", "running", frames, 0)
            BY <3>2 DEF Streaming, Reading
        <3> QED BY <1>1, <1>3, <1>6, <2>1, <3>1, <3>3
    <2> QED BY <1>1, <1>6, <2>2 DEF StreamInv
<1>10. MakeInv'
    BY <1>3, <1>6 DEF MakeInv, NobodyCalls
<1> QED BY <1>7, <1>8, <1>9, <1>10

LEMMA RemoveStepKeeps ==
    ASSUME IInv, NEW p \in Procs, task[p].op = "remove", TreeInv', task' = task,
           NEW frames \in Seq(Frames), NEW how \in Results \ {"none"}, NEW open \in Nat,
           result[p] = "running",
           stack' = [stack EXCEPT ![p] = frames], result' = [result EXCEPT ![p] = how],
           streams' = [streams EXCEPT ![p] = open], Streaming("remove", how, frames, open)
    PROVE  IInv'
<1> USE DEF IInv
<1>1. /\ task' \in [Procs -> Tasks] /\ result' \in [Procs -> Results]
      /\ stack' \in [Procs -> Seq(Frames)] /\ streams' \in [Procs -> Nat]
    BY DEF CallsOK
<1>2. /\ result'[p] = how /\ stack'[p] = frames /\ streams'[p] = open
      /\ \A q \in Procs \ {p} : /\ result'[q] = result[q] /\ stack'[q] = stack[q]
                                /\ streams'[q] = streams[q]
    BY DEF CallsOK
<1>3. \A q \in Procs : result'[q] = "none" <=> task'[q].op = "none"
    BY <1>2 DEF CallsOK
<1>4. \A q \in Procs : Running(q, "make")' => task'[q].pos \in 1..Len(task'[q].path)
    BY <1>2 DEF CallsOK, Running
<1>5. CallsOK'
    BY <1>1, <1>3, <1>4 DEF CallsOK
<1>6. StreamInv'
    BY <1>2 DEF StreamInv
<1>7. MakeInv'
    BY DEF MakeInv, NobodyCalls
<1> QED BY <1>5, <1>6, <1>7

(* The activation on top, and what replaces it.                            *)
LEMMA TopFacts ==
    ASSUME IInv, NEW p \in Procs, Running(p, "remove")
    PROVE  /\ stack[p] \in Seq(Frames) /\ Len(stack[p]) \in Nat \ {0} /\ Top(p) \in Frames
           /\ \A i \in 1..Len(stack[p]) - 1 : stack[p][i].phase = "scan"
           /\ streams[p] \in Nat /\ streams[p] = Len(stack[p]) - 1 + Reading(Top(p).phase)
           /\ task[p].op = "remove" /\ result[p] = "running"
<1>1. stack[p] \in Seq(Frames) /\ Len(stack[p]) \in Nat /\ streams[p] \in Nat
    BY LenProperties DEF IInv, CallsOK
<1>2. Streaming("remove", "running", stack[p], streams[p])
    BY DEF IInv, StreamInv, Running
<1>3. Len(stack[p]) >= 1
    BY <1>2 DEF Streaming
<1>4. Top(p) \in Frames
    BY <1>1, <1>3, ElementOfSeq DEF Top
<1> QED BY <1>1, <1>2, <1>3, <1>4 DEF Streaming, Top, Running

LEMMA BecomesKeeps ==
    ASSUME IInv, NEW p \in Procs, Running(p, "remove"), TreeInv', task' = task, result' = result,
           NEW frame \in Frames, Becomes(p, frame), NEW open \in Nat,
           streams' = [streams EXCEPT ![p] = open],
           open = streams[p] - Reading(Top(p).phase) + Reading(frame.phase)
    PROVE  IInv'
<1> DEFINE k == Len(stack[p])
           frames == [stack[p] EXCEPT ![k] = frame]
<1>1. /\ stack[p] \in Seq(Frames) /\ k \in Nat \ {0}
      /\ \A i \in 1..k - 1 : stack[p][i].phase = "scan"
      /\ streams[p] = k - 1 + Reading(Top(p).phase) /\ Reading(Top(p).phase) \in Nat
      /\ task[p].op = "remove" /\ result[p] = "running"
    BY TopFacts DEF Reading
<1>2. k \in 1..Len(stack[p])
    BY <1>1
<1>3. /\ frames \in Seq(Frames) /\ Len(frames) = k /\ frames[k] = frame
      /\ \A i \in 1..k - 1 : frames[i] = stack[p][i]
    BY <1>1, <1>2, ExceptSeq
<1>4. stack' = [stack EXCEPT ![p] = frames]
    BY DEF Becomes
<1> HIDE DEF frames, k
<1>5. Streaming("remove", "running", frames, open)
    BY <1>1, <1>3 DEF Streaming, Reading
<1>6. result' = [result EXCEPT ![p] = "running"]
    BY <1>1 DEF IInv, CallsOK
<1> QED BY <1>1, <1>3, <1>4, <1>5, <1>6, RemoveStepKeeps DEF Results
LEMMA ThrowsKeeps ==
    ASSUME IInv, NEW p \in Procs, Running(p, "remove"), UNCHANGED <<tree, task>>,
           NEW how \in {"threw", "failed"}, Ends(p, how), stack' = [stack EXCEPT ![p] = <<>>],
           \/ streams' = streams
           \/ Top(p).phase = "unlink" /\ streams' = [streams EXCEPT ![p] = @ - 1]
    PROVE  IInv'
<1>1. /\ Len(stack[p]) \in Nat \ {0} /\ streams[p] \in Nat
      /\ streams[p] = Len(stack[p]) - 1 + Reading(Top(p).phase)
      /\ task[p].op = "remove" /\ result[p] = "running"
    BY TopFacts
<1>2. PICK open \in Nat : streams' = [streams EXCEPT ![p] = open]
    <2>1. CASE streams' = streams
        BY <1>1, <2>1 DEF IInv, CallsOK
    <2>2. CASE Top(p).phase = "unlink" /\ streams' = [streams EXCEPT ![p] = @ - 1]
        <3>1. streams[p] - 1 \in Nat
            BY <1>1, <2>2 DEF Reading
        <3> QED BY <2>2, <3>1
    <2> QED BY <2>1, <2>2
<1>3. TreeInv' /\ task' = task
    BY SameTreeKeeps DEF IInv
<1>4. <<>> \in Seq(Frames) /\ Streaming("remove", how, <<>>, open)
    BY EmptySeq DEF Streaming
<1>5. how \in Results \ {"none"} /\ result' = [result EXCEPT ![p] = how]
    BY DEF Results, Ends
<1> QED BY <1>1, <1>2, <1>3, <1>4, <1>5, RemoveStepKeeps

LEMMA OpendirKeeps ==
    ASSUME IInv, NEW p \in Procs, Opendir(p)
    PROVE  IInv'
<1>1. PICK d : /\ d = Enter(Lookup(Top(p).path)) /\ d # None
               /\ Becomes(p, [Top(p) EXCEPT !.phase = "scan", !.dir = d,
                                            !.before = [n \in Names |-> TypeNow(d, n)]])
    BY DEF Opendir
<1>2. /\ Running(p, "remove") /\ Top(p).phase = "open" /\ UNCHANGED <<tree, task, result>>
      /\ streams' = [streams EXCEPT ![p] = @ + 1]
    BY DEF Opendir, InPhase
<1>3. Top(p) \in Frames /\ streams[p] \in Nat
    BY <1>2, TopFacts
<1>4. TreeInv /\ TreeInv'
    BY <1>2, SameTreeKeeps DEF IInv
<1>5. d \in Inodes
    BY <1>1, <1>3, <1>4, LookupType, EnterType DEF TreeInv, Frames
<1>6. [n \in Names |-> TypeNow(d, n)] \in [Names -> Types]
    BY <1>4, <1>5 DEF TreeInv, TreeOK, UsedEntries, TypeNow, Types, Kinds
<1> DEFINE frame == [Top(p) EXCEPT !.phase = "scan", !.dir = d,
                                   !.before = [n \in Names |-> TypeNow(d, n)]]
<1>7. frame \in Frames /\ frame.phase = "scan"
    BY <1>3, <1>5, <1>6 DEF Frames
<1> HIDE DEF frame
<1>8. streams' = [streams EXCEPT ![p] = streams[p] + 1]
    BY <1>2
<1>9. streams[p] + 1 \in Nat
      /\ streams[p] + 1 = streams[p] - Reading(Top(p).phase) + Reading(frame.phase)
    BY <1>2, <1>3, <1>7 DEF Reading
<1> QED BY <1>1, <1>2, <1>4, <1>7, <1>8, <1>9, BecomesKeeps DEF frame

(* readdir(): an entry to unlink, the end of the stream, or a directory.   *)
LEMMA ReadOtherKeeps ==
    ASSUME IInv, NEW p \in Procs, ReadOther(p)
    PROVE  IInv'
<1>1. PICK n \in Names : Becomes(p, [Top(p) EXCEPT !.phase = "unlink", !.entry = n,
                                                   !.seen = @ \cup {n}])
    BY DEF ReadOther
<1>2. Running(p, "remove") /\ Top(p).phase = "scan" /\ UNCHANGED <<tree, task, result, streams>>
    BY DEF ReadOther, InPhase
<1>3. Top(p) \in Frames /\ streams[p] \in Nat
    BY <1>2, TopFacts
<1>4. TreeInv'
    BY <1>2, SameTreeKeeps DEF IInv
<1> DEFINE frame == [Top(p) EXCEPT !.phase = "unlink", !.entry = n, !.seen = @ \cup {n}]
<1>5. frame \in Frames /\ frame.phase = "unlink"
    BY <1>3 DEF Frames
<1> HIDE DEF frame
<1>6. streams' = [streams EXCEPT ![p] = streams[p]]
    BY <1>2 DEF IInv, CallsOK
<1>7. streams[p] = streams[p] - Reading(Top(p).phase) + Reading(frame.phase)
    BY <1>2, <1>3, <1>5 DEF Reading
<1> QED BY <1>1, <1>2, <1>3, <1>4, <1>5, <1>6, <1>7, BecomesKeeps DEF frame

LEMMA EndOfStreamKeeps ==
    ASSUME IInv, NEW p \in Procs, EndOfStream(p)
    PROVE  IInv'
<1>1. /\ Running(p, "remove") /\ Top(p).phase = "scan" /\ UNCHANGED <<tree, task, result>>
      /\ Becomes(p, [Top(p) EXCEPT !.phase = "rmdir"])
      /\ streams' = [streams EXCEPT ![p] = @ - 1]
    BY DEF EndOfStream, InPhase
<1>2. /\ Top(p) \in Frames /\ streams[p] \in Nat /\ Len(stack[p]) \in Nat \ {0}
      /\ streams[p] = Len(stack[p]) - 1 + Reading(Top(p).phase)
    BY <1>1, TopFacts
<1>3. TreeInv'
    BY <1>1, SameTreeKeeps DEF IInv
<1> DEFINE frame == [Top(p) EXCEPT !.phase = "rmdir"]
<1>4. frame \in Frames /\ frame.phase = "rmdir"
    BY <1>2 DEF Frames
<1> HIDE DEF frame
<1>5. streams' = [streams EXCEPT ![p] = streams[p] - 1]
    BY <1>1
<1>6. streams[p] - 1 \in Nat
      /\ streams[p] - 1 = streams[p] - Reading(Top(p).phase) + Reading(frame.phase)
    BY <1>1, <1>2, <1>4 DEF Reading
<1> QED BY <1>1, <1>3, <1>4, <1>5, <1>6, BecomesKeeps DEF frame

LEMMA ReadDirectoryKeeps ==
    ASSUME IInv, NEW p \in Procs, ReadDirectory(p)
    PROVE  IInv'
<1> DEFINE k == Len(stack[p])
<1>1. /\ Running(p, "remove") /\ Top(p).phase = "scan"
      /\ UNCHANGED <<tree, task, result, streams>>
    BY DEF ReadDirectory, InPhase
<1>2. PICK n \in Names :
          stack' = [stack EXCEPT ![p] =
              Append([stack[p] EXCEPT ![Len(stack[p])] = [Top(p) EXCEPT !.seen = @ \cup {n}]],
                     Frame(Append(Top(p).path, n)))]
    BY DEF ReadDirectory
<1>3. /\ stack[p] \in Seq(Frames) /\ k \in Nat \ {0} /\ Top(p) \in Frames
      /\ \A i \in 1..k - 1 : stack[p][i].phase = "scan"
      /\ streams[p] \in Nat /\ streams[p] = k - 1 + Reading(Top(p).phase)
      /\ task[p].op = "remove" /\ result[p] = "running"
    BY <1>1, TopFacts
<1> DEFINE frame == [Top(p) EXCEPT !.seen = @ \cup {n}]
           below == [stack[p] EXCEPT ![k] = frame]
           fresh == Frame(Append(Top(p).path, n))
           frames == Append(below, fresh)
<1>4. frame \in Frames /\ frame.phase = "scan"
    BY <1>1, <1>3 DEF Frames
<1>5. Append(Top(p).path, n) \in Seq(Names)
    BY <1>3 DEF Frames
<1>6. fresh \in Frames /\ fresh.phase = "open"
    BY <1>5 DEF Frame, Frames, Types
<1>7. stack' = [stack EXCEPT ![p] = frames]
    BY <1>2
<1> HIDE DEF frame, fresh
<1>8. /\ below \in Seq(Frames) /\ Len(below) = k /\ below[k] = frame
      /\ \A i \in 1..k - 1 : below[i] = stack[p][i]
    <2>1. k \in 1..Len(stack[p])
        BY <1>3
    <2> HIDE DEF k
    <2>2. /\ below \in Seq(Frames) /\ Len(below) = Len(stack[p])
          /\ \A j \in 1..Len(stack[p]) : below[j] = IF j = k THEN frame ELSE stack[p][j]
        BY <1>3, <1>4, <2>1, ExceptSeq
    <2> QED BY <1>3, <2>1, <2>2 DEF k
<1> HIDE DEF below
<1>9. /\ frames \in Seq(Frames) /\ Len(frames) = k + 1 /\ frames[k + 1] = fresh
      /\ \A i \in 1..k : frames[i] = below[i]
    BY <1>3, <1>6, <1>8, AppendProperties
<1> HIDE DEF frames, k
<1>10. Streaming("remove", "running", frames, streams[p])
    BY <1>1, <1>3, <1>4, <1>6, <1>8, <1>9 DEF Streaming, Reading
<1>11. /\ result' = [result EXCEPT ![p] = "running"] /\ TreeInv'
       /\ streams' = [streams EXCEPT ![p] = streams[p]]
    BY <1>1, <1>3, SameTreeKeeps DEF IInv, CallsOK
<1>12. PICK open \in Nat : open = streams[p]
    BY <1>3
<1>13. "running" \in Results \ {"none"} /\ task' = task
    BY <1>1 DEF Results
<1> QED BY <1>3, <1>7, <1>9, <1>10, <1>11, <1>12, <1>13, RemoveStepKeeps
LEMMA UnlinkKeeps ==
    ASSUME IInv, NEW p \in Procs, Unlink(p)
    PROVE  IInv'
<1>1. /\ Running(p, "remove") /\ Top(p).phase = "unlink" /\ UNCHANGED <<task, result, streams>>
      /\ Becomes(p, [Top(p) EXCEPT !.phase = "scan", !.entry = None])
      /\ Unlinks(EntryPath(p))
    BY DEF Unlink, InPhase
<1>2. Top(p) \in Frames /\ streams[p] \in Nat
    BY <1>1, TopFacts
<1>3. TreeInv'
    <2>1. PICK path : path = EntryPath(p)
        OBVIOUS
    <2> QED BY <1>1, <2>1, UnlinksKeeps DEF IInv
<1> DEFINE frame == [Top(p) EXCEPT !.phase = "scan", !.entry = None]
<1>4. frame \in Frames /\ frame.phase = "scan"
    BY <1>2 DEF Frames
<1> HIDE DEF frame
<1>5. streams' = [streams EXCEPT ![p] = streams[p]]
    BY <1>1 DEF IInv, CallsOK
<1>6. streams[p] = streams[p] - Reading(Top(p).phase) + Reading(frame.phase)
    BY <1>1, <1>2, <1>4 DEF Reading
<1> QED BY <1>1, <1>2, <1>3, <1>4, <1>5, <1>6, BecomesKeeps DEF frame

(* rmdir() ends an activation: the enclosing one was scanning.             *)
LEMMA RmdirKeeps ==
    ASSUME IInv, NEW p \in Procs, Rmdir(p)
    PROVE  IInv'
<1>1. /\ Running(p, "remove") /\ Top(p).phase = "rmdir" /\ UNCHANGED <<task, streams>>
      /\ Unlinks(Top(p).path)
      /\ stack' = [stack EXCEPT ![p] = SubSeq(stack[p], 1, Len(stack[p]) - 1)]
      /\ IF Len(stack[p]) = 1 THEN Ends(p, "ok") ELSE UNCHANGED result
    BY DEF Rmdir, InPhase
<1>2. PICK s \in Seq(Frames) : s = stack[p]
    BY <1>1, TopFacts
<1>3. PICK k \in Nat \ {0} : k = Len(s)
    BY <1>1, <1>2, TopFacts
<1>4. PICK open \in Nat : open = streams[p]
    BY <1>1, TopFacts
<1>5. /\ \A i \in 1..k - 1 : s[i].phase = "scan"
      /\ open = k - 1 /\ task[p].op = "remove" /\ result[p] = "running"
    <2>1. /\ \A i \in 1..Len(stack[p]) - 1 : stack[p][i].phase = "scan"
          /\ streams[p] = Len(stack[p]) - 1 + Reading(Top(p).phase)
          /\ task[p].op = "remove" /\ result[p] = "running"
        BY <1>1, TopFacts
    <2>2. Reading(Top(p).phase) = 0
        BY <1>1 DEF Reading
    <2> QED BY <1>2, <1>3, <1>4, <2>1, <2>2
<1>6. PICK frames : frames = SubSeq(s, 1, k - 1)
    OBVIOUS
<1>7. /\ frames \in Seq(Frames) /\ Len(frames) = k - 1
      /\ \A i \in 1..k - 1 : frames[i] = s[i]
    <2>1. \A i \in 1..k - 1 : s[i] \in Frames
        BY <1>3, ElementOfSeq
    <2> QED BY <1>6, <2>1, SubSeqProperties
<1>8. PICK how \in {"ok", "running"} : /\ result' = [result EXCEPT ![p] = how]
                                       /\ how = "ok" <=> k = 1
    BY <1>1, <1>2, <1>3, <1>5 DEF Ends, IInv, CallsOK
<1>9. Streaming("remove", how, frames, open)
    <2>1. CASE k = 1
        BY <1>5, <1>8, <2>1 DEF Streaming
    <2>2. CASE k # 1
        <3>1. /\ k - 1 \in 1..k - 1 /\ k - 2 \in Nat
              /\ \A i \in 1..k - 1 : frames[i].phase = "scan"
            BY <1>5, <1>7, <2>2
        <3>2. frames[k - 1].phase = "scan" /\ how = "running"
            BY <1>8, <2>2, <3>1
        <3>3. Reading(frames[k - 1].phase) = 1
            BY <3>2 DEF Reading
        <3> QED BY <1>5, <1>7, <3>1, <3>2, <3>3 DEF Streaming
    <2> QED BY <2>1, <2>2
<1>10. TreeInv'
    <2>1. PICK path : path = Top(p).path
        OBVIOUS
    <2> QED BY <1>1, <2>1, UnlinksKeeps DEF IInv
<1>11. /\ stack' = [stack EXCEPT ![p] = frames] /\ streams' = [streams EXCEPT ![p] = open]
       /\ how \in Results \ {"none"} /\ task' = task
    BY <1>1, <1>2, <1>3, <1>4, <1>6, <1>8 DEF IInv, CallsOK, Results
<1>12. frames \in Seq(Frames) /\ result' = [result EXCEPT ![p] = how]
    BY <1>7, <1>8
<1>13. task[p].op = "remove" /\ result[p] = "running"
    BY <1>5
<1> QED BY <1>9, <1>10, <1>11, <1>12, <1>13, RemoveStepKeeps

LEMMA RemoveFailsKeeps ==
    ASSUME IInv, NEW p \in Procs,
           \/ OpendirFails(p) \/ UnlinkFails(p) \/ RmdirFails(p)
           \/ SystemFails(p) /\ task[p].op = "remove"
    PROVE  IInv'
<1>1. CASE OpendirFails(p) \/ RmdirFails(p)
    BY <1>1, ThrowsKeeps DEF OpendirFails, RmdirFails, InPhase, Throws
<1>2. CASE UnlinkFails(p)
    BY <1>2, ThrowsKeeps DEF UnlinkFails, InPhase, Throws
<1>3. CASE SystemFails(p) /\ task[p].op = "remove"
    <2>1. /\ Running(p, "remove") /\ UNCHANGED <<tree, task>> /\ Ends(p, "failed")
          /\ stack' = [stack EXCEPT ![p] = <<>>]
          /\ streams' = [streams EXCEPT ![p] = IF InPhase(p, "unlink") THEN @ - 1 ELSE @]
        BY <1>3 DEF SystemFails, Running
    <2>2. CASE InPhase(p, "unlink")
        BY <2>1, <2>2, ThrowsKeeps DEF InPhase
    <2>3. CASE ~InPhase(p, "unlink")
        <3>1. streams' = streams
            BY <2>1, <2>3 DEF IInv, CallsOK
        <3> QED BY <2>1, <3>1, ThrowsKeeps
    <2> QED BY <2>2, <2>3
<1> QED BY <1>1, <1>2, <1>3

-----------------------------------------------------------------------------
LEMMA Initially == Init => IInv
<1> SUFFICES ASSUME Init PROVE IInv
    OBVIOUS
<1>1. TreeInv
    BY InitKindAssumption, InitChildAssumption DEF Init, TreeInv, TreeOK, UsedEntries
<1>2. <<>> \in Seq(Names) /\ <<>> \in Seq(Frames)
    BY EmptySeq
<1>3. NoTask \in Tasks /\ NoTask.op = "none"
    BY <1>2 DEF NoTask, Tasks
<1>4. \A p \in Procs : task[p] = NoTask /\ result[p] = "none" /\ streams[p] = 0
    BY DEF Init
<1>5. CallsOK
    BY <1>2, <1>3, <1>4 DEF Init, CallsOK, Results, Running
<1>6. StreamInv
    BY <1>3, <1>4 DEF StreamInv, Streaming
<1>7. MakeInv
    BY <1>3, <1>4 DEF MakeInv
<1> QED BY <1>1, <1>5, <1>6, <1>7 DEF IInv

LEMMA Inductive == IInv /\ [Next]_vars => IInv'
<1> SUFFICES ASSUME IInv, [Next]_vars PROVE IInv'
    OBVIOUS
<1>1. CASE UNCHANGED vars
    <2>1. UNCHANGED tree /\ UNCHANGED <<task, stack, result, streams>>
        BY <1>1 DEF vars, tree
    <2>2. TreeInv' /\ Grows /\ CallsOK' /\ StreamInv'
        BY <2>1, SameTreeKeeps DEF IInv, CallsOK, Running, StreamInv
    <2>3. MakeInv'
        <3> SUFFICES ASSUME NobodyCalls("remove")', NEW q \in Procs, task'[q].op = "make"
                     PROVE  Progress(q)'
            BY DEF MakeInv
        <3>1. Progress(q) /\ task[q] \in Tasks
            BY <2>1 DEF IInv, MakeInv, NobodyCalls, CallsOK
        <3>2. result[q] = "running" => task[q].pos \in 1..Len(task[q].path)
            BY <2>1 DEF IInv, CallsOK, Running
        <3> QED BY <2>1, <2>2, <3>1, <3>2, ProgressStays DEF IInv
    <2> QED BY <2>2, <2>3 DEF IInv
<1>2. ASSUME NEW p \in Procs, Continue(p) PROVE IInv'
    <2>1. SystemFails(p) => task[p].op \in {"make", "remove"}
        BY DEF SystemFails, IInv, CallsOK, Tasks
    <2> QED BY <1>2, <2>1, MakeKeeps, OpendirKeeps, ReadDirectoryKeeps, ReadOtherKeeps,
               EndOfStreamKeeps, UnlinkKeeps, RmdirKeeps, RemoveFailsKeeps DEF Continue
<1> QED BY <1>1, <1>2, BeginMakeKeeps, BeginRemoveKeeps DEF Next

-----------------------------------------------------------------------------
(* The invariant holds throughout.                                         *)
THEOREM Invariance == Spec => []IInv
BY Initially, Inductive, PTL DEF Spec

(* The tree, the calls and their activations keep their types.             *)
THEOREM TypeCorrect == Spec => []TypeOK
<1>1. IInv => TypeOK
    BY DEF IInv, TreeInv, TreeOK, CallsOK, TypeOK, Results
<1> QED BY <1>1, Invariance, PTL

(* A call that returns has closed the streams of all its activations, for  *)
(* any nesting, and however the tree changes under it.                     *)
THEOREM StreamsAreClosed == Spec => []StreamsClosed
<1>1. IInv => StreamsClosed
    BY DEF IInv, StreamInv, Streaming, StreamsClosed
<1> QED BY <1>1, Invariance, PTL

(* While nobody removes, a made path is there, and below directories.      *)
THEOREM MadePathsStand == Spec => []MadePathStands
<1>1. IInv => MadePathStands
    <2> SUFFICES ASSUME IInv, NobodyCalls("remove"), NEW p \in Procs, Made(p)
                 PROVE  /\ exists(task[p].path)
                        /\ \A n \in 0..(Len(task[p].path) - 1) : isDirectory(Prefix(task[p].path, n))
        BY DEF MadePathStands
    <2>1. PICK path \in Seq(Names) : path = task[p].path
        BY DEF IInv, CallsOK, Tasks
    <2>2. Len(path) \in Nat /\ \A n \in 1..Len(path) : exists(Prefix(path, n))
        BY <2>1, LenProperties DEF IInv, MakeInv, Progress, Made
    <2>3. exists(path)
        <3>1. CASE Len(path) = 0
            <4>1. Prefix(path, 0) = path
                BY <3>1, PrefixFull
            <4>2. Lookup(Prefix(path, 0)) = RootDir
                BY LookupSteps DEF LookupsStep
            <4> QED BY <4>1, <4>2, InodesAssumption DEF exists
        <3>2. CASE Len(path) # 0
            <4>1. Prefix(path, Len(path)) = path
                BY PrefixFull
            <4>2. Len(path) \in 1..Len(path)
                BY <2>2, <3>2
            <4>3. exists(Prefix(path, Len(path)))
                BY <2>2, <4>2
            <4> QED BY <4>1, <4>3
        <3> QED BY <3>1, <3>2
    <2>4. ASSUME NEW n \in 0..(Len(path) - 1) PROVE isDirectory(Prefix(path, n))
        <3>1. n + 1 \in 1..Len(path) /\ (n + 1) - 1 = n
            BY <2>2
        <3>2. exists(Prefix(path, n + 1))
            BY <2>2, <3>1
        <3>3. Lookup(Prefix(path, n + 1)) = Below(Lookup(Prefix(path, n)), n + 1, path)
            BY <3>1, LookupSteps DEF LookupsStep
        <3> QED BY <3>2, <3>3 DEF exists, Below, isDirectory
    <2> QED BY <2>1, <2>3, <2>4
<1> QED BY <1>1, Invariance, PTL

(* While nobody removes, a maker throws only where a file is in the way.   *)
THEOREM MakersDoNotClash == Spec => []MakersNeverClash
<1>1. IInv => MakersNeverClash
    <2> SUFFICES ASSUME IInv, NobodyCalls("remove"), NEW p \in Procs, result[p] = "threw"
                 PROVE  InTheWay(task[p].path)
        BY DEF MakersNeverClash, InTheWay
    <2>1. task[p].op = "make"
        BY DEF IInv, CallsOK, NobodyCalls, Tasks
    <2> QED BY <2>1 DEF IInv, MakeInv, Progress
<1> QED BY <1>1, Invariance, PTL
-----------------------------------------------------------------------------
(* A step that makes nothing: a path leads where it led, or nowhere.       *)
Shrinks ==
    /\ kind' = kind
    /\ \A i \in Inodes, n \in Names : child'[i][n] = None \/ child'[i][n] = child[i][n]

LEMMA LookupShrinks ==
    ASSUME TreeOK, Shrinks, NEW path \in Seq(Names)
    PROVE  Lookup(path)' = None \/ Lookup(path)' = Lookup(path)
<1> DEFINE L(n) == Lookup(Prefix(path, n))
           moved == {n \in Nat : n <= Len(path) /\ L(n)' # None /\ L(n)' # L(n)}
<1>1. Len(path) \in Nat
    BY LenProperties
<1>2. L(0) = RootDir /\ \A n \in 1..Len(path) : L(n) = Below(L(n - 1), n, path)
    BY LookupSteps DEF LookupsStep
<1>3. L(0)' = RootDir /\ \A n \in 1..Len(path) : L(n)' = Below(L(n - 1), n, path)'
    BY LookupStepsNext DEF LookupsStep
<1>4. \A n \in 0..Len(path) : L(n) \in Inodes \cup {None}
    BY PrefixIs, LookupType
<1>5. moved = {}
    <2> SUFFICES ASSUME moved # {} PROVE FALSE
        OBVIOUS
    <2>1. PICK n \in moved : \A i \in moved : n <= i
        BY LeastNatural
    <2>2. n # 0
        BY <1>2, <1>3, <2>1
    <2>3. /\ n \in 1..Len(path) /\ n - 1 \in Nat /\ n - 1 \notin moved
          /\ n - 1 \in 0..Len(path) /\ path[n] \in Names
        BY <1>1, <2>1, <2>2, ElementOfSeq
    <2>4. /\ L(n) = Below(L(n - 1), n, path) /\ L(n)' = Below(L(n - 1), n, path)'
          /\ L(n)' # None /\ L(n)' # L(n)
          /\ L(n - 1) \in Inodes \cup {None}
          /\ L(n - 1)' = None \/ L(n - 1)' = L(n - 1)
        BY <1>1, <1>2, <1>3, <1>4, <2>1, <2>3
    <2> HIDE DEF L
    <2>5. L(n - 1)' # None
        BY <2>4 DEF Below, Enter
    <2>6. PICK i \in Inodes : i = L(n - 1) /\ i = L(n - 1)'
        BY <2>4, <2>5
    <2>7. Enter(i)' = Enter(i) /\ Enter(i) \in Inodes \cup {None}
        BY <2>6, EnterType DEF Shrinks, Enter
    <2>8. Enter(i) # None
        BY <2>4, <2>6, <2>7 DEF Below
    <2>9. L(n) = child[Enter(i)][path[n]] /\ L(n)' = child'[Enter(i)'][path[n]]
        BY <2>4, <2>6, <2>7, <2>8 DEF Below
    <2> QED BY <2>3, <2>4, <2>7, <2>8, <2>9 DEF Shrinks
<1>6. path = Prefix(path, Len(path))
    BY PrefixFull
<1>7. L(Len(path))' = None \/ L(Len(path))' = L(Len(path))
    BY <1>1, <1>5
<1> QED BY <1>6, <1>7

LEMMA GoneStays ==
    ASSUME TreeInv, Shrinks, NEW path \in Seq(Names), ~exists(path)
    PROVE  ~exists(path)'
BY LookupShrinks DEF exists, TreeInv

(* What is unlinked is gone.                                               *)
LEMMA UnlinksRemoves ==
    ASSUME TreeInv, NEW path \in Seq(Names) \ {<<>>}, exists(path), Unlinks(path)
    PROVE  Shrinks /\ ~exists(path)'
<1> DEFINE k == Len(path)
<1>1. k \in 1..Len(path) /\ k - 1 \in 0..Len(path) /\ Prefix(path, k) = path
    BY EmptySeq, LenProperties, PrefixFull
<1>2. PICK d : d = ParentDir(path)
    OBVIOUS
<1>3. PICK j : j = Lookup(Prefix(path, k - 1))
    OBVIOUS
<1>4. /\ d = Enter(j) /\ LastName(path) = path[k] /\ path[k] \in Names
      /\ Lookup(path) = IF d = None THEN None ELSE child[d][path[k]]
    BY <1>1, <1>2, <1>3, ParentStep
<1>5. kind' = kind /\ child' = [child EXCEPT ![d][path[k]] = None]
    BY <1>2, <1>4 DEF Unlinks, Links
<1>6. Shrinks
    BY <1>5 DEF TreeInv, TreeOK, Shrinks
<1>7. Lookup(Prefix(path, k - 1))' \in {None, j}
    BY <1>1, <1>3, <1>6, PrefixIs, LookupShrinks DEF TreeInv
<1>8. Lookup(path)' = Below(Lookup(Prefix(path, k - 1)), k, path)'
    BY <1>1, LookupStepsNext DEF LookupsStep
<1>9. d \in Inodes
    <2>1. Prefix(path, k - 1) \in Seq(Names)
        BY <1>1, PrefixIs
    <2>2. j \in Inodes \cup {None}
        BY <1>3, <2>1, LookupType DEF TreeInv
    <2>3. d # None
        BY <1>4 DEF exists
    <2> QED BY <1>4, <2>2, <2>3, EnterType DEF TreeInv
<1>10. child'[d][path[k]] = None
    BY <1>4, <1>5, <1>9 DEF TreeInv, TreeOK
<1>11. Enter(j)' = d /\ Enter(None)' = None
    BY <1>4, <1>5 DEF Enter
<1>12. Lookup(path)' = None
    BY <1>7, <1>8, <1>10, <1>11 DEF Below
<1> QED BY <1>6, <1>12 DEF exists
(* The outermost activation is for the path of the call.                   *)
BottomPath == \A p \in Procs : Running(p, "remove") => stack[p][1].path = task[p].path

(* A removal goes on with the same outermost path, or is over.             *)
LEMMA BottomKeeps ==
    ASSUME IInv, BottomPath, IInv', NEW p \in Procs, task' = task,
           \A q \in Procs \ {p} : stack'[q] = stack[q] /\ result'[q] = result[q],
           Running(p, "remove")' => Running(p, "remove") /\ stack'[p][1].path = stack[p][1].path
    PROVE  BottomPath'
<1> SUFFICES ASSUME NEW q \in Procs, Running(q, "remove")'
             PROVE  stack'[q][1].path = task'[q].path
    BY DEF BottomPath
<1>1. CASE q = p
    BY <1>1 DEF BottomPath
<1>2. CASE q # p
    BY <1>2 DEF BottomPath, Running
<1> QED BY <1>1, <1>2

LEMMA BecomesBottom ==
    ASSUME IInv, BottomPath, IInv', NEW p \in Procs, Running(p, "remove"), task' = task,
           result' = result, NEW frame, frame.path = Top(p).path, Becomes(p, frame)
    PROVE  BottomPath'
<1>1. PICK s \in Seq(Frames) : s = stack[p]
    BY TopFacts
<1>2. Len(s) \in Nat \ {0}
    BY <1>1, TopFacts
<1>3. stack' = [stack EXCEPT ![p] = [s EXCEPT ![Len(s)] = frame]]
    BY <1>1 DEF Becomes
<1>4. stack'[p] = [s EXCEPT ![Len(s)] = frame] /\ \A q \in Procs \ {p} : stack'[q] = stack[q]
    BY <1>3 DEF IInv, CallsOK
<1>5. s \in [1..Len(s) -> Frames] /\ 1 \in 1..Len(s)
    BY <1>2, LenProperties
<1>6. stack'[p][1].path = s[1].path
    <2>1. CASE Len(s) = 1
        BY <1>1, <1>4, <1>5, <2>1 DEF Top
    <2>2. CASE Len(s) # 1
        BY <1>4, <1>5, <2>2
    <2> QED BY <2>1, <2>2
<1> QED BY <1>1, <1>4, <1>6, BottomKeeps

(* The step rmdir() makes in the outermost activation.                     *)
LastRmdir(p) == Rmdir(p) /\ Len(stack[p]) = 1

(* What a step of a removal does to the others and to the tree.            *)
Removes(p) ==
    /\ task' = task /\ Shrinks /\ BottomPath'
    /\ \A q \in Procs \ {p} : result'[q] = result[q]
    /\ result[p] = "running"
    /\ result'[p] = "ok" => LastRmdir(p)

LEMMA ThrowsRemoves ==
    ASSUME IInv, IInv', BottomPath, NEW p \in Procs, UNCHANGED <<tree, task>>,
           result[p] = "running", NEW how \in {"threw", "failed"}, Ends(p, how),
           stack' = [stack EXCEPT ![p] = <<>>]
    PROVE  Removes(p)
<1>1. /\ result'[p] = how /\ task' = task
      /\ \A q \in Procs \ {p} : stack'[q] = stack[q] /\ result'[q] = result[q]
    BY DEF Ends, IInv, CallsOK
<1>2. Shrinks
    BY DEF tree, Shrinks
<1>3. ~Running(p, "remove")'
    BY <1>1 DEF Running
<1>4. BottomPath'
    BY <1>1, <1>3, BottomKeeps
<1> QED BY <1>1, <1>2, <1>4 DEF Removes

LEMMA BecomesRemoves ==
    ASSUME IInv, IInv', BottomPath, NEW p \in Procs, Running(p, "remove"),
           UNCHANGED <<task, result>>, Shrinks,
           NEW frame, frame.path = Top(p).path, Becomes(p, frame)
    PROVE  Removes(p)
<1>1. BottomPath'
    BY BecomesBottom
<1> QED BY <1>1 DEF Removes, Running

LEMMA RmdirRemoves ==
    ASSUME IInv, IInv', BottomPath, NEW p \in Procs, Rmdir(p)
    PROVE  Removes(p)
<1>1. /\ Running(p, "remove") /\ IsEmptyDir(Lookup(Top(p).path)) /\ Unlinks(Top(p).path)
      /\ stack' = [stack EXCEPT ![p] = SubSeq(stack[p], 1, Len(stack[p]) - 1)]
      /\ IF Len(stack[p]) = 1 THEN Ends(p, "ok") ELSE UNCHANGED result
      /\ task' = task /\ result[p] = "running"
    BY DEF Rmdir, InPhase, Running
<1>2. PICK s \in Seq(Frames) : s = stack[p]
    BY <1>1, TopFacts
<1>3. Len(s) \in Nat \ {0}
    BY <1>1, <1>2, TopFacts
<1>4. Shrinks
    <2>1. PICK d, m : child' = [child EXCEPT ![d][m] = None]
        BY <1>1 DEF Unlinks, Links
    <2> QED BY <1>1, <2>1 DEF Unlinks, Shrinks, IInv, TreeInv, TreeOK
<1>5. /\ stack'[p] = SubSeq(s, 1, Len(s) - 1)
      /\ \A q \in Procs \ {p} : stack'[q] = stack[q] /\ result'[q] = result[q]
    BY <1>1, <1>2 DEF Ends, IInv, CallsOK
<1>6. result'[p] = IF Len(s) = 1 THEN "ok" ELSE "running"
    BY <1>1, <1>2 DEF Ends, IInv, CallsOK
<1>7. ASSUME Len(s) # 1 PROVE stack'[p][1] = s[1]
    <2>1. \A i \in 1..Len(s) - 1 : s[i] \in Frames
        BY <1>3, ElementOfSeq
    <2>2. \A i \in 1..Len(s) - 1 : SubSeq(s, 1, Len(s) - 1)[i] = s[i]
        BY <1>3, <2>1, SubSeqProperties
    <2>3. 1 \in 1..Len(s) - 1
        <3>1. PICK l \in Nat \ {0, 1} : l = Len(s)
            BY <1>3, <1>7
        <3>2. 1 \in 1..l - 1
            OBVIOUS
        <3> QED BY <3>1, <3>2
    <2> QED BY <1>5, <2>2, <2>3
<1>8. BottomPath'
    BY <1>1, <1>2, <1>5, <1>6, <1>7, BottomKeeps DEF Running
<1>9. result'[p] = "ok" => LastRmdir(p)
    BY <1>2, <1>6 DEF LastRmdir
<1> QED BY <1>1, <1>4, <1>5, <1>8, <1>9 DEF Removes

LEMMA ReadDirectoryRemoves ==
    ASSUME IInv, IInv', BottomPath, NEW p \in Procs, ReadDirectory(p)
    PROVE  Removes(p)
<1>1. Running(p, "remove") /\ UNCHANGED <<tree, task, result>>
    BY DEF ReadDirectory, InPhase
<1>2. PICK s \in Seq(Frames) : s = stack[p]
    BY <1>1, TopFacts
<1>3. Len(s) \in Nat \ {0} /\ 1 \in 1..Len(s) /\ Top(p) \in Frames
    BY <1>1, <1>2, TopFacts
<1>4. PICK n \in Names :
          stack' = [stack EXCEPT ![p] =
              Append([s EXCEPT ![Len(s)] = [Top(p) EXCEPT !.seen = @ \cup {n}]],
                     Frame(Append(Top(p).path, n)))]
    BY <1>2 DEF ReadDirectory
<1>5. PICK frame \in Frames : frame = [Top(p) EXCEPT !.seen = @ \cup {n}]
    BY <1>3 DEF Frames
<1>6. PICK below \in Seq(Frames) : /\ below = [s EXCEPT ![Len(s)] = frame]
                                   /\ Len(below) = Len(s)
                                   /\ below[1] = IF Len(s) = 1 THEN frame ELSE s[1]
    <2>1. PICK k \in 1..Len(s) : k = Len(s)
        BY <1>3
    <2>2. PICK below : below = [s EXCEPT ![k] = frame]
        OBVIOUS
    <2>3. /\ below \in Seq(Frames) /\ Len(below) = Len(s)
          /\ \A j \in 1..Len(s) : below[j] = IF j = k THEN frame ELSE s[j]
        BY <2>2, ExceptSeq
    <2>4. below[1] = IF Len(s) = 1 THEN frame ELSE s[1]
        BY <1>3, <2>1, <2>3
    <2> QED BY <2>1, <2>2, <2>3, <2>4
<1>7. PICK fresh : fresh = Frame(Append(Top(p).path, n))
    OBVIOUS
<1>8. stack' = [stack EXCEPT ![p] = Append(below, fresh)]
    BY <1>4, <1>5, <1>6, <1>7
<1>9. stack'[p] = Append(below, fresh) /\ \A q \in Procs \ {p} : stack'[q] = stack[q]
    BY <1>8 DEF IInv, CallsOK
<1>10. fresh \in Frames
    <2>1. Append(Top(p).path, n) \in Seq(Names)
        BY <1>3 DEF Frames
    <2> QED BY <1>7, <2>1 DEF Frame, Frames, Types
<1>11. Append(below, fresh)[1] = below[1]
    <2>1. 1 \in 1..Len(below)
        BY <1>3, <1>6
    <2> QED BY <1>10, <2>1, AppendProperties
<1>12. stack'[p][1].path = s[1].path
    <2>1. frame.path = Top(p).path
        BY <1>3, <1>5 DEF Frames
    <2>2. Len(s) = 1 => Top(p) = s[1]
        BY <1>2 DEF Top
    <2> QED BY <1>6, <1>9, <1>11, <2>1, <2>2
<1>13. BottomPath'
    BY <1>1, <1>2, <1>9, <1>12, BottomKeeps
<1> QED BY <1>1, <1>13 DEF Removes, Running, Shrinks, tree
LEMMA RemovalRemoves ==
    ASSUME IInv, IInv', BottomPath, NEW p \in Procs, Continue(p), task[p].op = "remove"
    PROVE  Removes(p)
<1>1. ~Mkdir(p) /\ ~MkdirExists(p) /\ ~MkdirFails(p)
    BY DEF Mkdir, MkdirExists, MkdirFails, Running
<1>2. TreeInv
    BY DEF IInv
<1>3. CASE Opendir(p)
    <2>1. PICK d : d = Enter(Lookup(Top(p).path))
        OBVIOUS
    <2> DEFINE frame == [Top(p) EXCEPT !.phase = "scan", !.dir = d,
                                       !.before = [n \in Names |-> TypeNow(d, n)]]
    <2>2. Running(p, "remove") /\ UNCHANGED <<tree, task, result>> /\ Becomes(p, frame)
        BY <1>3, <2>1 DEF Opendir, InPhase
    <2>3. frame.path = Top(p).path
        BY <2>2, TopFacts DEF Frames
    <2> HIDE DEF frame
    <2> QED BY <2>2, <2>3, BecomesRemoves DEF Shrinks, tree
<1>4. CASE ReadOther(p)
    <2>1. PICK n \in Names : Becomes(p, [Top(p) EXCEPT !.phase = "unlink", !.entry = n,
                                                       !.seen = @ \cup {n}])
        BY <1>4 DEF ReadOther
    <2> DEFINE frame == [Top(p) EXCEPT !.phase = "unlink", !.entry = n, !.seen = @ \cup {n}]
    <2>2. Running(p, "remove") /\ UNCHANGED <<tree, task, result>> /\ Becomes(p, frame)
        BY <1>4, <2>1 DEF ReadOther, InPhase
    <2>3. frame.path = Top(p).path
        BY <2>2, TopFacts DEF Frames
    <2> HIDE DEF frame
    <2> QED BY <2>2, <2>3, BecomesRemoves DEF Shrinks, tree
<1>5. CASE EndOfStream(p)
    <2> DEFINE frame == [Top(p) EXCEPT !.phase = "rmdir"]
    <2>1. Running(p, "remove") /\ UNCHANGED <<tree, task, result>> /\ Becomes(p, frame)
        BY <1>5 DEF EndOfStream, InPhase
    <2>2. frame.path = Top(p).path
        BY <2>1, TopFacts DEF Frames
    <2> HIDE DEF frame
    <2> QED BY <2>1, <2>2, BecomesRemoves DEF Shrinks, tree
<1>6. CASE Unlink(p)
    <2> DEFINE frame == [Top(p) EXCEPT !.phase = "scan", !.entry = None]
    <2>1. /\ Running(p, "remove") /\ UNCHANGED <<task, result>> /\ Becomes(p, frame)
          /\ Unlinks(EntryPath(p))
        BY <1>6 DEF Unlink, InPhase
    <2>2. frame.path = Top(p).path
        BY <2>1, TopFacts DEF Frames
    <2>3. Shrinks
        <3>1. PICK d, m : child' = [child EXCEPT ![d][m] = None]
            BY <2>1 DEF Unlinks, Links
        <3> QED BY <1>2, <2>1, <3>1 DEF Unlinks, Shrinks, TreeInv, TreeOK
    <2> HIDE DEF frame
    <2> QED BY <2>1, <2>2, <2>3, BecomesRemoves
<1>7. CASE OpendirFails(p) \/ UnlinkFails(p) \/ RmdirFails(p)
    BY <1>7, ThrowsRemoves DEF OpendirFails, UnlinkFails, RmdirFails, InPhase, Running, Throws
<1>8. CASE SystemFails(p)
    BY <1>8, ThrowsRemoves DEF SystemFails
<1> QED BY <1>1, <1>3, <1>4, <1>5, <1>6, <1>7, <1>8, RmdirRemoves, ReadDirectoryRemoves
        DEF Continue

(* A removal begins: no task but its own changes.                          *)
LEMMA BeginRemoveBottom ==
    ASSUME IInv, BottomPath, NEW p \in Procs, NEW path \in RemovePaths, BeginRemove(p, path)
    PROVE  BottomPath'
<1>1. /\ task'[p].path = path /\ stack'[p] = <<Frame(path)>>
      /\ \A q \in Procs \ {p} : task'[q] = task[q] /\ stack'[q] = stack[q] /\ result'[q] = result[q]
    BY DEF BeginRemove, Ends, IInv, CallsOK
<1>2. stack'[p][1].path = path
    BY <1>1 DEF Frame
<1> QED BY <1>1, <1>2 DEF BottomPath, Running

(* Making leaves the removals alone.                                       *)
LEMMA MakingBottom ==
    ASSUME IInv, BottomPath, NEW p \in Procs,
           \/ \E path \in MakePaths : BeginMake(p, path)
           \/ Continue(p) /\ task[p].op = "make"
    PROVE  /\ BottomPath' /\ task'[p].op = "make"
           /\ \A q \in Procs \ {p} : task'[q] = task[q]
<1>1. /\ task'[p].op = "make"
      /\ \A q \in Procs \ {p} : task'[q] = task[q] /\ stack'[q] = stack[q] /\ result'[q] = result[q]
    <2>1. CASE \E path \in MakePaths : BeginMake(p, path)
        BY <2>1 DEF BeginMake, Ends, IInv, CallsOK
    <2>2. CASE Continue(p) /\ task[p].op = "make"
        <3>1. Mkdir(p) \/ MkdirExists(p) \/ MkdirFails(p) \/ SystemFails(p)
            BY <2>2 DEF Continue, Opendir, OpendirFails, ReadDirectory, ReadOther, EndOfStream,
                        Unlink, UnlinkFails, Rmdir, RmdirFails, InPhase, Running
        <3>2. task \in [Procs -> Tasks] /\ result \in [Procs -> Results]
              /\ stack \in [Procs -> Seq(Frames)]
            BY DEF IInv, CallsOK
        <3>3. \/ task' = task \/ task' = [task EXCEPT ![p].pos = @ + 1]
            BY <3>1 DEF Mkdir, MkdirExists, MkdirFails, SystemFails, MakesNext
        <3>4. \/ stack' = stack \/ stack' = [stack EXCEPT ![p] = <<>>]
            BY <3>1 DEF Mkdir, MkdirExists, MkdirFails, SystemFails
        <3>5. \A q \in Procs \ {p} : result'[q] = result[q]
            BY <3>1, <3>2 DEF Mkdir, MkdirExists, MkdirFails, SystemFails, MakesNext, Ends
        <3> QED BY <2>2, <3>2, <3>3, <3>4, <3>5 DEF Tasks
    <2> QED BY <2>1, <2>2
<1> QED BY <1>1 DEF BottomPath, Running

-----------------------------------------------------------------------------
(* What has been removed stays so while nobody makes.                      *)
RootStays == \A p \in Procs : task[p].op = "remove" => task[p].path # <<>>

GoneInv == BottomPath /\ RootStays /\ RemovedIsGone /\ RemovedByOne

LEMMA RemovesKeepsGone ==
    ASSUME IInv, GoneInv, NEW p \in Procs, Removes(p)
    PROVE  GoneInv'
<1>1. BottomPath /\ BottomPath' /\ TreeInv /\ Shrinks /\ task' = task
    BY DEF IInv, GoneInv, Removes
<1>2. SUFFICES ASSUME NobodyCalls("make")' PROVE RemovedIsGone' /\ RemovedByOne'
    BY <1>1 DEF GoneInv, RootStays, RemovedIsGone, RemovedByOne
<1>3. /\ NobodyCalls("make")
      /\ \A q \in Procs : Removed(q) => ~exists(task[q].path)
      /\ \A q, r \in Procs : Removed(q) /\ Removed(r) /\ task[q].path = task[r].path => q = r
    BY <1>1, <1>2 DEF GoneInv, RemovedIsGone, RemovedByOne, NobodyCalls
<1>4. \A q \in Procs : task[q].path \in Seq(Names)
    BY DEF IInv, CallsOK, Tasks
<1>5. \A q \in Procs \ {p} : Removed(q)' <=> Removed(q)
    BY <1>1 DEF Removes, Removed
<1>6. ASSUME NEW q \in Procs, Removed(q) PROVE ~exists(task[q].path)'
    <2>1. PICK path \in Seq(Names) : path = task[q].path
        BY <1>4
    <2>2. ~exists(path)
        BY <1>3, <1>6, <2>1
    <2>3. ~exists(path)'
        BY <1>1, <2>2, GoneStays
    <2> QED BY <1>1, <2>1, <2>3
<1>7. CASE ~Removed(p)'
    BY <1>1, <1>3, <1>5, <1>6, <1>7 DEF RemovedIsGone, RemovedByOne
<1>8. CASE Removed(p)'
    <2>1. LastRmdir(p) /\ task[p].op = "remove"
        BY <1>1, <1>8 DEF Removes, Removed
    <2>2. PICK path \in Seq(Names) : path = task[p].path
        BY <1>4
    <2>3. Running(p, "remove") /\ Len(stack[p]) = 1
        BY <2>1 DEF LastRmdir, Rmdir, InPhase
    <2>4. Top(p).path = path
        BY <1>1, <2>2, <2>3 DEF BottomPath, Top
    <2>5. exists(path) /\ Unlinks(path)
        BY <2>1, <2>4 DEF LastRmdir, Rmdir, IsEmptyDir, exists
    <2>6. ~exists(path)'
        <3>1. path # <<>>
            BY <2>1, <2>2 DEF GoneInv, RootStays
        <3> QED BY <1>1, <2>5, <3>1, UnlinksRemoves
    <2>7. RemovedIsGone'
        BY <1>1, <1>5, <1>6, <2>2, <2>6 DEF RemovedIsGone
    <2>8. \A q \in Procs \ {p} : Removed(q) => task[q].path # path
        BY <1>3, <2>5
    <2>9. RemovedByOne'
        BY <1>1, <1>3, <1>5, <2>2, <2>8 DEF RemovedByOne
    <2> QED BY <2>7, <2>9
<1> QED BY <1>7, <1>8
LEMMA GoneInductive == IInv /\ IInv' /\ GoneInv /\ [Next]_vars => GoneInv'
<1> SUFFICES ASSUME IInv, IInv', GoneInv, [Next]_vars PROVE GoneInv'
    OBVIOUS
<1>1. CASE UNCHANGED vars
    <2>1. UNCHANGED tree /\ UNCHANGED <<task, stack, result>>
        BY <1>1 DEF vars, tree
    <2>2. Shrinks /\ TreeInv
        BY <2>1 DEF Shrinks, tree, IInv
    <2>3. \A q \in Procs : task[q].path \in Seq(Names)
        BY DEF IInv, CallsOK, Tasks
    <2>4. ASSUME NEW q \in Procs, ~exists(task[q].path) PROVE ~exists(task[q].path)'
        <3>1. PICK path \in Seq(Names) : path = task[q].path
            BY <2>3
        <3>2. ~exists(path)'
            BY <2>2, <2>4, <3>1, GoneStays
        <3> QED BY <2>1, <3>1, <3>2
    <2> QED BY <2>1, <2>4 DEF GoneInv, BottomPath, RootStays, Running, RemovedIsGone,
                              RemovedByOne, Removed, NobodyCalls
<1>2. ASSUME NEW p \in Procs, Continue(p), task[p].op = "remove" PROVE GoneInv'
    BY <1>2, RemovalRemoves, RemovesKeepsGone DEF GoneInv
<1>3. ASSUME NEW p \in Procs,
             \/ \E path \in MakePaths : BeginMake(p, path)
             \/ Continue(p) /\ task[p].op = "make"
      PROVE  GoneInv'
    <2>1. BottomPath' /\ task'[p].op = "make"
        BY <1>3, MakingBottom DEF GoneInv
    <2>2. \A q \in Procs \ {p} : task'[q] = task[q]
        BY <1>3, MakingBottom DEF GoneInv
    <2>3. ~NobodyCalls("make")'
        BY <2>1 DEF NobodyCalls
    <2>4. RootStays'
        BY <2>1, <2>2 DEF GoneInv, RootStays
    <2> QED BY <2>1, <2>3, <2>4 DEF GoneInv, RemovedIsGone, RemovedByOne
<1>4. ASSUME NEW p \in Procs, NEW path \in RemovePaths, BeginRemove(p, path) PROVE GoneInv'
    <2>1. BottomPath'
        BY <1>4, BeginRemoveBottom DEF GoneInv
    <2>2. /\ task'[p] = [op |-> "remove", path |-> path, pos |-> 0] /\ result'[p] = "running"
          /\ \A q \in Procs \ {p} : task'[q] = task[q] /\ result'[q] = result[q]
          /\ UNCHANGED tree /\ task[p].op = "none" /\ result[p] = "none"
        BY <1>4 DEF BeginRemove, Ends, IInv, CallsOK
    <2>3. path # <<>>
        BY PathsAssumption
    <2>4. RootStays'
        BY <2>2, <2>3 DEF GoneInv, RootStays
    <2>5. Shrinks /\ TreeInv
        BY <2>2 DEF Shrinks, tree, IInv
    <2>6. NobodyCalls("make")' => NobodyCalls("make")
        BY <2>2 DEF NobodyCalls
    <2>7. \A q \in Procs : Removed(q)' => q # p /\ Removed(q)
        BY <2>2 DEF Removed
    <2>8. ASSUME NEW q \in Procs \ {p}, ~exists(task[q].path) PROVE ~exists(task[q].path)'
        <3>1. PICK other \in Seq(Names) : other = task[q].path
            BY DEF IInv, CallsOK, Tasks
        <3>2. ~exists(other)'
            BY <2>5, <2>8, <3>1, GoneStays
        <3> QED BY <2>2, <3>1, <3>2
    <2>9. RemovedIsGone'
        BY <2>6, <2>7, <2>8 DEF GoneInv, RemovedIsGone
    <2>10. RemovedByOne'
        BY <2>2, <2>6, <2>7 DEF GoneInv, RemovedByOne
    <2> QED BY <2>1, <2>4, <2>9, <2>10 DEF GoneInv
<1>5. ASSUME NEW p \in Procs, Continue(p) PROVE task[p].op \in {"make", "remove"}
    BY <1>5 DEF IInv, CallsOK, Tasks, Continue, Mkdir, MkdirExists, MkdirFails, Opendir,
                OpendirFails, ReadDirectory, ReadOther, EndOfStream, Unlink, UnlinkFails,
                Rmdir, RmdirFails, SystemFails, InPhase, Running
<1> QED BY <1>1, <1>2, <1>3, <1>4, <1>5 DEF Next

LEMMA GoneInvariance == Spec => []GoneInv
<1>1. Init => GoneInv
    BY DEF Init, GoneInv, BottomPath, RootStays, RemovedIsGone, RemovedByOne, Running, Removed, NoTask
<1>2. IInv /\ IInv' /\ GoneInv /\ [Next]_vars => GoneInv'
    BY GoneInductive
<1> QED BY <1>1, <1>2, Invariance, PTL DEF Spec

(* While nobody makes, a directory whose removal returned is gone for good.*)
THEOREM RemovedStaysGone == Spec => []RemovedIsGone
<1>1. GoneInv => RemovedIsGone
    BY DEF GoneInv
<1> QED BY <1>1, GoneInvariance, PTL

(* While nobody makes, one caller at most is told it removed a directory.  *)
THEOREM OneRemover == Spec => []RemovedByOne
<1>1. GoneInv => RemovedByOne
    BY DEF GoneInv
<1> QED BY <1>1, GoneInvariance, PTL
-----------------------------------------------------------------------------
(* Removal stays inside.  Fresh inodes are those mkdir() may use; a path is*)
(* off Outside if it leads to something else, and not to a link.           *)
Fresh == {i \in Inodes : InitKind[i] = "free"}

Off(path) ==
    Lookup(path) # None => Lookup(path) # Outside /\ kind[Lookup(path)] # "link"

(* Inside is a part of the tree that Outside does not belong to, closed    *)
(* under entries (a link in it is an entry; what it leads to need not be). *)
Apart(Inside) ==
    /\ \A i \in Inside, n \in Names : child[i][n] \in Inside \cup {None}
    /\ \A path \in RemovePaths :
          /\ Lookup(path) \in Inside \cup {None}
          /\ Off(path) /\ Off(Prefix(path, Len(path) - 1))
    /\ \A path \in MakePaths : \A n \in 1..Len(path) : Off(Prefix(path, n - 1))

(* New directories have new directories in them and nothing else, and the  *)
(* other inodes are what they were.                                        *)
FreshInv ==
    \A i \in Fresh : kind[i] \in {"free", "dir"} /\ \A n \in Names : child[i][n] \in Fresh \cup {None}

KindsStay == \A i \in Inodes \ Fresh : kind[i] = InitKind[i]

(* An activation is for a path inside, and the entries it takes for        *)
(* directories are no links, although it may have read them long ago.      *)
FrameOut(Inside, f) ==
    /\ Lookup(f.path) \in Inside \cup {None}
    /\ Off(f.path) /\ Off(Prefix(f.path, Len(f.path) - 1)) /\ f.path # <<>>
    /\ f.phase = "unlink" => f.entry \in Names
    /\ f.phase \in {"scan", "unlink"} =>
           /\ f.dir \in Inside
           /\ Lookup(f.path) \in {f.dir, None} \cup Fresh
           /\ \A n \in Names : f.before[n] = "dir" => TypeNow(f.dir, n) \in {"none", "dir"}

OutInv(Inside) ==
    /\ Apart(Inside) /\ FreshInv /\ KindsStay /\ OutsideKept
    /\ \A p \in Procs : task[p].op = "make" => task[p].path \in MakePaths
    /\ \A p \in Procs : \A k \in 1..Len(stack[p]) : FrameOut(Inside, stack[p][k])

(* What any step does to the tree.                                         *)
Moves ==
    /\ \A i \in Inodes, n \in Names : child'[i][n] \in {child[i][n], None} \cup Fresh
    /\ \A i \in Inodes : kind[i] # "free" => kind'[i] = kind[i]
    /\ FreshInv' /\ KindsStay' /\ child'[Outside] = child[Outside]

LEMMA OutsideNotFresh == Outside \in Inodes \ Fresh
BY InodesAssumption, InitKindAssumption DEF Fresh

(* A path leads where it led, nowhere, or to a new directory.              *)
LEMMA LookupMoves ==
    ASSUME TreeInv, KindsStay, Moves, NEW path \in Seq(Names)
    PROVE  Lookup(path)' \in {Lookup(path), None} \cup Fresh
<1> DEFINE L(n) == Lookup(Prefix(path, n))
           strange == {n \in Nat : n <= Len(path) /\ L(n)' \notin {L(n), None} \cup Fresh}
<1>1. Len(path) \in Nat
    BY LenProperties
<1>2. L(0) = RootDir /\ \A n \in 1..Len(path) : L(n) = Below(L(n - 1), n, path)
    BY LookupSteps DEF LookupsStep
<1>3. L(0)' = RootDir /\ \A n \in 1..Len(path) : L(n)' = Below(L(n - 1), n, path)'
    BY LookupStepsNext DEF LookupsStep
<1>4. \A n \in 0..Len(path) : L(n) \in Inodes \cup {None}
    BY PrefixIs, LookupType DEF TreeInv
<1>5. strange = {}
    <2> SUFFICES ASSUME strange # {} PROVE FALSE
        OBVIOUS
    <2>1. PICK n \in strange : \A i \in strange : n <= i
        BY LeastNatural
    <2>2. n # 0
        BY <1>2, <1>3, <2>1
    <2>3. /\ n \in 1..Len(path) /\ n - 1 \in Nat /\ n - 1 \notin strange
          /\ n - 1 \in 0..Len(path) /\ path[n] \in Names
        BY <1>1, <2>1, <2>2, ElementOfSeq
    <2>4. /\ L(n) = Below(L(n - 1), n, path) /\ L(n)' = Below(L(n - 1), n, path)'
          /\ L(n)' \notin {L(n), None} \cup Fresh
          /\ L(n - 1) \in Inodes \cup {None}
          /\ L(n - 1)' \in {L(n - 1), None} \cup Fresh
        BY <1>1, <1>2, <1>3, <1>4, <2>1, <2>3
    <2> HIDE DEF L
    <2>5. L(n - 1)' # None
        BY <2>4 DEF Below, Enter
    <2>6. PICK i \in Inodes : i = L(n - 1)'
        BY <2>4, <2>5 DEF Fresh
    <2>7. L(n)' = IF Enter(i)' = None THEN None ELSE child'[Enter(i)'][path[n]]
        BY <2>4, <2>6 DEF Below
    <2>8. CASE i \in Fresh
        <3>1. Enter(i)' \in {i, None}
            BY <2>8 DEF Moves, FreshInv, Enter
        <3> QED BY <2>3, <2>4, <2>7, <2>8, <3>1 DEF Moves, FreshInv
    <2>9. CASE i \notin Fresh
        <3>1. i = L(n - 1) /\ kind'[i] = kind[i]
            <4>1. i = L(n - 1)
                BY <2>4, <2>6, <2>9, InodesAssumption
            <4>2. kind[i] # "free"
                BY <2>9 DEF KindsStay, Fresh
            <4> QED BY <4>1, <4>2 DEF Moves
        <3>2. Enter(i)' = Enter(i) /\ Enter(i) \in Inodes \cup {None}
            BY <3>1, EnterType DEF Enter, TreeInv
        <3>3. L(n) = IF Enter(i) = None THEN None ELSE child[Enter(i)][path[n]]
            BY <2>4, <3>1 DEF Below
        <3> QED BY <2>3, <2>4, <2>7, <3>2, <3>3 DEF Moves
    <2> QED BY <2>8, <2>9
<1>6. path = Prefix(path, Len(path))
    BY PrefixFull
<1>7. L(Len(path))' \in {L(Len(path)), None} \cup Fresh
    BY <1>1, <1>5
<1> QED BY <1>6, <1>7

LEMMA OffStays ==
    ASSUME TreeInv, KindsStay, Moves, NEW path \in Seq(Names), Off(path)
    PROVE  Off(path)'
<1> SUFFICES ASSUME NEW i \in Inodes, i = Lookup(path)'
             PROVE  i # Outside /\ kind'[i] # "link"
    BY LookupMoves, LookupType, InodesAssumption DEF Off, Fresh, TreeInv
<1>1. CASE i \in Fresh
    BY <1>1, OutsideNotFresh DEF Moves, FreshInv
<1>2. CASE i \notin Fresh
    <2>1. i = Lookup(path) /\ kind'[i] = kind[i] /\ i # None
        BY <1>2, LookupMoves, InodesAssumption DEF KindsStay, Moves
    <2> QED BY <2>1 DEF Off
<1> QED BY <1>1, <1>2
LEMMA FrameStays ==
    ASSUME NEW CONSTANT Inside, Fresh \subseteq Inside, Inside \subseteq Inodes,
           TreeInv, TreeInv', KindsStay, Moves, NEW f \in Frames, FrameOut(Inside, f)
    PROVE  FrameOut(Inside, f)'
<1>1. f.path \in Seq(Names) /\ f.path # <<>>
    BY DEF Frames, FrameOut
<1>2. Prefix(f.path, Len(f.path) - 1) \in Seq(Names)
    BY <1>1, LenProperties, EmptySeq, PrefixIs
<1>3. Off(f.path)' /\ Off(Prefix(f.path, Len(f.path) - 1))'
    BY <1>1, <1>2, OffStays DEF FrameOut
<1>4. Lookup(f.path)' \in {Lookup(f.path), None} \cup Fresh
    BY <1>1, LookupMoves
<1>5. ASSUME f.phase \in {"scan", "unlink"}, NEW n \in Names, f.before[n] = "dir"
      PROVE  TypeNow(f.dir, n)' \in {"none", "dir"}
    <2>1. f.dir \in Inodes /\ TypeNow(f.dir, n) \in {"none", "dir"}
        BY <1>5 DEF FrameOut
    <2>2. CASE child'[f.dir][n] = None
        BY <2>2 DEF TypeNow
    <2>3. CASE child'[f.dir][n] \in Fresh
        BY <2>1, <2>3 DEF TypeNow, Moves, FreshInv, TreeInv, UsedEntries
    <2>4. CASE child'[f.dir][n] = child[f.dir][n] /\ child[f.dir][n] # None
        <3>1. PICK i \in Inodes : i = child[f.dir][n]
            BY <2>1, <2>4 DEF TreeInv, TreeOK
        <3>2. kind[i] # "free"
            BY <2>1, <2>4, <3>1 DEF TreeInv, UsedEntries
        <3>3. kind[i] = "dir"
            BY <2>1, <2>4, <3>1, <3>2 DEF TypeNow, TreeInv, TreeOK, Kinds
        <3> QED BY <2>4, <3>1, <3>3 DEF TypeNow, Moves
    <2> QED BY <2>1, <2>2, <2>3, <2>4 DEF Moves
<1> QED BY <1>1, <1>3, <1>4, <1>5 DEF FrameOut

LEMMA ApartStays ==
    ASSUME NEW CONSTANT Inside, Fresh \subseteq Inside, Inside \subseteq Inodes,
           TreeInv, KindsStay, Moves, Apart(Inside)
    PROVE  Apart(Inside)'
<1>1. ASSUME NEW path \in RemovePaths
      PROVE  /\ Lookup(path)' \in Inside \cup {None}
             /\ Off(path)' /\ Off(Prefix(path, Len(path) - 1))'
    <2>1. path \in Seq(Names) /\ path # <<>>
        BY PathsAssumption
    <2>2. Prefix(path, Len(path) - 1) \in Seq(Names)
        BY <2>1, LenProperties, EmptySeq, PrefixIs
    <2> QED BY <2>1, <2>2, LookupMoves, OffStays DEF Apart
<1>2. ASSUME NEW path \in MakePaths, NEW n \in 1..Len(path) PROVE Off(Prefix(path, n - 1))'
    <2>1. path \in Seq(Names) /\ n - 1 \in 0..Len(path)
        BY PathsAssumption, LenProperties
    <2> QED BY <2>1, PrefixIs, OffStays DEF Apart
<1>3. \A i \in Inside, n \in Names : child'[i][n] \in Inside \cup {None}
    BY DEF Apart, Moves
<1> QED BY <1>1, <1>2, <1>3 DEF Apart

(* What a step preserves if the activations it leaves are in order.        *)
LEMMA OutKeeps ==
    ASSUME NEW CONSTANT Inside, Fresh \subseteq Inside, Inside \subseteq Inodes,
           IInv, IInv', OutInv(Inside), Moves, NEW p \in Procs,
           task'[p].op = "make" => task'[p].path \in MakePaths,
           \A q \in Procs \ {p} : task'[q] = task[q] /\ stack'[q] = stack[q],
           \A k \in 1..Len(stack'[p]) : FrameOut(Inside, stack'[p][k])
    PROVE  OutInv(Inside)'
<1>1. TreeInv /\ TreeInv' /\ KindsStay
    BY DEF IInv, OutInv
<1>2. Apart(Inside)'
    BY <1>1, ApartStays DEF OutInv
<1>3. FreshInv' /\ KindsStay' /\ OutsideKept'
    BY DEF Moves, OutInv, OutsideKept
<1>4. ASSUME NEW q \in Procs, NEW k \in 1..Len(stack'[q]) PROVE FrameOut(Inside, stack[q][k])'
    <2>1. PICK f : f = stack'[q][k]
        OBVIOUS
    <2>2. f \in Frames
        BY <2>1, ElementOfSeq DEF IInv, CallsOK
    <2>3. FrameOut(Inside, f)
        BY <2>1 DEF OutInv
    <2>4. FrameOut(Inside, f)'
        BY <1>1, <2>2, <2>3, FrameStays
    <2> QED BY <2>1, <2>4
<1> QED BY <1>2, <1>3, <1>4 DEF OutInv
(* What links and unlinks off Outside does to the tree.                    *)
LEMMA UnlinksMoves ==
    ASSUME TreeInv, FreshInv, KindsStay, NEW path \in Seq(Names) \ {<<>>}, exists(path),
           Off(Prefix(path, Len(path) - 1)), Unlinks(path)
    PROVE  Moves
<1>1. PICK j : j = Lookup(Prefix(path, Len(path) - 1))
    OBVIOUS
<1>2. PICK d : d = ParentDir(path)
    OBVIOUS
<1>3. d = Enter(j) /\ d # None
    <2>1. Len(path) \in 1..Len(path) /\ Prefix(path, Len(path)) = path
        BY EmptySeq, LenProperties, PrefixFull
    <2> QED BY <1>1, <1>2, <2>1, ParentStep DEF exists
<1>4. d # Outside
    BY <1>1, <1>3 DEF Off, Enter
<1>5. PICK m : kind' = kind /\ child' = [child EXCEPT ![d][m] = None]
    BY <1>2 DEF Unlinks, Links
<1> QED BY <1>4, <1>5, OutsideNotFresh DEF TreeInv, TreeOK, Moves, FreshInv, KindsStay, Fresh

LEMMA CreatesMoves ==
    ASSUME TreeInv, FreshInv, KindsStay, NEW path \in Seq(Names), NEW n \in 1..Len(path),
           ParentDir(Prefix(path, n)) # None, Off(Prefix(path, n - 1)),
           Creates(Prefix(path, n))
    PROVE  Moves
<1>1. PICK i \in Inodes : /\ kind[i] = "free" /\ kind' = [kind EXCEPT ![i] = "dir"]
                          /\ Links(ParentDir(Prefix(path, n)), LastName(Prefix(path, n)), i)
    BY DEF Creates
<1>2. PICK j : j = Lookup(Prefix(path, n - 1))
    OBVIOUS
<1>3. PICK d : d = ParentDir(Prefix(path, n)) /\ d # None
    OBVIOUS
<1>4. d = Enter(j)
    BY <1>2, <1>3, ParentStep
<1>5. d # Outside
    BY <1>2, <1>3, <1>4 DEF Off, Enter
<1>6. i \in Fresh
    BY <1>1 DEF KindsStay, Fresh
<1>7. PICK m : child' = [child EXCEPT ![d][m] = i]
    BY <1>1, <1>3 DEF Links
<1> QED BY <1>1, <1>5, <1>6, <1>7, OutsideNotFresh
        DEF TreeInv, TreeOK, Moves, FreshInv, KindsStay, Fresh

LEMMA SameTreeMoves ==
    ASSUME TreeInv, FreshInv, KindsStay, UNCHANGED tree
    PROVE  Moves
BY OutsideNotFresh DEF tree, Moves, FreshInv, KindsStay

(* A step of a removal that only changes its innermost activation.         *)
LEMMA BecomesOut ==
    ASSUME NEW CONSTANT Inside, Fresh \subseteq Inside, Inside \subseteq Inodes,
           IInv, IInv', OutInv(Inside), Moves, NEW p \in Procs, Running(p, "remove"),
           task' = task, NEW frame \in Frames, FrameOut(Inside, frame), Becomes(p, frame)
    PROVE  OutInv(Inside)'
<1>1. PICK s \in Seq(Frames) : s = stack[p]
    BY TopFacts
<1>2. PICK l \in 1..Len(s) : l = Len(s)
    BY <1>1, TopFacts
<1>3. stack' = [stack EXCEPT ![p] = [s EXCEPT ![l] = frame]]
    BY <1>1, <1>2 DEF Becomes
<1>4. stack'[p] = [s EXCEPT ![l] = frame] /\ \A q \in Procs \ {p} : stack'[q] = stack[q]
    BY <1>3 DEF IInv, CallsOK
<1>5. /\ Len(stack'[p]) = Len(s)
      /\ \A k \in 1..Len(s) : stack'[p][k] = IF k = l THEN frame ELSE s[k]
    BY <1>4, ExceptSeq
<1>6. \A k \in 1..Len(stack'[p]) : FrameOut(Inside, stack'[p][k])
    BY <1>1, <1>5 DEF OutInv
<1>7. task'[p].op = "make" => task'[p].path \in MakePaths
    BY DEF OutInv
<1> QED BY <1>4, <1>6, <1>7, OutKeeps

LEMMA ThrowsOut ==
    ASSUME NEW CONSTANT Inside, Fresh \subseteq Inside, Inside \subseteq Inodes,
           IInv, IInv', OutInv(Inside), NEW p \in Procs, UNCHANGED <<tree, task>>,
           stack' = [stack EXCEPT ![p] = <<>>]
    PROVE  OutInv(Inside)'
<1>1. Moves
    BY SameTreeMoves DEF IInv, OutInv
<1>2. stack'[p] = <<>> /\ \A q \in Procs \ {p} : stack'[q] = stack[q]
    BY DEF IInv, CallsOK
<1>3. \A k \in 1..Len(stack'[p]) : FrameOut(Inside, stack'[p][k])
    BY <1>2, EmptySeq
<1> QED BY <1>1, <1>2, <1>3, OutKeeps DEF OutInv

LEMMA TopOut ==
    ASSUME NEW CONSTANT Inside, IInv, OutInv(Inside), NEW p \in Procs, Running(p, "remove")
    PROVE  /\ FrameOut(Inside, Top(p)) /\ Top(p) \in Frames
           /\ Top(p).path \in Seq(Names) \ {<<>>}
<1>1. Len(stack[p]) \in 1..Len(stack[p]) /\ Top(p) \in Frames
    BY TopFacts
<1>2. FrameOut(Inside, Top(p))
    BY <1>1 DEF OutInv, Top
<1> QED BY <1>1, <1>2 DEF FrameOut, Frames
(* Each step of a removal.                                                 *)
LEMMA OpendirOut ==
    ASSUME NEW CONSTANT Inside, Fresh \subseteq Inside, Inside \subseteq Inodes,
           IInv, IInv', OutInv(Inside), NEW p \in Procs, Opendir(p)
    PROVE  OutInv(Inside)'
<1>1. PICK d : /\ d = Enter(Lookup(Top(p).path)) /\ d # None
               /\ Becomes(p, [Top(p) EXCEPT !.phase = "scan", !.dir = d,
                                            !.before = [n \in Names |-> TypeNow(d, n)]])
    BY DEF Opendir
<1>2. Running(p, "remove") /\ UNCHANGED <<tree, task>>
    BY DEF Opendir, InPhase
<1>3. /\ FrameOut(Inside, Top(p)) /\ Top(p) \in Frames
      /\ Top(p).path \in Seq(Names) \ {<<>>}
    BY <1>2, TopOut
<1>4. d = Lookup(Top(p).path) /\ d \in Inside
    BY <1>1, <1>3 DEF Enter, FrameOut, Off
<1>5. [n \in Names |-> TypeNow(d, n)] \in [Names -> Types]
    BY <1>4 DEF IInv, TreeInv, TreeOK, UsedEntries, TypeNow, Types, Kinds
<1> DEFINE frame == [Top(p) EXCEPT !.phase = "scan", !.dir = d,
                                   !.before = [n \in Names |-> TypeNow(d, n)]]
<1>6. /\ frame \in Frames /\ frame.phase = "scan" /\ frame.dir = d /\ frame.path = Top(p).path
      /\ frame.before = [n \in Names |-> TypeNow(d, n)]
    BY <1>3, <1>4, <1>5 DEF Frames
<1> HIDE DEF frame
<1>7. FrameOut(Inside, frame)
    BY <1>3, <1>4, <1>6 DEF FrameOut
<1>8. Moves
    BY <1>2, SameTreeMoves DEF IInv, OutInv
<1> QED BY <1>1, <1>2, <1>6, <1>7, <1>8, BecomesOut DEF frame

LEMMA ReadOtherOut ==
    ASSUME NEW CONSTANT Inside, Fresh \subseteq Inside, Inside \subseteq Inodes,
           IInv, IInv', OutInv(Inside), NEW p \in Procs, ReadOther(p)
    PROVE  OutInv(Inside)'
<1>1. PICK n \in Names : Becomes(p, [Top(p) EXCEPT !.phase = "unlink", !.entry = n,
                                                   !.seen = @ \cup {n}])
    BY DEF ReadOther
<1>2. Running(p, "remove") /\ UNCHANGED <<tree, task>> /\ Top(p).phase = "scan"
    BY DEF ReadOther, InPhase
<1>3. FrameOut(Inside, Top(p)) /\ Top(p) \in Frames
    BY <1>2, TopOut
<1> DEFINE frame == [Top(p) EXCEPT !.phase = "unlink", !.entry = n, !.seen = @ \cup {n}]
<1>4. /\ frame \in Frames /\ frame.phase = "unlink" /\ frame.dir = Top(p).dir
      /\ frame.path = Top(p).path /\ frame.before = Top(p).before /\ frame.entry = n
    BY <1>3 DEF Frames
<1> HIDE DEF frame
<1>5. FrameOut(Inside, frame)
    BY <1>2, <1>3, <1>4 DEF FrameOut
<1>6. Moves
    BY <1>2, SameTreeMoves DEF IInv, OutInv
<1> QED BY <1>1, <1>2, <1>4, <1>5, <1>6, BecomesOut DEF frame

LEMMA EndOfStreamOut ==
    ASSUME NEW CONSTANT Inside, Fresh \subseteq Inside, Inside \subseteq Inodes,
           IInv, IInv', OutInv(Inside), NEW p \in Procs, EndOfStream(p)
    PROVE  OutInv(Inside)'
<1> DEFINE frame == [Top(p) EXCEPT !.phase = "rmdir"]
<1>1. Running(p, "remove") /\ UNCHANGED <<tree, task>> /\ Becomes(p, frame)
    BY DEF EndOfStream, InPhase
<1>2. FrameOut(Inside, Top(p)) /\ Top(p) \in Frames
    BY <1>1, TopOut
<1>3. frame \in Frames /\ frame.phase = "rmdir" /\ frame.path = Top(p).path
    BY <1>2 DEF Frames
<1> HIDE DEF frame
<1>4. FrameOut(Inside, frame)
    BY <1>2, <1>3 DEF FrameOut
<1>5. Moves
    BY <1>1, SameTreeMoves DEF IInv, OutInv
<1> QED BY <1>1, <1>3, <1>4, <1>5, BecomesOut

LEMMA UnlinkOut ==
    ASSUME NEW CONSTANT Inside, Fresh \subseteq Inside, Inside \subseteq Inodes,
           IInv, IInv', OutInv(Inside), NEW p \in Procs, Unlink(p)
    PROVE  OutInv(Inside)'
<1> DEFINE frame == [Top(p) EXCEPT !.phase = "scan", !.entry = None]
<1>1. /\ Running(p, "remove") /\ task' = task /\ Becomes(p, frame) /\ Top(p).phase = "unlink"
      /\ exists(EntryPath(p)) /\ Unlinks(EntryPath(p))
    BY DEF Unlink, InPhase, Unlinkable
<1>2. /\ FrameOut(Inside, Top(p)) /\ Top(p) \in Frames
      /\ Top(p).path \in Seq(Names) \ {<<>>}
    BY <1>1, TopOut
<1>3. /\ frame \in Frames /\ frame.phase = "scan" /\ frame.dir = Top(p).dir
      /\ frame.path = Top(p).path /\ frame.before = Top(p).before
    BY <1>2 DEF Frames
<1> HIDE DEF frame
<1>4. FrameOut(Inside, frame)
    BY <1>1, <1>2, <1>3 DEF FrameOut
<1>5. PICK path \in Seq(Names) : path = Top(p).path
    BY <1>2
<1>6. PICK n \in Names : n = Top(p).entry
    BY <1>1, <1>2 DEF FrameOut
<1>7. /\ Append(path, n) \in Seq(Names) \ {<<>>}
      /\ Prefix(Append(path, n), Len(Append(path, n)) - 1) = path
    <2>1. /\ Append(path, n) \in Seq(Names) /\ Len(Append(path, n)) = Len(path) + 1
          /\ \A i \in 1..Len(path) : Append(path, n)[i] = path[i]
        BY AppendProperties
    <2>2. Len(path) \in Nat /\ Len(path) \in 0..Len(Append(path, n))
        BY <2>1, LenProperties
    <2>3. /\ Prefix(Append(path, n), Len(path)) \in Seq(Names)
          /\ Len(Prefix(Append(path, n), Len(path))) = Len(path)
          /\ \A i \in 1..Len(path) : Prefix(Append(path, n), Len(path))[i] = path[i]
        BY <2>1, <2>2, PrefixIs
    <2>4. Prefix(Append(path, n), Len(path)) = path
        BY <2>3, SeqEqual
    <2>5. Append(path, n) # <<>>
        BY <2>1, <2>2, EmptySeq
    <2> QED BY <2>1, <2>2, <2>4, <2>5
<1>8. Off(path) /\ exists(Append(path, n)) /\ Unlinks(Append(path, n))
    BY <1>1, <1>2, <1>5, <1>6 DEF FrameOut, EntryPath
<1>9. Moves
    BY <1>7, <1>8, UnlinksMoves DEF IInv, OutInv
<1> QED BY <1>1, <1>3, <1>4, <1>9, BecomesOut

LEMMA RmdirOut ==
    ASSUME NEW CONSTANT Inside, Fresh \subseteq Inside, Inside \subseteq Inodes,
           IInv, IInv', OutInv(Inside), NEW p \in Procs, Rmdir(p)
    PROVE  OutInv(Inside)'
<1>1. /\ Running(p, "remove") /\ exists(Top(p).path) /\ Unlinks(Top(p).path) /\ task' = task
      /\ stack' = [stack EXCEPT ![p] = SubSeq(stack[p], 1, Len(stack[p]) - 1)]
    BY DEF Rmdir, InPhase, IsEmptyDir, exists
<1>2. /\ FrameOut(Inside, Top(p)) /\ Top(p).path \in Seq(Names) \ {<<>>}
    BY <1>1, TopOut
<1>3. Moves
    BY <1>1, <1>2, UnlinksMoves DEF IInv, OutInv, FrameOut
<1>4. PICK s \in Seq(Frames) : s = stack[p] /\ Len(s) \in Nat \ {0}
    BY <1>1, TopFacts
<1>5. stack'[p] = SubSeq(s, 1, Len(s) - 1) /\ \A q \in Procs \ {p} : stack'[q] = stack[q]
    BY <1>1, <1>4 DEF IInv, CallsOK
<1>6. /\ Len(stack'[p]) = Len(s) - 1
      /\ \A k \in 1..Len(s) - 1 : stack'[p][k] = s[k]
    <2>1. \A i \in 1..Len(s) - 1 : s[i] \in Frames
        BY <1>4, ElementOfSeq
    <2> QED BY <1>4, <1>5, <2>1, SubSeqProperties
<1>7. \A k \in 1..Len(stack'[p]) : FrameOut(Inside, stack'[p][k])
    BY <1>4, <1>6 DEF OutInv
<1> QED BY <1>1, <1>3, <1>5, <1>7, OutKeeps DEF OutInv
(* The nested activation is for a directory of the one it is called in, or *)
(* of one that was made in its place.                                      *)
LEMMA NestedOut ==
    ASSUME NEW CONSTANT Inside, Fresh \subseteq Inside, Inside \subseteq Inodes \ {Outside},
           IInv, OutInv(Inside), NEW f \in Frames, FrameOut(Inside, f), f.phase = "scan",
           NEW n \in Names, "dir" \in EntryTypes(f, n)
    PROVE  FrameOut(Inside, Frame(Append(f.path, n)))
<1>1. PICK path \in Seq(Names) : path = f.path
    BY DEF Frames
<1>2. PICK sub \in Seq(Names) : sub = Append(path, n)
    BY AppendProperties
<1>3. /\ Len(sub) = Len(path) + 1 /\ sub[Len(path) + 1] = n /\ Len(path) \in Nat
      /\ \A i \in 1..Len(path) : sub[i] = path[i]
    BY <1>2, AppendProperties, LenProperties
<1>4. Prefix(sub, Len(sub) - 1) = path
    <2>1. Len(path) \in 0..Len(sub)
        BY <1>3
    <2>2. /\ Prefix(sub, Len(path)) \in Seq(Names) /\ Len(Prefix(sub, Len(path))) = Len(path)
          /\ \A i \in 1..Len(path) : Prefix(sub, Len(path))[i] = path[i]
        BY <1>3, <2>1, PrefixIs
    <2>3. Prefix(sub, Len(path)) = path
        BY <2>2, SeqEqual
    <2> QED BY <1>3, <2>3
<1>5. PICK i : i = Lookup(path)
    OBVIOUS
<1>6. Lookup(sub) = IF Enter(i) = None THEN None ELSE child[Enter(i)][n]
    <2>1. Len(sub) \in 1..Len(sub) /\ Prefix(sub, Len(sub)) = sub /\ sub[Len(sub)] = n
        BY <1>3, PrefixFull
    <2> QED BY <1>4, <1>5, <2>1, ParentStep
<1>7. /\ i \in {f.dir, None} \cup Fresh /\ Off(path) /\ f.dir \in Inside
      /\ f.before[n] = "dir" => TypeNow(f.dir, n) \in {"none", "dir"}
    BY <1>1, <1>5 DEF FrameOut
<1>8. TypeNow(f.dir, n) \in {"none", "dir"}
    BY <1>7 DEF EntryTypes
<1>9. Enter(i) \in {i, None}
    BY <1>5, <1>7 DEF Off, Enter
<1>10. Lookup(sub) \in Inside \cup {None} /\ Off(sub)
    <2>1. CASE Lookup(sub) = None
        BY <2>1 DEF Off
    <2>2. CASE Lookup(sub) # None /\ i \in Fresh
        <3>1. Lookup(sub) \in Fresh
            BY <1>6, <1>9, <2>2 DEF OutInv, FreshInv
        <3> QED BY <3>1, OutsideNotFresh DEF OutInv, FreshInv, Off
    <2>3. CASE Lookup(sub) # None /\ i = f.dir
        <3>1. Lookup(sub) = child[f.dir][n]
            BY <1>6, <1>9, <2>3
        <3>2. Lookup(sub) \in Inside
            BY <1>7, <2>3, <3>1 DEF OutInv, Apart
        <3>3. kind[Lookup(sub)] \in {"none", "dir"}
            BY <1>8, <2>3, <3>1 DEF TypeNow
        <3> QED BY <3>2, <3>3 DEF Off
    <2>4. i = None => Lookup(sub) = None
        BY <1>6 DEF Enter
    <2> QED BY <1>7, <2>1, <2>2, <2>3, <2>4
<1>11. sub # <<>>
    BY <1>3, EmptySeq
<1>12. Frame(sub).path = sub /\ Frame(sub).phase = "open"
    BY DEF Frame
<1> QED BY <1>1, <1>2, <1>4, <1>7, <1>10, <1>11, <1>12 DEF FrameOut

LEMMA ReadDirectoryOut ==
    ASSUME NEW CONSTANT Inside, Fresh \subseteq Inside, Inside \subseteq Inodes \ {Outside},
           IInv, IInv', OutInv(Inside), NEW p \in Procs, ReadDirectory(p)
    PROVE  OutInv(Inside)'
<1>1. Running(p, "remove") /\ UNCHANGED <<tree, task>> /\ Top(p).phase = "scan"
    BY DEF ReadDirectory, InPhase
<1>2. PICK s \in Seq(Frames) : s = stack[p]
    BY <1>1, TopFacts
<1>3. PICK l \in 1..Len(s) : l = Len(s)
    BY <1>1, <1>2, TopFacts
<1>4. PICK n \in Names :
          /\ "dir" \in EntryTypes(Top(p), n)
          /\ stack' = [stack EXCEPT ![p] =
              Append([s EXCEPT ![l] = [Top(p) EXCEPT !.seen = @ \cup {n}]],
                     Frame(Append(Top(p).path, n)))]
    BY <1>2, <1>3 DEF ReadDirectory
<1>5. FrameOut(Inside, Top(p)) /\ Top(p) \in Frames
    BY <1>1, TopOut
<1>6. PICK frame : frame = [Top(p) EXCEPT !.seen = @ \cup {n}]
    OBVIOUS
<1>7. /\ frame \in Frames /\ frame.phase = "scan" /\ frame.dir = Top(p).dir
      /\ frame.path = Top(p).path /\ frame.before = Top(p).before
    BY <1>1, <1>5, <1>6 DEF Frames
<1>8. FrameOut(Inside, frame)
    BY <1>1, <1>5, <1>7 DEF FrameOut
<1>9. PICK nested : nested = Frame(Append(Top(p).path, n))
    OBVIOUS
<1>10. FrameOut(Inside, nested)
    BY <1>1, <1>4, <1>5, <1>9, NestedOut
<1>11. nested \in Frames
    <2>1. Append(Top(p).path, n) \in Seq(Names)
        BY <1>5 DEF Frames
    <2> QED BY <1>9, <2>1 DEF Frame, Frames, Types
<1>12. PICK below : below = [s EXCEPT ![l] = frame]
    OBVIOUS
<1>13. /\ below \in Seq(Frames) /\ Len(below) = Len(s)
       /\ \A k \in 1..Len(s) : below[k] = IF k = l THEN frame ELSE s[k]
    BY <1>7, <1>12, ExceptSeq
<1>14. stack' = [stack EXCEPT ![p] = Append(below, nested)]
    BY <1>4, <1>6, <1>9, <1>12
<1>15. stack'[p] = Append(below, nested) /\ \A q \in Procs \ {p} : stack'[q] = stack[q]
    BY <1>14 DEF IInv, CallsOK
<1>16. /\ Len(stack'[p]) = Len(s) + 1 /\ stack'[p][Len(s) + 1] = nested
       /\ \A k \in 1..Len(s) : stack'[p][k] = below[k]
    BY <1>11, <1>13, <1>15, AppendProperties
<1>17. \A k \in 1..Len(s) : FrameOut(Inside, s[k])
    BY <1>2 DEF OutInv
<1>18. \A k \in 1..Len(stack'[p]) : FrameOut(Inside, stack'[p][k])
    <2>1. Len(s) \in Nat
        BY LenProperties
    <2> QED BY <1>8, <1>10, <1>13, <1>16, <1>17, <2>1
<1>19. Moves
    BY <1>1, SameTreeMoves DEF IInv, OutInv
<1>20. /\ Inside \subseteq Inodes
       /\ task'[p].op = "make" => task'[p].path \in MakePaths
       /\ \A q \in Procs \ {p} : task'[q] = task[q]
    BY <1>1 DEF OutInv
<1> QED BY <1>15, <1>18, <1>19, <1>20, OutKeeps

(* Each step of a maker.                                                   *)
LEMMA MakingOut ==
    ASSUME NEW CONSTANT Inside, Fresh \subseteq Inside, Inside \subseteq Inodes,
           IInv, IInv', OutInv(Inside), NEW p \in Procs,
           Mkdir(p) \/ MkdirExists(p) \/ MkdirFails(p)
    PROVE  OutInv(Inside)'
<1>1. Running(p, "make") /\ stack' = stack /\ task[p].op = "make" /\ task[p].path \in MakePaths
    BY DEF Mkdir, MkdirExists, MkdirFails, Running, OutInv
<1>2. task' = task \/ task' = [task EXCEPT ![p].pos = @ + 1]
    BY DEF Mkdir, MkdirExists, MkdirFails, MakesNext
<1>3. task'[p].path = task[p].path /\ \A q \in Procs \ {p} : task'[q] = task[q]
    BY <1>2 DEF IInv, CallsOK, Tasks
<1>4. Moves
    <2>1. CASE Mkdir(p)
        <3>1. PICK path \in Seq(Names) : path = task[p].path
            BY <1>1, PathsAssumption
        <3>2. PICK n \in 1..Len(path) : n = task[p].pos
            BY <1>1, <3>1 DEF IInv, CallsOK
        <3>3. ParentDir(Prefix(path, n)) # None /\ Creates(Prefix(path, n))
            BY <2>1, <3>1, <3>2 DEF Mkdir, MakesNow
        <3>4. Off(Prefix(path, n - 1))
            BY <1>1, <3>1, <3>2 DEF OutInv, Apart
        <3> QED BY <3>3, <3>4, CreatesMoves DEF IInv, OutInv
    <2>2. CASE MkdirExists(p) \/ MkdirFails(p)
        BY <2>2, SameTreeMoves DEF MkdirExists, MkdirFails, IInv, OutInv
    <2> QED BY <2>1, <2>2
<1>5. \A k \in 1..Len(stack'[p]) : FrameOut(Inside, stack'[p][k])
    BY <1>1 DEF OutInv
<1> QED BY <1>1, <1>3, <1>4, <1>5, OutKeeps

LEMMA BeginsOut ==
    ASSUME NEW CONSTANT Inside, Fresh \subseteq Inside, Inside \subseteq Inodes,
           IInv, IInv', OutInv(Inside), NEW p \in Procs,
           \/ \E path \in MakePaths : BeginMake(p, path)
           \/ \E path \in RemovePaths : BeginRemove(p, path)
    PROVE  OutInv(Inside)'
<1>1. UNCHANGED tree
    BY DEF BeginMake, BeginRemove
<1>2. Moves
    BY <1>1, SameTreeMoves DEF IInv, OutInv
<1>3. CASE \E path \in MakePaths : BeginMake(p, path)
    <2>1. /\ task'[p].path \in MakePaths /\ stack' = stack
          /\ \A q \in Procs \ {p} : task'[q] = task[q]
        BY <1>3 DEF BeginMake, IInv, CallsOK
    <2>2. \A k \in 1..Len(stack'[p]) : FrameOut(Inside, stack'[p][k])
        BY <2>1 DEF OutInv
    <2> QED BY <1>2, <2>1, <2>2, OutKeeps
<1>4. ASSUME NEW path \in RemovePaths, BeginRemove(p, path) PROVE OutInv(Inside)'
    <2>1. /\ task'[p].op = "remove" /\ stack'[p] = <<Frame(path)>>
          /\ \A q \in Procs \ {p} : task'[q] = task[q] /\ stack'[q] = stack[q]
        BY <1>4 DEF BeginRemove, IInv, CallsOK
    <2>2. FrameOut(Inside, Frame(path))
        BY PathsAssumption DEF OutInv, Apart, FrameOut, Frame
    <2>3. \A k \in 1..Len(stack'[p]) : FrameOut(Inside, stack'[p][k])
        BY <2>1, <2>2
    <2> QED BY <1>2, <2>1, <2>3, OutKeeps
<1> QED BY <1>3, <1>4

LEMMA OutInductive ==
    ASSUME NEW CONSTANT Inside, Fresh \subseteq Inside, Inside \subseteq Inodes \ {Outside},
           IInv, IInv', OutInv(Inside), [Next]_vars
    PROVE  OutInv(Inside)'
<1>1. Inside \subseteq Inodes
    OBVIOUS
<1>2. CASE UNCHANGED vars
    <2>1. UNCHANGED <<tree, task, stack>>
        BY <1>2 DEF vars, tree
    <2>2. Moves
        BY <2>1, SameTreeMoves DEF IInv, OutInv
    <2>3. ASSUME NEW p \in Procs PROVE OutInv(Inside)'
        <3>1. \A k \in 1..Len(stack'[p]) : FrameOut(Inside, stack'[p][k])
            BY <2>1 DEF OutInv
        <3> QED BY <1>1, <2>1, <2>2, <3>1, OutKeeps DEF OutInv
    <2>4. CASE Procs = {}
        BY <1>1, <2>2, <2>4, ApartStays DEF OutInv, IInv, Moves, OutsideKept
    <2> QED BY <2>3, <2>4
<1>3. ASSUME NEW p \in Procs, Continue(p) PROVE OutInv(Inside)'
    <2>1. CASE OpendirFails(p) \/ UnlinkFails(p) \/ RmdirFails(p) \/ SystemFails(p)
        <3>1. UNCHANGED <<tree, task>> /\ stack' = [stack EXCEPT ![p] = <<>>]
            BY <2>1 DEF OpendirFails, UnlinkFails, RmdirFails, SystemFails, Throws
        <3> QED BY <1>1, <3>1, ThrowsOut
    <2> QED BY <1>1, <1>3, <2>1, MakingOut, OpendirOut, ReadOtherOut, ReadDirectoryOut,
               EndOfStreamOut, UnlinkOut, RmdirOut DEF Continue
<1> QED BY <1>1, <1>2, <1>3, BeginsOut DEF Next

(* Removal stays inside: if the paths of all calls stay off Outside, and   *)
(* the trees to remove are within a part of the file system that Outside   *)
(* does not belong to, Outside keeps its entries, whatever links there are *)
(* and however the calls interleave.                                       *)
THEOREM OutsideUntouched ==
    ASSUME NEW CONSTANT Inside, Fresh \subseteq Inside, Inside \subseteq Inodes \ {Outside}
    PROVE  Spec /\ Apart(Inside) => []OutsideKept
<1>1. Init /\ Apart(Inside) => OutInv(Inside)
    <2> SUFFICES ASSUME Init, Apart(Inside) PROVE OutInv(Inside)
        OBVIOUS
    <2>1. FreshInv
        BY InitChildAssumption DEF Init, FreshInv, Fresh
    <2>2. \A p \in Procs : Len(stack[p]) = 0 /\ task[p].op = "none"
        BY EmptySeq DEF Init, NoTask
    <2> QED BY <2>1, <2>2 DEF OutInv, KindsStay, OutsideKept, Init
<1>2. IInv /\ IInv' /\ OutInv(Inside) /\ [Next]_vars => OutInv(Inside)'
    BY OutInductive
<1>3. OutInv(Inside) => OutsideKept
    BY DEF OutInv
<1> QED BY <1>1, <1>2, <1>3, Invariance, PTL DEF Spec

-----------------------------------------------------------------------------
(* What a removal promises a caller who has the tree to himself.           *)
(* Directories have one name, as POSIX demands, and the root has none.     *)
OneName ==
    /\ \A i, j \in Inodes, n, m \in Names :
          /\ child[i][n] # None /\ kind[child[i][n]] = "dir" /\ child[i][n] = child[j][m]
          => i = j /\ n = m
    /\ \A i \in Inodes, n \in Names : child[i][n] # RootDir
    /\ \A i \in Inodes, n \in Names : child[i][n] # None => kind[i] = "dir"
    /\ kind[Outside] = "dir"

(* The directories a direct path leads through.                            *)
LEMMA DirectSteps ==
    ASSUME TreeInv, NEW path \in Seq(Names), Direct(path), NEW n \in 0..Len(path)
    PROVE  /\ Lookup(Prefix(path, n)) \in Inodes
           /\ kind[Lookup(Prefix(path, n))] = "dir"
           /\ Enter(Lookup(Prefix(path, n))) = Lookup(Prefix(path, n))
<1>1. Prefix(path, n) \in Seq(Names)
    BY LenProperties, PrefixIs
<1>2. Lookup(Prefix(path, n)) # None /\ kind[Lookup(Prefix(path, n))] = "dir"
    BY DEF Direct, exists
<1> QED BY <1>1, <1>2, LookupType DEF TreeInv, Enter

LEMMA DirectEntry ==
    ASSUME TreeInv, NEW path \in Seq(Names), Direct(path), NEW n \in 1..Len(path)
    PROVE  /\ path[n] \in Names
           /\ Lookup(Prefix(path, n)) = child[Lookup(Prefix(path, n - 1))][path[n]]
<1>1. n - 1 \in 0..Len(path) /\ path[n] \in Names
    BY LenProperties, ElementOfSeq
<1>2. PICK i \in Inodes : i = Lookup(Prefix(path, n - 1)) /\ Enter(i) = i
    BY <1>1, DirectSteps
<1>3. Lookup(Prefix(path, n)) = Below(i, n, path)
    BY <1>2, LookupSteps DEF LookupsStep
<1> QED BY <1>1, <1>2, <1>3, InodesAssumption DEF Below

LEMMA DirectPrefix ==
    ASSUME NEW path \in Seq(Names), Direct(path), NEW n \in 0..Len(path)
    PROVE  Direct(Prefix(path, n))
<1>1. Len(path) \in Nat /\ Len(Prefix(path, n)) = n
    BY LenProperties, PrefixIs
<1> SUFFICES ASSUME NEW m \in 0..n
             PROVE  /\ exists(Prefix(Prefix(path, n), m))
                    /\ kind[Lookup(Prefix(Prefix(path, n), m))] = "dir"
    BY <1>1 DEF Direct
<1>2. Prefix(Prefix(path, n), m) = Prefix(path, m) /\ m \in 0..Len(path)
    BY <1>1, PrefixOfPrefix
<1> QED BY <1>2 DEF Direct

(* ... are all different.                                                  *)
LEMMA DirectDistinct ==
    ASSUME TreeInv, OneName, NEW path \in Seq(Names), Direct(path),
           NEW j \in 0..Len(path), NEW i \in 0..(j - 1)
    PROVE  Lookup(Prefix(path, i)) # Lookup(Prefix(path, j))
<1> DEFINE L(n) == Lookup(Prefix(path, n))
           d == j - i
           met == {n \in Nat : n + d <= Len(path) /\ L(n) = L(n + d)}
<1>1. Len(path) \in Nat /\ d \in Nat \ {0} /\ i \in Nat /\ i + d = j
    BY LenProperties
<1>2. met = {}
    <2> SUFFICES ASSUME met # {} PROVE FALSE
        OBVIOUS
    <2>1. PICK n \in met : \A k \in met : n <= k
        BY LeastNatural
    <2>2. /\ n + d \in 1..Len(path) /\ n + d - 1 \in 0..Len(path)
          /\ n # 0 => n \in 1..Len(path) /\ n - 1 \in 0..Len(path) /\ n - 1 \in Nat
          /\ (n - 1) + d = n + d - 1
        BY <1>1, <2>1
    <2>3. PICK a \in Inodes : a = L(n + d - 1)
        BY <2>2, DirectSteps
    <2>4. path[n + d] \in Names /\ L(n + d) = child[a][path[n + d]]
        BY <2>2, <2>3, DirectEntry
    <2>5. L(n) = L(n + d) /\ kind[L(n + d)] = "dir" /\ L(n + d) \in Inodes
        BY <2>1, <2>2, DirectSteps
    <2>6. n # 0
        <3>1. L(0) = RootDir
            BY LookupSteps DEF LookupsStep
        <3> HIDE DEF L
        <3> QED BY <2>3, <2>4, <2>5, <3>1 DEF OneName
    <2>7. PICK b \in Inodes : b = L(n - 1)
        BY <2>2, <2>6, DirectSteps
    <2>8. path[n] \in Names /\ L(n) = child[b][path[n]]
        BY <2>2, <2>6, <2>7, DirectEntry
    <2>9. a = b
        <3> HIDE DEF L
        <3> QED BY <2>3, <2>4, <2>5, <2>7, <2>8, InodesAssumption DEF OneName
    <2>10. n - 1 \in met
        <3> HIDE DEF L
        <3>1. (n - 1) + d <= Len(path)
            BY <1>1, <2>2
        <3>2. L(n - 1) = L((n - 1) + d)
            BY <2>2, <2>3, <2>7, <2>9
        <3> QED BY <2>2, <2>6, <3>1, <3>2
    <2> QED BY <2>1, <2>2, <2>10
<1>3. i \notin met
    BY <1>2
<1> HIDE DEF L
<1>4. i + d <= Len(path)
    BY <1>1
<1>5. L(i) # L(j)
    BY <1>1, <1>3, <1>4
<1> QED BY <1>5 DEF L

(* A direct path whose entries stay leads where it led.                    *)
LEMMA DirectStays ==
    ASSUME TreeInv, NEW path \in Seq(Names), Direct(path), kind' = kind,
           \A n \in 1..Len(path) : child'[Lookup(Prefix(path, n - 1))][path[n]]
                                       = child[Lookup(Prefix(path, n - 1))][path[n]]
    PROVE  /\ \A n \in 0..Len(path) : Lookup(Prefix(path, n))' = Lookup(Prefix(path, n))
           /\ Direct(path)'
<1> DEFINE L(n) == Lookup(Prefix(path, n))
           moved == {n \in Nat : n <= Len(path) /\ L(n)' # L(n)}
<1>1. Len(path) \in Nat
    BY LenProperties
<1>2. L(0) = RootDir /\ L(0)' = RootDir
    BY LookupSteps, LookupStepsNext DEF LookupsStep
<1>3. moved = {}
    <2> SUFFICES ASSUME moved # {} PROVE FALSE
        OBVIOUS
    <2>1. PICK n \in moved : \A k \in moved : n <= k
        BY LeastNatural
    <2>2. n # 0
        BY <1>2, <2>1
    <2>3. n \in 1..Len(path) /\ n - 1 \in 0..Len(path) /\ n - 1 \notin moved
        BY <1>1, <2>1, <2>2
    <2>4. PICK i \in Inodes : i = L(n - 1) /\ kind[i] = "dir"
        BY <2>3, DirectSteps
    <2>5. L(n - 1)' = i
        <3> HIDE DEF L
        <3> QED BY <1>1, <2>3, <2>4
    <2>6. L(n) = child[i][path[n]]
        BY <2>3, <2>4, DirectEntry
    <2>7. L(n)' = Below(L(n - 1), n, path)'
        BY <2>3, LookupStepsNext DEF LookupsStep
    <2>8. Enter(i)' = i /\ i # None
        BY <2>4, InodesAssumption DEF Enter
    <2>9. L(n)' = child'[i][path[n]]
        <3> HIDE DEF L
        <3> QED BY <2>5, <2>7, <2>8 DEF Below
    <2> QED BY <2>1, <2>3, <2>4, <2>6, <2>9
<1>4. \A n \in 0..Len(path) : L(n)' = L(n)
    <2> HIDE DEF L
    <2> QED BY <1>1, <1>3
<1>5. Direct(path)'
    BY <1>4 DEF Direct, exists
<1> QED BY <1>4, <1>5

-----------------------------------------------------------------------------
(* The entry of an activation's directory that the next one removes.       *)
Nested(path, depth) == IF depth < Len(path) THEN {path[depth + 1]} ELSE {}

(* An activation that nothing disturbs finds what it saw at opendir(), has *)
(* removed what it has read, and has nothing left at the end.              *)
FrameTrue(f, nested) ==
    /\ nested \subseteq f.seen
    /\ f.phase = "open" => f.seen = {}
    /\ f.phase # "open" =>
          /\ f.dir = Lookup(f.path)
          /\ \A n \in Names \ f.seen : f.before[n] = TypeNow(f.dir, n)
          /\ \A n \in f.seen \ nested :
                (f.phase = "unlink" /\ n = f.entry) \/ child[f.dir][n] = None
    /\ f.phase = "unlink" =>
          f.entry \in f.seen \ nested /\ TypeNow(f.dir, f.entry) \in {"file", "link"}
    /\ f.phase = "rmdir" => \A n \in Names : child[f.dir][n] = None

(* The activations go down a direct path, one for each directory.          *)
Descends(s, path, base) ==
    /\ Direct(path) /\ Len(path) = base + Len(s)
    /\ \A k \in 1..Len(s) : /\ s[k].path = Prefix(path, base + k)
                            /\ FrameTrue(s[k], Nested(path, base + k))

Undisturbed(p) ==
    /\ \A q \in Procs \ {p} : result[q] # "running"
    /\ task[p].op = "remove" => Descends(stack[p], Top(p).path, Len(task[p].path) - 1)

RetryInv ==
    /\ OneName
    /\ \A p \in Procs : undisturbed[p] => result[p] # "none"
    /\ \A p \in Procs : undisturbed[p] /\ result[p] = "running" => Undisturbed(p)
    /\ RetryRemoves

(* One removal, undisturbed: its activations and its last path.            *)
Removal(p, s, T, base) ==
    /\ IInv /\ OneName /\ Running(p, "remove") /\ ~Failures
    /\ base \in Nat /\ base = Len(task[p].path) - 1
    /\ s \in Seq(Frames) /\ s = stack[p] /\ Len(s) \in Nat \ {0}
    /\ T \in Seq(Names) /\ T = Top(p).path /\ Len(T) = base + Len(s)
    /\ Descends(s, T, base)

LEMMA RemovalIs ==
    ASSUME IInv, RetryInv, RootStays, ~Failures, NEW p \in Procs, Running(p, "remove"), Undisturbed(p)
    PROVE  \E s, T, base : Removal(p, s, T, base)
<1>1. /\ stack[p] \in Seq(Frames) /\ Len(stack[p]) \in Nat \ {0} /\ Top(p) \in Frames
      /\ task[p].op = "remove"
    BY TopFacts
<1>2. PICK path \in Seq(Names) \ {<<>>} : path = task[p].path
    BY <1>1 DEF IInv, CallsOK, Tasks, RootStays
<1>3. Len(path) - 1 \in Nat
    BY EmptySeq, LenProperties
<1>4. PICK T \in Seq(Names) : T = Top(p).path
    BY <1>1 DEF Frames
<1>5. Descends(stack[p], T, Len(path) - 1)
    BY <1>1, <1>2, <1>4 DEF Undisturbed
<1>6. Len(T) = (Len(path) - 1) + Len(stack[p])
    BY <1>5 DEF Descends
<1>7. PICK base \in Nat : base = Len(path) - 1
    BY <1>3
<1>8. Removal(p, stack[p], T, base)
    BY <1>1, <1>2, <1>4, <1>5, <1>6, <1>7 DEF Removal, RetryInv
<1> QED BY <1>8

LEMMA RemovalSizes ==
    ASSUME NEW p \in Procs, NEW s, NEW T, NEW base, Removal(p, s, T, base)
    PROVE  /\ base \in Nat /\ Len(s) \in Nat \ {0} /\ Len(T) \in Nat
           /\ Len(T) = base + Len(s)
           /\ s \in Seq(Frames) /\ T \in Seq(Names) /\ Direct(T) /\ TreeInv /\ OneName
<1>1. /\ base \in Nat /\ Len(s) \in Nat \ {0} /\ Len(T) = base + Len(s)
      /\ s \in Seq(Frames) /\ T \in Seq(Names) /\ IInv /\ OneName /\ Descends(s, T, base)
    BY DEF Removal
<1> QED BY <1>1 DEF Descends, IInv

(* The directory of an activation, and of the last one.                    *)
LEMMA RemovalAt ==
    ASSUME NEW p \in Procs, NEW s, NEW T, NEW base, Removal(p, s, T, base), NEW k \in 1..Len(s)
    PROVE  /\ base + k \in 1..Len(T) /\ s[k] \in Frames
           /\ s[k].path = Prefix(T, base + k) /\ s[k].path \in Seq(Names)
           /\ Lookup(s[k].path) \in Inodes /\ kind[Lookup(s[k].path)] = "dir"
           /\ FrameTrue(s[k], Nested(T, base + k))
           /\ s[k].phase # "open" => s[k].dir = Lookup(s[k].path)
           /\ k < Len(s) => s[k].phase = "scan" /\ Lookup(s[k].path) # Lookup(T)
<1>1. base + k \in 1..Len(T) /\ s[k] \in Frames /\ Len(T) \in 0..Len(T)
    <2>1. base + k \in 1..Len(T) /\ Len(T) \in 0..Len(T)
        BY RemovalSizes
    <2> QED BY <2>1, RemovalSizes, ElementOfSeq
<1>2. s[k].path = Prefix(T, base + k) /\ FrameTrue(s[k], Nested(T, base + k))
    BY DEF Removal, Descends
<1>3. Lookup(s[k].path) \in Inodes /\ kind[Lookup(s[k].path)] = "dir"
    <2>1. base + k \in 0..Len(T)
        BY <1>1, RemovalSizes
    <2> QED BY <1>2, <2>1, RemovalSizes, DirectSteps
<1>4. ASSUME k < Len(s) PROVE s[k].phase = "scan" /\ Lookup(s[k].path) # Lookup(T)
    <2>1. s[k].phase = "scan"
        <3>1. \A i \in 1..Len(stack[p]) - 1 : stack[p][i].phase = "scan"
            BY TopFacts DEF Removal
        <3> QED BY <1>4, <3>1 DEF Removal
    <2>2. base + k \in 0..(Len(T) - 1)
        BY <1>4, RemovalSizes
    <2>3. Lookup(Prefix(T, base + k)) # Lookup(Prefix(T, Len(T)))
        BY <1>1, <2>2, RemovalSizes, DirectDistinct
    <2> QED BY <1>2, <2>1, <2>3, RemovalSizes, PrefixFull
<1>5. s[k].path \in Seq(Names)
    BY <1>1 DEF Frames
<1> QED BY <1>1, <1>2, <1>3, <1>4, <1>5 DEF FrameTrue

LEMMA RemovalTop ==
    ASSUME NEW p \in Procs, NEW s, NEW T, NEW base, Removal(p, s, T, base)
    PROVE  /\ Top(p) = s[Len(s)] /\ Top(p) \in Frames /\ Top(p).path = T
           /\ Lookup(T) \in Inodes /\ kind[Lookup(T)] = "dir" /\ Enter(Lookup(T)) = Lookup(T)
           /\ FrameTrue(Top(p), {})
<1>1. Len(s) \in 1..Len(s) /\ base + Len(s) = Len(T) /\ Top(p) = s[Len(s)]
    <2>1. s = stack[p]
        BY DEF Removal
    <2> QED BY <2>1, RemovalSizes DEF Top
<1>2. Nested(T, Len(T)) = {}
    BY RemovalSizes DEF Nested
<1>3. s[Len(s)] \in Frames /\ FrameTrue(s[Len(s)], Nested(T, base + Len(s)))
    BY <1>1, RemovalAt
<1>4. Len(T) \in 0..Len(T) /\ Prefix(T, Len(T)) = T
    BY RemovalSizes, PrefixFull
<1>5. Lookup(T) \in Inodes /\ kind[Lookup(T)] = "dir" /\ Enter(Lookup(T)) = Lookup(T)
    BY <1>4, RemovalSizes, DirectSteps
<1> QED BY <1>1, <1>2, <1>3, <1>5 DEF Removal

(* What an activation found stays, in a directory whose entries stay.      *)
LEMMA FrameTrueStays ==
    ASSUME TreeInv, NEW f \in Frames, NEW nested, FrameTrue(f, nested), f.phase # "open",
           Lookup(f.path) \in Inodes, kind' = kind,
           Lookup(f.path)' = Lookup(f.path), child'[Lookup(f.path)] = child[Lookup(f.path)]
    PROVE  FrameTrue(f, nested)'
<1>1. f.dir = Lookup(f.path) /\ child'[f.dir] = child[f.dir]
    BY DEF FrameTrue
<1>2. \A n : TypeNow(f.dir, n)' = TypeNow(f.dir, n)
    BY <1>1 DEF TypeNow
<1> QED BY <1>1, <1>2 DEF FrameTrue

(* The last activation goes on; the entries on its path, and those of the  *)
(* other activations' directories, stay.                                   *)
LEMMA BecomesTrue ==
    ASSUME NEW p \in Procs, NEW s, NEW T, NEW base, Removal(p, s, T, base),
           NEW frame \in Frames, Becomes(p, frame), frame.path = T, task' = task, kind' = kind,
           \A n \in 1..Len(T) : child'[Lookup(Prefix(T, n - 1))][T[n]]
                                    = child[Lookup(Prefix(T, n - 1))][T[n]],
           \A k \in 1..(Len(s) - 1) : child'[Lookup(s[k].path)] = child[Lookup(s[k].path)],
           Lookup(T)' = Lookup(T) => FrameTrue(frame, {})'
    PROVE  Descends(stack[p], Top(p).path, Len(task[p].path) - 1)'
<1> DEFINE frames == [s EXCEPT ![Len(s)] = frame]
<1>1. /\ base \in Nat /\ Len(s) \in Nat \ {0} /\ Len(T) \in Nat /\ Len(T) = base + Len(s)
      /\ s \in Seq(Frames) /\ T \in Seq(Names) /\ Direct(T) /\ TreeInv
    BY RemovalSizes
<1>2. /\ frames \in Seq(Frames) /\ Len(frames) = Len(s) /\ frames[Len(s)] = frame
      /\ \A k \in 1..(Len(s) - 1) : frames[k] = s[k]
    <2>1. PICK k \in 1..Len(s) : k = Len(s)
        BY <1>1
    <2>2. PICK t : t = [s EXCEPT ![k] = frame]
        OBVIOUS
    <2>3. /\ t \in Seq(Frames) /\ Len(t) = Len(s)
          /\ \A j \in 1..Len(s) : t[j] = IF j = k THEN frame ELSE s[j]
        BY <1>1, <2>2, ExceptSeq
    <2> QED BY <2>1, <2>2, <2>3
<1>3. stack'[p] = frames
    BY DEF Becomes, Removal, IInv, CallsOK
<1> HIDE DEF frames
<1>4. Top(p)' = frame
    BY <1>2, <1>3 DEF Top
<1>5. Len(task'[p].path) - 1 = base
    BY DEF Removal
<1>6. /\ \A n \in 0..Len(T) : Lookup(Prefix(T, n))' = Lookup(Prefix(T, n))
      /\ Direct(T)'
    BY <1>1, DirectStays
<1>7. ASSUME NEW k \in 1..Len(frames)
      PROVE  frames[k].path = Prefix(T, base + k) /\ FrameTrue(frames[k], Nested(T, base + k))'
    <2>1. CASE k = Len(s)
        <3>1. base + k = Len(T) /\ Prefix(T, Len(T)) = T /\ Len(T) \in 0..Len(T)
            <4>1. base + k = Len(T) /\ Len(T) \in 0..Len(T)
                BY <1>1, <2>1
            <4> QED BY <1>1, <4>1, PrefixFull
        <3>2. Lookup(T)' = Lookup(T)
            BY <1>6, <3>1
        <3>3. Nested(T, Len(T)) = {}
            BY <1>1 DEF Nested
        <3>4. PICK nested : nested = Nested(T, base + k) /\ nested = {}
            BY <3>1, <3>3
        <3>5. FrameTrue(frame, {})'
            BY <3>2
        <3> QED BY <1>2, <2>1, <3>1, <3>4, <3>5
    <2>2. CASE k # Len(s)
        <3>1. k \in 1..Len(s) /\ k \in 1..(Len(s) - 1) /\ k < Len(s) /\ base + k \in 0..Len(T)
            BY <1>1, <1>2, <2>2
        <3>2. PICK g \in Frames : g = s[k] /\ g = frames[k]
            BY <1>2, <3>1, RemovalAt
        <3>3. PICK nested : nested = Nested(T, base + k)
            OBVIOUS
        <3>4. /\ g.path = Prefix(T, base + k) /\ Lookup(g.path) \in Inodes
              /\ FrameTrue(g, nested) /\ g.phase = "scan"
            <4>1. /\ s[k].path = Prefix(T, base + k) /\ Lookup(s[k].path) \in Inodes
                  /\ FrameTrue(s[k], Nested(T, base + k)) /\ s[k].phase = "scan"
                BY <3>1, RemovalAt
            <4> QED BY <3>2, <3>3, <4>1
        <3>5. Lookup(g.path)' = Lookup(g.path)
            BY <1>6, <3>1, <3>4
        <3>6. child'[Lookup(g.path)] = child[Lookup(g.path)]
            BY <3>1, <3>2
        <3>7. FrameTrue(g, nested)'
            BY <1>1, <3>4, <3>5, <3>6, FrameTrueStays
        <3> QED BY <3>2, <3>3, <3>4, <3>7
    <2> QED BY <2>1, <2>2
<1>8. Len(T) = base + Len(frames)
    BY <1>1, <1>2
<1> QED BY <1>3, <1>4, <1>5, <1>6, <1>7, <1>8 DEF Descends

LEMMA OpendirTrue ==
    ASSUME NEW p \in Procs, NEW s, NEW T, NEW base, Removal(p, s, T, base), Opendir(p)
    PROVE  Descends(stack[p], Top(p).path, Len(task[p].path) - 1)'
<1>1. PICK f \in Frames : f = Top(p) /\ f.path = T /\ FrameTrue(f, {})
    BY RemovalTop
<1>2. PICK d \in Inodes : d = Lookup(T) /\ d = Enter(Lookup(T)) /\ d # None
    BY RemovalTop, InodesAssumption
<1>3. f.phase = "open" /\ task' = task /\ kind' = kind /\ child' = child
    BY <1>1 DEF Opendir, InPhase, tree
<1>4. PICK frame : frame = [f EXCEPT !.phase = "scan", !.dir = d,
                                     !.before = [n \in Names |-> TypeNow(d, n)]]
    OBVIOUS
<1>5. Becomes(p, frame)
    BY <1>1, <1>2, <1>4 DEF Opendir
<1>6. \A n \in Names : TypeNow(d, n) \in Types
    BY RemovalSizes DEF TypeNow, Types, TreeInv, TreeOK, UsedEntries, Kinds
<1>7. frame \in Frames
    BY <1>1, <1>4, <1>6 DEF Frames
<1>8. /\ frame.path = T /\ frame.phase = "scan" /\ frame.dir = d /\ frame.seen = {}
      /\ \A n \in Names : frame.before[n] = TypeNow(d, n)
    BY <1>1, <1>3, <1>4 DEF Frames, FrameTrue
<1>9. \A n : TypeNow(d, n)' = TypeNow(d, n)
    BY <1>3 DEF TypeNow
<1>10. Lookup(T)' = Lookup(T) => FrameTrue(frame, {})'
    BY <1>2, <1>8, <1>9 DEF FrameTrue
<1> QED BY <1>3, <1>5, <1>7, <1>8, <1>10, BecomesTrue

LEMMA ReadOtherTrue ==
    ASSUME NEW p \in Procs, NEW s, NEW T, NEW base, Removal(p, s, T, base), ReadOther(p)
    PROVE  Descends(stack[p], Top(p).path, Len(task[p].path) - 1)'
<1>1. PICK f \in Frames : f = Top(p) /\ f.path = T /\ FrameTrue(f, {})
    BY RemovalTop
<1>2. f.phase = "scan" /\ task' = task /\ kind' = kind /\ child' = child
    BY <1>1 DEF ReadOther, InPhase, tree
<1>3. PICK n \in Names \ f.seen :
          /\ EntryTypes(f, n) \ {"dir"} # {}
          /\ Becomes(p, [f EXCEPT !.phase = "unlink", !.entry = n, !.seen = @ \cup {n}])
    BY <1>1 DEF ReadOther
<1>4. f.dir = Lookup(T) /\ f.dir \in Inodes /\ f.before[n] = TypeNow(f.dir, n)
    BY <1>1, <1>2, RemovalTop DEF FrameTrue
<1>5. TypeNow(f.dir, n) \in {"file", "link"}
    <2>1. EntryTypes(f, n) = {TypeNow(f.dir, n)} \ {"none"}
        BY <1>4 DEF EntryTypes, Removal
    <2>2. TypeNow(f.dir, n) \notin {"none", "dir"}
        BY <1>3, <2>1
    <2>3. TypeNow(f.dir, n) \in {"none", "dir", "file", "link"}
        BY <1>4, RemovalSizes DEF TypeNow, TreeInv, TreeOK, UsedEntries, Kinds
    <2> QED BY <2>2, <2>3
<1>6. PICK frame : frame = [f EXCEPT !.phase = "unlink", !.entry = n, !.seen = @ \cup {n}]
    OBVIOUS
<1>7. frame \in Frames
    BY <1>1, <1>6 DEF Frames
<1>8. /\ frame.path = T /\ frame.phase = "unlink" /\ frame.dir = f.dir
      /\ frame.seen = f.seen \cup {n} /\ frame.before = f.before /\ frame.entry = n
    BY <1>1, <1>6 DEF Frames
<1>9. \A m : TypeNow(f.dir, m)' = TypeNow(f.dir, m)
    BY <1>2 DEF TypeNow
<1>10. Lookup(T)' = Lookup(T) => FrameTrue(frame, {})'
    BY <1>1, <1>2, <1>4, <1>5, <1>8, <1>9 DEF FrameTrue
<1>11. Becomes(p, frame)
    BY <1>3, <1>6
<1> QED BY <1>2, <1>7, <1>8, <1>10, <1>11, BecomesTrue

(* readdir() has given every entry when it returns null.                   *)
LEMMA EndOfStreamTrue ==
    ASSUME NEW p \in Procs, NEW s, NEW T, NEW base, Removal(p, s, T, base), EndOfStream(p)
    PROVE  Descends(stack[p], Top(p).path, Len(task[p].path) - 1)'
<1>1. PICK f \in Frames : f = Top(p) /\ f.path = T /\ FrameTrue(f, {})
    BY RemovalTop
<1>2. /\ f.phase = "scan" /\ task' = task /\ kind' = kind /\ child' = child
      /\ \A n \in Names \ f.seen : f.before[n] = "none" \/ TypeNow(f.dir, n) = "none"
      /\ Becomes(p, [f EXCEPT !.phase = "rmdir"])
    BY <1>1 DEF EndOfStream, InPhase, tree, Removal
<1>3. f.dir = Lookup(T) /\ f.dir \in Inodes
    BY <1>1, <1>2, RemovalTop DEF FrameTrue
<1>4. ASSUME NEW n \in Names PROVE child[f.dir][n] = None
    <2>1. CASE n \in f.seen
        BY <1>1, <1>2, <2>1 DEF FrameTrue
    <2>2. CASE n \notin f.seen
        <3>1. TypeNow(f.dir, n) = "none"
            BY <1>1, <1>2, <2>2 DEF FrameTrue
        <3> QED BY <1>3, <3>1, RemovalSizes DEF TypeNow, TreeInv, TreeOK, Kinds
    <2> QED BY <2>1, <2>2
<1>5. PICK frame : frame = [f EXCEPT !.phase = "rmdir"]
    OBVIOUS
<1>6. frame \in Frames
    BY <1>1, <1>5 DEF Frames
<1>7. /\ frame.path = T /\ frame.phase = "rmdir" /\ frame.dir = f.dir
      /\ frame.seen = f.seen /\ frame.before = f.before
    BY <1>1, <1>5 DEF Frames
<1>8. \A m : TypeNow(f.dir, m)' = TypeNow(f.dir, m)
    BY <1>2 DEF TypeNow
<1>9. Lookup(T)' = Lookup(T) => FrameTrue(frame, {})'
    BY <1>1, <1>2, <1>3, <1>4, <1>7, <1>8 DEF FrameTrue
<1> QED BY <1>2, <1>5, <1>6, <1>7, <1>9, BecomesTrue

LEMMA RemovalEntry ==
    ASSUME NEW p \in Procs, NEW s, NEW T, NEW base, Removal(p, s, T, base), NEW n \in Names
    PROVE  /\ Append(T, n) \in Seq(Names) /\ Len(Append(T, n)) = Len(T) + 1
           /\ \A m \in 0..Len(T) : Prefix(Append(T, n), m) = Prefix(T, m)
           /\ \A m \in 1..Len(T) : Append(T, n)[m] = T[m]
           /\ Append(T, n)[Len(T) + 1] = n /\ LastName(Append(T, n)) = n
           /\ ParentDir(Append(T, n)) = Lookup(T)
           /\ Lookup(Append(T, n)) = child[Lookup(T)][n]
<1>1. T \in Seq(Names) /\ Len(T) \in Nat
    BY RemovalSizes
<1>2. PICK q \in Seq(Names) : q = Append(T, n)
    BY <1>1, AppendProperties
<1>3. /\ Len(q) = Len(T) + 1 /\ q[Len(T) + 1] = n
      /\ \A m \in 1..Len(T) : q[m] = T[m]
    BY <1>1, <1>2, AppendProperties
<1>4. ASSUME NEW m \in 0..Len(T) PROVE Prefix(q, m) = Prefix(T, m)
    <2>1. /\ Prefix(T, m) \in Seq(Names) /\ Len(Prefix(T, m)) = m
          /\ \A i \in 1..m : Prefix(T, m)[i] = T[i]
        BY <1>1, PrefixIs
    <2>2. /\ Prefix(q, m) \in Seq(Names) /\ Len(Prefix(q, m)) = m
          /\ \A i \in 1..m : Prefix(q, m)[i] = q[i]
        <3>1. m \in 0..Len(q)
            BY <1>1, <1>3
        <3> QED BY <3>1, PrefixIs
    <2> QED BY <1>1, <1>3, <2>1, <2>2, SeqEqual
<1>5. PICK k \in 1..Len(q) : k = Len(q) /\ k - 1 = Len(T)
    BY <1>1, <1>3
<1>6. Prefix(q, k) = q /\ Prefix(q, k - 1) = T
    <2>1. Prefix(q, Len(q)) = q /\ Prefix(T, Len(T)) = T
        BY <1>1, PrefixFull
    <2>2. Len(T) \in 0..Len(T)
        BY <1>1
    <2> QED BY <1>4, <1>5, <2>1, <2>2
<1>7. /\ ParentDir(q) = Enter(Lookup(T)) /\ LastName(q) = n
      /\ Lookup(q) = LET d == ParentDir(q) IN IF d = None THEN None ELSE child[d][n]
    <2>1. /\ ParentDir(Prefix(q, k)) = Enter(Lookup(Prefix(q, k - 1)))
          /\ LastName(Prefix(q, k)) = q[k]
          /\ Lookup(Prefix(q, k)) = LET d == ParentDir(Prefix(q, k))
                                    IN  IF d = None THEN None ELSE child[d][q[k]]
        BY ParentStep
    <2> QED BY <1>3, <1>5, <1>6, <2>1
<1>8. Enter(Lookup(T)) = Lookup(T) /\ Lookup(T) # None
    BY RemovalTop, InodesAssumption
<1> QED BY <1>2, <1>3, <1>4, <1>7, <1>8

(* unlink() takes an entry that is no directory.                           *)
LEMMA UnlinkTrue ==
    ASSUME NEW p \in Procs, NEW s, NEW T, NEW base, Removal(p, s, T, base), Unlink(p)
    PROVE  Descends(stack[p], Top(p).path, Len(task[p].path) - 1)'
<1>1. PICK f \in Frames : f = Top(p) /\ f.path = T /\ FrameTrue(f, {})
    BY RemovalTop
<1>2. /\ f.phase = "unlink" /\ task' = task
      /\ Unlinks(Append(T, f.entry))
      /\ Becomes(p, [f EXCEPT !.phase = "scan", !.entry = None])
    BY <1>1 DEF Unlink, InPhase, EntryPath
<1>3. PICK e \in Names : e = f.entry /\ e \in f.seen
    BY <1>1, <1>2 DEF FrameTrue, Frames
<1>4. PICK d \in Inodes : d = Lookup(T) /\ d = f.dir
    BY <1>1, <1>2, RemovalTop DEF FrameTrue
<1>5. TypeNow(d, e) \in {"file", "link"}
    BY <1>1, <1>2, <1>3, <1>4 DEF FrameTrue
<1>6. kind' = kind /\ child' = [child EXCEPT ![d][e] = None]
    <2>1. PICK q : q = Append(T, e)
        OBVIOUS
    <2>2. ParentDir(q) = d /\ LastName(q) = e
        <3>1. ParentDir(Append(T, e)) = Lookup(T) /\ LastName(Append(T, e)) = e
            BY RemovalEntry
        <3> QED BY <1>4, <2>1, <3>1
    <2>3. Unlinks(q)
        BY <1>2, <1>3, <2>1
    <2> QED BY <2>2, <2>3 DEF Unlinks, Links
<1>7. child \in [Inodes -> [Names -> Inodes \cup {None}]]
    BY RemovalSizes DEF TreeInv, TreeOK
<1>8. ASSUME NEW n \in 1..Len(T)
      PROVE  child'[Lookup(Prefix(T, n - 1))][T[n]] = child[Lookup(Prefix(T, n - 1))][T[n]]
    <2>1. n - 1 \in 0..Len(T) /\ n \in 0..Len(T)
        BY RemovalSizes
    <2>2. PICK i \in Inodes : i = Lookup(Prefix(T, n - 1))
        BY <2>1, RemovalSizes, DirectSteps
    <2>3. T[n] \in Names /\ kind[child[i][T[n]]] = "dir" /\ child[i][T[n]] # None
        <3>1. T[n] \in Names /\ Lookup(Prefix(T, n)) = child[i][T[n]]
            BY <2>2, RemovalSizes, DirectEntry
        <3>2. Lookup(Prefix(T, n)) \in Inodes /\ kind[Lookup(Prefix(T, n))] = "dir"
            BY <2>1, RemovalSizes, DirectSteps
        <3> QED BY <3>1, <3>2, InodesAssumption
    <2>4. ~(i = d /\ T[n] = e)
        BY <1>5, <2>3 DEF TypeNow
    <2> QED BY <1>6, <1>7, <2>2, <2>3, <2>4
<1>9. ASSUME NEW k \in 1..(Len(s) - 1)
      PROVE  child'[Lookup(s[k].path)] = child[Lookup(s[k].path)]
    <2>1. k \in 1..Len(s) /\ k < Len(s)
        BY RemovalSizes
    <2>2. Lookup(s[k].path) \in Inodes /\ Lookup(s[k].path) # Lookup(T)
        BY <2>1, RemovalAt
    <2> QED BY <1>4, <1>6, <1>7, <2>2
<1>10. PICK frame : frame = [f EXCEPT !.phase = "scan", !.entry = None]
    OBVIOUS
<1>11. frame \in Frames
    BY <1>1, <1>10 DEF Frames
<1>12. /\ frame.path = T /\ frame.phase = "scan" /\ frame.dir = d
       /\ frame.seen = f.seen /\ frame.before = f.before
    BY <1>1, <1>4, <1>10 DEF Frames
<1>13. Lookup(T)' = Lookup(T) => FrameTrue(frame, {})'
    <2> SUFFICES ASSUME Lookup(T)' = d PROVE FrameTrue(frame, {})'
        BY <1>4
    <2>1. \A n \in Names \ f.seen : f.before[n] = TypeNow(d, n)'
        <3> SUFFICES ASSUME NEW n \in Names \ f.seen PROVE f.before[n] = TypeNow(d, n)'
            OBVIOUS
        <3>1. f.before[n] = TypeNow(d, n) /\ n # e
            BY <1>1, <1>2, <1>3, <1>4 DEF FrameTrue
        <3>2. child'[d][n] = child[d][n]
            BY <1>6, <1>7, <3>1
        <3> QED BY <1>6, <3>1, <3>2 DEF TypeNow
    <2>2. \A n \in f.seen : child'[d][n] = None
        <3> SUFFICES ASSUME NEW n \in f.seen PROVE child'[d][n] = None
            OBVIOUS
        <3>1. n \in Names
            BY <1>1 DEF Frames
        <3>2. n = e \/ child[d][n] = None
            BY <1>1, <1>2, <1>3, <1>4 DEF FrameTrue
        <3> QED BY <1>6, <1>7, <3>1, <3>2
    <2> QED BY <1>12, <2>1, <2>2 DEF FrameTrue
<1>14. Becomes(p, frame)
    BY <1>2, <1>10
<1> QED BY <1>2, <1>6, <1>8, <1>9, <1>11, <1>12, <1>13, <1>14, BecomesTrue

(* readdir() gives a directory: the next activation is for it.             *)
LEMMA ReadDirectoryTrue ==
    ASSUME NEW p \in Procs, NEW s, NEW T, NEW base, Removal(p, s, T, base), ReadDirectory(p)
    PROVE  Descends(stack[p], Top(p).path, Len(task[p].path) - 1)'
<1>1. PICK f \in Frames : f = Top(p) /\ f.path = T /\ FrameTrue(f, {})
    BY RemovalTop
<1>2. f.phase = "scan" /\ task' = task /\ kind' = kind /\ child' = child
    BY <1>1 DEF ReadDirectory, InPhase, tree
<1>3. /\ base \in Nat /\ Len(s) \in Nat \ {0} /\ Len(T) \in Nat /\ Len(T) = base + Len(s)
      /\ s \in Seq(Frames) /\ T \in Seq(Names) /\ Direct(T) /\ TreeInv
    BY RemovalSizes
<1>4. PICK n \in Names \ f.seen :
          /\ "dir" \in EntryTypes(f, n)
          /\ stack' = [stack EXCEPT ![p] =
                Append([s EXCEPT ![Len(s)] = [f EXCEPT !.seen = @ \cup {n}]], Frame(Append(T, n)))]
    BY <1>1 DEF ReadDirectory, Removal
<1>5. PICK U \in Seq(Names) : U = Append(T, n)
    BY RemovalEntry
<1>6. /\ Len(U) = Len(T) + 1 /\ U[Len(T) + 1] = n
      /\ \A m \in 0..Len(T) : Prefix(U, m) = Prefix(T, m)
      /\ \A m \in 1..Len(T) : U[m] = T[m]
      /\ Lookup(U) = child[Lookup(T)][n]
    BY <1>5, RemovalEntry
<1>7. Lookup(U) # None /\ kind[Lookup(U)] = "dir"
    <2>1. f.dir = Lookup(T) /\ f.before[n] = TypeNow(f.dir, n)
        BY <1>1, <1>2 DEF FrameTrue
    <2>2. TypeNow(Lookup(T), n) = "dir"
        BY <1>4, <2>1 DEF EntryTypes, Removal
    <2> QED BY <1>6, <2>2 DEF TypeNow
<1>8. Direct(U)
    <2> SUFFICES ASSUME NEW m \in 0..Len(U)
                 PROVE  exists(Prefix(U, m)) /\ kind[Lookup(Prefix(U, m))] = "dir"
        BY DEF Direct
    <2>1. CASE m \in 0..Len(T)
        BY <1>3, <1>6, <2>1 DEF Direct
    <2>2. CASE m \notin 0..Len(T)
        <3>1. m = Len(U)
            BY <1>3, <1>6, <2>2
        <3>2. Prefix(U, m) = U
            BY <3>1, PrefixFull
        <3> QED BY <1>7, <3>2 DEF exists
    <2> QED BY <2>1, <2>2
<1>9. PICK g \in Frames : /\ g = [f EXCEPT !.seen = @ \cup {n}]
                          /\ g.path = T /\ g.phase = "scan" /\ g.dir = f.dir
                          /\ g.seen = f.seen \cup {n} /\ g.before = f.before
    <2>1. PICK g : g = [f EXCEPT !.seen = @ \cup {n}]
        OBVIOUS
    <2>2. g \in Frames
        BY <1>1, <2>1 DEF Frames
    <2>3. /\ g.path = T /\ g.phase = "scan" /\ g.dir = f.dir
          /\ g.seen = f.seen \cup {n} /\ g.before = f.before
        BY <1>1, <1>2, <2>1 DEF Frames
    <2> QED BY <2>1, <2>2, <2>3
<1>10. PICK fresh \in Frames : /\ fresh = Frame(U)
                               /\ fresh.path = U /\ fresh.phase = "open" /\ fresh.seen = {}
    <2>1. Frame(U) \in Frames
        BY DEF Frame, Frames, Types
    <2>2. Frame(U).path = U /\ Frame(U).phase = "open" /\ Frame(U).seen = {}
        BY DEF Frame
    <2> QED BY <2>1, <2>2
<1>11. PICK below \in Seq(Frames) :
          /\ below = [s EXCEPT ![Len(s)] = g] /\ Len(below) = Len(s) /\ below[Len(s)] = g
          /\ \A k \in 1..(Len(s) - 1) : below[k] = s[k]
    <2>1. PICK k \in 1..Len(s) : k = Len(s)
        BY <1>3
    <2>2. PICK t : t = [s EXCEPT ![k] = g]
        OBVIOUS
    <2>3. /\ t \in Seq(Frames) /\ Len(t) = Len(s)
          /\ \A j \in 1..Len(s) : t[j] = IF j = k THEN g ELSE s[j]
        BY <1>3, <2>2, ExceptSeq
    <2>4. t[Len(s)] = g /\ \A j \in 1..(Len(s) - 1) : t[j] = s[j]
        <3>1. t[k] = g
            BY <2>3
        <3>2. \A j \in 1..(Len(s) - 1) : j \in 1..Len(s) /\ j # k
            BY <1>3, <2>1
        <3> QED BY <2>1, <2>3, <3>1, <3>2
    <2>5. t = [s EXCEPT ![Len(s)] = g]
        BY <2>1, <2>2
    <2> QED BY <2>3, <2>4, <2>5
<1>12. PICK frames \in Seq(Frames) :
          /\ frames = Append(below, fresh) /\ Len(frames) = Len(s) + 1 /\ frames[Len(s) + 1] = fresh
          /\ \A k \in 1..Len(s) : frames[k] = below[k]
    <2>1. PICK t : t = Append(below, fresh)
        OBVIOUS
    <2>2. /\ t \in Seq(Frames) /\ Len(t) = Len(below) + 1 /\ t[Len(below) + 1] = fresh
          /\ \A k \in 1..Len(below) : t[k] = below[k]
        <3>1. fresh \in Frames /\ below \in Seq(Frames)
            BY <1>10, <1>11
        <3> QED BY <2>1, <3>1, AppendProperties
    <2>3. Len(t) = Len(s) + 1 /\ t[Len(s) + 1] = fresh /\ \A k \in 1..Len(s) : t[k] = below[k]
        BY <1>11, <2>2
    <2> QED BY <2>1, <2>2, <2>3
<1>13. stack'[p] = frames
    BY <1>4, <1>5, <1>9, <1>10, <1>11, <1>12 DEF Removal, IInv, CallsOK
<1>14. Top(p)' = fresh
    BY <1>12, <1>13 DEF Top
<1>15. Len(task'[p].path) - 1 = base
    BY <1>2 DEF Removal
<1>16. \A path : Lookup(path)' = Lookup(path)
    BY <1>2 DEF Lookup, Enter
<1>17. Direct(U)' /\ \A h, nested : FrameTrue(h, nested)' <=> FrameTrue(h, nested)
    BY <1>2, <1>8, <1>16 DEF Direct, exists, FrameTrue, TypeNow
<1>18. ASSUME NEW k \in 1..(Len(s) + 1)
       PROVE  frames[k].path = Prefix(U, base + k) /\ FrameTrue(frames[k], Nested(U, base + k))
    <2>1. CASE k = Len(s) + 1
        <3>1. base + k = Len(U)
            BY <1>3, <1>6, <2>1
        <3>2. Prefix(U, Len(U)) = U /\ Nested(U, Len(U)) = {}
            <4>1. ~(Len(U) < Len(U))
                BY <1>3, <1>6
            <4> QED BY <4>1, PrefixFull DEF Nested
        <3>3. FrameTrue(fresh, {})
            BY <1>10 DEF FrameTrue
        <3> QED BY <1>10, <1>12, <2>1, <3>1, <3>2, <3>3
    <2>2. CASE k = Len(s)
        <3>1. base + k = Len(T) /\ base + k \in 0..Len(T)
            BY <1>3, <2>2
        <3>2. Prefix(U, Len(T)) = T
            <4>1. Len(T) \in 0..Len(T)
                BY <1>3
            <4> QED BY <1>3, <1>6, <4>1, PrefixFull
        <3>3. Nested(U, Len(T)) = {n}
            <4>1. Len(T) < Len(U)
                BY <1>3, <1>6
            <4> QED BY <1>6, <4>1 DEF Nested
        <3>4. FrameTrue(g, {n})
            BY <1>1, <1>2, <1>9 DEF FrameTrue
        <3>5. frames[k] = g
            <4>1. k \in 1..Len(s)
                BY <1>3, <2>2
            <4>2. frames[k] = below[k] /\ below[k] = g
                BY <1>11, <1>12, <2>2, <4>1
            <4> QED BY <4>2
        <3> QED BY <1>9, <3>1, <3>2, <3>3, <3>4, <3>5
    <2>3. CASE k \in 1..(Len(s) - 1)
        <3>1. k \in 1..Len(s) /\ base + k \in 0..Len(T) /\ base + k + 1 \in 1..Len(T)
              /\ base + k < Len(T) /\ base + k < Len(U)
            BY <1>3, <1>6, <2>3
        <3>2. s[k].path = Prefix(T, base + k) /\ FrameTrue(s[k], Nested(T, base + k))
            BY <3>1, RemovalAt
        <3>3. Prefix(U, base + k) = Prefix(T, base + k) /\ Nested(U, base + k) = Nested(T, base + k)
            BY <1>6, <3>1 DEF Nested
        <3> QED BY <1>11, <1>12, <2>3, <3>1, <3>2, <3>3
    <2> QED BY <1>3, <2>1, <2>2, <2>3
<1>19. Len(U) = base + Len(frames) /\ Len(frames) = Len(s) + 1
    BY <1>3, <1>6, <1>12
<1> QED BY <1>10, <1>13, <1>14, <1>15, <1>17, <1>18, <1>19 DEF Descends

(* rmdir() takes the directory from the one the enclosing activation reads. *)
LEMMA RmdirTrue ==
    ASSUME NEW p \in Procs, NEW s, NEW T, NEW base, Removal(p, s, T, base), Rmdir(p), Len(s) # 1
    PROVE  Descends(stack[p], Top(p).path, Len(task[p].path) - 1)'
<1>1. /\ base \in Nat /\ Len(s) \in Nat \ {0} /\ Len(T) \in Nat /\ Len(T) = base + Len(s)
      /\ s \in Seq(Frames) /\ T \in Seq(Names) /\ Direct(T) /\ TreeInv /\ OneName
    BY RemovalSizes
<1>2. PICK k \in Nat \ {0} : k + 1 = Len(s) /\ k = Len(s) - 1
    <2>1. Len(s) - 1 \in Nat \ {0} /\ (Len(s) - 1) + 1 = Len(s)
        BY <1>1
    <2> QED BY <2>1
<1>3. PICK m \in Nat \ {0} : m + 1 = Len(T) /\ m = base + k /\ m = Len(T) - 1
    BY <1>1, <1>2
<1>4. m \in 0..Len(T) /\ m + 1 \in 1..Len(T) /\ Len(T) \in 1..Len(T) /\ Len(T) \in 0..Len(T)
    BY <1>1, <1>3
<1>5. PICK U \in Seq(Names) : /\ U = Prefix(T, m) /\ Len(U) = m
                              /\ \A n \in 1..m : U[n] = T[n]
    BY <1>1, <1>4, PrefixIs
<1>6. \A n \in 0..m : Prefix(U, n) = Prefix(T, n)
    BY <1>1, <1>4, <1>5, PrefixOfPrefix
<1>7. PICK d \in Inodes : d = Lookup(U) /\ Enter(Lookup(U)) = d
    BY <1>1, <1>4, <1>5, DirectSteps
<1>8. PICK e \in Names : e = T[Len(T)] /\ e = T[m + 1]
    BY <1>1, <1>3, <1>4, ElementOfSeq
<1>9. /\ task' = task /\ Unlinks(T) /\ stack' = [stack EXCEPT ![p] = SubSeq(s, 1, Len(s) - 1)]
    <2>1. Top(p).path = T
        BY RemovalTop
    <2> QED BY <2>1 DEF Rmdir, Removal
<1>10. kind' = kind /\ child' = [child EXCEPT ![d][e] = None]
    <2>1. ParentDir(T) = d /\ LastName(T) = e
        BY <1>3, <1>5, <1>7, <1>8 DEF ParentDir, LastName
    <2> QED BY <1>9, <2>1 DEF Unlinks, Links
<1>11. child \in [Inodes -> [Names -> Inodes \cup {None}]]
    BY <1>1 DEF TreeInv, TreeOK
<1>12. \A n \in 0..(m - 1) : Lookup(Prefix(T, n)) # d /\ Lookup(Prefix(T, n)) \in Inodes
    <2> SUFFICES ASSUME NEW n \in 0..(m - 1)
                 PROVE  Lookup(Prefix(T, n)) # d /\ Lookup(Prefix(T, n)) \in Inodes
        OBVIOUS
    <2>1. n \in 0..Len(T)
        BY <1>3
    <2>2. Lookup(Prefix(T, n)) # Lookup(Prefix(T, m))
        BY <1>1, <1>4, DirectDistinct
    <2> QED BY <1>1, <1>5, <1>7, <2>1, <2>2, DirectSteps
<1>13. Direct(U)
    BY <1>1, <1>4, <1>5, DirectPrefix
<1>14. /\ \A n \in 0..m : Lookup(Prefix(U, n))' = Lookup(Prefix(U, n))
       /\ Direct(U)'
    <2>1. ASSUME NEW n \in 1..Len(U)
          PROVE  child'[Lookup(Prefix(U, n - 1))][U[n]] = child[Lookup(Prefix(U, n - 1))][U[n]]
        <3>1. n - 1 \in 0..(m - 1) /\ n - 1 \in 0..m
            BY <1>3, <1>5, <2>1
        <3>2. PICK i \in Inodes : i = Lookup(Prefix(U, n - 1)) /\ i # d
            BY <1>6, <1>12, <3>1
        <3> QED BY <1>10, <1>11, <3>2
    <2> QED BY <1>1, <1>5, <1>10, <1>13, <2>1, DirectStays
<1>15. PICK frames \in Seq(Frames) :
          /\ frames = SubSeq(s, 1, Len(s) - 1) /\ Len(frames) = k
          /\ \A j \in 1..k : frames[j] = s[j]
    <2>1. \A j \in 1..k : s[j] \in Frames
        BY <1>1, <1>2, ElementOfSeq
    <2>2. PICK t : t = SubSeq(s, 1, k)
        OBVIOUS
    <2>3. t \in Seq(Frames) /\ Len(t) = k /\ \A j \in 1..k : t[j] = s[j]
        BY <2>1, <2>2, SubSeqProperties
    <2> QED BY <1>2, <2>2, <2>3
<1>16. stack'[p] = frames
    BY <1>9, <1>15 DEF Removal, IInv, CallsOK
<1>17. ASSUME NEW j \in 1..k
       PROVE  frames[j].path = Prefix(U, base + j) /\ FrameTrue(frames[j], Nested(U, base + j))'
    <2>1. j \in 1..Len(s) /\ j < Len(s) /\ base + j \in 0..m /\ base + j < Len(T)
        BY <1>1, <1>2, <1>3
    <2>2. PICK g \in Frames : g = s[j] /\ g = frames[j]
        BY <1>15, <2>1, RemovalAt
    <2>3. PICK n : n = T[base + j + 1]
        OBVIOUS
    <2>4. /\ g.path = Prefix(T, base + j) /\ Lookup(g.path) \in Inodes
          /\ FrameTrue(g, {n}) /\ g.phase = "scan" /\ g.dir = Lookup(g.path)
        <3>1. /\ s[j].path = Prefix(T, base + j) /\ Lookup(s[j].path) \in Inodes
              /\ FrameTrue(s[j], Nested(T, base + j)) /\ s[j].phase = "scan"
              /\ s[j].dir = Lookup(s[j].path)
            BY <2>1, RemovalAt
        <3>2. Nested(T, base + j) = {n}
            BY <2>1, <2>3 DEF Nested
        <3> QED BY <2>2, <3>1, <3>2
    <2>5. g.path = Prefix(U, base + j)
        BY <1>6, <2>1, <2>4
    <2>6. Lookup(g.path)' = Lookup(g.path)
        BY <1>14, <2>1, <2>5
    <2>7. CASE j < k
        <3>1. base + j \in 0..(m - 1) /\ base + j + 1 \in 1..m /\ base + j < Len(U)
            BY <1>1, <1>3, <1>5, <2>7
        <3>2. Lookup(g.path) # d
            BY <1>12, <2>4, <3>1
        <3>3. child'[Lookup(g.path)] = child[Lookup(g.path)]
            BY <1>10, <1>11, <2>4, <3>2
        <3>4. Nested(U, base + j) = {n}
            BY <1>5, <2>3, <3>1 DEF Nested
        <3>5. FrameTrue(g, {n})'
            BY <1>1, <1>10, <2>4, <2>6, <3>3, FrameTrueStays
        <3> QED BY <2>2, <2>5, <3>4, <3>5
    <2>8. CASE j = k
        <3>1. base + j = m /\ base + j = Len(U) /\ ~(Len(U) < Len(U))
            BY <1>3, <1>5, <2>8
        <3>2. Nested(U, Len(U)) = {}
            BY <3>1 DEF Nested
        <3>3. n = e /\ g.dir = d /\ g.path = U
            <4>1. n = e
                BY <1>8, <2>3, <3>1
            <4>2. Prefix(T, base + j) = U
                BY <1>5, <3>1
            <4> QED BY <1>7, <2>4, <4>1, <4>2
        <3>4. \A x \in Names \ g.seen : g.before[x] = TypeNow(d, x)'
            <4> SUFFICES ASSUME NEW x \in Names \ g.seen PROVE g.before[x] = TypeNow(d, x)'
                OBVIOUS
            <4>1. g.before[x] = TypeNow(d, x) /\ x # e
                BY <2>4, <3>3 DEF FrameTrue
            <4>2. child'[d][x] = child[d][x]
                BY <1>10, <1>11, <4>1
            <4> QED BY <1>10, <4>1, <4>2 DEF TypeNow
        <3>5. \A x \in g.seen : child'[d][x] = None
            <4> SUFFICES ASSUME NEW x \in g.seen PROVE child'[d][x] = None
                OBVIOUS
            <4>1. x \in Names
                BY <2>2 DEF Frames
            <4>2. x = e \/ child[d][x] = None
                BY <2>4, <3>3 DEF FrameTrue
            <4> QED BY <1>10, <1>11, <4>1, <4>2
        <3>6. FrameTrue(g, {})'
            BY <1>7, <2>4, <2>6, <3>3, <3>4, <3>5 DEF FrameTrue
        <3>7. Nested(U, base + j) = {}
            BY <3>1, <3>2
        <3> QED BY <2>2, <2>5, <3>6, <3>7
    <2>9. j < k \/ j = k
        <3>1. k \in Int /\ j \in Int
            OBVIOUS
        <3>2. j <= k
            OBVIOUS
        <3> QED BY <3>1, <3>2
    <2> QED BY <2>7, <2>8, <2>9
<1>18. Top(p)'.path = U
    <2>1. k \in 1..k /\ Prefix(U, Len(U)) = U /\ base + k = Len(U)
        BY <1>3, <1>5, PrefixFull
    <2>2. frames[k].path = U
        BY <1>17, <2>1
    <2> QED BY <1>15, <1>16, <2>2 DEF Top
<1>19. Len(task'[p].path) - 1 = base
    BY <1>9 DEF Removal
<1> QED BY <1>3, <1>5, <1>14, <1>15, <1>16, <1>17, <1>18, <1>19 DEF Descends

-----------------------------------------------------------------------------
(* An undisturbed removal does not throw.                                  *)
LEMMA RemovalDoesNotFail ==
    ASSUME NEW p \in Procs, NEW s, NEW T, NEW base, Removal(p, s, T, base)
    PROVE  ~OpendirFails(p) /\ ~UnlinkFails(p) /\ ~RmdirFails(p) /\ ~SystemFails(p)
<1>1. PICK f \in Frames : f = Top(p) /\ f.path = T /\ FrameTrue(f, {})
    BY RemovalTop
<1>2. Lookup(T) \in Inodes /\ kind[Lookup(T)] = "dir" /\ Enter(Lookup(T)) = Lookup(T)
    BY RemovalTop
<1>3. Lookup(T) # None
    BY <1>2, InodesAssumption
<1>4. ~OpendirFails(p)
    BY <1>1, <1>2, <1>3 DEF OpendirFails
<1>5. ~UnlinkFails(p)
    <2> SUFFICES ASSUME UnlinkFails(p) PROVE FALSE
        OBVIOUS
    <2>1. f.phase = "unlink" /\ ~Unlinkable(Append(T, f.entry))
        BY <1>1 DEF UnlinkFails, InPhase, EntryPath
    <2>2. PICK e \in Names : e = f.entry /\ TypeNow(f.dir, e) \in {"file", "link"}
        BY <1>1, <2>1 DEF FrameTrue, Frames
    <2>3. f.dir = Lookup(T)
        BY <1>1, <2>1 DEF FrameTrue
    <2>4. Lookup(Append(T, e)) = child[Lookup(T)][e]
        BY RemovalEntry
    <2> QED BY <2>1, <2>2, <2>3, <2>4 DEF Unlinkable, exists, TypeNow
<1>6. ~RmdirFails(p)
    <2> SUFFICES ASSUME RmdirFails(p) PROVE FALSE
        OBVIOUS
    <2>1. f.phase = "rmdir" /\ ~IsEmptyDir(Lookup(T))
        BY <1>1 DEF RmdirFails, InPhase
    <2>2. f.dir = Lookup(T) /\ \A n \in Names : child[f.dir][n] = None
        BY <1>1, <2>1 DEF FrameTrue
    <2> QED BY <1>2, <1>3, <2>1, <2>2 DEF IsEmptyDir
<1>7. ~SystemFails(p)
    BY DEF SystemFails, Removal
<1> QED BY <1>4, <1>5, <1>6, <1>7

(* Directories keep their one name.                                        *)
LEMMA CreatesOneName ==
    ASSUME TreeInv, OneName, NEW path \in Seq(Names), NEW n \in 1..Len(path),
           ParentDir(Prefix(path, n)) # None, ~exists(Prefix(path, n)), Creates(Prefix(path, n))
    PROVE  OneName'
<1>1. PICK i \in Inodes : /\ kind[i] = "free" /\ kind' = [kind EXCEPT ![i] = "dir"]
                          /\ Links(ParentDir(Prefix(path, n)), LastName(Prefix(path, n)), i)
    BY DEF Creates
<1>2. TreeOK /\ kind[RootDir] = "dir" /\ UsedEntries
    BY DEF TreeInv
<1>3. PICK d \in Inodes : d = ParentDir(Prefix(path, n)) /\ kind[d] = "dir"
    <2>1. ParentDir(Prefix(path, n)) = Enter(Lookup(Prefix(path, n - 1)))
        BY ParentStep
    <2>2. Prefix(path, n - 1) \in Seq(Names)
        <3>1. n - 1 \in 0..Len(path)
            BY LenProperties
        <3> QED BY <3>1, PrefixIs
    <2>3. PICK j \in Inodes \cup {None} : j = Lookup(Prefix(path, n - 1))
        BY <1>2, <2>2, LookupType
    <2>4. Enter(j) # None
        BY <2>1, <2>3
    <2>5. Enter(j) \in Inodes /\ kind[Enter(j)] = "dir"
        BY <1>2, <2>3, <2>4, InodesAssumption DEF Enter, OneName, TreeOK, Kinds
    <2> QED BY <2>1, <2>3, <2>5
<1>4. PICK e \in Names : e = LastName(Prefix(path, n))
    BY ParentStep
<1>5. child' = [child EXCEPT ![d][e] = i]
    BY <1>1, <1>3, <1>4 DEF Links
<1>6. /\ kind \in [Inodes -> Kinds] /\ child \in [Inodes -> [Names -> Inodes \cup {None}]]
      /\ i # None /\ i # RootDir /\ i # Outside /\ i # d
    BY <1>1, <1>2, <1>3, InodesAssumption DEF TreeOK, OneName
<1>7. \A j \in Inodes, m \in Names :
          child'[j][m] = IF j = d /\ m = e THEN i ELSE child[j][m]
    BY <1>5, <1>6
<1>8. \A j \in Inodes, m \in Names : child[j][m] # None => child[j][m] # i
    BY <1>1, <1>2 DEF UsedEntries
<1>9. \A j \in Inodes : j # i => kind'[j] = kind[j]
    BY <1>1, <1>6
<1>10. \A j \in Inodes, m \in Names : child[j][m] # None => child[j][m] \in Inodes
    BY <1>6
<1>11. \A j, l \in Inodes, m, o \in Names :
          /\ child'[j][m] # None /\ kind'[child'[j][m]] = "dir" /\ child'[j][m] = child'[l][o]
          => j = l /\ m = o
    <2> SUFFICES ASSUME NEW j \in Inodes, NEW l \in Inodes, NEW m \in Names, NEW o \in Names,
                        child'[j][m] # None, kind'[child'[j][m]] = "dir",
                        child'[j][m] = child'[l][o]
                 PROVE  j = l /\ m = o
        OBVIOUS
    <2>1. CASE j = d /\ m = e
        BY <1>6, <1>7, <1>8, <2>1
    <2>2. CASE ~(j = d /\ m = e)
        <3>1. child'[j][m] = child[j][m] /\ child[j][m] # i /\ child[j][m] \in Inodes
            BY <1>7, <1>8, <1>10, <2>2
        <3>2. ~(l = d /\ o = e)
            BY <1>7, <3>1
        <3>3. child'[l][o] = child[l][o]
            BY <1>7, <3>2
        <3>4. kind[child[j][m]] = "dir"
            BY <1>9, <3>1
        <3>5. child[j][m] # None /\ child[j][m] = child[l][o]
            BY <3>1, <3>3
        <3>6. /\ child[j][m] # None /\ kind[child[j][m]] = "dir" /\ child[j][m] = child[l][o]
              => j = l /\ m = o
            BY DEF OneName
        <3> QED BY <3>4, <3>5, <3>6
    <2> QED BY <2>1, <2>2
<1>12. \A j \in Inodes, m \in Names : child'[j][m] # RootDir
    BY <1>6, <1>7 DEF OneName
<1>13. \A j \in Inodes, m \in Names : child'[j][m] # None => kind'[j] = "dir"
    BY <1>3, <1>6, <1>7, <1>9, <1>1 DEF OneName
<1>14. kind'[Outside] = "dir"
    BY <1>6, <1>9, InodesAssumption DEF OneName
<1> QED BY <1>11, <1>12, <1>13, <1>14 DEF OneName

LEMMA UnlinksOneName ==
    ASSUME TreeInv, OneName, NEW path, Unlinks(path)
    PROVE  OneName'
<1>1. PICK d, m : kind' = kind /\ child' = [child EXCEPT ![d][m] = None]
    BY DEF Unlinks, Links
<1>2. child \in [Inodes -> [Names -> Inodes \cup {None}]]
    BY DEF TreeInv, TreeOK
<1>3. \A j \in Inodes, n \in Names : child'[j][n] = None \/ child'[j][n] = child[j][n]
    BY <1>1, <1>2
<1> QED BY <1>1, <1>3, InodesAssumption DEF OneName

LEMMA NamesStay == IInv /\ OneName /\ [Next]_vars => OneName'
<1> SUFFICES ASSUME IInv, OneName, [Next]_vars PROVE OneName'
    OBVIOUS
<1>1. CASE UNCHANGED tree
    BY <1>1 DEF OneName, tree
<1>2. ASSUME NEW p \in Procs, Mkdir(p) PROVE OneName'
    <2>1. Running(p, "make") /\ task[p] \in Tasks
        BY <1>2 DEF Mkdir, IInv, CallsOK
    <2>2. PICK path \in Seq(Names) : path = task[p].path
        BY <2>1 DEF Tasks
    <2>3. PICK n \in 1..Len(path) : n = task[p].pos
        BY <2>1, <2>2 DEF IInv, CallsOK
    <2>4. /\ ParentDir(Prefix(path, n)) # None /\ ~exists(Prefix(path, n))
          /\ Creates(Prefix(path, n))
        BY <1>2, <2>2, <2>3 DEF Mkdir, MakesNow
    <2> QED BY <2>4, CreatesOneName DEF IInv
<1>3. ASSUME NEW p \in Procs, Unlink(p) \/ Rmdir(p) PROVE OneName'
    <2>1. PICK path : Unlinks(path)
        BY <1>3 DEF Unlink, Rmdir
    <2> QED BY <2>1, UnlinksOneName DEF IInv
<1>4. ASSUME NEW p \in Procs, Continue(p), ~Mkdir(p), ~Unlink(p), ~Rmdir(p) PROVE UNCHANGED tree
    BY <1>4 DEF Continue, MkdirExists, MkdirFails, Opendir, OpendirFails, ReadDirectory,
                ReadOther, EndOfStream, UnlinkFails, RmdirFails, SystemFails, Throws
<1>5. ASSUME NEW p \in Procs, \/ \E path \in MakePaths : BeginMake(p, path)
                              \/ \E path \in RemovePaths : BeginRemove(p, path)
      PROVE  UNCHANGED tree
    BY <1>5 DEF BeginMake, BeginRemove
<1>6. CASE UNCHANGED vars
    BY <1>1, <1>6 DEF vars, tree
<1> QED BY <1>1, <1>2, <1>3, <1>4, <1>5, <1>6 DEF Next

-----------------------------------------------------------------------------
(* A step is a call's: the other calls are as they were.                   *)
LEMMA ContinueOne ==
    ASSUME IInv, NEW r \in Procs, Continue(r)
    PROVE  /\ result[r] = "running" /\ result'[r] # "none" /\ task'[r].op = task[r].op
           /\ task[r].op \in {"make", "remove"}
           /\ \A q \in Procs \ {r} : /\ task'[q] = task[q] /\ stack'[q] = stack[q]
                                     /\ result'[q] = result[q]
<1>1. /\ task \in [Procs -> Tasks] /\ result \in [Procs -> Results]
      /\ stack \in [Procs -> Seq(Frames)]
      /\ result[r] = "none" <=> task[r].op = "none"
    BY DEF IInv, CallsOK
<1>2. result[r] = "running"
    BY DEF Continue, Mkdir, MkdirExists, MkdirFails, Opendir, OpendirFails, ReadDirectory,
           ReadOther, EndOfStream, Unlink, UnlinkFails, Rmdir, RmdirFails, SystemFails,
           InPhase, Running
<1>3. task[r].op \in {"make", "remove"}
    BY <1>1, <1>2 DEF Tasks
<1>4. \/ task' = task \/ task' = [task EXCEPT ![r].pos = @ + 1]
    BY DEF Continue, Mkdir, MkdirExists, MkdirFails, Opendir, OpendirFails, ReadDirectory,
           ReadOther, EndOfStream, Unlink, UnlinkFails, Rmdir, RmdirFails, SystemFails,
           MakesNext, Throws
<1>5. \/ result' = result
      \/ \E how \in {"ok", "threw", "failed"} : result' = [result EXCEPT ![r] = how]
    BY DEF Continue, Mkdir, MkdirExists, MkdirFails, Opendir, OpendirFails, ReadDirectory,
           ReadOther, EndOfStream, Unlink, UnlinkFails, Rmdir, RmdirFails, SystemFails,
           MakesNext, Throws, Ends
<1>6. \/ stack' = stack \/ \E frames : stack' = [stack EXCEPT ![r] = frames]
    BY DEF Continue, Mkdir, MkdirExists, MkdirFails, Opendir, OpendirFails, ReadDirectory,
           ReadOther, EndOfStream, Unlink, UnlinkFails, Rmdir, RmdirFails, SystemFails,
           Throws, Becomes
<1>7. \A q \in Procs \ {r} : task'[q] = task[q] /\ stack'[q] = stack[q] /\ result'[q] = result[q]
    BY <1>1, <1>4, <1>5, <1>6
<1>8. task'[r].op = task[r].op
    BY <1>1, <1>4 DEF Tasks
<1>9. result'[r] # "none"
    BY <1>1, <1>2, <1>5
<1> QED BY <1>2, <1>3, <1>7, <1>8, <1>9

(* An undisturbed removal goes on undisturbed, or returns.                 *)
LEMMA RemovalGoesOn ==
    ASSUME NEW p \in Procs, NEW s, NEW T, NEW base, Removal(p, s, T, base), Continue(p)
    PROVE  /\ result'[p] \in {"running", "ok"}
           /\ result'[p] = "running" =>
                 Descends(stack[p], Top(p).path, Len(task[p].path) - 1)'
<1>1. Running(p, "remove") /\ result \in [Procs -> Results] /\ s = stack[p]
    BY DEF Removal, IInv, CallsOK
<1>2. ~Mkdir(p) /\ ~MkdirExists(p) /\ ~MkdirFails(p)
    BY <1>1 DEF Mkdir, MkdirExists, MkdirFails, Running
<1>3. CASE Opendir(p) \/ ReadDirectory(p) \/ ReadOther(p) \/ EndOfStream(p) \/ Unlink(p)
    <2>1. result' = result
        BY <1>3 DEF Opendir, ReadDirectory, ReadOther, EndOfStream, Unlink
    <2> QED BY <1>1, <1>3, <2>1, OpendirTrue, ReadDirectoryTrue, ReadOtherTrue,
               EndOfStreamTrue, UnlinkTrue DEF Running
<1>4. CASE Rmdir(p) /\ Len(s) # 1
    <2>1. result' = result
        BY <1>1, <1>4 DEF Rmdir
    <2> QED BY <1>1, <1>4, <2>1, RmdirTrue DEF Running
<1>5. CASE Rmdir(p) /\ Len(s) = 1
    BY <1>1, <1>5 DEF Rmdir, Ends
<1> QED BY <1>2, <1>3, <1>4, <1>5, RemovalDoesNotFail DEF Continue

(* A call that nothing disturbs begins to remove a tree.                   *)
LEMMA BeginsUndisturbed ==
    ASSUME IInv, NEW r \in Procs, NEW path \in RemovePaths, BeginRemove(r, path), Direct(path)
    PROVE  Descends(stack[r], Top(r).path, Len(task[r].path) - 1)'
<1>1. path \in Seq(Names) /\ Len(path) \in Nat
    BY PathsAssumption, LenProperties
<1>2. PICK f : f = Frame(path) /\ f.path = path /\ f.phase = "open" /\ f.seen = {}
    <2>1. Frame(path).path = path /\ Frame(path).phase = "open" /\ Frame(path).seen = {}
        BY DEF Frame
    <2> QED BY <2>1
<1>3. PICK s : s = <<f>> /\ Len(s) = 1 /\ s[1] = f
    <2>1. Len(<<f>>) = 1 /\ <<f>>[1] = f
        OBVIOUS
    <2> QED BY <2>1
<1>4. stack'[r] = s /\ task'[r].path = path /\ kind' = kind /\ child' = child
    BY <1>2, <1>3 DEF BeginRemove, IInv, CallsOK, tree
<1>5. Top(r)' = f
    BY <1>3, <1>4 DEF Top
<1>6. \A q : Lookup(q)' = Lookup(q)
    BY <1>4 DEF Lookup, Enter
<1>7. Direct(path)'
    BY <1>4, <1>6 DEF Direct, exists
<1>8. PICK base : base = Len(path) - 1 /\ base + 1 = Len(path) /\ ~(Len(path) < Len(path))
    BY <1>1
<1>9. Prefix(path, Len(path)) = path /\ Nested(path, Len(path)) = {}
    BY <1>1, <1>8, PrefixFull DEF Nested
<1>10. FrameTrue(f, {})'
    BY <1>2 DEF FrameTrue
<1>11. ASSUME NEW k \in 1..Len(s)
       PROVE  s[k].path = Prefix(path, base + k) /\ FrameTrue(s[k], Nested(path, base + k))'
    <2>1. k = 1 /\ base + k = Len(path)
        BY <1>3, <1>8
    <2>2. Nested(path, base + k) = {} /\ Prefix(path, base + k) = path
        BY <1>9, <2>1
    <2>3. s[k] = f
        BY <1>3, <2>1
    <2> QED BY <1>2, <1>10, <2>2, <2>3
<1>12. Len(path) = base + Len(s)
    BY <1>3, <1>8
<1> QED BY <1>2, <1>4, <1>5, <1>7, <1>8, <1>11, <1>12 DEF Descends

LEMMA HistorySteps ==
    ASSUME HistoryNext, NEW p \in Procs, undisturbed'[p]
    PROVE  /\ \A q \in Procs \ {p} : ~Begins(q)
           /\ Begins(p) => Direct(task'[p].path) /\ \A q \in Procs : result[q] # "running"
           /\ ~Begins(p) => undisturbed[p]
BY DEF HistoryNext

(* What a step of one call says of the undisturbed one.                    *)
LEMMA CallsUndisturbed ==
    ASSUME IInv, RetryInv, RootStays, ~Failures, HistoryNext,
           NEW r \in Procs, Continue(r), NEW p \in Procs, undisturbed'[p]
    PROVE  /\ result'[p] # "none"
           /\ result'[p] = "running" => Undisturbed(p)'
           /\ result'[p] = "threw" => task'[p].op = "make"
<1>1. /\ result[r] = "running" /\ result'[r] # "none" /\ task'[r].op = task[r].op
      /\ task[r].op \in {"make", "remove"}
      /\ \A q \in Procs \ {r} : /\ task'[q] = task[q] /\ stack'[q] = stack[q]
                                /\ result'[q] = result[q]
    BY ContinueOne
<1>2. undisturbed[p] /\ result[p] # "none"
    <2>1. result[p] # "none" \/ p # r
        BY <1>1
    <2>2. ~Begins(p)
        BY <1>1 DEF Begins
    <2> QED BY <2>2, HistorySteps DEF RetryInv
<1>3. CASE p # r
    <2>1. result[p] # "running"
        BY <1>1, <1>2, <1>3 DEF RetryInv, Undisturbed
    <2> QED BY <1>1, <1>2, <1>3, <2>1 DEF RetryInv, RetryRemoves
<1>4. CASE p = r
    <2>1. Undisturbed(p)
        BY <1>1, <1>2, <1>4 DEF RetryInv
    <2>2. \A q \in Procs \ {p} : result'[q] # "running"
        BY <1>1, <1>4, <2>1 DEF Undisturbed
    <2>3. CASE task[p].op = "make"
        BY <1>1, <1>4, <2>2, <2>3 DEF Undisturbed
    <2>4. CASE task[p].op = "remove"
        <3>1. Running(p, "remove")
            BY <1>1, <1>4, <2>4 DEF Running
        <3>2. PICK s, T, base : Removal(p, s, T, base)
            BY <2>1, <3>1, RemovalIs
        <3>3. /\ result'[p] \in {"running", "ok"}
              /\ result'[p] = "running" =>
                    Descends(stack[p], Top(p).path, Len(task[p].path) - 1)'
            BY <1>4, <3>2, RemovalGoesOn
        <3> QED BY <1>1, <1>4, <2>2, <3>3 DEF Undisturbed
    <2> QED BY <1>1, <1>4, <2>3, <2>4
<1> QED BY <1>3, <1>4

LEMMA BeginsCallsUndisturbed ==
    ASSUME IInv, RetryInv, HistoryNext, NEW r \in Procs, NEW p \in Procs, undisturbed'[p],
           \/ \E path \in MakePaths : BeginMake(r, path)
           \/ \E path \in RemovePaths : BeginRemove(r, path)
    PROVE  /\ result'[p] # "none"
           /\ result'[p] = "running" => Undisturbed(p)'
           /\ result'[p] = "threw" => task'[p].op = "make"
<1>1. /\ Begins(r) /\ result'[r] \in {"running", "ok"}
      /\ \A q \in Procs \ {r} : result'[q] = result[q]
    BY DEF BeginMake, BeginRemove, Begins, Ends, IInv, CallsOK
<1>2. p = r /\ Direct(task'[r].path) /\ \A q \in Procs : result[q] # "running"
    BY <1>1, HistorySteps
<1>3. \A q \in Procs \ {p} : result'[q] # "running"
    BY <1>1, <1>2
<1>4. CASE \E path \in MakePaths : BeginMake(r, path)
    <2>1. task'[r].op = "make"
        BY <1>4 DEF BeginMake, IInv, CallsOK
    <2> QED BY <1>1, <1>2, <1>3, <2>1 DEF Undisturbed
<1>5. ASSUME NEW path \in RemovePaths, BeginRemove(r, path)
      PROVE  Undisturbed(r)'
    <2>1. task'[r].path = path
        BY <1>5 DEF BeginRemove, IInv, CallsOK
    <2>2. Descends(stack[r], Top(r).path, Len(task[r].path) - 1)'
        BY <1>2, <1>5, <2>1, BeginsUndisturbed
    <2> QED BY <1>2, <1>3, <2>2 DEF Undisturbed
<1> QED BY <1>1, <1>2, <1>4, <1>5

LEMMA RetryInductive ==
    ASSUME ~Failures
    PROVE  IInv /\ RootStays /\ RetryInv /\ [Next /\ HistoryNext]_<<vars, undisturbed>> => RetryInv'
<1> SUFFICES ASSUME IInv, RootStays, RetryInv, [Next /\ HistoryNext]_<<vars, undisturbed>>
             PROVE  RetryInv'
    OBVIOUS
<1>1. OneName'
    <2>1. [Next]_vars
        BY DEF vars
    <2> QED BY <2>1, NamesStay DEF RetryInv
<1>2. CASE UNCHANGED <<vars, undisturbed>>
    <2>1. /\ kind' = kind /\ child' = child /\ task' = task /\ stack' = stack
          /\ result' = result /\ undisturbed' = undisturbed
        BY <1>2 DEF vars
    <2>2. \A path : Lookup(path)' = Lookup(path)
        BY <2>1 DEF Lookup, Enter
    <2>3. \A f, nested : FrameTrue(f, nested)' <=> FrameTrue(f, nested)
        BY <2>1, <2>2 DEF FrameTrue, TypeNow
    <2>4. \A path : Direct(path)' <=> Direct(path)
        BY <2>1, <2>2 DEF Direct, exists
    <2>5. \A p \in Procs : Undisturbed(p) => Undisturbed(p)'
        BY <2>1, <2>3, <2>4 DEF Undisturbed, Descends, Top
    <2> QED BY <1>1, <2>1, <2>5 DEF RetryInv, RetryRemoves
<1>3. CASE Next /\ HistoryNext
    <2>1. PICK r \in Procs : \/ \E path \in MakePaths : BeginMake(r, path)
                             \/ \E path \in RemovePaths : BeginRemove(r, path)
                             \/ Continue(r)
        BY <1>3 DEF Next
    <2>2. ASSUME NEW p \in Procs, undisturbed'[p]
          PROVE  /\ result'[p] # "none"
                 /\ result'[p] = "running" => Undisturbed(p)'
                 /\ result'[p] = "threw" => task'[p].op = "make"
        BY <1>3, <2>1, <2>2, CallsUndisturbed, BeginsCallsUndisturbed
    <2> QED BY <1>1, <2>2 DEF RetryInv, RetryRemoves
<1> QED BY <1>2, <1>3

(* While no system call fails for a reason of its own, a removal that has  *)
(* the tree to itself returns, for any tree, any number of calls and any   *)
(* leftovers of earlier ones.                                              *)
THEOREM RetriesRemove == ASSUME ~Failures PROVE HistorySpec => []RetryRemoves
<1>1. HistorySpec => Spec
    <2>1. [Next /\ HistoryNext]_<<vars, undisturbed>> => [Next]_vars
        BY DEF vars
    <2> QED BY <2>1, PTL DEF HistorySpec, Spec
<1>2. Init /\ HistoryInit => RetryInv
    <2> SUFFICES ASSUME Init, HistoryInit PROVE RetryInv
        OBVIOUS
    <2>1. OneName
        BY OneNameAssumption, InitKindAssumption, InitChildAssumption DEF Init, OneName
    <2> QED BY <2>1 DEF HistoryInit, RetryInv, RetryRemoves
<1>3. IInv /\ GoneInv /\ RetryInv /\ [Next /\ HistoryNext]_<<vars, undisturbed>> => RetryInv'
    BY RetryInductive DEF GoneInv
<1>4. RetryInv => RetryRemoves
    BY DEF RetryInv
<1> QED BY <1>1, <1>2, <1>3, <1>4, Invariance, GoneInvariance, PTL DEF HistorySpec
=============================================================================
