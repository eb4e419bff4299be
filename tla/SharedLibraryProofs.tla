------------------------ MODULE SharedLibraryProofs ------------------------
(***************************************************************************)
(* What a loaded library keeps, for any number of objects, files and names *)
(* and in memory that comes zeroed: the handles account for what the       *)
(* loader holds open, and a path spells the file its handle is open on.    *)
(***************************************************************************)
EXTENDS SharedLibrary, FiniteSetTheorems, SequenceTheorems, TLAPS

Members == [m_handle : Handles, m_name : FileNames, m_path : Dirs \cup {RootDir},
            m_filePath : FilePaths, m_prefix : FileNames, m_suffix : FileNames]

(* The parts are those of the file path, when there is one.                *)
Spelled(m) ==
    m.m_filePath # EmptyPath =>
        /\ m.m_name = BaseName(m.m_filePath.name, m.m_prefix, m.m_suffix)
        /\ m.m_path = Parent(m.m_filePath)

PathsSpelled == \A o \in alive : Spelled(obj[o])

(* A live object has a handle just when its own load() obtained one.       *)
HandlesOwned ==
    \A o \in alive : /\ obj[o].m_handle \in Loadable \cup {Null}
                     /\ o \in own <=> obj[o].m_handle # Null

HeldBy(f) == {o \in alive : obj[o].m_handle = f}

Counted == \A f \in Loadable : refs[f] = Cardinality(HeldBy(f)) + leaked[f]

IInv == TypeOK /\ HandlesOwned /\ Counted /\ PathsSpelled /\ LoadedPathStable

-----------------------------------------------------------------------------
(* File names.                                                             *)
LEMMA SuffixType ==
    ASSUME NEW name \in FileNames, NEW suffix \in FileNames
    PROVE  WithoutSuffix(name, suffix) \in FileNames
<1>1. Len(name) \in Nat /\ Len(suffix) \in Nat
    BY LenProperties DEF FileNames
<1>2. CASE EndsWith(name, suffix)
    <2>1. \A i \in 1 .. Len(name) - Len(suffix) : name[i] \in Tokens
        BY <1>1, ElementOfSeq DEF FileNames
    <2>2. SubSeq(name, 1, Len(name) - Len(suffix)) \in Seq(Tokens)
        BY <1>1, <2>1, SubSeqProperties
    <2> QED BY <1>2, <2>2 DEF WithoutSuffix, FileNames
<1> QED BY <1>2 DEF WithoutSuffix

LEMMA PrefixType ==
    ASSUME NEW name \in FileNames, NEW prefix \in FileNames
    PROVE  WithoutPrefix(name, prefix) \in FileNames
<1>1. Len(name) \in Nat /\ Len(prefix) \in Nat
    BY LenProperties DEF FileNames
<1>2. CASE StartsWith(name, prefix)
    <2>1. \A i \in Len(prefix) + 1 .. Len(name) : name[i] \in Tokens
        BY <1>1, ElementOfSeq DEF FileNames
    <2>2. SubSeq(name, Len(prefix) + 1, Len(name)) \in Seq(Tokens)
        BY <1>1, <2>1, SubSeqProperties
    <2> QED BY <1>2, <2>2 DEF WithoutPrefix, FileNames
<1> QED BY <1>2 DEF WithoutPrefix

LEMMA BaseNameType ==
    ASSUME NEW name \in FileNames, NEW prefix \in FileNames, NEW suffix \in FileNames
    PROVE  BaseName(name, prefix, suffix) \in FileNames
BY SuffixType, PrefixType DEF BaseName

(* What is cut off can be put back.                                        *)
LEMMA PrefixPutBack ==
    ASSUME NEW name \in FileNames, NEW prefix \in FileNames, StartsWith(name, prefix)
    PROVE  prefix \o WithoutPrefix(name, prefix) = name
<1>1. /\ Len(name) \in Nat /\ Len(prefix) \in Nat /\ Len(name) >= Len(prefix)
      /\ name \in Seq(Tokens)
    BY LenProperties DEF FileNames, StartsWith
<1> DEFINE k == Len(prefix)
<1>2. 1 \in 1 .. Len(name) + 1 /\ k \in 1 - 1 .. Len(name) /\ Len(name) \in k .. Len(name)
    BY <1>1
<1>3. SubSeq(name, 1, k) \o SubSeq(name, k + 1, Len(name)) = SubSeq(name, 1, Len(name))
    <2> HIDE DEF k
    <2> QED BY <1>1, <1>2, ConcatAdjacentSubSeq
<1> QED BY <1>1, <1>3, SubSeqFull DEF StartsWith, WithoutPrefix

LEMMA SuffixPutBack ==
    ASSUME NEW name \in FileNames, NEW suffix \in FileNames, EndsWith(name, suffix)
    PROVE  WithoutSuffix(name, suffix) \o suffix = name
<1>1. /\ Len(name) \in Nat /\ Len(suffix) \in Nat /\ Len(name) >= Len(suffix)
      /\ name \in Seq(Tokens)
    BY LenProperties DEF FileNames, EndsWith
<1> DEFINE k == Len(name) - Len(suffix)
<1>2. 1 \in 1 .. Len(name) + 1 /\ k \in 1 - 1 .. Len(name) /\ Len(name) \in k .. Len(name)
    BY <1>1
<1>3. SubSeq(name, 1, k) \o SubSeq(name, k + 1, Len(name)) = SubSeq(name, 1, Len(name))
    <2> HIDE DEF k
    <2> QED BY <1>1, <1>2, ConcatAdjacentSubSeq
<1> QED BY <1>1, <1>3, SubSeqFull DEF EndsWith, WithoutSuffix

(* Members whose parts are spelled compose to the library path again.      *)
LEMMA PathPutBack ==
    ASSUME NEW m \in Members, Spelled(m),
           IsLibraryPath(m.m_filePath, m.m_prefix, m.m_suffix)
    PROVE  [dir |-> m.m_path, name |-> m.m_prefix \o m.m_name \o m.m_suffix] = m.m_filePath
<1> DEFINE p == m.m_filePath
           rest == WithoutPrefix(p.name, m.m_prefix)
<1>1. /\ p \in FilePaths /\ p.name \in FileNames
      /\ m.m_prefix \in FileNames /\ m.m_suffix \in FileNames
    BY DEF Members, FilePaths
<1>2. p.dir # NoDir /\ StartsWith(p.name, m.m_prefix) /\ EndsWith(rest, m.m_suffix)
    BY DEF IsLibraryPath
<1>3. p # EmptyPath
    BY <1>2 DEF EmptyPath
<1>4. m.m_path = p.dir /\ m.m_name = WithoutSuffix(rest, m.m_suffix)
    BY <1>2, <1>3 DEF Spelled, Parent, BaseName
<1>5. rest \in FileNames
    BY <1>1, PrefixType
<1>6. m.m_name \in FileNames /\ m.m_name \o m.m_suffix = rest
    BY <1>1, <1>2, <1>4, <1>5, SuffixPutBack, SuffixType
<1>7. m.m_prefix \o (m.m_name \o m.m_suffix) = p.name
    BY <1>1, <1>2, <1>6, PrefixPutBack
<1>8. (m.m_prefix \o m.m_name) \o m.m_suffix = p.name
    <2>1. \A a, b, c \in Seq(Tokens) : (a \o b) \o c = a \o (b \o c)
        BY ConcatAssociative
    <2> QED BY <1>1, <1>6, <1>7, <2>1 DEF FileNames
<1>9. p = [dir |-> p.dir, name |-> p.name]
    BY <1>1 DEF FilePaths
<1> QED BY <1>4, <1>8, <1>9

LEMMA WithFilePathSpelled ==
    ASSUME NEW m \in Members, NEW p \in FilePaths
    PROVE  /\ WithFilePath(m, p) \in Members
           /\ Spelled(WithFilePath(m, p))
           /\ WithFilePath(m, p).m_handle = m.m_handle
<1>1. BaseName(p.name, m.m_prefix, m.m_suffix) \in FileNames /\ Parent(p) \in Dirs \cup {RootDir}
    BY BaseNameType DEF Members, FilePaths, Parent
<1> QED BY <1>1 DEF Members, WithFilePath, Spelled

LEMMA FreshMembersSpelled ==
    FreshMembers(Null) \in Members /\ Spelled(FreshMembers(Null)) /\ FreshMembers(Null).m_handle = Null
<1>1. <<>> \in FileNames
    BY EmptySeq DEF FileNames
<1>2. EmptyPath \in FilePaths
    BY <1>1 DEF EmptyPath, FilePaths
<1> QED BY <1>1, <1>2, NamesAssumption DEF FreshMembers, Members, Handles, Spelled

-----------------------------------------------------------------------------
(* The objects with a given handle, when one object comes or goes.         *)
LEMMA HeldCount ==
    ASSUME IInv, NEW f
    PROVE  /\ IsFiniteSet(HeldBy(f)) /\ Cardinality(HeldBy(f)) \in Nat
           /\ \A o \in HeldBy(f) : Cardinality(HeldBy(f) \ {o}) = Cardinality(HeldBy(f)) - 1
           /\ \A o : o \notin HeldBy(f) =>
                  Cardinality(HeldBy(f) \cup {o}) = Cardinality(HeldBy(f)) + 1
<1>1. HeldBy(f) \in SUBSET Objects
    BY DEF HeldBy, IInv, TypeOK
<1>2. IsFiniteSet(HeldBy(f))
    BY <1>1, ObjectsAssumption, FS_Subset
<1> QED BY <1>2, FS_CardinalityType, FS_AddElement, FS_RemoveElement

(* A constructor gives its block a null handle.                            *)
LEMMA ConstructKeeps ==
    ASSUME IInv, NEW o \in Objects, NEW m \in Members,
           m.m_handle = Null, Spelled(m), Constructs(o, m)
    PROVE  IInv'
<1> USE DEF IInv
<1>1. /\ o \notin alive /\ alive' = alive \cup {o} /\ obj' = [obj EXCEPT ![o] = m]
      /\ thrown' = "none" /\ refs' = refs /\ own' = own /\ leaked' = leaked
    BY DEF Constructs
<1>2. TypeOK'
    BY <1>1 DEF TypeOK, Members, Outcomes
<1>3. obj'[o] = m /\ \A q \in alive : q # o /\ obj'[q] = obj[q]
    BY <1>1 DEF TypeOK
<1>4. HandlesOwned'
    BY <1>1, <1>3 DEF HandlesOwned, TypeOK
<1>5. \A f \in Loadable : HeldBy(f)' = HeldBy(f)
    BY <1>1, <1>3, NullAssumption DEF HeldBy
<1>6. Counted'
    BY <1>1, <1>5 DEF Counted
<1>7. PathsSpelled'
    BY <1>1, <1>3 DEF PathsSpelled
<1>8. LoadedPathStable'
    BY <1>1, <1>3 DEF LoadedPathStable, isLoaded, FilePath, FilePathFor, Composed
<1> QED BY <1>2, <1>4, <1>6, <1>7, <1>8

(* A setter, or a load() that fails, on an object that is not loaded.      *)
LEMMA SetKeeps ==
    ASSUME IInv, NEW o \in alive, NEW m \in Members, m.m_handle = Null, Spelled(m),
           ~isLoaded(o), obj' = [obj EXCEPT ![o] = m], thrown' \in Outcomes,
           UNCHANGED <<refs, alive, own, leaked>>
    PROVE  IInv'
<1> USE DEF IInv
<1>1. TypeOK' /\ o \in Objects
    BY DEF TypeOK, Members
<1>2. obj'[o] = m /\ \A q \in alive \ {o} : obj'[q] = obj[q]
    BY <1>1 DEF TypeOK
<1>3. obj[o].m_handle = Null /\ o \notin own
    BY DEF isLoaded, HandlesOwned
<1>4. HandlesOwned'
    BY <1>2, <1>3 DEF HandlesOwned
<1>5. \A f \in Loadable : HeldBy(f)' = HeldBy(f)
    BY <1>2, <1>3, NullAssumption DEF HeldBy
<1>6. Counted'
    BY <1>5 DEF Counted
<1>7. PathsSpelled'
    BY <1>2 DEF PathsSpelled
<1>8. LoadedPathStable'
    BY <1>2 DEF LoadedPathStable, isLoaded, FilePath, FilePathFor, Composed
<1> QED BY <1>1, <1>4, <1>6, <1>7, <1>8

LEMMA LoadKeeps ==
    ASSUME IInv, NEW o \in Objects, Load(o)
    PROVE  IInv'
<1> USE DEF IInv
<1>0. PICK f0 \in Loadable : f0 = FilePath(o)
    BY DEF Load
<1>1. /\ o \in alive /\ obj[o].m_handle = Null /\ o \notin own
      /\ refs' = [refs EXCEPT ![f0] = @ + 1]
      /\ obj' = [obj EXCEPT ![o].m_handle = f0]
      /\ own' = own \cup {o} /\ thrown' = "none" /\ alive' = alive /\ leaked' = leaked
    BY <1>0 DEF Load, isLoaded, HandlesOwned
<1>2. /\ obj'[o] = [obj[o] EXCEPT !.m_handle = f0]
      /\ \A q \in alive \ {o} : obj'[q] = obj[q]
    BY <1>1 DEF TypeOK
<1>3. TypeOK'
    BY <1>1 DEF TypeOK, Handles, Outcomes
<1>4. /\ obj'[o].m_handle = f0 /\ obj'[o].m_name = obj[o].m_name
      /\ obj'[o].m_path = obj[o].m_path /\ obj'[o].m_filePath = obj[o].m_filePath
      /\ obj'[o].m_prefix = obj[o].m_prefix /\ obj'[o].m_suffix = obj[o].m_suffix
    BY <1>1, <1>2 DEF TypeOK
<1>5. HandlesOwned'
    BY <1>1, <1>2, <1>4, NullAssumption DEF HandlesOwned
<1>6. HeldBy(f0)' = HeldBy(f0) \cup {o} /\ o \notin HeldBy(f0)
    BY <1>1, <1>2, <1>4, NullAssumption DEF HeldBy
<1>7. \A f \in Loadable \ {f0} : HeldBy(f)' = HeldBy(f)
    BY <1>1, <1>2, <1>4, NullAssumption DEF HeldBy
<1>8. Counted'
    <2>1. refs'[f0] = Cardinality(HeldBy(f0)') + leaked'[f0]
        BY <1>1, <1>6, HeldCount DEF Counted, TypeOK
    <2>2. \A f \in Loadable \ {f0} : refs'[f] = Cardinality(HeldBy(f)') + leaked'[f]
        BY <1>1, <1>7 DEF Counted, TypeOK
    <2> QED BY <2>1, <2>2 DEF Counted
<1>9. PathsSpelled'
    BY <1>1, <1>2, <1>4 DEF PathsSpelled, Spelled
<1>10. FilePath(o)' = f0
    BY <1>0, <1>4 DEF FilePath, FilePathFor, Composed
<1>11. \A q \in alive \ {o} : FilePath(q)' = FilePath(q)
    BY <1>2 DEF FilePath, FilePathFor, Composed
<1>12. LoadedPathStable'
    BY <1>1, <1>2, <1>4, <1>10, <1>11 DEF LoadedPathStable, isLoaded
<1> QED BY <1>3, <1>5, <1>8, <1>9, <1>12

(* unload() gives the handle up: the loader's open goes with it when       *)
(* dlclose() accepts, and is leaked when it does not.                      *)
LEMMA UnloadKeeps ==
    ASSUME IInv, NEW o \in Objects, Unload(o) \/ UnloadFails(o)
    PROVE  IInv'
<1> USE DEF IInv
<1>0. PICK f0 \in Loadable : f0 = obj[o].m_handle
    BY DEF Unload, UnloadFails, isLoaded, HandlesOwned
<1>1. /\ o \in alive /\ o \in own
      /\ obj' = [obj EXCEPT ![o].m_handle = Null]
      /\ own' = own \ {o} /\ thrown' \in Outcomes /\ alive' = alive
    BY <1>0, NullAssumption DEF Unload, UnloadFails, isLoaded, HandlesOwned, Outcomes
<1>2. \/ refs[f0] > 0 /\ refs' = [refs EXCEPT ![f0] = @ - 1] /\ leaked' = leaked
      \/ refs' = refs /\ leaked' = [leaked EXCEPT ![f0] = @ + 1]
    BY <1>0, <1>1 DEF Unload, UnloadFails
<1>3. /\ obj'[o] = [obj[o] EXCEPT !.m_handle = Null]
      /\ \A q \in alive \ {o} : obj'[q] = obj[q]
    BY <1>1 DEF TypeOK
<1>4. /\ obj'[o].m_handle = Null /\ obj'[o].m_name = obj[o].m_name
      /\ obj'[o].m_path = obj[o].m_path /\ obj'[o].m_filePath = obj[o].m_filePath
      /\ obj'[o].m_prefix = obj[o].m_prefix /\ obj'[o].m_suffix = obj[o].m_suffix
    BY <1>1, <1>3 DEF TypeOK
<1>5. TypeOK'
    <2>1. obj' \in [Objects -> Members]
        BY <1>1 DEF TypeOK, Members, Handles
    <2>2. refs' \in [Loadable -> Nat] /\ leaked' \in [Loadable -> Nat]
        BY <1>2 DEF TypeOK
    <2> QED BY <1>1, <2>1, <2>2 DEF TypeOK, Members
<1>6. HandlesOwned'
    BY <1>1, <1>3, <1>4 DEF HandlesOwned
<1>7. HeldBy(f0)' = HeldBy(f0) \ {o} /\ o \in HeldBy(f0)
    BY <1>0, <1>1, <1>3, <1>4, NullAssumption DEF HeldBy
<1>8. \A f \in Loadable \ {f0} : HeldBy(f)' = HeldBy(f)
    BY <1>0, <1>1, <1>3, <1>4, NullAssumption DEF HeldBy
<1>9. Counted'
    <2>1. Cardinality(HeldBy(f0)') = Cardinality(HeldBy(f0)) - 1 /\ Cardinality(HeldBy(f0)) \in Nat
        BY <1>7, HeldCount
    <2>2. refs'[f0] = Cardinality(HeldBy(f0)') + leaked'[f0]
        BY <1>2, <2>1 DEF Counted, TypeOK
    <2>3. \A f \in Loadable \ {f0} : refs'[f] = Cardinality(HeldBy(f)') + leaked'[f]
        BY <1>2, <1>8 DEF Counted, TypeOK
    <2> QED BY <2>2, <2>3 DEF Counted
<1>10. PathsSpelled'
    BY <1>1, <1>3, <1>4 DEF PathsSpelled, Spelled
<1>11. \A q \in alive \ {o} : FilePath(q)' = FilePath(q)
    BY <1>3 DEF FilePath, FilePathFor, Composed
<1>12. LoadedPathStable'
    BY <1>1, <1>3, <1>4, <1>11 DEF LoadedPathStable, isLoaded
<1> QED BY <1>5, <1>6, <1>9, <1>10, <1>12

(* The destructor does not unload: a loaded object's open is leaked.       *)
LEMMA DestroyKeeps ==
    ASSUME IInv, NEW o \in Objects, Destroy(o)
    PROVE  IInv'
<1> USE DEF IInv
<1>1. /\ o \in alive /\ alive' = alive \ {o} /\ own' = own \ {o} /\ thrown' = "none"
      /\ obj' = obj /\ refs' = refs
    BY DEF Destroy
<1>2. HandlesOwned' /\ PathsSpelled'
    BY <1>1 DEF HandlesOwned, PathsSpelled
<1>3. LoadedPathStable'
    BY <1>1 DEF LoadedPathStable, isLoaded, FilePath, FilePathFor, Composed
<1>4. CASE o \notin own
    <2>1. obj[o].m_handle = Null /\ leaked' = leaked
        BY <1>1, <1>4 DEF Destroy, HandlesOwned
    <2>2. \A f \in Loadable : HeldBy(f)' = HeldBy(f)
        BY <1>1, <2>1, NullAssumption DEF HeldBy
    <2>3. TypeOK' /\ Counted'
        BY <1>1, <2>1, <2>2 DEF TypeOK, Outcomes, Counted
    <2> QED BY <1>2, <1>3, <2>3
<1>5. CASE o \in own
    <2>0. PICK f0 \in Loadable : f0 = obj[o].m_handle
        BY <1>1, <1>5 DEF HandlesOwned
    <2>1. leaked' = [leaked EXCEPT ![f0] = @ + 1]
        BY <1>5, <2>0 DEF Destroy
    <2>2. TypeOK'
        BY <1>1, <2>1 DEF TypeOK, Outcomes
    <2>3. HeldBy(f0)' = HeldBy(f0) \ {o} /\ o \in HeldBy(f0)
        BY <1>1, <2>0 DEF HeldBy
    <2>4. \A f \in Loadable \ {f0} : HeldBy(f)' = HeldBy(f)
        BY <1>1, <2>0 DEF HeldBy
    <2>5. Cardinality(HeldBy(f0)') = Cardinality(HeldBy(f0)) - 1 /\ Cardinality(HeldBy(f0)) \in Nat
        BY <2>3, HeldCount
    <2>6. refs'[f0] = Cardinality(HeldBy(f0)') + leaked'[f0]
        BY <1>1, <2>1, <2>5 DEF Counted, TypeOK
    <2>7. \A f \in Loadable \ {f0} : refs'[f] = Cardinality(HeldBy(f)') + leaked'[f]
        BY <1>1, <2>1, <2>4 DEF Counted, TypeOK
    <2> QED BY <1>2, <1>3, <2>2, <2>6, <2>7 DEF Counted
<1> QED BY <1>4, <1>5

-----------------------------------------------------------------------------
LEMMA Initially == Init => IInv
<1> SUFFICES ASSUME Init PROVE IInv
    OBVIOUS
<1>1. alive = {} /\ own = {}
    BY DEF Init
<1>2. TypeOK
    BY <1>1, FreshMembersSpelled DEF Init, TypeOK, Members, Outcomes
<1>3. \A f \in Loadable : HeldBy(f) = {}
    BY <1>1 DEF HeldBy
<1>4. Counted
    BY <1>3, FS_EmptySet DEF Init, Counted
<1> QED BY <1>1, <1>2, <1>4 DEF IInv, HandlesOwned, PathsSpelled, LoadedPathStable

LEMMA Inductive ==
    ASSUME ~DirtyHeap, IInv, [Next]_vars
    PROVE  IInv'
<1>1. CASE UNCHANGED vars
    BY <1>1 DEF vars, IInv, TypeOK, HandlesOwned, Counted, HeldBy, PathsSpelled,
                LoadedPathStable, isLoaded, FilePath, FilePathFor, Composed
<1>2. CASE Next
    <2>1. PICK o \in Objects :
              \/ ConstructDefault(o)
              \/ \E dir \in Dirs, name \in Names : ConstructInDir(o, dir, name)
              \/ \E p \in Paths : ConstructFromFile(o, p)
              \/ Destroy(o)
              \/ LoadTwice(o) \/ Load(o) \/ LoadFails(o)
              \/ Unload(o) \/ UnloadFails(o)
              \/ \E name \in Names : setName(o, name) \/ setPrefix(o, name) \/ setSuffix(o, name)
              \/ \E dir \in Dirs : setLibraryPath(o, dir)
              \/ \E p \in Paths : setFilePath(o, p)
        BY <1>2 DEF Next
    <2> DEFINE fresh == FreshMembers(Null)
    <2>2. Uninitialized(o) = {Null}
        BY DEF Uninitialized
    <2>3. TypeOK /\ \A q \in alive : Spelled(obj[q]) /\ obj[q] \in Members
        BY DEF IInv, TypeOK, PathsSpelled, Members
    <2>4. fresh \in Members /\ Spelled(fresh) /\ fresh.m_handle = Null
        BY FreshMembersSpelled
    <2>5. CASE ConstructDefault(o)
        BY <2>2, <2>4, <2>5, ConstructKeeps DEF ConstructDefault
    <2>6. CASE \E dir \in Dirs, name \in Names : ConstructInDir(o, dir, name)
        <3>1. PICK dir \in Dirs, name \in Names : ConstructInDir(o, dir, name)
            BY <2>6
        <3> DEFINE m == [fresh EXCEPT !.m_path = dir, !.m_name = name]
        <3>2. Constructs(o, m)
            BY <2>2, <3>1 DEF ConstructInDir
        <3>3. m \in Members /\ Spelled(m) /\ m.m_handle = Null
            BY <2>4, NamesAssumption DEF Members, Spelled, FreshMembers
        <3> QED BY <3>2, <3>3, ConstructKeeps
    <2>7. CASE \E p \in Paths : ConstructFromFile(o, p)
        <3>1. PICK p \in Paths : ConstructFromFile(o, p)
            BY <2>7
        <3> DEFINE m == [fresh EXCEPT !.m_filePath = p]
        <3>2. Constructs(o, WithFilePath(m, p))
            BY <2>2, <3>1 DEF ConstructFromFile
        <3>3. p \in FilePaths /\ m \in Members /\ m.m_handle = Null
            BY <2>4, PathsAssumption DEF Members
        <3> HIDE DEF m
        <3> QED BY <3>2, <3>3, WithFilePathSpelled, ConstructKeeps
    <2>8. CASE LoadTwice(o)
        <3>1. /\ thrown' \in Outcomes /\ obj' = obj /\ refs' = refs /\ alive' = alive
              /\ own' = own /\ leaked' = leaked
            BY <2>8 DEF LoadTwice, Outcomes
        <3> QED BY <3>1 DEF IInv, TypeOK, HandlesOwned, Counted, HeldBy, PathsSpelled,
                            LoadedPathStable, isLoaded, FilePath, FilePathFor, Composed
    <2>9. CASE LoadFails(o)
        <3>1. o \in alive /\ obj[o].m_handle = Null
            BY <2>9 DEF LoadFails, isLoaded
        <3>2. obj' = [obj EXCEPT ![o] = [obj[o] EXCEPT !.m_handle = Null]]
            BY <2>9 DEF LoadFails
        <3>3. [obj[o] EXCEPT !.m_handle = Null] = obj[o]
            BY <2>3, <3>1 DEF Members
        <3>4. obj' = [obj EXCEPT ![o] = obj[o]]
            BY <3>2, <3>3
        <3> QED BY <2>3, <2>9, <3>1, <3>4, SetKeeps DEF LoadFails, Outcomes
    <2>10. CASE \/ \E name \in Names : setName(o, name) \/ setPrefix(o, name) \/ setSuffix(o, name)
                \/ \E dir \in Dirs : setLibraryPath(o, dir)
        <3>1. Settable(o)
            BY <2>10 DEF setName, setPrefix, setSuffix, setLibraryPath
        <3>2. PICK m \in Members : Sets(o, m) /\ m.m_handle = obj[o].m_handle
                                              /\ m.m_filePath = obj[o].m_filePath
            <4>1. o \in alive /\ obj[o] \in Members
                BY <2>3, <2>10 DEF setName, setPrefix, setSuffix, setLibraryPath, Sets
            <4>2. \A name \in Names : /\ [obj[o] EXCEPT !.m_name = name] \in Members
                                      /\ [obj[o] EXCEPT !.m_prefix = name] \in Members
                                      /\ [obj[o] EXCEPT !.m_suffix = name] \in Members
                BY <4>1, NamesAssumption DEF Members
            <4>3. \A dir \in Dirs : [obj[o] EXCEPT !.m_path = dir] \in Members
                BY <4>1 DEF Members
            <4>4. ASSUME NEW name \in Names, setName(o, name)
                  PROVE  Sets(o, [obj[o] EXCEPT !.m_name = name])
                BY <4>4 DEF setName
            <4>5. ASSUME NEW name \in Names, setPrefix(o, name)
                  PROVE  Sets(o, [obj[o] EXCEPT !.m_prefix = name])
                BY <4>5 DEF setPrefix
            <4>6. ASSUME NEW name \in Names, setSuffix(o, name)
                  PROVE  Sets(o, [obj[o] EXCEPT !.m_suffix = name])
                BY <4>6 DEF setSuffix
            <4>7. ASSUME NEW dir \in Dirs, setLibraryPath(o, dir)
                  PROVE  Sets(o, [obj[o] EXCEPT !.m_path = dir])
                BY <4>7 DEF setLibraryPath
            <4> QED BY <2>10, <4>1, <4>2, <4>3, <4>4, <4>5, <4>6, <4>7 DEF Members
        <3>3. m.m_handle = Null /\ Spelled(m) /\ ~isLoaded(o)
            BY <3>1, <3>2 DEF Settable, isLoaded, Spelled
        <3> QED BY <3>2, <3>3, SetKeeps DEF Sets, Outcomes
    <2>11. CASE \E p \in Paths : setFilePath(o, p)
        <3>1. PICK p \in Paths : setFilePath(o, p)
            BY <2>11
        <3>2. /\ o \in alive /\ obj[o].m_handle = Null /\ ~isLoaded(o)
              /\ obj' = [obj EXCEPT ![o] = WithFilePath(obj[o], p)]
              /\ thrown' \in Outcomes /\ UNCHANGED <<refs, alive, own, leaked>>
            BY <3>1 DEF setFilePath, Sets, isLoaded, Outcomes
        <3>3. p \in FilePaths /\ obj[o] \in Members
            BY <2>3, <3>2, PathsAssumption
        <3> QED BY <3>2, <3>3, WithFilePathSpelled, SetKeeps
    <2> QED BY <2>1, <2>5, <2>6, <2>7, <2>8, <2>9, <2>10, <2>11,
               DestroyKeeps, LoadKeeps, UnloadKeeps
<1> QED BY <1>1, <1>2 DEF vars

-----------------------------------------------------------------------------
(* In zeroed memory the invariant holds throughout.                        *)
THEOREM Invariance == ~DirtyHeap => (Spec => []IInv)
<1> SUFFICES ASSUME ~DirtyHeap PROVE Spec => []IInv
    OBVIOUS
<1>1. Init => IInv
    BY Initially
<1>2. IInv /\ [Next]_vars => IInv'
    BY Inductive
<1> QED BY <1>1, <1>2, PTL DEF Spec

(* The members keep their types.                                           *)
THEOREM TypeCorrect == ~DirtyHeap => (Spec => []TypeOK)
<1>1. IInv => TypeOK
    BY DEF IInv
<1> QED BY <1>1, Invariance, PTL

(* Each open of the loader belongs to a handle, or was leaked where a      *)
(* loaded object was destroyed or dlclose() failed.                        *)
THEOREM OpensAccountedFor == ~DirtyHeap => (Spec => []HandlesCounted)
<1>1. IInv => HandlesCounted
    BY DEF IInv, Counted, HeldBy, HandlesCounted
<1> QED BY <1>1, Invariance, PTL

(* No setter moves the path of a loaded object.                            *)
THEOREM PathStaysWithHandle == ~DirtyHeap => (Spec => []LoadedPathStable)
<1>1. IInv => LoadedPathStable
    BY DEF IInv
<1> QED BY <1>1, Invariance, PTL

(* The parts of a library path spell that path again.                      *)
THEOREM PartsSpellPath == ~DirtyHeap => (Spec => []FilePathRebuilt)
<1>1. IInv => FilePathRebuilt
    <2> SUFFICES ASSUME IInv, NEW o \in alive,
                        IsLibraryPath(obj[o].m_filePath, obj[o].m_prefix, obj[o].m_suffix)
                 PROVE  Composed(o, obj[o].m_name) = obj[o].m_filePath
        BY DEF FilePathRebuilt
    <2>1. obj[o] \in Members /\ Spelled(obj[o])
        BY DEF IInv, TypeOK, PathsSpelled, Members
    <2> QED BY <2>1, PathPutBack DEF Composed
<1> QED BY <1>1, Invariance, PTL

(* A load() that throws leaves the object and the loader as they were.     *)
THEOREM FailedLoadHarmless == ~DirtyHeap => (Spec => LoadFailureHarmless)
<1>1. ASSUME IInv, [Next]_vars
      PROVE  [thrown' \in {"logic_error", "system_error"} => UNCHANGED <<obj, refs>>]_vars
    <2>1. CASE UNCHANGED vars
        BY <2>1
    <2>2. CASE Next /\ thrown' \in {"logic_error", "system_error"}
        <3>1. PICK o \in Objects : LoadTwice(o) \/ LoadFails(o)
            BY <2>2 DEF Next, ConstructDefault, ConstructInDir, ConstructFromFile, Constructs,
                        Destroy, Load, Unload, UnloadFails, setName, setPrefix, setSuffix,
                        setLibraryPath, setFilePath, Sets
        <3>2. CASE LoadTwice(o)
            BY <3>2 DEF LoadTwice
        <3>3. CASE LoadFails(o)
            <4>1. /\ obj' = [obj EXCEPT ![o].m_handle = Null] /\ refs' = refs
                  /\ obj[o].m_handle = Null
                BY <3>3 DEF LoadFails, isLoaded
            <4>2. obj \in [Objects -> Members]
                BY <1>1 DEF IInv, TypeOK, Members
            <4>3. [obj[o] EXCEPT !.m_handle = Null] = obj[o]
                BY <4>1, <4>2 DEF Members
            <4>4. obj' = [obj EXCEPT ![o] = obj[o]]
                BY <4>1, <4>3
            <4> QED BY <4>1, <4>2, <4>4
        <3> QED BY <3>1, <3>2, <3>3
    <2> QED BY <1>1, <2>1, <2>2
<1> QED BY <1>1, Invariance, PTL DEF Spec, LoadFailureHarmless
=============================================================================
