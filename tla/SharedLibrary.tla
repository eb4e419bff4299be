--------------------------- MODULE SharedLibrary ---------------------------
(***************************************************************************)
(* pctk::SharedLibrary objects on a POSIX system, and the dynamic loader   *)
(* they share.  An object is its SharedLibraryPrivate block; the block     *)
(* stays in memory after the destructor, and a later constructor may be    *)
(* given the same block, with m_handle as it was left: the constructor     *)
(* does not initialize m_handle.                                           *)
(*                                                                         *)
(* A file name is a sequence of tokens ("lib", a base name, ".so"); a path *)
(* is a directory and a file name.  The empty string is EmptyPath.         *)
(***************************************************************************)
EXTENDS Integers, Sequences, FiniteSets

CONSTANTS
    Objects,        \* the blocks SharedLibrary objects are made in
    Tokens,         \* the parts file names are made of
    Dirs,           \* directories other than the root
    RootDir,        \* "": what precedes the separator in "/file"
    NoDir,          \* the path has no separator
    Null,           \* nullptr
    Junk,           \* a non-null word that is no handle
    DefaultPrefix,  \* PCTK_LIB_PREFIX
    DefaultSuffix,  \* PCTK_LIB_EXT
    Names,          \* base names, prefixes and suffixes the callers pass
    Paths,          \* file paths the callers pass, perhaps the empty one
    Loadable,       \* the files the loader accepts
    DirtyHeap,      \* whether new blocks may hold old or arbitrary words
    MaxOpens        \* bound on the loader's count of a file

FileNames == Seq(Tokens)
FilePaths == [dir : Dirs \cup {RootDir, NoDir}, name : FileNames]

EmptyPath == [dir |-> NoDir, name |-> <<>>]

ASSUME NamesAssumption ==
    /\ Names \subseteq FileNames
    /\ DefaultPrefix \in FileNames
    /\ DefaultSuffix \in FileNames
ASSUME PathsAssumption == Paths \subseteq FilePaths /\ Loadable \subseteq FilePaths
ASSUME NullAssumption == Null \notin Loadable /\ Junk \notin Loadable /\ Null # Junk
ASSUME ObjectsAssumption == IsFiniteSet(Objects)
ASSUME DirtyHeapAssumption == DirtyHeap \in BOOLEAN
ASSUME MaxOpensAssumption == MaxOpens \in Nat

VARIABLES
    obj,       \* obj[o]: the members of the private block o
    refs,      \* refs[f]: how often the loader holds file f open
    thrown,    \* how the last call ended
    alive,     \* the blocks that hold a constructed object
    own,       \* objects whose handle their own load() obtained
    leaked     \* leaked[f]: opens of f no object can close any more

vars == <<obj, refs, thrown, alive, own, leaked>>

Handles == Loadable \cup {Null, Junk}

Outcomes == {"none", "logic_error", "system_error", "runtime_error"}

TypeOK ==
    /\ obj \in [Objects -> [m_handle : Handles, m_name : FileNames,
                            m_path : Dirs \cup {RootDir}, m_filePath : FilePaths,
                            m_prefix : FileNames, m_suffix : FileNames]]
    /\ refs \in [Loadable -> Nat]
    /\ thrown \in Outcomes
    /\ alive \subseteq Objects
    /\ own \subseteq alive
    /\ leaked \in [Loadable -> Nat]

-----------------------------------------------------------------------------
isLoaded(o) == obj[o].m_handle # Null

(* getFilePath(name) and getFilePath().                                    *)
Composed(o, name) ==
    [dir |-> obj[o].m_path, name |-> obj[o].m_prefix \o name \o obj[o].m_suffix]

FilePathFor(o, name) ==
    IF obj[o].m_filePath # EmptyPath THEN obj[o].m_filePath ELSE Composed(o, name)

FilePath(o) == FilePathFor(o, obj[o].m_name)

(* What setFilePath() makes of a file name: the prefix and then the suffix *)
(* are cut off if they are there.                                          *)
StartsWith(name, prefix) ==
    Len(name) >= Len(prefix) /\ SubSeq(name, 1, Len(prefix)) = prefix

EndsWith(name, suffix) ==
    /\ Len(name) >= Len(suffix)
    /\ SubSeq(name, Len(name) - Len(suffix) + 1, Len(name)) = suffix

WithoutPrefix(name, prefix) ==
    IF StartsWith(name, prefix) THEN SubSeq(name, Len(prefix) + 1, Len(name)) ELSE name

(* Mutant: the last token is cut off unseen.                              *)
CutSuffix(name, suffix) == SubSeq(name, 1, Len(name) - 1)

WithoutSuffix(name, suffix) ==
    IF EndsWith(name, suffix) THEN SubSeq(name, 1, Len(name) - Len(suffix)) ELSE name

BaseName(name, prefix, suffix) == WithoutSuffix(WithoutPrefix(name, prefix), suffix)

(* Mutant: the parent of a path without a separator is taken as it is.     *)
RawParent(p) == p.dir

Parent(p) == IF p.dir = NoDir THEN RootDir ELSE p.dir

(* The members after setFilePath(p) on an object that is not loaded.       *)
WithFilePath(members, p) ==
    [members EXCEPT !.m_filePath = p,
                    !.m_path = Parent(p),
                    !.m_name = BaseName(p.name, members.m_prefix, members.m_suffix)]

-----------------------------------------------------------------------------
(* The words m_handle may hold after the constructor of the block.         *)
Uninitialized(o) == IF DirtyHeap THEN {Null, Junk, obj[o].m_handle} ELSE {Null}

(* SharedLibraryPrivate(q): everything but m_handle is initialized.        *)
FreshMembers(handle) ==
    [m_handle |-> handle, m_name |-> <<>>, m_path |-> RootDir,
     m_filePath |-> EmptyPath, m_prefix |-> DefaultPrefix, m_suffix |-> DefaultSuffix]

Constructs(o, members) ==
    /\ o \notin alive
    /\ alive' = alive \cup {o}
    /\ obj' = [obj EXCEPT ![o] = members]
    /\ thrown' = "none"
    /\ UNCHANGED <<refs, own, leaked>>

(* SharedLibrary().                                                        *)
ConstructDefault(o) ==
    \E h \in Uninitialized(o) :
        Constructs(o, FreshMembers(h))

(* SharedLibrary(libPath, name).                                           *)
ConstructInDir(o, dir, name) ==
    \E h \in Uninitialized(o) :
        Constructs(o, [FreshMembers(h) EXCEPT !.m_path = dir, !.m_name = name])

(* SharedLibrary(absoluteFilePath): the path is stored, then setFilePath() *)
(* is called, which returns at once if m_handle happens not to be null.    *)
ConstructFromFile(o, p) ==
    \E h \in Uninitialized(o) :
        LET fresh == [FreshMembers(h) EXCEPT !.m_filePath = p]
        IN  Constructs(o, IF h = Null THEN WithFilePath(fresh, p) ELSE fresh)

(* ~SharedLibrary() does not unload.                                       *)
Destroy(o) ==
    /\ o \in alive
    /\ alive' = alive \ {o}
    /\ own' = own \ {o}
    /\ leaked' = IF o \in own THEN [leaked EXCEPT ![obj[o].m_handle] = @ + 1] ELSE leaked
    /\ thrown' = "none"
    /\ UNCHANGED <<obj, refs>>

-----------------------------------------------------------------------------
(* Mutant: a second load() forgets the handle before it throws.            *)
LoadTwiceForgets(o) ==
    /\ o \in alive
    /\ isLoaded(o)
    /\ obj' = [obj EXCEPT ![o].m_handle = Null]
    /\ thrown' = "logic_error"
    /\ UNCHANGED <<refs, alive, own, leaked>>

(* load(flags) and load(): the guard.                                      *)
LoadTwice(o) ==
    /\ o \in alive
    /\ isLoaded(o)
    /\ thrown' = "logic_error"
    /\ UNCHANGED <<obj, refs, alive, own, leaked>>

(* Mutant: load() opens the file again whether loaded or not.              *)
LoadUnguarded(o) ==
    /\ o \in alive
    /\ FilePath(o) \in Loadable
    /\ refs[FilePath(o)] < MaxOpens
    /\ refs' = [refs EXCEPT ![FilePath(o)] = @ + 1]
    /\ obj' = [obj EXCEPT ![o].m_handle = FilePath(o)]
    /\ own' = own \cup {o}
    /\ thrown' = "none"
    /\ UNCHANGED <<alive, leaked>>

(* ... dlopen() succeeds: the loader opens the file once more.             *)
Load(o) ==
    /\ o \in alive
    /\ ~isLoaded(o)
    /\ FilePath(o) \in Loadable
    /\ refs[FilePath(o)] < MaxOpens
    /\ refs' = [refs EXCEPT ![FilePath(o)] = @ + 1]
    /\ obj' = [obj EXCEPT ![o].m_handle = FilePath(o)]
    /\ own' = own \cup {o}
    /\ thrown' = "none"
    /\ UNCHANGED <<alive, leaked>>

(* ... dlopen() returns null.                                              *)
LoadFails(o) ==
    /\ o \in alive
    /\ ~isLoaded(o)
    /\ obj' = [obj EXCEPT ![o].m_handle = Null]
    /\ thrown' = "system_error"
    /\ UNCHANGED <<refs, alive, own, leaked>>

(* unload(): dlclose() accepts the handle.                                 *)
Unload(o) ==
    /\ o \in alive
    /\ obj[o].m_handle \in Loadable
    /\ refs[obj[o].m_handle] > 0
    /\ refs' = [refs EXCEPT ![obj[o].m_handle] = @ - 1]
    /\ obj' = [obj EXCEPT ![o].m_handle = Null]
    /\ own' = own \ {o}
    /\ thrown' = "none"
    /\ UNCHANGED <<alive, leaked>>

(* ... dlclose() fails; the handle is given up all the same.               *)
UnloadFails(o) ==
    /\ o \in alive
    /\ isLoaded(o)
    /\ obj' = [obj EXCEPT ![o].m_handle = Null]
    /\ own' = own \ {o}
    /\ leaked' = IF o \in own THEN [leaked EXCEPT ![obj[o].m_handle] = @ + 1] ELSE leaked
    /\ thrown' = "runtime_error"
    /\ UNCHANGED <<refs, alive>>

-----------------------------------------------------------------------------
(* setName, setLibraryPath, setPrefix and setSuffix share their guard.     *)
Settable(o) == ~isLoaded(o) /\ obj[o].m_filePath = EmptyPath

Sets(o, members) ==
    /\ o \in alive
    /\ obj' = [obj EXCEPT ![o] = members]
    /\ thrown' = "none"
    /\ UNCHANGED <<refs, alive, own, leaked>>

setName(o, name) ==
    /\ Settable(o)
    /\ Sets(o, [obj[o] EXCEPT !.m_name = name])

setLibraryPath(o, dir) ==
    /\ Settable(o)
    /\ Sets(o, [obj[o] EXCEPT !.m_path = dir])

setPrefix(o, prefix) ==
    /\ Settable(o)
    /\ Sets(o, [obj[o] EXCEPT !.m_prefix = prefix])

setSuffix(o, suffix) ==
    /\ Settable(o)
    /\ Sets(o, [obj[o] EXCEPT !.m_suffix = suffix])

(* Mutant: setFilePath() does not look whether the library is loaded.      *)
setFilePathAlways(o, p) == Sets(o, WithFilePath(obj[o], p))

setFilePath(o, p) ==
    /\ ~isLoaded(o)
    /\ Sets(o, WithFilePath(obj[o], p))

-----------------------------------------------------------------------------
Init ==
    /\ obj = [o \in Objects |-> FreshMembers(Null)]
    /\ refs = [f \in Loadable |-> 0]
    /\ thrown = "none"
    /\ alive = {}
    /\ own = {}
    /\ leaked = [f \in Loadable |-> 0]

Next ==
    \E o \in Objects :
        \/ ConstructDefault(o)
        \/ \E dir \in Dirs, name \in Names : ConstructInDir(o, dir, name)
        \/ \E p \in Paths : ConstructFromFile(o, p)
        \/ Destroy(o)
        \/ LoadTwice(o) \/ Load(o) \/ LoadFails(o)
        \/ Unload(o) \/ UnloadFails(o)
        \/ \E name \in Names : setName(o, name) \/ setPrefix(o, name) \/ setSuffix(o, name)
        \/ \E dir \in Dirs : setLibraryPath(o, dir)
        \/ \E p \in Paths : setFilePath(o, p)

Spec == Init /\ [][Next]_vars

-----------------------------------------------------------------------------
(* Nothing the loader holds open is unaccounted for, with several objects  *)
(* open on one file: each open belongs to an object's handle, or to a      *)
(* handle that was destroyed while loaded or whose dlclose() failed.       *)
HandlesCounted ==
    \A f \in Loadable :
        refs[f] = Cardinality({o \in alive : obj[o].m_handle = f}) + leaked[f]

(* While an object is loaded getFilePath() names the file it has loaded:   *)
(* no sequence of setters moves the path away from under the handle.       *)
LoadedPathStable ==
    \A o \in alive : isLoaded(o) => FilePath(o) = obj[o].m_handle

(* The directory, prefix, name and suffix that setFilePath() derives from  *)
(* a library path spell that path again, whatever the prefix and suffix    *)
(* were when it was called.                                                *)
IsLibraryPath(p, prefix, suffix) ==
    /\ p.dir # NoDir
    /\ StartsWith(p.name, prefix)
    /\ EndsWith(WithoutPrefix(p.name, prefix), suffix)

FilePathRebuilt ==
    \A o \in alive :
        LET p == obj[o].m_filePath
        IN  IsLibraryPath(p, obj[o].m_prefix, obj[o].m_suffix)
                => Composed(o, obj[o].m_name) = p

(* A load() that throws changes neither the object nor the loader: in      *)
(* particular a second load() keeps the first handle.                      *)
LoadFailureHarmless ==
    [][thrown' \in {"logic_error", "system_error"} => UNCHANGED <<obj, refs>>]_vars

(* getHandle() is nullptr unless the object has loaded its library, as its *)
(* documentation says; true only if new blocks come zeroed.                *)
HandleNullUnlessLoaded == \A o \in alive \ own : obj[o].m_handle = Null
=============================================================================
