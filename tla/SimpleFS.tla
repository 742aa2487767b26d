------------------------------- MODULE SimpleFS -------------------------------
(***************************************************************************)
(* The in-memory file system of FileSystem/SimpleFS: entries on the heap,  *)
(* the list allEntries in which every handler looks a path up, and the     *)
(* tree made of the lists dirent.  FUSE runs one handler at a time (the    *)
(* README mounts with -s), so a handler is one step.                       *)
(*                                                                         *)
(* A path is the sequence of its names: the root "/" is <<>>.  An entry is *)
(* known by its address, a number; its name is its whole path.  Of the     *)
(* bytes only a carriage return and a newline are told apart.              *)
(***************************************************************************)
EXTENDS Integers, Sequences, SequencesExt, FiniteSets

CONSTANTS Address,      \* where entries may be allocated: 0..5 and more numbers
          Paths,        \* the paths FUSE calls the handlers with: sequences of names
          Buffers,      \* what is written: non-empty sequences of bytes
          Sizes,        \* offsets, and sizes to read and to truncate to
          MaxSize       \* bound on the size of a file

VARIABLES heap,         \* the entries, by address
          allEntries,   \* the list of all entries, as addresses
          ret           \* what the last handler that may change anything returned

fsVars == <<heap, allEntries, ret>>

ENOENT == -2
EEXIST == -17
EINVAL == -22

DIR_T  == "dir"
FILE_T == "file"
None   == -1            \* NULL, and end()
Bytes  == {"x", "cr", "nl"}
Entry  == [name : Seq(STRING), type : {DIR_T, FILE_T}, content : Seq(Bytes),
           parent : Address \cup {None}, dirent : Seq(Address)]

NewEntry(ty, name, content, parent, dirent) ==
  [name |-> name, type |-> ty, content |-> content, parent |-> parent, dirent |-> dirent]

Root  == 0
Hello == <<"x">>        \* stands for the texts main() writes

\* The entries main() makes before it mounts the file system.
FsInit ==
  /\ heap = [e \in 0..5 |->
               CASE e = 0 -> NewEntry(DIR_T, <<>>, <<>>, None, <<1, 2, 3, 4>>)
                 [] e = 1 -> NewEntry(FILE_T, <<"hello1">>, Hello, Root, <<>>)
                 [] e = 2 -> NewEntry(FILE_T, <<"hello2">>, Hello, Root, <<>>)
                 [] e = 3 -> NewEntry(DIR_T, <<"hellod1">>, <<>>, Root, <<5>>)
                 [] e = 4 -> NewEntry(DIR_T, <<"hellod2">>, <<>>, Root, <<>>)
                 [] e = 5 -> NewEntry(FILE_T, <<"hellod1", "hello3">>, Hello, 3, <<>>)]
  /\ allEntries = <<0, 1, 2, 3, 4, 5>>
  /\ ret = 0

-------------------------------------------------------------------------------
Listed == ToSet(allEntries)

\* What find_if gives: the first entry in the list with the name.
Find(path) ==
  LET found == {i \in DOMAIN allEntries : heap[allEntries[i]].name = path}
  IN IF found = {} THEN None
     ELSE allEntries[CHOOSE i \in found : \A j \in found : i <= j]

\* What malloc gives: an address that is free, and the one freed last before
\* one that was never used.
Unused  == Address \ DOMAIN heap
Fresh   == CHOOSE a \in Unused : \A b \in Unused : a <= b

Fail(errno) == ret' = errno /\ UNCHANGED <<heap, allEntries>>

\* The heap with the entry ent at Fresh, which is put into dir unless that is None.
WithEntry(ent, dir) ==
  [e \in DOMAIN heap \cup {Fresh} |->
     IF e = Fresh THEN [ent EXCEPT !.parent = dir]
     ELSE IF e = dir THEN [heap[e] EXCEPT !.dirent = Append(@, Fresh)]
     ELSE heap[e]]

\* Mutant: the entry is put into allEntries although its parent is missing.
InsertUnlisted(ent) ==
  LET dir == Find(Front(ent.name)) IN
  IF dir = None \/ heap[dir].type # DIR_T
  THEN /\ heap' = WithEntry(ent, None) /\ ret' = ENOENT
       /\ allEntries' = Append(allEntries, Fresh)
  ELSE /\ heap' = WithEntry(ent, dir)
       /\ allEntries' = Append(allEntries, Fresh) /\ ret' = 0

\* insert_entry() of an entry that has just been allocated.  When it fails the
\* entry stays on the heap, where nothing leads to it.
Insert(ent) ==
  LET dir == Find(Front(ent.name)) IN
  IF dir = None \/ heap[dir].type # DIR_T
  THEN heap' = WithEntry(ent, None) /\ ret' = ENOENT /\ UNCHANGED allEntries
  ELSE /\ heap' = WithEntry(ent, dir)
       /\ allEntries' = Append(allEntries, Fresh) /\ ret' = 0

\* The test of O_EXCL is a disjunction of flags, so it is true.
Exists(path) == Find(path) # None

Create(path) ==
  \/ Exists(path) /\ Fail(EEXIST)
  \/ ~Exists(path) /\ Unused # {} /\ Insert(NewEntry(FILE_T, path, <<>>, None, <<>>))

Mkdir(path) ==
  \/ Exists(path) /\ Fail(EEXIST)
  \/ ~Exists(path) /\ Unused # {} /\ Insert(NewEntry(DIR_T, path, <<>>, None, <<>>))

\* The entries the destructor of ent deletes: it goes down the lists dirent.
Destroyed(ent) ==
  LET Below[e \in DOMAIN heap] ==
        {e} \cup UNION {Below[heap[e].dirent[i]] : i \in DOMAIN heap[e].dirent}
  IN Below[ent]

\* std::find and erase: the first occurrence of ent goes.
Erase(list, ent) ==
  LET found == {i \in DOMAIN list : list[i] = ent}
  IN IF found = {} THEN list ELSE RemoveAt(list, CHOOSE i \in found : \A j \in found : i <= j)

\* The list that is left when all of gone have erased themselves from it.
Left(list, gone) ==
  LET left == {i \in DOMAIN list : list[i] \notin gone}
  IN [k \in 1..Cardinality(left) |->
        list[CHOOSE i \in left : Cardinality({j \in left : j <= i}) = k]]

\* rmdir and unlink are both rmhelper().
rmhelper(path) ==
  LET ent == Find(path) IN
  \/ ent = None /\ Fail(ENOENT)
  \/ ent # None /\ heap[ent].parent = None /\ Fail(0)
  \/ /\ ent # None /\ heap[ent].parent # None
     /\ LET parent == heap[ent].parent
            gone   == Destroyed(ent) IN
          /\ heap' = [e \in DOMAIN heap \ gone |->
                        IF e = parent THEN [heap[e] EXCEPT !.dirent = Erase(@, ent)]
                        ELSE heap[e]]
          /\ allEntries' = Left(allEntries, gone)
     /\ ret' = 0

\* Mutant: O_APPEND is tested as it is meant, and the flags have it not.
Overwritten(old, buf) == buf

\* What a write leaves in the file: it always appends, as the test of O_APPEND
\* is a disjunction too.
Written(old, buf) == old \o buf

NoReturn(s) == IF Last(s) = "cr" THEN Front(s) \o <<"nl">> ELSE s

Write(path, buf) ==
  LET f == Find(path) IN
  \/ f = None /\ Fail(ENOENT)
  \/ f # None /\ heap[f].type = DIR_T /\ Fail(EINVAL)
  \/ /\ f # None /\ heap[f].type = FILE_T
     /\ Len(heap[f].content) + Len(buf) <= MaxSize
     /\ heap' = [heap EXCEPT ![f].content = NoReturn(Written(@, buf))]
     /\ ret' = Len(buf)
     /\ UNCHANGED allEntries

Truncate(path, size) ==
  LET f == Find(path) IN
  \/ f = None /\ Fail(ENOENT)
  \/ f # None /\ heap[f].type = DIR_T /\ Fail(EINVAL)
  \/ /\ f # None /\ heap[f].type = FILE_T
     /\ heap' = [heap EXCEPT ![f].content = IF size < Len(@) THEN SubSeq(@, 1, size) ELSE @]
     /\ ret' = 0
     /\ UNCHANGED allEntries

FsNext == \E p \in Paths :
  \/ Create(p) \/ Mkdir(p) \/ rmhelper(p)
  \/ \E buf \in Buffers : Write(p, buf)
  \/ \E n \in Sizes : Truncate(p, n)

FsSpec == FsInit /\ [][FsNext]_fsVars

-------------------------------------------------------------------------------
(* The handlers that only look. *)

\* Entry::size(): the bytes of a file, or of all the files below a directory.
Size(ent) ==
  LET Sum[e \in DOMAIN heap] ==
        IF heap[e].type = FILE_T THEN Len(heap[e].content)
        ELSE SumFunction([i \in DOMAIN heap[e].dirent |-> Sum[heap[e].dirent[i]]])
  IN Sum[ent]

getattr(path) == IF Find(path) = None THEN <<"ENOENT">>
                 ELSE <<heap[Find(path)].type, Size(Find(path))>>

\* How many bytes a read at offset takes from a file of len bytes.
BytesRead(len, offset, size) ==
  IF offset >= len THEN 0 ELSE IF offset + size > len THEN len - offset ELSE size

read(path, size, offset) ==
  LET f == Find(path) IN
  IF f = None THEN <<"ENOENT">> ELSE IF heap[f].type = DIR_T THEN <<"EINVAL">>
  ELSE LET n == BytesRead(Len(heap[f].content), offset, size)
       IN [i \in 1..n |-> heap[f].content[offset + i]]

\* The names a directory is listed with: what follows the last '/'.
readdir(path) ==
  LET d == Find(path) IN
  IF d = None THEN <<"ENOENT">>
  ELSE [i \in DOMAIN heap[d].dirent |-> Last(heap[heap[d].dirent[i]].name)]

-------------------------------------------------------------------------------
(* Properties *)

\* The list and the tree are two records of the same thing (simplefs.cpp:303 and
\* 305, 370 and 49): allEntries holds the root and each entry that is in its
\* parent's dirent, all of them once; what a dirent holds is listed, and knows
\* its parent.
ListIsTree ==
  /\ Listed \subseteq DOMAIN heap
  /\ \A i, j \in DOMAIN allEntries : allEntries[i] = allEntries[j] => i = j
  /\ \A d \in Listed : \A i \in DOMAIN heap[d].dirent :
       LET e == heap[d].dirent[i] IN
       /\ e \in Listed /\ heap[e].parent = d
       /\ heap[e].name # <<>> /\ Front(heap[e].name) = heap[d].name
       /\ \A j \in DOMAIN heap[d].dirent : heap[d].dirent[j] = e => i = j
  /\ \A e \in Listed \ {Root} : /\ heap[e].parent \in Listed
                                /\ Contains(heap[heap[e].parent].dirent, e)

\* Handlers find an entry by its path, so no two entries may have the same one.
NamesAreUnique == \A e, f \in Listed : heap[e].name = heap[f].name => e = f

\* The entry a path leads to when the lists dirent are followed from the root,
\* without allEntries.
Followed(path) ==
  LET At[n \in 0..Len(path)] ==
        IF n = 0 THEN {Root}
        ELSE UNION {{e \in ToSet(heap[d].dirent) : Last(heap[e].name) = path[n]} : d \in At[n - 1]}
  IN At[Len(path)]

TreePaths == {heap[e].name : e \in DOMAIN heap}
Tree == [p \in {p \in TreePaths : Followed(p) # {}} |->
           LET e == CHOOSE e \in Followed(p) : TRUE
           IN [type |-> heap[e].type, content |-> heap[e].content]]

\* What main() makes, as a tree.
MadeTree ==
  [p \in {<<>>, <<"hello1">>, <<"hello2">>, <<"hellod1">>, <<"hellod2">>, <<"hellod1", "hello3">>} |->
     IF p \in {<<>>, <<"hellod1">>, <<"hellod2">>} THEN [type |-> DIR_T, content |-> <<>>]
     ELSE [type |-> FILE_T, content |-> Hello]]

\* Every handler does to the tree of the lists dirent what the abstract file
\* tree does, and returns what it returns.
Abstract == INSTANCE FileTree WITH tree <- Tree, InitialTree <- MadeTree
ImplementsFileTree == Abstract!TSpec

\* The handlers that look, which go through allEntries, see that tree: a read
\* gives the bytes from its offset on and stops at the end, and a listing names
\* the children, each once.
ReadsSeeTree ==
  \A p \in Paths \cup TreePaths :
    IF p \notin DOMAIN Tree
    THEN Find(p) = None /\ readdir(p) = <<"ENOENT">> /\ read(p, 1, 0) = <<"ENOENT">>
    ELSE /\ Find(p) # None /\ heap[Find(p)].type = Tree[p].type
         /\ IF Tree[p].type = DIR_T
            THEN LET names == readdir(p) IN
                 /\ read(p, 1, 0) = <<"EINVAL">>
                 /\ ToSet(names) = {Last(q) : q \in {q \in DOMAIN Tree : q # <<>> /\ Front(q) = p}}
                 /\ \A i, j \in DOMAIN names : names[i] = names[j] => i = j
            ELSE \A n, offset \in Sizes :
                   LET bytes == read(p, n, offset) IN
                   /\ bytes = SubSeq(Tree[p].content, offset + 1, offset + Len(bytes))
                   /\ Len(bytes) = n \/ (Len(bytes) < n /\ offset + Len(bytes) >= Len(Tree[p].content))

\* The size of a file is that of its bytes, and that of a directory the sum of
\* the files below it.
SizesAddUp ==
  \A p \in Paths \cup TreePaths :
    IF p \notin DOMAIN Tree THEN getattr(p) = <<"ENOENT">>
    ELSE IF Tree[p].type = FILE_T THEN getattr(p) = <<FILE_T, Len(Tree[p].content)>>
    ELSE LET below == {q \in DOMAIN Tree : IsStrictPrefix(p, q) /\ Tree[q].type = FILE_T} IN
         getattr(p) = <<DIR_T, SumFunction([q \in below |-> Len(Tree[q].content)])>>

\* The list and the directories record the same tree, with each path once, and
\* what looks at the entries sees that tree.
FilesAreTree == ListIsTree /\ NamesAreUnique /\ ReadsSeeTree /\ SizesAddUp
===============================================================================
