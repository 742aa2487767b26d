------------------------------- MODULE FileTree -------------------------------
(***************************************************************************)
(* What SimpleFS promises, without its lists: a tree of named files and    *)
(* directories, and the answer of the last call that may change it.        *)
(***************************************************************************)
EXTENDS Integers, Sequences, SequencesExt

CONSTANTS Paths,        \* the paths calls are made with
          Buffers,      \* what is written: non-empty sequences of bytes
          Sizes,        \* the sizes files are truncated to
          InitialTree

VARIABLES tree,         \* from the paths that exist to what is there
          ret           \* what the last call returned

tvars == <<tree, ret>>

Dir     == [type |-> "dir", content |-> <<>>]
File(s) == [type |-> "file", content |-> s]
ENOENT == -2
EEXIST == -17
EINVAL == -22

IsDir(p)  == p \in DOMAIN tree /\ tree[p].type = "dir"
IsFile(p) == p \in DOMAIN tree /\ tree[p].type = "file"

TInit == tree = InitialTree /\ ret = 0

Fail(errno) == ret' = errno /\ UNCHANGED tree

\* A new file or directory, in a directory that exists.
Make(p, node) ==
  \/ p \in DOMAIN tree /\ Fail(EEXIST)
  \/ p \notin DOMAIN tree /\ ~IsDir(Front(p)) /\ Fail(ENOENT)
  \/ /\ p \notin DOMAIN tree /\ IsDir(Front(p))
     /\ tree' = [q \in DOMAIN tree \cup {p} |-> IF q = p THEN node ELSE tree[q]]
     /\ ret' = 0

\* A path goes with everything below it; the root stays.
Delete(p) ==
  \/ p \notin DOMAIN tree /\ Fail(ENOENT)
  \/ p = <<>> /\ ret' = 0 /\ UNCHANGED tree
  \/ /\ p \in DOMAIN tree /\ p # <<>>
     /\ tree' = [q \in {q \in DOMAIN tree : ~IsPrefix(p, q)} |-> tree[q]]
     /\ ret' = 0

\* Bytes are added to a file, and a carriage return at its end is a newline.
AddBytes(p, buf) ==
  \/ p \notin DOMAIN tree /\ Fail(ENOENT)
  \/ IsDir(p) /\ Fail(EINVAL)
  \/ /\ IsFile(p)
     /\ LET s == tree[p].content \o buf IN
          tree' = [tree EXCEPT ![p] = File(IF Last(s) = "cr" THEN Front(s) \o <<"nl">> ELSE s)]
     /\ ret' = Len(buf)

\* A file never grows by it.
Truncate(p, n) ==
  \/ p \notin DOMAIN tree /\ Fail(ENOENT)
  \/ IsDir(p) /\ Fail(EINVAL)
  \/ /\ IsFile(p)
     /\ LET s == tree[p].content IN
          tree' = [tree EXCEPT ![p] = File(SubSeq(s, 1, IF n < Len(s) THEN n ELSE Len(s)))]
     /\ ret' = 0

TNext == \E p \in Paths :
  \/ Make(p, Dir) \/ Make(p, File(<<>>)) \/ Delete(p)
  \/ \E buf \in Buffers : AddBytes(p, buf)
  \/ \E n \in Sizes : Truncate(p, n)

TSpec == TInit /\ [][TNext]_tvars
===============================================================================
