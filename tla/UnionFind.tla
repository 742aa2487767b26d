------------------------------- MODULE UnionFind -------------------------------
(***************************************************************************)
(* UnionFind: a forest in which two elements are connected if they have    *)
(* the same root.  The lighter root goes below the other one, and root()   *)
(* lets all it passes point to the root directly.                          *)
(***************************************************************************)
EXTENDS Integers, FiniteSets

CONSTANT size_          \* the number of elements

VARIABLES parent_, weight_,
          classes       \* history: the classes of connected elements

vars == <<parent_, weight_, classes>>

Elements == 0..(size_ - 1)

Init ==
  /\ parent_ = [i \in Elements |-> i]
  /\ weight_ = [i \in Elements |-> 1]
  /\ classes = {{i} : i \in Elements}

\* The elements root(i) passes, with the root.
Path(p, i) ==
  LET From[j \in Elements] == IF p[j] = j THEN {j} ELSE {j} \cup From[p[j]]
  IN From[i]

RootOf(p, i) == CHOOSE r \in Path(p, i) : p[r] = r
Compressed(p, i) == [j \in Elements |-> IF j \in Path(p, i) THEN RootOf(p, i) ELSE p[j]]

\* Mutant: the heavier root goes below the lighter one.
UnionInverted(p, light, heavy) ==
  /\ parent_' = [p EXCEPT ![heavy] = light]
  /\ weight_' = [weight_ EXCEPT ![light] = @ + weight_[heavy]]

Union(p, light, heavy) ==
  /\ parent_' = [p EXCEPT ![light] = heavy]
  /\ weight_' = [weight_ EXCEPT ![heavy] = @ + weight_[light]]

connect(p, q) ==
  LET rootp == RootOf(parent_, p)
      rootq == RootOf(parent_, q)
      f == Compressed(Compressed(parent_, p), q)
  IN
  /\ \/ rootp = rootq /\ parent_' = f /\ UNCHANGED weight_
     \/ rootp # rootq /\ weight_[rootp] > weight_[rootq] /\ Union(f, rootq, rootp)
     \/ rootp # rootq /\ weight_[rootp] <= weight_[rootq] /\ Union(f, rootp, rootq)
  /\ LET both == {c \in classes : p \in c \/ q \in c} IN
     classes' = (classes \ both) \cup {UNION both}

isConnected(p, q) ==
  /\ parent_' = Compressed(Compressed(parent_, p), q)
  /\ UNCHANGED <<weight_, classes>>

Next == \E p, q \in Elements : connect(p, q) \/ isConnected(p, q)

-------------------------------------------------------------------------------
(* Properties *)

Connected(p, q) == RootOf(parent_, p) = RootOf(parent_, q)

\* Two elements are connected exactly if calls to connect() lead from one to
\* the other.
ConnectedIsClass ==
  \A p, q \in Elements : Connected(p, q) <=> \E c \in classes : {p, q} \subseteq c

\* The weight of a root is the size of its class, so that the recursion of
\* root() is never deeper than the logarithm of that size.
WeightBoundsDepth ==
  \A i \in Elements :
    LET r == RootOf(parent_, i)
        n == Cardinality({j \in Elements : Connected(i, j)})
    IN weight_[r] = n /\ 2^(Cardinality(Path(parent_, i)) - 1) <= n
===============================================================================
