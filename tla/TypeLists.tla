----------------------------- MODULE TypeLists -----------------------------
(***************************************************************************)
(* The type lists of CPP/Utils.hpp, and what is generated from them there, *)
(* in CPP/AbstractFactory.hpp and in CPP/MultiDispatcher.hpp.  The program *)
(* these templates make is run by the compiler: a TypeList is a sequence   *)
(* of types, a specialisation a case of a recursive definition.  The state *)
(* is one input: a list, two types, and the classes' direct bases.         *)
(***************************************************************************)
EXTENDS Integers, Sequences, SequencesExt

CONSTANTS Types,      \* the types of the lists
          NullType,   \* Utils.hpp's mark for "no type", which is not in a list
          MaxList     \* bound: the length of a list

VARIABLES list,       \* a TypeList
          from, to,   \* the types of an operation
          base        \* base[t]: the class t derives from, or NullType

vars == <<list, from, to, base>>

Lists == UNION {[1..n -> Types] : n \in 0..MaxList}

(* A class's bases: itself, and those of the class it derives from.        *)
RECURSIVE BasesOf(_, _)
BasesOf(t, n) == IF t = NullType \/ n = 0 THEN {} ELSE {t} \cup BasesOf(base[t], n - 1)

IsSuperClass(Parent, Child) == Parent \in BasesOf(Child, MaxList + 1)

-----------------------------------------------------------------------------
(* The lists.  NullType is also what an operation on nothing gives.        *)
TypeCar(L) == IF L = <<>> THEN NullType ELSE Head(L)
TypeCdr(L) == IF Len(L) <= 1 THEN NullType ELSE Tail(L)

RECURSIVE TypeAt(_, _), IndexOf(_, _), TypeReverse(_), TypeErase(_, _),
          TypeEraseAll(_, _), TypeEraseDuplicates(_), TypeReplace(_, _, _),
          TypeReplaceAll(_, _, _)

TypeAt(L, N) == IF L = <<>> THEN NullType
                ELSE IF N = 0 THEN Head(L) ELSE TypeAt(Tail(L), N - 1)

IndexOf(L, T) ==
    IF L = <<>> THEN -1
    ELSE IF Head(L) = T THEN 0
    ELSE LET tmp == IndexOf(Tail(L), T) IN IF tmp = -1 THEN -1 ELSE 1 + tmp

TypeAppend(L1, L2) == IF L2 = NullType THEN L1 ELSE L1 \o L2

TypeReverse(L) == IF Len(L) <= 1 THEN L ELSE TypeAppend(TypeReverse(Tail(L)), <<Head(L)>>)

TypeErase(L, T) ==
    IF L = <<>> THEN <<>>
    ELSE IF Head(L) = T THEN Tail(L)
    ELSE TypeAppend(<<Head(L)>>, TypeErase(Tail(L), T))

TypeEraseAll(L, T) ==
    IF L = <<>> THEN <<>>
    ELSE IF Head(L) = T THEN TypeEraseAll(Tail(L), T)
    ELSE TypeAppend(<<Head(L)>>, TypeEraseAll(Tail(L), T))

TypeEraseDuplicates(L) ==
    IF L = <<>> THEN <<>>
    ELSE TypeAppend(<<Head(L)>>, TypeEraseDuplicates(TypeEraseAll(Tail(L), Head(L))))

TypeReplace(L, T, U) ==
    IF L = <<>> THEN <<>>
    ELSE IF Head(L) = T THEN <<U>> \o Tail(L)
    ELSE TypeAppend(<<Head(L)>>, TypeReplace(Tail(L), T, U))

TypeReplaceAll(L, T, U) ==
    IF L = <<>> THEN <<>>
    ELSE TypeAppend(<<IF Head(L) = T THEN U ELSE Head(L)>>, TypeReplaceAll(Tail(L), T, U))

-----------------------------------------------------------------------------
(* The order: the most derived class first, then that of the others.       *)
RECURSIVE MostDerivedHelper(_, _), TypePartialOrder(_)
MostDerivedHelper(L, T) ==
    IF L = <<>> THEN T
    ELSE LET Candidate == MostDerivedHelper(Tail(L), T)
         IN  IF IsSuperClass(Candidate, Head(L)) THEN Head(L) ELSE Candidate

MostDerivedType(L) == IF L = <<>> THEN NullType ELSE MostDerivedHelper(L, Head(L))

TypePartialOrder(L) ==
    IF L = <<>> THEN NullType
    ELSE LET TheMostDerived == MostDerivedType(L)
         IN  TypeAppend(<<TheMostDerived>>, TypePartialOrder(TypeEraseAll(L, TheMostDerived)))

-----------------------------------------------------------------------------
(* GenScatterHierarchy<L, Holder, N> derives from a class for the head,    *)
(* numbered N + 1, and one for the tail, numbered N + 2.  A class is known *)
(* by what it is made for and its number.                                  *)

LeftBase(L, N)  == [of |-> <<Head(L)>>, atom |-> TRUE, number |-> N + 1]
RightBase(L, N) == [of |-> Tail(L), atom |-> FALSE, number |-> N + 2]

RECURSIVE Scatter(_, _), FieldHelper(_, _, _), LinearField(_, _)
Scatter(L, N) ==
    IF L = <<>> THEN <<>>
    ELSE <<LeftBase(L, N), RightBase(L, N)>> \o Scatter(Tail(L), N + 2)

(* The base a Field<n> of a scattered hierarchy, or of a Tuple, stands for,*)
(* and the list at the base a Field<n> of a linear one stands for.         *)
FieldHelper(L, M, n) ==
    IF L = <<>> THEN NullType
    ELSE IF n = 0 THEN LeftBase(L, M) ELSE FieldHelper(Tail(L), M + 2, n - 1)

LinearField(L, n) ==
    IF L = <<>> THEN NullType ELSE IF n = 0 THEN L ELSE LinearField(Tail(L), n - 1)

(* ConcreteFactory: a linear hierarchy over the reversed products.  The    *)
(* unit at the root makes the abstract factory's first product, and each   *)
(* unit above it the first of those the unit below has left.               *)
RECURSIVE Overrides(_, _)
Overrides(units, ProductList) ==
    IF units = <<>> THEN {}
    ELSE {<<TypeCar(ProductList), Last(units)>>}
         \cup (IF Len(units) = 1 THEN {}
               ELSE Overrides(Front(units), TypeCdr(ProductList)))

ConcreteFactory(AbstractList, ProductList) == Overrides(TypeReverse(ProductList), AbstractList)

-----------------------------------------------------------------------------
(* StaticDoubleDispatcher of CPP/MultiDispatcher.hpp: the first type of    *)
(* each ordered list that an object's class converts to.                   *)
OnError == <<NullType, NullType>>

RECURSIVE dispatchRhs(_, _, _), dispatch(_, _, _, _)
dispatchRhs(concreteLhs, TypesRhs, rhs) ==
    IF TypesRhs = <<>> THEN OnError
    ELSE IF IsSuperClass(Head(TypesRhs), rhs) THEN <<concreteLhs, Head(TypesRhs)>>
    ELSE dispatchRhs(concreteLhs, Tail(TypesRhs), rhs)

dispatch(TypesLhs, TypesRhs, lhs, rhs) ==
    IF TypesLhs = <<>> THEN OnError
    ELSE IF IsSuperClass(Head(TypesLhs), lhs) THEN dispatchRhs(Head(TypesLhs), TypesRhs, rhs)
    ELSE dispatch(Tail(TypesLhs), TypesRhs, lhs, rhs)

StaticDoubleDispatcher(L, lhs, rhs) ==
    LET ordered == IF L = <<>> THEN <<>> ELSE TypePartialOrder(L)
    IN  dispatch(ordered, ordered, lhs, rhs)

-----------------------------------------------------------------------------
Init == /\ list \in Lists
        /\ from \in Types /\ to \in Types
        /\ base \in {b \in [Types -> Types \cup {NullType}] :
                        \A t \in Types : b[t] = NullType \/ b[t] < t}

(* Every operation gives what the same one on sequences does, duplicates   *)
(* and missing types included.                                             *)
ListsAreEdited ==
    LET at == {i \in 1..Len(list) : list[i] = from}
        first == CHOOSE i \in at : \A j \in at : i <= j
        others == SelectSeq(list, LAMBDA t : t # from)
    IN  /\ TypeReverse(list) = Reverse(list)
        /\ IndexOf(list, from) = IF at = {} THEN -1 ELSE first - 1
        /\ \A n \in 0..MaxList :
              TypeAt(list, n) = IF n < Len(list) THEN list[n + 1] ELSE NullType
        /\ TypeEraseAll(list, from) = others
        /\ TypeErase(list, from) = IF at = {} THEN list ELSE RemoveAt(list, first)
        /\ TypeReplace(list, from, to) = IF at = {} THEN list ELSE ReplaceAt(list, first, to)
        /\ TypeReplaceAll(list, from, to) = [i \in 1..Len(list) |-> IF i \in at THEN to ELSE list[i]]
        /\ LET once == TypeEraseDuplicates(list)
           IN  /\ ToSet(once) = ToSet(list)
               /\ \A i, j \in DOMAIN once : i < j =>
                     /\ once[i] # once[j]
                     /\ IndexOf(list, once[i]) < IndexOf(list, once[j])

(* An ordered list holds every type of the list once, and no class comes   *)
(* before one that derives from it, however distant.                       *)
DerivedComesFirst ==
    list # <<>> =>
        LET L == TypePartialOrder(list)
        IN  /\ ToSet(L) = ToSet(list)
            /\ \A i, j \in DOMAIN L : i < j => L[i] # L[j] /\ ~IsSuperClass(L[i], L[j])

(* However the list is written, an object is dispatched by the most derived *)
(* of the listed classes that it is of, and it is an error only when there *)
(* is none for one of the two.                                             *)
DispatchesToMostDerived ==
    LET Listed(t) == {c \in ToSet(list) : IsSuperClass(c, t)}
        Most(t) == CHOOSE c \in Listed(t) : \A d \in Listed(t) : IsSuperClass(d, c)
    IN  StaticDoubleDispatcher(list, from, to) =
          IF Listed(from) = {} \/ Listed(to) = {} THEN OnError ELSE <<Most(from), Most(to)>>

(* No two bases of a generated hierarchy are one class, even when a type   *)
(* is repeated, so that each conversion in Field is unambiguous; Field<n>  *)
(* is a base, and holds the n-th type.                                     *)
FieldsAreUnambiguous ==
    /\ IsInjective(Scatter(list, 0))
    /\ \A n \in 0..Len(list) - 1 :
          /\ FieldHelper(list, 0, n) \in ToSet(Scatter(list, 0))
          /\ FieldHelper(list, 0, n).of = <<list[n + 1]>>
          /\ Head(LinearField(list, n)) = list[n + 1]

(* A concrete factory makes, for each abstract product, the concrete one   *)
(* at its place in the list of products.                                   *)
FactoryMakesEach ==
    \A L \in {l \in Lists : Len(l) = Len(list) /\ IsInjective(l)} :
        ConcreteFactory(L, list) = {<<L[i], list[i]>> : i \in DOMAIN L}
=============================================================================
