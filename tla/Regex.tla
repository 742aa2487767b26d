---------------------------------- MODULE Regex ----------------------------------
(***************************************************************************)
(* PL/Regex: the parser, the engine that takes derivatives of the syntax   *)
(* tree, and the engine that walks an NFA.  Strings are sequences of       *)
(* characters; a tree is a record with its class in t.  Groups are numbers *)
(* the parser gives out; which group a match is filed under is left out.   *)
(***************************************************************************)
EXTENDS Integers, Sequences, SequencesExt, FiniteSets, FiniteSetsExt, TLC

Empty     == [t |-> "Empty"]
Null      == [t |-> "Null"]
Char(c)   == [t |-> "Char", ch |-> c]
Alt(l, r) == [t |-> "Alt", left |-> l, right |-> r]
Seq2(f, l) == [t |-> "Seq", first |-> f, last |-> l]
Rep(re)   == [t |-> "Rep", re |-> re]
Group(re) == [t |-> "Group", re |-> re]

-------------------------------------------------------------------------------
(* Derivative.hpp and DerivativeEngine.hpp *)

RECURSIVE containNull(_), drv(_, _), drvLastLost(_, _), searchHelper(_, _, _)

containNull(re) ==
  CASE re.t \in {"Empty", "Char"} -> FALSE
    [] re.t \in {"Null", "Rep"}   -> TRUE
    [] re.t = "Alt"   -> containNull(re.left) \/ containNull(re.right)
    [] re.t = "Seq"   -> containNull(re.first) /\ containNull(re.last)
    [] re.t = "Group" -> containNull(re.re)

\* Mutant: the last part of a sequence is not tried when the first may be empty.
drvLastLost(re, c) ==
  CASE re.t \in {"Empty", "Null"} -> Empty
    [] re.t = "Char"  -> IF re.ch \in {c, "."} THEN Null ELSE Empty
    [] re.t = "Alt"   -> Alt(drvLastLost(re.left, c), drvLastLost(re.right, c))
    [] re.t = "Seq"   -> Seq2(drvLastLost(re.first, c), re.last)
    [] re.t = "Rep"   -> Seq2(drvLastLost(re.re, c), re)
    [] re.t = "Group" -> drvLastLost(re.re, c)

\* The tree of what may follow after c.
drv(re, c) ==
  CASE re.t \in {"Empty", "Null"} -> Empty
    [] re.t = "Char"  -> IF re.ch \in {c, "."} THEN Null ELSE Empty
    [] re.t = "Alt"   -> Alt(drv(re.left, c), drv(re.right, c))
    [] re.t = "Seq"   -> LET f == Seq2(drv(re.first, c), re.last)
                         IN IF containNull(re.first) THEN Alt(f, drv(re.last, c)) ELSE f
    [] re.t = "Rep"   -> Seq2(drv(re.re, c), re)
    [] re.t = "Group" -> drv(re.re, c)

DerivativeMatch(re, str) == containNull(FoldLeft(drv, re, str))

\* The end of the longest match that starts where the search started, or 0.
searchHelper(re, str, id) ==
  LET result == IF containNull(re) THEN id ELSE 0
      later == IF id >= Len(str) THEN 0 ELSE searchHelper(drv(re, str[id + 1]), str, id + 1)
  IN IF result < later THEN later ELSE result

search(re, str) ==
  LET found == {i \in 0..(Len(str) - 1) : searchHelper(re, str, i) > i}
  IN IF found = {} THEN <<>> ELSE SubSeq(str, Min(found) + 1, searchHelper(re, str, Min(found)))

-------------------------------------------------------------------------------
(* NFA.hpp and NFAEngine.hpp: nodes are numbers, n of them so far; an edge is *)
(* <<from, character, to>>, with epsilon for 0.                               *)

epsilon == "eps"

RepNode(a) ==
  [start |-> a.n + 1, end |-> a.n + 1, n |-> a.n + 1,
   edges |-> a.edges \cup {<<a.n + 1, epsilon, a.start>>, <<a.end, epsilon, a.n + 1>>}]

\* NFAConstructor.  The parser makes no Empty.
RECURSIVE construct(_, _)
construct(re, n) ==
  CASE re.t = "Null"  -> [start |-> n + 1, end |-> n + 1, n |-> n + 1, edges |-> {}]
    [] re.t = "Char"  -> [start |-> n + 1, end |-> n + 2, n |-> n + 2, edges |-> {<<n + 1, re.ch, n + 2>>}]
    [] re.t = "Alt"   ->
         LET l == construct(re.left, n)
             r == construct(re.right, l.n)
         IN [start |-> r.n + 1, end |-> r.n + 2, n |-> r.n + 2,
             edges |-> l.edges \cup r.edges \cup
               {<<r.n + 1, epsilon, l.start>>, <<r.n + 1, epsilon, r.start>>,
                <<l.end, epsilon, r.n + 2>>, <<r.end, epsilon, r.n + 2>>}]
    [] re.t = "Seq"   ->
         LET f == construct(re.first, n)
             l == construct(re.last, f.n)
         IN [start |-> f.start, end |-> l.end, n |-> l.n,
             edges |-> f.edges \cup l.edges \cup {<<f.end, epsilon, l.start>>}]
    [] re.t = "Rep"   -> RepNode(construct(re.re, n))
    [] re.t = "Group" -> construct(re.re, n)

Along(nfa, nodes, c) == {e[3] : e \in {e \in nfa.edges : e[1] \in nodes /\ e[2] = c}}

RECURSIVE addEpsilon(_, _)
addEpsilon(nfa, nodes) ==
  LET more == nodes \cup Along(nfa, nodes, epsilon)
  IN IF more = nodes THEN nodes ELSE addEpsilon(nfa, more)

NFAMatch(re, str) ==
  LET nfa == construct(Group(re), 0)
      step(nodes, c) == addEpsilon(nfa, Along(nfa, nodes, ".") \cup Along(nfa, nodes, c))
  IN nfa.end \in FoldLeft(step, addEpsilon(nfa, {nfa.start}), str)

-------------------------------------------------------------------------------
(* Parser.cpp.  A parsing function takes the pattern and the place of iter, and *)
(* gives the tree and the place after it; Abort where the program aborts.       *)

Abort == [re |-> Empty, at |-> 0]
End == "end"            \* what *iter is behind the last character
At(p, i) == IF i <= Len(p) THEN p[i] ELSE End
Digits == "0" :> 0 @@ "1" :> 1 @@ "2" :> 2 @@ "3" :> 3

\* The loop of num(): the digits are added up, whatever their place.
RECURSIVE num(_, _, _)
num(p, i, sum) == IF At(p, i) \in DOMAIN Digits THEN num(p, i + 1, sum + Digits[p[i]]) ELSE [val |-> sum, at |-> i]

\* {n} or {n,m}, or at = 0; blanks are left out.
NoRange == [from |-> 0, to |-> 0, at |-> 0]
RangeTo(p, a, b) == IF At(p, b.at) = "}" THEN [from |-> a.val, to |-> b.val, at |-> b.at + 1] ELSE NoRange
RangeFrom(p, a) ==
  CASE At(p, a.at) = "}" -> [from |-> a.val, to |-> a.val, at |-> a.at + 1]
    [] At(p, a.at) = "," /\ At(p, a.at + 1) \in DOMAIN Digits -> RangeTo(p, a, num(p, a.at + 1, 0))
    [] OTHER -> NoRange
range(p, i) == IF At(p, i + 1) \in DOMAIN Digits THEN RangeFrom(p, num(p, i + 1, 0)) ELSE NoRange

RECURSIVE Power(_, _), Between(_, _, _)
Power(re, n) == IF n = 0 THEN Null ELSE Seq2(re, Power(re, n - 1))
Between(re, lo, hi) == IF lo = hi THEN Power(re, hi) ELSE Alt(Power(re, lo), Between(re, lo + 1, hi))

charSet(p, i) ==
  LET close == {j \in (i + 1)..Len(p) : p[j] = "]"} IN
  IF close = {} \/ Min(close) = i + 1 THEN Abort
  ELSE LET cs == SubSeq(p, i + 1, Min(close) - 1)
       IN [re |-> FoldRight(LAMBDA c, re : Alt(Char(c), re), Front(cs), Char(cs[Len(cs)])), at |-> Min(close) + 1]

RECURSIVE regex(_, _), seq(_, _), factor(_, _), ops(_, _, _), capturedRe(_, _)

\* The operators behind a factor, which is re and ends before i.
ops(p, re, i) ==
  CASE At(p, i) = "*" -> ops(p, Rep(re), i + 1)
    [] At(p, i) = "+" -> ops(p, Seq2(re, Rep(re)), i + 1)
    [] At(p, i) = "?" -> ops(p, Alt(Null, re), i + 1)
    [] At(p, i) = "{" ->
         LET r == range(p, i)
             lo == IF r.from < r.to THEN r.from ELSE r.to
             hi == IF r.from < r.to THEN r.to ELSE r.from
         IN IF r.at = 0 THEN Abort ELSE ops(p, Between(re, lo, hi), r.at)
    [] OTHER -> [re |-> re, at |-> i]

Captured(p, plain, r) ==
  IF r = Abort \/ At(p, r.at) # ")" THEN Abort
  ELSE [re |-> IF plain THEN r.re ELSE Group(r.re), at |-> r.at + 1]

capturedRe(p, i) ==
  LET plain == At(p, i + 1) = "?" /\ At(p, i + 2) = ":"
  IN Captured(p, plain, regex(p, IF plain THEN i + 3 ELSE i + 1))

Operated(p, r) == IF r = Abort THEN Abort ELSE ops(p, r.re, r.at)

factor(p, i) ==
  Operated(p, CASE At(p, i) = "(" -> capturedRe(p, i)
                [] At(p, i) = "[" -> charSet(p, i)
                [] At(p, i) \in {"*", "+", "?", "{"} -> Abort
                [] OTHER -> [re |-> Char(At(p, i)), at |-> i + 1])

Both(Tree(_, _), l, r) == IF r = Abort THEN Abort ELSE [re |-> Tree(l.re, r.re), at |-> r.at]

SeqAfter(p, f) ==
  IF f = Abort \/ At(p, f.at) \in {End, "|", ")"} THEN f ELSE Both(Seq2, f, seq(p, f.at))

seq(p, i) == SeqAfter(p, factor(p, i))

\* It ends at a ")" that nothing opened, too, and the rest is not looked at.
RegexAfter(p, l) ==
  IF l = Abort \/ At(p, l.at) \in {End, ")"} THEN l
  ELSE Both(Alt, l, IF At(p, l.at + 1) = "|" THEN Abort ELSE regex(p, l.at + 1))

regex(p, i) == IF At(p, i) \in {End, "|"} THEN Abort ELSE RegexAfter(p, seq(p, i))

parse(p) == IF p = <<>> THEN [re |-> Null, at |-> 1] ELSE regex(p, 1)

-------------------------------------------------------------------------------
(* What they should compute.  Words is a set of strings closed under their *)
(* parts.                                                                  *)

\* The strings of Words that a tree stands for.
RECURSIVE Language(_, _)
Language(re, Words) ==
  CASE re.t = "Empty" -> {}
    [] re.t = "Null"  -> {<<>>}
    [] re.t = "Char"  -> {w \in Words : Len(w) = 1 /\ re.ch \in {w[1], "."}}
    [] re.t = "Alt"   -> Language(re.left, Words) \cup Language(re.right, Words)
    [] re.t = "Seq"   -> LET F == Language(re.first, Words)
                             L == Language(re.last, Words)
                         IN {w \in Words : \E i \in 0..Len(w) : SubSeq(w, 1, i) \in F /\ SubSeq(w, i + 1, Len(w)) \in L}
    [] re.t = "Rep"   -> LET L == Language(re.re, Words)
                             all[w \in Words] ==
                               w = <<>> \/ \E i \in 1..Len(w) : SubSeq(w, 1, i) \in L /\ all[SubSeq(w, i + 1, Len(w))]
                         IN {w \in Words : all[w]}
    [] re.t = "Group" -> Language(re.re, Words)

\* Both engines say of each string whether the tree stands for it.
EnginesAgree(re, Words) ==
  LET L == Language(re, Words) IN
  \A w \in Words : (DerivativeMatch(re, w) <=> w \in L) /\ (NFAMatch(re, w) <=> w \in L)

\* search() finds the longest of the leftmost matches that are not empty.
SearchIsLeftmost(re, Words) ==
  LET L == Language(re, Words) IN
  \A w \in Words :
    LET hits == {<<i, j>> \in (1..Len(w)) \X (1..Len(w)) : i <= j /\ SubSeq(w, i, j) \in L}
        first == Min({h[1] : h \in hits})
    IN search(re, w) = IF hits = {} THEN <<>> ELSE SubSeq(w, first, Max({h[2] : h \in {g \in hits : g[1] = first}}))

\* The strings of Words a pattern stands for by the grammar of Parser.hpp: the
\* union over the ways to take it apart.  A character is one that is not special.
Special == {"*", "+", "?", "{", "}", ",", "(", ")", "[", "]", "|", ":"}
RECURSIVE Trees(_, _)
Trees(kind, p) ==
  LET n == Len(p)
      Pre(i) == SubSeq(p, 1, i)
      Post(i) == SubSeq(p, i + 1, n)
  IN CASE kind = "Regex"  -> Trees("Seq", p) \cup
            UNION {{Alt(l, r) : l \in Trees("Seq", Pre(i - 1)), r \in Trees("Regex", Post(i))} : i \in {j \in 1..n : p[j] = "|"}}
       [] kind = "Seq"    -> Trees("Factor", p) \cup
            UNION {{Seq2(f, l) : f \in Trees("Factor", Pre(i)), l \in Trees("Seq", Post(i))} : i \in 1..(n - 1)}
       [] kind = "Factor" ->
            IF n = 0 THEN {}
            ELSE IF n = 1 THEN IF p[1] \in Special THEN {} ELSE {Char(p[1])}
            ELSE CASE p[n] = "*" -> {Rep(re) : re \in Trees("Factor", Pre(n - 1))}
                   [] p[n] = "+" -> {Seq2(re, Rep(re)) : re \in Trees("Factor", Pre(n - 1))}
                   [] p[n] = "?" -> {Alt(Null, re) : re \in Trees("Factor", Pre(n - 1))}
                   [] p[n] = ")" /\ p[1] = "(" ->
                        {Group(re) : re \in Trees("Regex", SubSeq(p, 2, n - 1))} \cup
                        IF n > 4 /\ p[2] = "?" /\ p[3] = ":" THEN Trees("Regex", SubSeq(p, 4, n - 1)) ELSE {}
                   [] OTHER -> {}

\* A ")" where a factor should start is a character to the parser.
OddClose(p) == \E i \in DOMAIN p : p[i] = ")" /\ (i = 1 \/ p[i - 1] \in {"(", "|", ":"})

\* A pattern of characters, groups, alternatives and repetitions is parsed as
\* the grammar says, and what the grammar does not allow aborts the program,
\* except that the rest behind a ")" too many is ignored.
ParsesByGrammar(p) ==
  \A r \in {parse(p)} :
    CASE p = <<>>    -> r.re = Null
      [] OddClose(p) -> TRUE
      [] r # Abort /\ r.at <= Len(p) ->
           p[r.at] = ")" /\ Trees("Regex", SubSeq(p, 1, r.at - 1)) = {r.re}
      [] OTHER -> Trees("Regex", p) = IF r = Abort THEN {} ELSE {r.re}
===============================================================================
