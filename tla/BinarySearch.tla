------------------------------ MODULE BinarySearch ------------------------------
(***************************************************************************)
(* The five searches of BinarySearch.cpp, one round of a loop at a time.   *)
(* An iterator is an index from 0 on.  FindFirst may look at the place     *)
(* before the array, and Search and FindFirstGT at the place behind it:    *)
(* both hold anything.                                                     *)
(***************************************************************************)
EXTENDS Integers, Sequences

CONSTANTS Numbers,      \* the elements
          MaxLength     \* of the array

VARIABLES fn,           \* the function that runs
          n,            \* the length of the array
          mem,          \* the array at 0..n-1, and a place on each side
          val,          \* the value looked for
          begin, end,
          result        \* what was returned, n for end_; -2 before that

vars == <<fn, n, mem, val, begin, end, result>>

Running == -2
Functions == {"Search", "FindFirst", "FindLast", "FindFirstGT", "FindFirstGE"}
Shifted == {"FindFirst", "FindFirstGE"} \* they begin with begin--, end--

Init ==
  /\ fn \in Functions
  /\ n \in 1..MaxLength
  /\ mem \in [(-1)..n -> Numbers]
  /\ \A i \in 0..(n - 2) : mem[i] <= mem[i + 1]
  /\ val \in Numbers
  /\ begin = (IF fn \in Shifted THEN -1 ELSE 0)
  /\ end = (IF fn \in Shifted THEN n - 1 ELSE n)
  /\ result = Running

mid == begin + (end - begin) \div 2

\* Each search says which ends its round moves to mid.
SearchRound ==
  /\ fn = "Search"
  /\ IF mem[mid] = val THEN result' = mid /\ UNCHANGED <<begin, end>>
     ELSE /\ IF mem[mid] < val THEN begin' = mid + 1 /\ UNCHANGED end
                               ELSE end' = mid /\ UNCHANGED begin
          /\ UNCHANGED result

FindFirstRound ==
  /\ fn = "FindFirst" /\ UNCHANGED result
  /\ \/ mem[mid] = val /\ end' = mid /\ UNCHANGED begin
     \/ mem[mid] < val /\ begin' = mid /\ UNCHANGED end
     \/ mem[mid] > val /\ end' = mid - 1 /\ UNCHANGED begin

FindLastRound ==
  /\ fn = "FindLast" /\ UNCHANGED result
  /\ \/ mem[mid] = val /\ begin' = mid /\ UNCHANGED end
     \/ mem[mid] < val /\ begin' = mid + 1 /\ UNCHANGED end
     \/ mem[mid] > val /\ end' = mid /\ UNCHANGED begin

\* With two places left and the second one greater, end stays where it is.
FindFirstGTRound ==
  /\ fn = "FindFirstGT" /\ UNCHANGED result
  /\ IF mem[mid] <= val THEN begin' = mid + 1 /\ UNCHANGED end ELSE end' = mid + 1 /\ UNCHANGED begin

FindFirstGERound ==
  /\ fn = "FindFirstGE" /\ UNCHANGED result
  /\ IF mem[mid] >= val THEN end' = mid /\ UNCHANGED begin ELSE begin' = mid /\ UNCHANGED end

Round ==
  /\ result = Running /\ begin < end - 1
  /\ SearchRound \/ FindFirstRound \/ FindLastRound \/ FindFirstGTRound \/ FindFirstGERound
  /\ UNCHANGED <<fn, n, mem, val>>

\* The last line of each function.
Return ==
  /\ result = Running /\ begin >= end - 1
  /\ result' = CASE fn \in {"Search", "FindLast"} -> IF mem[begin] = val THEN begin ELSE n
                 [] fn = "FindFirst"              -> IF mem[end] = val THEN end ELSE n
                 [] fn = "FindFirstGT"            -> IF mem[begin] > val THEN begin ELSE n
                 [] fn = "FindFirstGE"            -> IF mem[end] >= val THEN end ELSE n
  /\ UNCHANGED <<fn, n, mem, val, begin, end>>

Next == Round \/ Return

Spec == Init /\ [][Next]_vars /\ WF_vars(Next)

-------------------------------------------------------------------------------
(* Properties *)

Wanted(i) ==    \* place i answers the question
  CASE fn \in {"Search", "FindFirst", "FindLast"} -> mem[i] = val
    [] fn = "FindFirstGT" -> mem[i] > val
    [] fn = "FindFirstGE" -> mem[i] >= val
Places == {i \in 0..(n - 1) : Wanted(i)}

\* What is returned is the first place, or the last, or any, that answers the
\* question; end_ if there is none; but FindFirst goes by the place before the
\* array when that happens to hold the value and all elements are greater.
ResultIsRight ==
  result # Running =>
    \/ Places = {} /\ result = n
    \/ /\ result \in Places
       /\ fn # "Search" => \A i \in Places : IF fn = "FindLast" THEN i <= result ELSE result <= i
    \/ fn = "FindFirst" /\ mem[-1] = val /\ result = -1 /\ \A i \in 0..(n - 1) : mem[i] > val

\* The other four searches end.  FindFirstGT need not, line 69: with two places left
\* and the second one greater its round changes nothing.  The program's own test
\* expects an answer there, at lines 109 to 112.
OthersEnd == fn # "FindFirstGT" => <>(result # Running)

\* The round of FindFirstGT that changes nothing.
Spins == fn = "FindFirstGT" /\ end = begin + 2 /\ mem[begin + 1] > val

\* A search that spins never returns.
NeverReturns == [](Spins => [](result = Running))
===============================================================================
