---------------------------- MODULE LifetimeTracker ----------------------------
(***************************************************************************)
(* LifetimeTracker: objects to be destroyed at the end of the program, in  *)
(* an array with ascending longevity, and for each a function registered   *)
(* with atexit().  Such a function destroys the last object of the array,  *)
(* not the one it was registered for.                                      *)
(***************************************************************************)
EXTENDS Integers, Sequences, SequencesExt, FiniteSets

CONSTANTS Longevities,  \* numbers
          MaxTracked    \* bound on the calls of setLongevity()

VARIABLES pTrackerArray,\* the objects, each with its longevity
          pending,      \* external: the atexit() functions not yet called
          exiting,
          tracked,      \* history: the number of objects so far
          destroyed     \* history: the objects destroyed, in order

vars == <<pTrackerArray, pending, exiting, tracked, destroyed>>

elements == Len(pTrackerArray)

Init ==
  /\ pTrackerArray = <<>> /\ pending = 0 /\ exiting = FALSE
  /\ tracked = 0 /\ destroyed = <<>>

\* Where std::upper_bound() puts an object: before all with a larger longevity.
Inserted(array, obj) ==
  LET larger == {i \in DOMAIN array : array[i].longevity > obj.longevity}
  IN InsertAt(array, Len(array) + 1 - Cardinality(larger), obj)

setLongevity(longevity) ==
  /\ ~exiting /\ tracked < MaxTracked
  /\ pTrackerArray' = Inserted(pTrackerArray, [id |-> tracked, longevity |-> longevity])
  /\ pending' = pending + 1
  /\ tracked' = tracked + 1
  /\ UNCHANGED <<exiting, destroyed>>

exit == ~exiting /\ exiting' = TRUE /\ UNCHANGED <<pTrackerArray, pending, tracked, destroyed>>

\* atExitFn().  The object leaves the array first, and then its destroyer runs,
\* which may use another tracked object for the first time.
atExitFn ==
  LET top == Last(pTrackerArray)
      rest == SubSeq(pTrackerArray, 1, elements - 1)
  IN
  /\ exiting /\ pending > 0
  /\ destroyed' = Append(destroyed, top)
  /\ UNCHANGED exiting
  /\ \/ pTrackerArray' = rest /\ pending' = pending - 1 /\ UNCHANGED tracked
     \/ /\ tracked < MaxTracked
        /\ \E l \in Longevities :
             pTrackerArray' = Inserted(rest, [id |-> tracked, longevity |-> l])
        /\ pending' = pending /\ tracked' = tracked + 1

Next == exit \/ atExitFn \/ \E l \in Longevities : setLongevity(l)

-------------------------------------------------------------------------------
(* Properties *)

\* The assertion of atExitFn() holds, and each object is destroyed once: there
\* are as many functions to be called as objects in the array.
OneCallEach ==
  /\ pending = elements
  /\ {o.id : o \in ToSet(pTrackerArray) \cup ToSet(destroyed)} = 0..(tracked - 1)
  /\ elements + Len(destroyed) = tracked

\* The object destroyed has the largest longevity of those there are, and among
\* equals it is the youngest.
LongestFirst ==
  [][destroyed' # destroyed =>
       \A o \in ToSet(pTrackerArray) :
         LET top == Last(destroyed')
         IN o.longevity < top.longevity \/ (o.longevity = top.longevity /\ o.id <= top.id)]_vars
===============================================================================
