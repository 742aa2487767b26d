------------------------------- MODULE Judge -------------------------------
(***************************************************************************)
(* Who wins a round of Networks/ScissorPaperRock (Round.cpp, User.cpp): the*)
(* casts of one round, its verdicts and the scores.  RoundGame has the     *)
(* rounds, users and messages and counts casts only; here they are told    *)
(* apart.                                                                  *)
(*                                                                         *)
(* The round counts gestures, the users keep theirs.  A user who casts     *)
(* twice is counted twice, one who leaves stays counted, and a verdict     *)
(* comes when there are as many casts as users: it may then meet a user    *)
(* who has not cast in this game, whose gesture_ is that of an earlier one,*)
(* or was never set.                                                       *)
(***************************************************************************)
EXTENDS Integers, FiniteSets

CONSTANTS Players,
          MaxCasts      \* bound: the casts of a game

VARIABLES users_, gesture_,
          gain,         \* what the last step added to each score_
          count,        \* scissorCnt, paperCnt, rockCnt
          told,         \* the users to whom the last step gave a verdict
          regular,      \* history: in this game nobody has cast twice, or left
                        \* or come after a cast
          cast          \* history: the last gesture cast by each in this game

vars == <<users_, gesture_, gain, count, told, regular, cast>>

Gestures == {"scissor", "paper", "rock"}
Nothing == "nothing"
NoGain == [p \in Players |-> 0]
NoCast == [p \in Players |-> Nothing]
NoCount == [g \in Gestures |-> 0]

Init ==
  /\ users_ = {} /\ gesture_ = NoCast
  /\ gain = NoGain
  /\ count = NoCount
  /\ told = {}
  /\ regular = TRUE /\ cast = NoCast

Casts(c) == c["scissor"] + c["paper"] + c["rock"]
Shown(c) == {g \in Gestures : c[g] > 0}

\* What each gesture gets: nothing is said of one that has not been shown.
Results(scissor, paper, rock) ==
  [g \in Gestures |-> IF g = "scissor" THEN scissor ELSE IF g = "paper" THEN paper ELSE rock]
gesture2result(c) ==
  CASE Shown(c) = {"scissor", "paper"} -> Results("Win", "Lose", "")
    [] Shown(c) = {"scissor", "rock"}  -> Results("Lose", "", "Win")
    [] Shown(c) = {"paper", "rock"}    -> Results("", "Win", "Lose")
    [] OTHER -> Results("Even", "Even", "Even")

\* judge(), with the users and counts it meets; a gesture_ that was never set
\* may be any word.
judge(U, gesture, c, isRegular, casting) ==
  IF Cardinality(U) <= 1 \/ Casts(c) < Cardinality(U)
  THEN /\ count' = IF U = {} THEN NoCount ELSE c
       /\ regular' = (isRegular \/ U = {})
       /\ cast' = IF U = {} THEN NoCast ELSE casting
       /\ told' = {} /\ gain' = NoGain
  ELSE /\ \E shown \in [U -> Gestures \cup {Nothing}] :
             /\ \A p \in U : gesture[p] # Nothing => shown[p] = gesture[p]
             /\ LET answer(p) == IF p \notin U \/ shown[p] = Nothing THEN ""
                                 ELSE gesture2result(c)[shown[p]]
                IN gain' = [p \in Players |-> CASE answer(p) = "Win" -> 1
                                                [] answer(p) = "Lose" -> -1
                                                [] OTHER -> 0]
       /\ told' = U /\ count' = NoCount /\ regular' = TRUE /\ cast' = NoCast

joinUser(p) ==
  /\ p \notin users_
  /\ users_' = users_ \cup {p}
  /\ regular' = (regular /\ Casts(count) = 0) /\ told' = {} /\ gain' = NoGain
  /\ UNCHANGED <<gesture_, count, cast>>

\* Those who stay may be judged, with the casts of the one who left; the last
\* one deletes the round.
quitUser(p) ==
  /\ p \in users_
  /\ users_' = users_ \ {p}
  /\ judge(users_', gesture_, count, regular /\ cast[p] = Nothing, [cast EXCEPT ![p] = Nothing])
  /\ UNCHANGED gesture_

registerGesture(p, g) ==
  /\ p \in users_ /\ Casts(count) < MaxCasts
  /\ gesture_' = [gesture_ EXCEPT ![p] = g]
  /\ judge(users_, gesture_', [count EXCEPT ![g] = @ + 1],
           regular /\ cast[p] = Nothing, [cast EXCEPT ![p] = g])
  /\ UNCHANGED users_

timeout ==
  /\ users_ # {}
  /\ count' = NoCount /\ told' = {} /\ gain' = NoGain /\ regular' = TRUE /\ cast' = NoCast
  /\ UNCHANGED <<users_, gesture_>>

Next == \/ \E p \in Players : joinUser(p) \/ quitUser(p) \/ \E g \in Gestures : registerGesture(p, g)
        \/ timeout

-----------------------------------------------------------------------------
(* Properties *)

Beats == {<<"scissor", "paper">>, <<"paper", "rock">>, <<"rock", "scissor">>}

\* A game in which everybody has cast once and nobody has come or gone is judged
\* by its last cast, and by the rules: with two gestures shown the one that beats
\* the other wins a point and the other loses one; otherwise no score moves.
RegularIsFair ==
  [][\A p \in Players, g \in Gestures :
       registerGesture(p, g) /\ regular /\ cast[p] = Nothing =>
         LET last == [cast EXCEPT ![p] = g]
             shown == {last[q] : q \in users_}
             wins(q) == \E h \in shown : shown = {last[q], h} /\ <<last[q], h>> \in Beats
             loses(q) == \E h \in shown : shown = {last[q], h} /\ <<h, last[q]>> \in Beats
         IN /\ told' # {} <=> Cardinality(users_) > 1 /\ Nothing \notin shown
            /\ told' # {} =>
                 \A q \in users_ : gain'[q] =
                    (IF wins(q) THEN 1 ELSE 0) - (IF loses(q) THEN 1 ELSE 0)]_vars

\* Whatever the game, those whose score rises and those whose score falls hold
\* gestures of which the first beats the second.
VerdictIsConsistent ==
  \A p, q \in told : gain[p] = 1 /\ gain[q] = -1 /\ {gesture_[p], gesture_[q]} \subseteq Gestures
                       => <<gesture_[p], gesture_[q]>> \in Beats
=============================================================================
