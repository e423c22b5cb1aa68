----------------------------- MODULE MCClubJoin -----------------------------
(***************************************************************************)
(* Instances of ClubJoin for TLC. A press of Join is a triple of a         *)
(* student, a club and a number that tells presses of one student apart.   *)
(***************************************************************************)
EXTENDS ClubJoin

CONSTANTS ann, bob, chess, robotics

MCStudentOf == [t \in Taps |-> t[1]]
MCClubOf == [t \in Taps |-> t[2]]

(* Ann may press twice, Bob once, for the same club: a press can overlap   *)
(* one of the same student and one of another.                             *)
SharedClub == {<<ann, chess, 1>>, <<ann, chess, 2>>, <<bob, chess, 1>>}
(* Bob also presses for a club that has no document under its name.        *)
WithMissing == SharedClub \cup {<<bob, robotics, 1>>}

OnceEach == {<<ann, chess, 1>>, <<bob, chess, 1>>}

NobodyEnrolled == [s \in Students |-> {}]
ThreeMembers == [c \in Clubs |-> IF c \in Documents THEN 3 ELSE 0]

(* The cards each opens: one, or two by Ann, who comes back to them.       *)
OneCard == [s \in Students |-> 1]
AnnTwice == [s \in Students |-> IF s = ann THEN 2 ELSE 1]
=============================================================================
