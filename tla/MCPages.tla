------------------------------- MODULE MCPages -------------------------------
(***************************************************************************)
(* An instance of Pages. The student or teacher has a club with two        *)
(* events and a club whose document is missing; the clubs of the parent's  *)
(* children are the robotics club, which both have joined and which has a  *)
(* meeting that was entered twice and another one of the same text, and    *)
(* the missing club. The document of a child is missing too. Events end    *)
(* together, after each other, and one while the page loads.               *)
(***************************************************************************)
EXTENDS Pages

CONSTANTS chess, robotics, ghost, nchs, math, art, eve, max, ann, bob, cyd

MCEvents == {"match", "final", "meet", "copy", "next", "lost", "rally", "trip"}
MCStart == [match |-> 0, final |-> 2, meet |-> 1, copy |-> 1, next |-> 2, lost |-> 3,
            rally |-> 0, trip |-> 0]
MCEnd == [match |-> 1, final |-> 4, meet |-> 2, copy |-> 2, next |-> 3, lost |-> 4,
          rally |-> 3, trip |-> 3]
MCText == [e \in Events |-> IF e \in {"copy", "next"} THEN "meet" ELSE e]
MCEventsOf == [c \in AllClubs |->
  CASE c = chess -> {"match", "final"}
    [] c = robotics -> {"meet", "copy", "next"}
    [] OTHER -> {"lost"}]
MCPeriod == [k \in Classes |-> IF k = math THEN 1 ELSE 2]
MCClubsOf == [k \in Children |-> IF k = eve THEN {robotics, ghost} ELSE {robotics}]

\* A club in two categories and one in none; texts that match all, one and
\* none; the student's clock two messages ahead.
MCCategoryOf == [c \in ExistingClubs |-> IF c = chess THEN {"Popular", "Business"} ELSE {}]
MCClubMatches == [q \in Queries |-> CASE q = "ti" -> {chess} [] q = "tix" -> {}
                                      [] OTHER -> ExistingClubs]
MCCatalog == <<"shirt", "ticket">>
MCItemMatches == [q \in Queries |-> CASE q = "ti" -> {"ticket"} [] q = "tix" -> {}
                                      [] OTHER -> Items]
MCSkew == [student |-> 2, teacher |-> 0]
MCVisits == {[searches |-> 3, dialogs |-> 1, presses |-> 1],
             [searches |-> 1, dialogs |-> 2, presses |-> 2]}
MCSearching == {[searches |-> 2, dialogs |-> 0, presses |-> 0]}
=============================================================================
