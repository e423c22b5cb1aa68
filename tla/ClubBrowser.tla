----------------------------- MODULE ClubBrowser -----------------------------
(***************************************************************************)
(* The list of clubs of the ClubHub (clubhub/browse_clubs.dart): loading,  *)
(* categories and the search bar.                                          *)
(*                                                                         *)
(* getActivities starts a task per club that reads the adviser, then the   *)
(* achievements, and then adds the club to the list of all clubs and to    *)
(* the list of each of its categories. An empty search clears the lists    *)
(* and calls it again; the tasks of the earlier call go on.                *)
(***************************************************************************)
EXTENDS PageData

Loads == 1..(MaxSearches + 1)
Documents == ExistingClubs \cup {School}
Tasks == Loads \X Documents

VARIABLES
  loads,          \* calls of getActivities so far
  listing,        \* the calls that wait for the list of documents
  task,           \* what the task of each call and club waits for
  activites,      \* the list of all clubs
  byCategory,     \* popularActivites, businessActivites, ...
  query,          \* the text of the search bar
  searches,       \* changes of it so far (bounded)
  isSearch,
  selectedIndex,
  overlap,        \* history: a call was made while another one was loading
  filtered        \* history: a search filtered since the lists were cleared

loadVars == <<loads, listing, task>>
listVars == <<activites, byCategory>>
vars == <<loadVars, listVars, query, searches, isSearch, selectedIndex, overlap, filtered>>

TypeOK ==
  /\ loads \in Loads /\ listing \subseteq Loads
  /\ task \in [Tasks -> {"none", "adviser", "achievements", "done"}]
  /\ activites \in Seq(ExistingClubs)
  /\ byCategory \in [Categories -> Seq(ExistingClubs)]
  /\ query \in Queries /\ searches \in 0..MaxSearches
  /\ isSearch \in BOOLEAN /\ selectedIndex \in Categories
  /\ overlap \in BOOLEAN /\ filtered \in BOOLEAN

Init ==
  /\ loads = 1 /\ listing = {1} /\ task = [t \in Tasks |-> "none"]
  /\ activites = <<>> /\ byCategory = [g \in Categories |-> <<>>]
  /\ query = Empty /\ searches = 0
  /\ isSearch = FALSE /\ selectedIndex = First
  /\ overlap = FALSE /\ filtered = FALSE

Loading == listing # {} \/ \E t \in Tasks : task[t] \in {"adviser", "achievements"}

-----------------------------------------------------------------------------
(* getActivities: the documents, and a task for each but the school's.     *)
GetActivities(n) ==
  /\ n \in listing
  /\ listing' = listing \ {n}
  /\ task' = [t \in Tasks |-> IF t[1] # n THEN task[t]
                              ELSE IF t[2] = School THEN "done" ELSE "adviser"]
  /\ UNCHANGED <<loads, listVars, query, searches, isSearch, selectedIndex, overlap, filtered>>

GetAdviser(t) ==
  /\ task[t] = "adviser"
  /\ task' = [task EXCEPT ![t] = "achievements"]
  /\ UNCHANGED <<loads, listing, listVars, query, searches, isSearch, selectedIndex,
                 overlap, filtered>>

GetAchievementsEverywhere(t) ==
  /\ task[t] = "achievements"
  /\ task' = [task EXCEPT ![t] = "done"]
  /\ activites' = Append(activites, t[2])
  /\ byCategory' = [g \in Categories |-> Append(byCategory[g], t[2])]
  /\ UNCHANGED <<loads, listing, query, searches, isSearch, selectedIndex, overlap, filtered>>

(* The club is added to the lists.                                         *)
GetAchievements(t) ==
  /\ task[t] = "achievements"
  /\ task' = [task EXCEPT ![t] = "done"]
  /\ activites' = Append(activites, t[2])
  /\ byCategory' = [g \in Categories |->
       IF g \in CategoryOf[t[2]] THEN Append(byCategory[g], t[2]) ELSE byCategory[g]]
  /\ UNCHANGED <<loads, listing, query, searches, isSearch, selectedIndex, overlap, filtered>>

-----------------------------------------------------------------------------
(* A press on the search bar shows the list of all clubs.                  *)
TapSearchBar ==
  /\ ~isSearch
  /\ isSearch' = TRUE
  /\ UNCHANGED <<loadVars, listVars, query, searches, selectedIndex, overlap, filtered>>

(* A change of the text: the list of all clubs is filtered, or every list  *)
(* is cleared and loaded.                                                  *)
searchActivity(q) ==
  /\ isSearch /\ q # query
  /\ searches < MaxSearches
  /\ searches' = searches + 1 /\ query' = q
  /\ IF q # Empty
       THEN /\ activites' = Kept(activites, ClubMatches[q])
            /\ filtered' = TRUE
            /\ UNCHANGED <<loadVars, byCategory, overlap>>
       ELSE /\ activites' = <<>> /\ byCategory' = [g \in Categories |-> <<>>]
            /\ filtered' = FALSE
            /\ loads' = loads + 1 /\ listing' = listing \cup {loads + 1}
            /\ overlap' = (overlap \/ Loading)
            /\ UNCHANGED task
  /\ UNCHANGED <<isSearch, selectedIndex>>

(* A category: the search bar is left and its text cleared. Clearing the   *)
(* controller does not call onChanged, so the lists stay as they are.      *)
TapCategory(g) ==
  /\ isSearch \/ selectedIndex # g
  /\ selectedIndex' = g
  /\ isSearch' = FALSE
  /\ query' = Empty
  /\ UNCHANGED <<loadVars, listVars, searches, overlap, filtered>>

ClubTask(t) == GetAdviser(t) \/ GetAchievements(t)

Next ==
  \/ \E n \in Loads : GetActivities(n)
  \/ \E t \in Tasks : ClubTask(t)
  \/ TapSearchBar
  \/ \E q \in Queries : searchActivity(q)
  \/ \E g \in Categories : TapCategory(g)

-----------------------------------------------------------------------------
(* The clubs on the page: the list of all of them while searching, else    *)
(* the list of the category.                                               *)
displayList == IF isSearch THEN activites ELSE byCategory[selectedIndex]

Times(c, q) == Cardinality({i \in 1..Len(q) : q[i] = c})

(* No club is shown twice as long as an empty search was never made while  *)
(* getActivities was loading.                                              *)
ShownOnceWithoutOverlap == ~overlap => OnlyOnce(displayList)

(* The lists are cleared, filled and reloaded together: as long as nothing *)
(* filtered the list of all clubs, a club is in each of its categories as  *)
(* often as in that list, and in no other category.                        *)
CategoriesAgree ==
  \A g \in Categories : \A c \in ExistingClubs :
    /\ g \notin CategoryOf[c] => Times(c, byCategory[g]) = 0
    /\ g \in CategoryOf[c] /\ ~filtered => Times(c, byCategory[g]) = Times(c, activites)

(* Whatever is searched for while it loads, every club is in the lists of  *)
(* its categories in the end, and in the list of all clubs unless a search *)
(* filtered that one; searches cannot go on for ever.                      *)
ListsComplete ==
  /\ \A c \in ExistingClubs : \A g \in CategoryOf[c] : c \in Elems(byCategory[g])
  /\ filtered \/ Elems(activites) = ExistingClubs
=============================================================================
