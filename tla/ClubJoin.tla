------------------------------ MODULE ClubJoin ------------------------------
(***************************************************************************)
(* Joining a club from the ClubHub: the club cards of BrowseClubs          *)
(* (clubhub/browse_clubs.dart) and the page of one club, ClubInfo          *)
(* (clubhub/club_info.dart), for any number of students who share one      *)
(* Firestore database.                                                     *)
(*                                                                         *)
(* A Dart handler runs without interruption between two awaits, so each    *)
(* segment of a handler is one action and every await is a place where     *)
(* other handlers, of the same student or of another one, interleave.      *)
(* A Firestore write takes effect at one moment between the call and its   *)
(* completion; a write that was issued survives the death of the app (the  *)
(* mobile client queues it on disk), the rest of the handler does not.     *)
(* A student's own queued writes are visible to that student's reads at    *)
(* once, and only that student reads students/<s>/activities here, so the  *)
(* set of the first segment takes effect when it is issued.                *)
(***************************************************************************)
EXTENDS Integers, Sequences, FiniteSets

CONSTANTS
  Students,     \* the signed-in students, one device each
  Clubs,        \* the clubs on the cards, by the id made of their name
  Documents,    \* those with a document of that id in activities
  Taps,         \* the presses of a Join button that may happen (bounds them)
  StudentOf,    \* who makes the press
  ClubOf,       \* and for which club
  Enrolled,     \* students/<s>/activities when the model starts
  InitMembers,  \* activities/<c>.members when the model starts
  Remind,       \* the clubs that have a Remind code
  MaxOpens      \* bound: the cards each student opens

ASSUME TapAssumption ==
  /\ IsFiniteSet(Taps)
  /\ StudentOf \in [Taps -> Students]
  /\ ClubOf \in [Taps -> Clubs]

ASSUME DataAssumption ==
  /\ Enrolled \in [Students -> SUBSET Clubs]
  /\ Documents \subseteq Clubs
  /\ InitMembers \in [Clubs -> Nat]
  /\ \A c \in Clubs \ Documents : InitMembers[c] = 0
  /\ MaxOpens \in [Students -> Nat]

VARIABLES
  activities,   \* students/<s>/activities: the clubs of each student
  members,      \* the members field of activities/<c>
  opens,        \* how many cards each student has opened (bounded)
  loading,      \* card handlers that wait for the student's activities
  stack,        \* the Navigator's routes of each student, last one on top
  pc,           \* where the handler of each Join press is
  read,         \* its local variable members
  route,        \* the position on the stack of its page, 0 once popped
  overlap       \* history: a club was read while another press held a read

store == <<activities, members>>
vars == <<activities, members, opens, loading, stack, pc, read, route, overlap>>

(* The routes a student meets in the ClubHub.                              *)
Browse == [kind |-> "browse"]
Info(c, joined) == [kind |-> "info", club |-> c, joined |-> joined]
RemindDialog(c) == [kind |-> "remind", club |-> c]
WebView == [kind |-> "web"]

Route == {Browse, WebView} \cup {Info(c, j) : c \in Clubs, j \in BOOLEAN}
                           \cup {RemindDialog(c) : c \in Clubs}

Top(s) == stack[s][Len(stack[s])]
Push(s, r) == stack' = [stack EXCEPT ![s] = Append(@, r)]

(* A card handler: its number, its club and the position on the stack of   *)
(* the page whose context it will push with, 0 once that page is popped.   *)
Card == [id : Nat, club : Clubs, route : Nat]

(* Where a Join handler is: waiting for the set, waiting for the get and   *)
(* then the update, about to push; "queued" is an issued update whose app  *)
(* died, "killed" a handler that died before it issued the update,         *)
(* "failed" one whose update found no document.                            *)
PC == {"free", "set", "update", "queued", "show", "done", "killed", "failed"}

(* The presses whose increment has been written to the club's document.    *)
Counted(c) == {t \in Taps : ClubOf[t] = c /\ pc[t] \in {"show", "done"}}

(* The presses that have read the number of members and not yet written.   *)
Holding(c) == {t \in Taps : ClubOf[t] = c /\ pc[t] \in {"update", "queued"}}

TypeOK ==
  /\ activities \in [Students -> SUBSET Clubs]
  /\ members \in [Clubs -> Nat]
  /\ opens \in [Students -> Nat]
  /\ loading \in [Students -> SUBSET Card]
  /\ stack \in [Students -> Seq(Route) \ {<<>>}]
  /\ pc \in [Taps -> PC]
  /\ read \in [Taps -> Nat]
  /\ route \in [Taps -> Nat]
  /\ overlap \in [Clubs -> BOOLEAN]

Init ==
  /\ activities = Enrolled
  /\ members = InitMembers
  /\ opens = [s \in Students |-> 0]
  /\ loading = [s \in Students |-> {}]
  /\ stack = [s \in Students |-> <<Browse>>]
  /\ pc = [t \in Taps |-> "free"]
  /\ read = [t \in Taps |-> 0]
  /\ route = [t \in Taps |-> 0]
  /\ overlap = [c \in Clubs |-> FALSE]

-----------------------------------------------------------------------------
(* buildClubCard.onPressed up to its await: ask for the student's          *)
(* activities.                                                             *)
TapCard(s, c) ==
  /\ Top(s) = Browse
  /\ opens[s] < MaxOpens[s]
  /\ opens' = [opens EXCEPT ![s] = @ + 1]
  /\ loading' = [loading EXCEPT ![s] =
       @ \cup {[id |-> opens[s] + 1, club |-> c, route |-> Len(stack[s])]}]
  /\ UNCHANGED <<store, stack, pc, read, route, overlap>>

CardLoadedOfAnyone(s, h) ==
  /\ h \in loading[s]
  /\ loading' = [loading EXCEPT ![s] = @ \ {h}]
  /\ IF h.route = 0
       THEN UNCHANGED stack
       ELSE Push(s, Info(h.club, \E r \in Students : h.club \in activities[r]))
  /\ UNCHANGED <<store, opens, pc, read, route, overlap>>

(* The rest of that handler: joined is worked out from the answer and      *)
(* frozen in the page that is pushed; when the page of the card is gone    *)
(* its context is dead and the push throws.                                *)
CardLoaded(s, h) ==
  /\ h \in loading[s]
  /\ loading' = [loading EXCEPT ![s] = @ \ {h}]
  /\ IF h.route = 0
       THEN UNCHANGED stack
       ELSE Push(s, Info(h.club, h.club \in activities[s]))
  /\ UNCHANGED <<store, opens, pc, read, route, overlap>>

TapJoinUnrecorded(t) ==
  LET s == StudentOf[t]  c == ClubOf[t] IN
  /\ pc[t] = "free"
  /\ Top(s) = Info(c, FALSE)
  /\ pc' = [pc EXCEPT ![t] = "set"]
  /\ route' = [route EXCEPT ![t] = Len(stack[s])]
  /\ UNCHANGED <<store, opens, loading, stack, read, overlap>>

(* The Join button, shown when the page was opened with joined = false:    *)
(* the club is set in the student's activities.                            *)
TapJoin(t) ==
  LET s == StudentOf[t]  c == ClubOf[t] IN
  /\ pc[t] = "free"
  /\ Top(s) = Info(c, FALSE)
  /\ activities' = [activities EXCEPT ![s] = @ \cup {c}]
  /\ pc' = [pc EXCEPT ![t] = "set"]
  /\ route' = [route EXCEPT ![t] = Len(stack[s])]
  /\ UNCHANGED <<members, opens, loading, stack, read, overlap>>

ReadMembersFromCard(t) ==
  LET c == ClubOf[t] IN
  /\ pc[t] = "set"
  /\ read' = [read EXCEPT ![t] = InitMembers[c]]
  /\ pc' = [pc EXCEPT ![t] = "update"]
  /\ overlap' = [overlap EXCEPT ![c] = @ \/ Holding(c) # {}]
  /\ UNCHANGED <<store, opens, loading, stack, route>>

(* The set has completed; the club's document is read: members is 0 when   *)
(* there is none.                                                          *)
ReadMembers(t) ==
  LET c == ClubOf[t] IN
  /\ pc[t] = "set"
  /\ read' = [read EXCEPT ![t] = IF c \in Documents THEN members[c] ELSE 0]
  /\ pc' = [pc EXCEPT ![t] = "update"]
  /\ overlap' = [overlap EXCEPT ![c] = @ \/ Holding(c) # {}]
  /\ UNCHANGED <<store, opens, loading, stack, route>>

WriteMembersByTwo(t) ==
  LET c == ClubOf[t] IN
  /\ pc[t] \in {"update", "queued"} /\ c \in Documents
  /\ members' = [members EXCEPT ![c] = read[t] + 2]
  /\ pc' = [pc EXCEPT ![t] = IF @ = "update" THEN "show" ELSE "done"]
  /\ UNCHANGED <<activities, opens, loading, stack, read, route, overlap>>

(* members + 1 is written over whatever the document holds by now.         *)
WriteMembers(t) ==
  LET c == ClubOf[t] IN
  /\ pc[t] \in {"update", "queued"} /\ c \in Documents
  /\ members' = [members EXCEPT ![c] = read[t] + 1]
  /\ pc' = [pc EXCEPT ![t] = IF @ = "update" THEN "show" ELSE "done"]
  /\ UNCHANGED <<activities, opens, loading, stack, read, route, overlap>>

(* update, unlike set, makes no document: it throws, and the handler ends. *)
UpdateFails(t) ==
  /\ pc[t] \in {"update", "queued"} /\ ClubOf[t] \notin Documents
  /\ pc' = [pc EXCEPT ![t] = "failed"]
  /\ UNCHANGED <<store, opens, loading, stack, read, route, overlap>>

ShowOutcomeAnywhere(t) ==
  LET s == StudentOf[t]  c == ClubOf[t] IN
  /\ pc[t] = "show"
  /\ pc' = [pc EXCEPT ![t] = "done"]
  /\ Push(s, IF c \in Remind THEN RemindDialog(c) ELSE Browse)
  /\ UNCHANGED <<store, opens, loading, read, route, overlap>>

(* The update has completed: the Remind question or a new ClubHub tab is   *)
(* pushed, unless the page is gone, and its context with it.               *)
ShowOutcome(t) ==
  LET s == StudentOf[t]  c == ClubOf[t] IN
  /\ pc[t] = "show"
  /\ pc' = [pc EXCEPT ![t] = "done"]
  /\ IF route[t] = 0
       THEN UNCHANGED stack
       ELSE Push(s, IF c \in Remind THEN RemindDialog(c) ELSE Browse)
  /\ UNCHANGED <<store, opens, loading, read, route, overlap>>

(* The two answers of the Remind question, and the club's Instagram.       *)
AlreadyJoined(s) ==
  /\ Top(s).kind = "remind"
  /\ Push(s, Browse)
  /\ UNCHANGED <<store, opens, loading, pc, read, route, overlap>>

OpenWebView(s) ==
  /\ Top(s).kind \in {"info", "remind"}
  /\ Push(s, WebView)
  /\ UNCHANGED <<store, opens, loading, pc, read, route, overlap>>

(* The back arrow or gesture. Handlers of the popped page keep running,    *)
(* without a page.                                                         *)
Unmounted(r, depth) == IF r = depth THEN 0 ELSE r

BackPastFirst(s) ==
  LET depth == Len(stack[s]) IN
  /\ stack' = [stack EXCEPT ![s] = SubSeq(@, 1, depth - 1)]
  /\ loading' = [loading EXCEPT ![s] =
                   {[h EXCEPT !.route = Unmounted(@, depth)] : h \in @}]
  /\ route' = [t \in Taps |-> IF StudentOf[t] = s THEN Unmounted(route[t], depth)
                                                 ELSE route[t]]
  /\ UNCHANGED <<store, opens, pc, read, overlap>>

Back(s) ==
  LET depth == Len(stack[s]) IN
  /\ depth > 1
  /\ stack' = [stack EXCEPT ![s] = SubSeq(@, 1, depth - 1)]
  /\ loading' = [loading EXCEPT ![s] =
                   {[h EXCEPT !.route = Unmounted(@, depth)] : h \in @}]
  /\ route' = [t \in Taps |-> IF StudentOf[t] = s THEN Unmounted(route[t], depth)
                                                 ELSE route[t]]
  /\ UNCHANGED <<store, opens, pc, read, overlap>>

(* The app dies and is started again. Of the handlers between the get and  *)
(* the update, those in issued have the update on the queue; the others    *)
(* never had the answer.                                                   *)
Kill(s) ==
  /\ stack' = [stack EXCEPT ![s] = <<Browse>>]
  /\ loading' = [loading EXCEPT ![s] = {}]
  /\ \E issued \in SUBSET {t \in Taps : StudentOf[t] = s /\ pc[t] = "update"} :
       pc' = [t \in Taps |->
                IF StudentOf[t] # s THEN pc[t]
                ELSE CASE t \in issued -> "queued"
                       [] t \notin issued /\ pc[t] \in {"set", "update"} -> "killed"
                       [] pc[t] = "show" -> "done"
                       [] OTHER -> pc[t]]
  /\ route' = [t \in Taps |-> IF StudentOf[t] = s THEN 0 ELSE route[t]]
  /\ UNCHANGED <<store, opens, read, overlap>>

Handler(t) == ReadMembers(t) \/ WriteMembers(t) \/ UpdateFails(t) \/ ShowOutcome(t)

Next ==
  \/ \E s \in Students, c \in Clubs : TapCard(s, c)
  \/ \E s \in Students : \E h \in loading[s] : CardLoaded(s, h)
  \/ \E t \in Taps : TapJoin(t) \/ Handler(t)
  \/ \E s \in Students : AlreadyJoined(s) \/ OpenWebView(s) \/ Back(s) \/ Kill(s)

Spec == Init /\ [][Next]_vars

-----------------------------------------------------------------------------
(* The number of members never exceeds the old number plus the increments  *)
(* written, and shows at least one of them: whatever the interleaving of   *)
(* the get and the update of the Join handlers.                            *)
CountWithin ==
  \A c \in Clubs :
    /\ members[c] <= InitMembers[c] + Cardinality(Counted(c))
    /\ members[c] >= InitMembers[c]
    /\ Counted(c) # {} => members[c] > InitMembers[c]

(* If no handler read a club's number while another one was between its    *)
(* read and its write, every increment written is in the number.           *)
ExactWithoutOverlap ==
  \A c \in Clubs :
    ~overlap[c] => members[c] = InitMembers[c] + Cardinality(Counted(c))

(* The presses of Join for a club, and the students who have the club in   *)
(* their activities since the model started.                               *)
Pressed(c) == {t \in Taps : ClubOf[t] = c /\ pc[t] # "free"}
NewMembers(c) == {s \in Students : c \in activities[s] \ Enrolled[s]}
PressedOnce(c) == \A t, u \in Pressed(c) : StudentOf[t] = StudentOf[u] => t = u

(* A race or a death of the app may lose a member, but it never makes one  *)
(* up: unless a student pressed Join twice, the number of a club grows by  *)
(* no more than the students who now have the club in their activities,    *)
(* wherever the handlers are and however they interleaved.                 *)
NeverOvercounted ==
  \A c \in Clubs :
    PressedOnce(c) => members[c] <= InitMembers[c] + Cardinality(NewMembers(c))

(* A page that says 'Already Joined' shows a club the student has joined,  *)
(* however long it has been on the stack.                                  *)
AlreadyJoinedIsTrue ==
  \A s \in Students : \A i \in 1..Len(stack[s]) :
    stack[s][i].kind = "info" /\ stack[s][i].joined
      => stack[s][i].club \in activities[s]

(* The number shown agrees with the students' own records when nothing     *)
(* went wrong: no handler of the club is unfinished, died, failed or       *)
(* overlapped with another, and no student pressed Join twice.             *)
CleanJoinsAreCounted ==
  \A c \in Clubs :
    /\ ~overlap[c] /\ PressedOnce(c)
    /\ \A t \in Pressed(c) : pc[t] = "done"
    => members[c] = InitMembers[c] + Cardinality(NewMembers(c))

(* The Remind question comes up only over the page the club was joined     *)
(* from, and only for a student whose increment was written: the handler   *)
(* that asks it has awaited three answers, during which its page may have  *)
(* been left, others opened, and the app killed.                           *)
AskedOnItsPage ==
  \A s \in Students : \A i \in 1..Len(stack[s]) :
    stack[s][i].kind = "remind" =>
      /\ \E j \in 1..(i - 1) : stack[s][j] = Info(stack[s][i].club, FALSE)
      /\ \E t \in Counted(stack[s][i].club) : StudentOf[t] = s

-----------------------------------------------------------------------------
(* What the repository says of this code and the code does not do.         *)

(* "It has the name of the activity, adviser, number of members": once the *)
(* handlers of a club have finished without dying, its number of members   *)
(* grew by the number of students who joined it.                           *)
NumberOfMembers ==
  \A c \in Clubs :
    (\A t \in Taps : ClubOf[t] = c => pc[t] \in {"free", "done"})
      => members[c] = InitMembers[c] + Cardinality(NewMembers(c))
=============================================================================
