-------------------------------- MODULE Pages --------------------------------
(***************************************************************************)
(* The page a person has in front of them after signing in: the home page  *)
(* of a student, a teacher or a parent, the calendar of a parent, or one   *)
(* of the other tabs and forms: the bookkeeper, the ClubHub, a             *)
(* conversation (on the devices of both people), the messages of a class,  *)
(* the settings, the report of an absence. Signing in                      *)
(* (authentication/member_login_page.dart) pushes the tab bar of the role, *)
(* which builds one page; the variables are those of that page, and a      *)
(* variable it does not have is None. HomePages and TabPages declare the   *)
(* variables and instantiate the modules of the pages.                     *)
(***************************************************************************)
EXTENDS HomePages, TabPages

VARIABLE page

(* The variables of the home pages and the calendar, and of each tab.      *)
homeVars == <<now, main, user, dirty, rows, club, clubList, events, late, schedule,
              class, classList, message, listing, item, clubsList, child, activity,
              childrenList, appointments, hasLoaded>>
searchVars == <<query, searches, overlap>>
shopVars == <<visit, bookkeeperItems, pending, stack, bought, leaving, presses, dismissed,
              waiting, purchases>>
hubVars == <<loads, asking, task, activites, byCategory, isSearch, selectedIndex, filtered>>
talkVars == <<time, texts, server, view, attached, text, isPhoto, imageUrl, uploads, removed,
              posted>>
classVars == <<roster, opens, loaded, students, dialog, announcement, sent, messages, always,
               ever>>
formVars == <<pronouns, routes, submits, feedback>>
reportVars == <<form, absences, reports>>
tabVars == <<searchVars, shopVars, hubVars, talkVars, classVars, formVars, reportVars>>
vars == <<page, homeVars, tabVars>>

(* The variables each page does not have.                                  *)
notStudent == <<listing, item, clubsList, child, activity, childrenList, appointments,
                hasLoaded, tabVars>>
notTeacher == <<clubList, late, message, child, activity, childrenList, appointments,
                hasLoaded, tabVars>>
notParent == <<club, clubList, late, schedule, class, classList, message, listing, item,
               clubsList, appointments, hasLoaded, tabVars>>
notCalendar == <<user, dirty, rows, club, clubList, events, late, schedule, class, classList,
                 message, listing, item, clubsList, childrenList, tabVars>>
notShop == <<homeVars, hubVars, talkVars, classVars, formVars, reportVars>>
notHub == <<homeVars, shopVars, talkVars, classVars, formVars, reportVars>>
notTalk == <<homeVars, searchVars, shopVars, hubVars, classVars, formVars, reportVars>>
notClass == <<homeVars, searchVars, shopVars, hubVars, talkVars, formVars, reportVars>>
notSetting == <<homeVars, searchVars, shopVars, hubVars, talkVars, classVars, reportVars>>
notReport == <<homeVars, searchVars, shopVars, hubVars, talkVars, classVars, formVars>>

NoSearch == query = None /\ searches = None /\ overlap = None
NoShop ==
  /\ visit = None /\ bookkeeperItems = None /\ pending = None /\ stack = None
  /\ bought = None /\ leaving = None /\ presses = None /\ dismissed = None
  /\ waiting = None /\ purchases = None
NoHub ==
  /\ loads = None /\ asking = None /\ task = None /\ activites = None /\ byCategory = None
  /\ isSearch = None /\ selectedIndex = None /\ filtered = None
NoTalk ==
  /\ time = None /\ texts = None /\ server = None /\ view = None /\ attached = None
  /\ text = None /\ isPhoto = None /\ imageUrl = None /\ uploads = None /\ removed = None
  /\ posted = None
NoClass ==
  /\ roster = None /\ opens = None /\ loaded = None /\ students = None /\ dialog = None
  /\ announcement = None /\ sent = None /\ messages = None /\ always = None /\ ever = None
NoForm == pronouns = None /\ routes = None /\ submits = None /\ feedback = None
NoReport == form = None /\ absences = None /\ reports = None
NoForms == NoForm /\ NoReport
NoTab == NoSearch /\ NoShop /\ NoHub /\ NoTalk /\ NoClass /\ NoForms
NoHome ==
  /\ now = None /\ main = None /\ user = None /\ dirty = None /\ rows = None /\ club = None
  /\ clubList = None /\ events = None /\ late = None /\ schedule = None /\ class = None
  /\ classList = None /\ message = None /\ listing = None /\ item = None
  /\ clubsList = None /\ child = None /\ activity = None /\ childrenList = None
  /\ appointments = None /\ hasLoaded = None

Init ==
  \/ page = "student" /\ Student!Init /\ NoTab
       /\ listing = None /\ item = None /\ clubsList = None /\ child = None /\ activity = None
       /\ childrenList = None /\ appointments = None /\ hasLoaded = None
  \/ page = "teacher" /\ Teacher!Init /\ NoTab
       /\ clubList = None /\ late = None /\ message = None /\ child = None /\ activity = None
       /\ childrenList = None /\ appointments = None /\ hasLoaded = None
  \/ page = "parent" /\ Parent!Init /\ NoTab
       /\ club = None /\ clubList = None /\ late = None /\ schedule = None /\ class = None
       /\ classList = None /\ message = None /\ listing = None /\ item = None
       /\ clubsList = None /\ appointments = None /\ hasLoaded = None
  \/ page = "calendar" /\ Calendar!Init /\ NoTab
       /\ user = None /\ dirty = None /\ rows = None /\ club = None /\ clubList = None
       /\ events = None /\ late = None /\ schedule = None /\ class = None
       /\ classList = None /\ message = None /\ listing = None /\ item = None
       /\ clubsList = None /\ childrenList = None
  \/ page = "bookkeeper" /\ Shop!Init /\ NoHome /\ NoHub /\ NoTalk /\ NoClass /\ NoForms
  \/ page = "clubhub" /\ Hub!Init /\ NoHome /\ NoShop /\ NoTalk /\ NoClass /\ NoForms
  \/ page = "messages" /\ Talk!Init /\ NoHome /\ NoSearch /\ NoShop /\ NoHub /\ NoClass /\ NoForms
  \/ page = "listings" /\ Class!Init /\ NoHome /\ NoSearch /\ NoShop /\ NoHub /\ NoTalk /\ NoForms
  \/ page = "settings" /\ Setting!Init /\ NoHome /\ NoSearch /\ NoShop /\ NoHub /\ NoTalk
       /\ NoClass /\ NoReport
  \/ page = "absence" /\ Report!Init /\ NoHome /\ NoSearch /\ NoShop /\ NoHub /\ NoTalk
       /\ NoClass /\ NoForm

(* A step of the page that is open.                                        *)
OfStudent(A) == page = "student" /\ A /\ UNCHANGED <<page, notStudent>>
OfTeacher(A) == page = "teacher" /\ A /\ UNCHANGED <<page, notTeacher>>
OfParent(A) == page = "parent" /\ A /\ UNCHANGED <<page, notParent>>
OfCalendar(A) == page = "calendar" /\ A /\ UNCHANGED <<page, notCalendar>>
OfShop(A) == page = "bookkeeper" /\ A /\ UNCHANGED <<page, notShop>>
OfHub(A) == page = "clubhub" /\ A /\ UNCHANGED <<page, notHub>>
OfTalk(A) == page = "messages" /\ A /\ UNCHANGED <<page, notTalk>>
OfClass(A) == page = "listings" /\ A /\ UNCHANGED <<page, notClass>>
OfSetting(A) == page = "settings" /\ A /\ UNCHANGED <<page, notSetting>>
OfReport(A) == page = "absence" /\ A /\ UNCHANGED <<page, notReport>>

Next ==
  \/ OfStudent(Student!Next) \/ OfTeacher(Teacher!Next)
  \/ OfParent(Parent!Next) \/ OfCalendar(Calendar!Next)
  \/ OfShop(Shop!Next) \/ OfHub(Hub!Next) \/ OfTalk(Talk!Next) \/ OfClass(Class!Next)
  \/ OfSetting(Setting!Next) \/ OfReport(Report!Next)

Spec == Init /\ [][Next]_vars

(* Firestore answers every read, and a frame follows a setState; nothing   *)
(* is assumed of a person, of the clock, and of the writes, which the      *)
(* server may refuse. A page has finitely many answers to wait for, so     *)
(* that it is enough that some answer comes as long as one is to come; but *)
(* a person can change the list that is shown for ever, and the frames     *)
(* come whatever else goes on.                                             *)
Frame == OfStudent(Student!Frame) \/ OfTeacher(Teacher!Frame) \/ OfParent(Parent!Frame)

Answer ==
  \/ OfStudent(\/ Student!GetUser \/ Student!EventLoader \/ Student!GetSchedule
               \/ \E c \in Clubs : Student!ClubTask(c)
               \/ \E k \in Classes : Student!ClassTask(k))
  \/ OfTeacher(\/ Teacher!EventLoader
               \/ \E c \in Clubs : Teacher!ClubTask(c))
  \/ OfParent(\/ Parent!Loader
              \/ \E k \in Children : Parent!ChildTask(k)
              \/ \E p \in Enrolments : Parent!ActivityTask(p))
  \/ OfCalendar(\/ Calendar!Loader
                \/ \E k \in Children : Calendar!GetActivities(k)
                \/ \E p \in Enrolments : Calendar!ActivityTask(p))
  \/ OfShop(Shop!ItemsLoaded \/ \E p \in waiting : Shop!Confirmed(p))
  \/ OfHub(\/ \E n \in Hub!Loads : Hub!GetActivities(n)
           \/ \E t \in Hub!Tasks : Hub!ClubTask(t))
  \/ OfSetting(\E n \in 1..Len(routes) : Setting!GetPersonDocuments(n))

FairSpec == Spec /\ WF_vars(Frame) /\ WF_vars(Answer)

-----------------------------------------------------------------------------
(* The type invariant of the page.                                         *)
TypeOK ==
  /\ page = "student" => Student!TypeOK
  /\ page = "teacher" => Teacher!TypeOK
  /\ page = "parent" => Parent!TypeOK
  /\ page = "calendar" => Calendar!TypeOK
  /\ page = "bookkeeper" => Shop!TypeOK
  /\ page = "clubhub" => Hub!TypeOK
  /\ page = "messages" => Talk!TypeOK
  /\ page = "listings" => Class!TypeOK
  /\ page = "settings" => Setting!TypeOK
  /\ page = "absence" => Report!TypeOK

(* However the tasks that fill a list interleave, nothing is listed twice: *)
(* no event of a student or a teacher, and, as long as an empty search was *)
(* never made while an earlier load was going on, no item of the           *)
(* bookkeeper and no club of the ClubHub.                                  *)
ListedOnce ==
  /\ page = "student" => Student!EventsOnlyOnce
  /\ page = "teacher" => Teacher!EventsOnlyOnce
  /\ page = "bookkeeper" => Shop!ListedOnceWithoutOverlap
  /\ page = "clubhub" => Hub!ShownOnceWithoutOverlap

(* "If this activity is not a duplicate, it will be added to the list": no *)
(* two club events on a parent's home page have the same content, though   *)
(* the tasks of two children load one club interleaved with each other,    *)
(* and no two appointments of a parent's calendar, which compares          *)
(* appointments and not documents.                                         *)
NoDuplicates ==
  /\ page = "parent" => Parent!NoDuplicates
  /\ page = "calendar" => Calendar!NoDuplicates

(* The events of a teacher and of a parent, which are sorted after every   *)
(* batch, are by end time at every moment of the loading, and a student's, *)
(* which are sorted once, from then on as long as no club is slower than   *)
(* the school and the personal events ("Events will be prioritized based   *)
(* on time" is right only then). A student's classes are by period in      *)
(* whatever order they arrive.                                             *)
ListsInOrder ==
  /\ page = "student" => Student!OrderedUnlessLate /\ Student!ClassesByPeriod
  /\ page = "teacher" => Teacher!AlwaysByEndTime
  /\ page = "parent" => Parent!AlwaysByEndTime

(* A club is in each of its categories as often as in the list of all      *)
(* clubs, unless a search filtered that one, and in no other category:     *)
(* the lists are cleared, filled and reloaded together.                    *)
CategoriesAgree == page = "clubhub" => Hub!CategoriesAgree

(* A dialog in which Confirm was pressed once and that nothing else closed *)
(* gives way to the page of its item: the pop after the await closes the   *)
(* dialog and no more.                                                     *)
ConfirmLandsOnItem == [][page = "bookkeeper" => Shop!LandsOnItem]_vars

(* A text is sent once unless it was sent before the first snapshot, when  *)
(* it stays in the text field, and an image that was removed with the      *)
(* close icon is never sent, whatever other uploads end before or after,   *)
(* and whatever the server refuses. No absence is stored that ends before  *)
(* it starts, although the picker of the form is given such a range.       *)
SentAsMeant ==
  /\ page = "messages" => Talk!TextSentOnce /\ Talk!RemovedNotSent
  /\ page = "absence" => Report!RunsForward

(* How stale the list of an announcement may be: it reaches everyone who   *)
(* has been in the class ever since the page was opened, provided the list *)
(* has arrived, and nobody who was not in it at any time since then.       *)
AnnouncedToTheClass == [][page = "listings" => Class!ReachesTheClass]_vars

(* What a page is to list is there in the end and stays: the events of a   *)
(* student or teacher that do not end while the page loads (a club without *)
(* a document costs its own events and nobody else's), the events of the   *)
(* clubs of a parent's children, itself or as a copy with the same         *)
(* content; all items of the bookkeeper while the search bar is empty; the *)
(* clubs of every category and, unless filtered, of the list of all clubs; *)
(* the pronouns that were submitted last.                                  *)
EventuallyComplete ==
  <>[](/\ page = "student" => Student!Complete
       /\ page = "teacher" => Teacher!Complete
       /\ page = "parent" => Parent!Covered
       /\ page = "calendar" => Calendar!Covered
       /\ page = "bookkeeper" => Shop!EmptyListsAll
       /\ page = "clubhub" => Hub!ListsComplete
       /\ page = "settings" => Setting!ShowsStored)

(* "If the classes haven't loaded, a progress circle will appear": a       *)
(* rebuild asked for after a class has arrived ends the circle of a        *)
(* student or a teacher; and the children of a parent, who are listed      *)
(* outside of setState too but before the events of their clubs are asked  *)
(* for, are shown when a child has a club with events, whatever else is    *)
(* slow or missing.                                                        *)
SpinnerEnds ==
  \/ page \in {"student", "teacher"} /\ dirty /\ classList # <<>>
  \/ page = "parent" /\ \E k \in ExistingChildren : ClubEvents(ClubsOf[k]) # {}
  ~> page \in {"student", "teacher", "parent"} /\ rows > 0

-----------------------------------------------------------------------------
(* What the repository says of this code and the code does not do.         *)

(* "message or email the teacher of a particular class": the page opened   *)
(* by the Message action is about the class whose teacher was looked up.   *)
MessagesTheClassTeacher == page = "student" => Student!MessagesTheClassTeacher

(* "As you search for a particular item, the results will filter, until    *)
(* you reach the particular item that you are looking for": when nothing   *)
(* is loading, the list shows the items that match the text.               *)
ResultsMatchQuery == page = "bookkeeper" => Shop!ResultsMatchQuery

(* "If you click cancel, the purchase will not be registered": no purchase *)
(* is stored of a dialog that was cancelled.                               *)
CancelledNotRegistered == page = "bookkeeper" => Shop!CancelledNotRegistered
=============================================================================
