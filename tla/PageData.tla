------------------------------- MODULE PageData -------------------------------
(***************************************************************************)
(* The documents that the pages read for the person who is signed in, and  *)
(* how much a person does on the pages of the other tabs (ClubHub,         *)
(* bookkeeper, messages). What the home pages and the calendar of a parent *)
(* read does not change while a page loads.                                *)
(***************************************************************************)
EXTENDS EventData

CONSTANTS
  AllClubs,          \* the clubs that are mentioned anywhere
  ExistingClubs,     \* those whose document exists
  EventsOf,          \* activities/<c>/events
  Clubs,             \* <students or teachers>/<me>/activities
  PersonalEvents,    \* students/<me>/events
  Classes,           \* students/<me>/schedule or teachers/<me>/classes
  ExistingClasses,   \* those whose document exists
  Period,            \* the period of a class
  Children,          \* parents/<me>/students
  ExistingChildren,  \* those whose document exists
  ClubsOf,           \* students/<child>/activities
  Text,              \* the subject and notes of an event
  None               \* no value

ASSUME PageAssumption ==
  /\ ExistingClubs \subseteq AllClubs /\ Clubs \subseteq AllClubs
  /\ EventsOf \in [AllClubs -> SUBSET Events]
  /\ \A c \in AllClubs : EventsOf[c] \cap (NchsEvents \cup PersonalEvents) = {}
  /\ \A c, d \in AllClubs : c # d => EventsOf[c] \cap EventsOf[d] = {}
  /\ PersonalEvents \subseteq Events \ NchsEvents
  /\ ExistingClasses \subseteq Classes
  /\ Period \in [Classes -> Nat]
  /\ ExistingChildren \subseteq Children
  /\ ClubsOf \in [Children -> SUBSET AllClubs]
  /\ \A e \in Events \ NchsEvents, n \in NchsEvents : Text[e] # Text[n]
  /\ None \notin Classes

Enrolments == {p \in Children \X AllClubs : p[2] \in ClubsOf[p[1]]}

(* The events of the existing clubs in C.                                  *)
ClubEvents(C) == UNION {EventsOf[c] : c \in C \cap ExistingClubs}
-----------------------------------------------------------------------------
(* The other tabs.                                                         *)
CONSTANTS
  School,        \* the document of activities that is no club, NCHS
  Categories,    \* Popular, Business, Technology, Art, Culture, Sports
  First,         \* the category selected at first, Popular
  CategoryOf,    \* the categories of a club, from its members and tags
  Queries,       \* the texts of a search bar
  Empty,         \* the empty text
  ClubMatches,   \* the clubs whose name contains a text
  MaxSearches,   \* bound: changes of the text in the ClubHub
  Catalog,       \* bookkeepers: the items, in the order of the answer
  ItemMatches,   \* the items whose name contains a text
  Visits,        \* bounds of a visit of the bookkeeper: searches, dialogs, presses
  Skew,          \* how far the clock of each device is ahead
  Images,        \* the uploads, by their unique names (bounds them)
  MaxTexts,      \* bound: texts that are written
  MaxMessages,   \* bound: messages that are sent
  Students,      \* everyone who may be in a class
  Enrolled,      \* classes/<c>/students at first
  MaxSent,       \* bound: announcements sent
  MaxOpens,      \* bound: times the page of a class is opened
  MaxSubmits,    \* bound: pronouns submitted
  MaxReports     \* bound: absence forms opened

Items == Elems(Catalog)
People == {"student", "teacher"}

ASSUME TabAssumption ==
  /\ School \notin AllClubs
  /\ First \in Categories
  /\ CategoryOf \in [ExistingClubs -> SUBSET Categories]
  /\ Empty \in Queries
  /\ ClubMatches \in [Queries -> SUBSET ExistingClubs]
  /\ Catalog \in Seq(Items) /\ OnlyOnce(Catalog)
  /\ ItemMatches \in [Queries -> SUBSET Items]
  /\ ItemMatches[Empty] = Items
  /\ Visits \subseteq [searches : Nat, dialogs : Nat, presses : Nat]
  /\ Skew \in [People -> Nat]
  /\ Enrolled \subseteq Students
  /\ MaxSearches \in Nat /\ MaxTexts \in Nat /\ MaxMessages \in Nat
  /\ MaxSent \in Nat /\ MaxSubmits \in Nat
  /\ MaxOpens \in Nat \ {0} /\ MaxReports \in Nat \ {0}
=============================================================================

