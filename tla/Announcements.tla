---------------------------- MODULE Announcements ----------------------------
(***************************************************************************)
(* The page from which a teacher messages a class or club and announces to *)
(* all of it (messaging/teacher_class_messages.dart, ListingsPage).        *)
(*                                                                         *)
(* The list of students is read once, after the page is opened. An         *)
(* announcement is one message per student on the list as it is when the   *)
(* send icon is pressed; the school enrols and withdraws students          *)
(* meanwhile, which the page does not see.                                 *)
(***************************************************************************)
EXTENDS PageData

VARIABLES
  roster,    \* classes/<c>/students
  opens,     \* times the page was opened
  loaded,    \* getStudents has its answer
  students,
  dialog,    \* the announcement dialog is open
  text,      \* _announcementController.text is not empty
  sent,      \* announcements sent so far
  messages,  \* conversations: which announcement is in whose
  always,    \* history: who is in the class ever since the page was opened
  ever       \* history: who was in it at some time since the page was opened

page == <<loaded, students, dialog, text>>
vars == <<roster, opens, page, sent, messages, always, ever>>

Message == [n : 1..MaxSent, reciever : Students]

TypeOK ==
  /\ roster \subseteq Students /\ opens \in 1..MaxOpens
  /\ loaded \in BOOLEAN /\ students \subseteq Students
  /\ dialog \in BOOLEAN /\ text \in BOOLEAN
  /\ sent \in 0..MaxSent
  /\ messages \subseteq Message
  /\ always \subseteq roster /\ roster \subseteq ever /\ ever \subseteq Students

Init ==
  /\ roster = Enrolled /\ opens = 1
  /\ loaded = FALSE /\ students = {} /\ dialog = FALSE /\ text = FALSE
  /\ sent = 0 /\ messages = {} /\ always = Enrolled /\ ever = Enrolled

(* The school enrols a student, or takes one from the class.               *)
Enrol(s) ==
  /\ s \notin roster
  /\ roster' = roster \cup {s} /\ ever' = ever \cup {s}
  /\ UNCHANGED <<opens, page, sent, messages, always>>

Withdraw(s) ==
  /\ s \in roster
  /\ roster' = roster \ {s} /\ always' = always \ {s}
  /\ UNCHANGED <<opens, page, sent, messages, ever>>

(* The students, each added to the list.                                   *)
getStudents ==
  /\ ~loaded
  /\ loaded' = TRUE
  /\ students' = students \cup roster
  /\ UNCHANGED <<roster, opens, dialog, text, sent, messages, always, ever>>

(* The add icon of the announcements, there from the first frame.          *)
OpenDialog ==
  /\ ~dialog
  /\ dialog' = TRUE
  /\ UNCHANGED <<roster, opens, loaded, students, text, sent, messages, always, ever>>

TypeAnnouncement ==
  /\ dialog /\ ~text
  /\ text' = TRUE
  /\ UNCHANGED <<roster, opens, loaded, students, dialog, sent, messages, always, ever>>

(* The dialog is dismissed; the text stays in its controller.              *)
CloseDialog ==
  /\ dialog
  /\ dialog' = FALSE
  /\ UNCHANGED <<roster, opens, loaded, students, text, sent, messages, always, ever>>

Announced(S) == {[n |-> sent + 1, reciever |-> s] : s \in S}

(* The send icon: a message per student, also of an empty text; the text   *)
(* is cleared and the dialog popped.                                       *)
sendAnnouncement ==
  /\ dialog
  /\ sent < MaxSent
  /\ sent' = sent + 1
  /\ messages' = messages \cup Announced(students)
  /\ text' = FALSE /\ dialog' = FALSE
  /\ UNCHANGED <<roster, opens, loaded, students, always, ever>>

ReopenKeepingList ==
  /\ ~dialog
  /\ opens < MaxOpens
  /\ opens' = opens + 1
  /\ loaded' = FALSE /\ text' = FALSE
  /\ always' = roster /\ ever' = roster
  /\ UNCHANGED <<roster, students, dialog, sent, messages>>

(* The page is left and opened again: a new state.                         *)
Reopen ==
  /\ ~dialog
  /\ opens < MaxOpens
  /\ opens' = opens + 1
  /\ loaded' = FALSE /\ students' = {} /\ text' = FALSE
  /\ always' = roster /\ ever' = roster
  /\ UNCHANGED <<roster, dialog, sent, messages>>

Next ==
  \/ \E s \in Students : Enrol(s) \/ Withdraw(s)
  \/ getStudents \/ OpenDialog \/ TypeAnnouncement \/ CloseDialog
  \/ sendAnnouncement \/ Reopen

-----------------------------------------------------------------------------
(* How stale the list may be: an announcement reaches everyone who has     *)
(* been in the class ever since the page was opened, provided the list has *)
(* arrived, and nobody who was not in it at any time since then.           *)
ReachesTheClass ==
  sent' # sent =>
    /\ loaded => \A s \in always : [n |-> sent', reciever |-> s] \in messages'
    /\ \A m \in messages' : m.n = sent' => m.reciever \in ever
=============================================================================
