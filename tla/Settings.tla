------------------------------- MODULE Settings -------------------------------
(***************************************************************************)
(* The settings tab (settings/settings.dart) with the form that changes    *)
(* the pronouns (settings/change_pronouns.dart) and the feedback form      *)
(* (settings/recommendation.dart).                                         *)
(*                                                                         *)
(* Submit of the pronouns form pushes a new tab bar, whose settings page   *)
(* loads the person again; the pages beneath keep what they loaded. A      *)
(* page takes an empty text for a page that is still loading.              *)
(***************************************************************************)
EXTENDS PageData

VARIABLES
  pronouns,      \* the field of the person's document, None if there is none
  routes,        \* the Navigator's routes, last one on top
  submits,       \* how often pronouns were submitted (bounded)
  feedback       \* the collection feedback

vars == <<pronouns, routes, submits, feedback>>

(* A settings page built after so many submissions: what it shows.         *)
SettingPage(n) == [kind |-> "settings", built |-> n, loading |-> TRUE, shown |-> Empty]
PronounsForm == [kind |-> "pronouns", text |-> Empty]
FeedbackForm == [kind |-> "feedback", subject |-> None, rating |-> 5]

Subjects == {"Bug", None}
Ratings == {0, 5}
Top == routes[Len(routes)]
Beneath == SubSeq(routes, 1, Len(routes) - 1)

TypeOK ==
  /\ pronouns \in Queries \cup {None}
  /\ submits \in 0..MaxSubmits
  /\ Len(routes) > 0
  /\ \A n \in 1..Len(routes) :
       \/ routes[n] \in [kind : {"settings"}, built : 0..submits, loading : BOOLEAN,
                         shown : Queries]
       \/ routes[n] \in [kind : {"pronouns"}, text : Queries]
       \/ routes[n] \in [kind : {"feedback"}, subject : Subjects, rating : Ratings]
  /\ feedback \subseteq [subject : Subjects, rating : Ratings]

Init ==
  /\ pronouns \in Queries \cup {None}
  /\ routes = <<SettingPage(0)>>
  /\ submits = 0 /\ feedback = {}

(* The page has something to show, and not a progress circle.              *)
Displayed(r) == r.kind = "settings" /\ r.shown # Empty

-----------------------------------------------------------------------------
(* An answer of getPersonDocuments for the page at n, wherever it is in    *)
(* the stack; it has what this device submitted last. Without a document   *)
(* the page stays as it is.                                                *)
GetPersonDocuments(n) ==
  /\ routes[n].kind = "settings" /\ routes[n].loading
  /\ routes' = [routes EXCEPT ![n].loading = FALSE,
                              ![n].shown = IF pronouns = None THEN @ ELSE pronouns]
  /\ UNCHANGED <<pronouns, submits, feedback>>

(* Edit, and the entry of the feedback form.                               *)
OpenForm(form) ==
  /\ Displayed(Top)
  /\ routes' = Append(routes, form)
  /\ UNCHANGED <<pronouns, submits, feedback>>

TypePronouns(t) ==
  /\ Top.kind = "pronouns"
  /\ routes' = [routes EXCEPT ![Len(routes)].text = t]
  /\ UNCHANGED <<pronouns, submits, feedback>>

(* Submit of the pronouns: the document is updated, without waiting, and   *)
(* the tab bar of the role is pushed with its settings page selected.      *)
SubmitPronouns ==
  /\ Top.kind = "pronouns"
  /\ submits < MaxSubmits
  /\ submits' = submits + 1
  /\ pronouns' = Top.text
  /\ routes' = Append(routes, SettingPage(submits + 1))
  /\ UNCHANGED feedback

FillFeedback(s, r) ==
  /\ Top.kind = "feedback"
  /\ routes' = [routes EXCEPT ![Len(routes)].subject = s, ![Len(routes)].rating = r]
  /\ UNCHANGED <<pronouns, submits, feedback>>

(* Submit of the feedback: a document is added and the form is popped.     *)
SubmitFeedback ==
  /\ Top.kind = "feedback"
  /\ feedback' = feedback \cup {[subject |-> Top.subject, rating |-> Top.rating]}
  /\ routes' = Beneath
  /\ UNCHANGED <<pronouns, submits>>

(* The back arrow of a form, or the system's back gesture.                 *)
Back ==
  /\ Len(routes) > 1
  /\ routes' = Beneath
  /\ UNCHANGED <<pronouns, submits, feedback>>

Next ==
  \/ \E n \in 1..Len(routes) : GetPersonDocuments(n)
  \/ OpenForm(PronounsForm) \/ OpenForm(FeedbackForm)
  \/ \E t \in Queries : TypePronouns(t)
  \/ SubmitPronouns
  \/ \E s \in Subjects \ {None}, r \in Ratings : FillFeedback(s, r)
  \/ SubmitFeedback \/ Back

-----------------------------------------------------------------------------
(* A settings page built after the last submission shows what is stored,   *)
(* and a progress circle if that is the empty text or nothing.             *)
ShowsStored ==
  \A n \in 1..Len(routes) :
    routes[n].kind = "settings" /\ routes[n].built = submits
      => routes[n].shown = (IF pronouns = None THEN Empty ELSE pronouns)
=============================================================================
