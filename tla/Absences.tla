------------------------------- MODULE Absences -------------------------------
(***************************************************************************)
(* The form in which a parent reports an absence of a child                *)
(* (home/studentAbsences.dart). The kind of the absence starts as a text   *)
(* that is the value of neither radio button; each button brings its own   *)
(* fields and its own Submit, and both keep what was picked before. The    *)
(* range picker has a range of its own, which starts as today and three    *)
(* days before, and not as the dates of the form.                          *)
(***************************************************************************)
EXTENDS PageData

VARIABLES
  form,          \* the fields of _StudentAbsencesState, None when it is popped
  absences,      \* absences/<parent>/<child>, in the order they were added
  reports        \* forms opened so far (bounded)

vars == <<form, absences, reports>>

Days == {-3, 0, 1}                 \* three days ago, today and tomorrow
Reasons == {"Sick", "Travel"}
Kinds == {"Multiple Days", "One or more day(s)", "Part of school"}
Part == "Part of school"
Whole == "One or more day(s)"

OpenedOnRange ==
  [kind |-> "Multiple Days", reason |-> "Sick", range |-> <<0, -3>>, from |-> 0, to |-> -3,
   day |-> 0, hours |-> <<0, 0>>]

(* initState: all dates and times of the form are those of today.          *)
Opened ==
  [kind |-> "Multiple Days", reason |-> "Sick", range |-> <<0, -3>>, from |-> 0, to |-> 0,
   day |-> 0, hours |-> <<0, 0>>]

Hours == {<<0, 0>>, <<1, 2>>}
WholeDays == [reason : Reasons, from : Days, to : Days]
PartOfDay == [reason : Reasons, day : Days, hours : Hours]

TypeOK ==
  /\ form \in [kind : Kinds, reason : Reasons, range : Days \X Days, from : Days, to : Days,
               day : Days, hours : Hours] \cup {None}
  /\ reports \in 0..MaxReports
  /\ absences \in Seq(WholeDays \cup PartOfDay)

Init == form = Opened /\ reports = 1 /\ absences = <<>>

-----------------------------------------------------------------------------
SelectKind(k) ==
  /\ form # None /\ k # form.kind
  /\ form' = [form EXCEPT !.kind = k]
  /\ UNCHANGED <<absences, reports>>

SelectReason(v) ==
  /\ form # None
  /\ form' = [form EXCEPT !.reason = v]
  /\ UNCHANGED <<absences, reports>>

(* A tap in the range picker: a range of one day is completed, in whatever *)
(* order its two days were tapped; otherwise a new range starts.           *)
Picked(range, d) ==
  IF range[1] # range[2] THEN <<d, d>>
  ELSE IF d < range[1] THEN <<d, range[1]>> ELSE <<range[1], d>>

(* selectionChanged: the dates of the form become those of the range, its  *)
(* start twice as long as it has no end.                                   *)
selectionChanged(d) ==
  /\ form # None /\ form.kind = Whole
  /\ LET picked == Picked(form.range, d) IN
       form' = [form EXCEPT !.range = picked, !.from = picked[1], !.to = picked[2]]
  /\ UNCHANGED <<absences, reports>>

oneSelectionChanged(d) ==
  /\ form # None /\ form.kind = Part
  /\ form' = [form EXCEPT !.day = d]
  /\ UNCHANGED <<absences, reports>>

PickHours(h) ==
  /\ form # None /\ form.kind = Part
  /\ form' = [form EXCEPT !.hours = h]
  /\ UNCHANGED <<absences, reports>>

(* addAbsence: the document that is set.                                   *)
addAbsence(partOfDay) ==
  IF partOfDay THEN [reason |-> form.reason, day |-> form.day, hours |-> form.hours]
  ELSE [reason |-> form.reason, from |-> form.from, to |-> form.to]

(* Submit of either half of the form. Setting the document and the pop are *)
(* one handler; the write is not waited for.                               *)
Submit(partOfDay) ==
  /\ form # None /\ form.kind = IF partOfDay THEN Part ELSE Whole
  /\ absences' = Append(absences, addAbsence(partOfDay))
  /\ form' = None
  /\ UNCHANGED reports

(* The back arrow, and Report Absence on the card of a child.              *)
Back == form # None /\ form' = None /\ UNCHANGED <<absences, reports>>

Report ==
  /\ form = None /\ reports < MaxReports
  /\ form' = Opened /\ reports' = reports + 1
  /\ UNCHANGED absences

Next ==
  \/ \E k \in {Whole, Part} : SelectKind(k)
  \/ \E v \in Reasons : SelectReason(v)
  \/ \E d \in Days : selectionChanged(d) \/ oneSelectionChanged(d)
  \/ \E h \in Hours : PickHours(h)
  \/ \E p \in BOOLEAN : Submit(p)
  \/ Back \/ Report

-----------------------------------------------------------------------------
(* No absence of whole days is stored that ends before it starts, whatever *)
(* range the picker has been given and in whatever order days are tapped.  *)
RunsForward ==
  \A n \in 1..Len(absences) :
    absences[n] \in WholeDays => absences[n].from <= absences[n].to
=============================================================================
