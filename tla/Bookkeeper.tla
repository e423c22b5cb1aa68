------------------------------ MODULE Bookkeeper ------------------------------
(***************************************************************************)
(* The bookkeeper page with its search bar (bookkeeper/bookkeeper_page)    *)
(* and the page of an item with its purchase dialog                        *)
(* (bookkeeper/bookkeeper_item_info).                                      *)
(*                                                                         *)
(* A search replaces the one list of items by its matches; an empty search *)
(* empties the list and asks for the items again, also when an earlier     *)
(* answer is still to come. A press of Confirm issues the purchase, waits  *)
(* until it is stored, and then pops: whatever route is on top, as long as *)
(* the dialog is in the tree, its exit animation included.                 *)
(***************************************************************************)
EXTENDS PageData

VARIABLES
  visit,            \* how much the student does at most
  query,            \* the text of the search bar
  searches,         \* changes of it so far (bounded)
  bookkeeperItems,
  pending,          \* answers of getBookkeeperItems that are still to come
  overlap,          \* history: items were asked for while an answer was to come
  stack,            \* the Navigator's routes, last one on top
  item,             \* the item of each dialog that was opened
  leaving,          \* the dialogs in their exit animation
  presses,          \* how often Confirm was pressed in each dialog
  dismissed,        \* the dialogs closed by the student: Cancel, outside, back
  waiting,          \* Confirm handlers that wait for their set
  purchases         \* students/<me>/purchases: who pressed, and for what

listVars == <<visit, query, searches, bookkeeperItems, pending, overlap>>
buyVars == <<stack, item, leaving, presses, dismissed, waiting, purchases>>
vars == <<listVars, buyVars>>

Dialogs == 1..visit.dialogs

Tab == [kind |-> "tab"]
Info(i) == [kind |-> "info", item |-> i]
Dialog(d) == [kind |-> "dialog", id |-> d]
Route == {Tab} \cup {Info(i) : i \in Items} \cup {Dialog(d) : d \in Dialogs}

Press == [dialog : Dialogs, n : 1..visit.presses]

TypeOK ==
  /\ visit \in Visits
  /\ query \in Queries /\ searches \in 0..visit.searches
  /\ bookkeeperItems \in Seq(Items)
  /\ pending \in Nat /\ overlap \in BOOLEAN
  /\ stack \in Seq(Route)
  /\ item \in Seq(Items) /\ Len(item) <= visit.dialogs
  /\ leaving \subseteq 1..Len(item) /\ dismissed \subseteq 1..Len(item)
  /\ presses \in [Dialogs -> 0..visit.presses]
  /\ waiting \subseteq Press
  /\ purchases \subseteq [press : Press, item : Items]

Init ==
  /\ visit \in Visits
  /\ query = Empty /\ searches = 0
  /\ bookkeeperItems = <<>> /\ pending = 1 /\ overlap = FALSE
  /\ stack = <<Tab>> /\ item = <<>>
  /\ leaving = {} /\ presses = [d \in Dialogs |-> 0] /\ dismissed = {}
  /\ waiting = {} /\ purchases = {}

Top == stack[Len(stack)]
Beneath == SubSeq(stack, 1, Len(stack) - 1)
Showing(r) == stack # <<>> /\ Top = r
Shown(r) == \E n \in 1..Len(stack) : stack[n] = r

-----------------------------------------------------------------------------
(* An answer of getBookkeeperItems: its items are added to the list.       *)
ItemsLoaded ==
  /\ pending > 0
  /\ pending' = pending - 1
  /\ bookkeeperItems' = bookkeeperItems \o Catalog
  /\ UNCHANGED <<visit, query, searches, overlap, buyVars>>

searchActivityAppending(q) ==
  /\ Showing(Tab) /\ q # query
  /\ searches < visit.searches
  /\ searches' = searches + 1 /\ query' = q
  /\ IF q # Empty
       THEN /\ bookkeeperItems' = Kept(bookkeeperItems, ItemMatches[q])
            /\ UNCHANGED <<pending, overlap>>
       ELSE /\ pending' = pending + 1
            /\ overlap' = (overlap \/ pending > 0)
            /\ UNCHANGED bookkeeperItems
  /\ UNCHANGED <<visit, buyVars>>

(* A change of the text: the list is filtered, or emptied and loaded.      *)
searchActivity(q) ==
  /\ Showing(Tab) /\ q # query
  /\ searches < visit.searches
  /\ searches' = searches + 1 /\ query' = q
  /\ IF q # Empty
       THEN /\ bookkeeperItems' = Kept(bookkeeperItems, ItemMatches[q])
            /\ UNCHANGED <<pending, overlap>>
       ELSE /\ bookkeeperItems' = <<>>
            /\ pending' = pending + 1
            /\ overlap' = (overlap \/ pending > 0)
  /\ UNCHANGED <<visit, buyVars>>

-----------------------------------------------------------------------------
(* A card of the grid.                                                     *)
TapItem(i) ==
  /\ Showing(Tab)
  /\ i \in Elems(bookkeeperItems)
  /\ stack' = Append(stack, Info(i))
  /\ UNCHANGED <<listVars, item, leaving, presses, dismissed, waiting, purchases>>

BuyNow(i) ==
  /\ Showing(Info(i))
  /\ Len(item) < visit.dialogs
  /\ item' = Append(item, i)
  /\ stack' = Append(stack, Dialog(Len(item) + 1))
  /\ UNCHANGED <<listVars, leaving, presses, dismissed, waiting, purchases>>

(* Cancel, a press outside the dialog, or the back button.                 *)
Cancel(d) ==
  /\ Showing(Dialog(d))
  /\ stack' = Beneath
  /\ leaving' = leaving \cup {d} /\ dismissed' = dismissed \cup {d}
  /\ UNCHANGED <<listVars, item, presses, waiting, purchases>>

(* Confirm: a document with a new id is set. The button stays while the    *)
(* handler waits.                                                          *)
Confirm(d) ==
  /\ Showing(Dialog(d))
  /\ presses[d] < visit.presses
  /\ LET p == [dialog |-> d, n |-> presses[d] + 1] IN
       /\ purchases' = purchases \cup {[press |-> p, item |-> item[d]]}
       /\ waiting' = waiting \cup {p}
  /\ presses' = [presses EXCEPT ![d] = @ + 1]
  /\ UNCHANGED <<listVars, stack, item, leaving, dismissed>>

ConfirmedAgain(p) ==
  LET mounted == Shown(Dialog(p.dialog)) \/ p.dialog \in leaving IN
  /\ p \in waiting
  /\ waiting' = waiting \ {p}
  /\ IF mounted /\ stack # <<>>
       THEN /\ stack' = IF Len(stack) > 1 THEN SubSeq(stack, 1, Len(stack) - 2) ELSE <<>>
            /\ leaving' = leaving \cup {p.dialog}
       ELSE UNCHANGED <<stack, leaving>>
  /\ UNCHANGED <<listVars, item, presses, dismissed, purchases>>

(* The set has completed: the Navigator pops its top route if the dialog   *)
(* is in the tree, and the handler throws if it is not.                    *)
Confirmed(p) ==
  LET mounted == Shown(Dialog(p.dialog)) \/ p.dialog \in leaving IN
  /\ p \in waiting
  /\ waiting' = waiting \ {p}
  /\ IF mounted /\ stack # <<>>
       THEN /\ stack' = Beneath
            /\ leaving' = leaving \cup
                 {d \in 1..Len(item) : Top = Dialog(d)}
       ELSE UNCHANGED <<stack, leaving>>
  /\ UNCHANGED <<listVars, item, presses, dismissed, purchases>>

(* The exit animation of a dialog ends and its context is gone.            *)
AnimationEnds(d) ==
  /\ d \in leaving
  /\ leaving' = leaving \ {d}
  /\ UNCHANGED <<listVars, stack, item, presses, dismissed, waiting, purchases>>

(* The back arrow of the page of an item.                                  *)
Back(i) ==
  /\ Showing(Info(i))
  /\ stack' = Beneath
  /\ UNCHANGED <<listVars, item, leaving, presses, dismissed, waiting, purchases>>

Next ==
  \/ ItemsLoaded
  \/ \E q \in Queries : searchActivity(q)
  \/ \E i \in Items : TapItem(i) \/ BuyNow(i) \/ Back(i)
  \/ \E d \in 1..Len(item) : Cancel(d) \/ Confirm(d) \/ AnimationEnds(d)
  \/ \E p \in waiting : Confirmed(p)

-----------------------------------------------------------------------------
(* An item is listed at most once as long as an empty search was never     *)
(* made while an answer of getBookkeeperItems was to come.                 *)
ListedOnceWithoutOverlap == ~overlap => OnlyOnce(bookkeeperItems)

(* "query is empty, so it should display all of the bookkeeper items":     *)
(* when the text stays empty every item is listed in the end.              *)
EmptyListsAll == query = Empty => Elems(bookkeeperItems) = Items

(* A dialog in which Confirm was pressed once and that nothing else closed *)
(* gives way to the page of its item: the pop after the await closes the   *)
(* dialog and no more.                                                     *)
Touches(d) == presses[d] + (IF d \in dismissed THEN 1 ELSE 0)

LandsOnItem ==
  \A p \in waiting \ waiting' :
    (\A d \in Dialogs : Touches(d) <= 1) =>
      /\ Showing(Dialog(p.dialog))
      /\ stack' # <<>> /\ Top' = Info(item[p.dialog])

-----------------------------------------------------------------------------
(* What the repository says of this code and the code does not do.         *)

(* "As you search for a particular item, the results will filter, until    *)
(* you reach the particular item that you are looking for": when nothing   *)
(* is loading, the list shows the items that match the text.               *)
ResultsMatchQuery ==
  pending = 0 => Elems(bookkeeperItems) = ItemMatches[query]

(* "If you click cancel, the purchase will not be registered": no purchase *)
(* is stored of a dialog that was cancelled.                               *)
CancelledNotRegistered ==
  \A b \in purchases : b.press.dialog \notin dismissed
=============================================================================
