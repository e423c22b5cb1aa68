---------------------------- MODULE MCFirestore -----------------------------
(***************************************************************************)
(* An instance of Firestore.                                               *)
(***************************************************************************)
EXTENDS Firestore, Integers, Sequences, TLC

CONSTANTS u1, u2, theWorker, c1, l1

\* RemoteStore: a collection target and a document target over two documents,
\* whose listens, writes, losses and changes are counted out.
MCMatching == [t \in {"all", "one"} |-> IF t = "all" THEN {"d1", "d2"} ELSE {"d2"}]

NothingLeft ==
  [x \in {"writes", "listens", "stops", "toggles", "restarts", "shutdowns", "denials",
          "refusals", "changes", "breaks", "expiries", "garbles"} |-> 0]
\* Of every event as many as the map says.
Up(map) == map @@ NothingLeft
S(map, targets, bad, statuses) ==
  [left |-> Up(map), targets |-> targets, bad |-> bad, statuses |-> statuses,
   docs |-> {"d1"}, filters |-> {"after"}]
\* The server never sends an existence filter.
Unfiltered(scenario_) == [scenario_ EXCEPT !.filters = {}]
\* It sends it before or after it calls the target current.
FilteredAnywhere(scenario_) == [scenario_ EXCEPT !.filters = {"before", "after"}]
Lost == {"unavailable"}

MCScenarios ==
  { \* writes over a connection that breaks, one of them refused
    S("writes" :> 4 @@ "breaks" :> 2, {}, {2}, Lost),
    S("writes" :> 3 @@ "breaks" :> 1 @@ "restarts" :> 1, {}, {3}, {"exhausted", "aborted"}),
    S("writes" :> 2 @@ "breaks" :> 1 @@ "toggles" :> 2, {}, {1}, Lost),
    S("writes" :> 2 @@ "denials" :> 1 @@ "expiries" :> 1 @@ "breaks" :> 1, {}, {},
      {"unauthenticated"}),
    S("writes" :> 3 @@ "garbles" :> 1 @@ "breaks" :> 1, {}, {2}, Lost),
    \* targets whose documents change
    FilteredAnywhere(S("listens" :> 1 @@ "changes" :> 2 @@ "breaks" :> 2, {"all"}, {}, Lost)),
    Unfiltered(S("listens" :> 3 @@ "stops" :> 2 @@ "changes" :> 1, {"all"}, {}, Lost)),
    S("listens" :> 2 @@ "changes" :> 1 @@ "restarts" :> 1 @@ "breaks" :> 1, {"all", "one"}, {}, Lost),
    S("listens" :> 2 @@ "stops" :> 1 @@ "changes" :> 1 @@ "toggles" :> 2, {"one"}, {}, Lost),
    FilteredAnywhere(S("listens" :> 2 @@ "stops" :> 1 @@ "changes" :> 1 @@ "breaks" :> 1,
                       {"all"}, {}, Lost)),
    S("listens" :> 2 @@ "refusals" :> 1 @@ "breaks" :> 1, {"all", "one"}, {}, Lost),
    S("listens" :> 1 @@ "changes" :> 1 @@ "garbles" :> 1 @@ "breaks" :> 1, {"all"}, {}, Lost),
    \* both streams
    S("listens" :> 1 @@ "writes" :> 1 @@ "stops" :> 1 @@ "breaks" :> 1 @@ "shutdowns" :> 1,
      {"one"}, {}, Lost)
  }

\* A listen the user gives up is refused.
MCRefused == {S("listens" :> 2 @@ "stops" :> 1 @@ "refusals" :> 1, {"all"}, {}, Lost)}

\* A message with a field of every kind, whose writer knows three more.
F(tag, label, type, bits, fields) ==
  [tag |-> tag, label |-> label, type |-> type, bits |-> bits, fields |-> fields]
MCLeaf == <<F(1, "singular", "uvarint", 10, <<>>), F(2, "singular", "bytes", 0, <<>>)>>
MCSchema ==
  <<F(1, "singular", "varint", 10, <<>>), F(2, "oneof", "bytes", 0, <<>>),
    F(3, "oneof", "message", 0, MCLeaf), F(4, "repeated", "varint", 10, <<>>),
    F(5, "repeated", "message", 0, MCLeaf), F(17, "optional", "message", 0, MCLeaf),
    F(6, "oneof", "bool", 0, <<>>), F(7, "singular", "message", 0, MCLeaf)>>
MCWriter ==
  MCSchema \o <<F(8, "singular", "varint", 22, <<>>), F(9, "singular", "bytes", 0, <<>>),
                F(10, "singular", "fixed", 0, <<>>)>>
Leaf(v, b) == [t \in {1, 2} |-> IF t = 1 THEN <<v>> ELSE b]
Bare == Leaf(200, <<>>)
Full == Leaf(1, <<<<7>>>>)
Default == [t \in 1..10 \cup {17} |->
  CASE t \in {1, 8, 10} -> <<0>> [] t = 7 -> <<Leaf(0, <<>>)>> [] OTHER -> <<>>]
With(t, values) == [Default EXCEPT ![t] = values]
MCMessages ==
  {With(1, <<v>>) : v \in {200, -1, -512}} \cup {With(2, <<b>>) : b \in {<<>>, <<3, 4>>}}
  \cup {With(t, <<m>>) : t \in {3, 7, 17}, m \in {Full, Bare}}
  \cup {With(4, s) : s \in {<<1>>, <<-2, 300>>}}
  \cup {With(5, s) : s \in {<<Full>>, <<Bare, Full>>}} \cup {With(6, <<1>>)}
  \cup {[With(8, <<-3>>) EXCEPT ![9] = <<<<1>>>>, ![10] = <<515>>]}

\* User keys with common beginnings, two of which the filter confuses.
MCUserKeys == {<<1>>, <<1, 1>>, <<1, 3>>, <<3>>}
MCHash(u) == IF Len(u) = 1 THEN 1 ELSE u[2]
=============================================================================
