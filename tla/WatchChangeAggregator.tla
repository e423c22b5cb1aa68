----------------------- MODULE WatchChangeAggregator -----------------------
(***************************************************************************)
(* WatchChangeAggregator and TargetState (remote/remote_event.cc): what the *)
(* server says of the targets is gathered in c.agg until a snapshot makes   *)
(* one event of it.  c.listen maps each target listened to its resume token *)
(* (0 for none), c.keys is GetRemoteKeysForTarget.  Which documents are     *)
(* known only to limbo targets, a hint for garbage collection, is left out. *)
(***************************************************************************)
EXTENDS Stream, FiniteSets, FiniteSetsExt, Functions, TLC

CONSTANTS
  Targets,
  Keys,           \* documents
  Matching,       \* Matching[t]: the documents target t asks for
  DocumentTargets \* the targets that are document queries

EmptyMap == [x \in {} |-> 0]
NewTarget ==
  [out |-> 0, current |-> FALSE, changes |-> EmptyMap, pending |-> TRUE, token |-> 0]
NewAggregator == [targets |-> EmptyMap, docs |-> EmptyMap, resets |-> {}]

EnsureTargetState(c, t) ==
  IF t \in DOMAIN c.agg.targets THEN c
  ELSE [c EXCEPT !.agg.targets = (t :> NewTarget) @@ @]

\* IsPending of a target that has a state.
IsPending(c, t) == t \in DOMAIN c.agg.targets /\ c.agg.targets[t].out # 0

\* Only whether the target is listened to.
IsListened(c, t) == t \in DOMAIN c.listen

IsActiveTarget(c, t) == t \in DOMAIN c.listen /\ ~IsPending(c, t)

RecordPendingTargetRequest(c, t) ==
  [EnsureTargetState(c, t) EXCEPT !.agg.targets[t].out = @ + 1]

UpdateResumeToken(c, t, token) ==
  IF token = 0 THEN c
  ELSE [c EXCEPT !.agg.targets[t].pending = TRUE, !.agg.targets[t].token = token]

RemoveTarget(c, t) ==
  [c EXCEPT !.agg.targets = Restrict(@, DOMAIN @ \ {t})]

AddDocumentToTarget(c, t, k) ==
  IF ~IsActiveTarget(c, t) THEN c
  ELSE [EnsureTargetState(c, t)
          EXCEPT !.agg.targets[t].pending = TRUE,
                 !.agg.targets[t].changes =
                   (k :> IF k \in c.keys[t] THEN "Modified" ELSE "Added") @@ @,
                 !.agg.docs = (k :> "found") @@ @]

\* doc is what is now known of the document: "gone", or None when it only
\* left the target.
RemoveDocumentFromTarget(c, t, k, doc) ==
  IF ~IsActiveTarget(c, t) THEN c
  ELSE [EnsureTargetState(c, t)
          EXCEPT !.agg.targets[t].pending = TRUE,
                 !.agg.targets[t].changes =
                   IF k \in c.keys[t] THEN (k :> "Removed") @@ @
                   ELSE Restrict(@, DOMAIN @ \ {k}),
                 !.agg.docs = IF doc = None THEN @ ELSE (k :> doc) @@ @]

ResetTarget(c, t) ==
  LET fresh == [HardAssert(c, t \in DOMAIN c.agg.targets /\ ~IsPending(c, t),
                           "Should only reset active targets")
                  EXCEPT !.agg.targets[t] = NewTarget]
  IN FoldSet(LAMBDA k, d : RemoveDocumentFromTarget(d, t, k, None), fresh, c.keys[t])

HandleDocumentChange(c, m) ==
  LET updated == FoldSet(LAMBDA t, d : IF m.doc = "found" THEN AddDocumentToTarget(d, t, m.key)
                                       ELSE RemoveDocumentFromTarget(d, t, m.key, m.doc),
                         c, m.updated)
  IN FoldSet(LAMBDA t, d : RemoveDocumentFromTarget(d, t, m.key, m.doc), updated, m.removed)

GetTargetIds(c, m) ==
  IF m.targets # {} THEN m.targets
  ELSE {t \in DOMAIN c.agg.targets : IsActiveTarget(c, t)}

\* One target of a target change.
HandleOneTarget(c, t, m) ==
  LET e == EnsureTargetState(c, t)
      answered == [e EXCEPT !.agg.targets[t].out = @ - 1]
  IN CASE m.state = "NoChange" ->
            IF IsActiveTarget(e, t) THEN UpdateResumeToken(e, t, m.token) ELSE e
       [] m.state = "Added" ->
            UpdateResumeToken(
              IF IsPending(answered, t) THEN answered
              ELSE [answered EXCEPT !.agg.targets[t].pending = FALSE,
                                    !.agg.targets[t].changes = EmptyMap],
              t, m.token)
       [] m.state = "Removed" ->
            IF IsPending(answered, t) THEN answered ELSE RemoveTarget(answered, t)
       [] m.state = "Current" ->
            IF IsActiveTarget(e, t)
            THEN UpdateResumeToken([e EXCEPT !.agg.targets[t].pending = TRUE,
                                             !.agg.targets[t].current = TRUE], t, m.token)
            ELSE e
       [] m.state = "Reset" ->
            IF IsActiveTarget(e, t) THEN UpdateResumeToken(ResetTarget(e, t), t, m.token) ELSE e

HandleTargetChange(c, m) ==
  FoldSet(LAMBDA t, d : HandleOneTarget(d, t, m), c, GetTargetIds(c, m))

KeysWith(changes, type) == {k \in DOMAIN changes : changes[k] = type}

GetCurrentDocumentCountForTarget(c, t) ==
  LET changes == c.agg.targets[t].changes
  IN Cardinality(c.keys[t]) + Cardinality(KeysWith(changes, "Added"))
       - Cardinality(KeysWith(changes, "Removed"))

HandleExistenceFilter(c, m) ==
  LET t == m.target
      e == EnsureTargetState(c, t)
  IN IF ~IsActiveTarget(c, t) THEN c
     ELSE IF t \in DocumentTargets
     THEN IF m.count = 0
          THEN RemoveDocumentFromTarget(c, t, CHOOSE k \in Matching[t] : TRUE, "gone")
          ELSE HardAssert(c, m.count = 1, "Single document existence filter")
     ELSE IF GetCurrentDocumentCountForTarget(e, t) = m.count THEN e
     ELSE [ResetTarget(e, t) EXCEPT !.agg.resets = @ \cup {t}]

\* A document query that is current without its document: the document does
\* not exist.
SynthesizeDelete(c, t) ==
  LET k == CHOOSE k \in Matching[t] : TRUE
  IN IF /\ IsActiveTarget(c, t) /\ t \in DocumentTargets /\ c.agg.targets[t].current
        /\ k \notin DOMAIN c.agg.docs /\ k \notin c.keys[t]
     THEN RemoveDocumentFromTarget(c, t, k, "gone") ELSE c

\* CreateRemoteEvent: the client with the deletes synthesized, the event made
\* of it, and the client once the changes have been handed over.
Synthesized(c) ==
  FoldSet(LAMBDA t, d : SynthesizeDelete(d, t), c, DOMAIN c.agg.targets)

RemoteEventOf(c, version) ==
  [version |-> version, docs |-> c.agg.docs, mismatches |-> c.agg.resets,
   changes |-> Restrict(c.agg.targets, {t \in DOMAIN c.agg.targets :
                          IsActiveTarget(c, t) /\ c.agg.targets[t].pending})]

HandedOver(c) ==
  [c EXCEPT !.agg.docs = EmptyMap, !.agg.resets = {},
            !.agg.targets = [t \in DOMAIN @ |->
               IF IsActiveTarget(c, t)
               THEN [@[t] EXCEPT !.pending = FALSE, !.changes = EmptyMap] ELSE @[t]]]
=============================================================================
