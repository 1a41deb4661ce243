----------------------- MODULE WatchChangeAggregator -----------------------
(***************************************************************************)
(* class WatchChangeAggregator (packages/firestore/src/remote/             *)
(* watch_change.ts): collects the messages of one watch stream between two *)
(* global snapshots, per remote target.  It is data owned by the           *)
(* RemoteStore, so its methods are operators on a record a:                *)
(*   states  remote target id -> TargetState                               *)
(*   docs    pendingDocumentUpdates: key -> document or NoUpdate           *)
(*   seen    pendingDocumentUpdatesByTarget, as pairs <<key, target>>      *)
(*   resets  pendingTargetResets                                           *)
(* The TargetMetadataProvider is the argument md: a function on the remote *)
(* targets in listenTargets, to the keys the SyncEngine knows for the      *)
(* target and, for a single-document target, its key in a singleton.       *)
(* Versions are naturals, 0 being SnapshotVersion.min(); a resume token is *)
(* the version it stands for, 0 being the empty token.  What only garbage  *)
(* collection and pipelines read (resolvedLimboDocuments, augmented        *)
(* updates) is left out.                                                   *)
(***************************************************************************)
EXTENDS Integers, FiniteSets

CONSTANTS Keys,     \* document keys
          Absent,   \* the contents of a document that does not exist
          NoUpdate  \* no document

NoDocument(ver) == [data |-> Absent, ver |-> ver]

FreshTargetState ==
  [pending |-> 0, current |-> FALSE, token |-> 0, dirty |-> TRUE,
   changes |-> [k \in Keys |-> "none"]]

FreshAggregator ==
  [states |-> << >>, docs |-> [k \in Keys |-> NoUpdate],
   seen |-> {}, resets |-> {}]

WithState(a, t, ts) ==
  [a EXCEPT !.states = [u \in DOMAIN @ \cup {t} |-> IF u = t THEN ts ELSE @[u]]]

RemoveTarget(a, t) ==
  [a EXCEPT !.states = [u \in DOMAIN @ \ {t} |-> @[u]]]

(* Requests that the backend has not answered yet are only counted.        *)
RecordPendingTargetRequest(a, t) ==
  LET ts == IF t \in DOMAIN a.states THEN a.states[t] ELSE FreshTargetState
  IN  WithState(a, t, [ts EXCEPT !.pending = @ + 1])

(* isActiveTarget: every request answered, and still listened to.          *)
IsActiveTarget(a, md, t) ==
  /\ t \in DOMAIN a.states
  /\ a.states[t].pending = 0
  /\ t \in DOMAIN md

UpdateResumeToken(ts, token) ==
  IF token = 0 THEN ts ELSE [ts EXCEPT !.token = token, !.dirty = TRUE]

ClearPendingChanges(ts) ==
  [ts EXCEPT !.dirty = FALSE, !.changes = [k \in Keys |-> "none"]]

AddDocumentToTarget(a, md, t, key, doc) ==
  IF ~IsActiveTarget(a, md, t) THEN a
  ELSE LET change == IF key \in md[t].keys THEN "modified" ELSE "added"
           ts     == a.states[t]
       IN  [WithState(a, t, [ts EXCEPT !.dirty = TRUE, !.changes[key] = change])
              EXCEPT !.docs[key] = doc, !.seen = @ \cup {<<key, t>>}]

RemoveDocumentFromTarget(a, md, t, key, doc) ==
  IF ~IsActiveTarget(a, md, t) THEN a
  ELSE LET change == IF key \in md[t].keys THEN "removed" ELSE "none"
           ts     == a.states[t]
       IN  [WithState(a, t, [ts EXCEPT !.dirty = TRUE, !.changes[key] = change])
              EXCEPT !.docs[key] = IF doc = NoUpdate THEN @ ELSE doc]

(* The removal of a set of documents that come with no contents.           *)
RemoveKeys(a, md, t, gone) ==
  IF ~IsActiveTarget(a, md, t) THEN a
  ELSE LET ts == a.states[t]
       IN  WithState(a, t,
             [ts EXCEPT
                !.dirty   = @ \/ gone # {},
                !.changes = [k \in Keys |->
                               IF k \notin gone THEN @[k]
                               ELSE IF k \in md[t].keys THEN "removed"
                               ELSE "none"]])

(* resetTarget: start over; what is not sent again is removed.             *)
ResetTarget(a, md, t) ==
  RemoveKeys(WithState(a, t, FreshTargetState), md, t, md[t].keys)

HandleDocumentChange(a, md, m) ==
  IF m.member THEN AddDocumentToTarget(a, md, m.t, m.key, m.doc)
  ELSE RemoveDocumentFromTarget(a, md, m.t, m.key, m.doc)

(* recordTargetResponse                                                    *)
Answered(ts) == [ts EXCEPT !.pending = @ - 1]

HandleAdded(a, t, token) ==
  IF t \notin DOMAIN a.states THEN a
  ELSE LET ts      == Answered(a.states[t])
           settled == IF ts.pending = 0 THEN ClearPendingChanges(ts) ELSE ts
       IN  WithState(a, t, UpdateResumeToken(settled, token))

HandleRemoved(a, t) ==
  IF t \notin DOMAIN a.states THEN a
  ELSE LET ts == Answered(a.states[t])
       IN  IF ts.pending = 0 THEN RemoveTarget(a, t) ELSE WithState(a, t, ts)

HandleCurrent(a, md, t, token) ==
  IF ~IsActiveTarget(a, md, t) THEN a
  ELSE WithState(a, t, UpdateResumeToken(
         [a.states[t] EXCEPT !.current = TRUE, !.dirty = TRUE], token))

(* Mutant: a RESET keeps the documents mapped to the target.               *)
ResetKeepsDocuments(a, md, t) ==
  IF IsActiveTarget(a, md, t) THEN WithState(a, t, FreshTargetState) ELSE a

(* A RESET's own resume token goes to the TargetState that resetTarget has *)
(* just replaced, so it is lost.                                           *)
HandleReset(a, md, t) ==
  IF IsActiveTarget(a, md, t) THEN ResetTarget(a, md, t) ELSE a

(* NoChange, addressed to every active target.                             *)
HandleNoChange(a, md, token) ==
  [a EXCEPT !.states = [t \in DOMAIN @ |->
     IF IsActiveTarget(a, md, t) THEN UpdateResumeToken(@[t], token) ELSE @[t]]]

CurrentDocumentCount(a, md, t) ==
  LET With(change) == {k \in Keys : a.states[t].changes[k] = change}
  IN  Cardinality(md[t].keys) + Cardinality(With("added"))
        - Cardinality(With("removed"))

(* handleExistenceFilter.  m.might is what the bloom filter cannot rule    *)
(* out, NoUpdate when the message has none.                                *)
HandleExistenceFilter(a, md, m) ==
  LET t       == m.t
      size    == CurrentDocumentCount(a, md, t)
      ruled   == IF m.might = NoUpdate THEN {} ELSE md[t].keys \ m.might
      trimmed == RemoveKeys(a, md, t, ruled)
      Mismatch == [ResetTarget(trimmed, md, t) EXCEPT !.resets = @ \cup {t}]
  IN  IF ~IsActiveTarget(a, md, t) THEN a
      ELSE IF md[t].single # {}
        THEN IF m.count # 0 THEN a
             ELSE LET key == CHOOSE k \in md[t].single : TRUE
                  IN  RemoveDocumentFromTarget(a, md, t, key, NoDocument(0))
      ELSE IF size = m.count THEN a
      ELSE IF m.might # NoUpdate /\ m.count = size - Cardinality(ruled)
        THEN trimmed
      ELSE Mismatch

(* Mutant: no delete is made up.                                           *)
NothingMadeUp(a, md) == {}

(* A current single-document target whose document was never sent: the     *)
(* document does not exist.                                                *)
NeverSent(a, md) ==
  {p \in Keys \X DOMAIN a.states :
     LET key == p[1]
         t   == p[2]
     IN  /\ IsActiveTarget(a, md, t)
         /\ a.states[t].current
         /\ key \in md[t].single
         /\ <<key, t>> \notin a.seen
         /\ key \notin md[t].keys}

(* toTargetChange                                                          *)
ToTargetChange(ts) ==
  LET With(change) == {k \in Keys : ts.changes[k] = change}
  IN  [token |-> ts.token, current |-> ts.current, added |-> With("added"),
       modified |-> With("modified"), removed |-> With("removed")]

(* createRemoteEvent: the event, and the aggregator that is left.          *)
CreateRemoteEvent(a, md, version) ==
  LET lost     == NeverSent(a, md)
      states   == [t \in DOMAIN a.states |->
                     IF \E key \in Keys : <<key, t>> \in lost
                       THEN [a.states[t] EXCEPT
                               !.dirty = TRUE,
                               !.changes = [k \in Keys |->
                                 IF <<k, t>> \in lost THEN "none" ELSE @[k]]]
                       ELSE a.states[t]]
      raised   == {t \in DOMAIN states :
                     IsActiveTarget(a, md, t) /\ states[t].dirty}
  IN  [event |-> [version    |-> version,
                  changes    |-> [t \in raised |-> ToTargetChange(states[t])],
                  mismatches |-> a.resets,
                  docs       |-> [k \in Keys |->
                                    IF \E t \in DOMAIN states : <<k, t>> \in lost
                                      THEN NoDocument(version) ELSE a.docs[k]]],
       left  |-> [FreshAggregator EXCEPT
                    !.states = [t \in DOMAIN states |->
                                  IF t \in raised
                                    THEN ClearPendingChanges(states[t])
                                    ELSE states[t]]]]

=============================================================================
