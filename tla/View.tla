-------------------------------- MODULE View --------------------------------
(***************************************************************************)
(* class View (packages/firestore/src/core/view.ts): the result of one     *)
(* listened query, for a query with no limit and documents with no local   *)
(* mutation.  A view v is                                                  *)
(*   docs     documentSet: key -> contents, Absent when not in the set     *)
(*   synced   syncedDocuments, the keys the backend maps to the query      *)
(*   limbo    limboDocuments                                               *)
(*   current  the backend said that it sent everything                     *)
(*   state    syncState: "none" before the first snapshot, Local, Synced   *)
(***************************************************************************)
EXTENDS FiniteSets

CONSTANTS Keys,     \* document keys
          Absent,   \* the contents of a document that does not exist
          NoUpdate  \* no target change

NewView(remoteKeys) ==
  [docs |-> [k \in Keys |-> Absent], synced |-> remoteKeys,
   limbo |-> {}, current |-> FALSE, state |-> "none"]

(* computeDocChanges: changed maps the changed keys to their contents;     *)
(* matching is what the query accepts.                                     *)
ComputeDocChanges(v, matching, changed) ==
  [k \in Keys |->
     IF k \notin DOMAIN changed THEN v.docs[k]
     ELSE IF changed[k] \in matching THEN changed[k] ELSE Absent]

ApplyTargetChange(v, change) ==
  IF change = NoUpdate THEN v
  ELSE [v EXCEPT !.synced  = (@ \cup change.added) \ change.removed,
                 !.current = change.current]

ShouldBeInLimbo(v, key) == key \notin v.synced /\ v.docs[key] # Absent

UpdateLimboDocuments(v) ==
  IF ~v.current THEN v
  ELSE [v EXCEPT !.limbo = {k \in Keys : ShouldBeInLimbo(v, k)}]

(* applyChanges: the view, whether a snapshot is raised, and how the limbo *)
(* documents change.                                                       *)
ApplyChanges(v, docs, limboResolutionEnabled, change, pendingReset) ==
  LET told   == ApplyTargetChange([v EXCEPT !.docs = docs], change)
      seen   == IF limboResolutionEnabled /\ ~pendingReset
                  THEN UpdateLimboDocuments(told) ELSE told
      synced == seen.limbo = {} /\ seen.current /\ ~pendingReset
      done   == [seen EXCEPT !.state = IF synced THEN "Synced" ELSE "Local"]
  IN  [view    |-> done,
       raised  |-> done.docs # v.docs \/ done.state # v.state,
       added   |-> done.limbo \ v.limbo,
       removed |-> v.limbo \ done.limbo]

(* applyOnlineStateChange                                                  *)
ApplyOnlineStateChange(v, onlineState) ==
  IF v.current /\ onlineState = "Offline"
    THEN ApplyChanges([v EXCEPT !.current = FALSE], v.docs, FALSE,
                      NoUpdate, FALSE).view
    ELSE v

=============================================================================
