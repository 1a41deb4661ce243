----------------------------- MODULE UploadTask -----------------------------
(***************************************************************************)
(* A Cloud Storage upload: class UploadTask of packages/storage/src/       *)
(* task.ts over its requests, with the server's side of the resumable      *)
(* upload protocol.  Everything runs on the event loop of the page; what   *)
(* interleaves are the application's calls, token fetches, the timer, the  *)
(* connections, and the handlers of promises that have already settled.    *)
(*                                                                         *)
(* Lengths are in units of RESUMABLE_UPLOAD_CHUNK_SIZE.  A blob of one     *)
(* unit is uploaded in one request, a larger one in chunks.                *)
(***************************************************************************)
EXTENDS NetworkRequest, Sequences

CONSTANTS
  Sizes,      \* the sizes a blob may have
  MaxChunk,   \* the chunk size that is never reached
  MaxSleep,   \* maxUploadRetryTime, in units of the smallest sleep
  MaxPauses   \* bounds how often the application pauses

ASSUME SizesAssumption == Sizes \subseteq Nat \ {0}
ASSUME LimitsAssumption ==
  MaxChunk \in Nat \ {0, 1} /\ MaxSleep \in Nat /\ MaxPauses \in Nat

VARIABLES
  task,    \* the fields of UploadTask, its token fetches and its requests
  server,  \* the upload session: units stored, and whether it is finished
  asked,   \* cancel() has returned true
  pauses   \* how often pause() was called

vars == <<task, server, asked, pauses>>

Steps == {"create", "status", "chunk", "metadata", "oneShot"}
Active == {"running", "pausing", "canceling"}
Final == {"success", "canceled", "error"}

Least(m, n) == IF m < n THEN m ELSE n
RemoveAt(q, i) == SubSeq(q, 1, i - 1) \o SubSeq(q, i + 1, Len(q))

Resumable(t) == t.size > 1

(* taskStateFromInternalTaskState.                                         *)
Shown(state) == IF state \in {"pausing", "canceling"} THEN "running" ELSE state

----------------------------------------------------------------------------
(* The methods, as operators on the record t                               *)

(* _resolveToken: the tokens will be there later.                          *)
Fetch(t, step, offset, len) ==
  [t EXCEPT !.fetches =
     Append(@, [step |-> step, offset |-> offset, len |-> len])]

ContinueUpload(t) ==
  Fetch(t, "chunk", t.transferred, Least(t.size - t.transferred, t.multiplier))

(* _start.                                                                 *)
Start(t) ==
  IF t.state # "running" \/ t.request THEN t
  ELSE IF ~Resumable(t) THEN Fetch(t, "oneShot", 0, t.size)
  ELSE IF ~t.url THEN Fetch(t, "create", 0, 0)
  ELSE IF t.needStatus THEN Fetch(t, "status", 0, 0)
  ELSE IF t.needMetadata THEN Fetch(t, "metadata", 0, 0)
  ELSE [t EXCEPT !.timer = TRUE]

(* _transition to a final state, which settles the promise.                *)
End(t, state) ==
  [t EXCEPT !.state = state,
            !.promise = IF state = "success" THEN "resolved" ELSE "rejected"]

CompleteTransitions(t) ==
  CASE t.state = "pausing" -> [t EXCEPT !.state = "paused"]
    [] t.state = "canceling" -> End(t, "canceled")
    [] OTHER -> Start(t)

(* Mutant: stops the timer and leaves it at that.                          *)
InterruptTimerOnly(t, state) ==
  LET stopping == [t EXCEPT !.state = state]
  IN  IF t.request
        THEN [stopping EXCEPT !.requests[Len(t.requests)] = CancelRequest(@)]
        ELSE [stopping EXCEPT !.timer = FALSE]

(* _transition to pausing or canceling: interrupt what is going on.  A     *)
(* token fetch cannot be; its continuation looks at the state.             *)
Interrupt(t, state) ==
  LET stopping == [t EXCEPT !.state = state]
  IN  CASE t.request ->
             [stopping EXCEPT !.requests[Len(t.requests)] = CancelRequest(@)]
        [] ~t.request /\ t.timer ->
             CompleteTransitions([stopping EXCEPT !.timer = FALSE])
        [] OTHER -> stopping

(* Mutant: resuming starts over even before the pause was complete.        *)
RunAlways(t) == Start([t EXCEPT !.state = "running"])

(* _transition to running.                                                 *)
Run(t) ==
  LET running == [t EXCEPT !.state = "running"]
  IN  IF t.state = "paused" THEN Start(running) ELSE running

(* Mutant: no limit to the size of a chunk.                                *)
DoubleMultiplier(t) == [t EXCEPT !.multiplier = 2 * @]

IncreaseMultiplier(t) ==
  IF 2 * t.multiplier < MaxChunk THEN [t EXCEPT !.multiplier = 2 * @] ELSE t

(* What each request's promise does when it resolves.                      *)
Resolved(t, r) ==
  CASE r.step = "create" ->
         CompleteTransitions([t EXCEPT !.url = TRUE, !.needStatus = FALSE])
    [] r.step = "status" ->
         CompleteTransitions(
           [t EXCEPT !.transferred = r.outcome.stored, !.needStatus = FALSE,
                     !.needMetadata = @ \/ r.outcome.final])
    [] r.step = "chunk" ->
         LET on == [IncreaseMultiplier(t) EXCEPT !.transferred = r.offset + r.len]
         IN  IF r.outcome.final THEN End(on, "success")
                                ELSE CompleteTransitions(on)
    [] r.step = "metadata" -> End(t, "success")
    [] r.step = "oneShot" -> End([t EXCEPT !.transferred = t.size], "success")

(* _errorHandler, and _metadataErrorHandler for the metadata, in three     *)
(* parts: the next attempt starts small and asks where it stands.          *)
Afresh(t, r) == IF r.step = "metadata" THEN t ELSE [t EXCEPT !.multiplier = 1]

(* Mutant: trusts its own count of what was transferred.                   *)
AgainTrusting(t, r) == Afresh(t, r)

Again(t, r) ==
  IF r.step = "metadata" THEN t ELSE [Afresh(t, r) EXCEPT !.needStatus = TRUE]

(* Mutant: takes a cancelled request for a cancelled upload.               *)
FailedForGood(t, r) ==
  End(t, IF r.outcome.kind = "canceled" THEN "canceled" ELSE "error")

Failed(t, r) ==
  CASE r.outcome.kind = "canceled" -> CompleteTransitions(Again(t, r))
    [] r.outcome.kind = "retryable" /\ t.sleep <= MaxSleep ->
         CompleteTransitions([Again(t, r) EXCEPT
                                !.sleep = IF @ = 0 THEN 1 ELSE 2 * @])
    [] OTHER -> End(Afresh(t, r), "error")

----------------------------------------------------------------------------
(* The server                                                              *)

Accepts(s, r) ==
  /\ r.step = "chunk" => ~s.final /\ r.offset = s.stored
  /\ r.step = "metadata" => s.final

Process(s, r) ==
  CASE r.step = "create" -> [stored |-> 0, final |-> FALSE]
    [] r.step = "chunk" -> [stored |-> s.stored + r.len,
                            final |-> s.stored + r.len = task.size]
    [] r.step = "oneShot" -> [stored |-> task.size, final |-> TRUE]
    [] OTHER -> s

(* What the server may be left with when the exchange is cut short: of a   *)
(* chunk it may keep any part.                                             *)
Leftovers(s, r) ==
  {s} \union
  IF ~Accepts(s, r)
    THEN {}
    ELSE {Process(s, r)} \union
         {[s EXCEPT !.stored = @ + k] : k \in IF r.step = "chunk" THEN 1 .. r.len ELSE {}}

----------------------------------------------------------------------------
Init ==
  /\ \E size \in Sizes :
       task = Start([state |-> "running", size |-> size, url |-> FALSE,
                     needStatus |-> FALSE, needMetadata |-> FALSE,
                     transferred |-> 0, multiplier |-> 1, sleep |-> 0,
                     timer |-> FALSE, request |-> FALSE, fetches |-> <<>>,
                     requests |-> <<>>, promise |-> "pending"])
  /\ server = [stored |-> 0, final |-> FALSE]
  /\ asked = FALSE
  /\ pauses = 0

(* Calls of the application.  A call that the state does not allow returns *)
(* false and changes nothing.                                              *)
Pause ==
  /\ task.state = "running"
  /\ pauses < MaxPauses
  /\ task' = Interrupt(task, "pausing")
  /\ pauses' = pauses + 1
  /\ UNCHANGED <<server, asked>>

Resume ==
  /\ task.state \in {"paused", "pausing"}
  /\ task' = Run(task)
  /\ UNCHANGED <<server, asked, pauses>>

Cancel ==
  /\ task.state \in {"running", "pausing"}
  /\ task' = Interrupt(task, "canceling")
  /\ asked' = TRUE
  /\ UNCHANGED <<server, pauses>>

(* The continuation of _resolveToken.                                      *)
TokensReady(i) ==
  LET f == task.fetches[i]
      t == [task EXCEPT !.fetches = RemoveAt(@, i)]
  IN  /\ task' =
           IF t.state = "running"
             THEN [t EXCEPT !.request = TRUE,
                            !.requests = Append(@, NewRequest(f.step, f.offset, f.len))]
             ELSE IF t.state \in {"canceling", "pausing"}
                    THEN CompleteTransitions(t) ELSE t
      /\ UNCHANGED <<server, asked, pauses>>

(* The blob cannot be sliced, or is not what it was.                       *)
SliceFails(i) ==
  /\ task.fetches[i].step = "chunk"
  /\ task.state = "running"
  /\ task' = End([task EXCEPT !.fetches = RemoveAt(@, i)], "error")
  /\ UNCHANGED <<server, asked, pauses>>

PendingTimeout ==
  /\ task.timer
  /\ task' = ContinueUpload([task EXCEPT !.timer = FALSE])
  /\ UNCHANGED <<server, asked, pauses>>

----------------------------------------------------------------------------
(* The requests                                                            *)

Requests == DOMAIN task.requests

RetryTimer(i) ==
  /\ task.requests[i].phase = "waiting"
  /\ task' = [task EXCEPT !.requests[i] = RetryTimerFires(@)]
  /\ UNCHANGED <<server, asked, pauses>>

GlobalTimeout(i) ==
  /\ task.requests[i].phase # "settled"
  /\ ~task.requests[i].stopped
  /\ task' = [task EXCEPT !.requests[i] = HitTimeout(@)]
  /\ UNCHANGED <<server, asked, pauses>>

(* An upload progress event of the connection.                             *)
Progress(i) ==
  LET r == task.requests[i]
  IN  /\ r.phase = "sent" /\ r.step = "chunk"
      /\ \E k \in 1 .. r.len :
           task' = [task EXCEPT !.transferred = r.offset + k]
      /\ UNCHANGED <<server, asked, pauses>>

Answer(i) ==
  LET r == task.requests[i]
  IN  /\ r.phase = "sent"
      /\ Accepts(server, r)
      /\ server' = Process(server, r)
      /\ task' = [task EXCEPT !.requests[i] =
                    Settle(@, [kind |-> "ok", stored |-> server'.stored,
                               final |-> server'.final])]
      /\ UNCHANGED <<asked, pauses>>

(* An error that is not worth another attempt.                             *)
Refuse(i) ==
  /\ task.requests[i].phase = "sent"
  /\ task' = [task EXCEPT !.requests[i] = Settle(@, Rejected("fatal"))]
  /\ UNCHANGED <<server, asked, pauses>>

(* A 5xx status: a chunk is rejected with it, other requests try again.    *)
Unavailable(i) ==
  LET r == task.requests[i]
  IN  /\ r.phase = "sent"
      /\ server' \in Leftovers(server, r)
      /\ task' = [task EXCEPT !.requests[i] =
                    IF r.step = "chunk" THEN Settle(@, Rejected("retryable"))
                                        ELSE AttemptFails(@, FALSE)]
      /\ UNCHANGED <<asked, pauses>>

(* The connection fails or is aborted, and the answer with it.  What fails *)
(* is sent again as it is, a chunk too, whatever the server kept of it.    *)
Disconnect(i) ==
  LET r == task.requests[i]
  IN  /\ r.phase = "sent"
      /\ server' \in Leftovers(server, r)
      /\ task' = [task EXCEPT !.requests[i] = AttemptFails(@, r.aborted)]
      /\ UNCHANGED <<asked, pauses>>

(* The handler of a settled promise.                                       *)
Handle(i) ==
  LET r == task.requests[i]
      t == [task EXCEPT !.requests = RemoveAt(@, i), !.request = FALSE]
  IN  /\ r.phase = "settled"
      /\ task' = IF r.outcome.kind = "ok" THEN Resolved(t, r) ELSE Failed(t, r)
      /\ UNCHANGED <<server, asked, pauses>>

----------------------------------------------------------------------------
Connection(i) ==
  Answer(i) \/ Refuse(i) \/ Unavailable(i) \/ Disconnect(i)

Next ==
  \/ Pause \/ Resume \/ Cancel
  \/ PendingTimeout
  \/ \E i \in DOMAIN task.fetches : TokensReady(i) \/ SliceFails(i)
  \/ \E i \in Requests :
       \/ RetryTimer(i) \/ GlobalTimeout(i) \/ Progress(i)
       \/ Connection(i) \/ Handle(i)

Spec == Init /\ [][Next]_vars

(* Timers fire, tokens and connections come to an end, handlers run.       *)
Fairness ==
  /\ WF_vars(PendingTimeout)
  /\ WF_vars(\E i \in DOMAIN task.fetches : TokensReady(i))
  /\ WF_vars(\E i \in Requests : RetryTimer(i))
  /\ WF_vars(\E i \in Requests : GlobalTimeout(i))
  /\ WF_vars(\E i \in Requests : Connection(i))
  /\ WF_vars(\E i \in Requests : Handle(i))

FairSpec == Spec /\ Fairness

----------------------------------------------------------------------------
(* Types                                                                   *)

OutcomeType ==
  [kind : {"pending", "ok", "canceled", "retryable", "fatal"},
   stored : Nat, final : BOOLEAN]

RequestType ==
  [step : Steps, offset : Nat, len : Nat,
   phase : {"waiting", "sent", "settled"}, cancelState : 0 .. 2,
   timedOut : BOOLEAN, stopped : BOOLEAN, aborted : BOOLEAN,
   resent : BOOLEAN, outcome : OutcomeType]

TaskType ==
  [state : Active \union Final \union {"paused"}, size : Sizes, url : BOOLEAN,
   needStatus : BOOLEAN, needMetadata : BOOLEAN, transferred : Nat,
   multiplier : 1 .. MaxChunk, sleep : Nat, timer : BOOLEAN,
   request : BOOLEAN, fetches : Seq([step : Steps, offset : Nat, len : Nat]),
   requests : Seq(RequestType), promise : {"pending", "resolved", "rejected"}]

(* Type invariant of the upload.                                           *)
TypeOK ==
  /\ task \in TaskType
  /\ server \in [stored : Nat, final : BOOLEAN]
  /\ asked \in BOOLEAN
  /\ pauses \in Nat

----------------------------------------------------------------------------
(* Properties                                                              *)

Outstanding(t) ==
  Len(t.fetches) + Len(t.requests) + (IF t.timer THEN 1 ELSE 0)

(* While the task is active exactly one thing is outstanding, a token      *)
(* fetch, a request or the timer, and nothing once it is paused or over:   *)
(* it never uploads twice and never waits for nothing, however pause(),    *)
(* resume() and cancel() fall between them (task.ts, _start, _transition,  *)
(* _resolveToken).  The request is the one that cancel() reaches.          *)
OneOperation ==
  /\ Outstanding(task) = (IF task.state \in Active THEN 1 ELSE 0)
  /\ task.request <=> task.requests # <<>>
  /\ task.timer => task.state = "running"

Meets(o, s) == ~s.final /\ o.offset = s.stored

(* A chunk is first sent where the server expects it, although any earlier *)
(* request may have failed after the server kept what it carried: _start,  *)
(* _errorHandler and _fetchStatus see to it that the upload asks before it *)
(* goes on.  What request.ts repeats of its own accord is not meant.       *)
ChunksStartInStep ==
  \A i \in Requests :
    LET r == task.requests[i]
    IN  r.step = "chunk" /\ r.phase # "settled" /\ ~r.resent => Meets(r, server)

(* Neither is any later attempt made elsewhere ("each retry should be      *)
(* preceded by another query request", task.ts, _continueUpload).  This is *)
(* what the comment says; request.ts repeats a chunk whose connection has  *)
(* failed at its old offset.                                               *)
ChunksMeetServer ==
  \A i \in Requests :
    LET r == task.requests[i]
    IN  r.step = "chunk" /\ r.phase = "waiting" /\ r.cancelState # 2 =>
          Meets(r, server)

(* The upload keeps the promises of UploadProtocol.                        *)
Promised ==
  INSTANCE UploadProtocol WITH state <- Shown(task.state),
                               promise <- task.promise

KeepsProtocol == Promised!Spec

(* Every upload comes to rest: it ends, or a pause takes effect.  A server *)
(* that is never available exhausts the retry time (task.ts,               *)
(* isExponentialBackoffExpired; backoff.ts, hitTimeout).                   *)
ComesToRest == task.state \in Active ~> task.state \notin Active

=============================================================================
