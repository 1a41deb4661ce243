--------------------------- MODULE NetworkRequest ---------------------------
(***************************************************************************)
(* One HTTP request of Cloud Storage: class NetworkRequest of              *)
(* packages/storage/src/implementation/request.ts and the retry loop       *)
(* start() of backoff.ts that drives it.  As its owner holds it, it is a   *)
(* record r and the methods are operators on it.                           *)
(*                                                                         *)
(* Fields of r:                                                            *)
(*   step, offset, len  what it asks of the server: the upload step, and   *)
(*                      for a chunk its first unit and its length          *)
(*   phase        "waiting" for the retry timer, "sent" on a connection,   *)
(*                "settled" with its promise's handlers still to run       *)
(*   cancelState  0, 1 (cancelled while sent) or 2 (cancelled)             *)
(*   timedOut     hitTimeout                                               *)
(*   stopped      stop() was called, by cancel() or by the global timer    *)
(*   aborted      the connection was told to abort                         *)
(*   outcome      what the promise settled with                            *)
(*   resent       history: an attempt failed and is made again             *)
(***************************************************************************)
EXTENDS Naturals

Pending == [kind |-> "pending", stored |-> 0, final |-> FALSE]
Rejected(kind) == [Pending EXCEPT !.kind = kind]

NewRequest(step, offset, len) ==
  [step |-> step, offset |-> offset, len |-> len, phase |-> "waiting",
   cancelState |-> 0, timedOut |-> FALSE, stopped |-> FALSE,
   aborted |-> FALSE, resent |-> FALSE, outcome |-> Pending]

Settle(r, outcome) == [r EXCEPT !.phase = "settled", !.outcome = outcome]

(* The retry timer, if it is set, is set again to fire at once.            *)
Stop(r, wasTimeout) ==
  IF r.stopped \/ r.phase = "settled"
    THEN r
    ELSE [r EXCEPT !.stopped = TRUE,
                   !.cancelState = IF wasTimeout THEN @
                                   ELSE IF r.phase = "waiting" THEN 2 ELSE 1]

CancelRequest(r) ==
  [Stop(r, FALSE) EXCEPT !.aborted = @ \/ r.phase = "sent"]

HitTimeout(r) == Stop([r EXCEPT !.timedOut = TRUE], TRUE)

(* doTheRequest: send it on a new connection, unless it was cancelled.     *)
RetryTimerFires(r) ==
  IF r.cancelState = 2
    THEN Settle(r, Rejected("canceled"))
    ELSE [r EXCEPT !.phase = "sent"]

(* responseHandler(false): the attempt brought no answer worth keeping.    *)
AttemptFails(r, wasCanceled) ==
  IF r.timedOut
    THEN Settle(r, Rejected(IF wasCanceled THEN "canceled" ELSE "fatal"))
    ELSE [r EXCEPT !.phase = "waiting", !.resent = TRUE,
                   !.cancelState = IF @ = 1 THEN 2 ELSE @]

=============================================================================
