--------------------------- MODULE UploadProtocol ---------------------------
(***************************************************************************)
(* What an upload promises its application: it runs, pauses and resumes;   *)
(* nothing reaches the server unless it runs; it ends once, successfully   *)
(* only when the server holds the finished object, as canceled only if     *)
(* that was asked for; and its promise is settled as it ends.              *)
(***************************************************************************)
VARIABLES
  state,    \* TaskState, as the application sees it
  promise,  \* "pending", "resolved" or "rejected"
  server,   \* whatever the server has; server.final: the object is finished
  asked     \* cancel() has returned true

vars == <<state, promise, server, asked>>

Init ==
  /\ state = "running"
  /\ promise = "pending"
  /\ ~server.final
  /\ ~asked

Transfer == state = "running" /\ UNCHANGED <<state, promise, asked>>

Move(from, to) ==
  /\ state = from
  /\ state' = to
  /\ UNCHANGED <<promise, server, asked>>

AskToCancel ==
  /\ state = "running"
  /\ asked'
  /\ UNCHANGED <<state, promise, server>>

End(to, verdict) ==
  /\ state = "running"
  /\ promise = "pending"
  /\ state' = to
  /\ promise' = verdict
  /\ UNCHANGED server

Succeed == server.final /\ End("success", "resolved") /\ UNCHANGED asked
Fail == End("error", "rejected") /\ UNCHANGED asked
EndCanceled == asked' /\ End("canceled", "rejected")

Next ==
  \/ Transfer
  \/ Move("running", "paused") \/ Move("paused", "running")
  \/ AskToCancel
  \/ Succeed \/ Fail \/ EndCanceled

Spec == Init /\ [][Next]_vars

=============================================================================
