--------------------------- MODULE ReliableWrites ---------------------------
(***************************************************************************)
(* What the write path promises an application, whatever the network does. *)
(* Each user's batches are handed to the backend in the order they were    *)
(* written and under that user's credentials; a batch leaves the user's    *)
(* queue only from the front, and only as the backend decided it; and the  *)
(* promise of a write is settled with that decision.  A batch may be       *)
(* applied more than once: delivery is at least once.                      *)
(***************************************************************************)
EXTENDS Naturals, Sequences

CONSTANTS Users

VARIABLES
  author,   \* author[b]: the user that wrote batch b, in order of writing
  promise,  \* promise[b]: what the application was told about batch b
  pending,  \* pending[u]: the batches of u that still await a decision
  applied,  \* <<b, u>>: the backend committed b under u's credentials
  refused   \* the batches the backend refused for good

vars == <<author, promise, pending, applied, refused>>

Batches == 1 .. Len(author)

Init ==
  /\ author = <<>>
  /\ promise = <<>>
  /\ pending = [u \in Users |-> <<>>]
  /\ applied = {}
  /\ refused = {}

Submit(u) ==
  /\ author' = Append(author, u)
  /\ promise' = Append(promise, "pending")
  /\ pending' = [pending EXCEPT ![u] = Append(@, Len(author) + 1)]
  /\ UNCHANGED <<applied, refused>>

(* No batch overtakes an earlier undecided batch of the same user.         *)
InTurn(b) ==
  \A e \in 1 .. b - 1 :
    author[e] = author[b] => <<e, author[e]>> \in applied \/ e \in refused

Apply(b) ==
  /\ InTurn(b)
  /\ applied' = applied \union {<<b, author[b]>>}
  /\ UNCHANGED <<author, promise, pending, refused>>

Refuse(b) ==
  /\ InTurn(b)
  /\ refused' = refused \union {b}
  /\ UNCHANGED <<author, promise, pending, applied>>

Settle(u, verdict) ==
  LET b == Head(pending[u])
  IN  /\ pending' = [pending EXCEPT ![u] = Tail(@)]
      /\ promise' = [promise EXCEPT
                       ![b] = IF @ = "pending" THEN verdict ELSE @]
      /\ UNCHANGED <<author, applied, refused>>

Acknowledge(u) ==
  /\ pending[u] # <<>>
  /\ <<Head(pending[u]), u>> \in applied
  /\ Settle(u, "resolved")

Reject(u) ==
  /\ pending[u] # <<>>
  /\ Head(pending[u]) \in refused
  /\ Settle(u, "rejected")

(* The page goes away: nobody is left to be told.                          *)
Forget ==
  /\ promise' = [b \in Batches |->
                   IF promise[b] = "pending" THEN "lost" ELSE promise[b]]
  /\ UNCHANGED <<author, pending, applied, refused>>

Next ==
  \/ \E u \in Users : Submit(u) \/ Acknowledge(u) \/ Reject(u)
  \/ \E b \in Batches : Apply(b) \/ Refuse(b)
  \/ Forget

Spec == Init /\ [][Next]_vars

=============================================================================
