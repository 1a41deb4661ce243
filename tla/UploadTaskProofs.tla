-------------------------- MODULE UploadTaskProofs --------------------------
(***************************************************************************)
(* Proofs about UploadTask, for blobs of any size and any limits:          *)
(*   UploadTyped, OneOperationAlways   its type and its one operation      *)
(*   ProtocolKept                      it implements UploadProtocol        *)
(*   ChunksAlwaysStartInStep           a chunk is first sent where the     *)
(*                                     server expects it                   *)
(***************************************************************************)
EXTENDS UploadTask, SequenceTheorems, TLAPS

----------------------------------------------------------------------------
(* The inductive invariant                                                 *)

FetchType == [step : Steps, offset : Nat, len : Nat]
ServerType == [stored : Nat, final : BOOLEAN]

Verdict(state) ==
  CASE state = "success" -> "resolved"
    [] state \in {"canceled", "error"} -> "rejected"
    [] OTHER -> "pending"

(* What a task asks for in its present shape, within the blob.             *)
Fits(t, o) ==
  /\ o.offset + o.len <= t.size
  /\ o.step = "create" => Resumable(t) /\ ~t.url
  /\ o.step \in {"status", "chunk", "metadata"} => Resumable(t) /\ t.url
  /\ o.step = "oneShot" => ~Resumable(t)

(* A request that was told to stop knows why, and a cancelled one is not   *)
(* sent.                                                                   *)
Stoppable(r) ==
  /\ (r.stopped \/ r.aborted) /\ r.phase # "settled" =>
       r.timedOut \/ r.cancelState # 0
  /\ r.phase = "sent" => r.cancelState # 2

Idle(t) ==
  /\ t \in TaskType
  /\ t.fetches = <<>> /\ t.requests = <<>> /\ ~t.timer /\ ~t.request
  /\ t.transferred <= t.size
  /\ t.promise = Verdict(t.state)

Single(t) ==
  /\ Outstanding(t) = (IF t.state \in Active THEN 1 ELSE 0)
  /\ t.request <=> t.requests # <<>>
  /\ t.timer => t.state = "running"

Sound(t) ==
  /\ t \in TaskType
  /\ Single(t)
  /\ t.transferred <= t.size
  /\ t.promise = Verdict(t.state)
  /\ t.timer => Resumable(t) /\ t.url
  /\ \A i \in DOMAIN t.fetches : Fits(t, t.fetches[i])
  /\ \A i \in DOMAIN t.requests :
       /\ Fits(t, t.requests[i])
       /\ Stoppable(t.requests[i])
       /\ t.requests[i].outcome.stored <= t.size

(* An answer that waits for its handler is still true of the server.       *)
Honest(t, s) ==
  \A i \in DOMAIN t.requests :
    LET r == t.requests[i]
    IN  r.phase = "settled" /\ r.outcome.kind = "ok" =>
          /\ r.outcome.stored = s.stored
          /\ r.outcome.final = s.final
          /\ r.step \in {"metadata", "oneShot"} => s.final
          /\ r.step = "chunk" => s.stored = r.offset + r.len

Inv ==
  /\ Sound(task)
  /\ server \in ServerType
  /\ server.stored <= task.size
  /\ Honest(task, server)
  /\ task.state \in {"canceling", "canceled"} => asked
  /\ asked \in BOOLEAN
  /\ pauses \in Nat

(* The task knows where the server is, or knows that it has to ask.        *)
InStep(t, s) ==
  /\ Resumable(t) /\ ~t.url => s.stored = 0 /\ ~s.final /\ t.transferred = 0
  /\ /\ Resumable(t) /\ t.url /\ ~t.needStatus /\ ~t.needMetadata
     /\ t.state \notin Final
     /\ \A i \in DOMAIN t.requests : t.requests[i].step # "chunk"
     => ~s.final /\ t.transferred = s.stored
  /\ t.timer => ~s.final /\ t.transferred = s.stored
  /\ \A i \in DOMAIN t.fetches :
       t.fetches[i].step = "chunk" => Meets(t.fetches[i], s)
  /\ \A i \in DOMAIN t.requests :
       LET r == t.requests[i]
       IN  r.step = "chunk" /\ r.phase # "settled" /\ ~r.resent => Meets(r, s)

----------------------------------------------------------------------------
(* Sequences of one element                                                *)

(* Taking the only element away leaves nothing.                            *)
LEMMA RemoveOnly ==
  ASSUME NEW S, NEW q \in Seq(S), Len(q) = 1, NEW i \in DOMAIN q
  PROVE  RemoveAt(q, i) = <<>>
<1>1. i = 1
  BY LenProperties
<1>2. SubSeq(q, 1, 0) = <<>> /\ SubSeq(q, 2, 1) = <<>>
  BY SubSeqEmpty
<1>3. <<>> \in Seq(S)
  BY EmptySeq
<1> QED BY <1>1, <1>2, <1>3, ConcatEmptySeq DEF RemoveAt

(* A sequence that only just got its first element.                        *)
LEMMA AppendFirst ==
  ASSUME NEW S, NEW x \in S
  PROVE  /\ Append(<<>>, x) \in Seq(S)
         /\ Len(Append(<<>>, x)) = 1
         /\ DOMAIN Append(<<>>, x) = {1}
         /\ Append(<<>>, x)[1] = x
<1>1. <<>> \in Seq(S) /\ Len(<<>>) = 0
  BY EmptySeq
<1>2. Append(<<>>, x) \in Seq(S) /\ Len(Append(<<>>, x)) = 1
      /\ Append(<<>>, x)[1] = x
  BY <1>1, AppendProperties
<1> QED BY <1>2, LenProperties

----------------------------------------------------------------------------
(* The operators on the record                                             *)

(* Nothing is outstanding for an idle task.                                *)
LEMMA IdleOutstanding ==
  ASSUME NEW t, Idle(t)
  PROVE  Outstanding(t) = 0
BY EmptySeq DEF Idle, Outstanding

(* An idle task that may rest where it is is sound.                        *)
LEMMA IdleSound ==
  ASSUME NEW t, Idle(t), t.state \notin Active
  PROVE  Sound(t)
<1>1. DOMAIN t.fetches = {} /\ DOMAIN t.requests = {}
  BY EmptySeq, LenProperties DEF Idle
<1> QED BY <1>1, IdleOutstanding DEF Idle, Sound, Single

(* Fetching tokens for a fitting step keeps a running task sound.          *)
LEMMA FetchSound ==
  ASSUME NEW t, Idle(t), t.state = "running",
         NEW step \in Steps, NEW offset \in Nat, NEW len \in Nat,
         Fits(t, [step |-> step, offset |-> offset, len |-> len])
  PROVE  Sound(Fetch(t, step, offset, len))
<1> DEFINE o == [step |-> step, offset |-> offset, len |-> len]
           u == Fetch(t, step, offset, len)
<1>1. o \in FetchType /\ t.fetches = <<>> /\ t.requests = <<>>
  BY DEF FetchType, Idle
<1>2. /\ Append(<<>>, o) \in Seq(FetchType) /\ Len(Append(<<>>, o)) = 1
      /\ DOMAIN Append(<<>>, o) = {1} /\ Append(<<>>, o)[1] = o
  BY <1>1, AppendFirst
<1>3. u = [t EXCEPT !.fetches = Append(<<>>, o)]
  BY <1>1 DEF Fetch
<1>4. u \in TaskType
  BY <1>2, <1>3 DEF Idle, TaskType, FetchType
<1>5. DOMAIN t.requests = {} /\ Len(t.requests) = 0
  BY <1>1, EmptySeq, LenProperties
<1>6. Single(u)
  BY <1>2, <1>3, <1>4, <1>5 DEF Single, Outstanding, Idle, TaskType, Active
<1>7. \A i \in DOMAIN u.fetches : Fits(u, u.fetches[i])
  BY <1>2, <1>3, <1>4 DEF Fits, Idle, TaskType, Resumable
<1> QED BY <1>3, <1>4, <1>5, <1>6, <1>7 DEF Sound, Idle, TaskType

(* Starting an idle task gives it its one operation.                       *)
LEMMA StartSound ==
  ASSUME NEW t, Idle(t), t.state \in {"running", "paused"} \union Final
  PROVE  Sound(Start(t)) /\ Start(t).state = t.state
         /\ Start(t).promise = t.promise /\ Start(t).size = t.size
         /\ Start(t).requests = <<>>
<1>0. t \in TaskType /\ t.size \in Nat \ {0} /\ ~t.request
  BY SizesAssumption DEF Idle, TaskType
<1>1. CASE t.state # "running"
  BY <1>1, IdleSound DEF Start, Active, Final, Idle
<1>2. CASE t.state = "running"
  <2> USE <1>0, <1>2
  <2>1. CASE ~Resumable(t)
    <3>1. Start(t) = Fetch(t, "oneShot", 0, t.size)
      BY <2>1 DEF Start, Resumable, TaskType
    <3>2. Fits(t, [step |-> "oneShot", offset |-> 0, len |-> t.size])
      BY <2>1 DEF Fits
    <3>3. Sound(Start(t))
      BY <3>1, <3>2, FetchSound DEF Steps
    <3> QED BY <3>1, <3>3 DEF Fetch, TaskType, Idle
  <2>2. CASE Resumable(t) /\ ~t.url
    <3>1. Start(t) = Fetch(t, "create", 0, 0)
      BY <2>2 DEF Start, Resumable, TaskType
    <3>2. Fits(t, [step |-> "create", offset |-> 0, len |-> 0])
      BY <2>2 DEF Fits
    <3>3. Sound(Start(t))
      BY <3>1, <3>2, FetchSound DEF Steps
    <3> QED BY <3>1, <3>3 DEF Fetch, TaskType, Idle
  <2>3. CASE Resumable(t) /\ t.url /\ t.needStatus
    <3>1. Start(t) = Fetch(t, "status", 0, 0)
      BY <2>3 DEF Start, Resumable, TaskType
    <3>2. Fits(t, [step |-> "status", offset |-> 0, len |-> 0])
      BY <2>3 DEF Fits
    <3>3. Sound(Start(t))
      BY <3>1, <3>2, FetchSound DEF Steps
    <3> QED BY <3>1, <3>3 DEF Fetch, TaskType, Idle
  <2>4. CASE Resumable(t) /\ t.url /\ ~t.needStatus /\ t.needMetadata
    <3>1. Start(t) = Fetch(t, "metadata", 0, 0)
      BY <2>4 DEF Start, Resumable, TaskType
    <3>2. Fits(t, [step |-> "metadata", offset |-> 0, len |-> 0])
      BY <2>4 DEF Fits
    <3>3. Sound(Start(t))
      BY <3>1, <3>2, FetchSound DEF Steps
    <3> QED BY <3>1, <3>3 DEF Fetch, TaskType, Idle
  <2>5. CASE Resumable(t) /\ t.url /\ ~t.needStatus /\ ~t.needMetadata
    <3>1. Start(t) = [t EXCEPT !.timer = TRUE]
      BY <2>5 DEF Start, Resumable, TaskType
    <3>2. Start(t) \in TaskType
      BY <3>1 DEF TaskType
    <3>3. Len(t.fetches) = 0 /\ Len(t.requests) = 0
          /\ DOMAIN t.fetches = {} /\ DOMAIN t.requests = {}
      BY EmptySeq, LenProperties DEF Idle
    <3>4. Single(Start(t))
      BY <3>1, <3>3 DEF Single, Outstanding, TaskType, Active, Idle
    <3>5. Sound(Start(t))
      BY <2>5, <3>1, <3>2, <3>3, <3>4 DEF Sound, Idle, TaskType, Resumable
    <3> QED BY <3>1, <3>5 DEF TaskType, Idle
  <2> QED BY <2>1, <2>2, <2>3, <2>4, <2>5 DEF TaskType
<1> QED BY <1>1, <1>2

(* The end of an idle task settles its promise.                            *)
LEMMA EndSound ==
  ASSUME NEW t, Idle(t), NEW state \in Final
  PROVE  Idle(End(t, state)) /\ Sound(End(t, state))
         /\ End(t, state).state = state /\ End(t, state).size = t.size
<1> DEFINE u == End(t, state)
<1>1. Idle(u) /\ u.state = state /\ u.size = t.size
  BY DEF End, Idle, TaskType, Final, Verdict
<1>2. u.state \notin Active
  BY <1>1 DEF Final, Active
<1> QED BY <1>1, <1>2, IdleSound

(* The states in which a task is left when it has nothing to wait for.     *)
Rested(state) ==
  CASE state = "pausing" -> "paused"
    [] state = "canceling" -> "canceled"
    [] OTHER -> state

(* A task that has nothing left to wait for moves on.                      *)
LEMMA CompleteSound ==
  ASSUME NEW t, Idle(t)
  PROVE  LET u == CompleteTransitions(t)
         IN  /\ Sound(u)
             /\ u.size = t.size
             /\ u.requests = <<>>
             /\ u.state = Rested(t.state)
<1> USE DEF Rested
<1>0. t \in TaskType
  BY DEF Idle
<1>1. CASE t.state = "pausing"
  <2> DEFINE u == [t EXCEPT !.state = "paused"]
  <2>1. CompleteTransitions(t) = u
    BY <1>1 DEF CompleteTransitions
  <2>2. Idle(u) /\ u.state \notin Active
    BY <1>0, <1>1 DEF Idle, TaskType, Verdict, Active
  <2>3. Sound(u)
    BY <2>2, IdleSound
  <2> QED BY <1>0, <1>1, <2>1, <2>2, <2>3 DEF Idle, TaskType
<1>2. CASE t.state = "canceling"
  <2>1. CompleteTransitions(t) = End(t, "canceled")
    BY <1>2 DEF CompleteTransitions
  <2> QED BY <1>2, <2>1, EndSound DEF Final, Idle
<1>3. CASE t.state \notin {"pausing", "canceling"}
  <2>1. CompleteTransitions(t) = Start(t)
    BY <1>3 DEF CompleteTransitions
  <2>2. t.state \in {"running", "paused"} \union Final
    BY <1>0, <1>3 DEF TaskType, Active
  <2> QED BY <1>3, <2>1, <2>2, StartSound
<1> QED BY <1>1, <1>2, <1>3

----------------------------------------------------------------------------
(* What one thing being outstanding means                                  *)

(* The counts are natural numbers, and zero for the empty sequence.        *)
LEMMA Counts ==
  ASSUME NEW t \in TaskType
  PROVE  /\ Len(t.fetches) \in Nat /\ Len(t.requests) \in Nat
         /\ t.fetches = <<>> <=> Len(t.fetches) = 0
         /\ t.requests = <<>> <=> Len(t.requests) = 0
         /\ DOMAIN t.fetches = 1 .. Len(t.fetches)
         /\ DOMAIN t.requests = 1 .. Len(t.requests)
<1>1. t.fetches \in Seq(FetchType) /\ t.requests \in Seq(RequestType)
  BY DEF TaskType, FetchType
<1> QED BY <1>1, EmptySeq, LenProperties

(* What a sound task has outstanding excludes everything else.             *)
LEMMA OneOutstanding ==
  ASSUME NEW t, Sound(t)
  PROVE  /\ t.state \notin Active =>
              Len(t.fetches) = 0 /\ Len(t.requests) = 0 /\ ~t.timer
         /\ Len(t.fetches) # 0 =>
              /\ t.state \in Active
              /\ Len(t.fetches) = 1 /\ Len(t.requests) = 0 /\ ~t.timer
         /\ Len(t.requests) # 0 =>
              /\ t.state \in Active
              /\ Len(t.fetches) = 0 /\ Len(t.requests) = 1 /\ ~t.timer
         /\ t.timer => Len(t.fetches) = 0 /\ Len(t.requests) = 0
<1>1. t \in TaskType /\ t.timer \in BOOLEAN
  BY DEF Sound, TaskType
<1>2. Len(t.fetches) \in Nat /\ Len(t.requests) \in Nat
  BY <1>1, Counts
<1>3. Len(t.fetches) + Len(t.requests) + (IF t.timer THEN 1 ELSE 0)
        = (IF t.state \in Active THEN 1 ELSE 0)
  BY DEF Sound, Single, Outstanding
<1> DEFINE f == Len(t.fetches)
           r == Len(t.requests)
           b == IF t.timer THEN 1 ELSE 0
           n == IF t.state \in Active THEN 1 ELSE 0
<1>4. /\ f \in Nat /\ r \in Nat /\ f + r + b = n
      /\ b \in {0, 1} /\ (t.timer <=> b = 1)
      /\ n \in {0, 1} /\ (t.state \in Active <=> n = 1)
  <2>1. b \in {0, 1} /\ (t.timer <=> b = 1)
    BY <1>1
  <2>2. n \in {0, 1} /\ (t.state \in Active <=> n = 1)
    OBVIOUS
  <2>3. f + r + b = n
    BY <1>3
  <2> QED BY <1>2, <2>1, <2>2, <2>3
<1>5. /\ n = 0 => f = 0 /\ r = 0 /\ b = 0
      /\ f # 0 => n = 1 /\ f = 1 /\ r = 0 /\ b = 0
      /\ r # 0 => n = 1 /\ f = 0 /\ r = 1 /\ b = 0
      /\ b = 1 => f = 0 /\ r = 0
  <2> HIDE DEF f, r, b, n
  <2> QED BY <1>4
<1> QED
  <2> HIDE DEF b, n
  <2> QED BY <1>4, <1>5

(* A token fetch is alone, and leaves an idle task when it is over.        *)
LEMMA FetchAlone ==
  ASSUME NEW t, Sound(t), NEW i \in DOMAIN t.fetches
  PROVE  /\ Idle([t EXCEPT !.fetches = RemoveAt(@, i)])
         /\ t.state \in Active
         /\ t.requests = <<>> /\ ~t.timer /\ ~t.request
         /\ t.fetches[i] \in FetchType
<1>1. t \in TaskType /\ t.fetches \in Seq(FetchType)
  BY DEF Sound, TaskType, FetchType
<1>2. Len(t.fetches) = 1 /\ Len(t.requests) = 0 /\ ~t.timer /\ t.state \in Active
  BY <1>1, Counts, OneOutstanding
<1>3. RemoveAt(t.fetches, i) = <<>>
  BY <1>1, <1>2, RemoveOnly
<1>4. t.requests = <<>> /\ ~t.request
  BY <1>1, <1>2, Counts DEF Sound, Single
<1>5. <<>> \in Seq([step : Steps, offset : Nat, len : Nat])
  BY EmptySeq
<1>6. Idle([t EXCEPT !.fetches = RemoveAt(@, i)])
  BY <1>1, <1>2, <1>3, <1>4, <1>5 DEF Idle, Sound, TaskType
<1> QED BY <1>1, <1>2, <1>4, <1>6, ElementOfSeq, LenProperties

(* So is a request.                                                        *)
LEMMA RequestAlone ==
  ASSUME NEW t, Sound(t), NEW i \in DOMAIN t.requests
  PROVE  /\ Idle([t EXCEPT !.requests = RemoveAt(@, i), !.request = FALSE])
         /\ t.state \in Active
         /\ t.fetches = <<>> /\ ~t.timer /\ t.request
         /\ i = 1 /\ DOMAIN t.requests = {1} /\ Len(t.requests) = 1
         /\ t.requests[i] \in RequestType
<1>1. t \in TaskType /\ t.requests \in Seq(RequestType)
  BY DEF Sound, TaskType
<1>2. Len(t.requests) = 1 /\ Len(t.fetches) = 0 /\ ~t.timer /\ t.state \in Active
  BY <1>1, Counts, OneOutstanding
<1>3. RemoveAt(t.requests, i) = <<>>
  BY <1>1, <1>2, RemoveOnly
<1>4. t.fetches = <<>> /\ t.request /\ DOMAIN t.requests = 1 .. 1
  BY <1>1, <1>2, Counts DEF Sound, Single
<1>5. <<>> \in Seq(RequestType)
  BY EmptySeq
<1>6. Idle([t EXCEPT !.requests = RemoveAt(@, i), !.request = FALSE])
  BY <1>1, <1>2, <1>3, <1>4, <1>5 DEF Idle, Sound, TaskType
<1> QED BY <1>1, <1>2, <1>4, <1>6, ElementOfSeq, LenProperties

(* So is the timer.                                                        *)
LEMMA TimerAlone ==
  ASSUME NEW t, Sound(t), t.timer
  PROVE  /\ Idle([t EXCEPT !.timer = FALSE])
         /\ t.state = "running" /\ Resumable(t) /\ t.url /\ ~t.request
         /\ t.requests = <<>> /\ t.fetches = <<>>
<1>1. t \in TaskType
  BY DEF Sound
<1>2. Len(t.requests) = 0 /\ Len(t.fetches) = 0 /\ t.state = "running"
  BY OneOutstanding DEF Sound, Single
<1>3. t.fetches = <<>> /\ ~t.request /\ t.requests = <<>>
  BY <1>1, <1>2, Counts DEF Sound, Single
<1> QED BY <1>1, <1>2, <1>3 DEF Idle, Sound, TaskType

(* A task at rest is idle.                                                 *)
LEMMA RestIdle ==
  ASSUME NEW t, Sound(t), t.state \notin Active
  PROVE  Idle(t)
<1>1. t \in TaskType
  BY DEF Sound
<1>2. Len(t.requests) = 0 /\ Len(t.fetches) = 0 /\ ~t.timer
  BY OneOutstanding
<1> QED BY <1>1, <1>2, Counts DEF Idle, Sound, Single

(* The task with request i replaced, and with its progress and state.      *)
Swapped(t, i, r, n, state) ==
  [t EXCEPT !.state = state, !.requests[i] = r, !.transferred = n]

(* A request may change as long as it asks for the same.                   *)
LEMMA RequestSwap ==
  ASSUME NEW t, Sound(t), NEW i \in DOMAIN t.requests,
         NEW r \in RequestType, Fits(t, r), Stoppable(r),
         r.outcome.stored <= t.size,
         NEW n \in Nat, n <= t.size,
         NEW state \in Active
  PROVE  /\ Sound(Swapped(t, i, r, n, state))
         /\ DOMAIN Swapped(t, i, r, n, state).requests = {1}
         /\ Swapped(t, i, r, n, state).requests[1] = r
         /\ Swapped(t, i, r, n, state).size = t.size
         /\ Swapped(t, i, r, n, state).state = state
<1> USE DEF Swapped
<1> DEFINE u == [t EXCEPT !.state = state, !.requests[i] = r, !.transferred = n]
           q == [t.requests EXCEPT ![i] = r]
<1>1. t \in TaskType /\ t.requests \in Seq(RequestType)
  BY DEF Sound, TaskType
<1>2. /\ t.state \in Active /\ t.fetches = <<>> /\ ~t.timer /\ t.request
      /\ i = 1 /\ DOMAIN t.requests = {1} /\ Len(t.requests) = 1
  BY RequestAlone
<1>3. q \in Seq(RequestType) /\ Len(q) = 1 /\ DOMAIN q = {1} /\ q[1] = r
  <2>1. i \in 1 .. Len(t.requests) /\ 1 .. 1 = {1}
    BY <1>2
  <2>2. q \in Seq(RequestType) /\ Len(q) = Len(t.requests)
    BY <1>1, <2>1, ExceptSeq
  <2>3. DOMAIN q = {1} /\ q[1] = r
    BY <1>2
  <2> QED BY <1>2, <2>2, <2>3
<1>4. u \in TaskType
  BY <1>1, <1>3 DEF TaskType
<1>5. u.requests = q /\ u.fetches = t.fetches /\ u.size = t.size /\ u.url = t.url
  BY <1>1 DEF TaskType
<1>6. Single(u)
  <2>1. Len(u.requests) = 1 /\ Len(u.fetches) = 0
    BY <1>2, <1>3, <1>5, EmptySeq
  <2>2. ~u.timer /\ u.request /\ u.state \in Active
    BY <1>1, <1>2 DEF TaskType
  <2>3. Outstanding(u) = 1
    <3> HIDE DEF u
    <3> QED BY <2>1, <2>2 DEF Outstanding
  <2>4. u.requests # <<>>
    BY <2>1, EmptySeq
  <2> QED BY <2>2, <2>3, <2>4 DEF Single
<1>7. Fits(u, r)
  BY <1>5 DEF Fits, Resumable
<1>8. DOMAIN u.fetches = {}
  BY <1>2, <1>5, EmptySeq, LenProperties
<1>9. u.promise = Verdict(u.state)
  BY <1>1, <1>2 DEF Sound, TaskType, Verdict, Active
<1>10. u.transferred <= u.size /\ ~u.timer
  BY <1>1, <1>2, <1>5 DEF TaskType
<1>11. u.state = state
  BY <1>1 DEF TaskType
<1> QED BY <1>3, <1>4, <1>5, <1>6, <1>7, <1>8, <1>9, <1>10, <1>11 DEF Sound

----------------------------------------------------------------------------
(* The operators on a request                                              *)

(* Settling ends its life, whatever the outcome.                           *)
LEMMA SettleOps ==
  ASSUME NEW r \in RequestType, NEW o \in OutcomeType
  PROVE  LET u == Settle(r, o)
         IN  /\ u \in RequestType /\ Stoppable(u)
             /\ u.step = r.step /\ u.offset = r.offset /\ u.len = r.len
             /\ u.outcome = o /\ u.phase = "settled"
BY DEF Settle, RequestType, Stoppable

(* Rejections are outcomes that say nothing of the server.                 *)
LEMMA RejectedType ==
  ASSUME NEW kind \in {"canceled", "retryable", "fatal"}
  PROVE  /\ Rejected(kind) \in OutcomeType
         /\ Rejected(kind).stored = 0 /\ Rejected(kind).kind = kind
BY DEF Rejected, Pending, OutcomeType

(* They keep its type and what it asks for.                                *)
LEMMA CancelOps ==
  ASSUME NEW r \in RequestType, Stoppable(r)
  PROVE  LET u == CancelRequest(r)
         IN  /\ u \in RequestType /\ Stoppable(u)
             /\ u.step = r.step /\ u.offset = r.offset /\ u.len = r.len
             /\ u.outcome = r.outcome /\ u.phase = r.phase
             /\ u.resent = r.resent
<1> DEFINE n == IF r.phase = "waiting" THEN 2 ELSE 1
           u == CancelRequest(r)
<1>1. n \in 0 .. 2 /\ n # 0 /\ (n # 2 => r.phase # "waiting")
  OBVIOUS
<1>2. CASE r.stopped \/ r.phase = "settled"
  <2>1. u = [r EXCEPT !.aborted = @ \/ r.phase = "sent"]
    BY <1>2 DEF CancelRequest, Stop
  <2> DEFINE b == r.aborted \/ r.phase = "sent"
  <2>2. b \in BOOLEAN
    OBVIOUS
  <2>3. r.phase = "settled" \/ r.timedOut \/ r.cancelState # 0
    BY <1>2 DEF Stoppable
  <2>4. u = [r EXCEPT !.aborted = b]
    BY <2>1
  <2> HIDE DEF b
  <2>5. u \in RequestType
    BY <2>2, <2>4 DEF RequestType
  <2>6. /\ u.step = r.step /\ u.offset = r.offset /\ u.len = r.len
        /\ u.outcome = r.outcome /\ u.phase = r.phase
        /\ u.cancelState = r.cancelState /\ u.timedOut = r.timedOut
        /\ u.resent = r.resent
    BY <2>4 DEF RequestType
  <2>7. Stoppable(u)
    <3> HIDE DEF u
    <3> QED BY <2>3, <2>6 DEF Stoppable
  <2> QED BY <2>5, <2>6, <2>7
<1>3. CASE ~(r.stopped \/ r.phase = "settled")
  <2> DEFINE b == r.aborted \/ r.phase = "sent"
  <2>1. b \in BOOLEAN
    OBVIOUS
  <2>2. u = [r EXCEPT !.stopped = TRUE, !.cancelState = n, !.aborted = b]
    BY <1>3 DEF CancelRequest, Stop, RequestType
  <2> HIDE DEF b, n
  <2>3. u \in RequestType
    BY <1>1, <2>1, <2>2 DEF RequestType
  <2>4. /\ u.step = r.step /\ u.offset = r.offset /\ u.len = r.len
        /\ u.outcome = r.outcome /\ u.phase = r.phase
        /\ u.cancelState = n /\ u.timedOut = r.timedOut
        /\ u.resent = r.resent
    BY <2>2 DEF RequestType
  <2>5. Stoppable(u)
    <3> HIDE DEF u
    <3>1. r.phase = "sent" => n # 2
      BY DEF n
    <3> QED BY <1>1, <2>4, <3>1 DEF Stoppable
  <2> QED BY <2>3, <2>4, <2>5
<1> QED BY <1>2, <1>3

(* The retry timer sends the request or settles it.                        *)
LEMMA RetryTimerOps ==
  ASSUME NEW r \in RequestType, Stoppable(r), r.phase = "waiting"
  PROVE  LET u == RetryTimerFires(r)
         IN  /\ u \in RequestType /\ Stoppable(u)
             /\ u.step = r.step /\ u.offset = r.offset /\ u.len = r.len
             /\ u.outcome.stored \in {r.outcome.stored, 0}
             /\ u.phase = "settled" => u.outcome.kind # "ok"
             /\ u.phase # "settled" => u.resent = r.resent
<1>1. CASE r.cancelState = 2
  <2>1. RetryTimerFires(r) = Settle(r, Rejected("canceled"))
    BY <1>1 DEF RetryTimerFires
  <2> QED BY <2>1, SettleOps, RejectedType
<1>2. CASE r.cancelState # 2
  BY <1>2 DEF RetryTimerFires, RequestType, Stoppable
<1> QED BY <1>1, <1>2

(* The global timeout stops it, and no more.                               *)
LEMMA HitTimeoutOps ==
  ASSUME NEW r \in RequestType, Stoppable(r), ~r.stopped, r.phase # "settled"
  PROVE  LET u == HitTimeout(r)
         IN  /\ u \in RequestType /\ Stoppable(u)
             /\ u.step = r.step /\ u.offset = r.offset /\ u.len = r.len
             /\ u.outcome = r.outcome /\ u.phase = r.phase
             /\ u.resent = r.resent
<1>1. HitTimeout(r) = [r EXCEPT !.timedOut = TRUE, !.stopped = TRUE]
  BY DEF HitTimeout, Stop, RequestType
<1> QED BY <1>1 DEF RequestType, Stoppable

(* A failed attempt is settled or waits for the next one.                  *)
LEMMA AttemptOps ==
  ASSUME NEW r \in RequestType, Stoppable(r), r.phase = "sent",
         NEW b \in BOOLEAN
  PROVE  LET u == AttemptFails(r, b)
         IN  /\ u \in RequestType /\ Stoppable(u)
             /\ u.step = r.step /\ u.offset = r.offset /\ u.len = r.len
             /\ u.outcome.stored \in {r.outcome.stored, 0}
             /\ u.phase = "settled" => u.outcome.kind # "ok"
             /\ u.phase # "settled" => u.resent
<1>1. CASE r.timedOut
  <2> DEFINE kind == IF b THEN "canceled" ELSE "fatal"
  <2>1. AttemptFails(r, b) = Settle(r, Rejected(kind))
    BY <1>1 DEF AttemptFails
  <2> QED BY <2>1, SettleOps, RejectedType
<1>2. CASE ~r.timedOut
  <2> DEFINE u == [r EXCEPT !.phase = "waiting", !.resent = TRUE,
                            !.cancelState = IF @ = 1 THEN 2 ELSE @]
  <2>1. AttemptFails(r, b) = u
    BY <1>2 DEF AttemptFails
  <2>2. u \in RequestType
    <3>1. (IF r.cancelState = 1 THEN 2 ELSE r.cancelState) \in 0 .. 2
      BY DEF RequestType
    <3> QED BY <3>1 DEF RequestType
  <2>3. /\ Stoppable(u) /\ u.step = r.step /\ u.offset = r.offset
        /\ u.len = r.len /\ u.outcome = r.outcome /\ u.phase = "waiting"
        /\ u.resent
    BY DEF RequestType, Stoppable
  <2> QED BY <2>1, <2>2, <2>3
<1> QED BY <1>1, <1>2

(* A new request.                                                          *)
LEMMA NewOps ==
  ASSUME NEW f \in FetchType
  PROVE  LET u == NewRequest(f.step, f.offset, f.len)
         IN  /\ u \in RequestType /\ Stoppable(u)
             /\ u.step = f.step /\ u.offset = f.offset /\ u.len = f.len
             /\ u.outcome.stored = 0 /\ u.phase = "waiting"
BY DEF NewRequest, Pending, RequestType, OutcomeType, Stoppable, FetchType

----------------------------------------------------------------------------
(* The operators that the actions apply to the task                        *)

(* pause() and cancel().                                                   *)
LEMMA InterruptSound ==
  ASSUME NEW t, Sound(t), t.state \in {"running", "pausing"},
         NEW state \in {"pausing", "canceling"}
  PROVE  LET u == Interrupt(t, state)
         IN  /\ Sound(u) /\ u.size = t.size
             /\ u.state = IF t.timer THEN Rested(state) ELSE state
             /\ \A s : Honest(t, s) => Honest(u, s)
<1> DEFINE u == Interrupt(t, state)
<1>0. t \in TaskType /\ t.request \in BOOLEAN /\ t.timer \in BOOLEAN
  BY DEF Sound, TaskType
<1>1. CASE t.request
  <2> DEFINE r == t.requests[1]
             c == CancelRequest(r)
             v == [t EXCEPT !.state = state, !.requests[1] = c]
             w == Swapped(t, 1, c, t.transferred, state)
  <2>1. t.requests # <<>> /\ Len(t.requests) # 0
    BY <1>0, <1>1, Counts DEF Sound, Single
  <2>2. 1 \in DOMAIN t.requests
    BY <1>0, <2>1, Counts
  <2>3. /\ DOMAIN t.requests = {1} /\ Len(t.requests) = 1 /\ ~t.timer
        /\ r \in RequestType
    BY <2>2, RequestAlone
  <2>4. Fits(t, r) /\ Stoppable(r) /\ r.outcome.stored <= t.size
    BY <2>2 DEF Sound
  <2>5. /\ c \in RequestType /\ Stoppable(c)
        /\ c.step = r.step /\ c.offset = r.offset /\ c.len = r.len
        /\ c.outcome = r.outcome /\ c.phase = r.phase
    BY <2>3, <2>4, CancelOps
  <2>6. Fits(t, c)
    BY <2>4, <2>5 DEF Fits
  <2>7. t.transferred \in Nat /\ t.transferred <= t.size /\ state \in Active
    BY <1>0 DEF Sound, TaskType, Active
  <2>8. Sound(w) /\ DOMAIN w.requests = {1} /\ w.requests[1] = c
        /\ w.size = t.size /\ w.state = state
    <3> HIDE DEF c
    <3>1. c.outcome.stored <= t.size
      BY <2>4, <2>5
    <3> QED BY <2>2, <2>5, <2>6, <2>7, <3>1, RequestSwap
  <2>9. u = v
    BY <1>1, <2>3 DEF Interrupt
  <2>10. v = w
    BY <1>0 DEF TaskType, Swapped
  <2>11. \A s : Honest(t, s) => Honest(u, s)
    BY <2>3, <2>5, <2>8, <2>9, <2>10 DEF Honest
  <2> QED BY <2>3, <2>8, <2>9, <2>10, <2>11
<1>2. CASE ~t.request /\ t.timer
  <2> DEFINE v == [t EXCEPT !.state = state, !.timer = FALSE]
  <2>1. Idle([t EXCEPT !.timer = FALSE]) /\ t.state = "running"
    BY <1>2, TimerAlone
  <2>2. Idle(v) /\ v.state = state /\ v.size = t.size
    BY <1>0, <2>1 DEF Idle, TaskType, Verdict, Active
  <2>3. u = CompleteTransitions(v)
    BY <1>2 DEF Interrupt
  <2>4. /\ Sound(u) /\ u.size = t.size /\ u.requests = <<>>
        /\ u.state = Rested(state)
    BY <2>2, <2>3, CompleteSound DEF Rested
  <2>5. DOMAIN u.requests = {}
    BY <2>4, EmptySeq, LenProperties
  <2> QED BY <1>2, <2>4, <2>5 DEF Honest
<1>3. CASE ~t.request /\ ~t.timer
  <2>1. u = [t EXCEPT !.state = state]
    BY <1>3 DEF Interrupt
  <2>2. u \in TaskType
    BY <1>0, <2>1 DEF TaskType, Active
  <2>3. /\ u.state = state /\ t.state \in Active /\ u.state \in Active
        /\ u.size = t.size /\ u.url = t.url /\ u.fetches = t.fetches
        /\ u.requests = t.requests /\ u.transferred = t.transferred
        /\ u.promise = t.promise /\ u.timer = t.timer /\ u.request = t.request
    BY <1>0, <2>1 DEF TaskType, Active
  <2>4. Single(u)
    BY <1>3, <2>3 DEF Sound, Single, Outstanding
  <2>5. u.promise = Verdict(u.state)
    BY <2>3 DEF Sound, Verdict
  <2>6. \A o : Fits(t, o) => Fits(u, o)
    BY <2>3 DEF Fits, Resumable
  <2>7. Sound(u)
    BY <1>3, <2>2, <2>3, <2>4, <2>5, <2>6 DEF Sound
  <2> QED BY <1>3, <2>3, <2>7 DEF Honest
<1> QED BY <1>0, <1>1, <1>2, <1>3

(* resume().                                                               *)
LEMMA RunSound ==
  ASSUME NEW t, Sound(t), t.state \in {"paused", "pausing"}
  PROVE  LET u == Run(t)
         IN  /\ Sound(u) /\ u.size = t.size /\ u.state = "running"
             /\ \A s : Honest(t, s) => Honest(u, s)
<1> DEFINE v == [t EXCEPT !.state = "running"]
<1>0. t \in TaskType
  BY DEF Sound
<1>1. CASE t.state = "paused"
  <2>1. Idle(t)
    BY <1>1, RestIdle DEF Active
  <2>2. Idle(v) /\ v.state = "running" /\ v.size = t.size
    BY <1>0, <1>1, <2>1 DEF Idle, TaskType, Verdict, Active
  <2>3. Run(t) = Start(v)
    BY <1>1 DEF Run
  <2>4. Sound(Run(t)) /\ Run(t).state = "running" /\ Run(t).size = t.size
        /\ Run(t).requests = <<>>
    BY <2>2, <2>3, StartSound
  <2>5. DOMAIN Run(t).requests = {}
    BY <2>4, EmptySeq, LenProperties
  <2> QED BY <2>4, <2>5 DEF Honest
<1>2. CASE t.state = "pausing"
  <2>1. Run(t) = v
    BY <1>2 DEF Run
  <2>2. v \in TaskType
    BY <1>0 DEF TaskType, Active
  <2>3. /\ v.state = "running" /\ t.state \in Active /\ v.state \in Active
        /\ v.size = t.size /\ v.url = t.url /\ v.fetches = t.fetches
        /\ v.requests = t.requests /\ v.transferred = t.transferred
        /\ v.promise = t.promise /\ v.timer = t.timer /\ v.request = t.request
    BY <1>0, <1>2 DEF TaskType, Active
  <2>4. Single(v)
    BY <2>3 DEF Sound, Single, Outstanding
  <2>5. v.promise = Verdict(v.state)
    BY <1>2, <2>3 DEF Sound, Verdict
  <2>6. \A o : Fits(t, o) => Fits(v, o)
    BY <2>3 DEF Fits, Resumable
  <2>7. Sound(v)
    BY <2>2, <2>3, <2>4, <2>5, <2>6 DEF Sound, Resumable
  <2> QED BY <2>1, <2>3, <2>7 DEF Honest
<1> QED BY <1>1, <1>2

(* What the handlers of a request's promise do.                            *)
LEMMA ResolvedSound ==
  ASSUME NEW t, Idle(t), t.state \in Active,
         NEW r \in RequestType, Fits(t, r), r.outcome.stored <= t.size
  PROVE  LET u == Resolved(t, r)
         IN  /\ Sound(u) /\ u.size = t.size /\ u.requests = <<>>
             /\ \/ u.state = Rested(t.state)
                \/ /\ u.state = "success"
                   /\ r.outcome.final \/ r.step \in {"metadata", "oneShot"}
<1> DEFINE u == Resolved(t, r)
<1>0. /\ t \in TaskType /\ t.size \in Nat
      /\ r.step \in Steps /\ r.outcome \in OutcomeType
      /\ r.offset \in Nat /\ r.len \in Nat
  BY SizesAssumption DEF Idle, TaskType, RequestType
<1>1. CASE r.step = "create"
  <2> DEFINE v == [t EXCEPT !.url = TRUE, !.needStatus = FALSE]
  <2>1. u = CompleteTransitions(v)
    BY <1>1 DEF Resolved
  <2>2. Idle(v) /\ v.state = t.state /\ v.size = t.size
    BY <1>0 DEF Idle, TaskType
  <2> QED BY <2>1, <2>2, CompleteSound
<1>2. CASE r.step = "status"
  <2> DEFINE v == [t EXCEPT !.transferred = r.outcome.stored,
                            !.needStatus = FALSE,
                            !.needMetadata = @ \/ r.outcome.final]
  <2>1. u = CompleteTransitions(v)
    BY <1>2 DEF Resolved
  <2>2. (t.needMetadata \/ r.outcome.final) \in BOOLEAN
    OBVIOUS
  <2>3. v \in TaskType
    BY <1>0, <2>2 DEF TaskType, OutcomeType
  <2>4. Idle(v) /\ v.state = t.state /\ v.size = t.size
    BY <1>0, <2>3 DEF Idle, TaskType
  <2> QED BY <2>1, <2>4, CompleteSound
<1>3. CASE r.step = "chunk"
  <2> DEFINE w == IncreaseMultiplier(t)
             v == [w EXCEPT !.transferred = r.offset + r.len]
  <2>1. u = IF r.outcome.final THEN End(v, "success") ELSE CompleteTransitions(v)
    BY <1>3 DEF Resolved
  <2>2. Idle(w) /\ w.state = t.state /\ w.size = t.size
    <3>1. CASE 2 * t.multiplier < MaxChunk
      <4>1. 2 * t.multiplier \in 1 .. MaxChunk
        BY <1>0, <3>1, LimitsAssumption DEF TaskType
      <4> QED BY <1>0, <3>1, <4>1 DEF Idle, TaskType, IncreaseMultiplier
    <3>2. CASE ~(2 * t.multiplier < MaxChunk)
      BY <3>2 DEF IncreaseMultiplier
    <3> QED BY <3>1, <3>2
  <2>3. Idle(v) /\ v.state = t.state /\ v.size = t.size
    <3> DEFINE n == r.offset + r.len
    <3>1. n \in Nat /\ n <= t.size
      BY <1>0 DEF Fits
    <3> HIDE DEF w, n
    <3>2. v = [w EXCEPT !.transferred = n]
      BY DEF n
    <3> QED BY <2>2, <3>1, <3>2 DEF Idle, TaskType
  <2> HIDE DEF v
  <2>4. CASE r.outcome.final
    <3>1. Idle(u) /\ Sound(u) /\ u.state = "success" /\ u.size = v.size
      BY <2>1, <2>3, <2>4, EndSound DEF Final
    <3> QED BY <2>3, <2>4, <3>1 DEF Idle
  <2>5. CASE ~r.outcome.final
    BY <2>1, <2>3, <2>5, CompleteSound
  <2> QED BY <2>4, <2>5
<1>4. CASE r.step = "metadata"
  <2>1. u = End(t, "success")
    BY <1>4 DEF Resolved
  <2>2. Idle(u) /\ Sound(u) /\ u.state = "success" /\ u.size = t.size
    BY <2>1, EndSound DEF Final
  <2> QED BY <1>4, <2>2 DEF Idle
<1>5. CASE r.step = "oneShot"
  <2> DEFINE v == [t EXCEPT !.transferred = t.size]
  <2>1. u = End(v, "success")
    BY <1>5 DEF Resolved
  <2>2. Idle(v) /\ v.size = t.size
    BY <1>0 DEF Idle, TaskType
  <2> HIDE DEF v
  <2>3. Idle(u) /\ Sound(u) /\ u.state = "success" /\ u.size = t.size
    BY <2>1, <2>2, EndSound DEF Final
  <2> QED BY <1>5, <2>3 DEF Idle
<1> QED BY <1>0, <1>1, <1>2, <1>3, <1>4, <1>5 DEF Steps

(* What the handler of a failed request does leaves the task sound.        *)
LEMMA FailedSound ==
  ASSUME NEW t, Idle(t), t.state \in Active, NEW r \in RequestType
  PROVE  LET u == Failed(t, r)
         IN  /\ Sound(u) /\ u.size = t.size /\ u.requests = <<>>
             /\ u.state \in {Rested(t.state), "error"}
<1> DEFINE u == Failed(t, r)
           a == Again(t, r)
           b == [a EXCEPT !.sleep = IF @ = 0 THEN 1 ELSE 2 * @]
           c == Afresh(t, r)
<1>0. t \in TaskType
  BY DEF Idle
<1>1. Idle(c) /\ c.state = t.state /\ c.size = t.size
  BY <1>0, LimitsAssumption DEF Afresh, Idle, TaskType
<1>2. Idle(a) /\ a.state = t.state /\ a.size = t.size
  <2> HIDE DEF c
  <2>1. a = IF r.step = "metadata" THEN t ELSE [c EXCEPT !.needStatus = TRUE]
    BY DEF Again, c
  <2> HIDE DEF a
  <2> QED BY <1>1, <2>1 DEF Idle, TaskType
<1>3. Idle(b) /\ b.state = t.state /\ b.size = t.size
  <2> HIDE DEF a
  <2> QED BY <1>2 DEF Idle, TaskType
<1>4. \/ u = CompleteTransitions(a)
      \/ u = CompleteTransitions(b)
      \/ u = End(c, "error")
  BY DEF Failed
<1> HIDE DEF a, b, c, u
<1>5. CASE u = End(c, "error")
  <2>1. Idle(u) /\ Sound(u) /\ u.state = "error" /\ u.size = c.size
    BY <1>1, <1>5, EndSound DEF Final
  <2> QED BY <1>1, <2>1 DEF Idle, u
<1>6. CASE u = CompleteTransitions(a)
  <2>1. Sound(u) /\ u.size = a.size /\ u.requests = <<>>
        /\ u.state = Rested(a.state)
    BY <1>2, <1>6, CompleteSound
  <2> QED BY <1>2, <2>1 DEF u
<1>7. CASE u = CompleteTransitions(b)
  <2>1. Sound(u) /\ u.size = b.size /\ u.requests = <<>>
        /\ u.state = Rested(b.state)
    BY <1>3, <1>7, CompleteSound
  <2> QED BY <1>3, <2>1 DEF u
<1> QED BY <1>4, <1>5, <1>6, <1>7

----------------------------------------------------------------------------
(* Steps of UploadProtocol                                                 *)

ProtocolStep == [Promised!Next]_(Promised!vars)

(* While it is active, the protocol sees it transfer.                      *)
LEMMA ActiveStep ==
  ASSUME Inv, Inv', task.state \in Active, task'.state \in Active, asked' = asked
  PROVE  ProtocolStep
<1>1. Shown(task.state) = "running" /\ Shown(task'.state) = "running"
  BY DEF Shown, Active
<1>2. task'.promise = task.promise
  BY DEF Inv, Sound, Verdict, Active
<1> QED BY <1>1, <1>2 DEF ProtocolStep, Promised!Next, Promised!Transfer

(* What an active task is after its operation is over, the protocol allows.*)
LEMMA RestingStep ==
  ASSUME Inv, Inv', task.state \in Active, UNCHANGED <<server, asked>>,
         \/ task'.state \in {Rested(task.state), "error"}
         \/ task'.state = "success" /\ server.final
  PROVE  ProtocolStep
<1>1. Shown(task.state) = "running" /\ task.promise = "pending"
  BY DEF Shown, Active, Inv, Sound, Verdict
<1>2. task'.promise = Verdict(task'.state)
  BY DEF Inv, Sound
<1>3. CASE task'.state = Rested(task.state) /\ task.state = "running"
  BY <1>3, ActiveStep DEF Rested, Active
<1>4. CASE task'.state = Rested(task.state) /\ task.state = "pausing"
  <2>1. task'.state = "paused" /\ Shown(task'.state) = "paused"
        /\ task'.promise = "pending"
    BY <1>2, <1>4 DEF Rested, Shown, Verdict
  <2> QED BY <1>1, <2>1 DEF ProtocolStep, Promised!Next, Promised!Move
<1>5. CASE task'.state = Rested(task.state) /\ task.state = "canceling"
  <2>1. task'.state = "canceled" /\ Shown(task'.state) = "canceled"
        /\ task'.promise = "rejected" /\ asked'
    BY <1>2, <1>5 DEF Rested, Shown, Verdict, Inv
  <2> QED BY <1>1, <2>1 DEF ProtocolStep, Promised!Next, Promised!EndCanceled,
                            Promised!End
<1>6. CASE task'.state = "error"
  <2>1. Shown(task'.state) = "error" /\ task'.promise = "rejected"
    BY <1>2, <1>6 DEF Shown, Verdict
  <2> QED BY <1>1, <2>1 DEF ProtocolStep, Promised!Next, Promised!Fail, Promised!End
<1>7. CASE task'.state = "success" /\ server.final
  <2>1. Shown(task'.state) = "success" /\ task'.promise = "resolved"
    BY <1>2, <1>7 DEF Shown, Verdict
  <2> QED BY <1>1, <1>7, <2>1
          DEF ProtocolStep, Promised!Next, Promised!Succeed, Promised!End
<1> QED BY <1>3, <1>4, <1>5, <1>6, <1>7 DEF Active

----------------------------------------------------------------------------
(* One lemma per action                                                    *)

(* pause() interrupts whatever is outstanding.                             *)
LEMMA PauseStep ==
  ASSUME Inv, Pause
  PROVE  Inv' /\ ProtocolStep
<1>1. /\ Sound(task') /\ task'.size = task.size
      /\ task'.state \in {"paused", "pausing"}
      /\ Honest(task', server')
  BY InterruptSound DEF Inv, Pause, Rested
<1>2. Inv'
  BY <1>1 DEF Inv, Pause
<1>3. /\ Shown(task.state) = "running" /\ task.promise = "pending"
      /\ Shown(task'.state) \in {"paused", "running"} /\ task'.promise = "pending"
  BY <1>1 DEF Inv, Pause, Sound, Verdict, Shown
<1> QED BY <1>2, <1>3 DEF Pause, ProtocolStep, Promised!Next, Promised!Move,
                          Promised!vars

(* resume() starts a paused upload, and lets a pausing one run on.         *)
LEMMA ResumeStep ==
  ASSUME Inv, Resume
  PROVE  Inv' /\ ProtocolStep
<1>1. /\ Sound(task') /\ task'.size = task.size /\ task'.state = "running"
      /\ Honest(task', server')
  BY RunSound DEF Inv, Resume
<1>2. Inv'
  BY <1>1 DEF Inv, Resume
<1>3. /\ Shown(task.state) \in {"paused", "running"} /\ task.promise = "pending"
      /\ Shown(task'.state) = "running" /\ task'.promise = "pending"
  BY <1>1 DEF Inv, Resume, Sound, Verdict, Shown
<1> QED BY <1>2, <1>3 DEF Resume, ProtocolStep, Promised!Next, Promised!Move,
                          Promised!vars

(* cancel() is on record from the moment it returns true.                  *)
LEMMA CancelStep ==
  ASSUME Inv, Cancel
  PROVE  Inv' /\ ProtocolStep
<1>1. /\ Sound(task') /\ task'.size = task.size
      /\ task'.state \in {"canceling", "canceled"}
      /\ Honest(task', server')
  BY InterruptSound DEF Inv, Cancel, Rested
<1>2. Inv'
  BY <1>1 DEF Inv, Cancel
<1>3. Shown(task.state) = "running" /\ task.promise = "pending"
  BY DEF Inv, Cancel, Sound, Verdict, Shown
<1>4. CASE task'.state = "canceling"
  <2>1. Shown(task'.state) = "running" /\ task'.promise = "pending"
    BY <1>1, <1>4 DEF Sound, Verdict, Shown
  <2> QED BY <1>2, <1>3, <2>1
          DEF Cancel, ProtocolStep, Promised!Next, Promised!AskToCancel
<1>5. CASE task'.state = "canceled"
  <2>1. Shown(task'.state) = "canceled" /\ task'.promise = "rejected"
    BY <1>1, <1>5 DEF Sound, Verdict, Shown
  <2> QED BY <1>2, <1>3, <2>1
          DEF Cancel, ProtocolStep, Promised!Next, Promised!EndCanceled, Promised!End
<1> QED BY <1>1, <1>4, <1>5

(* Tokens make a request, or complete a transition.                        *)
LEMMA TokensReadyStep ==
  ASSUME Inv, NEW i \in DOMAIN task.fetches, TokensReady(i)
  PROVE  Inv' /\ ProtocolStep
<1> DEFINE f == task.fetches[i]
           t == [task EXCEPT !.fetches = RemoveAt(@, i)]
           r == NewRequest(f.step, f.offset, f.len)
<1>0. Sound(task) /\ task \in TaskType /\ Fits(task, f)
  BY DEF Inv, Sound
<1>1. /\ Idle(t) /\ task.state \in Active
      /\ task.requests = <<>> /\ ~task.timer /\ ~task.request
      /\ f \in FetchType
  BY <1>0, FetchAlone
<1>2. t.state = task.state /\ t.size = task.size /\ t.url = task.url
  BY <1>0 DEF TaskType
<1>3. CASE task.state = "running"
  <2> DEFINE u == [t EXCEPT !.request = TRUE, !.requests = Append(@, r)]
  <2>1. task' = u
    BY <1>2, <1>3 DEF TokensReady
  <2>2. /\ r \in RequestType /\ Stoppable(r) /\ r.step = f.step
        /\ r.offset = f.offset /\ r.len = f.len /\ r.outcome.stored = 0
        /\ r.phase = "waiting"
    BY <1>1, NewOps
  <2> HIDE DEF r, t
  <2>3. /\ Append(<<>>, r) \in Seq(RequestType) /\ Len(Append(<<>>, r)) = 1
        /\ DOMAIN Append(<<>>, r) = {1} /\ Append(<<>>, r)[1] = r
    BY <2>2, AppendFirst
  <2>4. t \in TaskType /\ t.requests = <<>> /\ t.fetches = <<>> /\ ~t.timer
    BY <1>1 DEF Idle
  <2>5. u \in TaskType
    BY <2>3, <2>4 DEF TaskType
  <2>6. /\ u.requests = Append(<<>>, r) /\ u.request /\ u.fetches = <<>>
        /\ ~u.timer /\ u.state = task.state /\ u.size = task.size
        /\ u.url = task.url /\ u.transferred <= u.size
        /\ u.promise = Verdict(u.state)
    BY <1>1, <1>2, <2>4 DEF TaskType, Idle
  <2> HIDE DEF u
  <2>7. DOMAIN u.fetches = {} /\ Len(u.fetches) = 0
    BY <2>6, EmptySeq, LenProperties
  <2>8. Single(u)
    <3>1. Outstanding(u) = 1
      BY <2>3, <2>6, <2>7 DEF Outstanding
    <3>2. u.requests # <<>>
      BY <2>3, <2>6, EmptySeq
    <3> QED BY <1>1, <2>6, <3>1, <3>2 DEF Single
  <2>9. Fits(u, r)
    BY <1>0, <2>2, <2>6 DEF Fits, Resumable
  <2>10. Sound(u)
    <3>1. r.outcome.stored <= u.size
      <4>1. u.size \in Nat
        BY <2>5, SizesAssumption DEF TaskType
      <4> QED BY <2>2, <4>1
    <3> QED BY <2>2, <2>3, <2>5, <2>6, <2>7, <2>8, <2>9, <3>1 DEF Sound
  <2>11. Honest(u, server)
    BY <2>2, <2>3, <2>6 DEF Honest
  <2>12. Inv'
    BY <1>3, <2>1, <2>6, <2>10, <2>11 DEF Inv, TokensReady
  <2> QED BY <1>1, <2>1, <2>6, <2>12, ActiveStep DEF TokensReady
<1>4. CASE task.state \in {"pausing", "canceling"}
  <2>1. task' = CompleteTransitions(t)
    BY <1>2, <1>4 DEF TokensReady
  <2> HIDE DEF t
  <2>2. /\ Sound(task') /\ task'.size = task.size /\ task'.requests = <<>>
        /\ task'.state = Rested(task.state)
    BY <1>1, <1>2, <2>1, CompleteSound
  <2>3. DOMAIN task'.requests = {}
    BY <2>2, EmptySeq, LenProperties
  <2>4. Inv'
    <3>1. Honest(task', server')
      BY <2>3 DEF Honest
    <3>2. task'.state \in {"canceling", "canceled"} => asked'
      BY <1>4, <2>2 DEF Inv, TokensReady, Rested
    <3> QED BY <2>2, <3>1, <3>2 DEF Inv, TokensReady
  <2> QED BY <1>1, <2>2, <2>4, RestingStep DEF TokensReady
<1> QED BY <1>1, <1>3, <1>4 DEF Active

(* A blob that cannot be sliced fails the upload.                          *)
LEMMA SliceFailsStep ==
  ASSUME Inv, NEW i \in DOMAIN task.fetches, SliceFails(i)
  PROVE  Inv' /\ ProtocolStep
<1> DEFINE t == [task EXCEPT !.fetches = RemoveAt(@, i)]
<1>1. Idle(t) /\ t.size = task.size /\ task.state \in Active
  BY FetchAlone DEF Inv, Sound, TaskType
<1>2. task' = End(t, "error")
  BY DEF SliceFails
<1> HIDE DEF t
<1>3. Idle(task') /\ Sound(task') /\ task'.state = "error"
      /\ task'.size = task.size
  BY <1>1, <1>2, EndSound DEF Final
<1>4. DOMAIN task'.requests = {}
  BY <1>3, EmptySeq, LenProperties DEF Idle
<1>5. Honest(task', server')
  BY <1>4 DEF Honest
<1>6. Inv'
  BY <1>3, <1>5 DEF Inv, SliceFails
<1> QED BY <1>1, <1>3, <1>6, RestingStep DEF SliceFails

(* The timer turns into a token fetch.                                     *)
LEMMA PendingTimeoutStep ==
  ASSUME Inv, PendingTimeout
  PROVE  Inv' /\ ProtocolStep
<1> DEFINE t == [task EXCEPT !.timer = FALSE]
           n == Least(t.size - t.transferred, t.multiplier)
<1>1. /\ Idle(t) /\ task.state = "running" /\ Resumable(task) /\ task.url
      /\ task.requests = <<>>
  BY TimerAlone DEF Inv, PendingTimeout
<1>2. task' = Fetch(t, "chunk", t.transferred, n)
  BY DEF PendingTimeout, ContinueUpload
<1>3. /\ t.state = "running" /\ t.size = task.size /\ t.url = task.url
      /\ t.size \in Nat /\ t.transferred \in Nat /\ t.multiplier \in Nat
      /\ t.transferred <= t.size /\ t.requests = <<>>
  <2>1. t \in TaskType /\ t.transferred <= t.size
    BY <1>1 DEF Idle
  <2>2. t.state = task.state /\ t.size = task.size /\ t.url = task.url
        /\ t.requests = task.requests
    BY DEF Inv, Sound, TaskType
  <2> HIDE DEF t
  <2>3. t.size \in Nat /\ t.transferred \in Nat
    BY <2>1, SizesAssumption DEF TaskType
  <2>4. t.multiplier \in Nat
    BY <2>1, LimitsAssumption DEF TaskType
  <2> QED BY <1>1, <2>1, <2>2, <2>3, <2>4
<1> HIDE DEF t
<1>4. n \in Nat /\ t.transferred + n <= t.size
  BY <1>3 DEF Least
<1> HIDE DEF n
<1>5. Fits(t, [step |-> "chunk", offset |-> t.transferred, len |-> n])
  BY <1>1, <1>3, <1>4 DEF Fits, Resumable
<1>6. Sound(task')
  BY <1>1, <1>2, <1>3, <1>4, <1>5, FetchSound DEF Steps
<1>7. task'.state = "running" /\ task'.size = task.size /\ task'.requests = <<>>
  BY <1>1, <1>2, <1>3 DEF Fetch, Idle, TaskType
<1>8. DOMAIN task'.requests = {}
  BY <1>7, EmptySeq, LenProperties
<1>9. Inv'
  BY <1>6, <1>7, <1>8 DEF Inv, PendingTimeout, Honest
<1> QED BY <1>1, <1>7, <1>9, ActiveStep DEF PendingTimeout, Active

(* The request actions that change the request alone, and its progress.    *)
LEMMA RequestStep ==
  ASSUME Inv, NEW i \in DOMAIN task.requests, NEW r \in RequestType,
         Stoppable(r), NEW n \in Nat, n <= task.size,
         r.step = task.requests[i].step, r.offset = task.requests[i].offset,
         r.len = task.requests[i].len, r.outcome.stored <= task.size,
         task' = Swapped(task, i, r, n, task.state),
         server' \in ServerType, server'.stored <= task.size,
         Honest(task', server'), UNCHANGED <<asked, pauses>>
  PROVE  Inv' /\ ProtocolStep
<1>1. task.state \in Active
  BY RequestAlone DEF Inv
<1>2. Fits(task, r)
  BY DEF Inv, Sound, Fits
<1>3. Sound(task') /\ task'.size = task.size /\ task'.state = task.state
  BY <1>1, <1>2, RequestSwap DEF Inv
<1>4. Inv'
  BY <1>3 DEF Inv
<1> QED BY <1>1, <1>3, <1>4, ActiveStep

(* What the invariant says of a request, for the lemmas below.             *)
LEMMA RequestFacts ==
  ASSUME Inv, NEW i \in DOMAIN task.requests
  PROVE  LET r == task.requests[i]
         IN  /\ i = 1 /\ DOMAIN task.requests = {1} /\ Len(task.requests) = 1
             /\ r \in RequestType /\ Stoppable(r) /\ Fits(task, r)
             /\ r.outcome.stored \in Nat /\ r.outcome.stored <= task.size
             /\ r.offset \in Nat /\ r.len \in Nat
             /\ r.offset + r.len <= task.size
             /\ task.transferred \in Nat /\ task.transferred <= task.size
             /\ task.size \in Nat /\ 0 <= task.size
<1>1. /\ i = 1 /\ DOMAIN task.requests = {1} /\ Len(task.requests) = 1
      /\ task.requests[i] \in RequestType
  BY RequestAlone DEF Inv
<1>2. /\ Stoppable(task.requests[i]) /\ Fits(task, task.requests[i])
      /\ task.requests[i].outcome.stored <= task.size
      /\ task.transferred <= task.size
  BY DEF Inv, Sound
<1>3. task.transferred \in Nat /\ task.size \in Nat
  BY SizesAssumption DEF Inv, Sound, TaskType
<1>4. /\ task.requests[i].offset \in Nat /\ task.requests[i].len \in Nat
      /\ task.requests[i].outcome.stored \in Nat
  BY <1>1 DEF RequestType, OutcomeType
<1> QED BY <1>1, <1>2, <1>3, <1>4 DEF Fits

(* Replacing the request only is a case of Swapped.                        *)
LEMMA SwapOnly ==
  ASSUME Inv, NEW i \in DOMAIN task.requests, NEW r,
         task' = [task EXCEPT !.requests[i] = r]
  PROVE  /\ task' = Swapped(task, i, r, task.transferred, task.state)
         /\ DOMAIN task'.requests = {1} /\ task'.requests[1] = r
BY RequestFacts DEF Swapped, Inv, Sound, TaskType

(* The request goes out, or is settled as canceled.                        *)
LEMMA RetryTimerStep ==
  ASSUME Inv, NEW i \in Requests, RetryTimer(i)
  PROVE  Inv' /\ ProtocolStep
<1> USE DEF Requests
<1> DEFINE q == task.requests[i]
           r == RetryTimerFires(q)
<1>1. /\ r \in RequestType /\ Stoppable(r) /\ r.step = q.step
      /\ r.offset = q.offset /\ r.len = q.len
      /\ r.outcome.stored \in {q.outcome.stored, 0}
      /\ r.phase = "settled" => r.outcome.kind # "ok"
  BY RequestFacts, RetryTimerOps DEF RetryTimer
<1>2. task' = [task EXCEPT !.requests[i] = r]
  BY DEF RetryTimer
<1> HIDE DEF r
<1>3. /\ task' = Swapped(task, i, r, task.transferred, task.state)
      /\ DOMAIN task'.requests = {1} /\ task'.requests[1] = r
  BY <1>2, SwapOnly
<1>4. Honest(task', server')
  BY <1>1, <1>3 DEF Honest
<1> QED BY <1>1, <1>3, <1>4, RequestFacts, RequestStep DEF RetryTimer, Inv

(* Its time is up.                                                         *)
LEMMA GlobalTimeoutStep ==
  ASSUME Inv, NEW i \in Requests, GlobalTimeout(i)
  PROVE  Inv' /\ ProtocolStep
<1> USE DEF Requests
<1> DEFINE q == task.requests[i]
           r == HitTimeout(q)
<1>1. /\ r \in RequestType /\ Stoppable(r) /\ r.step = q.step
      /\ r.offset = q.offset /\ r.len = q.len
      /\ r.outcome = q.outcome /\ r.phase = q.phase /\ q.phase # "settled"
  BY RequestFacts, HitTimeoutOps DEF GlobalTimeout
<1>2. task' = [task EXCEPT !.requests[i] = r]
  BY DEF GlobalTimeout
<1> HIDE DEF r
<1>3. /\ task' = Swapped(task, i, r, task.transferred, task.state)
      /\ DOMAIN task'.requests = {1} /\ task'.requests[1] = r
  BY <1>2, SwapOnly
<1>4. Honest(task', server')
  BY <1>1, <1>3 DEF Honest
<1> QED BY <1>1, <1>3, <1>4, RequestFacts, RequestStep DEF GlobalTimeout, Inv

(* Progress stays within the blob.                                         *)
LEMMA ProgressStep ==
  ASSUME Inv, NEW i \in Requests, Progress(i)
  PROVE  Inv' /\ ProtocolStep
<1> USE DEF Requests
<1> DEFINE r == task.requests[i]
<1>1. PICK k \in 1 .. r.len : task' = [task EXCEPT !.transferred = r.offset + k]
  BY DEF Progress
<1> DEFINE n == r.offset + k
<1>2. n \in Nat /\ n <= task.size
  BY RequestFacts
<1> HIDE DEF n
<1>3. task' = [task EXCEPT !.transferred = n]
  BY <1>1 DEF n
<1>4. task' = Swapped(task, i, r, n, task.state)
  <2>1. task \in TaskType /\ task.requests \in Seq(RequestType)
    BY DEF Inv, Sound, TaskType
  <2>2. [task.requests EXCEPT ![i] = r] = task.requests
    BY <2>1, LenProperties
  <2> HIDE DEF r
  <2> QED BY <1>3, <2>1, <2>2 DEF Swapped, TaskType
<1>5. task'.requests = task.requests
  BY <1>3 DEF Inv, Sound, TaskType
<1>6. Honest(task', server')
  BY <1>5 DEF Progress, Inv, Honest
<1> QED BY <1>2, <1>4, <1>6, RequestFacts, RequestStep DEF Progress, Inv

(* What the server makes of a request that it accepts.                     *)
LEMMA ServerOps ==
  ASSUME Inv, NEW i \in DOMAIN task.requests, Accepts(server, task.requests[i])
  PROVE  LET r == task.requests[i]
             s == Process(server, r)
         IN  /\ s \in ServerType /\ s.stored <= task.size
             /\ r.step \in {"metadata", "oneShot"} => s.final
             /\ r.step = "chunk" => s.stored = r.offset + r.len
             /\ r.step \notin {"create", "chunk", "oneShot"} => s = server
             /\ r.step = "create" => s.stored = 0 /\ ~s.final
             /\ r.step = "chunk" => Meets(r, server)
<1> DEFINE r == task.requests[i]
<1>1. /\ r.step \in Steps /\ r.offset \in Nat /\ r.len \in Nat
      /\ r.offset + r.len <= task.size /\ task.size \in Nat /\ 0 <= task.size
  BY RequestFacts DEF RequestType
<1>2. server \in ServerType /\ server.stored <= task.size
  BY DEF Inv
<1>3. CASE r.step = "create"
  <2>1. Process(server, r) = [stored |-> 0, final |-> FALSE]
    BY <1>3 DEF Process
  <2> QED BY <1>1, <1>3, <2>1 DEF ServerType
<1>4. CASE r.step = "chunk"
  <2>1. Process(server, r) = [stored |-> server.stored + r.len,
                              final |-> server.stored + r.len = task.size]
    BY <1>4 DEF Process
  <2>2. Meets(r, server)
    BY <1>4 DEF Accepts, Meets
  <2> QED BY <1>1, <1>4, <2>1, <2>2 DEF ServerType, Meets
<1>5. CASE r.step = "oneShot"
  <2>1. Process(server, r) = [stored |-> task.size, final |-> TRUE]
    BY <1>5 DEF Process
  <2> QED BY <1>1, <1>5, <2>1 DEF ServerType
<1>6. CASE r.step \in {"status", "metadata"}
  <2>1. Process(server, r) = server
    BY <1>6 DEF Process
  <2> QED BY <1>2, <1>6, <2>1 DEF Accepts
<1> QED BY <1>1, <1>3, <1>4, <1>5, <1>6 DEF Steps

(* What it may be left with when the exchange is cut short.                *)
LEMMA LeftoverOps ==
  ASSUME Inv, NEW i \in DOMAIN task.requests,
         NEW s \in Leftovers(server, task.requests[i])
  PROVE  LET r == task.requests[i]
         IN  /\ s \in ServerType /\ s.stored <= task.size
             /\ r.step \notin {"create", "chunk", "oneShot"} => s = server
             /\ r.step = "create" => s = server \/ (s.stored = 0 /\ ~s.final)
<1> DEFINE r == task.requests[i]
<1>1. server \in ServerType /\ server.stored <= task.size
  BY DEF Inv
<1>2. CASE s = server
  BY <1>1, <1>2
<1>3. CASE Accepts(server, r) /\ s = Process(server, r)
  BY <1>3, ServerOps
<1>4. CASE /\ Accepts(server, r) /\ r.step = "chunk"
           /\ \E k \in 1 .. r.len : s = [server EXCEPT !.stored = @ + k]
  <2>1. PICK k \in 1 .. r.len : s = [server EXCEPT !.stored = @ + k]
    BY <1>4
  <2>2. r.offset = server.stored
    BY <1>4 DEF Accepts
  <2>3. /\ r.offset \in Nat /\ r.len \in Nat
        /\ r.offset + r.len <= task.size /\ task.size \in Nat
    BY RequestFacts
  <2>4. server.stored + k \in Nat /\ server.stored + k <= task.size
    BY <2>2, <2>3
  <2> QED BY <1>1, <1>4, <2>1, <2>4 DEF ServerType
<1> QED BY <1>2, <1>3, <1>4 DEF Leftovers

(* An answer tells what the server holds.                                  *)
LEMMA AnswerStep ==
  ASSUME Inv, NEW i \in Requests, Answer(i)
  PROVE  Inv' /\ ProtocolStep
<1> USE DEF Requests
<1> DEFINE q == task.requests[i]
           o == [kind |-> "ok", stored |-> server'.stored, final |-> server'.final]
           r == Settle(q, o)
<1>1. /\ server' \in ServerType /\ server'.stored <= task.size
      /\ q.step \in {"metadata", "oneShot"} => server'.final
      /\ q.step = "chunk" => server'.stored = q.offset + q.len
  BY ServerOps DEF Answer
<1>2. o \in OutcomeType
  BY <1>1 DEF OutcomeType, ServerType
<1>3. /\ r \in RequestType /\ Stoppable(r) /\ r.step = q.step
      /\ r.offset = q.offset /\ r.len = q.len /\ r.outcome = o
  BY <1>2, RequestFacts, SettleOps
<1>4. task' = [task EXCEPT !.requests[i] = r]
  BY DEF Answer
<1> HIDE DEF r
<1>5. /\ task' = Swapped(task, i, r, task.transferred, task.state)
      /\ DOMAIN task'.requests = {1} /\ task'.requests[1] = r
  BY <1>4, SwapOnly
<1>6. Honest(task', server')
  BY <1>1, <1>3, <1>5 DEF Honest
<1>7. r.outcome.stored <= task.size
  BY <1>1, <1>3
<1> QED BY <1>1, <1>3, <1>5, <1>6, <1>7, RequestFacts, RequestStep DEF Answer

(* A refusal settles the request alone.                                    *)
LEMMA RefuseStep ==
  ASSUME Inv, NEW i \in Requests, Refuse(i)
  PROVE  Inv' /\ ProtocolStep
<1> USE DEF Requests
<1> DEFINE q == task.requests[i]
           r == Settle(q, Rejected("fatal"))
<1>1. /\ r \in RequestType /\ Stoppable(r) /\ r.step = q.step
      /\ r.offset = q.offset /\ r.len = q.len
      /\ r.outcome.stored = 0 /\ r.outcome.kind = "fatal"
  BY RequestFacts, SettleOps, RejectedType
<1>2. task' = [task EXCEPT !.requests[i] = r]
  BY DEF Refuse
<1> HIDE DEF r
<1>3. /\ task' = Swapped(task, i, r, task.transferred, task.state)
      /\ DOMAIN task'.requests = {1} /\ task'.requests[1] = r
  BY <1>2, SwapOnly
<1>4. Honest(task', server')
  BY <1>1, <1>3 DEF Honest
<1> QED BY <1>1, <1>3, <1>4, RequestFacts, RequestStep DEF Refuse, Inv

(* A 5xx status settles a chunk; others try again.                         *)
LEMMA UnavailableStep ==
  ASSUME Inv, NEW i \in Requests, Unavailable(i)
  PROVE  Inv' /\ ProtocolStep
<1> USE DEF Requests
<1> DEFINE q == task.requests[i]
           r == IF q.step = "chunk" THEN Settle(q, Rejected("retryable"))
                                    ELSE AttemptFails(q, FALSE)
<1>1. server' \in ServerType /\ server'.stored <= task.size
  BY LeftoverOps DEF Unavailable
<1>2. /\ r \in RequestType /\ Stoppable(r) /\ r.step = q.step
      /\ r.offset = q.offset /\ r.len = q.len
      /\ r.outcome.stored \in {q.outcome.stored, 0}
      /\ r.phase = "settled" => r.outcome.kind # "ok"
  <2>1. CASE q.step = "chunk"
    BY <2>1, RequestFacts, SettleOps, RejectedType
  <2>2. CASE q.step # "chunk"
    BY <2>2, RequestFacts, AttemptOps DEF Unavailable
  <2> QED BY <2>1, <2>2
<1>3. task' = [task EXCEPT !.requests[i] = r]
  BY DEF Unavailable
<1> HIDE DEF r
<1>4. /\ task' = Swapped(task, i, r, task.transferred, task.state)
      /\ DOMAIN task'.requests = {1} /\ task'.requests[1] = r
  BY <1>3, SwapOnly
<1>5. Honest(task', server')
  BY <1>2, <1>4 DEF Honest
<1> QED BY <1>1, <1>2, <1>4, <1>5, RequestFacts, RequestStep DEF Unavailable

(* A connection that fails leaves its request to try again.                *)
LEMMA DisconnectStep ==
  ASSUME Inv, NEW i \in Requests, Disconnect(i)
  PROVE  Inv' /\ ProtocolStep
<1> USE DEF Requests
<1> DEFINE q == task.requests[i]
           r == AttemptFails(q, q.aborted)
<1>1. server' \in ServerType /\ server'.stored <= task.size
  BY LeftoverOps DEF Disconnect
<1>2. /\ r \in RequestType /\ Stoppable(r) /\ r.step = q.step
      /\ r.offset = q.offset /\ r.len = q.len
      /\ r.outcome.stored \in {q.outcome.stored, 0}
      /\ r.phase = "settled" => r.outcome.kind # "ok"
  <2>1. q.aborted \in BOOLEAN
    BY RequestFacts DEF RequestType
  <2> QED BY <2>1, RequestFacts, AttemptOps DEF Disconnect
<1>3. task' = [task EXCEPT !.requests[i] = r]
  BY DEF Disconnect
<1> HIDE DEF r
<1>4. /\ task' = Swapped(task, i, r, task.transferred, task.state)
      /\ DOMAIN task'.requests = {1} /\ task'.requests[1] = r
  BY <1>3, SwapOnly
<1>5. Honest(task', server')
  BY <1>2, <1>4 DEF Honest
<1> QED BY <1>1, <1>2, <1>4, <1>5, RequestFacts, RequestStep DEF Disconnect

(* The handler of the promise moves the upload on.                         *)
LEMMA HandleStep ==
  ASSUME Inv, NEW i \in Requests, Handle(i)
  PROVE  Inv' /\ ProtocolStep
<1> USE DEF Requests
<1> DEFINE r == task.requests[i]
           t == [task EXCEPT !.requests = RemoveAt(@, i), !.request = FALSE]
<1>1. Idle(t) /\ task.state \in Active
  BY RequestAlone DEF Inv
<1>2. t.state = task.state /\ t.size = task.size /\ t.url = task.url
  BY DEF Inv, Sound, TaskType
<1>3. /\ r \in RequestType /\ Fits(t, r) /\ r.outcome.stored <= t.size
  BY <1>2, RequestFacts DEF Fits, Resumable
<1>4. task' = IF r.outcome.kind = "ok" THEN Resolved(t, r) ELSE Failed(t, r)
  BY DEF Handle
<1>5. UNCHANGED <<server, asked, pauses>> /\ r.phase = "settled"
  BY DEF Handle
<1> HIDE DEF t
<1>6. /\ Sound(task') /\ task'.size = task.size /\ task'.requests = <<>>
      /\ \/ task'.state \in {Rested(task.state), "error"}
         \/ task'.state = "success" /\ server.final
  <2>1. CASE r.outcome.kind = "ok"
    <3>1. /\ r.outcome.final = server.final
          /\ r.step \in {"metadata", "oneShot"} => server.final
      BY <1>5, <2>1 DEF Inv, Honest
    <3>2. task' = Resolved(t, r)
      BY <1>4, <2>1
    <3> QED BY <1>1, <1>2, <1>3, <3>1, <3>2, ResolvedSound
  <2>2. CASE r.outcome.kind # "ok"
    <3>1. task' = Failed(t, r)
      BY <1>4, <2>2
    <3> QED BY <1>1, <1>2, <1>3, <3>1, FailedSound
  <2> QED BY <2>1, <2>2
<1>7. Honest(task', server')
  BY <1>6, EmptySeq, LenProperties DEF Honest
<1>8. task'.state \in {"canceling", "canceled"} => asked
  BY <1>1, <1>6 DEF Inv, Rested, Active
<1>9. Inv'
  BY <1>5, <1>6, <1>7, <1>8 DEF Inv
<1> QED BY <1>1, <1>5, <1>6, <1>9, RestingStep

----------------------------------------------------------------------------
(* The invariant, and what follows from it                                 *)

(* It holds at the start, where the protocol is at its start too.          *)
LEMMA InvInit == Init => Inv /\ Promised!Init
<1> SUFFICES ASSUME Init PROVE Inv /\ Promised!Init
  OBVIOUS
<1>1. PICK size \in Sizes :
        task = Start([state |-> "running", size |-> size, url |-> FALSE,
                      needStatus |-> FALSE, needMetadata |-> FALSE,
                      transferred |-> 0, multiplier |-> 1, sleep |-> 0,
                      timer |-> FALSE, request |-> FALSE, fetches |-> <<>>,
                      requests |-> <<>>, promise |-> "pending"])
  BY DEF Init
<1> DEFINE t == [state |-> "running", size |-> size, url |-> FALSE,
                 needStatus |-> FALSE, needMetadata |-> FALSE,
                 transferred |-> 0, multiplier |-> 1, sleep |-> 0,
                 timer |-> FALSE, request |-> FALSE, fetches |-> <<>>,
                 requests |-> <<>>, promise |-> "pending"]
<1>2. /\ <<>> \in Seq([step : Steps, offset : Nat, len : Nat])
      /\ <<>> \in Seq(RequestType) /\ 1 \in 1 .. MaxChunk
      /\ size \in Nat /\ 0 <= size
  BY EmptySeq, LimitsAssumption, SizesAssumption
<1>3. t \in TaskType
  BY <1>2 DEF TaskType, Active
<1>4. Idle(t) /\ t.state = "running" /\ t.size = size
  BY <1>2, <1>3 DEF Idle, Verdict
<1>5. task = Start(t)
  BY <1>1
<1> HIDE DEF t
<1>6. /\ Sound(task) /\ task.state = "running" /\ task.size = size
      /\ task.requests = <<>>
  BY <1>4, <1>5, StartSound
<1>7. DOMAIN task.requests = {}
  BY <1>6, EmptySeq, LenProperties
<1>8. server \in ServerType /\ server.stored <= task.size /\ ~server.final
  BY <1>2, <1>6 DEF Init, ServerType
<1>9. Inv
  BY <1>6, <1>7, <1>8 DEF Init, Inv, Honest
<1>10. Shown(task.state) = "running" /\ task.promise = "pending"
  BY <1>6 DEF Sound, Shown, Verdict
<1> QED BY <1>8, <1>9, <1>10 DEF Init, Promised!Init

(* Every step keeps it and is a step of the protocol.                      *)
LEMMA InvStep == Inv /\ [Next]_vars => Inv' /\ ProtocolStep
<1> SUFFICES ASSUME Inv, [Next]_vars PROVE Inv' /\ ProtocolStep
  OBVIOUS
<1>1. CASE Pause
  BY <1>1, PauseStep
<1>2. CASE Resume
  BY <1>2, ResumeStep
<1>3. CASE Cancel
  BY <1>3, CancelStep
<1>4. CASE PendingTimeout
  BY <1>4, PendingTimeoutStep
<1>5. CASE \E i \in DOMAIN task.fetches : TokensReady(i) \/ SliceFails(i)
  BY <1>5, TokensReadyStep, SliceFailsStep
<1>6. CASE \E i \in Requests : RetryTimer(i) \/ GlobalTimeout(i) \/ Progress(i)
  BY <1>6, RetryTimerStep, GlobalTimeoutStep, ProgressStep
<1>7. CASE \E i \in Requests : Connection(i)
  BY <1>7, AnswerStep, RefuseStep, UnavailableStep, DisconnectStep DEF Connection
<1>8. CASE \E i \in Requests : Handle(i)
  BY <1>8, HandleStep
<1>9. CASE UNCHANGED vars
  BY <1>9 DEF vars, Inv, ProtocolStep, Promised!vars
<1> QED BY <1>1, <1>2, <1>3, <1>4, <1>5, <1>6, <1>7, <1>8, <1>9 DEF Next

(* The invariant holds throughout.                                         *)
THEOREM UploadInvariant == Spec => []Inv
BY InvInit, InvStep, PTL DEF Spec

(* The upload keeps its type for blobs of any size and any limits.         *)
THEOREM UploadTyped == Spec => []TypeOK
<1>1. Inv => TypeOK
  BY DEF Inv, Sound, TypeOK, ServerType
<1> QED BY <1>1, UploadInvariant, PTL

(* An active upload has exactly one thing outstanding, the others none     *)
(* (task.ts, _start, _transition, _resolveToken).                          *)
THEOREM OneOperationAlways == Spec => []OneOperation
<1>1. Inv => OneOperation
  BY DEF Inv, Sound, Single, OneOperation
<1> QED BY <1>1, UploadInvariant, PTL

(* The upload implements what it promises its application (task.ts,        *)
(* _transition, _finishPromise).                                           *)
THEOREM ProtocolKept == Spec => KeepsProtocol
BY InvInit, InvStep, UploadInvariant, PTL
DEF Spec, KeepsProtocol, Promised!Spec, ProtocolStep

----------------------------------------------------------------------------
(* Chunks meet the server                                                  *)

(* InStep, of an idle task.                                                *)
Known(t, s) ==
  /\ Resumable(t) /\ ~t.url => s.stored = 0 /\ ~s.final /\ t.transferred = 0
  /\ /\ Resumable(t) /\ t.url /\ ~t.needStatus /\ ~t.needMetadata
     /\ t.state \notin Final
     => ~s.final /\ t.transferred = s.stored

(* An idle task is in step, having sent nothing.                           *)
LEMMA IdleInStep ==
  ASSUME NEW t, Idle(t), NEW s
  PROVE  Known(t, s) <=> InStep(t, s)
<1>1. DOMAIN t.fetches = {} /\ DOMAIN t.requests = {} /\ ~t.timer
  BY EmptySeq, LenProperties DEF Idle
<1> QED BY <1>1 DEF Known, InStep

(* A fetch for a chunk is in step where the count is the server's.         *)
LEMMA FetchInStep ==
  ASSUME NEW t, Idle(t), NEW s, Known(t, s),
         NEW step \in Steps, NEW offset \in Nat, NEW len \in Nat,
         step = "chunk" => ~s.final /\ offset = s.stored
  PROVE  InStep(Fetch(t, step, offset, len), s)
<1> DEFINE o == [step |-> step, offset |-> offset, len |-> len]
           u == Fetch(t, step, offset, len)
<1>1. t \in TaskType /\ o \in FetchType /\ ~t.timer
      /\ t.fetches = <<>> /\ t.requests = <<>>
  BY DEF FetchType, Idle
<1>2. DOMAIN Append(<<>>, o) = {1} /\ Append(<<>>, o)[1] = o
  BY <1>1, AppendFirst
<1>3. /\ u.fetches = Append(<<>>, o) /\ u.requests = <<>> /\ u.timer = t.timer
      /\ u.size = t.size /\ u.url = t.url /\ u.needStatus = t.needStatus
      /\ u.needMetadata = t.needMetadata /\ u.state = t.state
      /\ u.transferred = t.transferred
  BY <1>1 DEF Fetch, TaskType
<1>4. DOMAIN u.requests = {}
  BY <1>3, EmptySeq, LenProperties
<1>5. o.step = step /\ o.offset = offset
  OBVIOUS
<1> HIDE DEF u, o
<1>6. \A i \in DOMAIN u.fetches :
        u.fetches[i].step = "chunk" => Meets(u.fetches[i], s)
  BY <1>2, <1>3, <1>5 DEF Meets
<1>7. Known(u, s)
  BY <1>3 DEF Known, Resumable
<1> QED BY <1>1, <1>3, <1>4, <1>6, <1>7 DEF InStep, Known, u

(* So is whatever _start begins.                                           *)
LEMMA StartInStep ==
  ASSUME NEW t, Idle(t), NEW s, Known(t, s)
  PROVE  InStep(Start(t), s)
<1>0. t \in TaskType /\ t.size \in Nat
  BY SizesAssumption DEF Idle, TaskType
<1>1. CASE Start(t) = t
  BY <1>1, IdleInStep
<1>2. CASE \E step \in Steps \ {"chunk"} : \E len \in Nat :
             Start(t) = Fetch(t, step, 0, len)
  BY <1>2, FetchInStep
<1>3. CASE /\ Start(t) = [t EXCEPT !.timer = TRUE]
           /\ t.state = "running" /\ Resumable(t) /\ t.url
           /\ ~t.needStatus /\ ~t.needMetadata
  <2> DEFINE u == [t EXCEPT !.timer = TRUE]
  <2>1. ~s.final /\ t.transferred = s.stored
    BY <1>3 DEF Known, Final
  <2>2. InStep(t, s)
    BY IdleInStep
  <2>3. /\ u.fetches = t.fetches /\ u.requests = t.requests
        /\ u.size = t.size /\ u.url = t.url /\ u.needStatus = t.needStatus
        /\ u.needMetadata = t.needMetadata /\ u.state = t.state
        /\ u.transferred = t.transferred
    BY <1>0 DEF TaskType
  <2> HIDE DEF u
  <2>4. InStep(u, s)
    BY <2>1, <2>2, <2>3 DEF InStep, Resumable
  <2> QED BY <1>3, <2>4 DEF u
<1> QED BY <1>0, <1>1, <1>2, <1>3 DEF Start, Steps

(* And the end of an upload.                                               *)
LEMMA EndInStep ==
  ASSUME NEW t, Idle(t), NEW s, NEW state \in Final,
         Resumable(t) /\ ~t.url => s.stored = 0 /\ ~s.final /\ t.transferred = 0
  PROVE  InStep(End(t, state), s)
<1> DEFINE u == End(t, state)
<1>1. Idle(u) /\ u.state \in Final
  BY EndSound
<1>2. u.size = t.size /\ u.url = t.url /\ u.transferred = t.transferred
  BY DEF End, Idle, TaskType
<1>3. Known(u, s)
  BY <1>1, <1>2 DEF Known, Resumable
<1> QED BY <1>1, <1>3, IdleInStep

(* And a transition that completes.                                        *)
LEMMA CompleteInStep ==
  ASSUME NEW t, Idle(t), NEW s, Known(t, s)
  PROVE  InStep(CompleteTransitions(t), s)
<1>1. CASE t.state = "pausing"
  <2> DEFINE u == [t EXCEPT !.state = "paused"]
  <2>1. CompleteTransitions(t) = u
    BY <1>1 DEF CompleteTransitions
  <2>2. Idle(u) /\ Known(u, s)
    BY <1>1 DEF Idle, TaskType, Verdict, Known, Resumable, Final
  <2> QED BY <2>1, <2>2, IdleInStep
<1>2. CASE t.state = "canceling"
  BY <1>2, EndInStep DEF CompleteTransitions, Known, Final
<1>3. CASE t.state \notin {"pausing", "canceling"}
  BY <1>3, StartInStep DEF CompleteTransitions
<1> QED BY <1>1, <1>2, <1>3

(* What InStep depends on.                                                 *)
LEMMA SameInStep ==
  ASSUME NEW t, NEW u, NEW s, InStep(t, s),
         t.state \in Final => u.state \in Final,
         u.size = t.size, u.url = t.url, u.needStatus = t.needStatus,
         u.needMetadata = t.needMetadata, u.transferred = t.transferred,
         u.timer = t.timer, u.fetches = t.fetches, u.requests = t.requests
  PROVE  InStep(u, s)
BY DEF InStep, Resumable

(* Interrupting keeps it in step.                                          *)
LEMMA PauseCancelInStep ==
  ASSUME NEW t, Sound(t), t.state \in {"running", "pausing"}, NEW s, InStep(t, s),
         NEW state \in {"pausing", "canceling"}
  PROVE  InStep(Interrupt(t, state), s)
<1> DEFINE u == Interrupt(t, state)
<1>0. t \in TaskType /\ t.request \in BOOLEAN /\ t.timer \in BOOLEAN
  BY DEF Sound, TaskType
<1>1. CASE t.request
  <2> DEFINE r == t.requests[1]
             c == CancelRequest(r)
             q == [t.requests EXCEPT ![1] = c]
  <2>1. 1 \in DOMAIN t.requests
    BY <1>0, <1>1, Counts DEF Sound, Single
  <2>2. DOMAIN t.requests = {1} /\ r \in RequestType /\ Stoppable(r)
    BY <2>1, RequestAlone DEF Sound
  <2>3. c.step = r.step /\ c.offset = r.offset /\ c.phase = r.phase
        /\ c.resent = r.resent
    BY <2>2, CancelOps
  <2>4. u = [t EXCEPT !.state = state, !.requests[1] = c]
    BY <1>1, <1>0, <2>1, RequestAlone DEF Interrupt
  <2>5. /\ u.requests = q /\ u.state = state /\ u.timer = t.timer
        /\ u.fetches = t.fetches /\ u.size = t.size /\ u.url = t.url
        /\ u.needStatus = t.needStatus /\ u.needMetadata = t.needMetadata
        /\ u.transferred = t.transferred
    BY <1>0, <2>4 DEF TaskType
  <2> HIDE DEF c
  <2>6. DOMAIN q = {1} /\ q[1] = c
    BY <2>2
  <2> HIDE DEF u, q
  <2>7. t.state \notin Final
    BY DEF Final
  <2>8. \A i \in DOMAIN u.requests : u.requests[i].step = t.requests[i].step
    BY <2>2, <2>3, <2>5, <2>6
  <2>9. InStep(u, s)
    <3>1. \A i \in DOMAIN u.requests :
            LET x == u.requests[i]
            IN  x.step = "chunk" /\ x.phase # "settled" /\ ~x.resent =>
                  Meets(x, s)
      BY <2>2, <2>3, <2>5, <2>6 DEF InStep, Meets
    <3> QED BY <2>2, <2>5, <2>6, <2>7, <2>8, <3>1 DEF InStep, Resumable
  <2> QED BY <2>9 DEF u
<1>2. CASE ~t.request /\ t.timer
  <2> DEFINE v == [t EXCEPT !.state = state, !.timer = FALSE]
  <2>1. Idle([t EXCEPT !.timer = FALSE]) /\ t.state = "running" /\ t.requests = <<>>
    BY <1>2, TimerAlone
  <2>2. Idle(v)
    BY <1>0, <2>1 DEF Idle, TaskType, Verdict, Active
  <2>3. u = CompleteTransitions(v)
    BY <1>2 DEF Interrupt
  <2>4. /\ v.size = t.size /\ v.url = t.url /\ v.needStatus = t.needStatus
        /\ v.needMetadata = t.needMetadata /\ v.transferred = t.transferred
    BY <1>0 DEF TaskType
  <2>5. DOMAIN t.requests = {}
    BY <2>1, EmptySeq, LenProperties
  <2> HIDE DEF v
  <2>6. Known(v, s)
    BY <1>2, <2>1, <2>4, <2>5 DEF InStep, Known, Resumable, Final
  <2> QED BY <2>2, <2>3, <2>6, CompleteInStep
<1>3. CASE ~t.request /\ ~t.timer
  <2>1. u = [t EXCEPT !.state = state]
    BY <1>3 DEF Interrupt
  <2>2. /\ u.requests = t.requests /\ u.timer = t.timer
        /\ u.fetches = t.fetches /\ u.size = t.size /\ u.url = t.url
        /\ u.needStatus = t.needStatus /\ u.needMetadata = t.needMetadata
        /\ u.transferred = t.transferred
    BY <1>0, <2>1 DEF TaskType
  <2> HIDE DEF u
  <2>3. InStep(u, s)
    BY <2>2, SameInStep DEF Final
  <2> QED BY <2>3 DEF u
<1> QED BY <1>0, <1>1, <1>2, <1>3

(* So does resuming.                                                       *)
LEMMA RunInStep ==
  ASSUME NEW t, Sound(t), t.state \in {"paused", "pausing"}, NEW s, InStep(t, s)
  PROVE  InStep(Run(t), s)
<1> DEFINE v == [t EXCEPT !.state = "running"]
<1>1. /\ v.requests = t.requests /\ v.timer = t.timer
      /\ v.fetches = t.fetches /\ v.size = t.size /\ v.url = t.url
      /\ v.needStatus = t.needStatus /\ v.needMetadata = t.needMetadata
      /\ v.transferred = t.transferred
  BY DEF Sound, TaskType
<1>2. InStep(v, s)
  <2> HIDE DEF v
  <2> QED BY <1>1, SameInStep DEF Final
<1>3. CASE t.state = "paused"
  <2>1. Idle(t)
    BY <1>3, RestIdle DEF Active
  <2>2. Idle(v)
    BY <1>3, <2>1 DEF Idle, TaskType, Verdict, Active
  <2>3. Run(t) = Start(v)
    BY <1>3 DEF Run
  <2> HIDE DEF v
  <2> QED BY <1>2, <2>2, <2>3, IdleInStep, StartInStep
<1>4. CASE t.state = "pausing"
  BY <1>2, <1>4 DEF Run
<1> QED BY <1>3, <1>4

(* A chunk request asks for what its fetch was for.                        *)
LEMMA TokensInStep ==
  ASSUME Inv, InStep(task, server), NEW i \in DOMAIN task.fetches,
         TokensReady(i) \/ SliceFails(i)
  PROVE  InStep(task', server')
<1> DEFINE f == task.fetches[i]
           t == [task EXCEPT !.fetches = RemoveAt(@, i)]
           r == NewRequest(f.step, f.offset, f.len)
<1>1. /\ Idle(t) /\ task.state \in Active
      /\ task.requests = <<>> /\ ~task.timer /\ f \in FetchType
      /\ task \in TaskType
  BY FetchAlone DEF Inv, Sound
<1>2. /\ t.size = task.size /\ t.url = task.url /\ t.state = task.state
      /\ t.needStatus = task.needStatus /\ t.needMetadata = task.needMetadata
      /\ t.transferred = task.transferred
  BY <1>1 DEF TaskType
<1>3. DOMAIN task.requests = {}
  BY <1>1, EmptySeq, LenProperties
<1> HIDE DEF t
<1>4. Known(t, server)
  BY <1>1, <1>2, <1>3 DEF InStep, Known, Resumable
<1>5. server' = server
  BY DEF TokensReady, SliceFails
<1>6. CASE SliceFails(i)
  BY <1>1, <1>4, <1>5, <1>6, EndInStep DEF SliceFails, t, Known, Final
<1>7. CASE TokensReady(i) /\ task.state # "running"
  <2>1. task' = CompleteTransitions(t)
    BY <1>1, <1>2, <1>7 DEF TokensReady, t, Active
  <2> QED BY <1>1, <1>4, <1>5, <2>1, CompleteInStep
<1>8. CASE TokensReady(i) /\ task.state = "running"
  <2>1. task' = [t EXCEPT !.request = TRUE, !.requests = Append(@, r)]
    BY <1>2, <1>8 DEF TokensReady, t
  <2>2. /\ r \in RequestType /\ r.step = f.step
        /\ r.offset = f.offset /\ r.phase = "waiting"
    BY <1>1, NewOps
  <2> HIDE DEF r
  <2>3. DOMAIN Append(<<>>, r) = {1} /\ Append(<<>>, r)[1] = r
    BY <2>2, AppendFirst
  <2>4. t \in TaskType /\ t.requests = <<>> /\ t.fetches = <<>> /\ ~t.timer
    BY <1>1 DEF Idle
  <2>5. /\ task'.requests = Append(<<>>, r) /\ task'.fetches = <<>>
        /\ ~task'.timer
        /\ task'.size = t.size /\ task'.url = t.url /\ task'.state = t.state
        /\ task'.needStatus = t.needStatus
        /\ task'.needMetadata = t.needMetadata
        /\ task'.transferred = t.transferred
    BY <2>1, <2>4 DEF TaskType
  <2>6. DOMAIN task'.fetches = {}
    BY <2>5, EmptySeq, LenProperties
  <2>7. r.step = "chunk" => Meets(r, server)
    BY <2>2 DEF InStep, Meets
  <2>8. Known(task', server)
    BY <1>4, <2>5 DEF Known, Resumable
  <2> QED BY <1>5, <2>3, <2>5, <2>6, <2>7, <2>8 DEF InStep, Known
<1> QED BY <1>6, <1>7, <1>8

(* The timer only runs for an upload that knows where it stands.           *)
LEMMA TimerInStep ==
  ASSUME Inv, InStep(task, server), PendingTimeout
  PROVE  InStep(task', server')
<1> DEFINE t == [task EXCEPT !.timer = FALSE]
           n == Least(t.size - t.transferred, t.multiplier)
<1>1. Idle(t) /\ task.requests = <<>> /\ task \in TaskType
  BY TimerAlone DEF Inv, PendingTimeout, Sound
<1>2. task' = Fetch(t, "chunk", t.transferred, n) /\ server' = server
  BY DEF PendingTimeout, ContinueUpload
<1>3. /\ t.size = task.size /\ t.url = task.url /\ t.state = task.state
      /\ t.needStatus = task.needStatus /\ t.needMetadata = task.needMetadata
      /\ t.transferred = task.transferred
  BY <1>1 DEF TaskType
<1>4. DOMAIN task.requests = {}
  BY <1>1, EmptySeq, LenProperties
<1>5. t \in TaskType /\ t.transferred <= t.size
  BY <1>1 DEF Idle
<1> HIDE DEF t
<1>6. t.size \in Nat /\ t.transferred \in Nat /\ t.multiplier \in Nat
  <2>1. t.size \in Nat /\ t.transferred \in Nat
    BY <1>5, SizesAssumption DEF TaskType
  <2>2. t.multiplier \in Nat
    BY <1>5, LimitsAssumption DEF TaskType
  <2> QED BY <2>1, <2>2
<1>7. n \in Nat
  BY <1>5, <1>6 DEF Least
<1> HIDE DEF n
<1>8. Known(t, server)
  BY <1>3, <1>4 DEF InStep, Known, Resumable
<1>9. ~server.final /\ t.transferred = server.stored
  BY <1>3 DEF PendingTimeout, InStep
<1> QED BY <1>1, <1>2, <1>6, <1>7, <1>8, <1>9, FetchInStep DEF Steps

(* Of a request that changes, the chunk has to meet the server.            *)
LEMMA RequestInStep ==
  ASSUME Inv, InStep(task, server), NEW i \in DOMAIN task.requests,
         NEW r \in RequestType, NEW n \in Nat,
         r.step = task.requests[i].step,
         task' = Swapped(task, i, r, n, task.state),
         r.step = "chunk" \/ n = task.transferred,
         r.step \notin {"create", "chunk", "oneShot"} => server' = server,
         r.step = "create" =>
           server' = server \/ (server'.stored = 0 /\ ~server'.final),
         r.step = "chunk" /\ r.phase # "settled" /\ ~r.resent =>
           Meets(r, server')
  PROVE  InStep(task', server')
<1>1. /\ i = 1 /\ DOMAIN task.requests = {1} /\ Fits(task, task.requests[i])
      /\ task.fetches = <<>> /\ ~task.timer /\ task \in TaskType
  BY RequestFacts, RequestAlone DEF Inv, Sound
<1>2. /\ task'.requests = [task.requests EXCEPT ![i] = r]
      /\ task'.state = task.state /\ task'.transferred = n
      /\ task'.fetches = task.fetches /\ ~task'.timer
      /\ task'.size = task.size /\ task'.url = task.url
      /\ task'.needStatus = task.needStatus
      /\ task'.needMetadata = task.needMetadata
  BY <1>1 DEF Swapped, TaskType
<1>3. DOMAIN task'.requests = {1} /\ task'.requests[1] = r
  BY <1>1, <1>2
<1>4. DOMAIN task'.fetches = {}
  BY <1>1, <1>2, EmptySeq, LenProperties
<1>5. Known(task', server') \/ r.step = "chunk"
  <2>1. Known(task, server) \/ r.step = "chunk"
    BY <1>1 DEF InStep, Known
  <2>2. CASE r.step = "create"
    BY <1>1, <1>2, <2>1, <2>2 DEF Known, Fits, Resumable
  <2>3. CASE r.step = "oneShot"
    BY <1>1, <1>2, <2>3 DEF Known, Fits, Resumable
  <2>4. CASE r.step \in {"status", "metadata"}
    BY <1>2, <2>1, <2>4 DEF Known, Resumable
  <2> QED BY <2>2, <2>3, <2>4 DEF RequestType, Steps
<1>6. r.step = "chunk" => task'.url
  BY <1>1, <1>2 DEF Fits
<1> QED BY <1>2, <1>3, <1>4, <1>5, <1>6 DEF InStep, Known

(* The actions that leave the server alone.                                *)
LEMMA LocalInStep ==
  ASSUME Inv, InStep(task, server), NEW i \in Requests,
         RetryTimer(i) \/ GlobalTimeout(i) \/ Progress(i) \/ Refuse(i)
  PROVE  InStep(task', server')
<1> USE DEF Requests
<1> DEFINE q == task.requests[i]
<1>0. /\ q \in RequestType /\ Stoppable(q) /\ q.offset \in Nat
      /\ task.transferred \in Nat /\ task \in TaskType
      /\ task.requests \in Seq(RequestType)
  BY RequestFacts DEF Inv, Sound, TaskType
<1>1. q.step = "chunk" /\ q.phase # "settled" /\ ~q.resent =>
        Meets(q, server)
  BY DEF InStep
<1>2. CASE RetryTimer(i)
  <2> DEFINE r == RetryTimerFires(q)
  <2>1. /\ r \in RequestType /\ r.step = q.step /\ r.offset = q.offset
        /\ q.phase = "waiting"
        /\ r.phase # "settled" => r.resent = q.resent
    BY <1>0, <1>2, RetryTimerOps DEF RetryTimer
  <2>2. task' = [task EXCEPT !.requests[i] = r]
    BY <1>2 DEF RetryTimer
  <2> HIDE DEF r
  <2>3. task' = Swapped(task, i, r, task.transferred, task.state)
    BY <2>2, SwapOnly
  <2> QED BY <1>0, <1>1, <1>2, <2>1, <2>3, RequestInStep DEF RetryTimer, Meets
<1>3. CASE GlobalTimeout(i)
  <2> DEFINE r == HitTimeout(q)
  <2>1. /\ r \in RequestType /\ r.step = q.step /\ r.offset = q.offset
        /\ r.phase = q.phase /\ r.resent = q.resent
    BY <1>0, <1>3, HitTimeoutOps DEF GlobalTimeout
  <2>2. task' = [task EXCEPT !.requests[i] = r]
    BY <1>3 DEF GlobalTimeout
  <2> HIDE DEF r
  <2>3. task' = Swapped(task, i, r, task.transferred, task.state)
    BY <2>2, SwapOnly
  <2> QED BY <1>0, <1>1, <1>3, <2>1, <2>3, RequestInStep DEF GlobalTimeout, Meets
<1>4. CASE Progress(i)
  <2>1. PICK k \in 1 .. q.len : task' = [task EXCEPT !.transferred = q.offset + k]
    BY <1>4 DEF Progress
  <2> DEFINE n == q.offset + k
  <2>2. n \in Nat
    BY RequestFacts
  <2>3. [task.requests EXCEPT ![i] = q] = task.requests
    BY <1>0, LenProperties
  <2>4. task' = [task EXCEPT !.transferred = n]
    BY <2>1
  <2> HIDE DEF n, q
  <2>5. task' = Swapped(task, i, q, n, task.state)
    BY <1>0, <2>3, <2>4 DEF Swapped, TaskType
  <2>6. q.step = "chunk" /\ server' = server
    BY <1>4 DEF Progress, q
  <2> QED BY <1>0, <1>1, <2>2, <2>5, <2>6, RequestInStep DEF q
<1>5. CASE Refuse(i)
  <2> DEFINE r == Settle(q, Rejected("fatal"))
  <2>1. /\ r \in RequestType /\ r.step = q.step /\ r.phase = "settled"
    BY <1>0, SettleOps, RejectedType
  <2>2. task' = [task EXCEPT !.requests[i] = r]
    BY <1>5 DEF Refuse
  <2> HIDE DEF r
  <2>3. task' = Swapped(task, i, r, task.transferred, task.state)
    BY <2>2, SwapOnly
  <2> QED BY <1>0, <1>5, <2>1, <2>3, RequestInStep DEF Refuse
<1> QED BY <1>2, <1>3, <1>4, <1>5

(* The actions of the server.                                              *)
LEMMA ConnectionInStep ==
  ASSUME Inv, InStep(task, server),
         NEW i \in Requests, Answer(i) \/ Unavailable(i) \/ Disconnect(i)
  PROVE  InStep(task', server')
<1> USE DEF Requests
<1> DEFINE q == task.requests[i]
<1>0. /\ q \in RequestType /\ Stoppable(q) /\ task.transferred \in Nat
  BY RequestFacts
<1>1. q.step = "chunk" /\ q.phase # "settled" /\ ~q.resent =>
        Meets(q, server)
  BY DEF InStep
<1>2. CASE Answer(i)
  <2> DEFINE o == [kind |-> "ok", stored |-> server'.stored, final |-> server'.final]
             r == Settle(q, o)
  <2>1. /\ server' \in ServerType
        /\ q.step \notin {"create", "chunk", "oneShot"} => server' = server
        /\ q.step = "create" => server'.stored = 0 /\ ~server'.final
    BY <1>2, ServerOps DEF Answer
  <2>2. o \in OutcomeType
    BY <2>1 DEF OutcomeType, ServerType
  <2>3. r \in RequestType /\ r.step = q.step /\ r.phase = "settled"
    BY <1>0, <2>2, SettleOps
  <2>4. task' = [task EXCEPT !.requests[i] = r]
    BY <1>2 DEF Answer
  <2> HIDE DEF r
  <2>5. task' = Swapped(task, i, r, task.transferred, task.state)
    BY <2>4, SwapOnly
  <2> QED BY <1>0, <2>1, <2>3, <2>5, RequestInStep
<1>3. CASE Unavailable(i)
  <2> DEFINE r == IF q.step = "chunk" THEN Settle(q, Rejected("retryable"))
                                      ELSE AttemptFails(q, FALSE)
  <2>1. /\ q.step \notin {"create", "chunk", "oneShot"} => server' = server
        /\ q.step = "create" =>
             server' = server \/ (server'.stored = 0 /\ ~server'.final)
    BY <1>3, LeftoverOps DEF Unavailable
  <2>2. /\ r \in RequestType /\ r.step = q.step
        /\ r.step = "chunk" => r.phase = "settled"
    <3>1. CASE q.step = "chunk"
      BY <1>0, <3>1, SettleOps, RejectedType
    <3>2. CASE q.step # "chunk"
      BY <1>0, <1>3, <3>2, AttemptOps DEF Unavailable
    <3> QED BY <3>1, <3>2
  <2>3. task' = [task EXCEPT !.requests[i] = r]
    BY <1>3 DEF Unavailable
  <2> HIDE DEF r
  <2>4. task' = Swapped(task, i, r, task.transferred, task.state)
    BY <2>3, SwapOnly
  <2> QED BY <1>0, <2>1, <2>2, <2>4, RequestInStep
<1>4. CASE Disconnect(i)
  <2> DEFINE r == AttemptFails(q, q.aborted)
  <2>1. /\ q.step \notin {"create", "chunk", "oneShot"} => server' = server
        /\ q.step = "create" =>
             server' = server \/ (server'.stored = 0 /\ ~server'.final)
    BY <1>4, LeftoverOps DEF Disconnect
  <2>2. /\ r \in RequestType /\ r.step = q.step /\ r.offset = q.offset
        /\ r.phase # "settled" => r.resent
    <3>1. q.aborted \in BOOLEAN
      BY <1>0 DEF RequestType
    <3> QED BY <1>0, <1>4, <3>1, AttemptOps DEF Disconnect
  <2>3. task' = [task EXCEPT !.requests[i] = r]
    BY <1>4 DEF Disconnect
  <2> HIDE DEF r
  <2>4. task' = Swapped(task, i, r, task.transferred, task.state)
    BY <2>3, SwapOnly
  <2> QED BY <1>0, <2>1, <2>2, <2>4, RequestInStep
<1> QED BY <1>2, <1>3, <1>4

(* The handlers: an answer says where the server is, a failure means to    *)
(* ask.                                                                    *)
LEMMA HandleInStep ==
  ASSUME Inv, InStep(task, server), NEW i \in Requests, Handle(i)
  PROVE  InStep(task', server')
<1> USE DEF Requests
<1> DEFINE r == task.requests[i]
           t == [task EXCEPT !.requests = RemoveAt(@, i), !.request = FALSE]
<1>1. /\ Idle(t) /\ DOMAIN task.requests = {1} /\ i = 1
      /\ r \in RequestType /\ Fits(task, r) /\ task \in TaskType
  BY RequestAlone, RequestFacts DEF Inv, Sound
<1>2. /\ t.size = task.size /\ t.url = task.url /\ t.state = task.state
      /\ t.needStatus = task.needStatus /\ t.needMetadata = task.needMetadata
      /\ t.transferred = task.transferred
  BY <1>1 DEF TaskType
<1>3. /\ server' = server /\ r.phase = "settled"
      /\ task' = IF r.outcome.kind = "ok" THEN Resolved(t, r) ELSE Failed(t, r)
  BY DEF Handle
<1> HIDE DEF t
<1>4. Resumable(t) /\ ~t.url => /\ server.stored = 0 /\ ~server.final
                               /\ t.transferred = 0
  BY <1>2 DEF InStep, Resumable
<1>5. r.step # "chunk" => Known(t, server)
  BY <1>1, <1>2 DEF InStep, Known, Resumable
<1>6. t \in TaskType /\ r.step \in Steps /\ r.outcome \in OutcomeType
      /\ r.offset \in Nat /\ r.len \in Nat /\ t.size \in Nat
      /\ t.transferred <= t.size
  BY <1>1, SizesAssumption DEF Idle, TaskType, RequestType
<1>7. CASE r.outcome.kind = "ok"
  <2>0. /\ task' = Resolved(t, r)
        /\ r.outcome.stored = server.stored /\ r.outcome.final = server.final
        /\ r.step = "chunk" => server.stored = r.offset + r.len
    BY <1>3, <1>7 DEF Inv, Honest
  <2>1. CASE r.step = "create"
    <3> DEFINE v == [t EXCEPT !.url = TRUE, !.needStatus = FALSE]
    <3>1. task' = CompleteTransitions(v)
      BY <2>0, <2>1 DEF Resolved
    <3>2. Idle(v) /\ v.size = t.size /\ v.transferred = t.transferred /\ v.url
      BY <1>1, <1>6 DEF Idle, TaskType
    <3>3. Known(v, server)
      BY <1>1, <1>2, <1>4, <2>1, <3>2 DEF Known, Fits, Resumable
    <3> QED BY <1>3, <3>1, <3>2, <3>3, CompleteInStep
  <2>2. CASE r.step = "status"
    <3> DEFINE v == [t EXCEPT !.transferred = r.outcome.stored,
                              !.needStatus = FALSE,
                              !.needMetadata = @ \/ r.outcome.final]
    <3>1. task' = CompleteTransitions(v)
      BY <2>0, <2>2 DEF Resolved
    <3>2. r.outcome.stored <= t.size /\ r.outcome.stored \in Nat
      BY <1>2, RequestFacts
    <3>3. (t.needMetadata \/ r.outcome.final) \in BOOLEAN
      OBVIOUS
    <3>4. v \in TaskType
      BY <1>6, <3>2, <3>3 DEF TaskType
    <3>5. Idle(v) /\ v.size = t.size /\ v.transferred = server.stored /\ v.url
      BY <1>1, <1>2, <1>6, <2>0, <2>2, <3>2, <3>4 DEF Idle, TaskType, Fits
    <3>6. ~v.needMetadata => ~server.final
      BY <1>6, <2>0 DEF TaskType
    <3>7. Known(v, server)
      BY <3>5, <3>6 DEF Known
    <3> QED BY <1>3, <3>1, <3>5, <3>7, CompleteInStep
  <2>3. CASE r.step = "chunk"
    <3> DEFINE w == IncreaseMultiplier(t)
               n == r.offset + r.len
               v == [w EXCEPT !.transferred = n]
    <3>1. task' = IF r.outcome.final THEN End(v, "success")
                                     ELSE CompleteTransitions(v)
      BY <2>0, <2>3 DEF Resolved
    <3>2. Idle(w) /\ w.size = t.size /\ w.url = t.url
      <4>1. CASE 2 * t.multiplier < MaxChunk
        <5>1. 2 * t.multiplier \in 1 .. MaxChunk
          BY <1>6, <4>1, LimitsAssumption DEF TaskType
        <5> QED BY <1>1, <1>6, <4>1, <5>1 DEF Idle, TaskType, IncreaseMultiplier
      <4>2. CASE ~(2 * t.multiplier < MaxChunk)
        BY <1>1, <4>2 DEF IncreaseMultiplier
      <4> QED BY <4>1, <4>2
    <3>3. n \in Nat /\ n <= t.size /\ n = server.stored
      BY <1>1, <1>2, <1>6, <2>0, <2>3 DEF Fits
    <3> HIDE DEF w, n
    <3>4. Idle(v) /\ v.size = t.size /\ v.url = t.url /\ v.transferred = n
      BY <3>2, <3>3 DEF Idle, TaskType
    <3>5. v.url
      BY <1>1, <1>2, <2>3, <3>4 DEF Fits
    <3> HIDE DEF v
    <3>6. CASE r.outcome.final
      BY <1>3, <3>1, <3>4, <3>5, <3>6, EndInStep DEF Final
    <3>7. CASE ~r.outcome.final
      <4>1. Known(v, server)
        BY <2>0, <3>3, <3>4, <3>5, <3>7 DEF Known
      <4> QED BY <1>3, <3>1, <3>4, <3>7, <4>1, CompleteInStep
    <3> QED BY <3>6, <3>7
  <2>4. CASE r.step = "metadata"
    <3>1. task' = End(t, "success")
      BY <2>0, <2>4 DEF Resolved
    <3> QED BY <1>1, <1>3, <1>4, <3>1, EndInStep DEF Final
  <2>5. CASE r.step = "oneShot"
    <3> DEFINE v == [t EXCEPT !.transferred = t.size]
    <3>1. task' = End(v, "success")
      BY <2>0, <2>5 DEF Resolved
    <3>2. Idle(v) /\ v.size = t.size
      <4> DEFINE n == t.size
      <4>1. n \in Nat /\ n <= t.size
        BY <1>6 DEF TaskType
      <4>2. v = [t EXCEPT !.transferred = n]
        OBVIOUS
      <4> HIDE DEF n, v
      <4> QED BY <1>1, <4>1, <4>2 DEF Idle, TaskType
    <3>3. ~Resumable(v)
      BY <1>1, <1>2, <2>5, <3>2 DEF Fits, Resumable
    <3> HIDE DEF v
    <3> QED BY <1>3, <3>1, <3>2, <3>3, EndInStep DEF Final
  <2> QED BY <1>6, <2>1, <2>2, <2>3, <2>4, <2>5 DEF Steps
<1>8. CASE r.outcome.kind # "ok"
  <2> DEFINE c == Afresh(t, r)
             a == Again(t, r)
             b == [a EXCEPT !.sleep = IF @ = 0 THEN 1 ELSE 2 * @]
  <2>1. /\ Idle(c) /\ c.size = t.size /\ c.url = t.url
        /\ c.transferred = t.transferred
    <3>1. CASE r.step = "metadata"
      BY <1>1, <3>1 DEF Afresh
    <3>2. CASE r.step # "metadata"
      <4>1. c = [t EXCEPT !.multiplier = 1]
        BY <3>2 DEF Afresh
      <4>2. 1 \in 1 .. MaxChunk
        BY LimitsAssumption
      <4> HIDE DEF c
      <4> QED BY <1>1, <4>1, <4>2 DEF Idle, TaskType
    <3> QED BY <3>1, <3>2
  <2>2. /\ Idle(a) /\ a.size = t.size /\ a.url = t.url
        /\ a.transferred = t.transferred
        /\ a = t \/ a.needStatus
        /\ r.step = "chunk" => a.needStatus
    <3> HIDE DEF c
    <3>1. a = IF r.step = "metadata" THEN t ELSE [c EXCEPT !.needStatus = TRUE]
      BY DEF Again, c
    <3> HIDE DEF a
    <3> QED BY <1>1, <2>1, <3>1 DEF Idle, TaskType
  <2> HIDE DEF a
  <2>3. Known(a, server)
    BY <1>4, <1>5, <2>2 DEF Known, Resumable
  <2>4. Idle(b) /\ Known(b, server)
    BY <2>2, <2>3 DEF Idle, TaskType, Known, Resumable
  <2>5. \/ task' = CompleteTransitions(a)
        \/ task' = CompleteTransitions(b)
        \/ task' = End(c, "error")
    BY <1>3, <1>8 DEF Failed, a
  <2> HIDE DEF b, c
  <2>6. Resumable(c) /\ ~c.url => /\ server.stored = 0 /\ ~server.final
                                 /\ c.transferred = 0
    BY <1>4, <2>1 DEF Resumable
  <2> QED BY <1>3, <2>1, <2>2, <2>3, <2>4, <2>5, <2>6,
             CompleteInStep, EndInStep DEF Final
<1> QED BY <1>7, <1>8

(* A new upload is in step.                                                *)
LEMMA InStepInit == Init => InStep(task, server)
<1> SUFFICES ASSUME Init PROVE InStep(task, server)
  OBVIOUS
<1>1. PICK size \in Sizes :
        task = Start([state |-> "running", size |-> size, url |-> FALSE,
                      needStatus |-> FALSE, needMetadata |-> FALSE,
                      transferred |-> 0, multiplier |-> 1, sleep |-> 0,
                      timer |-> FALSE, request |-> FALSE, fetches |-> <<>>,
                      requests |-> <<>>, promise |-> "pending"])
  BY DEF Init
<1> DEFINE t == [state |-> "running", size |-> size, url |-> FALSE,
                 needStatus |-> FALSE, needMetadata |-> FALSE,
                 transferred |-> 0, multiplier |-> 1, sleep |-> 0,
                 timer |-> FALSE, request |-> FALSE, fetches |-> <<>>,
                 requests |-> <<>>, promise |-> "pending"]
<1>2. /\ <<>> \in Seq([step : Steps, offset : Nat, len : Nat])
      /\ <<>> \in Seq(RequestType) /\ 1 \in 1 .. MaxChunk
      /\ size \in Nat /\ 0 <= size
  BY EmptySeq, LimitsAssumption, SizesAssumption
<1>3. t \in TaskType
  BY <1>2 DEF TaskType, Active
<1>4. Idle(t) /\ ~t.url /\ t.transferred = 0
  BY <1>2, <1>3 DEF Idle, Verdict
<1>5. task = Start(t) /\ server.stored = 0 /\ ~server.final
  BY <1>1 DEF Init
<1> HIDE DEF t
<1> QED BY <1>4, <1>5, StartInStep DEF Known

(* Every step keeps it in step.                                            *)
LEMMA InStepStep ==
  ASSUME Inv, InStep(task, server), [Next]_vars
  PROVE  InStep(task', server')
<1>1. CASE Pause
  BY <1>1, PauseCancelInStep DEF Pause, Inv
<1>2. CASE Resume
  BY <1>2, RunInStep DEF Resume, Inv
<1>3. CASE Cancel
  BY <1>3, PauseCancelInStep DEF Cancel, Inv
<1>4. CASE PendingTimeout
  BY <1>4, TimerInStep
<1>5. CASE \E i \in DOMAIN task.fetches : TokensReady(i) \/ SliceFails(i)
  BY <1>5, TokensInStep
<1>6. CASE \E i \in Requests : \/ RetryTimer(i) \/ GlobalTimeout(i)
                             \/ Progress(i) \/ Refuse(i)
  BY <1>6, LocalInStep
<1>7. CASE \E i \in Requests : Answer(i) \/ Unavailable(i) \/ Disconnect(i)
  BY <1>7, ConnectionInStep
<1>8. CASE \E i \in Requests : Handle(i)
  BY <1>8, HandleInStep
<1>9. CASE UNCHANGED vars
  BY <1>9 DEF vars
<1> QED BY <1>1, <1>2, <1>3, <1>4, <1>5, <1>6, <1>7, <1>8, <1>9
        DEF Next, Connection

(* Whatever failed before, every chunk is first sent where the server      *)
(* expects it (task.ts, _continueUpload and _errorHandler).                *)
THEOREM ChunksAlwaysStartInStep == Spec => []ChunksStartInStep
<1>1. Init => InStep(task, server)
  BY InStepInit
<1>2. Inv /\ InStep(task, server) /\ [Next]_vars => InStep(task, server)'
  BY InStepStep
<1>3. InStep(task, server) => ChunksStartInStep
  BY DEF InStep, ChunksStartInStep, Requests
<1> QED BY <1>1, <1>2, <1>3, UploadInvariant, PTL DEF Spec

=============================================================================
