------------------------ MODULE WritePipelineProofs -------------------------
(***************************************************************************)
(* The write pipeline, its stream and the mutation queue, for every number *)
(* of users, every MAX_PENDING_WRITES and every pattern of failures.       *)
(*                                                                         *)
(* First type correctness: the helpers on queues, the operators on the     *)
(* RemoteStore record, and one step per action.                            *)
(*                                                                         *)
(* Then, as long as the application does not enable a network that is      *)
(* enabled, the stream follows the pipeline.  The inductive invariant is   *)
(* OneStreamOneRecovery.  There is a lemma for each operator on the        *)
(* record: what it does to the state, the generation and the attempts of   *)
(* the stream.  A handler is a composition of those, so the steps need no  *)
(* arithmetic of their own.                                                *)
(*                                                                         *)
(* Last, the pipeline mirrors the mutation queue, a response meets the     *)
(* write it answers, and the idle timer runs only on a drained stream, for *)
(* every pattern of failures that Faults = {} leaves: broken streams,      *)
(* refused batches, failed transactions, changes of user, outages,         *)
(* restarts.  The inductive invariant says how far the current attempt has *)
(* got, by the phase of its RPC, what the callbacks on the AsyncQueue may  *)
(* still report of it, and how the answers among them and the requests     *)
(* beyond them divide the pipeline.                                        *)
(***************************************************************************)
EXTENDS WritePipeline, Functions, SequenceTheorems, FiniteSetTheorems,
        WellFoundedInduction, TLAPS

(* A record field that EXCEPT updates keeps its type.                      *)
LEMMA RpcsUpdate ==
  ASSUME NEW rpcs \in Seq(RpcType), NEW n,
         NEW r, n \in DOMAIN rpcs => r \in RpcType
  PROVE  /\ [rpcs EXCEPT ![n] = r] \in Seq(RpcType)
         /\ DOMAIN [rpcs EXCEPT ![n] = r] = DOMAIN rpcs
<1>1. CASE n \in DOMAIN rpcs
  BY <1>1, ExceptSeq, LenProperties
<1>2. CASE n \notin DOMAIN rpcs
  <2>1. [rpcs EXCEPT ![n] = r] = rpcs
    BY <1>2, LenProperties
  <2> QED BY <2>1
<1> QED BY <1>1, <1>2

(* A message sent on an RPC leaves it a typed RPC of the same generation.  *)
LEMMA SentOK ==
  ASSUME NEW r \in RpcType, NEW msgs \in Seq(Nat)
  PROVE  /\ Sent(r, msgs) \in RpcType
         /\ Sent(r, msgs).cc = r.cc /\ Sent(r, msgs).phase = r.phase
         /\ Sent(r, msgs).user = r.user
         /\ r.phase = "closed" => Sent(r, msgs).reqs = r.reqs
         /\ r.phase # "closed" => Sent(r, msgs).reqs = r.reqs \o msgs
<1>1. r.reqs \in Seq(Nat) /\ r.reqs \o msgs \in Seq(Nat)
  BY ConcatProperties DEF RpcType
<1>2. CASE r.phase = "closed"
  BY <1>2 DEF Sent
<1>3. CASE r.phase # "closed"
  BY <1>1, <1>3 DEF Sent, RpcType
<1> QED BY <1>2, <1>3

(* The requests of an RPC may grow.                                        *)
LEMMA RpcRequests ==
  ASSUME NEW rpcs \in Seq(RpcType), NEW n, NEW msgs \in Seq(Nat)
  PROVE  /\ [rpcs EXCEPT ![n] = Sent(@, msgs)] \in Seq(RpcType)
         /\ DOMAIN [rpcs EXCEPT ![n] = Sent(@, msgs)] = DOMAIN rpcs
<1> DEFINE r == Sent(rpcs[n], msgs)
<1>1. ASSUME n \in DOMAIN rpcs PROVE r \in RpcType
  <2>1. rpcs[n] \in RpcType
    BY <1>1, ElementOfSeq, LenProperties
  <2> QED BY <2>1, SentOK
<1>2. [rpcs EXCEPT ![n] = Sent(@, msgs)] = [rpcs EXCEPT ![n] = r]
  OBVIOUS
<1> HIDE DEF r
<1> QED BY <1>1, <1>2, RpcsUpdate

(* An attempt may change its phase.                                        *)
LEMMA RpcPhase ==
  ASSUME NEW rpcs \in Seq(RpcType), NEW n, NEW phase \in RpcPhases
  PROVE  /\ [rpcs EXCEPT ![n].phase = phase] \in Seq(RpcType)
         /\ DOMAIN [rpcs EXCEPT ![n].phase = phase] = DOMAIN rpcs
<1> DEFINE r == [rpcs[n] EXCEPT !.phase = phase]
<1>1. ASSUME n \in DOMAIN rpcs PROVE r \in RpcType
  <2>1. rpcs[n] \in RpcType
    BY <1>1, ElementOfSeq, LenProperties
  <2> QED BY <2>1 DEF RpcType
<1>2. [rpcs EXCEPT ![n].phase = phase] = [rpcs EXCEPT ![n] = r]
  OBVIOUS
<1> HIDE DEF r
<1> QED BY <1>1, <1>2, RpcsUpdate

----------------------------------------------------------------------------
(* Queues                                                                  *)

LEMMA SubSeqType ==
  ASSUME NEW S, NEW q \in Seq(S), NEW m \in Nat \ {0}, NEW n \in Int,
         n <= Len(q)
  PROVE  SubSeq(q, m, n) \in Seq(S)
<1>1. \A i \in m .. n : q[i] \in S
  BY ElementOfSeq, LenProperties
<1> QED BY <1>1, SubSeqProperties

(* What follows a batch in a queue is a queue.                             *)
LEMMA AfterType ==
  ASSUME NEW S, NEW q \in Seq(S), NEW last
  PROVE  After(q, last) \in Seq(S)
<1> DEFINE gone == {i \in DOMAIN q : q[i] <= last}
<1>1. gone \in SUBSET (1 .. Len(q)) /\ Len(q) \in Nat
  BY LenProperties
<1>2. IsFiniteSet(1 .. Len(q))
  BY <1>1, FS_Interval
<1>3. Cardinality(gone) \in Nat
  <2> HIDE DEF gone
  <2> QED BY <1>1, <1>2, FS_Subset, FS_CardinalityType
<1>4. SubSeq(q, Cardinality(gone) + 1, Len(q)) \in Seq(S)
  <2> HIDE DEF gone
  <2> QED BY <1>1, <1>3, SubSeqType
<1> QED BY <1>4 DEF After

(* A queue without one batch is a queue.                                   *)
LEMMA WithoutType ==
  ASSUME NEW S, NEW q \in Seq(S), NEW b
  PROVE  Without(q, b) \in Seq(S)
<1>1. CASE \E i \in DOMAIN q : q[i] = b
  <2> DEFINE i == CHOOSE i \in DOMAIN q : q[i] = b
  <2>1. i \in 1 .. Len(q) /\ Len(q) \in Nat
    BY <1>1, LenProperties
  <2>2. SubSeq(q, 1, i - 1) \in Seq(S)
    <3> HIDE DEF i
    <3> QED BY <2>1, SubSeqType
  <2>3. SubSeq(q, i + 1, Len(q)) \in Seq(S)
    <3> HIDE DEF i
    <3> QED BY <2>1, SubSeqType
  <2>4. Without(q, b) = SubSeq(q, 1, i - 1) \o SubSeq(q, i + 1, Len(q))
    BY <1>1 DEF Without
  <2> QED BY <2>2, <2>3, <2>4, ConcatProperties
<1>2. CASE ~(\E i \in DOMAIN q : q[i] = b)
  BY <1>2 DEF Without
<1> QED BY <1>1, <1>2

(* The largest of a nonempty set of users exists.                          *)
LEMMA GreatestUser ==
  ASSUME NEW n \in Nat, NEW T \in SUBSET (1 .. n), T # {}
  PROVE  \E v \in T : \A w \in T : w <= v
<1> DEFINE gap == {k \in 0 .. n : n - k \in T}
<1>1. gap \subseteq Nat /\ gap # {}
  <2>1. PICK v \in T : TRUE
    OBVIOUS
  <2>2. v \in Nat /\ n - v \in 0 .. n /\ n - (n - v) = v
    BY <2>1
  <2>3. n - v \in gap
    BY <2>1, <2>2
  <2>4. gap \subseteq Nat
    OBVIOUS
  <2> QED BY <2>3, <2>4
<1> DEFINE less == OpToRel(<, Nat)
<1>2. IsWellFoundedOn(less, Nat)
  BY NatLessThanWellFounded
<1>3. \A j, k \in Nat : j < k => <<j, k>> \in less
  BY DEF OpToRel
<1> HIDE DEF less, gap
<1>4. PICK k \in gap : \A j \in gap : ~(<<j, k>> \in less)
  BY <1>1, <1>2, WFMin
<1>5. ASSUME NEW j \in gap PROVE k <= j
  <2>1. k \in Nat /\ j \in Nat
    BY <1>1
  <2>2. ~(j < k)
    BY <2>1, <1>3, <1>4
  <2> QED BY <2>1, <2>2
<1>6. \A w \in T : n - w \in gap
  BY DEF gap
<1>7. n - k \in T /\ \A w \in T : w <= n - k
  <2>1. n - k \in T
    BY DEF gap
  <2>2. ASSUME NEW w \in T PROVE w <= n - k
    <3>1. k <= n - w
      BY <1>5, <1>6
    <3> QED BY <3>1, <1>1
  <2> QED BY <2>1, <2>2
<1> QED BY <1>7

----------------------------------------------------------------------------
(* The RemoteStore record                                                  *)

StoreOK(s) == s \in RemoteStoreType /\ s.stream \in DOMAIN s.rpcs \union {0}

(* sendRequest keeps the store typed.                                      *)
LEMMA SendOK ==
  ASSUME NEW s, StoreOK(s), NEW msgs \in Seq(Nat)
  PROVE  StoreOK(Send(s, msgs))
<1>1. CASE msgs = <<>>
  BY <1>1 DEF Send
<1>2. CASE msgs # <<>>
  <2> DEFINE sent == [s.rpcs EXCEPT ![s.stream] = Sent(@, msgs)]
  <2>1. s \in RemoteStoreType /\ s.rpcs \in Seq(RpcType)
    BY DEF StoreOK, RemoteStoreType
  <2>2. sent \in Seq(RpcType) /\ DOMAIN sent = DOMAIN s.rpcs
    BY <2>1, RpcRequests
  <2>3. Send(s, msgs) = [s EXCEPT !.idle = FALSE, !.rpcs = sent]
    BY <1>2, <2>1 DEF Send, RemoteStoreType
  <2> HIDE DEF sent
  <2> QED BY <2>1, <2>2, <2>3 DEF StoreOK, RemoteStoreType
<1> QED BY <1>1, <1>2

(* start() keeps the store typed, whether it backs off or authenticates.   *)
LEMMA StartStreamOK ==
  ASSUME NEW s, StoreOK(s)
  PROVE  StoreOK(StartStream(s)) /\ IsStarted(StartStream(s))
<1> DEFINE new == [cc |-> s.closeCount, phase |-> "auth", user |-> 0,
                   reqs |-> <<>>]
<1>1. s \in RemoteStoreType /\ s.rpcs \in Seq(RpcType) /\ s.closeCount \in Nat
  BY DEF StoreOK, RemoteStoreType
<1>2. new \in RpcType
  <2>1. <<>> \in Seq(Nat)
    BY EmptySeq
  <2> QED BY <1>1, <2>1 DEF RpcType, RpcPhases
<1>3. /\ Append(s.rpcs, new) \in Seq(RpcType)
      /\ DOMAIN s.rpcs \subseteq DOMAIN Append(s.rpcs, new)
  <2> HIDE DEF new
  <2> QED BY <1>1, <1>2, AppendProperties, LenProperties
<1>4. CASE s.state = "Error"
  BY <1>1, <1>4 DEF StartStream, PerformBackoff, StoreOK, RemoteStoreType,
                    StreamStates, IsStarted, IsOpen
<1>5. CASE s.state # "Error"
  <2>1. StartStream(s) = [s EXCEPT !.handshake = FALSE, !.state = "Starting",
                                   !.rpcs = Append(s.rpcs, new)]
    BY <1>1, <1>5 DEF StartStream, Auth, RemoteStoreType
  <2> HIDE DEF new
  <2> QED BY <1>1, <1>3, <2>1 DEF StoreOK, RemoteStoreType, StreamStates,
                                  IsStarted, IsOpen
<1> QED BY <1>4, <1>5

(* startWriteStream, if it is needed, keeps the store typed.               *)
LEMMA StartIfNeededOK ==
  ASSUME NEW s, StoreOK(s)
  PROVE  StoreOK(StartIfNeeded(s))
BY StartStreamOK DEF StartIfNeeded

(* close() keeps the store typed.                                          *)
LEMMA CloseStreamOK ==
  ASSUME NEW s, StoreOK(s), NEW final \in StreamStates
  PROVE  StoreOK(CloseStream(s, final))
<1> DEFINE shut == IF s.stream = 0
                     THEN s.rpcs
                     ELSE [s.rpcs EXCEPT ![s.stream].phase = "closed"]
<1>1. s \in RemoteStoreType /\ s.rpcs \in Seq(RpcType)
  BY DEF StoreOK, RemoteStoreType
<1>2. shut \in Seq(RpcType)
  BY <1>1, RpcPhase DEF RpcPhases
<1>3. CloseStream(s, final) =
        [s EXCEPT !.idle = FALSE, !.backoff = FALSE,
                  !.closeCount = s.closeCount + 1, !.rpcs = shut,
                  !.stream = 0, !.state = final]
  BY <1>1 DEF CloseStream, RemoteStoreType
<1> HIDE DEF shut
<1>4. CloseStream(s, final) =
        [state |-> final, closeCount |-> s.closeCount + 1,
         handshake |-> s.handshake, idle |-> FALSE, backoff |-> FALSE,
         stream |-> 0, rpcs |-> shut, pipeline |-> s.pipeline,
         causes |-> s.causes]
  BY <1>1, <1>3 DEF RemoteStoreType
<1> QED BY <1>1, <1>2, <1>4 DEF StoreOK, RemoteStoreType

(* What fillWritePipeline reads is a sequence of batches.                  *)
LEMMA NextBatchesType ==
  ASSUME NEW s, StoreOK(s), NEW q \in Seq(BatchIds)
  PROVE  NextBatches(s, q) \in Seq(BatchIds)
<1> DEFINE last == IF s.pipeline = <<>> THEN 0
                     ELSE s.pipeline[Len(s.pipeline)]
           rest == After(q, last)
           room == Least(MaxPending - Len(s.pipeline), Len(rest))
<1>1. rest \in Seq(BatchIds)
  BY AfterType
<1>2. room \in Int /\ room <= Len(rest)
  <2>1. Len(s.pipeline) \in Nat
    BY LenProperties DEF StoreOK, RemoteStoreType
  <2>2. Len(rest) \in Nat
    BY <1>1, LenProperties
  <2> HIDE DEF rest
  <2> QED BY <2>1, <2>2, PendingAssumption DEF Least
<1>3. NextBatches(s, q) = SubSeq(rest, 1, room)
  BY DEF NextBatches
<1> HIDE DEF rest, room
<1> QED BY <1>1, <1>2, <1>3, SubSeqType

(* addToWritePipeline keeps the store typed.                               *)
LEMMA AddToWritePipelineOK ==
  ASSUME NEW s, StoreOK(s), NEW bs \in Seq(BatchIds)
  PROVE  StoreOK(AddToWritePipeline(s, bs))
<1> DEFINE added == [s EXCEPT !.pipeline = @ \o bs]
<1>1. StoreOK(added)
  <2>1. s.pipeline \o bs \in Seq(BatchIds)
    BY ConcatProperties DEF StoreOK, RemoteStoreType
  <2> QED BY <2>1 DEF StoreOK, RemoteStoreType
<1>2. bs \in Seq(Nat)
  BY SeqMonotonic DEF BatchIds
<1>3. AddToWritePipeline(s, bs) \in {added, Send(added, bs)}
  BY DEF AddToWritePipeline
<1> HIDE DEF added
<1> QED BY <1>1, <1>2, <1>3, SendOK

(* fillWritePipeline keeps the store typed.                                *)
LEMMA FillWritePipelineOK ==
  ASSUME NEW s, StoreOK(s), NEW q \in Seq(BatchIds)
  PROVE  StoreOK(FillWritePipeline(s, q))
<1> DEFINE filled == AddToWritePipeline(s, NextBatches(s, q))
<1>1. StoreOK(filled)
  BY NextBatchesType, AddToWritePipelineOK
<1>2. StoreOK(MarkIdle(filled))
  <2> HIDE DEF filled
  <2> QED BY <1>1 DEF MarkIdle, StoreOK, RemoteStoreType
<1>3. FillWritePipeline(s, q) \in {StartIfNeeded(s), StartIfNeeded(filled),
                                   StartIfNeeded(MarkIdle(filled))}
  BY DEF FillWritePipeline
<1> HIDE DEF filled
<1> QED BY <1>1, <1>2, <1>3, StartIfNeededOK

(* disableNetworkInternal keeps the store typed.                           *)
LEMMA DisableNetworkInternalOK ==
  ASSUME NEW s, StoreOK(s)
  PROVE  StoreOK(DisableNetworkInternal(s))
<1> DEFINE stopped == IF IsStarted(s)
                        THEN StartIfNeeded(CloseStream(s, "Initial")) ELSE s
<1>1. StoreOK(stopped)
  BY CloseStreamOK, StartIfNeededOK DEF StreamStates
<1>2. DisableNetworkInternal(s) = [stopped EXCEPT !.pipeline = <<>>]
  BY DEF DisableNetworkInternal
<1>3. <<>> \in Seq(BatchIds)
  BY EmptySeq
<1> HIDE DEF stopped
<1> QED BY <1>1, <1>2, <1>3 DEF StoreOK, RemoteStoreType

(* Only the offline causes, the idle flag or the state differ.             *)
LEMMA ChangedOK ==
  ASSUME NEW s, StoreOK(s)
  PROVE  /\ \A c \in SUBSET OfflineCauses : StoreOK([s EXCEPT !.causes = c])
         /\ \A st \in StreamStates : StoreOK([s EXCEPT !.state = st])
         /\ StoreOK(InhibitBackoff(s))
         /\ s.causes \subseteq OfflineCauses
         /\ s.pipeline \in Seq(BatchIds)
BY DEF InhibitBackoff, StoreOK, RemoteStoreType, StreamStates

(* So does disableNetworkUntilRecovery.                                    *)
LEMMA DisableNetworkUntilRecoveryOK ==
  ASSUME NEW s, StoreOK(s)
  PROVE  StoreOK(DisableNetworkUntilRecovery(s))
<1>1. s.causes \union {"IndexedDbFailed"} \in SUBSET OfflineCauses
  BY ChangedOK DEF OfflineCauses
<1> QED BY <1>1, ChangedOK, DisableNetworkInternalOK
        DEF DisableNetworkUntilRecovery

----------------------------------------------------------------------------
(* What the handlers are made of                                           *)

LEMMA SpendOK ==
  ASSUME NEW spent \in SpentType,
         NEW what \in {"breaks", "toggles", "tokens", "idb", "restarts",
                       "waits"}
  PROVE  Spend(spent, what) \in SpentType
BY DEF Spend, SpentType

(* A retryable operation is a task.                                        *)
LEMMA OpOK ==
  ASSUME NEW kind \in OpKinds, NEW b \in Nat
  PROVE  Op(kind, b) \in TaskType
BY DEF Op, TaskType

(* Enqueueing a task leaves a queue of tasks.                              *)
LEMMA AppendTask ==
  ASSUME NEW rest \in Seq(TaskType), NEW t \in TaskType
  PROVE  Append(rest, t) \in Seq(TaskType)
BY AppendProperties

(* The queues are typed, and so is what is left of them.                   *)
LEMMA QueuesOK ==
  ASSUME local \in LocalType
  PROVE  /\ \A u \in Users : local.queue[u] \in Seq(BatchIds)
         /\ OwnQueue \in Seq(BatchIds)
         /\ local.user \in Users
         /\ \A b : RemoveBatch(b) \in LocalType
         /\ \A b : RemoveBatch(b).queue[local.user] \in Seq(BatchIds)
<1>1. /\ \A u \in Users : local.queue[u] \in Seq(BatchIds)
      /\ OwnQueue \in Seq(BatchIds)
      /\ local.user \in Users
  BY DEF LocalType, OwnQueue
<1>2. ASSUME NEW b PROVE RemoveBatch(b) \in LocalType
  <2> DEFINE left == [u \in Users |-> Without(local.queue[u], b)]
  <2>1. left \in [Users -> Seq(BatchIds)]
    BY <1>1, WithoutType
  <2>2. RemoveBatch(b) =
          [local EXCEPT !.queue = left, !.rows = @ \ {<<local.user, b>>}]
    BY DEF RemoveBatch
  <2> HIDE DEF left
  <2> QED BY <2>1, <2>2 DEF LocalType
<1>3. \A b : RemoveBatch(b).queue[local.user] \in Seq(BatchIds)
  BY <1>1, <1>2 DEF LocalType
<1> QED BY <1>1, <1>2, <1>3

(* Filling the pipeline, with or without a failure of IndexedDB, keeps the *)
(* store, the queue and the counts typed.                                  *)
LEMMA FillOK ==
  ASSUME NEW s, StoreOK(s), NEW q \in Seq(BatchIds),
         NEW rest \in Seq(TaskType), NEW spent \in SpentType,
         Fill(s, q, rest, spent)
  PROVE  StoreOK(rs') /\ tasks' \in Seq(TaskType) /\ used' \in SpentType
<1>1. CASE rs' = FillWritePipeline(s, q) /\ tasks' = rest /\ used' = spent
  BY <1>1, FillWritePipelineOK
<1>2. CASE /\ \E k \in 0 .. Least(MaxPending - Len(s.pipeline) - 1,
                                  Len(NextBatches(s, q))) :
                rs' = DisableNetworkUntilRecovery(
                  AddToWritePipeline(s, SubSeq(NextBatches(s, q), 1, k)))
           /\ tasks' = Append(rest, Op("probe", 0))
           /\ used' = Spend(spent, "idb")
  <2>1. PICK k \in 0 .. Least(MaxPending - Len(s.pipeline) - 1,
                              Len(NextBatches(s, q))) :
          rs' = DisableNetworkUntilRecovery(
                  AddToWritePipeline(s, SubSeq(NextBatches(s, q), 1, k)))
    BY <1>2
  <2>2. /\ NextBatches(s, q) \in Seq(BatchIds)
        /\ Len(NextBatches(s, q)) \in Nat
    BY NextBatchesType, LenProperties
  <2>3. Len(s.pipeline) \in Nat
    BY LenProperties DEF StoreOK, RemoteStoreType
  <2>4. k \in Int /\ k <= Len(NextBatches(s, q))
    BY <2>1, <2>2, <2>3, PendingAssumption DEF Least
  <2>5. SubSeq(NextBatches(s, q), 1, k) \in Seq(BatchIds)
    BY <2>2, <2>4, SubSeqType
  <2>6. StoreOK(rs')
    BY <2>1, <2>5, AddToWritePipelineOK, DisableNetworkUntilRecoveryOK
  <2>7. Op("probe", 0) \in TaskType
    BY OpOK DEF OpKinds
  <2> QED BY <1>2, <2>6, <2>7, AppendTask, SpendOK
<1> QED BY <1>1, <1>2 DEF Fill

(* So does enableNetworkInternal.                                          *)
LEMMA EnableNetworkInternalOK ==
  ASSUME NEW s, StoreOK(s), NEW q \in Seq(BatchIds),
         NEW rest \in Seq(TaskType), NEW spent \in SpentType,
         EnableNetworkInternal(s, q, rest, spent)
  PROVE  StoreOK(rs') /\ tasks' \in Seq(TaskType) /\ used' \in SpentType
<1>1. StoreOK(InhibitBackoff(s))
  BY ChangedOK
<1>2. CASE CanUseNetwork(s)
  BY <1>1, <1>2, FillOK DEF EnableNetworkInternal
<1>3. CASE ~CanUseNetwork(s)
  BY <1>3 DEF EnableNetworkInternal
<1> QED BY <1>2, <1>3

(* Deciding a batch keeps the queues, callbacks and promises typed.        *)
LEMMA ConcludeOK ==
  ASSUME TypeOK, NEW kind, NEW b, Conclude(kind, b)
  PROVE  /\ local' \in LocalType
         /\ engine' \in EngineType
         /\ promise' \in Seq({"pending", "resolved", "rejected", "lost"})
<1>1. local' \in LocalType
  BY QueuesOK DEF TypeOK, Conclude
<1>2. engine' \in EngineType
  <2>1. engine \in EngineType
    BY DEF TypeOK
  <2>2. [engine.callbacks EXCEPT ![engine.user] = @ \ {b}]
          \in [Users -> SUBSET BatchIds]
    BY <2>1 DEF EngineType
  <2> DEFINE callbacks == [engine.callbacks EXCEPT ![engine.user] = @ \ {b}]
             waiters == {w \in engine.waiters : w.batch # b}
  <2>3. engine' = [engine EXCEPT !.callbacks = callbacks, !.waiters = waiters]
    BY <2>1 DEF Conclude, EngineType
  <2>4. waiters \in SUBSET [batch : BatchIds, covers : SUBSET BatchIds]
    BY <2>1 DEF EngineType
  <2> HIDE DEF callbacks, waiters
  <2> QED BY <2>1, <2>2, <2>3, <2>4 DEF EngineType, callbacks
<1>3. promise' \in Seq({"pending", "resolved", "rejected", "lost"})
  <2> DEFINE Told == {"pending", "resolved", "rejected", "lost"}
  <2>1. promise \in Seq(Told)
    BY DEF TypeOK
  <2>2. CASE promise' = promise
    BY <2>1, <2>2
  <2>3. CASE promise' # promise
    <3>1. PICK verdict \in Told : promise' = [promise EXCEPT ![b] = verdict]
      BY <2>3 DEF Conclude
    <3>2. b \in 1 .. Len(promise)
      <4>1. CASE b \notin DOMAIN promise
        BY <2>1, <2>3, <3>1, <4>1, LenProperties
      <4> QED BY <2>1, <4>1, LenProperties
    <3> QED BY <2>1, <3>1, <3>2, ExceptSeq
  <2> QED BY <2>2, <2>3
<1> QED BY <1>1, <1>2, <1>3

----------------------------------------------------------------------------
(* The steps                                                               *)

(* The store of a typed state is typed.                                    *)
LEMMA StoreTyped == TypeOK => StoreOK(rs)
BY DEF TypeOK, StoreOK, Rpcs

(* A dead AsyncQueue is still typed.                                       *)
LEMMA QueueFailsOK ==
  ASSUME TypeOK, tasks # <<>>, QueueFails
  PROVE  TypeOK'
<1>1. tasks' \in Seq(TaskType)
  BY HeadTailProperties DEF TypeOK, QueueFails
<1> QED BY <1>1 DEF TypeOK, QueueFails, Rpcs

(* The end of onMutationResult and of handleWriteError keeps the types.    *)
LEMMA DecideAndRefillOK ==
  ASSUME TypeOK, tasks # <<>>,
         NEW kind \in {"acknowledge", "reject"}, NEW b \in BatchIds,
         NEW s, StoreOK(s), DecideAndRefill(kind, b, s)
  PROVE  TypeOK'
<1>1. /\ Tail(tasks) \in Seq(TaskType) /\ used \in SpentType
      /\ local \in LocalType
  BY HeadTailProperties DEF TypeOK
<1>2. CASE /\ Conclude(kind, b)
           /\ Fill(s, RemoveBatch(b).queue[local.user], Tail(tasks), used)
           /\ UNCHANGED <<creds, retryOps, mode, author, committed, refused>>
  <2>1. StoreOK(rs') /\ tasks' \in Seq(TaskType) /\ used' \in SpentType
    BY <1>1, <1>2, QueuesOK, FillOK
  <2> QED BY <1>2, <2>1, ConcludeOK DEF TypeOK, StoreOK, Rpcs
<1>3. CASE QueueFails
  BY <1>3, QueueFailsOK
<1>4. CASE /\ \/ UNCHANGED <<local, engine, promise>>
              \/ Conclude(kind, b)
           /\ rs' = DisableNetworkUntilRecovery(s)
           /\ tasks' = Append(Tail(tasks), Op(kind, b))
           /\ used' = Spend(used, "idb")
           /\ UNCHANGED <<creds, retryOps, mode, author, committed, refused>>
  <2>1. StoreOK(rs')
    BY <1>4, DisableNetworkUntilRecoveryOK
  <2>2. tasks' \in Seq(TaskType)
    BY <1>1, <1>4, OpOK, AppendTask DEF OpKinds, BatchIds
  <2>3. used' \in SpentType
    BY <1>1, <1>4, SpendOK
  <2>4. /\ local' \in LocalType
        /\ engine' \in EngineType
        /\ promise' \in Seq({"pending", "resolved", "rejected", "lost"})
    BY <1>4, ConcludeOK DEF TypeOK
  <2> QED BY <1>4, <2>1, <2>2, <2>3, <2>4 DEF TypeOK, StoreOK, Rpcs
<1> QED BY <1>2, <1>3, <1>4 DEF DecideAndRefill

(* syncEngineWrite keeps the types.                                        *)
LEMMA WriteOK ==
  ASSUME TypeOK, Write
  PROVE  TypeOK'
<1> DEFINE b == Len(author) + 1
           q == Append(OwnQueue, b)
<1>1. /\ local \in LocalType /\ engine \in EngineType
      /\ author \in Seq(Users) /\ tasks \in Seq(TaskType)
      /\ used \in SpentType /\ StoreOK(rs)
      /\ promise \in Seq({"pending", "resolved", "rejected", "lost"})
  BY StoreTyped DEF TypeOK
<1>2. b \in BatchIds
  BY <1>1, LenProperties DEF BatchIds
<1>3. q \in Seq(BatchIds)
  <2> HIDE DEF b
  <2> QED BY <1>1, <1>2, QueuesOK, AppendProperties
<1>4. author' \in Seq(Users)
  BY <1>1, QueuesOK, AppendProperties DEF Write
<1>5. local' \in LocalType
  <2>1. local' = [local EXCEPT !.queue[local.user] = q,
                               !.rows = @ \union {<<local.user, b>>}]
    BY DEF Write
  <2> HIDE DEF b, q
  <2>2. [local.queue EXCEPT ![local.user] = q] \in [Users -> Seq(BatchIds)]
    BY <1>1, <1>3 DEF LocalType
  <2>3. local.rows \union {<<local.user, b>>} \subseteq Users \X BatchIds
    BY <1>1, <1>2 DEF LocalType
  <2> QED BY <1>1, <2>1, <2>2, <2>3 DEF LocalType
<1>6. engine' \in EngineType
  <2>1. engine' = [engine EXCEPT !.callbacks[engine.user] = @ \union {b}]
    BY DEF Write
  <2> HIDE DEF b
  <2> QED BY <1>1, <1>2, <2>1 DEF EngineType
<1>7. CASE promise' = Append(promise, "pending") /\ Fill(rs, q, tasks, used)
  <2>1. StoreOK(rs') /\ tasks' \in Seq(TaskType) /\ used' \in SpentType
    <3> HIDE DEF q
    <3> QED BY <1>1, <1>3, <1>7, FillOK
  <2>2. promise' \in Seq({"pending", "resolved", "rejected", "lost"})
    BY <1>1, <1>7, AppendProperties
  <2> QED BY <1>4, <1>5, <1>6, <2>1, <2>2 DEF Write, TypeOK, StoreOK, Rpcs
<1>8. CASE /\ promise' = Append(promise, "rejected")
           /\ used' = Spend(used, "idb")
           /\ UNCHANGED <<rs, tasks>>
  <2>1. promise' \in Seq({"pending", "resolved", "rejected", "lost"})
    BY <1>1, <1>8, AppendProperties
  <2>2. used' \in SpentType
    BY <1>1, <1>8, SpendOK
  <2> QED BY <1>4, <1>5, <1>6, <1>8, <2>1, <2>2 DEF Write, TypeOK, Rpcs
<1> QED BY <1>7, <1>8 DEF Write

(* waitForPendingWrites() keeps the types: the batch it finds is a batch.  *)
LEMMA WaitForPendingWritesOK ==
  ASSUME TypeOK, WaitForPendingWrites
  PROVE  TypeOK'
<1> DEFINE older == {v \in 1 .. local.user : local.queue[v] # <<>>}
           last == HighestUnacknowledged(local.user)
<1>1. local \in LocalType /\ engine \in EngineType /\ used \in SpentType
  BY DEF TypeOK
<1>2. local.user \in Nat /\ 1 .. local.user \subseteq Users
  BY <1>1, UsersAssumption DEF LocalType, Users
<1>3. last \in BatchIds
  <2>1. older # {}
    BY DEF WaitForPendingWrites, HighestUnacknowledged
  <2>2. older \in SUBSET (1 .. local.user)
    OBVIOUS
  <2>3. \E v \in older : \A w \in older : w <= v
    <3> HIDE DEF older
    <3> QED BY <1>2, <2>1, <2>2, GreatestUser
  <2>4. PICK v \in older : last = local.queue[v][Len(local.queue[v])]
    BY <2>1, <2>3 DEF HighestUnacknowledged
  <2>5. local.queue[v] \in Seq(BatchIds) /\ local.queue[v] # <<>>
    BY <1>1, <1>2 DEF LocalType
  <2> QED BY <2>4, <2>5, ElementOfSeq, EmptySeq
<1>4. Elems(OwnQueue) \subseteq BatchIds
  BY <1>1, QueuesOK, ElementOfSeq, LenProperties DEF Elems
<1>5. engine' \in EngineType
  <2>1. engine' = [engine EXCEPT
                     !.waiters = @ \union
                       {[batch |-> last, covers |-> Elems(OwnQueue)]}]
    BY DEF WaitForPendingWrites
  <2> HIDE DEF last
  <2> QED BY <1>1, <1>3, <1>4, <2>1 DEF EngineType
<1>6. used' \in SpentType
  BY <1>1, SpendOK DEF WaitForPendingWrites
<1> QED BY <1>5, <1>6 DEF WaitForPendingWrites, TypeOK, Rpcs

(* Sets of offline causes that the handlers leave behind.                  *)
LEMMA CausesOK ==
  ASSUME NEW s, StoreOK(s)
  PROVE  /\ \A c \in OfflineCauses :
              /\ StoreOK([s EXCEPT !.causes = @ \union {c}])
              /\ StoreOK([s EXCEPT !.causes = @ \ {c}])
              /\ StoreOK([s EXCEPT !.causes = {c}])
         /\ StoreOK([s EXCEPT !.causes = {}])
BY ChangedOK

(* Enabling, disabling and restarting the network keep the types.          *)
LEMMA NetworkCallsOK ==
  ASSUME TypeOK,
         EnableNetwork \/ DisableNetwork \/ ConnectivityChange \/ Terminate
  PROVE  TypeOK'
<1>1. StoreOK(rs) /\ OwnQueue \in Seq(BatchIds) /\ tasks \in Seq(TaskType)
  BY StoreTyped, QueuesOK DEF TypeOK
<1>2. used \in SpentType /\ Spend(used, "toggles") \in SpentType
  BY SpendOK DEF TypeOK
<1>3. CASE EnableNetwork
  <2>1. StoreOK([rs EXCEPT !.causes = @ \ {"UserDisabled"}])
    BY <1>1, CausesOK DEF OfflineCauses
  <2>2. StoreOK(rs') /\ tasks' \in Seq(TaskType) /\ used' \in SpentType
    BY <1>1, <1>2, <1>3, <2>1, EnableNetworkInternalOK DEF EnableNetwork
  <2> QED BY <1>3, <2>2 DEF EnableNetwork, TypeOK, StoreOK, Rpcs
<1>4. CASE DisableNetwork
  <2>1. StoreOK([rs EXCEPT !.causes = @ \union {"UserDisabled"}])
    BY <1>1, CausesOK DEF OfflineCauses
  <2>2. StoreOK(rs') /\ used' \in SpentType
    BY <1>2, <1>4, <2>1, DisableNetworkInternalOK DEF DisableNetwork
  <2> QED BY <1>4, <2>2 DEF DisableNetwork, TypeOK, StoreOK, Rpcs
<1>5. CASE ConnectivityChange
  <2> DEFINE off == DisableNetworkInternal(
                      [rs EXCEPT !.causes = {"ConnectivityChange"}])
             on == [off EXCEPT !.causes = {}]
  <2>1. StoreOK(on)
    <3>1. StoreOK(off)
      BY <1>1, CausesOK, DisableNetworkInternalOK DEF OfflineCauses
    <3> HIDE DEF off
    <3> QED BY <3>1, CausesOK
  <2>2. EnableNetworkInternal(on, OwnQueue, tasks, Spend(used, "toggles"))
    BY <1>5 DEF ConnectivityChange
  <2>3. StoreOK(rs') /\ tasks' \in Seq(TaskType) /\ used' \in SpentType
    <3> HIDE DEF on
    <3> QED BY <1>1, <1>2, <2>1, <2>2, EnableNetworkInternalOK
  <2> QED BY <1>5, <2>3 DEF ConnectivityChange, TypeOK, StoreOK, Rpcs
<1>6. CASE Terminate
  <2>1. StoreOK([rs EXCEPT !.causes = @ \union {"Shutdown"}])
    BY <1>1, CausesOK DEF OfflineCauses
  <2>2. StoreOK(rs')
    BY <1>6, <2>1, DisableNetworkInternalOK DEF Terminate
  <2> QED BY <1>6, <2>2 DEF Terminate, TypeOK, StoreOK, Rpcs
<1> QED BY <1>3, <1>4, <1>5, <1>6

(* Token events keep the types.                                            *)
LEMMA TokenEventsOK ==
  ASSUME TypeOK, AppCheckTokenChanged \/ \E u \in Users : AuthTokenChanged(u)
  PROVE  TypeOK'
<1>1. used' \in SpentType
  BY SpendOK DEF TypeOK, AppCheckTokenChanged, AuthTokenChanged
<1>2. \A kind \in OpKinds : Append(tasks, Op(kind, 0)) \in Seq(TaskType)
  BY OpOK, AppendTask DEF TypeOK
<1>3. CASE AppCheckTokenChanged
  BY <1>1, <1>2, <1>3 DEF AppCheckTokenChanged, TypeOK, OpKinds, Rpcs
<1>4. ASSUME NEW u \in Users, AuthTokenChanged(u) PROVE TypeOK'
  BY <1>1, <1>2, <1>4 DEF AuthTokenChanged, TypeOK, OpKinds, Rpcs
<1> QED BY <1>3, <1>4

(* A new session of the page is typed.                                     *)
LEMMA RestartOK ==
  ASSUME TypeOK, Restart
  PROVE  TypeOK'
<1> DEFINE closed == [n \in DOMAIN rs.rpcs |->
                        [rs.rpcs[n] EXCEPT !.phase = "closed"]]
           Told == {"pending", "resolved", "rejected", "lost"}
           told == [b \in DOMAIN promise |->
                      IF promise[b] = "pending" THEN "lost" ELSE promise[b]]
<1>1. rs.rpcs \in Seq(RpcType)
  BY DEF TypeOK, RemoteStoreType
<1>2. closed \in Seq(RpcType)
  <2>1. \A n \in 1 .. Len(rs.rpcs) :
          [rs.rpcs[n] EXCEPT !.phase = "closed"] \in RpcType
    <3> SUFFICES ASSUME NEW n \in 1 .. Len(rs.rpcs)
                 PROVE  [rs.rpcs[n] EXCEPT !.phase = "closed"] \in RpcType
      OBVIOUS
    <3>1. rs.rpcs[n] \in RpcType
      BY <1>1, ElementOfSeq
    <3> QED BY <3>1 DEF RpcType, RpcPhases
  <2>2. DOMAIN rs.rpcs = 1 .. Len(rs.rpcs) /\ Len(rs.rpcs) \in Nat
    BY <1>1, LenProperties
  <2>3. closed = [n \in 1 .. Len(rs.rpcs) |->
                    [rs.rpcs[n] EXCEPT !.phase = "closed"]]
    BY <2>2
  <2> HIDE DEF closed
  <2> QED BY <2>1, <2>2, <2>3, SeqDef
<1>3. StoreOK(NewRemoteStore(closed))
  <2>1. <<>> \in Seq(BatchIds)
    BY EmptySeq
  <2> HIDE DEF closed
  <2> QED BY <1>2, <2>1 DEF NewRemoteStore, StoreOK, RemoteStoreType,
                            StreamStates
<1>4. StoreOK(rs') /\ tasks' \in Seq(TaskType) /\ used' \in SpentType
  <2>1. local.queue[creds.user] \in Seq(BatchIds)
    BY QueuesOK DEF TypeOK
  <2>2. Spend(used, "restarts") \in SpentType
    BY SpendOK DEF TypeOK
  <2>3. <<>> \in Seq(TaskType)
    BY EmptySeq
  <2>4. Fill(NewRemoteStore(closed), local.queue[creds.user], <<>>,
             Spend(used, "restarts"))
    BY DEF Restart
  <2> HIDE DEF closed
  <2> QED BY <1>3, <2>1, <2>2, <2>3, <2>4, FillOK
<1>5. local' \in LocalType /\ engine' \in EngineType
  BY DEF Restart, TypeOK, LocalType, EngineType
<1>6. promise' \in Seq(Told)
  <2>1. promise \in Seq(Told)
    BY DEF TypeOK
  <2>2. DOMAIN promise = 1 .. Len(promise) /\ Len(promise) \in Nat
    BY <2>1, LenProperties
  <2>3. \A b \in 1 .. Len(promise) : promise[b] \in Told
    BY <2>1, ElementOfSeq
  <2>4. promise' = told
    BY DEF Restart
  <2>5. told = [b \in 1 .. Len(promise) |->
                  IF promise[b] = "pending" THEN "lost" ELSE promise[b]]
    BY <2>2
  <2> HIDE DEF told
  <2> QED BY <2>2, <2>3, <2>4, <2>5, SeqDef
<1>7. retryOps' \in Seq(TaskType)
  BY EmptySeq DEF Restart
<1> QED BY <1>4, <1>5, <1>6, <1>7 DEF Restart, TypeOK, StoreOK, Rpcs

(* Changing one attempt, and what is known of each.                        *)
LEMMA RpcOK ==
  ASSUME TypeOK, NEW n \in Rpcs
  PROVE  /\ rs.rpcs[n] \in RpcType
         /\ n \in Nat \ {0}
         /\ \A phase \in RpcPhases : StoreOK(Rpc(n, phase))
         /\ \A kind \in StreamKinds, b \in Nat :
              StreamTask(n, kind, b) \in TaskType
<1>1. StoreOK(rs) /\ rs.rpcs \in Seq(RpcType)
  BY StoreTyped DEF TypeOK, RemoteStoreType
<1>2. n \in 1 .. Len(rs.rpcs) /\ Len(rs.rpcs) \in Nat
  BY <1>1, LenProperties DEF Rpcs
<1>3. rs.rpcs[n] \in RpcType
  BY <1>1, <1>2, ElementOfSeq
<1>4. ASSUME NEW phase \in RpcPhases PROVE StoreOK(Rpc(n, phase))
  <2> DEFINE rpcs == [rs.rpcs EXCEPT ![n].phase = phase]
  <2>1. rpcs \in Seq(RpcType) /\ DOMAIN rpcs = DOMAIN rs.rpcs
    BY <1>1, RpcPhase
  <2>2. Rpc(n, phase) = [rs EXCEPT !.rpcs = rpcs]
    BY DEF Rpc
  <2> HIDE DEF rpcs
  <2> QED BY <1>1, <2>1, <2>2 DEF StoreOK, RemoteStoreType
<1>5. \A kind \in StreamKinds, b \in Nat : StreamTask(n, kind, b) \in TaskType
  BY <1>3 DEF StreamTask, TaskType, RpcType
<1> QED BY <1>2, <1>3, <1>4, <1>5

(* The continuations of auth() keep the types.                             *)
LEMMA ContinuationsOK ==
  ASSUME TypeOK, NEW n \in Rpcs,
         TokenFetched(n) \/ StartRpc(n) \/ TokenFetchFails(n)
  PROVE  TypeOK'
<1>1. StoreOK(rs) /\ rs.rpcs \in Seq(RpcType) /\ rs \in RemoteStoreType
  BY StoreTyped DEF TypeOK, RemoteStoreType
<1>2. CASE TokenFetched(n)
  <2> DEFINE r == [rs.rpcs[n] EXCEPT !.phase = "token", !.user = creds.user]
             rpcs == [rs.rpcs EXCEPT ![n] = r]
  <2>1. r \in RpcType
    BY RpcOK DEF RpcType, RpcPhases, TypeOK
  <2>2. rpcs \in Seq(RpcType) /\ DOMAIN rpcs = DOMAIN rs.rpcs
    <3> HIDE DEF r
    <3> QED BY <1>1, <2>1, RpcsUpdate
  <2>3. rs' = [rs EXCEPT !.rpcs = rpcs]
    BY <1>2 DEF TokenFetched
  <2>4. StoreOK(rs')
    <3> HIDE DEF rpcs
    <3> QED BY <1>1, <2>2, <2>3 DEF StoreOK, RemoteStoreType
  <2> QED BY <1>2, <2>4 DEF TokenFetched, TypeOK, StoreOK, Rpcs
<1>3. CASE StartRpc(n)
  <2>1. StoreOK([Rpc(n, "connecting") EXCEPT !.stream = n])
    <3>1. StoreOK(Rpc(n, "connecting"))
      BY RpcOK DEF RpcPhases
    <3>2. n \in DOMAIN Rpc(n, "connecting").rpcs /\ n \in Nat
      BY <1>1, RpcPhase, RpcOK DEF Rpc, Rpcs, RpcPhases, RemoteStoreType
    <3> QED BY <3>1, <3>2 DEF StoreOK, RemoteStoreType
  <2>2. StoreOK(rs')
    BY <1>3, <2>1, RpcOK DEF StartRpc, RpcPhases
  <2> QED BY <1>3, <2>2 DEF StartRpc, TypeOK, StoreOK, Rpcs
<1>4. CASE TokenFetchFails(n)
  <2>1. StoreOK(rs')
    BY <1>4, RpcOK DEF TokenFetchFails, RpcPhases
  <2>2. tasks' \in Seq(TaskType)
    BY <1>4, RpcOK, AppendTask DEF TokenFetchFails, StreamKinds, TypeOK
  <2>3. used' \in SpentType
    BY <1>4, SpendOK DEF TokenFetchFails, TypeOK
  <2> QED BY <1>4, <2>1, <2>2, <2>3 DEF TokenFetchFails, TypeOK, StoreOK, Rpcs
<1> QED BY <1>2, <1>3, <1>4

(* The idle and backoff timers keep the types.                             *)
LEMMA StreamTimersOK ==
  ASSUME TypeOK, IdleTimeout \/ BackoffElapsed
  PROVE  TypeOK'
<1>1. StoreOK(rs)
  BY StoreTyped
<1>2. /\ StoreOK([rs EXCEPT !.idle = FALSE])
      /\ StoreOK([rs EXCEPT !.backoff = FALSE, !.state = "Initial"])
  BY <1>1 DEF StoreOK, RemoteStoreType, StreamStates
<1>3. CASE IdleTimeout
  <2>1. StoreOK(rs')
    BY <1>1, <1>2, <1>3, CloseStreamOK, StartIfNeededOK
       DEF IdleTimeout, StreamStates
  <2> QED BY <1>3, <2>1 DEF IdleTimeout, TypeOK, StoreOK, Rpcs
<1>4. CASE BackoffElapsed
  <2>1. StoreOK(rs')
    BY <1>2, <1>4, StartStreamOK DEF BackoffElapsed
  <2> QED BY <1>4, <2>1 DEF BackoffElapsed, TypeOK, StoreOK, Rpcs
<1> QED BY <1>3, <1>4

(* Every stream callback keeps the types.                                  *)
LEMMA StreamCallbackOK ==
  ASSUME TypeOK, StreamCallback
  PROVE  TypeOK'
<1>1. StoreOK(rs) /\ rs \in RemoteStoreType /\ rs.pipeline \in Seq(BatchIds)
  BY StoreTyped, ChangedOK DEF StoreOK
<1>2. tasks # <<>> /\ Tail(tasks) \in Seq(TaskType)
  <2>1. tasks # <<>>
    BY DEF StreamCallback, SkipStaleCallback, OnOpen, OnHandshake,
           OnMutationResult, OnStreamClose, NextTask
  <2> QED BY <2>1, HeadTailProperties DEF TypeOK
<1>3. ASSUME rs.pipeline # <<>>
      PROVE  Head(rs.pipeline) \in BatchIds /\ Tail(rs.pipeline) \in Seq(BatchIds)
  BY <1>1, <1>3, HeadTailProperties
<1>4. CASE SkipStaleCallback
  BY <1>2, <1>4 DEF SkipStaleCallback, TypeOK, Rpcs
<1>5. CASE OnOpen
  <2>1. StoreOK([rs EXCEPT !.state = "Open"])
    BY <1>1, ChangedOK DEF StreamStates
  <2>2. <<Handshake>> \in Seq(Nat)
    BY DEF Handshake
  <2>3. StoreOK(rs')
    BY <1>5, <2>1, <2>2, SendOK DEF OnOpen
  <2> QED BY <1>2, <1>5, <2>3 DEF OnOpen, TypeOK, StoreOK, Rpcs
<1>6. CASE OnHandshake
  <2>1. CASE QueueFails
    BY <1>2, <2>1, QueueFailsOK
  <2>2. CASE ~rs.handshake
    <3>1. StoreOK([rs EXCEPT !.handshake = TRUE])
      BY <1>1 DEF StoreOK, RemoteStoreType
    <3>2. rs.pipeline \in Seq(Nat)
      BY <1>1, SeqMonotonic DEF BatchIds
    <3>3. StoreOK(rs')
      BY <1>6, <2>2, <3>1, <3>2, SendOK DEF OnHandshake
    <3> QED BY <1>2, <1>6, <2>2, <3>3 DEF OnHandshake, TypeOK, StoreOK, Rpcs
  <2> QED BY <1>6, <2>1, <2>2 DEF OnHandshake
<1>7. CASE OnMutationResult
  <2>1. CASE QueueFails
    BY <1>2, <2>1, QueueFailsOK
  <2>2. CASE ~(~rs.handshake \/ rs.pipeline = <<>>)
    <3>1. StoreOK([rs EXCEPT !.pipeline = Tail(@)])
      BY <1>1, <1>3, <2>2 DEF StoreOK, RemoteStoreType
    <3>2. DecideAndRefill("acknowledge", Head(rs.pipeline),
                          [rs EXCEPT !.pipeline = Tail(@)])
      BY <1>7, <2>2 DEF OnMutationResult
    <3> QED BY <1>2, <1>3, <2>2, <3>1, <3>2, DecideAndRefillOK
  <2> QED BY <1>7, <2>1, <2>2 DEF OnMutationResult
<1>8. ASSUME NEW kind, OnStreamClose(kind) PROVE TypeOK'
  <2> DEFINE closed == HandleStreamClose(rs)
  <2>1. StoreOK(closed) /\ closed.pipeline = rs.pipeline
    <3>1. StoreOK([rs EXCEPT !.stream = 0])
      BY <1>1 DEF StoreOK, RemoteStoreType
    <3>2. StoreOK(closed)
      BY <3>1, CloseStreamOK DEF HandleStreamClose, StreamStates
    <3>3. closed.pipeline = rs.pipeline
      BY <1>1 DEF HandleStreamClose, CloseStream, RemoteStoreType
    <3> QED BY <3>2, <3>3
  <2>2. CASE QueueFails
    BY <1>2, <2>2, QueueFailsOK
  <2>3. CASE ~QueueFails /\ kind = "permanent" /\ rs.handshake
    <3> DEFINE next == InhibitBackoff([closed EXCEPT !.pipeline = Tail(@)])
    <3>1. rs.pipeline # <<>>
      BY <1>8, <2>3 DEF OnStreamClose
    <3>2. StoreOK(next)
      <4>1. StoreOK([closed EXCEPT !.pipeline = Tail(@)])
        <5> HIDE DEF closed
        <5> QED BY <1>3, <2>1, <3>1 DEF StoreOK, RemoteStoreType
      <4> QED BY <4>1, ChangedOK
    <3>3. DecideAndRefill("reject", Head(rs.pipeline), next)
      BY <1>8, <2>3, <3>1 DEF OnStreamClose
    <3> HIDE DEF next
    <3> QED BY <1>2, <1>3, <3>1, <3>2, <3>3, DecideAndRefillOK
  <2>4. CASE ~(kind = "permanent" /\ rs.handshake)
    <3>1. StoreOK(rs')
      BY <1>8, <2>1, <2>4, StartIfNeededOK DEF OnStreamClose
    <3> QED BY <1>2, <1>8, <2>4, <3>1 DEF OnStreamClose, TypeOK, StoreOK, Rpcs
  <2> QED BY <2>2, <2>3, <2>4
<1> QED BY <1>4, <1>5, <1>6, <1>7, <1>8 DEF StreamCallback

(* So does a retry that fails again.                                       *)
LEMMA IdbFailsAgainOK ==
  ASSUME TypeOK, NEW ops \in Seq(TaskType), NEW rest \in Seq(TaskType),
         IdbFailsAgain(ops, rest)
  PROVE  /\ retryOps' \in Seq(TaskType) /\ tasks' \in Seq(TaskType)
         /\ used' \in SpentType
BY SpendOK DEF IdbFailsAgain, TypeOK

(* A retry that ends an outage, or does not, keeps the types.              *)
LEMMA RetryRecoveryOK ==
  ASSUME TypeOK, NEW ops \in Seq(TaskType), ops # <<>>,
         NEW rest \in Seq(TaskType), RetryRecovery(ops, rest)
  PROVE  TypeOK'
<1> DEFINE kind == Head(ops).kind
           b == Head(ops).batch
           back == [rs EXCEPT !.causes = @ \ {"IndexedDbFailed"}]
<1>1. /\ Tail(ops) \in Seq(TaskType) /\ used \in SpentType
      /\ local \in LocalType /\ OwnQueue \in Seq(BatchIds)
  BY HeadTailProperties, QueuesOK DEF TypeOK
<1>2. StoreOK(back)
  BY StoreTyped, CausesOK DEF OfflineCauses
<1>3. CASE /\ Conclude(kind, b)
           /\ EnableNetworkInternal(back, RemoveBatch(b).queue[local.user],
                                    rest, used)
           /\ retryOps' = Tail(ops)
           /\ UNCHANGED mode
  <2>1. RemoveBatch(b).queue[local.user] \in Seq(BatchIds)
    BY <1>1, QueuesOK
  <2>2. StoreOK(rs') /\ tasks' \in Seq(TaskType) /\ used' \in SpentType
    <3> HIDE DEF back, b
    <3> QED BY <1>1, <1>2, <1>3, <2>1, EnableNetworkInternalOK
  <2>3. /\ local' \in LocalType
        /\ engine' \in EngineType
        /\ promise' \in Seq({"pending", "resolved", "rejected", "lost"})
    BY <1>3, ConcludeOK
  <2> QED BY <1>1, <1>3, <2>2, <2>3
          DEF RetryRecovery, TypeOK, StoreOK, Rpcs
<1>4. CASE /\ EnableNetworkInternal(back, OwnQueue, rest, used)
           /\ retryOps' = Tail(ops)
           /\ UNCHANGED <<local, engine, promise, mode>>
  <2>1. StoreOK(rs') /\ tasks' \in Seq(TaskType) /\ used' \in SpentType
    <3> HIDE DEF back
    <3> QED BY <1>1, <1>2, <1>4, EnableNetworkInternalOK
  <2> QED BY <1>1, <1>4, <2>1 DEF RetryRecovery, TypeOK, StoreOK, Rpcs
<1>5. CASE /\ mode' = "failed"
           /\ tasks' = rest /\ retryOps' = ops
           /\ UNCHANGED <<rs, local, engine, promise, used>>
  BY <1>5 DEF RetryRecovery, TypeOK, Rpcs
<1>6. CASE /\ IdbFailsAgain(ops, rest)
           /\ UNCHANGED <<local, engine, promise>> \/ Conclude(kind, b)
           /\ UNCHANGED <<rs, mode>>
  <2>1. /\ retryOps' \in Seq(TaskType) /\ tasks' \in Seq(TaskType)
        /\ used' \in SpentType
    BY <1>6, IdbFailsAgainOK
  <2>2. /\ local' \in LocalType
        /\ engine' \in EngineType
        /\ promise' \in Seq({"pending", "resolved", "rejected", "lost"})
    BY <1>6, ConcludeOK DEF TypeOK
  <2> QED BY <1>6, <2>1, <2>2 DEF RetryRecovery, TypeOK, Rpcs
<1> QED BY <1>3, <1>4, <1>5, <1>6 DEF RetryRecovery

(* Whom the LocalStore and the SyncEngine work for may change at will.     *)
LEMMA SwitchOK ==
  ASSUME TypeOK, NEW u \in Users
  PROVE  /\ [local EXCEPT !.user = u] \in LocalType
         /\ [engine EXCEPT !.user = u, !.waiters = {}] \in EngineType
BY DEF TypeOK, LocalType, EngineType

(* remoteStoreHandleCredentialChange keeps the types.                      *)
LEMMA HandleCredentialChangeOK ==
  ASSUME TypeOK, NEW u \in Users,
         NEW ops \in Seq(TaskType), ops # <<>>, NEW rest \in Seq(TaskType),
         HandleCredentialChange(u, ops, rest)
  PROVE  /\ StoreOK(rs') /\ tasks' \in Seq(TaskType) /\ used' \in SpentType
         /\ retryOps' \in Seq(TaskType)
         /\ local' \in LocalType /\ engine' \in EngineType
<1> DEFINE off == DisableNetworkInternal(
                    [rs EXCEPT !.causes = @ \union {"CredentialChange"}])
           on == [off EXCEPT !.causes = @ \ {"CredentialChange"}]
<1>1. /\ Tail(ops) \in Seq(TaskType) /\ used \in SpentType
      /\ local \in LocalType /\ engine \in EngineType
      /\ OwnQueue \in Seq(BatchIds) /\ local.queue[u] \in Seq(BatchIds)
      /\ local.user \in Users
  BY HeadTailProperties, QueuesOK DEF TypeOK
<1>2. StoreOK(off)
  BY StoreTyped, CausesOK, DisableNetworkInternalOK DEF OfflineCauses
<1>3. StoreOK(on)
  <2> HIDE DEF off
  <2> QED BY <1>2, CausesOK DEF OfflineCauses
<1>4. CASE /\ EnableNetworkInternal(on, OwnQueue, rest, used)
           /\ retryOps' = Tail(ops)
           /\ UNCHANGED <<local, engine>>
  <2> HIDE DEF on
  <2> QED BY <1>1, <1>3, <1>4, EnableNetworkInternalOK
<1>5. CASE /\ local' = [local EXCEPT !.user = u]
           /\ engine' = [engine EXCEPT !.user = u, !.waiters = {}]
           /\ EnableNetworkInternal(on, local.queue[u], rest, used)
           /\ retryOps' = Tail(ops)
  <2> HIDE DEF on
  <2> QED BY <1>1, <1>3, <1>5, EnableNetworkInternalOK, SwitchOK
<1>6. CASE /\ IdbFailsAgain(ops, rest)
           /\ rs' = off
           /\ \/ /\ \E v \in {u, local.user} : local' = [local EXCEPT !.user = v]
                 /\ UNCHANGED engine
              \/ /\ local' = [local EXCEPT !.user = u]
                 /\ engine' = [engine EXCEPT !.user = u, !.waiters = {}]
  <2> HIDE DEF off
  <2> QED BY <1>1, <1>2, <1>6, IdbFailsAgainOK, SwitchOK
<1> QED BY <1>4, <1>5, <1>6 DEF HandleCredentialChange

(* retryNextOp keeps the types.                                            *)
LEMMA RetryNextOpOK ==
  ASSUME TypeOK, NEW ops \in Seq(TaskType), ops # <<>>,
         NEW rest \in Seq(TaskType), RetryNextOp(ops, rest)
  PROVE  TypeOK'
<1>1. CASE RetryRecovery(ops, rest)
  BY <1>1, RetryRecoveryOK
<1>2. CASE RetryCredentials(ops, rest)
  <2>1. creds.user \in Users /\ engine.user \in Users
    BY DEF TypeOK, EngineType
  <2>2. CASE HandleCredentialChange(creds.user, ops, rest)
    BY <1>2, <2>1, <2>2, HandleCredentialChangeOK
       DEF RetryCredentials, TypeOK, StoreOK, Rpcs
  <2>3. CASE HandleCredentialChange(engine.user, ops, rest)
    BY <1>2, <2>1, <2>3, HandleCredentialChangeOK
       DEF RetryCredentials, TypeOK, StoreOK, Rpcs
  <2>4. CASE /\ retryOps' = Tail(ops) /\ tasks' = rest
             /\ UNCHANGED <<rs, local, engine, creds, used>>
    BY <1>2, <2>4, HeadTailProperties DEF RetryCredentials, TypeOK, Rpcs
  <2> QED BY <1>2, <2>2, <2>3, <2>4 DEF RetryCredentials
<1> QED BY <1>1, <1>2 DEF RetryNextOp

(* So do the task and the timer that call it.                              *)
LEMMA RetriesOK ==
  ASSUME TypeOK, RunRetryTask \/ RetryTimer
  PROVE  TypeOK'
<1>1. tasks \in Seq(TaskType) /\ retryOps \in Seq(TaskType)
  BY DEF TypeOK
<1>2. CASE RunRetryTask
  <2>1. tasks # <<>> /\ RetryNextOp(Append(retryOps, Head(tasks)), Tail(tasks))
    BY <1>2 DEF RunRetryTask
  <2>2. Head(tasks) \in TaskType /\ Tail(tasks) \in Seq(TaskType)
    BY <1>1, <2>1, HeadTailProperties
  <2>3. /\ Append(retryOps, Head(tasks)) \in Seq(TaskType)
        /\ Append(retryOps, Head(tasks)) # <<>>
    BY <1>1, <2>2, AppendProperties
  <2> QED BY <2>1, <2>2, <2>3, RetryNextOpOK
<1>3. CASE RetryTimer
  BY <1>1, <1>3, RetryNextOpOK DEF RetryTimer
<1> QED BY <1>2, <1>3

(* Replacing one attempt keeps the store typed.                            *)
LEMMA RpcReplaced ==
  ASSUME TypeOK, NEW n \in Rpcs, NEW r \in RpcType
  PROVE  StoreOK([rs EXCEPT !.rpcs[n] = r])
<1> DEFINE rpcs == [rs.rpcs EXCEPT ![n] = r]
<1>1. StoreOK(rs) /\ rs.rpcs \in Seq(RpcType)
  BY StoreTyped DEF TypeOK, RemoteStoreType
<1>2. rpcs \in Seq(RpcType) /\ DOMAIN rpcs = DOMAIN rs.rpcs
  BY <1>1, RpcsUpdate
<1>3. [rs EXCEPT !.rpcs[n] = r] = [rs EXCEPT !.rpcs = rpcs]
  OBVIOUS
<1> HIDE DEF rpcs
<1> QED BY <1>1, <1>2, <1>3 DEF StoreOK, RemoteStoreType

(* What the backend makes the stream enqueue is a task.                    *)
LEMMA EmitOK ==
  ASSUME TypeOK, NEW n \in Rpcs, NEW kind \in StreamKinds, NEW b \in Nat,
         Emit(n, kind, b)
  PROVE  tasks' \in Seq(TaskType)
BY RpcOK, AppendTask DEF Emit, TypeOK

(* Every step of the backend keeps the types.                              *)
LEMMA BackendOK ==
  ASSUME TypeOK, NEW n \in Rpcs,
         Backend(n) \/ OrphanCommits(n)
         \/ StreamBreaks(n, "transient") \/ StreamBreaks(n, "permanent")
  PROVE  TypeOK'
<1> DEFINE r == rs.rpcs[n]
<1>1. r \in RpcType
  BY RpcOK
<1>2. ASSUME Requests(n) # <<>>
      PROVE  /\ Head(Requests(n)) \in Nat
             /\ [r EXCEPT !.reqs = Tail(@)] \in RpcType
             /\ [r EXCEPT !.phase = "ready", !.reqs = Tail(@)] \in RpcType
             /\ <<Head(Requests(n)), r.user>> \in Nat \X (Users \union {0})
  <2>1. r.reqs \in Seq(Nat) /\ r.reqs # <<>>
    BY <1>1, <1>2 DEF RpcType, Requests
  <2>2. Head(r.reqs) \in Nat /\ Tail(r.reqs) \in Seq(Nat)
    BY <2>1, HeadTailProperties
  <2> HIDE DEF r
  <2>3. Head(Requests(n)) \in Nat
    BY <2>2 DEF Requests, r
  <2>4. <<Head(Requests(n)), r.user>> \in Nat \X (Users \union {0})
    BY <1>1, <2>3 DEF RpcType
  <2> QED BY <1>1, <2>2, <2>3, <2>4 DEF RpcType, RpcPhases
<1>3. [r EXCEPT !.phase = "closed", !.reqs = <<>>] \in RpcType
  <2>1. <<>> \in Seq(Nat)
    BY EmptySeq
  <2> HIDE DEF r
  <2> QED BY <1>1, <2>1 DEF RpcType, RpcPhases
<1>4. used' \in SpentType
  BY SpendOK DEF TypeOK, Backend, BackendAccepts, BackendShakesHands,
                 BackendCommits, BackendRefuses, OrphanCommits, StreamBreaks
<1>5. CASE BackendAccepts(n)
  <2>1. StoreOK(rs')
    BY <1>5, RpcOK DEF BackendAccepts, RpcPhases
  <2>2. tasks' \in Seq(TaskType)
    BY <1>5, EmitOK DEF BackendAccepts, StreamKinds
  <2> QED BY <1>5, <2>1, <2>2 DEF BackendAccepts, TypeOK, StoreOK, Rpcs
<1>6. CASE BackendShakesHands(n)
  <2>1. StoreOK(rs')
    BY <1>2, <1>6, RpcReplaced DEF BackendShakesHands, Requests
  <2>2. tasks' \in Seq(TaskType)
    BY <1>6, EmitOK DEF BackendShakesHands, StreamKinds
  <2> QED BY <1>6, <2>1, <2>2 DEF BackendShakesHands, TypeOK, StoreOK, Rpcs
<1>7. CASE BackendCommits(n)
  <2>1. StoreOK(rs')
    BY <1>2, <1>7, RpcReplaced DEF BackendCommits, Requests
  <2>2. tasks' \in Seq(TaskType)
    BY <1>2, <1>7, EmitOK DEF BackendCommits, StreamKinds
  <2>3. committed' \subseteq Nat \X (Users \union {0})
    BY <1>2, <1>7 DEF BackendCommits, TypeOK
  <2> QED BY <1>7, <2>1, <2>2, <2>3 DEF BackendCommits, TypeOK, StoreOK, Rpcs
<1>8. CASE BackendRefuses(n)
  <2>1. StoreOK(rs')
    BY <1>3, <1>8, RpcReplaced DEF BackendRefuses
  <2>2. tasks' \in Seq(TaskType)
    BY <1>2, <1>8, EmitOK DEF BackendRefuses, StreamKinds
  <2>3. refused' \subseteq Nat
    BY <1>2, <1>8 DEF BackendRefuses, TypeOK
  <2> QED BY <1>4, <1>8, <2>1, <2>2, <2>3
          DEF BackendRefuses, TypeOK, StoreOK, Rpcs
<1>9. ASSUME NEW kind \in {"transient", "permanent"}, StreamBreaks(n, kind)
      PROVE  TypeOK'
  <2>1. StoreOK(rs')
    BY <1>9, RpcOK DEF StreamBreaks, RpcPhases
  <2>2. tasks' \in Seq(TaskType)
    BY <1>9, EmitOK DEF StreamBreaks, StreamKinds
  <2> QED BY <1>4, <1>9, <2>1, <2>2 DEF StreamBreaks, TypeOK, StoreOK, Rpcs
<1>10. CASE OrphanCommits(n)
  <2>1. StoreOK(rs')
    BY <1>2, <1>10, RpcReplaced DEF OrphanCommits, Requests
  <2>2. committed' \subseteq Nat \X (Users \union {0})
    BY <1>2, <1>10 DEF OrphanCommits, TypeOK
  <2> QED BY <1>10, <2>1, <2>2 DEF OrphanCommits, TypeOK, StoreOK, Rpcs
<1> QED BY <1>5, <1>6, <1>7, <1>8, <1>9, <1>10 DEF Backend

----------------------------------------------------------------------------
(* The initial state is typed.                                             *)
LEMMA InitTyped == Init => TypeOK
<1> SUFFICES ASSUME Init PROVE TypeOK
  OBVIOUS
<1>1. \A S : <<>> \in Seq(S)
  BY EmptySeq
<1>2. StoreOK(rs)
  BY <1>1 DEF Init, NewRemoteStore, StoreOK, RemoteStoreType, StreamStates
<1>3. 1 \in Users
  BY UsersAssumption DEF Users
<1>4. local \in LocalType /\ engine \in EngineType
  BY <1>1, <1>3 DEF Init, LocalType, EngineType
<1>5. used \in SpentType
  BY DEF Init, SpentType
<1> QED BY <1>1, <1>2, <1>3, <1>4, <1>5 DEF Init, TypeOK, StoreOK, Rpcs

(* Every step keeps the types.                                             *)
LEMMA NextTyped == TypeOK /\ [Next]_vars => TypeOK'
<1> SUFFICES ASSUME TypeOK, [Next]_vars PROVE TypeOK'
  OBVIOUS
<1>1. CASE Application
  BY <1>1, WriteOK, WaitForPendingWritesOK, NetworkCallsOK, TokenEventsOK,
     RestartOK DEF Application
<1>2. CASE StreamCallback
  BY <1>2, StreamCallbackOK
<1>3. CASE RunRetryTask \/ Timer
  BY <1>3, RetriesOK, StreamTimersOK DEF Timer
<1>4. ASSUME NEW n \in Rpcs,
             \/ TokenFetched(n) \/ StartRpc(n) \/ TokenFetchFails(n)
             \/ Backend(n)
             \/ StreamBreaks(n, "transient") \/ StreamBreaks(n, "permanent")
             \/ OrphanCommits(n)
      PROVE  TypeOK'
  BY <1>4, ContinuationsOK, BackendOK
<1>5. CASE UNCHANGED vars
  BY <1>5 DEF vars, TypeOK, Rpcs
<1> QED BY <1>1, <1>2, <1>3, <1>4, <1>5 DEF Next

(* Every reachable state of the pipeline is well typed; the RPC the stream  *)
(* uses is always one that auth() began.                                   *)
THEOREM PipelineTyped == Spec => []TypeOK
BY InitTyped, NextTyped, PTL DEF Spec

-----------------------------------------------------------------------------
(* The network.                                                            *)

(* No attempt is of a later generation.                                    *)
Past(s) ==
  \A n \in DOMAIN s.rpcs :
    s.rpcs[n].phase # "closed" => s.rpcs[n].cc <= s.closeCount

(* The stream of t has replaced or continued that of s.                    *)
Evolves(s, t) ==
  /\ s.closeCount <= t.closeCount
  /\ t.closeCount = s.closeCount => (UnderWay(s) => UnderWay(t))

Alike(s, t) ==
  /\ t.state = s.state
  /\ t.closeCount = s.closeCount
  /\ t.causes = s.causes

(* Evolves contains Alike and composes.                                    *)
LEMMA EvolvesBasics ==
  ASSUME NEW s, StoreOK(s)
  PROVE  /\ \A t : Alike(s, t) => Evolves(s, t) /\ (IsStarted(s) <=> IsStarted(t))
         /\ \A t, w : /\ StoreOK(t) /\ StoreOK(w)
                      /\ Evolves(s, t) /\ Evolves(t, w)
                      => Evolves(s, w)
BY DEF StoreOK, RemoteStoreType, Alike, Evolves, IsStarted, IsOpen, UnderWay

(* Callbacks that were sound stay so.                                      *)
LEMMA CallbacksEvolve ==
  ASSUME NEW s, StoreOK(s), NEW t, StoreOK(t), Evolves(s, t),
         NEW queue \in Seq(TaskType), CallbacksSound(s, queue)
  PROVE  CallbacksSound(t, queue)
<1> SUFFICES ASSUME NEW i \in DOMAIN queue, queue[i].kind \in StreamKinds
             PROVE  /\ queue[i].cc <= t.closeCount
                    /\ queue[i].cc = t.closeCount => UnderWay(t)
  BY DEF CallbacksSound
<1>1. queue[i].cc \in Nat
  <2>1. queue[i] \in TaskType
    BY ElementOfSeq, LenProperties
  <2> QED BY <2>1 DEF TaskType
<1>2. queue[i].cc <= s.closeCount
      /\ (queue[i].cc = s.closeCount => UnderWay(s))
  BY DEF CallbacksSound
<1>3. s.closeCount \in Nat /\ t.closeCount \in Nat
  BY DEF StoreOK, RemoteStoreType
<1> QED BY <1>1, <1>2, <1>3 DEF Evolves

----------------------------------------------------------------------------
(* The operators of PersistentStream and RemoteStore                       *)

(* sendRequest leaves state, generation and causes alone.                  *)
LEMMA SendKeeps ==
  ASSUME NEW s, StoreOK(s), NEW msgs \in Seq(Nat)
  PROVE  /\ Alike(s, Send(s, msgs))
         /\ Send(s, msgs).pipeline = s.pipeline
         /\ Sound(s) => Sound(Send(s, msgs))
<1>1. CASE msgs = <<>>
  BY <1>1 DEF Send, Alike
<1>2. CASE msgs # <<>>
  <2> DEFINE sent == [s.rpcs EXCEPT ![s.stream] = Sent(@, msgs)]
  <2>1. s \in RemoteStoreType /\ s.rpcs \in Seq(RpcType)
    BY DEF StoreOK, RemoteStoreType
  <2>2. Send(s, msgs) = [s EXCEPT !.idle = FALSE, !.rpcs = sent]
    BY <1>2, <2>1 DEF Send, RemoteStoreType
  <2>3. DOMAIN sent = DOMAIN s.rpcs
    BY <2>1
  <2>4. \A n \in DOMAIN s.rpcs : /\ sent[n].cc = s.rpcs[n].cc
                                 /\ sent[n].phase = s.rpcs[n].phase
    <3> SUFFICES ASSUME NEW n \in DOMAIN s.rpcs
                 PROVE  /\ sent[n].cc = s.rpcs[n].cc
                        /\ sent[n].phase = s.rpcs[n].phase
      OBVIOUS
    <3>1. s.rpcs[n] \in RpcType
      BY <2>1, ElementOfSeq, LenProperties
    <3>2. sent[n] \in {s.rpcs[n], Sent(s.rpcs[n], msgs)}
      OBVIOUS
    <3> HIDE DEF sent
    <3> QED BY <3>1, <3>2, SentOK
  <2> HIDE DEF sent
  <2>5. /\ Send(s, msgs).state = s.state
        /\ Send(s, msgs).closeCount = s.closeCount
        /\ Send(s, msgs).causes = s.causes
        /\ Send(s, msgs).pipeline = s.pipeline
        /\ Send(s, msgs).backoff = s.backoff
        /\ Send(s, msgs).rpcs = sent
    BY <2>1, <2>2 DEF RemoteStoreType
  <2> QED BY <2>3, <2>4, <2>5 DEF Alike, Sound, IsStarted, IsOpen, UnderWay
<1> QED BY <1>1, <1>2

(* In a sound store no attempt is of a later generation.                   *)
LEMMA SoundIsPast == \A s : Sound(s) => Past(s)
BY DEF Sound, Past

(* After start() the stream is started, and what could call back before    *)
(* can still.                                                              *)
LEMMA StartStreamKeeps ==
  ASSUME NEW s, StoreOK(s), Past(s), ~s.backoff, s.state = "Error" => Sound(s)
  PROVE  LET t == StartStream(s)
         IN  /\ Sound(t) /\ IsStarted(t) /\ Evolves(s, t)
             /\ t.causes = s.causes /\ t.pipeline = s.pipeline
<1> DEFINE new == [cc |-> s.closeCount, phase |-> "auth", user |-> 0,
                   reqs |-> <<>>]
<1>1. /\ s \in RemoteStoreType /\ s.rpcs \in Seq(RpcType)
      /\ s.closeCount \in Nat
  BY DEF StoreOK, RemoteStoreType
<1>2. CASE s.state = "Error"
  <2>1. StartStream(s) = [s EXCEPT !.handshake = FALSE, !.state = "Backoff",
                                   !.backoff = TRUE]
    BY <1>1, <1>2 DEF StartStream, PerformBackoff, RemoteStoreType
  <2>2. LET t == StartStream(s)
        IN  /\ t.rpcs = s.rpcs /\ t.closeCount = s.closeCount
            /\ t.state = "Backoff"
            /\ t.causes = s.causes /\ t.pipeline = s.pipeline
    BY <1>1, <2>1 DEF RemoteStoreType
  <2>3. Sound(s) /\ ~UnderWay(s)
    BY <1>2 DEF UnderWay
  <2> QED BY <1>1, <2>2, <2>3 DEF Sound, Evolves, IsStarted, IsOpen, UnderWay
<1>3. CASE s.state # "Error"
  <2>1. StartStream(s) = [s EXCEPT !.handshake = FALSE, !.state = "Starting",
                                   !.rpcs = Append(s.rpcs, new)]
    BY <1>1, <1>3 DEF StartStream, Auth, RemoteStoreType
  <2>2. \A n \in DOMAIN Append(s.rpcs, new) :
          Append(s.rpcs, new)[n].phase # "closed" =>
            Append(s.rpcs, new)[n].cc <= s.closeCount
    <3> SUFFICES ASSUME NEW n \in DOMAIN Append(s.rpcs, new)
                 PROVE  Append(s.rpcs, new)[n].phase # "closed" =>
                          Append(s.rpcs, new)[n].cc <= s.closeCount
      OBVIOUS
    <3>1. DOMAIN s.rpcs = 1 .. Len(s.rpcs) /\ Len(s.rpcs) \in Nat
      BY <1>1, LenProperties
    <3>2. CASE n \in DOMAIN s.rpcs
      BY <1>1, <3>1, <3>2 DEF Past
    <3>3. CASE n = Len(s.rpcs) + 1
      <4>1. Append(s.rpcs, new)[n] = new
        BY <1>1, <3>1, <3>3
      <4> QED BY <1>1, <4>1
    <3> QED BY <1>1, <3>1, <3>2, <3>3
  <2> HIDE DEF new
  <2>3. LET t == StartStream(s)
        IN  /\ t.rpcs = Append(s.rpcs, new) /\ t.closeCount = s.closeCount
            /\ t.state = "Starting" /\ t.backoff = s.backoff
            /\ t.causes = s.causes /\ t.pipeline = s.pipeline
    BY <1>1, <2>1 DEF RemoteStoreType
  <2> QED BY <1>1, <2>2, <2>3 DEF Sound, Evolves, IsStarted, IsOpen, UnderWay
<1> QED BY <1>2, <1>3

(* After close() nothing of the old generation calls back any more.        *)
LEMMA CloseStreamKeeps ==
  ASSUME NEW s, StoreOK(s), Past(s), NEW final \in {"Initial", "Error"}
  PROVE  LET t == CloseStream(s, final)
         IN  /\ Sound(t) /\ ~IsStarted(t) /\ Evolves(s, t)
             /\ t.causes = s.causes /\ t.pipeline = s.pipeline
<1> DEFINE shut == IF s.stream = 0
                     THEN s.rpcs
                     ELSE [s.rpcs EXCEPT ![s.stream].phase = "closed"]
           t == CloseStream(s, final)
<1>1. /\ s \in RemoteStoreType /\ s.rpcs \in Seq(RpcType)
      /\ s.closeCount \in Nat
  BY DEF StoreOK, RemoteStoreType
<1>2. t = [s EXCEPT !.idle = FALSE, !.backoff = FALSE,
                    !.closeCount = s.closeCount + 1, !.rpcs = shut,
                    !.stream = 0, !.state = final]
  BY <1>1 DEF CloseStream, RemoteStoreType
<1>3. DOMAIN shut = DOMAIN s.rpcs
  BY <1>1
<1>4. \A n \in DOMAIN s.rpcs :
        shut[n].phase # "closed" => shut[n].cc <= s.closeCount
  <2> SUFFICES ASSUME NEW n \in DOMAIN s.rpcs, shut[n].phase # "closed"
               PROVE  shut[n].cc <= s.closeCount
    OBVIOUS
  <2>1. s.rpcs[n] \in RpcType
    BY <1>1, ElementOfSeq, LenProperties
  <2>2. shut[n] = s.rpcs[n]
    BY <2>1 DEF RpcType
  <2> QED BY <2>2 DEF Past
<1>5. \A n \in DOMAIN s.rpcs : s.rpcs[n].cc \in Nat /\ shut[n].cc = s.rpcs[n].cc
  <2> SUFFICES ASSUME NEW n \in DOMAIN s.rpcs
               PROVE  s.rpcs[n].cc \in Nat /\ shut[n].cc = s.rpcs[n].cc
    OBVIOUS
  <2>1. s.rpcs[n] \in RpcType
    BY <1>1, ElementOfSeq, LenProperties
  <2> QED BY <2>1 DEF RpcType
<1> HIDE DEF shut
<1>6. /\ t.rpcs = shut /\ t.closeCount = s.closeCount + 1
      /\ t.state = final /\ ~t.backoff
      /\ t.causes = s.causes /\ t.pipeline = s.pipeline
  BY <1>1, <1>2 DEF RemoteStoreType
<1> HIDE DEF t
<1>7. \A n \in DOMAIN shut :
        shut[n].phase # "closed" => shut[n].cc <= t.closeCount
                                    /\ shut[n].cc # t.closeCount
  BY <1>1, <1>3, <1>4, <1>5, <1>6
<1>8. Sound(t)
  BY <1>6, <1>7 DEF Sound
<1>9. ~IsStarted(t) /\ Evolves(s, t)
  BY <1>1, <1>6 DEF IsStarted, IsOpen, UnderWay, Evolves
<1> QED BY <1>6, <1>8, <1>9 DEF t

(* startWriteStream leaves a stream that is up if it is needed.            *)
LEMMA StartIfNeededKeeps ==
  ASSUME NEW s, StoreOK(s), Sound(s)
  PROVE  LET t == StartIfNeeded(s)
         IN  /\ Sound(t) /\ Evolves(s, t)
             /\ t.causes = s.causes /\ t.pipeline = s.pipeline
             /\ CanUseNetwork(s) /\ s.pipeline # <<>> => IsStarted(t)
             /\ ~CanUseNetwork(s) => t = s
<1>1. CASE ShouldStartWriteStream(s)
  <2>1. ~s.backoff
    BY <1>1 DEF ShouldStartWriteStream, Sound, IsStarted
  <2> QED BY <1>1, <2>1, SoundIsPast, StartStreamKeeps
          DEF StartIfNeeded, ShouldStartWriteStream
<1>2. CASE ~ShouldStartWriteStream(s)
  <2>1. Evolves(s, s)
    BY EvolvesBasics DEF Alike
  <2> QED BY <1>2, <2>1 DEF StartIfNeeded, ShouldStartWriteStream
<1> QED BY <1>1, <1>2

(* inhibitBackoff is harmless on a stream that is not started.             *)
LEMMA InhibitBackoffKeeps ==
  ASSUME NEW s, StoreOK(s), Sound(s), ~IsStarted(s)
  PROVE  LET t == InhibitBackoff(s)
         IN  /\ Sound(t) /\ Evolves(s, t) /\ ~IsStarted(t)
             /\ t.causes = s.causes /\ t.pipeline = s.pipeline
BY DEF InhibitBackoff, Sound, Evolves, IsStarted, IsOpen, UnderWay, StoreOK,
       RemoteStoreType

(* addToWritePipeline leaves the stream alone.                             *)
LEMMA AddToWritePipelineKeeps ==
  ASSUME NEW s, StoreOK(s), Sound(s), NEW bs \in Seq(BatchIds)
  PROVE  LET t == AddToWritePipeline(s, bs)
         IN  Sound(t) /\ Alike(s, t)
<1> DEFINE added == [s EXCEPT !.pipeline = @ \o bs]
<1>1. StoreOK(added) /\ Sound(added) /\ Alike(s, added)
  <2>1. s.pipeline \o bs \in Seq(BatchIds)
    BY ConcatProperties DEF StoreOK, RemoteStoreType
  <2> QED BY <2>1 DEF StoreOK, RemoteStoreType, Sound, Alike, IsStarted, IsOpen, UnderWay
<1>2. bs \in Seq(Nat)
  BY SeqMonotonic DEF BatchIds
<1>3. AddToWritePipeline(s, bs) \in {added, Send(added, bs)}
  BY DEF AddToWritePipeline
<1> HIDE DEF added
<1> QED BY <1>1, <1>2, <1>3, SendKeeps DEF Alike

(* The network is off: no stream, nothing in the pipeline.                 *)
Quiet(s) == ~CanUseNetwork(s) => s.pipeline = <<>> /\ ~IsStarted(s)

(* fillWritePipeline leaves a stream that follows the pipeline.            *)
LEMMA FillWritePipelineKeeps ==
  ASSUME NEW s, StoreOK(s), Sound(s), Quiet(s), NEW q \in Seq(BatchIds)
  PROVE  LET t == FillWritePipeline(s, q)
         IN  Sound(t) /\ Evolves(s, t) /\ Follows(t) /\ t.causes = s.causes
<1> DEFINE filled == AddToWritePipeline(s, NextBatches(s, q))
           idle == MarkIdle(filled)
           t == FillWritePipeline(s, q)
<1>1. StoreOK(filled) /\ Sound(filled) /\ Alike(s, filled)
  BY NextBatchesType, AddToWritePipelineOK, AddToWritePipelineKeeps
<1>2. StoreOK(idle) /\ Sound(idle) /\ Alike(s, idle)
  <2> HIDE DEF filled
  <2> QED BY <1>1 DEF MarkIdle, StoreOK, RemoteStoreType, Sound, Alike,
                      IsStarted, IsOpen, UnderWay
<1>3. PICK w \in {s, filled, idle} :
        t = StartIfNeeded(w) /\ (CanUseNetwork(s) \/ w = s)
  BY DEF FillWritePipeline, CanAddToWritePipeline
<1>4. StoreOK(w) /\ Sound(w) /\ Alike(s, w)
  <2> HIDE DEF filled, idle
  <2> QED BY <1>1, <1>2 DEF Alike
<1>5. /\ Sound(t) /\ Evolves(w, t) /\ StoreOK(t)
      /\ t.causes = w.causes /\ t.pipeline = w.pipeline
      /\ CanUseNetwork(w) /\ w.pipeline # <<>> => IsStarted(t)
      /\ ~CanUseNetwork(w) => t = w
  <2> HIDE DEF t
  <2> QED BY <1>3, <1>4, StartIfNeededKeeps, StartIfNeededOK
<1> HIDE DEF t, filled, idle
<1>6. Evolves(s, t)
  BY <1>4, <1>5, EvolvesBasics
<1>7. Follows(t)
  <2>1. CASE CanUseNetwork(s)
    BY <2>1, <1>4, <1>5 DEF Follows, CanUseNetwork, Alike
  <2>2. CASE ~CanUseNetwork(s)
    BY <2>2, <1>3, <1>5 DEF Follows, CanUseNetwork, Quiet
  <2> QED BY <2>1, <2>2
<1> QED BY <1>4, <1>5, <1>6, <1>7 DEF Alike, t

(* disableNetworkInternal, once there is a cause, leaves no stream and an  *)
(* empty pipeline.                                                         *)
LEMMA DisableNetworkInternalKeeps ==
  ASSUME NEW s, StoreOK(s), Sound(s), ~CanUseNetwork(s)
  PROVE  LET t == DisableNetworkInternal(s)
         IN  /\ Sound(t) /\ Evolves(s, t) /\ ~IsStarted(t)
             /\ t.causes = s.causes /\ t.pipeline = <<>>
<1> DEFINE closed == CloseStream(s, "Initial")
           stopped == IF IsStarted(s) THEN StartIfNeeded(closed) ELSE s
<1>1. StoreOK(closed) /\ Sound(closed) /\ ~IsStarted(closed)
      /\ Evolves(s, closed) /\ closed.causes = s.causes
  BY CloseStreamOK, CloseStreamKeeps, SoundIsPast DEF StreamStates
<1>2. StartIfNeeded(closed) = closed
  <2> HIDE DEF closed
  <2> QED BY <1>1 DEF StartIfNeeded, ShouldStartWriteStream, CanUseNetwork
<1>3. Evolves(s, s)
  BY EvolvesBasics DEF Alike
<1>4. StoreOK(stopped) /\ Sound(stopped) /\ ~IsStarted(stopped)
      /\ Evolves(s, stopped) /\ stopped.causes = s.causes
  <2> HIDE DEF closed
  <2> QED BY <1>1, <1>2, <1>3
<1>5. DisableNetworkInternal(s) = [stopped EXCEPT !.pipeline = <<>>]
  BY DEF DisableNetworkInternal
<1> HIDE DEF stopped
<1> QED BY <1>4, <1>5 DEF StoreOK, RemoteStoreType, Sound, Evolves, IsStarted,
                          IsOpen, UnderWay

(* A change of the causes alone.                                           *)
LEMMA CausesKeep ==
  ASSUME NEW s, StoreOK(s), NEW c
  PROVE  LET t == [s EXCEPT !.causes = c]
         IN  /\ Sound(s) => Sound(t)
             /\ Evolves(s, t) /\ (IsStarted(t) <=> IsStarted(s))
             /\ t.causes = c /\ t.pipeline = s.pipeline
BY DEF StoreOK, RemoteStoreType, Sound, Evolves, IsStarted, IsOpen, UnderWay

(* So does disableNetworkUntilRecovery, and IndexedDbFailed is noted.      *)
LEMMA DisableNetworkUntilRecoveryKeeps ==
  ASSUME NEW s, StoreOK(s), Sound(s)
  PROVE  LET t == DisableNetworkUntilRecovery(s)
         IN  /\ Sound(t) /\ Evolves(s, t) /\ Follows(t)
             /\ "IndexedDbFailed" \in t.causes
<1> DEFINE c == s.causes \union {"IndexedDbFailed"}
           off == [s EXCEPT !.causes = c]
           t == DisableNetworkInternal(off)
<1>1. StoreOK(off)
  BY CausesOK DEF OfflineCauses
<1>2. Sound(off) /\ Evolves(s, off) /\ off.causes = c
  <2> HIDE DEF c
  <2> QED BY CausesKeep
<1>3. ~CanUseNetwork(off)
  BY <1>2 DEF CanUseNetwork
<1> HIDE DEF off
<1>4. /\ Sound(t) /\ Evolves(off, t) /\ ~IsStarted(t)
      /\ t.causes = c /\ t.pipeline = <<>> /\ StoreOK(t)
  BY <1>1, <1>2, <1>3, DisableNetworkInternalKeeps, DisableNetworkInternalOK
<1>5. Evolves(s, t)
  BY <1>1, <1>2, <1>4, EvolvesBasics
<1>6. Follows(t)
  BY <1>4 DEF Follows, CanUseNetwork
<1>7. DisableNetworkUntilRecovery(s) = t
  BY DEF DisableNetworkUntilRecovery, off, c
<1> QED BY <1>4, <1>5, <1>6, <1>7

----------------------------------------------------------------------------
(* The AsyncQueue                                                          *)

(* Where the elements of a queue go when it grows or shrinks.              *)
LEMMA QueueSteps ==
  ASSUME NEW queue \in Seq(TaskType)
  PROVE  /\ DOMAIN queue = 1 .. Len(queue) /\ Len(queue) \in Nat
         /\ \A t \in TaskType :
              /\ DOMAIN Append(queue, t) = 1 .. Len(queue) + 1
              /\ \A i \in DOMAIN queue : Append(queue, t)[i] = queue[i]
              /\ Append(queue, t)[Len(queue) + 1] = t
         /\ queue # <<>> =>
              /\ Head(queue) = queue[1] /\ 1 \in DOMAIN queue
              /\ \A i \in DOMAIN Tail(queue) :
                   i + 1 \in DOMAIN queue /\ Tail(queue)[i] = queue[i + 1]
BY AppendProperties, HeadTailProperties, LenProperties

(* Enqueueing a sound callback keeps the queue sound.                      *)
LEMMA CallbacksAppend ==
  ASSUME NEW s, NEW queue \in Seq(TaskType), CallbacksSound(s, queue),
         NEW t \in TaskType,
         t.kind \in StreamKinds => /\ t.cc <= s.closeCount
                                   /\ t.cc = s.closeCount => UnderWay(s)
  PROVE  CallbacksSound(s, Append(queue, t))
BY QueueSteps DEF CallbacksSound

(* So does running a task.                                                 *)
LEMMA CallbacksTail ==
  ASSUME NEW s, NEW queue \in Seq(TaskType), queue # <<>>,
         CallbacksSound(s, queue)
  PROVE  CallbacksSound(s, Tail(queue))
BY QueueSteps DEF CallbacksSound

(* What the queue does to OneRecovery.                                     *)
LEMMA RecoveryAppend ==
  ASSUME NEW s, NEW ops \in Seq(TaskType), NEW queue \in Seq(TaskType),
         OneRecovery(s, ops, queue),
         NEW t \in TaskType, t.kind \notin {"acknowledge", "reject", "probe"}
  PROVE  OneRecovery(s, ops, Append(queue, t))
<1> DEFINE longer == Append(queue, t)
<1>1. \A i \in DOMAIN longer : RecoversIn(longer, i) =>
                                 i \in DOMAIN queue /\ RecoversIn(queue, i)
  BY QueueSteps DEF RecoversIn
<1> HIDE DEF longer
<1> QED BY <1>1 DEF OneRecovery, longer

(* Running a task leaves at most one recovery.                             *)
LEMMA RecoveryTail ==
  ASSUME NEW s, NEW ops \in Seq(TaskType), NEW queue \in Seq(TaskType),
         queue # <<>>, OneRecovery(s, ops, queue)
  PROVE  OneRecovery(s, ops, Tail(queue))
<1> DEFINE shorter == Tail(queue)
<1>1. \A i \in DOMAIN shorter :
        RecoversIn(shorter, i) => /\ i + 1 \in DOMAIN queue
                                  /\ RecoversIn(queue, i + 1)
  BY QueueSteps DEF RecoversIn
<1>2. DOMAIN shorter \subseteq Nat
  BY HeadTailProperties, QueueSteps, LenProperties
<1> HIDE DEF shorter
<1>3. \A i \in DOMAIN shorter :
        RecoversIn(shorter, i) =>
          /\ "IndexedDbFailed" \in s.causes
          /\ \A j \in DOMAIN shorter : RecoversIn(shorter, j) => j = i
  BY <1>1, <1>2 DEF OneRecovery
<1>4. \A i \in DOMAIN ops :
        RecoversIn(ops, i) =>
          /\ "IndexedDbFailed" \in s.causes
          /\ \A j \in DOMAIN ops : RecoversIn(ops, j) => j = i
          /\ \A j \in DOMAIN shorter : ~RecoversIn(shorter, j)
  BY <1>1 DEF OneRecovery
<1> QED BY <1>3, <1>4 DEF OneRecovery, shorter

(* No operation recovers while IndexedDB is believed to work.              *)
LEMMA NoRecovery ==
  ASSUME NEW s, NEW ops, NEW queue
  PROVE  "IndexedDbFailed" \notin s.causes /\ OneRecovery(s, ops, queue)
         <=> /\ "IndexedDbFailed" \notin s.causes
             /\ \A i \in DOMAIN ops : ~RecoversIn(ops, i)
             /\ \A i \in DOMAIN queue : ~RecoversIn(queue, i)
BY DEF OneRecovery

(* The first recovery after an outage begins.                              *)
LEMMA RecoveryBegins ==
  ASSUME NEW s, NEW ops \in Seq(TaskType), NEW queue \in Seq(TaskType),
         \A i \in DOMAIN ops : ~RecoversIn(ops, i),
         \A i \in DOMAIN queue : ~RecoversIn(queue, i),
         "IndexedDbFailed" \in s.causes, NEW t \in TaskType
  PROVE  OneRecovery(s, ops, Append(queue, t))
<1> DEFINE longer == Append(queue, t)
<1>1. \A i \in DOMAIN longer : RecoversIn(longer, i) => i = Len(queue) + 1
  BY QueueSteps DEF RecoversIn
<1> HIDE DEF longer
<1> QED BY <1>1 DEF OneRecovery, longer

(* A retryable operation moves from the queue to the end of the list.      *)
LEMMA RecoveryMoves ==
  ASSUME NEW s, NEW ops \in Seq(TaskType), NEW queue \in Seq(TaskType),
         queue # <<>>, OneRecovery(s, ops, queue)
  PROVE  OneRecovery(s, Append(ops, Head(queue)), Tail(queue))
<1> DEFINE longer == Append(ops, Head(queue))
           shorter == Tail(queue)
<1>1. Head(queue) \in TaskType
  BY HeadTailProperties
<1>2. \A i \in DOMAIN shorter :
        RecoversIn(shorter, i) => /\ i \in Nat /\ i + 1 # 1
                                  /\ i + 1 \in DOMAIN queue
                                  /\ RecoversIn(queue, i + 1)
  <2>1. DOMAIN shorter \subseteq Nat \ {0}
    BY HeadTailProperties, QueueSteps, LenProperties
  <2> QED BY <2>1, QueueSteps DEF RecoversIn
<1>3. \A i \in DOMAIN longer :
        RecoversIn(longer, i) =>
          \/ i \in DOMAIN ops /\ RecoversIn(ops, i)
          \/ i = Len(ops) + 1 /\ 1 \in DOMAIN queue /\ RecoversIn(queue, 1)
  <2>1. DOMAIN longer = 1 .. Len(ops) + 1 /\ DOMAIN ops = 1 .. Len(ops)
        /\ Len(ops) \in Nat
        /\ longer[Len(ops) + 1] = queue[1] /\ 1 \in DOMAIN queue
        /\ \A i \in DOMAIN ops : longer[i] = ops[i]
    BY <1>1, QueueSteps
  <2> HIDE DEF longer
  <2> QED BY <2>1 DEF RecoversIn
<1> HIDE DEF longer, shorter
<1>4. \A i \in DOMAIN longer :
        RecoversIn(longer, i) =>
          /\ "IndexedDbFailed" \in s.causes
          /\ \A j \in DOMAIN longer : RecoversIn(longer, j) => j = i
          /\ \A j \in DOMAIN shorter : ~RecoversIn(shorter, j)
  BY <1>2, <1>3 DEF OneRecovery
<1>5. \A i \in DOMAIN shorter :
        RecoversIn(shorter, i) =>
          /\ "IndexedDbFailed" \in s.causes
          /\ \A j \in DOMAIN shorter : RecoversIn(shorter, j) => j = i
  BY <1>2 DEF OneRecovery
<1> QED BY <1>4, <1>5 DEF OneRecovery, longer, shorter

(* An operation leaves the list; if it was a recovery, none is left.       *)
LEMMA RecoveryEnds ==
  ASSUME NEW s, NEW ops \in Seq(TaskType), ops # <<>>,
         NEW queue \in Seq(TaskType), OneRecovery(s, ops, queue)
  PROVE  /\ OneRecovery(s, Tail(ops), queue)
         /\ RecoversIn(ops, 1) =>
              /\ "IndexedDbFailed" \in s.causes
              /\ \A i \in DOMAIN Tail(ops) : ~RecoversIn(Tail(ops), i)
              /\ \A i \in DOMAIN queue : ~RecoversIn(queue, i)
<1> DEFINE shorter == Tail(ops)
<1>1. \A i \in DOMAIN shorter :
        RecoversIn(shorter, i) => /\ i \in Nat /\ i + 1 # 1
                                  /\ i + 1 \in DOMAIN ops
                                  /\ RecoversIn(ops, i + 1)
  <2>1. DOMAIN shorter \subseteq Nat \ {0}
    BY HeadTailProperties, QueueSteps, LenProperties
  <2> QED BY <2>1, QueueSteps DEF RecoversIn
<1>2. 1 \in DOMAIN ops
  BY QueueSteps
<1> HIDE DEF shorter
<1>3. \A i \in DOMAIN shorter :
        RecoversIn(shorter, i) =>
          /\ "IndexedDbFailed" \in s.causes
          /\ \A j \in DOMAIN shorter : RecoversIn(shorter, j) => j = i
          /\ \A j \in DOMAIN queue : ~RecoversIn(queue, j)
  BY <1>1 DEF OneRecovery
<1>4. OneRecovery(s, shorter, queue)
  BY <1>3 DEF OneRecovery
<1>5. ASSUME RecoversIn(ops, 1)
      PROVE  /\ "IndexedDbFailed" \in s.causes
             /\ \A i \in DOMAIN shorter : ~RecoversIn(shorter, i)
             /\ \A i \in DOMAIN queue : ~RecoversIn(queue, i)
  BY <1>1, <1>2, <1>5 DEF OneRecovery
<1> QED BY <1>4, <1>5 DEF shorter

----------------------------------------------------------------------------
(* What the handlers are made of                                           *)

(* The operation that a failed handler leaves behind.                      *)
LEMMA OutageKeeps ==
  ASSUME NEW s, StoreOK(s), Sound(s), s.causes = {},
         NEW ops \in Seq(TaskType), NEW rest \in Seq(TaskType),
         CallbacksSound(s, rest), OneRecovery(s, ops, rest),
         NEW kind \in OpKinds, NEW b \in Nat
  PROVE  NetworkInv(DisableNetworkUntilRecovery(s), ops,
                    Append(rest, Op(kind, b)))
<1> DEFINE t == DisableNetworkUntilRecovery(s)
<1>1. /\ Sound(t) /\ Evolves(s, t) /\ Follows(t) /\ StoreOK(t)
      /\ "IndexedDbFailed" \in t.causes
  BY DisableNetworkUntilRecoveryKeeps, DisableNetworkUntilRecoveryOK
<1> HIDE DEF t
<1>2. Op(kind, b) \in TaskType /\ Op(kind, b).kind \notin StreamKinds
  BY OpOK DEF Op, OpKinds, StreamKinds
<1>3. CallbacksSound(t, Append(rest, Op(kind, b)))
  BY <1>1, <1>2, CallbacksEvolve, CallbacksAppend
<1>4. OneRecovery(t, ops, Append(rest, Op(kind, b)))
  BY <1>1, <1>2, NoRecovery, RecoveryBegins
<1> QED BY <1>1, <1>3, <1>4 DEF NetworkInv, t

(* OneRecovery asks of the store only that IndexedDbFailed stays noted.    *)
LEMMA OneRecoveryCauses ==
  ASSUME NEW s, NEW t, NEW ops, NEW queue, OneRecovery(s, ops, queue),
         "IndexedDbFailed" \in s.causes => "IndexedDbFailed" \in t.causes
  PROVE  OneRecovery(t, ops, queue)
BY DEF OneRecovery

(* fillWritePipeline as a step establishes the invariant from a store that *)
(* is sound and, while offline, quiet.                                     *)
LEMMA FillKeeps ==
  ASSUME NEW s, StoreOK(s), Sound(s), Quiet(s),
         NEW q \in Seq(BatchIds), NEW ops \in Seq(TaskType),
         NEW rest \in Seq(TaskType), NEW spent,
         CallbacksSound(s, rest), OneRecovery(s, ops, rest),
         Fill(s, q, rest, spent)
  PROVE  NetworkInv(rs', ops, tasks')
<1>1. CASE rs' = FillWritePipeline(s, q) /\ tasks' = rest
  <2> DEFINE t == FillWritePipeline(s, q)
  <2>1. /\ Sound(t) /\ Evolves(s, t) /\ Follows(t) /\ StoreOK(t)
        /\ t.causes = s.causes
    BY FillWritePipelineKeeps, FillWritePipelineOK
  <2> HIDE DEF t
  <2>2. CallbacksSound(t, rest)
    BY <2>1, CallbacksEvolve
  <2>3. OneRecovery(t, ops, rest)
    BY <2>1, OneRecoveryCauses
  <2>4. NetworkInv(t, ops, rest)
    BY <2>1, <2>2, <2>3 DEF NetworkInv
  <2> QED BY <1>1, <2>4 DEF t
<1>2. CASE /\ CanAddToWritePipeline(s)
           /\ \E k \in 0 .. Least(MaxPending - Len(s.pipeline) - 1,
                                  Len(NextBatches(s, q))) :
                rs' = DisableNetworkUntilRecovery(
                  AddToWritePipeline(s, SubSeq(NextBatches(s, q), 1, k)))
           /\ tasks' = Append(rest, Op("probe", 0))
  <2>1. PICK k \in 0 .. Least(MaxPending - Len(s.pipeline) - 1,
                              Len(NextBatches(s, q))) :
          rs' = DisableNetworkUntilRecovery(
                  AddToWritePipeline(s, SubSeq(NextBatches(s, q), 1, k)))
    BY <1>2
  <2> DEFINE w == AddToWritePipeline(s, SubSeq(NextBatches(s, q), 1, k))
  <2>2. /\ NextBatches(s, q) \in Seq(BatchIds)
        /\ Len(NextBatches(s, q)) \in Nat /\ Len(s.pipeline) \in Nat
    BY NextBatchesType, LenProperties DEF StoreOK, RemoteStoreType
  <2>3. k \in Int /\ k <= Len(NextBatches(s, q))
    BY <2>1, <2>2, PendingAssumption DEF Least
  <2>4. SubSeq(NextBatches(s, q), 1, k) \in Seq(BatchIds)
    BY <2>2, <2>3, SubSeqType
  <2>5. StoreOK(w) /\ Sound(w) /\ Alike(s, w)
    BY <2>4, AddToWritePipelineOK, AddToWritePipelineKeeps
  <2>6. rs' = DisableNetworkUntilRecovery(w)
    BY <2>1
  <2> HIDE DEF w
  <2>7. Evolves(s, w) /\ w.causes = {} /\ s.causes = {}
    BY <1>2, <2>5, EvolvesBasics
       DEF CanAddToWritePipeline, CanUseNetwork, Alike
  <2>8. CallbacksSound(w, rest) /\ OneRecovery(w, ops, rest)
    BY <2>5, <2>7, CallbacksEvolve, OneRecoveryCauses
  <2>9. NetworkInv(DisableNetworkUntilRecovery(w), ops,
                   Append(rest, Op("probe", 0)))
    BY <2>5, <2>7, <2>8, OutageKeeps DEF OpKinds
  <2> QED BY <1>2, <2>6, <2>9
<1> QED BY <1>1, <1>2 DEF Fill

(* So does enableNetworkInternal from a stopped stream.                    *)
LEMMA EnableNetworkInternalKeeps ==
  ASSUME NEW s, StoreOK(s), Sound(s), ~IsStarted(s), s.pipeline = <<>>,
         NEW q \in Seq(BatchIds), NEW ops \in Seq(TaskType),
         NEW rest \in Seq(TaskType), NEW spent,
         CallbacksSound(s, rest), OneRecovery(s, ops, rest),
         EnableNetworkInternal(s, q, rest, spent)
  PROVE  NetworkInv(rs', ops, tasks')
<1>1. CASE CanUseNetwork(s)
  <2> DEFINE t == InhibitBackoff(s)
  <2>1. /\ StoreOK(t) /\ Sound(t) /\ Evolves(s, t) /\ ~IsStarted(t)
        /\ t.causes = s.causes /\ t.pipeline = <<>>
    BY ChangedOK, InhibitBackoffKeeps
  <2>2. Fill(t, q, rest, spent)
    BY <1>1 DEF EnableNetworkInternal
  <2> HIDE DEF t
  <2>3. CallbacksSound(t, rest) /\ OneRecovery(t, ops, rest) /\ Quiet(t)
    BY <2>1, CallbacksEvolve, OneRecoveryCauses DEF Quiet
  <2> QED BY <2>1, <2>2, <2>3, FillKeeps
<1>2. CASE ~CanUseNetwork(s)
  <2>1. NetworkInv(s, ops, rest)
    BY <1>2 DEF NetworkInv, Follows
  <2> QED BY <1>2, <2>1 DEF EnableNetworkInternal
<1> QED BY <1>1, <1>2

(* Going offline for a reason.                                             *)
LEMMA GoingOffline ==
  ASSUME TypeOK, OneStreamOneRecovery, NEW c \in SUBSET OfflineCauses, c # {},
         NEW queue \in Seq(TaskType), CallbacksSound(rs, queue)
  PROVE  LET off == DisableNetworkInternal([rs EXCEPT !.causes = c])
         IN  /\ StoreOK(off) /\ Sound(off) /\ Follows(off)
             /\ ~IsStarted(off) /\ off.pipeline = <<>> /\ off.causes = c
             /\ CallbacksSound(off, queue)
<1> DEFINE w == [rs EXCEPT !.causes = c]
           off == DisableNetworkInternal(w)
<1>1. StoreOK(rs) /\ Sound(rs)
  BY StoreTyped DEF OneStreamOneRecovery, NetworkInv, TypeOK
<1>2. StoreOK(w) /\ Sound(w) /\ Evolves(rs, w) /\ w.causes = c
  BY <1>1, ChangedOK, CausesKeep
<1> HIDE DEF w
<1>3. /\ StoreOK(off) /\ Sound(off) /\ Evolves(w, off)
      /\ ~IsStarted(off) /\ off.pipeline = <<>> /\ off.causes = c
  BY <1>2, DisableNetworkInternalKeeps, DisableNetworkInternalOK
     DEF CanUseNetwork
<1> HIDE DEF off
<1>4. CallbacksSound(off, queue)
  <2>1. Evolves(rs, off)
    BY <1>1, <1>2, <1>3, EvolvesBasics
  <2> QED BY <1>1, <1>3, <2>1, CallbacksEvolve
<1>5. Follows(off)
  BY <1>3 DEF Follows, CanUseNetwork
<1> QED BY <1>3, <1>4, <1>5 DEF off, w

(* Coming back online, from a store that is offline.                       *)
LEMMA ComingBack ==
  ASSUME NEW off, StoreOK(off), Sound(off), ~IsStarted(off),
         off.pipeline = <<>>, NEW c \in SUBSET OfflineCauses,
         NEW rest \in Seq(TaskType), CallbacksSound(off, rest)
  PROVE  LET on == [off EXCEPT !.causes = c]
         IN  /\ StoreOK(on) /\ Sound(on) /\ ~IsStarted(on)
             /\ on.pipeline = <<>> /\ on.causes = c
             /\ CallbacksSound(on, rest)
BY ChangedOK, CausesKeep, CallbacksEvolve

----------------------------------------------------------------------------
(* The steps                                                               *)

(* The parts of the invariant, for citing.                                 *)
LEMMA InvParts ==
  ASSUME TypeOK, OneStreamOneRecovery
  PROVE  /\ StoreOK(rs) /\ Sound(rs) /\ Follows(rs) /\ Quiet(rs)
         /\ CallbacksSound(rs, tasks) /\ OneRecovery(rs, retryOps, tasks)
         /\ tasks \in Seq(TaskType) /\ retryOps \in Seq(TaskType)
         /\ OwnQueue \in Seq(BatchIds) /\ rs.causes \subseteq OfflineCauses
BY StoreTyped, QueuesOK, ChangedOK
   DEF TypeOK, OneStreamOneRecovery, NetworkInv, Follows, Quiet

(* A live callback means that the stream is started and the network on.    *)
LEMMA LiveCallback ==
  ASSUME TypeOK, OneStreamOneRecovery, tasks # <<>>,
         Head(tasks).kind \in StreamKinds, IsLive(Head(tasks))
  PROVE  /\ UnderWay(rs) /\ ~rs.backoff
         /\ CanUseNetwork(rs) /\ rs.causes = {}
<1>1. UnderWay(rs)
  BY InvParts, QueueSteps DEF CallbacksSound, IsLive
<1>2. IsStarted(rs) /\ ~rs.backoff
  BY <1>1, InvParts DEF UnderWay, IsStarted, IsOpen, Sound
<1> QED BY <1>1, <1>2, InvParts DEF Follows, CanUseNetwork

(* A step that leaves store and queue alone keeps the invariant.           *)
LEMMA SameStore ==
  ASSUME TypeOK, OneStreamOneRecovery, UNCHANGED <<rs, retryOps, tasks>>
  PROVE  OneStreamOneRecovery'
BY DEF OneStreamOneRecovery, NetworkInv, Follows, Sound, CallbacksSound,
       OneRecovery, RecoversIn, IsStarted, IsOpen, UnderWay, CanUseNetwork

(* So does the death of the AsyncQueue.                                    *)
LEMMA QueueFailsKeeps ==
  ASSUME TypeOK, OneStreamOneRecovery, tasks # <<>>, QueueFails
  PROVE  OneStreamOneRecovery'
<1>1. NetworkInv(rs, retryOps, Tail(tasks))
  BY InvParts, CallbacksTail, RecoveryTail DEF NetworkInv
<1> QED BY <1>1 DEF QueueFails, OneStreamOneRecovery

(* The end of onMutationResult and of handleWriteError keeps it.           *)
LEMMA DecideAndRefillKeeps ==
  ASSUME TypeOK, OneStreamOneRecovery, tasks # <<>>,
         NEW kind \in {"acknowledge", "reject"}, NEW b \in BatchIds,
         NEW s, StoreOK(s), Sound(s), Evolves(rs, s), s.causes = {},
         rs.causes = {}, DecideAndRefill(kind, b, s)
  PROVE  OneStreamOneRecovery'
<1>1. Tail(tasks) \in Seq(TaskType) /\ local \in LocalType
  BY HeadTailProperties DEF TypeOK
<1>2. CallbacksSound(s, Tail(tasks)) /\ OneRecovery(s, retryOps, Tail(tasks))
  <2>1. CallbacksSound(s, tasks)
    BY InvParts, CallbacksEvolve
  <2>2. OneRecovery(s, retryOps, tasks)
    BY InvParts, OneRecoveryCauses
  <2> QED BY <2>1, <2>2, InvParts, CallbacksTail, RecoveryTail
<1>3. CASE /\ Fill(s, RemoveBatch(b).queue[local.user], Tail(tasks), used)
           /\ retryOps' = retryOps
  <2>1. Quiet(s)
    BY DEF Quiet, CanUseNetwork
  <2>2. RemoveBatch(b).queue[local.user] \in Seq(BatchIds)
    BY <1>1, QueuesOK
  <2>3. NetworkInv(rs', retryOps, tasks')
    BY <1>1, <1>2, <1>3, <2>1, <2>2, InvParts, FillKeeps
  <2> QED BY <1>3, <2>3 DEF OneStreamOneRecovery
<1>4. CASE QueueFails
  BY <1>4, QueueFailsKeeps
<1>5. CASE /\ rs' = DisableNetworkUntilRecovery(s)
           /\ tasks' = Append(Tail(tasks), Op(kind, b))
           /\ retryOps' = retryOps
  <2>1. NetworkInv(DisableNetworkUntilRecovery(s), retryOps,
                   Append(Tail(tasks), Op(kind, b)))
    BY <1>1, <1>2, InvParts, OutageKeeps DEF OpKinds, BatchIds
  <2> QED BY <1>5, <2>1 DEF OneStreamOneRecovery
<1> QED BY <1>3, <1>4, <1>5 DEF DecideAndRefill

(* Every call of the application keeps it, enableNetwork() only because it *)
(* is not called on an enabled network.                                    *)
LEMMA ApplicationKeeps ==
  ASSUME TypeOK, OneStreamOneRecovery, "reenable" \notin Faults, Application
  PROVE  OneStreamOneRecovery'
<1>1. CASE Write
  <2>1. CASE \E q : Fill(rs, q, tasks, used) /\ q = Append(OwnQueue, Len(author) + 1)
    <3>1. Len(author) + 1 \in BatchIds
      BY LenProperties DEF TypeOK, BatchIds
    <3>2. Append(OwnQueue, Len(author) + 1) \in Seq(BatchIds)
      BY <3>1, InvParts, AppendProperties
    <3>3. NetworkInv(rs', retryOps, tasks')
      BY <2>1, <3>2, InvParts, FillKeeps
    <3> QED BY <1>1, <3>3 DEF Write, OneStreamOneRecovery
  <2>2. CASE UNCHANGED <<rs, tasks>>
    BY <1>1, <2>2, SameStore DEF Write
  <2> QED BY <1>1, <2>1, <2>2 DEF Write
<1>2. CASE WaitForPendingWrites
  BY <1>2, SameStore DEF WaitForPendingWrites
<1>3. CASE EnableNetwork
  <2> DEFINE on == [rs EXCEPT !.causes = @ \ {"UserDisabled"}]
  <2>1. "UserDisabled" \in rs.causes
    BY <1>3 DEF EnableNetwork
  <2>2. ~IsStarted(rs) /\ rs.pipeline = <<>>
    BY <2>1, InvParts DEF Follows, CanUseNetwork
  <2>3. /\ StoreOK(on) /\ Sound(on) /\ ~IsStarted(on) /\ on.pipeline = <<>>
        /\ on.causes = rs.causes \ {"UserDisabled"}
        /\ CallbacksSound(on, tasks)
    BY <2>2, InvParts, ComingBack
  <2>4. EnableNetworkInternal(on, OwnQueue, tasks, used)
    BY <1>3, <2>1 DEF EnableNetwork
  <2> HIDE DEF on
  <2>5. OneRecovery(on, retryOps, tasks)
    BY <2>3, InvParts, OneRecoveryCauses
  <2>6. NetworkInv(rs', retryOps, tasks')
    BY <2>3, <2>4, <2>5, InvParts, EnableNetworkInternalKeeps
  <2> QED BY <1>3, <2>6 DEF EnableNetwork, OneStreamOneRecovery
<1>4. CASE DisableNetwork \/ Terminate
  <2>1. PICK c \in {"UserDisabled", "Shutdown"} :
          rs' = DisableNetworkInternal([rs EXCEPT !.causes = @ \union {c}])
    BY <1>4 DEF DisableNetwork, Terminate
  <2>2. rs.causes \union {c} \in SUBSET OfflineCauses
    BY InvParts DEF OfflineCauses
  <2> DEFINE off == DisableNetworkInternal(
                      [rs EXCEPT !.causes = @ \union {c}])
  <2>3. /\ Sound(off) /\ Follows(off) /\ CallbacksSound(off, tasks)
        /\ off.causes = rs.causes \union {c}
    BY <2>2, InvParts, GoingOffline
  <2> HIDE DEF off
  <2>4. NetworkInv(off, retryOps, tasks)
    BY <2>3, InvParts, OneRecoveryCauses DEF NetworkInv
  <2> QED BY <1>4, <2>1, <2>4
          DEF DisableNetwork, Terminate, OneStreamOneRecovery, off
<1>5. CASE ConnectivityChange
  <2> DEFINE off == DisableNetworkInternal(
                      [rs EXCEPT !.causes = {"ConnectivityChange"}])
             on == [off EXCEPT !.causes = {}]
  <2>1. /\ StoreOK(off) /\ Sound(off) /\ ~IsStarted(off)
        /\ off.pipeline = <<>> /\ CallbacksSound(off, tasks)
    BY InvParts, GoingOffline DEF OfflineCauses
  <2>2. /\ StoreOK(on) /\ Sound(on) /\ ~IsStarted(on)
        /\ on.pipeline = <<>> /\ CallbacksSound(on, tasks)
    <3> HIDE DEF off
    <3> QED BY <2>1, InvParts, ComingBack
  <2>3. OneRecovery(on, retryOps, tasks)
    <3>1. "IndexedDbFailed" \notin rs.causes
      BY <1>5 DEF ConnectivityChange, CanUseNetwork
    <3> QED BY <3>1, InvParts, OneRecoveryCauses
  <2>4. EnableNetworkInternal(on, OwnQueue, tasks, Spend(used, "toggles"))
    BY <1>5 DEF ConnectivityChange
  <2> HIDE DEF on
  <2>5. NetworkInv(rs', retryOps, tasks')
    BY <2>2, <2>3, <2>4, InvParts, EnableNetworkInternalKeeps
  <2> QED BY <1>5, <2>5 DEF ConnectivityChange, OneStreamOneRecovery
<1>6. CASE AppCheckTokenChanged \/ \E u \in Users : AuthTokenChanged(u)
  <2>1. PICK kind \in {"auth", "appCheck"} :
          /\ tasks' = Append(tasks, Op(kind, 0))
          /\ UNCHANGED <<rs, retryOps>>
    BY <1>6 DEF AppCheckTokenChanged, AuthTokenChanged
  <2>2. /\ Op(kind, 0) \in TaskType
        /\ Op(kind, 0).kind \notin StreamKinds
        /\ Op(kind, 0).kind \notin {"acknowledge", "reject", "probe"}
    BY OpOK DEF Op, OpKinds, StreamKinds
  <2>3. NetworkInv(rs, retryOps, Append(tasks, Op(kind, 0)))
    BY <2>2, InvParts, CallbacksAppend, RecoveryAppend DEF NetworkInv
  <2> QED BY <2>1, <2>3 DEF OneStreamOneRecovery
<1>7. CASE Restart
  <2> DEFINE closed == [n \in DOMAIN rs.rpcs |->
                          [rs.rpcs[n] EXCEPT !.phase = "closed"]]
             fresh == NewRemoteStore(closed)
  <2>1. rs.rpcs \in Seq(RpcType)
    BY DEF TypeOK, RemoteStoreType
  <2>2. \A n \in DOMAIN rs.rpcs : closed[n] \in RpcType /\ closed[n].phase = "closed"
    <3> SUFFICES ASSUME NEW n \in DOMAIN rs.rpcs
                 PROVE  closed[n] \in RpcType /\ closed[n].phase = "closed"
      OBVIOUS
    <3>1. rs.rpcs[n] \in RpcType
      BY <2>1, ElementOfSeq, LenProperties
    <3> QED BY <3>1 DEF RpcType, RpcPhases
  <2>3. closed \in Seq(RpcType)
    <3>1. DOMAIN rs.rpcs = 1 .. Len(rs.rpcs) /\ Len(rs.rpcs) \in Nat
      BY <2>1, LenProperties
    <3>2. closed \in [1 .. Len(rs.rpcs) -> RpcType]
      BY <2>2, <3>1
    <3> HIDE DEF closed
    <3> QED BY <3>1, <3>2, SeqDef
  <2>4. DOMAIN closed = DOMAIN rs.rpcs
    OBVIOUS
  <2> HIDE DEF closed
  <2>5. StoreOK(fresh) /\ Sound(fresh) /\ Quiet(fresh)
    <3>1. <<>> \in Seq(BatchIds)
      BY EmptySeq
    <3> QED BY <2>2, <2>3, <2>4, <3>1
            DEF NewRemoteStore, StoreOK, RemoteStoreType, StreamStates, Sound,
                Quiet, IsStarted, IsOpen, UnderWay
  <2>6. /\ <<>> \in Seq(TaskType)
        /\ CallbacksSound(fresh, <<>>) /\ OneRecovery(fresh, <<>>, <<>>)
    BY EmptySeq DEF CallbacksSound, OneRecovery
  <2>7. local.queue[creds.user] \in Seq(BatchIds)
    BY QueuesOK DEF TypeOK
  <2>8. Fill(fresh, local.queue[creds.user], <<>>, Spend(used, "restarts"))
    BY <1>7 DEF Restart, closed
  <2> HIDE DEF fresh
  <2>9. NetworkInv(rs', <<>>, tasks')
    BY <2>5, <2>6, <2>7, <2>8, FillKeeps
  <2> QED BY <1>7, <2>9 DEF Restart, OneStreamOneRecovery
<1> QED BY <1>1, <1>2, <1>3, <1>4, <1>5, <1>6, <1>7 DEF Application

(* One attempt gets further or ends, and may report it to the queue.       *)
LEMMA AttemptKeeps ==
  ASSUME TypeOK, OneStreamOneRecovery, NEW n \in Rpcs, NEW r \in RpcType,
         r.cc = rs.rpcs[n].cc,
         r.phase # "closed" => rs.rpcs[n].phase # "closed",
         rs' = [rs EXCEPT !.rpcs[n] = r]
         \/ rs' = [[rs EXCEPT !.rpcs[n] = r] EXCEPT !.stream = n],
         retryOps' = retryOps,
         \/ tasks' = tasks
         \/ /\ rs.rpcs[n].phase # "closed"
            /\ \E kind \in StreamKinds, b \in Nat :
                 tasks' = Append(tasks, StreamTask(n, kind, b))
  PROVE  OneStreamOneRecovery'
<1> DEFINE rpcs == [rs.rpcs EXCEPT ![n] = r]
<1>1. /\ rs \in RemoteStoreType /\ rs.rpcs \in Seq(RpcType)
      /\ n \in DOMAIN rs.rpcs
  BY DEF TypeOK, RemoteStoreType, Rpcs
<1>2. /\ DOMAIN rpcs = DOMAIN rs.rpcs
      /\ \A m \in DOMAIN rs.rpcs : rpcs[m] = IF m = n THEN r ELSE rs.rpcs[m]
  BY <1>1
<1>3. [rs EXCEPT !.rpcs[n] = r] = [rs EXCEPT !.rpcs = rpcs]
  OBVIOUS
<1> HIDE DEF rpcs
<1>4. /\ rs'.rpcs = rpcs /\ rs'.backoff = rs.backoff
      /\ rs'.state = rs.state /\ rs'.closeCount = rs.closeCount
      /\ rs'.causes = rs.causes /\ rs'.pipeline = rs.pipeline
  BY <1>1, <1>3 DEF RemoteStoreType
<1>5. /\ IsStarted(rs') <=> IsStarted(rs)
      /\ UnderWay(rs') <=> UnderWay(rs)
  BY <1>4 DEF IsStarted, IsOpen, UnderWay
<1>6. Sound(rs')
  BY <1>1, <1>2, <1>4, <1>5, InvParts DEF Sound
<1>7. Follows(rs')
  BY <1>4, <1>5, InvParts DEF Follows, CanUseNetwork
<1>8. CallbacksSound(rs', tasks)
  BY <1>4, <1>5, InvParts DEF CallbacksSound
<1>9. OneRecovery(rs', retryOps, tasks)
  BY <1>4, InvParts, OneRecoveryCauses
<1>10. CASE tasks' = tasks
  BY <1>6, <1>7, <1>8, <1>9, <1>10 DEF OneStreamOneRecovery, NetworkInv
<1>11. CASE /\ rs.rpcs[n].phase # "closed"
            /\ \E kind \in StreamKinds, b \in Nat :
                 tasks' = Append(tasks, StreamTask(n, kind, b))
  <2>1. PICK kind \in StreamKinds, b \in Nat :
          tasks' = Append(tasks, StreamTask(n, kind, b))
    BY <1>11
  <2> DEFINE t == StreamTask(n, kind, b)
  <2>2. t \in TaskType /\ t.kind = kind /\ t.cc = rs.rpcs[n].cc
    BY RpcOK DEF StreamTask
  <2> HIDE DEF t
  <2>3. /\ t.cc <= rs'.closeCount
        /\ t.cc = rs'.closeCount => UnderWay(rs')
    BY <1>1, <1>4, <1>5, <1>11, <2>2, InvParts DEF Sound
  <2>4. CallbacksSound(rs', Append(tasks, t))
    BY <1>8, <2>2, <2>3, InvParts, CallbacksAppend
  <2>5. kind \notin {"acknowledge", "reject", "probe"}
    BY DEF StreamKinds
  <2>6. OneRecovery(rs', retryOps, Append(tasks, t))
    BY <1>9, <2>2, <2>5, InvParts, RecoveryAppend
  <2>7. NetworkInv(rs', retryOps, Append(tasks, t))
    BY <1>6, <1>7, <2>4, <2>6 DEF NetworkInv
  <2> QED BY <2>1, <2>7 DEF OneStreamOneRecovery, t
<1> QED BY <1>10, <1>11

(* The continuations of auth() and the backend keep it.                    *)
LEMMA AttemptsKeep ==
  ASSUME TypeOK, OneStreamOneRecovery, NEW n \in Rpcs,
         \/ TokenFetched(n) \/ StartRpc(n) \/ TokenFetchFails(n)
         \/ Backend(n) \/ OrphanCommits(n)
         \/ StreamBreaks(n, "transient") \/ StreamBreaks(n, "permanent")
  PROVE  OneStreamOneRecovery'
<1> DEFINE old == rs.rpcs[n]
           inPhase(phase) == [old EXCEPT !.phase = phase]
<1>1. old \in RpcType
  BY RpcOK
<1>2. \A phase \in RpcPhases :
        /\ inPhase(phase) \in RpcType
        /\ inPhase(phase).cc = old.cc
        /\ inPhase(phase).phase = phase
        /\ Rpc(n, phase) = [rs EXCEPT !.rpcs[n] = inPhase(phase)]
  BY <1>1 DEF RpcType, Rpc
<1>3. ASSUME Requests(n) # <<>>
      PROVE  Head(Requests(n)) \in Nat /\ Tail(Requests(n)) \in Seq(Nat)
  <2>1. Requests(n) \in Seq(Nat)
    BY <1>1 DEF RpcType, Requests
  <2> QED BY <1>3, <2>1, HeadTailProperties
<1>4. CASE TokenFetched(n)
  <2> DEFINE r == [old EXCEPT !.phase = "token", !.user = creds.user]
  <2>1. r \in RpcType /\ r.cc = old.cc /\ r.phase = "token"
    BY <1>1 DEF RpcType, RpcPhases, TypeOK
  <2> HIDE DEF r
  <2>2. /\ rs' = [rs EXCEPT !.rpcs[n] = r]
        /\ UNCHANGED <<tasks, retryOps>> /\ old.phase # "closed"
    BY <1>4 DEF TokenFetched, r
  <2> QED BY <2>1, <2>2, AttemptKeeps
<1>5. CASE StartRpc(n)
  <2>1. PICK phase \in {"connecting", "closed"} :
          \/ rs' = Rpc(n, phase)
          \/ rs' = [Rpc(n, phase) EXCEPT !.stream = n]
    BY <1>5 DEF StartRpc
  <2>2. UNCHANGED <<tasks, retryOps>> /\ old.phase # "closed"
    BY <1>5 DEF StartRpc
  <2> DEFINE r == inPhase(phase)
  <2>3. /\ r \in RpcType /\ r.cc = old.cc
        /\ Rpc(n, phase) = [rs EXCEPT !.rpcs[n] = r]
    BY <1>2, <2>1 DEF RpcPhases
  <2> HIDE DEF r
  <2>4. \/ rs' = [rs EXCEPT !.rpcs[n] = r]
        \/ rs' = [[rs EXCEPT !.rpcs[n] = r] EXCEPT !.stream = n]
    BY <2>1, <2>3
  <2> QED BY <2>2, <2>3, <2>4, AttemptKeeps
<1>6. CASE TokenFetchFails(n) \/ BackendAccepts(n)
           \/ StreamBreaks(n, "transient") \/ StreamBreaks(n, "permanent")
  <2>1. PICK phase \in {"open", "closed"} : rs' = Rpc(n, phase)
    BY <1>6 DEF TokenFetchFails, BackendAccepts, StreamBreaks
  <2>2. old.phase # "closed" /\ UNCHANGED retryOps
    BY <1>6 DEF TokenFetchFails, BackendAccepts, StreamBreaks
  <2>3. tasks' = tasks \/ \E kind \in StreamKinds, b \in Nat :
                            tasks' = Append(tasks, StreamTask(n, kind, b))
    <3>1. PICK kind \in StreamKinds : tasks' = tasks
                            \/ tasks' = Append(tasks, StreamTask(n, kind, 0))
      BY <1>6 DEF TokenFetchFails, BackendAccepts, StreamBreaks, Emit,
                  StreamKinds
    <3> QED BY <3>1
  <2> HIDE DEF inPhase
  <2> QED BY <1>2, <2>1, <2>2, <2>3, AttemptKeeps DEF RpcPhases
<1>7. CASE BackendShakesHands(n) \/ BackendCommits(n) \/ BackendRefuses(n)
  <2>1. Requests(n) # <<>> /\ old.phase # "closed" /\ UNCHANGED retryOps
    BY <1>7 DEF BackendShakesHands, BackendCommits, BackendRefuses
  <2>2. PICK r \in {[old EXCEPT !.phase = "ready", !.reqs = Tail(Requests(n))],
                    [old EXCEPT !.reqs = Tail(Requests(n))],
                    [old EXCEPT !.phase = "closed", !.reqs = <<>>]} :
          rs' = [rs EXCEPT !.rpcs[n] = r]
    BY <1>7 DEF BackendShakesHands, BackendCommits, BackendRefuses
  <2>3. r \in RpcType /\ r.cc = old.cc
    <3>1. <<>> \in Seq(Nat)
      BY EmptySeq
    <3> HIDE DEF old
    <3> QED BY <1>1, <1>3, <2>1, <2>2, <3>1 DEF RpcType, RpcPhases
  <2>4. tasks' = tasks \/ \E kind \in StreamKinds, b \in Nat :
                            tasks' = Append(tasks, StreamTask(n, kind, b))
    <3>1. PICK kind \in StreamKinds, b \in {0, Head(Requests(n))} :
            tasks' = tasks \/ tasks' = Append(tasks, StreamTask(n, kind, b))
      BY <1>7 DEF BackendShakesHands, BackendCommits, BackendRefuses, Emit,
                  StreamKinds
    <3> QED BY <1>3, <2>1, <3>1
  <2> QED BY <2>1, <2>2, <2>3, <2>4, AttemptKeeps
<1>8. CASE OrphanCommits(n)
  <2> DEFINE r == [old EXCEPT !.reqs = Tail(Requests(n))]
  <2>1. /\ Requests(n) # <<>> /\ old.phase = "closed"
        /\ UNCHANGED <<tasks, retryOps>>
    BY <1>8 DEF OrphanCommits
  <2>2. r \in RpcType /\ r.cc = old.cc /\ r.phase = "closed"
    BY <1>1, <1>3, <2>1 DEF RpcType
  <2>3. rs' = [rs EXCEPT !.rpcs[n] = r]
    BY <1>8 DEF OrphanCommits
  <2> HIDE DEF r
  <2> QED BY <2>1, <2>2, <2>3, AttemptKeeps
<1> QED BY <1>4, <1>5, <1>6, <1>7, <1>8 DEF Backend

(* The idle and backoff timers keep it.                                    *)
LEMMA StreamTimersKeep ==
  ASSUME TypeOK, OneStreamOneRecovery, IdleTimeout \/ BackoffElapsed
  PROVE  OneStreamOneRecovery'
<1>1. PICK t : /\ rs' = t /\ Sound(t) /\ StoreOK(t) /\ Evolves(rs, t)
               /\ t.causes = rs.causes /\ Follows(t)
  <2>1. CASE IdleTimeout /\ IsOpen(rs)
    <3> DEFINE closed == CloseStream(rs, "Initial")
               t == StartIfNeeded(closed)
    <3>1. /\ StoreOK(closed) /\ Sound(closed) /\ Evolves(rs, closed)
          /\ closed.causes = rs.causes
      BY InvParts, CloseStreamOK, CloseStreamKeeps, SoundIsPast
         DEF StreamStates
    <3> HIDE DEF closed
    <3>2. /\ StoreOK(t) /\ Sound(t) /\ Evolves(closed, t)
          /\ t.causes = closed.causes /\ t.pipeline = closed.pipeline
          /\ CanUseNetwork(closed) /\ closed.pipeline # <<>> => IsStarted(t)
      BY <3>1, StartIfNeededKeeps, StartIfNeededOK
    <3>3. CanUseNetwork(rs)
      BY <2>1, InvParts DEF Follows, IsStarted
    <3> HIDE DEF t
    <3>4. Follows(t) /\ Evolves(rs, t)
      BY <3>1, <3>2, <3>3, InvParts, EvolvesBasics DEF Follows, CanUseNetwork
    <3> QED BY <2>1, <3>1, <3>2, <3>4 DEF IdleTimeout, t, closed
  <2>2. CASE IdleTimeout /\ ~IsOpen(rs)
    <3> DEFINE t == [rs EXCEPT !.idle = FALSE]
    <3>1. StoreOK(t) /\ Sound(t) /\ Alike(rs, t) /\ Follows(t)
      BY InvParts DEF StoreOK, RemoteStoreType, Sound, Alike, Follows,
                      IsStarted, IsOpen, UnderWay, CanUseNetwork
    <3> HIDE DEF t
    <3>2. Evolves(rs, t) /\ t.causes = rs.causes
      BY <3>1, InvParts, EvolvesBasics DEF Alike
    <3> QED BY <2>2, <3>1, <3>2 DEF IdleTimeout, t
  <2>3. CASE BackoffElapsed
    <3> DEFINE w == [rs EXCEPT !.backoff = FALSE, !.state = "Initial"]
               t == StartStream(w)
    <3>1. ~UnderWay(rs) /\ CanUseNetwork(rs)
      <4>1. rs.state = "Backoff"
        BY <2>3, InvParts DEF BackoffElapsed, Sound
      <4> QED BY <4>1, InvParts DEF UnderWay, IsStarted, Follows
    <3>2. /\ StoreOK(w) /\ Past(w) /\ ~w.backoff /\ w.state = "Initial"
          /\ w.closeCount = rs.closeCount
          /\ w.causes = rs.causes /\ w.pipeline = rs.pipeline
      BY InvParts DEF StoreOK, RemoteStoreType, StreamStates, Sound, Past
    <3> HIDE DEF w
    <3>3. /\ StoreOK(t) /\ Sound(t) /\ IsStarted(t) /\ Evolves(w, t)
          /\ t.causes = w.causes /\ t.pipeline = w.pipeline
      BY <3>2, StartStreamKeeps, StartStreamOK
    <3> HIDE DEF t
    <3>4. Evolves(rs, t) /\ Follows(t)
      BY <3>1, <3>2, <3>3 DEF Evolves, Follows, CanUseNetwork
    <3> QED BY <2>3, <3>2, <3>3, <3>4 DEF BackoffElapsed, t, w
  <2> QED BY <2>1, <2>2, <2>3
<1>2. UNCHANGED <<tasks, retryOps>>
  BY DEF IdleTimeout, BackoffElapsed
<1>3. CallbacksSound(t, tasks) /\ OneRecovery(t, retryOps, tasks)
  BY <1>1, InvParts, CallbacksEvolve, OneRecoveryCauses
<1>4. NetworkInv(t, retryOps, tasks)
  BY <1>1, <1>3 DEF NetworkInv
<1> QED BY <1>1, <1>2, <1>4 DEF OneStreamOneRecovery

(* Every stream callback keeps it.                                         *)
LEMMA StreamCallbackKeeps ==
  ASSUME TypeOK, OneStreamOneRecovery, StreamCallback
  PROVE  OneStreamOneRecovery'
<1>1. tasks # <<>> /\ Tail(tasks) \in Seq(TaskType)
  <2>1. tasks # <<>>
    BY DEF StreamCallback, SkipStaleCallback, OnOpen, OnHandshake,
           OnMutationResult, OnStreamClose, NextTask
  <2> QED BY <2>1, InvParts, HeadTailProperties
<1>2. /\ CallbacksSound(rs, Tail(tasks))
      /\ OneRecovery(rs, retryOps, Tail(tasks))
  BY <1>1, InvParts, CallbacksTail, RecoveryTail
<1>3. ASSUME NEW t, StoreOK(t), Sound(t), Evolves(rs, t), Follows(t),
             t.causes = rs.causes, rs' = t, tasks' = Tail(tasks),
             UNCHANGED retryOps
      PROVE  OneStreamOneRecovery'
  <2>1. CallbacksSound(t, Tail(tasks)) /\ OneRecovery(t, retryOps, Tail(tasks))
    BY <1>1, <1>2, <1>3, InvParts, CallbacksEvolve, OneRecoveryCauses
  <2>2. NetworkInv(t, retryOps, Tail(tasks))
    BY <1>3, <2>1 DEF NetworkInv
  <2> QED BY <1>3, <2>2 DEF OneStreamOneRecovery
<1>4. CASE SkipStaleCallback
  <2>1. Evolves(rs, rs)
    BY InvParts, EvolvesBasics DEF Alike
  <2> QED BY <1>3, <1>4, <2>1, InvParts DEF SkipStaleCallback
<1>5. ASSUME ~SkipStaleCallback
      PROVE  UnderWay(rs) /\ ~rs.backoff /\ CanUseNetwork(rs) /\ rs.causes = {}
  <2>1. Head(tasks).kind \in StreamKinds /\ IsLive(Head(tasks))
    BY <1>5 DEF StreamCallback, OnOpen, OnHandshake, OnMutationResult,
                OnStreamClose, NextTask, StreamKinds
  <2> QED BY <1>1, <2>1, LiveCallback
<1>6. ASSUME rs.pipeline # <<>>
      PROVE  Head(rs.pipeline) \in BatchIds /\ Tail(rs.pipeline) \in Seq(BatchIds)
  BY <1>6, InvParts, ChangedOK, HeadTailProperties
<1>7. CASE QueueFails
  BY <1>1, <1>7, QueueFailsKeeps
<1>8. CASE OnOpen /\ ~SkipStaleCallback
  <2> DEFINE w == [rs EXCEPT !.state = "Open"]
             t == Send(w, <<Handshake>>)
  <2>1. /\ w.rpcs = rs.rpcs /\ w.closeCount = rs.closeCount
        /\ w.state = "Open" /\ w.backoff = rs.backoff
        /\ w.causes = rs.causes /\ w.pipeline = rs.pipeline
        /\ StoreOK(w)
    BY InvParts DEF StoreOK, RemoteStoreType, StreamStates
  <2> HIDE DEF w
  <2>2. UnderWay(w) /\ IsStarted(w) /\ Sound(w)
    BY <1>5, <1>8, <2>1, InvParts DEF Sound, UnderWay, IsStarted, IsOpen
  <2>3. /\ StoreOK(t) /\ Sound(t) /\ Alike(w, t) /\ t.pipeline = w.pipeline
    <3>1. <<Handshake>> \in Seq(Nat)
      BY DEF Handshake
    <3> QED BY <2>1, <2>2, <3>1, SendOK, SendKeeps
  <2>4. rs' = t /\ tasks' = Tail(tasks) /\ UNCHANGED retryOps
    BY <1>8 DEF OnOpen, w
  <2> HIDE DEF t
  <2>5. UnderWay(t) /\ IsStarted(t) /\ t.causes = rs.causes
    BY <2>1, <2>2, <2>3 DEF Alike, UnderWay, IsStarted, IsOpen
  <2>6. Evolves(rs, t)
    <3>1. rs.closeCount \in Nat
      BY InvParts DEF StoreOK, RemoteStoreType
    <3> QED BY <2>1, <2>3, <2>5, <3>1 DEF Evolves, Alike
  <2>7. Follows(t)
    BY <1>5, <1>8, <2>5 DEF Follows, CanUseNetwork
  <2> QED BY <1>3, <2>3, <2>4, <2>5, <2>6, <2>7
<1>9. CASE OnHandshake /\ ~SkipStaleCallback /\ ~QueueFails
  <2> DEFINE w == [rs EXCEPT !.handshake = TRUE]
             t == Send(w, rs.pipeline)
  <2>1. /\ StoreOK(w) /\ Sound(w) /\ Alike(rs, w) /\ w.pipeline = rs.pipeline
    BY InvParts DEF StoreOK, RemoteStoreType, Sound, Alike, UnderWay
  <2> HIDE DEF w
  <2>2. rs.pipeline \in Seq(Nat)
    BY InvParts, ChangedOK, SeqMonotonic DEF BatchIds
  <2>3. /\ StoreOK(t) /\ Sound(t) /\ Alike(w, t) /\ t.pipeline = w.pipeline
    BY <2>1, <2>2, SendOK, SendKeeps
  <2>4. rs' = t /\ tasks' = Tail(tasks) /\ UNCHANGED retryOps
    BY <1>9 DEF OnHandshake, w
  <2> HIDE DEF t
  <2>5. Alike(rs, t)
    BY <2>1, <2>3 DEF Alike
  <2>6. Evolves(rs, t) /\ Follows(t) /\ t.causes = rs.causes
    BY <2>1, <2>3, <2>5, InvParts, EvolvesBasics
       DEF Follows, CanUseNetwork, Alike
  <2> QED BY <1>3, <2>3, <2>4, <2>6
<1>10. CASE OnMutationResult /\ ~SkipStaleCallback /\ ~QueueFails
  <2> DEFINE s == [rs EXCEPT !.pipeline = Tail(@)]
  <2>1. /\ rs.pipeline # <<>>
        /\ DecideAndRefill("acknowledge", Head(rs.pipeline), s)
    BY <1>10 DEF OnMutationResult
  <2>2. StoreOK(s) /\ Sound(s) /\ Alike(rs, s)
    BY <1>6, <2>1, InvParts
       DEF StoreOK, RemoteStoreType, Sound, Alike, UnderWay
  <2> HIDE DEF s
  <2>3. Evolves(rs, s) /\ s.causes = {} /\ rs.causes = {}
    BY <1>5, <1>10, <2>2, InvParts, EvolvesBasics DEF Alike
  <2> QED BY <1>1, <1>6, <2>1, <2>2, <2>3, DecideAndRefillKeeps
<1>11. ASSUME NEW kind, OnStreamClose(kind), ~SkipStaleCallback, ~QueueFails
       PROVE  OneStreamOneRecovery'
  <2> DEFINE closed == HandleStreamClose(rs)
  <2>1. /\ StoreOK(closed) /\ Sound(closed) /\ ~IsStarted(closed)
        /\ Evolves(rs, closed) /\ closed.causes = rs.causes
        /\ closed.pipeline = rs.pipeline
    <3> DEFINE w == [rs EXCEPT !.stream = 0]
    <3>1. /\ StoreOK(w) /\ Past(w) /\ Evolves(rs, w)
          /\ w.causes = rs.causes /\ w.pipeline = rs.pipeline
      <4>1. /\ w.rpcs = rs.rpcs /\ w.closeCount = rs.closeCount
            /\ w.state = rs.state /\ w.causes = rs.causes
            /\ w.pipeline = rs.pipeline /\ rs.closeCount \in Nat
            /\ StoreOK(w)
        BY InvParts DEF StoreOK, RemoteStoreType
      <4> HIDE DEF w
      <4> QED BY <4>1, InvParts DEF Sound, Past, Evolves, UnderWay
    <3>2. closed = CloseStream(w, "Error")
      BY DEF HandleStreamClose
    <3> HIDE DEF w, closed
    <3>3. StoreOK(closed)
      BY <3>1, <3>2, CloseStreamOK DEF StreamStates
    <3>4. /\ Sound(closed) /\ ~IsStarted(closed) /\ Evolves(w, closed)
          /\ closed.causes = w.causes /\ closed.pipeline = w.pipeline
      BY <3>1, <3>2, CloseStreamKeeps
    <3> QED BY <3>1, <3>3, <3>4, InvParts, EvolvesBasics
  <2>2. CASE kind = "permanent" /\ rs.handshake
    <3> DEFINE shifted == [closed EXCEPT !.pipeline = Tail(@)]
               s == InhibitBackoff(shifted)
    <3>1. rs.pipeline # <<>>
      BY <1>11, <2>2 DEF OnStreamClose
    <3>2. DecideAndRefill("reject", Head(rs.pipeline), s)
      BY <1>11, <2>2, <3>1 DEF OnStreamClose
    <3> HIDE DEF closed
    <3>3. /\ StoreOK(shifted) /\ Sound(shifted) /\ Alike(closed, shifted)
      BY <1>6, <2>1, <3>1 DEF StoreOK, RemoteStoreType, Sound, Alike, UnderWay
    <3>4. ~IsStarted(shifted) /\ Evolves(closed, shifted)
      BY <2>1, <3>3, EvolvesBasics
    <3>5. shifted.causes = {} /\ rs.causes = {}
      BY <1>5, <1>11, <2>1, <3>3 DEF Alike
    <3> HIDE DEF shifted
    <3>6. /\ StoreOK(s) /\ Sound(s) /\ Evolves(shifted, s) /\ s.causes = {}
      BY <3>3, <3>4, <3>5, ChangedOK, InhibitBackoffKeeps
    <3> HIDE DEF s
    <3>7. Evolves(rs, s)
      BY <2>1, <3>3, <3>4, <3>6, InvParts, EvolvesBasics
    <3> QED BY <1>1, <1>6, <3>1, <3>2, <3>5, <3>6, <3>7, DecideAndRefillKeeps
  <2>3. CASE ~(kind = "permanent" /\ rs.handshake)
    <3> DEFINE t == StartIfNeeded(closed)
    <3>1. rs' = t /\ tasks' = Tail(tasks) /\ UNCHANGED retryOps
      BY <1>11, <2>3 DEF OnStreamClose
    <3> HIDE DEF closed
    <3>2. /\ StoreOK(t) /\ Sound(t) /\ Evolves(closed, t)
          /\ t.causes = closed.causes /\ t.pipeline = closed.pipeline
          /\ CanUseNetwork(closed) /\ closed.pipeline # <<>> => IsStarted(t)
      BY <2>1, StartIfNeededKeeps, StartIfNeededOK
    <3> HIDE DEF t
    <3>3. Evolves(rs, t)
      BY <2>1, <3>2, InvParts, EvolvesBasics
    <3>4. Follows(t)
      BY <1>5, <1>11, <2>1, <3>2 DEF Follows, CanUseNetwork
    <3> QED BY <1>3, <2>1, <3>1, <3>2, <3>3, <3>4
  <2> QED BY <2>2, <2>3
<1> QED BY <1>4, <1>7, <1>8, <1>9, <1>10, <1>11 DEF StreamCallback

----------------------------------------------------------------------------
(* Retryable operations.  ops and rest are what RunRetryTask and           *)
(* RetryTimer pass; both satisfy the invariant before the attempt.         *)

(* The one recovery ends the outage, or tries again.                       *)
LEMMA RetryRecoveryKeeps ==
  ASSUME TypeOK, OneStreamOneRecovery,
         NEW ops \in Seq(TaskType), ops # <<>>, NEW rest \in Seq(TaskType),
         CallbacksSound(rs, rest), OneRecovery(rs, ops, rest),
         RetryRecovery(ops, rest)
  PROVE  NetworkInv(rs', retryOps', tasks')
<1> DEFINE back == [rs EXCEPT !.causes = @ \ {"IndexedDbFailed"}]
           b == Head(ops).batch
<1>1. /\ "IndexedDbFailed" \in rs.causes
      /\ \A i \in DOMAIN Tail(ops) : ~RecoversIn(Tail(ops), i)
      /\ \A i \in DOMAIN rest : ~RecoversIn(rest, i)
  <2>1. RecoversIn(ops, 1)
    BY QueueSteps DEF RetryRecovery, RecoversIn
  <2> QED BY <2>1, RecoveryEnds
<1>2. ~IsStarted(rs) /\ rs.pipeline = <<>>
  BY <1>1, InvParts DEF Follows, CanUseNetwork
<1>3. /\ StoreOK(back) /\ Sound(back) /\ ~IsStarted(back)
      /\ back.pipeline = <<>> /\ CallbacksSound(back, rest)
      /\ back.causes = rs.causes \ {"IndexedDbFailed"}
  BY <1>2, InvParts, ComingBack
<1>4. Tail(ops) \in Seq(TaskType)
  BY HeadTailProperties
<1>5. CASE \E q \in Seq(BatchIds) :
             /\ EnableNetworkInternal(back, q, rest, used)
             /\ retryOps' = Tail(ops)
  <2> HIDE DEF back
  <2>1. OneRecovery(back, Tail(ops), rest)
    BY <1>1, <1>3, NoRecovery
  <2>2. NetworkInv(rs', Tail(ops), tasks')
    BY <1>3, <1>4, <1>5, <2>1, EnableNetworkInternalKeeps
  <2> QED BY <1>5, <2>2
<1>6. CASE retryOps' = ops /\ tasks' = rest /\ rs' = rs
  <2>1. NetworkInv(rs, ops, rest)
    BY InvParts DEF NetworkInv
  <2> QED BY <1>6, <2>1
<1>7. RemoveBatch(b).queue[local.user] \in Seq(BatchIds)
      /\ OwnQueue \in Seq(BatchIds)
  BY QueuesOK, InvParts DEF TypeOK
<1>8. \/ /\ \/ EnableNetworkInternal(back, RemoveBatch(b).queue[local.user],
                                     rest, used)
            \/ EnableNetworkInternal(back, OwnQueue, rest, used)
         /\ retryOps' = Tail(ops)
      \/ retryOps' = ops /\ tasks' = rest /\ rs' = rs
  BY DEF RetryRecovery, IdbFailsAgain
<1> QED BY <1>5, <1>6, <1>7, <1>8

(* remoteStoreHandleCredentialChange keeps the invariant, whether or not   *)
(* the change of user succeeds.                                            *)
LEMMA HandleCredentialChangeKeeps ==
  ASSUME TypeOK, OneStreamOneRecovery, NEW u \in Users,
         NEW ops \in Seq(TaskType), ops # <<>>, NEW rest \in Seq(TaskType),
         CallbacksSound(rs, rest), OneRecovery(rs, ops, rest),
         HandleCredentialChange(u, ops, rest)
  PROVE  NetworkInv(rs', retryOps', tasks')
<1> DEFINE c == rs.causes \union {"CredentialChange"}
           off == DisableNetworkInternal([rs EXCEPT !.causes = c])
           on == [off EXCEPT !.causes = @ \ {"CredentialChange"}]
<1>1. c \in SUBSET OfflineCauses
  BY InvParts DEF OfflineCauses
<1>2. /\ StoreOK(off) /\ Sound(off) /\ Follows(off)
      /\ ~IsStarted(off) /\ off.pipeline = <<>> /\ off.causes = c
      /\ CallbacksSound(off, rest)
  <2> HIDE DEF c
  <2>1. c # {}
    BY DEF c
  <2> QED BY <1>1, <2>1, GoingOffline
<1>3. /\ StoreOK(on) /\ Sound(on) /\ ~IsStarted(on)
      /\ on.pipeline = <<>> /\ on.causes = c \ {"CredentialChange"}
      /\ CallbacksSound(on, rest)
  <2> HIDE DEF off, c
  <2>1. off.causes \ {"CredentialChange"} \in SUBSET OfflineCauses
    BY <1>1, <1>2
  <2> QED BY <1>2, <2>1, ComingBack
<1>4. Tail(ops) \in Seq(TaskType) /\ OneRecovery(rs, Tail(ops), rest)
  BY HeadTailProperties, RecoveryEnds
<1>5. CASE \E q \in Seq(BatchIds) :
             /\ EnableNetworkInternal(on, q, rest, used)
             /\ retryOps' = Tail(ops)
  <2>1. OneRecovery(on, Tail(ops), rest)
    <3> HIDE DEF on
    <3> QED BY <1>3, <1>4, OneRecoveryCauses
  <2> HIDE DEF on
  <2>2. NetworkInv(rs', Tail(ops), tasks')
    BY <1>3, <1>4, <1>5, <2>1, EnableNetworkInternalKeeps
  <2> QED BY <1>5, <2>2
<1>6. CASE rs' = off /\ retryOps' = ops /\ tasks' = rest
  <2> HIDE DEF off
  <2>1. OneRecovery(off, ops, rest)
    BY <1>2, OneRecoveryCauses
  <2>2. NetworkInv(off, ops, rest)
    BY <1>2, <2>1 DEF NetworkInv
  <2> QED BY <1>6, <2>2
<1>7. OwnQueue \in Seq(BatchIds) /\ local.queue[u] \in Seq(BatchIds)
  BY QueuesOK, InvParts DEF TypeOK
<1>8. \/ /\ \/ EnableNetworkInternal(on, OwnQueue, rest, used)
            \/ EnableNetworkInternal(on, local.queue[u], rest, used)
         /\ retryOps' = Tail(ops)
      \/ rs' = off /\ retryOps' = ops /\ tasks' = rest
  BY DEF HandleCredentialChange, IdbFailsAgain
<1> QED BY <1>5, <1>6, <1>7, <1>8

(* retryNextOp keeps it.                                                   *)
LEMMA RetryNextOpKeeps ==
  ASSUME TypeOK, OneStreamOneRecovery,
         NEW ops \in Seq(TaskType), ops # <<>>, NEW rest \in Seq(TaskType),
         CallbacksSound(rs, rest), OneRecovery(rs, ops, rest),
         RetryNextOp(ops, rest)
  PROVE  OneStreamOneRecovery'
<1>1. creds.user \in Users /\ engine.user \in Users
  BY DEF TypeOK, EngineType
<1>2. CASE RetryRecovery(ops, rest)
  BY <1>2, RetryRecoveryKeeps DEF OneStreamOneRecovery
<1>3. CASE \E u \in Users : HandleCredentialChange(u, ops, rest)
  BY <1>3, HandleCredentialChangeKeeps DEF OneStreamOneRecovery
<1>4. CASE rs' = rs /\ retryOps' = Tail(ops) /\ tasks' = rest
  <2>1. NetworkInv(rs, Tail(ops), rest)
    BY InvParts, RecoveryEnds DEF NetworkInv
  <2> QED BY <1>4, <2>1 DEF OneStreamOneRecovery
<1> QED BY <1>1, <1>2, <1>3, <1>4 DEF RetryNextOp, RetryCredentials

(* So do the task and the timer that call it.                              *)
LEMMA RetriesKeep ==
  ASSUME TypeOK, OneStreamOneRecovery, RunRetryTask \/ RetryTimer
  PROVE  OneStreamOneRecovery'
<1>1. CASE RunRetryTask
  <2> DEFINE ops == Append(retryOps, Head(tasks))
             rest == Tail(tasks)
  <2>1. tasks # <<>> /\ RetryNextOp(ops, rest)
    BY <1>1 DEF RunRetryTask
  <2>2. Head(tasks) \in TaskType /\ rest \in Seq(TaskType)
    BY <2>1, InvParts, HeadTailProperties
  <2>3. ops \in Seq(TaskType) /\ ops # <<>>
    BY <2>2, InvParts, AppendProperties
  <2>4. CallbacksSound(rs, rest) /\ OneRecovery(rs, ops, rest)
    BY <2>1, InvParts, CallbacksTail, RecoveryMoves
  <2> HIDE DEF ops, rest
  <2> QED BY <2>1, <2>2, <2>3, <2>4, RetryNextOpKeeps
<1>2. CASE RetryTimer
  BY <1>2, InvParts, RetryNextOpKeeps DEF RetryTimer
<1> QED BY <1>1, <1>2

----------------------------------------------------------------------------
(* The theorems                                                            *)

(* The invariant holds at first.                                           *)
LEMMA NetworkInvInitially == Init => OneStreamOneRecovery
<1> SUFFICES ASSUME Init PROVE OneStreamOneRecovery
  OBVIOUS
<1>1. /\ rs.state = "Initial" /\ ~rs.backoff /\ rs.rpcs = <<>>
      /\ rs.causes = {} /\ rs.pipeline = <<>>
      /\ tasks = <<>> /\ retryOps = <<>>
  BY DEF Init, NewRemoteStore
<1> QED BY <1>1 DEF OneStreamOneRecovery, NetworkInv, Follows, CanUseNetwork,
                    Sound, CallbacksSound, OneRecovery

(* Every step keeps it.                                                    *)
LEMMA NetworkInvStep ==
  ASSUME TypeOK, OneStreamOneRecovery, "reenable" \notin Faults, [Next]_vars
  PROVE  OneStreamOneRecovery'
<1>1. CASE Application
  BY <1>1, ApplicationKeeps
<1>2. CASE StreamCallback
  BY <1>2, StreamCallbackKeeps
<1>3. CASE RunRetryTask \/ Timer
  BY <1>3, RetriesKeep, StreamTimersKeep DEF Timer
<1>4. CASE \E n \in Rpcs :
             \/ TokenFetched(n) \/ StartRpc(n) \/ TokenFetchFails(n)
             \/ Backend(n)
             \/ StreamBreaks(n, "transient") \/ StreamBreaks(n, "permanent")
             \/ OrphanCommits(n)
  BY <1>4, AttemptsKeep
<1>5. CASE UNCHANGED vars
  BY <1>5, SameStore DEF vars
<1> QED BY <1>1, <1>2, <1>3, <1>4, <1>5 DEF Next

(* At most one stream attempt can call back, at most one operation is      *)
(* ending an IndexedDB outage, and the stream follows the pipeline, unless *)
(* the application enables a network that is enabled.                      *)
THEOREM NetworkStaysSound ==
  ASSUME "reenable" \notin Faults
  PROVE  Spec => []OneStreamOneRecovery
<1>1. Init => OneStreamOneRecovery
  BY NetworkInvInitially
<1>2. TypeOK /\ OneStreamOneRecovery /\ [Next]_vars => OneStreamOneRecovery'
  BY NetworkInvStep
<1> QED BY <1>1, <1>2, PipelineTyped, PTL DEF Spec

(* The write stream is up or on its way whenever the network may be used   *)
(* and the pipeline holds a batch; offline, there is neither a stream nor  *)
(* a batch in the pipeline (shouldStartWriteStream, onNetworkStatusChange, *)
(* disableNetworkUntilRecovery).                                           *)
THEOREM StreamAlwaysFollows ==
  ASSUME "reenable" \notin Faults
  PROVE  Spec => []StreamFollowsPipeline
<1>1. OneStreamOneRecovery => StreamFollowsPipeline
  BY DEF OneStreamOneRecovery, NetworkInv, StreamFollowsPipeline
<1> QED BY <1>1, NetworkStaysSound, PTL

-----------------------------------------------------------------------------
(* The queue.                                                              *)

(* Queues are in order of writing and hold only their author's batches.    *)
Ascends(q) == \A i, j \in DOMAIN q : i < j => q[i] < q[j]

QueuesInOrder ==
  \A u \in Users :
    /\ Ascends(local.queue[u])
    /\ \A i \in DOMAIN local.queue[u] :
         /\ local.queue[u][i] \in DOMAIN author
         /\ author[local.queue[u][i]] = u

(* The pipeline of s is as much of the queue q as may be in flight.        *)
Mirrors(s, q) ==
  CanUseNetwork(s) => s.pipeline = SubSeq(q, 1, Least(MaxPending, Len(q)))

(* Attempt n may still get somewhere.                                      *)
Current(s, n) == s.rpcs[n].phase # "closed" /\ s.rpcs[n].cc = s.closeCount

(* Only the stream's own attempt is past authentication; there is one.     *)
Phases(s) ==
  /\ \A n \in DOMAIN s.rpcs :
       LET r == s.rpcs[n]
       IN  /\ r.phase \in {"connecting", "open", "ready"} =>
                n = s.stream /\ r.user # 0
           /\ r.phase = "token" => r.user # 0
           /\ r.phase \in {"auth", "token"} =>
                /\ r.reqs = <<>>
                /\ r.cc = s.closeCount => s.stream = 0
  /\ \A m, n \in DOMAIN s.rpcs : Current(s, m) /\ Current(s, n) => m = n

(* What the state of the stream says of its attempt r.                     *)
Attempt(s, r) ==
  /\ UnderWay(s)
  /\ r.cc = s.closeCount
  /\ r.phase \notin {"auth", "token"}
  /\ r.phase = "connecting" => s.state = "Starting"
  /\ r.phase \in {"connecting", "open"} => ~s.handshake
  /\ s.state = "Starting" /\ r.phase # "closed" =>
       r.phase # "ready" /\ r.reqs = <<>>
  /\ s.state = "Open" /\ r.phase = "open" => r.reqs = <<Handshake>>
  /\ r.phase = "ready" /\ ~s.handshake => r.reqs = <<>>

(* An idle stream is open and drained; before the handshake there is       *)
(* something to send.                                                      *)
Drained(s) ==
  /\ s.idle => IsOpen(s) /\ s.pipeline = <<>>
  /\ IsStarted(s) /\ ~s.handshake => s.pipeline # <<>>

StoreInv(s) ==
  /\ Phases(s)
  /\ s.stream # 0 => Attempt(s, s.rpcs[s.stream])
  /\ s.state = "Open" => s.stream # 0
  /\ s.state \in {"Starting", "Backoff"} => ~s.handshake
  /\ Drained(s)

(* Callbacks that the dispatcher would let through.                        *)
LiveIn(s, queue, i) ==
  queue[i].kind \in StreamKinds /\ queue[i].cc = s.closeCount

Closing == {"transient", "permanent"}

(* A callback reports what the attempt has reached; nothing follows the    *)
(* report of its end.                                                      *)
Calls(s, queue) ==
  \A i \in DOMAIN queue :
    LiveIn(s, queue, i) =>
      /\ \A n \in DOMAIN s.rpcs :
           s.rpcs[n].phase \in {"auth", "token", "connecting"} => ~Current(s, n)
      /\ queue[i].kind \notin Closing => s.stream # 0
      /\ queue[i].kind = "open" => s.state = "Starting"
      /\ queue[i].kind = "handshake" =>
           /\ s.state = "Open" /\ ~s.handshake
           /\ s.rpcs[s.stream].phase \in {"ready", "closed"}
      /\ queue[i].kind = "result" => s.state = "Open" /\ s.handshake
      /\ queue[i].kind \in Closing =>
           /\ \A n \in DOMAIN s.rpcs : ~Current(s, n)
           /\ \A j \in DOMAIN queue : LiveIn(s, queue, j) => j <= i
      /\ \A j \in DOMAIN queue :
           /\ LiveIn(s, queue, j)
           /\ queue[i].kind \in {"open", "handshake"}
           /\ queue[j].kind = queue[i].kind
           => j = i

(* A permanent error after the handshake is for the first batch that is    *)
(* not answered; before it, no handshake is on its way.                    *)
ErrorNamesNext(s, queue) ==
  \A i \in DOMAIN queue :
    LiveIn(s, queue, i) /\ queue[i].kind = "permanent" =>
      /\ s.handshake =>
           /\ Cardinality(Answers(s, queue)) < Len(s.pipeline)
           /\ queue[i].batch =
                s.pipeline[Cardinality(Answers(s, queue)) + 1]
      /\ \A j \in DOMAIN queue :
           LiveIn(s, queue, j) => queue[j].kind # "handshake"

Linked(s, queue) ==
  Calls(s, queue) /\ Correlated(s, queue) /\ ErrorNamesNext(s, queue)

PipelineInv ==
  /\ StoreInv(rs)
  /\ QueuesInOrder
  /\ Running => Linked(rs, tasks) /\ Mirrors(rs, OwnQueue)

----------------------------------------------------------------------------
(* Counting answers                                                        *)

(* Moving a set of numbers down by one does not change how many they are.  *)
LEMMA ShiftDown ==
  ASSUME NEW T, IsFiniteSet(T), T \subseteq Nat
  PROVE  LET D == {i - 1 : i \in T}
         IN  IsFiniteSet(D) /\ Cardinality(D) = Cardinality(T)
<1> DEFINE D == {i - 1 : i \in T}
           f == [i \in T |-> i - 1]
<1>1. f \in [T -> D]
  OBVIOUS
<1>2. \A i, j \in T : f[i] = f[j] => i = j
  OBVIOUS
<1>3. \A d \in D : \E i \in T : f[i] = d
  OBVIOUS
<1> HIDE DEF D, f
<1>4. f \in Bijection(T, D)
  BY <1>1, <1>2, <1>3, Zenon DEF Bijection, Injection, Surjection, IsInjective
<1>5. ExistsBijection(T, D)
  BY <1>4 DEF ExistsBijection
<1> QED BY <1>5, FS_Bijection DEF D

(* Answers are positions of the queue.                                     *)
LEMMA AnswersType ==
  ASSUME NEW s, NEW queue \in Seq(TaskType)
  PROVE  /\ Answers(s, queue) \subseteq 1 .. Len(queue)
         /\ IsFiniteSet(Answers(s, queue))
         /\ Cardinality(Answers(s, queue)) \in Nat
         /\ Len(queue) \in Nat /\ DOMAIN queue = 1 .. Len(queue)
<1>1. Len(queue) \in Nat /\ DOMAIN queue = 1 .. Len(queue)
  BY LenProperties
<1>2. Answers(s, queue) \in SUBSET (1 .. Len(queue))
  BY <1>1 DEF Answers
<1>3. IsFiniteSet(1 .. Len(queue))
  BY <1>1, FS_Interval
<1> QED BY <1>1, <1>2, <1>3, FS_Subset, FS_CardinalityType

(* An answer is one of the first Cardinality(answers).                     *)
LEMMA RankType ==
  ASSUME NEW m \in Nat, NEW A, A \subseteq 1 .. m, NEW i \in A
  PROVE  Rank(A, i) \in 1 .. Cardinality(A)
<1> DEFINE below == {j \in A : j <= i}
<1>1. IsFiniteSet(1 .. m) /\ A \in SUBSET (1 .. m)
  BY FS_Interval
<1>2. IsFiniteSet(A) /\ Cardinality(A) \in Nat
  BY <1>1, FS_Subset, FS_CardinalityType
<1>3. below \in SUBSET A /\ i \in below
  OBVIOUS
<1> HIDE DEF below
<1>4. IsFiniteSet(below) /\ Cardinality(below) <= Cardinality(A)
      /\ Cardinality(below) \in Nat
  BY <1>2, <1>3, FS_Subset, FS_CardinalityType
<1>5. Cardinality(below) # 0
  BY <1>3, <1>4, FS_EmptySet
<1> QED BY <1>2, <1>4, <1>5 DEF Rank, below

(* A task at the end of the queue counts if it is a live response, and     *)
(* ranks last then.                                                        *)
LEMMA AnswersAppend ==
  ASSUME NEW s, NEW queue \in Seq(TaskType), NEW t \in TaskType
  PROVE  LET A == Answers(s, queue)
             B == Answers(s, Append(queue, t))
         IN  /\ ~(t.kind = "result" /\ t.cc = s.closeCount) => B = A
             /\ t.kind = "result" /\ t.cc = s.closeCount =>
                  /\ Len(queue) + 1 \in B
                  /\ \A i \in B : i \in A \/ i = Len(queue) + 1
                  /\ Cardinality(B) = Cardinality(A) + 1
                  /\ \A i \in A : i \in B /\ Rank(B, i) = Rank(A, i)
                  /\ Rank(B, Len(queue) + 1) = Cardinality(A) + 1
<1> DEFINE A == Answers(s, queue)
           B == Answers(s, Append(queue, t))
           m == Len(queue) + 1
<1>1. /\ A \subseteq 1 .. Len(queue) /\ IsFiniteSet(A)
      /\ Cardinality(A) \in Nat /\ Len(queue) \in Nat
  BY AnswersType
<1>2. /\ Append(queue, t) \in Seq(TaskType)
      /\ Len(Append(queue, t)) = m /\ Append(queue, t)[m] = t
      /\ \A i \in 1 .. Len(queue) : Append(queue, t)[i] = queue[i]
      /\ DOMAIN Append(queue, t) = 1 .. m /\ DOMAIN queue = 1 .. Len(queue)
  BY AppendProperties, LenProperties
<1>3. \A i : i \in B <=> \/ i \in A
                         \/ i = m /\ t.kind = "result" /\ t.cc = s.closeCount
  BY <1>1, <1>2 DEF Answers
<1> HIDE DEF A, B
<1>4. CASE ~(t.kind = "result" /\ t.cc = s.closeCount)
  <2>1. B = A
    BY <1>3, <1>4
  <2> QED BY <1>4, <2>1 DEF A, B
<1>5. CASE t.kind = "result" /\ t.cc = s.closeCount
  <2>1. B = A \union {m} /\ m \notin A
    BY <1>1, <1>3, <1>5
  <2>2. Cardinality(B) = Cardinality(A) + 1
    BY <1>1, <2>1, FS_AddElement
  <2>3. ASSUME NEW i \in A PROVE Rank(B, i) = Rank(A, i)
    <3>1. {j \in B : j <= i} = {j \in A : j <= i}
      BY <1>1, <2>1
    <3> QED BY <3>1 DEF Rank
  <2>4. Rank(B, m) = Cardinality(A) + 1
    <3>1. \A j \in B : j <= m
      BY <1>1, <2>1
    <3>2. {j \in B : j <= m} = B
      BY <3>1
    <3> QED BY <2>2, <3>2 DEF Rank
  <2> QED BY <1>5, <2>1, <2>2, <2>3, <2>4 DEF A, B
<1> QED BY <1>4, <1>5

(* Taking the first task moves every answer forward, past the first one if *)
(* that was an answer.                                                     *)
LEMMA AnswersTail ==
  ASSUME NEW s, NEW queue \in Seq(TaskType), queue # <<>>
  PROVE  LET A == Answers(s, queue)
             B == Answers(s, Tail(queue))
             first == IF 1 \in A THEN 1 ELSE 0
         IN  /\ Cardinality(B) = Cardinality(A) - first
             /\ \A i \in B : i + 1 \in A /\ Rank(B, i) = Rank(A, i + 1) - first
             /\ 1 \in A => Rank(A, 1) = 1
<1> DEFINE A == Answers(s, queue)
           B == Answers(s, Tail(queue))
           first == IF 1 \in A THEN 1 ELSE 0
           A1 == A \ {1}
<1>1. /\ A \subseteq 1 .. Len(queue) /\ IsFiniteSet(A)
      /\ Cardinality(A) \in Nat /\ Len(queue) \in Nat
  BY AnswersType
<1>2. /\ Len(Tail(queue)) = Len(queue) - 1 /\ Len(queue) # 0
      /\ \A i \in 1 .. Len(queue) - 1 : Tail(queue)[i] = queue[i + 1]
      /\ DOMAIN Tail(queue) = 1 .. Len(queue) - 1
      /\ DOMAIN queue = 1 .. Len(queue)
  BY HeadTailProperties, LenProperties, EmptySeq
<1>3. \A i : i \in B <=> i \in 1 .. Len(queue) - 1 /\ i + 1 \in A
  BY <1>1, <1>2 DEF Answers
<1> HIDE DEF A, B
<1>4. IsFiniteSet(A1) /\ Cardinality(A1) = Cardinality(A) - first
  BY <1>1, FS_RemoveElement
<1>5. A1 \subseteq Nat
  BY <1>1
<1>6. B = {i - 1 : i \in A1}
  <2>1. ASSUME NEW i \in B PROVE i \in {j - 1 : j \in A1}
    <3>1. i \in Nat /\ i # 0 /\ i + 1 \in A1 /\ i = (i + 1) - 1
      BY <1>1, <1>3
    <3> QED BY <3>1
  <2>2. ASSUME NEW j \in A1 PROVE j - 1 \in B
    <3>1. j \in 1 .. Len(queue) /\ j # 1 /\ j \in A
      BY <1>1
    <3>2. j - 1 \in 1 .. Len(queue) - 1 /\ (j - 1) + 1 = j
      BY <1>1, <3>1
    <3> QED BY <1>3, <3>1, <3>2
  <2> QED BY <2>1, <2>2
<1>7. Cardinality(B) = Cardinality(A) - first
  <2> HIDE DEF A1, first
  <2> QED BY <1>4, <1>5, <1>6, ShiftDown
<1>8. ASSUME NEW i \in B
      PROVE  i + 1 \in A /\ Rank(B, i) = Rank(A, i + 1) - first
  <2> DEFINE low == {j \in A : j <= i + 1}
             low1 == low \ {1}
  <2>1. i \in 1 .. Len(queue) - 1 /\ i + 1 \in A
    BY <1>3
  <2>2. low \in SUBSET A /\ (1 \in low <=> 1 \in A)
    BY <2>1
  <2>3. IsFiniteSet(low)
    BY <1>1, <2>2, FS_Subset
  <2>4. IsFiniteSet(low1) /\ Cardinality(low1) = Cardinality(low) - first
    <3>1. Cardinality(low) \in Nat
      BY <2>3, FS_CardinalityType
    <3> HIDE DEF low
    <3> QED BY <2>2, <2>3, <3>1, FS_RemoveElement
  <2>5. {j \in B : j <= i} = {j - 1 : j \in low1}
    <3>1. ASSUME NEW j \in B, j <= i PROVE j \in {k - 1 : k \in low1}
      <4>1. j \in Nat /\ j # 0 /\ j + 1 \in low1 /\ j = (j + 1) - 1
        BY <1>1, <1>3, <2>1, <3>1
      <4> QED BY <4>1
    <3>2. ASSUME NEW k \in low1 PROVE k - 1 \in B /\ k - 1 <= i
      <4>1. k \in A1 /\ k <= i + 1 /\ k \in Nat
        BY <1>5
      <4> QED BY <1>6, <2>1, <4>1
    <3> QED BY <3>1, <3>2
  <2>6. low1 \subseteq Nat
    BY <1>5
  <2>7. Cardinality({j \in B : j <= i}) = Cardinality(low1)
    <3> HIDE DEF low1
    <3> QED BY <2>4, <2>5, <2>6, ShiftDown
  <2> QED BY <2>1, <2>4, <2>7 DEF Rank
<1>9. ASSUME 1 \in A PROVE Rank(A, 1) = 1
  <2>1. \A j \in A : j <= 1 <=> j = 1
    BY <1>1
  <2>2. {j \in A : j <= 1} = {1}
    BY <1>9, <2>1
  <2> QED BY <2>2, FS_Singleton DEF Rank
<1> QED BY <1>7, <1>8, <1>9 DEF A, B

----------------------------------------------------------------------------
(* Queues of batches                                                       *)

Prefix(p, q) == Len(p) <= Len(q) /\ \A i \in 1 .. Len(p) : p[i] = q[i]

(* A queue that starts with p and is longer by nothing else is p.          *)
LEMMA PrefixIsSubSeq ==
  ASSUME NEW q \in Seq(BatchIds), NEW n \in Nat, n <= Len(q)
  PROVE  /\ SubSeq(q, 1, n) \in Seq(BatchIds) /\ Len(SubSeq(q, 1, n)) = n
         /\ \A i \in 1 .. n : SubSeq(q, 1, n)[i] = q[i]
         /\ \A p \in Seq(BatchIds) :
              Len(p) = n /\ Prefix(p, q) => p = SubSeq(q, 1, n)
<1> DEFINE front == SubSeq(q, 1, n)
<1>1. \A i \in 1 .. n : q[i] \in BatchIds
  BY ElementOfSeq, LenProperties
<1>2. /\ front \in Seq(BatchIds) /\ Len(front) = n
      /\ \A i \in 1 .. n : front[i] = q[i]
  BY <1>1, SubSeqProperties
<1> HIDE DEF front
<1>3. ASSUME NEW p \in Seq(BatchIds), Len(p) = n, Prefix(p, q)
      PROVE  p = front
  BY <1>2, <1>3, SeqEqual DEF Prefix
<1> QED BY <1>2, <1>3 DEF front

(* In an ascending queue, what lies above its k-th batch is what follows.  *)
LEMMA AfterKth ==
  ASSUME NEW q \in Seq(BatchIds), Ascends(q), NEW k \in 0 .. Len(q),
         NEW last, last = IF k = 0 THEN 0 ELSE q[k]
  PROVE  After(q, last) = SubSeq(q, k + 1, Len(q))
<1>1. Len(q) \in Nat /\ DOMAIN q = 1 .. Len(q)
  BY LenProperties
<1>2. \A i \in 1 .. Len(q) : q[i] \in Nat /\ q[i] # 0
  BY ElementOfSeq DEF BatchIds
<1>3. \A i \in 1 .. Len(q) : q[i] <= last <=> i <= k
  BY <1>1, <1>2 DEF Ascends
<1>4. {i \in DOMAIN q : q[i] <= last} = 1 .. k
  BY <1>1, <1>3
<1>5. Cardinality(1 .. k) = k
  BY <1>1, FS_Interval
<1> QED BY <1>4, <1>5 DEF After

(* startWriteStream, markIdle and sendRequest leave the pipeline alone.    *)
LEMMA PipelineKept ==
  ASSUME NEW s, StoreOK(s)
  PROVE  /\ StartIfNeeded(s).pipeline = s.pipeline
         /\ MarkIdle(s).pipeline = s.pipeline
         /\ \A bs \in Seq(BatchIds) :
              AddToWritePipeline(s, bs).pipeline = s.pipeline \o bs
<1>1. StartIfNeeded(s).pipeline = s.pipeline
  BY DEF StartIfNeeded, StartStream, PerformBackoff, Auth, StoreOK,
         RemoteStoreType
<1>2. MarkIdle(s).pipeline = s.pipeline
  BY DEF MarkIdle, StoreOK, RemoteStoreType
<1>3. ASSUME NEW bs \in Seq(BatchIds)
      PROVE  AddToWritePipeline(s, bs).pipeline = s.pipeline \o bs
  <2> DEFINE added == [s EXCEPT !.pipeline = @ \o bs]
  <2>1. s.pipeline \o bs \in Seq(BatchIds) /\ bs \in Seq(Nat)
    BY ConcatProperties, SeqMonotonic DEF StoreOK, RemoteStoreType, BatchIds
  <2>2. StoreOK(added) /\ added.pipeline = s.pipeline \o bs
    BY <2>1 DEF StoreOK, RemoteStoreType
  <2>3. AddToWritePipeline(s, bs) \in {added, Send(added, bs)}
    BY DEF AddToWritePipeline
  <2> HIDE DEF added
  <2> QED BY <2>1, <2>2, <2>3, SendKeeps
<1> QED BY <1>1, <1>2, <1>3

(* What fillWritePipeline reads are the batches that follow the pipeline.  *)
LEMMA NextBatchesFollow ==
  ASSUME NEW s, StoreOK(s), NEW q \in Seq(BatchIds), Ascends(q),
         Prefix(s.pipeline, q), Len(s.pipeline) <= MaxPending
  PROVE  LET bs == NextBatches(s, q)
         IN  /\ bs \in Seq(BatchIds)
             /\ s.pipeline \o bs = SubSeq(q, 1, Least(MaxPending, Len(q)))
             /\ Len(s.pipeline) + Len(bs) = Least(MaxPending, Len(q))
             /\ Prefix(s.pipeline \o bs, q)
<1> DEFINE p == s.pipeline
           k == Len(p)
           last == IF p = <<>> THEN 0 ELSE p[k]
           rest == After(q, last)
           room == Least(MaxPending - k, Len(rest))
           bs == SubSeq(rest, 1, room)
           n == Least(MaxPending, Len(q))
<1>1. /\ p \in Seq(BatchIds) /\ k \in Nat /\ Len(q) \in Nat
      /\ k <= Len(q) /\ (p = <<>> <=> k = 0)
      /\ \A i \in 1 .. k : p[i] = q[i]
      /\ MaxPending \in Nat /\ k <= MaxPending
  BY LenProperties, EmptySeq, PendingAssumption
     DEF StoreOK, RemoteStoreType, Prefix
<1>2. last = IF k = 0 THEN 0 ELSE q[k]
  BY <1>1
<1>3. rest = SubSeq(q, k + 1, Len(q))
  <2> HIDE DEF last, p
  <2> QED BY <1>1, <1>2, AfterKth
<1> HIDE DEF last, k, p
<1>4. \A i \in 1 .. Len(q) : q[i] \in BatchIds
  BY ElementOfSeq
<1>5. /\ rest \in Seq(BatchIds) /\ Len(rest) = Len(q) - k
      /\ \A i \in 1 .. Len(rest) : rest[i] = q[k + i]
  <2>1. \A i \in k + 1 .. Len(q) : q[i] \in BatchIds
    BY <1>1, <1>4
  <2>2. /\ SubSeq(q, k + 1, Len(q)) \in Seq(BatchIds)
        /\ Len(SubSeq(q, k + 1, Len(q))) =
             IF k + 1 <= Len(q) THEN Len(q) - (k + 1) + 1 ELSE 0
        /\ \A i \in 1 .. Len(q) - (k + 1) + 1 :
             SubSeq(q, k + 1, Len(q))[i] = q[(k + 1) + i - 1]
    <3>1. k + 1 \in Int /\ Len(q) \in Int
      BY <1>1
    <3> QED BY <2>1, <3>1, SubSeqProperties
  <2> HIDE DEF rest
  <2>3. rest \in Seq(BatchIds) /\ Len(rest) = Len(q) - k
    BY <1>1, <1>3, <2>2
  <2>4. \A i \in 1 .. Len(rest) : rest[i] = q[k + i]
    <3> SUFFICES ASSUME NEW i \in 1 .. Len(rest) PROVE rest[i] = q[k + i]
      OBVIOUS
    <3>1. i \in 1 .. Len(q) - (k + 1) + 1 /\ (k + 1) + i - 1 = k + i
      BY <1>1, <2>3
    <3> QED BY <1>3, <2>2, <3>1
  <2> QED BY <2>3, <2>4
<1> HIDE DEF rest
<1>6. room \in Nat /\ room <= Len(rest) /\ k + room = n
  <2>1. Len(rest) = Len(q) - k /\ Len(rest) \in Nat
    BY <1>1, <1>5
  <2> QED BY <1>1, <2>1 DEF Least
<1> HIDE DEF room
<1>7. /\ bs \in Seq(BatchIds) /\ Len(bs) = room
      /\ \A i \in 1 .. room : bs[i] = rest[i]
  BY <1>5, <1>6, PrefixIsSubSeq
<1>8. bs = NextBatches(s, q)
  BY DEF NextBatches, rest, room, last, k, p
<1> HIDE DEF bs
<1>9. /\ p \o bs \in Seq(BatchIds) /\ Len(p \o bs) = k + room
      /\ \A i \in 1 .. k + room :
           (p \o bs)[i] = IF i <= k THEN p[i] ELSE bs[i - k]
  <2>1. Len(p) = k
    BY DEF k
  <2>2. /\ p \o bs \in Seq(BatchIds) /\ Len(p \o bs) = Len(p) + Len(bs)
        /\ \A i \in 1 .. Len(p) + Len(bs) :
             (p \o bs)[i] = IF i <= Len(p) THEN p[i] ELSE bs[i - Len(p)]
    <3>1. p \in Seq(BatchIds) /\ bs \in Seq(BatchIds)
      BY <1>1, <1>7
    <3> QED BY <3>1, ConcatProperties, Zenon
  <2> QED BY <1>7, <2>1, <2>2
<1>10. n \in Nat /\ n <= Len(q)
  BY <1>1 DEF Least
<1>11. Prefix(p \o bs, q)
  <2> SUFFICES ASSUME NEW i \in 1 .. k + room PROVE (p \o bs)[i] = q[i]
    BY <1>6, <1>9, <1>10 DEF Prefix
  <2>1. CASE i <= k
    BY <1>1, <1>9, <2>1
  <2>2. CASE i > k
    <3>1. i - k \in 1 .. room /\ i - k \in 1 .. Len(rest) /\ k + (i - k) = i
      BY <1>1, <1>6, <2>2
    <3>2. bs[i - k] = rest[i - k] /\ rest[i - k] = q[k + (i - k)]
      BY <1>5, <1>7, <3>1
    <3>3. (p \o bs)[i] = bs[i - k]
      BY <1>1, <1>6, <1>9, <2>2
    <3> QED BY <3>1, <3>2, <3>3
  <2>3. i <= k \/ i > k
    BY <1>1, <1>6
  <2> QED BY <2>1, <2>2, <2>3, Zenon
<1>12. p \o bs = SubSeq(q, 1, n)
  BY <1>6, <1>9, <1>10, <1>11, PrefixIsSubSeq
<1>13. Len(p) = k
  BY DEF k
<1> QED BY <1>6, <1>7, <1>8, <1>11, <1>12, <1>13 DEF p

(* fillWritePipeline makes the pipeline the front of the queue.            *)
LEMMA FillMirrors ==
  ASSUME NEW s, StoreOK(s), NEW q \in Seq(BatchIds), Ascends(q),
         CanUseNetwork(s), Prefix(s.pipeline, q),
         Len(s.pipeline) <= MaxPending
  PROVE  FillWritePipeline(s, q).pipeline =
           SubSeq(q, 1, Least(MaxPending, Len(q)))
<1> DEFINE filled == AddToWritePipeline(s, NextBatches(s, q))
           n == Least(MaxPending, Len(q))
<1>1. Len(q) \in Nat /\ Len(s.pipeline) \in Nat /\ s.pipeline \in Seq(BatchIds)
      /\ MaxPending \in Nat
  BY LenProperties, PendingAssumption DEF StoreOK, RemoteStoreType
<1>2. CASE CanAddToWritePipeline(s)
  <2>1. /\ NextBatches(s, q) \in Seq(BatchIds)
        /\ s.pipeline \o NextBatches(s, q) = SubSeq(q, 1, n)
    BY NextBatchesFollow
  <2>2. StoreOK(filled) /\ filled.pipeline = SubSeq(q, 1, n)
    BY <2>1, PipelineKept, AddToWritePipelineOK
  <2>3. FillWritePipeline(s, q) \in
          {StartIfNeeded(filled), StartIfNeeded(MarkIdle(filled))}
    BY <1>2 DEF FillWritePipeline
  <2> HIDE DEF filled
  <2>4. StoreOK(MarkIdle(filled))
    BY <2>2 DEF MarkIdle, StoreOK, RemoteStoreType
  <2> QED BY <2>2, <2>3, <2>4, PipelineKept
<1>3. CASE ~CanAddToWritePipeline(s)
  <2>1. Len(s.pipeline) = MaxPending
    BY <1>1, <1>3 DEF CanAddToWritePipeline
  <2>2. n = MaxPending /\ n <= Len(q)
    BY <1>1, <2>1 DEF Prefix, Least
  <2>3. s.pipeline = SubSeq(q, 1, n)
    BY <1>1, <2>1, <2>2, PrefixIsSubSeq
  <2>4. FillWritePipeline(s, q).pipeline = s.pipeline
    BY <1>3, PipelineKept DEF FillWritePipeline
  <2> QED BY <2>3, <2>4
<1> QED BY <1>2, <1>3

----------------------------------------------------------------------------
(* The operators of PersistentStream and RemoteStore                       *)

Sane(s) == StoreOK(s) /\ Sound(s) /\ StoreInv(s)

(* Without live callbacks, and before the handshake, nothing is answered.  *)
LEMMA SilentLinked ==
  ASSUME NEW s, StoreOK(s), NEW queue,
         \A i \in DOMAIN queue : ~LiveIn(s, queue, i),
         s.stream = 0 \/ ~s.handshake
  PROVE  Linked(s, queue)
<1>1. Answers(s, queue) = {}
  BY DEF Answers, LiveIn, StreamKinds
<1>2. Cardinality(Answers(s, queue)) = 0
  BY <1>1, FS_EmptySet
<1>3. Len(s.pipeline) \in Nat
  BY LenProperties DEF StoreOK, RemoteStoreType
<1> QED BY <1>1, <1>2, <1>3 DEF Linked, Calls, Correlated, ErrorNamesNext

(* A stream that is not under way has no RPC and no live callback.         *)
LEMMA StoppedLinked ==
  ASSUME NEW s, StoreOK(s), StoreInv(s), ~UnderWay(s), NEW queue,
         CallbacksSound(s, queue)
  PROVE  s.stream = 0 /\ Linked(s, queue)
<1>1. s.stream = 0
  BY DEF StoreInv, Attempt
<1>2. \A i \in DOMAIN queue : ~LiveIn(s, queue, i)
  BY DEF CallbacksSound, LiveIn
<1> QED BY <1>1, <1>2, SilentLinked

(* close() leaves attempts that get nowhere, and a drained stream.         *)
LEMMA CloseStreamStays ==
  ASSUME NEW s, StoreOK(s), Past(s), Phases(s),
         NEW final \in {"Initial", "Error"}
  PROVE  StoreInv(CloseStream(s, final))
<1> DEFINE shut == IF s.stream = 0
                     THEN s.rpcs
                     ELSE [s.rpcs EXCEPT ![s.stream].phase = "closed"]
           t == CloseStream(s, final)
<1>1. /\ s \in RemoteStoreType /\ s.rpcs \in Seq(RpcType)
      /\ s.closeCount \in Nat
  BY DEF StoreOK, RemoteStoreType
<1>2. t = [s EXCEPT !.idle = FALSE, !.backoff = FALSE,
                    !.closeCount = s.closeCount + 1, !.rpcs = shut,
                    !.stream = 0, !.state = final]
  BY <1>1 DEF CloseStream, RemoteStoreType
<1>3. DOMAIN shut = DOMAIN s.rpcs
  BY <1>1
<1>4. \A n \in DOMAIN s.rpcs :
        /\ shut[n].cc = s.rpcs[n].cc /\ shut[n].reqs = s.rpcs[n].reqs
        /\ shut[n].user = s.rpcs[n].user /\ s.rpcs[n].cc \in Nat
        /\ shut[n].phase = s.rpcs[n].phase \/ shut[n].phase = "closed"
        /\ shut[n].phase \notin {"connecting", "open", "ready"}
  <2> SUFFICES ASSUME NEW n \in DOMAIN s.rpcs
               PROVE  /\ shut[n].cc = s.rpcs[n].cc
                      /\ shut[n].reqs = s.rpcs[n].reqs
                      /\ shut[n].user = s.rpcs[n].user /\ s.rpcs[n].cc \in Nat
                      /\ shut[n].phase = s.rpcs[n].phase
                         \/ shut[n].phase = "closed"
                      /\ shut[n].phase \notin {"connecting", "open", "ready"}
    OBVIOUS
  <2>1. s.rpcs[n] \in RpcType
    BY <1>1, ElementOfSeq, LenProperties
  <2>2. DOMAIN s.rpcs = 1 .. Len(s.rpcs) /\ Len(s.rpcs) \in Nat
    BY <1>1, LenProperties
  <2>3. CASE n = s.stream
    <3>1. shut[n] = [s.rpcs[n] EXCEPT !.phase = "closed"]
      BY <1>1, <2>2, <2>3
    <3> HIDE DEF shut
    <3> QED BY <2>1, <3>1 DEF RpcType
  <2>4. CASE n # s.stream
    <3>1. shut[n] = s.rpcs[n]
      BY <1>1, <2>4
    <3> HIDE DEF shut
    <3> QED BY <2>1, <2>4, <3>1 DEF RpcType, Phases
  <2> QED BY <2>3, <2>4
<1> HIDE DEF shut
<1>5. /\ t.rpcs = shut /\ t.closeCount = s.closeCount + 1
      /\ t.state = final /\ ~t.idle /\ t.stream = 0
  BY <1>1, <1>2 DEF RemoteStoreType
<1> HIDE DEF t
<1>6. \A n \in DOMAIN shut : ~Current(t, n)
  <2> SUFFICES ASSUME NEW n \in DOMAIN s.rpcs, Current(t, n) PROVE FALSE
    BY <1>3
  <2>1. s.rpcs[n].phase # "closed" /\ s.rpcs[n].cc = s.closeCount + 1
    BY <1>4, <1>5 DEF Current
  <2> QED BY <1>1, <2>1 DEF Past
<1>7. Phases(t)
  BY <1>3, <1>4, <1>5, <1>6 DEF Phases
<1> QED BY <1>5, <1>7 DEF StoreInv, Drained, IsStarted, IsOpen, t

(* start() leaves an attempt that has got nowhere yet, or a backoff.       *)
LEMMA StartStreamStays ==
  ASSUME NEW s, StoreOK(s), Sound(s), Phases(s), s.stream = 0,
         ~UnderWay(s), ~s.idle, s.pipeline # <<>>
  PROVE  StoreInv(StartStream(s)) /\ ~StartStream(s).handshake
<1> DEFINE new == [cc |-> s.closeCount, phase |-> "auth", user |-> 0,
                   reqs |-> <<>>]
           more == Append(s.rpcs, new)
           t == StartStream(s)
<1>1. /\ s \in RemoteStoreType /\ s.rpcs \in Seq(RpcType)
      /\ s.closeCount \in Nat
  BY DEF StoreOK, RemoteStoreType
<1>2. CASE s.state = "Error"
  <2>1. t = [s EXCEPT !.handshake = FALSE, !.state = "Backoff",
                      !.backoff = TRUE]
    BY <1>1, <1>2 DEF StartStream, PerformBackoff, RemoteStoreType
  <2>2. /\ t.rpcs = s.rpcs /\ t.closeCount = s.closeCount
        /\ t.state = "Backoff" /\ t.stream = 0 /\ ~t.idle /\ ~t.handshake
        /\ t.pipeline = s.pipeline
    BY <1>1, <2>1 DEF RemoteStoreType
  <2> HIDE DEF t
  <2>3. Phases(t)
    BY <2>2 DEF Phases, Current
  <2> QED BY <2>2, <2>3 DEF StoreInv, Drained, t
<1>3. CASE s.state # "Error"
  <2>1. t = [s EXCEPT !.handshake = FALSE, !.state = "Starting",
                      !.rpcs = more]
    BY <1>1, <1>3 DEF StartStream, Auth, RemoteStoreType
  <2>2. DOMAIN s.rpcs = 1 .. Len(s.rpcs) /\ Len(s.rpcs) \in Nat
    BY <1>1, LenProperties
  <2>3. /\ DOMAIN more = 1 .. Len(s.rpcs) + 1
        /\ \A n \in DOMAIN s.rpcs : more[n] = s.rpcs[n]
        /\ more[Len(s.rpcs) + 1] = new
    <3> HIDE DEF new
    <3> QED BY <1>1, <2>2, AppendProperties, LenProperties
  <2> HIDE DEF more
  <2>4. /\ t.rpcs = more /\ t.closeCount = s.closeCount
        /\ t.state = "Starting" /\ t.stream = 0 /\ ~t.idle /\ ~t.handshake
        /\ t.pipeline = s.pipeline
    BY <1>1, <2>1 DEF RemoteStoreType
  <2> HIDE DEF t
  <2>5. \A n \in DOMAIN s.rpcs : ~Current(t, n)
    BY <2>3, <2>4 DEF Current, Sound
  <2>6. \A n \in DOMAIN more : n \in DOMAIN s.rpcs \/ n = Len(s.rpcs) + 1
    BY <2>2, <2>3
  <2>7. \A m, n \in DOMAIN more : Current(t, m) /\ Current(t, n) => m = n
    BY <2>5, <2>6
  <2>8. Phases(t)
    BY <2>3, <2>4, <2>6, <2>7 DEF Phases
  <2> QED BY <2>4, <2>8 DEF StoreInv, Drained, t
<1> QED BY <1>2, <1>3 DEF t

(* startWriteStream, if it is needed, starts a stream nothing calls back.  *)
LEMMA StartIfNeededStays ==
  ASSUME NEW s, Sane(s), NEW queue, CallbacksSound(s, queue),
         Linked(s, queue)
  PROVE  StoreInv(StartIfNeeded(s)) /\ Linked(StartIfNeeded(s), queue)
<1> DEFINE t == StartStream(s)
<1>1. CASE ShouldStartWriteStream(s)
  <2>1. ~UnderWay(s) /\ s.stream = 0 /\ ~s.idle /\ ~s.backoff
        /\ s.pipeline # <<>>
    BY <1>1, StoppedLinked
       DEF ShouldStartWriteStream, Sane, UnderWay, IsStarted, IsOpen,
           StoreInv, Drained, Sound
  <2>2. StoreInv(t) /\ ~t.handshake /\ StoreOK(t)
    BY <2>1, StartStreamStays, StartStreamOK DEF Sane, StoreInv
  <2>3. t.closeCount = s.closeCount
    BY DEF StartStream, PerformBackoff, Auth, Sane, StoreOK, RemoteStoreType
  <2> HIDE DEF t
  <2>4. \A i \in DOMAIN queue : ~LiveIn(t, queue, i)
    BY <2>1, <2>3 DEF CallbacksSound, LiveIn
  <2>5. Linked(t, queue)
    BY <2>2, <2>4, SilentLinked
  <2> QED BY <1>1, <2>2, <2>5 DEF StartIfNeeded, t
<1>2. CASE ~ShouldStartWriteStream(s)
  BY <1>2 DEF StartIfNeeded, Sane
<1> QED BY <1>1, <1>2

----------------------------------------------------------------------------
(* Requests beyond the answers                                             *)

(* What is left of a sequence after its first k elements.                  *)
LEMMA Suffix ==
  ASSUME NEW S, NEW p \in Seq(S), NEW k \in 0 .. Len(p)
  PROVE  LET r == SubSeq(p, k + 1, Len(p))
         IN  /\ r \in Seq(S) /\ Len(r) = Len(p) - k
             /\ \A i \in 1 .. Len(p) - k : r[i] = p[k + i]
             /\ \A t \in Seq(S) :
                  /\ Len(t) = Len(p) - k
                  /\ \A i \in 1 .. Len(p) - k : t[i] = p[k + i]
                  => t = r
<1> DEFINE r == SubSeq(p, k + 1, Len(p))
<1>1. Len(p) \in Nat /\ DOMAIN p = 1 .. Len(p) /\ k \in Nat /\ k <= Len(p)
  BY LenProperties
<1>2. \A i \in k + 1 .. Len(p) : p[i] \in S
  <2> SUFFICES ASSUME NEW i \in k + 1 .. Len(p) PROVE p[i] \in S
    OBVIOUS
  <2>1. i \in 1 .. Len(p)
    BY <1>1
  <2> QED BY <1>1, <2>1, ElementOfSeq
<1>3. /\ r \in Seq(S)
      /\ Len(r) = IF k + 1 <= Len(p) THEN Len(p) - (k + 1) + 1 ELSE 0
      /\ \A i \in 1 .. Len(p) - (k + 1) + 1 : r[i] = p[(k + 1) + i - 1]
  <2>1. k + 1 \in Int /\ Len(p) \in Int
    BY <1>1
  <2> QED BY <1>2, <2>1, SubSeqProperties
<1> HIDE DEF r
<1>4. Len(r) = Len(p) - k
  <2>1. Len(r) = IF k + 1 <= Len(p) THEN Len(p) - (k + 1) + 1 ELSE 0
    BY <1>3
  <2>2. Len(p) \in Nat /\ k \in Nat /\ k <= Len(p)
    BY <1>1
  <2> QED BY <2>1, <2>2
<1>5. \A i \in 1 .. Len(p) - k : r[i] = p[k + i]
  <2> SUFFICES ASSUME NEW i \in 1 .. Len(p) - k PROVE r[i] = p[k + i]
    OBVIOUS
  <2>1. i \in 1 .. Len(p) - (k + 1) + 1 /\ (k + 1) + i - 1 = k + i
    BY <1>1
  <2> QED BY <1>3, <2>1
<1>6. ASSUME NEW t \in Seq(S), Len(t) = Len(p) - k,
             \A i \in 1 .. Len(p) - k : t[i] = p[k + i]
      PROVE  t = r
  BY <1>3, <1>4, <1>5, <1>6, SeqEqual
<1> QED BY <1>3, <1>4, <1>5, <1>6 DEF r

(* Requests that are sent follow the ones before.                          *)
LEMMA SuffixConcat ==
  ASSUME NEW S, NEW p \in Seq(S), NEW bs \in Seq(S), NEW k \in 0 .. Len(p)
  PROVE  /\ SubSeq(p, k + 1, Len(p)) \o bs =
              SubSeq(p \o bs, k + 1, Len(p \o bs))
         /\ p \o bs \in Seq(S) /\ Len(p) <= Len(p \o bs)
         /\ Len(p) \in Nat /\ Len(p \o bs) \in Nat
         /\ \A i \in 1 .. Len(p) : (p \o bs)[i] = p[i]
<1> DEFINE w == p \o bs
           r == SubSeq(p, k + 1, Len(p))
           t == r \o bs
<1>1. Len(p) \in Nat /\ Len(bs) \in Nat /\ k \in Nat /\ k <= Len(p)
  BY LenProperties
<1>2. /\ w \in Seq(S) /\ Len(w) = Len(p) + Len(bs)
      /\ \A i \in 1 .. Len(p) + Len(bs) :
           w[i] = IF i <= Len(p) THEN p[i] ELSE bs[i - Len(p)]
  BY ConcatProperties, Zenon
<1>3. /\ r \in Seq(S) /\ Len(r) = Len(p) - k
      /\ \A i \in 1 .. Len(p) - k : r[i] = p[k + i]
  BY Suffix
<1> HIDE DEF w, r
<1>4. /\ t \in Seq(S) /\ Len(t) = Len(r) + Len(bs)
      /\ \A i \in 1 .. Len(r) + Len(bs) :
           t[i] = IF i <= Len(r) THEN r[i] ELSE bs[i - Len(r)]
  BY <1>3, ConcatProperties, Zenon
<1> HIDE DEF t
<1>5. k \in 0 .. Len(w) /\ Len(t) = Len(w) - k
  BY <1>1, <1>2, <1>3, <1>4
<1>6. ASSUME NEW i \in 1 .. Len(w) - k PROVE t[i] = w[k + i]
  <2>1. i \in 1 .. Len(r) + Len(bs) /\ k + i \in 1 .. Len(p) + Len(bs)
    BY <1>1, <1>2, <1>3
  <2>2. CASE i <= Len(r)
    <3>1. i \in 1 .. Len(p) - k /\ k + i <= Len(p)
      BY <1>1, <1>3, <2>1, <2>2
    <3> QED BY <1>2, <1>3, <1>4, <2>1, <2>2, <3>1
  <2>3. CASE i > Len(r)
    <3>1. ~(i <= Len(r)) /\ ~(k + i <= Len(p))
          /\ (k + i) - Len(p) = i - Len(r)
      BY <1>1, <1>3, <2>1, <2>3
    <3> QED BY <1>2, <1>4, <2>1, <3>1
  <2>4. i <= Len(r) \/ i > Len(r)
    BY <1>1, <1>3
  <2> QED BY <2>2, <2>3, <2>4, Zenon
<1>7. t = SubSeq(w, k + 1, Len(w))
  BY <1>2, <1>4, <1>5, <1>6, Suffix
<1>8. Len(p) <= Len(w) /\ Len(w) \in Nat
  BY <1>1, <1>2
<1>9. \A i \in 1 .. Len(p) : w[i] = p[i]
  BY <1>1, <1>2
<1> QED BY <1>1, <1>2, <1>7, <1>8, <1>9 DEF w, t, r

(* The first of the requests is answered, or popped with its batch.        *)
LEMMA SuffixTail ==
  ASSUME NEW S, NEW p \in Seq(S), p # <<>>, NEW k \in 0 .. Len(p)
  PROVE  LET r == SubSeq(p, k + 1, Len(p))
         IN  /\ r # <<>> => /\ k + 1 <= Len(p) /\ Head(r) = p[k + 1]
                            /\ Tail(r) = SubSeq(p, (k + 1) + 1, Len(p))
             /\ k # 0 => /\ r = SubSeq(Tail(p), (k - 1) + 1, Len(Tail(p)))
                         /\ k - 1 \in 0 .. Len(Tail(p))
             /\ Len(Tail(p)) = Len(p) - 1 /\ Tail(p) \in Seq(S)
             /\ \A i \in 1 .. Len(p) - 1 : Tail(p)[i] = p[i + 1]
<1> DEFINE r == SubSeq(p, k + 1, Len(p))
<1>1. Len(p) \in Nat /\ k \in Nat /\ k <= Len(p)
  BY LenProperties
<1>2. /\ r \in Seq(S) /\ Len(r) = Len(p) - k
      /\ \A i \in 1 .. Len(p) - k : r[i] = p[k + i]
      /\ \A t \in Seq(S) :
           /\ Len(t) = Len(p) - k
           /\ \A i \in 1 .. Len(p) - k : t[i] = p[k + i]
           => t = r
  BY Suffix
<1>3. /\ Tail(p) \in Seq(S) /\ Len(Tail(p)) = Len(p) - 1
      /\ \A i \in 1 .. Len(p) - 1 : Tail(p)[i] = p[i + 1]
  BY HeadTailProperties
<1> HIDE DEF r
<1>4. ASSUME r # <<>>
      PROVE  /\ k + 1 <= Len(p) /\ Head(r) = p[k + 1]
             /\ Tail(r) = SubSeq(p, (k + 1) + 1, Len(p))
  <2>1. Len(r) # 0 /\ Len(r) \in Nat
    BY <1>2, <1>4, EmptySeq, LenProperties
  <2>2. k + 1 \in 0 .. Len(p)
    <3>1. Len(r) = Len(p) - k
      BY <1>2
    <3> QED BY <1>1, <2>1, <3>1
  <2>3. Head(r) = r[1] /\ Tail(r) \in Seq(S) /\ Len(Tail(r)) = Len(r) - 1
        /\ \A i \in 1 .. Len(r) - 1 : Tail(r)[i] = r[i + 1]
    BY <1>2, <1>4, HeadTailProperties
  <2>4. r[1] = p[k + 1]
    BY <1>1, <1>2, <2>1
  <2>5. ASSUME NEW i \in 1 .. Len(p) - (k + 1)
        PROVE  Tail(r)[i] = p[(k + 1) + i]
    <3>1. i \in 1 .. Len(r) - 1 /\ i + 1 \in 1 .. Len(p) - k
          /\ k + (i + 1) = (k + 1) + i
      BY <1>1, <1>2
    <3> QED BY <1>2, <2>3, <3>1
  <2>6. Len(Tail(r)) = Len(p) - (k + 1) /\ Tail(r) \in Seq(S)
    BY <1>1, <1>2, <2>3
  <2>7. Tail(r) = SubSeq(p, (k + 1) + 1, Len(p))
    <3> DEFINE j == k + 1
    <3>1. \A t \in Seq(S) :
            /\ Len(t) = Len(p) - j
            /\ \A i \in 1 .. Len(p) - j : t[i] = p[j + i]
            => t = SubSeq(p, j + 1, Len(p))
      <4>1. j \in 0 .. Len(p)
        BY <2>2
      <4> HIDE DEF j
      <4> QED BY <4>1, Suffix
    <3> HIDE DEF j
    <3>2. Len(Tail(r)) = Len(p) - j
          /\ \A i \in 1 .. Len(p) - j : Tail(r)[i] = p[j + i]
      BY <2>5, <2>6 DEF j
    <3> QED BY <2>6, <3>1, <3>2 DEF j
  <2> QED BY <1>1, <2>2, <2>3, <2>4, <2>7
<1>5. ASSUME k # 0
      PROVE  /\ r = SubSeq(Tail(p), (k - 1) + 1, Len(Tail(p)))
             /\ k - 1 \in 0 .. Len(Tail(p))
  <2> DEFINE q == Tail(p)
             j == k - 1
  <2>1. /\ q \in Seq(S) /\ Len(q) = Len(p) - 1
        /\ \A i \in 1 .. Len(p) - 1 : q[i] = p[i + 1]
    BY <1>3
  <2> HIDE DEF q
  <2>2. j \in 0 .. Len(q) /\ Len(r) = Len(q) - j
    BY <1>1, <1>2, <1>5, <2>1
  <2>3. ASSUME NEW i \in 1 .. Len(q) - j PROVE r[i] = q[j + i]
    <3>1. i \in 1 .. Len(p) - k /\ j + i \in 1 .. Len(p) - 1
          /\ (j + i) + 1 = k + i
      BY <1>1, <1>5, <2>1
    <3> QED BY <1>2, <2>1, <3>1
  <2> HIDE DEF j
  <2>4. r = SubSeq(q, j + 1, Len(q))
    BY <1>2, <2>1, <2>2, <2>3, Suffix
  <2> QED BY <2>2, <2>4 DEF q, j
<1> QED BY <1>3, <1>4, <1>5 DEF r

(* t is s with messages sent on the RPC, unless that has ended.            *)
Sends(s, t, msgs) ==
  /\ t.state = s.state /\ t.closeCount = s.closeCount
  /\ t.handshake = s.handshake /\ ~t.idle /\ t.stream = s.stream
  /\ t.pipeline = s.pipeline
  /\ DOMAIN t.rpcs = DOMAIN s.rpcs /\ s.stream \in DOMAIN s.rpcs
  /\ \A n \in DOMAIN s.rpcs :
       /\ n # s.stream => t.rpcs[n] = s.rpcs[n]
       /\ t.rpcs[n].cc = s.rpcs[n].cc
       /\ t.rpcs[n].phase = s.rpcs[n].phase
       /\ t.rpcs[n].user = s.rpcs[n].user
  /\ s.rpcs[s.stream].phase = "closed" =>
       t.rpcs[s.stream].reqs = s.rpcs[s.stream].reqs
  /\ s.rpcs[s.stream].phase # "closed" =>
       t.rpcs[s.stream].reqs = s.rpcs[s.stream].reqs \o msgs

(* sendRequest adds to the requests of the stream's RPC, unless it ended.  *)
LEMMA SendRequests ==
  ASSUME NEW s, StoreOK(s), s.stream # 0, NEW msgs \in Seq(Nat), msgs # <<>>
  PROVE  Sends(s, Send(s, msgs), msgs)
<1> DEFINE sent == [s.rpcs EXCEPT ![s.stream] = Sent(@, msgs)]
           t == Send(s, msgs)
<1>1. /\ s \in RemoteStoreType /\ s.rpcs \in Seq(RpcType)
      /\ s.stream \in DOMAIN s.rpcs
  BY DEF StoreOK, RemoteStoreType
<1>2. s.rpcs[s.stream] \in RpcType
  BY <1>1, ElementOfSeq, LenProperties
<1>3. t = [s EXCEPT !.idle = FALSE, !.rpcs = sent]
  BY <1>1 DEF Send, RemoteStoreType
<1>4. /\ DOMAIN sent = DOMAIN s.rpcs
      /\ sent[s.stream] = Sent(s.rpcs[s.stream], msgs)
      /\ \A n \in DOMAIN s.rpcs : n # s.stream => sent[n] = s.rpcs[n]
  BY <1>1
<1> HIDE DEF sent
<1>5. /\ t.state = s.state /\ t.closeCount = s.closeCount
      /\ t.handshake = s.handshake /\ ~t.idle /\ t.stream = s.stream
      /\ t.pipeline = s.pipeline /\ t.causes = s.causes /\ t.rpcs = sent
  BY <1>1, <1>3 DEF RemoteStoreType
<1> HIDE DEF t
<1>6. /\ sent[s.stream].cc = s.rpcs[s.stream].cc
      /\ sent[s.stream].phase = s.rpcs[s.stream].phase
      /\ sent[s.stream].user = s.rpcs[s.stream].user
  BY <1>2, <1>4, SentOK
<1>7. /\ s.rpcs[s.stream].phase = "closed" =>
           sent[s.stream].reqs = s.rpcs[s.stream].reqs
      /\ s.rpcs[s.stream].phase # "closed" =>
           sent[s.stream].reqs = s.rpcs[s.stream].reqs \o msgs
  <2> DEFINE r == s.rpcs[s.stream]
  <2>1. r \in RpcType /\ sent[s.stream] = Sent(r, msgs)
    BY <1>2, <1>4
  <2> HIDE DEF r
  <2>2. /\ r.phase = "closed" => sent[s.stream].reqs = r.reqs
        /\ r.phase # "closed" => sent[s.stream].reqs = r.reqs \o msgs
    BY <2>1, SentOK
  <2> QED BY <2>2 DEF r
<1>8. \A n \in DOMAIN s.rpcs :
        /\ n # s.stream => sent[n] = s.rpcs[n]
        /\ sent[n].cc = s.rpcs[n].cc
        /\ sent[n].phase = s.rpcs[n].phase
        /\ sent[n].user = s.rpcs[n].user
  BY <1>4, <1>6
<1> QED BY <1>1, <1>4, <1>5, <1>7, <1>8, Zenon DEF Sends, t

(* Phases does not look at requests past authentication.                   *)
LEMMA PhasesKept ==
  ASSUME NEW s, NEW t, Phases(s), t.closeCount = s.closeCount,
         t.stream = s.stream, DOMAIN t.rpcs = DOMAIN s.rpcs,
         \A n \in DOMAIN s.rpcs :
           \/ t.rpcs[n] = s.rpcs[n]
           \/ /\ t.rpcs[n].cc = s.rpcs[n].cc
              /\ t.rpcs[n].user = s.rpcs[n].user
              /\ t.rpcs[n].phase = s.rpcs[n].phase
              /\ s.rpcs[n].phase \notin {"auth", "token"}
  PROVE  Phases(t)
<1>1. \A n \in DOMAIN s.rpcs :
        /\ t.rpcs[n].cc = s.rpcs[n].cc
        /\ t.rpcs[n].user = s.rpcs[n].user
        /\ t.rpcs[n].phase = s.rpcs[n].phase
        /\ s.rpcs[n].phase \in {"auth", "token"} =>
             t.rpcs[n].reqs = s.rpcs[n].reqs
  OBVIOUS
<1> QED BY <1>1 DEF Phases, Current

(* Calls looks at how far the attempts are, never at their requests.       *)
LEMMA CallsKept ==
  ASSUME NEW s, NEW t, NEW queue, Calls(s, queue), StoreOK(s),
         t.closeCount = s.closeCount, t.stream = s.stream,
         t.state = s.state, t.handshake = s.handshake,
         DOMAIN t.rpcs = DOMAIN s.rpcs,
         \A n \in DOMAIN s.rpcs : /\ t.rpcs[n].cc = s.rpcs[n].cc
                                  /\ t.rpcs[n].phase = s.rpcs[n].phase
  PROVE  Calls(t, queue)
<1>1. \A i : LiveIn(t, queue, i) <=> LiveIn(s, queue, i)
  BY DEF LiveIn
<1>2. \A n \in DOMAIN s.rpcs : Current(t, n) <=> Current(s, n)
  BY DEF Current
<1>3. \A i \in DOMAIN queue :
        LiveIn(s, queue, i) /\ queue[i].kind = "handshake" =>
          t.rpcs[t.stream].phase = s.rpcs[s.stream].phase
  <2>1. s.stream # 0 => t.rpcs[t.stream].phase = s.rpcs[s.stream].phase
    BY DEF StoreOK
  <2> QED BY <2>1 DEF Calls, Closing
<1> SUFFICES ASSUME NEW i \in DOMAIN queue, LiveIn(t, queue, i)
             PROVE  /\ \A n \in DOMAIN t.rpcs :
                         t.rpcs[n].phase \in {"auth", "token", "connecting"}
                           => ~Current(t, n)
                    /\ queue[i].kind \notin Closing => t.stream # 0
                    /\ queue[i].kind = "open" => t.state = "Starting"
                    /\ queue[i].kind = "handshake" =>
                         /\ t.state = "Open" /\ ~t.handshake
                         /\ t.rpcs[t.stream].phase \in {"ready", "closed"}
                    /\ queue[i].kind = "result" =>
                         t.state = "Open" /\ t.handshake
                    /\ queue[i].kind \in Closing =>
                         /\ \A n \in DOMAIN t.rpcs : ~Current(t, n)
                         /\ \A j \in DOMAIN queue :
                              LiveIn(t, queue, j) => j <= i
                    /\ \A j \in DOMAIN queue :
                         /\ LiveIn(t, queue, j)
                         /\ queue[i].kind \in {"open", "handshake"}
                         /\ queue[j].kind = queue[i].kind
                         => j = i
  BY Zenon DEF Calls
<1>4. LiveIn(s, queue, i)
  BY <1>1
<1>5. \A n \in DOMAIN s.rpcs :
        s.rpcs[n].phase \in {"auth", "token", "connecting"} => ~Current(s, n)
  BY <1>4 DEF Calls
<1>6. /\ queue[i].kind \notin Closing => s.stream # 0
      /\ queue[i].kind = "open" => s.state = "Starting"
      /\ queue[i].kind = "handshake" =>
           /\ s.state = "Open" /\ ~s.handshake
           /\ s.rpcs[s.stream].phase \in {"ready", "closed"}
      /\ queue[i].kind = "result" => s.state = "Open" /\ s.handshake
  BY <1>4 DEF Calls
<1>7. /\ queue[i].kind \in Closing =>
           /\ \A n \in DOMAIN s.rpcs : ~Current(s, n)
           /\ \A j \in DOMAIN queue : LiveIn(s, queue, j) => j <= i
      /\ \A j \in DOMAIN queue :
           /\ LiveIn(s, queue, j)
           /\ queue[i].kind \in {"open", "handshake"}
           /\ queue[j].kind = queue[i].kind
           => j = i
  BY <1>4 DEF Calls
<1>8. \A n \in DOMAIN t.rpcs :
        t.rpcs[n].phase \in {"auth", "token", "connecting"} => ~Current(t, n)
  BY <1>2, <1>5
<1>9. queue[i].kind \in Closing =>
        /\ \A n \in DOMAIN t.rpcs : ~Current(t, n)
        /\ \A j \in DOMAIN queue : LiveIn(t, queue, j) => j <= i
  BY <1>1, <1>2, <1>7
<1>10. \A j \in DOMAIN queue :
        /\ LiveIn(t, queue, j)
        /\ queue[i].kind \in {"open", "handshake"}
        /\ queue[j].kind = queue[i].kind
        => j = i
  BY <1>1, <1>7
<1> QED BY <1>3, <1>4, <1>6, <1>8, <1>9, <1>10

(* addToWritePipeline sends what it adds, once there has been a handshake. *)
LEMMA AddToWritePipelineStays ==
  ASSUME NEW s, Sane(s), NEW bs \in Seq(BatchIds),
         NEW queue \in Seq(TaskType), Linked(s, queue)
  PROVE  LET t == AddToWritePipeline(s, bs)
         IN  StoreInv(t) /\ Linked(t, queue)
<1> DEFINE added == [s EXCEPT !.pipeline = @ \o bs]
           t == AddToWritePipeline(s, bs)
           A == Answers(s, queue)
           k == Cardinality(A)
           p == s.pipeline
<1>1. /\ s \in RemoteStoreType /\ StoreOK(s) /\ p \in Seq(BatchIds)
      /\ p \in Seq(Nat) /\ bs \in Seq(Nat)
  <2>1. StoreOK(s) /\ s \in RemoteStoreType /\ p \in Seq(BatchIds)
    BY DEF Sane, StoreOK, RemoteStoreType
  <2>2. BatchIds \subseteq Nat
    BY DEF BatchIds
  <2>3. p \in Seq(Nat) /\ bs \in Seq(Nat)
    <3> HIDE DEF p
    <3> QED BY <2>1, <2>2, SeqMonotonic
  <2> QED BY <2>1, <2>3
<1>2. /\ added.state = s.state /\ added.closeCount = s.closeCount
      /\ added.handshake = s.handshake /\ added.stream = s.stream
      /\ added.pipeline = p \o bs /\ added.rpcs = s.rpcs
      /\ added.idle = s.idle
  BY <1>1 DEF RemoteStoreType
<1>3. k \in 0 .. Len(p)
  <2>1. Cardinality(A) <= Len(s.pipeline)
    BY DEF Linked, Correlated
  <2>2. Cardinality(A) \in Nat
    BY AnswersType
  <2>3. Len(p) \in Nat
    BY <1>1, LenProperties
  <2> QED BY <2>1, <2>2, <2>3
<1> HIDE DEF k
<1>4. /\ SubSeq(p, k + 1, Len(p)) \o bs = SubSeq(p \o bs, k + 1, Len(p \o bs))
      /\ Len(p) <= Len(p \o bs)
      /\ Len(p) \in Nat /\ Len(p \o bs) \in Nat
      /\ \A i \in 1 .. Len(p) : (p \o bs)[i] = p[i]
  <2>1. p \in Seq(BatchIds)
    BY <1>1
  <2> HIDE DEF p
  <2> QED BY <1>3, <2>1, SuffixConcat, Zenon
<1>5. bs # <<>> => p \o bs # <<>>
  <2> HIDE DEF p
  <2> QED BY <1>1, ConcatEmptySeq, ConcatProperties, EmptySeq, LenProperties
<1>6. bs = <<>> => added = s
  <2>1. bs = <<>> => p \o bs = p
    <3> HIDE DEF p
    <3> QED BY <1>1, ConcatEmptySeq
  <2>2. added = [s EXCEPT !.pipeline = p \o bs]
    OBVIOUS
  <2> HIDE DEF added
  <2> QED BY <1>1, <2>1, <2>2 DEF RemoteStoreType
<1>7. s.idle => IsOpen(s) /\ s.handshake /\ p = <<>>
  BY DEF Sane, StoreInv, Drained, IsStarted
<1>8. s.stream # 0 => s.state = "Open" \/ ~s.handshake
  BY DEF Sane, StoreInv, Attempt, UnderWay
<1> HIDE DEF A, added
<1>9. Correlated(s, queue) /\ ErrorNamesNext(s, queue) /\ Calls(s, queue)
  BY DEF Linked
<1>10. /\ k <= Len(p)
       /\ \A i \in A : Rank(A, i) \in 1 .. Len(p)
       /\ \A i \in A : queue[i].batch = (p \o bs)[Rank(A, i)]
  <2>1. A \subseteq 1 .. Len(queue) /\ Len(queue) \in Nat
    BY AnswersType DEF A
  <2>2. ASSUME NEW i \in A PROVE Rank(A, i) \in 1 .. Len(p)
    <3>1. Rank(A, i) \in 1 .. k
      BY <2>1, RankType DEF k
    <3> QED BY <1>3, <1>4, <3>1
  <2>3. \A i \in A : queue[i].batch = p[Rank(A, i)]
    BY <1>9 DEF Correlated, A
  <2> HIDE DEF p
  <2> QED BY <1>3, <1>4, <2>2, <2>3
<1>a. /\ k <= Len(p \o bs)
      /\ k < Len(p) => k < Len(p \o bs) /\ (p \o bs)[k + 1] = p[k + 1]
  <2> DEFINE w == p \o bs
             m == Len(w)
             n == Len(p)
  <2>1. k \in Nat /\ n \in Nat /\ m \in Nat /\ k <= n /\ n <= m
    BY <1>3, <1>4
  <2>2. \A i \in 1 .. n : w[i] = p[i]
    BY <1>4
  <2> HIDE DEF w, m, n, p
  <2>3. k < n => k + 1 \in 1 .. n
    BY <2>1
  <2>4. k <= m /\ (k < n => k < m)
    BY <2>1
  <2>5. k < n => w[k + 1] = p[k + 1]
    BY <2>2, <2>3
  <2> QED BY <2>4, <2>5 DEF w, m, n
<1>11. CASE bs = <<>>
  <2>1. t = s
    BY <1>6, <1>11 DEF AddToWritePipeline, Send, added
  <2> QED BY <2>1 DEF Sane
<1>12. CASE bs # <<>> /\ ~(IsOpen(s) /\ s.handshake)
  <2>1. t = added
    BY <1>2, <1>12 DEF AddToWritePipeline, IsOpen, added
  <2> HIDE DEF t
  <2>2. ~s.idle /\ (s.stream # 0 => ~s.handshake)
    BY <1>7, <1>8, <1>12 DEF IsOpen
  <2>3. Phases(t) /\ Calls(t, queue)
    BY <1>1, <1>2, <1>9, <2>1, PhasesKept, CallsKept DEF Sane, StoreInv
  <2>4. StoreInv(t)
    BY <1>2, <1>5, <1>12, <2>1, <2>2, <2>3
       DEF Sane, StoreInv, Attempt, Drained, IsStarted, IsOpen, UnderWay
  <2>5. Answers(t, queue) = A
    BY <1>2, <2>1 DEF Answers, A
  <2>6. Correlated(t, queue)
    BY <1>2, <1>10, <1>a, <2>1, <2>2, <2>5 DEF Correlated, k
  <2>7. ErrorNamesNext(t, queue)
    <3>1. \A i : LiveIn(t, queue, i) <=> LiveIn(s, queue, i)
      BY <1>2, <2>1 DEF LiveIn
    <3> QED BY <1>2, <1>9, <1>a, <2>1, <2>5, <3>1 DEF ErrorNamesNext, A, k
  <2> QED BY <2>3, <2>4, <2>6, <2>7 DEF Linked, t
<1>13. CASE bs # <<>> /\ IsOpen(s) /\ s.handshake
  <2>1. t = Send(added, bs)
    BY <1>2, <1>13 DEF AddToWritePipeline, IsOpen, added
  <2>2. s.stream # 0 /\ StoreOK(added)
    <3>1. p \o bs \in Seq(BatchIds)
      BY <1>1, ConcatProperties
    <3> QED BY <1>1, <1>13, <3>1
            DEF Sane, StoreInv, IsOpen, StoreOK, RemoteStoreType, added
  <2> HIDE DEF t
  <2>3. /\ t.state = s.state /\ t.closeCount = s.closeCount
        /\ t.handshake /\ s.handshake /\ ~t.idle /\ t.stream = s.stream
        /\ t.pipeline = p \o bs /\ DOMAIN t.rpcs = DOMAIN s.rpcs
        /\ \A n \in DOMAIN s.rpcs : n # s.stream => t.rpcs[n] = s.rpcs[n]
        /\ s.stream \in DOMAIN s.rpcs
        /\ t.rpcs[s.stream].cc = s.rpcs[s.stream].cc
        /\ t.rpcs[s.stream].phase = s.rpcs[s.stream].phase
        /\ t.rpcs[s.stream].user = s.rpcs[s.stream].user
        /\ s.rpcs[s.stream].phase # "closed" =>
             t.rpcs[s.stream].reqs = s.rpcs[s.stream].reqs \o bs
    <3>1. added.stream # 0 /\ bs \in Seq(Nat) /\ bs # <<>>
      BY <1>1, <1>2, <1>13, <2>2
    <3>2. Sends(added, t, bs)
      BY <2>1, <2>2, <3>1, SendRequests
    <3> QED BY <1>2, <1>13, <3>2 DEF Sends
  <2>4. Attempt(s, s.rpcs[s.stream])
    BY <2>2 DEF Sane, StoreInv
  <2>5. /\ s.state = "Open" /\ t.state = "Open"
        /\ s.rpcs[s.stream].phase \notin {"auth", "token", "connecting", "open"}
    BY <1>13, <2>3, <2>4 DEF Attempt, IsOpen
  <2>6. Phases(t) /\ Calls(t, queue)
    <3>1. \A n \in DOMAIN s.rpcs : \/ t.rpcs[n] = s.rpcs[n]
                                   \/ n = s.stream
      BY <2>3
    <3>2. \A n \in DOMAIN s.rpcs : /\ t.rpcs[n].cc = s.rpcs[n].cc
                                   /\ t.rpcs[n].phase = s.rpcs[n].phase
      BY <2>3
    <3>3. Phases(t)
      <4>1. \A n \in DOMAIN s.rpcs :
              \/ t.rpcs[n] = s.rpcs[n]
              \/ /\ t.rpcs[n].cc = s.rpcs[n].cc
                 /\ t.rpcs[n].user = s.rpcs[n].user
                 /\ t.rpcs[n].phase = s.rpcs[n].phase
                 /\ s.rpcs[n].phase \notin {"auth", "token"}
        BY <2>3, <2>5, <3>1
      <4>2. Phases(s) /\ t.closeCount = s.closeCount
            /\ t.stream = s.stream /\ DOMAIN t.rpcs = DOMAIN s.rpcs
        BY <2>3 DEF Sane, StoreInv
      <4> QED BY <4>1, <4>2, PhasesKept
    <3> QED BY <1>1, <1>9, <2>3, <3>2, <3>3, CallsKept
  <2>7. StoreInv(t)
    <3>1. Attempt(t, t.rpcs[t.stream])
      BY <2>3, <2>4, <2>5 DEF Attempt, UnderWay
    <3> QED BY <1>5, <1>13, <2>2, <2>3, <2>5, <2>6, <3>1
            DEF StoreInv, Drained, IsStarted, IsOpen
  <2>8. Answers(t, queue) = A
    BY <2>3 DEF Answers, A
  <2>9. Correlated(t, queue)
    <3>1. s.rpcs[s.stream].phase = "ready" =>
            t.rpcs[s.stream].reqs = SubSeq(p \o bs, k + 1, Len(p \o bs))
      BY <1>4, <1>9, <2>2, <2>3 DEF Correlated, A, k
    <3> QED BY <1>10, <1>a, <2>3, <2>8, <3>1 DEF Correlated, k
  <2>10. ErrorNamesNext(t, queue)
    <3>1. \A i : LiveIn(t, queue, i) <=> LiveIn(s, queue, i)
      BY <2>3 DEF LiveIn
    <3> QED BY <1>9, <1>a, <2>3, <2>8, <3>1 DEF ErrorNamesNext, A, k
  <2> QED BY <2>6, <2>7, <2>9, <2>10 DEF Linked, t
<1> QED BY <1>11, <1>12, <1>13

(* Nothing that is linked looks at the timers or at the causes.            *)
LEMMA LinkedKept ==
  ASSUME NEW s, NEW t, NEW queue, Linked(s, queue),
         t.closeCount = s.closeCount, t.stream = s.stream,
         t.state = s.state, t.handshake = s.handshake,
         t.rpcs = s.rpcs, t.pipeline = s.pipeline
  PROVE  Linked(t, queue)
<1>1. \A i : LiveIn(t, queue, i) <=> LiveIn(s, queue, i)
  BY DEF LiveIn
<1>2. \A n : Current(t, n) <=> Current(s, n)
  BY DEF Current
<1>3. Answers(t, queue) = Answers(s, queue)
  BY DEF Answers
<1>4. Correlated(t, queue)
  BY <1>3 DEF Linked, Correlated
<1>5. ErrorNamesNext(t, queue)
  BY <1>1, <1>3 DEF Linked, ErrorNamesNext
<1>6. Calls(t, queue)
  BY <1>1, <1>2, Zenon DEF Linked, Calls
<1> QED BY <1>4, <1>5, <1>6 DEF Linked

(* markIdle is for a stream that has nothing to send.                      *)
LEMMA MarkIdleStays ==
  ASSUME NEW s, Sane(s), s.pipeline = <<>>, NEW queue, Linked(s, queue)
  PROVE  Sane(MarkIdle(s)) /\ Linked(MarkIdle(s), queue)
<1> DEFINE t == MarkIdle(s)
<1>1. /\ t.state = s.state /\ t.closeCount = s.closeCount
      /\ t.handshake = s.handshake /\ t.stream = s.stream
      /\ t.pipeline = s.pipeline /\ t.rpcs = s.rpcs /\ t.backoff = s.backoff
      /\ t.idle = s.idle \/ IsOpen(s)
  BY DEF MarkIdle, Sane, StoreOK, RemoteStoreType
<1>2. StoreOK(t)
  BY DEF MarkIdle, Sane, StoreOK, RemoteStoreType
<1> HIDE DEF t
<1>3. Sound(t)
  BY <1>1 DEF Sane, Sound, UnderWay
<1>4. Phases(t)
  BY <1>1 DEF Sane, StoreInv, Phases, Current
<1>5. StoreInv(t)
  BY <1>1, <1>4
     DEF Sane, StoreInv, Attempt, Drained, IsStarted, IsOpen, UnderWay
<1> QED BY <1>1, <1>2, <1>3, <1>5, LinkedKept DEF Sane, t

(* fillWritePipeline keeps attempts, callbacks and requests in line.       *)
LEMMA FillWritePipelineStays ==
  ASSUME NEW s, Sane(s), NEW q \in Seq(BatchIds),
         NEW queue \in Seq(TaskType), CallbacksSound(s, queue),
         Linked(s, queue)
  PROVE  LET t == FillWritePipeline(s, q)
         IN  StoreInv(t) /\ Linked(t, queue)
<1> DEFINE filled == AddToWritePipeline(s, NextBatches(s, q))
           t == FillWritePipeline(s, q)
<1>1. NextBatches(s, q) \in Seq(BatchIds)
  BY NextBatchesType DEF Sane
<1>2. /\ Sane(filled) /\ Linked(filled, queue)
      /\ CallbacksSound(filled, queue)
  <2>1. StoreOK(filled) /\ Sound(filled) /\ Alike(s, filled)
    BY <1>1, AddToWritePipelineOK, AddToWritePipelineKeeps DEF Sane
  <2>2. StoreInv(filled) /\ Linked(filled, queue)
    BY <1>1, AddToWritePipelineStays
  <2> HIDE DEF filled
  <2>3. CallbacksSound(filled, queue)
    BY <2>1, EvolvesBasics, CallbacksEvolve DEF Sane
  <2> QED BY <2>1, <2>2, <2>3 DEF Sane
<1>3. CASE t = StartIfNeeded(s)
  BY <1>3, StartIfNeededStays
<1>4. CASE t = StartIfNeeded(filled)
  <2> HIDE DEF filled
  <2> QED BY <1>2, <1>4, StartIfNeededStays
<1>5. CASE t = StartIfNeeded(MarkIdle(filled)) /\ filled.pipeline = <<>>
  <2> DEFINE idle == MarkIdle(filled)
  <2> HIDE DEF filled
  <2>1. Sane(idle) /\ Linked(idle, queue)
    BY <1>2, <1>5, MarkIdleStays
  <2>2. CallbacksSound(idle, queue)
    <3>1. idle.state = filled.state /\ idle.closeCount = filled.closeCount
      BY <1>2 DEF MarkIdle, Sane, StoreOK, RemoteStoreType
    <3> HIDE DEF idle
    <3> QED BY <1>2, <3>1 DEF CallbacksSound, UnderWay
  <2>3. t = StartIfNeeded(idle)
    BY <1>5
  <2> HIDE DEF idle, t
  <2> QED BY <2>1, <2>2, <2>3, StartIfNeededStays DEF t
<1> QED BY <1>3, <1>4, <1>5 DEF FillWritePipeline

(* disableNetworkInternal, with a cause noted, stops the stream.           *)
LEMMA DisableNetworkInternalStays ==
  ASSUME NEW s, Sane(s), ~CanUseNetwork(s)
  PROVE  Sane(DisableNetworkInternal(s))
<1> DEFINE closed == CloseStream(s, "Initial")
           stopped == IF IsStarted(s) THEN StartIfNeeded(closed) ELSE s
           t == DisableNetworkInternal(s)
<1>1. StoreOK(closed) /\ StoreInv(closed) /\ closed.causes = s.causes
  BY CloseStreamOK, CloseStreamStays, CloseStreamKeeps, SoundIsPast
     DEF StreamStates, Sane, StoreInv
<1>2. StartIfNeeded(closed) = closed
  <2> HIDE DEF closed
  <2> QED BY <1>1 DEF StartIfNeeded, ShouldStartWriteStream, CanUseNetwork
<1>3. StoreOK(stopped) /\ StoreInv(stopped)
  <2> HIDE DEF closed
  <2> QED BY <1>1, <1>2 DEF Sane
<1>4. t = [stopped EXCEPT !.pipeline = <<>>]
  BY DEF DisableNetworkInternal
<1> HIDE DEF stopped
<1>5. /\ t.state = stopped.state /\ t.closeCount = stopped.closeCount
      /\ t.handshake = stopped.handshake /\ t.stream = stopped.stream
      /\ t.pipeline = <<>> /\ t.rpcs = stopped.rpcs /\ t.idle = stopped.idle
  BY <1>3, <1>4 DEF StoreOK, RemoteStoreType
<1>6. StoreOK(t) /\ Sound(t) /\ ~IsStarted(t)
  BY DisableNetworkInternalOK, DisableNetworkInternalKeeps DEF Sane
<1> HIDE DEF t
<1>7. Phases(t)
  BY <1>3, <1>5 DEF StoreInv, Phases, Current
<1>8. StoreInv(t)
  BY <1>3, <1>5, <1>6, <1>7
     DEF StoreInv, Attempt, Drained, UnderWay, IsOpen
<1> QED BY <1>6, <1>8 DEF Sane, t

(* The causes and, on a stopped stream, its state do not matter either.    *)
LEMMA ChangedStays ==
  ASSUME NEW s, Sane(s)
  PROVE  /\ \A c \in SUBSET OfflineCauses : Sane([s EXCEPT !.causes = c])
         /\ ~IsStarted(s) => Sane(InhibitBackoff(s))
<1>1. ASSUME NEW c \in SUBSET OfflineCauses
      PROVE  Sane([s EXCEPT !.causes = c])
  <2> DEFINE t == [s EXCEPT !.causes = c]
  <2>1. StoreOK(t) /\ Sound(t)
    BY ChangedOK, CausesKeep DEF Sane
  <2>2. /\ t.state = s.state /\ t.closeCount = s.closeCount
        /\ t.handshake = s.handshake /\ t.stream = s.stream
        /\ t.pipeline = s.pipeline /\ t.rpcs = s.rpcs /\ t.idle = s.idle
    BY DEF Sane, StoreOK, RemoteStoreType
  <2> HIDE DEF t
  <2>3. Phases(t)
    BY <2>2 DEF Sane, StoreInv, Phases, Current
  <2> QED BY <2>1, <2>2, <2>3 DEF Sane, StoreInv, Attempt, Drained,
                                  IsStarted, IsOpen, UnderWay, t
<1>2. ASSUME ~IsStarted(s) PROVE Sane(InhibitBackoff(s))
  <2> DEFINE t == InhibitBackoff(s)
  <2>1. StoreOK(t) /\ Sound(t)
    BY <1>2, ChangedOK, InhibitBackoffKeeps DEF Sane
  <2>2. /\ t.state = "Initial" /\ t.closeCount = s.closeCount
        /\ t.stream = s.stream /\ t.rpcs = s.rpcs /\ t.idle = s.idle
    BY DEF Sane, StoreOK, RemoteStoreType, InhibitBackoff
  <2> HIDE DEF t
  <2>3. s.stream = 0 /\ ~s.idle
    BY <1>2 DEF Sane, StoreInv, Attempt, Drained, IsStarted, IsOpen, UnderWay
  <2>4. Phases(t)
    BY <2>2 DEF Sane, StoreInv, Phases, Current
  <2> QED BY <2>1, <2>2, <2>3, <2>4 DEF Sane, StoreInv, Drained,
                                        IsStarted, IsOpen, t
<1> QED BY <1>1, <1>2

(* disableNetworkUntilRecovery likewise.                                   *)
LEMMA DisableNetworkUntilRecoveryStays ==
  ASSUME NEW s, Sane(s)
  PROVE  LET t == DisableNetworkUntilRecovery(s)
         IN  Sane(t) /\ ~UnderWay(t) /\ ~CanUseNetwork(t)
<1> DEFINE off == [s EXCEPT !.causes = @ \union {"IndexedDbFailed"}]
<1>1. s.causes \union {"IndexedDbFailed"} \in SUBSET OfflineCauses
  BY ChangedOK DEF OfflineCauses, Sane
<1>2. Sane(off)
  BY <1>1, ChangedStays
<1>3. ~CanUseNetwork(off)
  BY DEF CanUseNetwork, Sane, StoreOK, RemoteStoreType
<1>4. DisableNetworkUntilRecovery(s) = DisableNetworkInternal(off)
  BY DEF DisableNetworkUntilRecovery
<1> HIDE DEF off
<1>5. ~IsStarted(DisableNetworkInternal(off))
      /\ DisableNetworkInternal(off).causes = off.causes
  BY <1>2, <1>3, DisableNetworkInternalKeeps DEF Sane
<1> QED BY <1>2, <1>3, <1>4, <1>5, DisableNetworkInternalStays
        DEF IsStarted, IsOpen, UnderWay, CanUseNetwork

----------------------------------------------------------------------------
(* What the handlers are made of                                           *)

(* A pipeline that fillWritePipeline may extend to the front of q.         *)
Fillable(s, q) ==
  CanUseNetwork(s) => Prefix(s.pipeline, q) /\ Len(s.pipeline) <= MaxPending

(* fillWritePipeline, whether its reads succeed or not, keeps callbacks    *)
(* and requests in line and leaves the front of the queue in flight.       *)
LEMMA FillStays ==
  ASSUME NEW s, Sane(s), Quiet(s), NEW q \in Seq(BatchIds), Ascends(q),
         Fillable(s, q), NEW rest \in Seq(TaskType), NEW spent,
         CallbacksSound(s, rest), Linked(s, rest), Fill(s, q, rest, spent)
  PROVE  StoreInv(rs') /\ Linked(rs', tasks') /\ Mirrors(rs', q)
<1>1. CASE rs' = FillWritePipeline(s, q) /\ tasks' = rest
  <2> DEFINE t == FillWritePipeline(s, q)
  <2>1. StoreInv(t) /\ Linked(t, rest)
    BY FillWritePipelineStays
  <2>2. t.causes = s.causes
    BY FillWritePipelineKeeps DEF Sane
  <2>3. CanUseNetwork(s) =>
          t.pipeline = SubSeq(q, 1, Least(MaxPending, Len(q)))
    BY FillMirrors DEF Fillable, Sane
  <2> HIDE DEF t
  <2>4. Mirrors(t, q)
    BY <2>2, <2>3 DEF Mirrors, CanUseNetwork
  <2>5. rs' = t /\ tasks' = rest
    BY <1>1 DEF t
  <2> QED BY <2>1, <2>4, <2>5
<1>2. CASE /\ \E k \in 0 .. Least(MaxPending - Len(s.pipeline) - 1,
                                  Len(NextBatches(s, q))) :
                rs' = DisableNetworkUntilRecovery(
                  AddToWritePipeline(s, SubSeq(NextBatches(s, q), 1, k)))
           /\ tasks' = Append(rest, Op("probe", 0))
  <2>1. PICK k \in 0 .. Least(MaxPending - Len(s.pipeline) - 1,
                              Len(NextBatches(s, q))) :
          rs' = DisableNetworkUntilRecovery(
                  AddToWritePipeline(s, SubSeq(NextBatches(s, q), 1, k)))
    BY <1>2
  <2> DEFINE w == AddToWritePipeline(s, SubSeq(NextBatches(s, q), 1, k))
  <2>2. /\ NextBatches(s, q) \in Seq(BatchIds)
        /\ Len(NextBatches(s, q)) \in Nat /\ Len(s.pipeline) \in Nat
    BY NextBatchesType, LenProperties DEF Sane, StoreOK, RemoteStoreType
  <2>3. k \in Int /\ k <= Len(NextBatches(s, q))
    BY <2>1, <2>2, PendingAssumption DEF Least
  <2>4. SubSeq(NextBatches(s, q), 1, k) \in Seq(BatchIds)
    BY <2>2, <2>3, SubSeqType
  <2>5. Sane(w) /\ Evolves(s, w)
    <3>1. StoreOK(w) /\ Sound(w) /\ Alike(s, w)
      BY <2>4, AddToWritePipelineOK, AddToWritePipelineKeeps DEF Sane
    <3>2. StoreInv(w)
      BY <2>4, AddToWritePipelineStays
    <3> HIDE DEF w
    <3> QED BY <3>1, <3>2, EvolvesBasics DEF Sane
  <2>6. rs' = DisableNetworkUntilRecovery(w)
    BY <2>1
  <2> HIDE DEF w
  <2>7. /\ Sane(rs') /\ ~UnderWay(rs') /\ ~CanUseNetwork(rs')
        /\ Evolves(w, rs')
    BY <2>5, <2>6, DisableNetworkUntilRecoveryStays,
       DisableNetworkUntilRecoveryKeeps DEF Sane
  <2>8. CallbacksSound(rs', tasks')
    <3>1. CallbacksSound(rs', rest)
      <4>1. StoreOK(s) /\ StoreOK(w) /\ StoreOK(rs')
        BY <2>5, <2>7 DEF Sane
      <4>2. CallbacksSound(w, rest)
        BY <2>5, <4>1, CallbacksEvolve
      <4> QED BY <2>7, <4>1, <4>2, CallbacksEvolve
    <3>2. /\ Op("probe", 0) \in TaskType
          /\ Op("probe", 0).kind \notin StreamKinds
      BY OpOK DEF Op, OpKinds, StreamKinds
    <3> QED BY <1>2, <3>1, <3>2, CallbacksAppend
  <2>9. StoreInv(rs') /\ Linked(rs', tasks')
    BY <2>7, <2>8, StoppedLinked DEF Sane
  <2> QED BY <2>7, <2>9 DEF Mirrors
<1> QED BY <1>1, <1>2 DEF Fill

(* An empty pipeline may be filled from any queue.                         *)
LEMMA EmptyFillable ==
  ASSUME NEW s, s.pipeline = <<>>, NEW q \in Seq(BatchIds)
  PROVE  Fillable(s, q)
<1>1. Len(s.pipeline) = 0 /\ Len(q) \in Nat /\ MaxPending \in Nat
  BY LenProperties, PendingAssumption
<1> QED BY <1>1 DEF Fillable, Prefix

(* enableNetworkInternal does so from a stopped stream.                    *)
LEMMA EnableNetworkInternalStays ==
  ASSUME NEW s, Sane(s), ~IsStarted(s), s.pipeline = <<>>,
         NEW q \in Seq(BatchIds), Ascends(q), NEW rest \in Seq(TaskType),
         NEW spent, CallbacksSound(s, rest),
         EnableNetworkInternal(s, q, rest, spent)
  PROVE  StoreInv(rs') /\ Linked(rs', tasks') /\ Mirrors(rs', q)
<1>1. CASE CanUseNetwork(s)
  <2> DEFINE t == InhibitBackoff(s)
  <2>1. Sane(t) /\ Evolves(s, t) /\ ~IsStarted(t) /\ t.pipeline = <<>>
    BY ChangedStays, InhibitBackoffKeeps DEF Sane
  <2>2. Fill(t, q, rest, spent)
    BY <1>1 DEF EnableNetworkInternal
  <2> HIDE DEF t
  <2>3. CallbacksSound(t, rest)
    BY <2>1, CallbacksEvolve DEF Sane
  <2>4. Linked(t, rest)
    BY <2>1, <2>3, StoppedLinked DEF Sane, IsStarted, IsOpen, UnderWay
  <2>5. Quiet(t) /\ Fillable(t, q)
    BY <2>1, EmptyFillable DEF Quiet
  <2> QED BY <2>1, <2>2, <2>3, <2>4, <2>5, FillStays
<1>2. CASE ~CanUseNetwork(s)
  <2>1. Linked(s, rest)
    BY StoppedLinked DEF Sane, IsStarted, IsOpen, UnderWay
  <2> QED BY <1>2, <2>1 DEF EnableNetworkInternal, Mirrors, Sane
<1> QED BY <1>1, <1>2

(* Going offline for a reason.                                             *)
LEMMA OfflineStays ==
  ASSUME TypeOK, OneStreamOneRecovery, StoreInv(rs),
         NEW c \in SUBSET OfflineCauses, c # {},
         NEW queue \in Seq(TaskType), CallbacksSound(rs, queue)
  PROVE  LET off == DisableNetworkInternal([rs EXCEPT !.causes = c])
         IN  /\ Sane(off) /\ ~IsStarted(off) /\ off.pipeline = <<>>
             /\ off.causes = c /\ CallbacksSound(off, queue)
             /\ Linked(off, queue)
<1> DEFINE w == [rs EXCEPT !.causes = c]
           off == DisableNetworkInternal(w)
<1>1. Sane(rs)
  BY StoreTyped, InvParts DEF Sane
<1>2. Sane(w)
  BY <1>1, ChangedStays
<1>3. w.causes = c
  BY CausesKeep, <1>1 DEF Sane
<1> HIDE DEF w
<1>4. Sane(off)
  BY <1>2, <1>3, DisableNetworkInternalStays DEF CanUseNetwork
<1>5. /\ ~IsStarted(off) /\ off.pipeline = <<>>
      /\ off.causes = c /\ CallbacksSound(off, queue)
  BY GoingOffline DEF w
<1> HIDE DEF off
<1>6. Linked(off, queue)
  BY <1>4, <1>5, StoppedLinked DEF Sane, IsStarted, IsOpen, UnderWay
<1> QED BY <1>4, <1>5, <1>6 DEF off, w

----------------------------------------------------------------------------
(* The mutation queues                                                     *)

(* A queue without its i-th batch.                                         *)
LEMMA WithoutIth ==
  ASSUME NEW q \in Seq(BatchIds), NEW i \in 1 .. Len(q)
  PROVE  LET w == SubSeq(q, 1, i - 1) \o SubSeq(q, i + 1, Len(q))
         IN  /\ w \in Seq(BatchIds) /\ Len(w) = Len(q) - 1
             /\ \A j \in 1 .. Len(q) - 1 :
                  w[j] = IF j < i THEN q[j] ELSE q[j + 1]
<1> DEFINE m == i - 1
           low == SubSeq(q, 1, m)
           high == SubSeq(q, i + 1, Len(q))
           w == low \o high
<1>1. Len(q) \in Nat /\ i \in 1 .. Len(q) /\ m \in Nat /\ m <= Len(q)
      /\ i = m + 1
  BY LenProperties
<1> HIDE DEF m
<1>2. /\ low \in Seq(BatchIds) /\ Len(low) = m
      /\ \A j \in 1 .. m : low[j] = q[j]
  BY <1>1, PrefixIsSubSeq
<1>3. /\ high \in Seq(BatchIds) /\ Len(high) = Len(q) - i
      /\ \A j \in 1 .. Len(q) - i : high[j] = q[i + j]
  <2>1. i \in 0 .. Len(q)
    BY <1>1
  <2> QED BY <2>1, Suffix
<1> HIDE DEF low, high
<1>4. /\ w \in Seq(BatchIds) /\ Len(w) = Len(low) + Len(high)
      /\ \A j \in 1 .. Len(low) + Len(high) :
           w[j] = IF j <= Len(low) THEN low[j] ELSE high[j - Len(low)]
  BY <1>2, <1>3, ConcatProperties, Zenon
<1> HIDE DEF w
<1>5. Len(w) = Len(q) - 1
  BY <1>1, <1>2, <1>3, <1>4
<1>6. ASSUME NEW j \in 1 .. Len(q) - 1
      PROVE  w[j] = IF j < i THEN q[j] ELSE q[j + 1]
  <2>1. j \in 1 .. Len(low) + Len(high)
    BY <1>1, <1>2, <1>3
  <2>2. CASE j < i
    <3>1. j <= m /\ j \in 1 .. m
      BY <1>1, <2>2
    <3> QED BY <1>2, <1>4, <2>1, <2>2, <3>1
  <2>3. CASE ~(j < i)
    <3>1. ~(j <= m) /\ j - m \in 1 .. Len(q) - i /\ i + (j - m) = j + 1
      BY <1>1, <2>3
    <3> QED BY <1>2, <1>3, <1>4, <2>1, <2>3, <3>1
  <2> QED BY <2>2, <2>3
<1>7. i - 1 = m
  BY DEF m
<1> QED BY <1>4, <1>5, <1>6, <1>7 DEF w, low, high

(* Taking a batch out of an ascending queue leaves the others in order;    *)
(* taking out the first leaves the rest.                                   *)
LEMMA WithoutParts ==
  ASSUME NEW q \in Seq(BatchIds), Ascends(q), NEW b
  PROVE  LET w == Without(q, b)
         IN  /\ w \in Seq(BatchIds) /\ Ascends(w)
             /\ Elems(w) = Elems(q) \ {b}
             /\ q # <<>> /\ b = q[1] => w = Tail(q)
<1> DEFINE w == Without(q, b)
           n == Len(q)
<1>1. n \in Nat /\ DOMAIN q = 1 .. n
  BY LenProperties
<1>2. \A j \in 1 .. n : q[j] \in Nat
  <2>1. \A j \in 1 .. n : q[j] \in BatchIds
    BY ElementOfSeq
  <2> QED BY <2>1 DEF BatchIds
<1>3. CASE \A i \in DOMAIN q : q[i] # b
  <2>1. w = q
    BY <1>3 DEF Without
  <2>2. ~(q # <<>> /\ b = q[1])
    BY <1>1, <1>3, EmptySeq
  <2> HIDE DEF w
  <2>3. Elems(w) = Elems(q) \ {b}
    BY <1>3, <2>1 DEF Elems
  <2> QED BY <2>1, <2>2, <2>3 DEF w
<1>4. CASE \E i \in DOMAIN q : q[i] = b
  <2> DEFINE i == CHOOSE i \in DOMAIN q : q[i] = b
  <2>1. i \in 1 .. n /\ q[i] = b
    BY <1>1, <1>4
  <2>2. w = SubSeq(q, 1, i - 1) \o SubSeq(q, i + 1, n)
    BY <1>4 DEF Without
  <2> HIDE DEF i, w
  <2>3. /\ w \in Seq(BatchIds) /\ Len(w) = n - 1
        /\ \A j \in 1 .. n - 1 : w[j] = IF j < i THEN q[j] ELSE q[j + 1]
    BY <2>1, <2>2, WithoutIth
  <2>4. DOMAIN w = 1 .. n - 1
    BY <2>3, LenProperties
  <2>5. \A j, k \in 1 .. n : q[j] = q[k] => j = k
    <3> SUFFICES ASSUME NEW j \in 1 .. n, NEW k \in 1 .. n, j < k
                 PROVE  q[j] # q[k]
      BY <1>1
    <3>1. q[j] < q[k]
      BY <1>1 DEF Ascends
    <3> QED BY <1>2, <3>1
  <2> HIDE DEF n
  <2>6. Ascends(w)
    <3> SUFFICES ASSUME NEW j \in 1 .. n - 1, NEW k \in 1 .. n - 1, j < k
                 PROVE  w[j] < w[k]
      BY <2>4 DEF Ascends
    <3> DEFINE jj == IF j < i THEN j ELSE j + 1
               kk == IF k < i THEN k ELSE k + 1
    <3>1. jj \in 1 .. n /\ kk \in 1 .. n /\ jj < kk
      BY <1>1, <2>1
    <3>2. w[j] = q[jj] /\ w[k] = q[kk]
      BY <2>3
    <3> HIDE DEF jj, kk
    <3> QED BY <1>1, <3>1, <3>2 DEF Ascends
  <2>7. ASSUME NEW x \in Elems(w) PROVE x \in Elems(q) /\ x # b
    <3>1. PICK j \in 1 .. n - 1 : x = w[j]
      BY <2>4 DEF Elems
    <3> DEFINE jj == IF j < i THEN j ELSE j + 1
    <3>2. jj \in 1 .. n /\ jj # i
      BY <1>1, <2>1
    <3>3. x = q[jj]
      BY <2>3, <3>1
    <3> HIDE DEF jj
    <3> QED BY <1>1, <2>1, <2>5, <3>2, <3>3 DEF Elems
  <2>8. ASSUME NEW x \in Elems(q), x # b PROVE x \in Elems(w)
    <3>1. PICK j \in 1 .. n : x = q[j]
      BY <1>1 DEF Elems
    <3>2. j # i
      BY <2>1, <2>8, <3>1
    <3>3. CASE j < i
      <4>1. j \in 1 .. n - 1
        BY <1>1, <2>1, <3>3
      <4>2. w[j] = q[j]
        BY <2>3, <3>3, <4>1
      <4> QED BY <2>4, <3>1, <4>1, <4>2 DEF Elems
    <3>4. CASE j > i
      <4>1. j - 1 \in 1 .. n - 1 /\ ~(j - 1 < i) /\ (j - 1) + 1 = j
        BY <1>1, <2>1, <3>4
      <4>2. w[j - 1] = q[j]
        BY <2>3, <4>1
      <4> QED BY <2>4, <3>1, <4>1, <4>2 DEF Elems
    <3>5. j < i \/ j > i
      BY <2>1, <3>2
    <3> QED BY <3>3, <3>4, <3>5
  <2>9. ASSUME q # <<>>, b = q[1] PROVE w = Tail(q)
    <3>1. Len(q) = n
      BY DEF n
    <3>2. /\ Tail(q) \in Seq(BatchIds) /\ Len(Tail(q)) = n - 1 /\ n # 0
          /\ \A j \in 1 .. n - 1 : Tail(q)[j] = q[j + 1]
      BY <2>9, <3>1, HeadTailProperties, EmptySeq, LenProperties
    <3>3. i = 1
      <4>1. 1 \in 1 .. n
        BY <1>1, <3>2
      <4> QED BY <2>1, <2>5, <2>9, <4>1
    <3>4. \A j \in 1 .. n - 1 : w[j] = Tail(q)[j]
      BY <1>1, <2>3, <3>2, <3>3
    <3> QED BY <2>3, <3>2, <3>4, SeqEqual
  <2>10. Elems(w) = Elems(q) \ {b}
    BY <2>7, <2>8
  <2> QED BY <2>3, <2>6, <2>9, <2>10 DEF w
<1> QED BY <1>3, <1>4

----------------------------------------------------------------------------
(* The AsyncQueue                                                          *)

(* Where live callbacks go when a task is taken.                           *)
LEMMA LiveTail ==
  ASSUME NEW s, NEW queue \in Seq(TaskType), queue # <<>>
  PROVE  /\ \A i \in DOMAIN Tail(queue) :
              /\ i \in Nat /\ i # 0 /\ i + 1 \in DOMAIN queue
              /\ Tail(queue)[i] = queue[i + 1]
              /\ LiveIn(s, Tail(queue), i) <=> LiveIn(s, queue, i + 1)
         /\ 1 \in DOMAIN queue /\ Head(queue) = queue[1]
         /\ Tail(queue) \in Seq(TaskType)
<1>1. /\ Len(Tail(queue)) = Len(queue) - 1 /\ Tail(queue) \in Seq(TaskType)
      /\ \A i \in 1 .. Len(queue) - 1 : Tail(queue)[i] = queue[i + 1]
      /\ DOMAIN Tail(queue) = 1 .. Len(Tail(queue))
      /\ DOMAIN queue = 1 .. Len(queue) /\ Len(queue) \in Nat
      /\ Head(queue) = queue[1] /\ Len(queue) # 0
  BY HeadTailProperties, LenProperties, EmptySeq
<1>2. ASSUME NEW i \in DOMAIN Tail(queue)
      PROVE  /\ i \in Nat /\ i # 0 /\ i + 1 \in DOMAIN queue
             /\ Tail(queue)[i] = queue[i + 1]
             /\ LiveIn(s, Tail(queue), i) <=> LiveIn(s, queue, i + 1)
  <2>1. i \in Nat /\ i # 0 /\ i + 1 \in DOMAIN queue
    BY <1>1
  <2>2. Tail(queue)[i] = queue[i + 1]
    BY <1>1
  <2> QED BY <2>1, <2>2 DEF LiveIn
<1> QED BY <1>1, <1>2

(* Taking a task leaves the other callbacks as they were.                  *)
LEMMA CallsTail ==
  ASSUME NEW s, NEW queue \in Seq(TaskType), queue # <<>>, Calls(s, queue)
  PROVE  Calls(s, Tail(queue))
<1> DEFINE rest == Tail(queue)
<1>1. \A i \in DOMAIN rest :
        /\ i \in Nat /\ i # 0 /\ i + 1 \in DOMAIN queue
        /\ rest[i] = queue[i + 1]
        /\ LiveIn(s, rest, i) <=> LiveIn(s, queue, i + 1)
  BY LiveTail
<1> HIDE DEF rest
<1> SUFFICES ASSUME NEW i \in DOMAIN rest, LiveIn(s, rest, i)
             PROVE  /\ \A n \in DOMAIN s.rpcs :
                         s.rpcs[n].phase \in {"auth", "token", "connecting"}
                           => ~Current(s, n)
                    /\ rest[i].kind \notin Closing => s.stream # 0
                    /\ rest[i].kind = "open" => s.state = "Starting"
                    /\ rest[i].kind = "handshake" =>
                         /\ s.state = "Open" /\ ~s.handshake
                         /\ s.rpcs[s.stream].phase \in {"ready", "closed"}
                    /\ rest[i].kind = "result" =>
                         s.state = "Open" /\ s.handshake
                    /\ rest[i].kind \in Closing =>
                         /\ \A n \in DOMAIN s.rpcs : ~Current(s, n)
                         /\ \A j \in DOMAIN rest :
                              LiveIn(s, rest, j) => j <= i
                    /\ \A j \in DOMAIN rest :
                         /\ LiveIn(s, rest, j)
                         /\ rest[i].kind \in {"open", "handshake"}
                         /\ rest[j].kind = rest[i].kind
                         => j = i
  BY Zenon DEF Calls, rest
<1>2. LiveIn(s, queue, i + 1) /\ i + 1 \in DOMAIN queue
      /\ rest[i] = queue[i + 1] /\ i \in Nat
  BY <1>1
<1>3. \A n \in DOMAIN s.rpcs :
        s.rpcs[n].phase \in {"auth", "token", "connecting"} => ~Current(s, n)
  BY <1>2 DEF Calls
<1>4. /\ rest[i].kind \notin Closing => s.stream # 0
      /\ rest[i].kind = "open" => s.state = "Starting"
      /\ rest[i].kind = "handshake" =>
           /\ s.state = "Open" /\ ~s.handshake
           /\ s.rpcs[s.stream].phase \in {"ready", "closed"}
      /\ rest[i].kind = "result" => s.state = "Open" /\ s.handshake
      /\ rest[i].kind \in Closing => \A n \in DOMAIN s.rpcs : ~Current(s, n)
  BY <1>2 DEF Calls
<1>5. ASSUME rest[i].kind \in Closing, NEW j \in DOMAIN rest,
             LiveIn(s, rest, j)
      PROVE  j <= i
  <2>1. j \in Nat /\ LiveIn(s, queue, j + 1) /\ j + 1 \in DOMAIN queue
    BY <1>1, <1>5
  <2>2. j + 1 <= i + 1
    BY <1>2, <1>5, <2>1 DEF Calls
  <2> QED BY <1>2, <2>1, <2>2
<1>6. ASSUME NEW j \in DOMAIN rest, LiveIn(s, rest, j),
             rest[i].kind \in {"open", "handshake"},
             rest[j].kind = rest[i].kind
      PROVE  j = i
  <2>1. /\ j \in Nat /\ LiveIn(s, queue, j + 1) /\ j + 1 \in DOMAIN queue
        /\ rest[j] = queue[j + 1]
    BY <1>1, <1>6
  <2>2. j + 1 = i + 1
    BY <1>2, <1>6, <2>1 DEF Calls
  <2> QED BY <1>2, <2>1, <2>2
<1> QED BY <1>3, <1>4, <1>5, <1>6

(* Taking a task that is no live response keeps everything in line.        *)
LEMMA LinkedTail ==
  ASSUME NEW s, NEW queue \in Seq(TaskType), queue # <<>>, Linked(s, queue),
         1 \notin Answers(s, queue)
  PROVE  Linked(s, Tail(queue))
<1> DEFINE A == Answers(s, queue)
           B == Answers(s, Tail(queue))
<1>1. /\ Cardinality(B) = Cardinality(A)
      /\ \A i \in B : i + 1 \in A /\ Rank(B, i) = Rank(A, i + 1)
  <2>1. /\ Cardinality(B) = Cardinality(A) - 0
        /\ \A i \in B : i + 1 \in A /\ Rank(B, i) = Rank(A, i + 1) - 0
    BY AnswersTail
  <2>2. Cardinality(A) \in Nat /\ A \subseteq 1 .. Len(queue)
        /\ Len(queue) \in Nat
    BY AnswersType
  <2>3. \A i \in A : Rank(A, i) \in 1 .. Cardinality(A)
    BY <2>2, RankType
  <2> HIDE DEF A, B
  <2>4. ASSUME NEW i \in B PROVE i + 1 \in A /\ Rank(B, i) = Rank(A, i + 1)
    <3> DEFINE x == Rank(A, i + 1)
    <3>1. i + 1 \in A /\ Rank(B, i) = x - 0 /\ x \in 1 .. Cardinality(A)
      BY <2>1, <2>3
    <3> HIDE DEF x
    <3>2. Rank(B, i) = x
      BY <2>2, <3>1
    <3> QED BY <3>1, <3>2 DEF x
  <2>5. Cardinality(B) = Cardinality(A)
    BY <2>1, <2>2
  <2> QED BY <2>4, <2>5
<1>2. \A i \in DOMAIN Tail(queue) :
        /\ i + 1 \in DOMAIN queue /\ Tail(queue)[i] = queue[i + 1]
        /\ LiveIn(s, Tail(queue), i) <=> LiveIn(s, queue, i + 1)
  BY LiveTail
<1>3. \A i \in B : i \in DOMAIN Tail(queue)
  BY DEF Answers
<1> HIDE DEF A, B
<1>4. Correlated(s, Tail(queue))
  <2>1. /\ Cardinality(A) <= Len(s.pipeline)
        /\ \A i \in A : queue[i].batch = s.pipeline[Rank(A, i)]
        /\ s.handshake /\ s.stream # 0 /\ s.rpcs[s.stream].phase = "ready"
             => s.rpcs[s.stream].reqs =
                  SubSeq(s.pipeline, Cardinality(A) + 1, Len(s.pipeline))
    BY DEF Linked, Correlated, A
  <2>2. \A i \in B : Tail(queue)[i].batch = s.pipeline[Rank(B, i)]
    BY <1>1, <1>2, <1>3, <2>1
  <2> QED BY <1>1, <2>1, <2>2 DEF Correlated, B
<1>5. ErrorNamesNext(s, Tail(queue))
  BY <1>1, <1>2 DEF Linked, ErrorNamesNext, A, B
<1>6. Calls(s, Tail(queue))
  BY CallsTail DEF Linked
<1> QED BY <1>4, <1>5, <1>6 DEF Linked

(* Taking a live response and shifting the batch it answers too.           *)
LEMMA AnswerPopped ==
  ASSUME NEW s, StoreOK(s), NEW queue \in Seq(TaskType), queue # <<>>,
         Linked(s, queue), 1 \in Answers(s, queue)
  PROVE  /\ s.pipeline # <<>> /\ queue[1].batch = s.pipeline[1]
         /\ Linked([s EXCEPT !.pipeline = Tail(@)], Tail(queue))
<1> DEFINE A == Answers(s, queue)
           B == Answers(s, Tail(queue))
           p == s.pipeline
           k == Cardinality(A)
           t == [s EXCEPT !.pipeline = Tail(@)]
<1>1. /\ k \in Nat /\ A \subseteq 1 .. Len(queue) /\ Len(queue) \in Nat
      /\ IsFiniteSet(A)
  BY AnswersType
<1>2. \A i \in A : Rank(A, i) \in 1 .. k
  BY <1>1, RankType
<1>3. /\ Cardinality(B) = k - 1
      /\ \A i \in B : i + 1 \in A /\ Rank(B, i) = Rank(A, i + 1) - 1
      /\ Rank(A, 1) = 1
  BY AnswersTail
<1>4. /\ k <= Len(p)
      /\ \A i \in A : queue[i].batch = p[Rank(A, i)]
      /\ s.handshake /\ s.stream # 0 /\ s.rpcs[s.stream].phase = "ready"
           => s.rpcs[s.stream].reqs = SubSeq(p, k + 1, Len(p))
  BY DEF Linked, Correlated
<1>5. /\ p \in Seq(BatchIds) /\ s \in RemoteStoreType /\ Len(p) \in Nat
      /\ (p = <<>> => Len(p) = 0)
  BY LenProperties, EmptySeq DEF StoreOK, RemoteStoreType
<1>6. /\ t.state = s.state /\ t.closeCount = s.closeCount
      /\ t.handshake = s.handshake /\ t.stream = s.stream
      /\ t.pipeline = Tail(p) /\ t.rpcs = s.rpcs
  BY <1>5 DEF RemoteStoreType
<1>7. \A i \in DOMAIN Tail(queue) :
        /\ i + 1 \in DOMAIN queue /\ Tail(queue)[i] = queue[i + 1]
        /\ LiveIn(s, Tail(queue), i) <=> LiveIn(s, queue, i + 1)
  BY LiveTail
<1>8. \A i \in B : i \in DOMAIN Tail(queue)
  BY DEF Answers
<1>9. Answers(t, Tail(queue)) = B
  BY <1>6 DEF Answers
<1>10. \A i : LiveIn(t, Tail(queue), i) <=> LiveIn(s, Tail(queue), i)
  BY <1>6 DEF LiveIn
<1>11. 1 \in A
  OBVIOUS
<1>12. Calls(t, Tail(queue))
  <2>1. Calls(s, Tail(queue))
    BY CallsTail DEF Linked
  <2> QED BY <1>6, <2>1, CallsKept
<1> HIDE DEF A, B, p, k, t
<1>13. k # 0 /\ p # <<>> /\ queue[1].batch = p[1] /\ k \in 0 .. Len(p)
  <2>1. k >= 1
    BY <1>1, <1>2, <1>11
  <2> QED BY <1>1, <1>3, <1>4, <1>5, <1>11, <2>1
<1>14. /\ SubSeq(p, k + 1, Len(p)) =
             SubSeq(Tail(p), (k - 1) + 1, Len(Tail(p)))
       /\ Len(Tail(p)) = Len(p) - 1
       /\ \A i \in 1 .. Len(p) - 1 : Tail(p)[i] = p[i + 1]
  BY <1>5, <1>13, SuffixTail
<1>15. ASSUME NEW i \in B
       PROVE  Tail(queue)[i].batch = Tail(p)[Rank(B, i)]
  <2>1. i + 1 \in A /\ Rank(B, i) = Rank(A, i + 1) - 1
    BY <1>3
  <2>2. Rank(A, i + 1) \in 1 .. k
    BY <1>2, <2>1
  <2>3. i # 0 /\ i \in Nat
    BY <1>1, <1>8, LiveTail
  <2>4. Rank(B, i) \in 1 .. Len(p) - 1 /\ Rank(B, i) + 1 = Rank(A, i + 1)
    <3> DEFINE w == Tail(queue)
    <3>1. B \subseteq 1 .. Len(w) /\ Len(w) \in Nat
          /\ Cardinality(B) = k - 1
      BY <1>3, AnswersType, LiveTail DEF B
    <3> HIDE DEF w
    <3>2. Rank(B, i) \in 1 .. k - 1
      BY <3>1, RankType
    <3> QED BY <1>1, <1>4, <1>5, <2>1, <2>2, <3>2
  <2>5. Tail(p)[Rank(B, i)] = p[Rank(B, i) + 1]
    BY <1>14, <2>4
  <2>6. queue[i + 1].batch = p[Rank(A, i + 1)]
    BY <1>4, <2>1
  <2>7. Tail(queue)[i] = queue[i + 1]
    BY <1>7, <1>8
  <2> QED BY <2>4, <2>5, <2>6, <2>7
<1>16. Correlated(t, Tail(queue))
  <2>1. Cardinality(B) <= Len(Tail(p))
    BY <1>1, <1>3, <1>4, <1>5, <1>14
  <2> QED BY <1>3, <1>4, <1>6, <1>9, <1>14, <1>15, <2>1 DEF Correlated
<1>17. ErrorNamesNext(t, Tail(queue))
  <2> SUFFICES ASSUME NEW i \in DOMAIN Tail(queue),
                      LiveIn(t, Tail(queue), i),
                      Tail(queue)[i].kind = "permanent"
               PROVE  /\ t.handshake =>
                           /\ Cardinality(B) < Len(Tail(p))
                           /\ Tail(queue)[i].batch =
                                Tail(p)[Cardinality(B) + 1]
                      /\ \A j \in DOMAIN Tail(queue) :
                           LiveIn(t, Tail(queue), j) =>
                             Tail(queue)[j].kind # "handshake"
    BY <1>6, <1>9 DEF ErrorNamesNext
  <2>1. /\ i + 1 \in DOMAIN queue /\ LiveIn(s, queue, i + 1)
        /\ queue[i + 1].kind = "permanent"
        /\ Tail(queue)[i] = queue[i + 1]
    BY <1>7, <1>10
  <2>2. /\ s.handshake => /\ k < Len(p)
                          /\ queue[i + 1].batch = p[k + 1]
        /\ \A j \in DOMAIN queue :
             LiveIn(s, queue, j) => queue[j].kind # "handshake"
    BY <2>1 DEF Linked, ErrorNamesNext, A, k, p
  <2>3. ASSUME s.handshake
        PROVE  /\ Cardinality(B) < Len(Tail(p))
               /\ Tail(queue)[i].batch = Tail(p)[Cardinality(B) + 1]
    <3>1. k < Len(p) /\ queue[i + 1].batch = p[k + 1]
      BY <2>2, <2>3
    <3>2. Cardinality(B) < Len(Tail(p)) /\ Cardinality(B) + 1 = k
      BY <1>1, <1>3, <1>5, <1>14, <3>1
    <3>3. k \in 1 .. Len(p) - 1
      BY <1>1, <1>5, <1>13, <3>1
    <3>4. Tail(p)[k] = p[k + 1]
      BY <1>14, <3>3
    <3> QED BY <2>1, <3>1, <3>2, <3>4
  <2> QED BY <1>6, <1>7, <1>10, <2>2, <2>3
<1> QED BY <1>12, <1>13, <1>16, <1>17 DEF Linked, p, t

(* A task at the end of the queue.                                         *)
LEMMA LiveAppend ==
  ASSUME NEW s, NEW queue \in Seq(TaskType), NEW t \in TaskType
  PROVE  LET more == Append(queue, t)
             m == Len(queue) + 1
         IN  /\ \A i \in DOMAIN more : i \in DOMAIN queue \/ i = m
             /\ m \in DOMAIN more /\ more[m] = t
             /\ LiveIn(s, more, m) <=>
                  t.kind \in StreamKinds /\ t.cc = s.closeCount
             /\ \A i \in DOMAIN queue :
                  /\ i \in DOMAIN more /\ more[i] = queue[i] /\ i < m
                  /\ i \in Nat /\ i # m
                  /\ LiveIn(s, more, i) <=> LiveIn(s, queue, i)
             /\ m \in Nat
<1> DEFINE more == Append(queue, t)
           m == Len(queue) + 1
<1>1. /\ DOMAIN more = 1 .. m /\ DOMAIN queue = 1 .. Len(queue)
      /\ Len(queue) \in Nat /\ more[m] = t
      /\ \A i \in 1 .. Len(queue) : more[i] = queue[i]
  BY AppendProperties, LenProperties
<1> HIDE DEF more
<1>2. \A i \in DOMAIN queue : LiveIn(s, more, i) <=> LiveIn(s, queue, i)
  BY <1>1 DEF LiveIn
<1>3. LiveIn(s, more, m) <=> t.kind \in StreamKinds /\ t.cc = s.closeCount
  BY <1>1 DEF LiveIn
<1> QED BY <1>1, <1>2, <1>3 DEF more

(* A task that the dispatcher would skip, or an operation, changes nothing.*)
LEMMA LinkedAppend ==
  ASSUME NEW s, NEW queue \in Seq(TaskType), Linked(s, queue),
         NEW t \in TaskType, ~(t.kind \in StreamKinds /\ t.cc = s.closeCount)
  PROVE  Linked(s, Append(queue, t))
<1> DEFINE more == Append(queue, t)
<1>1. /\ \A i \in DOMAIN more : LiveIn(s, more, i) =>
           i \in DOMAIN queue /\ LiveIn(s, queue, i) /\ more[i] = queue[i]
      /\ \A i \in DOMAIN queue : LiveIn(s, queue, i) =>
           i \in DOMAIN more /\ LiveIn(s, more, i)
  BY LiveAppend
<1>2. Answers(s, more) = Answers(s, queue)
  BY AnswersAppend DEF StreamKinds
<1>3. \A i \in Answers(s, queue) : more[i] = queue[i]
  BY LiveAppend DEF Answers
<1> HIDE DEF more
<1>4. Correlated(s, more)
  BY <1>2, <1>3 DEF Linked, Correlated
<1>5. ErrorNamesNext(s, more)
  BY <1>1, <1>2 DEF Linked, ErrorNamesNext
<1>6. Calls(s, more)
  <2> SUFFICES ASSUME NEW i \in DOMAIN more, LiveIn(s, more, i)
               PROVE  /\ \A n \in DOMAIN s.rpcs :
                           s.rpcs[n].phase \in {"auth", "token", "connecting"}
                             => ~Current(s, n)
                      /\ more[i].kind \notin Closing => s.stream # 0
                      /\ more[i].kind = "open" => s.state = "Starting"
                      /\ more[i].kind = "handshake" =>
                           /\ s.state = "Open" /\ ~s.handshake
                           /\ s.rpcs[s.stream].phase \in {"ready", "closed"}
                      /\ more[i].kind = "result" =>
                           s.state = "Open" /\ s.handshake
                      /\ more[i].kind \in Closing =>
                           /\ \A n \in DOMAIN s.rpcs : ~Current(s, n)
                           /\ \A j \in DOMAIN more :
                                LiveIn(s, more, j) => j <= i
                      /\ \A j \in DOMAIN more :
                           /\ LiveIn(s, more, j)
                           /\ more[i].kind \in {"open", "handshake"}
                           /\ more[j].kind = more[i].kind
                           => j = i
    BY Zenon DEF Calls
  <2>1. i \in DOMAIN queue /\ LiveIn(s, queue, i) /\ more[i] = queue[i]
    BY <1>1
  <2> QED BY <1>1, <2>1 DEF Linked, Calls
<1> QED BY <1>4, <1>5, <1>6 DEF Linked, more

----------------------------------------------------------------------------
(* The steps                                                               *)

(* What is in flight starts the queue; without its first batch it starts   *)
(* the queue without that batch.                                           *)
LEMMA FrontOfQueue ==
  ASSUME NEW q \in Seq(BatchIds), Ascends(q), NEW p, p # <<>>,
         p = SubSeq(q, 1, Least(MaxPending, Len(q)))
  PROVE  /\ q # <<>> /\ Head(p) = q[1] /\ Head(p) = p[1]
         /\ Without(q, Head(p)) = Tail(q)
         /\ Prefix(Tail(p), Tail(q)) /\ Len(Tail(p)) <= MaxPending
<1> DEFINE n == Least(MaxPending, Len(q))
<1>1. Len(q) \in Nat /\ MaxPending \in Nat
  BY LenProperties, PendingAssumption
<1>2. n \in Nat /\ n <= Len(q) /\ n <= MaxPending
  BY <1>1 DEF Least
<1>3. p = SubSeq(q, 1, n)
  OBVIOUS
<1> HIDE DEF n
<1>4. /\ p \in Seq(BatchIds) /\ Len(p) = n
      /\ \A i \in 1 .. n : p[i] = q[i]
  <2>1. /\ SubSeq(q, 1, n) \in Seq(BatchIds) /\ Len(SubSeq(q, 1, n)) = n
        /\ \A i \in 1 .. n : SubSeq(q, 1, n)[i] = q[i]
    BY <1>2, PrefixIsSubSeq
  <2> QED BY <1>3, <2>1, Zenon
<1>5. n # 0
  BY <1>4, EmptySeq
<1>6. q # <<>> /\ p[1] = q[1] /\ Head(p) = p[1]
  <2>1. 1 \in 1 .. n /\ Len(q) # 0
    BY <1>1, <1>2, <1>5
  <2> QED BY <1>4, <2>1, HeadTailProperties
<1>7. Without(q, Head(p)) = Tail(q)
  BY <1>6, WithoutParts
<1>8. /\ Len(Tail(p)) = n - 1
      /\ \A i \in 1 .. n - 1 : Tail(p)[i] = p[i + 1]
  BY <1>4, HeadTailProperties
<1>9. /\ Len(Tail(q)) = Len(q) - 1
      /\ \A i \in 1 .. Len(q) - 1 : Tail(q)[i] = q[i + 1]
  BY <1>6, HeadTailProperties
<1>10. Prefix(Tail(p), Tail(q))
  <2>1. ASSUME NEW i \in 1 .. n - 1 PROVE Tail(p)[i] = Tail(q)[i]
    <3>1. i \in 1 .. Len(q) - 1 /\ i + 1 \in 1 .. n
      BY <1>1, <1>2
    <3> QED BY <1>4, <1>8, <1>9, <3>1
  <2>2. n - 1 <= Len(q) - 1
    BY <1>1, <1>2
  <2> QED BY <1>8, <1>9, <2>1, <2>2 DEF Prefix
<1>11. Len(Tail(p)) <= MaxPending
  <2> DEFINE m == Len(Tail(p))
  <2>1. m = n - 1
    BY <1>8
  <2>2. n - 1 <= MaxPending
    BY <1>1, <1>2
  <2> HIDE DEF m
  <2>3. m <= MaxPending
    BY <2>1, <2>2
  <2> QED BY <2>3 DEF m
<1> QED BY <1>6, <1>7, <1>10, <1>11

(* removeMutationBatch keeps the queues in order.                          *)
LEMMA RemoveKeepsOrder ==
  ASSUME TypeOK, QueuesInOrder, NEW b, local' = RemoveBatch(b),
         author' = author
  PROVE  /\ QueuesInOrder'
         /\ local'.user = local.user /\ OwnQueue' = Without(OwnQueue, b)
         /\ RemoveBatch(b).queue[local.user] = Without(OwnQueue, b)
<1>1. local \in LocalType
  BY DEF TypeOK
<1>2. /\ local'.queue = [u \in Users |-> Without(local.queue[u], b)]
      /\ local'.user = local.user /\ local.user \in Users
  BY <1>1 DEF RemoveBatch, LocalType
<1>3. ASSUME NEW u \in Users
      PROVE  /\ Ascends(local'.queue[u])
             /\ \A i \in DOMAIN local'.queue[u] :
                  /\ local'.queue[u][i] \in DOMAIN author
                  /\ author[local'.queue[u][i]] = u
  <2> DEFINE q == local.queue[u]
             w == Without(q, b)
  <2>1. q \in Seq(BatchIds) /\ Ascends(q)
    BY <1>1 DEF LocalType, QueuesInOrder
  <2>2. \A x \in Elems(q) : x \in DOMAIN author /\ author[x] = u
    BY DEF QueuesInOrder, Elems
  <2>3. local'.queue[u] = w
    BY <1>2
  <2> HIDE DEF q
  <2>4. Ascends(w) /\ Elems(w) = Elems(q) \ {b}
    BY <2>1, WithoutParts
  <2> HIDE DEF w
  <2>5. \A i \in DOMAIN w : w[i] \in Elems(q)
    BY <2>4 DEF Elems
  <2> QED BY <2>2, <2>3, <2>4, <2>5
<1>4. QueuesInOrder'
  BY <1>3 DEF QueuesInOrder
<1>5. OwnQueue' = Without(OwnQueue, b)
  BY <1>2 DEF OwnQueue
<1>6. RemoveBatch(b).queue[local.user] = Without(OwnQueue, b)
  BY <1>2, <1>5 DEF OwnQueue
<1> QED BY <1>2, <1>4, <1>5, <1>6

(* The parts of the invariant, for citing.                                 *)
LEMMA PipelineParts ==
  ASSUME TypeOK, OneStreamOneRecovery, PipelineInv
  PROVE  /\ Sane(rs) /\ QueuesInOrder
         /\ Ascends(OwnQueue) /\ \A u \in Users : Ascends(local.queue[u])
         /\ Running => /\ Linked(rs, tasks) /\ Mirrors(rs, OwnQueue)
                       /\ Fillable(rs, OwnQueue)
<1>1. Sane(rs) /\ QueuesInOrder
      /\ (Running => Linked(rs, tasks) /\ Mirrors(rs, OwnQueue))
  BY InvParts DEF PipelineInv, Sane
<1>2. \A u \in Users : Ascends(local.queue[u])
  BY <1>1 DEF QueuesInOrder
<1>3. Ascends(OwnQueue)
  BY <1>2, QueuesOK DEF TypeOK, OwnQueue
<1>4. ASSUME Mirrors(rs, OwnQueue) PROVE Fillable(rs, OwnQueue)
  <2> DEFINE q == OwnQueue
             n == Least(MaxPending, Len(q))
  <2>1. q \in Seq(BatchIds) /\ Len(q) \in Nat /\ MaxPending \in Nat
    BY InvParts, LenProperties, PendingAssumption
  <2>2. n \in Nat /\ n <= Len(q) /\ n <= MaxPending
    BY <2>1 DEF Least
  <2>3. CanUseNetwork(rs) => rs.pipeline = SubSeq(q, 1, n)
    BY <1>4 DEF Mirrors
  <2> HIDE DEF n, q
  <2>4. /\ Len(SubSeq(q, 1, n)) = n
        /\ \A i \in 1 .. n : SubSeq(q, 1, n)[i] = q[i]
    BY <2>1, <2>2, PrefixIsSubSeq
  <2> QED BY <2>2, <2>3, <2>4 DEF Fillable, Prefix, q
<1> QED BY <1>1, <1>2, <1>3, <1>4

(* What a step has to show.                                                *)
LEMMA PipelineStep ==
  ASSUME StoreInv(rs'), QueuesInOrder', Linked(rs', tasks'),
         Mirrors(rs', OwnQueue')
  PROVE  PipelineInv'
BY DEF PipelineInv

(* The queues stay when no one writes or decides.                          *)
LEMMA SameQueues ==
  ASSUME QueuesInOrder, local'.queue = local.queue, author' = author
  PROVE  QueuesInOrder'
BY DEF QueuesInOrder

(* The end of onMutationResult and of handleWriteError.                    *)
LEMMA DecideAndRefillStays ==
  ASSUME TypeOK, OneStreamOneRecovery, PipelineInv, Running,
         "viewRefill" \notin Faults, tasks # <<>>,
         NEW kind \in {"acknowledge", "reject"}, rs.pipeline # <<>>,
         rs.causes = {}, NEW s, Sane(s), s.causes = {},
         s.pipeline = Tail(rs.pipeline), CallbacksSound(s, Tail(tasks)),
         Linked(s, Tail(tasks)), DecideAndRefill(kind, Head(rs.pipeline), s)
  PROVE  PipelineInv'
<1> DEFINE b == Head(rs.pipeline)
           rest == Tail(tasks)
<1>1. /\ Sane(rs) /\ QueuesInOrder /\ Ascends(OwnQueue)
      /\ Mirrors(rs, OwnQueue)
  BY PipelineParts
<1>2. OwnQueue \in Seq(BatchIds) /\ rest \in Seq(TaskType)
  BY InvParts, HeadTailProperties
<1>3. /\ OwnQueue # <<>> /\ Without(OwnQueue, b) = Tail(OwnQueue)
      /\ Prefix(s.pipeline, Tail(OwnQueue)) /\ Len(s.pipeline) <= MaxPending
      /\ b \in BatchIds
  <2>1. rs.pipeline = SubSeq(OwnQueue, 1, Least(MaxPending, Len(OwnQueue)))
    BY <1>1 DEF Mirrors, CanUseNetwork
  <2>2. rs.pipeline \in Seq(BatchIds)
    BY InvParts, ChangedOK
  <2>3. b \in BatchIds
    BY <2>2, HeadTailProperties
  <2>4. /\ OwnQueue # <<>> /\ Without(OwnQueue, b) = Tail(OwnQueue)
        /\ Prefix(Tail(rs.pipeline), Tail(OwnQueue))
        /\ Len(Tail(rs.pipeline)) <= MaxPending
    <3> DEFINE p == rs.pipeline
               q == OwnQueue
    <3>1. p # <<>> /\ q \in Seq(BatchIds) /\ Ascends(q)
          /\ p = SubSeq(q, 1, Least(MaxPending, Len(q)))
      BY <1>1, <1>2, <2>1
    <3> HIDE DEF p, q
    <3>2. /\ q # <<>> /\ Without(q, Head(p)) = Tail(q)
          /\ Prefix(Tail(p), Tail(q)) /\ Len(Tail(p)) <= MaxPending
      BY <3>1, FrontOfQueue
    <3> QED BY <3>2 DEF p, q
  <2> QED BY <2>3, <2>4
<1>4. Tail(OwnQueue) \in Seq(BatchIds) /\ Ascends(Tail(OwnQueue))
  BY <1>1, <1>2, <1>3, WithoutParts
<1> HIDE DEF b, rest
<1>5. CASE /\ local' = RemoveBatch(b) /\ author' = author /\ mode' = mode
           /\ Fill(s, RemoveBatch(b).queue[local.user], rest, used)
  <2>1. /\ QueuesInOrder' /\ OwnQueue' = Tail(OwnQueue)
        /\ RemoveBatch(b).queue[local.user] = Tail(OwnQueue)
    BY <1>1, <1>3, <1>5, RemoveKeepsOrder
  <2>2. Quiet(s) /\ Fillable(s, Tail(OwnQueue))
    BY <1>3 DEF Quiet, Fillable, CanUseNetwork
  <2>3. Fill(s, Tail(OwnQueue), rest, used)
    BY <1>5, <2>1
  <2>4. /\ StoreInv(rs') /\ Linked(rs', tasks')
        /\ Mirrors(rs', Tail(OwnQueue))
    BY <1>2, <1>4, <2>2, <2>3, FillStays DEF rest
  <2> QED BY <2>1, <2>4, PipelineStep
<1>6. CASE QueueFails
  <2>1. rs' = rs /\ local' = local /\ author' = author /\ mode' = "failed"
    BY <1>6 DEF QueueFails
  <2>2. QueuesInOrder'
    BY <1>1, <2>1, SameQueues
  <2>3. StoreInv(rs')
    BY <1>1, <2>1 DEF Sane
  <2> QED BY <2>1, <2>2, <2>3 DEF PipelineInv, Running
<1>7. CASE /\ UNCHANGED <<local, author>>
           /\ rs' = DisableNetworkUntilRecovery(s)
           /\ tasks' = Append(rest, Op(kind, b))
  <2> DEFINE t == DisableNetworkUntilRecovery(s)
  <2>1. Sane(t) /\ ~UnderWay(t) /\ ~CanUseNetwork(t) /\ Evolves(s, t)
    BY DisableNetworkUntilRecoveryStays, DisableNetworkUntilRecoveryKeeps
       DEF Sane
  <2> HIDE DEF t
  <2>2. CallbacksSound(t, Append(rest, Op(kind, b)))
    <3>1. CallbacksSound(t, rest)
      BY <1>2, <2>1, CallbacksEvolve DEF Sane, rest
    <3>2. /\ Op(kind, b) \in TaskType
          /\ Op(kind, b).kind \notin StreamKinds
      BY <1>3, OpOK DEF Op, OpKinds, StreamKinds, BatchIds
    <3> QED BY <1>2, <3>1, <3>2, CallbacksAppend
  <2>3. Linked(t, Append(rest, Op(kind, b)))
    BY <2>1, <2>2, StoppedLinked DEF Sane
  <2>4. QueuesInOrder' /\ OwnQueue' = OwnQueue
    BY <1>1, <1>7, SameQueues DEF OwnQueue
  <2>5. rs' = t
    BY <1>7 DEF t
  <2> QED BY <1>7, <2>1, <2>3, <2>4, <2>5, PipelineStep DEF Mirrors, Sane
<1> QED BY <1>5, <1>6, <1>7 DEF DecideAndRefill, Conclude, b, rest

(* setDoc(): the batch goes to the end of the queue and, if there is room, *)
(* of the pipeline.                                                        *)
LEMMA WriteStays ==
  ASSUME TypeOK, OneStreamOneRecovery, PipelineInv,
         "viewRefill" \notin Faults, Write
  PROVE  PipelineInv'
<1> DEFINE b == Len(author) + 1
           q == Append(OwnQueue, b)
<1>1. /\ Sane(rs) /\ QueuesInOrder /\ Ascends(OwnQueue) /\ Running
      /\ Linked(rs, tasks) /\ Fillable(rs, OwnQueue) /\ Quiet(rs)
      /\ CallbacksSound(rs, tasks) /\ tasks \in Seq(TaskType)
      /\ OwnQueue \in Seq(BatchIds)
  BY InvParts, PipelineParts DEF Write
<1>2. /\ author' = Append(author, local.user)
      /\ local' = [local EXCEPT !.queue[local.user] = q,
                                !.rows = @ \union {<<local.user, b>>}]
      /\ Fill(rs, q, tasks, used) /\ mode' = mode
  BY DEF Write
<1>3. /\ author \in Seq(Users) /\ local \in LocalType /\ local.user \in Users
      /\ Len(author) \in Nat /\ DOMAIN author = 1 .. Len(author)
      /\ Len(OwnQueue) \in Nat /\ DOMAIN OwnQueue = 1 .. Len(OwnQueue)
  BY <1>1, LenProperties DEF TypeOK, LocalType
<1>4. /\ DOMAIN author' = 1 .. b /\ author'[b] = local.user
      /\ \A e \in DOMAIN author : author'[e] = author[e]
  BY <1>2, <1>3, AppendProperties, LenProperties
<1>5. /\ local'.queue = [local.queue EXCEPT ![local.user] = q]
      /\ local'.user = local.user /\ local.queue \in [Users -> Seq(BatchIds)]
  BY <1>2, <1>3 DEF LocalType
<1>6. b \in BatchIds
  BY <1>3 DEF BatchIds
<1>7. /\ q \in Seq(BatchIds) /\ Len(q) = Len(OwnQueue) + 1
      /\ q[Len(OwnQueue) + 1] = b
      /\ \A i \in 1 .. Len(OwnQueue) : q[i] = OwnQueue[i]
      /\ DOMAIN q = 1 .. Len(OwnQueue) + 1
  BY <1>1, <1>3, <1>6, AppendProperties, LenProperties
<1>8. \A i \in DOMAIN OwnQueue : /\ OwnQueue[i] \in DOMAIN author
                                 /\ author[OwnQueue[i]] = local.user
  BY <1>1, <1>3 DEF QueuesInOrder, OwnQueue
<1> HIDE DEF q
<1>9. Ascends(q)
  <2> SUFFICES ASSUME NEW i \in DOMAIN q, NEW j \in DOMAIN q, i < j
               PROVE  q[i] < q[j]
    BY DEF Ascends
  <2>1. i \in 1 .. Len(OwnQueue) /\ q[i] = OwnQueue[i]
    BY <1>3, <1>7
  <2>2. CASE j \in 1 .. Len(OwnQueue)
    <3>1. q[j] = OwnQueue[j]
      BY <1>7, <2>2
    <3> QED BY <1>1, <1>3, <2>1, <2>2, <3>1 DEF Ascends
  <2>3. CASE j = Len(OwnQueue) + 1
    <3>1. q[j] = Len(author) + 1 /\ q[i] \in 1 .. Len(author)
      BY <1>3, <1>7, <1>8, <2>1, <2>3
    <3> QED BY <1>3, <3>1
  <2> QED BY <1>3, <1>7, <2>2, <2>3
<1>10. QueuesInOrder'
  <2> SUFFICES ASSUME NEW u \in Users
               PROVE  /\ Ascends(local'.queue[u])
                      /\ \A i \in DOMAIN local'.queue[u] :
                           /\ local'.queue[u][i] \in DOMAIN author'
                           /\ author'[local'.queue[u][i]] = u
    BY DEF QueuesInOrder
  <2>1. \A e \in DOMAIN author : e \in DOMAIN author'
    BY <1>3, <1>4
  <2>2. CASE u = local.user
    <3>1. local'.queue[u] = q
      BY <1>3, <1>5, <2>2
    <3>2. ASSUME NEW i \in DOMAIN q
          PROVE  q[i] \in DOMAIN author' /\ author'[q[i]] = u
      <4>1. CASE i \in 1 .. Len(OwnQueue)
        <5>1. q[i] = OwnQueue[i] /\ i \in DOMAIN OwnQueue
          BY <1>3, <1>7, <4>1
        <5> QED BY <1>4, <1>8, <2>1, <2>2, <5>1
      <4>2. CASE i = Len(OwnQueue) + 1
        <5>1. q[i] = b /\ b \in 1 .. b
          BY <1>3, <1>7, <4>2
        <5> QED BY <1>4, <2>2, <5>1
      <4> QED BY <1>3, <1>7, <4>1, <4>2
    <3> QED BY <1>9, <3>1, <3>2
  <2>3. CASE u # local.user
    <3>1. local'.queue[u] = local.queue[u]
      BY <1>5, <2>3
    <3> QED BY <1>1, <1>4, <2>1, <3>1 DEF QueuesInOrder
  <2> QED BY <2>2, <2>3
<1>11. Fillable(rs, q)
  <2> DEFINE p == rs.pipeline
  <2>1. p \in Seq(BatchIds) /\ Len(p) \in Nat
    BY <1>1, ChangedOK, LenProperties DEF Sane
  <2>2. ASSUME Prefix(p, OwnQueue) PROVE Prefix(p, q)
    <3>1. Len(p) <= Len(OwnQueue)
      BY <2>2 DEF Prefix
    <3> HIDE DEF p
    <3>2. Len(p) <= Len(q)
      BY <1>3, <1>7, <2>1, <3>1
    <3>3. ASSUME NEW i \in 1 .. Len(p) PROVE p[i] = q[i]
      <4>1. i \in 1 .. Len(OwnQueue)
        BY <1>3, <2>1, <3>1
      <4> QED BY <1>7, <2>2, <4>1 DEF Prefix
    <3> QED BY <3>2, <3>3 DEF Prefix
  <2> QED BY <1>1, <2>2 DEF Fillable
<1>12. /\ StoreInv(rs') /\ Linked(rs', tasks') /\ Mirrors(rs', q)
  BY <1>1, <1>2, <1>7, <1>9, <1>11, FillStays
<1>13. OwnQueue' = q
  BY <1>3, <1>5 DEF OwnQueue
<1> QED BY <1>10, <1>12, <1>13, PipelineStep

(* enableNetwork(), disableNetwork(), terminate(), connectivity.           *)
LEMMA NetworkCallsStay ==
  ASSUME TypeOK, OneStreamOneRecovery, PipelineInv,
         "reenable" \notin Faults,
         EnableNetwork \/ DisableNetwork \/ Terminate \/ ConnectivityChange
  PROVE  PipelineInv'
<1>1. /\ Sane(rs) /\ QueuesInOrder /\ Ascends(OwnQueue) /\ Running
      /\ CallbacksSound(rs, tasks) /\ tasks \in Seq(TaskType)
      /\ OwnQueue \in Seq(BatchIds) /\ rs.causes \subseteq OfflineCauses
  BY InvParts, PipelineParts
     DEF EnableNetwork, DisableNetwork, Terminate, ConnectivityChange
<1>2. UNCHANGED <<local, author>>
  BY DEF EnableNetwork, DisableNetwork, Terminate, ConnectivityChange
<1>3. QueuesInOrder' /\ OwnQueue' = OwnQueue
  BY <1>1, <1>2, SameQueues DEF OwnQueue
<1>4. CASE EnableNetwork
  <2> DEFINE on == [rs EXCEPT !.causes = @ \ {"UserDisabled"}]
  <2>1. "UserDisabled" \in rs.causes
    BY <1>4 DEF EnableNetwork
  <2>2. ~IsStarted(rs) /\ rs.pipeline = <<>>
    BY <2>1, InvParts DEF Follows, CanUseNetwork
  <2>3. /\ StoreOK(on) /\ Sound(on) /\ ~IsStarted(on) /\ on.pipeline = <<>>
        /\ CallbacksSound(on, tasks)
    BY <2>2, InvParts, ComingBack
  <2>4. Sane(on)
    BY <1>1, ChangedStays
  <2>5. EnableNetworkInternal(on, OwnQueue, tasks, used)
    BY <1>4, <2>1 DEF EnableNetwork
  <2> HIDE DEF on
  <2>6. StoreInv(rs') /\ Linked(rs', tasks') /\ Mirrors(rs', OwnQueue)
    BY <1>1, <2>3, <2>4, <2>5, EnableNetworkInternalStays
  <2> QED BY <1>3, <2>6, PipelineStep
<1>5. CASE DisableNetwork \/ Terminate
  <2>1. PICK c \in {"UserDisabled", "Shutdown"} :
          rs' = DisableNetworkInternal([rs EXCEPT !.causes = @ \union {c}])
    BY <1>5 DEF DisableNetwork, Terminate
  <2>2. rs.causes \union {c} \in SUBSET OfflineCauses
    BY <1>1 DEF OfflineCauses
  <2> DEFINE off == DisableNetworkInternal(
                      [rs EXCEPT !.causes = @ \union {c}])
  <2>3. /\ Sane(off) /\ Linked(off, tasks)
        /\ off.causes = rs.causes \union {c}
    BY <1>1, <2>2, OfflineStays DEF Sane
  <2>4. rs' = off /\ tasks' = tasks
    BY <1>5, <2>1 DEF DisableNetwork, Terminate
  <2> HIDE DEF off
  <2> QED BY <1>3, <2>3, <2>4, PipelineStep DEF Sane, Mirrors, CanUseNetwork
<1>6. CASE ConnectivityChange
  <2> DEFINE off == DisableNetworkInternal(
                      [rs EXCEPT !.causes = {"ConnectivityChange"}])
             on == [off EXCEPT !.causes = {}]
  <2>1. /\ Sane(off) /\ ~IsStarted(off)
        /\ off.pipeline = <<>> /\ CallbacksSound(off, tasks)
    BY <1>1, OfflineStays DEF Sane, OfflineCauses
  <2>2. /\ Sane(on) /\ ~IsStarted(on)
        /\ on.pipeline = <<>> /\ CallbacksSound(on, tasks)
    <3> HIDE DEF off
    <3>1. Sane(on)
      BY <2>1, ChangedStays
    <3> QED BY <1>1, <2>1, <3>1, ComingBack DEF Sane
  <2>3. EnableNetworkInternal(on, OwnQueue, tasks, Spend(used, "toggles"))
    BY <1>6 DEF ConnectivityChange
  <2> HIDE DEF on
  <2>4. StoreInv(rs') /\ Linked(rs', tasks') /\ Mirrors(rs', OwnQueue)
    BY <1>1, <2>2, <2>3, EnableNetworkInternalStays
  <2> QED BY <1>3, <2>4, PipelineStep
<1> QED BY <1>4, <1>5, <1>6

(* waitForPendingWrites() and the token listeners.                         *)
LEMMA QuietCallsStay ==
  ASSUME TypeOK, OneStreamOneRecovery, PipelineInv,
         WaitForPendingWrites \/ AppCheckTokenChanged
         \/ \E u \in Users : AuthTokenChanged(u)
  PROVE  PipelineInv'
<1>1. /\ Sane(rs) /\ QueuesInOrder /\ Linked(rs, tasks)
      /\ Mirrors(rs, OwnQueue) /\ tasks \in Seq(TaskType)
  BY InvParts, PipelineParts
     DEF WaitForPendingWrites, AppCheckTokenChanged, AuthTokenChanged
<1>2. UNCHANGED <<rs, local, author>>
  BY DEF WaitForPendingWrites, AppCheckTokenChanged, AuthTokenChanged
<1>3. \/ tasks' = tasks
      \/ \E kind \in {"auth", "appCheck"} :
           tasks' = Append(tasks, Op(kind, 0))
  BY DEF WaitForPendingWrites, AppCheckTokenChanged, AuthTokenChanged
<1>4. Linked(rs, tasks')
  <2>1. CASE tasks' = tasks
    BY <1>1, <2>1
  <2>2. CASE tasks' # tasks
    <3>1. PICK kind \in {"auth", "appCheck"} :
            tasks' = Append(tasks, Op(kind, 0))
      BY <1>3, <2>2
    <3>2. Op(kind, 0) \in TaskType /\ Op(kind, 0).kind \notin StreamKinds
      BY OpOK DEF Op, OpKinds, StreamKinds
    <3> QED BY <1>1, <3>1, <3>2, LinkedAppend
  <2> QED BY <2>1, <2>2
<1>5. QueuesInOrder' /\ OwnQueue' = OwnQueue
  BY <1>1, <1>2, SameQueues DEF OwnQueue
<1> QED BY <1>1, <1>2, <1>4, <1>5, PipelineStep DEF Sane

(* A later session finds the queues, and its store has had no callbacks.   *)
LEMMA RestartStays ==
  ASSUME TypeOK, OneStreamOneRecovery, PipelineInv, Restart
  PROVE  PipelineInv'
<1> DEFINE closed == [n \in DOMAIN rs.rpcs |->
                        [rs.rpcs[n] EXCEPT !.phase = "closed"]]
           fresh == NewRemoteStore(closed)
<1>1. QueuesInOrder /\ \A u \in Users : Ascends(local.queue[u])
  BY PipelineParts
<1>2. rs.rpcs \in Seq(RpcType)
  BY DEF TypeOK, RemoteStoreType
<1>3. \A n \in DOMAIN rs.rpcs :
        closed[n] \in RpcType /\ closed[n].phase = "closed"
  <2> SUFFICES ASSUME NEW n \in DOMAIN rs.rpcs
               PROVE  closed[n] \in RpcType /\ closed[n].phase = "closed"
    OBVIOUS
  <2>1. rs.rpcs[n] \in RpcType
    BY <1>2, ElementOfSeq, LenProperties
  <2> QED BY <2>1 DEF RpcType, RpcPhases
<1>4. closed \in Seq(RpcType)
  <2>1. DOMAIN rs.rpcs = 1 .. Len(rs.rpcs) /\ Len(rs.rpcs) \in Nat
    BY <1>2, LenProperties
  <2>2. closed \in [1 .. Len(rs.rpcs) -> RpcType]
    BY <1>3, <2>1
  <2> HIDE DEF closed
  <2> QED BY <2>1, <2>2, SeqDef
<1>5. DOMAIN closed = DOMAIN rs.rpcs
  OBVIOUS
<1> HIDE DEF closed
<1>6. /\ fresh.rpcs = closed /\ fresh.state = "Initial" /\ ~fresh.idle
      /\ fresh.stream = 0 /\ fresh.pipeline = <<>> /\ ~fresh.backoff
  BY DEF NewRemoteStore
<1>7. StoreOK(fresh)
  <2>1. <<>> \in Seq(BatchIds)
    BY EmptySeq
  <2> QED BY <1>4, <2>1 DEF NewRemoteStore, StoreOK, RemoteStoreType,
                            StreamStates
<1>8. CallbacksSound(fresh, <<>>) /\ <<>> \in Seq(TaskType)
  BY EmptySeq DEF CallbacksSound
<1>9. local.queue[creds.user] \in Seq(BatchIds) /\ creds.user \in Users
  BY QueuesOK DEF TypeOK
<1>10. Fill(fresh, local.queue[creds.user], <<>>, Spend(used, "restarts"))
  BY DEF Restart, closed
<1> HIDE DEF fresh
<1>11. Phases(fresh)
  BY <1>3, <1>5, <1>6 DEF Phases, Current
<1>12. Sane(fresh) /\ Quiet(fresh) /\ ~UnderWay(fresh)
  BY <1>3, <1>5, <1>6, <1>7, <1>11
     DEF Sane, Sound, StoreInv, Drained, Quiet, IsStarted, IsOpen, UnderWay
<1>13. Linked(fresh, <<>>)
  BY <1>8, <1>12, StoppedLinked DEF Sane
<1>14. /\ StoreInv(rs') /\ Linked(rs', tasks')
       /\ Mirrors(rs', local.queue[creds.user])
  BY <1>1, <1>6, <1>8, <1>9, <1>10, <1>12, <1>13, EmptyFillable, FillStays
<1>15. local'.queue = local.queue /\ local'.user = creds.user
       /\ author' = author
  BY DEF Restart, TypeOK, LocalType
<1>16. QueuesInOrder' /\ OwnQueue' = local.queue[creds.user]
  BY <1>1, <1>15, SameQueues DEF OwnQueue
<1> QED BY <1>14, <1>16, PipelineStep

----------------------------------------------------------------------------
(* An attempt gets on                                                      *)

(* t is s with r for its attempt n, which is no further back.              *)
Replaces(s, t, n, r) ==
  /\ t.state = s.state /\ t.closeCount = s.closeCount
  /\ t.handshake = s.handshake /\ t.idle = s.idle /\ t.stream = s.stream
  /\ t.pipeline = s.pipeline /\ t.causes = s.causes
  /\ DOMAIN t.rpcs = DOMAIN s.rpcs /\ n \in DOMAIN s.rpcs
  /\ t.rpcs[n] = r /\ r.cc = s.rpcs[n].cc
  /\ \A m \in DOMAIN s.rpcs : m # n => t.rpcs[m] = s.rpcs[m]
  /\ r.phase # "closed" => s.rpcs[n].phase # "closed"
  /\ r.phase \in {"auth", "token", "connecting"} =>
       s.rpcs[n].phase \in {"auth", "token", "connecting"}

(* What has to hold of r.                                                  *)
LEMMA ReplacesStays ==
  ASSUME NEW s, StoreOK(s), StoreInv(s),
         NEW t, NEW n, NEW r, Replaces(s, t, n, r),
         r.phase \in {"connecting", "open", "ready"} =>
           n = s.stream /\ r.user # 0,
         r.phase = "token" => r.user # 0,
         r.phase \in {"auth", "token"} =>
           r.reqs = <<>> /\ (r.cc = s.closeCount => s.stream = 0),
         n = s.stream => Attempt(s, r)
  PROVE  StoreInv(t)
<1>1. \A m \in DOMAIN s.rpcs : m # n => t.rpcs[m] = s.rpcs[m]
  BY DEF Replaces
<1>2. /\ t.state = s.state /\ t.closeCount = s.closeCount
      /\ t.handshake = s.handshake /\ t.idle = s.idle /\ t.stream = s.stream
      /\ t.pipeline = s.pipeline
      /\ DOMAIN t.rpcs = DOMAIN s.rpcs /\ n \in DOMAIN s.rpcs
      /\ t.rpcs[n] = r
  BY DEF Replaces
<1>3. \A m \in DOMAIN s.rpcs : Current(t, m) => Current(s, m)
  BY DEF Replaces, Current
<1>4. ASSUME NEW m \in DOMAIN t.rpcs
      PROVE  /\ t.rpcs[m].phase \in {"connecting", "open", "ready"} =>
                  m = t.stream /\ t.rpcs[m].user # 0
             /\ t.rpcs[m].phase = "token" => t.rpcs[m].user # 0
             /\ t.rpcs[m].phase \in {"auth", "token"} =>
                  /\ t.rpcs[m].reqs = <<>>
                  /\ t.rpcs[m].cc = t.closeCount => t.stream = 0
  BY <1>1, <1>2 DEF StoreInv, Phases
<1>5. \A m, k \in DOMAIN t.rpcs : Current(t, m) /\ Current(t, k) => m = k
  BY <1>2, <1>3 DEF StoreInv, Phases
<1>6. Phases(t)
  BY <1>4, <1>5 DEF Phases
<1>7. ASSUME t.stream # 0 PROVE Attempt(t, t.rpcs[t.stream])
  <2>1. Attempt(s, t.rpcs[t.stream])
    <3>1. CASE n = s.stream
      BY <1>2, <3>1
    <3>2. CASE n # s.stream
      <4>1. Attempt(s, s.rpcs[s.stream])
        BY <1>2, <1>7 DEF StoreInv
      <4>2. t.rpcs[t.stream] = s.rpcs[s.stream]
        BY <1>1, <1>2, <1>7, <3>2 DEF StoreOK
      <4> QED BY <4>1, <4>2
    <3> QED BY <3>1, <3>2
  <2> QED BY <1>2, <2>1 DEF Attempt, UnderWay
<1> QED BY <1>2, <1>6, <1>7 DEF StoreInv, Drained, IsStarted, IsOpen

(* The callbacks still report it.                                          *)
LEMMA ReplacesCalls ==
  ASSUME NEW s, NEW t, NEW n, NEW r, Replaces(s, t, n, r),
         n = s.stream /\ s.rpcs[n].phase \in {"ready", "closed"} =>
           r.phase \in {"ready", "closed"},
         NEW queue, Calls(s, queue), StoreOK(s)
  PROVE  Calls(t, queue)
<1>1. \A i : LiveIn(t, queue, i) <=> LiveIn(s, queue, i)
  BY DEF LiveIn, Replaces
<1>2. \A m \in DOMAIN s.rpcs : Current(t, m) => Current(s, m)
  BY DEF Replaces, Current
<1>3. \A m \in DOMAIN s.rpcs :
        t.rpcs[m].phase \in {"auth", "token", "connecting"} =>
          s.rpcs[m].phase \in {"auth", "token", "connecting"}
  BY DEF Replaces
<1>4. t.stream # 0 /\ s.rpcs[s.stream].phase \in {"ready", "closed"} =>
        t.rpcs[t.stream].phase \in {"ready", "closed"}
  BY DEF Replaces, StoreOK
<1>5. /\ t.state = s.state /\ t.handshake = s.handshake
      /\ t.stream = s.stream /\ DOMAIN t.rpcs = DOMAIN s.rpcs
  BY DEF Replaces
<1> SUFFICES ASSUME NEW i \in DOMAIN queue, LiveIn(s, queue, i)
             PROVE  /\ \A m \in DOMAIN t.rpcs :
                         t.rpcs[m].phase \in {"auth", "token", "connecting"}
                           => ~Current(t, m)
                    /\ queue[i].kind \notin Closing => t.stream # 0
                    /\ queue[i].kind = "open" => t.state = "Starting"
                    /\ queue[i].kind = "handshake" =>
                         /\ t.state = "Open" /\ ~t.handshake
                         /\ t.rpcs[t.stream].phase \in {"ready", "closed"}
                    /\ queue[i].kind = "result" =>
                         t.state = "Open" /\ t.handshake
                    /\ queue[i].kind \in Closing =>
                         /\ \A m \in DOMAIN t.rpcs : ~Current(t, m)
                         /\ \A j \in DOMAIN queue :
                              LiveIn(t, queue, j) => j <= i
                    /\ \A j \in DOMAIN queue :
                         /\ LiveIn(t, queue, j)
                         /\ queue[i].kind \in {"open", "handshake"}
                         /\ queue[j].kind = queue[i].kind
                         => j = i
  BY <1>1, Zenon DEF Calls
<1>6. \A m \in DOMAIN t.rpcs :
        t.rpcs[m].phase \in {"auth", "token", "connecting"} => ~Current(t, m)
  BY <1>2, <1>3, <1>5 DEF Calls
<1>7. /\ queue[i].kind \notin Closing => s.stream # 0
      /\ queue[i].kind = "open" => s.state = "Starting"
      /\ queue[i].kind = "handshake" =>
           /\ s.state = "Open" /\ ~s.handshake
           /\ s.rpcs[s.stream].phase \in {"ready", "closed"}
      /\ queue[i].kind = "result" => s.state = "Open" /\ s.handshake
  BY DEF Calls
<1>8. queue[i].kind = "handshake" => s.stream # 0
  BY <1>7 DEF Closing
<1>9. queue[i].kind \in Closing =>
        /\ \A m \in DOMAIN t.rpcs : ~Current(t, m)
        /\ \A j \in DOMAIN queue : LiveIn(t, queue, j) => j <= i
  BY <1>1, <1>2, <1>5 DEF Calls
<1>10. \A j \in DOMAIN queue :
         /\ LiveIn(t, queue, j)
         /\ queue[i].kind \in {"open", "handshake"}
         /\ queue[j].kind = queue[i].kind
         => j = i
  BY <1>1 DEF Calls
<1> QED BY <1>4, <1>5, <1>6, <1>7, <1>8, <1>9, <1>10

(* The requests matter once the handshake is over.                         *)
LEMMA ReplacesLinked ==
  ASSUME NEW s, NEW t, NEW n, NEW r, Replaces(s, t, n, r),
         n = s.stream /\ s.rpcs[n].phase \in {"ready", "closed"} =>
           r.phase \in {"ready", "closed"},
         n = s.stream /\ r.phase = "ready" => ~s.handshake,
         NEW queue, Linked(s, queue), StoreOK(s)
  PROVE  Linked(t, queue)
<1>1. Calls(t, queue)
  BY ReplacesCalls DEF Linked
<1>2. Answers(t, queue) = Answers(s, queue)
  BY DEF Answers, Replaces
<1>3. t.stream # 0 /\ t.rpcs[t.stream].phase = "ready" /\ t.handshake =>
        s.rpcs[s.stream] = t.rpcs[t.stream]
  BY DEF Replaces, StoreOK
<1>4. /\ t.handshake = s.handshake /\ t.stream = s.stream
      /\ t.pipeline = s.pipeline
      /\ \A i : LiveIn(t, queue, i) <=> LiveIn(s, queue, i)
  BY DEF Replaces, LiveIn
<1>5. Correlated(t, queue)
  BY <1>2, <1>3, <1>4 DEF Linked, Correlated
<1>6. ErrorNamesNext(t, queue)
  BY <1>2, <1>4 DEF Linked, ErrorNamesNext
<1> QED BY <1>1, <1>5, <1>6 DEF Linked

(* A callback at the end of the queue, from an attempt that has not ended  *)
(* before.                                                                 *)
LEMMA LiveCallAppended ==
  ASSUME NEW s, NEW queue \in Seq(TaskType), Linked(s, queue),
         NEW t \in TaskType, t.kind \in StreamKinds, t.cc = s.closeCount,
         t.kind # "result",
         \A i \in DOMAIN queue :
           LiveIn(s, queue, i) => queue[i].kind \notin Closing,
         \A n \in DOMAIN s.rpcs :
           s.rpcs[n].phase \in {"auth", "token", "connecting"} => ~Current(s, n),
         t.kind \notin Closing => s.stream # 0,
         t.kind = "open" => s.state = "Starting",
         t.kind = "handshake" =>
           /\ s.state = "Open" /\ ~s.handshake
           /\ s.rpcs[s.stream].phase \in {"ready", "closed"},
         t.kind \in Closing => \A n \in DOMAIN s.rpcs : ~Current(s, n),
         t.kind \in {"open", "handshake"} =>
           \A i \in DOMAIN queue :
             LiveIn(s, queue, i) => queue[i].kind # t.kind,
         t.kind = "permanent" =>
           /\ s.handshake =>
                /\ Cardinality(Answers(s, queue)) < Len(s.pipeline)
                /\ t.batch = s.pipeline[Cardinality(Answers(s, queue)) + 1]
           /\ \A i \in DOMAIN queue :
                LiveIn(s, queue, i) => queue[i].kind # "handshake"
  PROVE  Linked(s, Append(queue, t))
<1> DEFINE more == Append(queue, t)
           m == Len(queue) + 1
<1>1. /\ \A i \in DOMAIN more : i \in DOMAIN queue \/ i = m
      /\ m \in DOMAIN more /\ more[m] = t /\ m \in Nat
      /\ LiveIn(s, more, m)
      /\ \A i \in DOMAIN queue :
           /\ i \in DOMAIN more /\ more[i] = queue[i] /\ i < m
           /\ i \in Nat /\ i # m
           /\ LiveIn(s, more, i) <=> LiveIn(s, queue, i)
  BY LiveAppend
<1>2. Answers(s, more) = Answers(s, queue)
  BY AnswersAppend
<1>3. \A i \in Answers(s, queue) : i \in DOMAIN queue
  BY DEF Answers
<1> HIDE DEF more, m
<1>4. Correlated(s, more)
  BY <1>1, <1>2, <1>3 DEF Linked, Correlated
<1>5. ErrorNamesNext(s, more)
  <2> SUFFICES ASSUME NEW i \in DOMAIN more, LiveIn(s, more, i),
                      more[i].kind = "permanent"
               PROVE  /\ s.handshake =>
                           /\ Cardinality(Answers(s, queue)) < Len(s.pipeline)
                           /\ more[i].batch =
                                s.pipeline[Cardinality(Answers(s, queue)) + 1]
                      /\ \A j \in DOMAIN more :
                           LiveIn(s, more, j) => more[j].kind # "handshake"
    BY <1>2 DEF ErrorNamesNext
  <2>1. i = m
    BY <1>1 DEF Closing
  <2> QED BY <1>1, <2>1
<1>6. Calls(s, more)
  <2> SUFFICES ASSUME NEW i \in DOMAIN more, LiveIn(s, more, i)
               PROVE  /\ \A n \in DOMAIN s.rpcs :
                           s.rpcs[n].phase \in {"auth", "token", "connecting"}
                             => ~Current(s, n)
                      /\ more[i].kind \notin Closing => s.stream # 0
                      /\ more[i].kind = "open" => s.state = "Starting"
                      /\ more[i].kind = "handshake" =>
                           /\ s.state = "Open" /\ ~s.handshake
                           /\ s.rpcs[s.stream].phase \in {"ready", "closed"}
                      /\ more[i].kind = "result" =>
                           s.state = "Open" /\ s.handshake
                      /\ more[i].kind \in Closing =>
                           /\ \A n \in DOMAIN s.rpcs : ~Current(s, n)
                           /\ \A j \in DOMAIN more :
                                LiveIn(s, more, j) => j <= i
                      /\ \A j \in DOMAIN more :
                           /\ LiveIn(s, more, j)
                           /\ more[i].kind \in {"open", "handshake"}
                           /\ more[j].kind = more[i].kind
                           => j = i
    BY Zenon DEF Calls
  <2>1. CASE i \in DOMAIN queue
    <3>1. LiveIn(s, queue, i) /\ more[i] = queue[i]
          /\ more[i].kind \notin Closing
      BY <1>1, <2>1
    <3>2. /\ more[i].kind \notin Closing => s.stream # 0
          /\ more[i].kind = "open" => s.state = "Starting"
          /\ more[i].kind = "handshake" =>
               /\ s.state = "Open" /\ ~s.handshake
               /\ s.rpcs[s.stream].phase \in {"ready", "closed"}
          /\ more[i].kind = "result" => s.state = "Open" /\ s.handshake
      BY <2>1, <3>1 DEF Linked, Calls
    <3>3. ASSUME NEW j \in DOMAIN more, LiveIn(s, more, j),
                 more[i].kind \in {"open", "handshake"},
                 more[j].kind = more[i].kind
          PROVE  j = i
      <4>1. j \in DOMAIN queue /\ LiveIn(s, queue, j) /\ more[j] = queue[j]
        BY <1>1, <2>1, <3>1, <3>3
      <4> QED BY <2>1, <3>1, <3>3, <4>1 DEF Linked, Calls
    <3> QED BY <3>1, <3>2, <3>3
  <2>2. CASE i = m
    <3>1. more[i] = t
      BY <1>1, <2>2
    <3>2. \A j \in DOMAIN more : j <= i
      BY <1>1, <2>2
    <3>3. ASSUME NEW j \in DOMAIN more, LiveIn(s, more, j),
                 t.kind \in {"open", "handshake"}, more[j].kind = t.kind
          PROVE  j = i
      BY <1>1, <2>2, <3>3
    <3> QED BY <3>1, <3>2, <3>3
  <2> QED BY <1>1, <2>1, <2>2
<1> QED BY <1>4, <1>5, <1>6 DEF Linked, more

(* The next answer, at the end of the queue.                               *)
LEMMA AnswerAppended ==
  ASSUME NEW s, StoreOK(s), NEW queue \in Seq(TaskType), Linked(s, queue),
         s.handshake, s.state = "Open", s.stream # 0,
         s.rpcs[s.stream].phase = "ready",
         NEW n, n = s.stream, Current(s, n),
         NEW reqs, reqs = s.rpcs[n].reqs, reqs # <<>>,
         NEW t \in TaskType, t.kind = "result", t.cc = s.closeCount,
         t.batch = Head(reqs),
         NEW w, NEW r, Replaces(s, w, n, r), r.reqs = Tail(reqs),
         r.phase = "ready", Phases(s)
  PROVE  Linked(w, Append(queue, t))
<1> DEFINE more == Append(queue, t)
           m == Len(queue) + 1
           A == Answers(s, queue)
           B == Answers(s, more)
           c == Cardinality(A)
           p == s.pipeline
<1>1. /\ \A i \in DOMAIN more : i \in DOMAIN queue \/ i = m
      /\ m \in DOMAIN more /\ more[m] = t /\ m \in Nat
      /\ \A i \in DOMAIN queue :
           /\ i \in DOMAIN more /\ more[i] = queue[i] /\ i < m
           /\ i \in Nat /\ i # m
           /\ LiveIn(s, more, i) <=> LiveIn(s, queue, i)
  BY LiveAppend
<1>2. /\ m \in B /\ \A i \in B : i \in A \/ i = m
      /\ Cardinality(B) = c + 1
      /\ \A i \in A : i \in B /\ Rank(B, i) = Rank(A, i)
      /\ Rank(B, m) = c + 1
  BY AnswersAppend
<1>3. \A i \in A : i \in DOMAIN queue
  BY DEF Answers
<1>4. /\ c <= Len(p) /\ reqs = SubSeq(p, c + 1, Len(p))
      /\ \A i \in A : queue[i].batch = p[Rank(A, i)]
  BY DEF Linked, Correlated
<1>5. c \in Nat /\ p \in Seq(BatchIds) /\ Len(p) \in Nat
  BY AnswersType, LenProperties DEF StoreOK, RemoteStoreType
<1>6. Calls(w, queue)
  BY ReplacesCalls DEF Linked
<1>7. \A i \in DOMAIN queue :
        LiveIn(s, queue, i) => queue[i].kind \notin Closing
  BY DEF Linked, Calls, Replaces
<1>8. Answers(w, more) = B
  BY DEF Answers, Replaces
<1>9. /\ w.pipeline = p /\ w.stream = n /\ w.rpcs[n] = r
      /\ w.handshake = s.handshake /\ w.state = s.state
      /\ \A i, q : LiveIn(w, q, i) <=> LiveIn(s, q, i)
  BY DEF Replaces, LiveIn
<1> HIDE DEF A, B, c, more, m, p
<1>10. p # <<>>
  <2> SUFFICES ASSUME p = <<>> PROVE FALSE
    OBVIOUS
  <2>1. Len(p) = 0
    BY <1>5, EmptySeq
  <2>2. c \in 0 .. Len(p)
    BY <1>4, <1>5
  <2>3. Len(reqs) = Len(p) - c /\ reqs \in Seq(BatchIds)
    BY <1>4, <1>5, <2>2, Suffix
  <2>4. Len(reqs) = 0
    BY <1>4, <1>5, <2>1, <2>3
  <2> QED BY <2>3, <2>4, EmptySeq
<1>11. /\ c + 1 <= Len(p) /\ t.batch = p[c + 1]
       /\ r.reqs = SubSeq(p, (c + 1) + 1, Len(p))
  <2>1. c \in 0 .. Len(p)
    BY <1>4, <1>5
  <2> QED BY <1>4, <1>5, <1>10, <2>1, SuffixTail
<1>12. Correlated(w, more)
  <2>1. ASSUME NEW i \in B PROVE more[i].batch = p[Rank(B, i)]
    <3>1. CASE i \in A
      BY <1>1, <1>2, <1>3, <1>4, <3>1
    <3>2. CASE i = m
      BY <1>1, <1>2, <1>11, <3>2
    <3> QED BY <1>2, <3>1, <3>2
  <2> QED BY <1>2, <1>8, <1>9, <1>11, <2>1 DEF Correlated
<1>13. ErrorNamesNext(w, more)
  <2>1. \A i \in DOMAIN more :
          LiveIn(w, more, i) => more[i].kind # "permanent"
    BY <1>1, <1>7, <1>9 DEF Closing
  <2> QED BY <2>1 DEF ErrorNamesNext
<1>14. Calls(w, more)
  <2> SUFFICES ASSUME NEW i \in DOMAIN more, LiveIn(w, more, i)
               PROVE  /\ \A k \in DOMAIN w.rpcs :
                           w.rpcs[k].phase \in {"auth", "token", "connecting"}
                             => ~Current(w, k)
                      /\ more[i].kind \notin Closing => w.stream # 0
                      /\ more[i].kind = "open" => w.state = "Starting"
                      /\ more[i].kind = "handshake" =>
                           /\ w.state = "Open" /\ ~w.handshake
                           /\ w.rpcs[w.stream].phase \in {"ready", "closed"}
                      /\ more[i].kind = "result" =>
                           w.state = "Open" /\ w.handshake
                      /\ more[i].kind \in Closing =>
                           /\ \A k \in DOMAIN w.rpcs : ~Current(w, k)
                           /\ \A j \in DOMAIN more :
                                LiveIn(w, more, j) => j <= i
                      /\ \A j \in DOMAIN more :
                           /\ LiveIn(w, more, j)
                           /\ more[i].kind \in {"open", "handshake"}
                           /\ more[j].kind = more[i].kind
                           => j = i
    BY Zenon DEF Calls
  <2>1. CASE i \in DOMAIN queue
    <3>1. LiveIn(w, queue, i) /\ more[i] = queue[i]
          /\ more[i].kind \notin Closing
      BY <1>1, <1>7, <1>9, <2>1
    <3>2. /\ \A k \in DOMAIN w.rpcs :
               w.rpcs[k].phase \in {"auth", "token", "connecting"}
                 => ~Current(w, k)
          /\ more[i].kind \notin Closing => w.stream # 0
          /\ more[i].kind = "open" => w.state = "Starting"
          /\ more[i].kind = "handshake" =>
               /\ w.state = "Open" /\ ~w.handshake
               /\ w.rpcs[w.stream].phase \in {"ready", "closed"}
          /\ more[i].kind = "result" => w.state = "Open" /\ w.handshake
      BY <1>6, <2>1, <3>1 DEF Calls
    <3>3. ASSUME NEW j \in DOMAIN more, LiveIn(w, more, j),
                 more[i].kind \in {"open", "handshake"},
                 more[j].kind = more[i].kind
          PROVE  j = i
      <4>1. j \in DOMAIN queue /\ LiveIn(w, queue, j) /\ more[j] = queue[j]
        BY <1>1, <1>9, <2>1, <3>1, <3>3
      <4> QED BY <1>6, <2>1, <3>1, <3>3, <4>1 DEF Calls
    <3> QED BY <3>1, <3>2, <3>3
  <2>2. CASE i = m
    <3>1. more[i].kind = "result"
      BY <1>1, <2>2
    <3>2. ASSUME NEW k \in DOMAIN w.rpcs, Current(w, k)
          PROVE  w.rpcs[k].phase \notin {"auth", "token", "connecting"}
      <4>1. k = n
        BY <3>2 DEF Phases, Current, Replaces
      <4> QED BY <1>9, <4>1
    <3> QED BY <1>9, <3>1, <3>2 DEF Closing
  <2> QED BY <1>1, <2>1, <2>2
<1> QED BY <1>12, <1>13, <1>14 DEF Linked, more

(* What is known of an attempt.                                            *)
LEMMA AttemptFacts ==
  ASSUME TypeOK, OneStreamOneRecovery, PipelineInv, NEW n \in Rpcs
  PROVE  LET old == rs.rpcs[n]
         IN  /\ old \in RpcType /\ n # 0 /\ Sane(rs)
             /\ old.phase \in {"connecting", "open", "ready"} =>
                  /\ n = rs.stream /\ Attempt(rs, old) /\ old.user # 0
                  /\ Current(rs, n)
             /\ old.phase \in {"auth", "token"} => n # rs.stream
             /\ Current(rs, n) =>
                  /\ \A m \in Rpcs : Current(rs, m) => m = n
                  /\ Running =>
                       \A i \in DOMAIN tasks :
                         LiveIn(rs, tasks, i) => tasks[i].kind \notin Closing
             /\ Running => Linked(rs, tasks)
             /\ tasks \in Seq(TaskType)
<1>1. /\ rs.rpcs[n] \in RpcType /\ n # 0 /\ Sane(rs)
      /\ Running => Linked(rs, tasks)
      /\ tasks \in Seq(TaskType)
  BY RpcOK, PipelineParts, InvParts
<1>2. ASSUME rs.rpcs[n].phase \in {"connecting", "open", "ready"}
      PROVE  /\ n = rs.stream /\ Attempt(rs, rs.rpcs[n])
             /\ rs.rpcs[n].user # 0 /\ Current(rs, n)
  <2>1. n = rs.stream /\ rs.rpcs[n].user # 0
    BY <1>1, <1>2 DEF Sane, StoreInv, Phases, Rpcs
  <2>2. Attempt(rs, rs.rpcs[n])
    BY <1>1, <2>1 DEF Sane, StoreInv
  <2> QED BY <1>2, <2>1, <2>2 DEF Attempt, Current
<1>3. rs.rpcs[n].phase \in {"auth", "token"} => n # rs.stream
  BY <1>1 DEF Sane, StoreInv, Attempt
<1>4. ASSUME Current(rs, n)
      PROVE  /\ \A m \in Rpcs : Current(rs, m) => m = n
             /\ Running =>
                  \A i \in DOMAIN tasks :
                    LiveIn(rs, tasks, i) => tasks[i].kind \notin Closing
  BY <1>1, <1>4 DEF Sane, StoreInv, Phases, Rpcs, Linked, Calls
<1> QED BY <1>1, <1>2, <1>3, <1>4

(* A step of an attempt replaces it.                                       *)
LEMMA Replaced ==
  ASSUME TypeOK, NEW n \in Rpcs, NEW r \in RpcType, r.cc = rs.rpcs[n].cc,
         r.phase # "closed" => rs.rpcs[n].phase # "closed",
         r.phase \in {"auth", "token", "connecting"} =>
           rs.rpcs[n].phase \in {"auth", "token", "connecting"},
         NEW t, t = [rs EXCEPT !.rpcs[n] = r]
  PROVE  Replaces(rs, t, n, r)
<1> DEFINE rpcs == [rs.rpcs EXCEPT ![n] = r]
<1>1. rs \in RemoteStoreType /\ rs.rpcs \in Seq(RpcType)
  BY DEF TypeOK, RemoteStoreType
<1>2. /\ DOMAIN rpcs = DOMAIN rs.rpcs /\ rpcs[n] = r
      /\ \A m \in DOMAIN rs.rpcs : m # n => rpcs[m] = rs.rpcs[m]
  BY <1>1 DEF Rpcs
<1>3. t = [rs EXCEPT !.rpcs = rpcs]
  OBVIOUS
<1> HIDE DEF rpcs
<1>4. /\ t.state = rs.state /\ t.closeCount = rs.closeCount
      /\ t.handshake = rs.handshake /\ t.idle = rs.idle
      /\ t.stream = rs.stream /\ t.pipeline = rs.pipeline
      /\ t.causes = rs.causes /\ t.rpcs = rpcs
  BY <1>1, <1>3 DEF RemoteStoreType
<1> QED BY <1>2, <1>4, Zenon DEF Replaces, Rpcs

(* It touches nothing but the store and the callbacks.                     *)
LEMMA AttemptStep ==
  ASSUME TypeOK, OneStreamOneRecovery, PipelineInv,
         UNCHANGED <<local, author, mode>>, rs'.pipeline = rs.pipeline,
         rs'.causes = rs.causes, StoreInv(rs'), Running => Linked(rs', tasks')
  PROVE  PipelineInv'
<1>1. QueuesInOrder' /\ OwnQueue' = OwnQueue /\ Running' = Running
  BY SameQueues DEF PipelineInv, OwnQueue, Running
<1>2. Running => Mirrors(rs', OwnQueue)
  BY DEF PipelineInv, Mirrors, CanUseNetwork
<1> QED BY <1>1, <1>2 DEF PipelineInv

(* An attempt in the phase its state says.                                 *)
LEMMA InPhase ==
  ASSUME TypeOK, NEW n \in Rpcs, NEW phase \in RpcPhases
  PROVE  LET r == [rs.rpcs[n] EXCEPT !.phase = phase]
         IN  /\ r \in RpcType /\ r.cc = rs.rpcs[n].cc /\ r.phase = phase
             /\ r.user = rs.rpcs[n].user /\ r.reqs = rs.rpcs[n].reqs
             /\ Rpc(n, phase) = [rs EXCEPT !.rpcs[n] = r]
BY RpcOK DEF RpcType, Rpc

(* getToken() answers; the RPC is started.                                 *)
LEMMA AuthenticationStays ==
  ASSUME TypeOK, OneStreamOneRecovery, PipelineInv, NEW n \in Rpcs,
         TokenFetched(n) \/ StartRpc(n)
  PROVE  PipelineInv'
<1> DEFINE old == rs.rpcs[n]
<1>1. /\ old \in RpcType /\ n # 0 /\ Sane(rs) /\ tasks \in Seq(TaskType)
      /\ old.phase \in {"auth", "token"} => n # rs.stream
      /\ Current(rs, n) => \A m \in Rpcs : Current(rs, m) => m = n
      /\ Running => Linked(rs, tasks)
  BY AttemptFacts
<1>2. old.phase \in {"auth", "token"} =>
        old.reqs = <<>> /\ (old.cc = rs.closeCount => rs.stream = 0)
  BY <1>1 DEF Sane, StoreInv, Phases, Rpcs
<1>3. CASE TokenFetched(n)
  <2> DEFINE r == [old EXCEPT !.phase = "token", !.user = creds.user]
  <2>1. creds.user \in Users /\ creds.user # 0
    BY UsersAssumption DEF TypeOK, Users
  <2>2. /\ r \in RpcType /\ r.cc = old.cc /\ r.phase = "token"
        /\ r.user # 0 /\ r.reqs = old.reqs
    <3> HIDE DEF old
    <3> QED BY <1>1, <2>1 DEF RpcType, RpcPhases
  <2>3. rs' = [rs EXCEPT !.rpcs[n] = r] /\ old.phase = "auth"
        /\ UNCHANGED <<local, author, mode, tasks>>
    BY <1>3 DEF TokenFetched
  <2> HIDE DEF r
  <2>4. Replaces(rs, rs', n, r)
    BY <2>2, <2>3, Replaced
  <2>5. StoreInv(rs')
    BY <1>1, <1>2, <2>2, <2>3, <2>4, ReplacesStays DEF Sane
  <2>6. Running => Linked(rs', tasks')
    BY <1>1, <2>2, <2>3, <2>4, ReplacesLinked DEF Sane
  <2> QED BY <2>3, <2>4, <2>5, <2>6, AttemptStep DEF Replaces
<1>4. CASE StartRpc(n)
  <2>1. old.phase = "token" /\ UNCHANGED <<local, author, mode, tasks>>
    BY <1>4 DEF StartRpc
  <2>2. CASE old.cc # rs.closeCount
    <3> DEFINE r == [old EXCEPT !.phase = "closed"]
    <3>1. r \in RpcType /\ r.cc = old.cc /\ r.phase = "closed"
          /\ Rpc(n, "closed") = [rs EXCEPT !.rpcs[n] = r]
      BY InPhase DEF RpcPhases
    <3>2. rs' = Rpc(n, "closed")
      BY <1>4, <2>2 DEF StartRpc
    <3> HIDE DEF r, old
    <3>3. Replaces(rs, rs', n, r)
      BY <3>1, <3>2, Replaced DEF old
    <3>4. StoreInv(rs')
      BY <1>1, <2>1, <3>1, <3>3, ReplacesStays DEF Sane
    <3>5. Running => Linked(rs', tasks')
      BY <1>1, <2>1, <3>1, <3>3, ReplacesLinked DEF Sane
    <3> QED BY <2>1, <3>3, <3>4, <3>5, AttemptStep DEF Replaces
  <2>3. CASE old.cc = rs.closeCount
    <3> DEFINE r == [old EXCEPT !.phase = "connecting"]
               t == [rs EXCEPT !.rpcs[n] = r]
    <3>1. /\ r \in RpcType /\ r.cc = old.cc /\ r.phase = "connecting"
          /\ r.user = old.user /\ r.reqs = old.reqs
          /\ Rpc(n, "connecting") = t
      BY InPhase DEF RpcPhases
    <3>2. rs' = [t EXCEPT !.stream = n]
      BY <1>4, <2>3, <3>1 DEF StartRpc
    <3> HIDE DEF r, old
    <3>3. Replaces(rs, t, n, r)
      BY <2>1, <3>1, Replaced DEF old
    <3>4. StoreOK(t)
      BY <3>1, RpcReplaced
    <3> HIDE DEF t
    <3>5. /\ rs'.state = t.state /\ rs'.closeCount = t.closeCount
          /\ rs'.handshake = t.handshake /\ rs'.idle = t.idle
          /\ rs'.stream = n /\ rs'.pipeline = t.pipeline
          /\ rs'.causes = t.causes /\ rs'.rpcs = t.rpcs
      BY <3>2, <3>4 DEF StoreOK, RemoteStoreType
    <3>6. /\ rs'.state = rs.state /\ rs'.closeCount = rs.closeCount
          /\ rs'.handshake = rs.handshake /\ rs'.idle = rs.idle
          /\ rs'.pipeline = rs.pipeline /\ rs'.causes = rs.causes
          /\ DOMAIN rs'.rpcs = Rpcs /\ rs'.rpcs[n] = r
          /\ \A m \in Rpcs : m # n => rs'.rpcs[m] = rs.rpcs[m]
      BY <3>3, <3>5 DEF Replaces, Rpcs
    <3>7. rs.stream = 0 /\ Current(rs, n) /\ UnderWay(rs)
      BY <1>1, <1>2, <2>1, <2>3 DEF Current, Sane, Sound, old, Rpcs
    <3>8. rs.state = "Starting" /\ ~rs.handshake
      BY <1>1, <3>7 DEF Sane, StoreInv, UnderWay
    <3>9. old.user # 0 /\ old.reqs = <<>>
      BY <1>1, <1>2, <2>1 DEF Sane, StoreInv, Phases, old, Rpcs
    <3>10. \A m \in Rpcs : Current(rs', m) => m = n
      BY <1>1, <3>6, <3>7 DEF Current
    <3>11. ASSUME NEW m \in Rpcs
           PROVE  /\ rs'.rpcs[m].phase \in {"connecting", "open", "ready"} =>
                       m = rs'.stream /\ rs'.rpcs[m].user # 0
                  /\ rs'.rpcs[m].phase = "token" => rs'.rpcs[m].user # 0
                  /\ rs'.rpcs[m].phase \in {"auth", "token"} =>
                       /\ rs'.rpcs[m].reqs = <<>>
                       /\ rs'.rpcs[m].cc = rs'.closeCount => rs'.stream = 0
      <4>1. CASE m = n
        BY <3>1, <3>5, <3>6, <3>9, <4>1
      <4>2. CASE m # n
        <5>1. rs'.rpcs[m] = rs.rpcs[m]
          BY <3>6, <4>2
        <5>2. rs.rpcs[m].phase \notin {"connecting", "open", "ready"}
          BY <3>7, RpcOK DEF Sane, StoreInv, Phases, Rpcs, PipelineInv
        <5>3. /\ rs.rpcs[m].phase = "token" => rs.rpcs[m].user # 0
              /\ rs.rpcs[m].phase \in {"auth", "token"} =>
                   rs.rpcs[m].reqs = <<>>
          BY <1>1 DEF Sane, StoreInv, Phases, Rpcs
        <5>4. ~Current(rs, m)
          BY <1>1, <3>7, <4>2
        <5> QED BY <3>6, <5>1, <5>2, <5>3, <5>4 DEF Current
      <4> QED BY <4>1, <4>2
    <3>12. Phases(rs')
      BY <3>6, <3>10, <3>11 DEF Phases
    <3>13. Attempt(rs', rs'.rpcs[rs'.stream])
      BY <2>3, <3>1, <3>5, <3>6, <3>8, <3>9 DEF Attempt, UnderWay
    <3>14. StoreInv(rs')
      BY <1>1, <3>6, <3>8, <3>12, <3>13
         DEF Sane, StoreInv, Drained, IsStarted, IsOpen
    <3>15. ASSUME Running PROVE Linked(rs', tasks')
      <4>1. \A i \in DOMAIN tasks : ~LiveIn(rs, tasks, i)
        BY <1>1, <2>1, <3>7, <3>15 DEF Linked, Calls, old, Rpcs
      <4>2. \A i \in DOMAIN tasks : ~LiveIn(rs', tasks, i)
        BY <3>6, <4>1 DEF LiveIn
      <4>3. StoreOK(rs')
        BY <3>2, <3>4, <3>5, <3>6, RpcOK DEF StoreOK, RemoteStoreType, Rpcs
      <4> QED BY <2>1, <3>6, <3>8, <4>2, <4>3, SilentLinked
    <3> QED BY <2>1, <3>6, <3>14, <3>15, AttemptStep
  <2> QED BY <2>2, <2>3
<1> QED BY <1>3, <1>4

(* An attempt that ends makes the stream enqueue the end, and why.         *)
LEMMA EndingStays ==
  ASSUME TypeOK, OneStreamOneRecovery, PipelineInv, NEW n \in Rpcs,
         NEW r \in RpcType, r.cc = rs.rpcs[n].cc, r.phase = "closed",
         rs' = [rs EXCEPT !.rpcs[n] = r], rs.rpcs[n].phase # "closed",
         UNCHANGED <<local, author, mode>>,
         NEW kind \in Closing, NEW b \in Nat,
         tasks' = IF Running THEN Append(tasks, StreamTask(n, kind, b))
                             ELSE tasks,
         kind = "permanent" =>
           /\ n = rs.stream /\ rs.rpcs[n].phase \notin {"auth", "token"}
           /\ IF rs.rpcs[n].phase = "ready"
                THEN /\ rs.rpcs[n].reqs # <<>> /\ b = Head(rs.rpcs[n].reqs)
                ELSE TRUE
  PROVE  PipelineInv'
<1> DEFINE old == rs.rpcs[n]
<1>1. /\ old \in RpcType /\ n # 0 /\ Sane(rs) /\ tasks \in Seq(TaskType)
      /\ old.phase \in {"connecting", "open", "ready"} =>
           Attempt(rs, old) /\ Current(rs, n)
      /\ old.phase \in {"auth", "token"} => n # rs.stream
      /\ Current(rs, n) =>
           /\ \A m \in Rpcs : Current(rs, m) => m = n
           /\ Running =>
                \A i \in DOMAIN tasks :
                  LiveIn(rs, tasks, i) => tasks[i].kind \notin Closing
      /\ Running => Linked(rs, tasks)
  BY AttemptFacts
<1>2. Replaces(rs, rs', n, r)
  BY Replaced
<1>3. old.phase \in {"auth", "token", "connecting", "open", "ready"}
  BY <1>1 DEF RpcType, RpcPhases
<1>4. n = rs.stream => Attempt(rs, r)
  BY <1>1, <1>3 DEF Attempt
<1>5. StoreInv(rs')
  BY <1>1, <1>2, <1>4, ReplacesStays DEF Sane
<1>6. ASSUME Running PROVE Linked(rs', tasks')
  <2> DEFINE t == StreamTask(n, kind, b)
  <2>1. Linked(rs', tasks)
    BY <1>1, <1>2, <1>6, ReplacesLinked DEF Sane
  <2>2. t \in TaskType /\ t.kind = kind /\ t.cc = old.cc /\ t.batch = b
    BY RpcOK DEF StreamTask, Closing, StreamKinds
  <2>3. tasks' = Append(tasks, t)
    BY <1>6
  <2>4. rs'.closeCount = rs.closeCount
    BY <1>2 DEF Replaces
  <2> HIDE DEF t
  <2>5. CASE old.cc # rs.closeCount
    BY <1>1, <2>1, <2>2, <2>3, <2>4, <2>5, LinkedAppend
  <2>6. CASE old.cc = rs.closeCount
    <3>1. Current(rs, n)
      BY <2>6 DEF Current
    <3>2. \A i \in DOMAIN tasks :
            LiveIn(rs', tasks, i) => tasks[i].kind \notin Closing
      BY <1>1, <1>6, <2>4, <3>1 DEF LiveIn
    <3>3. \A m \in DOMAIN rs'.rpcs : ~Current(rs', m)
      BY <1>1, <1>2, <3>1 DEF Current, Replaces, Rpcs
    <3>4. ASSUME kind = "permanent"
          PROVE  /\ rs'.handshake =>
                      /\ Cardinality(Answers(rs', tasks)) < Len(rs'.pipeline)
                      /\ b = rs'.pipeline[Cardinality(Answers(rs', tasks)) + 1]
                 /\ \A i \in DOMAIN tasks :
                      LiveIn(rs', tasks, i) => tasks[i].kind # "handshake"
      <4>1. /\ n = rs.stream /\ Attempt(rs, old)
            /\ rs'.handshake = rs.handshake /\ rs'.pipeline = rs.pipeline
        BY <1>1, <1>2, <1>3, <3>4 DEF Replaces
      <4>2. CASE rs.handshake
        <5> DEFINE p == rs.pipeline
                   c == Cardinality(Answers(rs, tasks))
        <5>1. old.phase = "ready" /\ old.reqs # <<>> /\ b = Head(old.reqs)
          BY <1>3, <3>4, <4>1, <4>2 DEF Attempt
        <5>2. c <= Len(p) /\ old.reqs = SubSeq(p, c + 1, Len(p))
          BY <1>1, <1>6, <4>1, <4>2, <5>1 DEF Linked, Correlated
        <5>3. c \in Nat /\ p \in Seq(BatchIds) /\ Len(p) \in Nat
          BY <1>1, AnswersType, LenProperties
             DEF Sane, StoreOK, RemoteStoreType
        <5>4. Answers(rs', tasks) = Answers(rs, tasks)
          BY <2>4 DEF Answers
        <5> HIDE DEF p, c, old
        <5>5. p # <<>>
          <6> SUFFICES ASSUME p = <<>> PROVE FALSE
            OBVIOUS
          <6>1. Len(p) = 0 /\ c \in 0 .. Len(p)
            BY <5>2, <5>3, EmptySeq
          <6>2. Len(old.reqs) = 0 /\ old.reqs \in Seq(BatchIds)
            BY <5>2, <5>3, <6>1, Suffix
          <6> QED BY <5>1, <6>2, EmptySeq
        <5>6. c + 1 <= Len(p) /\ Head(old.reqs) = p[c + 1]
          <6>1. c \in 0 .. Len(p)
            BY <5>2, <5>3
          <6> QED BY <5>1, <5>2, <5>3, <5>5, <6>1, SuffixTail
        <5>7. c < Len(p)
          BY <5>3, <5>6
        <5>8. \A i \in DOMAIN tasks :
                LiveIn(rs', tasks, i) => tasks[i].kind # "handshake"
          BY <1>1, <1>6, <2>4, <4>2 DEF Linked, Calls, LiveIn
        <5> QED BY <4>1, <5>1, <5>4, <5>6, <5>7, <5>8 DEF p, c
      <4>3. CASE ~rs.handshake
        <5>1. CASE old.phase # "ready"
          <6>1. \A i \in DOMAIN tasks :
                  LiveIn(rs', tasks, i) => tasks[i].kind # "handshake"
            BY <1>1, <1>6, <2>4, <4>1, <5>1 DEF Linked, Calls, LiveIn
          <6> QED BY <4>1, <4>3, <6>1
        <5>2. CASE old.phase = "ready"
          BY <3>4, <4>1, <4>3, <5>2 DEF Attempt
        <5> QED BY <5>1, <5>2
      <4> QED BY <4>2, <4>3
    <3> QED BY <1>1, <2>1, <2>2, <2>3, <2>4, <2>6, <3>2, <3>3, <3>4,
               LiveCallAppended DEF Closing, StreamKinds
  <2> QED BY <2>5, <2>6
<1> QED BY <1>2, <1>5, <1>6, AttemptStep DEF Replaces

(* The backend accepts the stream and answers the handshake.               *)
LEMMA OpeningStays ==
  ASSUME TypeOK, OneStreamOneRecovery, PipelineInv, NEW n \in Rpcs,
         BackendAccepts(n) \/ BackendShakesHands(n)
  PROVE  PipelineInv'
<1> DEFINE old == rs.rpcs[n]
           reqs == Requests(n)
<1>1. old.phase \in {"connecting", "open"}
  BY DEF BackendAccepts, BackendShakesHands
<1>2. /\ old \in RpcType /\ n # 0 /\ Sane(rs) /\ tasks \in Seq(TaskType)
      /\ n = rs.stream /\ Attempt(rs, old) /\ old.user # 0 /\ Current(rs, n)
      /\ \A m \in Rpcs : Current(rs, m) => m = n
      /\ Running =>
           \A i \in DOMAIN tasks :
             LiveIn(rs, tasks, i) => tasks[i].kind \notin Closing
      /\ Running => Linked(rs, tasks)
  BY <1>1, AttemptFacts
<1>3. old.cc = rs.closeCount /\ ~rs.handshake
  BY <1>1, <1>2 DEF Attempt
<1>4. PICK r \in RpcType, kind \in {"open", "handshake"} :
        /\ r.cc = old.cc /\ r.user = old.user
        /\ rs' = [rs EXCEPT !.rpcs[n] = r]
        /\ tasks' = IF Running THEN Append(tasks, StreamTask(n, kind, 0))
                               ELSE tasks
        /\ Attempt(rs, r) /\ r.phase \in {"open", "ready"}
        /\ kind = "open" => /\ r.phase = "open" /\ rs.state = "Starting"
                            /\ old.phase = "connecting"
        /\ kind = "handshake" => /\ r.phase = "ready" /\ rs.state = "Open"
                                 /\ old.phase = "open"
  <2>1. CASE BackendAccepts(n)
    <3> DEFINE r == [old EXCEPT !.phase = "open"]
    <3>1. /\ r \in RpcType /\ r.cc = old.cc /\ r.phase = "open"
          /\ r.user = old.user /\ r.reqs = old.reqs
          /\ Rpc(n, "open") = [rs EXCEPT !.rpcs[n] = r]
      BY InPhase DEF RpcPhases
    <3>2. /\ rs' = Rpc(n, "open") /\ old.phase = "connecting"
          /\ tasks' = IF Running THEN Append(tasks, StreamTask(n, "open", 0))
                                 ELSE tasks
      BY <2>1 DEF BackendAccepts, Emit
    <3> HIDE DEF r, old
    <3>3. rs.state = "Starting" /\ Attempt(rs, r)
      BY <1>2, <1>3, <3>1, <3>2 DEF Attempt
    <3> QED BY <3>1, <3>2, <3>3
  <2>2. CASE BackendShakesHands(n)
    <3> DEFINE r == [old EXCEPT !.phase = "ready", !.reqs = Tail(reqs)]
    <3>1. /\ old.phase = "open" /\ reqs # <<>> /\ reqs = old.reqs
          /\ rs' = [rs EXCEPT !.rpcs[n] = r]
          /\ tasks' = IF Running
                        THEN Append(tasks, StreamTask(n, "handshake", 0))
                        ELSE tasks
      BY <2>2 DEF BackendShakesHands, Emit, Requests
    <3> HIDE DEF reqs
    <3>2. rs.state = "Open" /\ reqs = <<Handshake>>
      BY <1>2, <3>1 DEF Attempt, UnderWay
    <3>3. Tail(reqs) = <<>> /\ <<>> \in Seq(Nat)
      BY <3>2, EmptySeq
    <3>4. /\ r \in RpcType /\ r.cc = old.cc /\ r.phase = "ready"
          /\ r.user = old.user /\ r.reqs = <<>>
      <4> HIDE DEF old
      <4> QED BY <1>2, <3>3 DEF RpcType, RpcPhases
    <3> HIDE DEF r, old
    <3>5. Attempt(rs, r)
      BY <1>2, <1>3, <3>2, <3>4 DEF Attempt
    <3> QED BY <3>1, <3>2, <3>4, <3>5
  <2> QED BY <2>1, <2>2
<1>5. Replaces(rs, rs', n, r)
  BY <1>1, <1>4, Replaced
<1>6. StoreInv(rs')
  BY <1>2, <1>4, <1>5, ReplacesStays DEF Sane
<1>7. UNCHANGED <<local, author, mode>>
  BY DEF BackendAccepts, BackendShakesHands
<1> HIDE DEF old
<1>8. ASSUME Running PROVE Linked(rs', tasks')
  <2> DEFINE t == StreamTask(n, kind, 0)
  <2>1. Linked(rs', tasks)
    BY <1>1, <1>2, <1>3, <1>4, <1>5, <1>8, ReplacesLinked DEF Sane, old
  <2>2. t \in TaskType /\ t.kind = kind /\ t.cc = rs'.closeCount
    BY <1>3, <1>5, RpcOK DEF StreamTask, StreamKinds, Replaces, old
  <2>3. tasks' = Append(tasks, t)
    BY <1>4, <1>8
  <2> HIDE DEF t
  <2>4. \A i : LiveIn(rs', tasks, i) <=> LiveIn(rs, tasks, i)
    BY <1>5 DEF LiveIn, Replaces
  <2>5. /\ rs'.stream = n /\ rs'.state = rs.state /\ ~rs'.handshake
        /\ rs'.rpcs[n] = r
    BY <1>2, <1>3, <1>5 DEF Replaces
  <2>6. \A m \in DOMAIN rs'.rpcs :
          rs'.rpcs[m].phase \in {"auth", "token", "connecting"} =>
            ~Current(rs', m)
    BY <1>2, <1>4, <1>5 DEF Current, Replaces, Rpcs
  <2>7. \A i \in DOMAIN tasks :
          LiveIn(rs', tasks, i) => tasks[i].kind # kind
    <3>1. CASE kind = "open"
      <4>1. \A i \in DOMAIN tasks : ~LiveIn(rs, tasks, i)
        BY <1>2, <1>4, <1>8, <3>1 DEF Linked, Calls, Rpcs, old
      <4> QED BY <2>4, <4>1
    <3>2. CASE kind = "handshake"
      BY <1>2, <1>4, <1>8, <2>4, <3>2 DEF Linked, Calls, old
    <3> QED BY <3>1, <3>2
  <2>8. kind \in StreamKinds /\ kind \notin Closing
        /\ kind # "result" /\ kind # "permanent"
    BY DEF StreamKinds, Closing
  <2>9. \A i \in DOMAIN tasks :
          LiveIn(rs', tasks, i) => tasks[i].kind \notin Closing
    BY <1>2, <1>8, <2>4
  <2>10. /\ rs'.stream # 0
         /\ kind = "open" => rs'.state = "Starting"
         /\ kind = "handshake" =>
              /\ rs'.state = "Open"
              /\ rs'.rpcs[rs'.stream].phase \in {"ready", "closed"}
    BY <1>2, <1>4, <2>5
  <2>11. Linked(rs', Append(tasks, t))
    <3>1. tasks \in Seq(TaskType)
      BY <1>2
    <3> QED BY <2>1, <2>2, <2>5, <2>6, <2>7, <2>8, <2>9, <2>10, <3>1,
               LiveCallAppended
  <2> QED BY <2>3, <2>11
<1> QED BY <1>5, <1>6, <1>7, <1>8, AttemptStep DEF Replaces

(* The backend answers the first of the requests, heard or not.            *)
LEMMA CommitsStay ==
  ASSUME TypeOK, OneStreamOneRecovery, PipelineInv, NEW n \in Rpcs,
         BackendCommits(n) \/ OrphanCommits(n)
  PROVE  PipelineInv'
<1> DEFINE old == rs.rpcs[n]
           reqs == Requests(n)
           r == [old EXCEPT !.reqs = Tail(reqs)]
<1>1. /\ old.phase \in {"ready", "closed"} /\ reqs # <<>> /\ reqs = old.reqs
      /\ rs' = [rs EXCEPT !.rpcs[n] = r] /\ UNCHANGED <<local, author, mode>>
  BY DEF BackendCommits, OrphanCommits, Requests
<1>2. /\ old \in RpcType /\ n # 0 /\ Sane(rs) /\ tasks \in Seq(TaskType)
      /\ old.phase = "ready" =>
           /\ n = rs.stream /\ Attempt(rs, old) /\ old.user # 0
           /\ Current(rs, n)
      /\ Running => Linked(rs, tasks)
  BY AttemptFacts
<1>3. reqs \in Seq(Nat)
  BY <1>1, <1>2 DEF RpcType
<1> HIDE DEF reqs
<1>4. Head(reqs) \in Nat /\ Tail(reqs) \in Seq(Nat)
  BY <1>1, <1>3, HeadTailProperties
<1>5. /\ r \in RpcType /\ r.cc = old.cc /\ r.phase = old.phase
      /\ r.user = old.user /\ r.reqs = Tail(reqs)
  <2> HIDE DEF old
  <2> QED BY <1>2, <1>4 DEF RpcType, RpcPhases
<1> HIDE DEF r
<1>6. Replaces(rs, rs', n, r)
  BY <1>1, <1>5, Replaced
<1>7. old.phase = "ready" => rs.handshake /\ rs.state = "Open"
  BY <1>1, <1>2 DEF Attempt, UnderWay
<1>8. n = rs.stream => Attempt(rs, r)
  <2>1. n = rs.stream => Attempt(rs, old)
    BY <1>2 DEF Sane, StoreInv
  <2> HIDE DEF old
  <2> QED BY <1>1, <1>5, <1>7, <2>1 DEF Attempt
<1>9. StoreInv(rs')
  BY <1>1, <1>2, <1>5, <1>6, <1>8, ReplacesStays DEF Sane
<1> HIDE DEF old
<1>10. CASE OrphanCommits(n)
  <2>1. old.phase = "closed" /\ tasks' = tasks
    BY <1>10 DEF OrphanCommits, old
  <2>2. Running => Linked(rs', tasks')
    BY <1>2, <1>5, <1>6, <2>1, ReplacesLinked DEF Sane
  <2> QED BY <1>1, <1>6, <1>9, <2>2, AttemptStep DEF Replaces
<1>11. CASE BackendCommits(n)
  <2> DEFINE t == StreamTask(n, "result", Head(reqs))
  <2>1. /\ old.phase = "ready"
        /\ tasks' = IF Running THEN Append(tasks, t) ELSE tasks
    BY <1>11 DEF BackendCommits, Emit, old, reqs
  <2>2. t \in TaskType /\ t.kind = "result" /\ t.cc = rs.closeCount
        /\ t.batch = Head(reqs)
    BY <1>2, <1>4, <2>1, RpcOK DEF StreamTask, StreamKinds, Current
  <2> HIDE DEF t
  <2>3. ASSUME Running PROVE Linked(rs', tasks')
    <3>1. Phases(rs) /\ StoreOK(rs) /\ Linked(rs, tasks)
      BY <1>2, <2>3 DEF Sane, StoreInv
    <3>2. rs.stream # 0 /\ rs.rpcs[rs.stream].phase = "ready"
          /\ n = rs.stream /\ Current(rs, n) /\ reqs = rs.rpcs[n].reqs
      BY <1>1, <1>2, <2>1 DEF old
    <3>3. tasks' = Append(tasks, t)
      BY <2>1, <2>3
    <3>4. /\ tasks \in Seq(TaskType) /\ rs.handshake /\ rs.state = "Open"
          /\ r.phase = "ready" /\ r.reqs = Tail(reqs) /\ reqs # <<>>
      BY <1>1, <1>2, <1>5, <1>7, <2>1
    <3>5. Linked(rs', Append(tasks, t))
      BY <1>6, <2>2, <3>1, <3>2, <3>4, AnswerAppended
    <3> QED BY <3>3, <3>5
  <2> QED BY <1>1, <1>6, <1>9, <2>3, AttemptStep DEF Replaces
<1> QED BY <1>10, <1>11

(* Every step of an attempt keeps the invariant.                           *)
LEMMA AttemptsStay ==
  ASSUME TypeOK, OneStreamOneRecovery, PipelineInv, NEW n \in Rpcs,
         \/ TokenFetched(n) \/ StartRpc(n) \/ TokenFetchFails(n)
         \/ Backend(n) \/ OrphanCommits(n)
         \/ StreamBreaks(n, "transient") \/ StreamBreaks(n, "permanent")
  PROVE  PipelineInv'
<1> DEFINE old == rs.rpcs[n]
           r == [old EXCEPT !.phase = "closed"]
<1>1. /\ r \in RpcType /\ r.cc = old.cc /\ r.phase = "closed"
      /\ Rpc(n, "closed") = [rs EXCEPT !.rpcs[n] = r]
  BY InPhase DEF RpcPhases
<1> HIDE DEF r
<1>2. CASE TokenFetchFails(n) \/ StreamBreaks(n, "transient")
  <2>1. /\ rs' = Rpc(n, "closed") /\ old.phase # "closed"
        /\ UNCHANGED <<local, author, mode>>
        /\ tasks' = IF Running THEN Append(tasks, StreamTask(n, "transient", 0))
                               ELSE tasks
    BY <1>2 DEF TokenFetchFails, StreamBreaks, Emit
  <2> QED BY <1>1, <2>1, EndingStays DEF Closing
<1>3. CASE StreamBreaks(n, "permanent")
  <2>1. /\ rs' = Rpc(n, "closed") /\ old.phase \in {"connecting", "open"}
        /\ UNCHANGED <<local, author, mode>>
        /\ tasks' = IF Running THEN Append(tasks, StreamTask(n, "permanent", 0))
                               ELSE tasks
    BY <1>3 DEF StreamBreaks, Emit
  <2>2. n = rs.stream
    BY <2>1, AttemptFacts
  <2> QED BY <1>1, <2>1, <2>2, EndingStays DEF Closing
<1>4. CASE BackendRefuses(n)
  <2> DEFINE shut == [old EXCEPT !.phase = "closed", !.reqs = <<>>]
             b == Head(Requests(n))
  <2>1. /\ rs' = [rs EXCEPT !.rpcs[n] = shut] /\ old.phase = "ready"
        /\ UNCHANGED <<local, author, mode>>
        /\ tasks' = IF Running THEN Append(tasks, StreamTask(n, "permanent", b))
                               ELSE tasks
        /\ Requests(n) # <<>> /\ Requests(n) = old.reqs
    BY <1>4 DEF BackendRefuses, Emit, Requests
  <2>2. n = rs.stream /\ old \in RpcType
    BY <2>1, AttemptFacts
  <2>3. shut \in RpcType /\ shut.cc = old.cc /\ shut.phase = "closed"
    <3>1. <<>> \in Seq(Nat)
      BY EmptySeq
    <3> HIDE DEF old
    <3> QED BY <2>2, <3>1 DEF RpcType, RpcPhases
  <2>4. b \in Nat /\ b = Head(old.reqs) /\ old.reqs # <<>>
    <3>1. Requests(n) \in Seq(Nat)
      BY <2>1, <2>2 DEF RpcType
    <3> QED BY <2>1, <3>1, HeadTailProperties
  <2> HIDE DEF shut, b
  <2> QED BY <2>1, <2>2, <2>3, <2>4, EndingStays DEF Closing
<1> QED BY <1>2, <1>3, <1>4, AuthenticationStays, OpeningStays, CommitsStay
        DEF Backend

----------------------------------------------------------------------------
(* Callbacks of the stream                                                 *)

(* When only the end of the stream is still to be reported.                *)
LEMMA OnlyEndsLinked ==
  ASSUME NEW s, NEW queue, Calls(s, queue), NEW t, StoreOK(t),
         t.closeCount = s.closeCount, t.stream = s.stream,
         DOMAIN t.rpcs = DOMAIN s.rpcs,
         \A n \in DOMAIN s.rpcs : /\ t.rpcs[n].cc = s.rpcs[n].cc
                                  /\ t.rpcs[n].phase = s.rpcs[n].phase,
         \A i \in DOMAIN queue :
           LiveIn(s, queue, i) =>
             /\ queue[i].kind \in Closing
             /\ queue[i].kind = "permanent" => ~t.handshake,
         t.handshake /\ t.stream # 0 /\ t.rpcs[t.stream].phase = "ready" =>
           t.rpcs[t.stream].reqs = SubSeq(t.pipeline, 1, Len(t.pipeline))
  PROVE  Linked(t, queue)
<1>1. \A i : LiveIn(t, queue, i) <=> LiveIn(s, queue, i)
  BY DEF LiveIn
<1>2. \A n \in DOMAIN s.rpcs : Current(t, n) <=> Current(s, n)
  BY DEF Current
<1>3. Answers(t, queue) = {}
  BY DEF Answers, LiveIn, StreamKinds, Closing
<1>4. Cardinality(Answers(t, queue)) = 0
  BY <1>3, FS_EmptySet
<1>5. Len(t.pipeline) \in Nat
  BY LenProperties DEF StoreOK, RemoteStoreType
<1>6. Correlated(t, queue)
  BY <1>3, <1>4, <1>5 DEF Correlated
<1>7. ErrorNamesNext(t, queue)
  BY <1>1 DEF ErrorNamesNext, Closing
<1>8. \A i \in DOMAIN queue :
        LiveIn(s, queue, i) =>
          /\ \A n \in DOMAIN s.rpcs : ~Current(s, n)
          /\ \A j \in DOMAIN queue : LiveIn(s, queue, j) => j <= i
  BY DEF Calls
<1>9. \A i \in DOMAIN queue :
        LiveIn(t, queue, i) =>
          /\ \A n \in DOMAIN t.rpcs : ~Current(t, n)
          /\ \A j \in DOMAIN queue : LiveIn(t, queue, j) => j <= i
          /\ queue[i].kind \in Closing
          /\ queue[i].kind \notin {"open", "handshake", "result"}
  BY <1>1, <1>2, <1>8 DEF Closing
<1>10. Calls(t, queue)
  BY <1>9 DEF Calls
<1> QED BY <1>6, <1>7, <1>10 DEF Linked

(* The live callback at the head of the queue.                             *)
LEMMA HeadCallback ==
  ASSUME TypeOK, OneStreamOneRecovery, PipelineInv, Running, tasks # <<>>,
         Head(tasks).kind \in StreamKinds
  PROVE  /\ Sane(rs) /\ Linked(rs, tasks) /\ tasks \in Seq(TaskType)
         /\ Tail(tasks) \in Seq(TaskType) /\ Calls(rs, Tail(tasks))
         /\ CallbacksSound(rs, Tail(tasks))
         /\ 1 \in DOMAIN tasks /\ tasks[1] = Head(tasks)
         /\ IsLive(Head(tasks)) => LiveIn(rs, tasks, 1)
         /\ 1 \in Answers(rs, tasks) <=>
              IsLive(Head(tasks)) /\ Head(tasks).kind = "result"
         /\ QueuesInOrder /\ Mirrors(rs, OwnQueue)
<1>1. /\ Sane(rs) /\ Linked(rs, tasks) /\ tasks \in Seq(TaskType)
      /\ CallbacksSound(rs, tasks)
      /\ QueuesInOrder /\ Mirrors(rs, OwnQueue)
  BY PipelineParts, InvParts
<1>2. 1 \in DOMAIN tasks /\ tasks[1] = Head(tasks)
      /\ Tail(tasks) \in Seq(TaskType)
  BY <1>1, LiveTail
<1>3. Calls(rs, Tail(tasks)) /\ CallbacksSound(rs, Tail(tasks))
  BY <1>1, CallsTail, CallbacksTail DEF Linked
<1> QED BY <1>1, <1>2, <1>3 DEF LiveIn, Answers, IsLive

(* A callback that only concerns the stream.                               *)
LEMMA CallbackStep ==
  ASSUME PipelineInv, UNCHANGED <<local, author>>,
         rs'.pipeline = rs.pipeline, rs'.causes = rs.causes, Running,
         StoreInv(rs'), Linked(rs', tasks')
  PROVE  PipelineInv'
<1>1. QueuesInOrder' /\ OwnQueue' = OwnQueue
  BY SameQueues DEF PipelineInv, OwnQueue
<1>2. Mirrors(rs', OwnQueue)
  BY DEF PipelineInv, Mirrors, CanUseNetwork
<1> QED BY <1>1, <1>2, PipelineStep

(* A stale callback is skipped.                                            *)
LEMMA SkipStays ==
  ASSUME TypeOK, OneStreamOneRecovery, PipelineInv, SkipStaleCallback
  PROVE  PipelineInv'
<1>1. /\ Running /\ tasks # <<>> /\ tasks' = Tail(tasks)
      /\ UNCHANGED <<rs, local, author>>
      /\ Head(tasks).kind \in StreamKinds /\ ~IsLive(Head(tasks))
  BY DEF SkipStaleCallback
<1>2. Linked(rs, Tail(tasks)) /\ StoreInv(rs)
  BY <1>1, HeadCallback, LinkedTail DEF Sane
<1> QED BY <1>1, <1>2, CallbackStep

(* The open stream asks for the handshake.                                 *)
LEMMA OnOpenStays ==
  ASSUME TypeOK, OneStreamOneRecovery, PipelineInv, OnOpen
  PROVE  PipelineInv'
<1> DEFINE w == [rs EXCEPT !.state = "Open"]
           t == Send(w, <<Handshake>>)
           r == rs.rpcs[rs.stream]
           rest == Tail(tasks)
<1>1. /\ Running /\ tasks # <<>> /\ Head(tasks).kind = "open"
      /\ IsLive(Head(tasks)) /\ rs' = t /\ tasks' = rest
      /\ UNCHANGED <<local, author>>
  BY DEF OnOpen, NextTask
<1>2. /\ Sane(rs) /\ Linked(rs, tasks) /\ tasks \in Seq(TaskType)
      /\ Calls(rs, rest)
      /\ 1 \in DOMAIN tasks /\ tasks[1].kind = "open" /\ LiveIn(rs, tasks, 1)
  BY <1>1, HeadCallback DEF StreamKinds
<1>3. /\ rs.stream # 0 /\ rs.state = "Starting" /\ ~rs.handshake
      /\ \A n \in DOMAIN rs.rpcs :
           rs.rpcs[n].phase \in {"auth", "token", "connecting"} =>
             ~Current(rs, n)
      /\ \A j \in DOMAIN tasks :
           LiveIn(rs, tasks, j) /\ tasks[j].kind = "open" => j = 1
  <2>1. /\ \A n \in DOMAIN rs.rpcs :
             rs.rpcs[n].phase \in {"auth", "token", "connecting"} =>
               ~Current(rs, n)
        /\ tasks[1].kind \notin Closing => rs.stream # 0
        /\ rs.state = "Starting"
    BY <1>2 DEF Linked, Calls
  <2>2. \A j \in DOMAIN tasks :
          LiveIn(rs, tasks, j) /\ tasks[j].kind = "open" => j = 1
    BY <1>2 DEF Linked, Calls
  <2> QED BY <1>2, <2>1, <2>2 DEF Closing, Sane, StoreInv
<1>4. /\ Attempt(rs, r) /\ rs.stream \in DOMAIN rs.rpcs /\ r \in RpcType
      /\ rs.pipeline # <<>>
  <2>1. rs.stream \in DOMAIN rs.rpcs
    BY <1>2, <1>3 DEF Sane, StoreOK
  <2> QED BY <1>2, <1>3, <2>1, RpcOK
          DEF Sane, StoreInv, Drained, IsStarted, Rpcs
<1>5. /\ r.phase \in {"open", "closed"} /\ r.cc = rs.closeCount
      /\ r.phase = "open" => r.reqs = <<>>
  BY <1>3, <1>4 DEF Attempt, RpcType, RpcPhases, Current
<1>6. /\ StoreOK(w) /\ w.state = "Open" /\ w.closeCount = rs.closeCount
      /\ w.handshake = rs.handshake /\ w.stream = rs.stream
      /\ w.pipeline = rs.pipeline /\ w.rpcs = rs.rpcs
      /\ w.causes = rs.causes
  BY <1>2 DEF Sane, StoreOK, RemoteStoreType, StreamStates
<1> HIDE DEF w
<1>7. StoreOK(t) /\ Sends(w, t, <<Handshake>>) /\ t.causes = rs.causes
  <2>1. <<Handshake>> \in Seq(Nat) /\ <<Handshake>> # <<>>
    BY DEF Handshake
  <2>2. Alike(w, t)
    BY <1>6, <2>1, SendKeeps
  <2> HIDE DEF t
  <2>3. t.causes = rs.causes
    BY <1>6, <2>2 DEF Alike
  <2> QED BY <1>3, <1>6, <2>1, <2>3, SendOK, SendRequests DEF t
<1> HIDE DEF t
<1>8. /\ t.state = "Open" /\ t.closeCount = rs.closeCount
      /\ ~t.handshake /\ ~t.idle /\ t.stream = rs.stream
      /\ t.pipeline = rs.pipeline /\ DOMAIN t.rpcs = DOMAIN rs.rpcs
      /\ \A n \in DOMAIN rs.rpcs :
           /\ n # rs.stream => t.rpcs[n] = rs.rpcs[n]
           /\ t.rpcs[n].cc = rs.rpcs[n].cc
           /\ t.rpcs[n].phase = rs.rpcs[n].phase
           /\ t.rpcs[n].user = rs.rpcs[n].user
  BY <1>3, <1>6, <1>7, Zenon DEF Sends
<1>9. r.phase = "open" => t.rpcs[t.stream].reqs = <<Handshake>>
  <2> SUFFICES ASSUME r.phase = "open"
               PROVE  t.rpcs[t.stream].reqs = <<Handshake>>
    OBVIOUS
  <2>1. t.rpcs[t.stream].reqs = r.reqs \o <<Handshake>>
    BY <1>6, <1>7, <1>8 DEF Sends
  <2>2. r.reqs = <<>> /\ <<>> \o <<Handshake>> = <<Handshake>>
    BY <1>5
  <2> QED BY <2>1, <2>2
<1>10. Phases(t)
  BY <1>2, <1>4, <1>5, <1>8, PhasesKept DEF Sane, StoreInv
<1>11. Attempt(t, t.rpcs[t.stream])
  BY <1>4, <1>5, <1>8, <1>9 DEF Attempt, UnderWay
<1>12. StoreInv(t)
  BY <1>3, <1>4, <1>8, <1>10, <1>11 DEF StoreInv, Drained
<1>13. \A i \in DOMAIN rest :
         LiveIn(rs, rest, i) => rest[i].kind \in Closing
  <2> SUFFICES ASSUME NEW i \in DOMAIN rest, LiveIn(rs, rest, i)
               PROVE  rest[i].kind \in Closing
    OBVIOUS
  <2>1. /\ i + 1 \in DOMAIN tasks /\ rest[i] = tasks[i + 1]
        /\ LiveIn(rs, tasks, i + 1) /\ i + 1 # 1
    BY <1>1, <1>2, LiveTail
  <2>2. tasks[i + 1].kind \notin {"open", "handshake", "result"}
    BY <1>2, <1>3, <2>1 DEF Linked, Calls
  <2> QED BY <2>1, <2>2 DEF LiveIn, StreamKinds, Closing
<1>14. Linked(t, rest)
  BY <1>2, <1>7, <1>8, <1>13, OnlyEndsLinked
<1> QED BY <1>1, <1>7, <1>8, <1>12, <1>14, CallbackStep

(* After the handshake the pipeline is sent.                               *)
LEMMA OnHandshakeStays ==
  ASSUME TypeOK, OneStreamOneRecovery, PipelineInv, OnHandshake
  PROVE  PipelineInv'
<1> DEFINE w == [rs EXCEPT !.handshake = TRUE]
           p == rs.pipeline
           t == Send(w, p)
           r == rs.rpcs[rs.stream]
           rest == Tail(tasks)
<1>1. /\ Running /\ tasks # <<>> /\ Head(tasks).kind = "handshake"
      /\ IsLive(Head(tasks))
  BY DEF OnHandshake, NextTask
<1>2. /\ Sane(rs) /\ Linked(rs, tasks) /\ tasks \in Seq(TaskType)
      /\ Calls(rs, rest) /\ 1 \in DOMAIN tasks
      /\ tasks[1].kind = "handshake" /\ LiveIn(rs, tasks, 1)
  BY <1>1, HeadCallback DEF StreamKinds
<1>3. /\ rs.stream # 0 /\ rs.state = "Open" /\ ~rs.handshake
      /\ r.phase \in {"ready", "closed"}
      /\ \A j \in DOMAIN tasks :
           LiveIn(rs, tasks, j) /\ tasks[j].kind = "handshake" => j = 1
  <2>1. /\ tasks[1].kind \notin Closing => rs.stream # 0
        /\ rs.state = "Open" /\ ~rs.handshake
        /\ r.phase \in {"ready", "closed"}
    BY <1>2 DEF Linked, Calls
  <2>2. \A j \in DOMAIN tasks :
          LiveIn(rs, tasks, j) /\ tasks[j].kind = "handshake" => j = 1
    BY <1>2 DEF Linked, Calls
  <2> QED BY <1>2, <2>1, <2>2 DEF Closing
<1>4. rs' = t /\ tasks' = rest /\ UNCHANGED <<local, author>>
  BY <1>3 DEF OnHandshake
<1>5. /\ Attempt(rs, r) /\ p # <<>> /\ p \in Seq(Nat) /\ p \in Seq(BatchIds)
  <2>1. p \in Seq(BatchIds)
    BY <1>2, ChangedOK DEF Sane
  <2>2. p \in Seq(Nat)
    <3> HIDE DEF p
    <3> QED BY <2>1, SeqMonotonic DEF BatchIds
  <2> QED BY <1>2, <1>3, <2>1, <2>2
          DEF Sane, StoreInv, Drained, IsStarted, IsOpen
<1>6. /\ StoreOK(w) /\ w.state = "Open" /\ w.closeCount = rs.closeCount
      /\ w.handshake = TRUE /\ w.stream = rs.stream
      /\ w.pipeline = p /\ w.rpcs = rs.rpcs /\ w.causes = rs.causes
  BY <1>2, <1>3 DEF Sane, StoreOK, RemoteStoreType
<1> HIDE DEF w, p
<1>7. StoreOK(t) /\ Sends(w, t, p) /\ t.causes = rs.causes
  <2>1. Alike(w, t)
    BY <1>5, <1>6, SendKeeps
  <2> HIDE DEF t
  <2>2. t.causes = rs.causes
    BY <1>6, <2>1 DEF Alike
  <2> QED BY <1>3, <1>5, <1>6, <2>2, SendOK, SendRequests DEF t
<1> HIDE DEF t
<1>8. /\ t.state = "Open" /\ t.closeCount = rs.closeCount
      /\ t.handshake /\ ~t.idle /\ t.stream = rs.stream
      /\ t.pipeline = p /\ DOMAIN t.rpcs = DOMAIN rs.rpcs
      /\ \A n \in DOMAIN rs.rpcs :
           /\ n # rs.stream => t.rpcs[n] = rs.rpcs[n]
           /\ t.rpcs[n].cc = rs.rpcs[n].cc
           /\ t.rpcs[n].phase = rs.rpcs[n].phase
           /\ t.rpcs[n].user = rs.rpcs[n].user
  <2>1. /\ t.state = "Open" /\ t.closeCount = rs.closeCount
        /\ ~t.idle /\ t.stream = rs.stream
        /\ t.pipeline = p
    BY <1>3, <1>6, <1>7, Zenon DEF Sends
  <2>2. t.handshake = w.handshake
    BY <1>7, Zenon DEF Sends
  <2>3. t.handshake
    BY <1>6, <2>2
  <2>4. DOMAIN t.rpcs = DOMAIN rs.rpcs
    BY <1>6, <1>7, Zenon DEF Sends
  <2>5. \A n \in DOMAIN rs.rpcs :
           /\ n # rs.stream => t.rpcs[n] = rs.rpcs[n]
           /\ t.rpcs[n].cc = rs.rpcs[n].cc
           /\ t.rpcs[n].phase = rs.rpcs[n].phase
           /\ t.rpcs[n].user = rs.rpcs[n].user
    <3>1. \A n \in DOMAIN w.rpcs :
             /\ n # w.stream => t.rpcs[n] = w.rpcs[n]
             /\ t.rpcs[n].cc = w.rpcs[n].cc
             /\ t.rpcs[n].phase = w.rpcs[n].phase
             /\ t.rpcs[n].user = w.rpcs[n].user
      BY <1>7, Zenon DEF Sends
    <3>2. w.rpcs = rs.rpcs /\ w.stream = rs.stream
      BY <1>6
    <3> QED BY <3>1, <3>2
  <2> QED BY <2>1, <2>3, <2>4, <2>5, Zenon
<1>9. r.phase = "ready" => t.rpcs[t.stream].reqs = SubSeq(p, 1, Len(p))
  <2> SUFFICES ASSUME r.phase = "ready"
               PROVE  t.rpcs[t.stream].reqs = SubSeq(p, 1, Len(p))
    OBVIOUS
  <2>1. t.rpcs[t.stream].reqs = r.reqs \o p
    BY <1>6, <1>7, <1>8 DEF Sends
  <2>2. r.reqs = <<>>
    BY <1>3, <1>5 DEF Attempt
  <2>3. <<>> \o p = p /\ SubSeq(p, 1, Len(p)) = p
    BY <1>5
  <2> QED BY <2>1, <2>2, <2>3
<1>10. rs.stream \in DOMAIN rs.rpcs
  BY <1>2, <1>3 DEF Sane, StoreOK
<1>11. Phases(t)
  BY <1>2, <1>3, <1>8, PhasesKept DEF Sane, StoreInv
<1>12. Attempt(t, t.rpcs[t.stream])
  BY <1>3, <1>5, <1>8, <1>10 DEF Attempt, UnderWay
<1>13. StoreInv(t)
  <2>1. Drained(t)
    BY <1>8 DEF Drained
  <2> QED BY <1>3, <1>8, <1>11, <1>12, <2>1 DEF StoreInv
<1>14. \A i \in DOMAIN rest :
         LiveIn(rs, rest, i) => rest[i].kind = "transient"
  <2> SUFFICES ASSUME NEW i \in DOMAIN rest, LiveIn(rs, rest, i)
               PROVE  rest[i].kind = "transient"
    OBVIOUS
  <2>1. /\ i + 1 \in DOMAIN tasks /\ rest[i] = tasks[i + 1]
        /\ LiveIn(rs, tasks, i + 1) /\ i + 1 # 1
    BY <1>1, <1>2, LiveTail
  <2>2. tasks[i + 1].kind \notin {"open", "handshake", "result"}
    BY <1>2, <1>3, <2>1 DEF Linked, Calls
  <2>3. tasks[i + 1].kind # "permanent"
    BY <1>2, <2>1 DEF Linked, ErrorNamesNext
  <2> QED BY <2>1, <2>2, <2>3 DEF LiveIn, StreamKinds
<1>15. \A i \in DOMAIN rest :
         LiveIn(rs, rest, i) =>
           /\ rest[i].kind \in Closing
           /\ rest[i].kind = "permanent" => ~t.handshake
  BY <1>14 DEF Closing
<1>16. t.handshake /\ t.stream # 0 /\ t.rpcs[t.stream].phase = "ready" =>
         t.rpcs[t.stream].reqs = SubSeq(t.pipeline, 1, Len(t.pipeline))
  BY <1>8, <1>9, <1>10
<1>17. Linked(t, rest)
  <2>1. Calls(rs, rest) /\ StoreOK(t)
    BY <1>2, <1>7
  <2>2. /\ t.closeCount = rs.closeCount /\ t.stream = rs.stream
        /\ DOMAIN t.rpcs = DOMAIN rs.rpcs
        /\ \A n \in DOMAIN rs.rpcs : /\ t.rpcs[n].cc = rs.rpcs[n].cc
                                     /\ t.rpcs[n].phase = rs.rpcs[n].phase
    BY <1>8, Zenon
  <2> HIDE DEF rest
  <2> QED BY <2>1, <2>2, <1>15, <1>16, OnlyEndsLinked
<1> QED BY <1>1, <1>4, <1>7, <1>8, <1>13, <1>17, CallbackStep DEF p

(* Taking the first batch off the pipeline leaves the rest in order, once  *)
(* the handshake is over or the stream is down.                            *)
LEMMA ShiftStays ==
  ASSUME NEW s, Sane(s), s.pipeline # <<>>, s.handshake \/ ~IsStarted(s)
  PROVE  LET t == [s EXCEPT !.pipeline = Tail(@)]
         IN  /\ Sane(t) /\ Alike(s, t) /\ Evolves(s, t)
             /\ t.pipeline = Tail(s.pipeline)
             /\ IsStarted(t) <=> IsStarted(s)
<1> DEFINE t == [s EXCEPT !.pipeline = Tail(@)]
<1>1. Tail(s.pipeline) \in Seq(BatchIds)
  BY HeadTailProperties, ChangedOK DEF Sane
<1>2. /\ t.state = s.state /\ t.closeCount = s.closeCount
      /\ t.handshake = s.handshake /\ t.stream = s.stream
      /\ t.pipeline = Tail(s.pipeline) /\ t.rpcs = s.rpcs /\ t.idle = s.idle
      /\ t.causes = s.causes /\ t.backoff = s.backoff /\ StoreOK(t)
  BY <1>1 DEF Sane, StoreOK, RemoteStoreType
<1> HIDE DEF t
<1>3. Alike(s, t) /\ Evolves(s, t) /\ (IsStarted(t) <=> IsStarted(s))
  <2>1. Alike(s, t)
    BY <1>2 DEF Alike
  <2> QED BY <2>1, EvolvesBasics DEF Sane
<1>4. Sound(t)
  BY <1>2 DEF Sane, Sound, UnderWay
<1>5. Phases(t)
  BY <1>2 DEF Sane, StoreInv, Phases, Current
<1>6. s.stream # 0 => Attempt(t, t.rpcs[t.stream])
  BY <1>2 DEF Sane, StoreInv, Attempt, UnderWay
<1>7. Drained(t)
  BY <1>2, <1>3 DEF Sane, StoreInv, Drained
<1>8. StoreInv(t)
  BY <1>2, <1>5, <1>6, <1>7 DEF Sane, StoreInv
<1> QED BY <1>2, <1>3, <1>4, <1>8 DEF Sane, t

(* A response answers the first batch of the pipeline.                     *)
LEMMA OnMutationResultStays ==
  ASSUME TypeOK, OneStreamOneRecovery, PipelineInv,
         "viewRefill" \notin Faults, OnMutationResult
  PROVE  PipelineInv'
<1> DEFINE s == [rs EXCEPT !.pipeline = Tail(@)]
           rest == Tail(tasks)
<1>1. /\ Running /\ tasks # <<>> /\ Head(tasks).kind = "result"
      /\ IsLive(Head(tasks))
  BY DEF OnMutationResult, NextTask
<1>2. /\ Sane(rs) /\ Linked(rs, tasks) /\ tasks \in Seq(TaskType)
      /\ rest \in Seq(TaskType) /\ CallbacksSound(rs, rest)
      /\ 1 \in DOMAIN tasks /\ tasks[1].kind = "result"
      /\ LiveIn(rs, tasks, 1) /\ 1 \in Answers(rs, tasks)
  BY <1>1, HeadCallback DEF StreamKinds
<1>3. rs.causes = {}
  BY <1>1, LiveCallback DEF StreamKinds
<1>4. rs.handshake
  BY <1>2 DEF Linked, Calls
<1>5. rs.pipeline # <<>> /\ Linked(s, rest)
  BY <1>1, <1>2, AnswerPopped DEF Sane
<1>6. DecideAndRefill("acknowledge", Head(rs.pipeline), s)
  BY <1>4, <1>5 DEF OnMutationResult
<1>7. Sane(s) /\ s.causes = {} /\ s.pipeline = Tail(rs.pipeline)
      /\ Evolves(rs, s)
  BY <1>2, <1>3, <1>4, <1>5, ShiftStays DEF Alike
<1> HIDE DEF s
<1>8. CallbacksSound(s, rest)
  BY <1>2, <1>7, CallbacksEvolve DEF Sane
<1> QED BY <1>1, <1>3, <1>5, <1>6, <1>7, <1>8, DecideAndRefillStays

(* The report of a stream's end finds no attempt that may get anywhere, so *)
(* forgetting the RPC before close() forgets nothing.                      *)
LEMMA EndedStays ==
  ASSUME TypeOK, OneStreamOneRecovery, PipelineInv, Running, tasks # <<>>,
         NEW kind \in Closing, Head(tasks).kind = kind, IsLive(Head(tasks))
  PROVE  LET closed == HandleStreamClose(rs)
         IN  /\ Sane(closed) /\ ~IsStarted(closed) /\ Evolves(rs, closed)
             /\ closed.causes = {} /\ closed.pipeline = rs.pipeline
             /\ CallbacksSound(closed, Tail(tasks))
             /\ Linked(closed, Tail(tasks))
<1> DEFINE w == [rs EXCEPT !.stream = 0]
           closed == HandleStreamClose(rs)
           rest == Tail(tasks)
<1>1. kind \in StreamKinds
  BY DEF Closing, StreamKinds
<1>2. /\ Sane(rs) /\ Linked(rs, tasks) /\ rest \in Seq(TaskType)
      /\ CallbacksSound(rs, rest) /\ 1 \in DOMAIN tasks
      /\ tasks[1].kind = kind /\ LiveIn(rs, tasks, 1)
  BY <1>1, HeadCallback
<1>3. rs.causes = {}
  BY <1>1, LiveCallback
<1>4. \A n \in DOMAIN rs.rpcs : ~Current(rs, n)
  BY <1>2 DEF Linked, Calls
<1>5. /\ w.rpcs = rs.rpcs /\ w.closeCount = rs.closeCount
      /\ w.state = rs.state /\ w.causes = rs.causes /\ w.stream = 0
      /\ w.pipeline = rs.pipeline /\ rs.closeCount \in Nat /\ StoreOK(w)
  BY <1>2 DEF Sane, StoreOK, RemoteStoreType
<1> HIDE DEF w
<1>6. Past(w) /\ Evolves(rs, w)
  BY <1>2, <1>5 DEF Sane, Sound, Past, Evolves, UnderWay
<1>7. Phases(w)
  <2>1. ASSUME NEW n \in DOMAIN rs.rpcs
        PROVE  rs.rpcs[n].phase \notin {"connecting", "open", "ready"}
    <3> SUFFICES ASSUME rs.rpcs[n].phase \in {"connecting", "open", "ready"}
                 PROVE  FALSE
      OBVIOUS
    <3>1. n = rs.stream
      BY <1>2 DEF Sane, StoreInv, Phases
    <3>2. n # 0
      BY <1>2, LenProperties DEF Sane, StoreOK, RemoteStoreType
    <3>3. rs.rpcs[n].cc = rs.closeCount
      BY <1>2, <3>1, <3>2 DEF Sane, StoreInv, Attempt
    <3> QED BY <1>4, <3>3 DEF Current
  <2>2. \A n \in DOMAIN w.rpcs : ~Current(w, n)
    BY <1>4, <1>5 DEF Current
  <2>3. ASSUME NEW n \in DOMAIN rs.rpcs
        PROVE  /\ rs.rpcs[n].phase = "token" => rs.rpcs[n].user # 0
               /\ rs.rpcs[n].phase \in {"auth", "token"} =>
                    rs.rpcs[n].reqs = <<>>
    BY <1>2 DEF Sane, StoreInv, Phases
  <2> QED BY <1>5, <2>1, <2>2, <2>3 DEF Phases
<1>8. closed = CloseStream(w, "Error")
  BY DEF HandleStreamClose, w
<1> HIDE DEF closed
<1>9. StoreOK(closed) /\ StoreInv(closed)
  BY <1>5, <1>6, <1>7, <1>8, CloseStreamOK, CloseStreamStays DEF StreamStates
<1>10. /\ Sound(closed) /\ ~IsStarted(closed) /\ Evolves(w, closed)
       /\ closed.causes = w.causes /\ closed.pipeline = w.pipeline
  BY <1>5, <1>6, <1>8, CloseStreamKeeps
<1>11. Evolves(rs, closed)
  BY <1>2, <1>5, <1>6, <1>9, <1>10, EvolvesBasics DEF Sane
<1>12. CallbacksSound(closed, rest)
  BY <1>2, <1>9, <1>11, CallbacksEvolve DEF Sane
<1>13. ~UnderWay(closed)
  BY <1>10 DEF UnderWay, IsStarted, IsOpen
<1>14. Linked(closed, rest)
  BY <1>9, <1>12, <1>13, StoppedLinked
<1>15. Sane(closed) /\ closed.causes = {} /\ closed.pipeline = rs.pipeline
  BY <1>3, <1>5, <1>9, <1>10 DEF Sane
<1> QED BY <1>10, <1>11, <1>12, <1>14, <1>15 DEF closed

(* An error ends the stream; after the handshake a permanent one rejects   *)
(* the first batch.                                                        *)
LEMMA OnStreamCloseStays ==
  ASSUME TypeOK, OneStreamOneRecovery, PipelineInv,
         "viewRefill" \notin Faults, NEW kind \in Closing, OnStreamClose(kind)
  PROVE  PipelineInv'
<1> DEFINE closed == HandleStreamClose(rs)
           rest == Tail(tasks)
<1>1. /\ Running /\ tasks # <<>> /\ Head(tasks).kind = kind
      /\ IsLive(Head(tasks))
  BY DEF OnStreamClose, NextTask
<1>2. /\ Linked(rs, tasks) /\ tasks[1].kind = kind
      /\ LiveIn(rs, tasks, 1) /\ 1 \in DOMAIN tasks
      /\ rest \in Seq(TaskType) /\ tasks \in Seq(TaskType) /\ Sane(rs)
  BY <1>1, HeadCallback DEF Closing, StreamKinds
<1>3. /\ Sane(closed) /\ ~IsStarted(closed) /\ Evolves(rs, closed)
      /\ closed.causes = {} /\ closed.pipeline = rs.pipeline
      /\ CallbacksSound(closed, rest) /\ Linked(closed, rest)
  BY <1>1, EndedStays
<1>4. rs.causes = {}
  BY <1>1, LiveCallback DEF Closing, StreamKinds
<1>5. CASE kind = "permanent" /\ rs.handshake
  <2> DEFINE shifted == [closed EXCEPT !.pipeline = Tail(@)]
             s == InhibitBackoff(shifted)
  <2>1. rs.pipeline # <<>>
    <3>1. Cardinality(Answers(rs, tasks)) < Len(rs.pipeline)
      BY <1>2, <1>5 DEF Linked, ErrorNamesNext
    <3>2. Cardinality(Answers(rs, tasks)) \in Nat
      BY <1>2, AnswersType
    <3> QED BY <3>1, <3>2
  <2>2. DecideAndRefill("reject", Head(rs.pipeline), s)
    BY <1>5, <2>1 DEF OnStreamClose
  <2> HIDE DEF closed
  <2>3. /\ Sane(shifted) /\ Evolves(closed, shifted) /\ Alike(closed, shifted)
        /\ shifted.pipeline = Tail(rs.pipeline) /\ ~IsStarted(shifted)
    BY <1>3, <2>1, ShiftStays
  <2>4. shifted.causes = {}
    BY <1>3, <2>3 DEF Alike
  <2> HIDE DEF shifted
  <2>5. Sane(s)
    BY <2>3, ChangedStays
  <2>6. /\ Evolves(shifted, s) /\ ~IsStarted(s)
        /\ s.causes = {} /\ s.pipeline = Tail(rs.pipeline)
    BY <2>3, <2>4, InhibitBackoffKeeps DEF Sane
  <2> HIDE DEF s
  <2>7. CallbacksSound(s, rest)
    <3>1. CallbacksSound(shifted, rest)
      BY <1>2, <1>3, <2>3, CallbacksEvolve DEF Sane
    <3> QED BY <1>2, <2>3, <2>5, <2>6, <3>1, CallbacksEvolve DEF Sane
  <2>8. Linked(s, rest)
    <3>1. ~UnderWay(s)
      BY <2>6 DEF UnderWay, IsStarted, IsOpen
    <3> QED BY <2>5, <2>7, <3>1, StoppedLinked DEF Sane
  <2> QED BY <1>1, <1>4, <2>1, <2>2, <2>5, <2>6, <2>7, <2>8,
             DecideAndRefillStays
<1>6. CASE ~(kind = "permanent" /\ rs.handshake)
  <2> DEFINE t == StartIfNeeded(closed)
  <2>1. rs' = t /\ tasks' = rest /\ UNCHANGED <<local, author>>
    BY <1>6 DEF OnStreamClose
  <2> HIDE DEF closed, rest
  <2>2. StoreInv(t) /\ Linked(t, rest)
    BY <1>3, StartIfNeededStays
  <2>3. t.causes = closed.causes /\ t.pipeline = closed.pipeline
    BY <1>3, StartIfNeededKeeps DEF Sane
  <2> HIDE DEF t
  <2>4. rs'.pipeline = rs.pipeline /\ rs'.causes = rs.causes
    BY <1>3, <1>4, <2>1, <2>3
  <2> QED BY <1>1, <2>1, <2>2, <2>4, CallbackStep
<1> QED BY <1>5, <1>6

(* The callbacks of the stream keep the invariant.                         *)
LEMMA StreamCallbacksStay ==
  ASSUME TypeOK, OneStreamOneRecovery, PipelineInv,
         "viewRefill" \notin Faults, StreamCallback
  PROVE  PipelineInv'
BY SkipStays, OnOpenStays, OnHandshakeStays, OnMutationResultStays,
   OnStreamCloseStays DEF StreamCallback, Closing

----------------------------------------------------------------------------
(* Timers of the stream                                                    *)

(* The idle timer closes a drained stream; the backoff timer starts one.   *)
LEMMA StreamTimersStay ==
  ASSUME TypeOK, OneStreamOneRecovery, PipelineInv,
         IdleTimeout \/ BackoffElapsed
  PROVE  PipelineInv'
<1>1. /\ Sane(rs) /\ Linked(rs, tasks) /\ tasks \in Seq(TaskType)
      /\ CallbacksSound(rs, tasks)
  BY PipelineParts, InvParts DEF IdleTimeout, BackoffElapsed
<1>2. Running /\ UNCHANGED <<local, author, tasks>>
  BY DEF IdleTimeout, BackoffElapsed
<1>3. CASE IdleTimeout
  <2> DEFINE closed == CloseStream(rs, "Initial")
             t == StartIfNeeded(closed)
  <2>1. IsOpen(rs)
    BY <1>1, <1>3 DEF IdleTimeout, Sane, StoreInv, Drained
  <2>2. rs' = t
    BY <1>3, <2>1 DEF IdleTimeout
  <2>3. /\ StoreOK(closed) /\ StoreInv(closed) /\ Sound(closed)
        /\ ~IsStarted(closed) /\ Evolves(rs, closed)
        /\ closed.causes = rs.causes /\ closed.pipeline = rs.pipeline
    BY <1>1, CloseStreamOK, CloseStreamStays, CloseStreamKeeps, SoundIsPast
       DEF StreamStates, Sane, StoreInv
  <2> HIDE DEF closed
  <2>4. Sane(closed) /\ CallbacksSound(closed, tasks)
    BY <1>1, <2>3, CallbacksEvolve DEF Sane
  <2>5. Linked(closed, tasks)
    <3>1. ~UnderWay(closed)
      BY <2>3 DEF UnderWay, IsStarted, IsOpen
    <3> QED BY <2>3, <2>4, <3>1, StoppedLinked
  <2>6. StoreInv(t) /\ Linked(t, tasks)
    BY <2>4, <2>5, StartIfNeededStays
  <2>7. t.causes = closed.causes /\ t.pipeline = closed.pipeline
    BY <2>4, StartIfNeededKeeps DEF Sane
  <2> HIDE DEF t
  <2> QED BY <1>2, <2>2, <2>3, <2>6, <2>7, CallbackStep
<1>4. CASE BackoffElapsed
  <2> DEFINE w == [rs EXCEPT !.backoff = FALSE, !.state = "Initial"]
             t == StartStream(w)
  <2>1. rs.state = "Backoff" /\ rs' = t
    BY <1>1, <1>4 DEF BackoffElapsed, Sane, Sound
  <2>2. rs.stream = 0 /\ ~rs.idle /\ rs.pipeline # <<>> /\ ~UnderWay(rs)
    BY <1>1, <2>1 DEF Sane, StoreInv, Attempt, Drained, UnderWay,
                      IsStarted, IsOpen
  <2>3. /\ StoreOK(w) /\ ~w.backoff /\ w.state = "Initial"
        /\ w.closeCount = rs.closeCount /\ w.stream = 0 /\ ~w.idle
        /\ w.causes = rs.causes /\ w.pipeline = rs.pipeline
        /\ w.rpcs = rs.rpcs
    BY <1>1, <2>2 DEF Sane, StoreOK, RemoteStoreType, StreamStates
  <2> HIDE DEF w
  <2>4. Sound(w) /\ Phases(w) /\ ~UnderWay(w)
    BY <1>1, <2>2, <2>3
       DEF Sane, StoreInv, Sound, Phases, Current, UnderWay
  <2>5. StoreInv(t) /\ ~t.handshake
    BY <2>2, <2>3, <2>4, StartStreamStays
  <2>6. /\ StoreOK(t) /\ t.causes = rs.causes /\ t.pipeline = rs.pipeline
        /\ t.closeCount = rs.closeCount
    <3>1. Past(w)
      BY <2>4, SoundIsPast
    <3>2. StoreOK(t) /\ t.causes = w.causes /\ t.pipeline = w.pipeline
      BY <2>3, <2>4, <3>1, StartStreamKeeps, StartStreamOK
    <3>3. t.closeCount = w.closeCount
      BY <2>3 DEF StartStream, PerformBackoff, Auth, StoreOK, RemoteStoreType
    <3> QED BY <2>3, <3>2, <3>3
  <2> HIDE DEF t
  <2>7. \A i \in DOMAIN tasks : ~LiveIn(t, tasks, i)
    BY <1>1, <2>2, <2>6 DEF CallbacksSound, LiveIn
  <2>8. Linked(t, tasks)
    BY <2>5, <2>6, <2>7, SilentLinked
  <2> QED BY <1>2, <2>1, <2>5, <2>6, <2>8, CallbackStep
<1> QED BY <1>3, <1>4

----------------------------------------------------------------------------
(* Retryable operations.  ops and rest are what RunRetryTask and           *)
(* RetryTimer pass.                                                        *)

(* The one recovery takes its batch off the queue, or ends the outage, or  *)
(* tries again.                                                            *)
LEMMA RetryRecoveryStays ==
  ASSUME TypeOK, OneStreamOneRecovery, PipelineInv, Running,
         "viewRefill" \notin Faults,
         NEW ops \in Seq(TaskType), ops # <<>>, NEW rest \in Seq(TaskType),
         CallbacksSound(rs, rest), OneRecovery(rs, ops, rest),
         Linked(rs, rest), RetryRecovery(ops, rest), UNCHANGED author
  PROVE  PipelineInv'
<1> DEFINE back == [rs EXCEPT !.causes = @ \ {"IndexedDbFailed"}]
           b == Head(ops).batch
<1>1. /\ Sane(rs) /\ QueuesInOrder /\ Ascends(OwnQueue)
      /\ Mirrors(rs, OwnQueue) /\ OwnQueue \in Seq(BatchIds)
  BY PipelineParts, InvParts
<1>2. "IndexedDbFailed" \in rs.causes
  <2>1. RecoversIn(ops, 1)
    BY QueueSteps DEF RetryRecovery, RecoversIn
  <2> QED BY <2>1, RecoveryEnds
<1>3. ~IsStarted(rs) /\ rs.pipeline = <<>>
  BY <1>2, InvParts DEF Follows, CanUseNetwork
<1>4. /\ ~IsStarted(back) /\ back.pipeline = <<>>
      /\ CallbacksSound(back, rest)
  BY <1>3, InvParts, ComingBack
<1>5. Sane(back)
  <2>1. rs.causes \ {"IndexedDbFailed"} \in SUBSET OfflineCauses
    BY InvParts
  <2> QED BY <1>1, <2>1, ChangedStays
<1> HIDE DEF back, b
<1>6. CASE /\ local' = RemoveBatch(b)
           /\ EnableNetworkInternal(back, RemoveBatch(b).queue[local.user],
                                    rest, used)
  <2> DEFINE q == Without(OwnQueue, b)
  <2>1. /\ QueuesInOrder' /\ OwnQueue' = q
        /\ RemoveBatch(b).queue[local.user] = q
    BY <1>1, <1>6, RemoveKeepsOrder
  <2>2. q \in Seq(BatchIds) /\ Ascends(q)
    BY <1>1, WithoutParts
  <2>3. EnableNetworkInternal(back, q, rest, used)
    BY <1>6, <2>1
  <2> HIDE DEF q
  <2>4. StoreInv(rs') /\ Linked(rs', tasks') /\ Mirrors(rs', q)
    BY <1>4, <1>5, <2>2, <2>3, EnableNetworkInternalStays
  <2> QED BY <2>1, <2>4, PipelineStep
<1>7. CASE local' = local /\ EnableNetworkInternal(back, OwnQueue, rest, used)
  <2>1. QueuesInOrder' /\ OwnQueue' = OwnQueue
    BY <1>1, <1>7, SameQueues DEF OwnQueue
  <2>2. StoreInv(rs') /\ Linked(rs', tasks') /\ Mirrors(rs', OwnQueue)
    BY <1>1, <1>4, <1>5, <1>7, EnableNetworkInternalStays
  <2> QED BY <2>1, <2>2, PipelineStep
<1>8. CASE UNCHANGED <<rs, local>> /\ tasks' = rest
  <2>1. QueuesInOrder' /\ OwnQueue' = OwnQueue
    BY <1>1, <1>8, SameQueues DEF OwnQueue
  <2>2. StoreInv(rs') /\ Linked(rs', tasks') /\ Mirrors(rs', OwnQueue)
    BY <1>1, <1>8 DEF Sane
  <2> QED BY <2>1, <2>2, PipelineStep
<1> QED BY <1>6, <1>7, <1>8 DEF RetryRecovery, IdbFailsAgain, Conclude, back, b

(* A change of credentials goes offline and comes back with the queue of   *)
(* whoever is signed in then; while it fails the network stays off.        *)
LEMMA HandleCredentialChangeStays ==
  ASSUME TypeOK, OneStreamOneRecovery, PipelineInv,
         NEW u \in Users, NEW ops \in Seq(TaskType),
         NEW rest \in Seq(TaskType), CallbacksSound(rs, rest),
         HandleCredentialChange(u, ops, rest), UNCHANGED author
  PROVE  PipelineInv'
<1> DEFINE c == rs.causes \union {"CredentialChange"}
           off == DisableNetworkInternal([rs EXCEPT !.causes = c])
           on == [off EXCEPT !.causes = @ \ {"CredentialChange"}]
<1>1. /\ QueuesInOrder /\ StoreInv(rs)
      /\ \A v \in Users : Ascends(local.queue[v])
      /\ \A v \in Users : local.queue[v] \in Seq(BatchIds)
      /\ local.user \in Users
  BY PipelineParts, QueuesOK DEF Sane, TypeOK
<1>2. c \in SUBSET OfflineCauses /\ c # {}
  BY InvParts DEF OfflineCauses
<1> HIDE DEF c
<1>3. /\ Sane(off) /\ ~IsStarted(off) /\ off.pipeline = <<>>
      /\ off.causes = c /\ CallbacksSound(off, rest) /\ Linked(off, rest)
  BY <1>1, <1>2, OfflineStays
<1> HIDE DEF off
<1>4. /\ Sane(on) /\ ~IsStarted(on) /\ on.pipeline = <<>>
      /\ CallbacksSound(on, rest)
  <2>1. off.causes \ {"CredentialChange"} \in SUBSET OfflineCauses
    BY <1>2, <1>3
  <2>2. Sane(on)
    BY <1>3, <2>1, ChangedStays
  <2> QED BY <1>3, <2>1, <2>2, ComingBack DEF Sane
<1> HIDE DEF on
<1>5. \E v \in Users :
        /\ local'.user = v /\ local'.queue = local.queue
        /\ \/ EnableNetworkInternal(on, local.queue[v], rest, used)
           \/ rs' = off /\ tasks' = rest
  <2>1. \A v \in Users :
          LET l == [local EXCEPT !.user = v]
          IN  l.user = v /\ l.queue = local.queue
    BY DEF TypeOK, LocalType
  <2>2. CASE u = engine.user /\ local' = local
             /\ EnableNetworkInternal(on, OwnQueue, rest, used)
    BY <1>1, <2>2 DEF OwnQueue
  <2>3. CASE local' = [local EXCEPT !.user = u]
             /\ EnableNetworkInternal(on, local.queue[u], rest, used)
    BY <2>1, <2>3
  <2>4. CASE \E v \in {u, local.user} :
               /\ local' = [local EXCEPT !.user = v]
               /\ rs' = off /\ tasks' = rest
    BY <1>1, <2>1, <2>4
  <2> QED BY <2>2, <2>3, <2>4
          DEF HandleCredentialChange, IdbFailsAgain, on, off, c
<1>6. PICK v \in Users :
        /\ local'.user = v /\ local'.queue = local.queue
        /\ \/ EnableNetworkInternal(on, local.queue[v], rest, used)
           \/ rs' = off /\ tasks' = rest
  BY <1>5
<1>7. QueuesInOrder' /\ OwnQueue' = local.queue[v]
  BY <1>1, <1>6, SameQueues DEF OwnQueue
<1>8. CASE EnableNetworkInternal(on, local.queue[v], rest, used)
  <2>1. StoreInv(rs') /\ Linked(rs', tasks') /\ Mirrors(rs', local.queue[v])
    BY <1>1, <1>4, <1>8, EnableNetworkInternalStays
  <2> QED BY <1>7, <2>1, PipelineStep
<1>9. CASE rs' = off /\ tasks' = rest
  <2>1. StoreInv(rs') /\ Linked(rs', tasks')
    BY <1>3, <1>9 DEF Sane
  <2>2. Mirrors(rs', OwnQueue')
    BY <1>2, <1>3, <1>9 DEF Mirrors, CanUseNetwork
  <2> QED BY <1>7, <2>1, <2>2, PipelineStep
<1> QED BY <1>6, <1>8, <1>9

(* retryNextOp keeps the invariant.                                        *)
LEMMA RetryNextOpStays ==
  ASSUME TypeOK, OneStreamOneRecovery, PipelineInv, Running,
         "viewRefill" \notin Faults,
         NEW ops \in Seq(TaskType), ops # <<>>, NEW rest \in Seq(TaskType),
         CallbacksSound(rs, rest), OneRecovery(rs, ops, rest),
         Linked(rs, rest), RetryNextOp(ops, rest)
  PROVE  PipelineInv'
<1>1. creds.user \in Users /\ engine.user \in Users
  BY DEF TypeOK, EngineType
<1>2. UNCHANGED author
  BY DEF RetryNextOp, RetryRecovery, RetryCredentials
<1>3. CASE RetryRecovery(ops, rest)
  BY <1>2, <1>3, RetryRecoveryStays
<1>4. CASE \E u \in Users : HandleCredentialChange(u, ops, rest)
  BY <1>2, <1>4, HandleCredentialChangeStays
<1>5. CASE UNCHANGED <<rs, local>> /\ tasks' = rest
  <2>1. QueuesInOrder' /\ OwnQueue' = OwnQueue
    BY <1>2, <1>5, SameQueues DEF OwnQueue, PipelineInv
  <2>2. StoreInv(rs') /\ Linked(rs', tasks') /\ Mirrors(rs', OwnQueue)
    BY <1>5 DEF PipelineInv
  <2> QED BY <2>1, <2>2, PipelineStep
<1> QED BY <1>1, <1>3, <1>4, <1>5 DEF RetryNextOp, RetryCredentials

(* So do the task and the timer that call it.                              *)
LEMMA RetriesStay ==
  ASSUME TypeOK, OneStreamOneRecovery, PipelineInv,
         "viewRefill" \notin Faults, RunRetryTask \/ RetryTimer
  PROVE  PipelineInv'
<1>1. Running /\ Linked(rs, tasks) /\ tasks \in Seq(TaskType)
      /\ retryOps \in Seq(TaskType) /\ CallbacksSound(rs, tasks)
      /\ OneRecovery(rs, retryOps, tasks)
  BY InvParts DEF PipelineInv, RunRetryTask, RetryTimer
<1>2. CASE RunRetryTask
  <2> DEFINE ops == Append(retryOps, Head(tasks))
             rest == Tail(tasks)
  <2>1. /\ tasks # <<>> /\ Head(tasks).kind \in OpKinds
        /\ RetryNextOp(ops, rest)
    BY <1>2 DEF RunRetryTask
  <2>2. Head(tasks) \in TaskType /\ rest \in Seq(TaskType)
    BY <1>1, <2>1, HeadTailProperties
  <2>3. ops \in Seq(TaskType) /\ ops # <<>>
    BY <1>1, <2>2, AppendProperties
  <2>4. CallbacksSound(rs, rest) /\ OneRecovery(rs, ops, rest)
    BY <1>1, <2>1, CallbacksTail, RecoveryMoves
  <2>5. Linked(rs, rest)
    <3>1. Head(tasks) = tasks[1]
      BY <1>1, <2>1, LiveTail
    <3>2. 1 \notin Answers(rs, tasks)
      BY <2>1, <3>1 DEF Answers, OpKinds
    <3> QED BY <1>1, <2>1, <3>2, LinkedTail
  <2> HIDE DEF ops, rest
  <2> QED BY <1>1, <2>1, <2>2, <2>3, <2>4, <2>5, RetryNextOpStays
<1>3. CASE RetryTimer
  BY <1>1, <1>3, RetryNextOpStays DEF RetryTimer
<1> QED BY <1>2, <1>3

----------------------------------------------------------------------------
(* The theorems                                                            *)

(* The invariant holds at first.                                           *)
LEMMA PipelineInvInitially ==
  ASSUME Init
  PROVE  PipelineInv
<1>1. /\ rs = NewRemoteStore(<<>>) /\ tasks = <<>>
      /\ local.queue = [u \in Users |-> <<>>] /\ local.user = 1
  BY DEF Init
<1>2. /\ rs.state = "Initial" /\ ~rs.idle /\ rs.rpcs = <<>> /\ ~rs.handshake
      /\ rs.stream = 0 /\ rs.pipeline = <<>>
  BY <1>1 DEF NewRemoteStore
<1>3. StoreInv(rs)
  BY <1>2 DEF StoreInv, Phases, Drained, IsStarted, IsOpen
<1>4. QueuesInOrder
  BY <1>1 DEF QueuesInOrder, Ascends
<1>5. Linked(rs, tasks)
  <2>1. Answers(rs, tasks) = {}
    BY <1>1 DEF Answers
  <2>2. Cardinality(Answers(rs, tasks)) = 0 /\ Len(rs.pipeline) = 0
    BY <1>2, <2>1, FS_EmptySet
  <2> QED BY <1>1, <1>2, <2>1, <2>2
          DEF Linked, Calls, Correlated, ErrorNamesNext
<1>6. OwnQueue = <<>>
  <2>1. 1 \in Users
    BY UsersAssumption DEF Users
  <2> QED BY <1>1, <2>1 DEF OwnQueue
<1>7. Mirrors(rs, OwnQueue)
  <2>1. Least(MaxPending, Len(<<>>)) = 0
    BY PendingAssumption DEF Least
  <2>2. SubSeq(<<>>, 1, 0) = <<>>
    OBVIOUS
  <2> QED BY <1>2, <1>6, <2>1, <2>2 DEF Mirrors
<1> QED BY <1>3, <1>4, <1>5, <1>7 DEF PipelineInv

(* Nothing changes what the invariant speaks of.                           *)
LEMMA SamePipeline ==
  ASSUME PipelineInv, UNCHANGED vars
  PROVE  PipelineInv'
<1>1. UNCHANGED <<rs, local, tasks, author, mode>>
  BY DEF vars
<1> QED BY <1>1 DEF PipelineInv, QueuesInOrder, Running, OwnQueue

(* Every step keeps it.                                                    *)
LEMMA PipelineInvStep ==
  ASSUME TypeOK, OneStreamOneRecovery, PipelineInv,
         "reenable" \notin Faults, "viewRefill" \notin Faults, [Next]_vars
  PROVE  PipelineInv'
<1>1. CASE Application
  BY <1>1, WriteStays, NetworkCallsStay, QuietCallsStay, RestartStays
     DEF Application
<1>2. CASE StreamCallback
  BY <1>2, StreamCallbacksStay
<1>3. CASE RunRetryTask \/ Timer
  BY <1>3, RetriesStay, StreamTimersStay DEF Timer
<1>4. CASE \E n \in Rpcs :
             \/ TokenFetched(n) \/ StartRpc(n) \/ TokenFetchFails(n)
             \/ Backend(n)
             \/ StreamBreaks(n, "transient") \/ StreamBreaks(n, "permanent")
             \/ OrphanCommits(n)
  BY <1>4, AttemptsStay
<1>5. CASE UNCHANGED vars
  BY <1>5, SamePipeline
<1> QED BY <1>1, <1>2, <1>3, <1>4, <1>5 DEF Next

(* Every attempt of the stream, every callback it may still make, every    *)
(* answer and every request fit the pipeline and the mutation queues, when *)
(* the application enables no network that is enabled and no view refill   *)
(* fails (persistent_stream.ts; remote_store.ts, fillWritePipeline to      *)
(* onWriteStreamClose).                                                    *)
THEOREM PipelineStaysLinked ==
  ASSUME "reenable" \notin Faults, "viewRefill" \notin Faults
  PROVE  Spec => []PipelineInv
<1>1. Init => PipelineInv
  BY PipelineInvInitially
<1>2. TypeOK /\ OneStreamOneRecovery /\ PipelineInv /\ [Next]_vars
        => PipelineInv'
  BY PipelineInvStep
<1>3. Spec => []OneStreamOneRecovery
  BY NetworkStaysSound
<1> QED BY <1>1, <1>2, <1>3, PipelineTyped, PTL DEF Spec

(* The idle timer runs only on an open stream without work (markIdle and   *)
(* cancelIdleCheck of persistent_stream.ts).                               *)
THEOREM IdleAlwaysDrained ==
  ASSUME "reenable" \notin Faults, "viewRefill" \notin Faults
  PROVE  Spec => []IdleOnlyWhenDrained
<1>1. PipelineInv => IdleOnlyWhenDrained
  BY DEF PipelineInv, StoreInv, Drained, IdleOnlyWhenDrained
<1> QED BY <1>1, PipelineStaysLinked, PTL

(* Online, the pipeline is the front of the current user's mutation queue, *)
(* as much of it as may be in flight (fillWritePipeline).                  *)
THEOREM PipelineAlwaysMirrors ==
  ASSUME "reenable" \notin Faults, "viewRefill" \notin Faults
  PROVE  Spec => []PipelineMirrorsQueue
<1>1. PipelineInv => PipelineMirrorsQueue
  BY DEF PipelineInv, Mirrors, PipelineMirrorsQueue
<1> QED BY <1>1, PipelineStaysLinked, PTL

(* The answers still on their way, followed by the requests still          *)
(* unanswered, are the pipeline: no response meets the wrong write         *)
(* (onMutationResult).                                                     *)
THEOREM ResultsAlwaysCorrelate ==
  ASSUME "reenable" \notin Faults, "viewRefill" \notin Faults
  PROVE  Spec => []ResultsCorrelate
<1>1. PipelineInv => ResultsCorrelate
  BY DEF PipelineInv, Linked, ResultsCorrelate
<1> QED BY <1>1, PipelineStaysLinked, PTL

=============================================================================
